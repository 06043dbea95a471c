# A TLA+ verification of fasthttploader

fasthttploader finds out how many requests a second an HTTP server bears and
then loads it with that. It is a small program with four kinds of goroutines
that share a channel of permits, a channel of jobs and a set of package-level
counters. This project models the parts where those meet, checks them with TLC
on small instances, and proves the results that matter most with TLAPS.

## The system

| component | where | state | operations | what is hard |
|---|---|---|---|---|
| rate limiter | `ratelimiter/ratelimiter.go` | `limit`, `lastEvent` under `mu`; the channel `ch` (1e6); a 5 ms ticker; `surplus` in the goroutine | goroutine `start`, `SetLimit`, `Limit`, `Stop`, `QPS` | `start` computes outside the lock and fills a bounded channel while `SetLimit` drains it; `Stop` waits for `start` |
| client and workers | `fastclient/client.go` | `Jobsch` (10000), `wg`, `workers`, label maps | `New`, `RunWorkers`, `run`, `Flush`, `Amount`, `Overflow` | workers outlive the client that the program uses; `Flush` closes the channel they range over |
| metrics | `fastclient/metrics.go` | package variables that refer to counters | `initMetrics`, readers | replaced one after another while workers increment; read one after another while workers increment |
| sampling | `printState` in `loader.go` | the report page | one call every 500 ms | unlocked iteration over maps that workers write |
| burst, adjustment | `burstThroughput`, `calibrateThroughput`, `calibrate`, `isFlawed` in `loader.go` | `loadConfig`, `await`, `multiplier`, `errors` | one turn every 500 ms | several reads of a moving counter; integer arithmetic |
| load phase | `run`, `makeLoad`, `load` | context, timers | `Stop` then `cancel`, report at the end | three goroutines that may block on each other; package variables without locks, shared by taking turns |
| connections | `dial`, `hostConn` | gauge and counters per generation, `closed` | `dial`, `Read`, `Write`, `Close` | connections keep the metrics of the generation they were made in; `dial` reads the gauge twice; `Close` may come twice |
| report | `report/report.qtpl`, `report/utils.go` | series of samples | `UpdateRequestDuration`, `rate`, `PrintPage` | counters restart between phases; a gauge below zero becomes an `uint64` |
| command line | `main.go` | flags | sequential set-up | - |

How they interact: `load` receives a permit from `throttle.QPS()` and sends a
job to `client.Jobsch`; a worker takes it, does the request and increments the
counters. A sampling goroutine reads the counters every 500 ms and, in the
adjustment, calls `throttle.SetLimit` and `client.RunWorkers`. When its timeout
comes it cancels the context `load` looks at. Each phase makes a new client, and
`New` makes new counters.

What makes each part correct:

- limiter: never more messages than the limit allows for the time that passed,
  whatever calls overlap; nothing after `Stop`; calls return; messages do come.
- client: every job sent is done and counted exactly once; a flushed client has
  nothing left of what it did before; the counters agree with each other up to
  the requests under way.
- sampling: a sample is consistent up to the requests under way; it ends; samples of one stage are taken by one goroutine.
- adjustment: every error is answered, once, before anything grows; changes are
  spaced; what the load phase starts with is what was reached.
- load phase: stages come in turn, each with the results of the one before; the
  test ends, and the report is written once, of a test at rest.
- connections: the gauge is the number of open connections.
- report: a rate is the difference of two samples of one phase, nothing is shown
  twice, and all series have an entry for each sample.

## Modules

| module | models |
|---|---|
| `RateBudget` | abstract specification of a rate limiter: a budget of `MaxRate` permits per `Second`, at most `Cap` waiting, none after it is closed |
| `Limiter` | `ratelimiter.go`; implements `RateBudget` |
| `LimiterProofs` | theorems about `Limiter` |
| `WorkPool` | abstract specification of a client that is used and flushed: jobs sent, begun, done once or dropped, and a count that starts anew |
| `Client` | `client.go` (`New`, `RunWorkers`, `Flush`, `run`) with the counters of `metrics.go`; implements `WorkPool` |
| `ClientProofs` | theorems about `Client` |
| `Sampler` | extends `Client` by `printState` and the counters' readers |
| `SamplerProofs` | theorems about `Sampler`; extends `ClientProofs` |
| `Calibrate` | the burst's result, `calibrate` and `isFlawed` |
| `CalibrateProofs` | theorems about `Calibrate` |
| `TestPlan` | abstract specification of a test: its stages in turn, samples, one report or none |
| `Loader` | `loader.go`: `run`, the stages with their goroutines, `load`; implements `TestPlan` |
| `LoaderProofs` | theorems about `Loader` |
| `Connections` | `dial`, `hostConn` and their metrics across calls of `New` |
| `ConnectionsProofs` | theorems about `Connections` |
| `Tally`, `TallyProofs` | the sum of the numbers that a function takes, and the facts about it that the proofs use |
| `Report` | operators: the page, `rate`, the conversions and series of `PrintPage` |
| `Page` | extends `Connections` and `Report`: the samples of `printState` over the stages of a test |
| `PageProofs` | theorems about `Page`; extends `ConnectionsProofs` |
| `MCLimiter`, `MCClient`, `MCSampler`, `MCCalibrate`, `MCLoader` | values of constants and symmetry for TLC |

`Loader` composes what `Limiter`, `Client` and `Calibrate` show of their parts, at the
size at which a whole test can be checked: of the limiter its blocking goroutine and
the steps of `SetLimit` and `Stop`, of a client the length of `Jobsch` and its busy
workers, of `calibrate` that it waits, adds workers or calls `SetLimit`. `Sampler` and
`Page` are two views of `printState`: the order of its reads within one sample, and
what the samples of several stages make of the report.

Operators named "Mutant" are wrong variants of the definition that follows
them, each a plausible slip; they are used by no specification. Substituting one
for its definition makes the property named for it in `PROJECT.json` fail, which
shows that the property depends on that code.

### Limiter

A section under `l.mu` is one step, and so is each channel operation. `start` is
`Tick` (the select and `time.Now()`), `Tokens` (the locked read), `Count` (which
reads `len(l.ch)` outside the lock), `Fill` once per message and `Stamp` (the
write of `lastEvent`). `SetLimit` is `SetLimit` (clamp and `setLimit(0)`), `Drain`
and `Drained` (`drainChan`) and `SetLimitReturn`. `Stop` is `Stop`, `Done` (the
rendezvous on `doneCh`), and the same drain. Messages carry no data, so `ch` is
its length. Token counts are floats in the code; here they are integers in units
of 1/`Second` token with limits that are whole numbers, so they are exact:
rounding of floats is not modelled. `Advance` is the clock together with the
ticker, which keeps one tick and drops others. `ZeroTime` stands for the zero
`time.Time` of a new limiter's `lastEvent`. The zero time lies 2000 years back:
`now.Sub` saturates in the code, but the limit is 0 until the first `SetLimit`, so
the product is 0 in both.

`Stop` is called once and no `SetLimit` begins after it, as its comment asks
("cant be used after Stop"); a `SetLimit` already under way goes on.

### Client

Jobs are counted only. A worker's position `at` is the statement it is about to
execute: the name of a counter stands for the increment of that counter. `Do`
gives any error and any status code at once: after an error `run` looks at
whatever `resp` holds, and the code around it does nothing to clear it.
`initMetrics` is one step per variable, in the order of the code. `Refers(m)` is
the generation that variable `m` refers to. The variables are written and read
without synchronisation; the model takes each access as atomic and the writes as
seen in order, which is what the Go compiler makes of pointer-sized stores with
calls between them. A worker reads the variable and increments in one step: the
counter itself is atomic.

The wait group is not a variable: it is the number of workers started and not
exited. `chan` records which `Jobsch` of its client a worker ranges over.
`MaxClients` is the number of phases. `Flush` is exported and nothing in the
repository calls it; it is modelled as a call of the goroutine that sends the jobs.

`ImplementsPool` maps a client to `WorkPool`: `waiting` is what its channel holds, `busy` the workers with a
job, `done` the `requestSum` it shows, and the pool is shut from the begin of `Flush` to the end of its
`Wait`. The calls of `RunWorkers`, the start of a goroutine, the statements of `run` before the last and the
writes of `initMetrics` are no steps of the pool.

### Sampler

`printState` is one step per reader, in the order `Following`. A label stored by
a worker while `StatusCodes()` or `ErrorMessages()` iterates may crash the
program (`Crash`) or not (the worker's ordinary `Count`). Each of the two functions reads
the counters of all labels in one step at the end of its iteration.
The debug output is left out; connections, bytes, QPS and durations are in `Page`.

### Calibrate

`Work` is everything the client does that the controller can see: another
goroutine comes to run, the queue becomes empty or not, an error is counted. The
three reads of `isFlawed` are three steps. A limit is rounded down to 1/`Unit`; the
multiplier, a float in the code, is a fraction that each division by 1.2 turns into
5/6 of itself, and `shrinks` counts the divisions. The counter of errors starts from 0 with the new client.
A member of `Bursts` is what the end of the burst reads, one after another while workers count: `RequestSum()` for
the rate (`sum`), `Amount()`, `Errors()`, and `RequestSum()` again (`divisor`), which is no smaller than the first.

### Loader

`main` is the goroutine of `run` and `timer` the one that `calibrateThroughput` or
`makeLoad` starts; `filler` is the limiter's. A goroutine's value is the statement it
is at: `Default` and `Send` are the default case of the burst's `select`, `Receive`, `Send`
and `Return` the loop of `load`, `Following` the order of the statements of a stage's goroutine.
`SetLimit` and `Stop` are one step for each message drained, as in `Limiter`.
`main` reaches `Create` only after `cancel()`, and the program may end while a stage's
goroutine is at its `return`.

The first stage, the URL and `-c` are chosen in `Init`: they stand for the command line
(`-q` leaves out the burst and the adjustment). `cfg` has the number of workers and,
as history, which stage determined it; the rate is in `Calibrate`. `acquireAddr`
ends the program when host and port are both missing, or for a port that is not a number above -1;
a port alone passes.

Time is not modelled, but two facts of it are used in `Ring`: the ten seconds of the
burst are enough for a request to end, or, when the server answers none in that time, for
filling `Jobsch` until the sender blocks with every worker busy. Timers of the other stages ring at any
moment. `BurstMeasures` says that this suffices: a sender blocked past its timeout goes
on only after a worker has come back for another job, and has counted one.

### Connections, Report, Page

Metrics are numbered by generation: 0 is that of the client made first. `dial(c)` is the
dialling, `setupTCPConn`, `Count` (`connOpen.Inc()`) and a `Keep` for each variable read by the composite
literal, in its order. `Close` is the atomic increment of `closed` and, for the first
call, `Dec`. `Read` and `Write` are `Move`, with 0 or 1 bytes and an error or none:
what is told apart is whether they move anything. A connection is dialled once: the
next one of the same worker is another member of `Conns`.

In `Report` a chart is a function from the names of its series to their data, and a
rate is per `Interval`, so the division by it is left out. Numbers of an `uint64`
are below `Word`; the conversion of a negative gauge to `uint64` depends on the
processor in Go and is either of its two outcomes. Durations are "seconds" or "NaN": the
charts only need one for each sample. In `Page`, `Serve` counts a whole request and `printState` takes a whole
sample between two calls of `New`, which is when it runs (`OneReader`); how reads and
increments interleave is in `Sampler`. When `New` begins, `count` restarts; requests of the
former stage's workers that are counted later are requests of the new generation, as the code counts them.

## Runs

| run | shows | bounds |
|---|---|---|
| `limiter` | `RateBound`, `StopQuiet`, `LimitRestored`, `OnRate` (fresh limiter), the inductive `Accounts`, the liveness `Flows` and `CallsReturn`, and the refinement of `RateBudget` | two callers and two `SetLimit` calls, so that calls overlap with each other, a fill and a `Stop`; rates above and below one message a tick; clock of 4 with 2 units a second; a buffer of 2, smaller than what accrues, so `start` blocks |
| `limiter_setclears` | violation: `ch` is not empty when `SetLimit` returns | as small as shows it |
| `client_flush` | `OwnRequests`, `FlushClean`, `AmountOfCreated`, `DivisorPositive`, `FlushReturns`, and the refinement of `WorkPool` | one client, one `Flush`, two workers in any state, three jobs |
| `client_new` | `LedgerBalanced`, `SuccessWithinSum`, `JobsServed` | two clients, two workers owned by either, two jobs: a worker of the first is in any statement while each variable is replaced |
| `client_pollution` | violation: requests of the former phase's backlog are counted in the next | two clients |
| `client_failed` | violation: a failed request is a success | one worker, one job |
| `sampler_keepup` | `ErrorsKeepUp`, `CodesCoverTotal` | one client, as with `-q`; two workers, three jobs (one more than the gap allowed), one sample |
| `sampler_crash` | violation: a sample ends the program | one worker |
| `loader` | `OneReader`, `LimiterSerial`, `QuietEnd`, `BurstMeasures`, the liveness `Ends`, and the refinement of `TestPlan` | all three stages; two workers, `-c` of 0 and 1; `Jobsch` and `ch` hold one, so that the sender, the limiter and `Stop` block; two messages due at a tick; a port without a host, neither, and a bad port |
| `page` | `GaugeIsOpen`, `BarsAreGrowth`, `NothingTwice`, `Aligned`, `ConnectionsPlausible` | two generations; one connection, so that `New` may come at any statement of `dial` and `Close` be called twice on either side; three samples (two of one stage and one of another), one request, one `Read` or `Write` |
| `calibrate_turns` | `ErrorsAnsweredOnce`, `NoGrowthOnErrors`, `Spaced`, `NotBelowBurst` | ten ticks (two waits after errors), three errors, six results of a burst |
| `calibrate_burst` | violation: 3% of errors do not halve the burst's figures | one of those six |

`Flows` says of every moment without a call at which `ch` is empty that a further message comes within a second: of the
first `SetLimit` and of later ones, and whatever an earlier limit has put in `ch`. It is stated with the number generated so far, as
a message from before is no progress. It exempts a call that begins in that second: a caller that calls `SetLimit`
more often than a message is due would keep `ch` empty, and only `Spaced` keeps `calibrate`'s calls apart.

Counters are bounded in guards (`MaxTime`, `MaxSets`, `MaxJobs`, `MaxClients`,
`MaxFlushes`, `MaxSamples`, `MaxErrors`, `MaxTurns`, `MaxNews`, `MaxCloses`, `MaxMoves`,
`MaxServed`). These systems stop at their
bounds and when nobody calls, so deadlock is not checked; what must go on is stated by the
liveness properties. `Loader` has no such bound: a test ends in `Over`, and deadlock is
checked.

Fairness. `Limiter`: the clock advances, `start` and a call that has begun are
scheduled by the Go runtime, and somebody receives from `QPS()`. The last one is
`load`'s loop; it is needed, since `Stop` waits for a `start` that may be blocked
in a full channel. Weak fairness is enough: no step that is waited for is
disabled again and again by others. `Client`: each worker that can run does, `c.Do` returns
(the read and write timeouts of the host client), and `New` and `Flush` go on
once begun. No fairness on beginning a call or sending a job. `Sampler`: the
sampling goroutine and the workers. `Loader`: timers ring, goroutines that can run do and
`c.Do` returns (weak fairness); a `select` with several cases ready takes each of them in the
end, since Go picks one at random (strong fairness of `Return` and `Timeout`, which messages and
samples disable again and again). No tick of any ticker has to come: `Generate` and `Tick` have
no fairness, so `Ends` does not rest on the limiter's messages.

## What the violations show

Five statements of the code's own texts are not what the code does; each is a run.

1. `SetLimit` "also clears current channel from messages": a fill under way goes
   on after the drain. After a `SetLimit` to a lower limit this also lets through more
   messages than that limit allows.
2. "Total number of sent requests": `New` leaves the old client's backlog (up to
   10000 jobs) and workers at work, and they count in the new metrics. The
   adjustment and load phases therefore start with requests and errors of the burst.
3. "Total number of sent success requests": `run` does not `continue` after an error.
4. "generates html-report after testing": the label maps are iterated without
   their mutex, and a new status code or error message at that time is fatal.
5. "just more than 2% of errors": `Errors()/RequestSum()` is an integer division,
   true only when at least as many errors as requests were counted.

Others that were seen and have no run: the percentages of `StatusCodes()` add up to more
than 100 when requests end between its reads, where its comment says "percent of total"
(`metrics.go:217`; `CodesCoverTotal` is the bound that does hold); the gauge "Number of open connections"
(`metrics.go:81`) is off, and may be below zero, by the dials that `New` comes between (`GaugeIsOpen` says by how
many); a sample may show more timeouts than
errors, which "including amount of timeouts" excludes (`loader.go:202`); `Amount` "return number of created workers"
(`client.go:75`), but counts those that have come to run (`client.go:123`), so right after `RunWorkers` it is too low:
`AmountOfCreated` says that it is so exactly while a created goroutine has not run, and that it is never too high; the adjustment goes on growing after
errors where the README says "till" (`loader.go:158`); the burst takes 10 s, the README
says 5 s (`loader.go:18`).

## Proofs

`LimiterProofs`: for any set of callers, rates, buffer size, clock resolution and
number of calls,

- `TypeCorrect`: `Spec => []TypeOK`;
- `RateBounded`: `generated * Second <= MaxRate * clock`. This is not inductive: it
  says nothing of the messages that `start` has computed and not yet put in `ch`. `Accounts` follows
  the budget through `start`: while it selects, the messages and the fraction
  left over are paid for by the time up to `lastEvent` (`Charged`); after `Tokens`,
  what it computed by the time up to its own `now` (`Counted`); in the
  fill, what is still to come as well (`Filling`). A concurrent `SetLimit` only
  moves `lastEvent` forward, and `Stamp` may move it back to `now`, which `Filling`
  has paid for: that is why an old `lastEvent` charges nothing twice. The proof needs
  products of variables; `ProductGrows`, `AccruedBound` and `FillIsPaid` state
  the facts about them once;
- `StopIsQuiet`: from `Joined`, the goroutine has exited once the rendezvous is over;
- `LimitIsRestored`: an unfinished `SetLimit` owns every zero limit;
- `RateIsKept`: when the first `SetLimit` has returned, and until another begins, the messages put in
  `ch` since its return keep to the limit that it set. `start` may be anywhere in its loop at that
  return, with a clock read before it, and stores that older `now` afterwards. `Fresh` says that until
  then it has computed no message (the limit was zero), and `Metered` what each of its
  statements has used of the time since;
- `LimiterImplementsBudget`: each step maps to a step of `RateBudget` or leaves its
  variables as they are, from `Accounts`.

`CalibrateProofs`: for any bursts, ticks and errors, `TypeCorrect`, `AnswersOnce`,
`AnswersBeforeGrowing`, `TurnsSpaced` and `LoadReachesBurst`. For the last one `Reached` says that `limit` is never
below the burst's figures: a share of a limit is a natural number, however small the multiplier is. The invariant `IInv` adds that a turn past
`isFlawed` has seen every error it began with (`ErrorsSeen`) and that `await`
holds the ticks still to pass (`Waiting`). The interesting case is the second and
third read of `isFlawed`: an error counted between them is noted with the
one compared, and never answered twice.

`ClientProofs`: for any workers, clients, flushes and jobs, `TypeCorrect`, `LedgerIsBalanced`, `AmountBelowCreated`,
`SuccessesWithinSum` and `BurstHasDivisor`; for one client that is flushed any number of times,
`OwnRequestsOnly`, `FlushIsClean` and `ClientImplementsPool` (with a second client they do not hold: its predecessor's workers
count in its metrics, which is the violation of `client_pollution`). `Owned` and `Closing` say which `Jobsch` a
goroutine ranges over and when it is closed; `AmountServes`, that `Amount` is the number of a client's goroutines that
have come to run and not ended, is the inductive form of `AmountOfCreated`; that a worker can leave only while `Flush` waits follows from
them. `Unmade` is why the order of `initMetrics` matters: `requestSuccess` is made last, so no success is counted in the newest
metrics before `requestSum` is there. `Own` follows a job through the channel and the statements of `run()`: what a counter shows, the
goroutines that have yet to count it (`Ahead`) and the channel are together at most what was sent.
`PoolStep` goes through the actions: a job that a worker counts goes to the generation that is shown, because the variables are
not replaced while a goroutine of the only client is at work (`NobodyAtWork`), and `Wait` returns to an empty channel, nobody
busy and new metrics (`Closing`, `Unmade`), which is `Reopen`.
`LedgerBalanced` and the upper bounds of `TypeOK` are sums over all generations and channels. A sum is a number of
units (`Tally`), so that what one step does to it follows from facts about cardinalities, which `TallyProofs` states once, and
no induction over data is needed. `Move` is how one worker changes the sets that the ledger counts.
`TypeOK` bounds each counter by what was sent: `Once` says that what is counted of it in all generations, the
workers that have yet to count it and the queues are together at most `sent`.

`SamplerProofs`: for one client with any workers and jobs, `ErrorsAreKeptUp` and `CodesAreCovered`. A reader that comes later sees
every request that an earlier one saw, but for those whose worker is between the two increments: `ErrorsBehind` bounds those by
the workers, `Reading` carries what a sample has read so far up to the counters of now, and `Sole` keeps the
generation fixed. With a second client neither holds, as TLC shows at once: while `New` replaces the variables one after another, an
earlier client's worker counts errors in the new metrics and the request in the old ones (`client_pollution` is about the same
workers), so what is shown here is a test with `-q`, whose load phase has the only client.

`LoaderProofs`: for any URLs, values of `-c`, workers and capacities, `TypeCorrect`,
`OneReaderAtATime`, `LimiterUsedInTurn`, `ReportAtRest`, `BurstIsMeasured` and
`LoaderImplementsPlan`. None is inductive alone: that main is in the `load()` of the stage while its
goroutine runs needs to know that a cancelled context means that goroutine has ended (`TurnsTaken`),
that a stage that has begun has the client, the workers and the basis it should (`Begun`, `Measures`), and how far `Stop`
has got (`Stopping`). `Late` is the reason for `BurstMeasures`: after an early timeout the sender is blocked with every worker
busy and `Jobsch` full until one request is counted. The steps of the plan are `Start`, `printState`, `Refuse` and
`Create`; every other one leaves its variables alone.

`ConnectionsProofs`: for any finite set of connections and any number of calls, `TypeCorrect` and `GaugeCountsOpen`.
The bounds of `GaugeIsOpen` are not inductive: `Balanced` is the exact account behind
them, that a gauge is the number of connections counted in its generation less those that
left it; the rest is counting (`AccountBounds`).

`PageProofs`: `PageGauge` (a sample leaves the connections alone), `BarsShowGrowth`,
`ChartsAligned`, `NothingShownTwice` and `ConnectionsArePlausible`, for pages of any length. The invariant is that each series has an entry for each
sample, that within one generation entries only grow, and that the last of the current one is at most the counter.
`RateSound` and `SliceSound` state what `rate` and `uint64Slice` return.
For `NothingShownTwice` the bars alone are not inductive: `Fitting` adds to them what the counter has counted in this stage since
its last sample (`Beyond`), and the two together stay within what all stages have counted. `New` can only lower `Beyond`, and the
clamp of `rate` is why a bar is never more than it; bytes that a connection reads into the metrics of an earlier stage are
counted and never shown. `ConnectionsArePlausible` follows from the account of the gauge and from the fact that a
dial that `New` came between stays one (`StrayedStays`). Its hypothesis `Few`, that twice the number of connections is below
`Word`, is about 2^64 in the code: without it a conversion to `int64` could not tell a large gauge from a negative one.

Assumptions are those named in the modules (`LimiterAssumption`,
`CalibrateAssumption`, `ClientAssumption`, `LoaderAssumption`, `ConnectionsAssumption`, `WordAssumption`, `PageAssumption`): constants are
natural numbers, sets of goroutines and connections are finite, no rate passed is above `MaxRate`, and `-c` is not above `MaxWorkers`. What `Ring`
takes for granted about ten seconds is part of `Loader`'s specification.

Only model-checked: all liveness (`Flows`, `CallsReturn`, `FlushReturns`, `JobsServed`, `Ends`, and as a violation
`SampleCompletes`), which is beyond the prover. Every invariant and every action property of a passing run, and the three
refinements, are stated by a theorem. Three hypotheses narrow them: one client (`MaxClients = 1`) for `ImplementsPool`, `OwnRequests` and `FlushClean`: the counters that a second client's
`New` would mix, `Few` above, and in `OnRate` itself a fresh limiter with one call of `SetLimit`.

## Not modelled

The command line (`main.go`): flags, headers and profiles are set up in sequence before
`run()`, and what `run()` takes of them is in `Loader`'s initial states. The generated files
and the page's assets: text. Opening a browser: it starts a process. Of `loader.go` the progress
bars and printed summaries, of `metrics.go` the Prometheus registry (`requestSuccess` is never registered and
nothing serves it), of the report the markup, the order of keys and the formatting of
floats. Floats of the limiter are exact (above). The splitting of an address into host and port is text; note that
`acquireAddr` takes the first colon of an IPv6 literal for the one before the port.

## Plan

1. `RateBudget`, `Limiter`, `LimiterProofs` - done.
2. `Client`, `Sampler` - done; `Calibrate`, `CalibrateProofs` - done.
3. `TestPlan`, `Loader`, `LoaderProofs` - done.
4. `Connections`, `ConnectionsProofs` - done; `Report`, `Page`, `PageProofs` - done.
5. `ClientProofs`, `SamplerProofs`, `Tally`, `TallyProofs` - done.
6. `WorkPool` - done.
7. Left: `main.go`, whose `log.Fatal` after `run()` would skip the deferred
   end of the profile.
