-------------------------------- MODULE Client --------------------------------
(***************************************************************************)
(* The HTTP client of fastclient/client.go and the metrics it keeps in     *)
(* fastclient/metrics.go: New, RunWorkers, Flush, and the worker           *)
(* goroutines, which take jobs from Jobsch, do a request each and count    *)
(* it.                                                                     *)
(*                                                                         *)
(* The metrics are package variables.  initMetrics stores new ones in them *)
(* one after another, without a lock, while workers of an earlier client   *)
(* go on counting: a counter is incremented in the generation that its     *)
(* variable refers to at that moment.  Jobs carry no data, so a channel is *)
(* its length; of a response only what run() looks at is kept.             *)
(***************************************************************************)
EXTENDS Integers, FiniteSets, Tally

CONSTANTS
  Workers,      \* worker goroutines that may be started, in all clients
  MaxClients,   \* bound on the calls of New
  MaxFlushes,   \* bound on the calls of Flush
  MaxJobs,      \* bound on the jobs sent, in all clients
  JobCapacity   \* capacity of Jobsch

ASSUME ClientAssumption ==
  /\ IsFiniteSet(Workers)
  /\ {MaxClients, MaxFlushes, MaxJobs} \subseteq Nat
  /\ JobCapacity \in Nat \ {0}

Clients == 1..MaxClients
Generations == 0..(MaxClients + MaxFlushes)

\* The counters in the order in which initMetrics replaces them.
Metrics == {"statusCodes", "errorMessages", "timeouts", "errors",
            "requestSum", "requestSuccess"}

\* What run() tells apart of an error and of a response.
Faults == {"nil", "timeout", "other"}
Codes == {"success", "other"}

VARIABLES
  main,     \* the goroutine that owns the client: which call it is in
  client,   \* the client it uses; 0 before the first New
  jobs,     \* len(Jobsch), per client
  closed,   \* Jobsch is closed, per client
  flushes,  \* how often Jobsch was made anew, per client
  workers,  \* the field workers, per client
  labels,   \* keys of statusCodeLabels and of errorMessages, per client
  at,       \* what each worker is about to do
  owner,    \* the client a worker belongs to; 0 before it is started
  chan,     \* which Jobsch of that client it ranges over
  err,      \* the error of its request
  code,     \* status code of its last response
  gen,      \* metrics were initialised this often
  swapped,  \* how many variables refer to the newest metrics already
  value,    \* value of each counter, per generation
  fresh,    \* history: jobs sent since New or Flush returned
  sent, dropped  \* history: jobs sent, jobs that Flush drained

channels == <<jobs, closed, flushes>>
goroutines == <<at, owner, chan, err, code>>
metrics == <<gen, swapped, value>>
sends == <<fresh, sent, dropped>>
vars == <<main, client, channels, workers, labels, goroutines, metrics, sends>>

\* Mutant: requestSuccess is made before requestSum.
SuccessFirst ==
  [statusCodes |-> 1, errorMessages |-> 2, timeouts |-> 3, errors |-> 4,
   requestSuccess |-> 5, requestSum |-> 6]
\* The place of a counter in initMetrics.
Position ==
  [statusCodes |-> 1, errorMessages |-> 2, timeouts |-> 3, errors |-> 4,
   requestSum |-> 5, requestSuccess |-> 6]

\* The generation that the variable of a counter refers to.
Refers(m) == IF Position[m] <= swapped THEN gen ELSE gen - 1

Init ==
  /\ main = "ready" /\ client = 0
  /\ jobs = [c \in Clients |-> 0]
  /\ closed = [c \in Clients |-> FALSE]
  /\ flushes = [c \in Clients |-> 0]
  /\ workers = [c \in Clients |-> 0]
  /\ labels = [c \in Clients |-> [codes |-> {}, messages |-> {}]]
  /\ at = [w \in Workers |-> "none"]
  /\ owner = [w \in Workers |-> 0]
  /\ chan = [w \in Workers |-> 0]
  /\ err = [w \in Workers |-> "nil"]
  /\ code = [w \in Workers |-> "other"]
  /\ gen = 0 /\ swapped = 6
  /\ value = [g \in Generations |-> [m \in Metrics |-> 0]]
  /\ fresh = 0 /\ sent = 0 /\ dropped = 0
-----------------------------------------------------------------------------
(* flushMetrics begins: every call of it makes a generation of metrics.    *)
flushMetrics == gen' = gen + 1 /\ swapped' = 0 /\ UNCHANGED value

\* One assignment of initMetrics.
initMetrics ==
  /\ main \in {"new", "flush"}
  /\ swapped < 6
  /\ swapped' = swapped + 1
  /\ UNCHANGED <<main, client, channels, workers, labels, goroutines, gen, value, sends>>

New ==
  /\ main = "ready" /\ client < MaxClients
  /\ main' = "new"
  /\ flushMetrics
  /\ UNCHANGED <<client, channels, workers, labels, goroutines, sends>>

\* The caller goes on with the client that New returns.  The former one is
\* left as it is: its Jobsch is neither drained nor closed.
NewReturn ==
  /\ main = "new" /\ swapped = 6
  /\ main' = "ready"
  /\ client' = client + 1
  /\ fresh' = 0
  /\ UNCHANGED <<channels, workers, labels, goroutines, metrics, sent, dropped>>

(* RunWorkers starts n goroutines, one at least.  Each is counted in wg    *)
(* before RunWorkers returns and in workers only once it runs.             *)
RunWorkers(n, S) ==
  /\ main = "ready" /\ client > 0
  /\ Cardinality(S) = IF n < 1 THEN 1 ELSE n
  /\ at' = [w \in Workers |-> IF w \in S THEN "started" ELSE at[w]]
  /\ owner' = [w \in Workers |-> IF w \in S THEN client ELSE owner[w]]
  /\ UNCHANGED <<main, client, channels, workers, labels, chan, err, code, metrics, sends>>

\* Mutant: the channel takes one more.
RoomForOneMore(c) == jobs[c] <= JobCapacity
Room(c) == jobs[c] < JobCapacity

(* client.Jobsch <- struct{}{}: blocks while the channel is full. *)
Send ==
  /\ main = "ready" /\ client > 0 /\ sent < MaxJobs
  /\ Room(client)
  /\ jobs' = [jobs EXCEPT ![client] = @ + 1]
  /\ fresh' = fresh + 1 /\ sent' = sent + 1
  /\ UNCHANGED <<main, client, closed, flushes, workers, labels, goroutines, metrics, dropped>>

(* Flush, called by the goroutine that sends the jobs: drainChan, ...      *)
(* Each call of New and of Flush has made a generation of metrics.         *)
Flush ==
  /\ main = "ready" /\ client > 0
  /\ gen - client < MaxFlushes
  /\ main' = "drain"
  /\ UNCHANGED <<client, channels, workers, labels, goroutines, metrics, sends>>

drainChan ==
  /\ main = "drain" /\ jobs[client] > 0
  /\ jobs' = [jobs EXCEPT ![client] = @ - 1]
  /\ dropped' = dropped + 1
  /\ UNCHANGED <<main, client, closed, flushes, workers, labels, goroutines, metrics, fresh, sent>>

\* Mutant: the channel is not closed, so no worker ever leaves.
NotClosed ==
  /\ main = "drain" /\ jobs[client] = 0
  /\ main' = "wait"
  /\ UNCHANGED <<client, channels, workers, labels, goroutines, metrics, sends>>

\* ... close(c.Jobsch), ...
FlushClose ==
  /\ main = "drain" /\ jobs[client] = 0
  /\ main' = "wait"
  /\ closed' = [closed EXCEPT ![client] = TRUE]
  /\ UNCHANGED <<client, jobs, flushes, workers, labels, goroutines, metrics, sends>>

\* Mutant: Flush does not wait.
NobodyAwaited == TRUE
\* Mutant: the wait group counts the goroutines that run already, as workers
\* does, instead of those that RunWorkers has started.
RunningDone == \A w \in Workers : owner[w] = client => at[w] \in {"exited", "started"}
\* wg is the number of goroutines started and not ended.
AllDone == \A w \in Workers : owner[w] = client => at[w] = "exited"

\* ... c.wg.Wait() and flushMetrics(), ...
FlushWait ==
  /\ main = "wait" /\ AllDone
  /\ main' = "flush"
  /\ flushMetrics
  /\ UNCHANGED <<client, channels, workers, labels, goroutines, sends>>

\* ... c.workers = 0 and a new Jobsch.
FlushReturn ==
  /\ main = "flush" /\ swapped = 6
  /\ main' = "ready"
  /\ workers' = [workers EXCEPT ![client] = 0]
  /\ closed' = [closed EXCEPT ![client] = FALSE]
  /\ flushes' = [flushes EXCEPT ![client] = @ + 1]
  /\ fresh' = 0
  /\ UNCHANGED <<client, jobs, labels, goroutines, metrics, sent, dropped>>

Amount(c) == workers[c]
Overflow(c) == jobs[c]
-----------------------------------------------------------------------------
Goto(w, step) == at' = [at EXCEPT ![w] = step]

\* The channel a worker ranges over: closed for good once Flush has made
\* another one in its place.
Open(w) == chan[w] = flushes[owner[w]]

(* A worker goroutine comes to run: workers++, and run() evaluates Jobsch. *)
Start(w) ==
  /\ at[w] = "started"
  /\ Goto(w, "waiting")
  /\ workers' = [workers EXCEPT ![owner[w]] = @ + 1]
  /\ chan' = [chan EXCEPT ![w] = flushes[owner[w]]]
  /\ UNCHANGED <<main, client, channels, labels, owner, err, code, metrics, sends>>

(* range c.Jobsch receives a job, ... *)
Take(w) ==
  /\ at[w] = "waiting" /\ Open(w)
  /\ jobs[owner[w]] > 0
  /\ jobs' = [jobs EXCEPT ![owner[w]] = @ - 1]
  /\ Goto(w, "doing")
  /\ UNCHANGED <<main, client, closed, flushes, workers, labels, owner, chan, err, code, metrics, sends>>

(* ... or ends, and the goroutine calls wg.Done(). *)
Exit(w) ==
  /\ at[w] = "waiting"
  /\ Open(w) => closed[owner[w]] /\ jobs[owner[w]] = 0
  /\ Goto(w, "exited")
  /\ UNCHANGED <<main, client, channels, workers, labels, owner, chan, err, code, metrics, sends>>

(* c.Do returns an error (ErrTimeout or another) or none.  run() looks at  *)
(* resp.StatusCode() in either case: after an error it is what fasthttp    *)
(* leaves in resp, a success among other things.                           *)
Do(w, e, sc) ==
  /\ at[w] = "doing"
  /\ err' = [err EXCEPT ![w] = e]
  /\ code' = [code EXCEPT ![w] = sc]
  /\ Goto(w, CASE e = "timeout" -> "timeouts"
               [] e = "other"   -> "errors"
               [] e = "nil"     -> "requestSuccess")
  /\ UNCHANGED <<main, client, channels, workers, labels, owner, chan, metrics, sends>>

Inc(m) == value' = [value EXCEPT ![Refers(m)][m] = @ + 1]

\* Mutant: a worker leaves its loop after a request that failed.
LeavesOnError ==
  [timeouts |-> "errors", errors |-> "errorMessages", errorMessages |-> "exited",
   requestSuccess |-> "statusCodes", statusCodes |-> "requestSum", requestSum |-> "waiting"]
\* Mutant: a request that failed is not counted in requestSum.
SumOfAnswered ==
  [timeouts |-> "errors", errors |-> "errorMessages", errorMessages |-> "waiting",
   requestSuccess |-> "statusCodes", statusCodes |-> "requestSum", requestSum |-> "waiting"]
\* The statement of run() after the one that counts m.
Then ==
  [timeouts |-> "errors", errors |-> "errorMessages", errorMessages |-> "requestSuccess",
   requestSuccess |-> "statusCodes", statusCodes |-> "requestSum", requestSum |-> "waiting"]

\* withStatusCode and withErrorMessage store a label they see first.
Label(w, m) ==
  CASE m = "statusCodes"   -> [labels[owner[w]] EXCEPT !.codes = @ \union {code[w]}]
    [] m = "errorMessages" -> [labels[owner[w]] EXCEPT !.messages = @ \union {err[w]}]
    [] OTHER               -> labels[owner[w]]

\* One of the counting statements of run(); err ends with the iteration.
Count(w, m) ==
  /\ at[w] = m
  /\ Goto(w, Then[m])
  /\ IF m = "requestSuccess" /\ code[w] # "success"
       THEN UNCHANGED value
       ELSE Inc(m)
  /\ labels' = [labels EXCEPT ![owner[w]] = Label(w, m)]
  /\ err' = IF m = "requestSum" THEN [err EXCEPT ![w] = "nil"] ELSE err
  /\ UNCHANGED <<main, client, channels, workers, owner, chan, code, gen, swapped, sends>>

run(w) ==
  \/ Take(w) \/ Exit(w)
  \/ \E e \in Faults, sc \in Codes : Do(w, e, sc)
  \/ \E m \in Metrics : Count(w, m)
-----------------------------------------------------------------------------
Unused == {w \in Workers : at[w] = "none"}

NewSteps == New \/ NewReturn \/ initMetrics
FlushSteps == Flush \/ drainChan \/ FlushClose \/ FlushWait \/ FlushReturn

Next ==
  \/ NewSteps
  \/ FlushSteps
  \/ Send
  \/ \E n \in 0..Cardinality(Workers), S \in SUBSET Unused : RunWorkers(n, S)
  \/ \E w \in Workers : Start(w) \/ run(w)

Spec == Init /\ [][Next]_vars

(* Goroutines that can run do run, c.Do returns (it has a timeout), and a  *)
(* call that has begun goes on; nobody has to begin a call.                *)
Fairness ==
  /\ \A w \in Workers : WF_vars(Start(w) \/ run(w))
  /\ WF_vars(initMetrics \/ NewReturn)
  /\ WF_vars(drainChan \/ FlushClose \/ FlushWait \/ FlushReturn)

FairSpec == Spec /\ Fairness
-----------------------------------------------------------------------------
Steps == {"none", "started", "waiting", "doing", "exited"} \union Metrics

TypeOK ==
  /\ main \in {"ready", "new", "drain", "wait", "flush"}
  /\ client \in 0..MaxClients
  /\ jobs \in [Clients -> 0..JobCapacity]
  /\ closed \in [Clients -> BOOLEAN]
  /\ flushes \in [Clients -> 0..MaxFlushes]
  /\ workers \in [Clients -> 0..Cardinality(Workers)]
  /\ labels \in [Clients -> [codes : SUBSET Codes, messages : SUBSET (Faults \ {"nil"})]]
  /\ at \in [Workers -> Steps]
  /\ owner \in [Workers -> 0..MaxClients]
  /\ chan \in [Workers -> 0..MaxFlushes]
  /\ err \in [Workers -> Faults] /\ code \in [Workers -> Codes]
  /\ gen \in Generations /\ swapped \in 0..6
  /\ value \in [Generations -> [Metrics -> 0..MaxJobs]]
  /\ {fresh, sent, dropped} \subseteq 0..MaxJobs

\* Goroutines that RunWorkers has created for a client and that have not ended.
Alive(c) == {w \in Workers : owner[w] = c /\ at[w] # "exited"}

\* Workers at one of some steps.
Doing(steps) == {w \in Workers : at[w] \in steps}
InFlight == Doing({"doing"} \union Metrics)

Total(m) == Tally([g \in Generations |-> value[g][m]])
Queued == Tally(jobs)

(* While one client is used and flushed, the counters it shows are of jobs *)
(* sent since the last Flush: no request of a worker that Flush let go is  *)
(* counted afterwards, whatever it was doing when Flush began.             *)
OwnRequests ==
  main \in {"ready", "drain", "wait"} =>
    \A m \in Metrics : value[gen][m] <= fresh

(* A client that was sent more jobs than its channel and its workers hold  *)
(* has finished one: the burst, which sends as fast as Jobsch takes jobs,  *)
(* does not divide by a RequestSum() of zero when it ends.                 *)
DivisorPositive ==
  main = "ready" /\ fresh > JobCapacity + Cardinality(Alive(client)) =>
    value[gen]["requestSum"] > 0

(* When Flush returns, no goroutine of the client is left, its channel is  *)
(* empty and every counter is zero ("workers would flushed too", "channel  *)
(* would flushed too", "re-init all counters and metrics").                *)
FlushClean ==
  [][FlushReturn =>
       /\ Alive(client) = {} /\ Overflow(client) = 0
       /\ \A m \in Metrics : value[gen][m] = 0]_vars

(* "Amount return number of created workers" (client.go:75) is true of a   *)
(* client only when every goroutine that RunWorkers created has come to    *)
(* run: until then Amount is too low, and it is never too high.  calibrate *)
(* adds workers and the next phase takes its number of clients by it.  (In *)
(* its wait Flush lets workers go before it sets the number to zero.)      *)
AmountOfCreated ==
  \A c \in Clients : c # client \/ main \notin {"wait", "flush"} =>
    /\ Amount(c) <= Cardinality(Alive(c))
    /\ Amount(c) = Cardinality(Alive(c)) <=> \A w \in Alive(c) : at[w] # "started"

(* Every job sent is queued, under way, dropped by a Flush or counted once *)
(* in the requestSum of some generation, and the counters that one request *)
(* increments one after another differ by the requests between the two,    *)
(* also when initMetrics replaces them in the middle of a request.         *)
LedgerBalanced ==
  /\ sent = dropped + Queued + Cardinality(InFlight) + Total("requestSum")
  /\ Total("statusCodes") = Total("requestSum") + Cardinality(Doing({"requestSum"}))
  /\ Total("errors") = Total("errorMessages") + Cardinality(Doing({"errorMessages"}))
  /\ Total("timeouts") <= Total("errors") + Cardinality(Doing({"errors"}))

(* In the newest metrics there are no more successes than requests, those  *)
(* not in requestSum yet included, although workers of an earlier client   *)
(* count while initMetrics replaces the counters: it replaces requestSum   *)
(* before requestSuccess and a worker increments them the other way round. *)
SuccessWithinSum ==
  value[gen]["requestSuccess"]
    <= value[gen]["requestSum"] + Cardinality(Doing({"statusCodes", "requestSum"}))

(* Flush returns: the drained and closed channel ends every worker, also   *)
(* one that has not begun to run.                                          *)
FlushReturns == main = "drain" ~> main = "ready"

(* A job in the channel of a client with workers is taken in the end, also *)
(* when requests fail and when the caller has gone on to another client.   *)
JobsServed ==
  \A c \in Clients : Overflow(c) > 0 /\ Alive(c) # {} ~> Overflow(c) = 0

Pool == INSTANCE WorkPool WITH
  Hands <- Cardinality(Workers), open <- (main \notin {"drain", "wait"}),
  waiting <- Queued, busy <- Cardinality(InFlight), done <- value[gen]["requestSum"]

(* A client that is used and flushed is a pool of workers: each job sent   *)
(* is done once and counted, or dropped by a Flush before it is begun; no  *)
(* job is begun or counted across the end of a Flush, which starts the     *)
(* count of requests anew.                                                 *)
ImplementsPool == Pool!PoolSpec

(* "Total number of sent requests": the requests that a client shows are   *)
(* those sent with it.                                                     *)
OnlyItsRequests == main = "ready" => value[gen]["requestSum"] <= fresh

(* "Total number of sent success requests": with no request under way,     *)
(* a request that returned an error is not among the successes.            *)
FailedNotSuccess ==
  InFlight = {} /\ swapped = 6 =>
    Total("requestSuccess") + Total("errors") <= Total("requestSum")
===============================================================================
