----------------------------- MODULE SamplerProofs -----------------------------
(***************************************************************************)
(* Proofs about Sampler: what the numbers of a sample, read one after      *)
(* another from counters that any number of workers increment, still have  *)
(* to do with each other.  They are of the first client, which is the only *)
(* one when -q is given: when New replaces the counters under the workers  *)
(* of another one, errors begins anew before requestSum, and statusCodes   *)
(* before it too.                                                          *)
(***************************************************************************)
EXTENDS Sampler, ClientProofs

\* The workers that have counted an error and not the request.
Failing == Doing({"errorMessages", "requestSuccess", "statusCodes", "requestSum"})

\* Every error belongs to a request that is counted or with a worker.
ErrorsBehind == Total("errors") <= Total("requestSum") + Cardinality(Failing)

\* The client is the first, and counts in the metrics made for it.
Sole ==
  /\ main \in {"ready", "new"}
  /\ main = "ready" => gen = client
  /\ main = "new" => client = 0 /\ gen = 1
  /\ \A g \in Generations, m \in Metrics : g # gen \/ client = 0 => value[g][m] = 0

\* What has been read so far is not more than is counted now, and the number
\* that was read first is within what was read after it.
Reading ==
  /\ page \in [Metrics -> Nat] /\ total \in Nat /\ samples \in Nat
  /\ reading \in Metrics \union {"idle", "total"}
  /\ reading # "idle" => main = "ready" /\ client > 0
  /\ reading \notin {"idle", "errors"} => page["errors"] <= Total("errors")
  /\ reading \notin {"idle", "errors", "timeouts", "requestSum"} \/ Complete =>
       page["errors"] <= page["requestSum"] + Cardinality(Workers)
  /\ reading = "statusCodes" => total <= Total("requestSum")
  /\ reading = "errorMessages" \/ Complete => page["statusCodes"] >= total
  /\ Complete => page["errors"] <= page["errorMessages"] + Cardinality(Workers)

SInv == ErrorsBehind /\ Sole /\ Reading
-----------------------------------------------------------------------------
USE DEF channels, goroutines, metrics, sends, flushMetrics, Goto, sampler, svars

\* To the client, sampling changes nothing, and no Flush comes in between.
LEMMA SamplerSteps ==
  ASSUME [SamplerNext]_svars
  PROVE  /\ [Next]_vars
         /\ \/ UNCHANGED vars \/ NewSteps \/ Send
            \/ \E n \in 0..Cardinality(Workers), S \in SUBSET Unused : RunWorkers(n, S)
            \/ \E w \in Workers : Start(w) \/ run(w)
         /\ UNCHANGED sampler \/ UNCHANGED vars
<1>1. CASE printState \/ Sampling \/ UNCHANGED svars \/ \E w \in Workers : Crash(w)
  <2>1. UNCHANGED vars
    BY <1>1 DEF printState, Sampling, Sample, StatusCodes, Crash
  <2> QED
    BY <2>1
<1>2. CASE Sending \/ Between \/ \E w \in Workers : Working(w)
  BY <1>2 DEF Sending, Between, Working, Next
<1> QED
  BY <1>1, <1>2 DEF SamplerNext

\* No counter is set back, so what was read stays below it.
LEMMA TotalsGrow ==
  ASSUME Types, Made, [Next]_vars, NEW m \in Metrics
  PROVE  Total(m) \in Nat /\ Total(m)' \in Nat /\ Total(m) <= Total(m)'
<1>1. Total(m) \in Nat
  BY Sums
<1>2. CASE UNCHANGED value
  <2>1. Total(m)' = Total(m)
    BY <1>2 DEF Total
  <2> QED
    BY <1>1, <2>1
<1>3. ASSUME NEW w \in Workers, NEW k \in Metrics, Count(w, k)
      PROVE Total(m)' \in Nat /\ Total(m) <= Total(m)'
  BY <1>1, <1>3, CountTotals
<1>4. New \/ NewReturn \/ initMetrics \/ Flush \/ drainChan \/ FlushClose \/ FlushWait \/ FlushReturn
        \/ Send \/ UNCHANGED vars => UNCHANGED value
  BY DEF New, NewReturn, initMetrics, Flush, drainChan, FlushClose, FlushWait, FlushReturn, Send, vars
<1>5. \A n, S : RunWorkers(n, S) => UNCHANGED value
  BY DEF RunWorkers
<1>6. \A w, e, sc : Start(w) \/ Take(w) \/ Exit(w) \/ Do(w, e, sc) => UNCHANGED value
  BY DEF Start, Take, Exit, Do
<1> QED
  BY <1>1, <1>2, <1>3, <1>4, <1>5, <1>6 DEF Next, NewSteps, FlushSteps, run

\* run() counts an error and, until it has counted the request, is failing.
LEMMA BehindStep ==
  ASSUME Types, Made, ErrorsBehind, [Next]_vars
  PROVE  ErrorsBehind'
<1> DEFINE steps == {"errorMessages", "requestSuccess", "statusCodes", "requestSum"}
           n == Cardinality(Doing(steps))
           e == Total("errors")
           s == Total("requestSum")
<1>0. /\ n \in Nat /\ e \in Nat /\ s \in Nat /\ e <= s + n
      /\ {"errors", "requestSum"} \subseteq Metrics
  BY Sums DEF ErrorsBehind, Failing, Metrics
<1>q. e' <= s' + n' => ErrorsBehind'
  BY DEF ErrorsBehind, Failing
<1>1. CASE UNCHANGED value /\ (UNCHANGED at \/ Doing(steps)' = Doing(steps))
  <2>1. e' = e /\ s' = s /\ n' = n
    BY <1>1 DEF Total, Doing
  <2> QED
    BY <1>0, <1>q, <2>1
<1>2. CASE \/ NewSteps \/ Flush \/ FlushClose \/ FlushWait \/ FlushReturn \/ UNCHANGED vars
           \/ \E k \in 0..Cardinality(Workers), S \in SUBSET Unused : RunWorkers(k, S)
  <2>1. UNCHANGED value /\ Doing(steps)' = Doing(steps)
    BY <1>2, Bystanding
  <2> QED
    BY <1>1, <2>1
<1>3. CASE Send \/ drainChan
  BY <1>1, <1>3 DEF Send, drainChan
<1>4. ASSUME NEW w \in Workers, Start(w) \/ run(w) PROVE ErrorsBehind'
  <2>1. \A v \in Workers : v # w => at'[v] = at[v]
    BY <1>4 DEF Start, run, Take, Exit, Do, Count, Types
  <2>2. n' = n + (IF at'[w] \in steps THEN 1 ELSE 0) - (IF at[w] \in steps THEN 1 ELSE 0)
    BY <2>1, Move
  <2>3. CASE UNCHANGED value /\ at[w] \notin steps
    <3>1. e' = e /\ s' = s
      BY <2>3 DEF Total
    <3>2. n' = n \/ n' = n + 1
      BY <1>0, <2>2, <2>3
    <3> HIDE DEF e, s, n
    <3>3. CASE n' = n
      BY <1>0, <1>q, <3>1, <3>3
    <3>4. CASE n' = n + 1
      BY <1>0, <1>q, <3>1, <3>4
    <3> QED
      BY <3>2, <3>3, <3>4
  <2>4. Start(w) \/ Take(w) \/ Exit(w) => UNCHANGED value /\ at[w] \notin steps
    BY DEF Start, Take, Exit
  <2>5. \A f, sc : Do(w, f, sc) => UNCHANGED value /\ at[w] \notin steps
    BY DEF Do
  <2>6. ASSUME NEW m \in Metrics, Count(w, m) PROVE ErrorsBehind'
    <3>1. at[w] = m /\ at'[w] = Then[m]
      BY <2>6 DEF Count, Types
    <3>2. /\ m # "errors" => e' = e
          /\ m # "requestSum" => s' = s
          /\ m = "errors" => e' = e + 1
          /\ m = "requestSum" => s' = s + 1
      BY <1>0, <2>6, CountTotals
    <3>3. CASE m = "errors"
      <4>1. n' = n + 1
        BY <1>0, <2>2, <3>1, <3>3 DEF Then
      <4> HIDE DEF e, s, n
      <4> QED
        BY <1>0, <1>q, <3>2, <3>3, <4>1
    <3>4. CASE m = "requestSum"
      <4>1. n' = n - 1
        BY <1>0, <2>2, <3>1, <3>4 DEF Then
      <4> HIDE DEF e, s, n
      <4> QED
        BY <1>0, <1>q, <3>2, <3>4, <4>1
    <3>5. CASE m \notin {"errors", "requestSum"}
      <4>1. n' = n
        BY <1>0, <2>2, <2>6, <3>1, <3>5 DEF Then, Metrics
      <4> HIDE DEF e, s, n
      <4> QED
        BY <1>0, <1>q, <3>2, <3>5, <4>1
    <3> QED
      BY <3>3, <3>4, <3>5
  <2> QED
    BY <1>4, <2>3, <2>4, <2>5, <2>6 DEF run
<1> QED
  BY <1>2, <1>3, <1>4 DEF Next, FlushSteps

\* Nothing is counted before New has returned, and then in one generation.
LEMMA SoleStep ==
  ASSUME MaxClients = 1, IInv, IInv', Sole, [SamplerNext]_svars
  PROVE  Sole'
<1> USE DEF Sole
<1>0. /\ gen \in Generations /\ gen' \in Generations /\ client \in {0, 1} /\ client' \in {0, 1}
      /\ Generations \subseteq Nat
  BY ClientAssumption DEF IInv, Types, Generations
<1>1. CASE UNCHANGED <<main, gen, client, value>>
  BY <1>1
<1>2. CASE New
  BY <1>0, <1>2 DEF New, IInv, Made
<1>3. CASE NewReturn
  <2>1. main = "new" /\ client = 0 /\ client' = 1 /\ main' = "ready" /\ gen' = gen /\ value' = value
    BY <1>0, <1>3 DEF NewReturn, IInv, Made
  <2> QED
    BY <2>1
<1>4. ASSUME NEW w \in Workers, NEW m \in Metrics, Count(w, m) PROVE Sole'
  <2>1. at[w] \notin {"none", "exited"} /\ UNCHANGED <<main, gen, client>>
    BY <1>4 DEF Count, Metrics
  <2>2. main = "ready" /\ client = 1
    BY <1>0, <2>1, NobodyAtWork DEF IInv, Owned
  <2>3. Refers(m) = gen
    BY <1>4, <2>2, Names DEF Refers, IInv, Made
  <2>4. \A g \in Generations, k \in Metrics : g # gen => value'[g][k] = value[g][k]
    BY <1>4, <2>3, CountEffect DEF IInv
  <2> QED
    BY <2>1, <2>2, <2>4
<1>5. initMetrics \/ Send \/ UNCHANGED vars => UNCHANGED <<main, gen, client, value>>
  BY DEF initMetrics, Send, vars
<1>6. \A n, S : RunWorkers(n, S) => UNCHANGED <<main, gen, client, value>>
  BY DEF RunWorkers
<1>7. \A w, e, sc : Start(w) \/ Take(w) \/ Exit(w) \/ Do(w, e, sc) => UNCHANGED <<main, gen, client, value>>
  BY DEF Start, Take, Exit, Do
<1> QED
  BY <1>1, <1>2, <1>3, <1>4, <1>5, <1>6, <1>7, SamplerSteps DEF NewSteps, run

\* A counter that is read is the sum over all generations.
LEMMA ReadIsTotal ==
  ASSUME IInv, Sole, main = "ready", NEW m \in Metrics
  PROVE  Read(m) = Total(m)
<1> DEFINE f == [g \in Generations |-> value[g][m]]
<1>1. f \in [Generations -> Nat] /\ gen \in Generations /\ f[gen] = value[gen][m]
      /\ \A g \in Generations : g # gen => f[g] = 0
  BY DEF IInv, Types, Sole
<1>2. Refers(m) = gen
  BY Names DEF Refers, IInv, Made
<1>3. Total(m) = Tally(f)
  BY DEF Total
<1> HIDE DEF f
<1>4. Tally(f) = f[gen]
  BY <1>1, TallySingle
<1> QED
  BY <1>1, <1>2, <1>3, <1>4 DEF Read

\* How far the counters that printState reads may be apart.
LEMMA Gaps ==
  ASSUME IInv, LedgerBalanced, ErrorsBehind
  PROVE  /\ Total("errors") <= Total("requestSum") + Cardinality(Workers)
         /\ Total("errors") <= Total("errorMessages") + Cardinality(Workers)
         /\ Total("requestSum") <= Total("statusCodes")
         /\ Cardinality(Workers) \in Nat
<1> DEFINE W == Cardinality(Workers)
           n == Cardinality(Failing)
           p == Cardinality(Doing({"errorMessages"}))
           q == Cardinality(Doing({"requestSum"}))
<1>1. Workers \in SUBSET Workers /\ Failing \in SUBSET Workers /\ Doing({"errorMessages"}) \in SUBSET Workers
  BY DEF Failing, Doing
<1>2. W \in Nat /\ n \in Nat /\ n <= W /\ p \in Nat /\ p <= W /\ q \in Nat
  BY <1>1, Counting, Sums DEF IInv
<1>3. /\ Total("errors") \in Nat /\ Total("requestSum") \in Nat /\ Total("errorMessages") \in Nat
      /\ Total("statusCodes") \in Nat
  BY Sums DEF IInv, Metrics
<1>4. /\ Total("statusCodes") = Total("requestSum") + q
      /\ Total("errors") = Total("errorMessages") + p
      /\ Total("errors") <= Total("requestSum") + n
  BY DEF LedgerBalanced, ErrorsBehind
<1> HIDE DEF W, n, p, q
<1>5. /\ Total("errors") <= Total("requestSum") + W
      /\ Total("errors") <= Total("errorMessages") + W
      /\ Total("requestSum") <= Total("statusCodes")
  BY <1>2, <1>3, <1>4
<1> QED
  BY <1>2, <1>5 DEF W

(* A statement of printState reads a counter that is not less than it was, *)
(* and a counter that comes later in printState comes later in run() too.  *)
LEMMA ReadingStep ==
  ASSUME IInv, LedgerBalanced, ErrorsBehind, Sole, Reading, [SamplerNext]_svars
  PROVE  Reading'
<1> DEFINE W == Cardinality(Workers)
           e == Total("errors")
           s == Total("requestSum")
<1> USE SamplerAssumption DEF Reading, Complete
<1>0. /\ e \in Nat /\ e' \in Nat /\ e <= e' /\ s \in Nat /\ s' \in Nat /\ s <= s'
      /\ W \in Nat /\ e <= s + W
      /\ e <= Total("errorMessages") + W
      /\ s <= Total("statusCodes") /\ \A m \in Metrics : Total(m) \in Nat
      /\ Metrics = {"errors", "timeouts", "requestSum", "requestSuccess", "statusCodes", "errorMessages"}
  <2>1. [Next]_vars
    BY SamplerSteps
  <2> QED
    BY <2>1, TotalsGrow, Gaps, Sums DEF IInv, Metrics
<1>r. \A m \in Metrics : main = "ready" => Read(m) = Total(m)
  BY ReadIsTotal
<1>v. UNCHANGED vars => e' = e /\ s' = s
  BY DEF vars, Total
<1> HIDE DEF e, s, W
<1>1. CASE UNCHANGED sampler
  <2>1. reading # "idle" => main' = "ready" /\ client' > 0
    <3> SUFFICES ASSUME reading # "idle" PROVE main' = "ready" /\ client' > 0
      OBVIOUS
    <3>1. main = "ready" /\ client > 0
      OBVIOUS
    <3>2. CASE UNCHANGED svars
      BY <3>1, <3>2 DEF vars
    <3>3. CASE SamplerNext
      <4>1. \/ UNCHANGED vars \/ Send
            \/ \E w \in Workers : Start(w) \/ run(w)
        BY <1>1, <3>3 DEF SamplerNext, printState, Sampling, Sample, StatusCodes, Crash, Between, Sending, Working, Advance, vars
      <4> QED
        BY <3>1, <4>1, RunEffect DEF vars, Send, Start, IInv
    <3> QED
      BY <3>2, <3>3
  <2> QED
    BY <1>0, <1>1, <2>1 DEF e, s, W
<1>2. CASE printState
  <2>1. /\ reading = "idle" /\ reading' = "errors" /\ samples' = samples + 1 /\ main = "ready" /\ client > 0
        /\ UNCHANGED <<vars, page, total, crashed>>
    BY <1>2 DEF printState, Advance, Following
  <2> QED
    BY <1>0, <2>1 DEF vars
<1>3. ASSUME NEW m \in Metrics, Sample(m) PROVE Reading'
  <2>1. /\ reading = m /\ reading' = Following[m] /\ page' = [page EXCEPT ![m] = Total(m)]
        /\ UNCHANGED <<vars, total, samples, crashed>> /\ main = "ready" /\ client > 0
        /\ main' = main /\ client' = client
    BY <1>3, <1>r DEF Sample, Advance, vars, Metrics
  <2>2. /\ page' \in [Metrics -> Nat] /\ page'[m] = Total(m)
        /\ \A k \in Metrics : k # m => page'[k] = page[k]
    BY <1>0, <2>1
  <2>3. e' = e /\ s' = s
    BY <1>v, <2>1
  <2>4. CASE m = "errors"
    BY <1>0, <2>1, <2>2, <2>3, <2>4 DEF Following, e
  <2>5. CASE m = "timeouts"
    BY <1>0, <2>1, <2>2, <2>3, <2>5 DEF Following, e, s, W
  <2>6. CASE m = "requestSum"
    <3>1. page'["errors"] <= e /\ page'["requestSum"] = s /\ page'["errors"] \in Nat
      BY <1>0, <2>1, <2>2, <2>6 DEF e, s
    <3>2. page'["errors"] <= page'["requestSum"] + W
      BY <1>0, <3>1
    <3> QED
      BY <1>0, <2>1, <2>2, <2>3, <2>6, <3>1, <3>2 DEF Following, e, s, W
  <2>7. CASE m = "requestSuccess"
    BY <1>0, <2>1, <2>2, <2>3, <2>7 DEF Following, e, s, W
  <2>8. CASE m = "statusCodes"
    <3>1. page'["statusCodes"] >= total
      BY <1>0, <2>1, <2>2, <2>8 DEF s
    <3> QED
      BY <1>0, <2>1, <2>2, <2>3, <2>8, <3>1 DEF Following, e, s, W
  <2>9. CASE m = "errorMessages"
    <3>1. page["errors"] <= e /\ page'["errors"] = page["errors"] /\ page["errors"] \in Nat
          /\ Total("errorMessages") \in Nat
      BY <1>0, <2>1, <2>2, <2>9 DEF e
    <3>2. page'["errors"] <= page'["errorMessages"] + W
      BY <1>0, <2>2, <2>9, <3>1
    <3> QED
      BY <1>0, <2>1, <2>2, <2>3, <2>9, <3>2 DEF Following, e, s, W
  <2> QED
    BY <2>4, <2>5, <2>6, <2>7, <2>8, <2>9 DEF Metrics
<1>4. CASE StatusCodes
  <2>1. /\ reading = "total" /\ reading' = "statusCodes" /\ main = "ready" /\ client > 0
        /\ total' = s /\ UNCHANGED <<vars, page, samples, crashed>> /\ main' = main /\ client' = client
    BY <1>4, <1>0, <1>r DEF StatusCodes, Advance, Following, vars, s
  <2>2. e' = e /\ s' = s
    BY <1>v, <2>1
  <2> QED
    BY <1>0, <2>1, <2>2 DEF e, s, W
<1>5. ASSUME NEW w \in Workers, Crash(w) PROVE Reading'
  <2>1. UNCHANGED <<vars, reading, page, total, samples>> /\ main' = main /\ client' = client
    BY <1>5 DEF Crash, vars
  <2>2. e' = e /\ s' = s
    BY <1>v, <2>1
  <2> QED
    BY <1>0, <2>1, <2>2 DEF e, s, W
<1> QED
  BY <1>1, <1>2, <1>3, <1>4, <1>5 DEF SamplerNext, Sampling, Sending, Between, Working

\* The client behaves as Client says, and nothing has been read at first.
LEMMA SamplerInvariant ==
  MaxClients = 1 => (SamplerSpec => [](IInv /\ LedgerBalanced /\ SInv))
<1> SUFFICES ASSUME MaxClients = 1 PROVE SamplerSpec => [](IInv /\ LedgerBalanced /\ SInv)
  OBVIOUS
<1>1. SamplerInit => Init
  BY DEF SamplerInit
<1>2. [SamplerNext]_svars => [Next]_vars
  BY SamplerSteps
<1>3. SamplerInit => SInv
  <2> SUFFICES ASSUME SamplerInit PROVE SInv
    OBVIOUS
  <2>1. \A m \in Metrics : Total(m) = 0
    <3> SUFFICES ASSUME NEW m \in Metrics PROVE Total(m) = 0
      OBVIOUS
    <3> DEFINE f == [g \in Generations |-> value[g][m]]
    <3>1. f \in [Generations -> Nat] /\ \A g \in Generations : f[g] = 0
      BY DEF SamplerInit, Init
    <3>2. Total(m) = Tally(f)
      BY DEF Total
    <3> HIDE DEF f
    <3> QED
      BY <3>1, <3>2, TallyZero
  <2>2. ErrorsBehind
    <3>1. Failing \in SUBSET Workers
      BY DEF Failing, Doing
    <3>2. Cardinality(Failing) \in Nat
      BY <3>1, Counting
    <3> QED
      BY <2>1, <3>2 DEF ErrorsBehind, Metrics
  <2>3. Sole
    BY DEF Sole, SamplerInit, Init
  <2>4. Reading
    BY <2>1 DEF Reading, SamplerInit, Complete, Init
  <2> QED
    BY <2>2, <2>3, <2>4 DEF SInv
<1>4. IInv /\ IInv' /\ LedgerBalanced /\ SInv /\ [SamplerNext]_svars => SInv'
  BY SamplerSteps, BehindStep, SoleStep, ReadingStep DEF SInv, IInv
<1> QED
  BY Invariant, LedgerIsBalanced, <1>1, <1>2, <1>3, <1>4, PTL DEF Spec, SamplerSpec

(* The errors of a sample are ahead of its requests and of its messages by *)
(* no more than there are workers, however many requests are done while    *)
(* printState reads.                                                       *)
THEOREM ErrorsAreKeptUp == MaxClients = 1 => (SamplerSpec => []ErrorsKeepUp)
<1> SUFFICES ASSUME MaxClients = 1 PROVE SamplerSpec => []ErrorsKeepUp
  OBVIOUS
<1>1. SInv => ErrorsKeepUp
  BY DEF SInv, Reading, Complete, ErrorsKeepUp
<1> QED
  BY SamplerInvariant, <1>1, PTL

(* The codes of a sample are no fewer than the requests they are divided   *)
(* by: the percentages add up to 100 or more.                              *)
THEOREM CodesAreCovered == MaxClients = 1 => (SamplerSpec => []CodesCoverTotal)
<1> SUFFICES ASSUME MaxClients = 1 PROVE SamplerSpec => []CodesCoverTotal
  OBVIOUS
<1>1. SInv => CodesCoverTotal
  BY DEF SInv, Reading, Complete, CodesCoverTotal
<1> QED
  BY SamplerInvariant, <1>1, PTL
=============================================================================
