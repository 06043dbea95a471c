--------------------------------- MODULE Page ---------------------------------
(***************************************************************************)
(* The samples of printState, loader.go, over the stages of a test: of the *)
(* gauge and the bytes of the connections, and of the counters of requests.*)
(* New makes all of them anew when a stage begins, and the page goes on.   *)
(* Sampler.tla has the interleaving within a sample; here it is one step.  *)
(***************************************************************************)
EXTENDS Connections, Report, Tally

CONSTANTS
  Quantiles,   \* of the summary of durations
  Limits,      \* what throttle.Limit() may return, as an uint64
  MaxServed,   \* bound on the requests served
  MaxSamples   \* bound on the samples

ASSUME PageAssumption ==
  Limits \subseteq Nat /\ {MaxServed, MaxSamples} \subseteq Nat

VARIABLES
  count,    \* the counters of requests that the variables refer to
  page,     \* the report
  served,   \* history: requests counted in any generation
  stages    \* history: the generation each sample was taken of

pageVars == <<vars, count, page, served, stages>>

NoCount == [RequestSum |-> 0, RequestSuccess |-> 0, Errors |-> 0, Timeouts |-> 0]

PageInit ==
  /\ Init
  /\ count = NoCount /\ page = EmptyPage
  /\ served = 0 /\ stages = <<>>
-----------------------------------------------------------------------------
\* What run() counts of a request that succeeds, times out or fails.
Outcomes ==
  {[NoCount EXCEPT !.RequestSum = 1, !.RequestSuccess = 1],
   [NoCount EXCEPT !.RequestSum = 1, !.Errors = 1, !.Timeouts = 1],
   [NoCount EXCEPT !.RequestSum = 1, !.Errors = 1]}

Serve ==
  /\ served < MaxServed
  /\ \E o \in Outcomes : count' = [m \in DOMAIN count |-> count[m] + o[m]]
  /\ served' = served + 1
  /\ UNCHANGED <<vars, page, stages>>

\* uint64(*m.Gauge.Value): a negative number has no uint64, and the result
\* depends on the processor: it wraps or it is cut off at zero.
ConnOpen == LET v == value[gen]["connOpen"] IN IF v >= 0 THEN {v} ELSE {Word + v, 0}

\* The summary shows every quantile, as NaN when nothing was observed.
RequestDuration == [q \in Quantiles |-> IF count.RequestSum = 0 THEN "NaN" ELSE "seconds"]

\* client.StatusCodes() and client.ErrorMessages(): what has been seen.
StatusCodes == {c \in {"success", "other"} :
                  IF c = "success" THEN count.RequestSuccess > 0
                                   ELSE count.RequestSum > count.RequestSuccess}
ErrorMessages == {e \in {"timeout", "other"} :
                    IF e = "timeout" THEN count.Timeouts > 0
                                     ELSE count.Errors > count.Timeouts}

(* A sample, between two calls of New. *)
printState ==
  /\ swapped = 6 /\ Len(stages) < MaxSamples
  /\ \E conns \in ConnOpen, limit \in Limits :
       page' = [page EXCEPT
         !.Connections = Append(@, conns),
         !.Errors = Append(@, count.Errors),
         !.Timeouts = Append(@, count.Timeouts),
         !.RequestSum = Append(@, count.RequestSum),
         !.RequestSuccess = Append(@, count.RequestSuccess),
         !.BytesWritten = Append(@, value[gen]["bytesWritten"]),
         !.BytesRead = Append(@, value[gen]["bytesRead"]),
         !.Qps = Append(@, limit),
         !.StatusCodes = StatusCodes,
         !.ErrorMessages = ErrorMessages,
         !.RequestDuration = UpdateRequestDuration(@, RequestDuration)]
  /\ stages' = Append(stages, gen)
  /\ UNCHANGED <<vars, count, served>>

PageNext ==
  \/ Serve
  \/ printState
  \/ Next /\ count' = (IF gen' # gen THEN NoCount ELSE count)
          /\ UNCHANGED <<page, served, stages>>

PageSpec == PageInit /\ [][PageNext]_pageVars
-----------------------------------------------------------------------------
Counters == {"RequestSum", "Errors", "Timeouts", "BytesWritten", "BytesRead"}

(* Every bar of a rate chart is the growth of its counter since the sample *)
(* before.  At the first sample of a stage, where the counter has been     *)
(* made anew, it is neither negative nor more than the stage has counted.  *)
BarsAreGrowth ==
  \A m \in Counters : \A i \in 2..Len(stages) :
    LET bar == rate(page[m])[i] IN
    IF stages[i] = stages[i - 1]
      THEN bar = page[m][i] - page[m][i - 1] /\ bar >= 0
      ELSE bar \in 0..page[m][i]

(* The charts show nothing twice: their bars add up to no more than what   *)
(* was counted in all stages, also by connections that outlive a stage.    *)
NothingTwice ==
  /\ Tally(rate(page.RequestSum)) <= served
  /\ Tally(rate(page.BytesRead)) <= Tally([g \in Generations |-> value[g]["bytesRead"]])

(* All series of all charts have an entry for each sample, so that one     *)
(* place on the axis is one moment of the test in every chart.             *)
Aligned ==
  \A chart \in PrintPage(page) : \A name \in DOMAIN chart :
    Len(chart[name]) = Len(stages)

(* The chart of connections shows no number of connections above those     *)
(* dialled, and below zero only by the dials that New came between: the    *)
(* conversions to uint64 and back do not turn -1 into 2^64 - 1.            *)
ConnectionsPlausible ==
  \A i \in 1..Len(stages) :
    connectionSeries(page).Connections[i]
      \in (-Cardinality(Strayed))..Cardinality(Conns)
===============================================================================
