------------------------------- MODULE Sampler -------------------------------
(***************************************************************************)
(* printState() of loader.go beside a client at work: the sampling         *)
(* goroutine of a phase reads the counters of fastclient/metrics.go one    *)
(* after another, without a lock, while the workers increment them and     *)
(* while load() goes on sending jobs.  The page keeps what a sample adds   *)
(* to the report; gauges, bytes and durations are left out.                *)
(*                                                                         *)
(* StatusCodes() and ErrorMessages() range over maps that workers write    *)
(* under the client's mutex, which the two do not take.  The runtime ends  *)
(* the program when it notices a write during the iteration, so a label    *)
(* stored at that time may crash it or not.                                *)
(***************************************************************************)
EXTENDS Client

CONSTANT MaxSamples  \* bound on the calls of printState

ASSUME SamplerAssumption == MaxSamples \in Nat

VARIABLES
  reading,  \* the statement printState is at; "idle" between two calls
  page,     \* what the last sample shows, as far as it has been taken
  total,    \* StatusCodes(): the number the percentages are taken of
  samples,  \* samples begun
  crashed   \* the runtime has ended the program

sampler == <<reading, page, total, samples, crashed>>
svars == <<vars, sampler>>

Read(m) == value[Refers(m)][m]

SamplerInit ==
  /\ Init
  /\ reading = "idle"
  /\ page = [m \in Metrics |-> 0]
  /\ total = 0 /\ samples = 0
  /\ crashed = FALSE

\* Mutant: the requests are sampled before the errors.
SumFirst ==
  [idle |-> "requestSum", requestSum |-> "errors", errors |-> "timeouts",
   timeouts |-> "requestSuccess", requestSuccess |-> "total", total |-> "statusCodes",
   statusCodes |-> "errorMessages", errorMessages |-> "idle"]

\* Mutant: StatusCodes() reads the total at its end.
TotalLast ==
  [idle |-> "errors", errors |-> "timeouts", timeouts |-> "requestSum",
   requestSum |-> "requestSuccess", requestSuccess |-> "statusCodes", statusCodes |-> "total",
   total |-> "errorMessages", errorMessages |-> "idle"]
\* The order in which printState reads.
Following ==
  [idle |-> "errors", errors |-> "timeouts", timeouts |-> "requestSum",
   requestSum |-> "requestSuccess", requestSuccess |-> "total", total |-> "statusCodes",
   statusCodes |-> "errorMessages", errorMessages |-> "idle"]

Advance == reading' = Following[reading]

(* A tick of the sampler: printState begins.  It is called between New and *)
(* the end of a phase, never while New is running.                         *)
printState ==
  /\ reading = "idle" /\ main = "ready" /\ client > 0
  /\ samples < MaxSamples
  /\ Advance
  /\ samples' = samples + 1
  /\ UNCHANGED <<vars, page, total, crashed>>

\* client.Errors(), Timeouts(), RequestSum(), RequestSuccess(), and the end
\* of StatusCodes() and ErrorMessages(): all labels of one read together.
Sample(m) ==
  /\ reading = m
  /\ Advance
  /\ page' = [page EXCEPT ![m] = Read(m)]
  /\ UNCHANGED <<vars, total, samples, crashed>>

(* StatusCodes() reads requestSum anew before it iterates. *)
StatusCodes ==
  /\ reading = "total"
  /\ Advance
  /\ total' = Read("requestSum")
  /\ UNCHANGED <<vars, page, samples, crashed>>

\* A label not stored before is written to the map under iteration.
Crash(w) ==
  /\ reading \in {"statusCodes", "errorMessages"}
  /\ at[w] = reading /\ owner[w] = client
  /\ Label(w, reading) # labels[client]
  /\ crashed' = TRUE
  /\ UNCHANGED <<vars, reading, page, total, samples>>

Sampling == ~crashed /\ (StatusCodes \/ \E m \in Metrics : Sample(m))
Working(w) == ~crashed /\ (Start(w) \/ run(w)) /\ UNCHANGED sampler

\* load() sends while a sample is taken; what else the program does with the
\* client comes before the sampling goroutine or after it, or is done by it.
Sending == ~crashed /\ Send /\ UNCHANGED sampler

Between ==
  /\ ~crashed /\ reading = "idle"
  /\ \/ NewSteps
     \/ \E n \in 0..Cardinality(Workers), S \in SUBSET Unused : RunWorkers(n, S)
  /\ UNCHANGED sampler

SamplerNext ==
  \/ ~crashed /\ printState
  \/ Sampling
  \/ Sending
  \/ Between
  \/ \E w \in Workers : Working(w) \/ (~crashed /\ Crash(w))

SamplerSpec == SamplerInit /\ [][SamplerNext]_svars

(* The sampling goroutine and the workers are scheduled. *)
FairSamplerSpec ==
  /\ SamplerSpec
  /\ WF_svars(Sampling)
  /\ \A w \in Workers : WF_svars(Working(w))
-----------------------------------------------------------------------------
Complete == reading = "idle" /\ samples > 0

(* The errors a sample shows are ahead of its requests, and of its error   *)
(* messages, by no more than the requests that were under way: printState  *)
(* reads errors first, and run() counts an error before the request it     *)
(* belongs to, so nothing counted between two reads can add to the gap.    *)
(* This is of one client, the only one with -q: where a client follows     *)
(* another it is false, as New replaces the counters one after another     *)
(* while a worker of the former one is between two of them.                *)
ErrorsKeepUp ==
  Complete =>
    /\ page["errors"] <= page["requestSum"] + Cardinality(Workers)
    /\ page["errors"] <= page["errorMessages"] + Cardinality(Workers)

(* The percentages of StatusCodes() add up to at least 100: every request  *)
(* of the total they are taken of has its code among those read after it,  *)
(* failed requests too, as run() counts the code before the request.  It   *)
(* too is of one client only, and false with a second one.  It is no upper *)
(* bound: codes counted after the total was read make the sum exceed 100.  *)
CodesCoverTotal == Complete => page["statusCodes"] >= total

(* "Fasthttploader generates html-report after testing": a sample that is  *)
(* begun is completed, so the phase it belongs to can end.                 *)
SampleCompletes == reading # "idle" ~> reading = "idle"
===============================================================================
