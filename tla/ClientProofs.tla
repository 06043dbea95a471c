----------------------------- MODULE ClientProofs -----------------------------
(***************************************************************************)
(* Proofs about Client, for any number of worker goroutines, clients,      *)
(* flushes and jobs: what the counters and the fields of a client say of   *)
(* its goroutines, while metrics are replaced under them and while Flush   *)
(* waits for them.                                                         *)
(***************************************************************************)
EXTENDS Client, TallyProofs, FiniteSetTheorems, TLAPS

\* The variables that the proofs are about, as far as they need their types.
Types ==
  /\ main \in {"ready", "new", "drain", "wait", "flush"}
  /\ client \in 0..MaxClients
  /\ jobs \in [Clients -> 0..JobCapacity]
  /\ closed \in [Clients -> BOOLEAN]
  /\ flushes \in [Clients -> Nat]
  /\ workers \in [Clients -> Nat]
  /\ at \in [Workers -> Steps]
  /\ owner \in [Workers -> 0..MaxClients]
  /\ chan \in [Workers -> Nat]
  /\ gen \in Generations /\ swapped \in 0..6
  /\ value \in [Generations -> [Metrics -> Nat]]
  /\ fresh \in Nat

\* Every call of New and of Flush makes one generation of metrics.
Made ==
  /\ gen <= client + MaxFlushes + (IF main = "new" THEN 1 ELSE 0)
  /\ main \in {"drain", "wait"} => gen < client + MaxFlushes
  /\ main \in {"drain", "wait", "flush"} => client > 0
  /\ main = "new" => client < MaxClients
  /\ main \notin {"new", "flush"} => swapped = 6
  /\ swapped < 6 => gen > 0
  /\ client = 0 => fresh = 0

\* Metrics that no variable refers to yet are zero.
Unmade ==
  /\ \A g \in Generations, m \in Metrics : g > gen => value[g][m] = 0
  /\ \A m \in Metrics : Position[m] > swapped => value[gen][m] = 0

\* A goroutine that runs belongs to a client that New has returned, and
\* ranges over the Jobsch that this client has now.
Owned ==
  \A w \in Workers :
    /\ at[w] # "none" => owner[w] \in 1..client
    /\ at[w] = "none" => owner[w] = 0
    /\ at[w] \notin {"none", "started", "exited"} => chan[w] = flushes[owner[w]]

\* A Jobsch is closed while Flush waits, and no goroutine is left when it has.
Closing ==
  /\ \A c \in Clients : closed[c] => c = client /\ main \in {"wait", "flush"}
  /\ main \in {"wait", "flush"} => jobs[client] = 0
  /\ main = "flush" => AllDone

\* Goroutines of a client that have a job.
Busy(c) == {w \in InFlight : owner[w] = c}

\* What was sent is in the channel, with a worker or counted.
Kept ==
  main = "ready" /\ client > 0 =>
    fresh <= jobs[client] + Cardinality(Busy(client)) + value[gen]["requestSum"]

\* Those that have come to run are what the field workers counts.
Serving(c) == {w \in Alive(c) : at[w] # "started"}

AmountServes ==
  \A c \in Clients : c # client \/ main \notin {"wait", "flush"} =>
    Amount(c) = Cardinality(Serving(c))

IInv == Types /\ Made /\ Unmade /\ Owned /\ Closing /\ AmountServes /\ SuccessWithinSum /\ Kept
-----------------------------------------------------------------------------
\* The names of the counters, and their places in initMetrics.
LEMMA Names ==
  /\ Position \in [Metrics -> 1..6]
  /\ Position["requestSum"] = 5 /\ Position["requestSuccess"] = 6
  /\ Then \in [Metrics -> Steps]
BY DEF Position, Metrics, Then, Steps

(* The numbers of goroutines in a set and in the set with one more or one  *)
(* less of them.                                                           *)
LEMMA Counting ==
  ASSUME NEW A \in SUBSET Workers
  PROVE  /\ IsFiniteSet(A) /\ Cardinality(A) \in Nat
         /\ \A w \in Workers \ A : Cardinality(A \union {w}) = Cardinality(A) + 1
         /\ \A w \in A : Cardinality(A \ {w}) = Cardinality(A) - 1
         /\ \A B \in SUBSET A : Cardinality(B) <= Cardinality(A)
<1>1. IsFiniteSet(A)
  BY ClientAssumption, FS_Subset
<1> QED
  BY <1>1, FS_CardinalityType, FS_AddElement, FS_RemoveElement, FS_Subset

(* The variables refer to the newest metrics or to those before, ...       *)
LEMMA RefersOK ==
  ASSUME Types, Made, NEW m \in Metrics
  PROVE  Refers(m) \in Generations /\ Refers(m) <= gen
<1>1. gen \in Generations /\ swapped \in 0..6 /\ (swapped < 6 => gen > 0)
  BY DEF Types, Made
<1>2. Position[m] \in 1..6
  BY Names
<1>3. MaxClients + MaxFlushes \in Nat
  BY ClientAssumption
<1> QED
  BY <1>1, <1>2, <1>3 DEF Refers, Generations

(* ... and a worker increments a counter of one generation.                *)
LEMMA IncEffect ==
  ASSUME Types, Made, NEW m \in Metrics, Inc(m)
  PROVE  /\ value' \in [Generations -> [Metrics -> Nat]]
         /\ \A g \in Generations, k \in Metrics :
              value'[g][k] = IF g = Refers(m) /\ k = m THEN value[g][k] + 1 ELSE value[g][k]
<1> DEFINE r == Refers(m)
           row == [value[r] EXCEPT ![m] = @ + 1]
<1>1. r \in Generations
  BY RefersOK
<1> HIDE DEF r
<1>2. row \in [Metrics -> Nat]
      /\ \A k \in Metrics : row[k] = IF k = m THEN value[r][k] + 1 ELSE value[r][k]
  BY <1>1 DEF Types
<1>3. value' = [value EXCEPT ![r] = row]
  BY DEF Inc, r
<1> HIDE DEF row
<1>4. value' \in [Generations -> [Metrics -> Nat]]
  BY <1>1, <1>2, <1>3 DEF Types
<1>5. \A g \in Generations : value'[g] = IF g = r THEN row ELSE value[g]
  BY <1>3 DEF Types
<1> QED
  BY <1>2, <1>4, <1>5 DEF r

\* The initial states are in the invariant: no goroutine and no count.
LEMMA InitIInv == Init => IInv
<1> SUFFICES ASSUME Init PROVE IInv
  OBVIOUS
<1> USE ClientAssumption DEF Init
<1>1. Types /\ Made
  BY DEF Types, Made, Generations, Clients, Steps
<1>2. Unmade
  BY Names, <1>1 DEF Unmade, Types
<1>3. Owned /\ Closing
  BY DEF Owned, Closing
<1>4. AmountServes
  <2> SUFFICES ASSUME NEW c \in Clients PROVE Amount(c) = Cardinality(Serving(c))
    BY DEF AmountServes
  <2>1. Serving(c) = {}
    BY DEF Serving, Alive, Clients
  <2> QED
    BY <2>1, FS_EmptySet DEF Amount
<1>5. SuccessWithinSum
  <2>1. Doing({"statusCodes", "requestSum"}) \in SUBSET Workers
    BY DEF Doing
  <2>2. value[gen]["requestSuccess"] = 0 /\ value[gen]["requestSum"] = 0
    BY <1>1 DEF Types, Metrics
  <2> QED
    BY <2>1, <2>2, Counting DEF SuccessWithinSum
<1>6. Kept
  BY DEF Kept
<1> QED
  BY <1>1, <1>2, <1>3, <1>4, <1>5, <1>6 DEF IInv

USE DEF channels, goroutines, metrics, sends, flushMetrics, Goto

(* A counting statement changes its own counter only, by one, in the       *)
(* generation that its variable refers to, or nothing.                     *)
LEMMA CountEffect ==
  ASSUME Types, Made, NEW w \in Workers, NEW m \in Metrics, Count(w, m)
  PROVE  /\ value' \in [Generations -> [Metrics -> Nat]]
         /\ \A g \in Generations, k \in Metrics :
              \/ value'[g][k] = value[g][k]
              \/ g = Refers(m) /\ k = m /\ value'[g][k] = value[g][k] + 1
         /\ m # "requestSuccess" => value'[Refers(m)][m] = value[Refers(m)][m] + 1
<1>1. CASE Inc(m)
  BY <1>1, IncEffect, RefersOK
<1>2. CASE ~Inc(m)
  BY <1>2 DEF Count, Types
<1> QED
  BY <1>1, <1>2

(* The values keep their types, and a generation is made for each call.    *)
LEMMA TypeStep == Types /\ Made /\ Closing /\ Owned /\ [Next]_vars => Types' /\ Made'
<1> SUFFICES ASSUME Types, Made, Closing, Owned, [Next]_vars PROVE Types' /\ Made'
  OBVIOUS
<1> USE DEF Types, Made
<1>g. MaxClients \in Nat /\ MaxFlushes \in Nat /\ JobCapacity \in Nat
  BY ClientAssumption
<1>c. client > 0 => client \in Clients
  BY <1>g DEF Clients
<1>1. CASE New
  BY <1>1, <1>g DEF New, Generations
<1>2. CASE NewReturn
  BY <1>2, <1>g DEF NewReturn
<1>3. CASE initMetrics
  BY <1>3, <1>g DEF initMetrics
<1>4. CASE Flush
  BY <1>4, <1>g DEF Flush, Generations
<1>5. CASE drainChan
  <2>1. jobs' \in [Clients -> 0..JobCapacity]
    BY <1>5, <1>g, <1>c DEF drainChan
  <2> QED
    BY <1>5, <1>g, <2>1 DEF drainChan
<1>6. CASE FlushClose
  BY <1>6, <1>g DEF FlushClose
<1>7. CASE FlushWait
  BY <1>7, <1>g DEF FlushWait, Generations
<1>8. CASE FlushReturn
  <2>1. /\ workers' \in [Clients -> Nat] /\ closed' \in [Clients -> BOOLEAN]
        /\ flushes' \in [Clients -> Nat]
    BY <1>8, <1>g, <1>c DEF FlushReturn
  <2> QED
    BY <1>8, <1>g, <2>1 DEF FlushReturn
<1>9. CASE Send
  <2>1. jobs' \in [Clients -> 0..JobCapacity]
    BY <1>9, <1>g, <1>c DEF Send, Room
  <2> QED
    BY <1>9, <1>g, <2>1 DEF Send
<1>10. ASSUME NEW n \in 0..Cardinality(Workers), NEW S \in SUBSET Unused, RunWorkers(n, S)
       PROVE Types' /\ Made'
  <2>1. at' \in [Workers -> Steps] /\ owner' \in [Workers -> 0..MaxClients]
    BY <1>10, <1>g DEF RunWorkers, Steps
  <2> QED
    BY <1>10, <1>g, <2>1 DEF RunWorkers
<1>11. ASSUME NEW w \in Workers, Start(w) PROVE Types' /\ Made'
  <2>1. owner[w] \in Clients
    BY <1>11, <1>g DEF Start, Clients, Owned
  <2>2. at' \in [Workers -> Steps] /\ workers' \in [Clients -> Nat] /\ chan' \in [Workers -> Nat]
    BY <1>11, <2>1 DEF Start, Steps
  <2> QED
    BY <1>11, <1>g, <2>2 DEF Start
<1>12. ASSUME NEW w \in Workers, Take(w) PROVE Types' /\ Made'
  <2>1. owner[w] \in Clients
    BY <1>12, <1>g DEF Take, Clients, Owned
  <2>2. at' \in [Workers -> Steps] /\ jobs' \in [Clients -> 0..JobCapacity]
    BY <1>12, <1>g, <2>1 DEF Take, Steps
  <2> QED
    BY <1>12, <1>g, <2>2 DEF Take
<1>13. ASSUME NEW w \in Workers, Exit(w) PROVE Types' /\ Made'
  BY <1>13, <1>g DEF Exit, Steps
<1>14. ASSUME NEW w \in Workers, NEW e \in Faults, NEW sc \in Codes, Do(w, e, sc)
       PROVE Types' /\ Made'
  BY <1>14, <1>g DEF Do, Steps, Faults, Metrics
<1>15. ASSUME NEW w \in Workers, NEW m \in Metrics, Count(w, m) PROVE Types' /\ Made'
  <2>1. value' \in [Generations -> [Metrics -> Nat]]
    BY <1>15, CountEffect
  <2>2. Then[m] \in Steps
    BY Names
  <2> QED
    BY <1>15, <1>g, <2>1, <2>2 DEF Count
<1>16. CASE UNCHANGED vars
  BY <1>16 DEF vars
<1> QED
  BY <1>1, <1>2, <1>3, <1>4, <1>5, <1>6, <1>7, <1>8, <1>9, <1>10, <1>11, <1>12,
     <1>13, <1>14, <1>15, <1>16 DEF Next, NewSteps, FlushSteps, run

(* New metrics are zero until the variables refer to them. *)
LEMMA UnmadeStep == Types /\ Made /\ Unmade /\ [Next]_vars => Unmade'
<1> SUFFICES ASSUME Types, Made, Unmade, [Next]_vars PROVE Unmade'
  OBVIOUS
<1>1. CASE UNCHANGED value /\ gen' = gen + 1 /\ swapped' = 0 /\ gen + 1 \in Generations
  BY <1>1 DEF Unmade, Types, Generations
<1>2. CASE initMetrics
  BY <1>2, Names DEF Unmade, Types, initMetrics
<1>3. ASSUME NEW w \in Workers, NEW m \in Metrics, Count(w, m) PROVE Unmade'
  <2>1. \A g \in Generations, k \in Metrics :
          value'[g][k] = value[g][k] \/ (g = Refers(m) /\ k = m)
    BY <1>3, CountEffect
  <2>2. gen \in Generations /\ gen' = gen /\ swapped' = swapped /\ Refers(m) <= gen
    BY <1>3, RefersOK DEF Count, Types
  <2>3. Position[m] > swapped => Refers(m) # gen
    <3>1. Position[m] \in 1..6
      BY Names, <1>3
    <3>2. gen \in Int /\ swapped \in 0..6
      BY <2>2 DEF Types, Generations
    <3> QED
      BY <3>1, <3>2 DEF Refers
  <2> QED
    BY <2>1, <2>2, <2>3 DEF Unmade, Generations
<1>4. CASE UNCHANGED metrics
  BY <1>4 DEF Unmade
<1>5. New \/ FlushWait => UNCHANGED value /\ gen' = gen + 1 /\ swapped' = 0 /\ gen + 1 \in Generations
  BY ClientAssumption DEF New, FlushWait, Generations, Types, Made
<1>6. NewReturn \/ Flush \/ drainChan \/ FlushClose \/ FlushReturn \/ Send \/ UNCHANGED vars
        => UNCHANGED metrics
  BY DEF NewReturn, Flush, drainChan, FlushClose, FlushReturn, Send, vars
<1>7. \A n, S : RunWorkers(n, S) => UNCHANGED metrics
  BY DEF RunWorkers
<1>8. \A w, e, sc : Start(w) \/ Take(w) \/ Exit(w) \/ Do(w, e, sc) => UNCHANGED metrics
  BY DEF Start, Take, Exit, Do
<1> QED
  BY <1>1, <1>2, <1>3, <1>4, <1>5, <1>6, <1>7, <1>8 DEF Next, NewSteps, FlushSteps, run

(* A step of a goroutine at work changes nothing of where it belongs. *)
LEMMA RunEffect ==
  ASSUME Types, NEW w \in Workers, run(w)
  PROVE  /\ at[w] \notin {"none", "started", "exited"} /\ at'[w] # "none"
         /\ \A v \in Workers : v # w => at'[v] = at[v]
         /\ UNCHANGED <<main, client, closed, flushes, workers, owner, chan, gen, swapped, fresh>>
<1>1. CASE Take(w) \/ Exit(w)
  BY <1>1 DEF Take, Exit, Types
<1>2. ASSUME NEW e \in Faults, NEW sc \in Codes, Do(w, e, sc) PROVE at'[w] # "none"
  BY <1>2 DEF Do, Types, Faults
<1>3. ASSUME NEW m \in Metrics, Count(w, m)
      PROVE at'[w] # "none" /\ at[w] \notin {"none", "started", "exited"}
  BY <1>3 DEF Count, Types, Metrics, Then
<1>4. ASSUME NEW e \in Faults, NEW sc \in Codes, Do(w, e, sc)
      PROVE /\ at[w] \notin {"none", "started", "exited"}
            /\ \A v \in Workers : v # w => at'[v] = at[v]
            /\ UNCHANGED <<main, client, closed, flushes, workers, owner, chan, gen, swapped, fresh>>
  BY <1>4 DEF Do, Types
<1>5. ASSUME NEW m \in Metrics, Count(w, m)
      PROVE /\ \A v \in Workers : v # w => at'[v] = at[v]
            /\ UNCHANGED <<main, client, closed, flushes, workers, owner, chan, gen, swapped, fresh>>
  BY <1>5 DEF Count, Types
<1> QED
  BY <1>1, <1>2, <1>3, <1>4, <1>5 DEF run

(* A goroutine keeps to the Jobsch of its client: Flush makes another one  *)
(* when none is left.                                                      *)
LEMMA OwnedStep == Types /\ Made /\ Owned /\ Closing /\ [Next]_vars => Owned'
<1> SUFFICES ASSUME Types, Made, Owned, Closing, [Next]_vars PROVE Owned'
  OBVIOUS
<1> USE DEF Owned
<1>0. client \in Nat
  BY ClientAssumption DEF Types
<1>1. CASE NewReturn
  BY <1>0, <1>1 DEF NewReturn
<1>2. CASE FlushReturn
  <2>1. \A c \in Clients : c # client => flushes'[c] = flushes[c]
    BY <1>2 DEF FlushReturn, Types
  <2>2. \A w \in Workers : at[w] \notin {"none", "exited"} => owner[w] # client /\ owner[w] \in Clients
    BY <1>2, ClientAssumption DEF FlushReturn, Closing, AllDone, Types, Clients
  <2> QED
    BY <1>2, <2>1, <2>2 DEF FlushReturn
<1>3. ASSUME NEW n \in 0..Cardinality(Workers), NEW S \in SUBSET Unused, RunWorkers(n, S)
      PROVE Owned'
  BY <1>0, <1>3 DEF RunWorkers, Unused, Types
<1>4. ASSUME NEW w \in Workers, Start(w) PROVE Owned'
  BY <1>4 DEF Start, Types
<1>5. ASSUME NEW w \in Workers, run(w) PROVE Owned'
  BY <1>5, RunEffect
<1>6. CASE UNCHANGED <<client, flushes, at, owner, chan>>
  BY <1>6
<1>7. New \/ initMetrics \/ Flush \/ drainChan \/ FlushClose \/ FlushWait \/ Send \/ UNCHANGED vars
        => UNCHANGED <<client, flushes, at, owner, chan>>
  BY DEF New, initMetrics, Flush, drainChan, FlushClose, FlushWait, Send, vars
<1> QED
  BY <1>1, <1>2, <1>3, <1>4, <1>5, <1>6, <1>7 DEF Next, NewSteps, FlushSteps

(* A closed Jobsch is that of a Flush that waits, and stays empty. *)
LEMMA ClosingStep == Types /\ Made /\ Owned /\ Closing /\ [Next]_vars => Closing'
<1> SUFFICES ASSUME Types, Made, Owned, Closing, [Next]_vars PROVE Closing'
  OBVIOUS
<1> USE DEF Closing
<1>c. client > 0 => client \in Clients
  BY ClientAssumption DEF Types, Clients
<1>1. CASE New \/ NewReturn \/ initMetrics
  BY <1>1 DEF New, NewReturn, initMetrics, AllDone
<1>2. CASE Flush \/ drainChan \/ FlushClose
  BY <1>2, <1>c DEF Flush, drainChan, FlushClose, Types, Made, AllDone
<1>3. CASE FlushWait \/ FlushReturn
  BY <1>3, <1>c DEF FlushWait, FlushReturn, Types, Made, AllDone
<1>4. CASE Send
  BY <1>4 DEF Send
<1>5. ASSUME NEW n \in 0..Cardinality(Workers), NEW S \in SUBSET Unused, RunWorkers(n, S)
      PROVE Closing'
  BY <1>5 DEF RunWorkers
<1>6. ASSUME NEW w \in Workers, Start(w) PROVE Closing'
  BY <1>6 DEF Start, AllDone, Types
<1>7. ASSUME NEW w \in Workers, run(w) PROVE Closing'
  <2>1. UNCHANGED <<main, client, closed, owner>>
    BY <1>7, RunEffect
  <2>2. main = "flush" => AllDone'
    BY <1>7, <2>1, RunEffect DEF AllDone
  <2>3. main \in {"wait", "flush"} => jobs'[client] = 0
    <3>1. CASE Take(w)
      BY <3>1, <1>c DEF Take, Types, Made
    <3>2. CASE ~Take(w)
      BY <1>7, <3>2 DEF run, Exit, Do, Count
    <3> QED
      BY <3>1, <3>2
  <2> QED
    BY <2>1, <2>2, <2>3
<1>8. CASE UNCHANGED vars
  BY <1>8 DEF vars, AllDone
<1> QED
  BY <1>1, <1>2, <1>3, <1>4, <1>5, <1>6, <1>7, <1>8 DEF Next, NewSteps, FlushSteps
-----------------------------------------------------------------------------
(* Which goroutines are at a statement, after a step of one of them. *)
LEMMA DoingEffect ==
  ASSUME Types, NEW steps, NEW w \in Workers,
         \A v \in Workers : v # w => at'[v] = at[v]
  PROVE  /\ Doing(steps) \in SUBSET Workers /\ Doing(steps)' \in SUBSET Workers
         /\ at[w] \in steps /\ at'[w] \in steps => Doing(steps)' = Doing(steps)
         /\ at[w] \notin steps /\ at'[w] \notin steps => Doing(steps)' = Doing(steps)
         /\ at[w] \in steps /\ at'[w] \notin steps =>
              w \in Doing(steps) /\ Doing(steps)' = Doing(steps) \ {w}
         /\ at[w] \notin steps /\ at'[w] \in steps =>
              w \in Workers \ Doing(steps) /\ Doing(steps)' = Doing(steps) \union {w}
BY DEF Doing

\* Workers that have counted a success or could have, and not the request.
Late == Doing({"statusCodes", "requestSum"})

(* A success is counted in the newest metrics only after its variable was  *)
(* replaced, the last of all; from then on the request goes there too.     *)
LEMMA SuccessStep ==
  Types /\ Made /\ Unmade /\ SuccessWithinSum /\ Owned /\ Closing /\ [Next]_vars
    => SuccessWithinSum'
<1> SUFFICES ASSUME Types, Made, Unmade, SuccessWithinSum, Owned, Closing, [Next]_vars
             PROVE  SuccessWithinSum'
  OBVIOUS
<1> DEFINE success == value[gen]["requestSuccess"]
           sum == value[gen]["requestSum"]
<1>0. /\ Late \in SUBSET Workers /\ success \in Nat /\ sum \in Nat /\ gen \in Generations
      /\ Cardinality(Late) \in Nat
  <2>1. Late \in SUBSET Workers
    BY DEF Late, Doing
  <2> QED
    BY <2>1, Counting DEF Types, Metrics
<1>s. success <= sum + Cardinality(Late)
  BY DEF SuccessWithinSum, Late
<1>q. SuccessWithinSum' <=> success' <= sum' + Cardinality(Late')
  BY DEF SuccessWithinSum, Late
<1>i. (success = 0 \/ swapped = 6) /\ (Position["requestSum"] > swapped => sum = 0)
  BY Names DEF Unmade, Types, Metrics
<1> HIDE DEF success, sum
<1>1. CASE UNCHANGED <<value, gen>> /\ Late' = Late
  BY <1>1, <1>s, <1>q DEF success, sum
<1>2. CASE New \/ FlushWait
  <2>1. Late' = Late
    BY <1>2 DEF New, FlushWait, Late, Doing
  <2>2. gen' = gen + 1 /\ gen' \in Generations /\ UNCHANGED value
    BY <1>2, <1>0, ClientAssumption DEF New, FlushWait, Types, Made, Generations
  <2>3. success' = 0 /\ sum' = 0
    BY <1>0, <2>2 DEF Unmade, success, sum, Metrics, Generations
  <2> QED
    BY <1>0, <1>q, <2>1, <2>3
<1>3. ASSUME NEW w \in Workers, NEW m \in Metrics, Count(w, m) PROVE SuccessWithinSum'
  <2>1. /\ gen' = gen /\ swapped' = swapped /\ at[w] = m /\ at'[w] = Then[m]
        /\ \A v \in Workers : v # w => at'[v] = at[v]
    BY <1>3 DEF Count, Types
  <2>2. \A k \in Metrics :
          \/ value'[gen][k] = value[gen][k]
          \/ gen = Refers(m) /\ k = m /\ value'[gen][k] = value[gen][k] + 1
    BY <1>0, <1>3, CountEffect
  <2>3. CASE m = "requestSuccess"
    <3>1. success' <= success + 1 /\ sum' = sum /\ success' \in Nat
      BY <1>0, <2>1, <2>2, <2>3 DEF success, sum, Metrics
    <3>2. Late' = Late \union {w} /\ w \in Workers \ Late
      BY <2>1, <2>3, DoingEffect DEF Late, Then
    <3>3. Cardinality(Late') = Cardinality(Late) + 1
      BY <1>0, <3>2, Counting
    <3> QED
      BY <1>0, <1>q, <1>s, <3>1, <3>3
  <2>4. CASE m = "requestSum"
    <3>1. success' = success
      BY <1>0, <2>1, <2>2, <2>4 DEF success, Metrics
    <3>2. Late' = Late \ {w} /\ w \in Late
      BY <2>1, <2>4, DoingEffect DEF Late, Then
    <3>3. Cardinality(Late') = Cardinality(Late) - 1 /\ Cardinality(Late') \in Nat
      BY <1>0, <3>2, Counting
    <3>4. value'[Refers(m)][m] = value[Refers(m)][m] + 1
      BY <1>3, <2>4, CountEffect
    <3>5. sum' \in Nat /\ (Refers(m) = gen => sum' = sum + 1)
      BY <1>0, <2>1, <2>2, <2>4, <3>4 DEF sum, Metrics
    <3>6. Refers(m) # gen => success = 0
      BY Names, <1>i, <2>4 DEF Refers
    <3> QED
      BY <1>0, <1>q, <1>s, <3>1, <3>3, <3>5, <3>6
  <2>5. CASE m \notin {"requestSuccess", "requestSum"}
    <3>1. success' = success /\ sum' = sum
      BY <2>1, <2>2, <2>5 DEF success, sum, Metrics
    <3>2. Late' = Late
      BY <1>3, <2>1, <2>5, DoingEffect DEF Late, Then, Metrics
    <3> QED
      BY <1>q, <1>s, <3>1, <3>2
  <2> QED
    BY <2>3, <2>4, <2>5
<1>4. ASSUME NEW w \in Workers, Start(w) \/ Take(w) \/ Exit(w) \/ \E e \in Faults, sc \in Codes : Do(w, e, sc)
      PROVE UNCHANGED <<value, gen>> /\ Late' = Late
  <2>1. /\ at[w] \notin {"statusCodes", "requestSum"} /\ at'[w] \notin {"statusCodes", "requestSum"}
        /\ \A v \in Workers : v # w => at'[v] = at[v]
        /\ UNCHANGED <<value, gen>>
    BY <1>4 DEF Start, Take, Exit, Do, Types, Faults
  <2> QED
    BY <2>1, DoingEffect DEF Late
<1>5. ASSUME NEW n \in 0..Cardinality(Workers), NEW S \in SUBSET Unused, RunWorkers(n, S)
      PROVE UNCHANGED <<value, gen>> /\ Late' = Late
  <2>1. \A v \in Workers : at'[v] = at[v] \/ (at[v] = "none" /\ at'[v] = "started")
    BY <1>5 DEF RunWorkers, Unused, Types
  <2> QED
    BY <1>5, <2>1 DEF RunWorkers, Late, Doing
<1>6. NewReturn \/ initMetrics \/ Flush \/ drainChan \/ FlushClose \/ FlushReturn \/ Send \/ UNCHANGED vars
        => UNCHANGED <<value, gen>> /\ Late' = Late
  BY DEF NewReturn, initMetrics, Flush, drainChan, FlushClose, FlushReturn, Send, vars, Late, Doing
<1> QED
  BY <1>1, <1>2, <1>3, <1>4, <1>5, <1>6 DEF Next, NewSteps, FlushSteps, run

(* The field workers counts the goroutines that have come to run; they     *)
(* leave while Flush waits, which sets it to zero when all have left.      *)
LEMMA AmountStep ==
  Types /\ Made /\ Owned /\ Closing /\ AmountServes /\ [Next]_vars => AmountServes'
<1> SUFFICES ASSUME Types, Made, Owned, Closing, AmountServes, [Next]_vars,
                    NEW c \in Clients, (c # client \/ main \notin {"wait", "flush"})'
             PROVE  Amount(c)' = Cardinality(Serving(c)')
  BY DEF AmountServes
<1>0. Serving(c) \in SUBSET Workers /\ workers[c] \in Nat
  BY DEF Serving, Alive, Types
<1>s. c # client \/ main \notin {"wait", "flush"} => workers[c] = Cardinality(Serving(c))
  BY DEF AmountServes, Amount
<1>a. Amount(c)' = workers'[c]
  BY DEF Amount
<1>1. CASE UNCHANGED workers /\ Serving(c)' = Serving(c)
           /\ (c # client \/ main \notin {"wait", "flush"})
  BY <1>1, <1>s, <1>a
<1>2. CASE FlushReturn
  <2>1. Serving(c)' = Serving(c) /\ main = "flush"
    BY <1>2 DEF FlushReturn, Serving, Alive
  <2>2. CASE c = client
    <3>1. Serving(c) = {} /\ workers'[c] = 0
      BY <1>2, <2>1, <2>2 DEF FlushReturn, Closing, AllDone, Serving, Alive, Types
    <3> QED
      BY <1>a, <2>1, <3>1, FS_EmptySet
  <2>3. CASE c # client
    BY <1>2, <1>s, <1>a, <2>1, <2>3 DEF FlushReturn, Types
  <2> QED
    BY <2>2, <2>3
<1>3. ASSUME NEW n \in 0..Cardinality(Workers), NEW S \in SUBSET Unused, RunWorkers(n, S)
      PROVE Amount(c)' = Cardinality(Serving(c)')
  <2>1. \A w \in Workers : \/ at'[w] = at[w] /\ owner'[w] = owner[w]
                           \/ at[w] = "none" /\ at'[w] = "started" /\ owner[w] = 0
    BY <1>3 DEF RunWorkers, Unused, Types, Owned
  <2>2. Serving(c)' = Serving(c)
    BY <2>1, ClientAssumption DEF Serving, Alive, Clients
  <2> QED
    BY <1>1, <1>3, <2>2 DEF RunWorkers
<1>4. ASSUME NEW w \in Workers, Start(w) PROVE Amount(c)' = Cardinality(Serving(c)')
  <2>1. /\ at[w] = "started" /\ at'[w] = "waiting" /\ owner' = owner /\ owner[w] \in Clients
        /\ \A v \in Workers : v # w => at'[v] = at[v]
        /\ UNCHANGED <<client, main>>
    BY <1>4, ClientAssumption DEF Start, Types, Owned, Clients
  <2>2. CASE owner[w] = c
    <3>1. Serving(c)' = Serving(c) \union {w} /\ w \in Workers \ Serving(c)
      BY <2>1, <2>2 DEF Serving, Alive
    <3>2. workers'[c] = workers[c] + 1
      BY <1>4, <2>2 DEF Start, Types
    <3> QED
      BY <1>0, <1>s, <1>a, <2>1, <3>1, <3>2, Counting
  <2>3. CASE owner[w] # c
    <3>1. Serving(c)' = Serving(c)
      BY <2>1, <2>3 DEF Serving, Alive
    <3>2. workers'[c] = workers[c]
      BY <1>4, <2>1, <2>3 DEF Start, Types
    <3> QED
      BY <1>s, <1>a, <2>1, <3>1, <3>2
  <2> QED
    BY <2>2, <2>3
<1>5. ASSUME NEW w \in Workers, run(w) PROVE Amount(c)' = Cardinality(Serving(c)')
  <2>1. /\ at[w] \notin {"none", "started", "exited"} /\ chan[w] = flushes[owner[w]]
        /\ owner[w] \in Clients
        /\ \A v \in Workers : v # w => at'[v] = at[v]
        /\ UNCHANGED <<client, main, workers, owner>>
    BY <1>5, RunEffect, ClientAssumption DEF Owned, Types, Clients
  <2>2. CASE Exit(w)
    <3>1. owner[w] = client /\ main \in {"wait", "flush"}
      BY <2>1, <2>2 DEF Exit, Open, Closing
    <3>2. Serving(c)' = Serving(c)
      BY <2>1, <3>1 DEF Serving, Alive
    <3> QED
      BY <1>s, <1>a, <2>1, <3>2
  <2>3. CASE ~Exit(w)
    <3>1. at'[w] \notin {"started", "exited"}
      BY <1>5, <2>3 DEF run, Take, Do, Count, Types, Faults, Metrics, Then
    <3>2. Serving(c)' = Serving(c)
      BY <2>1, <3>1 DEF Serving, Alive
    <3> QED
      BY <1>s, <1>a, <2>1, <3>2
  <2> QED
    BY <2>2, <2>3
<1>6. New \/ initMetrics \/ Flush \/ drainChan \/ Send \/ UNCHANGED vars
        => /\ UNCHANGED workers /\ Serving(c)' = Serving(c)
           /\ c # client \/ main \notin {"wait", "flush"}
  BY DEF New, initMetrics, Flush, drainChan, Send, vars, Serving, Alive
<1>7. NewReturn \/ FlushClose \/ FlushWait
        => /\ UNCHANGED workers /\ Serving(c)' = Serving(c)
           /\ c # client \/ main \notin {"wait", "flush"}
  BY DEF NewReturn, FlushClose, FlushWait, Serving, Alive
<1> QED
  BY <1>1, <1>2, <1>3, <1>4, <1>5, <1>6, <1>7 DEF Next, NewSteps, FlushSteps

(* A job moves from the channel to a worker, and from there into the       *)
(* requestSum that the client shows.                                       *)
LEMMA KeptStep == Types /\ Types' /\ Made /\ Owned /\ Kept /\ [Next]_vars => Kept'
<1> SUFFICES ASSUME Types, Types', Made, Owned, Kept, [Next]_vars, main' = "ready", client' > 0
             PROVE  fresh' <= jobs'[client'] + Cardinality(Busy(client)') + value'[gen']["requestSum"]
  BY DEF Kept
<1> DEFINE B == Busy(client)
           sum == value[gen]["requestSum"]
           queue == jobs[client]
<1>0. /\ B \in SUBSET Workers /\ fresh \in Nat /\ client' \in Clients
      /\ B' \in SUBSET Workers /\ queue' \in Nat /\ sum' \in Nat
  <2>1. B \in SUBSET Workers /\ B' \in SUBSET Workers
    BY DEF Busy, InFlight, Doing
  <2>2. client' \in Clients
    BY ClientAssumption DEF Types, Clients
  <2>3. queue' \in 0..JobCapacity
    BY <2>2 DEF Types
  <2>4. sum' \in Nat
    BY DEF Types, Metrics
  <2> QED
    BY <2>1, <2>2, <2>3, <2>4, ClientAssumption DEF Types
<1>b. Cardinality(B) \in Nat /\ Cardinality(B') \in Nat
  BY <1>0, Counting
<1>q. fresh' <= queue' + Cardinality(B') + sum' =>
        fresh' <= jobs'[client'] + Cardinality(Busy(client)') + value'[gen']["requestSum"]
  OBVIOUS
<1>s. main = "ready" /\ client > 0 =>
        fresh <= queue + Cardinality(B) + sum /\ queue \in Nat /\ sum \in Nat /\ client \in Clients
  <2>1. client > 0 => client \in Clients
    BY ClientAssumption DEF Types, Clients
  <2>2. client > 0 => queue \in 0..JobCapacity
    BY <2>1 DEF Types
  <2>3. sum \in Nat
    BY DEF Types, Metrics
  <2> QED
    BY <2>1, <2>2, <2>3, ClientAssumption DEF Kept
<1> DEFINE Goal == fresh' <= queue' + Cardinality(B') + sum'
<1> SUFFICES Goal
  BY <1>q
<1> HIDE DEF sum, queue
<1>1. CASE NewReturn \/ FlushReturn
  <2>1. fresh' = 0
    BY <1>1 DEF NewReturn, FlushReturn
  <2> QED
    BY <1>0, <1>b, <2>1
<1>2. CASE Send
  <2>1. main = "ready" /\ client > 0 /\ client' = client /\ fresh' = fresh + 1 /\ sum' = sum
    BY <1>2 DEF Send, sum
  <2>2. queue' = queue + 1
    BY <1>2, <1>s, <2>1 DEF Send, queue, Types
  <2>3. B' = B
    BY <1>2 DEF Send, Busy, InFlight, Doing
  <2> QED
    BY <1>0, <1>b, <1>s, <2>1, <2>2, <2>3
<1>3. ASSUME NEW n \in 0..Cardinality(Workers), NEW S \in SUBSET Unused, RunWorkers(n, S) PROVE Goal
  <2>1. \A w \in Workers : \/ at'[w] = at[w] /\ owner'[w] = owner[w]
                           \/ at[w] = "none" /\ at'[w] = "started"
    BY <1>3 DEF RunWorkers, Unused, Types
  <2>2. B' = B
    BY <1>3, <2>1 DEF RunWorkers, Busy, InFlight, Doing, Metrics
  <2>3. main = "ready" /\ client > 0 /\ fresh' = fresh /\ sum' = sum /\ queue' = queue
    BY <1>3 DEF RunWorkers, sum, queue
  <2> QED
    BY <1>0, <1>b, <1>s, <2>2, <2>3
<1>4. ASSUME NEW w \in Workers, Start(w) PROVE Goal
  <2>1. /\ at[w] = "started" /\ at'[w] = "waiting" /\ owner' = owner
        /\ \A v \in Workers : v # w => at'[v] = at[v]
        /\ main = main' /\ client = client' /\ fresh' = fresh /\ sum' = sum /\ queue' = queue
    BY <1>4 DEF Start, Types, sum, queue
  <2>2. B' = B
    BY <2>1 DEF Busy, InFlight, Doing, Metrics
  <2> QED
    BY <1>0, <1>b, <1>s, <2>1, <2>2
<1>5. ASSUME NEW w \in Workers, run(w) PROVE Goal
  <2>1. /\ main = "ready" /\ client > 0 /\ client' = client /\ fresh' = fresh
        /\ owner' = owner /\ gen' = gen /\ swapped = 6 /\ gen \in Generations
        /\ \A v \in Workers : v # w => at'[v] = at[v]
    BY <1>5, RunEffect DEF Types, Made
  <2>2. CASE Take(w)
    <3>1. at[w] = "waiting" /\ at'[w] = "doing" /\ sum' = sum /\ owner[w] \in Clients /\ jobs[owner[w]] > 0
      BY <2>1, <2>2, ClientAssumption DEF Take, Types, Owned, Clients, sum
    <3>2. CASE owner[w] = client
      <4>1. queue' = queue - 1
        BY <1>s, <2>1, <2>2, <3>1, <3>2 DEF Take, Types, queue
      <4>2. B' = B \union {w} /\ w \in Workers \ B
        BY <2>1, <3>1, <3>2 DEF Busy, InFlight, Doing, Metrics
      <4>3. Cardinality(B') = Cardinality(B) + 1
        BY <1>0, <4>2, Counting
      <4> QED
        BY <1>0, <1>b, <1>s, <2>1, <3>1, <4>1, <4>3
    <3>3. CASE owner[w] # client
      <4>1. queue' = queue
        BY <1>s, <2>1, <2>2, <3>1, <3>3 DEF Take, Types, queue
      <4>2. B' = B
        BY <2>1, <3>1, <3>3 DEF Busy, InFlight, Doing, Metrics
      <4> QED
        BY <1>0, <1>b, <1>s, <2>1, <3>1, <4>1, <4>2
    <3> QED
      BY <3>2, <3>3
  <2>3. CASE Exit(w)
    <3>1. at[w] = "waiting" /\ at'[w] = "exited" /\ sum' = sum /\ queue' = queue
      BY <2>1, <2>3 DEF Exit, Types, sum, queue
    <3>2. B' = B
      BY <2>1, <3>1 DEF Busy, InFlight, Doing, Metrics
    <3> QED
      BY <1>0, <1>b, <1>s, <2>1, <3>1, <3>2
  <2>4. ASSUME NEW e \in Faults, NEW sc \in Codes, Do(w, e, sc) PROVE Goal
    <3>1. at[w] = "doing" /\ at'[w] \in Metrics /\ sum' = sum /\ queue' = queue
      BY <2>1, <2>4 DEF Do, Types, Faults, Metrics, sum, queue
    <3>2. B' = B
      BY <2>1, <3>1 DEF Busy, InFlight, Doing
    <3> QED
      BY <1>0, <1>b, <1>s, <2>1, <3>1, <3>2
  <2>5. ASSUME NEW m \in Metrics, Count(w, m) PROVE Goal
    <3>1. at[w] = m /\ at'[w] = Then[m] /\ queue' = queue
      BY <2>1, <2>5 DEF Count, Types, queue
    <3>2. Refers(m) = gen
      BY <2>1, <2>5, Names DEF Refers
    <3>3. CASE m = "requestSum"
      <4>1. sum' = sum + 1
        BY <2>1, <2>5, <3>2, <3>3, CountEffect DEF sum
      <4>2. B' = B \ {w} \/ B' = B
        BY <2>1, <3>1, <3>3 DEF Busy, InFlight, Doing, Metrics, Then
      <4>3. Cardinality(B') >= Cardinality(B) - 1
        <5>1. CASE B' = B
          BY <1>b, <5>1
        <5>2. CASE B' = B \ {w} /\ B' # B
          BY <1>0, <1>b, <5>2, Counting
        <5> QED
          BY <4>2, <5>1, <5>2
      <4> QED
        BY <1>0, <1>b, <1>s, <2>1, <3>1, <4>1, <4>3
    <3>4. CASE m # "requestSum"
      <4>1. sum' = sum
        BY <2>1, <2>5, <3>4, CountEffect DEF sum, Metrics
      <4>2. Then[m] \in Metrics
        BY <2>5, <3>4 DEF Then, Metrics
      <4>3. B' = B
        BY <2>1, <2>5, <3>1, <4>2 DEF Busy, InFlight, Doing
      <4> QED
        BY <1>0, <1>b, <1>s, <2>1, <3>1, <4>1, <4>3
    <3> QED
      BY <3>3, <3>4
  <2> QED
    BY <1>5, <2>2, <2>3, <2>4, <2>5 DEF run
<1>6. New \/ initMetrics \/ Flush \/ drainChan \/ FlushClose \/ FlushWait => main' # "ready"
  BY DEF New, initMetrics, Flush, drainChan, FlushClose, FlushWait
<1>7. CASE UNCHANGED vars
  BY <1>7, <1>s DEF vars, Busy, InFlight, Doing, sum, queue
<1> QED
  BY <1>1, <1>2, <1>3, <1>4, <1>5, <1>6, <1>7 DEF Next, NewSteps, FlushSteps

(* The parts above hold in every state. *)
THEOREM Invariant == Spec => []IInv
<1>1. IInv /\ [Next]_vars => IInv'
  BY TypeStep, UnmadeStep, OwnedStep, ClosingStep, SuccessStep, AmountStep, KeptStep DEF IInv
<1> QED
  BY InitIInv, <1>1, PTL DEF Spec

(* Amount is never above the number of goroutines created, and below it    *)
(* exactly while one of them has not come to run, for any interleaving of  *)
(* RunWorkers, late goroutines and Flush.                                  *)
THEOREM AmountBelowCreated == Spec => []AmountOfCreated
<1>1. IInv => AmountOfCreated
  <2> SUFFICES ASSUME IInv, NEW c \in Clients, c # client \/ main \notin {"wait", "flush"}
               PROVE  /\ Amount(c) <= Cardinality(Alive(c))
                      /\ Amount(c) = Cardinality(Alive(c))
                           <=> \A w \in Alive(c) : at[w] # "started"
    BY DEF AmountOfCreated
  <2>1. Amount(c) = Cardinality(Serving(c))
    BY DEF IInv, AmountServes
  <2>2. Alive(c) \in SUBSET Workers /\ Serving(c) \in SUBSET Alive(c)
    BY DEF Alive, Serving
  <2>3. /\ Cardinality(Alive(c)) \in Nat
        /\ \A w \in Alive(c) : Cardinality(Alive(c) \ {w}) = Cardinality(Alive(c)) - 1
        /\ Cardinality(Serving(c)) <= Cardinality(Alive(c))
    BY <2>2, Counting
  <2>4. ASSUME NEW w \in Alive(c), at[w] = "started"
        PROVE  Cardinality(Serving(c)) < Cardinality(Alive(c))
    <3>1. Alive(c) \ {w} \in SUBSET Workers /\ Serving(c) \in SUBSET (Alive(c) \ {w})
      BY <2>2, <2>4 DEF Serving
    <3>2. /\ Cardinality(Serving(c)) <= Cardinality(Alive(c) \ {w})
          /\ Cardinality(Serving(c)) \in Nat
      BY <2>2, <3>1, Counting
    <3> QED
      BY <2>3, <3>2
  <2>5. ASSUME \A w \in Alive(c) : at[w] # "started"
        PROVE  Serving(c) = Alive(c)
    BY <2>5 DEF Serving
  <2> QED
    BY <2>1, <2>3, <2>4, <2>5
<1> QED
  BY Invariant, <1>1, PTL

(* There are no more successes than requests in the newest metrics, while  *)
(* any number of workers count and New replaces the counters.              *)
THEOREM SuccessesWithinSum == Spec => []SuccessWithinSum
BY Invariant, PTL DEF IInv

(* A client that was sent more than its channel and its workers hold has   *)
(* finished a request: there is a RequestSum() to divide by.               *)
THEOREM BurstHasDivisor == Spec => []DivisorPositive
<1>1. IInv => DivisorPositive
  <2> SUFFICES ASSUME IInv, main = "ready", fresh > JobCapacity + Cardinality(Alive(client))
               PROVE  value[gen]["requestSum"] > 0
    BY DEF DivisorPositive
  <2>1. client \in Clients /\ jobs[client] <= JobCapacity /\ jobs[client] \in Nat
        /\ value[gen]["requestSum"] \in Nat
    <3>1. Alive(client) \in SUBSET Workers
      BY DEF Alive
    <3>2. Cardinality(Alive(client)) \in Nat
      BY <3>1, Counting
    <3>3. client # 0
      BY <3>2, ClientAssumption DEF IInv, Made
    <3>4. client \in Clients
      BY <3>3, ClientAssumption DEF IInv, Types, Clients
    <3>5. jobs[client] \in 0..JobCapacity /\ value[gen]["requestSum"] \in Nat
      BY <3>4 DEF IInv, Types, Metrics
    <3> QED
      BY <3>4, <3>5, ClientAssumption
  <2>2. Busy(client) \in SUBSET Alive(client) /\ Alive(client) \in SUBSET Workers
    BY DEF Busy, InFlight, Doing, Alive, Metrics
  <2>3. /\ Cardinality(Busy(client)) <= Cardinality(Alive(client))
        /\ Cardinality(Busy(client)) \in Nat /\ Cardinality(Alive(client)) \in Nat
    BY <2>2, Counting
  <2>4. fresh <= jobs[client] + Cardinality(Busy(client)) + value[gen]["requestSum"]
    BY <2>1 DEF IInv, Kept, Clients
  <2> QED
    BY <2>1, <2>3, <2>4, ClientAssumption DEF IInv, Types
<1> QED
  BY Invariant, <1>1, PTL
-----------------------------------------------------------------------------
\* The order of the statements of run(), and those before m is counted.
Rank ==
  [doing |-> 0, timeouts |-> 1, errors |-> 2, errorMessages |-> 3,
   requestSuccess |-> 4, statusCodes |-> 5, requestSum |-> 6]
Ahead(m) == {s \in DOMAIN Rank : Rank[s] <= Rank[m]}

\* Each counter is counted once on the way through run().
LEMMA RankOrder ==
  ASSUME NEW k \in Metrics, NEW m \in Metrics
  PROVE  /\ k = m => k \in Ahead(m) /\ Then[k] \notin Ahead(m)
         /\ k # m => (k \in Ahead(m) <=> Then[k] \in Ahead(m))
         /\ "doing" \in Ahead(m)
         /\ {"none", "started", "waiting", "exited"} \cap Ahead(m) = {}
BY DEF Ahead, Rank, Then, Metrics

\* The jobs sent, with those since the last Flush or New among them.
Sends == sent \in 0..MaxJobs /\ dropped \in Nat /\ fresh <= sent

\* No job is counted twice in the same counter, in whatever generation.
Once ==
  \A m \in Metrics :
    dropped + Queued + Cardinality(Doing(Ahead(m))) + Total(m) <= sent

\* Each return of Flush has a generation of its own.
Flushed ==
  /\ \A c \in Clients :
       flushes[c] <= gen - client - (IF main \in {"new", "flush"} THEN 1 ELSE 0)
  /\ chan \in [Workers -> 0..MaxFlushes]

\* Goroutines of a client that have come to run, those that ended included.
Ran(c) == {w \in Workers : owner[w] = c /\ at[w] # "started"}
Counted == \A c \in Clients : workers[c] <= Cardinality(Ran(c))

\* Only an error is counted as one, and it has a message to be stored under.
Answers ==
  /\ err \in [Workers -> Faults] /\ code \in [Workers -> Codes]
  /\ \A w \in Workers : at[w] \in {"timeouts", "errors", "errorMessages"} => err[w] # "nil"
  /\ labels \in [Clients -> [codes : SUBSET Codes, messages : SUBSET (Faults \ {"nil"})]]

\* What the types of all variables follow from.
Bounded == Sends /\ Once /\ Flushed /\ Counted /\ Answers

\* Which sums LedgerBalanced is about, and that they are numbers.
LEMMA Sums ==
  ASSUME Types
  PROVE  /\ Queued \in Nat
         /\ \A m \in Metrics : Total(m) \in Nat
         /\ \A g \in Generations, m \in Metrics : value[g][m] <= Total(m)
         /\ \A steps : Doing(steps) \in SUBSET Workers /\ Cardinality(Doing(steps)) \in Nat
<1>1. IsFiniteSet(Clients) /\ IsFiniteSet(Generations)
  BY ClientAssumption, FS_Interval DEF Clients, Generations
<1>2. Queued \in Nat
  <2>1. jobs \in [Clients -> Nat]
    BY ClientAssumption DEF Types
  <2> QED
    BY <1>1, <2>1, TallyType DEF Queued
<1>3. ASSUME NEW m \in Metrics
      PROVE  Total(m) \in Nat /\ \A g \in Generations : value[g][m] <= Total(m)
  <2> DEFINE f == [g \in Generations |-> value[g][m]]
  <2>1. f \in [Generations -> Nat] /\ \A g \in Generations : f[g] = value[g][m]
    BY DEF Types
  <2>2. Total(m) = Tally(f)
    BY DEF Total
  <2> HIDE DEF f
  <2> QED
    BY <1>1, <2>1, <2>2, TallyType, TallyBounds
<1>4. ASSUME NEW steps PROVE Doing(steps) \in SUBSET Workers /\ Cardinality(Doing(steps)) \in Nat
  <2>1. Doing(steps) \in SUBSET Workers
    BY DEF Doing
  <2> QED
    BY <2>1, Counting
<1> QED
  BY <1>2, <1>3, <1>4

\* A counting statement adds one to the sum of its counter, and to no other.
LEMMA CountTotals ==
  ASSUME Types, Made, NEW w \in Workers, NEW m \in Metrics, Count(w, m)
  PROVE  /\ \A k \in Metrics : k # m => Total(k)' = Total(k)
         /\ Total(m)' = Total(m) \/ Total(m)' = Total(m) + 1
         /\ m # "requestSuccess" => Total(m)' = Total(m) + 1
<1> DEFINE f(k) == [g \in Generations |-> value[g][k]]
           h(k) == [g \in Generations |-> value'[g][k]]
           r == Refers(m)
<1>1. r \in Generations /\ IsFiniteSet(Generations)
  BY RefersOK, ClientAssumption, FS_Interval DEF Generations
<1>2. /\ value' \in [Generations -> [Metrics -> Nat]]
      /\ \A g \in Generations, k \in Metrics :
           \/ value'[g][k] = value[g][k]
           \/ g = r /\ k = m /\ value'[g][k] = value[g][k] + 1
      /\ m # "requestSuccess" => value'[r][m] = value[r][m] + 1
  BY CountEffect
<1>3. \A k \in Metrics : /\ f(k) \in [Generations -> Nat] /\ h(k) \in [Generations -> Nat]
                         /\ \A g \in Generations : f(k)[g] = value[g][k] /\ h(k)[g] = value'[g][k]
  BY <1>2 DEF Types
<1>4. \A k \in Metrics : Total(k) = Tally(f(k)) /\ Total(k)' = Tally(h(k))
  BY DEF Total
<1> HIDE DEF f, h, r
<1>5. ASSUME NEW k \in Metrics, \A g \in Generations : value'[g][k] = value[g][k]
      PROVE  Total(k)' = Total(k)
  <2>1. f(k) = h(k)
    BY <1>3, <1>5
  <2> QED
    BY <1>4, <2>1
<1>6. ASSUME value'[r][m] = value[r][m] + 1 PROVE Total(m)' = Total(m) + 1
  <2>1. h(m)[r] = f(m)[r] + 1 /\ \A g \in Generations : g # r => h(m)[g] = f(m)[g]
    BY <1>1, <1>2, <1>3, <1>6
  <2> QED
    BY <1>1, <1>3, <1>4, <2>1, TallyGrows
<1> QED
  BY <1>1, <1>2, <1>5, <1>6

\* A job more or less in one channel is one more or less in all of them.
LEMMA QueuedEffect ==
  ASSUME NEW c \in Clients, NEW q \in [Clients -> Nat], NEW r \in [Clients -> Nat],
         r[c] = q[c] + 1, \A d \in Clients : d # c => r[d] = q[d]
  PROVE  Tally(r) = Tally(q) + 1
<1>1. IsFiniteSet(Clients)
  BY ClientAssumption, FS_Interval DEF Clients
<1> QED
  BY <1>1, TallyGrows

\* The jobs in all channels are a number after a step, too.
LEMMA NextQueued == Types' => Queued' \in Nat
<1> SUFFICES ASSUME Types' PROVE Queued' \in Nat
  OBVIOUS
<1>1. IsFiniteSet(Clients)
  BY ClientAssumption, FS_Interval DEF Clients
<1>2. jobs' \in [Clients -> Nat]
  BY ClientAssumption DEF Types
<1> QED
  BY <1>1, <1>2, TallyType DEF Queued

\* The number of goroutines at some steps, after a step of one goroutine.
LEMMA Move ==
  ASSUME Types, NEW w \in Workers, \A v \in Workers : v # w => at'[v] = at[v], NEW steps
  PROVE  /\ Cardinality(Doing(steps)) \in Nat
         /\ Cardinality(Doing(steps)') =
              Cardinality(Doing(steps)) + (IF at'[w] \in steps THEN 1 ELSE 0)
                                        - (IF at[w] \in steps THEN 1 ELSE 0)
<1>1. Doing(steps) \in SUBSET Workers /\ Cardinality(Doing(steps)) \in Nat
  BY Sums
<1>2. CASE at[w] \in steps <=> at'[w] \in steps
  <2>1. Doing(steps)' = Doing(steps)
    BY <1>2, DoingEffect
  <2> QED
    BY <1>1, <1>2, <2>1
<1>3. CASE at[w] \in steps /\ at'[w] \notin steps
  <2>1. w \in Doing(steps) /\ Doing(steps)' = Doing(steps) \ {w}
    BY <1>3, DoingEffect
  <2>2. Cardinality(Doing(steps)') = Cardinality(Doing(steps)) - 1
    BY <1>1, <2>1, Counting
  <2> QED
    BY <1>1, <1>3, <2>2
<1>4. CASE at[w] \notin steps /\ at'[w] \in steps
  <2>1. w \in Workers \ Doing(steps) /\ Doing(steps)' = Doing(steps) \union {w}
    BY <1>4, DoingEffect
  <2>2. Cardinality(Doing(steps)') = Cardinality(Doing(steps)) + 1
    BY <1>1, <2>1, Counting
  <2> QED
    BY <1>1, <1>4, <2>2
<1> QED
  BY <1>2, <1>3, <1>4

\* A step of the goroutine that owns the client moves no job between the
\* places that the ledger knows, but for Send and drainChan.
LEMMA Bystanding ==
  ASSUME Types, Made,
         \/ NewSteps \/ Flush \/ FlushClose \/ FlushWait \/ FlushReturn \/ UNCHANGED vars
         \/ \E n \in 0..Cardinality(Workers), S \in SUBSET Unused : RunWorkers(n, S)
  PROVE  /\ UNCHANGED <<jobs, value, sent, dropped>>
         /\ \A steps : steps \cap {"none", "started"} = {} => Doing(steps)' = Doing(steps)
<1>1. CASE NewSteps \/ Flush \/ FlushClose \/ FlushWait \/ FlushReturn \/ UNCHANGED vars
  <2>1. UNCHANGED <<jobs, value, sent, dropped, at>>
    BY <1>1 DEF NewSteps, New, NewReturn, initMetrics, Flush, FlushClose, FlushWait, FlushReturn, vars
  <2> QED
    BY <2>1 DEF Doing
<1>2. ASSUME NEW n \in 0..Cardinality(Workers), NEW S \in SUBSET Unused, RunWorkers(n, S)
      PROVE  /\ UNCHANGED <<jobs, value, sent, dropped>>
             /\ \A steps : steps \cap {"none", "started"} = {} => Doing(steps)' = Doing(steps)
  <2>1. \A w \in Workers : at'[w] = at[w] \/ (at[w] = "none" /\ at'[w] = "started")
    BY <1>2 DEF RunWorkers, Unused, Types
  <2> QED
    BY <1>2, <2>1 DEF RunWorkers, Doing
<1> QED
  BY <1>1, <1>2

\* Send and drainChan put a job into a channel and take one out, Take too.
LEMMA QueueSteps ==
  ASSUME Types, Types', Made, Owned
  PROVE  /\ Send => Queued' = Queued + 1 /\ UNCHANGED <<value, at, dropped>> /\ sent' = sent + 1
         /\ drainChan => Queued' = Queued - 1 /\ UNCHANGED <<value, at, sent>> /\ dropped' = dropped + 1
         /\ \A w \in Workers : Take(w) => Queued' = Queued - 1 /\ UNCHANGED <<value, sent, dropped>>
<1>1. jobs \in [Clients -> Nat] /\ jobs' \in [Clients -> Nat]
  BY ClientAssumption DEF Types
<1>q. Queued \in Nat /\ Queued' \in Nat
  BY Sums, NextQueued
<1>2. client > 0 => client \in Clients
  BY ClientAssumption DEF Types, Clients
<1>3. ASSUME Send PROVE Queued' = Queued + 1
  <2>1. client \in Clients
    BY <1>2, <1>3 DEF Send
  <2>2. jobs'[client] = jobs[client] + 1 /\ \A d \in Clients : d # client => jobs'[d] = jobs[d]
    BY <1>1, <1>3, <2>1 DEF Send
  <2> QED
    BY <1>1, <2>1, <2>2, QueuedEffect DEF Queued
<1>4. ASSUME drainChan PROVE Queued' = Queued - 1
  <2>1. client \in Clients
    BY <1>2, <1>4, ClientAssumption DEF drainChan, Types, Made
  <2>2. jobs[client] = jobs'[client] + 1 /\ \A d \in Clients : d # client => jobs[d] = jobs'[d]
    BY <1>1, <1>4, <2>1 DEF drainChan
  <2> QED
    BY <1>1, <1>q, <2>1, <2>2, QueuedEffect DEF Queued
<1>5. ASSUME NEW w \in Workers, Take(w) PROVE Queued' = Queued - 1
  <2>1. owner[w] \in Clients
    BY <1>5, ClientAssumption DEF Take, Types, Owned, Clients
  <2>2. jobs[owner[w]] = jobs'[owner[w]] + 1
        /\ \A d \in Clients : d # owner[w] => jobs[d] = jobs'[d]
    BY <1>1, <1>5, <2>1 DEF Take
  <2> QED
    BY <1>1, <1>q, <2>1, <2>2, QueuedEffect DEF Queued
<1> QED
  BY <1>3, <1>4, <1>5 DEF Send, drainChan, Take

(* Each step moves one job from one place of the ledger to another, in the *)
(* generation of metrics that the counter refers to at that moment.        *)
LEMMA LedgerStep ==
  Types /\ Types' /\ Made /\ Owned /\ sent \in Nat /\ dropped \in Nat
    /\ LedgerBalanced /\ [Next]_vars => LedgerBalanced'
<1> SUFFICES ASSUME Types, Types', Made, Owned, sent \in Nat, dropped \in Nat,
                    LedgerBalanced, [Next]_vars
             PROVE  LedgerBalanced'
  OBVIOUS
<1> DEFINE flying == {"doing"} \union Metrics
           N(steps) == Cardinality(Doing(steps))
<1>0. /\ Queued \in Nat /\ Queued' \in Nat
      /\ \A m \in Metrics : Total(m) \in Nat
      /\ \A steps : N(steps) \in Nat
  BY Sums, NextQueued
<1>b. LedgerBalanced <=>
        /\ sent = dropped + Queued + N(flying) + Total("requestSum")
        /\ Total("statusCodes") = Total("requestSum") + N({"requestSum"})
        /\ Total("errors") = Total("errorMessages") + N({"errorMessages"})
        /\ Total("timeouts") <= Total("errors") + N({"errors"})
  BY DEF LedgerBalanced, InFlight
<1>p. LedgerBalanced' <=>
        /\ sent' = dropped' + Queued' + N(flying)' + Total("requestSum")'
        /\ Total("statusCodes")' = Total("requestSum")' + N({"requestSum"})'
        /\ Total("errors")' = Total("errorMessages")' + N({"errorMessages"})'
        /\ Total("timeouts")' <= Total("errors")' + N({"errors"})'
  BY DEF LedgerBalanced, InFlight
<1>d. Metrics = {"statusCodes", "errorMessages", "timeouts", "errors", "requestSum", "requestSuccess"}
  BY DEF Metrics
<1>1. CASE \/ NewSteps \/ Flush \/ FlushClose \/ FlushWait \/ FlushReturn \/ UNCHANGED vars
           \/ \E n \in 0..Cardinality(Workers), S \in SUBSET Unused : RunWorkers(n, S)
  <2>1. /\ UNCHANGED <<jobs, value, sent, dropped>>
        /\ \A steps : steps \cap {"none", "started"} = {} => Doing(steps)' = Doing(steps)
    BY <1>1, Bystanding
  <2>2. /\ N(flying)' = N(flying) /\ N({"requestSum"})' = N({"requestSum"})
        /\ N({"errorMessages"})' = N({"errorMessages"}) /\ N({"errors"})' = N({"errors"})
    BY <1>d, <2>1
  <2>3. Queued' = Queued /\ \A m \in Metrics : Total(m)' = Total(m)
    BY <2>1 DEF Queued, Total
  <2> QED
    BY <1>b, <1>p, <1>d, <2>1, <2>2, <2>3
<1>2. CASE Send \/ drainChan
  <2>1. UNCHANGED <<value, at>>
    BY <1>2, QueueSteps
  <2>2. \A steps : N(steps)' = N(steps)
    BY <2>1 DEF Doing
  <2>3. \A m \in Metrics : Total(m)' = Total(m)
    BY <2>1 DEF Total
  <2>4. sent' = dropped' + Queued' + N(flying)' + Total("requestSum")'
    <3> DEFINE n == N(flying)
               t == Total("requestSum")
    <3>1. /\ n' = n /\ t' = t /\ n \in Nat /\ t \in Nat /\ Queued \in Nat /\ Queued' \in Nat
          /\ sent = dropped + Queued + n + t
      BY <1>0, <1>b, <1>d, <2>2, <2>3
    <3>2. \/ Queued' = Queued + 1 /\ sent' = sent + 1 /\ dropped' = dropped
          \/ Queued' = Queued - 1 /\ sent' = sent /\ dropped' = dropped + 1
      <4>1. CASE Send
        BY <4>1, QueueSteps
      <4>2. CASE drainChan
        BY <4>2, QueueSteps
      <4> QED
        BY <1>2, <4>1, <4>2
    <3> HIDE DEF n, t
    <3>3. sent' = dropped' + Queued' + n' + t'
      <4>1. CASE Queued' = Queued + 1 /\ sent' = sent + 1 /\ dropped' = dropped
        BY <3>1, <4>1
      <4>2. CASE Queued' = Queued - 1 /\ sent' = sent /\ dropped' = dropped + 1
        BY <3>1, <4>2
      <4> QED
        BY <3>2, <4>1, <4>2
    <3> QED
      BY <3>3 DEF n, t
  <2> QED
    BY <1>b, <1>p, <1>d, <2>2, <2>3, <2>4
<1>3. ASSUME NEW w \in Workers, Start(w) \/ run(w) PROVE LedgerBalanced'
  <2> DEFINE In(s, steps) == IF s \in steps THEN 1 ELSE 0
  <2>1. UNCHANGED <<sent, dropped>> /\ \A v \in Workers : v # w => at'[v] = at[v]
    BY <1>3 DEF Start, run, Take, Exit, Do, Count, Types
  <2>2. \A steps : N(steps)' = N(steps) + In(at'[w], steps) - In(at[w], steps)
    BY <2>1, Move
  <2>3. ASSUME UNCHANGED <<value, jobs>>, at[w] \in {"started", "waiting"}, at'[w] \in {"waiting", "exited"}
        PROVE  LedgerBalanced'
    <3>1. Queued' = Queued /\ \A m \in Metrics : Total(m)' = Total(m)
      BY <2>3 DEF Queued, Total
    <3>2. /\ N(flying)' = N(flying) /\ N({"requestSum"})' = N({"requestSum"})
          /\ N({"errorMessages"})' = N({"errorMessages"}) /\ N({"errors"})' = N({"errors"})
      BY <1>0, <1>d, <2>2, <2>3
    <3> QED
      BY <1>b, <1>p, <1>d, <2>1, <3>1, <3>2
  <2>4. CASE Start(w) \/ Exit(w)
    BY <2>3, <2>4 DEF Start, Exit, Types
  <2>5. CASE Take(w)
    <3>1. at[w] = "waiting" /\ at'[w] = "doing" /\ Queued' = Queued - 1
          /\ \A m \in Metrics : Total(m)' = Total(m)
      BY <2>5, QueueSteps DEF Take, Types, Total
    <3>2. /\ N(flying)' = N(flying) + 1 /\ N({"requestSum"})' = N({"requestSum"})
          /\ N({"errorMessages"})' = N({"errorMessages"}) /\ N({"errors"})' = N({"errors"})
      BY <1>0, <1>d, <2>2, <3>1
    <3> QED
      BY <1>0, <1>b, <1>p, <1>d, <2>1, <3>1, <3>2
  <2>6. ASSUME NEW e \in Faults, NEW sc \in Codes, Do(w, e, sc) PROVE LedgerBalanced'
    <3>1. /\ at[w] = "doing" /\ at'[w] \in {"timeouts", "errors", "requestSuccess"}
          /\ UNCHANGED <<value, jobs>>
      BY <2>6 DEF Do, Types, Faults
    <3>2. Queued' = Queued /\ \A m \in Metrics : Total(m)' = Total(m)
      BY <3>1 DEF Queued, Total
    <3>3. /\ N(flying)' = N(flying) /\ N({"requestSum"})' = N({"requestSum"})
          /\ N({"errorMessages"})' = N({"errorMessages"}) /\ N({"errors"})' >= N({"errors"})
          /\ N({"errors"})' \in Nat
      BY <1>0, <1>d, <2>2, <3>1
    <3> QED
      BY <1>0, <1>b, <1>p, <1>d, <2>1, <3>2, <3>3
  <2>7. ASSUME NEW m \in Metrics, Count(w, m) PROVE LedgerBalanced'
    <3>1. at[w] = m /\ at'[w] = Then[m] /\ UNCHANGED jobs
      BY <2>7 DEF Count, Types
    <3>2. /\ \A k \in Metrics : k # m => Total(k)' = Total(k)
          /\ Total(m)' = Total(m) \/ Total(m)' = Total(m) + 1
          /\ m # "requestSuccess" => Total(m)' = Total(m) + 1
      BY <2>7, CountTotals
    <3>3. Queued' = Queued
      BY <3>1 DEF Queued
    <3>4. /\ N(flying)' = N(flying) - In(m, {"requestSum"})
          /\ N({"requestSum"})' = N({"requestSum"}) + In(m, {"statusCodes"}) - In(m, {"requestSum"})
          /\ N({"errorMessages"})' = N({"errorMessages"}) + In(m, {"errors"}) - In(m, {"errorMessages"})
          /\ N({"errors"})' = N({"errors"}) + In(m, {"timeouts"}) - In(m, {"errors"})
      BY <1>0, <1>d, <2>2, <2>7, <3>1 DEF Then
    <3> QED
      BY <1>0, <1>b, <1>p, <1>d, <2>1, <2>7, <3>2, <3>3, <3>4
  <2> QED
    BY <1>3, <2>4, <2>5, <2>6, <2>7 DEF run
<1> QED
  BY <1>1, <1>2, <1>3 DEF Next, FlushSteps

\* A job that was sent passes each counter once, and so does what follows it.
LEMMA OnceStep ==
  Types /\ Types' /\ Made /\ Owned /\ sent \in Nat /\ dropped \in Nat
    /\ Once /\ [Next]_vars => Once'
<1> SUFFICES ASSUME Types, Types', Made, Owned, sent \in Nat, dropped \in Nat,
                    Once, [Next]_vars, NEW m \in Metrics
             PROVE  dropped' + Queued' + Cardinality(Doing(Ahead(m))') + Total(m)' <= sent'
  BY DEF Once
<1> DEFINE n == Cardinality(Doing(Ahead(m)))
           t == Total(m)
           Goal == dropped' + Queued' + n' + t' <= sent'
<1> SUFFICES Goal
  OBVIOUS
<1>0. /\ Queued \in Nat /\ Queued' \in Nat /\ n \in Nat /\ t \in Nat
      /\ dropped + Queued + n + t <= sent
  BY Sums, NextQueued DEF Once
<1>1. CASE \/ NewSteps \/ Flush \/ FlushClose \/ FlushWait \/ FlushReturn \/ UNCHANGED vars
           \/ \E k \in 0..Cardinality(Workers), S \in SUBSET Unused : RunWorkers(k, S)
  <2>1. /\ UNCHANGED <<jobs, value, sent, dropped>> /\ Doing(Ahead(m))' = Doing(Ahead(m))
    BY <1>1, Bystanding, RankOrder
  <2>2. Queued' = Queued /\ n' = n /\ t' = t
    BY <2>1 DEF Queued, Total
  <2> QED
    BY <1>0, <2>1, <2>2
<1>2. CASE Send
  <2>1. Queued' = Queued + 1 /\ sent' = sent + 1 /\ dropped' = dropped /\ UNCHANGED <<at, value>>
    BY <1>2, QueueSteps
  <2>2. n' = n /\ t' = t
    BY <2>1 DEF Doing, Total
  <2> HIDE DEF n, t
  <2> QED
    BY <1>0, <2>1, <2>2
<1>3. CASE drainChan
  <2>1. Queued' = Queued - 1 /\ sent' = sent /\ dropped' = dropped + 1 /\ UNCHANGED <<at, value>>
    BY <1>3, QueueSteps
  <2>2. n' = n /\ t' = t
    BY <2>1 DEF Doing, Total
  <2> HIDE DEF n, t
  <2> QED
    BY <1>0, <2>1, <2>2
<1>4. ASSUME NEW w \in Workers, Start(w) \/ run(w) PROVE Goal
  <2>1. UNCHANGED <<sent, dropped>> /\ \A v \in Workers : v # w => at'[v] = at[v]
    BY <1>4 DEF Start, run, Take, Exit, Do, Count, Types
  <2>2. n' = n + (IF at'[w] \in Ahead(m) THEN 1 ELSE 0) - (IF at[w] \in Ahead(m) THEN 1 ELSE 0)
    BY <2>1, Move
  <2>3. ASSUME UNCHANGED <<value, jobs>>, at'[w] \in Ahead(m) => at[w] \in Ahead(m) PROVE Goal
    <3>1. Queued' = Queued /\ t' = t
      BY <2>3 DEF Queued, Total
    <3>2. n' <= n /\ n' \in Int
      BY <1>0, <2>2, <2>3
    <3> HIDE DEF n, t
    <3> QED
      BY <1>0, <2>1, <3>1, <3>2
  <2>4. CASE Start(w) \/ Exit(w)
    BY <2>3, <2>4, RankOrder DEF Start, Exit, Types
  <2>5. ASSUME NEW e \in Faults, NEW sc \in Codes, Do(w, e, sc) PROVE Goal
    BY <2>3, <2>5, RankOrder DEF Do
  <2>6. CASE Take(w)
    <3>1. at[w] = "waiting" /\ at'[w] = "doing" /\ Queued' = Queued - 1 /\ t' = t
      BY <2>6, QueueSteps DEF Take, Types, Total
    <3>2. n' = n + 1
      BY <1>0, <2>2, <3>1, RankOrder
    <3> HIDE DEF n, t
    <3> QED
      BY <1>0, <2>1, <3>1, <3>2
  <2>7. ASSUME NEW k \in Metrics, Count(w, k) PROVE Goal
    <3>1. at[w] = k /\ at'[w] = Then[k] /\ Queued' = Queued
      BY <2>7 DEF Count, Types, Queued
    <3>2. /\ k # m => t' = t
          /\ t' = t \/ t' = t + 1
      BY <2>7, CountTotals
    <3>3. /\ k = m => n' = n - 1
          /\ k # m => n' = n
      BY <1>0, <2>2, <2>7, <3>1, RankOrder
    <3> HIDE DEF n, t
    <3>4. CASE k = m
      BY <1>0, <2>1, <3>1, <3>2, <3>3, <3>4
    <3>5. CASE k # m
      BY <1>0, <2>1, <3>1, <3>2, <3>3, <3>5
    <3> QED
      BY <3>4, <3>5
  <2> QED
    BY <1>4, <2>4, <2>5, <2>6, <2>7 DEF run
<1> QED
  BY <1>1, <1>2, <1>3, <1>4 DEF Next, FlushSteps

\* Sends are bounded, and those that are counted anew are among them.
LEMMA SendsStep ==
  Types /\ Sends /\ [Next]_vars => Sends'
<1> SUFFICES ASSUME Types, Sends, [Next]_vars PROVE Sends'
  OBVIOUS
<1> USE ClientAssumption DEF Sends, Types
<1>1. CASE Send
  BY <1>1 DEF Send
<1>2. CASE NewReturn \/ FlushReturn
  BY <1>2 DEF NewReturn, FlushReturn
<1>3. CASE drainChan
  BY <1>3 DEF drainChan
<1>4. CASE UNCHANGED sends
  BY <1>4
<1>5. New \/ initMetrics \/ Flush \/ FlushClose \/ FlushWait \/ UNCHANGED vars => UNCHANGED sends
  BY DEF New, initMetrics, Flush, FlushClose, FlushWait, vars
<1>6. \A n, S : RunWorkers(n, S) => UNCHANGED sends
  BY DEF RunWorkers
<1>7. \A w \in Workers : Start(w) \/ run(w) => UNCHANGED sends
  BY DEF Start, run, Take, Exit, Do, Count
<1> QED
  BY <1>1, <1>2, <1>3, <1>4, <1>5, <1>6, <1>7 DEF Next, NewSteps, FlushSteps

\* Flush makes a generation before it makes a Jobsch.
LEMMA FlushedStep ==
  Types /\ Types' /\ Made /\ Made' /\ Owned /\ Flushed /\ [Next]_vars => Flushed'
<1> SUFFICES ASSUME Types, Types', Made, Made', Owned, Flushed, [Next]_vars PROVE Flushed'
  OBVIOUS
<1> USE DEF Flushed
<1> DEFINE made == gen - client - (IF main \in {"new", "flush"} THEN 1 ELSE 0)
<1>0. /\ MaxFlushes \in Nat /\ gen \in Int /\ client \in Int /\ made \in Int
      /\ \A c \in Clients : flushes[c] \in Nat
  BY ClientAssumption DEF Types, Generations
<1>1. CASE UNCHANGED <<flushes, chan>> /\ made' = made
  BY <1>1
<1>2. CASE New \/ FlushWait
  BY <1>0, <1>1, <1>2 DEF New, FlushWait
<1>3. CASE NewReturn
  BY <1>0, <1>1, <1>3 DEF NewReturn
<1>4. CASE initMetrics \/ Flush \/ drainChan \/ FlushClose \/ Send \/ UNCHANGED vars
  BY <1>0, <1>1, <1>4 DEF initMetrics, Flush, drainChan, FlushClose, Send, vars
<1>5. CASE FlushReturn
  <2>1. made' = made + 1 /\ chan' = chan
    BY <1>0, <1>5 DEF FlushReturn
  <2>2. \A c \in Clients : flushes'[c] <= flushes[c] + 1
    BY <1>0, <1>5 DEF FlushReturn, Types
  <2>3. \A c \in Clients : flushes[c] <= made /\ flushes'[c] \in Nat
    BY DEF Types
  <2>4. made' \in Int
    BY <1>0, <2>1
  <2> HIDE DEF made
  <2>5. \A c \in Clients : flushes'[c] <= made'
    BY <1>0, <2>1, <2>2, <2>3, <2>4
  <2> QED
    BY <2>1, <2>5 DEF made
<1>6. ASSUME NEW n \in 0..Cardinality(Workers), NEW S \in SUBSET Unused, RunWorkers(n, S)
      PROVE Flushed'
  BY <1>1, <1>6 DEF RunWorkers
<1>7. ASSUME NEW w \in Workers, Start(w) PROVE Flushed'
  <2>1. owner[w] \in Clients
    BY <1>7, ClientAssumption DEF Start, Owned, Types, Clients
  <2>2. flushes[owner[w]] \in 0..MaxFlushes
    BY <1>0, <2>1 DEF Made
  <2> QED
    BY <1>7, <2>2 DEF Start
<1>8. ASSUME NEW w \in Workers, run(w) PROVE Flushed'
  BY <1>1, <1>8, RunEffect
<1> QED
  BY <1>2, <1>3, <1>4, <1>5, <1>6, <1>7, <1>8 DEF Next, NewSteps, FlushSteps

\* A goroutine is counted in workers once, when it comes to run.
LEMMA CountedStep ==
  Types /\ Types' /\ Owned /\ Counted /\ [Next]_vars => Counted'
<1> SUFFICES ASSUME Types, Types', Owned, Counted, [Next]_vars, NEW c \in Clients
             PROVE  workers'[c] <= Cardinality(Ran(c)')
  BY DEF Counted
<1>0. /\ Ran(c) \in SUBSET Workers /\ Ran(c)' \in SUBSET Workers
      /\ workers[c] \in Nat /\ workers'[c] \in Nat
  BY DEF Ran, Types
<1>n. /\ Cardinality(Ran(c)) \in Nat /\ Cardinality(Ran(c)') \in Nat
      /\ workers[c] <= Cardinality(Ran(c))
  BY <1>0, Counting DEF Counted
<1>1. CASE UNCHANGED workers /\ Ran(c)' = Ran(c)
  BY <1>1, <1>n
<1>2. CASE FlushReturn
  <2>1. Ran(c)' = Ran(c) /\ workers'[c] <= workers[c]
    BY <1>0, <1>2 DEF FlushReturn, Ran, Types
  <2> QED
    BY <1>0, <1>n, <2>1
<1>3. ASSUME NEW n \in 0..Cardinality(Workers), NEW S \in SUBSET Unused, RunWorkers(n, S)
      PROVE workers'[c] <= Cardinality(Ran(c)')
  <2>1. \A w \in Workers : \/ at'[w] = at[w] /\ owner'[w] = owner[w]
                           \/ at[w] = "none" /\ at'[w] = "started" /\ owner[w] = 0
    BY <1>3 DEF RunWorkers, Unused, Types, Owned
  <2>2. Ran(c)' = Ran(c)
    BY <2>1, ClientAssumption DEF Ran, Clients
  <2> QED
    BY <1>1, <1>3, <2>2 DEF RunWorkers
<1>4. ASSUME NEW w \in Workers, Start(w) PROVE workers'[c] <= Cardinality(Ran(c)')
  <2>1. /\ at[w] = "started" /\ at'[w] = "waiting" /\ owner' = owner
        /\ \A v \in Workers : v # w => at'[v] = at[v]
    BY <1>4 DEF Start, Types
  <2>2. CASE owner[w] = c
    <3>1. Ran(c)' = Ran(c) \union {w} /\ w \in Workers \ Ran(c)
      BY <2>1, <2>2 DEF Ran
    <3>2. workers'[c] = workers[c] + 1
      BY <1>4, <2>2 DEF Start, Types
    <3>3. Cardinality(Ran(c)') = Cardinality(Ran(c)) + 1
      BY <1>0, <3>1, Counting
    <3> QED
      BY <1>0, <1>n, <3>2, <3>3
  <2>3. CASE owner[w] # c
    <3>1. Ran(c)' = Ran(c)
      BY <2>1, <2>3 DEF Ran
    <3>2. workers'[c] = workers[c]
      BY <1>4, <2>3 DEF Start, Types
    <3> QED
      BY <1>n, <3>1, <3>2
  <2> QED
    BY <2>2, <2>3
<1>5. ASSUME NEW w \in Workers, run(w) PROVE workers'[c] <= Cardinality(Ran(c)')
  <2>1. /\ at[w] # "started" /\ UNCHANGED <<workers, owner>>
        /\ \A v \in Workers : v # w => at'[v] = at[v]
    BY <1>5, RunEffect
  <2>2. at'[w] # "started"
    BY <1>5 DEF run, Take, Exit, Do, Count, Types, Faults, Metrics, Then
  <2>3. Ran(c)' = Ran(c)
    BY <2>1, <2>2 DEF Ran
  <2> QED
    BY <1>1, <2>1, <2>3
<1>6. New \/ NewReturn \/ initMetrics \/ Flush \/ drainChan \/ FlushClose \/ FlushWait \/ Send \/ UNCHANGED vars
        => UNCHANGED workers /\ Ran(c)' = Ran(c)
  BY DEF New, NewReturn, initMetrics, Flush, drainChan, FlushClose, FlushWait, Send, vars, Ran
<1> QED
  BY <1>1, <1>2, <1>3, <1>4, <1>5, <1>6 DEF Next, NewSteps, FlushSteps

\* run() counts an error only after c.Do has returned one.
LEMMA AnswersStep ==
  Types /\ Types' /\ Owned /\ Answers /\ [Next]_vars => Answers'
<1> SUFFICES ASSUME Types, Types', Owned, Answers, [Next]_vars PROVE Answers'
  OBVIOUS
<1> USE DEF Answers
<1> DEFINE Labels == [codes : SUBSET Codes, messages : SUBSET (Faults \ {"nil"})]
           failing == {"timeouts", "errors", "errorMessages"}
<1>1. CASE UNCHANGED <<at, err, code, labels>>
  BY <1>1
<1>2. ASSUME NEW n \in 0..Cardinality(Workers), NEW S \in SUBSET Unused, RunWorkers(n, S)
      PROVE Answers'
  <2>1. \A w \in Workers : at'[w] = at[w] \/ at'[w] = "started"
    BY <1>2 DEF RunWorkers, Types
  <2> QED
    BY <1>2, <2>1 DEF RunWorkers
<1>3. ASSUME NEW w \in Workers, Start(w) \/ Take(w) \/ Exit(w) PROVE Answers'
  <2>1. /\ UNCHANGED <<err, code, labels>> /\ at'[w] \notin failing
        /\ \A v \in Workers : v # w => at'[v] = at[v]
    BY <1>3 DEF Start, Take, Exit, Types
  <2> QED
    BY <2>1
<1>4. ASSUME NEW w \in Workers, NEW e \in Faults, NEW sc \in Codes, Do(w, e, sc) PROVE Answers'
  <2>1. /\ err' \in [Workers -> Faults] /\ code' \in [Workers -> Codes] /\ labels' = labels
        /\ err'[w] = e /\ (e = "nil" => at'[w] = "requestSuccess")
    BY <1>4 DEF Do, Types
  <2>2. \A v \in Workers : v # w => at'[v] = at[v] /\ err'[v] = err[v]
    BY <1>4 DEF Do, Types
  <2> QED
    BY <2>1, <2>2
<1>5. ASSUME NEW w \in Workers, NEW m \in Metrics, Count(w, m) PROVE Answers'
  <2>1. at[w] = m /\ at'[w] = Then[m] /\ code' = code
        /\ \A v \in Workers : v # w => at'[v] = at[v]
    BY <1>5 DEF Count, Types
  <2>2. /\ err' \in [Workers -> Faults] /\ \A v \in Workers : v # w => err'[v] = err[v]
        /\ m # "requestSum" => err' = err
    BY <1>5 DEF Count, Faults
  <2>3. \A v \in Workers : at'[v] \in failing => err'[v] # "nil"
    BY <2>1, <2>2 DEF Then, Metrics
  <2>4. owner[w] \in Clients
    BY <1>5, <2>1, ClientAssumption DEF Owned, Types, Clients, Metrics
  <2>5. Label(w, m) \in Labels
    <3>1. labels[owner[w]] \in Labels
      BY <2>4
    <3>2. CASE m = "statusCodes"
      BY <3>1, <3>2 DEF Label
    <3>3. CASE m = "errorMessages"
      BY <2>1, <3>1, <3>3 DEF Label
    <3>4. CASE m \notin {"statusCodes", "errorMessages"}
      BY <3>1, <3>4 DEF Label
    <3> QED
      BY <3>2, <3>3, <3>4
  <2>6. labels' \in [Clients -> Labels]
    BY <1>5, <2>5 DEF Count
  <2> QED
    BY <2>1, <2>2, <2>3, <2>6
<1>6. New \/ NewReturn \/ initMetrics \/ Flush \/ drainChan \/ FlushClose \/ FlushWait \/ FlushReturn \/ Send \/ UNCHANGED vars
        => UNCHANGED <<at, err, code, labels>>
  BY DEF New, NewReturn, initMetrics, Flush, drainChan, FlushClose, FlushWait, FlushReturn, Send, vars
<1> QED
  BY <1>1, <1>2, <1>3, <1>4, <1>5, <1>6 DEF Next, NewSteps, FlushSteps, run

\* Nothing is sent, counted or labelled at the start.
LEMMA BoundedInit == Init => Bounded /\ LedgerBalanced
<1> SUFFICES ASSUME Init PROVE Bounded /\ LedgerBalanced
  OBVIOUS
<1> USE ClientAssumption
<1>1. Sends /\ Flushed /\ Answers
  BY DEF Init, Sends, Flushed, Answers, Faults, Codes
<1>2. Counted
  <2> SUFFICES ASSUME NEW c \in Clients PROVE workers[c] <= Cardinality(Ran(c))
    BY DEF Counted
  <2>1. Ran(c) \in SUBSET Workers /\ workers[c] = 0
    BY DEF Ran, Init
  <2> QED
    BY <2>1, Counting
<1>3. /\ \A steps : "none" \notin steps => Cardinality(Doing(steps)) = 0
      /\ Queued = 0 /\ \A m \in Metrics : Total(m) = 0
  <2>1. \A steps : "none" \notin steps => Doing(steps) = {}
    BY DEF Init, Doing
  <2>2. Queued = 0
    BY TallyZero DEF Init, Queued
  <2>3. ASSUME NEW m \in Metrics PROVE Total(m) = 0
    <3> DEFINE f == [g \in Generations |-> value[g][m]]
    <3>1. f \in [Generations -> Nat] /\ \A g \in Generations : f[g] = 0
      BY DEF Init
    <3>2. Total(m) = Tally(f)
      BY DEF Total
    <3> HIDE DEF f
    <3> QED
      BY <3>1, <3>2, TallyZero
  <2> QED
    BY <2>1, <2>2, <2>3, FS_EmptySet
<1>4. Once
  BY <1>3, RankOrder DEF Once, Init
<1>5. LedgerBalanced
  <2>1. Cardinality(InFlight) = 0
    BY <1>3 DEF InFlight, Metrics
  <2>2. /\ Cardinality(Doing({"requestSum"})) = 0 /\ Cardinality(Doing({"errorMessages"})) = 0
        /\ Cardinality(Doing({"errors"})) = 0
    BY <1>3
  <2>3. sent = 0 /\ dropped = 0
    BY DEF Init
  <2> QED
    BY <1>3, <2>1, <2>2, <2>3 DEF LedgerBalanced, Metrics
<1> QED
  BY <1>1, <1>2, <1>4, <1>5 DEF Bounded

\* The ledger stays balanced, and what was sent bounds it.
LEMMA BoundedStep ==
  ASSUME IInv, IInv', Bounded, LedgerBalanced, [Next]_vars
  PROVE  Bounded' /\ LedgerBalanced'
<1>1. sent \in Nat /\ dropped \in Nat
  BY ClientAssumption DEF Bounded, Sends
<1>2. LedgerBalanced' /\ Once'
  BY <1>1, LedgerStep, OnceStep DEF IInv, Bounded
<1> QED
  BY <1>2, SendsStep, FlushedStep, CountedStep, AnswersStep DEF IInv, Bounded

(* Every job that was sent is queued, with a worker, drained or counted,   *)
(* and the counters of a request differ by the requests between them, in   *)
(* any number of generations.                                              *)
THEOREM LedgerIsBalanced == Spec => []LedgerBalanced
<1>1. IInv /\ IInv' /\ Bounded /\ LedgerBalanced /\ [Next]_vars => Bounded' /\ LedgerBalanced'
  BY BoundedStep
<1> QED
  BY Invariant, BoundedInit, <1>1, PTL DEF Spec

(* No counter exceeds the jobs sent, no field its bound, and no error of   *)
(* type nil is stored under a message.                                     *)
THEOREM TypeCorrect == Spec => []TypeOK
<1>1. IInv /\ IInv' /\ Bounded /\ LedgerBalanced /\ [Next]_vars => Bounded' /\ LedgerBalanced'
  BY BoundedStep
<1>2. IInv /\ Bounded => TypeOK
  <2> SUFFICES ASSUME IInv, Bounded PROVE TypeOK
    OBVIOUS
  <2> USE ClientAssumption DEF IInv
  <2>1. flushes \in [Clients -> 0..MaxFlushes]
    <3>1. \A c \in Clients : flushes[c] \in 0..MaxFlushes
      BY DEF Bounded, Flushed, Types, Made, Generations
    <3> QED
      BY <3>1 DEF Types
  <2>2. workers \in [Clients -> 0..Cardinality(Workers)]
    <3>1. ASSUME NEW c \in Clients PROVE workers[c] \in 0..Cardinality(Workers)
      <4>1. Ran(c) \in SUBSET Workers /\ Workers \in SUBSET Workers
        BY DEF Ran
      <4>2. Cardinality(Ran(c)) <= Cardinality(Workers)
            /\ Cardinality(Ran(c)) \in Nat /\ Cardinality(Workers) \in Nat
        BY <4>1, Counting
      <4> QED
        BY <4>2 DEF Bounded, Counted, Types
    <3> QED
      BY <3>1 DEF Types
  <2>3. \A m \in Metrics : Total(m) <= sent /\ dropped <= sent
    <3> SUFFICES ASSUME NEW m \in Metrics PROVE Total(m) <= sent /\ dropped <= sent
      OBVIOUS
    <3>1. /\ Total(m) \in Nat /\ Queued \in Nat /\ Cardinality(Doing(Ahead(m))) \in Nat
          /\ dropped \in Nat /\ sent \in Nat
      BY Sums DEF Bounded, Sends
    <3> QED
      BY <3>1 DEF Bounded, Once
  <2>4. value \in [Generations -> [Metrics -> 0..MaxJobs]]
    <3>1. ASSUME NEW g \in Generations, NEW m \in Metrics PROVE value[g][m] \in 0..MaxJobs
      <4>1. value[g][m] \in Nat /\ Total(m) \in Nat /\ value[g][m] <= Total(m)
        BY Sums DEF Types
      <4> QED
        BY <2>3, <4>1 DEF Bounded, Sends
    <3>2. \A g \in Generations : value[g] \in [Metrics -> 0..MaxJobs]
      BY <3>1 DEF Types
    <3> QED
      BY <3>2 DEF Types
  <2>5. {fresh, sent, dropped} \subseteq 0..MaxJobs
    <3>1. "requestSum" \in Metrics
      BY DEF Metrics
    <3> QED
      BY <2>3, <3>1 DEF Bounded, Sends, Types
  <2> QED
    BY <2>1, <2>2, <2>4, <2>5 DEF TypeOK, Types, Bounded, Flushed, Answers
<1> QED
  BY Invariant, BoundedInit, <1>1, <1>2, PTL DEF Spec
-----------------------------------------------------------------------------
(* What follows holds of a client that is the only one: workers of another *)
(* would count in its metrics.                                             *)

Queue == IF client = 0 THEN 0 ELSE jobs[client]

\* What a counter of the client shows is of jobs sent since the last Flush
\* that are neither in the channel nor with a worker who has not counted.
Own ==
  /\ main \in {"ready", "drain", "wait"} =>
       \A m \in Metrics : value[gen][m] + Cardinality(Doing(Ahead(m))) + Queue <= fresh
  /\ main \in {"new", "flush"} => \A m \in Metrics : value[gen][m] = 0
  /\ \A c \in Clients : c > client => jobs[c] = 0

\* No goroutine is at work while metrics are made.
LEMMA NobodyAtWork ==
  ASSUME MaxClients = 1, IInv, main \in {"new", "flush"}, NEW w \in Workers
  PROVE  at[w] \in {"none", "exited"}
<1> USE DEF IInv, Types, Made, Owned, Closing, AllDone
<1>1. CASE main = "new"
  <2>1. client = 0
    BY <1>1
  <2> QED
    BY <2>1
<1>2. CASE main = "flush"
  <2>1. client = 1
    BY <1>2
  <2>2. at[w] # "none" => owner[w] = client
    BY <2>1
  <2> QED
    BY <1>2, <2>2
<1> QED
  BY <1>1, <1>2

\* Before the first New nothing is sent and nothing counted.
LEMMA OwnInit == Init => Own
<1> SUFFICES ASSUME Init PROVE Own
  OBVIOUS
<1>1. \A m \in Metrics : Doing(Ahead(m)) = {}
  BY RankOrder DEF Init, Doing
<1>2. \A m \in Metrics : value[gen][m] = 0
  BY ClientAssumption DEF Init, Generations
<1>3. \A m \in Metrics : Cardinality(Doing(Ahead(m))) = 0
  BY <1>1, FS_EmptySet
<1> QED
  BY <1>2, <1>3 DEF Init, Own, Queue

(* A job leaves the channel, passes the statements of run() and is counted *)
(* at each: no step adds to one of the three without taking from another.  *)
LEMMA OwnStep ==
  ASSUME MaxClients = 1, IInv, IInv', Own, [Next]_vars
  PROVE  Own'
<1> DEFINE A(m) == Doing(Ahead(m))
<1>0. /\ \A m \in Metrics : A(m) \in SUBSET Workers /\ Cardinality(A(m)) \in Nat /\ value[gen][m] \in Nat
      /\ fresh \in Nat /\ gen \in Generations /\ Clients = {1} /\ client \in {0, 1}
  <2>1. \A m \in Metrics : A(m) \in SUBSET Workers
    BY DEF Doing
  <2> QED
    BY <2>1, Counting DEF IInv, Types, Clients
<1>q. Queue \in Nat /\ (client = 1 => Queue = jobs[1]) /\ jobs[1] \in Nat
  BY <1>0, ClientAssumption DEF Queue, IInv, Types
<1>1. CASE New
  <2>1. gen' = gen + 1 /\ gen' \in Generations /\ UNCHANGED <<value, jobs, client>> /\ main' = "new"
    BY <1>1 DEF New, IInv, Types
  <2> QED
    BY <2>1, <1>0, ClientAssumption DEF Own, IInv, Unmade, Generations
<1>2. CASE FlushWait
  <2>1. gen' = gen + 1 /\ gen' \in Generations /\ UNCHANGED <<value, jobs, client>> /\ main' = "flush"
    BY <1>2 DEF FlushWait, IInv, Types
  <2> QED
    BY <2>1, <1>0, ClientAssumption DEF Own, IInv, Unmade, Generations
<1>3. CASE NewReturn \/ FlushReturn
  <2>1. /\ main \in {"new", "flush"} /\ main' = "ready" /\ fresh' = 0 /\ client' = 1
        /\ UNCHANGED <<value, jobs, gen, at>>
    BY <1>3, <1>0 DEF NewReturn, FlushReturn, IInv, Made
  <2>2. Queue' = 0
    BY <1>3, <1>0, <2>1 DEF NewReturn, FlushReturn, IInv, Made, Closing, Own, Queue
  <2>3. \A m \in Metrics : A(m)' = {}
    BY <2>1, NobodyAtWork, RankOrder DEF Doing
  <2>4. \A m \in Metrics : value'[gen'][m] + Cardinality(A(m)') + Queue' <= fresh'
    BY <2>1, <2>2, <2>3, FS_EmptySet DEF Own
  <2> QED
    BY <1>0, <2>1, <2>4 DEF Own
<1>4. CASE initMetrics
  BY <1>4 DEF initMetrics, Own
<1>5. CASE Flush \/ FlushClose
  BY <1>5 DEF Flush, FlushClose, Own, Queue, Doing
<1>6. CASE drainChan
  <2>1. Queue' = Queue - 1 /\ client = 1
    BY <1>6, <1>0, <1>q DEF drainChan, Queue, IInv, Made, Types
  <2>2. /\ main = "drain" /\ main' = "drain" /\ UNCHANGED <<value, gen, at, fresh, client>>
    BY <1>6 DEF drainChan
  <2>3. \A m \in Metrics : value[gen][m] + Cardinality(A(m)') + Queue' <= fresh
    BY <1>0, <1>q, <2>1, <2>2 DEF Own, Doing
  <2> QED
    BY <1>0, <2>1, <2>2, <2>3 DEF Own
<1>7. CASE Send
  <2>1. Queue' = Queue + 1 /\ client = 1
    BY <1>7, <1>0, <1>q DEF Send, Queue, IInv, Types
  <2>2. /\ main = "ready" /\ main' = "ready" /\ UNCHANGED <<value, gen, at, client>> /\ fresh' = fresh + 1
    BY <1>7 DEF Send
  <2>3. \A m \in Metrics : value[gen][m] + Cardinality(A(m)') + Queue' <= fresh'
    BY <1>0, <1>q, <2>1, <2>2 DEF Own, Doing
  <2> QED
    BY <1>0, <2>1, <2>2, <2>3 DEF Own
<1>8. ASSUME NEW n \in 0..Cardinality(Workers), NEW S \in SUBSET Unused, RunWorkers(n, S) PROVE Own'
  <2>1. \A w \in Workers : at'[w] = at[w] \/ (at[w] = "none" /\ at'[w] = "started")
    BY <1>8 DEF RunWorkers, Unused, IInv, Types
  <2>2. \A m \in Metrics : A(m)' = A(m)
    BY <2>1, RankOrder DEF Doing
  <2> QED
    BY <1>8, <2>2 DEF RunWorkers, Own, Queue
<1>9. ASSUME NEW w \in Workers, Start(w) \/ run(w) PROVE Own'
  <2>1. /\ UNCHANGED <<main, client, gen, fresh>> /\ at[w] \notin {"none", "exited"}
        /\ \A v \in Workers : v # w => at'[v] = at[v]
    BY <1>9, RunEffect DEF Start, IInv, Types
  <2>2. main \in {"ready", "drain", "wait"} /\ client = 1 /\ owner[w] = 1
    BY <2>1, <1>0, NobodyAtWork DEF IInv, Types, Owned
  <2>3. ASSUME NEW m \in Metrics, UNCHANGED <<value, jobs>>,
               at'[w] \in Ahead(m) => at[w] \in Ahead(m)
        PROVE  value'[gen][m] + Cardinality(A(m)') + Queue' <= fresh
    <3>1. A(m)' = A(m) \/ (w \in A(m) /\ A(m)' = A(m) \ {w})
      BY <2>1, <2>3, DoingEffect DEF IInv
    <3>2. Cardinality(A(m)') <= Cardinality(A(m)) /\ Cardinality(A(m)') \in Nat
      BY <1>0, <2>3, <3>1, Counting
    <3>3. Queue' = Queue
      BY <2>1, <2>3 DEF Queue
    <3> QED
      BY <1>0, <1>q, <2>2, <2>3, <3>2, <3>3 DEF Own
  <2>4. ASSUME NEW m \in Metrics PROVE value'[gen][m] + Cardinality(A(m)') + Queue' <= fresh
    <3>1. CASE Start(w)
      BY <3>1, <2>3, RankOrder, <2>4 DEF Start, IInv, Types
    <3>2. CASE Exit(w)
      BY <3>2, <2>3, RankOrder, <2>4 DEF Exit, IInv, Types
    <3>3. ASSUME NEW e \in Faults, NEW sc \in Codes, Do(w, e, sc)
          PROVE value'[gen][m] + Cardinality(A(m)') + Queue' <= fresh
      <4>1. at[w] \in Ahead(m) /\ UNCHANGED <<value, jobs>>
        BY <3>3, <2>4, RankOrder DEF Do
      <4> QED
        BY <4>1, <2>3, <2>4
    <3>4. CASE Take(w)
      <4>1. at'[w] \in Ahead(m) /\ at[w] \notin Ahead(m) /\ UNCHANGED value
        BY <3>4, <2>4, RankOrder DEF Take, IInv, Types
      <4>2. Queue' = Queue - 1
        BY <3>4, <1>0, <1>q, <2>1, <2>2 DEF Take, Queue, IInv, Types
      <4>3. A(m)' = A(m) \union {w} /\ w \in Workers \ A(m)
        BY <2>1, <4>1, DoingEffect DEF IInv
      <4>4. Cardinality(A(m)') = Cardinality(A(m)) + 1
        BY <1>0, <2>4, <4>3, Counting
      <4> QED
        BY <1>0, <1>q, <2>2, <2>4, <4>1, <4>2, <4>4 DEF Own
    <3>5. ASSUME NEW k \in Metrics, Count(w, k)
          PROVE value'[gen][m] + Cardinality(A(m)') + Queue' <= fresh
      <4>1. at[w] = k /\ at'[w] = Then[k] /\ Queue' = Queue
        BY <3>5 DEF Count, Queue, IInv, Types
      <4>2. /\ value'[gen][m] = value[gen][m] \/ (k = m /\ value'[gen][m] = value[gen][m] + 1)
        BY <3>5, <1>0, <2>4, CountEffect DEF IInv
      <4>3. CASE k = m
        <5>1. w \in A(m) /\ A(m)' = A(m) \ {w}
          BY <2>1, <2>4, <4>1, <4>3, RankOrder, DoingEffect DEF IInv
        <5>2. Cardinality(A(m)') = Cardinality(A(m)) - 1
          BY <1>0, <2>4, <5>1, Counting
        <5> QED
          BY <1>0, <1>q, <2>2, <2>4, <4>1, <4>2, <5>2 DEF Own
      <4>4. CASE k # m
        <5>1. A(m)' = A(m)
          BY <2>1, <2>4, <3>5, <4>1, <4>4, RankOrder, DoingEffect DEF IInv
        <5> QED
          BY <2>2, <2>4, <4>1, <4>2, <4>4, <5>1 DEF Own
      <4> QED
        BY <4>3, <4>4
    <3> QED
      BY <1>9, <3>1, <3>2, <3>3, <3>4, <3>5 DEF run
  <2> QED
    BY <1>0, <2>1, <2>2, <2>4 DEF Own
<1>10. CASE UNCHANGED vars
  BY <1>10 DEF vars, Own, Queue, Doing
<1> QED
  BY <1>1, <1>2, <1>3, <1>4, <1>5, <1>6, <1>7, <1>8, <1>9, <1>10 DEF Next, NewSteps, FlushSteps

(* The counters of a client that is flushed are of jobs sent since then,   *)
(* whatever its workers were doing when Flush began.                       *)
THEOREM OwnRequestsOnly == MaxClients = 1 => (Spec => []OwnRequests)
<1> SUFFICES ASSUME MaxClients = 1 PROVE Spec => []OwnRequests
  OBVIOUS
<1>1. IInv /\ IInv' /\ Own /\ [Next]_vars => Own'
  BY OwnStep
<1>2. IInv /\ Own => OwnRequests
  <2> SUFFICES ASSUME IInv, Own, main \in {"ready", "drain", "wait"}, NEW m \in Metrics
               PROVE  value[gen][m] <= fresh
    BY DEF OwnRequests
  <2>1. Doing(Ahead(m)) \in SUBSET Workers
    BY DEF Doing
  <2>2. Cardinality(Doing(Ahead(m))) \in Nat
    BY <2>1, Counting
  <2>3. Queue \in Nat /\ value[gen][m] \in Nat /\ fresh \in Nat
    BY ClientAssumption DEF Queue, IInv, Types, Clients
  <2> QED
    BY <2>2, <2>3 DEF Own
<1> QED
  BY Invariant, OwnInit, <1>1, <1>2, PTL DEF Spec

(* When Flush returns, no goroutine, no job and no count is left. *)
THEOREM FlushIsClean == MaxClients = 1 => (Spec => FlushClean)
<1> SUFFICES ASSUME MaxClients = 1 PROVE Spec => FlushClean
  OBVIOUS
<1>1. IInv /\ IInv' /\ Own /\ [Next]_vars => Own'
  BY OwnStep
<1>2. ASSUME IInv, Own, FlushReturn
      PROVE  /\ Alive(client) = {} /\ Overflow(client) = 0
             /\ \A m \in Metrics : value[gen][m] = 0
  BY <1>2 DEF FlushReturn, IInv, Closing, AllDone, Alive, Overflow, Own
<1>3. IInv /\ Own => (FlushReturn => /\ Alive(client) = {} /\ Overflow(client) = 0
                                   /\ \A m \in Metrics : value[gen][m] = 0)
  BY <1>2
<1> QED
  BY Invariant, OwnInit, <1>1, <1>3, PTL DEF Spec, FlushClean
-----------------------------------------------------------------------------
(* The places that a pool of workers knows of: the jobs in the channel and *)
(* with the workers, and those counted since New or Flush.                 *)
LEMMA PoolValues ==
  ASSUME MaxClients = 1, IInv, IInv'
  PROVE  /\ Queued \in Nat /\ Queued' \in Nat
         /\ Cardinality(InFlight) \in Nat
         /\ value[gen]["requestSum"] \in Nat
         /\ client \in {0, 1} /\ Clients = {1}
         /\ client = 1 => Queued = jobs[1]
<1>1. Types /\ Types'
  BY DEF IInv
<1>2. Queued \in Nat /\ Queued' \in Nat /\ Cardinality(InFlight) \in Nat
  BY <1>1, Sums, NextQueued DEF InFlight
<1>3. client \in {0, 1} /\ Clients = {1} /\ value[gen]["requestSum"] \in Nat
  BY <1>1 DEF Types, Clients, Metrics
<1>4. jobs \in [Clients -> Nat]
  BY <1>1, ClientAssumption DEF Types
<1>5. Queued = jobs[1]
  BY <1>3, <1>4, TallySingle DEF Queued
<1> QED
  BY <1>2, <1>3, <1>5

(* A step of one goroutine takes a job, counts it in the requestSum that   *)
(* the client shows, or changes nothing of the pool.                       *)
LEMMA RunIsPoolStep ==
  ASSUME MaxClients = 1, IInv, IInv', NEW w \in Workers, Start(w) \/ run(w)
  PROVE  Pool!Begin \/ Pool!Finish \/ UNCHANGED Pool!poolVars
<1> DEFINE q == Queued
           n == Cardinality(InFlight)
           d == value[gen]["requestSum"]
           flying == {"doing"} \union Metrics
<1>0. q \in Nat /\ n \in Nat /\ d \in Nat /\ client \in {0, 1}
  BY PoolValues
<1>1. /\ UNCHANGED <<main, client, gen>> /\ at[w] \notin {"none", "exited"}
      /\ \A v \in Workers : v # w => at'[v] = at[v]
  BY RunEffect DEF Start, IInv, Types
<1>2. main \in {"ready", "drain", "wait"} /\ swapped = 6
  BY <1>1, NobodyAtWork DEF IInv, Types, Made
<1>3. n' = n + (IF at'[w] \in flying THEN 1 ELSE 0) - (IF at[w] \in flying THEN 1 ELSE 0)
  BY <1>1, Move DEF InFlight, IInv
<1>4. ASSUME at[w] \in flying <=> at'[w] \in flying PROVE n' = n
  BY <1>0, <1>3, <1>4
<1>5. CASE Start(w) \/ Exit(w)
  <2>1. at[w] \notin flying /\ at'[w] \notin flying /\ UNCHANGED <<value, jobs>>
    BY <1>5 DEF Start, Exit, Metrics, IInv, Types
  <2>2. UNCHANGED <<main, Queued, Cardinality(InFlight), value[gen]["requestSum"]>>
    BY <1>1, <1>4, <2>1 DEF Queued
  <2> QED
    BY <2>2 DEF Pool!poolVars
<1>6. ASSUME NEW e \in Faults, NEW sc \in Codes, Do(w, e, sc) PROVE UNCHANGED Pool!poolVars
  <2>1. at[w] \in flying /\ at'[w] \in flying /\ UNCHANGED <<value, jobs>>
    BY <1>6 DEF Do, Metrics, Faults, IInv, Types
  <2>2. UNCHANGED <<main, Queued, Cardinality(InFlight), value[gen]["requestSum"]>>
    BY <1>1, <1>4, <2>1 DEF Queued
  <2> QED
    BY <2>2 DEF Pool!poolVars
<1>7. CASE Take(w)
  <2>1. q' = q - 1 /\ UNCHANGED value /\ at[w] = "waiting" /\ at'[w] = "doing"
    BY <1>7, QueueSteps DEF Take, IInv, Types
  <2>2. n' = n + 1 /\ w \in Workers \ InFlight
    BY <1>0, <1>3, <2>1 DEF Metrics, InFlight, Doing
  <2>3. n < Cardinality(Workers)
    <3>1. /\ InFlight \in SUBSET Workers /\ Workers \in SUBSET Workers
          /\ InFlight \union {w} \in SUBSET Workers
      BY DEF InFlight, Doing
    <3>2. Cardinality(InFlight \union {w}) = n + 1
          /\ Cardinality(InFlight \union {w}) <= Cardinality(Workers)
      BY <2>2, <3>1, Counting
    <3>3. Cardinality(Workers) \in Nat
      BY <3>1, Counting
    <3> QED
      BY <1>0, <3>2, <3>3
  <2>4. q > 0
    <3>1. q' \in Nat
      BY PoolValues
    <3> HIDE DEF q
    <3> QED
      BY <1>0, <2>1, <3>1
  <2>5. UNCHANGED <<main, value[gen]["requestSum"]>>
    BY <1>1, <2>1
  <2> QED
    BY <2>1, <2>2, <2>3, <2>4, <2>5 DEF Pool!Begin
<1>8. ASSUME NEW m \in Metrics, Count(w, m) PROVE Pool!Finish \/ UNCHANGED Pool!poolVars
  <2>1. /\ at[w] = m /\ at'[w] = Then[m] /\ Queued' = Queued
    BY <1>8 DEF Count, Queued, IInv, Types
  <2>2. gen \in Generations
    BY DEF IInv, Types
  <2>3. CASE m = "requestSum"
    <3>1. Refers(m) = gen
      BY <1>2, <2>3, Names DEF Refers
    <3>2. d' = d + 1
      BY <1>1, <1>8, <2>3, <3>1, CountEffect DEF IInv
    <3>3. n' = n - 1 /\ w \in InFlight
      BY <1>0, <1>3, <2>1, <2>3 DEF Then, Metrics, InFlight, Doing
    <3>4. n > 0
      <4>1. InFlight \in SUBSET Workers /\ InFlight \ {w} \in SUBSET Workers
        BY DEF InFlight, Doing
      <4>2. Cardinality(InFlight \ {w}) = n - 1 /\ Cardinality(InFlight \ {w}) \in Nat
        BY <3>3, <4>1, Counting
      <4> QED
        BY <1>0, <4>2
    <3> QED
      BY <1>1, <2>1, <3>2, <3>3, <3>4 DEF Pool!Finish
  <2>4. CASE m # "requestSum"
    <3>1. d' = d
      BY <1>1, <1>8, <2>2, <2>4, CountEffect DEF IInv, Metrics
    <3>2. n' = n
      BY <1>4, <2>1, <2>4 DEF Then, Metrics
    <3> QED
      BY <1>1, <2>1, <3>1, <3>2 DEF Pool!poolVars
  <2> QED
    BY <2>3, <2>4
<1> QED
  BY <1>5, <1>6, <1>7, <1>8 DEF run

(* The wait of Flush ends when nothing is left to do, and its new metrics  *)
(* are what the client shows.                                              *)
LEMMA WaitReopens ==
  ASSUME MaxClients = 1, IInv, IInv', FlushWait
  PROVE  Pool!Reopen
<1>1. client = 1 /\ Queued = jobs[1] /\ Queued' = Queued
  BY PoolValues DEF FlushWait, IInv, Made, Queued
<1>2. jobs[1] = 0
  BY <1>1 DEF FlushWait, IInv, Closing
<1>3. InFlight = {} /\ InFlight' = InFlight
  BY <1>1 DEF FlushWait, AllDone, InFlight, Doing, Metrics, IInv, Owned, Types
<1>4. value'[gen']["requestSum"] = 0
  <2>1. gen' = gen + 1 /\ gen' \in Generations /\ gen \in Generations /\ value' = value
    BY DEF FlushWait, IInv, Types
  <2> QED
    BY <2>1, ClientAssumption DEF IInv, Unmade, Generations, Metrics
<1> QED
  BY <1>1, <1>2, <1>3, <1>4, FS_EmptySet DEF FlushWait, Pool!Reopen

(* Each step of a client that is the only one is a step of a pool of       *)
(* workers, or changes nothing of it.                                      *)
LEMMA PoolStep ==
  ASSUME MaxClients = 1, IInv, IInv', Own, Own', [Next]_vars
  PROVE  [Pool!PoolNext]_(Pool!poolVars)
<1>0. Types /\ Types' /\ Made /\ Owned
  BY DEF IInv
<1>1. CASE \/ NewReturn \/ initMetrics \/ FlushClose \/ FlushReturn \/ UNCHANGED vars
           \/ \E n \in 0..Cardinality(Workers), S \in SUBSET Unused : RunWorkers(n, S)
  <2>1. /\ UNCHANGED <<jobs, value, sent, dropped>>
        /\ \A steps : steps \cap {"none", "started"} = {} => Doing(steps)' = Doing(steps)
    BY <1>0, <1>1, Bystanding DEF NewSteps
  <2>2. InFlight' = InFlight
    BY <2>1 DEF InFlight, Metrics
  <2>3. gen' = gen /\ (main' \in {"drain", "wait"} <=> main \in {"drain", "wait"})
    BY <1>1 DEF NewReturn, initMetrics, FlushClose, FlushReturn, RunWorkers, vars
  <2>4. UNCHANGED <<(main \notin {"drain", "wait"}), Queued, Cardinality(InFlight), value[gen]["requestSum"]>>
    BY <2>1, <2>2, <2>3 DEF Queued
  <2> QED
    BY <2>4 DEF Pool!poolVars
<1>2. CASE New
  <2>1. UNCHANGED <<jobs, at, value>> /\ main = "ready" /\ main' = "new" /\ client = 0
    BY <1>2, PoolValues DEF New
  <2>2. value[gen]["requestSum"] = 0
    <3>1. /\ value[gen]["requestSum"] + Cardinality(Doing(Ahead("requestSum"))) + Queue <= fresh
          /\ fresh = 0 /\ Queue = 0
      BY <2>1 DEF Own, IInv, Made, Metrics, Queue
    <3>2. Cardinality(Doing(Ahead("requestSum"))) \in Nat /\ value[gen]["requestSum"] \in Nat
      BY <1>0, Sums, PoolValues
    <3> QED
      BY <3>1, <3>2
  <2>3. value'[gen']["requestSum"] = 0
    BY <2>1 DEF Own, Metrics
  <2>4. UNCHANGED <<(main \notin {"drain", "wait"}), Queued, Cardinality(InFlight), value[gen]["requestSum"]>>
    BY <2>1, <2>2, <2>3 DEF Queued, InFlight, Doing
  <2> QED
    BY <2>4 DEF Pool!poolVars
<1>3. CASE Flush
  <2>1. UNCHANGED <<jobs, at, value, gen>> /\ main = "ready" /\ main' = "drain"
    BY <1>3 DEF Flush
  <2>2. UNCHANGED <<Queued, Cardinality(InFlight), value[gen]["requestSum"]>>
    BY <2>1 DEF Queued, InFlight, Doing
  <2>3. Pool!Shut
    BY <2>1, <2>2 DEF Pool!Shut
  <2> QED
    BY <2>3 DEF Pool!PoolNext
<1>4. CASE Send
  <2>1. Queued' = Queued + 1 /\ UNCHANGED <<value, at>> /\ gen' = gen /\ main = "ready" /\ main' = main
    BY <1>0, <1>4, QueueSteps DEF Send
  <2>2. UNCHANGED <<Cardinality(InFlight), value[gen]["requestSum"]>>
    BY <2>1 DEF InFlight, Doing
  <2>3. Pool!Submit
    BY <2>1, <2>2 DEF Pool!Submit
  <2> QED
    BY <2>3 DEF Pool!PoolNext
<1>5. CASE drainChan
  <2>1. Queued' = Queued - 1 /\ UNCHANGED <<value, at>> /\ gen' = gen /\ main = "drain" /\ main' = main
    BY <1>0, <1>5, QueueSteps DEF drainChan
  <2>2. UNCHANGED <<Cardinality(InFlight), value[gen]["requestSum"]>>
    BY <2>1 DEF InFlight, Doing
  <2>3. Queued > 0
    BY <2>1, PoolValues
  <2>4. Pool!Drop
    BY <2>1, <2>2, <2>3 DEF Pool!Drop
  <2> QED
    BY <2>4 DEF Pool!PoolNext
<1>6. CASE FlushWait
  BY <1>6, WaitReopens DEF Pool!PoolNext
<1>7. ASSUME NEW w \in Workers, Start(w) \/ run(w) PROVE [Pool!PoolNext]_(Pool!poolVars)
  BY <1>7, RunIsPoolStep DEF Pool!PoolNext
<1> QED
  BY <1>1, <1>2, <1>3, <1>4, <1>5, <1>6, <1>7 DEF Next, NewSteps, FlushSteps

\* Before the first New a client is a pool without jobs.
LEMMA PoolStart == Init => Pool!PoolInit
<1> SUFFICES ASSUME Init PROVE Pool!PoolInit
  OBVIOUS
<1>1. jobs \in [Clients -> Nat] /\ \A c \in Clients : jobs[c] = 0
  BY DEF Init
<1>2. Queued = 0
  BY <1>1, TallyZero DEF Queued
<1>3. InFlight = {}
  BY DEF Init, InFlight, Doing, Metrics
<1>4. value[gen]["requestSum"] = 0
  BY ClientAssumption DEF Init, Generations, Metrics
<1> QED
  BY <1>2, <1>3, <1>4, FS_EmptySet DEF Init, Pool!PoolInit

(* A client that is flushed does each job once and shows those it has done *)
(* since: it implements the pool of workers, its workers coming and going  *)
(* while Flush drains, closes and waits.                                   *)
THEOREM ClientImplementsPool == MaxClients = 1 => (Spec => ImplementsPool)
<1> SUFFICES ASSUME MaxClients = 1 PROVE Spec => ImplementsPool
  OBVIOUS
<1>1. IInv /\ IInv' /\ Own /\ [Next]_vars => Own'
  BY OwnStep
<1>2. IInv /\ IInv' /\ Own /\ Own' /\ [Next]_vars => [Pool!PoolNext]_(Pool!poolVars)
  BY PoolStep
<1> QED
  BY Invariant, OwnInit, PoolStart, <1>1, <1>2, PTL DEF Spec, ImplementsPool, Pool!PoolSpec
===============================================================================
