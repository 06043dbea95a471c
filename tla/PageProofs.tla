------------------------------ MODULE PageProofs ------------------------------
(***************************************************************************)
(* Proofs about Page, for any numbers of connections, stages, requests and *)
(* samples: every chart has an entry for each sample, every bar of a rate  *)
(* chart is the growth of its counter, the bars together show nothing      *)
(* twice, and the chart of connections is near their number.               *)
(***************************************************************************)
EXTENDS Page, ConnectionsProofs, TallyProofs

Lists == Counters \union {"Connections", "RequestSuccess", "Qps"}

Counts == [RequestSum : Nat, RequestSuccess : Nat, Errors : Nat, Timeouts : Nat]

\* What the next sample of a counter shows.
Now(m) ==
  CASE m = "BytesWritten" -> value[gen]["bytesWritten"]
    [] m = "BytesRead"    -> value[gen]["bytesRead"]
    [] OTHER              -> count[m]

Shown == {"NaN", "seconds"}
Codes == {"success", "other"}
Messages == {"timeout", "other"}

\* The fields of a Page, with the quantiles that have come up.
Durations == [{} -> Seq(Shown)] \union [Quantiles -> Seq(Shown)]

PageType ==
  /\ page \in [Connections : Seq(Int), RequestSum : Seq(Nat), RequestSuccess : Seq(Nat),
               Errors : Seq(Nat), Timeouts : Seq(Nat), Qps : Seq(Nat),
               BytesWritten : Seq(Nat), BytesRead : Seq(Nat),
               RequestDuration : Durations, StatusCodes : SUBSET Codes, ErrorMessages : SUBSET Messages]
  /\ count \in Counts
  /\ stages \in Seq(Generations)
  /\ \A g \in Generations : value[g]["bytesWritten"] \in Nat /\ value[g]["bytesRead"] \in Nat

\* One entry for each sample.
InStep ==
  /\ \A m \in Lists : Len(page[m]) = Len(stages)
  /\ DOMAIN page.RequestDuration = IF stages = <<>> THEN {} ELSE Quantiles
  /\ \A q \in DOMAIN page.RequestDuration : Len(page.RequestDuration[q]) = Len(stages)

\* Within a stage a counter only grows, up to what the next sample would show.
Growing ==
  /\ \A i \in 1..Len(stages) : stages[i] <= gen
  /\ \A m \in Counters : \A i \in 2..Len(stages) :
       stages[i] = stages[i - 1] => page[m][i - 1] <= page[m][i]
  /\ \A m \in Counters :
       Len(stages) > 0 /\ stages[Len(stages)] = gen => page[m][Len(stages)] <= Now(m)

PageInv == IInv /\ PageType /\ InStep /\ Growing
-----------------------------------------------------------------------------
(* rate has a bar for each value; the first is zero, and each other one is *)
(* the growth since the value before it, or zero where the counter fell.   *)
LEMMA RateSound ==
  ASSUME NEW sl \in Seq(Nat)
  PROVE  /\ rate(sl) \in Seq(Nat)
         /\ Len(rate(sl)) = Len(sl)
         /\ \A i \in 2..Len(sl) :
              /\ rate(sl)[i] \in 0..sl[i]
              /\ sl[i - 1] <= sl[i] => rate(sl)[i] = sl[i] - sl[i - 1]
<1>1. \A i \in 1..Len(sl) : sl[i] \in Nat
  OBVIOUS
<1>2. \A i \in 2..Len(sl) : Growth(sl[i - 1], sl[i]) \in 0..sl[i]
                            /\ (sl[i - 1] <= sl[i] => Growth(sl[i - 1], sl[i]) = sl[i] - sl[i - 1])
  <2> SUFFICES ASSUME NEW i \in 2..Len(sl)
               PROVE  Growth(sl[i - 1], sl[i]) \in 0..sl[i]
                      /\ (sl[i - 1] <= sl[i] => Growth(sl[i - 1], sl[i]) = sl[i] - sl[i - 1])
    OBVIOUS
  <2>1. sl[i - 1] \in Nat /\ sl[i] \in Nat
    BY <1>1
  <2> QED
    BY <2>1 DEF Growth
<1>3. DOMAIN sl = 1..Len(sl)
  OBVIOUS
<1>4. \A i \in 1..Len(sl) : rate(sl)[i] = IF i = 1 THEN 0 ELSE Growth(sl[i - 1], sl[i])
  BY <1>3 DEF rate
<1>5. rate(sl) \in [1..Len(sl) -> Nat]
  <2>1. \A i \in 1..Len(sl) : (IF i = 1 THEN 0 ELSE Growth(sl[i - 1], sl[i])) \in Nat
    BY <1>1, <1>2
  <2> QED
    BY <1>3, <2>1 DEF rate
<1>6. rate(sl) \in Seq(Nat) /\ Len(rate(sl)) = Len(sl)
  BY <1>5
<1> QED
  BY <1>2, <1>4, <1>6

(* uint64SliceToString prints as many numbers as there are. *)
LEMMA SliceSound ==
  ASSUME NEW sl \in Seq(Int)
  PROVE  Len(uint64Slice(sl)) = Len(sl)
<1>1. DOMAIN sl = 1..Len(sl) /\ \A i \in 1..Len(sl) : sl[i] \in Int
  OBVIOUS
<1>2. \A i \in 1..Len(sl) : Signed(sl[i]) \in Int
  BY <1>1, WordAssumption DEF Signed
<1>3. uint64Slice(sl) \in [1..Len(sl) -> Int]
  BY <1>1, <1>2 DEF uint64Slice
<1> QED
  BY <1>3

\* UpdateRequestDuration adds an entry to the series of each quantile.
LEMMA DurationsSound ==
  ASSUME NEW n \in Nat, NEW f \in Durations, NEW d \in [Quantiles -> Shown],
         DOMAIN f = IF n = 0 THEN {} ELSE Quantiles,
         \A q \in DOMAIN f : Len(f[q]) = n
  PROVE  LET u == UpdateRequestDuration(f, d) IN
         u \in [Quantiles -> Seq(Shown)] /\ \A q \in Quantiles : Len(u[q]) = n + 1
<1> DEFINE u == UpdateRequestDuration(f, d)
           before(q) == IF q \in DOMAIN f THEN f[q] ELSE <<>>
<1>1. DOMAIN d = Quantiles /\ DOMAIN f \union DOMAIN d = Quantiles
  OBVIOUS
<1>2. \A q \in Quantiles : before(q) \in Seq(Shown) /\ Len(before(q)) = n
  <2>1. CASE n = 0
    BY <2>1
  <2>2. CASE n # 0
    <3>1. f \in [Quantiles -> Seq(Shown)]
      BY <2>2 DEF Durations
    <3> QED
      BY <2>2, <3>1
  <2> QED
    BY <2>1, <2>2
<1>3. u = [q \in Quantiles |-> Append(before(q), d[q])]
  BY <1>1 DEF UpdateRequestDuration, Extended
<1> HIDE DEF before
<1>4. \A q \in Quantiles : Append(before(q), d[q]) \in Seq(Shown) /\ Len(Append(before(q), d[q])) = n + 1
  BY <1>2
<1> HIDE DEF u
<1>5. u \in [Quantiles -> Seq(Shown)] /\ \A q \in Quantiles : Len(u[q]) = n + 1
  BY <1>3, <1>4
<1> QED
  BY <1>5 DEF u

\* The bytes of a generation only grow.
LEMMA BytesEffect ==
  ASSUME NEW v \in Values, NEW g \in Generations, NEW m \in Metrics, NEW n \in Int,
         n >= 0 \/ m = "connOpen", NEW h \in Generations, NEW x \in {"bytesWritten", "bytesRead"}
  PROVE  Added(v, g, m, n)[h][x] >= v[h][x]
<1>1. x \in Metrics
  BY DEF Metrics, Position
<1>2. \A k \in Metrics : Added(v, g, m, n)[h][k] = IF h = g /\ k = m THEN v[h][k] + n ELSE v[h][k]
  BY Increment
<1>3. v[h][x] \in Int
  BY <1>1 DEF Values
<1> QED
  BY <1>1, <1>2, <1>3

\* No step of a connection takes bytes back.
LEMMA BytesGrow ==
  ASSUME IInv, [Next]_vars, NEW h \in Generations, NEW x \in {"bytesWritten", "bytesRead"}
  PROVE  value'[h][x] >= value[h][x]
<1>0. TypeOK /\ Made /\ value \in Values /\ \A m \in Metrics : Refers(m) \in Generations
  BY RefersOK DEF IInv, TypeOK, Values
<1>a. x \in Metrics /\ "connOpen" \in Metrics /\ "connError" \in Metrics /\ "connOpen" \in Kept
  BY Names DEF Kept
<1>b. value[h][x] \in Int
  BY <1>0, <1>a DEF Values
<1>1. CASE UNCHANGED value
  BY <1>1, <1>b
<1>2. ASSUME NEW m \in {"connOpen", "connError"}, Add(Refers(m), m, 1) PROVE value'[h][x] >= value[h][x]
  <2>1. Added(value, Refers(m), m, 1)[h][x] >= value[h][x]
    BY <1>0, <1>a, BytesEffect
  <2> QED
    BY <1>2, <2>1 DEF Add
<1>3. ASSUME NEW c \in Conns, Dec(c) PROVE value'[h][x] >= value[h][x]
  <2>1. kept[c]["connOpen"] \in Generations
    BY <1>0, <1>a DEF TypeOK
  <2>2. Added(value, kept[c]["connOpen"], "connOpen", -1)[h][x] >= value[h][x]
    BY <1>0, <1>a, <2>1, BytesEffect
  <2> QED
    BY <1>3, <2>2 DEF Dec, Add
<1>4. ASSUME NEW c \in Conns, NEW b \in Kept, NEW e \in Kept, Move(c, b, e)
      PROVE value'[h][x] >= value[h][x]
  <2>1. PICK n \in 0..1, k \in 0..1 :
          value' = Added(Added(value, kept[c][b], b, n), kept[c][e], e, k)
    BY <1>4 DEF Move
  <2> DEFINE p == kept[c][b]
             q == kept[c][e]
             between == Added(value, p, b, n)
  <2>2. p \in Generations /\ q \in Generations /\ b \in Metrics /\ e \in Metrics
    BY <1>0, Names DEF TypeOK
  <2>3. n \in Int /\ k \in Int /\ n >= 0 /\ k >= 0
    OBVIOUS
  <2>4. value' = Added(between, q, e, k)
    BY <2>1
  <2> HIDE DEF p, q
  <2>5. between \in Values /\ between[h][x] >= value[h][x]
    BY <1>0, <2>2, <2>3, Increment, BytesEffect
  <2> HIDE DEF between
  <2>6. Added(between, q, e, k)[h][x] >= between[h][x]
    BY <2>2, <2>3, <2>5, BytesEffect
  <2>7. value'[h][x] >= between[h][x] /\ between[h][x] \in Int /\ value'[h][x] \in Int
    <3>1. value' \in Values
      BY <2>2, <2>3, <2>4, <2>5, Increment
    <3> QED
      BY <1>a, <2>4, <2>5, <2>6, <3>1 DEF Values
  <2> QED
    BY <1>b, <2>5, <2>7
<1>5. CASE New \/ initMetrics \/ UNCHANGED vars
  BY <1>1, <1>5 DEF New, initMetrics, vars, metrics
<1>6. ASSUME NEW c \in Conns, dial(c) \/ Close(c) \/ \E m \in Kept : Keep(c, m) PROVE value'[h][x] >= value[h][x]
  BY <1>1, <1>6 DEF dial, Close, Keep, metrics
<1>7. ASSUME NEW c \in Conns, setupTCPConn(c) \/ Count(c) PROVE value'[h][x] >= value[h][x]
  BY <1>1, <1>2, <1>7 DEF setupTCPConn, Count
<1> QED
  BY <1>3, <1>4, <1>5, <1>6, <1>7 DEF Next, Kept
-----------------------------------------------------------------------------
\* The empty page is in the invariant.
LEMMA InitPage == PageInit => PageInv
<1> SUFFICES ASSUME PageInit PROVE PageInv
  OBVIOUS
<1>1. IInv
  BY InitIInv DEF PageInit
<1>2. Len(<<>>) = 0 /\ <<>> \in Seq(Int) /\ <<>> \in Seq(Nat) /\ <<>> \in Seq(Generations)
  OBVIOUS
<1>3. [k \in {} |-> <<>>] \in Durations
  BY DEF Durations
<1>4. \A g \in Generations : value[g]["bytesWritten"] = 0 /\ value[g]["bytesRead"] = 0
  BY DEF PageInit, Init, Metrics, Position
<1>5. PageType
  BY <1>2, <1>3, <1>4 DEF PageType, PageInit, EmptyPage, NoCount, Counts
<1>6. InStep
  BY <1>2 DEF InStep, PageInit, EmptyPage, Lists, Counters
<1>7. Growing
  BY <1>2 DEF Growing, PageInit
<1> QED
  BY <1>1, <1>5, <1>6, <1>7 DEF PageInv

\* What a sample adds to the page.
LEMMA SampleEffect ==
  ASSUME PageType, InStep, TypeOK, printState
  PROVE  /\ PageType'
         /\ \A m \in Counters : page'[m] = Append(page[m], Now(m))
         /\ \A m \in Lists : Len(page'[m]) = Len(page[m]) + 1
         /\ DOMAIN page'.RequestDuration = Quantiles
         /\ \A q \in Quantiles : Len(page'.RequestDuration[q]) = Len(stages) + 1
<1>1. PICK conns \in ConnOpen, limit \in Limits :
       page' = [page EXCEPT
         !.Connections = Append(@, conns),
         !.Errors = Append(@, count.Errors),
         !.Timeouts = Append(@, count.Timeouts),
         !.RequestSum = Append(@, count.RequestSum),
         !.RequestSuccess = Append(@, count.RequestSuccess),
         !.BytesWritten = Append(@, value[gen]["bytesWritten"]),
         !.BytesRead = Append(@, value[gen]["bytesRead"]),
         !.Qps = Append(@, limit),
         !.StatusCodes = StatusCodes,
         !.ErrorMessages = ErrorMessages,
         !.RequestDuration = UpdateRequestDuration(@, RequestDuration)]
  BY DEF printState
<1>2. conns \in Int
  <2>1. value[gen]["connOpen"] \in Int
    BY Names DEF TypeOK
  <2> QED
    BY <2>1, WordAssumption DEF ConnOpen
<1>3. limit \in Nat
  BY PageAssumption
<1>4. value[gen]["bytesWritten"] \in Nat /\ value[gen]["bytesRead"] \in Nat
  BY DEF TypeOK, PageType
<1>5. /\ count.Errors \in Nat /\ count.Timeouts \in Nat
      /\ count.RequestSum \in Nat /\ count.RequestSuccess \in Nat
  BY DEF PageType, Counts
<1> DEFINE u == UpdateRequestDuration(page.RequestDuration, RequestDuration)
<1>6. u \in [Quantiles -> Seq(Shown)] /\ \A q \in Quantiles : Len(u[q]) = Len(stages) + 1
  <2>1. RequestDuration \in [Quantiles -> Shown]
    BY DEF RequestDuration, Shown
  <2>2. Len(stages) \in Nat /\ (stages = <<>> <=> Len(stages) = 0)
    BY DEF PageType
  <2>3. page.RequestDuration \in Durations
    BY DEF PageType
  <2> QED
    BY <2>1, <2>2, <2>3, DurationsSound DEF InStep
<1>7. StatusCodes \in SUBSET Codes /\ ErrorMessages \in SUBSET Messages
  BY DEF StatusCodes, ErrorMessages, Codes, Messages
<1> HIDE DEF u
<1>8. /\ page'.Connections = Append(page.Connections, conns)
      /\ page'.Errors = Append(page.Errors, count.Errors)
      /\ page'.Timeouts = Append(page.Timeouts, count.Timeouts)
      /\ page'.RequestSum = Append(page.RequestSum, count.RequestSum)
      /\ page'.RequestSuccess = Append(page.RequestSuccess, count.RequestSuccess)
      /\ page'.BytesWritten = Append(page.BytesWritten, value[gen]["bytesWritten"])
      /\ page'.BytesRead = Append(page.BytesRead, value[gen]["bytesRead"])
      /\ page'.Qps = Append(page.Qps, limit)
      /\ page'.RequestDuration = u
  BY <1>1 DEF PageType, u
<1>9. /\ page.Connections \in Seq(Int) /\ page.Errors \in Seq(Nat) /\ page.Timeouts \in Seq(Nat)
      /\ page.RequestSum \in Seq(Nat) /\ page.RequestSuccess \in Seq(Nat)
      /\ page.BytesWritten \in Seq(Nat) /\ page.BytesRead \in Seq(Nat) /\ page.Qps \in Seq(Nat)
  BY DEF PageType, Counts
<1>10. /\ page'.Connections \in Seq(Int) /\ page'.Errors \in Seq(Nat) /\ page'.Timeouts \in Seq(Nat)
       /\ page'.RequestSum \in Seq(Nat) /\ page'.RequestSuccess \in Seq(Nat)
       /\ page'.BytesWritten \in Seq(Nat) /\ page'.BytesRead \in Seq(Nat) /\ page'.Qps \in Seq(Nat)
  BY <1>2, <1>3, <1>4, <1>5, <1>8, <1>9
<1>11. \A m \in Lists : Len(page'[m]) = Len(page[m]) + 1
  <2>1. /\ Len(page'.Connections) = Len(page.Connections) + 1 /\ Len(page'.Errors) = Len(page.Errors) + 1
        /\ Len(page'.Timeouts) = Len(page.Timeouts) + 1 /\ Len(page'.RequestSum) = Len(page.RequestSum) + 1
        /\ Len(page'.RequestSuccess) = Len(page.RequestSuccess) + 1
        /\ Len(page'.BytesWritten) = Len(page.BytesWritten) + 1
        /\ Len(page'.BytesRead) = Len(page.BytesRead) + 1 /\ Len(page'.Qps) = Len(page.Qps) + 1
    BY <1>2, <1>3, <1>4, <1>5, <1>8, <1>9
  <2> QED
    BY <2>1 DEF Lists, Counters
<1>12. \A m \in Counters : page'[m] = Append(page[m], Now(m))
  BY <1>8 DEF Counters, Now
<1>13. page'.RequestDuration \in Durations
  BY <1>6, <1>8 DEF Durations
<1>14. page' \in [Connections : Seq(Int), RequestSum : Seq(Nat), RequestSuccess : Seq(Nat),
               Errors : Seq(Nat), Timeouts : Seq(Nat), Qps : Seq(Nat),
               BytesWritten : Seq(Nat), BytesRead : Seq(Nat),
               RequestDuration : Durations, StatusCodes : SUBSET Codes, ErrorMessages : SUBSET Messages]
  <2>1. page' = [Connections |-> page'.Connections, RequestSum |-> page'.RequestSum,
                 RequestSuccess |-> page'.RequestSuccess, Errors |-> page'.Errors,
                 Timeouts |-> page'.Timeouts, Qps |-> page'.Qps,
                 BytesWritten |-> page'.BytesWritten, BytesRead |-> page'.BytesRead,
                 RequestDuration |-> page'.RequestDuration,
                 StatusCodes |-> StatusCodes, ErrorMessages |-> ErrorMessages]
    BY <1>1 DEF PageType
  <2> QED
    BY <1>7, <1>10, <1>13, <2>1, SMTT(60)
<1>15. stages' \in Seq(Generations)
  BY DEF printState, PageType, TypeOK
<1>16. PageType'
  BY <1>14, <1>15 DEF PageType, printState, vars, metrics
<1> QED
  BY <1>6, <1>8, <1>11, <1>12, <1>16

\* A sample adds an entry to each series, of counters that only grow until New.
LEMMA PageStep == PageInv /\ [PageNext]_pageVars => PageInv'
<1> SUFFICES ASSUME PageInv, [PageNext]_pageVars PROVE PageInv'
  OBVIOUS
<1> USE DEF PageInv, Counts
<1>0. TypeOK /\ [Next]_vars /\ IInv'
  <2>1. [Next]_vars
    BY DEF PageNext, pageVars, Serve, printState
  <2> QED
    BY <2>1, TypeStep, BalanceStep DEF IInv
<1>l. Len(stages) \in Nat /\ \A i \in 1..Len(stages) : stages[i] \in Generations
  BY DEF PageType, Counts
<1>n. \A m \in Counters : Now(m) \in Nat
  BY <1>0 DEF Counters, Now, PageType, TypeOK
<1>p. \A m \in Counters : page[m] \in Seq(Nat) /\ Len(page[m]) = Len(stages)
  BY DEF PageType, InStep, Counters, Lists
<1>1. CASE Serve
  <2>1. PICK o \in Outcomes : count' = [m \in DOMAIN count |-> count[m] + o[m]]
    BY <1>1 DEF Serve
  <2>2. o \in Counts
    <3>1. NoCount \in Counts
      BY DEF NoCount
    <3>2. \A x \in Counts :
            /\ [x EXCEPT !.RequestSum = 1, !.RequestSuccess = 1]
                 \in Counts
            /\ [x EXCEPT !.RequestSum = 1, !.Errors = 1, !.Timeouts = 1]
                 \in Counts
            /\ [x EXCEPT !.RequestSum = 1, !.Errors = 1]
                 \in Counts
      OBVIOUS
    <3> QED
      BY <3>1, <3>2 DEF Outcomes
  <2>3. count' \in Counts
        /\ count'.RequestSum >= count.RequestSum /\ count'.Errors >= count.Errors
        /\ count'.Timeouts >= count.Timeouts
    <3>1. count \in Counts
      BY DEF PageType
    <3>2. /\ count.RequestSum \in Nat /\ count.RequestSuccess \in Nat
          /\ count.Errors \in Nat /\ count.Timeouts \in Nat
          /\ o.RequestSum \in Nat /\ o.RequestSuccess \in Nat /\ o.Errors \in Nat /\ o.Timeouts \in Nat
      BY <2>2, <3>1
    <3>3. count' = [RequestSum |-> count.RequestSum + o.RequestSum,
                    RequestSuccess |-> count.RequestSuccess + o.RequestSuccess,
                    Errors |-> count.Errors + o.Errors, Timeouts |-> count.Timeouts + o.Timeouts]
      <4>1. DOMAIN count = {"RequestSum", "RequestSuccess", "Errors", "Timeouts"}
        BY <3>1
      <4> QED
        BY <2>1, <4>1
    <3> QED
      BY <3>2, <3>3
  <2>4. UNCHANGED <<gen, value, page, stages>>
    BY <1>1 DEF Serve, vars, metrics
  <2>5. \A m \in Counters : Now(m)' \in Nat /\ Now(m)' >= Now(m)
    <3> SUFFICES ASSUME NEW m \in Counters PROVE Now(m)' \in Nat /\ Now(m)' >= Now(m)
      OBVIOUS
    <3>1. CASE m \in {"BytesWritten", "BytesRead"}
      <4>1. Now(m)' = Now(m)
        BY <2>4, <3>1 DEF Now
      <4> QED
        BY <4>1, <1>n
    <3>2. CASE m \in {"RequestSum", "Errors", "Timeouts"}
      <4>1. Now(m) = count[m] /\ Now(m)' = count'[m]
        BY <3>2 DEF Now
      <4>2. count'[m] \in Nat /\ count'[m] >= count[m]
        BY <2>3, <3>2
      <4> QED
        BY <4>1, <4>2
    <3> QED
      BY <3>1, <3>2 DEF Counters
  <2>6. PageType'
    BY <2>3, <2>4 DEF PageType
  <2>7. InStep'
    BY <2>4 DEF InStep
  <2>8. Growing'
    <3>1. \A m \in Counters :
            Len(stages) > 0 /\ stages[Len(stages)] = gen => page[m][Len(stages)] <= Now(m)'
      <4> SUFFICES ASSUME NEW m \in Counters, Len(stages) > 0, stages[Len(stages)] = gen
                   PROVE  page[m][Len(stages)] <= Now(m)'
        OBVIOUS
      <4>1. page[m][Len(stages)] \in Nat /\ page[m][Len(stages)] <= Now(m)
        BY <1>p, <1>l DEF Growing
      <4> QED
        BY <4>1, <1>n, <2>5
    <3> QED
      BY <2>4, <3>1 DEF Growing
  <2> QED
    BY <1>0, <2>6, <2>7, <2>8
<1>2. CASE printState
  <2>1. /\ PageType'
        /\ \A m \in Counters : page'[m] = Append(page[m], Now(m))
        /\ \A m \in Lists : Len(page'[m]) = Len(page[m]) + 1
        /\ DOMAIN page'.RequestDuration = Quantiles
        /\ \A q \in Quantiles : Len(page'.RequestDuration[q]) = Len(stages) + 1
    BY <1>0, <1>2, SampleEffect
  <2>2. /\ stages' = Append(stages, gen) /\ UNCHANGED <<gen, value, count>>
    BY <1>2 DEF printState, vars, metrics
  <2>3. /\ Len(stages') = Len(stages) + 1 /\ stages'[Len(stages) + 1] = gen
        /\ \A i \in 1..Len(stages) : stages'[i] = stages[i]
    BY <2>2 DEF PageType
  <2>4. stages' # <<>>
    BY <1>l, <2>3
  <2>5. InStep'
    BY <2>1, <2>3, <2>4 DEF InStep
  <2>6. \A m \in Counters :
          page'[m][Len(stages) + 1] = Now(m) /\ \A i \in 1..Len(stages) : page'[m][i] = page[m][i]
    <3> SUFFICES ASSUME NEW m \in Counters
                 PROVE  /\ page'[m][Len(stages) + 1] = Now(m)
                        /\ \A i \in 1..Len(stages) : page'[m][i] = page[m][i]
      OBVIOUS
    <3> DEFINE sl == page[m]
    <3>1. sl \in Seq(Nat) /\ Len(sl) = Len(stages) /\ Now(m) \in Nat /\ page'[m] = Append(sl, Now(m))
      BY <1>n, <1>p, <2>1
    <3> HIDE DEF sl
    <3>2. Append(sl, Now(m))[Len(sl) + 1] = Now(m) /\ \A i \in 1..Len(sl) : Append(sl, Now(m))[i] = sl[i]
      BY <3>1
    <3> QED
      BY <3>1, <3>2 DEF sl
  <2>7. \A m \in Counters : Now(m)' = Now(m)
    BY <2>2 DEF Now
  <2>8. \A i \in 1..Len(stages') : stages'[i] <= gen'
    BY <1>0, <1>l, <2>2, <2>3 DEF Growing, TypeOK, Generations
  <2>9. \A m \in Counters : \A i \in 2..Len(stages') :
          stages'[i] = stages'[i - 1] => page'[m][i - 1] <= page'[m][i]
    <3> SUFFICES ASSUME NEW m \in Counters, NEW i \in 2..Len(stages'), stages'[i] = stages'[i - 1]
                 PROVE  page'[m][i - 1] <= page'[m][i]
      OBVIOUS
    <3>1. CASE i = Len(stages) + 1
      <4>1. i - 1 \in 1..Len(stages) /\ i - 1 = Len(stages) /\ Len(stages) > 0
        BY <1>l, <2>3, <3>1
      <4>2. stages[Len(stages)] = gen
        BY <2>3, <3>1, <4>1
      <4>3. page[m][Len(stages)] <= Now(m)
        BY <4>1, <4>2 DEF Growing
      <4> QED
        BY <2>6, <3>1, <4>1, <4>3
    <3>2. CASE i # Len(stages) + 1
      <4>1. i \in 2..Len(stages) /\ i \in 1..Len(stages) /\ i - 1 \in 1..Len(stages)
        BY <1>l, <2>3, <3>2
      <4>2. stages[i] = stages[i - 1]
        BY <2>3, <4>1
      <4>3. page[m][i - 1] <= page[m][i]
        BY <4>1, <4>2 DEF Growing
      <4> QED
        BY <2>6, <4>1, <4>3
    <3> QED
      BY <3>1, <3>2
  <2>10. \A m \in Counters : page'[m][Len(stages')] <= Now(m)'
    BY <1>n, <2>3, <2>6, <2>7
  <2>11. Growing'
    BY <2>8, <2>9, <2>10 DEF Growing
  <2> QED
    BY <1>0, <2>1, <2>5, <2>11
<1>3. CASE Next /\ count' = (IF gen' # gen THEN NoCount ELSE count) /\ UNCHANGED <<page, served, stages>>
  <2>1. UNCHANGED <<page, stages>>
    BY <1>3
  <2>2. count' \in Counts
    BY <1>3 DEF PageType, NoCount
  <2>3. \A g \in Generations :
          /\ value'[g]["bytesWritten"] \in Nat /\ value'[g]["bytesWritten"] >= value[g]["bytesWritten"]
          /\ value'[g]["bytesRead"] \in Nat /\ value'[g]["bytesRead"] >= value[g]["bytesRead"]
    <3> SUFFICES ASSUME NEW g \in Generations, NEW x \in {"bytesWritten", "bytesRead"}
                 PROVE  value'[g][x] \in Nat /\ value'[g][x] >= value[g][x]
      OBVIOUS
    <3>1. value'[g][x] >= value[g][x]
      BY <1>0, BytesGrow
    <3>2. value'[g][x] \in Int /\ value[g][x] \in Nat
      <4>1. value' \in [Generations -> [Metrics -> Int]] /\ x \in Metrics
        BY <1>0, Names DEF IInv, TypeOK
      <4>2. value[g]["bytesWritten"] \in Nat /\ value[g]["bytesRead"] \in Nat
        BY DEF PageType
      <4> QED
        BY <4>1, <4>2
    <3> QED
      BY <3>1, <3>2
  <2>4. PageType' /\ InStep'
    BY <2>1, <2>2, <2>3 DEF PageType, InStep
  <2>5. gen \in Generations /\ gen' \in Generations /\ (gen' = gen \/ gen' = gen + 1)
    BY <1>0, <1>3 DEF IInv, TypeOK, Next, New, initMetrics, dial, setupTCPConn, Count, Keep, Move, Close, Dec, metrics
  <2>6. \A i \in 1..Len(stages') : stages'[i] <= gen'
    BY <1>l, <2>1, <2>5 DEF Growing, Generations
  <2>7. \A m \in Counters :
          Len(stages') > 0 /\ stages'[Len(stages')] = gen' => page'[m][Len(stages')] <= Now(m)'
    <3> SUFFICES ASSUME NEW m \in Counters, Len(stages) > 0, stages[Len(stages)] = gen'
                 PROVE  page[m][Len(stages)] <= Now(m)'
      BY <2>1
    <3>1. stages[Len(stages)] <= gen
      BY <1>l DEF Growing
    <3>2. gen' = gen
      BY <2>5, <3>1 DEF Generations
    <3>3. page[m][Len(stages)] \in Nat /\ page[m][Len(stages)] <= Now(m)
      BY <1>p, <1>l, <3>2 DEF Growing
    <3>4. count' = count
      BY <1>3, <3>2
    <3>5. Now(m)' \in Nat /\ Now(m)' >= Now(m)
      BY <2>2, <2>3, <2>5, <3>2, <3>4 DEF Counters, Now
    <3> QED
      BY <3>3, <3>5, <1>n
  <2> QED
    BY <1>0, <2>1, <2>4, <2>6, <2>7 DEF Growing
<1>4. CASE UNCHANGED pageVars
  <2>1. UNCHANGED <<gen, value, count, page, stages>>
    BY <1>4 DEF pageVars, vars, metrics
  <2>2. \A m \in Counters : Now(m)' = Now(m)
    BY <2>1 DEF Now
  <2>3. PageType' /\ InStep'
    BY <2>1 DEF PageType, InStep
  <2> QED
    BY <1>0, <2>1, <2>2, <2>3 DEF Growing
<1> QED
  BY <1>1, <1>2, <1>3, <1>4 DEF PageNext

\* The charts follow from the page.
LEMMA BarsFollow == PageInv => BarsAreGrowth
<1> SUFFICES ASSUME PageInv, NEW m \in Counters, NEW i \in 2..Len(stages)
             PROVE  LET bar == rate(page[m])[i] IN
                    IF stages[i] = stages[i - 1]
                      THEN bar = page[m][i] - page[m][i - 1] /\ bar >= 0
                      ELSE bar \in 0..page[m][i]
  BY DEF BarsAreGrowth
<1>1. page[m] \in Seq(Nat) /\ Len(page[m]) = Len(stages)
  BY DEF PageInv, PageType, InStep, Counters, Lists
<1>2. /\ rate(page[m])[i] \in 0..page[m][i]
      /\ page[m][i - 1] <= page[m][i] => rate(page[m])[i] = page[m][i] - page[m][i - 1]
  BY <1>1, RateSound
<1>3. stages[i] = stages[i - 1] => page[m][i - 1] <= page[m][i]
  BY DEF PageInv, Growing
<1> QED
  BY <1>2, <1>3

\* Each chart has the entries of the series it shows.
LEMMA ChartsFollow == PageInv => Aligned
<1> SUFFICES ASSUME PageInv, NEW chart \in PrintPage(page), NEW name \in DOMAIN chart
             PROVE  Len(chart[name]) = Len(stages)
  BY DEF Aligned
<1>1. \A m \in Counters : page[m] \in Seq(Nat) /\ Len(rate(page[m])) = Len(stages)
  <2> SUFFICES ASSUME NEW m \in Counters PROVE page[m] \in Seq(Nat) /\ Len(rate(page[m])) = Len(stages)
    OBVIOUS
  <2>1. page[m] \in Seq(Nat) /\ Len(page[m]) = Len(stages)
    BY DEF PageInv, PageType, InStep, Counters, Lists
  <2> QED
    BY <2>1, RateSound
<1>2. Len(uint64Slice(page.Connections)) = Len(stages) /\ Len(uint64Slice(page.Qps)) = Len(stages)
  <2>1. page.Connections \in Seq(Int) /\ page.Qps \in Seq(Nat) /\ Len(page.Connections) = Len(stages)
        /\ Len(page.Qps) = Len(stages)
    BY DEF PageInv, PageType, InStep, Lists
  <2>2. page.Qps \in Seq(Int)
    BY <2>1
  <2> QED
    BY <2>1, <2>2, SliceSound
<1>3. CASE chart = connectionSeries(page)
  BY <1>2, <1>3 DEF connectionSeries
<1>4. CASE chart = qpsSeries(page)
  BY <1>1, <1>2, <1>4 DEF qpsSeries, Counters
<1>5. CASE chart = errorSeries(page)
  BY <1>1, <1>5 DEF errorSeries, Counters
<1>6. CASE chart = bytesSeries(page)
  BY <1>1, <1>6 DEF bytesSeries, Counters
<1>7. CASE chart = durationSeries(page)
  BY <1>7 DEF durationSeries, PageInv, InStep
<1> QED
  BY <1>3, <1>4, <1>5, <1>6, <1>7 DEF PrintPage
-----------------------------------------------------------------------------
(* The parts above hold in every state. *)
THEOREM PageInvariant == PageSpec => []PageInv
BY InitPage, PageStep, PTL DEF PageSpec

(* The gauge counts the open connections also while samples are taken. *)
THEOREM PageGauge == PageSpec => [](TypeOK /\ GaugeIsOpen)
<1>1. PageInv => TypeOK /\ GaugeIsOpen
  BY AccountBounds DEF PageInv, IInv
<1> QED
  BY PageInvariant, <1>1, PTL

(* Every bar of a rate chart is what its counter has grown by. *)
THEOREM BarsShowGrowth == PageSpec => []BarsAreGrowth
BY PageInvariant, BarsFollow, PTL

(* All series of all charts have one entry for each sample. *)
THEOREM ChartsAligned == PageSpec => []Aligned
BY PageInvariant, ChartsFollow, PTL
-----------------------------------------------------------------------------
\* The bars of a chart, all together, ...
Bars(m) == Tally(rate(page[m]))

\* ... what its counter has counted in this stage since the last sample, ...
Beyond(m) ==
  IF Len(stages) > 0 /\ stages[Len(stages)] = gen THEN Now(m) - page[m][Len(stages)] ELSE Now(m)

\* ... and the bytes that were read in all stages.
ReadBytes == Tally([g \in Generations |-> value[g]["bytesRead"]])

\* Only the generations up to the newest are read into.
Unread == \A g \in Generations : g > gen => value[g]["bytesRead"] = 0
KeptMade == \A c \in Conns, m \in Kept : kept[c][m] <= gen

\* What is counted and not shown yet fits between the bars and the counts.
Fitting ==
  /\ served \in Nat
  /\ Bars("RequestSum") + Beyond("RequestSum") <= served
  /\ Bars("BytesRead") + Beyond("BytesRead") <= ReadBytes
  /\ Unread /\ KeptMade

\* A bar is the growth of the counter, but for the first one.
LEMMA RateAt ==
  ASSUME NEW sl \in Seq(Nat), NEW i \in 1..Len(sl)
  PROVE  rate(sl)[i] = IF i = 1 THEN 0 ELSE Growth(sl[i - 1], sl[i])
<1>1. DOMAIN sl = 1..Len(sl)
  OBVIOUS
<1> QED
  BY <1>1 DEF rate

\* The bars of a chart have a sum, which is zero for no value and for one.
LEMMA BarsType ==
  ASSUME NEW sl \in Seq(Nat)
  PROVE  Tally(rate(sl)) \in Nat /\ (Len(sl) <= 1 => Tally(rate(sl)) = 0)
<1> DEFINE n == Len(sl)
           f == rate(sl)
<1>1. n \in Nat /\ f \in [1..n -> Nat]
  BY RateSound
<1>2. IsFiniteSet(1..n)
  BY <1>1, FS_Interval
<1>3. n <= 1 => \A i \in 1..n : f[i] = 0
  <2> SUFFICES ASSUME n <= 1, NEW i \in 1..n PROVE f[i] = 0
    OBVIOUS
  <2>1. i \in 1..Len(sl) /\ i = 1
    BY <1>1
  <2> QED
    BY <2>1, RateAt
<1> HIDE DEF n, f
<1>4. Tally(f) \in Nat /\ (n <= 1 => Tally(f) = 0)
  BY <1>1, <1>2, <1>3, TallyType, TallyZero
<1> QED
  BY <1>4 DEF n, f

\* A new value of a counter adds a bar and leaves those before it.
LEMMA BarsExtend ==
  ASSUME NEW sl, NEW v, NEW longer, NEW n,
         sl \in Seq(Nat), v \in Nat, longer = Append(sl, v), n \in Nat, n = Len(sl), n # 0
  PROVE  /\ Tally(rate(sl)) \in Nat /\ Growth(sl[n], v) \in Nat
         /\ Tally(rate(longer)) = Tally(rate(sl)) + Growth(sl[n], v)
<1> DEFINE f == rate(sl)
           g == rate(longer)
<1>1. /\ longer \in Seq(Nat) /\ Len(longer) = n + 1 /\ longer[n + 1] = v
      /\ \A i \in 1..n : longer[i] = sl[i]
  OBVIOUS
<1>2. f \in [1..n -> Nat] /\ g \in [1..(n + 1) -> Nat]
  <2>1. f \in Seq(Nat) /\ Len(f) = n
    BY RateSound
  <2>2. g \in Seq(Nat) /\ Len(g) = n + 1
    BY <1>1, RateSound
  <2> HIDE DEF f, g
  <2> QED
    BY <2>1, <2>2
<1>3. \A i \in 1..n : g[i] = f[i]
  <2> SUFFICES ASSUME NEW i \in 1..n PROVE g[i] = f[i]
    OBVIOUS
  <2>1. /\ i = 1 \/ i - 1 \in 1..n
        /\ i \in 1..Len(sl) /\ i \in 1..Len(longer)
    BY <1>1
  <2>2. longer[i] = sl[i] /\ (i # 1 => longer[i - 1] = sl[i - 1])
    BY <1>1, <2>1
  <2>3. /\ f[i] = IF i = 1 THEN 0 ELSE Growth(sl[i - 1], sl[i])
        /\ g[i] = IF i = 1 THEN 0 ELSE Growth(longer[i - 1], longer[i])
    BY <1>1, <2>1, RateAt
  <2> HIDE DEF f, g
  <2> QED
    BY <2>2, <2>3
<1>4. g[n + 1] = Growth(sl[n], v)
  <2> DEFINE x == n + 1
  <2>1. x \in 1..Len(longer) /\ x - 1 = n /\ x # 1 /\ longer[n] = sl[n]
    BY <1>1
  <2>2. longer[x] = v
    BY <1>1
  <2> HIDE DEF x
  <2>3. g[x] = IF x = 1 THEN 0 ELSE Growth(longer[x - 1], longer[x])
    BY <1>1, <2>1, RateAt
  <2> HIDE DEF g
  <2>4. g[x] = Growth(sl[n], v)
    BY <2>1, <2>2, <2>3
  <2> QED
    BY <2>4 DEF x
<1>5. g[n + 1] \in Nat
  BY ONLY n \in Nat, <1>2
<1> HIDE DEF f, g
<1>6. Tally(f) \in Nat /\ Tally(g) = Tally(f) + g[n + 1]
  BY <1>2, <1>3, TallyAppends
<1> QED
  BY <1>4, <1>5, <1>6 DEF f, g

\* No step reads bytes but Read, and those go to the metrics that its hostConn keeps.
LEMMA ReadEffect ==
  ASSUME IInv, [Next]_vars
  PROVE  \/ \A h \in Generations : value'[h]["bytesRead"] = value[h]["bytesRead"]
         \/ /\ UNCHANGED gen
            /\ \E r \in Generations :
                 /\ value'[r]["bytesRead"] = value[r]["bytesRead"] + 1
                 /\ \A h \in Generations : h # r => value'[h]["bytesRead"] = value[h]["bytesRead"]
                 /\ \E c \in Conns : r = kept[c]["bytesRead"]
<1> DEFINE Same == \A h \in Generations : value'[h]["bytesRead"] = value[h]["bytesRead"]
           More == \E r \in Generations :
                     /\ value'[r]["bytesRead"] = value[r]["bytesRead"] + 1
                     /\ \A h \in Generations : h # r => value'[h]["bytesRead"] = value[h]["bytesRead"]
                     /\ \E c \in Conns : r = kept[c]["bytesRead"]
<1>0. TypeOK /\ value \in Values /\ \A m \in Metrics : Refers(m) \in Generations
  BY RefersOK DEF IInv, TypeOK, Values
<1>a. /\ {"connOpen", "connError", "bytesWritten", "bytesRead", "writeError", "readError"} \subseteq Metrics
      /\ {"connOpen", "bytesWritten", "bytesRead", "writeError", "readError"} \subseteq Kept
  BY Names DEF Kept
<1>b. \A v \in Values, g \in Generations, m \in Metrics, n \in Int, h \in Generations :
        Added(v, g, m, n) \in Values
        /\ Added(v, g, m, n)[h]["bytesRead"]
             = IF h = g /\ m = "bytesRead" THEN v[h]["bytesRead"] + n ELSE v[h]["bytesRead"]
  <2> SUFFICES ASSUME NEW v \in Values, NEW g \in Generations, NEW m \in Metrics, NEW n \in Int,
                      NEW h \in Generations
               PROVE  Added(v, g, m, n) \in Values
                      /\ Added(v, g, m, n)[h]["bytesRead"]
                           = IF h = g /\ m = "bytesRead" THEN v[h]["bytesRead"] + n ELSE v[h]["bytesRead"]
    OBVIOUS
  <2>1. \A k \in Metrics : Added(v, g, m, n)[h][k] = IF h = g /\ k = m THEN v[h][k] + n ELSE v[h][k]
    BY Increment
  <2> QED
    BY <1>a, <2>1, Increment
<1>1. CASE UNCHANGED value
  BY <1>1
<1>2. ASSUME NEW m \in {"connOpen", "connError"}, Add(Refers(m), m, 1) PROVE Same
  BY <1>0, <1>a, <1>b, <1>2 DEF Add
<1>3. ASSUME NEW c \in Conns, Dec(c) PROVE Same
  <2>1. kept[c]["connOpen"] \in Generations /\ -1 \in Int
    BY <1>0, <1>a DEF TypeOK
  <2>2. value' = Added(value, kept[c]["connOpen"], "connOpen", -1)
    BY <1>3 DEF Dec, Add
  <2>3. \A h \in Generations :
          Added(value, kept[c]["connOpen"], "connOpen", -1)[h]["bytesRead"] = value[h]["bytesRead"]
    BY <1>0, <1>a, <1>b, <2>1
  <2> QED
    BY <2>2, <2>3
<1>4. ASSUME NEW c \in Conns, NEW b \in {"bytesWritten", "bytesRead"}, NEW e \in {"writeError", "readError"},
             Move(c, b, e)
      PROVE  UNCHANGED gen /\ (Same \/ More)
  <2>1. PICK n \in 0..1, k \in 0..1 :
          value' = Added(Added(value, kept[c][b], b, n), kept[c][e], e, k)
    BY <1>4 DEF Move
  <2> DEFINE p == kept[c][b]
             q == kept[c][e]
             between == Added(value, p, b, n)
  <2>2. p \in Generations /\ q \in Generations /\ b \in Metrics /\ e \in Metrics
    BY <1>0, <1>a DEF TypeOK
  <2>3. n \in Int /\ k \in Int /\ (n = 0 \/ n = 1)
    OBVIOUS
  <2>4. value' = Added(between, q, e, k)
    BY <2>1
  <2>p. p = kept[c][b]
    OBVIOUS
  <2> HIDE DEF p, q
  <2>5. /\ between \in Values
        /\ \A h \in Generations : between[h]["bytesRead"]
             = IF h = p /\ b = "bytesRead" THEN value[h]["bytesRead"] + n ELSE value[h]["bytesRead"]
    BY <1>0, <1>b, <2>2, <2>3
  <2> HIDE DEF between
  <2>6. \A h \in Generations : value'[h]["bytesRead"] = between[h]["bytesRead"]
    BY <1>b, <2>2, <2>3, <2>4, <2>5
  <2>7. \A h \in Generations : value[h]["bytesRead"] \in Int
    BY <1>0, <1>a DEF Values
  <2>8. CASE n = 0 \/ b # "bytesRead"
    <3>1. \A h \in Generations : between[h]["bytesRead"] = value[h]["bytesRead"]
      BY <2>5, <2>7, <2>8
    <3> QED
      BY <1>4, <2>6, <3>1 DEF Move
  <2>9. CASE n = 1 /\ b = "bytesRead"
    <3>1. /\ value'[p]["bytesRead"] = value[p]["bytesRead"] + 1
          /\ \A h \in Generations : h # p => value'[h]["bytesRead"] = value[h]["bytesRead"]
      BY <2>2, <2>5, <2>6, <2>9
    <3>2. More
      BY <2>2, <2>9, <2>p, <3>1
    <3> QED
      BY <1>4, <3>2 DEF Move
  <2>10. UNCHANGED gen
    BY <1>4 DEF Move
  <2> QED
    BY <2>3, <2>8, <2>9, <2>10
<1>5. CASE New \/ initMetrics \/ UNCHANGED vars
  BY <1>1, <1>5 DEF New, initMetrics, vars, metrics
<1>6. ASSUME NEW c \in Conns, dial(c) \/ Close(c) \/ \E m \in Kept : Keep(c, m) PROVE Same
  BY <1>1, <1>6 DEF dial, Close, Keep, metrics
<1>7. ASSUME NEW c \in Conns, setupTCPConn(c) \/ Count(c) PROVE Same
  BY <1>1, <1>2, <1>7 DEF setupTCPConn, Count
<1> QED
  BY <1>3, <1>4, <1>5, <1>6, <1>7 DEF Next

\* New is the step that moves on to the next generation.
LEMMA GenGrows ==
  ASSUME IInv, [Next]_vars
  PROVE  gen \in Nat /\ gen' \in Nat /\ (gen' = gen \/ gen' = gen + 1)
<1>1. gen \in Nat
  BY ConnectionsAssumption DEF IInv, TypeOK, Generations
<1> QED
  BY <1>1 DEF Next, New, initMetrics, dial, setupTCPConn, Count, Keep, Move, Close, Dec, vars, metrics

\* The numbers of a counter.
LEMMA FitTypes ==
  ASSUME PageInv, NEW m \in Counters
  PROVE  /\ Now(m) \in Nat /\ Bars(m) \in Nat /\ Beyond(m) \in Nat
         /\ Len(stages) \in Nat
         /\ page[m] \in Seq(Nat) /\ Len(page[m]) = Len(stages)
         /\ Len(stages) > 0 => page[m][Len(stages)] \in Nat
<1> USE DEF PageInv
<1>1. Len(stages) \in Nat
  BY DEF PageType
<1>2. Now(m) \in Nat
  BY DEF Counters, Now, PageType, Counts, IInv, TypeOK
<1>3. page[m] \in Seq(Nat) /\ Len(page[m]) = Len(stages)
  BY DEF PageType, InStep, Counters, Lists
<1>4. Len(stages) > 0 => page[m][Len(stages)] \in Nat
  BY <1>1, <1>3
<1>5. Beyond(m) \in Nat
  <2>1. CASE Len(stages) > 0 /\ stages[Len(stages)] = gen
    <3>1. page[m][Len(stages)] <= Now(m)
      BY <2>1 DEF Growing
    <3> QED
      BY <1>2, <1>4, <2>1, <3>1 DEF Beyond
  <2>2. CASE ~(Len(stages) > 0 /\ stages[Len(stages)] = gen)
    BY <1>2, <2>2 DEF Beyond
  <2> QED
    BY <2>1, <2>2
<1>6. Bars(m) \in Nat
  BY <1>3, BarsType DEF Bars
<1> QED
  BY <1>1, <1>2, <1>3, <1>4, <1>5, <1>6

\* A sample shows no more than what was counted since the last one.
LEMMA FitSample ==
  ASSUME PageInv, printState, NEW m \in Counters
  PROVE  Bars(m)' \in Nat /\ Beyond(m)' = 0 /\ Bars(m)' <= Bars(m) + Beyond(m)
<1>1. page'[m] = Append(page[m], Now(m))
  BY SampleEffect DEF PageInv, IInv
<1>2. stages' = Append(stages, gen) /\ UNCHANGED <<gen, value, count>>
  BY DEF printState, vars, metrics
<1>3. Len(stages') = Len(stages) + 1 /\ stages'[Len(stages) + 1] = gen
  BY <1>2 DEF PageInv, PageType
<1> DEFINE sl == page[m]
           longer == page'[m]
           n == Len(stages)
           v == Now(m)
<1>4. /\ Now(m) \in Nat /\ n \in Nat /\ sl \in Seq(Nat) /\ Len(sl) = n
      /\ Bars(m) \in Nat /\ Beyond(m) \in Nat /\ (n > 0 => sl[n] \in Nat)
  BY FitTypes
<1>5. longer = Append(sl, Now(m))
  BY <1>1
<1>6. Bars(m) = Tally(rate(sl)) /\ Bars(m)' = Tally(rate(longer))
  BY DEF Bars
<1>7. Beyond(m) = IF n > 0 /\ stages[n] = gen THEN Now(m) - sl[n] ELSE Now(m)
  BY DEF Beyond
<1>8. Now(m)' = Now(m)
  BY <1>2 DEF Now
<1>9. Beyond(m)' = 0
  <2>1. longer[n + 1] = Now(m)
    <3> HIDE DEF sl, longer, n
    <3> QED
      BY <1>4, <1>5
  <2>2. Beyond(m)' = Now(m)' - longer[n + 1]
    BY <1>2, <1>3, <1>4 DEF Beyond
  <2> QED
    BY <1>4, <1>8, <2>1, <2>2
<1>10. sl \in Seq(Nat) /\ v \in Nat /\ longer = Append(sl, v) /\ n \in Nat /\ n = Len(sl)
  BY <1>4, <1>5
<1> HIDE DEF sl, longer, n, v
<1>11. CASE n = 0
  <2>0. longer \in Seq(Nat) /\ Len(longer) = n + 1
    BY ONLY <1>10
  <2>1. longer \in Seq(Nat) /\ Len(longer) <= 1
    BY ONLY <2>0, <1>11
  <2>2. Tally(rate(longer)) = 0
    BY ONLY <2>1, BarsType
  <2> QED
    BY <1>4, <1>6, <1>9, <2>2
<1>12. CASE n # 0
  <2>1. Growth(sl[n], v) \in Nat
    BY ONLY <1>10, <1>12, BarsExtend
  <2>2. Tally(rate(longer)) = Tally(rate(sl)) + Growth(sl[n], v)
    BY ONLY <1>10, <1>12, BarsExtend
  <2>3. Growth(sl[n], v) <= Beyond(m)
    <3>1. CASE v < sl[n]
      <4>1. Growth(sl[n], v) = 0
        BY <3>1 DEF Growth
      <4> QED
        BY <1>4, <4>1
    <3>2. CASE ~(v < sl[n])
      <4>1. Growth(sl[n], v) = v - sl[n]
        BY <3>2 DEF Growth
      <4> QED
        BY <1>4, <1>7, <1>12, <3>2, <4>1 DEF v
    <3> QED
      BY <3>1, <3>2
  <2> QED
    BY <1>4, <1>6, <1>9, <2>1, <2>2, <2>3
<1> QED
  BY <1>11, <1>12

\* What a counter has counted beyond the bars, when New does not come between.
LEMMA BeyondStep ==
  ASSUME PageInv, UNCHANGED <<gen, page, stages>>, NEW m \in Counters, NEW k \in Nat,
         Now(m)' = Now(m) + k
  PROVE  Bars(m)' = Bars(m) /\ Beyond(m)' = Beyond(m) + k
<1>1. Bars(m)' = Bars(m)
  BY DEF Bars
<1>2. Now(m) \in Nat /\ (Len(stages) > 0 => page[m][Len(stages)] \in Nat)
  BY FitTypes
<1>3. Beyond(m)' = Beyond(m) + k
  <2>1. CASE Len(stages) > 0 /\ stages[Len(stages)] = gen
    BY <1>2, <2>1 DEF Beyond
  <2>2. CASE ~(Len(stages) > 0 /\ stages[Len(stages)] = gen)
    BY <1>2, <2>2 DEF Beyond
  <2> QED
    BY <2>1, <2>2
<1> QED
  BY <1>1, <1>3

\* After New nothing is counted yet.
LEMMA BeyondNew ==
  ASSUME PageInv, UNCHANGED <<page, stages>>, gen' > gen, NEW m \in Counters, Now(m)' = 0
  PROVE  Bars(m)' = Bars(m) /\ Beyond(m)' = 0
<1>1. gen \in Int /\ gen' > gen
  BY ConnectionsAssumption DEF PageInv, IInv, TypeOK, Generations
<1>2. Len(stages) > 0 => stages[Len(stages)] \in Int /\ stages[Len(stages)] <= gen
  <2> SUFFICES ASSUME Len(stages) > 0
               PROVE  stages[Len(stages)] \in Int /\ stages[Len(stages)] <= gen
    OBVIOUS
  <2>1. Len(stages) \in 1..Len(stages) /\ stages[Len(stages)] \in Generations
    BY DEF PageInv, PageType
  <2> QED
    BY <2>1, ConnectionsAssumption DEF PageInv, Growing, Generations
<1>3. ~(Len(stages') > 0 /\ stages'[Len(stages')] = gen')
  BY <1>1, <1>2
<1> QED
  BY <1>3 DEF Bars, Beyond

\* The history of the bytes that were read.
LEMMA ReadTypes ==
  ASSUME PageInv
  PROVE  /\ [g \in Generations |-> value[g]["bytesRead"]] \in [Generations -> Nat]
         /\ ReadBytes \in Nat /\ IsFiniteSet(Generations)
<1>1. [g \in Generations |-> value[g]["bytesRead"]] \in [Generations -> Nat]
  BY DEF PageInv, PageType
<1>2. IsFiniteSet(Generations)
  BY ConnectionsAssumption, FS_Interval DEF Generations
<1> QED
  BY <1>1, <1>2, TallyType DEF ReadBytes

\* hostConns keep metrics that have been made.
LEMMA KeptStep ==
  ASSUME IInv, [Next]_vars, KeptMade
  PROVE  KeptMade'
<1> SUFFICES ASSUME NEW c \in Conns, NEW m \in Kept PROVE kept'[c][m] <= gen'
  BY DEF KeptMade
<1>1. gen \in Nat /\ gen' \in Nat /\ gen <= gen'
  BY GenGrows
<1>2. kept \in [Conns -> [Kept -> Generations]] /\ kept[c][m] <= gen /\ kept[c][m] \in Int
  BY ConnectionsAssumption DEF IInv, TypeOK, KeptMade, Generations
<1>3. CASE UNCHANGED kept
  BY <1>1, <1>2, <1>3
<1>4. ASSUME NEW d \in Conns, NEW k \in Kept, Keep(d, k) PROVE kept'[c][m] <= gen'
  <2>1. kept' = [kept EXCEPT ![d][k] = Refers(k)] /\ gen' = gen
    BY <1>4 DEF Keep, metrics
  <2>2. Refers(k) <= gen
    BY <1>1 DEF Refers
  <2>3. kept'[c][m] = IF c = d /\ m = k THEN Refers(k) ELSE kept[c][m]
    BY <1>2, <2>1
  <2> QED
    BY <1>2, <2>1, <2>2, <2>3
<1> QED
  BY <1>3, <1>4 DEF Next, New, initMetrics, dial, setupTCPConn, Count, Move, Close, Dec, vars, hostConn

\* A byte read is one more byte, in the generation that the hostConn keeps.
LEMMA ReadStep ==
  ASSUME PageInv, [Next]_vars, Unread, KeptMade, PageInv'
  PROVE  /\ Unread'
         /\ \/ ReadBytes' = ReadBytes /\ \A g \in Generations : value'[g]["bytesRead"] = value[g]["bytesRead"]
            \/ /\ UNCHANGED gen /\ ReadBytes' = ReadBytes + 1
               /\ value'[gen]["bytesRead"] \in {value[gen]["bytesRead"], value[gen]["bytesRead"] + 1}
<1> DEFINE f == [g \in Generations |-> value[g]["bytesRead"]]
           h == [g \in Generations |-> value'[g]["bytesRead"]]
<1>1. /\ f \in [Generations -> Nat] /\ IsFiniteSet(Generations)
      /\ \A g \in Generations : f[g] = value[g]["bytesRead"]
      /\ ReadBytes = Tally(f)
  BY ReadTypes DEF ReadBytes
<1>2. /\ h \in [Generations -> Nat]
      /\ \A g \in Generations : h[g] = value'[g]["bytesRead"]
      /\ ReadBytes' = Tally(h)
  BY DEF ReadBytes, PageInv, PageType
<1>3. gen \in Nat /\ gen' \in Nat /\ gen <= gen' /\ \A g \in Generations : g \in Int
  BY GenGrows, ConnectionsAssumption DEF PageInv, Generations
<1> HIDE DEF f, h
<1>4. CASE \A g \in Generations : value'[g]["bytesRead"] = value[g]["bytesRead"]
  <2>1. h = f
    BY <1>1, <1>2, <1>4
  <2>2. Unread'
    BY <1>3, <1>4 DEF Unread
  <2> QED
    BY <1>1, <1>2, <1>4, <2>1, <2>2
<1>5. ASSUME UNCHANGED gen, NEW r \in Generations,
             value'[r]["bytesRead"] = value[r]["bytesRead"] + 1,
             \A g \in Generations : g # r => value'[g]["bytesRead"] = value[g]["bytesRead"],
             NEW c \in Conns, r = kept[c]["bytesRead"]
      PROVE  /\ Unread' /\ ReadBytes' = ReadBytes + 1
             /\ value'[gen]["bytesRead"] \in {value[gen]["bytesRead"], value[gen]["bytesRead"] + 1}
  <2>1. h[r] = f[r] + 1 /\ \A g \in Generations : g # r => h[g] = f[g]
    BY <1>1, <1>2, <1>5
  <2>2. Tally(h) = Tally(f) + 1
    BY <1>1, <1>2, <2>1, TallyGrows
  <2>3. r <= gen
    BY <1>5 DEF KeptMade, Kept
  <2>4. Unread'
    BY <1>3, <1>5, <2>3 DEF Unread
  <2>5. gen \in Generations
    BY DEF PageInv, IInv, TypeOK
  <2> QED
    BY <1>1, <1>2, <1>5, <2>2, <2>4, <2>5
<1> QED
  BY <1>4, <1>5, ReadEffect DEF PageInv

\* Before the first sample nothing is counted and nothing is shown.
LEMMA InitFitting == PageInit => Fitting
<1> SUFFICES ASSUME PageInit PROVE Fitting
  OBVIOUS
<1> USE DEF PageInit, Init
<1>1. stages = <<>> /\ page = EmptyPage /\ gen = 0 /\ served = 0 /\ count = NoCount
  OBVIOUS
<1>2. \A g \in Generations : value[g]["bytesRead"] = 0
  BY DEF Metrics, Position
<1>3. ReadBytes = 0
  <2> DEFINE f == [g \in Generations |-> value[g]["bytesRead"]]
  <2>1. f \in [Generations -> Nat] /\ \A g \in Generations : f[g] = 0
    BY <1>2
  <2> HIDE DEF f
  <2>2. Tally(f) = 0
    BY <2>1, TallyZero
  <2> QED
    BY <2>2 DEF f, ReadBytes
<1>4. ASSUME NEW m \in {"RequestSum", "BytesRead"} PROVE Bars(m) = 0 /\ Beyond(m) = 0
  <2>1. page[m] = <<>>
    BY <1>1 DEF EmptyPage
  <2>2. <<>> \in Seq(Nat) /\ Len(<<>>) <= 1 /\ Len(stages) = 0
    BY <1>1
  <2>3. Bars(m) = 0
    BY <2>1, <2>2, BarsType DEF Bars
  <2>4. 0 \in Generations
    BY ConnectionsAssumption DEF Generations
  <2>5. Now(m) = 0
    BY <1>1, <1>2, <2>4 DEF Now, NoCount
  <2> QED
    BY <2>2, <2>3, <2>5 DEF Beyond
<1>5. Unread /\ KeptMade
  BY <1>1, <1>2 DEF Unread, KeptMade, Kept
<1> QED
  BY <1>1, <1>3, <1>4, <1>5 DEF Fitting

\* What a sample shows was counted before it.
LEMMA FitStep == PageInv /\ PageInv' /\ Fitting /\ [PageNext]_pageVars => Fitting'
<1> SUFFICES ASSUME PageInv, PageInv', Fitting, [PageNext]_pageVars PROVE Fitting'
  OBVIOUS
<1> DEFINE R == "RequestSum"
           B == "BytesRead"
<1>0. R \in Counters /\ B \in Counters
  BY DEF Counters
<1>a. /\ Bars(R) \in Nat /\ Beyond(R) \in Nat /\ Bars(B) \in Nat /\ Beyond(B) \in Nat
      /\ Now(R) = count.RequestSum /\ Now(R) \in Nat /\ Now(B) = value[gen]["bytesRead"] /\ Now(B) \in Nat
  BY <1>0, FitTypes DEF Now
<1>b. Now(R)' = count'.RequestSum /\ Now(B)' = value'[gen']["bytesRead"]
  BY DEF Now
<1>c. served \in Nat /\ ReadBytes \in Nat
  BY ReadTypes DEF Fitting
<1>d. Bars(R) + Beyond(R) <= served /\ Bars(B) + Beyond(B) <= ReadBytes /\ Unread /\ KeptMade
  BY DEF Fitting
<1> HIDE DEF R, B
<1>1. CASE Serve
  <2>1. UNCHANGED <<gen, value, kept, page, stages>> /\ served' = served + 1
    BY <1>1 DEF Serve, vars, metrics, hostConn
  <2>2. Now(R)' = Now(R) + 1
    <3>1. PICK o \in Outcomes : count' = [m \in DOMAIN count |-> count[m] + o[m]]
      BY <1>1 DEF Serve
    <3>2. o.RequestSum = 1
      BY DEF Outcomes, NoCount
    <3>3. "RequestSum" \in DOMAIN count
      BY DEF PageInv, PageType, Counts
    <3> QED
      BY <1>a, <1>b, <3>1, <3>2, <3>3
  <2>3. Bars(R)' = Bars(R) /\ Beyond(R)' = Beyond(R) + 1
    BY <1>0, <2>1, <2>2, BeyondStep
  <2>4. Now(B)' = Now(B) + 0
    BY <1>a, <1>b, <2>1
  <2>5. Bars(B)' = Bars(B) /\ Beyond(B)' = Beyond(B) + 0
    BY <1>0, <2>1, <2>4, BeyondStep
  <2>6. ReadBytes' = ReadBytes /\ Unread' /\ KeptMade'
    BY <1>d, <2>1 DEF ReadBytes, Unread, KeptMade
  <2> QED
    BY <1>a, <1>c, <1>d, <2>1, <2>3, <2>5, <2>6 DEF Fitting, R, B
<1>2. CASE printState
  <2>1. UNCHANGED <<gen, value, kept, served>>
    BY <1>2 DEF printState, vars, metrics, hostConn
  <2>2. Bars(R)' \in Nat /\ Beyond(R)' = 0 /\ Bars(R)' <= Bars(R) + Beyond(R)
    BY <1>0, <1>2, FitSample
  <2>3. Bars(B)' \in Nat /\ Beyond(B)' = 0 /\ Bars(B)' <= Bars(B) + Beyond(B)
    BY <1>0, <1>2, FitSample
  <2>4. ReadBytes' = ReadBytes /\ Unread' /\ KeptMade'
    BY <1>d, <2>1 DEF ReadBytes, Unread, KeptMade
  <2> QED
    BY <1>a, <1>c, <1>d, <2>1, <2>2, <2>3, <2>4 DEF Fitting, R, B
<1>3. CASE Next /\ count' = (IF gen' # gen THEN NoCount ELSE count) /\ UNCHANGED <<page, served, stages>>
  <2>0. IInv /\ [Next]_vars /\ UNCHANGED <<page, served, stages>>
    BY <1>3 DEF PageInv
  <2>1. gen \in Nat /\ gen' \in Nat /\ (gen' = gen \/ gen' = gen + 1)
    BY <2>0, GenGrows
  <2>2. KeptMade'
    BY <1>d, <2>0, KeptStep
  <2>3. /\ Unread'
        /\ \/ ReadBytes' = ReadBytes /\ \A g \in Generations : value'[g]["bytesRead"] = value[g]["bytesRead"]
           \/ /\ UNCHANGED gen /\ ReadBytes' = ReadBytes + 1
              /\ value'[gen]["bytesRead"] \in {value[gen]["bytesRead"], value[gen]["bytesRead"] + 1}
    BY <1>d, <2>0, ReadStep
  <2>4. gen \in Generations /\ gen' \in Generations
    BY DEF PageInv, IInv, TypeOK
  <2>5. CASE gen' = gen
    <3>1. count' = count
      BY <1>3, <2>5
    <3>2. Now(R)' = Now(R) + 0
      BY <1>a, <1>b, <3>1
    <3>3. Bars(R)' = Bars(R) /\ Beyond(R)' = Beyond(R) + 0
      BY <1>0, <2>0, <2>5, <3>2, BeyondStep
    <3>4. PICK k \in 0..1 : Now(B)' = Now(B) + k /\ ReadBytes' \in Nat /\ ReadBytes' >= ReadBytes + k
      <4>1. CASE ReadBytes' = ReadBytes /\ value'[gen]["bytesRead"] = value[gen]["bytesRead"]
        <5>1. Now(B)' = Now(B) + 0 /\ ReadBytes' \in Nat /\ ReadBytes' >= ReadBytes + 0
          BY <1>a, <1>b, <1>c, <2>5, <4>1
        <5> QED
          BY <5>1
      <4>2. CASE ReadBytes' = ReadBytes + 1 /\ value'[gen]["bytesRead"] = value[gen]["bytesRead"]
        <5>1. Now(B)' = Now(B) + 0 /\ ReadBytes' \in Nat /\ ReadBytes' >= ReadBytes + 0
          BY <1>a, <1>b, <1>c, <2>5, <4>2
        <5> QED
          BY <5>1
      <4>3. CASE ReadBytes' = ReadBytes + 1 /\ value'[gen]["bytesRead"] = value[gen]["bytesRead"] + 1
        <5>1. Now(B)' = Now(B) + 1 /\ ReadBytes' \in Nat /\ ReadBytes' >= ReadBytes + 1
          BY <1>a, <1>b, <1>c, <2>5, <4>3
        <5> QED
          BY <5>1
      <4> QED
        BY <2>3, <2>4, <4>1, <4>2, <4>3
    <3>5. Bars(B)' = Bars(B) /\ Beyond(B)' = Beyond(B) + k
      BY <1>0, <2>0, <2>5, <3>4, BeyondStep
    <3> QED
      BY <1>a, <1>c, <1>d, <2>0, <2>2, <2>3, <3>3, <3>4, <3>5 DEF Fitting, R, B
  <2>6. CASE gen' = gen + 1
    <3>1. gen' > gen /\ gen' # gen
      BY <2>1, <2>6
    <3>2. Now(R)' = 0
      BY <1>3, <1>b, <3>1 DEF NoCount
    <3>3. ReadBytes' = ReadBytes /\ value'[gen']["bytesRead"] = value[gen']["bytesRead"]
      BY <2>3, <2>4, <3>1
    <3>4. Now(B)' = 0
      BY <1>b, <1>d, <2>4, <3>1, <3>3 DEF Unread
    <3>5. Bars(R)' = Bars(R) /\ Beyond(R)' = 0
      BY <1>0, <2>0, <3>1, <3>2, BeyondNew
    <3>6. Bars(B)' = Bars(B) /\ Beyond(B)' = 0
      BY <1>0, <2>0, <3>1, <3>4, BeyondNew
    <3> QED
      BY <1>a, <1>c, <1>d, <2>0, <2>2, <2>3, <3>3, <3>5, <3>6 DEF Fitting, R, B
  <2> QED
    BY <2>1, <2>5, <2>6
<1>4. CASE UNCHANGED pageVars
  <2>1. UNCHANGED <<gen, value, kept, count, page, served, stages>>
    BY <1>4 DEF pageVars, vars, metrics, hostConn
  <2> QED
    BY <2>1 DEF Fitting, Bars, Beyond, Now, ReadBytes, Unread, KeptMade
<1> QED
  BY <1>1, <1>2, <1>3, <1>4 DEF PageNext

(* The bars of the charts of requests and of bytes show nothing twice:     *)
(* they add up to no more than was counted in all stages.                  *)
THEOREM NothingShownTwice == PageSpec => []NothingTwice
<1>1. PageInv /\ Fitting => NothingTwice
  <2> SUFFICES ASSUME PageInv, Fitting PROVE NothingTwice
    OBVIOUS
  <2> DEFINE R == "RequestSum"
             B == "BytesRead"
  <2>1. R \in Counters /\ B \in Counters
    BY DEF Counters
  <2>2. Bars(R) = Tally(rate(page.RequestSum)) /\ Bars(B) = Tally(rate(page.BytesRead))
    BY DEF Bars
  <2>3. Bars(R) + Beyond(R) <= served /\ Bars(B) + Beyond(B) <= ReadBytes /\ served \in Nat
    BY DEF Fitting
  <2> HIDE DEF R, B
  <2>4. Bars(R) \in Nat /\ Beyond(R) \in Nat /\ Bars(B) \in Nat /\ Beyond(B) \in Nat /\ ReadBytes \in Nat
    BY <2>1, FitTypes, ReadTypes
  <2> QED
    BY <2>2, <2>3, <2>4 DEF NothingTwice, ReadBytes
<1>2. PageInit => PageInv /\ Fitting
  BY InitPage, InitFitting
<1>3. PageInv /\ Fitting /\ [PageNext]_pageVars => (PageInv /\ Fitting)'
  BY PageStep, FitStep
<1> QED
  BY <1>1, <1>2, <1>3, PTL DEF PageSpec
-----------------------------------------------------------------------------
\* Less than half of the numbers of an uint64 are needed for the connections.
Few == 2 * Cardinality(Conns) < Word

\* The chart of connections; the sequence stands in for the property while it grows.
Plausible ==
  \A i \in 1..Len(stages) :
    Signed(page.Connections[i]) \in (-Cardinality(Strayed))..Cardinality(Conns)

LEMMA StrayedSize ==
  TypeOK => /\ IsFiniteSet(Strayed) /\ Cardinality(Strayed) \in Nat /\ Cardinality(Conns) \in Nat
            /\ Cardinality(Strayed) <= Cardinality(Conns)
<1>1. Strayed \subseteq Conns
  BY DEF Strayed, Counted
<1> QED
  BY <1>1, ConnectionsAssumption, FS_Subset, FS_CardinalityType

\* A dial that New came between stays one.
LEMMA StrayedStays == IInv /\ [Next]_vars => Strayed \subseteq Strayed'
<1> SUFFICES ASSUME IInv, [Next]_vars, NEW c \in Conns, c \in Strayed PROVE c \in Strayed'
  BY DEF Strayed, Counted
<1>0. TypeOK /\ Lives
  BY DEF IInv
<1>1. inced[c] # -1 /\ at[c] # "connOpen" /\ kept[c]["connOpen"] # inced[c]
  BY DEF Strayed, Counted, Gauge
<1>2. at[c] \notin {"none", "setup", "failed", "count", "connOpen"}
  BY <1>0, <1>1 DEF Lives
<1>3. inced'[c] = inced[c] /\ kept'[c]["connOpen"] = kept[c]["connOpen"] /\ at'[c] # "connOpen"
  <2>1. CASE UNCHANGED <<at, kept, inced>>
    BY <1>1, <2>1
  <2>2. ASSUME NEW d \in Conns, dial(d) \/ setupTCPConn(d)
        PROVE  inced'[c] = inced[c] /\ kept'[c]["connOpen"] = kept[c]["connOpen"] /\ at'[c] # "connOpen"
    BY <1>0, <1>1, <2>2 DEF dial, setupTCPConn, TypeOK
  <2>3. ASSUME NEW d \in Conns, Count(d)
        PROVE  inced'[c] = inced[c] /\ kept'[c]["connOpen"] = kept[c]["connOpen"] /\ at'[c] # "connOpen"
    <3>1. d # c
      BY <1>2, <2>3 DEF Count
    <3>2. at'[c] = at[c] /\ inced'[c] = inced[c] /\ kept' = kept
      BY <1>0, <2>3, <3>1 DEF Count, TypeOK
    <3> QED
      BY <1>1, <3>2
  <2>4. ASSUME NEW d \in Conns, NEW m \in Kept, Keep(d, m)
        PROVE  inced'[c] = inced[c] /\ kept'[c]["connOpen"] = kept[c]["connOpen"] /\ at'[c] # "connOpen"
    <3>1. inced' = inced /\ at[d] = m
      BY <2>4 DEF Keep
    <3>2. CASE d # c
      <4>1. at'[c] = at[c] /\ kept'[c] = kept[c]
        BY <1>0, <2>4, <3>2 DEF Keep, TypeOK
      <4> QED
        BY <1>1, <3>1, <4>1
    <3>3. CASE d = c
      <4>1. m # "connOpen"
        BY <1>1, <3>1, <3>3
      <4>2. kept' = [kept EXCEPT ![c][m] = Refers(m)] /\ at' = [at EXCEPT ![c] = Following[m]]
        BY <2>4, <3>3 DEF Keep
      <4>3. kept \in [Conns -> [Kept -> Generations]] /\ "connOpen" \in Kept
        BY <1>0 DEF TypeOK, Kept
      <4>4. kept'[c]["connOpen"] = kept[c]["connOpen"]
        BY <4>1, <4>2, <4>3
      <4>5. Following[m] # "connOpen"
        BY <4>1 DEF Following, Kept
      <4>6. at'[c] # "connOpen"
        BY <1>0, <4>2, <4>5 DEF TypeOK
      <4> QED
        BY <3>1, <4>4, <4>6
    <3> QED
      BY <3>2, <3>3
  <2>5. CASE New \/ initMetrics \/ UNCHANGED vars
    BY <2>1, <2>5 DEF New, initMetrics, vars, hostConn
  <2>6. ASSUME NEW d \in Conns,
               Close(d) \/ Dec(d) \/ Move(d, "bytesWritten", "writeError") \/ Move(d, "bytesRead", "readError")
        PROVE  UNCHANGED <<at, kept, inced>>
    BY <2>6 DEF Close, Dec, Move, hostConn
  <2> QED
    BY <2>1, <2>2, <2>3, <2>4, <2>5, <2>6 DEF Next
<1> QED
  BY <1>1, <1>3 DEF Strayed, Counted, Gauge

\* The gauge is near the number of connections.
LEMMA GaugeNear ==
  ASSUME IInv, NEW g \in Generations
  PROVE  /\ value[g]["connOpen"] \in Int
         /\ value[g]["connOpen"] >= -Cardinality(Strayed)
         /\ value[g]["connOpen"] <= Cardinality(Conns)
<1>0. TypeOK /\ Balanced
  BY DEF IInv
<1> DEFINE v == value[g]["connOpen"]
           I == Cardinality(CountedIn(g))
           L == Cardinality(LeftFrom(g))
           O == Cardinality(Open(g))
           S == Cardinality(Strayed)
           N == Cardinality(Conns)
<1>1. v \in Int
  BY <1>0, Names DEF TypeOK
<1>2. CountedIn(g) \subseteq Conns /\ LeftFrom(g) \subseteq Conns /\ Open(g) \subseteq Conns
  BY DEF CountedIn, LeftFrom, Left, Open, Counted
<1>3. I \in Nat /\ L \in Nat /\ O \in Nat /\ I <= N
  BY <1>2, ConnectionsAssumption, FS_Subset, FS_CardinalityType
<1>4. S \in Nat /\ N \in Nat
  BY <1>0, StrayedSize
<1>5. v = I - L
  BY <1>0 DEF Balanced
<1>6. v >= O - S
  BY AccountBounds DEF GaugeIsOpen
<1> HIDE DEF v, I, L, O, S, N
<1>7. v \in Int /\ v >= -S /\ v <= N
  BY <1>1, <1>3, <1>4, <1>5, <1>6
<1> QED
  BY <1>7 DEF v, S, N

\* The conversions to an uint64 and back leave a small number as it is.
LEMMA SignedSound ==
  ASSUME NEW low \in Nat, NEW high \in Nat, low <= high, 2 * high < Word,
         NEW v \in Int, v >= -low, v <= high
  PROVE  /\ v >= 0 => Signed(v) \in (-low)..high
         /\ v < 0 => Signed(Word + v) \in (-low)..high
         /\ Signed(0) \in (-low)..high
<1> DEFINE half == Word \div 2
<1>1. Word \in Nat /\ half \in Nat /\ 2 * half = Word
  BY WordAssumption
<1>2. \A u : Signed(u) = IF u >= half THEN u - Word ELSE u
  BY DEF Signed
<1> HIDE DEF half
<1>3. high < half /\ 0 < half
  BY <1>1
<1>4. v >= 0 => Signed(v) = v
  BY <1>1, <1>2, <1>3
<1>5. v < 0 => Signed(Word + v) = v
  <2> SUFFICES ASSUME v < 0 PROVE Signed(Word + v) = v
    OBVIOUS
  <2>1. Word + v >= half
    BY <1>1, <1>3
  <2>2. Signed(Word + v) = (Word + v) - Word
    BY <1>2, <2>1
  <2> QED
    BY <1>1, <2>2
<1>6. Signed(0) = 0
  BY <1>1, <1>2, <1>3
<1> QED
  BY <1>4, <1>5, <1>6

\* Each sample shows a gauge that is near the number of connections.
LEMMA PlausibleStep == Few /\ PageInv /\ PageInv' /\ Plausible /\ [PageNext]_pageVars => Plausible'
<1> SUFFICES ASSUME Few, PageInv, PageInv', Plausible, [PageNext]_pageVars PROVE Plausible'
  OBVIOUS
<1> DEFINE S == Cardinality(Strayed)
           N == Cardinality(Conns)
<1>0. IInv /\ [Next]_vars
  BY DEF PageInv, PageNext, pageVars, Serve, printState
<1>1. S \in Nat /\ S' \in Nat /\ N \in Nat /\ S <= S' /\ S' <= N
  <2>1. Strayed \subseteq Conns /\ Strayed' \subseteq Conns
    BY DEF Strayed, Counted
  <2>2. IsFiniteSet(Strayed') /\ S \in Nat /\ S' \in Nat /\ N \in Nat /\ S' <= N
    BY <2>1, ConnectionsAssumption, FS_Subset, FS_CardinalityType
  <2>3. S <= S'
    BY <1>0, <2>2, StrayedStays, FS_Subset
  <2> QED
    BY <2>2, <2>3
<1>2. \A i \in 1..Len(stages) : Signed(page.Connections[i]) \in (-S)..N
  BY DEF Plausible
<1>3. Len(stages) \in Nat /\ page.Connections \in Seq(Int) /\ Len(page.Connections) = Len(stages)
  BY DEF PageInv, PageType, InStep, Lists
<1>4. CASE UNCHANGED <<page, stages>>
  <2> SUFFICES ASSUME NEW i \in 1..Len(stages) PROVE Signed(page.Connections[i]) \in (-S')..N
    BY <1>4 DEF Plausible
  <2>1. Signed(page.Connections[i]) \in (-S)..N
    BY <1>2
  <2> HIDE DEF S, N
  <2> QED
    BY <1>1, <2>1
<1>5. CASE printState
  <2>1. PICK conns \in ConnOpen, limit \in Limits :
          page' = [page EXCEPT
            !.Connections = Append(@, conns),
            !.Errors = Append(@, count.Errors),
            !.Timeouts = Append(@, count.Timeouts),
            !.RequestSum = Append(@, count.RequestSum),
            !.RequestSuccess = Append(@, count.RequestSuccess),
            !.BytesWritten = Append(@, value[gen]["bytesWritten"]),
            !.BytesRead = Append(@, value[gen]["bytesRead"]),
            !.Qps = Append(@, limit),
            !.StatusCodes = StatusCodes,
            !.ErrorMessages = ErrorMessages,
            !.RequestDuration = UpdateRequestDuration(@, RequestDuration)]
    BY <1>5 DEF printState
  <2>2. page'.Connections = Append(page.Connections, conns)
    BY <2>1 DEF PageInv, PageType
  <2>3. stages' = Append(stages, gen) /\ UNCHANGED vars
    BY <1>5 DEF printState
  <2>4. Len(stages') = Len(stages) + 1
    BY <2>3 DEF PageInv, PageType
  <2>5. S' = S
    BY <2>3 DEF vars, metrics, hostConn, Strayed, Counted, Gauge
  <2>6. Signed(conns) \in (-S)..N /\ conns \in Int
    <3> DEFINE v == value[gen]["connOpen"]
    <3>1. gen \in Generations
      BY <1>0 DEF IInv, TypeOK
    <3>2. v \in Int /\ v >= -S /\ v <= N
      BY <1>0, <3>1, GaugeNear
    <3>3. conns \in IF v >= 0 THEN {v} ELSE {Word + v, 0}
      BY DEF ConnOpen
    <3>4. 2 * N < Word /\ S <= N
      BY <1>1, <2>5 DEF Few
    <3> HIDE DEF v, S, N
    <3>5. /\ v >= 0 => Signed(v) \in (-S)..N
          /\ v < 0 => Signed(Word + v) \in (-S)..N
          /\ Signed(0) \in (-S)..N
      BY <1>1, <3>2, <3>4, SignedSound
    <3> QED
      BY <3>2, <3>3, <3>5, WordAssumption
  <2> SUFFICES ASSUME NEW i \in 1..(Len(stages) + 1) PROVE Signed(page'.Connections[i]) \in (-S)..N
    BY <2>4, <2>5 DEF Plausible
  <2>7. /\ page'.Connections[Len(stages) + 1] = conns
        /\ \A j \in 1..Len(stages) : page'.Connections[j] = page.Connections[j]
    <3> DEFINE sl == page.Connections
               n == Len(stages)
    <3>1. sl \in Seq(Int) /\ Len(sl) = n /\ page'.Connections = Append(sl, conns) /\ conns \in Int /\ n \in Nat
      BY <1>3, <2>2, <2>6
    <3> HIDE DEF sl, n
    <3>2. Append(sl, conns)[n + 1] = conns /\ \A j \in 1..n : Append(sl, conns)[j] = sl[j]
      BY <3>1
    <3> QED
      BY <3>1, <3>2 DEF sl, n
  <2>8. i = Len(stages) + 1 \/ i \in 1..Len(stages)
    BY <1>3
  <2> QED
    BY <1>2, <2>6, <2>7, <2>8
<1> QED
  BY <1>4, <1>5 DEF PageNext, pageVars, Serve

(* With less connections than half of the numbers of an uint64 the chart   *)
(* of connections shows no number above the connections dialled, and none  *)
(* below zero but for the dials that New came between.                     *)
THEOREM ConnectionsArePlausible == Few => (PageSpec => []ConnectionsPlausible)
<1> SUFFICES ASSUME Few PROVE PageSpec => []ConnectionsPlausible
  OBVIOUS
<1>1. PageInit => Plausible
  BY DEF PageInit, Plausible
<1>2. PageInv /\ PageInv' /\ Plausible /\ [PageNext]_pageVars => Plausible'
  BY PlausibleStep
<1>3. PageInv /\ Plausible => ConnectionsPlausible
  <2> SUFFICES ASSUME PageInv, Plausible, NEW i \in 1..Len(stages)
               PROVE  connectionSeries(page).Connections[i] \in (-Cardinality(Strayed))..Cardinality(Conns)
    BY DEF ConnectionsPlausible
  <2>1. page.Connections \in Seq(Int) /\ Len(page.Connections) = Len(stages)
    BY DEF PageInv, PageType, InStep, Lists
  <2>2. i \in DOMAIN page.Connections
    BY <2>1
  <2>3. connectionSeries(page).Connections[i] = Signed(page.Connections[i])
    BY <2>2 DEF connectionSeries, uint64Slice
  <2> QED
    BY <2>3 DEF Plausible
<1> QED
  BY <1>1, <1>2, <1>3, PageInvariant, PTL DEF PageSpec
===============================================================================
