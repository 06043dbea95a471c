-------------------------------- MODULE Report --------------------------------
(***************************************************************************)
(* The report page of report/report.qtpl and report/utils.go: what a Page  *)
(* keeps of the samples, and the charts that PrintPage makes of it.  A     *)
(* chart is a function from the names of its series to their data; the     *)
(* markup around it is left out, and a rate is per Interval.               *)
(***************************************************************************)
EXTENDS Integers, Sequences

CONSTANT Word  \* the number of values of an uint64

ASSUME WordAssumption == Word \in Nat \ {0} /\ Word % 2 = 0

\* Mutant: the number is printed without its sign.
Unsigned(v) == v
\* int64(v)
Signed(v) == IF v >= Word \div 2 THEN v - Word ELSE v

\* uint64SliceToString prints every number as an int64.
uint64Slice(sl) == [i \in DOMAIN sl |-> Signed(sl[i])]

\* Mutant: no check for a counter that was made anew.
Difference(cur, last) == last - cur
\* Mutant: such a counter is taken as a growth.
Distance(cur, last) == IF last < cur THEN cur - last ELSE last - cur
\* "avoid of unnatural gaps when counter metrics flushed"
Growth(cur, last) == IF last < cur THEN 0 ELSE last - cur

\* The difference of each value and the one before it; 0 for the first.
rate(sl) == [i \in DOMAIN sl |-> IF i = 1 THEN 0 ELSE Growth(sl[i - 1], sl[i])]

EmptyPage ==
  [Connections |-> <<>>, RequestSum |-> <<>>, RequestSuccess |-> <<>>,
   Errors |-> <<>>, Timeouts |-> <<>>, Qps |-> <<>>,
   BytesWritten |-> <<>>, BytesRead |-> <<>>,
   RequestDuration |-> [k \in {} |-> <<>>], StatusCodes |-> {}, ErrorMessages |-> {}]

\* Mutant: the value with which a quantile comes up is not appended.
FirstDropped(series, v) == IF series = <<>> THEN series ELSE Append(series, v)
Extended(series, v) == Append(series, v)

\* UpdateRequestDuration appends each value to the series of its quantile,
\* which is made when it first comes up.
UpdateRequestDuration(durations, d) ==
  [k \in DOMAIN durations \union DOMAIN d |->
     LET before == IF k \in DOMAIN durations THEN durations[k] ELSE <<>> IN
     IF k \in DOMAIN d THEN Extended(before, d[k]) ELSE before]

connectionSeries(p) == [Connections |-> uint64Slice(p.Connections)]

qpsSeries(p) == [LoadAverage |-> uint64Slice(p.Qps), ReqPerSecond |-> rate(p.RequestSum)]

errorSeries(p) == [Errors |-> rate(p.Errors), Timeouts |-> rate(p.Timeouts)]

durationSeries(p) == p.RequestDuration

bytesSeries(p) == [BytesWritten |-> rate(p.BytesWritten), BytesRead |-> rate(p.BytesRead)]

\* The charts with a series of samples; the pie chart of p.StatusCodes and the
\* table of p.ErrorMessages show the last sample as it is.
PrintPage(p) ==
  {connectionSeries(p), qpsSeries(p), errorSeries(p), durationSeries(p), bytesSeries(p)}
===============================================================================
