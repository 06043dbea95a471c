----------------------------- MODULE Connections -----------------------------
(***************************************************************************)
(* The connections of fastclient/client.go: dial, which fasthttp calls     *)
(* when a request finds no idle connection, and the hostConn it returns.   *)
(*                                                                         *)
(* The metrics are package variables that New replaces, one after another  *)
(* and without a lock, while workers of an earlier client still dial.  A   *)
(* hostConn keeps the metrics that the variables referred to when it was   *)
(* made, and dial reads connOpen twice: for Inc, and for the hostConn.     *)
(***************************************************************************)
EXTENDS Integers, FiniteSets

CONSTANTS
  Conns,     \* connections that may be dialled
  MaxNews,   \* bound on the calls of New
  MaxCloses, \* bound on the calls of Close of one connection
  MaxMoves   \* bound on the calls of Read and Write

ASSUME ConnectionsAssumption ==
  /\ IsFiniteSet(Conns)
  /\ {MaxNews, MaxCloses, MaxMoves} \subseteq Nat

Generations == 0..MaxNews

\* The metrics of connections, in the order in which initMetrics makes them.
Position ==
  [connOpen |-> 1, connError |-> 2, bytesWritten |-> 3, bytesRead |-> 4,
   writeError |-> 5, readError |-> 6]
Metrics == DOMAIN Position

\* A hostConn's copies of the variables, in the order in which dial reads them.
Kept == {"connOpen", "readError", "writeError", "bytesWritten", "bytesRead"}
Following ==
  [count |-> "connOpen", connOpen |-> "readError", readError |-> "writeError",
   writeError |-> "bytesWritten", bytesWritten |-> "bytesRead", bytesRead |-> "open"]

VARIABLES
  gen,      \* metrics were made anew this often
  swapped,  \* how many variables refer to the newest metrics already
  value,    \* value of each metric, per generation
  at,       \* per connection: what dial is about to do, "open" or "failed"
  kept,     \* the generation of each metric that the hostConn keeps
  closes,   \* the field closed: how often Close was called
  leaving,  \* a Close is between its AddUint32 and its Dec
  inced,    \* history: the generation in which dial counted it, or -1
  moves     \* history: calls of Read and Write

metrics == <<gen, swapped, value>>
hostConn == <<at, kept, closes, leaving>>
vars == <<metrics, hostConn, inced, moves>>

\* Mutant: the metric made last is not stored.
OffByOne(m) == IF Position[m] < swapped THEN gen ELSE gen - 1
\* The generation that the variable of a metric refers to.
Refers(m) == IF Position[m] <= swapped THEN gen ELSE gen - 1

Init ==
  /\ gen = 0 /\ swapped = 6
  /\ value = [g \in Generations |-> [m \in Metrics |-> 0]]
  /\ at = [c \in Conns |-> "none"]
  /\ kept = [c \in Conns |-> [m \in Kept |-> 0]]
  /\ closes = [c \in Conns |-> 0]
  /\ leaving = [c \in Conns |-> "no"]
  /\ inced = [c \in Conns |-> -1]
  /\ moves = 0

Added(v, g, m, n) == [v EXCEPT ![g][m] = @ + n]
Add(g, m, n) == value' = Added(value, g, m, n)
-----------------------------------------------------------------------------
(* New: flushMetrics makes a generation, and initMetrics the variables.    *)
New ==
  /\ swapped = 6 /\ gen < MaxNews
  /\ gen' = gen + 1 /\ swapped' = 0
  /\ UNCHANGED <<value, hostConn, inced, moves>>

initMetrics ==
  /\ swapped < 6
  /\ swapped' = swapped + 1
  /\ UNCHANGED <<gen, value, hostConn, inced, moves>>

(* dial: DialTimeout; when it fails, dial returns and nothing is counted. *)
dial(c) ==
  /\ at[c] = "none"
  /\ at' = [at EXCEPT ![c] = "setup"]
  /\ UNCHANGED <<metrics, kept, closes, leaving, inced, moves>>

(* setupTCPConn, any option of which may fail: dial closes the connection. *)
setupTCPConn(c) ==
  /\ at[c] = "setup"
  /\ \/ at' = [at EXCEPT ![c] = "count"] /\ UNCHANGED value
     \/ at' = [at EXCEPT ![c] = "failed"] /\ Add(Refers("connError"), "connError", 1)
  /\ UNCHANGED <<gen, swapped, kept, closes, leaving, inced, moves>>

(* connOpen.Inc() *)
Count(c) ==
  /\ at[c] = "count"
  /\ at' = [at EXCEPT ![c] = Following[@]]
  /\ Add(Refers("connOpen"), "connOpen", 1)
  /\ inced' = [inced EXCEPT ![c] = Refers("connOpen")]
  /\ UNCHANGED <<gen, swapped, kept, closes, leaving, moves>>

(* &hostConn{...} reads the variables once more, one after another. *)
Keep(c, m) ==
  /\ at[c] = m
  /\ at' = [at EXCEPT ![c] = Following[@]]
  /\ kept' = [kept EXCEPT ![c][m] = Refers(m)]
  /\ UNCHANGED <<metrics, closes, leaving, inced, moves>>

(* Write and Read of a hostConn that dial has returned: n bytes are moved, *)
(* and an error is counted, but not the end of the response.               *)
Move(c, bytes, error) ==
  /\ at[c] = "open" /\ moves < MaxMoves
  /\ moves' = moves + 1
  /\ \E n, e \in 0..1 :
       value' = Added(Added(value, kept[c][bytes], bytes, n), kept[c][error], error, e)
  /\ UNCHANGED <<gen, swapped, hostConn, inced>>

\* Mutant: every call of Close decrements the gauge.
Always(c) == TRUE
FirstClose(c) == closes[c] = 0

(* Close, which may be called more than once: AddUint32, ... *)
Close(c) ==
  /\ at[c] = "open" /\ closes[c] < MaxCloses
  /\ closes' = [closes EXCEPT ![c] = @ + 1]
  /\ leaving' = [leaving EXCEPT ![c] = IF FirstClose(c) THEN "yes" ELSE @]
  /\ UNCHANGED <<metrics, at, kept, inced, moves>>

\* ... and the first call decrements the gauge that the hostConn keeps.
Dec(c) ==
  /\ leaving[c] = "yes"
  /\ leaving' = [leaving EXCEPT ![c] = "no"]
  /\ Add(kept[c]["connOpen"], "connOpen", -1)
  /\ UNCHANGED <<gen, swapped, at, kept, closes, inced, moves>>

Next ==
  \/ New \/ initMetrics
  \/ \E c \in Conns :
       \/ dial(c) \/ setupTCPConn(c) \/ Count(c)
       \/ \E m \in Kept : Keep(c, m)
       \/ Move(c, "bytesWritten", "writeError") \/ Move(c, "bytesRead", "readError")
       \/ Close(c) \/ Dec(c)

Spec == Init /\ [][Next]_vars
-----------------------------------------------------------------------------
TypeOK ==
  /\ gen \in Generations /\ swapped \in 0..6
  /\ value \in [Generations -> [Metrics -> Int]]
  /\ at \in [Conns -> {"none", "setup", "failed", "count", "open"} \union Kept]
  /\ kept \in [Conns -> [Kept -> Generations]]
  /\ closes \in [Conns -> 0..MaxCloses]
  /\ leaving \in [Conns -> {"no", "yes"}]
  /\ inced \in [Conns -> {-1} \union Generations]
  /\ moves \in 0..MaxMoves

\* Connections whose Close has decremented the gauge.
Left == {c \in Conns : closes[c] > 0 /\ leaving[c] = "no"}

\* The gauge that a connection will decrement, from the moment dial counts it.
Gauge(c) == IF at[c] = "connOpen" THEN inced[c] ELSE kept[c]["connOpen"]
Counted == {c \in Conns : inced[c] # -1}

\* Connections that count in the gauge of generation g and have not left.
Open(g) == {c \in Counted : Gauge(c) = g} \ Left

\* Dials that New has come between: counted in one gauge, kept with another.
Strayed == {c \in Counted : Gauge(c) # inced[c]}

(* The gauge of a generation is the number of its open connections, off by *)
(* no more than the dials that New came between, which may bring it below  *)
(* zero: no failed set-up and no second Close changes it.                  *)
GaugeIsOpen ==
  \A g \in Generations :
    /\ value[g]["connOpen"] <= Cardinality(Open(g)) + Cardinality(Strayed)
    /\ value[g]["connOpen"] >= Cardinality(Open(g)) - Cardinality(Strayed)
===============================================================================
