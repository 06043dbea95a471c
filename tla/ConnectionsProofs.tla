--------------------------- MODULE ConnectionsProofs ---------------------------
(***************************************************************************)
(* Proofs about Connections, for any number of connections, of generations *)
(* of metrics and of calls of Close: the gauge counts what dial has counted*)
(* less what Close has taken off, and so the open connections, except for  *)
(* the dials that New came between.                                        *)
(***************************************************************************)
EXTENDS Connections, TLAPS, FiniteSetTheorems

\* The variables refer to a generation that there is.
Made == gen = 0 => swapped = 6

\* The life of a connection: counted, then kept, then closed.
Lives ==
  \A c \in Conns :
    /\ inced[c] = -1 <=> at[c] \in {"none", "setup", "failed", "count"}
    /\ closes[c] > 0 => at[c] = "open"
    /\ leaving[c] = "yes" => closes[c] > 0

CountedIn(g) == {c \in Conns : inced[c] = g}
LeftFrom(g) == {c \in Left : kept[c]["connOpen"] = g}

\* The account of a gauge.
Balanced ==
  \A g \in Generations :
    value[g]["connOpen"] = Cardinality(CountedIn(g)) - Cardinality(LeftFrom(g))

IInv == TypeOK /\ Made /\ Lives /\ Balanced
-----------------------------------------------------------------------------
(* The variables refer to the newest metrics or to those before. *)
LEMMA RefersOK == TypeOK /\ Made => \A m \in Metrics : Refers(m) \in Generations
BY ConnectionsAssumption DEF TypeOK, Made, Refers, Metrics, Position, Generations

Values == [Generations -> [Metrics -> Int]]

(* What an increment does to the metrics. *)
LEMMA Increment ==
  ASSUME NEW v \in Values, NEW g \in Generations, NEW m \in Metrics, NEW n \in Int
  PROVE  /\ Added(v, g, m, n) \in Values
         /\ \A h \in Generations, k \in Metrics :
              Added(v, g, m, n)[h][k] = IF h = g /\ k = m THEN v[h][k] + n ELSE v[h][k]
<1>1. v[g] \in [Metrics -> Int]
  BY DEF Values
<1> DEFINE row == [v[g] EXCEPT ![m] = @ + n]
<1>2. row \in [Metrics -> Int] /\ \A k \in Metrics : row[k] = IF k = m THEN v[g][k] + n ELSE v[g][k]
  BY <1>1
<1>3. Added(v, g, m, n) = [v EXCEPT ![g] = row]
  BY DEF Added
<1> HIDE DEF row
<1> QED
  BY <1>2, <1>3 DEF Values

\* What it does to a gauge.
LEMMA GaugeEffect ==
  ASSUME NEW v \in Values, NEW g \in Generations, NEW m \in Metrics, NEW n \in Int, NEW h \in Generations
  PROVE  Added(v, g, m, n)[h]["connOpen"]
           = IF h = g /\ m = "connOpen" THEN v[h]["connOpen"] + n ELSE v[h]["connOpen"]
<1>1. \A k \in Metrics :
        Added(v, g, m, n)[h][k] = IF h = g /\ k = m THEN v[h][k] + n ELSE v[h][k]
  BY Increment
<1>2. "connOpen" \in Metrics
  BY DEF Metrics, Position
<1> QED
  BY <1>1, <1>2

\* The initial states are in the invariant: nothing is dialled or counted.
LEMMA InitIInv == Init => IInv
<1> SUFFICES ASSUME Init PROVE IInv
  OBVIOUS
<1> USE ConnectionsAssumption DEF Init
<1>1. TypeOK /\ Made
  BY DEF TypeOK, Made, Generations, Metrics, Position, Kept
<1>2. Lives
  BY DEF Lives
<1>3. Balanced
  <2> SUFFICES ASSUME NEW g \in Generations
               PROVE value[g]["connOpen"] = Cardinality(CountedIn(g)) - Cardinality(LeftFrom(g))
    BY DEF Balanced
  <2>1. CountedIn(g) = {}
    BY DEF CountedIn, Generations
  <2>2. LeftFrom(g) = {}
    BY DEF LeftFrom, Left
  <2>3. value[g]["connOpen"] = 0
    BY DEF Metrics, Position
  <2> QED
    BY <2>1, <2>2, <2>3, FS_EmptySet
<1> QED
  BY <1>1, <1>2, <1>3 DEF IInv

\* The kept metrics are among the metrics.
LEMMA Names ==
  /\ Metrics = {"connOpen", "connError", "bytesWritten", "bytesRead", "writeError", "readError"}
  /\ Kept \subseteq Metrics
BY DEF Metrics, Position, Kept

\* Bytes and errors leave the gauges as they are.
LEMMA MoveEffect ==
  ASSUME TypeOK, NEW c \in Conns, NEW b \in Kept \ {"connOpen"}, NEW e \in Kept \ {"connOpen"}, Move(c, b, e)
  PROVE  value' \in Values /\ \A h \in Generations : value'[h]["connOpen"] = value[h]["connOpen"]
<1> DEFINE p == kept[c][b]
           q == kept[c][e]
<1>1. value \in Values /\ p \in Generations /\ q \in Generations
  BY DEF TypeOK, Values
<1>2. b \in Metrics /\ e \in Metrics /\ "connOpen" \in Metrics
  BY Names
<1>3. PICK n \in 0..1, k \in 0..1 : value' = Added(Added(value, p, b, n), q, e, k)
  BY DEF Move
<1> DEFINE between == Added(value, p, b, n)
<1>i. n \in Int /\ k \in Int
  OBVIOUS
<1> HIDE DEF p, q
<1>4. between \in Values
  BY <1>1, <1>2, <1>i, Increment
<1>5. \A h \in Generations : between[h]["connOpen"] = value[h]["connOpen"]
  BY <1>1, <1>2, <1>i, GaugeEffect
<1>b. value' = Added(between, q, e, k)
  BY <1>3
<1> HIDE DEF between
<1>6. value' \in Values
  BY <1>1, <1>2, <1>4, <1>b, <1>i, Increment
<1>7. \A h \in Generations : Added(between, q, e, k)[h]["connOpen"] = between[h]["connOpen"]
  BY <1>1, <1>2, <1>4, <1>i, GaugeEffect
<1> QED
  BY <1>b, <1>5, <1>6, <1>7

(* The types, and the life of a connection. *)
LEMMA TypeStep == IInv /\ [Next]_vars => TypeOK' /\ Made' /\ Lives'
<1> SUFFICES ASSUME IInv, [Next]_vars PROVE TypeOK' /\ Made' /\ Lives'
  OBVIOUS
<1> USE ConnectionsAssumption
<1>0. TypeOK /\ Made /\ Lives /\ value \in Values /\ \A m \in Metrics : Refers(m) \in Generations
  BY RefersOK DEF IInv, TypeOK, Values
<1>a. "connOpen" \in Kept /\ "connOpen" \in Metrics /\ "connError" \in Metrics
  BY Names DEF Kept
<1>1. CASE New
  BY <1>0, <1>1 DEF New, TypeOK, Made, Lives, hostConn, Generations
<1>2. CASE initMetrics
  BY <1>0, <1>2 DEF initMetrics, TypeOK, Made, Lives, hostConn
<1>3. ASSUME NEW c \in Conns, dial(c) PROVE TypeOK' /\ Made' /\ Lives'
  BY <1>0, <1>3 DEF dial, TypeOK, Made, Lives, metrics
<1>4. ASSUME NEW c \in Conns, setupTCPConn(c) PROVE TypeOK' /\ Made' /\ Lives'
  <2>1. value' \in Values
    BY <1>0, <1>a, <1>4, Increment DEF setupTCPConn, Add
  <2>2. at' \in [Conns -> {"none", "setup", "failed", "count", "open"} \union Kept]
    BY <1>0, <1>4 DEF setupTCPConn, TypeOK
  <2>3. Lives'
    BY <1>0, <1>4 DEF setupTCPConn, TypeOK, Lives
  <2> QED
    BY <1>0, <1>4, <2>1, <2>2, <2>3 DEF setupTCPConn, TypeOK, Made, Values
<1>5. ASSUME NEW c \in Conns, Count(c) PROVE TypeOK' /\ Made' /\ Lives'
  <2>1. value' \in Values
    BY <1>0, <1>a, <1>5, Increment DEF Count, Add
  <2>2. at' = [at EXCEPT ![c] = "connOpen"]
    BY <1>0, <1>5 DEF Count, Following
  <2>3. at' \in [Conns -> {"none", "setup", "failed", "count", "open"} \union Kept]
    BY <1>0, <1>a, <2>2 DEF TypeOK
  <2>4. inced' = [inced EXCEPT ![c] = Refers("connOpen")] /\ Refers("connOpen") \in Generations
    BY <1>0, <1>a, <1>5 DEF Count
  <2>5. Lives'
    BY <1>0, <1>5, <2>2, <2>4 DEF Count, TypeOK, Lives, Generations
  <2> QED
    BY <1>0, <1>5, <2>1, <2>3, <2>4, <2>5 DEF Count, TypeOK, Made, Values
<1>6. ASSUME NEW c \in Conns, NEW m \in Kept, Keep(c, m) PROVE TypeOK' /\ Made' /\ Lives'
  <2>1. at' = [at EXCEPT ![c] = Following[m]] /\ Following[m] \in {"open"} \union Kept
    BY <1>0, <1>6 DEF Keep, Following, Kept
  <2>2. Refers(m) \in Generations
    BY <1>0, Names
  <2>3. kept' \in [Conns -> [Kept -> Generations]]
    BY <1>0, <1>6, <2>2 DEF Keep, TypeOK
  <2>4. Lives'
    BY <1>0, <1>6, <2>1 DEF Keep, TypeOK, Lives, Kept
  <2> QED
    BY <1>0, <1>6, <2>1, <2>3, <2>4 DEF Keep, TypeOK, Made, metrics
<1>7. ASSUME NEW c \in Conns, NEW b \in Kept \ {"connOpen"}, NEW e \in Kept \ {"connOpen"}, Move(c, b, e)
      PROVE TypeOK' /\ Made' /\ Lives'
  <2>1. value' \in Values
    BY <1>0, <1>7, MoveEffect
  <2>2. moves' \in 0..MaxMoves
    BY <1>0, <1>7 DEF Move, TypeOK
  <2> QED
    BY <1>0, <1>7, <2>1, <2>2 DEF Move, TypeOK, Made, Lives, hostConn, Values
<1>8. ASSUME NEW c \in Conns, Close(c) PROVE TypeOK' /\ Made' /\ Lives'
  BY <1>0, <1>8 DEF Close, FirstClose, TypeOK, Made, Lives, metrics
<1>9. ASSUME NEW c \in Conns, Dec(c) PROVE TypeOK' /\ Made' /\ Lives'
  <2>1. kept[c]["connOpen"] \in Generations
    BY <1>0, <1>a DEF TypeOK
  <2>2. value' = Added(value, kept[c]["connOpen"], "connOpen", -1)
    BY <1>9 DEF Dec, Add
  <2>3. value \in Values /\ "connOpen" \in Metrics /\ -1 \in Int
    BY <1>0, <1>a
  <2>4. Added(value, kept[c]["connOpen"], "connOpen", -1) \in Values
    BY <2>1, <2>3, Increment
  <2>5. value' \in Values
    BY <2>2, <2>4
  <2> QED
    BY <1>0, <1>9, <2>5 DEF Dec, TypeOK, Made, Lives, Values
<1>10. CASE UNCHANGED vars
  BY <1>0, <1>10 DEF vars, metrics, hostConn, TypeOK, Made, Lives
<1>11. {"bytesWritten", "bytesRead", "writeError", "readError"} \subseteq Kept \ {"connOpen"}
  BY DEF Kept
<1> QED
  BY <1>1, <1>2, <1>3, <1>4, <1>5, <1>6, <1>7, <1>8, <1>9, <1>10, <1>11 DEF Next

(* dial adds the connection to those counted in one generation, Dec to the *)
(* ones that have left one; no other step moves the gauge or a connection. *)
LEMMA BalanceStep == IInv /\ [Next]_vars => Balanced'
<1> DEFINE Holds(g) == value[g]["connOpen"] = Cardinality(CountedIn(g)) - Cardinality(LeftFrom(g))
<1> SUFFICES ASSUME IInv, [Next]_vars, NEW g \in Generations PROVE Holds(g)'
  BY DEF Balanced, Generations
<1> USE ConnectionsAssumption
<1>0. TypeOK /\ Made /\ Lives /\ value \in Values /\ \A m \in Metrics : Refers(m) \in Generations
  BY RefersOK DEF IInv, TypeOK, Values
<1>a. "connOpen" \in Kept /\ "connOpen" \in Metrics /\ "connError" \in Metrics
  BY Names DEF Kept
<1>f. /\ IsFiniteSet(CountedIn(g)) /\ IsFiniteSet(LeftFrom(g))
      /\ Cardinality(CountedIn(g)) \in Nat /\ Cardinality(LeftFrom(g)) \in Nat
      /\ value[g]["connOpen"] \in Int
      /\ Holds(g)
  BY <1>0, <1>a, FS_Subset, FS_CardinalityType DEF IInv, CountedIn, LeftFrom, Left, Balanced, Values
<1>n. closes \in [Conns -> Nat]
  BY <1>0 DEF TypeOK
<1>1. ASSUME NEW c \in Conns, Count(c) PROVE Holds(g)'
  <2> DEFINE r == Refers("connOpen")
  <2>1. r \in Generations /\ inced[c] = -1 /\ closes[c] = 0
    <3>1. r \in Generations
      BY <1>0, <1>a
    <3>2. inced[c] = -1 /\ ~(closes[c] > 0)
      BY <1>0, <1>1 DEF Lives, Count
    <3> QED
      BY <1>n, <3>1, <3>2
  <2>2. LeftFrom(g)' = LeftFrom(g)
    BY <1>1 DEF LeftFrom, Left, Count
  <2>3. value'[g]["connOpen"] = IF g = r THEN value[g]["connOpen"] + 1 ELSE value[g]["connOpen"]
    <3>1. value' = Added(value, r, "connOpen", 1)
      BY <1>1 DEF Count, Add
    <3> HIDE DEF r
    <3>2. Added(value, r, "connOpen", 1)[g]["connOpen"]
            = IF g = r THEN value[g]["connOpen"] + 1 ELSE value[g]["connOpen"]
      BY <1>0, <1>a, <2>1, GaugeEffect
    <3> QED
      BY <3>1, <3>2
  <2>4. inced' = [inced EXCEPT ![c] = r]
    BY <1>1 DEF Count
  <2> HIDE DEF r
  <2>5. CountedIn(g)' = IF g = r THEN CountedIn(g) \union {c} ELSE CountedIn(g)
    BY <1>0, <2>1, <2>4 DEF CountedIn, TypeOK, Generations
  <2>6. c \notin CountedIn(g)
    BY <2>1 DEF CountedIn, Generations
  <2>7. Cardinality(CountedIn(g) \union {c}) = Cardinality(CountedIn(g)) + 1
    BY <1>f, <2>6, FS_AddElement
  <2> QED
    BY <1>f, <2>2, <2>3, <2>5, <2>7
<1>2. ASSUME NEW c \in Conns, Dec(c) PROVE Holds(g)'
  <2> DEFINE k == kept[c]["connOpen"]
  <2>1. k \in Generations /\ leaving[c] = "yes" /\ closes[c] > 0
    BY <1>0, <1>a, <1>2 DEF Lives, Dec, TypeOK
  <2>2. CountedIn(g)' = CountedIn(g)
    BY <1>2 DEF CountedIn, Dec
  <2>3. value'[g]["connOpen"] = IF g = k THEN value[g]["connOpen"] - 1 ELSE value[g]["connOpen"]
    <3>1. value' = Added(value, k, "connOpen", -1)
      BY <1>2 DEF Dec, Add
    <3> HIDE DEF k
    <3>2. Added(value, k, "connOpen", -1)[g]["connOpen"]
            = IF g = k THEN value[g]["connOpen"] + (-1) ELSE value[g]["connOpen"]
      BY <1>0, <1>a, <2>1, GaugeEffect
    <3> QED
      BY <1>f, <3>1, <3>2
  <2>4. LeftFrom(g)' = IF g = k THEN LeftFrom(g) \union {c} ELSE LeftFrom(g)
    BY <1>0, <1>2, <2>1 DEF LeftFrom, Left, Dec, TypeOK
  <2>5. c \notin LeftFrom(g)
    BY <2>1 DEF LeftFrom, Left
  <2>6. Cardinality(LeftFrom(g) \union {c}) = Cardinality(LeftFrom(g)) + 1
    BY <1>f, <2>5, FS_AddElement
  <2> HIDE DEF k
  <2> QED
    BY <1>f, <2>2, <2>3, <2>4, <2>6
<1>3. ASSUME /\ value'[g]["connOpen"] = value[g]["connOpen"]
             /\ CountedIn(g)' = CountedIn(g) /\ LeftFrom(g)' = LeftFrom(g)
      PROVE  Holds(g)'
  BY <1>3, <1>f
<1>4. CASE New \/ initMetrics
  BY <1>4, <1>3 DEF New, initMetrics, hostConn, CountedIn, LeftFrom, Left
<1>5. ASSUME NEW c \in Conns, dial(c) PROVE Holds(g)'
  BY <1>5, <1>3 DEF dial, metrics, CountedIn, LeftFrom, Left
<1>6. ASSUME NEW c \in Conns, NEW m \in Kept, Keep(c, m) PROVE Holds(g)'
  <2>1. closes[c] = 0
    <3>1. ~(closes[c] > 0)
      BY <1>0, <1>6 DEF Lives, Keep, Kept
    <3> QED
      BY <1>n, <3>1
  <2>2. LeftFrom(g)' = LeftFrom(g)
    BY <1>0, <1>6, <2>1 DEF LeftFrom, Left, Keep, TypeOK
  <2> QED
    BY <1>6, <1>3, <2>2 DEF Keep, metrics, CountedIn
<1>7. ASSUME NEW c \in Conns, setupTCPConn(c) PROVE Holds(g)'
  <2>1. value'[g]["connOpen"] = value[g]["connOpen"]
    <3>1. UNCHANGED value \/ value' = Added(value, Refers("connError"), "connError", 1)
      BY <1>7 DEF setupTCPConn, Add
    <3>2. Added(value, Refers("connError"), "connError", 1)[g]["connOpen"] = value[g]["connOpen"]
      BY <1>0, <1>a, GaugeEffect
    <3> QED
      BY <3>1, <3>2
  <2> QED
    BY <1>7, <1>3, <2>1 DEF setupTCPConn, CountedIn, LeftFrom, Left
<1>8. ASSUME NEW c \in Conns, NEW b \in Kept \ {"connOpen"}, NEW e \in Kept \ {"connOpen"}, Move(c, b, e)
      PROVE Holds(g)'
  <2>1. value'[g]["connOpen"] = value[g]["connOpen"]
    BY <1>0, <1>8, MoveEffect
  <2> QED
    BY <1>8, <1>3, <2>1 DEF Move, hostConn, CountedIn, LeftFrom, Left
<1>9. ASSUME NEW c \in Conns, Close(c) PROVE Holds(g)'
  <2>1. Left' = Left
    BY <1>0, <1>9 DEF Close, FirstClose, Left, Lives, TypeOK
  <2> QED
    BY <1>9, <1>3, <2>1 DEF Close, metrics, CountedIn, LeftFrom
<1>10. CASE UNCHANGED vars
  BY <1>10, <1>3 DEF vars, metrics, hostConn, CountedIn, LeftFrom, Left
<1>11. {"bytesWritten", "bytesRead", "writeError", "readError"} \subseteq Kept \ {"connOpen"}
  BY DEF Kept
<1> HIDE DEF Holds
<1> QED
  BY <1>1, <1>2, <1>4, <1>5, <1>6, <1>7, <1>8, <1>9, <1>10, <1>11 DEF Next

(* The bounds of GaugeIsOpen follow from the account: a connection counted *)
(* in g and one that will leave g are the same, or the connection strayed. *)
LEMMA AccountBounds == IInv => GaugeIsOpen
<1> SUFFICES ASSUME IInv, NEW g \in Generations
             PROVE /\ value[g]["connOpen"] <= Cardinality(Open(g)) + Cardinality(Strayed)
                   /\ value[g]["connOpen"] >= Cardinality(Open(g)) - Cardinality(Strayed)
  BY DEF GaugeIsOpen
<1> DEFINE I == CountedIn(g)
           K == {c \in Counted : Gauge(c) = g}
           L == LeftFrom(g)
           O == Open(g)
           S == Strayed
<1>1. /\ I \subseteq Conns /\ K \subseteq Conns /\ L \subseteq Conns /\ O \subseteq Conns /\ S \subseteq Conns
  BY DEF CountedIn, Counted, LeftFrom, Left, Open, Strayed
<1>2. \A A \in SUBSET Conns : IsFiniteSet(A) /\ Cardinality(A) \in Nat
  BY ConnectionsAssumption, FS_Subset, FS_CardinalityType
<1>3. K = O \union L /\ O \intersect L = {}
  BY DEF IInv, TypeOK, Lives, Open, LeftFrom, Left, Counted, Gauge
<1>4. Cardinality(K) = Cardinality(O) + Cardinality(L)
  <2>1. Cardinality(O \union L) = Cardinality(O) + Cardinality(L) - Cardinality(O \intersect L)
    BY <1>1, <1>2, FS_Union
  <2>2. Cardinality(O \intersect L) = 0
    BY <1>3, FS_EmptySet
  <2>3. Cardinality(O) \in Nat /\ Cardinality(L) \in Nat
    BY <1>1, <1>2
  <2> HIDE DEF O, L, K
  <2> QED
    BY <1>3, <2>1, <2>2, <2>3
<1>5. I \subseteq K \union S /\ K \subseteq I \union S
  BY DEF IInv, TypeOK, CountedIn, Counted, Strayed, Generations
<1>6. \A A, B \in SUBSET Conns : A \subseteq B \union S => Cardinality(A) <= Cardinality(B) + Cardinality(S)
  <2> SUFFICES ASSUME NEW A \in SUBSET Conns, NEW B \in SUBSET Conns, A \subseteq B \union S
               PROVE Cardinality(A) <= Cardinality(B) + Cardinality(S)
    OBVIOUS
  <2>1. B \union S \in SUBSET Conns /\ B \intersect S \in SUBSET Conns /\ S \in SUBSET Conns
    BY <1>1
  <2>2. Cardinality(A) <= Cardinality(B \union S)
    BY <2>1, <1>2, FS_Subset
  <2>3. Cardinality(B \union S) = Cardinality(B) + Cardinality(S) - Cardinality(B \intersect S)
    BY <2>1, <1>2, FS_Union
  <2> QED
    BY <2>1, <2>2, <2>3, <1>2
<1>7. Cardinality(I) <= Cardinality(K) + Cardinality(S) /\ Cardinality(K) <= Cardinality(I) + Cardinality(S)
  BY <1>1, <1>5, <1>6
<1>8. value[g]["connOpen"] = Cardinality(I) - Cardinality(L)
  BY DEF IInv, Balanced
<1>9. {Cardinality(I), Cardinality(K), Cardinality(L), Cardinality(O), Cardinality(S)} \subseteq Nat
  BY <1>1, <1>2
<1> HIDE DEF I, K, L, O, S
<1>10. /\ value[g]["connOpen"] <= Cardinality(O) + Cardinality(S)
       /\ value[g]["connOpen"] >= Cardinality(O) - Cardinality(S)
  BY <1>4, <1>7, <1>8, <1>9
<1> QED
  BY <1>10 DEF O, S
-----------------------------------------------------------------------------
(* The parts above hold in every state. *)
THEOREM Invariant == Spec => []IInv
<1>1. IInv /\ [Next]_vars => IInv'
  BY TypeStep, BalanceStep DEF IInv
<1> QED
  BY InitIInv, <1>1, PTL DEF Spec

(* The type invariant of the connections and their metrics. *)
THEOREM TypeCorrect == Spec => []TypeOK
<1>1. IInv => TypeOK
  BY DEF IInv
<1> QED
  BY Invariant, <1>1, PTL

(* The gauge that the report shows is the number of open connections, off  *)
(* by no more than the dials that New came between.                        *)
THEOREM GaugeCountsOpen == Spec => []GaugeIsOpen
BY Invariant, AccountBounds, PTL
===============================================================================
