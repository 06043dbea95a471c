------------------------------- MODULE Limiter -------------------------------
(***************************************************************************)
(* The rate limiter of ratelimiter/ratelimiter.go: the goroutine start(),  *)
(* which turns elapsed time into messages of the channel ch, and the calls *)
(* SetLimit and Stop, which other goroutines make while it runs.           *)
(*                                                                         *)
(* A section under l.mu is one step; between two of them, and between any  *)
(* two channel operations, other goroutines run.  Messages carry no data,  *)
(* so ch is its length.  Token counts, floats in the code, are integers in *)
(* units of 1/Second token; a limit is a whole number of tokens a second.  *)
(***************************************************************************)
EXTENDS Integers

CONSTANTS
  Callers,     \* goroutines that call SetLimit and Stop
  Rates,       \* arguments they pass to SetLimit
  MaxRate,     \* no argument is above it
  BufferSize,  \* capacity of ch
  Second,      \* clock units in a second; a unit is the ticker's period
  ZeroTime,    \* the zero time.Time, long before the clock starts at 0
  MaxTime,     \* bound on the clock
  MaxSets      \* bound on the number of SetLimit calls

ASSUME LimiterAssumption ==
  /\ Rates \subseteq Int
  /\ MaxRate \in Nat \ {0}
  /\ \A r \in Rates : r <= MaxRate
  /\ BufferSize \in Nat \ {0}
  /\ Second \in Nat \ {0}
  /\ ZeroTime \in Int /\ ZeroTime < 0
  /\ MaxTime \in Nat
  /\ MaxSets \in Nat

VARIABLES
  limit, lastEvent,             \* fields of Limiter guarded by mu
  ch,                           \* len(l.ch)
  ticking, tick,                \* the ticker runs; ticks waiting in ticker.C
  pc, now, tokens, n, surplus,  \* start(): where it is, its locals
  call, arg,                    \* per caller: the step of its call, its argument
  clock,                        \* what time.Now() returns
  sets, generated, mark         \* history: SetLimit calls begun; messages put
                                \* in ch; time and generated at the last return

shared == <<limit, lastEvent, ticking>>
locals == <<now, tokens, n, surplus>>
caller == <<call, arg>>
history == <<sets, generated, mark>>
vars == <<shared, ch, tick, pc, locals, caller, clock, history>>

Idle(c) == call[c] = "idle"
Stopping == \E c \in Callers : call[c] \in {"join", "sweep", "stopped"}
Stopped == \E c \in Callers : call[c] = "stopped"

NewLimiter ==
  /\ limit = 0 /\ lastEvent = ZeroTime
  /\ ch = 0
  /\ ticking = TRUE /\ tick = 0
  /\ pc = "select"
  /\ now = ZeroTime /\ tokens = 0 /\ n = 0 /\ surplus = 0

Init ==
  /\ NewLimiter
  /\ call = [c \in Callers |-> "idle"]
  /\ arg = [c \in Callers |-> 1]
  /\ clock = 0
  /\ sets = 0 /\ generated = 0
  /\ mark = [at |-> 0, generated |-> 0]
-----------------------------------------------------------------------------
(* time.Ticker: its channel holds one tick, a tick nobody took is dropped. *)
Advance ==
  /\ clock < MaxTime
  /\ clock' = clock + 1
  /\ tick' = IF ticking THEN 1 ELSE tick
  /\ UNCHANGED <<shared, ch, pc, locals, caller, history>>

(* start(): case <-l.ticker.C, with the time.Now() that follows it. *)
Tick ==
  /\ pc = "select" /\ tick = 1
  /\ tick' = 0
  /\ now' = clock
  /\ pc' = "tokens"
  /\ UNCHANGED <<shared, ch, tokens, n, surplus, caller, clock, history>>

\* Mutant: every tick is worth one clock unit, however late it is.
AccruedPerTick == limit + surplus
Accrued == (now - lastEvent) * limit + surplus

\* The section under l.mu that reads lastEvent and limit.
Tokens ==
  /\ pc = "tokens"
  /\ tokens' = Accrued
  /\ pc' = "count"
  /\ UNCHANGED <<shared, ch, tick, now, n, surplus, caller, clock, history>>

\* Mutant: one message too many.
DueOneMore == tokens \div Second - ch + 1
\* len(l.ch) is read outside the lock.  \div rounds down where int() drops
\* the fraction: they differ only on negative tokens, where both end the turn.
Due == tokens \div Second - ch

\* Mutant: the part handed out as messages stays in surplus too.
AllTokens == tokens
Fraction == tokens % Second

Count ==
  /\ pc = "count"
  /\ \/ Due <= 0 /\ pc' = "select" /\ UNCHANGED <<n, surplus>>
     \/ Due > 0 /\ pc' = "fill" /\ n' = Due /\ surplus' = Fraction
  /\ UNCHANGED <<shared, ch, tick, now, tokens, caller, clock, history>>

(* l.ch <- struct{}{}: blocks while the buffer is full. *)
Fill ==
  /\ pc = "fill" /\ n > 0
  /\ ch < BufferSize
  /\ ch' = ch + 1
  /\ n' = n - 1
  /\ generated' = generated + 1
  /\ UNCHANGED <<shared, tick, pc, now, tokens, surplus, caller, clock, sets, mark>>

\* Mutant: the messages handed out are not charged to any time.
StampForgotten ==
  /\ pc = "fill" /\ n = 0
  /\ pc' = "select"
  /\ UNCHANGED <<shared, ch, tick, locals, caller, clock, history>>

Stamp ==
  /\ pc = "fill" /\ n = 0
  /\ lastEvent' = now
  /\ pc' = "select"
  /\ UNCHANGED <<limit, ticking, ch, tick, locals, caller, clock, history>>

start == Tick \/ Tokens \/ Count \/ Fill \/ Stamp
-----------------------------------------------------------------------------
\* Mutant: the limit changes and lastEvent stays.
SetsLimitOnly(r) == limit' = r /\ UNCHANGED lastEvent
setLimit(r) == limit' = r /\ lastEvent' = clock

\* Mutant: no lower bound on the limit.
NoClamp(r) == r
AtLeastOne(r) == IF r < 1 THEN 1 ELSE r

Enter(c, stage) == call[c] = "idle" /\ call' = [call EXCEPT ![c] = stage]

(* SetLimit: the clamp and setLimit(0), which begin the call. *)
SetLimit(c, r) ==
  /\ ~Stopping /\ sets < MaxSets
  /\ Enter(c, "drain")
  /\ arg' = [arg EXCEPT ![c] = AtLeastOne(r)]
  /\ setLimit(0)
  /\ sets' = sets + 1
  /\ UNCHANGED <<ticking, ch, tick, pc, locals, clock, generated, mark>>

(* drainChan, called by SetLimit ("drain") and by Stop ("sweep"). *)
Drain(c) ==
  /\ call[c] \in {"drain", "sweep"}
  /\ ch > 0
  /\ ch' = ch - 1
  /\ UNCHANGED <<shared, tick, pc, locals, caller, clock, history>>

\* Mutant: the select of drainChan has no default case, so it only ever ends
\* by receiving and looks again.
NeverDrained(c) == ch > 0 /\ Drain(c)

Drained(c) ==
  /\ call[c] \in {"drain", "sweep"}
  /\ ch = 0
  /\ call' = [call EXCEPT ![c] = IF @ = "drain" THEN "set" ELSE "stopped"]
  /\ UNCHANGED <<shared, ch, tick, pc, locals, arg, clock, history>>

(* setLimit(n), and SetLimit returns. *)
SetLimitReturn(c) ==
  /\ call[c] = "set"
  /\ call' = [call EXCEPT ![c] = "idle"]
  /\ setLimit(arg[c])
  /\ mark' = [at |-> clock, generated |-> generated]
  /\ UNCHANGED <<ticking, ch, tick, pc, locals, arg, clock, sets, generated>>

(* Stop: ticker.Stop() leaves a tick that is already in the channel. *)
Stop(c) ==
  /\ ~Stopping
  /\ Enter(c, "join")
  /\ ticking' = FALSE
  /\ UNCHANGED <<limit, lastEvent, ch, tick, pc, locals, arg, clock, history>>

\* Mutant: Stop does not wait for the goroutine to take the message.
NoRendezvous(c) ==
  /\ call[c] = "join"
  /\ call' = [call EXCEPT ![c] = "sweep"]
  /\ pc' = IF pc = "select" THEN "exited" ELSE pc
  /\ UNCHANGED <<shared, ch, tick, locals, arg, clock, history>>

(* l.doneCh is unbuffered: Stop sends when start() is back at its select.  *)
Done(c) ==
  /\ call[c] = "join"
  /\ pc = "select"
  /\ call' = [call EXCEPT ![c] = "sweep"]
  /\ pc' = "exited"
  /\ UNCHANGED <<shared, ch, tick, locals, arg, clock, history>>

(* A client takes a message from QPS(). *)
Receive ==
  /\ ch > 0
  /\ ch' = ch - 1
  /\ UNCHANGED <<shared, tick, pc, locals, caller, clock, history>>
-----------------------------------------------------------------------------
Continue(c) == Drain(c) \/ Drained(c) \/ SetLimitReturn(c) \/ Done(c)

Next ==
  \/ Advance
  \/ start
  \/ Receive
  \/ \E c \in Callers :
       \/ Continue(c)
       \/ Stop(c)
       \/ \E r \in Rates : SetLimit(c, r)

Spec == Init /\ [][Next]_vars

(* The goroutine and a call that has begun are scheduled again, time       *)
(* passes, and somebody receives from QPS(); nobody has to begin a call.   *)
Fairness ==
  /\ WF_vars(Advance)
  /\ WF_vars(start)
  /\ WF_vars(Receive)
  /\ \A c \in Callers : WF_vars(Continue(c))

FairSpec == Spec /\ Fairness
-----------------------------------------------------------------------------
TypeOK ==
  /\ limit \in Int
  /\ lastEvent \in Int
  /\ ch \in 0..BufferSize
  /\ ticking \in BOOLEAN /\ tick \in 0..1
  /\ pc \in {"select", "tokens", "count", "fill", "exited"}
  /\ now \in Int /\ tokens \in Int /\ n \in Nat
  /\ surplus \in 0..(Second - 1)
  /\ call \in [Callers -> {"idle", "drain", "set", "join", "sweep", "stopped"}]
  /\ arg \in [Callers -> Int]
  /\ clock \in 0..MaxTime
  /\ sets \in 0..MaxSets
  /\ generated \in Nat
  /\ mark \in [at : Nat, generated : Nat]

(* The inductive strengthening of RateBound and StopQuiet, in parts.       *)
Limits == limit \in 0..MaxRate /\ (\A c \in Callers : arg[c] \in 1..MaxRate)

Timely ==
  /\ lastEvent <= clock /\ now <= clock
  /\ lastEvent < 0 => limit = 0
  /\ pc \in {"tokens", "count", "fill"} => now >= 0

\* The time since creation that lastEvent says is accounted for.
Accounted == IF lastEvent < 0 THEN 0 ELSE lastEvent

\* Between fills, messages and fraction are paid for by the time accounted for;
Charged == pc # "fill" => generated * Second + surplus <= MaxRate * Accounted

\* what start() counted is paid for by the time up to its own now, also when
\* a SetLimit has moved lastEvent since;
Counted ==
  pc = "count" => tokens < Second \/ generated * Second + tokens <= MaxRate * now

\* and so is what it is still going to put in ch.
Filling == pc = "fill" => (generated + n) * Second + surplus <= MaxRate * now

Joined == (\E c \in Callers : call[c] \in {"sweep", "stopped"}) => pc = "exited"

(* The limiter's accounts balance at every step of the goroutine and of    *)
(* the calls: the three parts above hand the budget on to each other.      *)
Accounts == Limits /\ Timely /\ Charged /\ Counted /\ Filling

(* However SetLimit calls and ticks interleave, the limiter never puts     *)
(* more messages in ch than the highest limit allows for the time since it *)
(* was created: no instant is charged twice although start() writes back a *)
(* lastEvent older than the one a concurrent SetLimit stored.              *)
RateBound == generated * Second <= MaxRate * clock

(* Once Stop has returned, the goroutine is gone and ch stays empty, with  *)
(* a fill, a pending tick and SetLimit calls in any stage when Stop began. *)
StopQuiet == Stopped => pc = "exited" /\ ch = 0

(* The zero that SetLimit stores while it drains never outlives the calls: *)
(* when no SetLimit is under way, a limit set before is at least 1, also   *)
(* when calls of several goroutines overlapped ("is thread-safe").         *)
LimitRestored ==
  sets > 0 /\ (\A c \in Callers : call[c] \notin {"drain", "set"}) => limit >= 1

(* Messages since the first SetLimit returned keep to the limit it set:    *)
(* the upper bound that TestLimiterQPS asserts of a fresh limiter.         *)
OnRate ==
  sets = 1 /\ (\A c \in Callers : call[c] \notin {"drain", "set"})
    => (generated - mark.generated) * Second <= limit * (clock - mark.at)

(* "also clears current channel from messages": at the return of SetLimit  *)
(* ch is empty (between its drain and its return the limit is still 0).    *)
SetLimitClears == [][\A c \in Callers : SetLimitReturn(c) => ch = 0]_vars

(* SetLimit and Stop return, whatever start() is doing when they begin.    *)
CallsReturn ==
  \A c \in Callers : ~Idle(c) ~> (Idle(c) \/ call[c] = "stopped")

(* A limit of less than one message per tick still produces messages,      *)
(* after every SetLimit and wherever start() is: within a second from a    *)
(* moment at which ch is empty, whatever was put in it before, there is a  *)
(* further message, unless a call begins (SetLimit starts the second       *)
(* anew).  The last such moment is one second before the clock stops.      *)
Flows ==
  \A g \in 0..((MaxRate * MaxTime) \div Second) :
    (/\ sets > 0 /\ \A c \in Callers : Idle(c)
     /\ ch = 0 /\ generated = g /\ clock + Second <= MaxTime)
      ~> (generated > g \/ \E c \in Callers : ~Idle(c))

Budget == INSTANCE RateBudget WITH
  Cap <- BufferSize, time <- clock, issued <- generated,
  waiting <- ch, open <- (pc # "exited")

(* Every behaviour of the limiter is one of the abstract rate limiter.     *)
ImplementsBudget == Budget!BudgetSpec
===============================================================================
