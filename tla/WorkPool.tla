------------------------------ MODULE WorkPool ------------------------------
(***************************************************************************)
(* What a client promises the phase of a test that uses it: Hands do the   *)
(* jobs they are sent, each once; a flush drops the jobs that nobody has   *)
(* begun, no job outlives it, and the count starts anew.  Client.tla is    *)
(* shown to implement this.                                                *)
(***************************************************************************)
EXTENDS Integers

CONSTANT Hands

VARIABLES
  open,     \* FALSE while the pool is flushed
  waiting,  \* jobs sent that nobody has begun
  busy,     \* jobs begun
  done      \* jobs done since the pool was opened

poolVars == <<open, waiting, busy, done>>

PoolInit == open = TRUE /\ waiting = 0 /\ busy = 0 /\ done = 0

Submit == open /\ waiting' = waiting + 1 /\ UNCHANGED <<open, busy, done>>

Begin ==
  /\ waiting > 0 /\ busy < Hands
  /\ waiting' = waiting - 1 /\ busy' = busy + 1
  /\ UNCHANGED <<open, done>>

Finish ==
  /\ busy > 0
  /\ busy' = busy - 1 /\ done' = done + 1
  /\ UNCHANGED <<open, waiting>>

Shut == open /\ open' = FALSE /\ UNCHANGED <<waiting, busy, done>>

Drop ==
  /\ ~open /\ waiting > 0
  /\ waiting' = waiting - 1
  /\ UNCHANGED <<open, busy, done>>

Reopen ==
  /\ ~open /\ waiting = 0 /\ busy = 0
  /\ open' = TRUE /\ done' = 0
  /\ UNCHANGED <<waiting, busy>>

PoolNext == Submit \/ Begin \/ Finish \/ Shut \/ Drop \/ Reopen

PoolSpec == PoolInit /\ [][PoolNext]_poolVars
===============================================================================
