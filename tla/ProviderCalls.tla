---------------------------- MODULE ProviderCalls ----------------------------
(***************************************************************************)
(* The calls of one data provider: threads that pass RateLimiter.acquire   *)
(* (two token buckets behind one lock, held while sleeping) and then send  *)
(* a request through retry_with_backoff.  Time is a count of ticks; tokens *)
(* are counted in parts, CallCost of them to a call, so both rates are     *)
(* whole numbers of parts in a tick.  time_until_available divides: the    *)
(* model's waits are rounded up to a whole tick.                           *)
(***************************************************************************)
EXTENDS Integers, Sums

CONSTANTS
  Threads,
  CallCost,           \* parts of a token one call consumes
  Buckets,            \* per_second and per_minute
  Rate,               \* bucket -> parts refilled in a tick
  Capacity,           \* bucket -> parts it holds at most
  MaxAttempts,        \* attempts of retry_with_backoff
  MaxDelay,           \* longest backoff, in ticks
  LastTick            \* bound: the time explored

VARIABLES
  now,
  tokens,             \* bucket -> parts, as of its last refill
  lastRefill,         \* bucket -> time
  thread,             \* thread -> where it is, and until when it sleeps
  granted             \* tick -> calls acquire let through (history)

callVars == <<now, tokens, lastRefill, thread, granted>>

Idle == [at |-> "idle", until |-> 0, attempts |-> 0]

Init ==
  /\ now = 0
  /\ tokens = Capacity
  /\ lastRefill = [b \in Buckets |-> 0]
  /\ thread = [t \in Threads |-> Idle]
  /\ granted = [tick \in 0..LastTick |-> 0]

LockFree == \A t \in Threads : thread[t].at # "acquiring"

(* _refill, by the time now.                                               *)
Least(a, b) == IF a < b THEN a ELSE b
Refilled(b) == Least(Capacity[b], tokens[b] + (now - lastRefill[b]) * Rate[b])

Deficit(b) == IF Refilled(b) >= CallCost THEN 0 ELSE CallCost - Refilled(b)
TimeUntilAvailable(b) == (Deficit(b) + Rate[b] - 1) \div Rate[b]

(* The longer of the two waits.                                            *)
Wait == CHOOSE w \in {TimeUntilAvailable(b) : b \in Buckets} :
          \A b \in Buckets : TimeUntilAvailable(b) <= w

Refill ==
  /\ tokens' = [b \in Buckets |-> Refilled(b)]
  /\ lastRefill' = [b \in Buckets |-> now]

Consume ==
  /\ tokens' = [b \in Buckets |-> Refilled(b) - CallCost]
  /\ lastRefill' = [b \in Buckets |-> now]

LetThrough(t) ==
  /\ thread' = [thread EXCEPT ![t] = [at |-> "request", until |-> now, attempts |-> 0]]
  /\ granted' = [granted EXCEPT ![now] = @ + 1]

AcquireAtOnce(t) ==
  /\ thread[t].at = "idle"
  /\ LockFree
  /\ Wait = 0
  /\ Consume
  /\ LetThrough(t)
  /\ UNCHANGED now

AcquireSleeping(t) ==
  /\ thread[t].at = "idle"
  /\ LockFree
  /\ Wait > 0
  /\ Refill
  /\ thread' = [thread EXCEPT ![t].at = "acquiring", ![t].until = now + Wait]
  /\ UNCHANGED <<now, granted>>

(* As if the wait were counted from the refill, not consumed at its end.   *)
WakeUpFree(t) ==
  /\ thread[t].at = "acquiring"
  /\ thread[t].until <= now
  /\ Refill
  /\ LetThrough(t)
  /\ UNCHANGED now

(* A sleep may last longer than asked; the call is let through when it     *)
(* ends, without looking at the buckets again.                             *)
WakeUp(t) ==
  /\ thread[t].at = "acquiring"
  /\ thread[t].until <= now
  /\ Consume
  /\ LetThrough(t)
  /\ UNCHANGED now

(* An answer, an error not worth a retry, or the last attempt failed.      *)
RequestEnds(t) ==
  /\ thread[t].at = "request"
  /\ thread[t].until <= now
  /\ thread' = [thread EXCEPT ![t] = Idle]
  /\ UNCHANGED <<now, tokens, lastRefill, granted>>

(* A retried request does not pass the limiter again.                      *)
RequestRetried(t) ==
  /\ thread[t].at = "request"
  /\ thread[t].until <= now
  /\ thread[t].attempts + 1 < MaxAttempts
  /\ \E delay \in 0..MaxDelay :
       thread' = [thread EXCEPT ![t].attempts = @ + 1, ![t].until = now + delay]
  /\ UNCHANGED <<now, tokens, lastRefill, granted>>

Tick ==
  /\ now < LastTick
  /\ now' = now + 1
  /\ UNCHANGED <<tokens, lastRefill, thread, granted>>

Next ==
  \/ Tick
  \/ \E t \in Threads :
       AcquireAtOnce(t) \/ AcquireSleeping(t) \/ WakeUp(t) \/ RequestEnds(t) \/ RequestRetried(t)

Spec == Init /\ [][Next]_callVars

-----------------------------------------------------------------------------
(* In whatever order threads acquire, sleep and are woken late, in any     *)
(* stretch of time the calls let through stay within what each bucket      *)
(* holds plus what it refills in that time, for both buckets.              *)
BudgetsKept ==
  \A b \in Buckets : \A from \in 0..LastTick : \A to \in from..LastTick :
    CallCost * SumOver(granted, from..to)
      <= Capacity[b] + Rate[b] * (to - from)
=============================================================================
