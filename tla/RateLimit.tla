------------------------------ MODULE RateLimit -----------------------------
(***************************************************************************)
(* The sliding-window rate limiter (RateLimitGuard): a Lua script over one *)
(* sorted set per bucket, run by Redis atomically.                         *)
(*                                                                         *)
(* The score of an entry is the clock of the API process that asks, read   *)
(* before the script is sent.  Clocks differ and scripts are delayed, so   *)
(* that a score is Redis's clock plus an offset; only how far offsets lie  *)
(* apart matters, since scores are compared with each other alone.  The    *)
(* key itself expires by Redis's clock, one window after the last          *)
(* admission.  One bucket is modelled; which requests share a bucket (tier *)
(* and keyBy) is left out.                                                 *)
(***************************************************************************)
EXTENDS Naturals, FiniteSets

CONSTANTS
  Spread,     \* how far the offsets of two requests lie apart at most
  Window,     \* windowMs of the tier
  Limit,      \* limit of the tier
  Second,     \* the unit of Retry-After in units of the clock
  MaxTime,    \* bound: Redis's clock
  MaxTries    \* bound: requests altogether

ASSUME RateAssumption ==
  /\ Spread \in Nat /\ Window \in Nat \ {0} /\ Spread < Window
  /\ Limit \in Nat \ {0} /\ Second \in Nat \ {0}
  /\ MaxTime \in Nat /\ MaxTries \in Nat

VARIABLES
  redisNow,  \* Redis's clock
  entries,   \* the sorted set: score, and the try that made it (the jitter)
  keyEnd,    \* when PEXPIRE drops the key
  tries,     \* requests so far
  admitted,  \* history: the time of each request the script let through
  retryOk    \* history: every Retry-After handed out was long enough

rateVars == <<redisNow, entries, keyEnd, tries, admitted, retryOk>>

RateInit ==
  /\ redisNow = 0
  /\ entries = {}
  /\ keyEnd = 0
  /\ tries = 0
  /\ admitted = {}
  /\ retryOk = TRUE

\* The members the key holds: none once it has expired.
Held == IF redisNow >= keyEnd THEN {} ELSE entries

\* Mutant: entries are dropped one unit early.
TrimmedEarly(S, now) == {e \in S : e.score + Window > now + 1}

\* ZREMRANGEBYSCORE key -inf (now - window).
Trimmed(S, now) == {e \in S : e.score + Window > now}

Oldest(S) == CHOOSE x \in {e.score : e \in S} : \A e \in S : x <= e.score

\* Mutant: whole seconds are rounded down.
RetryAfterFloor(S, now) ==
  LET ms == IF Oldest(S) + Window > now THEN Oldest(S) + Window - now ELSE 0
  IN  ms \div Second

\* ZRANGE key 0 0 WITHSCORES: oldest + window - now, not below zero, in whole
\* seconds rounded up.
RetryAfter(S, now) ==
  LET ms == IF Oldest(S) + Window > now THEN Oldest(S) + Window - now ELSE 0
  IN  (ms + Second - 1) \div Second

\* Mutant: the expiry is set by the process's clock (PEXPIREAT).
RequestAdmittedByClock(d) ==
  LET now == redisNow + d
      left == Trimmed(Held, now)
  IN
  /\ tries < MaxTries
  /\ tries' = tries + 1
  /\ Cardinality(left) < Limit
  /\ entries' = left \cup {[score |-> now, try |-> tries]}
  /\ keyEnd' = now + Window
  /\ admitted' = admitted \cup {[at |-> redisNow, try |-> tries]}
  /\ UNCHANGED <<redisNow, retryOk>>

\* Below the limit: ZADD and PEXPIRE.
RequestAdmitted(d) ==
  LET now == redisNow + d
      left == Trimmed(Held, now)
  IN
  /\ tries < MaxTries
  /\ tries' = tries + 1
  /\ Cardinality(left) < Limit
  /\ entries' = left \cup {[score |-> now, try |-> tries]}
  /\ keyEnd' = redisNow + Window
  /\ admitted' = admitted \cup {[at |-> redisNow, try |-> tries]}
  /\ UNCHANGED <<redisNow, retryOk>>

\* 429 with Retry-After; the trim has happened, the expiry is not renewed.
RequestRefused(d) ==
  LET now == redisNow + d
      left == Trimmed(Held, now)
      later == now + RetryAfter(left, now) * Second
  IN
  /\ tries < MaxTries
  /\ tries' = tries + 1
  /\ Cardinality(left) >= Limit
  /\ entries' = left
  /\ retryOk' = (retryOk /\ Cardinality(Trimmed(left, later)) < Limit)
  /\ UNCHANGED <<redisNow, keyEnd, admitted>>

\* Redis unreachable, or the script failed: the guard lets the request through.
RequestUnlimited ==
  /\ tries < MaxTries
  /\ tries' = tries + 1
  /\ UNCHANGED <<redisNow, entries, keyEnd, admitted, retryOk>>

TimePasses ==
  /\ redisNow < MaxTime
  /\ redisNow' = redisNow + 1
  /\ UNCHANGED <<entries, keyEnd, tries, admitted, retryOk>>

RateNext ==
  \/ \E d \in 0..Spread : RequestAdmitted(d) \/ RequestRefused(d)
  \/ RequestUnlimited
  \/ TimePasses

RateSpec == RateInit /\ [][RateNext]_rateVars

-----------------------------------------------------------------------------
(* Properties.                                                             *)

\* The shapes of the sorted set; its key never outlives a window by Redis's
\* own clock, whatever the processes' clocks say.
RateTypeOK ==
  /\ redisNow \in 0..MaxTime
  /\ \A e \in entries : e.score \in 0..(MaxTime + Spread) /\ e.try \in 0..MaxTries
  /\ tries \in 0..MaxTries
  /\ keyEnd <= redisNow + Window

\* In any stretch shorter than the window by the clocks' spread at most Limit
\* requests get through, whichever processes they came to and although the
\* key can expire with entries in it (SLIDING_WINDOW_LUA).  What the guard lets
\* through without Redis is not counted.
BurstIsBounded ==
  \A t \in 0..MaxTime :
    Cardinality({a \in admitted : t <= a.at /\ a.at < t + (Window - Spread)}) <= Limit

\* A client that waits for the Retry-After it was given finds room, if nobody
\* else asked in between: the boundary of the trim, the arithmetic of the script
\* and its rounding to seconds agree (rate-limit.guard.ts:42-52).
RetryAfterSuffices == retryOk

\* The limiter admits no more than it should and refuses no longer than it says,
\* with clocks that differ from process to process (rate-limit.guard.ts).
LimiterKeepsWindow == BurstIsBounded /\ RetryAfterSuffices
=============================================================================
