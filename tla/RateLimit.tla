----------------------------- MODULE RateLimit ------------------------------
(***************************************************************************)
(* The limit on the calls of one client address: check_rate_limit and      *)
(* rate_limit_remaining of core/rate_limit.py, as RateLimitMiddleware      *)
(* calls them before and after a call's handler.  The sorted set           *)
(* rl:<address> is in Redis, whose commands run one at a time, the four of *)
(* check_rate_limit together (MULTI).  A call reads its process's clock    *)
(* first, so that calls reach Redis in another order than they read it.    *)
(* A member and its score are the same reading, so the sorted set is a set *)
(* of readings.  Addresses do not meet, and the exempt paths do not get    *)
(* here.  A call that stops takes no further steps.                        *)
(***************************************************************************)
EXTENDS Clock, Integers, Sequences, FiniteSets

CONSTANTS
  Calls,
  Limit,    \* rate_limit_per_minute
  Window    \* window_seconds

ASSUME RateAssumption == Limit \in Nat /\ Window \in Nat

VARIABLES
  zset,       \* the readings in the sorted set
  expires,    \* when Redis drops the set
  rpc, at,    \* what call r does next, and what it last read from the clock
  seen,       \* the calls Redis has seen since it last evicted the set
  latest,     \* the latest reading readings were removed by
  promised    \* how many more calls the headers sent allow for

rateLocals == <<zset, expires, rpc, at, seen, latest, promised>>

RPC == {"idle", "asking", "refused", "handling", "removing", "counting", "answered"}

Call == [at : 0..MaxTime, done : 0..MaxTime, let : BOOLEAN,
         inOrder : BOOLEAN, due : BOOLEAN]

RateTypeOK ==
  /\ now \in 0..MaxTime
  /\ zset \subseteq 0..MaxTime
  /\ expires \in Nat
  /\ rpc \in [Calls -> RPC]
  /\ at \in [Calls -> 0..MaxTime]
  /\ seen \in Seq(Call)
  /\ latest \in 0..MaxTime
  /\ promised \in 0..Limit

RateInit ==
  /\ now = 0
  /\ zset = {} /\ expires = 0
  /\ rpc = [r \in Calls |-> "idle"]
  /\ at = [r \in Calls |-> 0]
  /\ seen = <<>> /\ latest = 0 /\ promised = 0

Later(x, y) == IF x < y THEN y ELSE x

RateGoto(r, l) == rpc' = [rpc EXCEPT ![r] = l]

ReadsClock(r) == at' = [at EXCEPT ![r] = now]

-----------------------------------------------------------------------------
(* Redis *)

Stored == IF now < expires THEN zset ELSE {}

\* A mutant of Kept: the window is one longer.
KeptOneMore(t) == {s \in Stored : s >= t - Window}

\* ZREMRANGEBYSCORE key 0 t-Window, whose bounds are inclusive.
Kept(t) == {s \in Stored : s > t - Window}

\* A mutant of Expiry: without the spare second.
ExpiryExact == now + Window

\* EXPIRE key Window+1.
Expiry == now + Window + 1

-----------------------------------------------------------------------------
(* check_rate_limit *)

AskClock(r) ==
  /\ rpc[r] = "idle"
  /\ ReadsClock(r) /\ RateGoto(r, "asking")
  /\ UNCHANGED <<now, zset, expires, seen, latest, promised>>

\* Counted before it is added, and added whether it is let in or not.
Ask(r) ==
  LET kept == Kept(at[r])
      let == Cardinality(kept) < Limit
  IN  /\ rpc[r] = "asking"
      /\ zset' = kept \cup {at[r]}
      /\ expires' = Expiry
      /\ RateGoto(r, IF let THEN "handling" ELSE "refused")
      /\ seen' = Append(seen, [at |-> at[r], done |-> now, let |-> let,
                               inOrder |-> latest <= at[r], due |-> promised > 0])
      /\ latest' = Later(latest, at[r])
      /\ promised' = IF promised > 0 THEN promised - 1 ELSE 0
      /\ UNCHANGED <<now, at>>

-----------------------------------------------------------------------------
(* rate_limit_remaining, after the handler *)

HandledClock(r) ==
  /\ rpc[r] = "handling"
  /\ ReadsClock(r) /\ RateGoto(r, "removing")
  /\ UNCHANGED <<now, zset, expires, seen, latest, promised>>

RemoveOld(r) ==
  /\ rpc[r] = "removing"
  /\ zset' = Kept(at[r])
  /\ latest' = Later(latest, at[r])
  /\ RateGoto(r, "counting")
  /\ UNCHANGED <<now, expires, at, seen, promised>>

\* A mutant of Remaining: the call itself is not counted.
RemainingOneMore(n) == IF n - 1 < Limit THEN Limit - (n - 1) ELSE 0

\* max(0, limit - count)
Remaining(n) == IF n < Limit THEN Limit - n ELSE 0

\* ZCARD, and X-RateLimit-Remaining.
CountLeft(r) ==
  /\ rpc[r] = "counting"
  /\ promised' = Later(promised, Remaining(Cardinality(Stored)))
  /\ RateGoto(r, "answered")
  /\ UNCHANGED <<now, zset, expires, at, seen, latest>>

-----------------------------------------------------------------------------

\* Redis is out of memory and drops the key (allkeys-lru), or starts anew.
Evict ==
  /\ zset # {}
  /\ zset' = {} /\ seen' = <<>>
  /\ UNCHANGED <<now, expires, rpc, at, latest, promised>>

RateNext ==
  \/ \E r \in Calls : AskClock(r) \/ Ask(r) \/ HandledClock(r) \/ RemoveOld(r) \/ CountLeft(r)
  \/ Evict
  \/ Tick /\ UNCHANGED rateLocals

RateSpec == RateInit /\ [][RateNext]_<<now, rateLocals>>

-----------------------------------------------------------------------------
(* Properties *)

\* The distinct readings among the calls before the i-th, let in or refused,
\* that are within the window of its own or later.
InWindow(i) == {seen[j].at : j \in {k \in 1..(i - 1) : seen[k].at > seen[i].at - Window}}

\* A call is let in only if fewer than Limit readings of calls before it are in
\* its window.  Neither the removals of other calls nor the expiry of the key
\* forget one that counts, as long as the call reaches Redis in the order of the
\* readings and within the spare second of EXPIRE (core/rate_limit.py:17-26).
LimitKept ==
  \A i \in 1..Len(seen) :
    seen[i].let /\ seen[i].inOrder /\ seen[i].done - seen[i].at <= 1
    => Cardinality(InWindow(i)) < Limit

\* core/middleware.py:45 "Retry in 60 seconds.": a call is refused only if Limit
\* readings of calls before it are in its window, in whatever order calls reach
\* Redis.  Refused calls are among them: the wait starts anew with every call.
RefusedOnlyAtLimit ==
  \A i \in 1..Len(seen) : ~seen[i].let => Cardinality(InWindow(i)) >= Limit

\* X-RateLimit-Remaining (core/middleware.py:51-52) is honest: after n was
\* counted, the next n calls Redis sees are let in, although n was counted in
\* steps of its own, between those of other calls.
RemainingHonest == \A i \in 1..Len(seen) : seen[i].due => seen[i].let

=============================================================================
