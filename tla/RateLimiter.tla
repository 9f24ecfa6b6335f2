---------------------------- MODULE RateLimiter ----------------------------
(***************************************************************************)
(* PerKeyRateLimiter and TokenBucket of ratelimit.py: a bucket is made at  *)
(* a key's first request, refilled only when it is used, and forgotten     *)
(* once it would be full.  Time and tokens are integers: a tick of the     *)
(* clock refills Refill units and a request costs Cost of them, so that    *)
(* per_minute = n is any instance with Capacity = n * Cost in which a      *)
(* minute of ticks refills as much; Refill = 0 is per_minute = 0, which    *)
(* switches the limit off.                                                 *)
(***************************************************************************)
EXTENDS Integers

CONSTANTS Keys,       \* the pubkeys
          Capacity,   \* max(1, per_minute) requests
          Refill,     \* per_minute / 60 of a request per second, 0 for no limit
          Cost,       \* one request
          MaxTime,    \* bound: how long the clock runs
          None

VARIABLES now,       \* time.monotonic()
          bucket,    \* _buckets: the tokens and updated_at of each key's bucket
          outcome    \* the last call of allow: its key, and what it returned

vars == <<now, bucket, outcome>>

Buckets == [tokens : 0..Capacity, updated : 0..MaxTime]

ASSUME LimiterAssumption ==
  /\ Capacity \in Nat /\ Refill \in Nat /\ Cost \in Nat /\ MaxTime \in Nat
  /\ None \notin Buckets

----------------------------------------------------------------------------
\* Mutant: without the cap.
Uncapped(a, b) == b

Lesser(a, b) == IF a <= b THEN a ELSE b
Greater(a, b) == IF a >= b THEN a ELSE b

\* What b has earned by now, not capped (projected in forget_full).
Projected(b) == b.tokens + Greater(0, now - b.updated) * Refill

\* The bucket allow works on: a new one is full.
Current(k) == IF bucket[k] = None THEN [tokens |-> Capacity, updated |-> now]
                                  ELSE bucket[k]

Init == /\ now = 0
        /\ bucket = [k \in Keys |-> None]
        /\ outcome \in [key : Keys, answer : {"allow"}]

Tick == /\ now < MaxTime
        /\ now' = now + 1
        /\ UNCHANGED <<bucket, outcome>>

\* Mutant: updated_at moves only when the request is paid.
TakeNoStamp(k) ==
  LET have == Lesser(Capacity, Projected(Current(k)))
      pays == have >= Cost
  IN  /\ bucket' = [bucket EXCEPT ![k] =
                      [tokens |-> IF pays THEN have - Cost ELSE have,
                       updated |-> IF pays THEN now ELSE Current(k).updated]]
      /\ outcome' = [key |-> k, answer |-> IF pays THEN "allow" ELSE "refuse"]
      /\ UNCHANGED now

\* allow with take: refill, then pay or refuse; updated_at moves either way.
\* Without a limit no bucket is made or asked.
Take(k) ==
  LET have == Lesser(Capacity, Projected(Current(k)))
      pays == have >= Cost
      left == [tokens |-> IF pays THEN have - Cost ELSE have, updated |-> now]
  IN  /\ bucket' = IF Refill = 0 THEN bucket ELSE [bucket EXCEPT ![k] = left]
      /\ outcome' = [key |-> k, answer |-> IF Refill = 0 \/ pays THEN "allow" ELSE "refuse"]
      /\ UNCHANGED now

\* Mutant: a bucket is forgotten as soon as it could pay again.
ForgetPaying ==
  /\ bucket' = [k \in Keys |-> IF bucket[k] # None /\ Projected(bucket[k]) >= Cost
                                 THEN None ELSE bucket[k]]
  /\ UNCHANGED <<now, outcome>>

\* forget_full drops every bucket that has refilled.
ForgetFull ==
  /\ bucket' = [k \in Keys |-> IF bucket[k] # None /\ Projected(bucket[k]) >= Capacity
                                 THEN None ELSE bucket[k]]
  /\ UNCHANGED <<now, outcome>>

Next == Tick \/ (\E k \in Keys : Take(k)) \/ ForgetFull

Spec == Init /\ [][Next]_vars

----------------------------------------------------------------------------
TypeOK == /\ now \in 0..MaxTime
          /\ bucket \in [Keys -> Buckets \cup {None}]
          /\ \A k \in Keys : bucket[k] # None => bucket[k].updated <= now
          /\ outcome \in [key : Keys, answer : {"allow", "refuse"}]

\* What each key could spend now.
Level(k) == Lesser(Capacity, Projected(Current(k)))

Budget == INSTANCE TokenBudget WITH level <- [k \in Keys |-> Level(k)]

\* Refilling late, at the next request, and forgetting full buckets cannot be
\* observed: every call of allow answers as an always up-to-date bucket would.
LazyIsExact == Budget!Spec
============================================================================
