--------------------------- MODULE MCRateLimiter ---------------------------
(***************************************************************************)
(* The limiter with a history of what it granted, two keys.  A tick is a   *)
(* third of a minute and refills two thirds of a request: per_minute = 2.  *)
(***************************************************************************)
EXTENDS RateLimiter, Sequences

VARIABLE granted     \* history: the time of each allowed request, per key

MCInit == Init /\ granted = [k \in Keys |-> <<>>]

MCNext == /\ Next
          /\ granted' = [k \in Keys |->
               IF Take(k) /\ outcome'.answer = "allow"
                 THEN Append(granted[k], now) ELSE granted[k]]

MCSpec == MCInit /\ [][MCNext]_<<vars, granted>>

\* However requests, refills and forget_full interleave, a key is granted in
\* any period no more than a full bucket and what the period refills, unless
\* there is no limit.
RateBound == Refill # 0 =>
  \A k \in Keys : \A i, j \in 1..Len(granted[k]) : i <= j =>
    (j - i + 1) * Cost <= Capacity + Refill * (granted[k][j] - granted[k][i])
============================================================================
