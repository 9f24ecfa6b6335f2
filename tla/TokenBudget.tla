---------------------------- MODULE TokenBudget ----------------------------
(***************************************************************************)
(* What the rate limiter promises, without its bookkeeping: every key has  *)
(* a level that is full at first, rises with time up to the capacity, and  *)
(* pays for each request; a request is refused only if it cannot pay.      *)
(* Where nothing refills there is no limit: nothing is paid or refused.    *)
(***************************************************************************)
EXTENDS Integers

CONSTANTS Keys, Capacity, Refill, Cost

VARIABLES level,     \* what each key may still spend
          outcome    \* the last request: its key, and the answer

Lesser(a, b) == IF a <= b THEN a ELSE b

Init == /\ level = [k \in Keys |-> Capacity]
        /\ outcome \in [key : Keys, answer : {"allow"}]

Tick == /\ level' = [k \in Keys |-> Lesser(Capacity, level[k] + Refill)]
        /\ UNCHANGED outcome

Price == IF Refill = 0 THEN 0 ELSE Cost

Allow(k) == /\ level[k] >= Price
            /\ level' = [level EXCEPT ![k] = level[k] - Price]
            /\ outcome' = [key |-> k, answer |-> "allow"]

Refuse(k) == /\ level[k] < Price
             /\ outcome' = [key |-> k, answer |-> "refuse"]
             /\ UNCHANGED level

Next == Tick \/ \E k \in Keys : Allow(k) \/ Refuse(k)

Spec == Init /\ [][Next]_<<level, outcome>>
============================================================================
