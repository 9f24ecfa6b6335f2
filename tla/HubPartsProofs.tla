--------------------------- MODULE HubPartsProofs ---------------------------
(***************************************************************************)
(* Two parts the hub is built from: the limiter that charges a client for  *)
(* each of its events, and the packing of what is sent back to it.         *)
(*                                                                         *)
(* The lazy limiter implements the token budget, for every set of keys,    *)
(* capacity, refill and cost.  The refinement mapping is Level: what a key *)
(* could spend now, whether its bucket is up to date, old or forgotten.    *)
(* The same level bounds what is granted in any period: with the history   *)
(* of MCRateLimiter, what a key has been granted since some time and what  *)
(* it has left is no more than a full bucket and what time has refilled.   *)
(*                                                                         *)
(* The packing is the loop of batch_messages, for messages of any sizes    *)
(* and any limits.  That the greedy loop takes the fewest payloads rests   *)
(* on two facts: a part of what fits, fits (FitsInside), and while a batch *)
(* is open, no packing of the messages before it is shorter (NoneLater).   *)
(* Encoded sizes, joined payloads and the fewest payloads are recursive    *)
(* functions; what they compute is shown by the least place where it would *)
(* fail (Climbing).                                                        *)
(***************************************************************************)
EXTENDS MCRateLimiter, Framing, QueueLemmas

\* The values of the limiter are of their types in every reachable state, and
\* no bucket was updated in the future.
THEOREM LimiterTypeCorrect == Spec => []TypeOK
<1> USE LimiterAssumption
<1>1. Init => TypeOK
  <2> SUFFICES ASSUME Init PROVE TypeOK
    OBVIOUS
  <2>1. now \in 0..MaxTime /\ bucket \in [Keys -> Buckets \cup {None}]
    BY DEF Init
  <2>2. \A k \in Keys : bucket[k] # None => bucket[k].updated <= now
    BY DEF Init
  <2>3. outcome \in [key : Keys, answer : {"allow", "refuse"}]
    BY DEF Init
  <2> QED BY <2>1, <2>2, <2>3 DEF TypeOK
<1>2. TypeOK /\ [Next]_vars => TypeOK'
  <2> SUFFICES ASSUME TypeOK, [Next]_vars PROVE TypeOK'
    OBVIOUS
  <2>1. CASE Tick
    BY <2>1 DEF TypeOK, Tick, Buckets
  <2>2. ASSUME NEW k \in Keys, Take(k) PROVE TypeOK'
    <3> DEFINE b == Current(k)
               have == Lesser(Capacity, Projected(b))
               pays == have >= Cost
               new == [tokens |-> IF pays THEN have - Cost ELSE have, updated |-> now]
    <3>1. b \in Buckets /\ now \in 0..MaxTime
      BY DEF TypeOK, Current, Buckets
    <3>2. Greater(0, now - b.updated) \in Nat
      BY <3>1 DEF Greater, Buckets
    <3>3. Greater(0, now - b.updated) * Refill \in Nat
      BY <3>2
    <3>4. Projected(b) \in Nat
      BY <3>1, <3>3 DEF Projected, Buckets
    <3>5. have \in 0..Capacity
      BY <3>4 DEF Lesser
    <3>6. new \in Buckets
      BY <3>1, <3>5 DEF Buckets
    <3>7. /\ bucket' = bucket \/ bucket' = [bucket EXCEPT ![k] = new]
          /\ outcome' \in [key : Keys, answer : {"allow", "refuse"}]
          /\ now' = now
      BY <2>2 DEF Take
    <3> HIDE DEF new, pays
    <3>8. new.updated = now
      BY DEF new
    <3> QED BY <3>1, <3>6, <3>7, <3>8 DEF TypeOK
  <2>3. CASE ForgetFull
    BY <2>3 DEF TypeOK, ForgetFull
  <2>4. CASE UNCHANGED vars
    BY <2>4 DEF vars, TypeOK
  <2> QED BY <2>1, <2>2, <2>3, <2>4 DEF Next
<1> QED BY <1>1, <1>2, PTL DEF Spec

\* What a bucket has earned is a number, and one tick adds Refill to it.
LEMMA ProjectedNat ==
  ASSUME TypeOK, NEW k \in Keys
  PROVE  /\ Current(k) \in Buckets /\ Current(k).updated <= now
         /\ Projected(Current(k)) \in Nat
         /\ Level(k) \in 0..Capacity
<1> USE LimiterAssumption
<1> DEFINE b == Current(k)
<1>1. b \in Buckets /\ b.updated <= now /\ now \in 0..MaxTime
  BY DEF TypeOK, Current, Buckets
<1>2. Greater(0, now - b.updated) \in Nat
  BY <1>1 DEF Greater, Buckets
<1>3. Greater(0, now - b.updated) * Refill \in Nat
  BY <1>2
<1>4. Projected(b) \in Nat
  BY <1>1, <1>3 DEF Projected, Buckets
<1> HIDE DEF b
<1>5. Lesser(Capacity, Projected(b)) \in 0..Capacity
  BY <1>4 DEF Lesser
<1> QED BY <1>1, <1>4, <1>5 DEF Level, b

LEMMA TickRefills ==
  ASSUME TypeOK, Tick, NEW k \in Keys
  PROVE  Level(k)' = Lesser(Capacity, Level(k) + Refill)
<1> USE LimiterAssumption
<1>0. now \in 0..MaxTime /\ now' = now + 1 /\ bucket' = bucket
  BY DEF TypeOK, Tick
<1>1. CASE bucket[k] = None
  <2>1. Current(k) = [tokens |-> Capacity, updated |-> now]
        /\ Current(k)' = [tokens |-> Capacity, updated |-> now + 1]
    BY <1>0, <1>1 DEF Current
  <2>2. Projected(Current(k)) = Capacity /\ Projected(Current(k))' = Capacity
    BY <1>0, <2>1 DEF Projected, Greater
  <2>3. Level(k) = Capacity /\ Level(k)' = Capacity
    BY <2>2 DEF Level, Lesser
  <2> QED BY <2>3 DEF Lesser
<1>2. CASE bucket[k] # None
  <2> DEFINE b == bucket[k]
  <2>1. b \in Buckets /\ b.updated <= now /\ Current(k) = b /\ Current(k)' = b
    BY <1>0, <1>2 DEF TypeOK, Current
  <2>2. PICK x \in Nat : now - b.updated = x
    BY <1>0, <2>1 DEF Buckets
  <2>3. Greater(0, now - b.updated) = x /\ Greater(0, now' - b.updated) = x + 1
    BY <1>0, <2>1, <2>2 DEF Greater, Buckets
  <2>4. (x + 1) * Refill = x * Refill + Refill /\ x * Refill \in Nat
    BY <2>2
  <2> HIDE DEF b
  <2>5. Projected(b) = b.tokens + x * Refill
    BY <2>3 DEF Projected
  <2>6. Projected(Current(k))' = b.tokens + (x * Refill + Refill)
    BY <1>0, <2>1, <2>3, <2>4 DEF Projected
  <2>7. Level(k) = Lesser(Capacity, b.tokens + x * Refill)
        /\ Level(k)' = Lesser(Capacity, b.tokens + (x * Refill + Refill))
    BY <2>1, <2>5, <2>6 DEF Level
  <2>8. b.tokens \in Nat
    BY <2>1 DEF Buckets
  <2> HIDE DEF Level
  <2> QED BY <2>4, <2>7, <2>8 DEF Lesser
<1> QED BY <1>1, <1>2

\* After a call of allow the key's level is what it was, less the cost if paid.
LEMMA TakeSpends ==
  ASSUME TypeOK, Refill # 0, NEW k \in Keys, Take(k), NEW j \in Keys
  PROVE  Level(j)' = IF j = k /\ Level(k) >= Cost THEN Level(k) - Cost ELSE Level(j)
<1> USE LimiterAssumption
<1> DEFINE have == Level(k)
           left == IF have >= Cost THEN have - Cost ELSE have
<1>1. /\ bucket' = [bucket EXCEPT ![k] = [tokens |-> left, updated |-> now]]
      /\ now' = now /\ now \in 0..MaxTime
  BY DEF Take, Level, TypeOK
<1>2. left \in 0..Capacity
  BY ProjectedNat
<1> HIDE DEF left
<1>3. CASE j = k
  <2>1. [tokens |-> left, updated |-> now] # None
    BY <1>1, <1>2 DEF Buckets
  <2>2. Current(k)' = [tokens |-> left, updated |-> now]
    BY <1>1, <2>1 DEF Current, TypeOK
  <2>3. Projected(Current(k))' = left
    BY <1>1, <1>2, <2>2 DEF Projected, Greater
  <2>4. Level(k)' = left
    BY <1>2, <2>3 DEF Level, Lesser
  <2> QED BY <1>3, <2>4 DEF left
<1>4. CASE j # k
  BY <1>1, <1>4 DEF Level, Current, Projected, TypeOK
<1> QED BY <1>3, <1>4

\* Without a limit every call is allowed, and costs nothing.
LEMMA TakeFree ==
  ASSUME Refill = 0, NEW k \in Keys, Take(k)
  PROVE  /\ outcome' = [key |-> k, answer |-> "allow"]
         /\ \A j \in Keys : Level(j)' = Level(j)
BY DEF Take, Level, Current, Projected

\* Forgetting full buckets changes nobody's level.
LEMMA ForgetKeeps ==
  ASSUME TypeOK, ForgetFull, NEW k \in Keys
  PROVE  Level(k)' = Level(k)
<1> USE LimiterAssumption
<1>1. now' = now /\ now \in 0..MaxTime
  BY DEF ForgetFull, TypeOK
<1>2. CASE bucket[k] # None /\ Projected(bucket[k]) >= Capacity
  <2>1. bucket'[k] = None /\ Current(k) = bucket[k]
    BY <1>2 DEF ForgetFull, Current
  <2>2. Projected(Current(k))' = Capacity
    BY <1>1, <2>1 DEF Current, Projected, Greater
  <2>3. Level(k)' = Capacity
    BY <2>2 DEF Level, Lesser
  <2>4. Level(k) = Capacity
    BY <1>2, <2>1, ProjectedNat DEF Level, Lesser
  <2> QED BY <2>3, <2>4
<1>3. CASE ~ (bucket[k] # None /\ Projected(bucket[k]) >= Capacity)
  <2>1. bucket'[k] = bucket[k]
    BY <1>3 DEF ForgetFull
  <2> QED BY <1>1, <2>1 DEF Level, Current, Projected
<1> QED BY <1>2, <1>3

\* Every behaviour of the limiter is one of the token budget: buckets made at
\* the first request, refilled late and forgotten when full answer every
\* request as an always up-to-date bucket would.
THEOREM LimiterImplementsBudget == Spec => LazyIsExact
<1> USE LimiterAssumption
<1>1. Init => Budget!Init
  <2> SUFFICES ASSUME Init PROVE Budget!Init
    OBVIOUS
  <2>1. ASSUME NEW k \in Keys PROVE Level(k) = Capacity
    BY DEF Init, Level, Current, Projected, Greater, Lesser
  <2> QED BY <2>1 DEF Init, Budget!Init
<1>2. TypeOK /\ [Next]_vars => [Budget!Next]_<<[k \in Keys |-> Level(k)], outcome>>
  <2> SUFFICES ASSUME TypeOK, [Next]_vars
               PROVE  [Budget!Next]_<<[k \in Keys |-> Level(k)], outcome>>
    OBVIOUS
  <2>1. CASE Tick
    <3>1. Budget!Tick
      BY <2>1, TickRefills DEF Budget!Tick, Tick, Budget!Lesser, Lesser
    <3> QED BY <3>1 DEF Budget!Next
  <2>2. ASSUME NEW k \in Keys, Take(k)
        PROVE  Budget!Allow(k) \/ Budget!Refuse(k)
    <3>1. \A j \in Keys : Level(j) \in 0..Capacity
      BY ProjectedNat
    <3>2. CASE Refill = 0
      <4>1. /\ outcome' = [key |-> k, answer |-> "allow"]
            /\ \A j \in Keys : Level(j)' = Level(j)
        BY <2>2, <3>2, TakeFree
      <4>2. Level(k) >= 0 /\ Level(k) - 0 = Level(k)
        BY <3>1
      <4> HIDE DEF Level
      <4>3. Budget!Price = 0
        BY <3>2 DEF Budget!Price
      <4> QED BY <4>1, <4>2, <4>3 DEF Budget!Allow
    <3>3. CASE Refill # 0
      <4>1. outcome' = [key |-> k, answer |-> IF Level(k) >= Cost THEN "allow" ELSE "refuse"]
        BY <2>2, <3>3 DEF Take, Level
      <4>2. \A j \in Keys : Level(j)' = IF j = k /\ Level(k) >= Cost THEN Level(k) - Cost
                                                                    ELSE Level(j)
        BY <2>2, <3>3, TakeSpends
      <4>3. Budget!Price = Cost
        BY <3>3 DEF Budget!Price
      <4> HIDE DEF Level
      <4>4. CASE Level(k) >= Cost
        BY <4>1, <4>2, <4>3, <4>4 DEF Budget!Allow
      <4>5. CASE ~ Level(k) >= Cost
        <5>1. Level(k) < Cost
          BY <3>1, <4>5
        <5>2. outcome' = [key |-> k, answer |-> "refuse"]
          BY <4>1, <4>5
        <5>3. \A j \in Keys : Level(j)' = Level(j)
          BY <4>2, <4>5
        <5> QED BY <4>3, <5>1, <5>2, <5>3 DEF Budget!Refuse
      <4> QED BY <4>4, <4>5
    <3> QED BY <3>2, <3>3
  <2>3. CASE ForgetFull
    <3>1. \A k \in Keys : Level(k)' = Level(k)
      BY <2>3, ForgetKeeps
    <3> QED BY <2>3, <3>1 DEF ForgetFull
  <2>4. CASE UNCHANGED vars
    BY <2>4 DEF vars, Level, Current, Projected
  <2> QED BY <2>1, <2>2, <2>3, <2>4 DEF Next, Budget!Next
<1> QED BY <1>1, <1>2, LimiterTypeCorrect, PTL DEF Spec, LazyIsExact, Budget!Spec

----------------------------------------------------------------------------
\* What has been granted from the i-th request of a key on, and what it has left.
HistoryOK == granted \in [Keys -> Seq(0..MaxTime)]

Within(k, i) ==
  Level(k) + (Len(granted[k]) - i + 1) * Cost <= Capacity + Refill * (now - granted[k][i])

AllWithin == \A k \in Keys : \A i \in 1..Len(granted[k]) : Within(k, i)

RInv == TypeOK /\ HistoryOK /\ AllWithin /\ RateBound

LEMMA RInit == MCInit => HistoryOK /\ AllWithin /\ RateBound
BY DEF MCInit, HistoryOK, AllWithin, RateBound

\* A request that is allowed is paid for; one that is refused costs nothing.
LEMMA GrantsPaid ==
  ASSUME TypeOK, Refill # 0, NEW k \in Keys, Take(k)
  PROVE  IF outcome'.answer = "allow" THEN Level(k) >= Cost /\ Level(k)' = Level(k) - Cost
                                      ELSE Level(k)' = Level(k)
<1>1. outcome' = [key |-> k, answer |-> IF Level(k) >= Cost THEN "allow" ELSE "refuse"]
  BY DEF Take, Level
<1>2. outcome'.answer = IF Level(k) >= Cost THEN "allow" ELSE "refuse"
  BY <1>1
<1>3. Level(k)' = IF Level(k) >= Cost THEN Level(k) - Cost ELSE Level(k)
  BY TakeSpends
<1> QED BY <1>2, <1>3

\* Of any other key nothing changes but what a tick refills.
LEMMA OthersRefill ==
  ASSUME TypeOK, Refill # 0, [Next]_vars, NEW k \in Keys, ~ Take(k)
  PROVE  \/ now' = now /\ Level(k)' = Level(k)
         \/ now' = now + 1 /\ Level(k)' <= Level(k) + Refill
<1>1. CASE Tick
  <2>1. Level(k)' = Lesser(Capacity, Level(k) + Refill)
    BY <1>1, TickRefills
  <2>2. Level(k) \in Nat /\ Capacity \in Nat /\ Refill \in Nat
    BY ProjectedNat, LimiterAssumption
  <2> QED BY <1>1, <2>1, <2>2 DEF Lesser, Tick
<1>2. CASE \E j \in Keys : Take(j)
  <2>1. PICK j \in Keys : Take(j)
    BY <1>2
  <2>2. j # k
    BY <2>1
  <2>3. Level(k)' = Level(k)
    BY <2>1, <2>2, TakeSpends
  <2> QED BY <2>1, <2>3 DEF Take
<1>3. CASE ForgetFull
  BY <1>3, ForgetKeeps DEF ForgetFull
<1>4. CASE UNCHANGED vars
  BY <1>4 DEF vars, Level, Current, Projected
<1> QED BY <1>1, <1>2, <1>3, <1>4 DEF Next

AllInRange == \A k \in Keys : Level(k) \in 0..Capacity

LEMMA LevelsInRange == TypeOK => AllInRange
BY ProjectedNat DEF AllInRange

\* Products grow by the step of their factor.
LEMMA Growing ==
  ASSUME NEW a \in Int, NEW m \in Nat
  PROVE  /\ a * m \in Int /\ m * a \in Int
         /\ (a + 1) * m = a * m + m /\ m * (a + 1) = m * a + m
OBVIOUS

LEMMA RStep ==
  ASSUME Refill # 0
  PROVE  TypeOK' /\ AllInRange' /\ RInv /\ [MCNext]_<<vars, granted>> => RInv'
<1> SUFFICES ASSUME TypeOK', AllInRange', RInv, [MCNext]_<<vars, granted>>
             PROVE  HistoryOK' /\ AllWithin' /\ RateBound'
  BY DEF RInv
<1>0. /\ [Next]_vars /\ now \in 0..MaxTime /\ TypeOK
      /\ Capacity \in Nat /\ Refill \in Nat /\ Cost \in Nat /\ MaxTime \in Nat
  BY LimiterAssumption DEF RInv, TypeOK, MCNext
<1>1. ASSUME NEW k \in Keys
      PROVE  /\ granted'[k] \in Seq(0..MaxTime)
             /\ \A i \in 1..Len(granted'[k]) : Within(k, i)'
             /\ \A i, j \in 1..Len(granted'[k]) : i <= j =>
                  (j - i + 1) * Cost <= Capacity + Refill * (granted'[k][j] - granted'[k][i])
  <2> PICK g : g = granted[k]
    OBVIOUS
  <2> PICK h : h = granted'[k]
    OBVIOUS
  <2> PICK n : n = Len(g)
    OBVIOUS
  <2> PICK x : x = Level(k)
    OBVIOUS
  <2> PICK y : y = Level(k)'
    OBVIOUS
  <2>1. /\ g \in Seq(0..MaxTime) /\ n \in Nat /\ x \in 0..Capacity /\ y \in 0..Capacity
        /\ \A i \in 1..n : g[i] \in 0..MaxTime
    BY <1>0, ProjectedNat DEF RInv, HistoryOK, AllInRange
  <2>0. n \in Nat
    BY <2>1
  <2>2. /\ \A i \in 1..n : x + (n - i + 1) * Cost <= Capacity + Refill * (now - g[i])
        /\ \A i, j \in 1..n : i <= j => (j - i + 1) * Cost <= Capacity + Refill * (g[j] - g[i])
    BY DEF RInv, AllWithin, Within, RateBound
  <2>3. CASE h = Append(g, now) /\ Take(k) /\ outcome'.answer = "allow"
    <3>1. x >= Cost /\ y = x - Cost /\ now' = now
      BY <1>0, <2>3, GrantsPaid DEF Take
    <3>2. /\ h \in Seq(0..MaxTime) /\ Len(h) = n + 1 /\ h[n + 1] = now
          /\ \A i \in 1..n : h[i] = g[i]
      BY <1>0, <2>1, <2>3
    <3>3. ASSUME NEW i \in 1..(n + 1)
          PROVE  y + (n + 1 - i + 1) * Cost <= Capacity + Refill * (now' - h[i])
      <4>1. CASE i \in 1..n
        <5> PICK d : d = now - g[i]
          OBVIOUS
        <5>0. g[i] \in 0..MaxTime /\ now \in Int
          BY <1>0, <2>1, <4>1
        <5>1. d = now - g[i] /\ d \in Int
          BY <5>0
        <5> PICK c : c = n - i + 1
          OBVIOUS
        <5>2. c = n - i + 1 /\ c \in Int
          BY <2>0
        <5>3. x + c * Cost <= Capacity + Refill * d
          BY <2>2, <4>1, <5>1, <5>2
        <5>4. n + 1 - i + 1 = c + 1 /\ now' - h[i] = d
          BY <2>1, <3>1, <3>2, <4>1, <5>1, <5>2
        <5>5. c * Cost \in Int /\ (c + 1) * Cost = c * Cost + Cost /\ Refill * d \in Int
          BY <1>0, Growing
        <5>6. y + (c + 1) * Cost <= Capacity + Refill * d
          BY <1>0, <2>1, <3>1, <5>3, <5>5
        <5> QED BY <5>4, <5>6
      <4>2. CASE i = n + 1
        <5>1. now' - h[i] = 0 /\ n + 1 - i + 1 = 1
          BY <1>0, <2>0, <3>1, <3>2, <4>2
        <5>2. 1 * Cost = Cost /\ Refill * 0 = 0 /\ x <= Capacity /\ x \in Nat
          BY <1>0, <2>1
        <5>3. y + 1 * Cost <= Capacity + Refill * 0
          BY <1>0, <3>1, <5>2
        <5> QED BY <5>1, <5>3
      <4> QED BY <4>1, <4>2
    <3>4. ASSUME NEW i \in 1..(n + 1), NEW j \in 1..(n + 1), i <= j
          PROVE  (j - i + 1) * Cost <= Capacity + Refill * (h[j] - h[i])
      <4>1. CASE j \in 1..n
        <5>1. i \in 1..n
          BY <2>1, <3>4, <4>1
        <5> QED BY <2>2, <3>2, <3>4, <4>1, <5>1
      <4>2. CASE j = n + 1
        <5>1. y + (j - i + 1) * Cost <= Capacity + Refill * (h[j] - h[i])
          <6>0. h[j] = now' /\ j = n + 1
            BY <3>1, <3>2, <4>2
          <6>1. n + 1 - i + 1 = j - i + 1 /\ now' - h[i] = h[j] - h[i]
            BY <6>0
          <6>2. y + (n + 1 - i + 1) * Cost <= Capacity + Refill * (now' - h[i])
            BY <3>3
          <6> PICK c : c = n + 1 - i + 1
            OBVIOUS
          <6> PICK d : d = now' - h[i]
            OBVIOUS
          <6>3. y + c * Cost <= Capacity + Refill * d
            BY <6>2
          <6>4. j - i + 1 = c /\ h[j] - h[i] = d
            BY <6>1
          <6> QED BY <6>3, <6>4
        <5>2. h[i] \in 0..MaxTime /\ h[j] \in 0..MaxTime
          <6>1. i \in 1..Len(h) /\ j \in 1..Len(h) /\ Len(h) \in Nat
            BY <2>0, <3>2
          <6>2. \A l \in 1..Len(h) : h[l] \in 0..MaxTime
            <7>1. PICK T : T = 0..MaxTime
              OBVIOUS
            <7>2. h \in Seq(T)
              BY <3>2, <7>1
            <7>3. \A l \in 1..Len(h) : h[l] \in T
              BY <7>2
            <7> QED BY <7>1, <7>3
          <6> QED BY <6>1, <6>2
        <5> PICK d : d = h[j] - h[i]
          OBVIOUS
        <5>3. d = h[j] - h[i] /\ d \in Int
          BY <1>0, <5>2
        <5> PICK c : c = j - i + 1
          OBVIOUS
        <5>4. c = j - i + 1 /\ c \in Int
          BY <2>0
        <5>5. c * Cost \in Int /\ Refill * d \in Int
          BY <1>0, Growing
        <5>6. y + c * Cost <= Capacity + Refill * d
          BY <5>1, <5>3, <5>4
        <5>7. c * Cost <= Capacity + Refill * d
          <6>1. y \in Nat
            BY <1>0, <2>1
          <6> QED BY <1>0, <5>5, <5>6, <6>1
        <5> QED BY <5>3, <5>4, <5>7
      <4>3. j \in 1..n \/ j = n + 1
        BY <2>1, <3>4
      <4> QED BY <4>1, <4>2, <4>3
    <3> QED BY <3>2, <3>3, <3>4 DEF Within
  <2>4. CASE h = g /\ (UNCHANGED vars \/ ~ (Take(k) /\ outcome'.answer = "allow"))
    <3>1. \/ now' = now /\ y = x
          \/ now' = now + 1 /\ y <= x + Refill
      <4>1. CASE UNCHANGED vars
        BY <4>1 DEF vars, Level, Current, Projected
      <4>2. CASE Take(k) /\ outcome'.answer # "allow"
        BY <1>0, <4>2, GrantsPaid DEF Take
      <4>3. CASE ~ Take(k)
        BY <1>0, <4>3, OthersRefill
      <4> QED BY <2>4, <4>1, <4>2, <4>3
    <3>2. ASSUME NEW i \in 1..n
          PROVE  y + (n - i + 1) * Cost <= Capacity + Refill * (now' - h[i])
      <4> PICK d : d = now - g[i]
        OBVIOUS
      <4>0. g[i] \in 0..MaxTime /\ now \in Int
        BY <1>0, <2>1
      <4>1. d = now - g[i] /\ d \in Int
        BY <4>0
      <4> PICK c : c = n - i + 1
        OBVIOUS
      <4>2. c = n - i + 1 /\ c \in Int
        BY <2>0
      <4>3. x + c * Cost <= Capacity + Refill * d
        BY <2>2, <4>1, <4>2
      <4>4. c * Cost \in Int /\ Refill * d \in Int /\ Refill * (d + 1) = Refill * d + Refill
        BY <1>0, Growing
      <4>5. CASE now' = now /\ y = x
        BY <2>4, <4>1, <4>2, <4>3, <4>5
      <4>6. CASE now' = now + 1 /\ y <= x + Refill
        <5>1. now' - h[i] = d + 1
          <6>1. g[i] \in 0..MaxTime
            BY <2>1
          <6>2. h[i] = g[i]
            BY <2>4
          <6>3. PICK t, u : t = now /\ u = g[i]
            OBVIOUS
          <6>4. t \in Int /\ u \in Int /\ d = t - u
            BY <1>0, <4>1, <6>1, <6>3
          <6>5. (t + 1) - u = d + 1
            BY <6>4
          <6> QED BY <4>6, <6>2, <6>3, <6>5
        <5>2. y + c * Cost <= Capacity + Refill * (d + 1)
          <6>1. x \in Nat /\ y \in Nat
            BY <1>0, <2>1
          <6>2. PICK a : a = c * Cost
            OBVIOUS
          <6>3. PICK b : b = Refill * d
            OBVIOUS
          <6>4. a \in Int /\ b \in Int /\ x + a <= Capacity + b
            BY <4>3, <4>4, <6>2, <6>3
          <6>5. y + a <= Capacity + (b + Refill)
            BY <1>0, <4>6, <6>1, <6>4
          <6> QED BY <4>4, <6>2, <6>3, <6>5
        <5> QED BY <4>2, <5>1, <5>2
      <4> QED BY <3>1, <4>5, <4>6
    <3> QED BY <2>1, <2>2, <2>4, <3>2 DEF Within
  <2> QED BY <2>3, <2>4 DEF MCNext
<1>2. HistoryOK'
  <2>1. granted' = [k \in Keys |-> granted'[k]]
    BY DEF MCNext, RInv, HistoryOK
  <2> QED BY <1>1, <2>1 DEF HistoryOK
<1> QED BY <1>1, <1>2 DEF AllWithin, RateBound

\* In any period a key is granted no more than a full bucket and what the period
\* refills, for every rate and however requests and forget_full interleave: a
\* bucket that is forgotten gives nothing away.
THEOREM RateBoundCorrect == MCSpec => []RateBound
<1>1. MCSpec => Spec
  <2>1. MCInit => Init
    BY DEF MCInit
  <2>2. [MCNext]_<<vars, granted>> => [Next]_vars
    BY DEF MCNext
  <2> QED BY <2>1, <2>2, PTL DEF MCSpec, Spec
<1>2. MCInit /\ TypeOK => RInv
  BY RInit DEF RInv
<1>3. RInv => RateBound
  BY DEF RInv
<1>4. CASE Refill = 0
  <2>1. RateBound
    BY <1>4 DEF RateBound
  <2> QED BY <2>1, PTL
<1>5. CASE Refill # 0
  <2>1. TypeOK' /\ AllInRange' /\ RInv /\ [MCNext]_<<vars, granted>> => RInv'
    BY <1>5, RStep
  <2> QED BY <1>1, <1>2, <1>3, <2>1, LevelsInRange, LimiterTypeCorrect, PTL DEF MCSpec
<1> QED BY <1>4, <1>5

----------------------------------------------------------------------------
\* f counts the encoded size of the first messages of b, place by place.
Measures(f, b, unit) ==
  /\ f[0] = 1
  /\ \A i \in 1..Len(b) : f[i] = f[i - 1] + b[i][unit] + 1

LEMMA EncodedIs ==
  ASSUME NEW b, NEW unit, Len(b) \in Nat, NEW f \in [0..Len(b) -> Int], Measures(f, b, unit)
  PROVE  Encoded(b, unit) = f[Len(b)]
<1> DEFINE P(g) == g = [i \in 0..Len(b) |-> IF i = 0 THEN 1 ELSE g[i - 1] + b[i][unit] + 1]
           h == CHOOSE g : P(g)
           T == {i \in Nat : i <= Len(b) => h[i] = f[i]}
<1>1. P(f)
  <2>1. f = [i \in 0..Len(b) |-> f[i]]
    OBVIOUS
  <2>2. \A i \in 0..Len(b) : f[i] = IF i = 0 THEN 1 ELSE f[i - 1] + b[i][unit] + 1
    BY DEF Measures
  <2> QED BY <2>1, <2>2
<1>2. P(h)
  <2> HIDE DEF P
  <2> QED BY <1>1
<1>3. Encoded(b, unit) = h[Len(b)]
  BY DEF Encoded
<1> HIDE DEF h
<1>4. h[0] = 1 /\ \A i \in 1..Len(b) : h[i] = h[i - 1] + b[i][unit] + 1
  BY <1>2
<1>5. 0 \in T /\ \A i \in 1..Len(b) : i - 1 \in T => i \in T
  BY <1>4 DEF Measures
<1> HIDE DEF T
<1>6. 0..Len(b) \subseteq T
  BY <1>5, Climbing
<1> QED BY <1>3, <1>6 DEF T

\* The first n messages of s can be measured.
Measured(n, s) ==
  n <= Len(s) => \E f \in [0..n -> Nat] :
                   /\ f[0] = 1
                   /\ \A i \in 1..n : f[i] = f[i - 1] + s[i]["chars"] + 1

LEMMA MeasureExists ==
  ASSUME NEW s \in Seq(MessageSizes)
  PROVE  \E f \in [0..Len(s) -> Nat] : Measures(f, s, "chars")
<1> DEFINE T == {n \in Nat : Measured(n, s)}
<1>1. Len(s) \in Nat /\ \A i \in 1..Len(s) : s[i] \in MessageSizes /\ s[i]["chars"] \in Nat
  BY FramingAssumption
<1>2. Measured(0, s)
  <2> DEFINE g == [i \in 0..0 |-> 1]
  <2>1. g \in [0..0 -> Nat] /\ g[0] = 1 /\ \A i \in 1..0 : FALSE
    OBVIOUS
  <2> HIDE DEF g
  <2> QED BY <2>1 DEF Measured
<1>3. ASSUME NEW n \in 1..Len(s), Measured(n - 1, s) PROVE Measured(n, s)
  <2>1. PICK f \in [0..(n - 1) -> Nat] :
          /\ f[0] = 1
          /\ \A i \in 1..(n - 1) : f[i] = f[i - 1] + s[i]["chars"] + 1
    BY <1>1, <1>3 DEF Measured
  <2> DEFINE g == [i \in 0..n |-> IF i < n THEN f[i] ELSE f[n - 1] + s[n]["chars"] + 1]
  <2>2. g \in [0..n -> Nat]
    BY <1>1, <2>1
  <2>3. g[0] = 1 /\ \A i \in 1..n : g[i] = g[i - 1] + s[i]["chars"] + 1
    <3>1. g[0] = 1
      BY <2>1
    <3>2. ASSUME NEW i \in 1..n PROVE g[i] = g[i - 1] + s[i]["chars"] + 1
      <4>1. CASE i = n
        BY <4>1
      <4>2. CASE i < n
        BY <4>2, <2>1
      <4> QED BY <4>1, <4>2
    <3> QED BY <3>1, <3>2
  <2> HIDE DEF g
  <2> QED BY <2>2, <2>3 DEF Measured
<1>4. 0 \in T /\ \A n \in 1..Len(s) : n - 1 \in T => n \in T
  BY <1>2, <1>3
<1> HIDE DEF T
<1>5. 0..Len(s) \subseteq T
  BY <1>1, <1>4, Climbing
<1>6. Measured(Len(s), s)
  BY <1>1, <1>5 DEF T
<1> QED BY <1>1, <1>6 DEF Measured, Measures

\* What a run of messages takes, from the sizes up to its ends.
LEMMA CharsOfSpan ==
  ASSUME NEW s \in Seq(MessageSizes), NEW f \in [0..Len(s) -> Nat], Measures(f, s, "chars"),
         NEW k \in 1..Len(s), NEW n \in k..Len(s)
  PROVE  /\ SubSeq(s, k, n) \in Seq(MessageSizes) /\ Len(SubSeq(s, k, n)) = n - k + 1
         /\ Chars(SubSeq(s, k, n)) = 1 + f[n] - f[k - 1]
<1>9. PICK b : b = SubSeq(s, k, n)
  OBVIOUS
<1>1. /\ b \in Seq(MessageSizes) /\ Len(b) = n - k + 1
      /\ \A i \in 1..(n - k + 1) : b[i] = s[k + i - 1]
  <2>1. \A i \in k..n : s[i] \in MessageSizes
    OBVIOUS
  <2>2. k \in Int /\ n \in Int /\ k <= n
    OBVIOUS
  <2> QED BY <1>9, <2>1, <2>2, SubSeqProperties
<1>0. /\ \A j \in 0..Len(s) : f[j] \in Nat
      /\ \A j \in 1..Len(s) : f[j] = f[j - 1] + s[j]["chars"] + 1
  BY DEF Measures
<1>a. PICK c : c = f[k - 1]
  OBVIOUS
<1>b. PICK o : o = k - 1
  OBVIOUS
<1> DEFINE g == [i \in 0..Len(b) |-> 1 + f[o + i] - c]
<1>2. /\ Len(b) \in Nat /\ o \in 0..Len(s) /\ c \in Nat
      /\ \A i \in 0..Len(b) : o + i \in 0..Len(s)
  BY <1>0, <1>1, <1>a, <1>b
<1>3. g \in [0..Len(b) -> Int]
  <2>1. \A i \in 0..Len(b) : f[o + i] \in Nat
    BY <1>0, <1>2
  <2>2. \A i \in 0..Len(b) : 1 + f[o + i] - c \in Int
    BY <1>2, <2>1
  <2> QED BY <2>2
<1>4. Measures(g, b, "chars")
  <2>1. g[0] = 1
    BY <1>2, <1>a, <1>b
  <2>2. ASSUME NEW i \in 1..Len(b) PROVE g[i] = g[i - 1] + b[i]["chars"] + 1
    <3>1. PICK p : p = o + i
      OBVIOUS
    <3>2. p \in 1..Len(s) /\ p - 1 = o + (i - 1) /\ b[i] = s[p] /\ i - 1 \in 0..Len(b)
      BY <1>1, <1>2, <1>b, <3>1
    <3>3. f[p] = f[p - 1] + b[i]["chars"] + 1 /\ f[p] \in Nat /\ f[p - 1] \in Nat
      BY <1>0, <3>2
    <3>4. g[i] = 1 + f[p] - c /\ g[i - 1] = 1 + f[p - 1] - c
      BY <1>2, <3>1, <3>2
    <3>5. b[i]["chars"] \in Nat
      BY <3>2, FramingAssumption
    <3>6. c \in Nat
      BY <1>2
    <3>7. PICK u, v, w : u = f[p] /\ v = f[p - 1] /\ w = b[i]["chars"]
      OBVIOUS
    <3>8. u \in Nat /\ v \in Nat /\ w \in Nat /\ u = v + w + 1
      BY <3>3, <3>5, <3>7
    <3>9. 1 + u - c = (1 + v - c) + w + 1
      BY <3>6, <3>8
    <3> HIDE DEF g
    <3> QED BY <3>4, <3>7, <3>9
  <2> QED BY <2>1, <2>2 DEF Measures
<1>5. Chars(b) = g[Len(b)]
  <2> HIDE DEF g
  <2> QED BY <1>2, <1>3, <1>4, EncodedIs DEF Chars
<1>6. g[Len(b)] = 1 + f[n] - f[k - 1]
  <2>1. o + Len(b) = n
    BY <1>1, <1>b
  <2> QED BY <1>2, <1>a, <2>1
<1> HIDE DEF g
<1> QED BY <1>1, <1>5, <1>6, <1>9

LEMMA CharsOfLonger ==
  ASSUME NEW s \in Seq(MessageSizes), NEW m \in MessageSizes
  PROVE  /\ Chars(<<m>>) = 2 + m.chars
         /\ Chars(s) \in Nat /\ Chars(Append(s, m)) = Chars(s) + 1 + m.chars
<1>0. m["chars"] \in Nat /\ m["chars"] = m.chars
  BY FramingAssumption
<1>1. Chars(<<m>>) = 2 + m.chars
  <2>0. PICK b : b = <<m>>
    OBVIOUS
  <2> DEFINE g == [i \in 0..1 |-> IF i = 0 THEN 1 ELSE 2 + m["chars"]]
  <2>1. Len(b) = 1 /\ Len(b) \in Nat /\ b[1] = m
    BY <2>0
  <2>2. g \in [0..Len(b) -> Int] /\ Measures(g, b, "chars")
    BY <1>0, <2>1 DEF Measures
  <2>3. g[Len(b)] = 2 + m["chars"]
    BY <2>1
  <2>4. Chars(b) = g[Len(b)]
    <3> HIDE DEF g
    <3> QED BY <2>1, <2>2, EncodedIs, Zenon DEF Chars
  <2> QED BY <1>0, <2>0, <2>3, <2>4
<1>2. PICK f \in [0..Len(s) -> Nat] : Measures(f, s, "chars")
  BY MeasureExists
<1>3. Len(s) \in Nat /\ Chars(s) = f[Len(s)] /\ Chars(s) \in Nat
  <2>1. Len(s) \in Nat /\ f \in [0..Len(s) -> Int]
    OBVIOUS
  <2>2. Chars(s) = f[Len(s)]
    BY <1>2, <2>1, EncodedIs DEF Chars
  <2> QED BY <2>1, <2>2
<1>4. Chars(Append(s, m)) = Chars(s) + 1 + m.chars
  <2>1. PICK b : b = Append(s, m)
    OBVIOUS
  <2>2. Len(b) = Len(s) + 1 /\ b[Len(s) + 1] = m /\ \A i \in 1..Len(s) : b[i] = s[i]
    BY <2>1
  <2> DEFINE g == [i \in 0..Len(b) |-> IF i <= Len(s) THEN f[i] ELSE f[Len(s)] + m["chars"] + 1]
  <2>3. g \in [0..Len(b) -> Int]
    BY <1>0, <1>3, <2>2
  <2>4. Measures(g, b, "chars")
    <3>1. g[0] = 1
      BY <1>2, <1>3, <2>2 DEF Measures
    <3>2. ASSUME NEW i \in 1..Len(b) PROVE g[i] = g[i - 1] + b[i]["chars"] + 1
      <4>1. CASE i <= Len(s)
        BY <4>1, <1>2, <1>3, <2>2 DEF Measures
      <4>2. CASE i = Len(s) + 1
        BY <4>2, <1>0, <1>3, <2>2
      <4> QED BY <1>3, <2>2, <4>1, <4>2
    <3> QED BY <3>1, <3>2 DEF Measures
  <2>5. g[Len(b)] = f[Len(s)] + m["chars"] + 1
    BY <1>3, <2>2
  <2>6. Chars(b) = g[Len(b)]
    <3>1. Len(b) \in Nat
      BY <1>3, <2>2
    <3> HIDE DEF g
    <3> QED BY <3>1, <2>3, <2>4, EncodedIs DEF Chars
  <2> QED BY <1>0, <1>3, <2>1, <2>5, <2>6
<1> QED BY <1>1, <1>3, <1>4

----------------------------------------------------------------------------
\* f joins the first batches, batch by batch.
Joined(s, b) == s \o b
Joins(f, bs, n) == f[0] = <<>> /\ \A i \in 1..n : f[i] = Joined(f[i - 1], bs[i])

LEMMA JoinedTypes ==
  ASSUME NEW S, NEW s \in Seq(S), NEW b \in Seq(S)
  PROVE  Joined(s, b) \in Seq(S) /\ Joined(<<>>, b) = b
BY DEF Joined

LEMMA FlattenIs ==
  ASSUME NEW S, NEW bs \in Seq(Seq(S)), NEW f \in [0..Len(bs) -> Seq(S)], Joins(f, bs, Len(bs))
  PROVE  FlattenSeq(bs) = f[Len(bs)]
<1>1. Len(bs) \in Nat /\ \A i \in 1..Len(bs) : bs[i] \in Seq(S)
  OBVIOUS
<1>2. CASE Len(bs) = 0
  <2>1. bs = <<>>
    BY <1>2
  <2>2. FlattenSeq(bs) = bs
    BY <1>2 DEF FlattenSeq
  <2> QED BY <1>2, <2>1, <2>2 DEF Joins
<1>3. CASE Len(bs) # 0
  <2> DEFINE P(g) == g = [i \in 1..Len(bs) |-> IF i = 1 THEN bs[i] ELSE Joined(g[i - 1], bs[i])]
             h == CHOOSE g : P(g)
             first == [i \in 1..Len(bs) |-> f[i]]
             T == {i \in Nat : i \in 1..Len(bs) => h[i] = f[i]}
  <2>1. f[1] = bs[1]
    <3>1. 1 \in 1..Len(bs) /\ bs[1] \in Seq(S)
      BY <1>1, <1>3
    <3>2. f[1] = Joined(f[1 - 1], bs[1]) /\ f[1 - 1] = <<>>
      BY <3>1 DEF Joins
    <3>3. Joined(<<>>, bs[1]) = bs[1]
      BY <3>1, JoinedTypes
    <3> QED BY <3>2, <3>3
  <2>2. P(first)
    <3>1. \A i \in 1..Len(bs) : i # 1 => i - 1 \in 1..Len(bs)
      BY <1>1
    <3>2. \A i \in 1..Len(bs) : first[i] = IF i = 1 THEN bs[i] ELSE Joined(first[i - 1], bs[i])
      BY <2>1, <3>1 DEF Joins
    <3> QED BY <3>2
  <2>3. P(h)
    <3> HIDE DEF P
    <3> QED BY <2>2
  <2>4. FlattenSeq(bs) = h[Len(bs)]
    BY <1>3 DEF FlattenSeq, Joined
  <2> HIDE DEF h
  <2>5. h[1] = bs[1] /\ \A i \in 1..Len(bs) : i # 1 => h[i] = Joined(h[i - 1], bs[i])
    <3>1. 1 \in 1..Len(bs)
      BY <1>1, <1>3
    <3>2. \A i \in 1..Len(bs) : h[i] = IF i = 1 THEN bs[i] ELSE Joined(h[i - 1], bs[i])
      BY <2>3, Zenon
    <3>3. h[1] = bs[1]
      BY <3>1, <3>2
    <3>4. ASSUME NEW i \in 1..Len(bs), i # 1 PROVE h[i] = Joined(h[i - 1], bs[i])
      BY <3>2, <3>4, Zenon
    <3> QED BY <3>3, <3>4
  <2>6. ASSUME NEW i \in 1..Len(bs), i - 1 \in T PROVE i \in T
    <3>1. CASE i = 1
      BY <3>1, <2>1, <2>5
    <3>2. CASE i # 1
      <4>1. i - 1 \in 1..Len(bs)
        BY <1>1, <3>2
      <4> QED BY <4>1, <3>2, <2>5, <2>6 DEF Joins
    <3> QED BY <3>1, <3>2
  <2>7. 0 \in T
    BY <1>1
  <2> HIDE DEF T
  <2>8. 0..Len(bs) \subseteq T
    BY <1>1, <2>6, <2>7, Climbing
  <2> QED BY <1>1, <1>3, <2>4, <2>8 DEF T
<1> QED BY <1>2, <1>3

\* The first n batches can be joined.
Joinable(n, bs, S) == n <= Len(bs) => \E f \in [0..n -> Seq(S)] : Joins(f, bs, n)

LEMMA JoinExists ==
  ASSUME NEW S, NEW bs \in Seq(Seq(S))
  PROVE  \E f \in [0..Len(bs) -> Seq(S)] : Joins(f, bs, Len(bs))
<1> DEFINE T == {n \in Nat : Joinable(n, bs, S)}
<1>1. Len(bs) \in Nat /\ \A i \in 1..Len(bs) : bs[i] \in Seq(S)
  OBVIOUS
<1>2. Joinable(0, bs, S)
  <2> DEFINE g == [i \in 0..0 |-> <<>>]
  <2>1. <<>> \in Seq(S)
    OBVIOUS
  <2>2. g \in [0..0 -> Seq(S)] /\ Joins(g, bs, 0)
    BY <2>1 DEF Joins
  <2> HIDE DEF g
  <2> QED BY <2>2 DEF Joinable
<1>3. ASSUME NEW n \in 1..Len(bs), Joinable(n - 1, bs, S) PROVE Joinable(n, bs, S)
  <2>1. PICK f \in [0..(n - 1) -> Seq(S)] : Joins(f, bs, n - 1)
    BY <1>1, <1>3 DEF Joinable
  <2>2. PICK last : last = Joined(f[n - 1], bs[n])
    OBVIOUS
  <2>3. last \in Seq(S)
    <3>1. f[n - 1] \in Seq(S) /\ bs[n] \in Seq(S)
      BY <1>1, <2>1
    <3> QED BY <2>2, <3>1, JoinedTypes
  <2> DEFINE g == [i \in 0..n |-> IF i < n THEN f[i] ELSE last]
  <2>4. g \in [0..n -> Seq(S)]
    BY <2>1, <2>3
  <2>5. Joins(g, bs, n)
    <3>1. g[0] = <<>>
      BY <2>1 DEF Joins
    <3>2. ASSUME NEW i \in 1..n PROVE g[i] = Joined(g[i - 1], bs[i])
      <4>1. CASE i = n
        BY <4>1, <2>2
      <4>2. CASE i < n
        BY <4>2, <2>1 DEF Joins
      <4> QED BY <4>1, <4>2
    <3> QED BY <3>1, <3>2 DEF Joins
  <2> HIDE DEF g
  <2> QED BY <2>4, <2>5 DEF Joinable
<1>4. 0 \in T /\ \A n \in 1..Len(bs) : n - 1 \in T => n \in T
  BY <1>2, <1>3
<1> HIDE DEF T
<1>5. 0..Len(bs) \subseteq T
  BY <1>1, <1>4, Climbing
<1>6. Joinable(Len(bs), bs, S)
  BY <1>1, <1>5 DEF T
<1> QED BY <1>1, <1>6 DEF Joinable

LEMMA FlattenLonger ==
  ASSUME NEW S, NEW bs \in Seq(Seq(S)), NEW b \in Seq(S)
  PROVE  /\ FlattenSeq(bs) \in Seq(S)
         /\ FlattenSeq(Append(bs, b)) = FlattenSeq(bs) \o b
<1>1. PICK f \in [0..Len(bs) -> Seq(S)] : Joins(f, bs, Len(bs))
  BY JoinExists
<1>2. Len(bs) \in Nat /\ FlattenSeq(bs) = f[Len(bs)] /\ f[Len(bs)] \in Seq(S)
  BY <1>1, FlattenIs
<1>3. PICK r : r = Append(bs, b)
  OBVIOUS
<1>4. /\ r \in Seq(Seq(S)) /\ Len(r) = Len(bs) + 1 /\ r[Len(bs) + 1] = b
      /\ \A i \in 1..Len(bs) : r[i] = bs[i]
  BY <1>3
<1>5. PICK last : last = Joined(f[Len(bs)], b)
  OBVIOUS
<1>6. last \in Seq(S)
  BY <1>2, <1>5, JoinedTypes
<1> DEFINE g == [i \in 0..Len(r) |-> IF i <= Len(bs) THEN f[i] ELSE last]
<1>7. g \in [0..Len(r) -> Seq(S)]
  BY <1>1, <1>2, <1>4, <1>6
<1>8. Joins(g, r, Len(r))
  <2>1. g[0] = <<>>
    BY <1>1, <1>2, <1>4 DEF Joins
  <2>2. ASSUME NEW i \in 1..Len(r) PROVE g[i] = Joined(g[i - 1], r[i])
    <3>1. CASE i = Len(bs) + 1
      BY <3>1, <1>2, <1>4, <1>5
    <3>2. CASE i <= Len(bs)
      <4>1. i \in 1..Len(bs) /\ i - 1 <= Len(bs) /\ i - 1 \in 0..Len(r)
        BY <3>2, <1>2, <1>4
      <4>2. g[i] = f[i] /\ g[i - 1] = f[i - 1] /\ r[i] = bs[i]
        BY <4>1, <3>2, <1>4
      <4>3. f[i] = Joined(f[i - 1], bs[i])
        BY <4>1, <1>1 DEF Joins
      <4> QED BY <4>2, <4>3
    <3> QED BY <3>1, <3>2, <1>2, <1>4
  <2> QED BY <2>1, <2>2 DEF Joins
<1>9. g[Len(r)] = last
  BY <1>2, <1>4
<1> HIDE DEF g
<1>10. FlattenSeq(r) = g[Len(r)]
  BY <1>4, <1>7, <1>8, FlattenIs
<1> QED BY <1>2, <1>3, <1>5, <1>9, <1>10 DEF Joined

----------------------------------------------------------------------------
\* Where the last of the payloads that hold the first n messages may begin.
Starts(n) == {k \in 1..n : Fits(SubSeq(input, k, n))}
IsLeast(x, f, n) == \E k \in Starts(n) : x = f[k - 1] /\ \A l \in Starts(n) : x <= f[l - 1]
BestOf(f, n) == CHOOSE x \in {f[k - 1] : k \in Starts(n)} : \A k \in Starts(n) : x <= f[k - 1]
Best(f, n) == IF n = 0 THEN 0 ELSE 1 + BestOf(f, n)

\* f is the fewest payloads for the first messages, up to n.
Fewest(f, n) == f \in [0..n -> Nat] /\ \A j \in 0..n : f[j] = Best(f, j)

LEMMA BestExists ==
  ASSUME input \in Seq(MessageSizes), NEW n \in 1..Len(input), NEW f,
         \A j \in 0..(n - 1) : f[j] \in Nat
  PROVE  IsLeast(BestOf(f, n), f, n) /\ BestOf(f, n) \in Nat
<1> DEFINE V == {f[k - 1] : k \in Starts(n)}
           Q(x) == x \in V /\ \A k \in Starts(n) : x <= f[k - 1]
<1>1. n \in Starts(n)
  <2>1. \A i \in n..n : input[i] \in MessageSizes
    OBVIOUS
  <2>2. Len(SubSeq(input, n, n)) = 1
    <3>1. n \in Int /\ n <= n
      OBVIOUS
    <3>2. PICK b : b = SubSeq(input, n, n)
      OBVIOUS
    <3>3. Len(b) = IF n <= n THEN n - n + 1 ELSE 0
      BY <2>1, <3>1, <3>2, SubSeqProperties
    <3> QED BY <3>1, <3>2, <3>3
  <2> QED BY <2>2 DEF Starts, Fits
<1>2. \A k \in Starts(n) : k - 1 \in 0..(n - 1) /\ f[k - 1] \in Nat
  BY DEF Starts
<1>3. V \in SUBSET Nat /\ V # {}
  BY <1>1, <1>2
<1>4. PICK x \in V : \A y \in V : x <= y
  BY <1>3, Least
<1>5. Q(x)
  BY <1>4
<1>6. BestOf(f, n) = CHOOSE y : Q(y)
  BY DEF BestOf
<1>7. Q(BestOf(f, n))
  <2> HIDE DEF Q
  <2> QED BY <1>5, <1>6
<1> QED BY <1>2, <1>3, <1>7 DEF IsLeast

\* The choice depends on what is known of fewer messages only.
LEMMA BestAgrees ==
  ASSUME input \in Seq(MessageSizes), NEW n \in 1..Len(input), NEW f, NEW g,
         \A j \in 0..(n - 1) : f[j] \in Nat /\ g[j] = f[j]
  PROVE  Best(f, n) = Best(g, n)
<1>1. PICK x, y : x = BestOf(f, n) /\ y = BestOf(g, n)
  OBVIOUS
<1>2. x \in Nat /\ y \in Nat /\ IsLeast(x, f, n) /\ IsLeast(y, g, n)
  BY <1>1, BestExists
<1>3. \A k \in Starts(n) : k - 1 \in 0..(n - 1)
  BY DEF Starts
<1>4. x <= y /\ y <= x
  BY <1>2, <1>3 DEF IsLeast
<1>5. x = y
  BY <1>2, <1>4
<1> QED BY <1>1, <1>5 DEF Best

\* The fewest payloads for the first n messages exist.
Packable(n) == n <= Len(input) => \E f : Fewest(f, n)

LEMMA FewestExists ==
  ASSUME input \in Seq(MessageSizes)
  PROVE  \E f : Fewest(f, Len(input))
<1> DEFINE T == {n \in Nat : Packable(n)}
<1>1. Len(input) \in Nat
  OBVIOUS
<1>2. Packable(0)
  <2> DEFINE g == [i \in 0..0 |-> 0]
  <2>1. g \in [0..0 -> Nat] /\ \A j \in 0..0 : j = 0 /\ g[j] = 0
    OBVIOUS
  <2> HIDE DEF g
  <2>2. Fewest(g, 0)
    BY <2>1 DEF Fewest, Best
  <2> QED BY <2>2 DEF Packable
<1>3. ASSUME NEW n \in 1..Len(input), Packable(n - 1) PROVE Packable(n)
  <2>1. PICK f : Fewest(f, n - 1)
    BY <1>1, <1>3 DEF Packable
  <2>2. /\ f \in [0..(n - 1) -> Nat]
        /\ \A j \in 0..(n - 1) : f[j] \in Nat /\ f[j] = Best(f, j)
    BY <2>1 DEF Fewest
  <2>3. PICK last : last = Best(f, n)
    OBVIOUS
  <2>4. last \in Nat
    <3>1. BestOf(f, n) \in Nat
      BY <2>2, BestExists
    <3> QED BY <2>3, <3>1 DEF Best
  <2> DEFINE g == [i \in 0..n |-> IF i < n THEN f[i] ELSE last]
  <2>5. g \in [0..n -> Nat]
    BY <2>2, <2>4
  <2>6. \A j \in 0..(n - 1) : g[j] = f[j]
    OBVIOUS
  <2>7. g[n] = last
    OBVIOUS
  <2> HIDE DEF g
  <2>8. ASSUME NEW j \in 0..n PROVE g[j] = Best(g, j)
    <3>1. CASE j = 0
      BY <3>1, <2>2, <2>6 DEF Best
    <3>2. CASE j \in 1..(n - 1)
      <4>1. Best(f, j) = Best(g, j)
        <5>1. j \in 1..Len(input) /\ \A i \in 0..(j - 1) : f[i] \in Nat /\ g[i] = f[i]
          BY <1>1, <2>2, <2>6, <3>2
        <5> QED BY <5>1, BestAgrees
      <4> QED BY <4>1, <3>2, <2>2, <2>6
    <3>3. CASE j = n
      <4>1. Best(f, n) = Best(g, n)
        BY <2>2, <2>6, BestAgrees
      <4> QED BY <4>1, <3>3, <2>3, <2>7
    <3> QED BY <3>1, <3>2, <3>3
  <2>9. Fewest(g, n)
    BY <2>5, <2>8 DEF Fewest
  <2> QED BY <2>9 DEF Packable
<1>4. 0 \in T /\ \A n \in 1..Len(input) : n - 1 \in T => n \in T
  BY <1>2, <1>3
<1> HIDE DEF T
<1>5. 0..Len(input) \subseteq T
  BY <1>1, <1>4, Climbing
<1>6. Packable(Len(input))
  BY <1>1, <1>5 DEF T
<1> QED BY <1>1, <1>6 DEF Packable

\* What FewestFor is.
LEMMA FewestForIs ==
  ASSUME input \in Seq(MessageSizes)
  PROVE  /\ FewestFor[0] = 0
         /\ \A n \in 0..Len(input) : FewestFor[n] \in Nat
         /\ \A n \in 1..Len(input) :
              /\ \E k \in Starts(n) : FewestFor[n] = 1 + FewestFor[k - 1]
              /\ \A k \in Starts(n) : FewestFor[n] <= 1 + FewestFor[k - 1]
<1> DEFINE P(f) == f = [n \in 0..Len(input) |-> Best(f, n)]
<1>1. PICK f : Fewest(f, Len(input))
  BY FewestExists
<1>2. P(f)
  BY <1>1 DEF Fewest
<1>3. FewestFor = CHOOSE g : P(g)
  BY DEF FewestFor, Best, BestOf, Starts
<1> PICK h : h = FewestFor
  OBVIOUS
<1>4. P(h)
  <2> HIDE DEF P
  <2> QED BY <1>2, <1>3
<1>5. Len(input) \in Nat /\ \A n \in 0..Len(input) : h[n] = Best(h, n)
  BY <1>4
<1> DEFINE T == {n \in Nat : n <= Len(input) => \A j \in 0..n : h[j] \in Nat}
<1>6. 0 \in T
  <2>1. h[0] = 0
    BY <1>5 DEF Best
  <2> QED BY <2>1
<1>7. ASSUME NEW n \in 1..Len(input), n - 1 \in T PROVE n \in T
  <2>1. \A j \in 0..(n - 1) : h[j] \in Nat
    BY <1>5, <1>7
  <2>2. BestOf(h, n) \in Nat
    BY <2>1, BestExists
  <2>3. h[n] \in Nat
    BY <1>5, <2>2 DEF Best
  <2>4. \A j \in 0..n : j \in 0..(n - 1) \/ j = n
    OBVIOUS
  <2> QED BY <2>1, <2>3, <2>4
<1> HIDE DEF T
<1>8. 0..Len(input) \subseteq T
  BY <1>5, <1>6, <1>7, Climbing
<1>9. \A n \in 0..Len(input) : h[n] \in Nat
  BY <1>5, <1>8 DEF T
<1>10. ASSUME NEW n \in 1..Len(input)
       PROVE  /\ \E k \in Starts(n) : h[n] = 1 + h[k - 1]
              /\ \A k \in Starts(n) : h[n] <= 1 + h[k - 1]
  <2>1. \A j \in 0..(n - 1) : h[j] \in Nat
    BY <1>5, <1>9
  <2>2. IsLeast(BestOf(h, n), h, n) /\ BestOf(h, n) \in Nat
    BY <2>1, BestExists
  <2>3. h[n] = 1 + BestOf(h, n)
    BY <1>5 DEF Best
  <2>4. \A k \in Starts(n) : h[k - 1] \in Nat
    BY <2>1 DEF Starts
  <2> QED BY <2>2, <2>3, <2>4 DEF IsLeast
<1>11. h[0] = 0
  BY <1>5 DEF Best
<1> QED BY <1>9, <1>10, <1>11

----------------------------------------------------------------------------
PackTypeOK == /\ input \in Seq(MessageSizes) /\ taken \in 0..Len(input)
              /\ current \in Seq(MessageSizes) /\ batches \in Seq(Seq(MessageSizes))
              /\ size \in Nat

\* The open batch is empty before the first message and after the last.
OpenBatch == /\ current = <<>> => taken = Len(input) \/ (taken = 0 /\ size = 2)
             /\ current # <<>> => size = Chars(current)

\* It has the latest messages.
LatestMessages == /\ Len(current) <= taken
                  /\ \A i \in 1..Len(current) : current[i] = input[taken - Len(current) + i]

WithinLimits(b) == \/ b = <<>>
                   \/ Len(b) = 1 /\ IsOversized(b[1])
                   \/ Chars(b) <= Limit /\ Len(b) <= MaxMessages
AllWithinLimits == /\ WithinLimits(current)
                   /\ \A i \in 1..Len(batches) : WithinLimits(batches[i])

\* No packing closes the payloads later than this one.
NoneLater == /\ FewestFor[taken - Len(current)] = Len(batches)
             /\ \A n \in (taken - Len(current) + 1)..taken : FewestFor[n] = Len(batches) + 1

PackInv == PackTypeOK /\ OpenBatch /\ LatestMessages /\ AllWithinLimits /\ NothingLost /\ NoneLater

\* The two cases of a round for the message m.
Overflows(m) == current # <<>> /\ (size + 1 + m.chars > Limit \/ Len(current) >= MaxMessages)
Closes(m) == /\ Overflows(m) /\ batches' = Append(batches, current)
             /\ current' = <<m>> /\ size' = 2 + m.chars
Adds(m) == /\ ~ Overflows(m) /\ batches' = batches /\ current' = Append(current, m)
           /\ size' = IF current = <<>> THEN size + m.chars ELSE size + 1 + m.chars

LEMMA PackCases ==
  ASSUME PackTypeOK, Pack
  PROVE  /\ taken + 1 \in 1..Len(input) /\ taken' = taken + 1 /\ input' = input
         /\ input[taken + 1] \in MessageSizes
         /\ Closes(input[taken + 1]) \/ Adds(input[taken + 1])
<1>1. PICK m : m = input[taken + 1]
  OBVIOUS
<1>2. Len(input) \in Nat /\ taken + 1 \in 1..Len(input) /\ taken' = taken + 1 /\ input' = input
  BY DEF PackTypeOK, Pack
<1>3. m \in MessageSizes
  BY <1>1, <1>2 DEF PackTypeOK
<1>4. m.chars \in Nat /\ size \in Nat
  BY <1>3, FramingAssumption DEF PackTypeOK
<1>5. CASE current = <<>>
  <2>1. current' = Append(current, m) /\ size' = size + 0 + m.chars /\ batches' = batches
    BY <1>1, <1>5 DEF Pack
  <2> QED BY <1>1, <1>2, <1>3, <1>4, <1>5, <2>1 DEF Adds, Overflows
<1>6. CASE current # <<>>
  <2>1. IF Overflows(m)
          THEN batches' = Append(batches, current) /\ current' = <<m>> /\ size' = 2 + m.chars
          ELSE /\ current' = Append(current, m) /\ size' = size + 1 + m.chars
               /\ batches' = batches
    BY <1>1, <1>6 DEF Pack, Overflows
  <2> QED BY <1>1, <1>2, <1>3, <1>6, <2>1 DEF Closes, Adds
<1> QED BY <1>5, <1>6

LEMMA PackInitInv == PackInit => PackInv
<1> SUFFICES ASSUME PackInit PROVE PackInv
  OBVIOUS
<1>1. input \in Seq(MessageSizes)
  BY FramingAssumption DEF PackInit, BoundedSeq, SeqOf
<1>2. Len(input) \in Nat /\ <<>> \in Seq(MessageSizes) /\ <<>> \in Seq(Seq(MessageSizes))
  BY <1>1
<1>3. taken = 0 /\ current = <<>> /\ size = 2 /\ batches = <<>>
  BY DEF PackInit
<1>4. PackTypeOK
  BY <1>1, <1>2, <1>3 DEF PackTypeOK
<1>5. OpenBatch /\ LatestMessages /\ AllWithinLimits
  BY <1>1, <1>2, <1>3 DEF OpenBatch, LatestMessages, AllWithinLimits, WithinLimits
<1>6. NothingLost
  <2>1. FlattenSeq(batches) = <<>>
    BY <1>3 DEF FlattenSeq
  <2>2. SubSeq(input, 1, 0) = <<>>
    BY <1>1, SubSeqEmpty
  <2>3. <<>> \o <<>> = <<>>
    OBVIOUS
  <2> QED BY <1>3, <2>1, <2>2, <2>3, Zenon DEF NothingLost
<1>7. NoneLater
  <2>1. FewestFor[0] = 0
    BY <1>1, FewestForIs
  <2>a. Len(<<>>) = 0
    OBVIOUS
  <2>2. taken - Len(current) = 0 /\ Len(batches) = 0
    <3>1. Len(current) = 0 /\ Len(batches) = 0 /\ taken = 0
      BY <1>3, <2>a, Zenon
    <3> QED BY <3>1
  <2>3. \A n \in (0 + 1)..taken : FALSE
    BY <1>3
  <2> QED BY <2>1, <2>2, <2>3 DEF NoneLater
<1> QED BY <1>4, <1>5, <1>6, <1>7 DEF PackInv

LEMMA PackTypes ==
  ASSUME PackTypeOK, PackNext
  PROVE  PackTypeOK' /\ input' = input
<1>1. CASE Pack
  <2>1. PICK m : m = input[taken + 1]
    OBVIOUS
  <2>2. /\ taken + 1 \in 1..Len(input) /\ taken' = taken + 1 /\ input' = input
        /\ m \in MessageSizes /\ m.chars \in Nat
        /\ Closes(m) \/ Adds(m)
    BY <1>1, <2>1, PackCases, FramingAssumption
  <2>3. CASE Closes(m)
    <3>1. current' \in Seq(MessageSizes) /\ size' \in Nat
      BY <2>2, <2>3 DEF Closes
    <3>2. batches' \in Seq(Seq(MessageSizes))
      BY <2>3 DEF Closes, PackTypeOK
    <3> QED BY <2>2, <3>1, <3>2 DEF PackTypeOK
  <2>4. CASE Adds(m)
    <3>1. current' \in Seq(MessageSizes)
      BY <2>2, <2>4 DEF Adds, PackTypeOK
    <3>2. size' \in Nat /\ batches' \in Seq(Seq(MessageSizes))
      BY <2>2, <2>4 DEF Adds, PackTypeOK
    <3> QED BY <2>2, <3>1, <3>2 DEF PackTypeOK
  <2> QED BY <2>2, <2>3, <2>4
<1>2. CASE Finish
  <2>1. batches' \in Seq(Seq(MessageSizes)) /\ current' \in Seq(MessageSizes)
    BY <1>2 DEF Finish, PackTypeOK
  <2> QED BY <1>2, <2>1 DEF Finish, PackTypeOK
<1> QED BY <1>1, <1>2 DEF PackNext

LEMMA PackOpenBatch ==
  ASSUME PackTypeOK, OpenBatch, PackNext
  PROVE  OpenBatch'
<1>1. CASE Pack
  <2>1. PICK m : m = input[taken + 1]
    OBVIOUS
  <2>2. /\ taken + 1 \in 1..Len(input) /\ m \in MessageSizes /\ m.chars \in Nat
        /\ Closes(m) \/ Adds(m)
    BY <1>1, <2>1, PackCases, FramingAssumption
  <2>a. current \in Seq(MessageSizes)
    BY DEF PackTypeOK
  <2>b. <<m>> # <<>> /\ Append(current, m) # <<>>
    BY <2>2, <2>a
  <2>3. current' # <<>>
    BY <2>2, <2>b, Zenon DEF Closes, Adds
  <2>4. Chars(<<m>>) = 2 + m.chars /\ Chars(Append(current, m)) = Chars(current) + 1 + m.chars
    BY <2>2, CharsOfLonger DEF PackTypeOK
  <2>5. CASE Closes(m)
    BY <2>3, <2>4, <2>5 DEF Closes, OpenBatch
  <2>6. CASE Adds(m) /\ current = <<>>
    <3>1. size = 2 /\ current' = <<m>>
      BY <2>2, <2>6 DEF OpenBatch, Adds, PackTypeOK
    <3> QED BY <3>1, <2>3, <2>4, <2>6 DEF Adds, OpenBatch
  <2>7. CASE Adds(m) /\ current # <<>>
    BY <2>3, <2>4, <2>7 DEF Adds, OpenBatch
  <2> QED BY <2>2, <2>5, <2>6, <2>7
<1>2. CASE Finish
  BY <1>2 DEF Finish, OpenBatch
<1> QED BY <1>1, <1>2 DEF PackNext

LEMMA PackLatest ==
  ASSUME PackTypeOK, LatestMessages, PackNext
  PROVE  LatestMessages'
<1>1. CASE Pack
  <2>1. PICK m : m = input[taken + 1]
    OBVIOUS
  <2>2. /\ taken + 1 \in 1..Len(input) /\ taken' = taken + 1 /\ input' = input
        /\ m \in MessageSizes /\ (Closes(m) \/ Adds(m))
    BY <1>1, <2>1, PackCases
  <2>3. CASE Closes(m)
    <3>1. Len(current') = 1 /\ current'[1] = m
      BY <2>3 DEF Closes
    <3>2. taken' - Len(current') + 1 = taken + 1 /\ 1 <= taken'
      BY <2>2, <3>1 DEF PackTypeOK
    <3>3. \A i \in 1..Len(current') : i = 1
      BY <3>1
    <3> QED BY <2>1, <2>2, <3>1, <3>2, <3>3 DEF LatestMessages
  <2>4. CASE Adds(m)
    <3>1. PICK c : c = current'
      OBVIOUS
    <3>2. /\ Len(current) \in Nat /\ Len(c) = Len(current) + 1 /\ c[Len(current) + 1] = m
          /\ \A i \in 1..Len(current) : c[i] = current[i]
      BY <2>2, <2>4, <3>1 DEF Adds, PackTypeOK
    <3>3. taken' - Len(c) = taken - Len(current) /\ Len(c) <= taken'
      BY <2>2, <3>2 DEF PackTypeOK, LatestMessages
    <3>4. ASSUME NEW i \in 1..Len(c) PROVE c[i] = input[taken - Len(current) + i]
      <4>1. CASE i = Len(current) + 1
        <5>1. taken - Len(current) + i = taken + 1
          BY <4>1, <3>2 DEF PackTypeOK
        <5> QED BY <4>1, <5>1, <2>1, <3>2
      <4>2. CASE i \in 1..Len(current)
        BY <4>2, <3>2 DEF LatestMessages
      <4> QED BY <4>1, <4>2, <3>2
    <3> QED BY <2>2, <3>1, <3>3, <3>4 DEF LatestMessages
  <2> QED BY <2>2, <2>3, <2>4
<1>2. CASE Finish
  <2>1. Len(current') = 0 /\ taken' = taken
    BY <1>2 DEF Finish
  <2> QED BY <2>1 DEF LatestMessages, PackTypeOK
<1> QED BY <1>1, <1>2 DEF PackNext

LEMMA PackLimits ==
  ASSUME PackTypeOK, OpenBatch, AllWithinLimits, PackNext
  PROVE  AllWithinLimits'
<1>1. Limit \in Nat /\ MaxMessages \in Nat \ {0} /\ 1 <= MaxMessages
  BY FramingAssumption DEF Limit
<1>2. ASSUME NEW m \in MessageSizes PROVE WithinLimits(<<m>>)
  <2>1. m.chars \in Nat /\ Chars(<<m>>) = 2 + m.chars
    BY CharsOfLonger, FramingAssumption DEF PackTypeOK
  <2>2. Len(<<m>>) = 1 /\ <<m>>[1] = m
    OBVIOUS
  <2>3. IsOversized(m) \/ Chars(<<m>>) <= Limit
    BY <1>1, <2>1 DEF IsOversized
  <2> QED BY <1>1, <2>2, <2>3 DEF WithinLimits
<1>3. ASSUME batches' = Append(batches, current)
      PROVE  \A i \in 1..Len(batches') : WithinLimits(batches'[i])
  <2>1. PICK bs : bs = batches'
    OBVIOUS
  <2>2. /\ Len(batches) \in Nat /\ Len(bs) = Len(batches) + 1 /\ bs[Len(batches) + 1] = current
        /\ \A i \in 1..Len(batches) : bs[i] = batches[i]
    BY <1>3, <2>1 DEF PackTypeOK
  <2>3. \A i \in 1..Len(bs) : i \in 1..Len(batches) \/ i = Len(batches) + 1
    BY <2>2
  <2> QED BY <2>1, <2>2, <2>3 DEF AllWithinLimits
<1>4. CASE Pack
  <2>1. PICK m : m = input[taken + 1]
    OBVIOUS
  <2>2. m \in MessageSizes /\ m.chars \in Nat /\ (Closes(m) \/ Adds(m))
    BY <1>4, <2>1, PackCases, FramingAssumption
  <2>3. CASE Closes(m)
    <3>1. current' = <<m>> /\ batches' = Append(batches, current)
      BY <2>3 DEF Closes
    <3>2. WithinLimits(current)'
      BY <1>2, <2>2, <3>1 DEF WithinLimits
    <3> QED BY <1>3, <3>1, <3>2 DEF AllWithinLimits, WithinLimits
  <2>4. CASE Adds(m)
    <3>1. current' = Append(current, m) /\ batches' = batches
      BY <2>4 DEF Adds
    <3>2. CASE current = <<>>
      <4>1. current' = <<m>>
        BY <3>1, <3>2
      <4>2. WithinLimits(current)'
        BY <1>2, <2>2, <4>1 DEF WithinLimits
      <4> QED BY <3>1, <4>2 DEF AllWithinLimits, WithinLimits
    <3>3. CASE current # <<>>
      <4>1. /\ Chars(current) \in Nat
            /\ Chars(Append(current, m)) = Chars(current) + 1 + m.chars
        BY <2>2, CharsOfLonger DEF PackTypeOK
      <4>2. size = Chars(current)
        BY <3>3 DEF OpenBatch
      <4>3. size + 1 + m.chars <= Limit /\ Len(current) < MaxMessages
        <5>1. ~ (size + 1 + m.chars > Limit) /\ ~ (Len(current) >= MaxMessages)
          BY <2>4, <3>3 DEF Adds, Overflows
        <5>2. Len(current) \in Nat
          BY DEF PackTypeOK
        <5> QED BY <1>1, <2>2, <4>1, <4>2, <5>1, <5>2
      <4>4. Chars(current') <= Limit
        BY <3>1, <4>1, <4>2, <4>3, <1>1, <2>2
      <4>5. Len(current') <= MaxMessages
        <5>1. Len(current) \in Nat /\ Len(current') = Len(current) + 1
          BY <3>1, <2>2 DEF PackTypeOK
        <5> QED BY <5>1, <4>3, <1>1
      <4>6. WithinLimits(current)'
        BY <4>4, <4>5 DEF WithinLimits
      <4> QED BY <3>1, <4>6 DEF AllWithinLimits, WithinLimits
    <3> QED BY <3>2, <3>3
  <2> QED BY <2>2, <2>3, <2>4
<1>5. CASE Finish
  <2>1. batches' = Append(batches, current) /\ current' = <<>>
    BY <1>5 DEF Finish
  <2>2. WithinLimits(current)'
    BY <2>1 DEF WithinLimits
  <2> QED BY <1>3, <2>1, <2>2 DEF AllWithinLimits, WithinLimits
<1> QED BY <1>4, <1>5 DEF PackNext

LEMMA PackLosesNothing ==
  ASSUME PackTypeOK, NothingLost, PackNext
  PROVE  NothingLost'
<1>1. PICK S : S = MessageSizes
  OBVIOUS
<1>2. PICK flat : flat = FlattenSeq(batches)
  OBVIOUS
<1>3. current \in Seq(S) /\ batches \in Seq(Seq(S)) /\ input \in Seq(S)
  BY <1>1 DEF PackTypeOK
<1>4. flat \in Seq(S) /\ FlattenSeq(Append(batches, current)) = flat \o current
  BY <1>2, <1>3, FlattenLonger
<1>5. flat \o current = SubSeq(input, 1, taken)
  BY <1>2 DEF NothingLost
<1>6. CASE Pack
  <2>1. PICK m : m = input[taken + 1]
    OBVIOUS
  <2>2. /\ taken + 1 \in 1..Len(input) /\ taken' = taken + 1 /\ input' = input
        /\ m \in S /\ (Closes(m) \/ Adds(m))
    BY <1>1, <1>6, <2>1, PackCases
  <2>3. SubSeq(input, 1, taken + 1) = Append(flat \o current, m)
    <3>1. 1 \in 1..Len(input) /\ taken + 1 \in 1..Len(input) /\ (taken + 1) - 1 = taken
      BY <2>2 DEF PackTypeOK
    <3>2. SubSeq(input, 1, taken + 1) = Append(SubSeq(input, 1, (taken + 1) - 1), input[taken + 1])
      BY <1>3, <3>1, SubSeqRecursiveSecond
    <3> QED BY <1>5, <2>1, <3>1, <3>2
  <2>4. CASE Closes(m)
    <3>1. FlattenSeq(batches') \o current' = (flat \o current) \o <<m>>
      BY <1>4, <2>4 DEF Closes
    <3>2. (flat \o current) \o <<m>> = Append(flat \o current, m)
      BY <1>3, <1>4, <2>2
    <3> QED BY <2>2, <2>3, <3>1, <3>2 DEF NothingLost
  <2>5. CASE Adds(m)
    <3>1. FlattenSeq(batches') \o current' = flat \o Append(current, m)
      BY <1>2, <2>5 DEF Adds
    <3>2. flat \o Append(current, m) = Append(flat \o current, m)
      BY <1>3, <1>4, <2>2
    <3> QED BY <2>2, <2>3, <3>1, <3>2 DEF NothingLost
  <2> QED BY <2>2, <2>4, <2>5
<1>7. CASE Finish
  <2>1. FlattenSeq(batches') \o current' = (flat \o current) \o <<>>
    BY <1>4, <1>7 DEF Finish
  <2>2. (flat \o current) \o <<>> = flat \o current
    BY <1>3, <1>4
  <2> QED BY <1>5, <1>7, <2>1, <2>2 DEF NothingLost, Finish
<1> QED BY <1>6, <1>7 DEF PackNext

LEMMA MeasureGrows ==
  ASSUME NEW s \in Seq(MessageSizes), NEW f \in [0..Len(s) -> Nat], Measures(f, s, "chars")
  PROVE  \A j \in 0..Len(s) : \A i \in 0..j : f[i] <= f[j]
<1> DEFINE Q(j) == \A i \in 0..j : f[i] <= f[j]
           T == {j \in Nat : j <= Len(s) => Q(j)}
<1>1. /\ Len(s) \in Nat /\ \A i \in 0..Len(s) : f[i] \in Nat
      /\ \A i \in 1..Len(s) : f[i] = f[i - 1] + s[i]["chars"] + 1 /\ s[i]["chars"] \in Nat
  <2>1. \A i \in 1..Len(s) : s[i] \in MessageSizes
    OBVIOUS
  <2>2. \A m \in MessageSizes : m.chars \in Nat /\ m["chars"] = m.chars
    BY FramingAssumption
  <2>3. \A i \in 1..Len(s) : f[i] = f[i - 1] + s[i]["chars"] + 1
    BY DEF Measures
  <2>4. Len(s) \in Nat /\ \A i \in 0..Len(s) : f[i] \in Nat
    OBVIOUS
  <2>5. \A i \in 1..Len(s) : s[i]["chars"] \in Nat
    BY <2>1, <2>2
  <2> QED BY <2>3, <2>4, <2>5
<1>2. 0 \in T
  BY <1>1
<1>3. ASSUME NEW j \in 1..Len(s), j - 1 \in T PROVE j \in T
  <2>1. j - 1 \in 0..Len(s) /\ \A i \in 0..(j - 1) : f[i] <= f[j - 1]
    BY <1>1, <1>3
  <2>2. f[j - 1] \in Nat /\ f[j] \in Nat /\ f[j - 1] <= f[j]
    <3>1. PICK x, y, z : x = f[j - 1] /\ y = f[j] /\ z = s[j]["chars"]
      OBVIOUS
    <3>2. x \in Nat /\ y \in Nat /\ y = x + z + 1 /\ z \in Nat
      BY <1>1, <2>1, <3>1
    <3> QED BY <3>1, <3>2
  <2>3. ASSUME NEW i \in 0..j PROVE f[i] <= f[j]
    <3>1. CASE i = j
      BY <2>2, <3>1
    <3>2. CASE i \in 0..(j - 1)
      <4>1. f[i] \in Nat /\ f[i] <= f[j - 1]
        BY <1>1, <2>1, <3>2
      <4> QED BY <2>2, <4>1
    <3> QED BY <3>1, <3>2
  <2> QED BY <2>3
<1> HIDE DEF T
<1>4. 0..Len(s) \subseteq T
  BY <1>1, <1>2, <1>3, Climbing
<1>5. ASSUME NEW j \in 0..Len(s) PROVE Q(j)
  <2>1. j \in T
    BY <1>4
  <2>2. j <= Len(s)
    OBVIOUS
  <2> QED BY <2>1, <2>2 DEF T
<1> QED BY <1>5

\* Whether a run of messages fits, by numbers.
FitsTo(f, k, n) == n = k \/ (1 + f[n] - f[k - 1] <= Limit /\ n - k + 1 <= MaxMessages)

LEMMA FitsIs ==
  ASSUME NEW s \in Seq(MessageSizes), NEW f \in [0..Len(s) -> Nat], Measures(f, s, "chars"),
         NEW k \in 1..Len(s), NEW n \in k..Len(s)
  PROVE  Fits(SubSeq(s, k, n)) <=> FitsTo(f, k, n)
<1>1. PICK b : b = SubSeq(s, k, n)
  OBVIOUS
<1>2. Len(b) = n - k + 1 /\ Chars(b) = 1 + f[n] - f[k - 1]
  BY <1>1, CharsOfSpan
<1>3. Len(b) = 1 <=> n = k
  BY <1>2
<1> QED BY <1>1, <1>2, <1>3 DEF Fits, FitsTo

\* A part of what fits, fits.
LEMMA FitsInside ==
  ASSUME NEW s \in Seq(MessageSizes), NEW k \in 1..Len(s), NEW l \in k..Len(s),
         NEW n \in l..Len(s), Fits(SubSeq(s, k, n))
  PROVE  Fits(SubSeq(s, k, l)) /\ Fits(SubSeq(s, l, n))
<1>1. PICK f \in [0..Len(s) -> Nat] : Measures(f, s, "chars")
  BY MeasureExists
<1>2. Len(s) \in Nat /\ n \in k..Len(s) /\ l \in 1..Len(s) /\ \A i \in 0..Len(s) : f[i] \in Nat
  BY <1>1
<1>3. FitsTo(f, k, n)
  BY <1>1, <1>2, FitsIs
<1>4. Limit \in Nat /\ MaxMessages \in Nat
  BY FramingAssumption DEF Limit
<1>5. f[k - 1] <= f[l - 1] /\ f[l] <= f[n]
  <2>1. l - 1 \in 0..Len(s) /\ k - 1 \in 0..(l - 1) /\ n \in 0..Len(s) /\ l \in 0..n
    BY <1>2
  <2> QED BY <1>1, <2>1, MeasureGrows
<1>6. PICK x1, x2, y1, y2 : x1 = f[k - 1] /\ x2 = f[l - 1] /\ y1 = f[l] /\ y2 = f[n]
  OBVIOUS
<1>7. /\ x1 \in Nat /\ x2 \in Nat /\ y1 \in Nat /\ y2 \in Nat /\ x1 <= x2 /\ y1 <= y2
      /\ k \in Int /\ l \in Int /\ n \in Int /\ k <= l /\ l <= n
  BY <1>2, <1>5, <1>6
<1>8. n = k \/ (1 + y2 - x1 <= Limit /\ n - k + 1 <= MaxMessages)
  BY <1>3, <1>6 DEF FitsTo
<1>9. l = k \/ (1 + y1 - x1 <= Limit /\ l - k + 1 <= MaxMessages)
  BY <1>4, <1>7, <1>8
<1>10. n = l \/ (1 + y2 - x2 <= Limit /\ n - l + 1 <= MaxMessages)
  BY <1>4, <1>7, <1>8
<1>11. FitsTo(f, k, l) /\ FitsTo(f, l, n)
  BY <1>6, <1>9, <1>10 DEF FitsTo
<1> QED BY <1>1, <1>2, <1>11, FitsIs

\* The next message fits into the open batch, or the batch is closed.
LEMMA FitsOrCloses ==
  ASSUME PackTypeOK, OpenBatch, LatestMessages, current # <<>>, taken + 1 \in 1..Len(input)
  PROVE  LET start == taken - Len(current) + 1
         IN  /\ start \in 1..taken
             /\ Fits(SubSeq(input, start, taken + 1)) <=> ~ Overflows(input[taken + 1])
<1> DEFINE start == taken - Len(current) + 1
<1>1. PICK f \in [0..Len(input) -> Nat] : Measures(f, input, "chars")
  BY MeasureExists DEF PackTypeOK
<1>2. /\ Len(input) \in Nat /\ Len(current) \in Nat \ {0} /\ Len(current) <= taken
      /\ input \in Seq(MessageSizes)
  BY DEF PackTypeOK, LatestMessages
<1>3. start \in 1..taken /\ start \in 1..Len(input) /\ taken \in start..Len(input)
      /\ taken + 1 \in start..Len(input)
  BY <1>2
<1>4. PICK b : b = SubSeq(input, start, taken)
  OBVIOUS
<1>5. b = current
  <2>1. b \in Seq(MessageSizes) /\ Len(b) = taken - start + 1
    BY <1>1, <1>2, <1>3, <1>4, CharsOfSpan
  <2>2. \A i \in 1..(taken - start + 1) : b[i] = input[start + i - 1]
    <3>1. \A i \in start..taken : input[i] \in MessageSizes
      BY <1>2, <1>3
    <3>2. start \in Int /\ taken \in Int
      BY <1>3
    <3> QED BY <1>4, <3>1, <3>2, SubSeqProperties
  <2>3. taken - start + 1 = Len(current)
    BY <1>2, <1>3
  <2>4. ASSUME NEW i \in 1..Len(current) PROVE b[i] = current[i]
    <3>1. start + i - 1 = taken - Len(current) + i
      BY <1>2, <1>3
    <3> QED BY <2>2, <2>3, <3>1 DEF LatestMessages
  <2>5. current \in Seq(MessageSizes)
    BY DEF PackTypeOK
  <2> QED BY <2>1, <2>3, <2>4, <2>5, SeqEqual
<1>6. PICK p, q, r : p = f[start - 1] /\ q = f[taken] /\ r = f[taken + 1]
  OBVIOUS
<1>7. PICK m : m = input[taken + 1]
  OBVIOUS
<1>8. /\ p \in Nat /\ q \in Nat /\ r \in Nat /\ m.chars \in Nat
      /\ r = q + m.chars + 1
  <2>1. start - 1 \in 0..Len(input) /\ taken \in 0..Len(input) /\ taken + 1 \in 0..Len(input)
        /\ (taken + 1) - 1 = taken
    BY <1>2, <1>3
  <2>2. f[taken + 1] = f[(taken + 1) - 1] + input[taken + 1]["chars"] + 1
    BY <1>1 DEF Measures
  <2>3. m \in MessageSizes /\ m["chars"] = m.chars /\ m.chars \in Nat
    BY <1>2, <1>7, FramingAssumption
  <2> QED BY <1>1, <1>6, <1>7, <2>1, <2>2, <2>3
<1>9. size = 1 + q - p
  <2>1. Chars(b) = 1 + f[taken] - f[start - 1]
    BY <1>1, <1>2, <1>3, <1>4, CharsOfSpan
  <2> QED BY <1>5, <1>6, <2>1 DEF OpenBatch
<1>10. Fits(SubSeq(input, start, taken + 1)) <=> FitsTo(f, start, taken + 1)
  <2> HIDE DEF start
  <2> QED BY <1>1, <1>2, <1>3, FitsIs
<1>11. taken + 1 # start /\ (taken + 1) - start + 1 = Len(current) + 1
  BY <1>2, <1>3
<1>12. FitsTo(f, start, taken + 1) <=> 1 + r - p <= Limit /\ Len(current) + 1 <= MaxMessages
  BY <1>6, <1>11 DEF FitsTo
<1>13. Overflows(m) <=> size + 1 + m.chars > Limit \/ Len(current) >= MaxMessages
  BY DEF Overflows
<1>14. Limit \in Nat /\ MaxMessages \in Nat
  BY FramingAssumption DEF Limit
<1>16. size \in Nat
  BY DEF PackTypeOK
<1>15. 1 + r - p = size + 1 + m.chars
  <2>1. PICK c : c = m.chars
    OBVIOUS
  <2>2. c \in Nat /\ r = q + c + 1 /\ p \in Nat /\ q \in Nat
    BY <1>8, <2>1
  <2>3. 1 + r - p = size + 1 + c
    BY <1>9, <1>16, <2>2
  <2> QED BY <2>1, <2>3
<1>17. FitsTo(f, start, taken + 1) <=> ~ Overflows(m)
  <2>1. PICK n : n = Len(current)
    OBVIOUS
  <2>2. n \in Nat /\ (n + 1 <= MaxMessages <=> ~ (n >= MaxMessages))
    BY <1>2, <1>14, <2>1
  <2>3. 1 + r - p <= Limit <=> ~ (size + 1 + m.chars > Limit)
    <3>1. PICK u : u = size + 1 + m.chars
      OBVIOUS
    <3>2. u \in Nat /\ (u <= Limit <=> ~ (u > Limit))
      BY <1>8, <1>14, <1>16, <3>1
    <3> QED BY <1>15, <3>1, <3>2
  <2> QED BY <1>12, <1>13, <2>1, <2>2, <2>3
<1> QED BY <1>3, <1>7, <1>10, <1>17

LEMMA PackNoneLater ==
  ASSUME PackInv, PackNext
  PROVE  NoneLater'
<1>1. PICK F : F = FewestFor
  OBVIOUS
<1>2. PICK B : B = Len(batches)
  OBVIOUS
<1>3. PICK start : start = taken - Len(current)
  OBVIOUS
<1>4. /\ Len(input) \in Nat /\ taken \in 0..Len(input) /\ B \in Nat
      /\ Len(current) \in Nat /\ start \in 0..taken /\ (current # <<>> => start \in 0..(taken - 1))
      /\ input \in Seq(MessageSizes) /\ current \in Seq(MessageSizes)
      /\ batches \in Seq(Seq(MessageSizes))
  BY <1>2, <1>3 DEF PackInv, PackTypeOK, LatestMessages
<1>5. /\ F[0] = 0
      /\ \A n \in 0..Len(input) : F[n] \in Nat
      /\ \A n \in 1..Len(input) :
           /\ \E k \in Starts(n) : F[n] = 1 + F[k - 1]
           /\ \A k \in Starts(n) : F[n] <= 1 + F[k - 1]
  BY <1>1, <1>4, FewestForIs
<1>6. F[start] = B /\ \A n \in (start + 1)..taken : F[n] = B + 1
  BY <1>1, <1>2, <1>3 DEF PackInv, NoneLater
<1>7. FewestFor' = F
  <2>1. input' = input
    BY PackTypes DEF PackInv
  <2> QED BY <1>1, <2>1 DEF FewestFor
<1>8. CASE Pack
  <2>1. PICK m : m = input[taken + 1]
    OBVIOUS
  <2>2. PICK n : n = taken + 1
    OBVIOUS
  <2>3. /\ n \in 1..Len(input) /\ n = taken + 1 /\ taken' = n
        /\ m \in MessageSizes /\ (Closes(m) \/ Adds(m))
    BY <1>8, <2>1, <2>2, PackCases DEF PackInv
  <2>4. PICK k \in Starts(n) : F[n] = 1 + F[k - 1]
    BY <1>5, <2>3
  <2>5. k \in 1..n /\ Fits(SubSeq(input, k, n)) /\ F[k - 1] \in Nat /\ F[n] \in Nat
    <3>1. k \in 1..n /\ Fits(SubSeq(input, k, n))
      BY DEF Starts
    <3> QED BY <3>1, <2>3, <1>5
  <2>6. CASE current = <<>>
    <3>1. taken = 0 /\ start = 0 /\ k = 1
      BY <1>3, <1>4, <2>3, <2>5, <2>6 DEF PackInv, OpenBatch
    <3>2. F[1] = 1 /\ B = 0 /\ n = 1
      BY <1>5, <1>6, <2>2, <2>4, <3>1
    <3>3. Adds(m)
      BY <2>3, <2>6 DEF Closes, Overflows
    <3>4. current' = <<m>> /\ batches' = batches
      BY <2>6, <3>3 DEF Adds
    <3>5. Len(current') = 1 /\ taken' = 1 /\ Len(batches') = B
      BY <1>2, <2>3, <3>2, <3>4
    <3>6. taken' - Len(current') = 0
      BY <3>5
    <3>7. \A i \in 1..1 : F[i] = 1
      BY <3>2
    <3> QED BY <1>5, <1>7, <3>2, <3>5, <3>6, <3>7 DEF NoneLater
  <2>7. CASE current # <<>>
    <3>1. start + 1 \in 1..taken /\ (Fits(SubSeq(input, start + 1, n)) <=> ~ Overflows(m))
      BY <1>3, <2>1, <2>2, <2>3, <2>7, FitsOrCloses DEF PackInv
    <3>2. CASE Closes(m)
      <4>1. k - 1 \in (start + 1)..taken
        <5> SUFFICES ASSUME ~ (k > start + 1) PROVE FALSE
          BY <1>4, <2>3, <2>5
        <5>1. start + 1 \in k..Len(input) /\ n \in (start + 1)..Len(input) /\ k \in 1..Len(input)
          BY <1>4, <2>3, <2>5, <3>1
        <5>2. Fits(SubSeq(input, start + 1, n))
          BY <1>4, <2>5, <5>1, FitsInside
        <5> QED BY <3>1, <3>2, <5>2 DEF Closes
      <4>2. F[n] = B + 2 /\ F[taken] = B + 1
        BY <1>4, <1>6, <2>4, <3>1, <4>1
      <4>3. taken' - Len(current') = taken /\ Len(batches') = B + 1
        BY <1>2, <1>4, <2>3, <3>2 DEF Closes
      <4>4. taken' = taken + 1
        BY <2>3
      <4>5. ASSUME NEW i \in (taken + 1)..(taken + 1) PROVE F[i] = (B + 1) + 1
        <5>1. i = n
          BY <1>4, <2>3
        <5> QED BY <1>4, <4>2, <5>1
      <4> QED BY <1>7, <4>2, <4>3, <4>4, <4>5 DEF NoneLater
    <3>3. CASE Adds(m)
      <4>1. F[n] <= B + 1
        <5>1. start + 1 \in Starts(n)
          BY <1>4, <2>3, <3>1, <3>3 DEF Adds, Starts
        <5>2. F[n] <= 1 + F[(start + 1) - 1]
          BY <1>5, <2>3, <5>1
        <5>3. (start + 1) - 1 = start
          BY <1>4
        <5>4. F[start] = B
          BY <1>6
        <5> QED BY <5>2, <5>3, <5>4, <1>4
      <4>2. F[k - 1] >= B
        <5>1. CASE k - 1 < start
          <6>1. /\ start + 1 \in k..Len(input) /\ n \in (start + 1)..Len(input)
                /\ k \in 1..Len(input) /\ start + 1 \in 1..Len(input)
            BY <1>4, <2>3, <2>5, <3>1, <5>1
          <6>2. Fits(SubSeq(input, k, start + 1))
            BY <1>4, <2>5, <6>1, FitsInside
          <6>3. k \in Starts(start + 1)
            BY <6>1, <6>2 DEF Starts
          <6>4. F[start + 1] <= 1 + F[k - 1]
            BY <1>5, <6>1, <6>3
          <6>5. F[start + 1] = B + 1
            BY <1>6, <3>1, <1>4
          <6> QED BY <1>4, <2>5, <6>4, <6>5
        <5>2. CASE k - 1 = start
          BY <1>4, <1>6, <5>2
        <5>3. CASE k - 1 > start
          <6>1. k - 1 \in (start + 1)..taken
            BY <1>4, <2>3, <2>5, <5>3
          <6>2. F[k - 1] = B + 1
            BY <1>6, <6>1
          <6> QED BY <1>4, <6>2
        <5> QED BY <1>4, <2>5, <5>1, <5>2, <5>3
      <4>3. F[n] = B + 1
        BY <1>4, <2>4, <2>5, <4>1, <4>2
      <4>4. taken' - Len(current') = start /\ Len(batches') = B
        <5>1. Len(current') = Len(current) + 1
          BY <1>4, <2>3, <3>3 DEF Adds
        <5> QED BY <1>2, <1>3, <1>4, <2>3, <3>3, <5>1 DEF Adds
      <4>5. \A i \in (start + 1)..n : i \in (start + 1)..taken \/ i = n
        BY <1>4, <2>3
      <4> QED BY <1>6, <1>7, <2>3, <4>3, <4>4, <4>5 DEF NoneLater
    <3> QED BY <2>3, <3>2, <3>3
  <2> QED BY <2>6, <2>7
<1>9. CASE Finish
  <2>1. /\ current # <<>> /\ taken' = taken /\ Len(current') = 0 /\ Len(batches') = B + 1
    BY <1>2, <1>4, <1>9 DEF Finish
  <2>2. F[taken] = B + 1
    BY <1>4, <1>6, <2>1
  <2>3. taken' - Len(current') = taken /\ \A i \in (taken + 1)..taken : FALSE
    BY <1>4, <2>1
  <2> QED BY <1>7, <2>1, <2>2, <2>3 DEF NoneLater
<1> QED BY <1>8, <1>9 DEF PackNext

LEMMA PackStepInv == PackInv /\ [PackNext]_packVars => PackInv'
<1> SUFFICES ASSUME PackInv, [PackNext]_packVars PROVE PackInv'
  OBVIOUS
<1>1. CASE PackNext
  <2>1. PackTypeOK' /\ OpenBatch' /\ LatestMessages'
    BY <1>1, PackTypes, PackOpenBatch, PackLatest DEF PackInv
  <2>2. AllWithinLimits' /\ NothingLost' /\ NoneLater'
    BY <1>1, PackLimits, PackLosesNothing, PackNoneLater DEF PackInv
  <2> QED BY <2>1, <2>2 DEF PackInv
<1>2. CASE UNCHANGED packVars
  <2>1. /\ input' = input /\ taken' = taken /\ current' = current
        /\ size' = size /\ batches' = batches
    BY <1>2 DEF packVars
  <2>2. PackTypeOK' /\ OpenBatch' /\ LatestMessages'
    BY <2>1 DEF PackInv, PackTypeOK, OpenBatch, LatestMessages
  <2>3. AllWithinLimits' /\ NothingLost'
    BY <2>1 DEF PackInv, AllWithinLimits, WithinLimits, NothingLost
  <2>4. FewestFor' = FewestFor
    BY <2>1 DEF FewestFor
  <2>5. NoneLater'
    BY <2>1, <2>4 DEF PackInv, NoneLater
  <2> QED BY <2>2, <2>3, <2>5 DEF PackInv
<1> QED BY <1>1, <1>2

\* Packing keeps every message, once and in its place, whatever the messages and
\* the limits are.
THEOREM NothingLostCorrect == PackSpec => []NothingLost
<1>1. PackInv => NothingLost
  BY DEF PackInv
<1> QED BY <1>1, PackInitInv, PackStepInv, PTL DEF PackSpec

\* No payload exceeds a limit in characters or number, but for a message that
\* does so alone, and the loop's running size is the size it stands for.
THEOREM PayloadsFitCorrect == PackSpec => []PayloadsFit
<1>1. PackInv => PayloadsFit
  <2> SUFFICES ASSUME PackInv PROVE PayloadsFit
    OBVIOUS
  <2>1. ASSUME NEW b \in ToSet(batches) \cup {current} PROVE WithinLimits(b)
    <3>1. ToSet(batches) = {batches[i] : i \in 1..Len(batches)}
      BY DEF ToSet, PackInv, PackTypeOK
    <3> QED BY <3>1 DEF PackInv, AllWithinLimits
  <2> QED BY <2>1 DEF PayloadsFit, WithinLimits, PackInv, OpenBatch
<1> QED BY <1>1, PackInitInv, PackStepInv, PTL DEF PackSpec

\* No way of packing the messages in order takes fewer payloads than the greedy
\* one of the loop.
THEOREM FewestPayloadsCorrect == PackSpec => []FewestPayloads
<1>1. PackInv => FewestPayloads
  <2> SUFFICES ASSUME PackInv, Done PROVE Len(batches) = FewestFor[Len(input)]
    BY DEF FewestPayloads
  <2>1. taken = Len(input) /\ Len(current) = 0 /\ taken \in Int
    BY DEF Done, PackInv, PackTypeOK
  <2>2. taken - Len(current) = Len(input)
    BY <2>1
  <2> QED BY <2>2 DEF PackInv, NoneLater
<1> QED BY <1>1, PackInitInv, PackStepInv, PTL DEF PackSpec
=============================================================================
