--------------------------- MODULE IngressProofs ---------------------------
(***************************************************************************)
(* Proofs about Ingress: the cache of seen events never keeps an event     *)
(* from being handled that has not been handled, for any relays, events,   *)
(* windows, limits and capacity; and it keeps every event from being       *)
(* handled twice if it has room for what passes while an event does.       *)
(* And about Protocol: messages that one side wraps in an event the other  *)
(* reads, and tags that are meant for others do not matter.                *)
(***************************************************************************)
EXTENDS Ingress, QueueLemmas, SequencesExt

Inv == seen \in Seq(Events) /\ RefusedCanReturn

\* Remembering adds the one event at most, whatever is forgotten for it.
LEMMA RememberAddsOne ==
  ASSUME seen \in Seq(Events), NEW e \in Events, Remember(e)
  PROVE  seen' \in Seq(Events) /\ Seen' \subseteq Seen \cup {e}
<1> DEFINE all == Append(seen, e)
<1>1. /\ all \in Seq(Events) /\ Len(all) = Len(seen) + 1
      /\ \A i \in 1..Len(all) : all[i] \in Seen \cup {e}
  BY DEF Seen
<1>2. CASE seen' = all
  BY <1>1, <1>2 DEF Seen
<1>3. CASE seen' = Tail(all)
  <2>1. /\ seen' \in Seq(Events) /\ Len(seen') = Len(seen)
        /\ \A i \in 1..Len(seen') : i + 1 \in 1..Len(all) /\ seen'[i] = all[i + 1]
    <3> HIDE DEF all
    <3>1. all # <<>> /\ Len(seen) \in Nat
      BY <1>1
    <3> QED BY <3>1, <1>1, <1>3
  <2> QED BY <2>1, <1>1 DEF Seen
<1> QED BY <1>2, <1>3 DEF Remember

LEMMA InitInv == Init => Inv
BY DEF Init, Inv, RefusedCanReturn, Seen

LEMMA StepInv == ASSUME Inv, [Next]_vars PROVE Inv'
<1>1. ASSUME UNCHANGED <<seen, handled>> PROVE Inv'
  BY <1>1 DEF Inv, RefusedCanReturn, Seen
<1>2. ASSUME NEW e \in Events, Rejected(e) \/ RateLimited(e) \/ Duplicate(e) PROVE Inv'
  BY <1>1, <1>2 DEF Rejected, RateLimited, Duplicate, historyVars
<1>3. ASSUME NEW e \in Events, Accepted(e) PROVE Inv'
  <2>1. seen' \in Seq(Events) /\ Seen' \subseteq Seen \cup {e}
    BY <1>3, RememberAddsOne DEF Accepted, Inv
  <2>2. handled \cup ({e} \ Garbled) \subseteq handled'
    BY <1>3 DEF Accepted, historyVars
  <2> QED BY <2>1, <2>2 DEF Inv, RefusedCanReturn
<1>4. CASE Restart
  BY <1>4 DEF Restart, Inv, RefusedCanReturn, Seen
<1>5. CASE Forget \/ Tick \/ (\E r \in Relays : Resubscribe(r)) \/ UNCHANGED vars
  BY <1>1, <1>5 DEF Forget, Tick, Resubscribe, vars, historyVars
<1> QED BY <1>2, <1>3, <1>4, <1>5 DEF Next, Deliver

\* What the limiter refused, or nobody delivered yet, is in no cache: whatever is
\* there was handed on by this run of the bridge, or cannot be read at all.
THEOREM RefusedCanReturnCorrect == Spec => []RefusedCanReturn
<1>1. Inv => RefusedCanReturn
  BY DEF Inv
<1> QED BY <1>1, InitInv, StepInv, PTL DEF Spec

----------------------------------------------------------------------------
\* The limiter is asked for the keys it knows, and stays of its type.
LEMMA AuthorIsKey == \A e \in Events : e \notin Malformed => Author(e) \in Keys
BY DEF Malformed, Admitted, Author

LEMMA TakeType ==
  ASSUME Limiter!TypeOK, NEW k \in Keys, Limiter!Take(k)
  PROVE  Limiter!TypeOK' /\ now' = now
<1> DEFINE b == Limiter!Current(k)
           have == Limiter!Lesser(Capacity, Limiter!Projected(b))
           new == [tokens |-> IF have >= Cost THEN have - Cost ELSE have, updated |-> now]
<1> USE IngressAssumption
<1>1. b \in Limiter!Buckets /\ now \in 0..MaxTime
  BY DEF Limiter!TypeOK, Limiter!Current, Limiter!Buckets
<1>2. Limiter!Greater(0, now - b.updated) \in Nat
  BY <1>1 DEF Limiter!Greater, Limiter!Buckets
<1>3. Limiter!Greater(0, now - b.updated) * Refill \in Nat
  BY <1>2
<1>4. Limiter!Projected(b) \in Nat
  BY <1>1, <1>3 DEF Limiter!Projected, Limiter!Buckets
<1>5. have \in 0..Capacity
  BY <1>4 DEF Limiter!Lesser
<1>6. new \in Limiter!Buckets /\ new.updated = now
  BY <1>1, <1>5 DEF Limiter!Buckets
<1>7. /\ bucket' = bucket \/ bucket' = [bucket EXCEPT ![k] = new]
      /\ outcome' \in [key : Keys, answer : {"allow", "refuse"}] /\ now' = now
  BY DEF Limiter!Take
<1> HIDE DEF new, have
<1> QED BY <1>1, <1>6, <1>7 DEF Limiter!TypeOK

LEMMA LimiterInit == Init => Limiter!TypeOK
<1> SUFFICES ASSUME Init PROVE Limiter!TypeOK
  OBVIOUS
<1> USE IngressAssumption
<1>1. now \in 0..MaxTime /\ bucket \in [Keys -> Limiter!Buckets \cup {None}]
      /\ \A k \in Keys : bucket[k] # None => bucket[k].updated <= now
  BY DEF Init, Limiter!Init
<1>2. outcome \in [key : Keys, answer : {"allow", "refuse"}]
  BY DEF Init, Limiter!Init
<1> QED BY <1>1, <1>2 DEF Limiter!TypeOK

LEMMA LimiterStep ==
  ASSUME Limiter!TypeOK, [Next]_vars
  PROVE  Limiter!TypeOK' /\ now' >= now /\ now \in Nat /\ now' \in Nat
<1> USE IngressAssumption
<1>0. now \in 0..MaxTime
  BY DEF Limiter!TypeOK
<1>1. CASE UNCHANGED limiterVars
  BY <1>0, <1>1 DEF limiterVars, Limiter!TypeOK
<1>2. ASSUME NEW k \in Keys, Limiter!Take(k)
      PROVE  Limiter!TypeOK' /\ now' >= now /\ now \in Nat /\ now' \in Nat
  BY <1>0, <1>2, TakeType
<1>3. CASE \E r \in Relays, e \in Events : Deliver(r, e)
  <2> PICK r \in Relays, e \in Events : Deliver(r, e)
    BY <1>3
  <2> QED BY <1>1, <1>2, AuthorIsKey DEF Deliver, Rejected, RateLimited, Duplicate, Accepted
<1>4. CASE Forget
  BY <1>0, <1>4 DEF Forget, Limiter!ForgetFull, Limiter!TypeOK
<1>5. CASE Tick
  BY <1>0, <1>5 DEF Tick, Limiter!Tick, Limiter!TypeOK, Limiter!Buckets
<1>6. CASE Restart
  BY <1>0, <1>6 DEF Restart, Limiter!TypeOK
<1>7. CASE (\E r \in Relays : Resubscribe(r)) \/ UNCHANGED vars
  BY <1>1, <1>7 DEF Resubscribe, vars
<1> QED BY <1>3, <1>4, <1>5, <1>6, <1>7 DEF Next

\* What the cache holds after a new event: all, or all but the oldest.
LEMMA RememberShape ==
  ASSUME seen \in Seq(Events), Len(seen) <= SeenCapacity, NEW e \in Events, Remember(e)
  PROVE  \E o \in 0..1 :
           /\ seen' \in Seq(Events) /\ Len(seen') = Len(seen) + 1 - o
           /\ Len(seen') <= SeenCapacity /\ (o = 1 => Len(seen) = SeenCapacity)
           /\ \A i \in 1..Len(seen') : seen'[i] = IF i + o <= Len(seen) THEN seen[i + o] ELSE e
<1> PICK all : all = Append(seen, e)
  OBVIOUS
<1>1. /\ all \in Seq(Events) /\ Len(all) = Len(seen) + 1 /\ Len(seen) \in Nat
      /\ SeenCapacity \in Nat \ {0}
      /\ \A i \in 1..Len(all) : all[i] = IF i <= Len(seen) THEN seen[i] ELSE e
  BY IngressAssumption
<1>2. CASE Len(all) <= SeenCapacity
  <2>1. seen' = all
    BY <1>1, <1>2 DEF Remember
  <2>2. /\ seen' \in Seq(Events) /\ Len(seen') = Len(seen) + 1 - 0
        /\ Len(seen') <= SeenCapacity
        /\ \A i \in 1..Len(seen') : seen'[i] = IF i + 0 <= Len(seen) THEN seen[i + 0] ELSE e
    BY <1>1, <1>2, <2>1
  <2> QED BY <2>2
<1>3. CASE ~ (Len(all) <= SeenCapacity)
  <2>1. seen' = Tail(all) /\ all # <<>> /\ Len(seen) = SeenCapacity
    BY <1>1, <1>3 DEF Remember
  <2>2. /\ seen' \in Seq(Events) /\ Len(seen') = Len(all) - 1
        /\ \A i \in 1..Len(seen') : i + 1 \in 1..Len(all) /\ seen'[i] = all[i + 1]
    BY <1>1, <2>1
  <2>3. /\ Len(seen') = Len(seen) + 1 - 1 /\ Len(seen') <= SeenCapacity
        /\ \A i \in 1..Len(seen') : seen'[i] = IF i + 1 <= Len(seen) THEN seen[i + 1] ELSE e
    BY <1>1, <2>1, <2>2
  <2> QED BY <2>1, <2>2, <2>3
<1> QED BY <1>2, <1>3

\* What an event does to the history.
LEMMA TypeStep == TypeOK /\ [Next]_vars => TypeOK'
<1> SUFFICES ASSUME TypeOK, [Next]_vars PROVE TypeOK'
  OBVIOUS
<1>0. Limiter!TypeOK' /\ now \in 0..MaxTime
  BY LimiterStep DEF TypeOK, Limiter!TypeOK
<1>1. sent' \in [Relays -> SUBSET Events]
  BY DEF TypeOK, Next, Deliver, Resubscribe, Forget, Tick, Restart, vars, BeforeSince
<1>2. seen' \in Seq(Events) /\ Len(seen') <= SeenCapacity
  <2>1. CASE UNCHANGED seen
    BY <2>1 DEF TypeOK
  <2>2. CASE \E e \in Events : Remember(e)
    BY <2>2, RememberShape DEF TypeOK
  <2>3. CASE Restart
    <3>1. seen' = <<>>
      BY <2>3 DEF Restart
    <3>2. <<>> \in Seq(Events) /\ Len(<<>>) = 0 /\ SeenCapacity \in Nat
      BY IngressAssumption
    <3> QED BY <3>1, <3>2
  <2> QED BY <2>1, <2>2, <2>3 DEF Next, Deliver, Rejected, RateLimited, Duplicate, Accepted,
                                 Resubscribe, Forget, Tick, vars
<1>3. restarts' \in 0..MaxRestarts /\ started' \in 0..MaxTime
  <2>1. CASE Restart
    BY <1>0, <2>1, IngressAssumption DEF Restart, TypeOK
  <2>2. CASE ~ Restart
    BY <2>2 DEF Next, Deliver, Rejected, RateLimited, Duplicate, Accepted, Resubscribe, Forget,
                Tick, vars, historyVars, TypeOK
  <2> QED BY <2>1, <2>2
<1>4. handled' \subseteq Events /\ before' \subseteq Events /\ repeated' \subseteq Events
  <2>1. CASE UNCHANGED historyVars
    BY <2>1 DEF TypeOK, historyVars
  <2>2. CASE Restart
    BY <2>2 DEF TypeOK, Restart
  <2>3. CASE \E e \in Events : Accepted(e)
    BY <2>3 DEF TypeOK, Accepted, historyVars
  <2> QED BY <2>1, <2>2, <2>3 DEF Next, Deliver, Rejected, RateLimited, Duplicate, Resubscribe,
                                 Forget, Tick, vars
<1> QED BY <1>0, <1>1, <1>2, <1>3, <1>4 DEF TypeOK

LEMMA TypeInit == Init => TypeOK
<1> SUFFICES ASSUME Init PROVE TypeOK
  OBVIOUS
<1>1. <<>> \in Seq(Events) /\ Len(<<>>) = 0
  OBVIOUS
<1> QED BY <1>1, LimiterInit, IngressAssumption DEF Init, TypeOK, BeforeSince

\* The limiter, the cache and the history keep their types and bounds, whatever
\* is delivered, resubscribed, forgotten or restarted.
THEOREM IngressTypeCorrect == Spec => []TypeOK
BY TypeInit, TypeStep, PTL DEF Spec

----------------------------------------------------------------------------
\* An event that was handled is in the cache with everything that was accepted
\* after it, and all of that was accepted while it could be delivered again; or
\* it is too old by now.
Remembered(e) == \E i \in 1..Len(seen) : /\ seen[i] = e
                                         /\ \A j \in i..Len(seen) : seen[j] \in Near(e)

CacheDistinct == \A i, j \in 1..Len(seen) : i # j => seen[i] # seen[j]

Outdated(e) == MaxAge > 0 /\ CreatedAt(e) < now - MaxAge

\* It was not from the future when it passed, and is no more so later.
Arrived(e) == MaxFuture > 0 => CreatedAt(e) <= now + MaxFuture

SinceKept == started <= now /\ \A r \in Relays : BeforeSince(started) \subseteq sent[r]

HandledKept == \A e \in handled : Arrived(e) /\ (Remembered(e) \/ Outdated(e))

OInv == TypeOK /\ SinceKept /\ CacheDistinct /\ HandledKept /\ repeated = {}

LEMMA OInit == Init => OInv
<1> SUFFICES ASSUME Init PROVE OInv
  OBVIOUS
<1>1. now = 0 /\ started = 0
  BY DEF Init, Limiter!Init
<1>2. SinceKept
  BY <1>1 DEF Init, SinceKept
<1> QED BY <1>2, TypeInit DEF Init, OInv, CacheDistinct, HandledKept

LEMMA WindowsOverlap ==
  ASSUME NEW e \in Events, NEW f \in Events, f \notin Malformed, now \in Nat, InWindow(f),
         Arrived(e), ~ Outdated(e)
  PROVE  f \in Near(e)
<1>1. CreatedAt(e) \in Int /\ CreatedAt(f) \in Int /\ MaxAge \in Nat /\ MaxFuture \in Nat
  BY IngressAssumption DEF CreatedAt
<1>2. CASE MaxAge = 0 \/ MaxFuture = 0
  BY <1>2 DEF Near
<1>3. CASE MaxAge > 0 /\ MaxFuture > 0
  <2>1. /\ CreatedAt(f) >= now - MaxAge /\ CreatedAt(f) <= now + MaxFuture
        /\ CreatedAt(e) >= now - MaxAge /\ CreatedAt(e) <= now + MaxFuture
    BY <1>1, <1>3 DEF InWindow, Outdated, Arrived
  <2> HIDE DEF CreatedAt
  <2> QED BY <1>1, <2>1 DEF Near
<1> QED BY <1>1, <1>2, <1>3

\* No more distinct events than fit the cache pass while e may.
LEMMA RememberedStays ==
  ASSUME CacheSuffices, TypeOK, CacheDistinct, NEW e \in Events, Remembered(e),
         NEW f \in Near(e), f \notin Seen, Remember(f)
  PROVE  Remembered(e)'
<1> PICK n : n = Len(seen)
  OBVIOUS
<1>1. f \in Events /\ seen \in Seq(Events) /\ n <= SeenCapacity /\ n \in Nat
  BY DEF TypeOK, Near
<1>2. PICK o \in 0..1 :
        /\ Len(seen') = n + 1 - o /\ (o = 1 => n = SeenCapacity)
        /\ \A i \in 1..Len(seen') : seen'[i] = IF i + o <= n THEN seen[i + o] ELSE f
  BY <1>1, RememberShape
<1>3. PICK i \in 1..n : seen[i] = e /\ \A j \in i..n : seen[j] \in Near(e)
  BY DEF Remembered
<1>4. i > o
  <2> SUFFICES ASSUME o = 1, i = 1 PROVE FALSE
    BY <1>1
  <2> DEFINE all == [j \in 1..(n + 1) |-> IF j <= n THEN seen[j] ELSE f]
  <2>1. \A j \in 1..n : seen[j] \in Near(e) /\ seen[j] # f
    BY <1>3 DEF Seen
  <2>2. all \in [1..(n + 1) -> Near(e)]
    BY <1>1, <2>1
  <2>3. \A j, k \in 1..(n + 1) : j # k => all[j] # all[k]
    BY <1>1, <2>1 DEF CacheDistinct
  <2>4. IsFiniteSet(1..(n + 1)) /\ Cardinality(1..(n + 1)) = n + 1
    BY <1>1, FS_Interval
  <2>5. IsFiniteSet(Near(e)) /\ Cardinality(Near(e)) <= n /\ Cardinality(Near(e)) \in Nat
    BY <1>2, FS_CardinalityType DEF CacheSuffices
  <2> HIDE DEF all
  <2>6. \E j, k \in 1..(n + 1) : j # k /\ all[j] = all[k]
    BY <1>1, <2>2, <2>4, <2>5, FS_PigeonHole
  <2> QED BY <2>3, <2>6
<1>5. i - o \in 1..Len(seen') /\ seen'[i - o] = e
  BY <1>1, <1>2, <1>3, <1>4
<1>6. ASSUME NEW j \in (i - o)..Len(seen') PROVE seen'[j] \in Near(e)
  <2>1. j \in 1..Len(seen') /\ j + o >= i
    BY <1>1, <1>2, <1>3, <1>4
  <2>2. CASE j + o <= n
    <3>1. j + o \in i..n /\ seen'[j] = seen[j + o]
      BY <1>1, <1>2, <2>1, <2>2
    <3> QED BY <1>3, <3>1
  <2>3. CASE ~ (j + o <= n)
    BY <1>2, <2>1, <2>3
  <2> QED BY <2>2, <2>3
<1>7. Near(e)' = Near(e)
  BY DEF Near, Malformed, CreatedAt
<1> QED BY <1>5, <1>6, <1>7 DEF Remembered

\* The accepted event is new to this run of the bridge, and is remembered.
LEMMA AcceptedOnce ==
  ASSUME CacheSuffices, OInv, NEW r \in Relays, NEW e \in Events, e \notin sent[r], Accepted(e),
         now' = now
  PROVE  CacheDistinct' /\ HandledKept' /\ repeated' = {}
<1>0. /\ seen \in Seq(Events) /\ Len(seen) <= SeenCapacity /\ Len(seen) \in Nat
      /\ now \in Nat /\ started \in Nat /\ handled \subseteq Events
      /\ e \notin Malformed /\ InWindow(e) /\ e \notin Seen /\ Remember(e)
  BY IngressAssumption DEF OInv, TypeOK, Limiter!TypeOK, Accepted
<1>1. PICK o \in 0..1 :
        /\ Len(seen') = Len(seen) + 1 - o /\ (o = 1 => Len(seen) = SeenCapacity)
        /\ \A i \in 1..Len(seen') : seen'[i] = IF i + o <= Len(seen) THEN seen[i + o] ELSE e
  BY <1>0, RememberShape
<1>2. CacheDistinct'
  <2> SUFFICES ASSUME NEW i \in 1..Len(seen'), NEW j \in 1..Len(seen'), i < j
               PROVE  seen'[i] # seen'[j]
    BY <1>0, <1>1 DEF CacheDistinct
  <2>1. \A l \in 1..Len(seen) : seen[l] # e
    BY <1>0 DEF Seen
  <2> QED BY <1>0, <1>1, <2>1 DEF OInv, CacheDistinct
<1>3. e \notin handled
  <2>1. ~ Remembered(e)
    BY <1>0 DEF Remembered, Seen
  <2>2. ~ Outdated(e)
    BY <1>0, IngressAssumption DEF InWindow, Outdated, CreatedAt
  <2> QED BY <2>1, <2>2 DEF OInv, HandledKept
<1>4. e \notin TooOld
  BY DEF TooOld, BeforeSince, OInv, SinceKept
<1>5. repeated' = {}
  BY <1>3, <1>4 DEF Accepted, historyVars, OInv
<1>6. ASSUME NEW f \in handled PROVE Arrived(f)' /\ (Remembered(f)' \/ Outdated(f)')
  <2>0. Arrived(f)' = Arrived(f)
    BY DEF Arrived, CreatedAt
  <2>1. Arrived(f) /\ (Remembered(f) \/ Outdated(f)) /\ f \in Events
    BY <1>0 DEF OInv, HandledKept
  <2>2. CASE Outdated(f)
    BY <2>0, <2>1, <2>2 DEF Outdated, CreatedAt
  <2>3. CASE ~ Outdated(f)
    <3>1. e \in Near(f)
      BY <1>0, <2>1, <2>3, WindowsOverlap
    <3>2. Remembered(f)'
      BY <1>0, <2>1, <2>3, <3>1, RememberedStays DEF OInv
    <3> QED BY <2>0, <2>1, <3>2
  <2> QED BY <2>2, <2>3
<1>7. Arrived(e)' /\ Remembered(e)'
  <2>1. Arrived(e) /\ ~ Outdated(e)
    BY <1>0, IngressAssumption DEF InWindow, Outdated, Arrived, CreatedAt
  <2>6. Arrived(e)' = Arrived(e)
    BY DEF Arrived, CreatedAt
  <2>2. e \in Near(e)
    BY <1>0, <2>1, WindowsOverlap
  <2>3. Len(seen') \in 1..Len(seen') /\ seen'[Len(seen')] = e
    <3>1. o = 1 => Len(seen) >= 1
      BY <1>0, <1>1, IngressAssumption
    <3> QED BY <1>0, <1>1, <3>1
  <2>4. \A j \in Len(seen')..Len(seen') : seen'[j] = e
    BY <1>0, <1>1, <2>3
  <2>5. Near(e)' = Near(e)
    BY DEF Near, Malformed, CreatedAt
  <2> QED BY <2>1, <2>2, <2>3, <2>4, <2>5, <2>6 DEF Remembered
<1>8. handled' \subseteq handled \cup {e}
  BY DEF Accepted, historyVars
<1>9. \A f : CreatedAt(f)' = CreatedAt(f)
  BY DEF CreatedAt
<1> QED BY <1>2, <1>5, <1>6, <1>7, <1>8, <1>9 DEF HandledKept

LEMMA OStep ==
  ASSUME CacheSuffices
  PROVE  OInv /\ [Next]_vars => OInv'
<1> SUFFICES ASSUME OInv, [Next]_vars PROVE OInv'
  OBVIOUS
<1>0. /\ TypeOK' /\ now' >= now /\ now \in Nat /\ now' \in Nat /\ started \in Nat
      /\ MaxAge \in Nat /\ MaxFuture \in Nat /\ Slack \in Nat /\ handled \subseteq Events
      /\ \A e \in Events : CreatedAt(e) \in Int
  BY TypeStep, LimiterStep, IngressAssumption DEF OInv, TypeOK, CreatedAt
<1>1. SinceKept'
  <2>1. \A t \in Nat : started <= t => BeforeSince(started) \subseteq BeforeSince(t)
    BY <1>0 DEF BeforeSince
  <2>2. CASE Restart
    BY <1>0, <2>2 DEF Restart, SinceKept, BeforeSince, CreatedAt
  <2>3. CASE ~ Restart
    <3>1. started' = started
      BY <2>3 DEF Next, Deliver, Rejected, RateLimited, Duplicate, Accepted, Resubscribe, Forget,
                  Tick, vars, historyVars
    <3>2. \A q \in Relays : sent[q] \subseteq sent'[q] \/ sent'[q] = BeforeSince(now)
      BY <2>3 DEF Next, Deliver, Resubscribe, Forget, Tick, vars, OInv, TypeOK
    <3>3. BeforeSince(started)' = BeforeSince(started)
      BY <3>1 DEF BeforeSince, CreatedAt
    <3> QED BY <1>0, <2>1, <3>1, <3>2, <3>3 DEF SinceKept, OInv
  <2> QED BY <2>2, <2>3
<1>2. ASSUME UNCHANGED <<seen, handled, repeated>>
      PROVE  CacheDistinct' /\ HandledKept' /\ repeated' = {}
  <2>1. CacheDistinct' /\ repeated' = {}
    BY <1>2 DEF OInv, CacheDistinct
  <2>2. ASSUME NEW e \in handled PROVE (Arrived(e) /\ (Remembered(e) \/ Outdated(e)))'
    <3>1. Arrived(e) /\ (Remembered(e) \/ Outdated(e)) /\ CreatedAt(e) \in Int
      BY <1>0 DEF OInv, HandledKept
    <3>2. CreatedAt(e)' = CreatedAt(e) /\ Near(e)' = Near(e)
      BY DEF CreatedAt, Near, Malformed
    <3>3. Remembered(e) => Remembered(e)'
      BY <1>2, <3>2 DEF Remembered
    <3>4. Outdated(e) => Outdated(e)'
      BY <1>0, <3>1, <3>2 DEF Outdated
    <3>5. Arrived(e)'
      BY <1>0, <3>1, <3>2 DEF Arrived
    <3> QED BY <3>1, <3>2, <3>3, <3>4, <3>5
  <2> QED BY <1>2, <2>1, <2>2 DEF HandledKept
<1>3. CASE \E r \in Relays, e \in Events : Deliver(r, e)
  <2> PICK r \in Relays, e \in Events : Deliver(r, e)
    BY <1>3
  <2>1. CASE Accepted(e)
    <3>1. Author(e) \in Keys /\ Limiter!Take(Author(e)) /\ e \notin sent[r]
      BY <2>1, AuthorIsKey DEF Accepted, Deliver
    <3>2. now' = now
      BY <3>1 DEF Limiter!Take
    <3> QED BY <1>0, <1>1, <2>1, <3>1, <3>2, AcceptedOnce DEF OInv
  <2>2. CASE Rejected(e) \/ RateLimited(e) \/ Duplicate(e)
    BY <1>0, <1>1, <1>2, <2>2 DEF Rejected, RateLimited, Duplicate, historyVars, OInv
  <2> QED BY <2>1, <2>2 DEF Deliver
<1>4. CASE Restart
  BY <1>0, <1>1, <1>4 DEF Restart, OInv, CacheDistinct, HandledKept
<1>5. CASE Forget \/ Tick \/ (\E r \in Relays : Resubscribe(r)) \/ UNCHANGED vars
  BY <1>0, <1>1, <1>2, <1>5 DEF Forget, Tick, Resubscribe, vars, historyVars, OInv
<1> QED BY <1>3, <1>4, <1>5 DEF Next

\* A redelivered event is handled once while the bridge runs, by any relay and
\* after any reconnect, and after a restart nothing is handled again that is older
\* than the slack: if the cache has room for what passes while an event may be
\* delivered again.
THEOREM HandledOnceCorrect == CacheSuffices => (Spec => []HandledOnce)
<1> SUFFICES ASSUME CacheSuffices PROVE Spec => []HandledOnce
  OBVIOUS
<1>1. OInv /\ [Next]_vars => OInv'
  BY OStep
<1>2. OInv => HandledOnce
  BY DEF OInv, HandledOnce
<1> QED BY <1>1, <1>2, OInit, PTL DEF Spec

----------------------------------------------------------------------------
\* Where place j of a list of tags is after another tag was put before place i.
Moved(i, j) == IF j < i THEN j ELSE j + 1

\* A tag that has no value, is about somebody else or about nothing that is
\* asked of an event, or does not say which encryption.
Irrelevant(tag, reader) ==
  \/ Len(tag) < 2
  \/ tag[1] \notin {"p", "encryption"}
  \/ tag[1] = "p" /\ tag[2] # reader
  \/ tag[1] = "encryption" /\ tag[2] = ""

\* One more tag moves the ones behind it by one place.
LEMMA Inserted ==
  ASSUME NEW T, NEW s \in Seq(T), NEW e \in T, NEW i \in 1..(Len(s) + 1)
  PROVE  LET r == InsertAt(s, i, e)
         IN  /\ r \in Seq(T) /\ Len(r) = Len(s) + 1 /\ r[i] = e
             /\ \A j \in 1..Len(s) : Moved(i, j) \in 1..Len(r) /\ r[Moved(i, j)] = s[j]
             /\ \A k \in 1..Len(r) : k = i \/ \E j \in 1..Len(s) : k = Moved(i, j)
<1>1. PICK p, q, o, r : /\ p = SubSeq(s, 1, i - 1) /\ q = SubSeq(s, i, Len(s)) /\ o = <<e>>
                        /\ r = p \o o \o q
  OBVIOUS
<1>2. i \in Int /\ Len(s) \in Nat /\ 1 <= i /\ i <= Len(s) + 1
  OBVIOUS
<1>3. \A j \in 1..Len(s) : s[j] \in T
  OBVIOUS
<1>4. p \in Seq(T) /\ Len(p) = i - 1 /\ \A j \in 1..(i - 1) : p[j] = s[j]
  BY <1>1, <1>2, <1>3, SubSeqProperties
<1>5. q \in Seq(T) /\ Len(q) = Len(s) - i + 1 /\ \A j \in 1..(Len(s) - i + 1) : q[j] = s[i + j - 1]
  BY <1>1, <1>2, <1>3, SubSeqProperties
<1>6. o \in Seq(T) /\ Len(o) = 1 /\ o[1] = e
  BY <1>1
<1>7. PICK b : b = p \o o
  OBVIOUS
<1>8. b \in Seq(T) /\ Len(b) = i /\ b[i] = e /\ \A j \in 1..(i - 1) : b[j] = s[j]
  <2>0. b = Append(p, e)
    <3>1. b = p \o <<e>> /\ p \in Seq(T)
      BY <1>1, <1>4, <1>7
    <3> QED BY <3>1
  <2>1. b \in Seq(T) /\ Len(b) = Len(p) + 1 /\ b[Len(p) + 1] = e
    BY <1>4, <2>0
  <2>2. \A j \in 1..Len(p) : b[j] = p[j]
    BY <1>4, <2>0
  <2>3. Len(p) + 1 = i
    BY <1>2, <1>4
  <2> QED BY <1>4, <2>1, <2>2, <2>3
<1>9. r = b \o q
  BY <1>1, <1>7
<1>10. /\ r \in Seq(T) /\ Len(r) = Len(s) + 1 /\ r[i] = e
       /\ \A j \in 1..(i - 1) : r[j] = s[j]
       /\ \A j \in 1..(Len(s) - i + 1) : r[i + j] = s[i + j - 1]
  <2>1. r \in Seq(T) /\ Len(r) = Len(b) + Len(q)
    BY <1>5, <1>8, <1>9
  <2>2. \A j \in 1..Len(b) : r[j] = b[j]
    BY <1>5, <1>8, <1>9
  <2>3. \A j \in 1..Len(q) : r[Len(b) + j] = q[j]
    BY <1>5, <1>8, <1>9
  <2>4. i \in 1..Len(b) /\ \A j \in 1..(i - 1) : j \in 1..Len(b)
    BY <1>2, <1>8
  <2>5. i + (Len(s) - i + 1) = Len(s) + 1
    BY <1>2
  <2> QED BY <1>5, <1>8, <2>1, <2>2, <2>3, <2>4, <2>5
<1>11. InsertAt(s, i, e) = r
  BY <1>1 DEF InsertAt
<1>12. ASSUME NEW j \in 1..Len(s) PROVE Moved(i, j) \in 1..Len(r) /\ r[Moved(i, j)] = s[j]
  <2>1. CASE j < i
    BY <1>2, <1>10, <2>1 DEF Moved
  <2>2. CASE ~ (j < i)
    <3>1. PICK l : l = j + 1 - i
      OBVIOUS
    <3>2. l \in 1..(Len(s) - i + 1) /\ i + l = j + 1 /\ i + l - 1 = j
      BY <1>2, <2>2, <3>1
    <3>3. Moved(i, j) = j + 1
      BY <2>2 DEF Moved
    <3>4. r[i + l] = s[i + l - 1]
      BY <1>10, <3>2
    <3>5. j + 1 \in 1..Len(r)
      BY <1>2, <1>10
    <3> QED BY <3>2, <3>3, <3>4, <3>5
  <2> QED BY <2>1, <2>2
<1>13. ASSUME NEW k \in 1..Len(r), k # i PROVE \E j \in 1..Len(s) : k = Moved(i, j)
  <2>1. CASE k < i
    BY <1>2, <1>10, <2>1 DEF Moved
  <2>2. CASE ~ (k < i)
    <3>1. k - 1 \in 1..Len(s) /\ ~ (k - 1 < i) /\ (k - 1) + 1 = k
      BY <1>2, <1>10, <1>13, <2>2
    <3>2. Moved(i, k - 1) = k
      BY <3>1 DEF Moved
    <3> QED BY <3>1, <3>2
  <2> QED BY <2>1, <2>2
<1> QED BY <1>10, <1>11, <1>12, <1>13

\* The first of some places is among them, and before all others.
LEMMA FirstPlace ==
  ASSUME NEW places \in SUBSET Nat, places # {}
  PROVE  First(places) \in places /\ \A j \in places : First(places) <= j
BY Least DEF First

\* A tag that does not matter to the reader leaves what is read of the others.
LEMMA SplitInserted ==
  ASSUME NEW W, NEW tags \in Seq(Seq(W)), NEW tag \in Seq(W), NEW i \in 1..(Len(tags) + 1),
         NEW reader, Irrelevant(tag, reader)
  PROVE  LET old == SplitPubkeyAndEncryption(tags)
             new == SplitPubkeyAndEncryption(InsertAt(tags, i, tag))
         IN  /\ reader \in new.recipients <=> reader \in old.recipients
             /\ new.encryption = old.encryption
<1>1. PICK r : r = InsertAt(tags, i, tag)
  OBVIOUS
<1>2. /\ Len(r) = Len(tags) + 1 /\ r[i] = tag
      /\ \A j \in 1..Len(tags) : Moved(i, j) \in 1..Len(r) /\ r[Moved(i, j)] = tags[j]
      /\ \A k \in 1..Len(r) : k = i \/ \E j \in 1..Len(tags) : k = Moved(i, j)
  <2>0. PICK S : tags \in Seq(S) /\ tag \in S
    OBVIOUS
  <2>1. LET q == InsertAt(tags, i, tag)
        IN  /\ Len(q) = Len(tags) + 1 /\ q[i] = tag
            /\ \A j \in 1..Len(tags) : Moved(i, j) \in 1..Len(q) /\ q[Moved(i, j)] = tags[j]
            /\ \A k \in 1..Len(q) : k = i \/ \E j \in 1..Len(tags) : k = Moved(i, j)
    BY <2>0, Inserted
  <2> QED BY <1>1, <2>1
<1>a. /\ ~ (i \in Named(r, "p") /\ r[i][2] = reader)
      /\ ~ (i \in Named(r, "encryption") /\ r[i][2] # "")
  <2>1. \A name : i \in Named(r, name) => Len(tag) >= 2 /\ tag[1] = name
    BY <1>2 DEF Named
  <2>2. Len(tag) >= 2 => ~ (Len(tag) < 2)
    OBVIOUS
  <2>3. /\ ~ (Len(tag) >= 2 /\ tag[1] = "p" /\ tag[2] = reader)
        /\ ~ (Len(tag) >= 2 /\ tag[1] = "encryption" /\ tag[2] # "")
    BY <2>2 DEF Irrelevant
  <2> QED BY <1>2, <2>1, <2>3
<1>b. \A s, name : Named(s, name) \subseteq 1..Len(s)
  BY DEF Named
<1>c. Len(tags) \in Nat /\ Len(r) \in Nat /\ i \in Int
  BY <1>2
<1>d. 1..Len(tags) \subseteq Nat /\ 1..Len(r) \subseteq Nat
  BY <1>c
<1> DEFINE Those(s) == {k \in Named(s, "encryption") : s[k][2] # ""}
           Among(s) == {s[k][2] : k \in Named(s, "p")}
           Chosen(s) == IF Those(s) = {} THEN "" ELSE s[First(Those(s))][2]
<1>3. \A s : /\ SplitPubkeyAndEncryption(s).recipients = Among(s)
             /\ SplitPubkeyAndEncryption(s).encryption = Chosen(s)
  BY DEF SplitPubkeyAndEncryption
<1>4. ASSUME NEW name, NEW j \in 1..Len(tags)
      PROVE  Moved(i, j) \in Named(r, name) <=> j \in Named(tags, name)
  BY <1>2 DEF Named
<1>5. ASSUME NEW name, NEW k \in Named(r, name), k # i
      PROVE  \E j \in Named(tags, name) : k = Moved(i, j)
  <2>1. k \in 1..Len(r)
    BY DEF Named
  <2>2. PICK j \in 1..Len(tags) : k = Moved(i, j)
    BY <1>2, <1>5, <2>1
  <2> QED BY <1>4, <2>2
<1>6. reader \in Among(r) <=> reader \in Among(tags)
  <2>1. ASSUME reader \in Among(tags) PROVE reader \in Among(r)
    <3>1. PICK j \in Named(tags, "p") : reader = tags[j][2]
      BY <2>1
    <3>2. j \in 1..Len(tags)
      BY DEF Named
    <3>3. Moved(i, j) \in Named(r, "p") /\ r[Moved(i, j)] = tags[j]
      BY <1>2, <1>4, <3>2
    <3> QED BY <3>1, <3>3
  <2>2. ASSUME reader \in Among(r) PROVE reader \in Among(tags)
    <3>1. PICK k \in Named(r, "p") : reader = r[k][2]
      BY <2>2
    <3>2. k # i
      BY <1>a, <3>1
    <3>3. PICK j \in Named(tags, "p") : k = Moved(i, j)
      BY <1>5, <3>2
    <3>4. j \in 1..Len(tags)
      BY DEF Named
    <3> QED BY <1>2, <3>1, <3>3, <3>4
  <2> QED BY <2>1, <2>2
<1>7. ASSUME NEW j \in Those(tags) PROVE j \in 1..Len(tags) /\ Moved(i, j) \in Those(r)
  <2>1. j \in 1..Len(tags) /\ j \in Named(tags, "encryption")
    BY DEF Named
  <2> QED BY <1>2, <1>4, <2>1
<1>8. ASSUME NEW k \in Those(r) PROVE \E j \in Those(tags) : k = Moved(i, j)
  <2>1. k \in Named(r, "encryption") /\ r[k][2] # ""
    OBVIOUS
  <2>2. k # i
    BY <1>a, <2>1
  <2>3. PICK j \in Named(tags, "encryption") : k = Moved(i, j)
    BY <1>5, <2>1, <2>2
  <2>4. j \in 1..Len(tags)
    BY DEF Named
  <2> QED BY <1>2, <2>1, <2>3, <2>4
<1>9. Chosen(r) = Chosen(tags)
  <2>1. CASE Those(tags) = {}
    BY <1>8, <2>1
  <2>2. CASE Those(tags) # {}
    <3>1. PICK f : f = First(Those(tags))
      OBVIOUS
    <3>2. Those(tags) \in SUBSET Nat /\ Those(r) \in SUBSET Nat
      <4>1. Those(tags) \subseteq 1..Len(tags) /\ Those(r) \subseteq 1..Len(r)
        BY <1>b, Zenon
      <4> QED BY <4>1, <1>d, Zenon
    <3>3. f \in Those(tags) /\ \A j \in Those(tags) : f <= j
      BY <2>2, <3>1, <3>2, FirstPlace
    <3>4. Moved(i, f) \in Those(r) /\ r[Moved(i, f)] = tags[f]
      BY <1>2, <1>7, <3>3
    <3>5. PICK g : g = First(Those(r))
      OBVIOUS
    <3>6. g \in Those(r) /\ \A k \in Those(r) : g <= k
      BY <3>2, <3>4, <3>5, FirstPlace
    <3>7. PICK j \in Those(tags) : g = Moved(i, j)
      BY <1>8, <3>6
    <3>8. f <= j /\ Moved(i, j) <= Moved(i, f)
      BY <3>3, <3>4, <3>6, <3>7
    <3>9. f \in Int /\ j \in Int /\ i \in Int
      <4> HIDE DEF Those
      <4>1. f \in Nat /\ j \in Nat
        BY <3>2, <3>3, Zenon
      <4> QED BY <1>c, <4>1
    <3>10. f = j
      <4> HIDE DEF Those
      <4>1. f <= j
        BY <3>8
      <4>2. Moved(i, j) <= Moved(i, f)
        BY <3>8
      <4> QED BY <3>9, <4>1, <4>2 DEF Moved
    <3>11. Those(r) # {} /\ r[g][2] = tags[f][2]
      BY <3>4, <3>7, <3>10
    <3> QED BY <2>2, <3>1, <3>5, <3>11
  <2> QED BY <2>1, <2>2
<1>10. /\ SplitPubkeyAndEncryption(r).recipients = Among(r)
       /\ SplitPubkeyAndEncryption(tags).recipients = Among(tags)
       /\ SplitPubkeyAndEncryption(r).encryption = Chosen(r)
       /\ SplitPubkeyAndEncryption(tags).encryption = Chosen(tags)
  BY <1>3
<1> HIDE DEF Those, Among, Chosen
<1> QED BY <1>1, <1>10, <1>6, <1>9

\* What a side reads of an event, whoever signed it, does not depend on the
\* tags meant for others: one more such tag, anywhere, changes nothing.
THEOREM OthersTagsIgnored ==
  ASSUME NEW W, NEW Contents, NEW tag \in Seq(W), NEW max, NEW bridge, NEW client, NEW allowed,
         NEW event \in [kind : Nat, pubkey : W, created_at : Int, intact : BOOLEAN,
                        tags : Seq(Seq(W)), content : Contents],
         NEW i \in 1..(Len(event.tags) + 1)
  PROVE  LET more == [event EXCEPT !.tags = InsertAt(@, i, tag)]
         IN  /\ Irrelevant(tag, bridge) =>
                  BridgeReads(more, bridge, allowed, max) = BridgeReads(event, bridge, allowed, max)
             /\ Irrelevant(tag, client) =>
                  ClientReads(more, client, bridge, max) = ClientReads(event, client, bridge, max)
<1>1. PICK tags, more : tags = event.tags /\ more = [event EXCEPT !.tags = InsertAt(@, i, tag)]
  OBVIOUS
<1>2. /\ more.kind = event.kind /\ more.pubkey = event.pubkey /\ more.intact = event.intact
      /\ more.content = event.content /\ more.tags = InsertAt(tags, i, tag)
  BY <1>1
<1>3. tags \in Seq(Seq(W)) /\ i \in 1..(Len(tags) + 1)
  BY <1>1
<1>4. ASSUME Irrelevant(tag, bridge)
      PROVE  BridgeReads(more, bridge, allowed, max) = BridgeReads(event, bridge, allowed, max)
  <2>1. LET old == SplitPubkeyAndEncryption(event.tags)
            new == SplitPubkeyAndEncryption(more.tags)
        IN  (bridge \in new.recipients <=> bridge \in old.recipients) /\ new.encryption = old.encryption
    BY <1>1, <1>2, <1>3, <1>4, SplitInserted
  <2>2. Admitted(more, bridge, allowed) <=> Admitted(event, bridge, allowed)
    BY <1>2, <2>1 DEF Admitted
  <2> QED BY <1>2, <2>2 DEF BridgeReads, Opened
<1>5. ASSUME Irrelevant(tag, client)
      PROVE  ClientReads(more, client, bridge, max) = ClientReads(event, client, bridge, max)
  <2>1. LET old == SplitPubkeyAndEncryption(event.tags)
            new == SplitPubkeyAndEncryption(more.tags)
        IN  client \in new.recipients <=> client \in old.recipients
    BY <1>1, <1>2, <1>3, <1>5, SplitInserted
  <2> QED BY <1>2, <2>1 DEF ClientReads, Opened
<1> QED BY <1>1, <1>4, <1>5

\* The tags of an event of the bridge's protocol name who it is for, and an
\* encryption that is supported.
LEMMA TagsSplit ==
  ASSUME NEW to
  PROVE  LET split == SplitPubkeyAndEncryption(CommunicationTags(to))
         IN  to \in split.recipients /\ split.encryption \in SupportedEncryption
<1>1. PICK tags : tags = CommunicationTags(to)
  OBVIOUS
<1>2. /\ Len(tags) = 2 /\ Len(tags[1]) = 2 /\ Len(tags[2]) = 2
      /\ tags[1][1] = "p" /\ tags[1][2] = to /\ tags[2][1] = "encryption" /\ tags[2][2] = "nip44_v2"
  BY <1>1 DEF CommunicationTags
<1> DEFINE Those == {k \in Named(tags, "encryption") : tags[k][2] # ""}
<1>3. 1 \in Named(tags, "p") /\ Those = {2}
  <2>1. Named(tags, "p") = {1}
    BY <1>2 DEF Named
  <2>2. Named(tags, "encryption") = {2}
    BY <1>2 DEF Named
  <2> QED BY <1>2, <2>1, <2>2
<1>4. First(Those) = 2
  <2>1. First({2}) \in {2}
    BY FirstPlace
  <2> QED BY <1>3, <2>1
<1>5. to \in {tags[k][2] : k \in Named(tags, "p")}
  BY <1>2, <1>3
<1>6. (IF Those = {} THEN "" ELSE tags[First(Those)][2]) = "nip44_v2"
  BY <1>2, <1>3, <1>4
<1> QED BY <1>1, <1>5, <1>6 DEF SplitPubkeyAndEncryption, SupportedEncryption

\* Messages that one side wraps in an event for the other the other reads, all
\* and in their order, unless they are more than its limit; the bridge does so
\* for the clients it lets in.
THEOREM WrappedIsRead ==
  ASSUME NEW bridge, NEW client, client # bridge, NEW allowed, client \in allowed, NEW at,
         NEW max \in Nat, NEW items \in Seq({Message}), Len(items) <= max
  PROVE  /\ BridgeReads(Wrap(client, bridge, items, at), bridge, allowed, max) = {items}
         /\ ClientReads(Wrap(bridge, client, items, at), client, bridge, max) = {items}
<1>2. ASSUME NEW author, NEW to
      PROVE  LET event == Wrap(author, to, items, at)
             IN  /\ event.kind = KindCommunication /\ event.pubkey = author /\ event.intact
                 /\ event.tags = CommunicationTags(to)
                 /\ Opened(event, to, max) = {items}
  <2>1. PICK event : event = Wrap(author, to, items, at)
    OBVIOUS
  <2>2. /\ event.kind = KindCommunication /\ event.pubkey = author /\ event.intact
        /\ event.tags = CommunicationTags(to)
        /\ event.content.to = to /\ event.content.array /\ event.content.items = items
    BY <2>1 DEF Wrap
  <2>3. ParsePayload(event.content, max) = {items}
    BY <2>2 DEF ParsePayload
  <2>4. Opened(event, to, max) = {items}
    BY <2>2, <2>3 DEF Opened
  <2> QED BY <2>1, <2>2, <2>4
<1>3. Admitted(Wrap(client, bridge, items, at), bridge, allowed)
  <2>1. PICK event : event = Wrap(client, bridge, items, at)
    OBVIOUS
  <2>2. /\ event.kind = KindCommunication /\ event.pubkey = client /\ event.intact
        /\ event.tags = CommunicationTags(bridge)
    BY <1>2, <2>1
  <2>3. LET split == SplitPubkeyAndEncryption(event.tags)
        IN  bridge \in split.recipients /\ split.encryption \in SupportedEncryption
    BY <2>2, TagsSplit
  <2> QED BY <2>1, <2>2, <2>3 DEF Admitted
<1>4. BridgeReads(Wrap(client, bridge, items, at), bridge, allowed, max) = {items}
  BY <1>2, <1>3 DEF BridgeReads
<1>5. ClientReads(Wrap(bridge, client, items, at), client, bridge, max) = {items}
  BY <1>2, TagsSplit DEF ClientReads
<1> QED BY <1>4, <1>5
=============================================================================
