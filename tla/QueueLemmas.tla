---------------------------- MODULE QueueLemmas ----------------------------
(***************************************************************************)
(* What the queues of the models do to the messages in them: adding one,   *)
(* taking the first, keeping the last ones, keeping some.  A queue that is *)
(* emptied at one end while something is kept at the other is seen as one  *)
(* line: what is already out, what is being moved, what waits.             *)
(***************************************************************************)
EXTENDS Integers, Sequences, FiniteSets, FiniteSetTheorems, SequenceTheorems,
        WellFoundedInduction, NaturalsInduction, TLAPS

Elements(s) == {s[i] : i \in 1..Len(s)}
Distinct(s) == \A i, j \in 1..Len(s) : i # j => s[i] # s[j]

\* The last k elements of s, or all.
LastOf(s, k) == SubSeq(s, (IF Len(s) > k THEN Len(s) - k ELSE 0) + 1, Len(s))

\* s without its element at place k.
Without(s, k) == [i \in 1..(Len(s) - 1) |-> IF i < k THEN s[i] ELSE s[i + 1]]

----------------------------------------------------------------------------
\* The least of some numbers.
LEMMA Least ==
  ASSUME NEW T \in SUBSET Nat, T # {}
  PROVE  \E x \in T : \A y \in T : x <= y
<1> DEFINE R == {ss \in Nat \X Nat : ss[1] < ss[2]}
<1>1. OpToRel(<, Nat) = R
  BY DEF OpToRel
<1> HIDE DEF R
<1>2. IsWellFoundedOn(R, Nat)
  BY <1>1, NatLessThanWellFounded, Zenon
<1>3. PICK x \in T : \A y \in T : <<y, x>> \notin R
  BY <1>2, WFMin, Zenon
<1>4. ASSUME NEW y \in T, y < x PROVE <<y, x>> \in R
  BY <1>4 DEF R
<1>5. \A y \in T : ~ (y < x)
  BY <1>3, <1>4
<1> QED BY <1>5

\* Induction up to n, as a fact about sets.
LEMMA Climbing ==
  ASSUME NEW n \in Nat, NEW T, 0 \in T, \A i \in 1..n : i - 1 \in T => i \in T
  PROVE  0..n \subseteq T
<1> SUFFICES ASSUME ~ (0..n \subseteq T) PROVE FALSE
  OBVIOUS
<1> DEFINE Missing == {i \in 0..n : i \notin T}
<1>1. Missing \in SUBSET Nat /\ Missing # {}
  OBVIOUS
<1>2. PICK x \in Missing : \A y \in Missing : x <= y
  BY <1>1, Least
<1>3. x \in 1..n /\ x - 1 \in 0..n /\ ~ (x <= x - 1)
  BY <1>2
<1>4. x - 1 \in T
  BY <1>2, <1>3
<1> QED BY <1>2, <1>3, <1>4

----------------------------------------------------------------------------
LEMMA Appending ==
  ASSUME NEW S, NEW q \in Seq(S), NEW m \in S
  PROVE  LET r == Append(q, m)
         IN  /\ r \in Seq(S) /\ Len(r) = Len(q) + 1
             /\ Elements(r) = Elements(q) \cup {m}
             /\ Distinct(q) /\ m \notin Elements(q) => Distinct(r)
<1> PICK r : r = Append(q, m)
  OBVIOUS
<1>1. /\ r \in Seq(S) /\ Len(r) = Len(q) + 1 /\ Len(q) \in Nat
      /\ \A i \in 1..Len(q) : r[i] = q[i]
      /\ r[Len(q) + 1] = m
  OBVIOUS
<1>2. Elements(r) = Elements(q) \cup {m}
  <2>1. 1..Len(r) = 1..Len(q) \cup {Len(q) + 1}
    BY <1>1
  <2> QED BY <2>1, <1>1 DEF Elements
<1>3. ASSUME Distinct(q), m \notin Elements(q),
             NEW i \in 1..Len(r), NEW j \in 1..Len(r), i # j
      PROVE  r[i] # r[j]
  <2>1. \A k \in 1..Len(r) : k \in 1..Len(q) \/ k = Len(q) + 1
    BY <1>1
  <2>2. \A k \in 1..Len(q) : r[k] = q[k] /\ q[k] # m
    BY <1>1, <1>3 DEF Elements
  <2>3. \A k, l \in 1..Len(q) : k # l => q[k] # q[l]
    BY <1>3 DEF Distinct
  <2> QED BY <2>1, <2>2, <2>3, <1>1, <1>3
<1> QED BY <1>1, <1>2, <1>3 DEF Distinct

LEMMA TakingHead ==
  ASSUME NEW S, NEW q \in Seq(S), q # <<>>
  PROVE  /\ Head(q) \in S /\ Tail(q) \in Seq(S) /\ Len(Tail(q)) = Len(q) - 1
         /\ Elements(q) = Elements(Tail(q)) \cup {Head(q)}
         /\ Distinct(q) => Distinct(Tail(q)) /\ Head(q) \notin Elements(Tail(q))
<1>1. /\ Head(q) = q[1] /\ Len(q) \in Nat \ {0} /\ Len(Tail(q)) = Len(q) - 1
      /\ \A i \in 1..(Len(q) - 1) : Tail(q)[i] = q[i + 1]
  OBVIOUS
<1>2. Head(q) \in S /\ Tail(q) \in Seq(S)
  OBVIOUS
<1>3. \A i \in 1..Len(q) : i = 1 \/ (i - 1 \in 1..(Len(q) - 1) /\ q[i] = Tail(q)[i - 1])
  BY <1>1
<1>4. Elements(q) = Elements(Tail(q)) \cup {Head(q)}
  <2>1. PICK t : t = Tail(q)
    OBVIOUS
  <2>2. \A i \in 1..Len(q) : q[i] = Head(q) \/ (i - 1 \in 1..Len(t) /\ q[i] = t[i - 1])
    BY <1>1, <1>3, <2>1
  <2>3. /\ 1 \in 1..Len(q) /\ Head(q) = q[1]
        /\ \A i \in 1..Len(t) : i + 1 \in 1..Len(q) /\ t[i] = q[i + 1]
    BY <1>1, <2>1
  <2>4. Elements(q) \subseteq Elements(t) \cup {Head(q)}
    BY <2>2 DEF Elements
  <2>5. Elements(t) \cup {Head(q)} \subseteq Elements(q)
    BY <2>3 DEF Elements
  <2> QED BY <2>1, <2>4, <2>5
<1>5. Distinct(q) => Distinct(Tail(q)) /\ Head(q) \notin Elements(Tail(q))
  BY <1>1 DEF Elements, Distinct
<1> QED BY <1>1, <1>2, <1>4, <1>5

LEMMA Rotating ==
  ASSUME NEW S, NEW q \in Seq(S), NEW m \in S, q # <<>>
  PROVE  LET r == Append(Tail(q), m)
         IN  /\ r \in Seq(S) /\ Len(r) = Len(q)
             /\ Elements(r) \subseteq Elements(q) \cup {m}
             /\ Distinct(q) /\ m \notin Elements(q) => Distinct(r)
<1> PICK r : r = Append(Tail(q), m)
  OBVIOUS
<1>1. /\ Tail(q) \in Seq(S) /\ Len(Tail(q)) = Len(q) - 1
      /\ Elements(q) = Elements(Tail(q)) \cup {Head(q)}
      /\ Distinct(q) => Distinct(Tail(q))
  BY TakingHead, Zenon
<1>2. Tail(q) \in Seq(S)
  BY <1>1
<1>3. LET a == Append(Tail(q), m)
      IN  /\ a \in Seq(S) /\ Len(a) = Len(Tail(q)) + 1
          /\ Elements(a) = Elements(Tail(q)) \cup {m}
          /\ Distinct(Tail(q)) /\ m \notin Elements(Tail(q)) => Distinct(a)
  BY <1>2, Appending, Zenon
<1>4. Len(q) \in Nat
  OBVIOUS
<1> HIDE DEF Elements, Distinct
<1>5. /\ r \in Seq(S) /\ Len(r) = Len(Tail(q)) + 1
      /\ Elements(r) = Elements(Tail(q)) \cup {m}
      /\ Distinct(Tail(q)) /\ m \notin Elements(Tail(q)) => Distinct(r)
  BY <1>3, Zenon
<1>6. Len(r) = Len(q)
  BY <1>1, <1>4, <1>5
<1> QED BY <1>1, <1>5, <1>6

\* The last k elements are elements.
LEMMA KeepingLast ==
  ASSUME NEW S, NEW s \in Seq(S), NEW k \in Nat
  PROVE  /\ LastOf(s, k) \in Seq(S) /\ Len(LastOf(s, k)) <= k
         /\ Elements(LastOf(s, k)) \subseteq Elements(s)
         /\ Len(s) <= k => LastOf(s, k) = s
         /\ Len(s) = k + 1 => LastOf(s, k) = Tail(s)
         /\ Len(s) > k => /\ Len(LastOf(s, k)) = k
                          /\ \A i \in 1..k : LastOf(s, k)[i] = s[Len(s) - k + i]
<1> DEFINE over == IF Len(s) > k THEN Len(s) - k ELSE 0
           r == SubSeq(s, over + 1, Len(s))
<1>1. Len(s) \in Nat /\ over \in Nat /\ over <= Len(s) /\ Len(s) - over <= k
  OBVIOUS
<1>2. \A i \in (over + 1)..Len(s) : s[i] \in S
  BY <1>1
<1>3. /\ r \in Seq(S)
      /\ Len(r) = IF over + 1 <= Len(s) THEN Len(s) - (over + 1) + 1 ELSE 0
      /\ \A i \in 1..(Len(s) - (over + 1) + 1) : r[i] = s[(over + 1) + i - 1]
  <2> HIDE DEF over
  <2> QED BY <1>1, <1>2, SubSeqProperties
<1>4. Len(r) = Len(s) - over /\ \A i \in 1..Len(r) : r[i] = s[over + i]
  <2> HIDE DEF over, r
  <2> QED BY <1>1, <1>3
<1>5. Elements(r) \subseteq Elements(s)
  <2> HIDE DEF over, r
  <2> QED BY <1>1, <1>4 DEF Elements
<1>6. Len(s) <= k => r = s
  <2> SUFFICES ASSUME Len(s) <= k PROVE r = s
    OBVIOUS
  <2>1. over + 1 = 1
    OBVIOUS
  <2> HIDE DEF over
  <2> QED BY <2>1, SubSeqFull
<1>7. Len(s) = k + 1 => r = Tail(s)
  <2> SUFFICES ASSUME Len(s) = k + 1 PROVE r = Tail(s)
    OBVIOUS
  <2>1. over + 1 = 2 /\ s # <<>>
    OBVIOUS
  <2>2. Tail(s) = SubSeq(s, 2, Len(s))
    BY <2>1, TailIsSubSeq
  <2> QED BY <2>1, <2>2
<1>8. Len(s) > k => Len(r) = k /\ \A i \in 1..k : r[i] = s[Len(s) - k + i]
  <2> SUFFICES ASSUME Len(s) > k PROVE Len(r) = k /\ \A i \in 1..k : r[i] = s[Len(s) - k + i]
    OBVIOUS
  <2>1. over = Len(s) - k
    OBVIOUS
  <2> HIDE DEF over, r
  <2> QED BY <2>1, <1>1, <1>4
<1>9. LastOf(s, k) = r
  BY DEF LastOf
<1> HIDE DEF r, over
<1> QED BY <1>1, <1>3, <1>4, <1>5, <1>6, <1>7, <1>8, <1>9

\* r has the elements of s from some place on, k of them if it is not all of s.
IsEndOf(r, s, k) ==
  \E o \in 0..Len(s) : /\ Len(r) = Len(s) - o /\ (o # 0 => Len(s) - o = k)
                       /\ \A i \in 1..(Len(s) - o) : r[i] = s[o + i]

LEMMA LastPlaces ==
  ASSUME NEW S, NEW s \in Seq(S), NEW k \in Nat
  PROVE  IsEndOf(LastOf(s, k), s, k)
<1> PICK r : r = LastOf(s, k)
  OBVIOUS
<1>1. Len(s) \in Nat
  OBVIOUS
<1>2. CASE Len(s) <= k
  <2>1. r = s
    BY <1>2, KeepingLast
  <2>2. 0 \in 0..Len(s) /\ Len(r) = Len(s) - 0 /\ \A i \in 1..(Len(s) - 0) : r[i] = s[0 + i]
    BY <1>1, <2>1
  <2> QED BY <2>2 DEF IsEndOf
<1>3. CASE Len(s) > k
  <2>1. Len(r) = k /\ \A i \in 1..k : r[i] = s[Len(s) - k + i]
    BY <1>3, KeepingLast
  <2>2. Len(s) - k \in 0..Len(s) /\ Len(s) - (Len(s) - k) = k
    BY <1>1, <1>3
  <2> QED BY <2>1, <2>2 DEF IsEndOf
<1> QED BY <1>1, <1>2, <1>3 DEF IsEndOf

\* A message put into a queue of k places: the oldest one makes room.
LEMMA Putting ==
  ASSUME NEW S, NEW k \in Nat \ {0}, NEW q \in Seq(S), NEW m \in S, Len(q) <= k
  PROVE  /\ q = <<>> => Len(q) < k
         /\ LastOf(q \o <<m>>, k) = IF Len(q) < k THEN Append(q, m) ELSE Append(Tail(q), m)
<1>0. PICK all : all = Append(q, m)
  OBVIOUS
<1>1. all \in Seq(S) /\ Len(all) = Len(q) + 1 /\ Len(q) \in Nat
  BY <1>0
<1>2. q \o <<m>> = all
  BY <1>0
<1>4. CASE Len(q) < k
  <2>1. Len(all) <= k /\ k \in Nat
    BY <1>1, <1>4
  <2>2. LastOf(all, k) = all
    BY <2>1, <1>1, KeepingLast, Zenon
  <2> QED BY <2>2, <1>0, <1>2, <1>4
<1>5. CASE Len(q) = k
  <2>1. Len(all) = k + 1 /\ k \in Nat
    BY <1>1, <1>5
  <2>2. LastOf(all, k) = Tail(all)
    BY <2>1, <1>1, KeepingLast, Zenon
  <2>3. q # <<>> /\ ~ (Len(q) < k)
    BY <1>5
  <2>4. Tail(all) = Append(Tail(q), m)
    BY <2>3, <1>0, HeadTailAppend
  <2> QED BY <2>2, <2>3, <2>4, <1>2
<1> QED BY <1>1, <1>4, <1>5

\* r is q with m put at its end, in k places.
IsPut(r, q, m, k, S) ==
  /\ r \in Seq(S) /\ Len(r) <= k
  /\ Elements(r) \subseteq Elements(q) \cup {m}
  /\ Len(q) < k => Elements(r) = Elements(q) \cup {m}
  /\ Distinct(q) /\ m \notin Elements(q) => Distinct(r)

LEMMA PuttingOne ==
  ASSUME NEW S, NEW k \in Nat \ {0}, NEW q \in Seq(S), NEW m \in S, Len(q) <= k
  PROVE  IsPut(LastOf(q \o <<m>>, k), q, m, k, S)
<1> PICK r : r = LastOf(q \o <<m>>, k)
  OBVIOUS
<1> SUFFICES /\ r \in Seq(S) /\ Len(r) <= k
             /\ Elements(r) \subseteq Elements(q) \cup {m}
             /\ Len(q) < k => Elements(r) = Elements(q) \cup {m}
             /\ Distinct(q) /\ m \notin Elements(q) => Distinct(r)
  BY DEF IsPut
<1>1. Len(q) \in Nat
  OBVIOUS
<1>2. CASE Len(q) < k
  <2>1. r = Append(q, m)
    BY <1>2, Putting
  <2>2. /\ r \in Seq(S) /\ Len(r) = Len(q) + 1
        /\ Elements(r) = Elements(q) \cup {m}
        /\ Distinct(q) /\ m \notin Elements(q) => Distinct(r)
    <3>1. LET a == Append(q, m)
          IN  /\ a \in Seq(S) /\ Len(a) = Len(q) + 1
              /\ Elements(a) = Elements(q) \cup {m}
              /\ Distinct(q) /\ m \notin Elements(q) => Distinct(a)
      BY Appending, Zenon
    <3> QED BY <2>1, <3>1, Zenon
  <2> QED BY <2>2, <1>1, <1>2
<1>3. CASE ~ (Len(q) < k)
  <2>1. q # <<>> /\ r = Append(Tail(q), m)
    BY <1>3, Putting
  <2>2. LET a == Append(Tail(q), m)
        IN  /\ a \in Seq(S) /\ Len(a) = Len(q)
            /\ Elements(a) \subseteq Elements(q) \cup {m}
            /\ Distinct(q) /\ m \notin Elements(q) => Distinct(a)
    BY <2>1, Rotating, Zenon
  <2> QED BY <2>1, <2>2, <1>3
<1> QED BY <1>2, <1>3

LEMMA SeqGrows ==
  ASSUME NEW S, NEW T, S \subseteq T, NEW q \in Seq(S)
  PROVE  q \in Seq(T)
BY SeqDef

LEMMA PrefixTyped ==
  ASSUME NEW S, NEW s \in Seq(S), NEW n \in 0..Len(s)
  PROVE  SubSeq(s, 1, n) \in Seq(S)
<1>1. n \in Int /\ 1 \in Int /\ \A i \in 1..n : s[i] \in S
  OBVIOUS
<1> QED BY <1>1, SubSeqProperties

LEMMA CountTo ==
  ASSUME NEW k \in Nat
  PROVE  IsFiniteSet(1..k) /\ Cardinality(1..k) = k
BY FS_Interval

LEMMA Places ==
  ASSUME NEW k \in Nat, NEW K, K \subseteq 1..k
  PROVE  IsFiniteSet(K) /\ Cardinality(K) \in Nat /\ Cardinality(K) <= k
<1>1. IsFiniteSet(1..k) /\ Cardinality(1..k) = k
  BY CountTo
<1> QED BY <1>1, FS_Subset, FS_CardinalityType

\* f enumerates the n places K in ascending order.
Enumerates(f, n, K) == /\ n = Cardinality(K) /\ f \in [1..n -> K]
                       /\ \A i, j \in 1..n : i < j => f[i] < f[j]

\* The elements at the places f enumerates.
Picked(q, f) == [i \in DOMAIN f |-> q[f[i]]]

\* r has the elements of q at the places K, each taken from the place f says.
IsSelection(r, q, f, n, K, S) ==
  /\ r \in Seq(S) /\ n \in Nat /\ Len(r) = n /\ n <= Len(q)
  /\ \A i \in 1..n : f[i] \in K /\ r[i] = q[f[i]]
  /\ \A e : e \in Elements(r) <=> \E k \in K : e = q[k]
  /\ Distinct(q) => Distinct(r)

LEMMA Selecting ==
  ASSUME NEW S, NEW q \in Seq(S), NEW K, K \subseteq 1..Len(q),
         NEW n, NEW f, Enumerates(f, n, K)
  PROVE  IsSelection(Picked(q, f), q, f, n, K, S)
<1> PICK r : r = Picked(q, f)
  OBVIOUS
<1>0. /\ n = Cardinality(K) /\ f \in [1..n -> K]
      /\ \A i, j \in 1..n : i < j => f[i] < f[j]
  BY DEF Enumerates
<1>1. IsFiniteSet(K) /\ n \in Nat /\ n <= Len(q)
  <2>1. Len(q) \in Nat
    OBVIOUS
  <2> QED BY <2>1, <1>0, Places, Zenon
<1>2. \A i \in 1..n : f[i] \in K /\ f[i] \in 1..Len(q)
  BY <1>0
<1>3. \A i, j \in 1..n : i # j => f[i] # f[j]
  <2> SUFFICES ASSUME NEW i \in 1..n, NEW j \in 1..n, i # j PROVE f[i] # f[j]
    OBVIOUS
  <2>1. f[i] \in Int /\ f[j] \in Int
    BY <1>2
  <2>2. i < j \/ j < i
    BY <1>1
  <2> QED BY <2>1, <2>2, <1>0
<1>4. \A k \in K : \E i \in 1..n : f[i] = k
  <2>1. f \in Injection(1..n, K)
    BY <1>0, <1>3 DEF Injection, IsInjective
  <2>2. IsFiniteSet(1..n) /\ Cardinality(1..n) = n
    BY <1>1, CountTo
  <2>3. f \in Surjection(1..n, K)
    BY <1>0, <1>1, <2>1, <2>2, FS_Injection
  <2> QED BY <2>3 DEF Surjection
<1>5. /\ r \in Seq(S) /\ Len(r) = n
      /\ \A i \in 1..n : f[i] \in K /\ r[i] = q[f[i]]
  <2>1. r = [i \in 1..n |-> q[f[i]]]
    BY <1>0 DEF Picked
  <2>2. \A i \in 1..n : q[f[i]] \in S
    BY <1>2, ElementOfSeq
  <2>3. r \in [1..n -> S]
    BY <2>1, <2>2
  <2>4. r \in Seq(S) /\ Len(r) = n
    BY <1>1, <2>3, SeqDef
  <2> QED BY <1>2, <2>1, <2>4
<1>6. \A e : e \in Elements(r) <=> \E k \in K : e = q[k]
  <2>1. Elements(r) = {r[i] : i \in 1..n}
    BY <1>5 DEF Elements
  <2>2. \A i \in 1..n : r[i] \in {q[k] : k \in K}
    BY <1>5
  <2>3. \A k \in K : q[k] \in {r[i] : i \in 1..n}
    BY <1>4, <1>5
  <2> QED BY <2>1, <2>2, <2>3
<1>7. Distinct(q) => Distinct(r)
  <2> SUFFICES ASSUME Distinct(q), NEW i \in 1..n, NEW j \in 1..n, i # j
               PROVE  r[i] # r[j]
    BY <1>5 DEF Distinct
  <2>1. f[i] # f[j] /\ f[i] \in 1..Len(q) /\ f[j] \in 1..Len(q)
    BY <1>2, <1>3
  <2>2. q[f[i]] # q[f[j]]
    BY <2>1 DEF Distinct
  <2> QED BY <1>5, <2>2
<1> QED BY <1>1, <1>5, <1>6, <1>7 DEF IsSelection

----------------------------------------------------------------------------
\* The line does not change when its first waiting element is taken up.
LEMMA TakingUp ==
  ASSUME NEW S, NEW p \in Seq(S), NEW q \in Seq(S), q # <<>>
  PROVE  p \o <<Head(q)>> \o Tail(q) = p \o <<>> \o q
OBVIOUS

\* The line grows at its end.
LEMMA Queueing ==
  ASSUME NEW S, NEW p \in Seq(S), NEW m \in Seq(S), NEW q \in Seq(S), NEW x \in S
  PROVE  p \o m \o Append(q, x) = Append(p \o m \o q, x)
OBVIOUS

\* An element leaves the line from its middle.
LEMMA Removing ==
  ASSUME NEW S, NEW a \in Seq(S), NEW q \in Seq(S), q # <<>>
  PROVE  /\ Len(a) + 1 \in 1..Len(a \o q)
         /\ (a \o q)[Len(a) + 1] = Head(q)
         /\ a \o Tail(q) = Without(a \o q, Len(a) + 1)
<1> DEFINE line == a \o q
           k == Len(a) + 1
           rest == a \o Tail(q)
<1>1. /\ Len(a) \in Nat /\ Len(q) \in Nat \ {0} /\ Len(line) = Len(a) + Len(q)
      /\ Tail(q) \in Seq(S) /\ Len(Tail(q)) = Len(q) - 1 /\ Head(q) = q[1]
      /\ \A i \in 1..(Len(q) - 1) : Tail(q)[i] = q[i + 1]
      /\ \A i \in 1..Len(line) : line[i] = IF i <= Len(a) THEN a[i] ELSE q[i - Len(a)]
  OBVIOUS
<1>2. /\ rest = [i \in 1..Len(rest) |-> rest[i]] /\ Len(rest) = Len(a) + Len(Tail(q))
      /\ \A i \in 1..Len(rest) : rest[i] = IF i <= Len(a) THEN a[i] ELSE Tail(q)[i - Len(a)]
  <2>1. Tail(q) \in Seq(S)
    BY <1>1
  <2>2. rest \in Seq(S) /\ Len(rest) = Len(a) + Len(Tail(q))
    BY <2>1
  <2>3. rest = [i \in 1..Len(rest) |-> rest[i]]
    <3> HIDE DEF rest
    <3> QED BY <2>2
  <2>4. \A i \in 1..(Len(a) + Len(Tail(q))) :
          rest[i] = IF i <= Len(a) THEN a[i] ELSE Tail(q)[i - Len(a)]
    BY <2>1, ConcatProperties
  <2> QED BY <2>2, <2>3, <2>4
<1> HIDE DEF line, rest
<1>3. \A i \in 1..Len(rest) : rest[i] = IF i < k THEN line[i] ELSE line[i + 1]
  <2> SUFFICES ASSUME NEW i \in 1..Len(rest)
               PROVE  rest[i] = IF i < k THEN line[i] ELSE line[i + 1]
    OBVIOUS
  <2>1. i \in 1..Len(line) /\ i + 1 \in 1..Len(line)
    BY <1>1, <1>2
  <2>2. CASE i <= Len(a)
    <3>1. i < k /\ rest[i] = a[i] /\ line[i] = a[i]
      BY <2>1, <2>2, <1>1, <1>2
    <3> QED BY <3>1
  <2>3. CASE ~ (i <= Len(a))
    <3>1. i - Len(a) \in 1..(Len(q) - 1) /\ (i + 1) - Len(a) = (i - Len(a)) + 1
      BY <2>3, <1>1, <1>2
    <3>2. rest[i] = Tail(q)[i - Len(a)] /\ line[i + 1] = q[(i - Len(a)) + 1]
      BY <2>1, <2>3, <3>1, <1>1, <1>2
    <3> QED BY <2>3, <3>1, <3>2, <1>1
  <2> QED BY <2>2, <2>3
<1>4. Len(rest) = Len(line) - 1
  BY <1>1, <1>2
<1>5. rest = Without(line, k)
  BY <1>2, <1>3, <1>4 DEF Without
<1>6. k \in 1..Len(line) /\ line[k] = Head(q)
  BY <1>1
<1> QED BY <1>5, <1>6 DEF line, rest

\* The first waiting element leaves the line.
LEMMA Shedding ==
  ASSUME NEW S, NEW p \in Seq(S), NEW m \in Seq(S), NEW q \in Seq(S), q # <<>>
  PROVE  LET line == p \o m \o q
             k == Len(p) + Len(m) + 1
         IN  /\ k \in 1..Len(line) /\ line[k] = Head(q)
             /\ p \o m \o Tail(q) = Without(line, k)
<1> PICK a : a = p \o m
  OBVIOUS
<1>1. a \in Seq(S) /\ Len(a) = Len(p) + Len(m)
  OBVIOUS
<1>2. /\ Len(a) + 1 \in 1..Len(a \o q)
      /\ (a \o q)[Len(a) + 1] = Head(q)
      /\ a \o Tail(q) = Without(a \o q, Len(a) + 1)
  BY <1>1, Removing
<1> QED BY <1>1, <1>2

\* What was taken up leaves the line.
LEMMA Abandoning ==
  ASSUME NEW S, NEW p \in Seq(S), NEW x \in S, NEW q \in Seq(S)
  PROVE  LET line == p \o <<x>> \o q
             k == Len(p) + 1
         IN  /\ k \in 1..Len(line) /\ line[k] = x
             /\ p \o <<>> \o q = Without(line, k)
<1> PICK r : r = <<x>> \o q
  OBVIOUS
<1>1. r \in Seq(S) /\ r # <<>> /\ Head(r) = x /\ Tail(r) = q
  OBVIOUS
<1>2. p \o r = p \o <<x>> \o q /\ p \o <<>> \o q = p \o q
  OBVIOUS
<1>3. /\ Len(p) + 1 \in 1..Len(p \o r)
      /\ (p \o r)[Len(p) + 1] = Head(r)
      /\ p \o Tail(r) = Without(p \o r, Len(p) + 1)
  BY <1>1, Removing
<1> QED BY <1>1, <1>2, <1>3, Zenon

\* What is left when the element at place k is taken out.
LEMMA TakingOut ==
  ASSUME NEW S, NEW p \in Seq(S), NEW k \in 1..Len(p)
  PROVE  LET r == Without(p, k)
         IN  /\ r \in Seq(S) /\ Len(r) = Len(p) - 1
             /\ \A i \in 1..Len(r) : IF i < k THEN i \in 1..Len(p) /\ r[i] = p[i]
                                             ELSE i + 1 \in 1..Len(p) /\ r[i] = p[i + 1]
             /\ \A i \in 1..Len(p) : /\ i < k => i \in 1..Len(r) /\ r[i] = p[i]
                                     /\ i > k => i - 1 \in 1..Len(r) /\ r[i - 1] = p[i]
<1> PICK r : r = Without(p, k)
  OBVIOUS
<1>1. /\ Len(p) \in Nat /\ r = [i \in 1..(Len(p) - 1) |-> IF i < k THEN p[i] ELSE p[i + 1]]
      /\ Len(p) - 1 \in Nat
  BY DEF Without
<1>2. \A i \in 1..(Len(p) - 1) : r[i] \in S
  BY <1>1, ElementOfSeq
<1>3. r \in [1..(Len(p) - 1) -> S]
  BY <1>1, <1>2
<1>4. r \in Seq(S) /\ Len(r) = Len(p) - 1
  BY <1>1, <1>3, SeqDef
<1>5. /\ \A i \in 1..Len(r) : IF i < k THEN i \in 1..Len(p) /\ r[i] = p[i]
                                      ELSE i + 1 \in 1..Len(p) /\ r[i] = p[i + 1]
      /\ \A i \in 1..Len(p) : /\ i < k => i \in 1..Len(r) /\ r[i] = p[i]
                              /\ i > k => i - 1 \in 1..Len(r) /\ r[i - 1] = p[i]
  BY <1>1, <1>4
<1> QED BY <1>4, <1>5

----------------------------------------------------------------------------
\* m is in the line p.
Has(p, m) == \E i \in 1..Len(p) : p[i] = m

LEMMA HasAppend ==
  ASSUME NEW S, NEW p \in Seq(S), NEW x \in S, NEW m, Has(p, m) \/ x = m
  PROVE  Has(Append(p, x), m)
<1> PICK r : r = Append(p, x)
  OBVIOUS
<1>1. /\ Len(p) \in Nat /\ Len(r) = Len(p) + 1 /\ r[Len(p) + 1] = x
      /\ \A i \in 1..Len(p) : r[i] = p[i]
  OBVIOUS
<1>2. Len(p) + 1 \in 1..Len(r) /\ \A i \in 1..Len(p) : i \in 1..Len(r)
  BY <1>1
<1>3. Has(r, m)
  BY <1>1, <1>2 DEF Has
<1> QED BY <1>3

LEMMA HasTail ==
  ASSUME NEW S, NEW p \in Seq(S), p # <<>>, NEW m, Has(p, m), Head(p) # m
  PROVE  Has(Tail(p), m)
<1> PICK i \in 1..Len(p) : p[i] = m
  BY DEF Has
<1>1. i # 1
  OBVIOUS
<1>2. i - 1 \in 1..Len(Tail(p)) /\ Tail(p)[i - 1] = p[i]
  BY <1>1
<1> QED BY <1>2 DEF Has

LEMMA HasWithout ==
  ASSUME NEW S, NEW p \in Seq(S), NEW k \in 1..Len(p), NEW m, Has(p, m), p[k] # m
  PROVE  Has(Without(p, k), m)
<1> PICK i \in 1..Len(p) : p[i] = m
  BY DEF Has
<1> PICK a : a = Without(p, k)
  OBVIOUS
<1>1. /\ i < k => i \in 1..Len(a) /\ a[i] = p[i]
      /\ i > k => i - 1 \in 1..Len(a) /\ a[i - 1] = p[i]
  BY TakingOut
<1>2. i < k \/ i > k
  OBVIOUS
<1> QED BY <1>1, <1>2 DEF Has

LEMMA HasJoined ==
  ASSUME NEW S, NEW p \in Seq(S), NEW m \in Seq(S), NEW q \in Seq(S), NEW x
  PROVE  Has(p \o m \o q, x) <=> Has(p, x) \/ Has(m, x) \/ Has(q, x)
<1> PICK line : line = p \o m \o q
  OBVIOUS
<1>1. /\ Len(line) = Len(p) + Len(m) + Len(q)
      /\ Len(p) \in Nat /\ Len(m) \in Nat /\ Len(q) \in Nat
      /\ \A i \in 1..Len(p) : line[i] = p[i]
      /\ \A i \in 1..Len(m) : line[Len(p) + i] = m[i]
      /\ \A i \in 1..Len(q) : line[Len(p) + Len(m) + i] = q[i]
  OBVIOUS
<1>2. ASSUME Has(p, x) \/ Has(m, x) \/ Has(q, x) PROVE Has(line, x)
  <2>1. /\ \A i \in 1..Len(p) : i \in 1..Len(line)
        /\ \A i \in 1..Len(m) : Len(p) + i \in 1..Len(line)
        /\ \A i \in 1..Len(q) : Len(p) + Len(m) + i \in 1..Len(line)
    BY <1>1
  <2> QED BY <1>1, <1>2, <2>1 DEF Has
<1>3. ASSUME NEW i \in 1..Len(line), line[i] = x PROVE Has(p, x) \/ Has(m, x) \/ Has(q, x)
  <2>1. CASE i <= Len(p)
    <3>1. i \in 1..Len(p)
      BY <1>1, <2>1
    <3> QED BY <1>1, <1>3, <3>1 DEF Has
  <2>2. CASE i > Len(p) /\ i <= Len(p) + Len(m)
    <3>1. i - Len(p) \in 1..Len(m) /\ Len(p) + (i - Len(p)) = i
      BY <1>1, <2>2
    <3>2. m[i - Len(p)] = x
      BY <1>1, <1>3, <3>1
    <3> QED BY <3>1, <3>2 DEF Has
  <2>3. CASE i > Len(p) + Len(m)
    <3>1. i - (Len(p) + Len(m)) \in 1..Len(q) /\ Len(p) + Len(m) + (i - (Len(p) + Len(m))) = i
      BY <1>1, <2>3
    <3>2. q[i - (Len(p) + Len(m))] = x
      BY <1>1, <1>3, <3>1
    <3> QED BY <3>1, <3>2 DEF Has
  <2> QED BY <1>1, <2>1, <2>2, <2>3
<1>4. Has(line, x) => \E i \in 1..Len(line) : line[i] = x
  BY DEF Has
<1> QED BY <1>2, <1>3, <1>4

\* The end of a line of k places keeps what is among the last k.
LEMMA HasAmongLast ==
  ASSUME NEW S, NEW s \in Seq(S), NEW k \in Nat, NEW i \in 1..Len(s), i > Len(s) - k
  PROVE  Has(LastOf(s, k), s[i])
<1> PICK r : r = LastOf(s, k)
  OBVIOUS
<1>1. PICK o \in 0..Len(s) : /\ Len(r) = Len(s) - o /\ (o # 0 => Len(s) - o = k)
                            /\ \A j \in 1..(Len(s) - o) : r[j] = s[o + j]
  BY LastPlaces DEF IsEndOf
<1>2. i - o \in 1..Len(r) /\ o + (i - o) = i
  BY <1>1
<1>3. r[i - o] = s[i]
  BY <1>1, <1>2
<1> QED BY <1>2, <1>3 DEF Has
============================================================================
