---------------------------- MODULE ClientProofs ----------------------------
(***************************************************************************)
(* What the reference client can rely on, for any callers, ids, events and *)
(* limits, and any number of calls and faults.                             *)
(*                                                                         *)
(* Types of the queues and calls come first (Base).  On top of them, each  *)
(* property has an inductive invariant of its own:                         *)
(*   PublishedIsKept - OkIsKept and OneVersion: every OK under way, or in  *)
(*     the inbox, is true of the store, and a store once full stays full.  *)
(*   NestedDiscovers - Nested: each discover kept the handlers that follow *)
(*     its own, so that putting them back removes its own only.            *)
(*   AnswerUnderWay - Alone, Awaited and Hears: a call knows when it shares*)
(*     a queue, and its question is in a queue or has been answered.       *)
(*   RequestExact - InUse, Untouched, Exact and Complete: nothing was said *)
(*     of a new id, and from its question on, what was returned, what the  *)
(*     inbox and what the path hold of it are one answer (Continues).      *)
(* Only is a recursive function; its laws over joined, appended and        *)
(* shortened sequences are shown place by place (Sifts).                   *)
(***************************************************************************)
EXTENDS Client, QueueLemmas

----------------------------------------------------------------------------
\* f sifts s: what is in S of the first elements of s, place by place.
Sifts(f, s, S) ==
  /\ f[0] = <<>>
  /\ \A i \in 1..Len(s) : f[i] = IF s[i] \in S THEN Append(f[i - 1], s[i]) ELSE f[i - 1]

\* The first n elements of s can be sifted.
Siftable(s, S, T, n) ==
  \E f \in [0..n -> Seq(T)] :
    /\ f[0] = <<>>
    /\ \A i \in 1..n : f[i] = IF s[i] \in S THEN Append(f[i - 1], s[i]) ELSE f[i - 1]

\* There is a function that sifts all of s, by induction on the places of s.
LEMMA SiftableUpTo ==
  ASSUME NEW T, NEW S, NEW s \in Seq(T)
  PROVE  Siftable(s, S, T, Len(s))
<1> DEFINE N == {n \in Nat : n <= Len(s) => Siftable(s, S, T, n)}
<1>1. 0 \in N
  <2> DEFINE f == [i \in 0..0 |-> <<>>]
  <2>1. <<>> \in Seq(T)
    BY EmptySeq
  <2>2. f \in [0..0 -> Seq(T)] /\ f[0] = <<>>
    BY <2>1
  <2>3. \A i \in 1..0 : FALSE
    OBVIOUS
  <2> HIDE DEF f
  <2>4. Siftable(s, S, T, 0)
    BY <2>2, <2>3 DEF Siftable
  <2> QED BY <2>4
<1>2. ASSUME NEW n \in 1..Len(s), n - 1 \in N PROVE n \in N
  <2>1. n - 1 \in Nat /\ n - 1 <= Len(s) /\ s[n] \in T
    OBVIOUS
  <2>2. Siftable(s, S, T, n - 1)
    BY <1>2, <2>1
  <2> HIDE DEF N
  <2>3. PICK f \in [0..(n - 1) -> Seq(T)] :
          /\ f[0] = <<>>
          /\ \A i \in 1..(n - 1) :
               f[i] = IF s[i] \in S THEN Append(f[i - 1], s[i]) ELSE f[i - 1]
    BY <2>2 DEF Siftable
  <2> DEFINE v == IF s[n] \in S THEN Append(f[n - 1], s[n]) ELSE f[n - 1]
             g == [i \in 0..n |-> IF i = n THEN v ELSE f[i]]
  <2>4. f[n - 1] \in Seq(T)
    BY <2>1
  <2>5. v \in Seq(T)
    BY <2>1, <2>4
  <2> HIDE DEF v
  <2>6. g \in [0..n -> Seq(T)] /\ g[0] = <<>>
    BY <2>3, <2>5
  <2>7. g[n] = v /\ \A i \in 0..(n - 1) : g[i] = f[i]
    OBVIOUS
  <2>8. \A i \in 1..n : i = n \/ (i \in 1..(n - 1) /\ i \in 0..(n - 1) /\ i - 1 \in 0..(n - 1))
    OBVIOUS
  <2>9. n - 1 \in 0..(n - 1)
    OBVIOUS
  <2> HIDE DEF g
  <2>10. ASSUME NEW i \in 1..n
         PROVE  g[i] = IF s[i] \in S THEN Append(g[i - 1], s[i]) ELSE g[i - 1]
    <3>1. CASE i = n
      BY <2>7, <2>9, <3>1 DEF v
    <3>2. CASE i \in 1..(n - 1) /\ i \in 0..(n - 1) /\ i - 1 \in 0..(n - 1)
      BY <2>3, <2>7, <3>2
    <3> QED BY <2>8, <3>1, <3>2
  <2>11. Siftable(s, S, T, n)
    BY <2>6, <2>10 DEF Siftable
  <2> QED BY <2>11 DEF N
<1> HIDE DEF N
<1>3. Len(s) \in Nat
  OBVIOUS
<1>4. 0..Len(s) \subseteq N
  BY <1>1, <1>2, <1>3, Climbing
<1>5. Len(s) \in N
  BY <1>3, <1>4
<1> QED BY <1>5 DEF N

\* The recursive function of Only is one that sifts s.
LEMMA OnlySifts ==
  ASSUME NEW T, NEW S, NEW s \in Seq(T)
  PROVE  \E f \in [0..Len(s) -> Seq(T)] : Sifts(f, s, S) /\ Only(s, S) = f[Len(s)]
<1> DEFINE P(g) == g = [i \in 0..Len(s) |->
                          IF i = 0 THEN <<>>
                          ELSE IF s[i] \in S THEN Append(g[i - 1], s[i]) ELSE g[i - 1]]
           h == CHOOSE g : P(g)
<1>0. Siftable(s, S, T, Len(s)) /\ Len(s) \in Nat
  BY SiftableUpTo
<1>1. PICK f \in [0..Len(s) -> Seq(T)] :
        /\ f[0] = <<>>
        /\ \A i \in 1..Len(s) : f[i] = IF s[i] \in S THEN Append(f[i - 1], s[i]) ELSE f[i - 1]
  BY <1>0 DEF Siftable
<1>2. P(f)
  <2>1. f = [i \in 0..Len(s) |-> f[i]]
    OBVIOUS
  <2>2. \A i \in 0..Len(s) : f[i] = IF i = 0 THEN <<>>
                                    ELSE IF s[i] \in S THEN Append(f[i - 1], s[i]) ELSE f[i - 1]
    <3>1. \A i \in 0..Len(s) : i = 0 \/ (i \in 1..Len(s) /\ i # 0)
      BY <1>0
    <3> QED BY <1>1, <3>1
  <2> QED BY <2>1, <2>2
<1>3. P(h)
  <2> HIDE DEF P
  <2> QED BY <1>2
<1>4. Only(s, S) = h[Len(s)]
  BY DEF Only
<1> HIDE DEF h
<1>5. h[0] = <<>>
      /\ \A i \in 1..Len(s) : h[i] = IF s[i] \in S THEN Append(h[i - 1], s[i]) ELSE h[i - 1]
  <2>1. \A i \in 0..Len(s) : h[i] = IF i = 0 THEN <<>>
                                    ELSE IF s[i] \in S THEN Append(h[i - 1], s[i]) ELSE h[i - 1]
    BY <1>3
  <2>2. 0 \in 0..Len(s) /\ \A i \in 1..Len(s) : i \in 0..Len(s) /\ i # 0
    BY <1>0
  <2> HIDE DEF P
  <2> QED BY <2>1, <2>2
<1> DEFINE N == {n \in Nat : n <= Len(s) => h[n] = f[n]}
<1>6. 0 \in N
  BY <1>1, <1>5
<1>7. ASSUME NEW n \in 1..Len(s), n - 1 \in N PROVE n \in N
  <2>1. h[n - 1] = f[n - 1]
    BY <1>7
  <2> QED BY <1>1, <1>5, <2>1
<1> HIDE DEF N
<1>8. 0..Len(s) \subseteq N
  BY <1>0, <1>6, <1>7, Climbing
<1>9. h[Len(s)] = f[Len(s)]
  <2>1. Len(s) \in N
    BY <1>0, <1>8
  <2> QED BY <2>1 DEF N
<1> QED BY <1>1, <1>4, <1>9 DEF Sifts

\* What is sifted depends on the elements sifted only.
LEMMA SiftsAgree ==
  ASSUME NEW S, NEW s, NEW t, NEW f, NEW g, NEW n \in Nat,
         Len(s) \in Nat, Len(t) \in Nat, n <= Len(s), n <= Len(t),
         Sifts(f, s, S), Sifts(g, t, S), \A i \in 1..n : s[i] = t[i]
  PROVE  f[n] = g[n]
<1> DEFINE N == {m \in Nat : m <= n => f[m] = g[m]}
<1>1. 0 \in N
  BY DEF Sifts
<1>2. ASSUME NEW m \in 1..n, m - 1 \in N PROVE m \in N
  <2>1. f[m - 1] = g[m - 1] /\ m \in 1..Len(s) /\ m \in 1..Len(t)
    BY <1>2
  <2> QED BY <2>1 DEF Sifts
<1> HIDE DEF N
<1>3. 0..n \subseteq N
  BY <1>1, <1>2, Climbing
<1>4. n \in N
  BY <1>3
<1> QED BY <1>4 DEF N

LEMMA OnlyNothing == \A S : Only(<<>>, S) = <<>>
<1> TAKE S
<1>1. PICK z, T : z = <<>> /\ T = {}
  OBVIOUS
<1>2. z \in Seq(T)
  BY <1>1, EmptySeq
<1>3. \E f \in [0..Len(z) -> Seq(T)] : Sifts(f, z, S) /\ Only(z, S) = f[Len(z)]
  BY <1>2, OnlySifts
<1> QED BY <1>1, <1>3 DEF Sifts

\* Only over one element more.
LEMMA OnlyAppend ==
  ASSUME NEW T, NEW S, NEW s \in Seq(T), NEW e \in T
  PROVE  Only(Append(s, e), S) = IF e \in S THEN Append(Only(s, S), e) ELSE Only(s, S)
<1>1. PICK t : t = Append(s, e)
  OBVIOUS
<1>2. /\ t \in Seq(T) /\ Len(s) \in Nat /\ Len(t) = Len(s) + 1 /\ t[Len(t)] = e
      /\ \A i \in 1..Len(s) : s[i] = t[i]
  BY <1>1
<1>3. PICK f : Sifts(f, s, S) /\ Only(s, S) = f[Len(s)]
  BY OnlySifts
<1>4. PICK g : Sifts(g, t, S) /\ Only(t, S) = g[Len(t)]
  BY <1>2, OnlySifts
<1>5. f[Len(s)] = g[Len(s)]
  <2>1. Len(t) \in Nat /\ Len(s) <= Len(t) /\ Len(s) <= Len(s)
    BY <1>2
  <2> QED BY <1>2, <1>3, <1>4, <2>1, SiftsAgree
<1>6. Len(t) \in 1..Len(t) /\ Len(t) - 1 = Len(s)
  BY <1>2
<1>7. g[Len(t)] = IF e \in S THEN Append(g[Len(s)], e) ELSE g[Len(s)]
  BY <1>2, <1>4, <1>6 DEF Sifts
<1> QED BY <1>1, <1>3, <1>4, <1>5, <1>7

\* What is left are the elements in S, none of them twice if none was.
LEMMA OnlyKeeps ==
  ASSUME NEW T, NEW S, NEW s \in Seq(T)
  PROVE  /\ Only(s, S) \in Seq(T) /\ Len(Only(s, S)) <= Len(s)
         /\ Elements(Only(s, S)) = Elements(s) \cap S
         /\ Distinct(s) => Distinct(Only(s, S))
<1>1. PICK f \in [0..Len(s) -> Seq(T)] : Sifts(f, s, S) /\ Only(s, S) = f[Len(s)]
  BY OnlySifts
<1> DEFINE Q(n) == /\ Len(f[n]) <= n
                   /\ Elements(f[n]) = {s[i] : i \in 1..n} \cap S
                   /\ Distinct(s) => Distinct(f[n])
           N == {n \in Nat : n <= Len(s) => Q(n)}
<1>2. 0 \in N
  <2>1. f[0] = <<>> /\ Len(f[0]) = 0
    BY <1>1 DEF Sifts
  <2>2. Elements(f[0]) = {} /\ Distinct(f[0]) /\ {s[i] : i \in 1..0} = {}
    BY <2>1 DEF Elements, Distinct
  <2> QED BY <2>1, <2>2
<1>3. ASSUME NEW n \in 1..Len(s), n - 1 \in N PROVE n \in N
  <2>1. n - 1 \in 0..Len(s) /\ s[n] \in T
    OBVIOUS
  <2>2. PICK q : q = f[n - 1]
    OBVIOUS
  <2>3. q \in Seq(T) /\ Len(q) <= n - 1
        /\ Elements(q) = {s[i] : i \in 1..(n - 1)} \cap S
        /\ (Distinct(s) => Distinct(q))
    BY <1>3, <2>1, <2>2
  <2>4. {s[i] : i \in 1..n} = {s[i] : i \in 1..(n - 1)} \cup {s[n]}
    <3>1. \A i \in 1..n : i \in 1..(n - 1) \/ i = n
      OBVIOUS
    <3>2. \A i \in 1..(n - 1) : i \in 1..n
      OBVIOUS
    <3> QED BY <3>1, <3>2
  <2>5. f[n] = IF s[n] \in S THEN Append(q, s[n]) ELSE q
    BY <1>1, <2>2 DEF Sifts
  <2>6. CASE s[n] \notin S
    BY <2>3, <2>4, <2>5, <2>6
  <2>7. CASE s[n] \in S
    <3>1. Len(Append(q, s[n])) = Len(q) + 1 /\ Elements(Append(q, s[n])) = Elements(q) \cup {s[n]}
          /\ (Distinct(q) /\ s[n] \notin Elements(q) => Distinct(Append(q, s[n])))
      BY <2>1, <2>3, Appending
    <3>2. Distinct(s) => s[n] \notin Elements(q)
      <4>1. Distinct(s) => \A i \in 1..(n - 1) : s[i] # s[n]
        BY DEF Distinct
      <4> QED BY <2>3, <4>1
    <3>3. Len(q) \in Nat
      BY <2>3
    <3>4. Len(f[n]) <= n
      BY <2>3, <2>5, <2>7, <3>1, <3>3
    <3>5. Elements(f[n]) = {s[i] : i \in 1..n} \cap S
      BY <2>3, <2>4, <2>5, <2>7, <3>1
    <3>6. Distinct(s) => Distinct(f[n])
      BY <2>3, <2>5, <2>7, <3>1, <3>2
    <3> QED BY <3>4, <3>5, <3>6
  <2> QED BY <2>6, <2>7
<1> HIDE DEF N
<1>4. Len(s) \in Nat
  OBVIOUS
<1>a. 0..Len(s) \subseteq N
  BY <1>2, <1>3, <1>4, Climbing
<1>5. Len(s) \in N /\ Len(s) \in Nat
  BY <1>4, <1>a
<1>6. Q(Len(s)) /\ f[Len(s)] \in Seq(T)
  BY <1>5 DEF N
<1> QED BY <1>1, <1>6 DEF Elements

\* Only over two queues put together.
LEMMA OnlyJoined ==
  ASSUME NEW T, NEW S, NEW p \in Seq(T), NEW q \in Seq(T)
  PROVE  Only(p \o q, S) = Only(p, S) \o Only(q, S)
<1> DEFINE Q(n) == Only(p \o SubSeq(q, 1, n), S) = Only(p, S) \o Only(SubSeq(q, 1, n), S)
           N == {n \in Nat : n <= Len(q) => Q(n)}
<1>1. Only(p, S) \in Seq(T)
  BY OnlyKeeps
<1>2. 0 \in N
  <2>1. SubSeq(q, 1, 0) = <<>>
    OBVIOUS
  <2>2. p \o <<>> = p /\ Only(p, S) \o <<>> = Only(p, S)
    BY <1>1
  <2> QED BY <2>1, <2>2, OnlyNothing
<1>3. ASSUME NEW n \in 1..Len(q), n - 1 \in N PROVE n \in N
  <2>1. PICK r, e : r = SubSeq(q, 1, n - 1) /\ e = q[n]
    OBVIOUS
  <2>2. r \in Seq(T) /\ e \in T /\ SubSeq(q, 1, n) = Append(r, e)
    BY <2>1
  <2>3. Only(p \o r, S) = Only(p, S) \o Only(r, S)
    BY <1>3, <2>1
  <2> HIDE DEF N
  <2>4. PICK w : w = p \o r
    OBVIOUS
  <2>5. w \in Seq(T) /\ p \o Append(r, e) = Append(w, e)
    BY <2>2, <2>4
  <2>6. Only(Append(w, e), S) = IF e \in S THEN Append(Only(w, S), e) ELSE Only(w, S)
    BY <2>2, <2>5, OnlyAppend
  <2>7. Only(Append(r, e), S) = IF e \in S THEN Append(Only(r, S), e) ELSE Only(r, S)
    BY <2>2, OnlyAppend
  <2>8. Only(r, S) \in Seq(T)
    BY <2>2, OnlyKeeps
  <2>9. Only(p, S) \o Append(Only(r, S), e) = Append(Only(p, S) \o Only(r, S), e)
    BY <1>1, <2>2, <2>8
  <2>10. Only(p \o SubSeq(q, 1, n), S) = Only(Append(w, e), S)
    BY <2>2, <2>5
  <2>11. Only(SubSeq(q, 1, n), S) = Only(Append(r, e), S)
    BY <2>2
  <2>12. Q(n)
    <3> HIDE DEF Q
    <3>1. CASE e \in S
      <4>1. Only(Append(w, e), S) = Only(p, S) \o Only(Append(r, e), S)
        BY <2>3, <2>4, <2>6, <2>7, <2>9, <3>1
      <4> QED BY <2>10, <2>11, <4>1 DEF Q
    <3>2. CASE e \notin S
      <4>1. Only(Append(w, e), S) = Only(p, S) \o Only(Append(r, e), S)
        BY <2>3, <2>4, <2>6, <2>7, <3>2
      <4> QED BY <2>10, <2>11, <4>1 DEF Q
    <3> QED BY <3>1, <3>2
  <2> QED BY <2>12 DEF N
<1> HIDE DEF N
<1>a. Len(q) \in Nat
  OBVIOUS
<1>4. 0..Len(q) \subseteq N
  BY <1>2, <1>3, <1>a, Climbing
<1>5. Q(Len(q))
  <2>1. Len(q) \in N
    BY <1>4, <1>a
  <2> QED BY <2>1 DEF N
<1>6. SubSeq(q, 1, Len(q)) = q
  OBVIOUS
<1> QED BY <1>5, <1>6

\* Only once the first element is gone.
LEMMA OnlyTail ==
  ASSUME NEW T, NEW S, NEW s \in Seq(T), s # <<>>
  PROVE  /\ Head(s) \in S => Only(s, S) # <<>> /\ Head(Only(s, S)) = Head(s)
                             /\ Only(Tail(s), S) = Tail(Only(s, S))
         /\ Head(s) \notin S => Only(Tail(s), S) = Only(s, S)
<1>1. PICK h, t : h = Head(s) /\ t = Tail(s)
  OBVIOUS
<1>2. h \in T /\ t \in Seq(T) /\ <<h>> \in Seq(T) /\ s = <<h>> \o t
  BY <1>1
<1>3. Only(s, S) = Only(<<h>>, S) \o Only(t, S)
  <2>1. PICK o : o = <<h>>
    OBVIOUS
  <2>2. o \in Seq(T) /\ t \in Seq(T)
    BY <1>2, <2>1
  <2>3. Only(o \o t, S) = Only(o, S) \o Only(t, S)
    BY <2>2, OnlyJoined
  <2>4. s = o \o t
    BY <1>2, <2>1
  <2> QED BY <2>1, <2>3, <2>4
<1>4. Only(<<h>>, S) = IF h \in S THEN <<h>> ELSE <<>>
  <2>1. PICK z : z = <<>>
    OBVIOUS
  <2>2. z \in Seq(T)
    BY <2>1, EmptySeq
  <2>3. h \in T
    BY <1>2
  <2>4. Only(Append(z, h), S) = IF h \in S THEN Append(Only(z, S), h) ELSE Only(z, S)
    BY <2>2, <2>3, OnlyAppend
  <2>5. Append(z, h) = <<h>>
    BY <2>1
  <2> QED BY <2>1, <2>4, <2>5, OnlyNothing
<1>5. PICK r : r = Only(t, S)
  OBVIOUS
<1>6. r \in Seq(T)
  BY <1>2, <1>5, OnlyKeeps
<1>7. /\ <<h>> \o r # <<>> /\ Head(<<h>> \o r) = h /\ Tail(<<h>> \o r) = r
      /\ <<>> \o r = r
  BY <1>2, <1>6
<1> QED BY <1>1, <1>3, <1>4, <1>5, <1>7

\* Without an element at one place at most, s is shorter by one at most.
LEMMA OnlyDropsOne ==
  ASSUME NEW T, NEW S, NEW s \in Seq(T),
         \A i, j \in 1..Len(s) : s[i] \notin S /\ s[j] \notin S => i = j
  PROVE  Len(Only(s, S)) >= Len(s) - 1
<1>1. PICK f \in [0..Len(s) -> Seq(T)] : Sifts(f, s, S) /\ Only(s, S) = f[Len(s)]
  BY OnlySifts
<1> DEFINE Q(n) == \/ Len(f[n]) = n
                   \/ Len(f[n]) = n - 1 /\ \E j \in 1..n : s[j] \notin S
           N == {n \in Nat : n <= Len(s) => Q(n)}
<1>2. 0 \in N
  BY <1>1 DEF Sifts
<1>3. ASSUME NEW n \in 1..Len(s), n - 1 \in N PROVE n \in N
  <2>1. PICK q : q = f[n - 1]
    OBVIOUS
  <2>2. q \in Seq(T) /\ s[n] \in T
    BY <2>1
  <2>3. Len(q) = n - 1 \/ (Len(q) = n - 2 /\ \E j \in 1..(n - 1) : s[j] \notin S)
    BY <1>3, <2>1
  <2>4. f[n] = IF s[n] \in S THEN Append(q, s[n]) ELSE q
    BY <1>1, <2>1 DEF Sifts
  <2>5. CASE s[n] \in S
    <3>1. Len(f[n]) = Len(q) + 1
      BY <2>2, <2>4, <2>5
    <3> QED BY <2>3, <3>1
  <2>6. CASE s[n] \notin S
    <3>1. ~ \E j \in 1..(n - 1) : s[j] \notin S
      BY <2>6
    <3> QED BY <2>3, <2>4, <2>6, <3>1
  <2> QED BY <2>5, <2>6
<1> HIDE DEF N
<1>a. Len(s) \in Nat
  OBVIOUS
<1>4. 0..Len(s) \subseteq N
  BY <1>2, <1>3, <1>a, Climbing
<1>5. Len(s) \in N
  BY <1>4, <1>a
<1>6. Q(Len(s))
  BY <1>5 DEF N
<1> QED BY <1>1, <1>6, <1>a

----------------------------------------------------------------------------
Kinds == {"none", "request", "publish", "messages", "discover"}
Hows == {"none", "running", "eose", "closed", "timeout", "ok", "refused", "list"}
Args == Ids \cup Events \cup {"none"}
Calls == [kind : Kinds, arg : Args, n : Nat, keep : BOOLEAN, how : Hows, got : Seq(Events),
          orig : Seq(Nat), found : BOOLEAN, fresh : BOOLEAN, lone : BOOLEAN]
Questions == ({"REQ", "CLOSE"} \X Ids) \cup ({"EVENT"} \X Events)
Parcels == [by : {"bridge", "other"}, msg : Answers]

Types ==
  /\ call \in [Callers -> Calls] /\ calls \in Nat
  /\ inbox \in Seq(Answers) /\ up \in Seq(Questions) /\ down \in Seq(Parcels)
  /\ stored \in Seq(Events \ Ephemeral) /\ Len(stored) <= MaxEvents
  /\ subs \in Seq(Ids) /\ Distinct(subs)
  /\ toRelay \in Seq({"REQ", "CLOSE"})
  /\ lists \in Nat /\ listed \in BOOLEAN /\ listSub \in BOOLEAN
  /\ handler \in Seq(Nat)
  /\ asked \in [Ids -> Seq(Events) \cup {Unasked}]
  /\ faulty \in BOOLEAN /\ crossed \in BOOLEAN

\* What a running call asks for is of its kind.
ArgsFit == \A c \in Callers : Running(c) =>
             /\ call[c].kind = "request" => call[c].arg \in Ids
             /\ call[c].kind = "publish" => call[c].arg \in Events

\* Handlers and what calls know of them are numbers of calls that have begun.
Numbers ==
  /\ \A i \in 1..Len(handler) : handler[i] \in 1..calls
  /\ \A c \in Callers : call[c].n <= calls
  /\ \A c \in Callers : \A i \in 1..Len(call[c].orig) :
       call[c].orig[i] \in 1..calls /\ call[c].orig[i] < call[c].n

Shares(d, kind) == Running(d) /\ (call[d].kind = "discover" <=> kind = "discover")

LEMMA NoCallIs ==
  ASSUME NEW how \in Hows
  PROVE  LET r == [NoCall EXCEPT !.how = how]
         IN  /\ r \in Calls /\ r.how = how /\ r.n = 0 /\ r.kind = "none" /\ r.orig = <<>>
<1>1. <<>> \in Seq(Events) /\ <<>> \in Seq(Nat)
  BY EmptySeq
<1>2. NoCall \in Calls
  BY <1>1 DEF NoCall, Calls, Kinds, Hows, Args
<1> QED BY <1>2 DEF NoCall, Calls

\* The call a caller has begun, and what becomes of the others.
LEMMA BeginIs ==
  ASSUME Types, NEW c \in Callers, NEW kind \in Kinds, NEW arg \in Args, NEW keep \in BOOLEAN,
         Begin(c, kind, arg, keep)
  PROVE  /\ ~ Running(c) /\ call' \in [Callers -> Calls] /\ calls' = calls + 1 /\ calls \in Nat
         /\ call'[c].kind = kind /\ call'[c].arg = arg /\ call'[c].n = calls + 1
         /\ call'[c].keep = keep /\ call'[c].how = "running" /\ call'[c].got = <<>>
         /\ call'[c].orig = handler
         /\ (call'[c].fresh <=> arg \notin used)
         /\ (call'[c].lone <=> ~ \E e \in Callers : Shares(e, kind))
         /\ \A d \in Callers \ {c} :
              /\ call'[d].kind = call[d].kind /\ call'[d].arg = call[d].arg
              /\ call'[d].n = call[d].n /\ call'[d].keep = call[d].keep
              /\ call'[d].how = call[d].how /\ call'[d].got = call[d].got
              /\ call'[d].orig = call[d].orig /\ call'[d].found = call[d].found
              /\ call'[d].fresh = call[d].fresh
              /\ (call'[d].lone <=> call[d].lone /\ ~ Shares(d, kind))
<1> DEFINE Sh(d) == Running(d) /\ (call[d].kind = "discover" <=> kind = "discover")
           mine == [NoCall EXCEPT !.kind = kind, !.arg = arg, !.n = calls + 1, !.keep = keep,
                      !.how = "running", !.orig = handler, !.fresh = arg \notin used,
                      !.lone = ~ \E e \in Callers : Sh(e)]
           theirs(d) == [call[d] EXCEPT !.lone = @ /\ ~ Sh(d)]
<1>1. /\ ~ Running(c) /\ calls' = calls + 1 /\ calls \in Nat
      /\ call' = [d \in Callers |-> IF d = c THEN mine ELSE theirs(d)]
  BY DEF Begin, Types
<1>2. \A d \in Callers : Sh(d) <=> Shares(d, kind)
  BY DEF Shares
<1>3. NoCall \in Calls /\ handler \in Seq(Nat)
  <2>1. NoCall \in Calls
    <3>1. <<>> \in Seq(Events) /\ <<>> \in Seq(Nat)
      BY EmptySeq
    <3> QED BY <3>1 DEF NoCall, Calls, Kinds, Hows, Args
  <2> QED BY <2>1 DEF Types
<1> HIDE DEF Sh
<1>4. /\ mine \in Calls /\ mine.kind = kind /\ mine.arg = arg /\ mine.n = calls + 1
      /\ mine.keep = keep /\ mine.how = "running" /\ mine.got = <<>> /\ mine.orig = handler
      /\ (mine.fresh <=> arg \notin used) /\ (mine.lone <=> ~ \E e \in Callers : Sh(e))
  <2>1. PICK fresh, lone \in BOOLEAN : (fresh <=> arg \notin used)
                                       /\ (lone <=> ~ \E e \in Callers : Sh(e))
    OBVIOUS
  <2>2. fresh = (arg \notin used) /\ lone = (~ \E e \in Callers : Sh(e))
    BY <2>1
  <2>a. mine = [NoCall EXCEPT !.kind = kind, !.arg = arg, !.n = calls + 1, !.keep = keep,
                  !.how = "running", !.orig = handler, !.fresh = fresh, !.lone = lone]
    BY <2>2, Zenon
  <2> HIDE DEF mine
  <2>3. mine = [kind |-> kind, arg |-> arg, n |-> calls + 1, keep |-> keep, how |-> "running",
                got |-> <<>>, orig |-> handler, found |-> FALSE, fresh |-> fresh, lone |-> lone]
    BY <2>a DEF NoCall
  <2>4. <<>> \in Seq(Events) /\ "running" \in Hows /\ calls + 1 \in Nat
    <3>1. calls + 1 \in Nat
      BY DEF Types
    <3> QED BY <3>1, EmptySeq DEF Hows
  <2> QED BY <1>3, <2>1, <2>3, <2>4 DEF Calls
<1>5. ASSUME NEW d \in Callers
      PROVE  /\ theirs(d) \in Calls /\ theirs(d).kind = call[d].kind /\ theirs(d).arg = call[d].arg
             /\ theirs(d).n = call[d].n /\ theirs(d).keep = call[d].keep
             /\ theirs(d).how = call[d].how /\ theirs(d).got = call[d].got
             /\ theirs(d).orig = call[d].orig /\ theirs(d).found = call[d].found
             /\ theirs(d).fresh = call[d].fresh
             /\ (theirs(d).lone <=> call[d].lone /\ ~ Sh(d))
  <2>1. PICK r : r = call[d]
    OBVIOUS
  <2>2. r \in Calls
    BY <2>1 DEF Types
  <2>3. PICK l \in BOOLEAN : l <=> r.lone /\ ~ Sh(d)
    OBVIOUS
  <2>4. l = (r.lone /\ ~ Sh(d))
    BY <2>2, <2>3 DEF Calls
  <2>5. theirs(d) = [r EXCEPT !.lone = l]
    BY <2>1, <2>4
  <2> HIDE DEF theirs
  <2> QED BY <2>1, <2>2, <2>3, <2>5 DEF Calls
<1> HIDE DEF mine, theirs
<1>6. call' \in [Callers -> Calls] /\ call'[c] = mine
      /\ \A d \in Callers \ {c} : call'[d] = theirs(d)
  BY <1>1, <1>4, <1>5
<1>7. (mine.lone <=> ~ \E e \in Callers : Shares(e, kind))
  BY <1>2, <1>4
<1>8. \A d \in Callers : theirs(d).lone <=> call[d].lone /\ ~ Shares(d, kind)
  BY <1>2, <1>5
<1> QED BY <1>1, <1>4, <1>5, <1>6, <1>7, <1>8

\* Of a call that has ended only what it returned is left.
LEMMA EndsIs ==
  ASSUME Types, NEW c \in Callers, NEW how \in Hows, Ends(c, how)
  PROVE  /\ call' \in [Callers -> Calls]
         /\ call'[c].how = how /\ call'[c].n = 0 /\ call'[c].orig = <<>>
         /\ how \in {"eose", "ok"} =>
              /\ call'[c].kind = call[c].kind /\ call'[c].arg = call[c].arg
              /\ call'[c].got = call[c].got /\ call'[c].fresh = call[c].fresh
              /\ call'[c].lone = call[c].lone
         /\ \A d \in Callers \ {c} : call'[d] = call[d]
<1>1. PICK r : r = call[c]
  OBVIOUS
<1>2. r \in Calls
  BY <1>1 DEF Types
<1>3. <<>> \in Seq(Nat)
  BY EmptySeq
<1>4. PICK v : v = IF how \in {"eose", "ok"}
                     THEN [r EXCEPT !.how = how, !.n = 0, !.keep = FALSE, !.orig = <<>>]
                     ELSE [NoCall EXCEPT !.how = how]
  OBVIOUS
<1>5. call' = [call EXCEPT ![c] = v]
  BY <1>1, <1>4 DEF Ends
<1>6. /\ v \in Calls /\ v.how = how /\ v.n = 0 /\ v.orig = <<>>
      /\ how \in {"eose", "ok"} =>
              /\ v.kind = r.kind /\ v.arg = r.arg /\ v.got = r.got
              /\ v.fresh = r.fresh /\ v.lone = r.lone
  <2>1. CASE how \in {"eose", "ok"}
    BY <1>2, <1>3, <1>4, <2>1 DEF Calls
  <2>2. CASE how \notin {"eose", "ok"}
    BY <1>4, <2>2, NoCallIs
  <2> QED BY <2>1, <2>2
<1> QED BY <1>1, <1>5, <1>6 DEF Types

----------------------------------------------------------------------------
Base == Types /\ ArgsFit /\ Numbers

\* An answer, by its kind.
LEMMA AnswerForms ==
  ASSUME NEW m \in Answers
  PROVE  /\ m[1] \in {"EOSE", "CLOSED", "EVENT", "OK"}
         /\ m[1] \in {"EOSE", "CLOSED"} => m[2] \in Ids /\ m = <<m[1], m[2]>>
         /\ m[1] = "EVENT" => m[2] \in Ids /\ m[3] \in Events /\ m = <<"EVENT", m[2], m[3]>>
         /\ m[1] = "OK" => m[2] \in Events /\ m[3] \in {"ok", "refused"}
                           /\ m = <<"OK", m[2], m[3]>>
BY DEF Answers

LEMMA QuestionForms ==
  ASSUME NEW m \in Questions
  PROVE  /\ m[1] \in {"REQ", "CLOSE"} => m[2] \in Ids
         /\ m[1] = "EVENT" => m[2] \in Events
         /\ m = <<m[1], m[2]>>
BY DEF Questions

\* Store keeps to the limit and adds e unless it is ephemeral.
LEMMA StoreIs ==
  ASSUME Types, NEW e \in Events
  PROVE  Store(e) \in Seq(Events \ Ephemeral) /\ Len(Store(e)) <= MaxEvents
<1>1. PICK kept : kept = IF e \in Replaceable THEN Only(stored, Events \ Replaceable) ELSE stored
  OBVIOUS
<1>2. stored \in Seq(Events \ Ephemeral) /\ Len(stored) <= MaxEvents
  BY DEF Types
<1>3. kept \in Seq(Events \ Ephemeral) /\ Len(kept) <= MaxEvents
  <2>1. PICK o : o = Only(stored, Events \ Replaceable)
    OBVIOUS
  <2>2. o \in Seq(Events \ Ephemeral) /\ Len(o) <= Len(stored)
    BY <1>2, <2>1, OnlyKeeps
  <2>3. Len(o) \in Nat /\ Len(stored) \in Nat /\ MaxEvents \in Nat
    BY <1>2, <2>2, ClientAssumption
  <2>4. Len(o) <= MaxEvents
    BY <1>2, <2>2, <2>3
  <2> QED BY <1>1, <1>2, <2>1, <2>2, <2>4
<1>4. Store(e) = IF e \in Ephemeral THEN stored
                 ELSE IF Len(kept) < MaxEvents THEN Append(kept, e) ELSE Append(Tail(kept), e)
  BY <1>1 DEF Store
<1>5. CASE e \in Ephemeral
  BY <1>2, <1>4, <1>5
<1>6. CASE e \notin Ephemeral /\ Len(kept) < MaxEvents
  BY <1>3, <1>4, <1>6, ClientAssumption
<1>7. CASE e \notin Ephemeral /\ ~ (Len(kept) < MaxEvents)
  <2>1. Len(kept) = MaxEvents /\ MaxEvents \in Nat \ {0} /\ kept # <<>>
    BY <1>3, <1>7, ClientAssumption
  <2>2. Tail(kept) \in Seq(Events \ Ephemeral) /\ Len(Tail(kept)) = MaxEvents - 1
    BY <1>3, <2>1
  <2> QED BY <1>4, <1>7, <2>1, <2>2
<1> QED BY <1>5, <1>6, <1>7

Burst(s) == [i \in 1..Len(stored) |-> FromBridge(<<"EVENT", s, stored[i]>>)]

\* What an event sends to the subscriptions are parcels, one each.
LEMMA FanOutIs ==
  ASSUME Types, NEW e \in Events
  PROVE  FanOut(e) \in Seq(Parcels)
<1>1. \A i \in 1..Len(subs) : <<"EVENT", subs[i], e>> \in Answers
  BY DEF Types, Answers
<1>2. \A i \in 1..Len(subs) : FromBridge(<<"EVENT", subs[i], e>>) \in Parcels
  BY <1>1 DEF FromBridge, Parcels
<1>3. Len(subs) \in Nat
  BY DEF Types
<1> QED BY <1>2, <1>3 DEF FanOut

\* What a REQ sends of the store are parcels, one per stored event.
LEMMA BurstIs ==
  ASSUME Types, NEW s \in Ids
  PROVE  /\ Burst(s) \in Seq(Parcels) /\ Len(Burst(s)) = Len(stored)
         /\ \A i \in 1..Len(stored) : stored[i] \in Events
                                      /\ Burst(s)[i] = FromBridge(<<"EVENT", s, stored[i]>>)
<1>1. \A i \in 1..Len(stored) : stored[i] \in Events /\ <<"EVENT", s, stored[i]>> \in Answers
  BY DEF Types, Answers
<1>2. \A i \in 1..Len(stored) : FromBridge(<<"EVENT", s, stored[i]>>) \in Parcels
  BY <1>1 DEF FromBridge, Parcels
<1>3. Len(stored) \in Nat
  BY DEF Types
<1>4. Burst(s) \in Seq(Parcels)
  BY <1>2, <1>3 DEF Burst
<1>5. Len(Burst(s)) = Len(stored)
  BY <1>3 DEF Burst
<1>6. \A i \in 1..Len(stored) : Burst(s)[i] = FromBridge(<<"EVENT", s, stored[i]>>)
  BY DEF Burst
<1> QED BY <1>1, <1>4, <1>5, <1>6

\* A message that is taken from the inbox.
LEMMA PopIs ==
  ASSUME Types, NEW c \in Callers, NEW kind, Pop(c, kind)
  PROVE  /\ inbox # <<>> /\ Head(inbox) \in Answers /\ Tail(inbox) \in Seq(Answers)
         /\ Running(c) /\ call[c].kind = kind /\ inbox' = Tail(inbox)
         /\ call[c] \in Calls
BY DEF Types, Pop

\* Beginning a call keeps the types of the calls.
LEMMA BaseBegins ==
  ASSUME Base, NEW c \in Callers, NEW kind \in Kinds, NEW arg \in Args, NEW keep \in BOOLEAN,
         Begin(c, kind, arg, keep),
         kind = "request" => arg \in Ids, kind = "publish" => arg \in Events
  PROVE  /\ ArgsFit' /\ call' \in [Callers -> Calls] /\ calls' \in Nat
         /\ \A d \in Callers : call'[d].n <= calls'
         /\ \A d \in Callers : \A i \in 1..Len(call'[d].orig) :
               call'[d].orig[i] \in 1..calls' /\ call'[d].orig[i] < call'[d].n
<1>1. Types
  BY DEF Base
<1>2. /\ call' \in [Callers -> Calls] /\ calls' = calls + 1 /\ calls \in Nat
      /\ call'[c].kind = kind /\ call'[c].arg = arg /\ call'[c].n = calls + 1
      /\ call'[c].how = "running" /\ call'[c].orig = handler
      /\ \A d \in Callers \ {c} :
              /\ call'[d].kind = call[d].kind /\ call'[d].arg = call[d].arg
              /\ call'[d].n = call[d].n /\ call'[d].how = call[d].how
              /\ call'[d].orig = call[d].orig
  BY <1>1, BeginIs
<1>3. ArgsFit'
  <2>1. ASSUME NEW d \in Callers, Running(d)'
        PROVE  /\ call'[d].kind = "request" => call'[d].arg \in Ids
               /\ call'[d].kind = "publish" => call'[d].arg \in Events
    <3>1. CASE d = c
      BY <1>2, <3>1
    <3>2. CASE d # c
      BY <1>2, <2>1, <3>2 DEF Base, ArgsFit, Running
    <3> QED BY <3>1, <3>2
  <2> QED BY <2>1 DEF ArgsFit
<1>4. ASSUME NEW d \in Callers
      PROVE  /\ call'[d].n <= calls'
             /\ \A i \in 1..Len(call'[d].orig) :
                  call'[d].orig[i] \in 1..calls' /\ call'[d].orig[i] < call'[d].n
  <2>1. CASE d = c
    BY <1>2, <2>1 DEF Base, Numbers
  <2>2. CASE d # c
    <3>1. call[d].n \in Nat
      BY <1>1 DEF Types, Calls
    <3>2. call[d].n <= calls /\ \A i \in 1..Len(call[d].orig) :
                  call[d].orig[i] \in 1..calls /\ call[d].orig[i] < call[d].n
      BY DEF Base, Numbers
    <3> QED BY <1>2, <2>2, <3>1, <3>2
  <2> QED BY <2>1, <2>2
<1> QED BY <1>2, <1>3, <1>4

\* Ending a call keeps the types of the calls.
LEMMA BaseEnds ==
  ASSUME Base, NEW c \in Callers, NEW how \in Hows \ {"running"}, Ends(c, how), calls' = calls
  PROVE  /\ ArgsFit' /\ call' \in [Callers -> Calls]
         /\ \A d \in Callers : call'[d].n <= calls'
         /\ \A d \in Callers : \A i \in 1..Len(call'[d].orig) :
               call'[d].orig[i] \in 1..calls' /\ call'[d].orig[i] < call'[d].n
<1>1. Types
  BY DEF Base
<1>2. /\ call' \in [Callers -> Calls] /\ call'[c].how = how /\ call'[c].n = 0
      /\ call'[c].orig = <<>> /\ \A d \in Callers \ {c} : call'[d] = call[d]
  BY <1>1, EndsIs
<1>3. ArgsFit'
  BY <1>2 DEF Base, ArgsFit, Running
<1>4. ASSUME NEW d \in Callers
      PROVE  /\ call'[d].n <= calls'
             /\ \A i \in 1..Len(call'[d].orig) :
                  call'[d].orig[i] \in 1..calls' /\ call'[d].orig[i] < call'[d].n
  <2>1. CASE d = c
    <3>1. Len(call'[c].orig) = 0 /\ calls \in Nat
      BY <1>1, <1>2 DEF Types
    <3> QED BY <1>2, <2>1, <3>1
  <2>2. CASE d # c
    BY <1>2, <2>2 DEF Base, Numbers
  <2> QED BY <2>1, <2>2
<1> QED BY <1>2, <1>3, <1>4

Sniffs(n) == handler' = <<n>> \o handler

\* Base is kept, action by action: the start of a call, the arrival of the
\* list, and the steps of the path and the relays.
LEMMA BaseStarts ==
  ASSUME Base, NEW c \in Callers,
         StartRequest(c) \/ StartPublish(c) \/ StartMessages(c) \/ StartDiscover(c)
  PROVE  Base'
<1>1. PICK kind \in Kinds, arg \in Args, keep \in BOOLEAN :
        /\ Begin(c, kind, arg, keep)
        /\ kind = "request" => arg \in Ids
        /\ kind = "publish" => arg \in Events
        /\ \/ up' = up
           \/ kind = "request" /\ up' = Append(up, <<"REQ", arg>>)
           \/ kind = "publish" /\ up' = Append(up, <<"EVENT", arg>>)
        /\ toRelay' = toRelay \/ toRelay' = Append(toRelay, "REQ")
        /\ handler' = handler \/ Sniffs(calls + 1)
  <2>1. CASE StartRequest(c)
    <3>1. PICK s \in Ids, keep \in BOOLEAN :
            /\ Begin(c, "request", s, keep) /\ up' = Append(up, <<"REQ", s>>)
            /\ toRelay' = toRelay /\ handler' = handler
      BY <2>1 DEF StartRequest, Sent
    <3>2. "request" \in Kinds /\ s \in Args /\ ("request" = "publish" => s \in Events)
      BY DEF Kinds, Args
    <3> QED BY <3>1, <3>2
  <2>2. CASE StartPublish(c)
    <3>1. PICK e \in Events :
            /\ Begin(c, "publish", e, FALSE) /\ up' = Append(up, <<"EVENT", e>>)
            /\ toRelay' = toRelay /\ handler' = handler
      BY <2>2 DEF StartPublish, Sent
    <3>2. "publish" \in Kinds /\ e \in Args /\ ("publish" = "request" => e \in Ids)
          /\ FALSE \in BOOLEAN
      BY DEF Kinds, Args
    <3> QED BY <3>1, <3>2
  <2>3. CASE StartMessages(c)
    <3>1. /\ Begin(c, "messages", "none", FALSE) /\ up' = up
          /\ toRelay' = toRelay /\ handler' = handler
      BY <2>3 DEF StartMessages
    <3>2. "messages" \in Kinds /\ "none" \in Args /\ "messages" # "request" /\ "messages" # "publish"
          /\ FALSE \in BOOLEAN
      BY DEF Kinds, Args
    <3> QED BY <3>1, <3>2
  <2>4. CASE StartDiscover(c)
    <3>1. /\ Begin(c, "discover", "none", FALSE) /\ up' = up
          /\ toRelay' = Append(toRelay, "REQ") /\ Sniffs(calls + 1)
      BY <2>4 DEF StartDiscover, Sniffs
    <3>2. "discover" \in Kinds /\ "none" \in Args /\ "discover" # "request" /\ "discover" # "publish"
          /\ FALSE \in BOOLEAN
      BY DEF Kinds, Args
    <3> QED BY <3>1, <3>2
  <2> QED BY <2>1, <2>2, <2>3, <2>4
<1>2. /\ ArgsFit' /\ call' \in [Callers -> Calls] /\ calls' \in Nat
      /\ \A d \in Callers : call'[d].n <= calls'
      /\ \A d \in Callers : \A i \in 1..Len(call'[d].orig) :
            call'[d].orig[i] \in 1..calls' /\ call'[d].orig[i] < call'[d].n
  BY <1>1, BaseBegins
<1>3. /\ calls' = calls + 1 /\ inbox' = inbox /\ down' = down /\ stored' = stored /\ subs' = subs
      /\ lists' = lists /\ listed' = listed /\ listSub' = listSub
      /\ asked' = asked /\ faulty' = faulty /\ crossed' = crossed
  BY <1>1 DEF Begin, relayVars, listVars
<1>4. calls \in Nat /\ up \in Seq(Questions) /\ toRelay \in Seq({"REQ", "CLOSE"}) /\ handler \in Seq(Nat)
  BY DEF Base, Types
<1>5. up' \in Seq(Questions)
  <2>1. kind = "request" => <<"REQ", arg>> \in Questions
    BY <1>1 DEF Questions
  <2>2. kind = "publish" => <<"EVENT", arg>> \in Questions
    BY <1>1 DEF Questions
  <2>3. CASE up' = up
    BY <1>4, <2>3
  <2>4. CASE kind = "request" /\ up' = Append(up, <<"REQ", arg>>)
    BY <1>4, <2>1, <2>4
  <2>5. CASE kind = "publish" /\ up' = Append(up, <<"EVENT", arg>>)
    BY <1>4, <2>2, <2>5
  <2> QED BY <1>1, <2>3, <2>4, <2>5
<1>6. toRelay' \in Seq({"REQ", "CLOSE"})
  <2>1. toRelay' = toRelay \/ toRelay' = Append(toRelay, "REQ")
    BY <1>1
  <2>2. PICK T : T = {"REQ", "CLOSE"}
    OBVIOUS
  <2>3. toRelay \in Seq(T) /\ "REQ" \in T
    BY <1>4, <2>2
  <2>4. Append(toRelay, "REQ") \in Seq(T)
    BY <2>3
  <2> QED BY <2>1, <2>2, <2>3, <2>4
<1>7. handler' \in Seq(Nat) /\ \A i \in 1..Len(handler') : handler'[i] \in 1..calls'
  <2>1. \A i \in 1..Len(handler) : handler[i] \in 1..calls
    BY DEF Base, Numbers
  <2>2. CASE handler' = handler
    BY <1>3, <1>4, <2>1, <2>2
  <2>3. CASE Sniffs(calls + 1)
    <3>1. PICK h, n : h = <<n>> \o handler /\ n = calls + 1
      OBVIOUS
    <3>a. handler' = h
      BY <2>3, <3>1 DEF Sniffs
    <3>2. n \in Nat /\ n \in 1..calls' /\ h \in Seq(Nat) /\ Len(h) = Len(handler) + 1 /\ h[1] = n
          /\ Len(handler) \in Nat /\ \A i \in 1..Len(handler) : h[i + 1] = handler[i]
      BY <1>3, <1>4, <3>1
    <3>3. ASSUME NEW i \in 1..Len(h) PROVE h[i] \in 1..calls'
      <4>1. CASE i = 1
        BY <3>2, <4>1
      <4>2. CASE i # 1
        <5>1. i - 1 \in 1..Len(handler) /\ (i - 1) + 1 = i
          BY <3>2, <4>2
        <5>2. h[i] = handler[i - 1] /\ handler[i - 1] \in 1..calls
          BY <2>1, <3>2, <5>1
        <5> QED BY <1>3, <1>4, <5>2
      <4> QED BY <4>1, <4>2
    <3> QED BY <3>a, <3>2, <3>3
  <2> QED BY <1>1, <2>2, <2>3
<1>8. Types'
  BY <1>2, <1>3, <1>5, <1>6, <1>7 DEF Base, Types
<1>9. Numbers'
  BY <1>2, <1>7 DEF Numbers
<1> QED BY <1>2, <1>8, <1>9 DEF Base

\* A call that ends or goes on leaves the rest to what it was.
LEMMA BaseCalls ==
  ASSUME Base, NEW c \in Callers,
         RequestTakes(c) \/ PublishTakes(c) \/ MessagesTakes(c) \/ TimesOut(c) \/ DiscoverEnds(c)
  PROVE  Base'
<1>1. /\ Types /\ calls' = calls /\ down' = down /\ stored' = stored /\ subs' = subs
      /\ lists' = lists /\ listed' = listed /\ listSub' = listSub
      /\ asked' = asked /\ faulty' = faulty /\ crossed' \in BOOLEAN
  BY DEF Base, Types, RequestTakes, PublishTakes, MessagesTakes, TimesOut, DiscoverEnds, Pop, relayVars,
         listVars, boundVars, ghostVars
<1>2. inbox' \in Seq(Answers)
  <2>1. inbox' = inbox \/ (inbox # <<>> /\ inbox' = Tail(inbox))
    BY DEF RequestTakes, PublishTakes, MessagesTakes, TimesOut, DiscoverEnds, Pop
  <2>2. inbox \in Seq(Answers)
    BY <1>1 DEF Types
  <2> QED BY <2>1, <2>2
<1>3. call[c] \in Calls /\ Running(c)
  BY <1>1 DEF Types, RequestTakes, PublishTakes, MessagesTakes, TimesOut, DiscoverEnds, Discovers, Pop
<1>4. handler' \in Seq(Nat) /\ \A i \in 1..Len(handler') : handler'[i] \in 1..calls'
  <2>1. handler' = handler \/ handler' = call[c].orig
    BY DEF RequestTakes, PublishTakes, MessagesTakes, TimesOut, DiscoverEnds, Pop
  <2>2. call[c].orig \in Seq(Nat) /\ handler \in Seq(Nat)
    BY <1>1, <1>3 DEF Types, Calls
  <2>3. /\ \A i \in 1..Len(handler) : handler[i] \in 1..calls
        /\ \A i \in 1..Len(call[c].orig) : call[c].orig[i] \in 1..calls
    BY DEF Base, Numbers
  <2> QED BY <1>1, <2>1, <2>2, <2>3
<1>5. toRelay' \in Seq({"REQ", "CLOSE"})
  <2>1. toRelay' = toRelay \/ toRelay' = Append(toRelay, "CLOSE")
    BY DEF RequestTakes, PublishTakes, MessagesTakes, TimesOut, DiscoverEnds, Pop
  <2>2. toRelay \in Seq({"REQ", "CLOSE"})
    BY <1>1 DEF Types
  <2> QED BY <2>1, <2>2
<1>6. up' \in Seq(Questions)
  <2>1. up' = up \/ (call[c].kind = "request" /\ up' = Append(up, <<"CLOSE", call[c].arg>>))
    BY DEF RequestTakes, PublishTakes, MessagesTakes, TimesOut, DiscoverEnds, Pop, SendClose, Sent
  <2>2. call[c].kind = "request" => <<"CLOSE", call[c].arg>> \in Questions
    BY <1>3 DEF Base, ArgsFit, Questions
  <2>3. up \in Seq(Questions)
    BY <1>1 DEF Types
  <2> QED BY <2>1, <2>2, <2>3
<1>7. \/ \E how \in Hows \ {"running"} : Ends(c, how)
      \/ \E e \in Events : call' = [call EXCEPT ![c].got = Append(@, e)]
      \/ call' = call
  <2>1. CASE RequestTakes(c)
    <3>1. Head(inbox) \in Answers
      BY <1>1, <2>1, PopIs DEF RequestTakes
    <3>2. Head(inbox)[1] = "EVENT" => Head(inbox)[3] \in Events
      BY <3>1, AnswerForms
    <3>3. {"eose", "closed"} \subseteq Hows \ {"running"}
      BY DEF Hows
    <3> QED BY <2>1, <3>2, <3>3 DEF RequestTakes
  <2>2. CASE PublishTakes(c)
    <3>1. Head(inbox) \in Answers
      BY <1>1, <2>2, PopIs DEF PublishTakes
    <3>2. Head(inbox)[1] = "OK" => Head(inbox)[3] \in {"ok", "refused"}
      BY <3>1, AnswerForms
    <3>3. {"ok", "refused"} \subseteq Hows \ {"running"}
      BY DEF Hows
    <3> QED BY <2>2, <3>2, <3>3 DEF PublishTakes
  <2>3. CASE MessagesTakes(c)
    BY <2>3 DEF MessagesTakes
  <2>4. CASE TimesOut(c) \/ DiscoverEnds(c)
    <3>1. {"timeout", "list"} \subseteq Hows \ {"running"}
      BY DEF Hows
    <3> QED BY <2>4, <3>1 DEF TimesOut, DiscoverEnds
  <2> QED BY <2>1, <2>2, <2>3, <2>4
<1>8. /\ ArgsFit' /\ call' \in [Callers -> Calls]
      /\ \A d \in Callers : call'[d].n <= calls'
      /\ \A d \in Callers : \A i \in 1..Len(call'[d].orig) :
            call'[d].orig[i] \in 1..calls' /\ call'[d].orig[i] < call'[d].n
  <2>1. CASE \E how \in Hows \ {"running"} : Ends(c, how)
    BY <1>1, <2>1, BaseEnds
  <2>2. ASSUME NEW e \in Events, call' = [call EXCEPT ![c].got = Append(@, e)]
        PROVE  /\ ArgsFit' /\ call' \in [Callers -> Calls]
               /\ \A d \in Callers : call'[d].n <= calls'
               /\ \A d \in Callers : \A i \in 1..Len(call'[d].orig) :
                     call'[d].orig[i] \in 1..calls' /\ call'[d].orig[i] < call'[d].n
    <3>a. PICK g : g = Append(call[c].got, e)
      OBVIOUS
    <3>b. g \in Seq(Events)
      BY <1>3, <3>a DEF Calls
    <3>1. PICK r : r = [call[c] EXCEPT !.got = g]
      OBVIOUS
    <3>c. call' = [call EXCEPT ![c] = r]
      BY <2>2, <3>a, <3>1
    <3>2. r \in Calls /\ r.kind = call[c].kind /\ r.arg = call[c].arg /\ r.how = call[c].how
          /\ r.n = call[c].n /\ r.orig = call[c].orig
      BY <1>3, <3>b, <3>1 DEF Calls
    <3>3. call' \in [Callers -> Calls] /\ call'[c] = r
          /\ \A d \in Callers \ {c} : call'[d] = call[d]
      BY <1>1, <3>c, <3>2 DEF Types
    <3>4. \A d \in Callers :
            /\ call'[d].kind = call[d].kind /\ call'[d].arg = call[d].arg
            /\ call'[d].how = call[d].how
            /\ call'[d].n = call[d].n /\ call'[d].orig = call[d].orig
      BY <3>2, <3>3
    <3>5. ArgsFit'
      BY <3>4 DEF Base, ArgsFit, Running
    <3> QED BY <1>1, <3>3, <3>4, <3>5 DEF Base, Numbers
  <2>3. CASE call' = call
    BY <1>1, <2>3 DEF Base, ArgsFit, Running, Numbers, Types
  <2> QED BY <1>7, <2>1, <2>2, <2>3
<1>9. Types'
  BY <1>1, <1>2, <1>4, <1>5, <1>6, <1>8 DEF Types
<1> QED BY <1>4, <1>8, <1>9 DEF Base, Numbers

LEMMA ListIs ==
  ASSUME Types, ListArrives
  PROVE  /\ call' \in [Callers -> Calls]
         /\ \A c \in Callers :
              /\ call'[c].kind = call[c].kind /\ call'[c].arg = call[c].arg
              /\ call'[c].n = call[c].n /\ call'[c].keep = call[c].keep
              /\ call'[c].how = call[c].how /\ call'[c].got = call[c].got
              /\ call'[c].orig = call[c].orig /\ call'[c].fresh = call[c].fresh
              /\ call'[c].lone = call[c].lone
              /\ (call'[c].found <=> call[c].found
                                     \/ (Discovers(c) /\ Contains(handler, call[c].n)))
<1> DEFINE v(c) == [call[c] EXCEPT !.found = @ \/ (Discovers(c) /\ Contains(handler, call[c].n))]
<1>1. call' = [c \in Callers |-> v(c)]
  BY DEF ListArrives
<1>2. ASSUME NEW c \in Callers
      PROVE  /\ v(c) \in Calls /\ v(c).kind = call[c].kind /\ v(c).arg = call[c].arg
             /\ v(c).n = call[c].n /\ v(c).keep = call[c].keep
             /\ v(c).how = call[c].how /\ v(c).got = call[c].got
             /\ v(c).orig = call[c].orig /\ v(c).fresh = call[c].fresh
             /\ v(c).lone = call[c].lone
             /\ (v(c).found <=> call[c].found \/ (Discovers(c) /\ Contains(handler, call[c].n)))
  <2>1. PICK r : r = call[c]
    OBVIOUS
  <2>2. r \in Calls
    BY <2>1 DEF Types
  <2>3. PICK f \in BOOLEAN : f <=> r.found \/ (Discovers(c) /\ Contains(handler, r.n))
    OBVIOUS
  <2>4. f = (r.found \/ (Discovers(c) /\ Contains(handler, r.n)))
    BY <2>2, <2>3 DEF Calls
  <2>5. v(c) = [r EXCEPT !.found = f]
    BY <2>1, <2>4
  <2> HIDE DEF v
  <2> QED BY <2>1, <2>2, <2>3, <2>5 DEF Calls
<1> HIDE DEF v
<1> QED BY <1>1, <1>2

LEMMA BaseList == ASSUME Base, ListArrives PROVE Base'
<1>1. Types
  BY DEF Base
<1>2. /\ call' \in [Callers -> Calls]
      /\ \A c \in Callers :
              /\ call'[c].kind = call[c].kind /\ call'[c].arg = call[c].arg
              /\ call'[c].n = call[c].n /\ call'[c].how = call[c].how /\ call'[c].orig = call[c].orig
  BY <1>1, ListIs
<1>3. /\ inbox' = inbox /\ handler' = handler /\ up' = up /\ toRelay' = toRelay /\ down' = down
      /\ stored' = stored /\ subs' = subs /\ lists > 0 /\ lists' = lists - 1
      /\ listed' = listed /\ listSub' = listSub /\ calls' = calls
      /\ asked' = asked /\ faulty' = faulty /\ crossed' = crossed
  BY DEF ListArrives, relayVars, boundVars, ghostVars
<1>4. ArgsFit'
  BY <1>2 DEF Base, ArgsFit, Running
<1>5. Numbers'
  BY <1>2, <1>3 DEF Base, Numbers
<1>6. Types'
  BY <1>1, <1>2, <1>3 DEF Types
<1> QED BY <1>4, <1>5, <1>6 DEF Base

\* The steps that leave every call alone.
LEMMA BaseQuiet ==
  ASSUME Base, call' = call, calls' = calls \/ calls' = calls + 1, handler' = handler, Types'
  PROVE  Base'
<1>1. ArgsFit'
  BY DEF Base, ArgsFit, Running
<1>2. calls \in Nat /\ \A c \in Callers : call[c].n \in Nat
  BY DEF Base, Types, Calls
<1>3. Numbers'
  <2>1. \A i \in 1..calls : i \in 1..calls'
    BY <1>2
  <2>2. \A c \in Callers : call[c].n <= calls => call[c].n <= calls'
    BY <1>2
  <2> QED BY <2>1, <2>2 DEF Base, Numbers
<1> QED BY <1>1, <1>3 DEF Base

LEMMA OkIsParcel ==
  ASSUME NEW e \in Events, NEW how \in {"ok", "refused"}
  PROVE  FromBridge(<<"OK", e, how>>) \in Parcels
<1>1. <<"OK", e, how>> \in Answers
  BY DEF Answers
<1> QED BY <1>1 DEF FromBridge, Parcels

LEMMA EoseIsParcel ==
  ASSUME NEW s \in Ids, NEW verb \in {"EOSE", "CLOSED"}
  PROVE  FromBridge(<<verb, s>>) \in Parcels
<1>1. <<verb, s>> \in Answers
  BY DEF Answers
<1> QED BY <1>1 DEF FromBridge, Parcels

\* What the hidden relay does with one message of the client.
LEMMA RelayTypes ==
  ASSUME Types, RelayTakes
  PROVE  /\ Head(up) \in Questions /\ Tail(up) \in Seq(Questions) /\ up' = Tail(up)
         /\ down' \in Seq(Parcels)
         /\ stored' \in Seq(Events \ Ephemeral) /\ Len(stored') <= MaxEvents
         /\ subs' \in Seq(Ids) /\ Distinct(subs)'
         /\ asked' \in [Ids -> Seq(Events) \cup {Unasked}]
<1>1. PICK m : m = Head(up)
  OBVIOUS
<1>2. m \in Questions /\ Tail(up) \in Seq(Questions) /\ up' = Tail(up)
  BY <1>1 DEF RelayTakes, Types
<1>3. /\ down \in Seq(Parcels) /\ stored \in Seq(Events \ Ephemeral) /\ Len(stored) <= MaxEvents
      /\ subs \in Seq(Ids) /\ Distinct(subs) /\ asked \in [Ids -> Seq(Events) \cup {Unasked}]
  BY DEF Types
<1>4. ASSUME NEW e \in Events, OnEvent(e)
      PROVE  /\ down' \in Seq(Parcels)
             /\ stored' \in Seq(Events \ Ephemeral) /\ Len(stored') <= MaxEvents
             /\ subs' = subs /\ asked' = asked
  <2>1. CASE stored' = Store(e) /\ down' = down \o <<FromBridge(<<"OK", e, "ok">>)>> \o FanOut(e)
             /\ UNCHANGED <<subs, asked>>
    <3>1. PICK a, f : a = FromBridge(<<"OK", e, "ok">>) /\ f = FanOut(e)
      OBVIOUS
    <3>2. a \in Parcels
      BY <3>1, OkIsParcel
    <3>3. f \in Seq(Parcels)
      BY <3>1, FanOutIs
    <3>4. down' = down \o <<a>> \o f
      BY <2>1, <3>1
    <3>5. down' \in Seq(Parcels)
      BY <1>3, <3>2, <3>3, <3>4
    <3>6. Store(e) \in Seq(Events \ Ephemeral) /\ Len(Store(e)) <= MaxEvents
      BY StoreIs
    <3> QED BY <2>1, <3>5, <3>6
  <2>2. CASE down' = Append(down, FromBridge(<<"OK", e, "refused">>)) /\ UNCHANGED <<relayVars, asked>>
    <3>1. FromBridge(<<"OK", e, "refused">>) \in Parcels
      BY OkIsParcel
    <3> QED BY <1>3, <2>2, <3>1 DEF relayVars
  <2> QED BY <1>4, <2>1, <2>2 DEF OnEvent
<1>5. ASSUME NEW s \in Ids, OnReq(s)
      PROVE  /\ down' \in Seq(Parcels) /\ stored' = stored
             /\ subs' \in Seq(Ids) /\ Distinct(subs)'
             /\ asked' \in [Ids -> Seq(Events) \cup {Unasked}]
  <2>1. CASE /\ subs' = IF Contains(subs, s) THEN subs ELSE Append(subs, s)
             /\ down' = down \o Burst(s) \o <<FromBridge(<<"EOSE", s>>)>>
             /\ asked' = [asked EXCEPT ![s] = IF @ = Unasked THEN stored ELSE @]
             /\ UNCHANGED stored
    <3>1. PICK a, f : a = FromBridge(<<"EOSE", s>>) /\ f = Burst(s)
      OBVIOUS
    <3>2. a \in Parcels
      BY <3>1, EoseIsParcel
    <3>3. f \in Seq(Parcels)
      BY <3>1, BurstIs
    <3>4. down' = down \o f \o <<a>>
      BY <2>1, <3>1
    <3>5. down' \in Seq(Parcels)
      BY <1>3, <3>2, <3>3, <3>4
    <3>6. subs' \in Seq(Ids) /\ Distinct(subs)'
      <4>1. CASE Contains(subs, s)
        BY <1>3, <2>1, <4>1 DEF Distinct
      <4>2. CASE ~ Contains(subs, s)
        <5>1. s \notin Elements(subs)
          BY <4>2 DEF Contains, Elements
        <5>2. Append(subs, s) \in Seq(Ids) /\ Distinct(Append(subs, s))
          BY <1>3, <5>1, Appending
        <5>3. subs' = Append(subs, s)
          BY <2>1, <4>2
        <5> QED BY <5>2, <5>3 DEF Distinct
      <4> QED BY <4>1, <4>2
    <3>7. stored \in Seq(Events)
      <4>1. Events \ Ephemeral \subseteq Events
        OBVIOUS
      <4> QED BY <1>3, <4>1, SeqGrows
    <3>8. asked' \in [Ids -> Seq(Events) \cup {Unasked}]
      BY <1>3, <2>1, <3>7
    <3> QED BY <2>1, <3>5, <3>6, <3>8
  <2>2. CASE down' = Append(down, FromBridge(<<"CLOSED", s>>)) /\ UNCHANGED <<relayVars, asked>>
    <3>1. FromBridge(<<"CLOSED", s>>) \in Parcels
      BY EoseIsParcel
    <3> QED BY <1>3, <2>2, <3>1 DEF relayVars, Distinct
  <2> QED BY <1>5, <2>1, <2>2 DEF OnReq, Burst
<1>6. ASSUME NEW s \in Ids, OnClose(s)
      PROVE  /\ down' = down /\ stored' = stored /\ asked' = asked
             /\ subs' \in Seq(Ids) /\ Distinct(subs)'
  <2>1. Only(subs, Ids \ {s}) \in Seq(Ids) /\ Distinct(Only(subs, Ids \ {s}))
    BY <1>3, OnlyKeeps
  <2> QED BY <1>6, <2>1 DEF OnClose, Distinct
<1>7. \/ m[1] = "EVENT" /\ OnEvent(m[2])
      \/ m[1] = "REQ" /\ OnReq(m[2])
      \/ m[1] = "CLOSE" /\ OnClose(m[2])
  BY <1>1 DEF RelayTakes
<1>8. CASE m[1] = "EVENT" /\ OnEvent(m[2])
  <2>1. m[2] \in Events
    BY <1>2, <1>8, QuestionForms
  <2> QED BY <1>1, <1>2, <1>3, <1>4, <1>8, <2>1 DEF Distinct
<1>9. CASE m[1] = "REQ" /\ OnReq(m[2])
  <2>1. m[2] \in Ids
    BY <1>2, <1>9, QuestionForms
  <2> QED BY <1>1, <1>2, <1>3, <1>5, <1>9, <2>1
<1>10. CASE m[1] = "CLOSE" /\ OnClose(m[2])
  <2>1. m[2] \in Ids
    BY <1>2, <1>10, QuestionForms
  <2> QED BY <1>1, <1>2, <1>3, <1>6, <1>10, <2>1
<1> QED BY <1>7, <1>8, <1>9, <1>10

LEMMA BaseWire ==
  ASSUME Base, Deliver \/ RelayTakes \/ PeerPublishes \/ RendezvousTakes \/ Announced
  PROVE  Base'
<1>1. Types
  BY DEF Base
<1>2. CASE Deliver
  <2>1. Head(down) \in Parcels /\ Tail(down) \in Seq(Parcels)
    BY <1>1, <1>2 DEF Types, Deliver
  <2>2. Head(down).msg \in Answers
    BY <2>1 DEF Parcels
  <2>3. inbox' \in Seq(Answers) /\ down' \in Seq(Parcels)
    BY <1>1, <1>2, <2>1, <2>2 DEF Types, Deliver
  <2>4. Types'
    BY <1>1, <1>2, <2>3 DEF Types, Deliver, relayVars, listVars, boundVars, ghostVars
  <2> QED BY <1>2, <2>4, BaseQuiet DEF Deliver, boundVars
<1>3. CASE RelayTakes
  <2>1. /\ up' \in Seq(Questions) /\ down' \in Seq(Parcels)
        /\ stored' \in Seq(Events \ Ephemeral) /\ Len(stored') <= MaxEvents
        /\ subs' \in Seq(Ids) /\ Distinct(subs)'
        /\ asked' \in [Ids -> Seq(Events) \cup {Unasked}]
    BY <1>1, <1>3, RelayTypes
  <2>2. /\ call' = call /\ inbox' = inbox /\ handler' = handler /\ toRelay' = toRelay
        /\ lists' = lists /\ listed' = listed /\ listSub' = listSub /\ calls' = calls
        /\ faulty' = faulty /\ crossed' = crossed
    BY <1>3 DEF RelayTakes, listVars, boundVars
  <2>3. Types'
    BY <1>1, <2>1, <2>2 DEF Types
  <2> QED BY <2>2, <2>3, BaseQuiet
<1>4. CASE PeerPublishes
  <2>1. PICK e \in Events : stored' = Store(e) /\ down' = down \o FanOut(e)
    BY <1>4 DEF PeerPublishes
  <2>2. stored' \in Seq(Events \ Ephemeral) /\ Len(stored') <= MaxEvents
    BY <1>1, <2>1, StoreIs
  <2>3. down' \in Seq(Parcels)
    <3>1. FanOut(e) \in Seq(Parcels) /\ down \in Seq(Parcels)
      BY <1>1, FanOutIs DEF Types
    <3> QED BY <2>1, <3>1
  <2>4. /\ call' = call /\ inbox' = inbox /\ handler' = handler /\ toRelay' = toRelay /\ up' = up
        /\ lists' = lists /\ listed' = listed /\ listSub' = listSub /\ calls' = calls + 1
        /\ faulty' = faulty /\ crossed' = crossed /\ subs' = subs /\ asked' = asked
    BY <1>4 DEF PeerPublishes, callVars, listVars, ghostVars
  <2>5. Types'
    BY <1>1, <2>2, <2>3, <2>4 DEF Types, Distinct
  <2> QED BY <2>4, <2>5, BaseQuiet
<1>5. CASE RendezvousTakes
  <2>1. Tail(toRelay) \in Seq({"REQ", "CLOSE"})
    BY <1>1, <1>5 DEF Types, RendezvousTakes
  <2>2. listSub' \in BOOLEAN /\ lists' \in Nat
    BY <1>1, <1>5 DEF Types, RendezvousTakes
  <2>3. /\ call' = call /\ inbox' = inbox /\ handler' = handler /\ toRelay' = Tail(toRelay) /\ up' = up
        /\ down' = down /\ listed' = listed /\ calls' = calls /\ stored' = stored
        /\ faulty' = faulty /\ crossed' = crossed /\ subs' = subs /\ asked' = asked
    BY <1>5 DEF RendezvousTakes, relayVars, boundVars, ghostVars
  <2>4. Types'
    BY <1>1, <2>1, <2>2, <2>3 DEF Types, Distinct
  <2> QED BY <2>3, <2>4, BaseQuiet
<1>6. CASE Announced
  <2>1. /\ call' = call /\ inbox' = inbox /\ handler' = handler /\ toRelay' = toRelay /\ up' = up
        /\ down' = down /\ listed' = TRUE /\ calls' = calls /\ stored' = stored
        /\ faulty' = faulty /\ crossed' = crossed /\ subs' = subs /\ asked' = asked
        /\ listSub' = listSub
    BY <1>6 DEF Announced, callVars, relayVars, boundVars, ghostVars
  <2>2. lists' \in Nat
    BY <1>1, <1>6 DEF Types, Announced
  <2>3. Types'
    BY <1>1, <2>1, <2>2 DEF Types, Distinct
  <2> QED BY <2>1, <2>3, BaseQuiet
<1> QED BY <1>2, <1>3, <1>4, <1>5, <1>6

\* The faults of the path.
LEMMA BaseFaults ==
  ASSUME Base, Lose \/ Repeat \/ Postpone \/ Stranger
  PROVE  Base'
<1>1. Types
  BY DEF Base
<1>2. /\ call' = call /\ inbox' = inbox /\ handler' = handler /\ toRelay' = toRelay
      /\ stored' = stored /\ subs' = subs /\ lists' = lists /\ listed' = listed
      /\ listSub' = listSub /\ calls' = calls /\ asked' = asked /\ crossed' = crossed
      /\ (faulty' = TRUE \/ faulty' = faulty)
  BY DEF Lose, Repeat, Postpone, Stranger, Fault, relayVars, listVars
<1>3. up \in Seq(Questions) /\ down \in Seq(Parcels)
  BY <1>1 DEF Types
<1>4. up' \in Seq(Questions) /\ down' \in Seq(Parcels)
  <2>1. CASE Lose
    <3>1. \/ up # <<>> /\ up' = Tail(up) /\ down' = down
          \/ down # <<>> /\ down' = Tail(down) /\ up' = up
      BY <2>1 DEF Lose
    <3>2. up # <<>> => Tail(up) \in Seq(Questions)
      BY <1>3
    <3>3. down # <<>> => Tail(down) \in Seq(Parcels)
      BY <1>3
    <3> QED BY <1>3, <3>1, <3>2, <3>3
  <2>2. CASE Repeat
    BY <1>3, <2>2 DEF Repeat
  <2>3. CASE Postpone
    <3>1. Len(up) > 1 => Tail(up) \in Seq(Questions) /\ Head(up) \in Questions
      BY <1>3
    <3>2. Len(down) > 1 => Tail(down) \in Seq(Parcels) /\ Head(down) \in Parcels
      BY <1>3
    <3>3. CASE Len(up) > 1 /\ up' = Append(Tail(up), Head(up)) /\ down' = down
      BY <1>3, <3>1, <3>3
    <3>4. CASE Len(down) > 1 /\ down' = Append(Tail(down), Head(down)) /\ up' = up
      BY <1>3, <3>2, <3>4
    <3> QED BY <2>3, <3>3, <3>4 DEF Postpone
  <2>4. CASE Stranger
    <3>1. PICK m \in {<<"EOSE", s>> : s \in Ids \cap used} \cup {<<"OK", e, "ok">> : e \in Events \cap used} :
            down' = Append(down, [by |-> "other", msg |-> m])
      BY <2>4 DEF Stranger
    <3>2. m \in Answers
      BY DEF Answers
    <3>3. [by |-> "other", msg |-> m] \in Parcels
      BY <3>2 DEF Parcels
    <3> QED BY <1>3, <2>4, <3>1, <3>3 DEF Stranger
  <2> QED BY <2>1, <2>2, <2>3, <2>4
<1>5. Types'
  BY <1>1, <1>2, <1>4 DEF Types, Distinct
<1> QED BY <1>2, <1>5, BaseQuiet

LEMMA BaseInit == Init => Base
<1> SUFFICES ASSUME Init PROVE Base
  OBVIOUS
<1>1. /\ call = [c \in Callers |-> NoCall] /\ handler = <<>> /\ calls = 0
      /\ asked = [s \in Ids |-> Unasked]
  BY DEF Init
<1>2. NoCall \in Calls
  BY EmptySeq DEF NoCall, Calls, Kinds, Hows, Args
<1>3. Types
  <2>1. /\ <<>> \in Seq(Answers) /\ <<>> \in Seq(Questions) /\ <<>> \in Seq(Parcels)
        /\ <<>> \in Seq(Ids) /\ <<>> \in Seq({"REQ", "CLOSE"}) /\ <<>> \in Seq(Nat)
    BY EmptySeq
  <2>2. <<>> \in Seq(Events \ Ephemeral)
    BY EmptySeq
  <2>3. Len(<<>>) = 0
    OBVIOUS
  <2>4. Distinct(<<>>)
    BY <2>3 DEF Distinct
  <2>5. 0 <= MaxEvents
    BY ClientAssumption
  <2>6. /\ inbox = <<>> /\ up = <<>> /\ down = <<>> /\ stored = <<>> /\ subs = <<>>
        /\ toRelay = <<>> /\ lists = 0 /\ listed = FALSE /\ listSub = FALSE
        /\ faulty = FALSE /\ crossed = FALSE
    BY DEF Init
  <2>7. call \in [Callers -> Calls] /\ asked \in [Ids -> Seq(Events) \cup {Unasked}] /\ calls \in Nat
    BY <1>1, <1>2
  <2>8. stored \in Seq(Events \ Ephemeral) /\ Len(stored) <= MaxEvents /\ Distinct(subs)
    BY <2>2, <2>3, <2>4, <2>5, <2>6
  <2>9. /\ inbox \in Seq(Answers) /\ up \in Seq(Questions) /\ down \in Seq(Parcels)
        /\ subs \in Seq(Ids) /\ toRelay \in Seq({"REQ", "CLOSE"}) /\ handler \in Seq(Nat)
    BY <1>1, <2>1, <2>6
  <2> QED BY <2>6, <2>7, <2>8, <2>9 DEF Types
<1>4. ArgsFit
  BY <1>1 DEF ArgsFit, Running, NoCall
<1>5. Numbers
  <2>1. Len(<<>>) = 0
    OBVIOUS
  <2>2. \A c \in Callers : call[c].n = 0 /\ call[c].orig = <<>>
    BY <1>1 DEF NoCall
  <2> QED BY <1>1, <2>1, <2>2 DEF Numbers
<1> QED BY <1>3, <1>4, <1>5 DEF Base

LEMMA BaseStep == Base /\ [Next]_vars => Base'
<1> SUFFICES ASSUME Base, [Next]_vars PROVE Base'
  OBVIOUS
<1>1. CASE \E c \in Callers : StartRequest(c) \/ StartPublish(c) \/ StartMessages(c) \/ StartDiscover(c)
  BY <1>1, BaseStarts
<1>2. CASE \E c \in Callers : \/ RequestTakes(c) \/ PublishTakes(c) \/ MessagesTakes(c)
                              \/ TimesOut(c) \/ DiscoverEnds(c)
  BY <1>2, BaseCalls
<1>3. CASE ListArrives
  BY <1>3, BaseList
<1>4. CASE Deliver \/ RelayTakes \/ PeerPublishes \/ RendezvousTakes \/ Announced
  BY <1>4, BaseWire
<1>5. CASE Lose \/ Repeat \/ Postpone \/ Stranger
  BY <1>5, BaseFaults
<1>6. CASE UNCHANGED vars
  <2>1. /\ call' = call /\ calls' = calls /\ handler' = handler /\ inbox' = inbox /\ up' = up
        /\ down' = down /\ stored' = stored /\ subs' = subs /\ toRelay' = toRelay /\ lists' = lists
        /\ listed' = listed /\ listSub' = listSub /\ asked' = asked /\ faulty' = faulty
        /\ crossed' = crossed
    BY <1>6 DEF vars, callVars, relayVars, listVars, boundVars, ghostVars
  <2>2. Types'
    BY <2>1 DEF Base, Types, Distinct
  <2> QED BY <2>1, <2>2, BaseQuiet
<1> QED BY <1>1, <1>2, <1>3, <1>4, <1>5, <1>6 DEF Next

\* The values of the client, the path and the relays are of their types, the
\* relay's store keeps to its limit, and no call knows a handler of a later one.
THEOREM ClientTypeCorrect == Spec => []TypeOK
<1>1. Base => TypeOK
  <2> SUFFICES ASSUME Base PROVE TypeOK
    OBVIOUS
  <2>1. Types /\ Numbers
    BY DEF Base
  <2>2. ASSUME NEW c \in Callers
        PROVE  /\ call[c].kind \in {"none", "request", "publish", "messages", "discover"}
               /\ call[c].how \in {"none", "running", "eose", "closed", "timeout", "ok", "refused", "list"}
               /\ Range(call[c].got) \subseteq Events
               /\ \A i \in DOMAIN call[c].orig : call[c].orig[i] < call[c].n
               /\ call[c].n \in 0..calls
    <3>1. PICK r : r = call[c]
      OBVIOUS
    <3>2. /\ r.kind \in Kinds /\ r.how \in Hows /\ r.got \in Seq(Events) /\ r.n \in Nat
          /\ r.orig \in Seq(Nat)
      BY <2>1, <3>1 DEF Types, Calls
    <3>3. Range(r.got) \subseteq Events /\ DOMAIN r.orig = 1..Len(r.orig)
      BY <3>2 DEF Range
    <3>4. calls \in Nat /\ r.n <= calls /\ \A i \in 1..Len(r.orig) : r.orig[i] < r.n
      BY <2>1, <3>1 DEF Types, Numbers
    <3> QED BY <3>1, <3>2, <3>3, <3>4 DEF Kinds, Hows
  <2>3. /\ Range(inbox) \subseteq Answers
        /\ Range(down) \subseteq [by : {"bridge", "other"}, msg : Answers]
        /\ Range(up) \subseteq ({"REQ", "CLOSE"} \X Ids) \cup ({"EVENT"} \X Events)
    <3>1. inbox \in Seq(Answers) /\ down \in Seq(Parcels) /\ up \in Seq(Questions)
      BY <2>1 DEF Types
    <3>2. Range(inbox) \subseteq Answers /\ Range(down) \subseteq Parcels /\ Range(up) \subseteq Questions
      BY <3>1 DEF Range
    <3> QED BY <3>2 DEF Parcels, Questions
  <2>4. /\ Range(stored) \subseteq Events \ Ephemeral /\ Len(stored) <= MaxEvents
        /\ Range(subs) \subseteq Ids /\ IsInjective(subs)
        /\ Range(toRelay) \subseteq {"REQ", "CLOSE"} /\ Range(handler) \subseteq 1..calls
    <3>1. /\ stored \in Seq(Events \ Ephemeral) /\ Len(stored) <= MaxEvents
          /\ subs \in Seq(Ids) /\ Distinct(subs) /\ toRelay \in Seq({"REQ", "CLOSE"})
          /\ handler \in Seq(Nat) /\ \A i \in 1..Len(handler) : handler[i] \in 1..calls
      BY <2>1 DEF Types, Numbers
    <3>2. IsInjective(subs)
      BY <3>1 DEF IsInjective, Distinct
    <3> QED BY <3>1, <3>2 DEF Range
  <2>5. lists \in Nat /\ listed \in BOOLEAN /\ listSub \in BOOLEAN
    BY <2>1 DEF Types
  <2> QED BY <2>2, <2>3, <2>4, <2>5 DEF TypeOK
<1> QED BY <1>1, BaseInit, BaseStep, PTL DEF Spec

----------------------------------------------------------------------------
\* What the bridge says in the parcels of q.
Spoken(q) == {d.msg : d \in {x \in Elements(q) : x.by = "bridge"}}

\* An element of a queue of parcels that the bridge signed is spoken.
LEMMA Heard ==
  ASSUME NEW p \in Seq(Answers), NEW q \in Seq(Parcels)
  PROVE  Range(p) \cup {d.msg : d \in {x \in Range(q) : x.by = "bridge"}}
           = Elements(p) \cup Spoken(q)
<1>1. Range(p) = Elements(p) /\ Range(q) = Elements(q)
  BY DEF Range, Elements
<1> QED BY <1>1 DEF Spoken

\* What is coming, by the two queues it comes through.
LEMMA ComingIs ==
  ASSUME Types, Types'
  PROVE  Coming = Elements(inbox) \cup Spoken(down) /\ Coming' = Elements(inbox') \cup Spoken(down')
<1>1. inbox \in Seq(Answers) /\ down \in Seq(Parcels)
  BY DEF Types
<1>2. inbox' \in Seq(Answers) /\ down' \in Seq(Parcels)
  BY DEF Types
<1>3. Coming = Elements(inbox) \cup Spoken(down)
  BY <1>1, Heard DEF Coming
<1>4. Coming' = Elements(inbox') \cup Spoken(down')
  BY <1>2, Heard DEF Coming
<1> QED BY <1>3, <1>4

LEMMA ElementsJoined ==
  ASSUME NEW S, NEW p \in Seq(S), NEW q \in Seq(S)
  PROVE  p \o q \in Seq(S) /\ Elements(p \o q) = Elements(p) \cup Elements(q)
<1>1. PICK r : r = p \o q
  OBVIOUS
<1>2. /\ r \in Seq(S) /\ Len(r) = Len(p) + Len(q) /\ Len(p) \in Nat /\ Len(q) \in Nat
      /\ \A i \in 1..Len(p) : r[i] = p[i]
      /\ \A i \in 1..Len(q) : r[Len(p) + i] = q[i]
  BY <1>1
<1>3. \A i \in 1..Len(r) : i \in 1..Len(p) \/ (i - Len(p) \in 1..Len(q) /\ Len(p) + (i - Len(p)) = i)
  BY <1>2
<1>4. /\ \A i \in 1..Len(p) : i \in 1..Len(r)
      /\ \A i \in 1..Len(q) : Len(p) + i \in 1..Len(r)
  BY <1>2
<1>5. \A x \in Elements(r) : x \in Elements(p) \cup Elements(q)
  <2>1. ASSUME NEW i \in 1..Len(r) PROVE r[i] \in Elements(p) \cup Elements(q)
    <3>1. CASE i \in 1..Len(p)
      BY <1>2, <3>1 DEF Elements
    <3>2. CASE i - Len(p) \in 1..Len(q) /\ Len(p) + (i - Len(p)) = i
      <4>1. r[i] = q[i - Len(p)]
        BY <1>2, <3>2
      <4> QED BY <3>2, <4>1 DEF Elements
    <3> QED BY <1>3, <3>1, <3>2
  <2> QED BY <2>1 DEF Elements
<1>6. \A x \in Elements(p) \cup Elements(q) : x \in Elements(r)
  BY <1>2, <1>4 DEF Elements
<1> QED BY <1>1, <1>2, <1>5, <1>6

LEMMA SpokenAppend ==
  ASSUME NEW q \in Seq(Parcels), NEW d \in Parcels
  PROVE  Spoken(Append(q, d)) = IF d.by = "bridge" THEN Spoken(q) \cup {d.msg} ELSE Spoken(q)
<1>1. Elements(Append(q, d)) = Elements(q) \cup {d}
  BY Appending
<1> QED BY <1>1 DEF Spoken

LEMMA SpokenTail ==
  ASSUME NEW q \in Seq(Parcels), q # <<>>
  PROVE  Spoken(q) = Spoken(Tail(q)) \cup (IF Head(q).by = "bridge" THEN {Head(q).msg} ELSE {})
<1>1. Elements(q) = Elements(Tail(q)) \cup {Head(q)}
  BY TakingHead
<1> QED BY <1>1 DEF Spoken

LEMMA SpokenJoined ==
  ASSUME NEW p \in Seq(Parcels), NEW q \in Seq(Parcels)
  PROVE  Spoken(p \o q) = Spoken(p) \cup Spoken(q)
<1>1. Elements(p \o q) = Elements(p) \cup Elements(q)
  BY ElementsJoined
<1> QED BY <1>1 DEF Spoken

LEMMA FanOutSays ==
  ASSUME Types, NEW e \in Events
  PROVE  \A m \in Spoken(FanOut(e)) : m[1] = "EVENT" /\ m[2] \in Elements(subs)
<1>1. Len(FanOut(e)) = Len(subs)
  BY DEF FanOut, Types
<1>2. ASSUME NEW i \in 1..Len(subs)
      PROVE  FanOut(e)[i].msg[1] = "EVENT" /\ FanOut(e)[i].msg[2] \in Elements(subs)
  <2>1. FanOut(e)[i].msg = <<"EVENT", subs[i], e>>
    BY DEF FanOut, FromBridge
  <2> QED BY <2>1 DEF Elements
<1>3. \A d \in Elements(FanOut(e)) : d.msg[1] = "EVENT" /\ d.msg[2] \in Elements(subs)
  BY <1>1, <1>2 DEF Elements
<1> QED BY <1>3 DEF Spoken

LEMMA BurstSays ==
  ASSUME Types, NEW s \in Ids
  PROVE  \A m \in Spoken(Burst(s)) : m[1] = "EVENT" /\ m[2] = s
<1>1. Len(Burst(s)) = Len(stored)
  BY BurstIs
<1>2. ASSUME NEW i \in 1..Len(stored)
      PROVE  Burst(s)[i].msg[1] = "EVENT" /\ Burst(s)[i].msg[2] = s
  <2>1. Burst(s)[i].msg = <<"EVENT", s, stored[i]>>
    BY DEF Burst, FromBridge
  <2> QED BY <2>1
<1>3. \A d \in Elements(Burst(s)) : d.msg[1] = "EVENT" /\ d.msg[2] = s
  BY <1>1, <1>2 DEF Elements
<1> QED BY <1>3 DEF Spoken

\* How what is coming changes, step by step.
LEMMA PopComing ==
  ASSUME Types, Types', NEW c \in Callers, NEW kind, Pop(c, kind)
  PROVE  /\ Coming' \subseteq Coming /\ Coming \subseteq Coming' \cup {Head(inbox)}
         /\ Head(inbox) \in Coming
<1>1. inbox' = Tail(inbox) /\ down' = down /\ inbox # <<>> /\ inbox \in Seq(Answers)
  BY DEF Pop, Types
<1>2. Elements(inbox) = Elements(Tail(inbox)) \cup {Head(inbox)}
  BY <1>1, TakingHead
<1>3. Coming = Elements(inbox) \cup Spoken(down) /\ Coming' = Elements(inbox') \cup Spoken(down')
  BY ComingIs
<1> QED BY <1>1, <1>2, <1>3

\* Delivering changes nothing of what is coming.
LEMMA DeliverComing ==
  ASSUME Types, Types', Deliver
  PROVE  Coming' = Coming
<1>1. down # <<>> /\ down \in Seq(Parcels) /\ inbox \in Seq(Answers) /\ down' = Tail(down)
  BY DEF Deliver, Types
<1>2. PICK d : d = Head(down)
  OBVIOUS
<1>3. d \in Parcels /\ d.msg \in Answers
  <2>1. d \in Parcels
    BY <1>1, <1>2, TakingHead
  <2> QED BY <2>1 DEF Parcels
<1>4. Spoken(down) = Spoken(Tail(down)) \cup (IF d.by = "bridge" THEN {d.msg} ELSE {})
  BY <1>1, <1>2, SpokenTail
<1>5. inbox' = IF d.by = "bridge" THEN Append(inbox, d.msg) ELSE inbox
  BY <1>2 DEF Deliver
<1>6. Elements(Append(inbox, d.msg)) = Elements(inbox) \cup {d.msg}
  BY <1>1, <1>3, Appending
<1> QED BY <1>1, <1>4, <1>5, <1>6, ComingIs

\* The relay answers a question of the client.
LEMMA EventComing ==
  ASSUME Types, Types', RelayTakes, NEW e \in Events, OnEvent(e)
  PROVE  \/ /\ stored' = Store(e) /\ UNCHANGED <<subs, asked>>
            /\ \E F : /\ \A m \in F : m[1] = "EVENT" /\ m[2] \in Elements(subs)
                      /\ Coming' = Coming \cup {<<"OK", e, "ok">>} \cup F
         \/ /\ UNCHANGED <<stored, subs, asked>>
            /\ Coming' = Coming \cup {<<"OK", e, "refused">>}
<1>1. down \in Seq(Parcels) /\ inbox' = inbox
  BY DEF RelayTakes, Types
<1>2. PICK a, b : a = FromBridge(<<"OK", e, "ok">>) /\ b = FromBridge(<<"OK", e, "refused">>)
  OBVIOUS
<1>3. a \in Parcels /\ b \in Parcels
  BY <1>2, OkIsParcel
<1>4. /\ a.by = "bridge" /\ a.msg = <<"OK", e, "ok">>
      /\ b.by = "bridge" /\ b.msg = <<"OK", e, "refused">>
  BY <1>2 DEF FromBridge
<1>5. CASE /\ stored' = Store(e) /\ UNCHANGED <<subs, asked>>
           /\ down' = down \o <<a>> \o FanOut(e)
  <2>1. PICK f : f = FanOut(e)
    OBVIOUS
  <2>2. f \in Seq(Parcels)
    BY <2>1, FanOutIs
  <2>3. down \o <<a>> = Append(down, a) /\ Append(down, a) \in Seq(Parcels)
    BY <1>1, <1>3
  <2>4. PICK p : p = Append(down, a)
    OBVIOUS
  <2>5. down' = p \o f /\ p \in Seq(Parcels)
    BY <1>5, <2>1, <2>3, <2>4
  <2>6. Spoken(down') = Spoken(p) \cup Spoken(f)
    BY <2>2, <2>5, SpokenJoined
  <2>7. Spoken(p) = Spoken(down) \cup {<<"OK", e, "ok">>}
    BY <1>1, <1>3, <1>4, <2>4, SpokenAppend
  <2>8. \A m \in Spoken(f) : m[1] = "EVENT" /\ m[2] \in Elements(subs)
    BY <2>1, FanOutSays
  <2>9. Coming' = Coming \cup {<<"OK", e, "ok">>} \cup Spoken(f)
    BY <1>1, <2>6, <2>7, ComingIs
  <2> QED BY <1>5, <2>8, <2>9
<1>6. CASE down' = Append(down, b) /\ UNCHANGED <<relayVars, asked>>
  <2>1. Spoken(down') = Spoken(down) \cup {<<"OK", e, "refused">>}
    BY <1>1, <1>3, <1>4, <1>6, SpokenAppend
  <2> QED BY <1>1, <1>6, <2>1, ComingIs DEF relayVars
<1> QED BY <1>2, <1>5, <1>6 DEF OnEvent

\* A REQ is answered about its own subscription only.
LEMMA ReqComing ==
  ASSUME Types, Types', RelayTakes, NEW s \in Ids, OnReq(s)
  PROVE  /\ stored' = stored
         /\ \E F, last : /\ last \in {"EOSE", "CLOSED"}
                         /\ \A m \in F : m[1] = "EVENT" /\ m[2] = s
                         /\ Coming' = Coming \cup F \cup {<<last, s>>}
<1>1. down \in Seq(Parcels) /\ inbox' = inbox
  BY DEF RelayTakes, Types
<1>2. PICK a, b : a = FromBridge(<<"EOSE", s>>) /\ b = FromBridge(<<"CLOSED", s>>)
  OBVIOUS
<1>3. a \in Parcels /\ b \in Parcels
  BY <1>2, EoseIsParcel
<1>4. /\ a.by = "bridge" /\ a.msg = <<"EOSE", s>>
      /\ b.by = "bridge" /\ b.msg = <<"CLOSED", s>>
  BY <1>2 DEF FromBridge
<1>5. CASE stored' = stored /\ down' = down \o Burst(s) \o <<a>>
  <2>1. PICK f : f = Burst(s)
    OBVIOUS
  <2>2. f \in Seq(Parcels)
    BY <2>1, BurstIs
  <2>3. PICK p : p = down \o f
    OBVIOUS
  <2>4. p \in Seq(Parcels) /\ Spoken(p) = Spoken(down) \cup Spoken(f)
    BY <1>1, <2>2, <2>3, ElementsJoined, SpokenJoined
  <2>5. down' = Append(p, a)
    BY <1>3, <1>5, <2>1, <2>3, <2>4
  <2>6. Spoken(down') = Spoken(p) \cup {<<"EOSE", s>>}
    BY <1>3, <1>4, <2>4, <2>5, SpokenAppend
  <2>7. \A m \in Spoken(f) : m[1] = "EVENT" /\ m[2] = s
    BY <2>1, BurstSays
  <2>8. Coming' = Coming \cup Spoken(f) \cup {<<"EOSE", s>>}
    BY <1>1, <2>4, <2>6, ComingIs
  <2> QED BY <1>5, <2>7, <2>8
<1>6. CASE down' = Append(down, b) /\ UNCHANGED <<relayVars, asked>>
  <2>1. Spoken(down') = Spoken(down) \cup {<<"CLOSED", s>>}
    BY <1>1, <1>3, <1>4, <1>6, SpokenAppend
  <2>2. PICK F : F = {}
    OBVIOUS
  <2>3. Coming' = Coming \cup F \cup {<<"CLOSED", s>>} /\ \A m \in F : m[1] = "EVENT" /\ m[2] = s
    BY <1>1, <2>1, <2>2, ComingIs
  <2> QED BY <1>6, <2>3 DEF relayVars
<1> QED BY <1>2, <1>5, <1>6 DEF OnReq, Burst

\* What others publish reaches the client as events only.
LEMMA PeerComing ==
  ASSUME Types, Types', PeerPublishes
  PROVE  \E e \in Events : \E F :
           /\ stored' = Store(e) /\ UNCHANGED subs
           /\ \A m \in F : m[1] = "EVENT" /\ m[2] \in Elements(subs)
           /\ Coming' = Coming \cup F
<1>1. PICK e \in Events : stored' = Store(e) /\ down' = down \o FanOut(e)
  BY DEF PeerPublishes
<1>2. PICK f : f = FanOut(e)
  OBVIOUS
<1>3. f \in Seq(Parcels) /\ down \in Seq(Parcels) /\ inbox' = inbox /\ subs' = subs
  BY <1>2, FanOutIs DEF PeerPublishes, callVars, Types
<1>4. Spoken(down') = Spoken(down) \cup Spoken(f)
  BY <1>1, <1>2, <1>3, SpokenJoined
<1>5. \A m \in Spoken(f) : m[1] = "EVENT" /\ m[2] \in Elements(subs)
  BY <1>2, FanOutSays
<1>6. Coming' = Coming \cup Spoken(f)
  BY <1>3, <1>4, ComingIs
<1> QED BY <1>1, <1>3, <1>5, <1>6

\* Nothing new comes of a fault, and nothing at all of a stranger.
LEMMA FaultComing ==
  ASSUME Types, Types', Lose \/ Repeat \/ Postpone
  PROVE  Coming' \subseteq Coming
<1>1. down \in Seq(Parcels) /\ inbox' = inbox
  BY DEF Types, Lose, Repeat, Postpone, Fault
<1>2. down # <<>> => /\ Head(down) \in Parcels /\ Tail(down) \in Seq(Parcels)
                     /\ Elements(down) = Elements(Tail(down)) \cup {Head(down)}
  BY <1>1, TakingHead
<1>3. Elements(down') \subseteq Elements(down) => Coming' \subseteq Coming
  BY <1>1, ComingIs DEF Spoken
<1>4. \/ down' = down
      \/ down # <<>> /\ down' = Tail(down)
      \/ down # <<>> /\ down' = Append(down, Head(down))
      \/ down # <<>> /\ down' = Append(Tail(down), Head(down))
  <2>1. Len(down) > 1 => down # <<>>
    BY <1>1
  <2> QED BY <2>1 DEF Lose, Repeat, Postpone
<1>5. CASE down' = down \/ (down # <<>> /\ down' = Tail(down))
  BY <1>2, <1>3, <1>5
<1>6. CASE down # <<>> /\ down' = Append(down, Head(down))
  <2>1. Elements(down') = Elements(down) \cup {Head(down)}
    BY <1>1, <1>2, <1>6, Appending
  <2> QED BY <1>2, <1>3, <1>6, <2>1
<1>7. CASE down # <<>> /\ down' = Append(Tail(down), Head(down))
  <2>1. PICK t, h : t = Tail(down) /\ h = Head(down)
    OBVIOUS
  <2>2. t \in Seq(Parcels) /\ h \in Parcels
    BY <1>2, <1>7, <2>1
  <2>3. Elements(Append(t, h)) = Elements(t) \cup {h}
    BY <2>2, Appending
  <2> QED BY <1>2, <1>3, <1>7, <2>1, <2>3
<1> QED BY <1>4, <1>5, <1>6, <1>7

\* What others sign is not counted as coming.
LEMMA StrangerComing ==
  ASSUME Types, Types', Stranger
  PROVE  Coming' = Coming
<1>1. PICK m \in {<<"EOSE", s>> : s \in Ids \cap used} \cup {<<"OK", e, "ok">> : e \in Events \cap used} :
        down' = Append(down, [by |-> "other", msg |-> m])
  BY DEF Stranger
<1>2. PICK d : d = [by |-> "other", msg |-> m]
  OBVIOUS
<1>3. d \in Parcels
  <2>1. m \in Answers
    BY DEF Answers
  <2> QED BY <1>2, <2>1 DEF Parcels
<1>4. d.by # "bridge" /\ down \in Seq(Parcels) /\ inbox' = inbox /\ down' = Append(down, d)
  BY <1>1, <1>2 DEF Types, Stranger, Fault
<1>5. Spoken(down') = Spoken(down)
  BY <1>3, <1>4, SpokenAppend
<1> QED BY <1>4, <1>5, ComingIs

----------------------------------------------------------------------------
\* The relay has at most one version of the replaceable event.
AtMostOne(q) == \A i, j \in 1..Len(q) : q[i] \in Replaceable /\ q[j] \in Replaceable => i = j
OneVersion == AtMostOne(stored)

Kept(e) == \/ Contains(stored, e) \/ e \in Ephemeral \/ Len(stored) = MaxEvents
           \/ e \in Replaceable /\ \E x \in Replaceable : Contains(stored, x)

\* Every OK that is coming tells the truth, and so does what a call returned.
OkIsKept ==
  /\ \A m \in Coming : m[1] = "OK" /\ m[3] = "ok" => Kept(m[2])
  /\ \A c \in Callers : call[c].how = "ok" => Kept(call[c].arg)

LEMMA AtMostOneTail ==
  ASSUME NEW S, NEW q \in Seq(S), q # <<>>, AtMostOne(q)
  PROVE  AtMostOne(Tail(q))
<1>1. PICK t : t = Tail(q)
  OBVIOUS
<1>2. Len(q) \in Nat \ {0} /\ Len(t) = Len(q) - 1 /\ \A i \in 1..Len(t) : t[i] = q[i + 1]
  BY <1>1
<1>3. ASSUME NEW i \in 1..Len(t), NEW j \in 1..Len(t), t[i] \in Replaceable, t[j] \in Replaceable
      PROVE  i = j
  <2>1. i + 1 \in 1..Len(q) /\ j + 1 \in 1..Len(q)
    BY <1>2
  <2>2. q[i + 1] \in Replaceable /\ q[j + 1] \in Replaceable
    BY <1>2, <1>3
  <2>3. i + 1 = j + 1
    BY <2>1, <2>2 DEF AtMostOne
  <2> QED BY <2>3
<1> QED BY <1>1, <1>3 DEF AtMostOne

LEMMA AtMostOneAppend ==
  ASSUME NEW S, NEW q \in Seq(S), NEW e \in S, AtMostOne(q),
         e \in Replaceable => Elements(q) \cap Replaceable = {}
  PROVE  AtMostOne(Append(q, e))
<1>1. PICK r : r = Append(q, e)
  OBVIOUS
<1>2. Len(q) \in Nat /\ Len(r) = Len(q) + 1 /\ r[Len(r)] = e /\ \A i \in 1..Len(q) : r[i] = q[i]
  BY <1>1
<1>3. ASSUME NEW i \in 1..Len(r), NEW j \in 1..Len(r), r[i] \in Replaceable, r[j] \in Replaceable
      PROVE  i = j
  <2>1. i \in 1..Len(q) \/ i = Len(r)
    BY <1>2
  <2>2. j \in 1..Len(q) \/ j = Len(r)
    BY <1>2
  <2>3. e \in Replaceable => \A k \in 1..Len(q) : q[k] \notin Replaceable
    BY DEF Elements
  <2>4. CASE e \in Replaceable
    BY <1>2, <1>3, <2>1, <2>2, <2>3, <2>4
  <2>5. CASE e \notin Replaceable
    BY <1>2, <1>3, <2>1, <2>2, <2>5 DEF AtMostOne
  <2> QED BY <2>4, <2>5
<1> QED BY <1>1, <1>3 DEF AtMostOne

\* Storing an event loses none but to a newer version or a full store.
LEMMA StoreKeeps ==
  ASSUME Types, OneVersion, NEW e \in Events, stored' = Store(e)
  PROVE  /\ OneVersion' /\ Kept(e)'
         /\ \A x : Kept(x) => Kept(x)'
<1>1. /\ stored \in Seq(Events) /\ Len(stored) <= MaxEvents /\ Len(stored) \in Nat
      /\ MaxEvents \in Nat \ {0} /\ Elements(stored) \subseteq Events
  <2>1. stored \in Seq(Events \ Ephemeral) /\ Events \ Ephemeral \subseteq Events
    BY DEF Types
  <2>2. stored \in Seq(Events)
    BY <2>1, SeqGrows
  <2> QED BY <2>2, ClientAssumption DEF Types, Elements
<1>2. \A x : Kept(x) <=> \/ x \in Elements(stored) \/ x \in Ephemeral \/ Len(stored) = MaxEvents
                         \/ x \in Replaceable /\ Elements(stored) \cap Replaceable # {}
  BY DEF Kept, Contains, Elements
<1>3. \A x : Kept(x)' <=> \/ x \in Elements(stored') \/ x \in Ephemeral \/ Len(stored') = MaxEvents
                          \/ x \in Replaceable /\ Elements(stored') \cap Replaceable # {}
  BY DEF Kept, Contains, Elements
<1>4. PICK k : k = IF e \in Replaceable THEN Only(stored, Events \ Replaceable) ELSE stored
  OBVIOUS
<1>5. stored' = IF e \in Ephemeral THEN stored
                ELSE IF Len(k) < MaxEvents THEN Append(k, e) ELSE Append(Tail(k), e)
  BY <1>4 DEF Store
<1>6. /\ k \in Seq(Events) /\ Len(k) \in Nat /\ Len(k) <= Len(stored) /\ AtMostOne(k)
      /\ e \in Replaceable => /\ Elements(k) = Elements(stored) \ Replaceable
                              /\ Len(k) >= Len(stored) - 1
      /\ e \notin Replaceable => k = stored
  <2>1. CASE e \in Replaceable
    <3>1. k = Only(stored, Events \ Replaceable)
      BY <1>4, <2>1
    <3>2. /\ k \in Seq(Events) /\ Len(k) <= Len(stored)
          /\ Elements(k) = Elements(stored) \cap (Events \ Replaceable)
      BY <1>1, <3>1, OnlyKeeps
    <3>3. \A i, j \in 1..Len(stored) :
            stored[i] \notin Events \ Replaceable /\ stored[j] \notin Events \ Replaceable => i = j
      BY <1>1 DEF OneVersion, AtMostOne
    <3>4. Len(k) >= Len(stored) - 1
      BY <1>1, <3>1, <3>3, OnlyDropsOne
    <3>5. Elements(k) = Elements(stored) \ Replaceable
      BY <1>1, <3>2
    <3>6. AtMostOne(k)
      BY <3>5 DEF AtMostOne, Elements
    <3> QED BY <2>1, <3>2, <3>4, <3>5, <3>6
  <2>2. CASE e \notin Replaceable
    BY <1>1, <1>4, <2>2 DEF OneVersion
  <2> QED BY <2>1, <2>2
<1>7. CASE e \in Ephemeral
  BY <1>2, <1>3, <1>5, <1>7 DEF OneVersion
<1>8. CASE e \notin Ephemeral /\ Len(k) < MaxEvents
  <2>1. stored' = Append(k, e)
    BY <1>5, <1>8
  <2>2. Elements(stored') = Elements(k) \cup {e} /\ Len(stored') = Len(k) + 1
    BY <1>6, <2>1, Appending
  <2>3. OneVersion'
    <3>1. e \in Replaceable => Elements(k) \cap Replaceable = {}
      BY <1>6
    <3>2. AtMostOne(Append(k, e))
      BY <1>6, <3>1, AtMostOneAppend
    <3> QED BY <2>1, <3>2 DEF OneVersion, AtMostOne
  <2>4. Kept(e)'
    BY <1>3, <2>2
  <2>5. ASSUME NEW x, Kept(x) PROVE Kept(x)'
    <3>1. CASE x \in Elements(stored)
      <4>1. x \in Elements(k) \/ (e \in Replaceable /\ x \in Replaceable)
        BY <1>6, <3>1
      <4> QED BY <1>3, <2>2, <4>1
    <3>2. CASE x \in Ephemeral
      BY <1>3, <3>2
    <3>3. CASE Len(stored) = MaxEvents
      <4>1. e \in Replaceable
        BY <1>6, <1>8, <3>3
      <4>2. Len(stored') = MaxEvents
        BY <1>1, <1>6, <1>8, <2>2, <3>3, <4>1
      <4> QED BY <1>3, <4>2
    <3>4. CASE x \in Replaceable /\ Elements(stored) \cap Replaceable # {}
      <4>1. Elements(stored') \cap Replaceable # {}
        BY <1>6, <2>2, <3>4
      <4> QED BY <1>3, <3>4, <4>1
    <3> QED BY <1>2, <2>5, <3>1, <3>2, <3>3, <3>4
  <2> QED BY <2>3, <2>4, <2>5
<1>9. CASE e \notin Ephemeral /\ ~ (Len(k) < MaxEvents)
  <2>1. Len(k) = MaxEvents /\ k # <<>>
    BY <1>1, <1>6, <1>9
  <2>2. PICK t : t = Tail(k)
    OBVIOUS
  <2>3. t \in Seq(Events) /\ Len(t) = MaxEvents - 1 /\ Elements(t) \subseteq Elements(k)
    BY <1>6, <2>1, <2>2, TakingHead
  <2>4. stored' = Append(t, e)
    BY <1>5, <1>9, <2>2
  <2>5. Len(stored') = MaxEvents
    BY <1>1, <2>3, <2>4
  <2>6. AtMostOne(t)
    BY <1>6, <2>1, <2>2, AtMostOneTail
  <2>7. e \in Replaceable => Elements(t) \cap Replaceable = {}
    BY <1>6, <2>3
  <2>8. AtMostOne(Append(t, e))
    BY <2>3, <2>6, <2>7, AtMostOneAppend
  <2> QED BY <1>3, <2>4, <2>5, <2>8 DEF OneVersion, AtMostOne
<1> QED BY <1>7, <1>8, <1>9

\* The store keeps what an OK has said, through every step.
LEMMA OkStep ==
  ASSUME Base, Base', OneVersion, OkIsKept, [Next]_vars
  PROVE  OneVersion' /\ OkIsKept'
<1>0. Types /\ Types'
  BY DEF Base
<1>1. ASSUME stored' = stored PROVE OneVersion' /\ \A x : Kept(x)' <=> Kept(x)
  BY <1>1 DEF OneVersion, AtMostOne, Kept, Contains
\* A step that brings no new OK, and ends no call with one.
<1>2. ASSUME \A x : Kept(x) => Kept(x)',
             \A m \in Coming' : m \in Coming \/ (m[1] = "OK" /\ m[3] = "ok" => Kept(m[2])'),
             \A c \in Callers : call'[c].how = "ok" =>
               \/ call[c].how = "ok" /\ call'[c].arg = call[c].arg
               \/ Kept(call[c].arg)'
      PROVE  OkIsKept'
  BY <1>2 DEF OkIsKept
<1>3. CASE \E c \in Callers : StartRequest(c) \/ StartPublish(c) \/ StartMessages(c) \/ StartDiscover(c)
  <2>1. PICK c \in Callers, kind \in Kinds, arg \in Args, keep \in BOOLEAN : Begin(c, kind, arg, keep)
    BY <1>3 DEF StartRequest, StartPublish, StartMessages, StartDiscover, Kinds, Args
  <2>2. \A d \in Callers : call'[d].how = "ok" =>
          call[d].how = "ok" /\ call'[d].arg = call[d].arg
    BY <1>0, <2>1, BeginIs
  <2>3. stored' = stored /\ Coming' = Coming
    BY <2>1 DEF Begin, relayVars, Coming
  <2> QED BY <1>1, <1>2, <2>2, <2>3
<1>4. ASSUME NEW c \in Callers, NEW how \in Hows \ {"ok"}, Ends(c, how), stored' = stored,
             Coming' \subseteq Coming
      PROVE  OneVersion' /\ OkIsKept'
  <2>1. \A d \in Callers : call'[d].how = "ok" =>
          call[d].how = "ok" /\ call'[d].arg = call[d].arg
    BY <1>0, <1>4, EndsIs
  <2> QED BY <1>1, <1>2, <1>4, <2>1
<1>5. ASSUME call' = call, stored' = stored, Coming' \subseteq Coming
      PROVE  OneVersion' /\ OkIsKept'
  BY <1>1, <1>2, <1>5
<1>6. ASSUME NEW c \in Callers, RequestTakes(c) PROVE OneVersion' /\ OkIsKept'
  <2>1. stored' = stored /\ Coming' \subseteq Coming /\ Pop(c, "request")
    BY <1>0, <1>6, PopComing DEF RequestTakes, Pop, relayVars
  <2>2. CASE \E e : call' = [call EXCEPT ![c].got = Append(@, e)]
    <3>0. PICK q : call' = [call EXCEPT ![c].got = q]
      BY <2>2
    <3>1. \A d \in Callers : call'[d].how = call[d].how /\ call'[d].arg = call[d].arg
      BY <1>0, <3>0 DEF Types, Calls
    <3> QED BY <1>1, <1>2, <2>1, <3>1
  <2>3. "eose" \in Hows \ {"ok"} /\ "closed" \in Hows \ {"ok"}
    BY DEF Hows
  <2> QED BY <1>4, <1>5, <1>6, <2>1, <2>2, <2>3 DEF RequestTakes
<1>7. ASSUME NEW c \in Callers, PublishTakes(c) PROVE OneVersion' /\ OkIsKept'
  <2>1. stored' = stored /\ Coming' \subseteq Coming /\ Head(inbox) \in Coming /\ Pop(c, "publish")
    BY <1>0, <1>7, PopComing DEF PublishTakes, Pop, relayVars
  <2>2. PICK m : m = Head(inbox)
    OBVIOUS
  <2>3. CASE m[1] = "OK" /\ m[2] = call[c].arg /\ Ends(c, m[3])
    <3>1. m[3] \in {"ok", "refused"}
      <4>1. m \in Answers
        BY <1>0, <2>1, <2>2, PopIs
      <4> QED BY <2>3, <4>1, AnswerForms
    <3>2. CASE m[3] = "refused"
      <4>1. "refused" \in Hows \ {"ok"}
        BY DEF Hows
      <4> QED BY <1>4, <2>1, <2>3, <3>2, <4>1
    <3>3. CASE m[3] = "ok"
      <4>1. Kept(call[c].arg)
        BY <2>1, <2>2, <2>3, <3>3 DEF OkIsKept
      <4>2. /\ call'[c].arg = call[c].arg
            /\ \A d \in Callers \ {c} : call'[d] = call[d]
        <5>1. "ok" \in Hows
          BY DEF Hows
        <5> QED BY <1>0, <2>3, <3>3, <5>1, EndsIs
      <4>3. Kept(call[c].arg)'
        BY <1>1, <2>1, <4>1, <4>2
      <4> QED BY <1>1, <1>2, <2>1, <4>2, <4>3
    <3> QED BY <3>1, <3>2, <3>3
  <2>4. CASE call' = call
    BY <1>5, <2>1, <2>4
  <2> QED BY <1>7, <2>2, <2>3, <2>4 DEF PublishTakes
<1>8. ASSUME NEW c \in Callers, MessagesTakes(c) PROVE OneVersion' /\ OkIsKept'
  <2>1. stored' = stored /\ Coming' \subseteq Coming /\ call' = call
    BY <1>0, <1>8, PopComing DEF MessagesTakes, Pop, relayVars
  <2> QED BY <1>5, <2>1
<1>9. ASSUME NEW c \in Callers, TimesOut(c) \/ DiscoverEnds(c) PROVE OneVersion' /\ OkIsKept'
  <2>1. stored' = stored /\ Coming' = Coming
    BY <1>9 DEF TimesOut, DiscoverEnds, relayVars, Coming
  <2>2. "timeout" \in Hows \ {"ok"} /\ "list" \in Hows \ {"ok"}
    BY DEF Hows
  <2> QED BY <1>4, <1>9, <2>1, <2>2 DEF TimesOut, DiscoverEnds
<1>10. CASE Deliver
  <2>1. Coming' = Coming /\ stored' = stored /\ call' = call
    BY <1>0, <1>10, DeliverComing DEF Deliver, relayVars
  <2> QED BY <1>5, <2>1
<1>11. CASE ListArrives
  <2>1. Coming' = Coming /\ stored' = stored
    BY <1>11 DEF ListArrives, relayVars, Coming
  <2>2. \A d \in Callers : call'[d].how = call[d].how /\ call'[d].arg = call[d].arg
    BY <1>0, <1>11, ListIs
  <2> QED BY <1>1, <1>2, <2>1, <2>2
<1>12. CASE RelayTakes
  <2>1. PICK m : m = Head(up)
    OBVIOUS
  <2>2. m \in Questions
    BY <1>0, <1>12, <2>1, RelayTypes
  <2>3. call' = call
    BY <1>12 DEF RelayTakes
  <2>4. CASE m[1] = "EVENT" /\ OnEvent(m[2])
    <3>1. m[2] \in Events
      BY <2>2, <2>4, QuestionForms
    <3>2. PICK e \in Events : OnEvent(e)
      BY <2>4, <3>1
    <3>3. CASE /\ stored' = Store(e)
               /\ \E F : /\ \A a \in F : a[1] = "EVENT" /\ a[2] \in Elements(subs)
                         /\ Coming' = Coming \cup {<<"OK", e, "ok">>} \cup F
      <4>1. OneVersion' /\ Kept(e)' /\ \A x : Kept(x) => Kept(x)'
        BY <1>0, <3>3, StoreKeeps
      <4>2. \A a \in Coming' : a \in Coming \/ a = <<"OK", e, "ok">> \/ a[1] = "EVENT"
        BY <3>3
      <4>3. \A a \in Coming' : a \in Coming \/ (a[1] = "OK" /\ a[3] = "ok" => Kept(a[2])')
        BY <4>1, <4>2
      <4> QED BY <1>2, <2>3, <4>1, <4>3
    <3>4. CASE stored' = stored /\ Coming' = Coming \cup {<<"OK", e, "refused">>}
      <4>1. \A a \in Coming' : a \in Coming \/ a[3] # "ok"
        BY <3>4
      <4> QED BY <1>1, <1>2, <2>3, <3>4, <4>1
    <3> QED BY <1>0, <1>12, <3>2, <3>3, <3>4, EventComing
  <2>5. CASE m[1] = "REQ" /\ OnReq(m[2])
    <3>1. m[2] \in Ids
      BY <2>2, <2>5, QuestionForms
    <3>2. PICK s \in Ids : OnReq(s)
      BY <2>5, <3>1
    <3>3. PICK F, last : /\ stored' = stored /\ last \in {"EOSE", "CLOSED"}
                         /\ \A a \in F : a[1] = "EVENT" /\ a[2] = s
                         /\ Coming' = Coming \cup F \cup {<<last, s>>}
      BY <1>0, <1>12, <3>2, ReqComing
    <3>4. \A a \in Coming' : a \in Coming \/ a[1] = "EVENT" \/ a = <<last, s>>
      BY <3>3
    <3>5. \A a \in Coming' : a \in Coming \/ a[1] # "OK"
      BY <3>3, <3>4
    <3> QED BY <1>1, <1>2, <2>3, <3>3, <3>5
  <2>6. CASE m[1] = "CLOSE" /\ OnClose(m[2])
    <3>1. stored' = stored /\ Coming' = Coming
      BY <1>12, <2>6 DEF OnClose, RelayTakes, Coming
    <3> QED BY <1>5, <2>3, <3>1
  <2> QED BY <1>12, <2>1, <2>4, <2>5, <2>6 DEF RelayTakes
<1>13. CASE PeerPublishes
  <2>0. PICK e \in Events :
          \E F : /\ stored' = Store(e)
                 /\ \A a \in F : a[1] = "EVENT" /\ a[2] \in Elements(subs)
                 /\ Coming' = Coming \cup F
    BY <1>0, <1>13, PeerComing
  <2>1. PICK F :
          /\ stored' = Store(e)
          /\ \A a \in F : a[1] = "EVENT" /\ a[2] \in Elements(subs)
          /\ Coming' = Coming \cup F
    BY <2>0
  <2>2. OneVersion' /\ \A x : Kept(x) => Kept(x)'
    BY <1>0, <2>1, StoreKeeps
  <2>3. call' = call
    BY <1>13 DEF PeerPublishes, callVars
  <2>4. \A a \in Coming' : a \in Coming \/ a[1] = "EVENT"
    BY <2>1
  <2>5. \A a \in Coming' : a \in Coming \/ (a[1] = "OK" /\ a[3] = "ok" => Kept(a[2])')
    BY <2>4
  <2> QED BY <1>2, <2>2, <2>3, <2>5
<1>14. CASE RendezvousTakes \/ Announced
  <2>1. stored' = stored /\ Coming' = Coming /\ call' = call
    BY <1>14 DEF RendezvousTakes, Announced, callVars, relayVars, Coming
  <2> QED BY <1>5, <2>1
<1>15. CASE Lose \/ Repeat \/ Postpone \/ Stranger
  <2>1. Coming' \subseteq Coming
    BY <1>0, <1>15, FaultComing, StrangerComing
  <2>2. stored' = stored /\ call' = call
    BY <1>15 DEF Lose, Repeat, Postpone, Stranger, Fault, relayVars
  <2> QED BY <1>5, <2>1, <2>2
<1>16. CASE UNCHANGED vars
  <2>1. stored' = stored /\ Coming' = Coming /\ call' = call
    BY <1>16 DEF vars, callVars, relayVars, Coming
  <2> QED BY <1>5, <2>1
<1> QED BY <1>3, <1>6, <1>7, <1>8, <1>9, <1>10, <1>11, <1>12, <1>13, <1>14, <1>15, <1>16 DEF Next

\* A publish that returned a positive OK is at the relay, whatever the path does
\* and whoever else reads the inbox.
THEOREM PublishedIsKeptCorrect == Spec => []PublishedIsKept
<1>1. Init => OneVersion /\ OkIsKept
  <2> SUFFICES ASSUME Init PROVE OneVersion /\ OkIsKept
    OBVIOUS
  <2>1. stored = <<>> /\ inbox = <<>> /\ down = <<>> /\ \A c \in Callers : call[c].how = "none"
    BY DEF Init, NoCall
  <2>2. Len(<<>>) = 0 /\ Range(<<>>) = {}
    BY DEF Range
  <2>3. Coming = {}
    BY <2>1, <2>2 DEF Coming
  <2> QED BY <2>1, <2>2, <2>3 DEF OneVersion, AtMostOne, OkIsKept
<1>2. Base /\ Base' /\ OneVersion /\ OkIsKept /\ [Next]_vars => (OneVersion /\ OkIsKept)'
  BY OkStep
<1>3. OkIsKept => PublishedIsKept
  BY DEF OkIsKept, Kept, PublishedIsKept
<1> QED BY <1>1, <1>2, <1>3, BaseInit, BaseStep, PTL DEF Spec

----------------------------------------------------------------------------
\* What the steps of other calls leave of the discovers.
DiscoversStay ==
  /\ handler' = handler /\ crossed' = crossed
  /\ \A d \in Callers : /\ Discovers(d)' <=> Discovers(d)
                        /\ Discovers(d) => /\ call'[d].n = call[d].n
                                           /\ call'[d].orig = call[d].orig
                                           /\ call[d].found => call'[d].found

\* Only the starts and ends of discovers change the handlers.
LEMMA OthersLeaveDiscovers ==
  ASSUME Types, [Next]_vars, \A c \in Callers : ~ StartDiscover(c) /\ ~ DiscoverEnds(c)
  PROVE  DiscoversStay
<1>1. ASSUME NEW c \in Callers, NEW kind \in Kinds \ {"discover"}, NEW arg \in Args, NEW keep \in BOOLEAN,
             Begin(c, kind, arg, keep), handler' = handler
      PROVE  DiscoversStay
  <2>1. /\ ~ Running(c) /\ call'[c].kind = kind
        /\ \A d \in Callers \ {c} :
             /\ call'[d].kind = call[d].kind /\ call'[d].how = call[d].how
             /\ call'[d].n = call[d].n /\ call'[d].orig = call[d].orig
             /\ call'[d].found = call[d].found
    BY <1>1, BeginIs
  <2>2. crossed' = crossed
    BY <1>1 DEF Begin
  <2> QED BY <1>1, <2>1, <2>2 DEF DiscoversStay, Discovers, Running
<1>2. CASE \E c \in Callers : StartRequest(c) \/ StartPublish(c) \/ StartMessages(c)
  <2>1. {"request", "publish", "messages"} \subseteq Kinds \ {"discover"} /\ FALSE \in BOOLEAN
        /\ Ids \subseteq Args /\ Events \subseteq Args /\ "none" \in Args
    BY DEF Kinds, Args
  <2> QED BY <1>1, <1>2, <2>1 DEF StartRequest, StartPublish, StartMessages
<1>3. ASSUME call' = call, handler' = handler, crossed' = crossed PROVE DiscoversStay
  BY <1>3 DEF DiscoversStay, Discovers, Running
<1>4. ASSUME NEW c \in Callers, NEW how \in Hows \ {"running"}, Ends(c, how), ~ Discovers(c),
             handler' = handler, crossed' = crossed
      PROVE  DiscoversStay
  <2>1. call'[c].how = how /\ \A d \in Callers \ {c} : call'[d] = call[d]
    BY <1>4, EndsIs
  <2> QED BY <1>4, <2>1 DEF DiscoversStay, Discovers, Running
<1>5. {"eose", "closed", "ok", "refused", "timeout", "list"} \subseteq Hows \ {"running"}
  BY DEF Hows
<1>6. ASSUME NEW c \in Callers, RequestTakes(c) PROVE DiscoversStay
  <2>1. handler' = handler /\ crossed' = crossed /\ call[c].kind = "request"
    BY <1>6 DEF RequestTakes, Pop, ghostVars
  <2>2. CASE \E e : call' = [call EXCEPT ![c].got = Append(@, e)]
    <3>1. PICK q : call' = [call EXCEPT ![c].got = q]
      BY <2>2
    <3>2. \A d \in Callers :
            /\ call'[d].kind = call[d].kind /\ call'[d].how = call[d].how
            /\ call'[d].n = call[d].n /\ call'[d].orig = call[d].orig
            /\ call'[d].found = call[d].found
      BY <3>1 DEF Types, Calls
    <3> QED BY <2>1, <3>2 DEF DiscoversStay, Discovers, Running
  <2> QED BY <1>3, <1>4, <1>5, <1>6, <2>1, <2>2 DEF RequestTakes, Discovers
<1>7. ASSUME NEW c \in Callers, PublishTakes(c) PROVE DiscoversStay
  <2>1. handler' = handler /\ crossed' = crossed /\ call[c].kind = "publish"
    BY <1>7 DEF PublishTakes, Pop, ghostVars
  <2>2. Head(inbox)[1] = "OK" => Head(inbox)[3] \in {"ok", "refused"}
    <3>1. Head(inbox) \in Answers
      BY <1>7, PopIs DEF PublishTakes
    <3> QED BY <3>1, AnswerForms
  <2> QED BY <1>3, <1>4, <1>5, <1>7, <2>1, <2>2 DEF PublishTakes, Discovers
<1>8. CASE \E c \in Callers : MessagesTakes(c)
  BY <1>3, <1>8 DEF MessagesTakes, Pop, ghostVars
<1>9. CASE \E c \in Callers : TimesOut(c)
  BY <1>4, <1>5, <1>9 DEF TimesOut, ghostVars
<1>10. CASE ListArrives
  <2>1. \A d \in Callers :
            /\ call'[d].kind = call[d].kind /\ call'[d].how = call[d].how
            /\ call'[d].n = call[d].n /\ call'[d].orig = call[d].orig
            /\ call[d].found => call'[d].found
    BY <1>10, ListIs
  <2> QED BY <1>10, <2>1 DEF DiscoversStay, Discovers, Running, ListArrives, ghostVars
<1>11. CASE \/ Deliver \/ RelayTakes \/ PeerPublishes \/ RendezvousTakes \/ Announced
            \/ Lose \/ Repeat \/ Postpone \/ Stranger \/ UNCHANGED vars
  <2>1. call' = call /\ handler' = handler /\ crossed' = crossed
    BY <1>11 DEF Deliver, RelayTakes, PeerPublishes, RendezvousTakes, Announced, Lose, Repeat,
                 Postpone, Stranger, Fault, vars, callVars, ghostVars
  <2> QED BY <1>3, <2>1
<1> QED BY <1>2, <1>6, <1>7, <1>8, <1>9, <1>10, <1>11 DEF Next

\* o is what the handler h was before the call whose sniff is at its place k.
After(o, h, k) == Len(o) = Len(h) - k /\ \A i \in 1..Len(o) : o[i] = h[k + i]

Falls(h) == \A i, j \in 1..Len(h) : i < j => h[i] > h[j]

\* While discovers are nested, the handler is the sniffs of the running ones,
\* the latest first, and each knows the part that was there before it.
Nested ==
  /\ \A c, d \in Callers : Discovers(c) /\ Discovers(d) /\ call[c].n = call[d].n => c = d
  /\ \A c \in Callers : Discovers(c) => call[c].n \in 1..calls
  /\ ~ crossed =>
       /\ Falls(handler)
       /\ \A i \in 1..Len(handler) : \E c \in Callers : Discovers(c) /\ call[c].n = handler[i]
       /\ \A c \in Callers : Discovers(c) =>
            \E k \in 1..Len(handler) : handler[k] = call[c].n /\ After(call[c].orig, handler, k)

\* A new discover puts its sniff before all the others.
LEMMA NestedBegins ==
  ASSUME Base, Nested, NEW c \in Callers, StartDiscover(c)
  PROVE  Nested'
<1>1. Types /\ Numbers
  BY DEF Base
<1>2. Begin(c, "discover", "none", FALSE) /\ Sniffs(calls + 1) /\ crossed' = crossed
  BY DEF StartDiscover, Sniffs, Begin
<1>3. /\ ~ Running(c) /\ calls' = calls + 1 /\ calls \in Nat
      /\ call'[c].kind = "discover" /\ call'[c].how = "running" /\ call'[c].n = calls + 1
      /\ call'[c].orig = handler
      /\ \A d \in Callers \ {c} :
           /\ call'[d].kind = call[d].kind /\ call'[d].how = call[d].how
           /\ call'[d].n = call[d].n /\ call'[d].orig = call[d].orig
  <2>1. PICK kind \in Kinds, arg \in Args, keep \in BOOLEAN : kind = "discover" /\ Begin(c, kind, arg, keep)
    BY <1>2 DEF Kinds, Args
  <2> QED BY <1>1, <2>1, BeginIs
<1>4. Discovers(c)' /\ \A d \in Callers \ {c} : Discovers(d)' <=> Discovers(d)
  BY <1>3 DEF Discovers, Running
<1>5. \A d \in Callers : Discovers(d) => call[d].n \in 1..calls
  BY DEF Nested
<1>6. \A d, e \in Callers : Discovers(d)' /\ Discovers(e)' /\ call'[d].n = call'[e].n => d = e
  <2>1. ASSUME NEW d \in Callers, Discovers(d)', d # c PROVE call'[d].n # calls + 1
    <3>1. call'[d].n \in 1..calls
      BY <1>3, <1>4, <1>5, <2>1
    <3> QED BY <1>3, <3>1
  <2>2. ASSUME NEW d \in Callers, NEW e \in Callers, Discovers(d)', Discovers(e)', d # c, e # c,
               call'[d].n = call'[e].n
        PROVE  d = e
    BY <1>3, <1>4, <2>2 DEF Nested
  <2> QED BY <1>3, <2>1, <2>2
<1>7. \A d \in Callers : Discovers(d)' => call'[d].n \in 1..calls'
  <2>1. \A n \in 1..calls : n \in 1..calls'
    BY <1>3
  <2> QED BY <1>3, <1>4, <1>5, <2>1
<1>8. PICK h : h = <<calls + 1>> \o handler
  OBVIOUS
<1>9. /\ handler' = h /\ Len(h) = Len(handler) + 1 /\ h[1] = calls + 1 /\ Len(handler) \in Nat
      /\ \A i \in 1..Len(handler) : h[i + 1] = handler[i]
  <2>1. calls + 1 \in Nat /\ handler \in Seq(Nat)
    BY <1>1 DEF Types
  <2> QED BY <1>2, <1>8, <2>1 DEF Sniffs
<1>10. \A i \in 1..Len(h) : i = 1 \/ (i - 1 \in 1..Len(handler) /\ h[i] = handler[i - 1])
  <2>1. ASSUME NEW i \in 1..Len(h), i # 1 PROVE i - 1 \in 1..Len(handler) /\ h[i] = handler[i - 1]
    <3>1. i - 1 \in 1..Len(handler) /\ (i - 1) + 1 = i
      BY <1>9, <2>1
    <3> QED BY <1>9, <3>1
  <2> QED BY <2>1
<1>11. \A i \in 1..Len(handler) : handler[i] \in 1..calls
  BY <1>1 DEF Numbers
<1>12. ASSUME ~ crossed
       PROVE  /\ Falls(h)
              /\ \A i \in 1..Len(h) : \E d \in Callers : Discovers(d)' /\ call'[d].n = h[i]
              /\ \A d \in Callers : Discovers(d)' =>
                   \E k \in 1..Len(h) : h[k] = call'[d].n /\ After(call'[d].orig, h, k)
  <2>1. ASSUME NEW i \in 1..Len(h), NEW j \in 1..Len(h), i < j PROVE h[i] > h[j]
    <3>1. j # 1 /\ j - 1 \in 1..Len(handler) /\ h[j] = handler[j - 1]
      BY <1>9, <1>10, <2>1
    <3>2. h[j] \in 1..calls
      BY <1>11, <3>1
    <3>3. CASE i = 1
      BY <1>3, <1>9, <3>2, <3>3
    <3>4. CASE i # 1
      <4>1. i - 1 \in 1..Len(handler) /\ h[i] = handler[i - 1]
        BY <1>10, <3>4
      <4>2. i - 1 < j - 1
        BY <2>1
      <4>3. Falls(handler)
        BY <1>12 DEF Nested
      <4> QED BY <3>1, <4>1, <4>2, <4>3 DEF Falls
    <3> QED BY <3>3, <3>4
  <2>2. ASSUME NEW i \in 1..Len(h) PROVE \E d \in Callers : Discovers(d)' /\ call'[d].n = h[i]
    <3>1. CASE i = 1
      BY <1>3, <1>4, <1>9, <3>1
    <3>2. CASE i # 1
      <4>1. i - 1 \in 1..Len(handler) /\ h[i] = handler[i - 1]
        BY <1>10, <3>2
      <4>2. PICK d \in Callers : Discovers(d) /\ call[d].n = handler[i - 1]
        BY <1>12, <4>1 DEF Nested
      <4>3. d # c
        BY <1>3, <4>2 DEF Discovers
      <4> QED BY <1>3, <1>4, <4>1, <4>2, <4>3
    <3> QED BY <3>1, <3>2
  <2>3. ASSUME NEW d \in Callers, Discovers(d)'
        PROVE  \E k \in 1..Len(h) : h[k] = call'[d].n /\ After(call'[d].orig, h, k)
    <3>1. CASE d = c
      <4>1. 1 \in 1..Len(h) /\ h[1] = call'[d].n
        BY <1>3, <1>9, <3>1
      <4>2. \A i \in 1..Len(handler) : handler[i] = h[1 + i]
        BY <1>9
      <4>3. After(handler, h, 1)
        BY <1>9, <4>2 DEF After
      <4> QED BY <1>3, <3>1, <4>1, <4>3
    <3>2. CASE d # c
      <4>1. PICK o : o = call[d].orig
        OBVIOUS
      <4>2. o \in Seq(Nat) /\ Len(o) \in Nat
        BY <1>1, <4>1 DEF Types, Calls
      <4>3. PICK k \in 1..Len(handler) : handler[k] = call[d].n /\ After(o, handler, k)
        BY <1>4, <1>12, <2>3, <3>2, <4>1 DEF Nested
      <4>4. k + 1 \in 1..Len(h) /\ h[k + 1] = call[d].n
        BY <1>9, <4>3
      <4>5. Len(o) = Len(h) - (k + 1)
        BY <1>9, <4>2, <4>3 DEF After
      <4>6. ASSUME NEW i \in 1..Len(o) PROVE o[i] = h[(k + 1) + i]
        <5>1. k + i \in 1..Len(handler) /\ (k + i) + 1 = (k + 1) + i
          BY <1>9, <4>2, <4>3 DEF After
        <5>2. o[i] = handler[k + i]
          BY <4>3 DEF After
        <5> QED BY <1>9, <5>1, <5>2
      <4>7. After(o, h, k + 1)
        BY <4>5, <4>6 DEF After
      <4> QED BY <1>3, <3>2, <4>1, <4>4, <4>7
    <3> QED BY <3>1, <3>2
  <2> QED BY <2>1, <2>2, <2>3 DEF Falls
<1>13. ~ crossed' => /\ Falls(handler')
                     /\ \A i \in 1..Len(handler') :
                          \E d \in Callers : Discovers(d)' /\ call'[d].n = handler'[i]
                     /\ \A d \in Callers : Discovers(d)' =>
                          \E k \in 1..Len(handler') :
                            handler'[k] = call'[d].n /\ After(call'[d].orig, handler', k)
  BY <1>2, <1>9, <1>12
<1> QED BY <1>6, <1>7, <1>13 DEF Nested, Falls, After

\* The latest discover leaves the handler it has found.
LEMMA NestedEnds ==
  ASSUME Base, Nested, NEW c \in Callers, DiscoverEnds(c)
  PROVE  Nested'
<1>1. Types /\ Numbers
  BY DEF Base
<1>2. /\ Discovers(c) /\ handler' = call[c].orig /\ calls' = calls
      /\ crossed' = (crossed \/ \E d \in Callers : Discovers(d) /\ call[d].n > call[c].n)
  BY DEF DiscoverEnds, boundVars
<1>3. call'[c].how # "running" /\ \A d \in Callers \ {c} : call'[d] = call[d]
  <2>1. {"list", "timeout"} \subseteq Hows
    BY DEF Hows
  <2> QED BY <1>1, <2>1, EndsIs DEF DiscoverEnds
<1>4. ~ Discovers(c)' /\ \A d \in Callers \ {c} : Discovers(d)' <=> Discovers(d)
  BY <1>3 DEF Discovers, Running
<1>5. \A d, e \in Callers : Discovers(d)' /\ Discovers(e)' /\ call'[d].n = call'[e].n => d = e
  BY <1>3, <1>4 DEF Nested
<1>6. \A d \in Callers : Discovers(d)' => call'[d].n \in 1..calls'
  BY <1>2, <1>3, <1>4 DEF Nested
<1>7. PICK h : h = call[c].orig
  OBVIOUS
<1>8. h \in Seq(Nat) /\ Len(h) \in Nat /\ handler \in Seq(Nat) /\ Len(handler) \in Nat
  BY <1>1, <1>7 DEF Types, Calls
<1>9. ASSUME ~ crossed'
      PROVE  /\ Falls(h)
             /\ \A i \in 1..Len(h) : \E d \in Callers : Discovers(d)' /\ call'[d].n = h[i]
             /\ \A d \in Callers : Discovers(d)' =>
                  \E k \in 1..Len(h) : h[k] = call'[d].n /\ After(call'[d].orig, h, k)
  <2>1. ~ crossed /\ \A d \in Callers : Discovers(d) => ~ (call[d].n > call[c].n)
    BY <1>2, <1>9
  <2>2. PICK k \in 1..Len(handler) : handler[k] = call[c].n /\ After(h, handler, k)
    BY <1>2, <1>7, <2>1 DEF Nested
  <2>3. k = 1
    <3> SUFFICES ASSUME k # 1 PROVE FALSE
      OBVIOUS
    <3>1. 1 \in 1..Len(handler) /\ 1 < k
      BY <1>8
    <3>2. handler[1] > handler[k]
      BY <2>1, <3>1 DEF Nested, Falls
    <3>3. PICK d \in Callers : Discovers(d) /\ call[d].n = handler[1]
      BY <2>1, <3>1 DEF Nested
    <3> QED BY <2>1, <2>2, <3>2, <3>3
  <2>4. Len(handler) = Len(h) + 1 /\ \A i \in 1..Len(h) : h[i] = handler[i + 1] /\ i + 1 \in 1..Len(handler)
    BY <1>8, <2>2, <2>3 DEF After
  <2>5. Falls(h)
    <3>1. ASSUME NEW i \in 1..Len(h), NEW j \in 1..Len(h), i < j PROVE h[i] > h[j]
      <4>1. i + 1 < j + 1 /\ i + 1 \in 1..Len(handler) /\ j + 1 \in 1..Len(handler)
        BY <2>4, <3>1
      <4>2. handler[i + 1] > handler[j + 1]
        BY <2>1, <4>1 DEF Nested, Falls
      <4> QED BY <2>4, <4>2
    <3> QED BY <3>1 DEF Falls
  <2>6. ASSUME NEW i \in 1..Len(h) PROVE \E d \in Callers : Discovers(d)' /\ call'[d].n = h[i]
    <3>1. i + 1 \in 1..Len(handler) /\ h[i] = handler[i + 1] /\ 1 \in 1..Len(handler) /\ 1 < i + 1
      BY <2>4
    <3>2. PICK d \in Callers : Discovers(d) /\ call[d].n = handler[i + 1]
      BY <2>1, <3>1 DEF Nested
    <3>3. handler[1] > handler[i + 1]
      BY <2>1, <3>1 DEF Nested, Falls
    <3>4. handler[1] \in Nat /\ handler[i + 1] \in Nat
      BY <1>8, <3>1
    <3>5. d # c
      BY <2>2, <2>3, <3>2, <3>3, <3>4
    <3> QED BY <1>3, <1>4, <3>1, <3>2, <3>5
  <2>7. ASSUME NEW d \in Callers, Discovers(d)'
        PROVE  \E j \in 1..Len(h) : h[j] = call'[d].n /\ After(call'[d].orig, h, j)
    <3>1. d # c /\ Discovers(d) /\ call'[d] = call[d]
      BY <1>3, <1>4, <2>7
    <3>2. PICK o : o = call[d].orig
      OBVIOUS
    <3>3. o \in Seq(Nat) /\ Len(o) \in Nat
      BY <1>1, <3>2 DEF Types, Calls
    <3>4. PICK m \in 1..Len(handler) : handler[m] = call[d].n /\ After(o, handler, m)
      BY <2>1, <3>1, <3>2 DEF Nested
    <3>5. m # 1
      <4>1. call[d].n # call[c].n
        BY <1>2, <3>1 DEF Nested
      <4> QED BY <2>2, <2>3, <3>4, <4>1
    <3>6. m - 1 \in 1..Len(h) /\ (m - 1) + 1 = m
      BY <1>8, <2>4, <3>5
    <3>7. h[m - 1] = call[d].n
      BY <2>4, <3>4, <3>6
    <3>8. Len(o) = Len(h) - (m - 1)
      BY <1>8, <2>4, <3>3, <3>4 DEF After
    <3>9. ASSUME NEW i \in 1..Len(o) PROVE o[i] = h[(m - 1) + i]
      <4>1. (m - 1) + i \in 1..Len(h) /\ ((m - 1) + i) + 1 = m + i
        BY <1>8, <3>3, <3>6, <3>8
      <4>2. o[i] = handler[m + i]
        BY <3>4 DEF After
      <4> QED BY <2>4, <4>1, <4>2
    <3>10. After(o, h, m - 1)
      BY <3>8, <3>9 DEF After
    <3> QED BY <3>1, <3>2, <3>6, <3>7, <3>10
  <2> QED BY <2>5, <2>6, <2>7
<1>10. ~ crossed' => /\ Falls(handler')
                     /\ \A i \in 1..Len(handler') :
                          \E d \in Callers : Discovers(d)' /\ call'[d].n = handler'[i]
                     /\ \A d \in Callers : Discovers(d)' =>
                          \E k \in 1..Len(handler') :
                            handler'[k] = call'[d].n /\ After(call'[d].orig, handler', k)
  BY <1>2, <1>7, <1>9
<1> QED BY <1>5, <1>6, <1>10 DEF Nested, Falls, After

LEMMA NestedStep ==
  ASSUME Base, Base', Nested, [Next]_vars
  PROVE  Nested'
<1>1. CASE \E c \in Callers : StartDiscover(c) \/ DiscoverEnds(c)
  BY <1>1, NestedBegins, NestedEnds
<1>2. CASE ~ \E c \in Callers : StartDiscover(c) \/ DiscoverEnds(c)
  <2>1. DiscoversStay
    BY <1>2, OthersLeaveDiscovers DEF Base
  <2>2. calls \in Nat /\ calls' \in Nat /\ (calls' = calls \/ calls' = calls + 1)
    <3>1. calls' = calls \/ calls' = calls + 1
      BY DEF Next, StartRequest, StartPublish, StartMessages, StartDiscover, Begin, RequestTakes,
             PublishTakes, MessagesTakes, Pop, TimesOut, DiscoverEnds, Deliver, ListArrives,
             RelayTakes, PeerPublishes, RendezvousTakes, Announced, Lose, Repeat, Postpone,
             Stranger, Fault, boundVars, vars
    <3> QED BY <3>1 DEF Base, Types
  <2>3. \A n \in 1..calls : n \in 1..calls'
    BY <2>2
  <2>4. \A d \in Callers : Discovers(d)' => call'[d].n \in 1..calls'
    BY <2>1, <2>3 DEF Nested, DiscoversStay
  <2>5. ~ crossed' =>
          /\ \A i \in 1..Len(handler') : \E d \in Callers : Discovers(d)' /\ call'[d].n = handler'[i]
          /\ \A d \in Callers : Discovers(d)' =>
               \E k \in 1..Len(handler') :
                 handler'[k] = call'[d].n /\ After(call'[d].orig, handler', k)
    BY <2>1 DEF Nested, DiscoversStay
  <2>6. \A c, d \in Callers : Discovers(c)' /\ Discovers(d)' /\ call'[c].n = call'[d].n => c = d
    BY <2>1 DEF Nested, DiscoversStay
  <2>7. ~ crossed' => Falls(handler')
    BY <2>1 DEF Nested, DiscoversStay
  <2> QED BY <2>4, <2>5, <2>6, <2>7 DEF Nested, Falls, After
<1> QED BY <1>1, <1>2

\* While discovers are nested, each running one hears the connection, the latest
\* first, and nothing else is left in front of the client's own handler.
THEOREM NestedDiscoversCorrect == Spec => []NestedDiscovers
<1>1. Init => Nested
  <2> SUFFICES ASSUME Init PROVE Nested
    OBVIOUS
  <2>1. handler = <<>> /\ \A c \in Callers : ~ Discovers(c)
    BY DEF Init, NoCall, Discovers, Running
  <2> QED BY <2>1 DEF Nested, Falls
<1>2. Base /\ Base' /\ Nested /\ [Next]_vars => Nested'
  BY NestedStep
<1>3. Base /\ Nested => NestedDiscovers
  <2> SUFFICES ASSUME Base, Nested, ~ crossed
               PROVE  /\ Range(handler) = {call[c].n : c \in {d \in Callers : Discovers(d)}}
                      /\ \A i, j \in 1..Len(handler) : i < j => handler[i] > handler[j]
    BY DEF NestedDiscovers
  <2>1. Range(handler) = {handler[i] : i \in 1..Len(handler)}
    BY DEF Base, Types, Range
  <2>2. \A i \in 1..Len(handler) : \E c \in Callers : Discovers(c) /\ call[c].n = handler[i]
    BY DEF Nested
  <2>3. \A c \in Callers : Discovers(c) => \E k \in 1..Len(handler) : handler[k] = call[c].n
    BY DEF Nested
  <2> QED BY <2>1, <2>2, <2>3 DEF Nested, Falls
<1> QED BY <1>1, <1>2, <1>3, BaseInit, BaseStep, PTL DEF Spec

----------------------------------------------------------------------------
Starts(c) == StartRequest(c) \/ StartPublish(c) \/ StartMessages(c) \/ StartDiscover(c)
Takes(c) == RequestTakes(c) \/ PublishTakes(c) \/ MessagesTakes(c)

\* Call c is the one it was.
GoesOn(c) ==
  /\ Running(c)
  /\ call'[c].kind = call[c].kind /\ call'[c].arg = call[c].arg /\ call'[c].n = call[c].n
  /\ call'[c].keep = call[c].keep /\ call'[c].fresh = call[c].fresh
  /\ (call[c].found => call'[c].found) /\ (call'[c].lone => call[c].lone)

\* Every start begins a call of some kind.
LEMMA StartsBegin ==
  ASSUME Types, NEW c \in Callers, Starts(c)
  PROVE  \E kind \in Kinds, arg \in Args, keep \in BOOLEAN : Begin(c, kind, arg, keep)
BY DEF Starts, StartRequest, StartPublish, StartMessages, StartDiscover, Kinds, Args

\* A running call that was not just begun goes on, and only its own request
\* adds to what it got.
LEMMA CallsGoOn ==
  ASSUME Types, [Next]_vars, NEW c \in Callers, Running(c)', ~ Starts(c)
  PROVE  GoesOn(c) /\ (call'[c].got = call[c].got \/ RequestTakes(c))
<1>1. CASE \E x \in Callers : Starts(x)
  <2>1. PICK x \in Callers : Starts(x)
    BY <1>1
  <2>2. PICK kind \in Kinds, arg \in Args, keep \in BOOLEAN : Begin(x, kind, arg, keep)
    BY <2>1, StartsBegin
  <2>3. c # x
    BY <2>1
  <2>4. /\ call'[c].kind = call[c].kind /\ call'[c].arg = call[c].arg
        /\ call'[c].n = call[c].n /\ call'[c].keep = call[c].keep
        /\ call'[c].how = call[c].how /\ call'[c].got = call[c].got
        /\ call'[c].found = call[c].found /\ call'[c].fresh = call[c].fresh
        /\ (call'[c].lone => call[c].lone)
    BY <2>2, <2>3, BeginIs
  <2> QED BY <2>4 DEF GoesOn, Running
<1>2. ASSUME NEW x \in Callers, NEW how \in Hows \ {"running"}, Ends(x, how)
      PROVE  GoesOn(c) /\ call'[c].got = call[c].got
  <2>1. call'[x].how = how /\ \A d \in Callers \ {x} : call'[d] = call[d]
    BY <1>2, EndsIs
  <2>2. c # x /\ call'[c] = call[c]
    BY <2>1 DEF Running
  <2> QED BY <2>2 DEF GoesOn, Running
<1>3. ASSUME call'[c] = call[c] PROVE GoesOn(c) /\ call'[c].got = call[c].got
  BY <1>3 DEF GoesOn, Running
<1>4. {"eose", "closed", "ok", "refused", "timeout", "list"} \subseteq Hows \ {"running"}
  BY DEF Hows
<1>5. ASSUME NEW x \in Callers, RequestTakes(x)
      PROVE  GoesOn(c) /\ (call'[c].got = call[c].got \/ RequestTakes(c))
  <2>1. CASE \E e : call' = [call EXCEPT ![x].got = Append(@, e)]
    <3>1. PICK q : call' = [call EXCEPT ![x].got = q]
      BY <2>1
    <3>2. CASE c = x
      <4>1. /\ call'[c].kind = call[c].kind /\ call'[c].arg = call[c].arg
            /\ call'[c].n = call[c].n /\ call'[c].keep = call[c].keep
            /\ call'[c].how = call[c].how /\ call'[c].found = call[c].found
            /\ call'[c].fresh = call[c].fresh /\ call'[c].lone = call[c].lone
        BY <3>1 DEF Types, Calls
      <4> QED BY <1>5, <3>2, <4>1 DEF GoesOn, Running
    <3>3. CASE c # x
      BY <1>3, <3>1, <3>3 DEF Types
    <3> QED BY <3>2, <3>3
  <2> QED BY <1>2, <1>3, <1>4, <1>5, <2>1 DEF RequestTakes
<1>6. ASSUME NEW x \in Callers, PublishTakes(x) PROVE GoesOn(c) /\ call'[c].got = call[c].got
  <2>1. Head(inbox)[1] = "OK" => Head(inbox)[3] \in {"ok", "refused"}
    <3>1. Head(inbox) \in Answers
      BY <1>6, PopIs DEF PublishTakes
    <3> QED BY <3>1, AnswerForms
  <2> QED BY <1>2, <1>3, <1>4, <1>6, <2>1 DEF PublishTakes
<1>7. CASE \E x \in Callers : TimesOut(x) \/ DiscoverEnds(x)
  BY <1>2, <1>4, <1>7 DEF TimesOut, DiscoverEnds
<1>8. CASE ListArrives
  <2>1. /\ call'[c].kind = call[c].kind /\ call'[c].arg = call[c].arg
        /\ call'[c].n = call[c].n /\ call'[c].keep = call[c].keep
        /\ call'[c].how = call[c].how /\ call'[c].got = call[c].got
        /\ call'[c].fresh = call[c].fresh /\ call'[c].lone = call[c].lone
        /\ (call[c].found => call'[c].found)
    BY <1>8, ListIs
  <2> QED BY <2>1 DEF GoesOn, Running
<1>9. CASE \/ \E x \in Callers : MessagesTakes(x)
           \/ Deliver \/ RelayTakes \/ PeerPublishes \/ RendezvousTakes \/ Announced
           \/ Lose \/ Repeat \/ Postpone \/ Stranger \/ UNCHANGED vars
  <2>1. call' = call
    BY <1>9 DEF MessagesTakes, Pop, Deliver, RelayTakes, PeerPublishes, RendezvousTakes, Announced,
                Lose, Repeat, Postpone, Stranger, Fault, vars, callVars
  <2> QED BY <1>3, <2>1
<1> QED BY <1>1, <1>5, <1>6, <1>7, <1>8, <1>9 DEF Next, Starts

\* A call that is alone shares its queue with no other.
Alone == \A c, d \in Callers : Running(c) /\ call[c].lone /\ Shares(d, call[c].kind) => d = c

LEMMA AloneStep ==
  ASSUME Types, Alone, [Next]_vars
  PROVE  Alone'
<1>1. ASSUME NEW c \in Callers, NEW d \in Callers, Running(c)', call'[c].lone,
             Shares(d, call[c].kind)', d # c
      PROVE  FALSE
  <2>1. Running(d)' /\ (call'[d].kind = "discover" <=> call'[c].kind = "discover")
    BY <1>1 DEF Shares
  <2>2. CASE ~ Starts(c) /\ ~ Starts(d)
    <3>1. GoesOn(c) /\ GoesOn(d)
      BY <1>1, <2>1, <2>2, CallsGoOn
    <3> QED BY <1>1, <2>1, <3>1 DEF Alone, Shares, GoesOn
  <2>3. CASE Starts(c)
    <3>1. PICK kind \in Kinds, arg \in Args, keep \in BOOLEAN : Begin(c, kind, arg, keep)
      BY <2>3, StartsBegin
    <3>2. /\ call'[c].kind = kind /\ (call'[c].lone <=> ~ \E e \in Callers : Shares(e, kind))
          /\ call'[d].kind = call[d].kind /\ call'[d].how = call[d].how
      BY <1>1, <3>1, BeginIs
    <3> QED BY <1>1, <2>1, <3>2 DEF Shares, Running
  <2>4. CASE Starts(d)
    <3>1. PICK kind \in Kinds, arg \in Args, keep \in BOOLEAN : Begin(d, kind, arg, keep)
      BY <2>4, StartsBegin
    <3>2. /\ call'[d].kind = kind
          /\ call'[c].kind = call[c].kind /\ call'[c].how = call[c].how
          /\ (call'[c].lone <=> call[c].lone /\ ~ Shares(c, kind))
      BY <1>1, <3>1, BeginIs
    <3> QED BY <1>1, <2>1, <3>2 DEF Shares, Running
  <2> QED BY <2>2, <2>3, <2>4
<1> QED BY <1>1 DEF Alone

\* Only who takes a message and the hidden relay take anything off the ways.
LEMMA WaysKeep ==
  ASSUME Types, Types', [Next]_vars, ~ faulty', ~ RelayTakes
  PROVE  /\ Elements(up) \subseteq Elements(up')
         /\ (\A x \in Callers : ~ Takes(x)) => Coming \subseteq Coming'
<1>1. up \in Seq(Questions) /\ up' \in Seq(Questions)
  BY DEF Types
<1>2. ASSUME NEW m \in Questions, up' = Append(up, m) PROVE Elements(up') = Elements(up) \cup {m}
  BY <1>1, <1>2, Appending
<1>3. ~ Lose /\ ~ Repeat /\ ~ Postpone
  BY DEF Lose, Repeat, Postpone
<1>4. \/ up' = up \/ \E m : up' = Append(up, m)
  BY <1>3 DEF Next, StartRequest, StartPublish, StartMessages, StartDiscover, RequestTakes,
              PublishTakes, MessagesTakes, SendClose, Sent, TimesOut, DiscoverEnds, Deliver,
              ListArrives, PeerPublishes, RendezvousTakes, Announced, Stranger, callVars, vars
<1>5. Elements(up) \subseteq Elements(up')
  <2>1. CASE up' = up
    BY <2>1
  <2>2. ASSUME NEW m, up' = Append(up, m) PROVE Elements(up) \subseteq Elements(up')
    <3>1. PICK u : u = up'
      OBVIOUS
    <3>2. Len(u) = Len(up) + 1 /\ Len(up) \in Nat /\ \A i \in 1..Len(up) : u[i] = up[i]
      BY <1>1, <2>2, <3>1
    <3> QED BY <3>1, <3>2 DEF Elements
  <2> QED BY <1>4, <2>1, <2>2
<1>6. ASSUME \A x \in Callers : ~ Takes(x) PROVE Coming \subseteq Coming'
  <2>1. CASE Deliver
    BY <2>1, DeliverComing
  <2>2. CASE PeerPublishes
    BY <2>2, PeerComing
  <2>3. CASE Stranger
    BY <2>3, StrangerComing
  <2>4. CASE \/ \E x \in Callers : Starts(x) \/ TimesOut(x) \/ DiscoverEnds(x)
             \/ ListArrives \/ RendezvousTakes \/ Announced \/ UNCHANGED vars
    <3>1. inbox' = inbox /\ down' = down
      BY <2>4 DEF Starts, StartRequest, StartPublish, StartMessages, StartDiscover, Begin, TimesOut,
                  DiscoverEnds, ListArrives, RendezvousTakes, Announced, callVars, vars
    <3> QED BY <3>1 DEF Coming
  <2> QED BY <1>3, <1>6, <2>1, <2>2, <2>3, <2>4 DEF Next, Takes, Starts
<1> QED BY <1>5, <1>6

\* The question of a call that waits, and the answers that end it.
Question(c) == IF call[c].kind = "request" THEN <<"REQ", call[c].arg>> ELSE <<"EVENT", call[c].arg>>
Ending(c) == IF call[c].kind = "request"
               THEN {<<"EOSE", call[c].arg>>, <<"CLOSED", call[c].arg>>}
               ELSE {<<"OK", call[c].arg, "ok">>, <<"OK", call[c].arg, "refused">>}

Awaited(c) == /\ Running(c) /\ call[c].lone /\ ~ faulty /\ call[c].kind \in {"request", "publish"}
              => Question(c) \in Elements(up) \/ Ending(c) \cap Coming # {}

\* A lone discover is the first to hear the connection, and the last to have
\* spoken to the rendez-vous relay.
Hears(c) == Discovers(c) /\ call[c].lone =>
              /\ handler # <<>> /\ handler[1] = call[c].n
              /\ toRelay # <<>> => toRelay[Len(toRelay)] = "REQ"
              /\ toRelay = <<>> => listSub /\ (listed => call[c].found \/ lists > 0)

\* No step of a path that is still faithful loses, repeats or delays.
LEMMA Faithful ==
  ASSUME Types, [Next]_vars, ~ faulty'
  PROVE  ~ faulty /\ ~ Lose /\ ~ Repeat /\ ~ Postpone
<1>1. ~ Lose /\ ~ Repeat /\ ~ Postpone
  BY DEF Lose, Repeat, Postpone
<1>2. faulty' = faulty
  BY <1>1 DEF Next, StartRequest, StartPublish, StartMessages, StartDiscover, Begin, RequestTakes,
       PublishTakes, MessagesTakes, Pop, TimesOut, DiscoverEnds, Deliver, ListArrives,
       RelayTakes, PeerPublishes, RendezvousTakes, Announced, Stranger, ghostVars, vars
<1> QED BY <1>1, <1>2

LEMMA AwaitedStep ==
  ASSUME Base, Base', Alone, [Next]_vars, NEW c \in Callers, Awaited(c)
  PROVE  Awaited(c)'
<1> SUFFICES ASSUME Running(c)', call'[c].lone, ~ faulty', call'[c].kind \in {"request", "publish"}
             PROVE  Question(c)' \in Elements(up') \/ Ending(c)' \cap Coming' # {}
  BY DEF Awaited
<1>0. Types /\ Types' /\ ArgsFit
  BY DEF Base
<1>1. CASE Starts(c)
  <2>1. PICK m \in Questions : m = Question(c)' /\ up' = Append(up, m)
    <3>1. CASE StartRequest(c)
      <4>1. PICK s \in Ids, keep \in BOOLEAN : Begin(c, "request", s, keep) /\ up' = Append(up, <<"REQ", s>>)
        BY <3>1 DEF StartRequest, Sent
      <4>2. PICK kind \in Kinds, arg \in Args : kind = "request" /\ arg = s /\ Begin(c, kind, arg, keep)
        BY <4>1 DEF Kinds, Args
      <4>3. call'[c].kind = kind /\ call'[c].arg = arg
        BY <1>0, <4>2, BeginIs
      <4> QED BY <4>1, <4>2, <4>3 DEF Question, Questions
    <3>2. CASE StartPublish(c)
      <4>1. PICK e \in Events : Begin(c, "publish", e, FALSE) /\ up' = Append(up, <<"EVENT", e>>)
        BY <3>2 DEF StartPublish, Sent
      <4>2. PICK kind \in Kinds, arg \in Args, keep \in BOOLEAN :
              kind = "publish" /\ arg = e /\ Begin(c, kind, arg, keep)
        BY <4>1 DEF Kinds, Args
      <4>3. call'[c].kind = kind /\ call'[c].arg = arg
        BY <1>0, <4>2, BeginIs
      <4> QED BY <4>1, <4>2, <4>3 DEF Question, Questions
    <3>3. CASE StartMessages(c) \/ StartDiscover(c)
      <4>1. PICK kind \in {"messages", "discover"}, arg \in Args, keep \in BOOLEAN : Begin(c, kind, arg, keep)
        BY <3>3 DEF StartMessages, StartDiscover, Args
      <4>2. kind \in Kinds
        BY DEF Kinds
      <4>3. call'[c].kind = kind
        BY <1>0, <4>1, <4>2, BeginIs
      <4> QED BY <4>3
    <3> QED BY <1>1, <3>1, <3>2, <3>3 DEF Starts
  <2>2. Elements(up') = Elements(up) \cup {m}
    BY <1>0, <2>1, Appending DEF Types
  <2> QED BY <2>1, <2>2
<1>2. CASE ~ Starts(c)
  <2>1. GoesOn(c)
    BY <1>0, <1>2, CallsGoOn
  <2>2. ~ faulty
    BY <1>0, Faithful
  <2>3. Question(c)' = Question(c) /\ Ending(c)' = Ending(c) /\ call[c].kind \in {"request", "publish"}
    BY <2>1 DEF GoesOn, Question, Ending
  <2>4. Question(c) \in Elements(up) \/ Ending(c) \cap Coming # {}
    BY <2>1, <2>2, <2>3 DEF Awaited, GoesOn
  <2>5. Running(c) /\ call[c].lone
    BY <2>1 DEF GoesOn
  <2>6. CASE RelayTakes
    <3>1. PICK q : q = Head(up)
      OBVIOUS
    <3>2. q \in Questions /\ up # <<>> /\ up \in Seq(Questions) /\ up' = Tail(up)
          /\ Elements(up) = Elements(up') \cup {q}
      <4>1. up # <<>> /\ up \in Seq(Questions) /\ up' = Tail(up)
        BY <1>0, <2>6 DEF RelayTakes, Types
      <4> QED BY <3>1, <4>1, TakingHead
    <3>3. CASE q[1] = "EVENT" /\ OnEvent(q[2])
      <4>1. q[2] \in Events /\ q = <<"EVENT", q[2]>>
        BY <3>2, <3>3, QuestionForms
      <4>2. PICK e \in Events : OnEvent(e) /\ q = <<"EVENT", e>>
        BY <3>3, <4>1
      <4>3. PICK how \in {"ok", "refused"} : Coming \subseteq Coming' /\ <<"OK", e, how>> \in Coming'
        BY <1>0, <2>6, <4>2, EventComing
      <4>4. q = Question(c) => <<"OK", e, how>> \in Ending(c)
        BY <4>2 DEF Question, Ending
      <4> QED BY <2>3, <2>4, <3>2, <4>3, <4>4
    <3>4. CASE q[1] = "REQ" /\ OnReq(q[2])
      <4>1. q[2] \in Ids /\ q = <<"REQ", q[2]>>
        BY <3>2, <3>4, QuestionForms
      <4>2. PICK s \in Ids : OnReq(s) /\ q = <<"REQ", s>>
        BY <3>4, <4>1
      <4>3. PICK last \in {"EOSE", "CLOSED"} : Coming \subseteq Coming' /\ <<last, s>> \in Coming'
        BY <1>0, <2>6, <4>2, ReqComing
      <4>4. q = Question(c) => <<last, s>> \in Ending(c)
        BY <4>2 DEF Question, Ending
      <4> QED BY <2>3, <2>4, <3>2, <4>3, <4>4
    <3>5. CASE q[1] = "CLOSE" /\ OnClose(q[2])
      <4>1. Coming' = Coming
        BY <2>6, <3>5 DEF OnClose, RelayTakes, Coming
      <4>2. q # Question(c)
        BY <3>5 DEF Question
      <4> QED BY <2>3, <2>4, <3>2, <4>1, <4>2
    <3> QED BY <2>6, <3>1, <3>3, <3>4, <3>5 DEF RelayTakes
  <2>7. CASE ~ RelayTakes /\ \A x \in Callers : ~ Takes(x)
    <3>1. Elements(up) \subseteq Elements(up') /\ Coming \subseteq Coming'
      BY <1>0, <2>7, WaysKeep
    <3> QED BY <2>3, <2>4, <3>1
  <2>8. ASSUME NEW x \in Callers, Takes(x)
        PROVE  Question(c)' \in Elements(up') \/ Ending(c)' \cap Coming' # {}
    <3>1. PICK kind \in {"request", "publish", "messages"} : Pop(x, kind)
      BY <2>8 DEF Takes, RequestTakes, PublishTakes, MessagesTakes
    <3>2. x = c
      BY <2>3, <2>5, <3>1 DEF Alone, Shares, Pop
    <3>3. PICK m : m = Head(inbox)
      OBVIOUS
    <3>4. m \in Answers /\ Coming \subseteq Coming' \cup {m}
      BY <1>0, <3>1, <3>3, PopIs, PopComing
    <3>5. ~ RelayTakes
      BY <1>0, <3>1, TakingHead DEF RelayTakes, Pop, Types
    <3>6. Elements(up) \subseteq Elements(up')
      BY <1>0, <3>5, WaysKeep
    <3>7. m \notin Ending(c)
      <4>1. CASE RequestTakes(c)
        <5>1. call[c].kind = "request"
          BY <4>1 DEF RequestTakes, Pop
        <5>2. ~ Ends(c, "eose") /\ ~ Ends(c, "closed")
          <6>1. "eose" \in Hows /\ "closed" \in Hows
            BY DEF Hows
          <6> QED BY <1>0, <6>1, EndsIs DEF Running
        <5> QED BY <3>3, <4>1, <5>1, <5>2 DEF RequestTakes, Ending
      <4>2. CASE PublishTakes(c)
        <5>1. call[c].kind = "publish"
          BY <4>2 DEF PublishTakes, Pop
        <5>2. ~ Ends(c, "ok") /\ ~ Ends(c, "refused")
          <6>1. "ok" \in Hows /\ "refused" \in Hows
            BY DEF Hows
          <6> QED BY <1>0, <6>1, EndsIs DEF Running
        <5> QED BY <3>3, <4>2, <5>1, <5>2 DEF PublishTakes, Ending
      <4>3. CASE MessagesTakes(c)
        BY <2>3, <4>3 DEF MessagesTakes, Pop
      <4> QED BY <2>8, <3>2, <4>1, <4>2, <4>3 DEF Takes
    <3> QED BY <2>3, <2>4, <3>4, <3>6, <3>7
  <2> QED BY <2>6, <2>7, <2>8
<1> QED BY <1>1, <1>2

\* A lone discover keeps hearing until it ends.
LEMMA HearsStep ==
  ASSUME Base, Base', Alone, [Next]_vars, NEW c \in Callers, Hears(c)
  PROVE  Hears(c)'
<1> SUFFICES ASSUME Discovers(c)', call'[c].lone
             PROVE  /\ handler' # <<>> /\ handler'[1] = call'[c].n
                    /\ toRelay' # <<>> => toRelay'[Len(toRelay')] = "REQ"
                    /\ toRelay' = <<>> => listSub' /\ (listed' => call'[c].found \/ lists' > 0)
  BY DEF Hears
<1>0. Types /\ Types'
  BY DEF Base
<1>1. toRelay \in Seq({"REQ", "CLOSE"}) /\ handler \in Seq(Nat) /\ calls \in Nat /\ Running(c)'
  BY <1>0 DEF Types, Discovers
<1>2. CASE Starts(c)
  <2>1. CASE StartDiscover(c)
    <3>1. PICK kind \in Kinds, arg \in Args, keep \in BOOLEAN :
            kind = "discover" /\ Begin(c, kind, arg, keep)
      BY <2>1 DEF StartDiscover, Kinds, Args
    <3>2. call'[c].n = calls + 1
      BY <1>0, <3>1, BeginIs
    <3>3. handler' = <<calls + 1>> \o handler /\ toRelay' = Append(toRelay, "REQ")
      BY <2>1 DEF StartDiscover
    <3>4. PICK n : n = calls + 1
      OBVIOUS
    <3>5. n \in Nat
      BY <1>1, <3>4
    <3>6. PICK h : h = <<n>> \o handler
      OBVIOUS
    <3>7. h[1] = n /\ h # <<>>
      BY <1>1, <3>5, <3>6
    <3>8. PICK t : t = Append(toRelay, "REQ")
      OBVIOUS
    <3>9. t # <<>> /\ t[Len(t)] = "REQ"
      BY <1>1, <3>8
    <3> QED BY <3>2, <3>3, <3>4, <3>6, <3>7, <3>8, <3>9
  <2>2. CASE StartRequest(c) \/ StartPublish(c) \/ StartMessages(c)
    <3>1. PICK kind \in {"request", "publish", "messages"}, arg \in Args, keep \in BOOLEAN :
            Begin(c, kind, arg, keep)
      BY <2>2 DEF StartRequest, StartPublish, StartMessages, Args
    <3>2. kind \in Kinds
      BY DEF Kinds
    <3>3. call'[c].kind = kind
      BY <1>0, <3>1, <3>2, BeginIs
    <3> QED BY <3>3 DEF Discovers
  <2> QED BY <1>2, <2>1, <2>2 DEF Starts
<1>3. CASE ~ Starts(c)
  <2>1. GoesOn(c) /\ Discovers(c) /\ call[c].lone /\ call'[c].n = call[c].n
        /\ (call[c].found => call'[c].found)
    <3>1. GoesOn(c)
      BY <1>0, <1>1, <1>3, CallsGoOn
    <3> QED BY <3>1 DEF GoesOn, Discovers
  <2>2. /\ handler # <<>> /\ handler[1] = call[c].n
        /\ toRelay # <<>> => toRelay[Len(toRelay)] = "REQ"
        /\ toRelay = <<>> => listSub /\ (listed => call[c].found \/ lists > 0)
    BY <2>1 DEF Hears
  <2>3. \A x \in Callers : ~ StartDiscover(x) /\ ~ DiscoverEnds(x)
    <3>1. ASSUME NEW x \in Callers, StartDiscover(x) PROVE FALSE
      <4>1. PICK kind \in Kinds, arg \in Args, keep \in BOOLEAN :
              kind = "discover" /\ Begin(x, kind, arg, keep)
        BY <3>1 DEF StartDiscover, Kinds, Args
      <4>2. c # x
        BY <1>3, <3>1 DEF Starts
      <4>3. call'[c].lone <=> call[c].lone /\ ~ Shares(c, kind)
        BY <1>0, <4>1, <4>2, BeginIs
      <4> QED BY <2>1, <4>1, <4>3 DEF Shares, Discovers
    <3>2. ASSUME NEW x \in Callers, DiscoverEnds(x) PROVE FALSE
      <4>1. Discovers(x) /\ (Ends(x, "list") \/ Ends(x, "timeout"))
        BY <3>2 DEF DiscoverEnds
      <4>2. x = c
        BY <2>1, <4>1 DEF Alone, Shares, Discovers
      <4>3. "list" \in Hows /\ "timeout" \in Hows
        BY DEF Hows
      <4>4. call'[x].how # "running"
        BY <1>0, <4>1, <4>3, EndsIs
      <4> QED BY <1>1, <4>2, <4>4 DEF Running
    <3> QED BY <3>1, <3>2
  <2>4. handler' = handler
    BY <1>0, <2>3, OthersLeaveDiscovers DEF DiscoversStay
  <2>5. CASE ListArrives
    <3>1. Contains(handler, call[c].n)
      <4>1. 1 \in 1..Len(handler)
        BY <1>1, <2>2
      <4> QED BY <2>2, <4>1 DEF Contains
    <3>2. call'[c].found
      BY <1>0, <2>1, <2>5, <3>1, ListIs
    <3> QED BY <2>1, <2>2, <2>4, <2>5, <3>2 DEF ListArrives
  <2>6. CASE RendezvousTakes
    <3>1. /\ toRelay # <<>> /\ toRelay' = Tail(toRelay)
          /\ listSub' = (Head(toRelay) = "REQ")
          /\ lists' = IF listSub' /\ listed THEN lists + 1 ELSE lists
          /\ listed' = listed /\ lists \in Nat
      BY <1>0, <2>6 DEF RendezvousTakes, Types
    <3>2. PICK t : t = Tail(toRelay)
      OBVIOUS
    <3>3. Len(t) = Len(toRelay) - 1 /\ Len(toRelay) \in Nat \ {0} /\ Len(t) \in Nat
          /\ \A i \in 1..Len(t) : t[i] = toRelay[i + 1]
      BY <1>1, <3>1, <3>2
    <3>4. CASE t = <<>>
      <4>1. Len(t) = 0
        BY <3>4
      <4>2. Len(toRelay) = 1
        BY <3>3, <4>1
      <4>3. Head(toRelay) = "REQ"
        BY <1>1, <2>2, <3>1, <4>2
      <4>a. listSub'
        BY <3>1, <4>3, Zenon
      <4>b. lists' = IF listed THEN lists + 1 ELSE lists
        BY <3>1, <4>a
      <4>4. listSub' /\ (listed' => lists' > 0)
        BY <3>1, <4>a, <4>b
      <4> QED BY <2>1, <2>2, <2>4, <3>1, <3>2, <3>4, <4>4
    <3>5. CASE t # <<>>
      <4>1. t \in Seq({"REQ", "CLOSE"})
        BY <1>1, <3>1, <3>2
      <4>2. Len(t) # 0
        BY <3>5, <4>1
      <4>3. Len(t) \in 1..Len(t) /\ Len(t) + 1 = Len(toRelay)
        BY <3>3, <4>2
      <4>4. t[Len(t)] = "REQ"
        BY <2>2, <3>1, <3>3, <4>3
      <4> QED BY <2>1, <2>2, <2>4, <3>1, <3>2, <3>5, <4>4
    <3> QED BY <3>4, <3>5
  <2>7. CASE Announced
    BY <1>0, <2>1, <2>2, <2>4, <2>7 DEF Announced, callVars, Types
  <2>8. CASE ~ ListArrives /\ ~ RendezvousTakes /\ ~ Announced
    <3>1. toRelay' = toRelay /\ listSub' = listSub /\ listed' = listed /\ lists' = lists
      BY <2>3, <2>8 DEF Next, StartRequest, StartPublish, StartMessages, Begin,
         RequestTakes, PublishTakes, MessagesTakes, Pop, TimesOut, Deliver,
         RelayTakes, PeerPublishes, Lose, Repeat, Postpone,
         Stranger, Fault, listVars, callVars, vars
    <3> QED BY <2>1, <2>2, <2>4, <3>1
  <2> QED BY <2>5, <2>6, <2>7, <2>8
<1> QED BY <1>2, <1>3

\* Nobody waits in vain: on a faithful path, a call that shares its queue with
\* no other has its question or its answer under way until it returns.
THEOREM AnswerUnderWayCorrect == Spec => []AnswerUnderWay
<1> DEFINE Way == Alone /\ \A c \in Callers : Awaited(c) /\ Hears(c)
<1>1. Init => Way
  BY DEF Init, NoCall, Alone, Awaited, Hears, Discovers, Running
<1>2. Base /\ Base' /\ Way /\ [Next]_vars => Way'
  <2> SUFFICES ASSUME Base, Base', Way, [Next]_vars PROVE Way'
    OBVIOUS
  <2>1. Alone'
    BY AloneStep DEF Base
  <2>2. \A c \in Callers : Awaited(c)' /\ Hears(c)'
    BY AwaitedStep, HearsStep
  <2> QED BY <2>1, <2>2
<1>3. Base /\ Way => AnswerUnderWay
  <2> SUFFICES ASSUME Base, Way, NEW c \in Callers, Running(c), call[c].lone, ~ faulty
               PROVE  CASE call[c].kind = "request" ->
                             \/ Contains(up, <<"REQ", call[c].arg>>)
                             \/ {<<"EOSE", call[c].arg>>, <<"CLOSED", call[c].arg>>} \cap Coming # {}
                        [] call[c].kind = "publish" ->
                             \/ Contains(up, <<"EVENT", call[c].arg>>)
                             \/ \E m \in Coming : m[1] = "OK" /\ m[2] = call[c].arg
                        [] call[c].kind = "discover" ->
                             listed => call[c].found \/ lists > 0 \/ Contains(toRelay, "REQ")
                        [] OTHER -> TRUE
    BY DEF AnswerUnderWay
  <2>1. \A m \in Elements(up) : Contains(up, m)
    BY DEF Contains, Elements
  <2>2. Awaited(c) /\ Hears(c)
    OBVIOUS
  <2>3. CASE call[c].kind = "request"
    BY <2>1, <2>2, <2>3 DEF Awaited, Question, Ending
  <2>4. CASE call[c].kind = "publish"
    <3>1. \/ Contains(up, <<"EVENT", call[c].arg>>)
          \/ \E m \in Coming : m[1] = "OK" /\ m[2] = call[c].arg
      BY <2>1, <2>2, <2>4 DEF Awaited, Question, Ending
    <3> QED BY <2>4, <3>1
  <2>5. CASE call[c].kind = "discover"
    <3>1. toRelay # <<>> => Contains(toRelay, "REQ")
      <4>1. toRelay \in Seq({"REQ", "CLOSE"})
        BY DEF Base, Types
      <4>2. toRelay # <<>> => Len(toRelay) \in 1..Len(toRelay)
        BY <4>1
      <4> QED BY <2>2, <2>5, <4>2 DEF Hears, Discovers, Contains
    <3>2. listed => call[c].found \/ lists > 0 \/ Contains(toRelay, "REQ")
      BY <2>2, <2>5, <3>1 DEF Hears, Discovers
    <3> QED BY <2>5, <3>2
  <2> QED BY <2>3, <2>4, <2>5
<1> HIDE DEF Way
<1> QED BY <1>1, <1>2, <1>3, BaseInit, BaseStep, PTL DEF Spec

----------------------------------------------------------------------------
LEMMA OnlyAll ==
  ASSUME NEW T, NEW S, NEW s \in Seq(T), Elements(s) \subseteq S
  PROVE  Only(s, S) = s
<1>0. \E f \in [0..Len(s) -> Seq(T)] : Sifts(f, s, S) /\ Only(s, S) = f[Len(s)]
  BY OnlySifts, ZenonT(30)
<1>1. PICK f \in [0..Len(s) -> Seq(T)] : Sifts(f, s, S) /\ Only(s, S) = f[Len(s)]
  BY <1>0
<1>2. \A i \in 1..Len(s) : s[i] \in S
  BY DEF Elements
<1> DEFINE Q(n) == Len(f[n]) = n /\ \A i \in 1..n : f[n][i] = s[i]
           N == {n \in Nat : n <= Len(s) => Q(n)}
<1>3. 0 \in N
  BY <1>1 DEF Sifts
<1>4. ASSUME NEW n \in 1..Len(s), n - 1 \in N PROVE n \in N
  <2>1. PICK q : q = f[n - 1]
    OBVIOUS
  <2>2. n - 1 \in 0..Len(s) /\ n - 1 <= Len(s) /\ n \in Nat
    OBVIOUS
  <2>3. q \in Seq(T) /\ Len(q) = n - 1 /\ \A i \in 1..(n - 1) : q[i] = s[i]
    BY <1>4, <2>1, <2>2
  <2>a. s[n] \in S /\ s[n] \in T
    BY <1>2
  <2>b. f[n] = IF s[n] \in S THEN Append(f[n - 1], s[n]) ELSE f[n - 1]
    BY <1>1 DEF Sifts
  <2>4. f[n] = Append(q, s[n]) /\ s[n] \in T
    BY <2>1, <2>a, <2>b
  <2>5. PICK r : r = Append(q, s[n])
    OBVIOUS
  <2>6. Len(r) = n /\ r[n] = s[n] /\ \A i \in 1..(n - 1) : r[i] = q[i]
    BY <2>3, <2>4, <2>5
  <2>7. Q(n)
    BY <2>3, <2>4, <2>5, <2>6
  <2> QED BY <2>2, <2>7
<1> HIDE DEF Q
<1>5. Len(s) \in Nat
  OBVIOUS
<1>6. 0..Len(s) \subseteq N
  <2> HIDE DEF N
  <2>1. PICK M : M = N
    OBVIOUS
  <2>2. \A i \in 1..Len(s) : i - 1 \in M => i \in M
    BY <1>4, <2>1
  <2> QED BY <1>3, <1>5, <2>1, <2>2, Climbing
<1>7. Q(Len(s))
  BY <1>5, <1>6
<1>8. PICK o : o = Only(s, S)
  OBVIOUS
<1>9. o \in Seq(T) /\ Len(o) = Len(s) /\ \A i \in 1..Len(s) : o[i] = s[i]
  BY <1>1, <1>5, <1>7, <1>8 DEF Q
<1> QED BY <1>8, <1>9

LEMMA OnlyNone ==
  ASSUME NEW T, NEW S, NEW s \in Seq(T), Elements(s) \cap S = {}
  PROVE  Only(s, S) = <<>>
<1>1. PICK o : o = Only(s, S)
  OBVIOUS
<1>2. o \in Seq(T) /\ Elements(o) = {}
  BY <1>1, OnlyKeeps
<1>3. Len(o) \in Nat /\ \A i \in 1..Len(o) : o[i] \in Elements(o)
  BY <1>2 DEF Elements
<1>4. Len(o) = 0
  BY <1>2, <1>3
<1> QED BY <1>1, <1>2, <1>4

\* What is in the queues for subscription s.
Mine(s) == {m \in Answers : m[2] = s}
Parcelled(s) == {d \in Parcels : d.by = "bridge" /\ d.msg[2] = s}

\* The answer to a request whose events are A, message by message.
Owed(A, s, i) == IF i <= Len(A) THEN <<"EVENT", s, A[i]>> ELSE <<"EOSE", s>>

\* What was returned so far, the messages in the inbox and those on their way
\* are the answer, and what comes after it matters no more.
Continues(g, a, b, A, s) ==
  /\ Len(g) <= Len(A) /\ \A i \in 1..Len(g) : g[i] = A[i]
  /\ Len(g) + Len(a) + Len(b) > Len(A)
  /\ \A i \in 1..Len(a) : Len(g) + i <= Len(A) + 1 => a[i] = Owed(A, s, Len(g) + i)
  /\ \A i \in 1..Len(b) : Len(g) + Len(a) + i <= Len(A) + 1
                            => b[i].msg = Owed(A, s, Len(g) + Len(a) + i)

\* What is put behind the answer does not matter to it.
LEMMA ContinuesLater ==
  ASSUME NEW s, NEW g \in Seq(Events), NEW A \in Seq(Events), NEW a \in Seq(Answers),
         NEW b \in Seq(Parcels), NEW x \in Seq(Parcels), Continues(g, a, b, A, s)
  PROVE  Continues(g, a, b \o x, A, s)
<1>1. PICK r : r = b \o x
  OBVIOUS
<1>2. /\ Len(r) = Len(b) + Len(x) /\ Len(b) \in Nat /\ Len(x) \in Nat /\ Len(g) \in Nat
      /\ Len(a) \in Nat /\ Len(A) \in Nat /\ \A i \in 1..Len(b) : r[i] = b[i]
  BY <1>1
<1>3. ASSUME NEW i \in 1..Len(r), Len(g) + Len(a) + i <= Len(A) + 1
      PROVE  r[i].msg = Owed(A, s, Len(g) + Len(a) + i)
  <2>1. i \in 1..Len(b)
    BY <1>2, <1>3 DEF Continues
  <2> QED BY <1>2, <1>3, <2>1 DEF Continues
<1>4. Len(g) + Len(a) + Len(r) > Len(A)
  BY <1>2 DEF Continues
<1>5. Continues(g, a, r, A, s)
  BY <1>3, <1>4 DEF Continues
<1> QED BY <1>1, <1>5

\* A message of the answer goes from the path into the inbox.
LEMMA ContinuesDelivered ==
  ASSUME NEW s, NEW g \in Seq(Events), NEW A \in Seq(Events), NEW a \in Seq(Answers),
         NEW b \in Seq(Parcels), b # <<>>, Continues(g, a, b, A, s)
  PROVE  Continues(g, Append(a, Head(b).msg), Tail(b), A, s)
<1>0. Head(b) = b[1] /\ b[1] \in Parcels
  OBVIOUS
<1>1. PICK r, t, m : r = Append(a, m) /\ t = Tail(b) /\ m = b[1].msg /\ m = Head(b).msg
  BY <1>0
<1>2. m \in Answers
  BY <1>0, <1>1 DEF Parcels
<1>3. /\ Len(r) = Len(a) + 1 /\ r[Len(a) + 1] = m /\ Len(a) \in Nat /\ Len(g) \in Nat /\ Len(A) \in Nat
      /\ \A i \in 1..Len(a) : r[i] = a[i]
  BY <1>1, <1>2
<1>4. Len(b) \in Nat \ {0} /\ Len(t) = Len(b) - 1 /\ \A i \in 1..Len(t) : t[i] = b[i + 1]
  BY <1>1
<1>5. ASSUME NEW i \in 1..Len(r), Len(g) + i <= Len(A) + 1 PROVE r[i] = Owed(A, s, Len(g) + i)
  <2>1. CASE i \in 1..Len(a)
    BY <1>3, <1>5, <2>1 DEF Continues
  <2>2. CASE i \notin 1..Len(a)
    <3>1. i = Len(a) + 1 /\ 1 \in 1..Len(b)
      BY <1>3, <1>4, <2>2
    <3>2. Len(g) + Len(a) + 1 = Len(g) + i
      BY <1>3, <3>1
    <3>3. b[1].msg = Owed(A, s, Len(g) + Len(a) + 1)
      BY <1>5, <3>1, <3>2 DEF Continues
    <3> QED BY <1>1, <1>3, <3>1, <3>2, <3>3
  <2> QED BY <2>1, <2>2
<1>6. ASSUME NEW i \in 1..Len(t), Len(g) + Len(r) + i <= Len(A) + 1
      PROVE  t[i].msg = Owed(A, s, Len(g) + Len(r) + i)
  <2>1. i + 1 \in 1..Len(b) /\ Len(g) + Len(a) + (i + 1) = Len(g) + Len(r) + i
    BY <1>3, <1>4
  <2>2. b[i + 1].msg = Owed(A, s, Len(g) + Len(a) + (i + 1))
    BY <1>6, <2>1 DEF Continues
  <2> QED BY <1>4, <2>1, <2>2
<1>7. Len(g) + Len(r) + Len(t) > Len(A)
  BY <1>3, <1>4 DEF Continues
<1>8. Continues(g, r, t, A, s)
  BY <1>5, <1>6, <1>7 DEF Continues
<1> QED BY <1>1, <1>8

\* The next message of s is the next of the answer: another event, or the end
\* of a complete list.
LEMMA ContinuesTaken ==
  ASSUME NEW s, NEW g \in Seq(Events), NEW A \in Seq(Events), NEW a \in Seq(Answers),
         NEW b \in Seq(Parcels), a # <<>>, Continues(g, a, b, A, s)
  PROVE  /\ Head(a)[1] = "EVENT" => Continues(Append(g, Head(a)[3]), Tail(a), b, A, s)
         /\ Head(a)[1] = "EOSE" => g = A
         /\ Head(a)[1] # "CLOSED"
<1>0. Head(a) = a[1]
  OBVIOUS
<1>1. PICK t, m : t = Tail(a) /\ m = Head(a) /\ m = a[1]
  BY <1>0
<1>2. /\ Len(a) \in Nat \ {0} /\ Len(t) = Len(a) - 1 /\ \A i \in 1..Len(t) : t[i] = a[i + 1]
      /\ Len(g) \in Nat /\ Len(A) \in Nat /\ 1 \in 1..Len(a)
  BY <1>1
<1>3. Len(g) <= Len(A) /\ m = Owed(A, s, Len(g) + 1)
  BY <1>1, <1>2 DEF Continues
<1>4. CASE Len(g) + 1 <= Len(A)
  <2>1. m = <<"EVENT", s, A[Len(g) + 1]>>
    BY <1>3, <1>4 DEF Owed
  <2>2. PICK e : e = A[Len(g) + 1]
    OBVIOUS
  <2>3. e \in Events
    BY <1>2, <1>4, <2>2
  <2>4. PICK r : r = Append(g, e)
    OBVIOUS
  <2>5. Len(r) = Len(g) + 1 /\ r[Len(g) + 1] = e /\ \A i \in 1..Len(g) : r[i] = g[i]
    BY <2>3, <2>4
  <2>6. ASSUME NEW i \in 1..Len(r) PROVE r[i] = A[i]
    <3>1. i \in 1..Len(g) \/ i = Len(g) + 1
      BY <1>2, <2>5
    <3> QED BY <2>2, <2>5, <3>1 DEF Continues
  <2>7. ASSUME NEW i \in 1..Len(t), Len(r) + i <= Len(A) + 1 PROVE t[i] = Owed(A, s, Len(r) + i)
    <3>1. i + 1 \in 1..Len(a) /\ Len(g) + (i + 1) = Len(r) + i
      BY <1>2, <2>5
    <3>2. a[i + 1] = Owed(A, s, Len(g) + (i + 1))
      BY <2>7, <3>1 DEF Continues
    <3> QED BY <1>2, <3>1, <3>2
  <2>8. Len(r) + Len(t) = Len(g) + Len(a)
    BY <1>2, <2>5
  <2>9. Len(r) <= Len(A) /\ Len(r) + Len(t) + Len(b) > Len(A)
    BY <1>2, <1>4, <2>5, <2>8 DEF Continues
  <2>10. \A i \in 1..Len(b) : Len(r) + Len(t) + i <= Len(A) + 1
                                => b[i].msg = Owed(A, s, Len(r) + Len(t) + i)
    BY <2>8 DEF Continues
  <2>11. Continues(r, t, b, A, s)
    BY <2>6, <2>7, <2>9, <2>10 DEF Continues
  <2> QED BY <1>1, <2>1, <2>2, <2>4, <2>11
<1>5. CASE ~ (Len(g) + 1 <= Len(A))
  <2>1. m = <<"EOSE", s>> /\ Len(g) = Len(A)
    BY <1>2, <1>3, <1>5 DEF Owed
  <2>2. \A i \in 1..Len(g) : g[i] = A[i]
    BY DEF Continues
  <2>3. g = A
    BY <2>1, <2>2, SeqEqual
  <2> QED BY <1>1, <2>1, <2>3
<1> QED BY <1>4, <1>5

\* The answer when the relay has just given it.
LEMMA ContinuesAtFirst ==
  ASSUME NEW s \in Ids, NEW g, g = <<>>, NEW A \in Seq(Events), NEW b \in Seq(Parcels),
         Len(b) = Len(A) + 1, b[Len(A) + 1].msg = <<"EOSE", s>>,
         \A i \in 1..Len(A) : b[i].msg = <<"EVENT", s, A[i]>>
  PROVE  Continues(g, g, b, A, s)
<1>1. Len(g) = 0 /\ Len(A) \in Nat /\ Len(b) \in Nat
  OBVIOUS
<1>2. ASSUME NEW i \in 1..Len(b) PROVE b[i].msg = Owed(A, s, i)
  <2>1. i \in 1..Len(A) \/ i = Len(A) + 1
    BY <1>1
  <2>2. i \in 1..Len(A) => i <= Len(A)
    OBVIOUS
  <2>3. ~ (Len(A) + 1 <= Len(A))
    BY <1>1
  <2> QED BY <2>1, <2>2, <2>3 DEF Owed
<1>3. \A i \in 1..Len(b) : 0 + 0 + i = i
  BY <1>1
<1> QED BY <1>1, <1>2, <1>3 DEF Continues

----------------------------------------------------------------------------
\* Nothing was said of subscription s.
Silent(s) == /\ asked[s] = Unasked /\ s \notin Elements(subs)
             /\ \A q \in Elements(up) : q[2] # s
             /\ \A m \in Coming : m[2] # s

InUse == \A c \in Callers : Running(c) /\ call[c].kind = "request" => call[c].arg \in used

Untouched == \A s \in Ids \ used : Silent(s)

\* An id once used stays used.
LEMMA UsedGrows == [Next]_vars => used \subseteq used'
<1> SUFFICES ASSUME [Next]_vars PROVE used \subseteq used'
  OBVIOUS
<1>1. used' = used \/ \E c \in Callers : \E kind, arg, keep : Begin(c, kind, arg, keep)
  BY DEF Next, StartRequest, StartPublish, StartMessages, StartDiscover, RequestTakes,
         PublishTakes, MessagesTakes, Pop, TimesOut, DiscoverEnds, Deliver, ListArrives,
         RelayTakes, PeerPublishes, RendezvousTakes, Announced, Lose, Repeat, Postpone, Fault,
         Stranger, ghostVars, vars
<1> QED BY <1>1 DEF Begin

LEMMA InUseStep == ASSUME Types, InUse, [Next]_vars PROVE InUse'
<1>1. ASSUME NEW c \in Callers, Running(c)', call'[c].kind = "request" PROVE call'[c].arg \in used'
  <2>1. CASE Starts(c)
    <3>1. PICK kind \in Kinds, arg \in Args, keep \in BOOLEAN : Begin(c, kind, arg, keep)
      BY <2>1, StartsBegin
    <3>2. call'[c].arg = arg
      BY <3>1, BeginIs
    <3>3. used' = used \cup {arg}
      BY <3>1 DEF Begin
    <3> QED BY <3>2, <3>3
  <2>2. CASE ~ Starts(c)
    <3>1. GoesOn(c)
      BY <1>1, <2>2, CallsGoOn
    <3> QED BY <1>1, <3>1, UsedGrows DEF GoesOn, InUse
  <2> QED BY <2>1, <2>2
<1> QED BY <1>1 DEF InUse

\* What is added to the way up, and what takes from it.
LEMMA UpAdds ==
  ASSUME Base, InUse, [Next]_vars, ~ RelayTakes, ~ Lose, ~ Postpone
  PROVE  \/ up' = up
         \/ \E q \in Questions : /\ up' = Append(up, q) /\ q[2] \in used'
                                 /\ q[1] = "REQ" => \E x \in Callers : StartRequest(x)
<1>1. CASE \E c \in Callers : StartRequest(c)
  <2>1. PICK c \in Callers, s \in Ids, keep \in BOOLEAN :
          StartRequest(c) /\ Begin(c, "request", s, keep) /\ up' = Append(up, <<"REQ", s>>)
    BY <1>1 DEF StartRequest, Sent
  <2>2. s \in used'
    BY <2>1 DEF Begin
  <2>3. PICK q : q = <<"REQ", s>>
    OBVIOUS
  <2>4. q \in Questions /\ q[2] = s
    BY <2>3 DEF Questions
  <2> QED BY <2>1, <2>2, <2>3, <2>4
<1>2. CASE \E c \in Callers : StartPublish(c)
  <2>1. PICK c \in Callers, e \in Events :
          Begin(c, "publish", e, FALSE) /\ up' = Append(up, <<"EVENT", e>>)
    BY <1>2 DEF StartPublish, Sent
  <2>2. e \in used'
    BY <2>1 DEF Begin
  <2>3. PICK q : q = <<"EVENT", e>>
    OBVIOUS
  <2>4. q \in Questions /\ q[2] = e /\ q[1] # "REQ"
    BY <2>3 DEF Questions
  <2> QED BY <2>1, <2>2, <2>3, <2>4
<1>3. ASSUME NEW c \in Callers, Running(c), call[c].kind = "request", SendClose(c), used' = used
      PROVE  \/ up' = up
             \/ \E q \in Questions : /\ up' = Append(up, q) /\ q[2] \in used'
                                     /\ q[1] = "REQ" => \E x \in Callers : StartRequest(x)
  <2>1. call[c].arg \in used /\ call[c].arg \in Ids
    BY <1>3 DEF InUse, Base, ArgsFit
  <2>2. up' = up \/ up' = Append(up, <<"CLOSE", call[c].arg>>)
    BY <1>3 DEF SendClose, Sent
  <2>3. PICK q : q = <<"CLOSE", call[c].arg>>
    OBVIOUS
  <2>4. q \in Questions /\ q[2] = call[c].arg /\ q[1] # "REQ"
    BY <2>1, <2>3 DEF Questions
  <2> QED BY <1>3, <2>1, <2>2, <2>3, <2>4
<1>4. CASE \E c \in Callers : RequestTakes(c) \/ TimesOut(c)
  <2>1. PICK c \in Callers : RequestTakes(c) \/ TimesOut(c)
    BY <1>4
  <2>2. used' = used /\ Running(c)
    BY <2>1 DEF RequestTakes, TimesOut, Pop, ghostVars
  <2>3. up' = up \/ (call[c].kind = "request" /\ SendClose(c))
    BY <2>1 DEF RequestTakes, TimesOut, Pop
  <2> QED BY <1>3, <2>2, <2>3
<1>5. CASE \/ \E c \in Callers : StartMessages(c) \/ StartDiscover(c) \/ PublishTakes(c)
                                 \/ MessagesTakes(c) \/ DiscoverEnds(c)
           \/ Deliver \/ ListArrives \/ PeerPublishes \/ RendezvousTakes \/ Announced
           \/ Repeat \/ Stranger \/ UNCHANGED vars
  BY <1>5 DEF StartMessages, StartDiscover, PublishTakes, MessagesTakes, DiscoverEnds, Deliver,
              ListArrives, PeerPublishes, RendezvousTakes, Announced, Repeat, Stranger, callVars, vars
<1> QED BY <1>1, <1>2, <1>4, <1>5 DEF Next

\* Faults put no new question on the path.
LEMMA UpFaults ==
  ASSUME Types, Lose \/ Postpone
  PROVE  Elements(up') \subseteq Elements(up)
<1>1. up \in Seq(Questions)
  BY DEF Types
<1>2. Len(up) > 1 => up # <<>>
  BY <1>1
<1>3. \/ up' = up \/ (up # <<>> /\ up' = Tail(up))
      \/ (up # <<>> /\ up' = Append(Tail(up), Head(up)))
  BY <1>2 DEF Lose, Postpone
<1>4. CASE up # <<>>
  <2>1. PICK t, h : t = Tail(up) /\ h = Head(up)
    OBVIOUS
  <2>2. t \in Seq(Questions) /\ h \in Questions /\ Elements(up) = Elements(t) \cup {h}
    BY <1>1, <1>4, <2>1, TakingHead
  <2>3. Elements(Append(t, h)) = Elements(t) \cup {h}
    BY <2>2, Appending
  <2> QED BY <1>3, <2>1, <2>2, <2>3
<1> QED BY <1>3, <1>4

\* Without RelayTakes, all that is new of what is coming is about an open
\* subscription.
LEMMA ComingAdds ==
  ASSUME Types, Types', [Next]_vars, ~ RelayTakes
  PROVE  \A m \in Coming' : m \in Coming \/ m[2] \in Elements(subs)
<1>1. CASE Deliver
  BY <1>1, DeliverComing
<1>2. CASE PeerPublishes
  <2>1. PICK e \in Events :
          \E F : /\ \A m \in F : m[1] = "EVENT" /\ m[2] \in Elements(subs)
                 /\ Coming' = Coming \cup F
    BY <1>2, PeerComing
  <2> QED BY <2>1
<1>3. CASE Stranger
  BY <1>3, StrangerComing
<1>4. CASE Lose \/ Repeat \/ Postpone
  BY <1>4, FaultComing
<1>5. CASE \E x \in Callers : Takes(x)
  <2>1. PICK x \in Callers, kind \in {"request", "publish", "messages"} : Pop(x, kind)
    BY <1>5 DEF Takes, RequestTakes, PublishTakes, MessagesTakes
  <2> QED BY <2>1, PopComing
<1>6. CASE \/ \E x \in Callers : Starts(x) \/ TimesOut(x) \/ DiscoverEnds(x)
           \/ ListArrives \/ RendezvousTakes \/ Announced \/ UNCHANGED vars
  <2>1. inbox' = inbox /\ down' = down
    BY <1>6 DEF Starts, StartRequest, StartPublish, StartMessages, StartDiscover, Begin, TimesOut,
                DiscoverEnds, ListArrives, RendezvousTakes, Announced, callVars, vars
  <2> QED BY <2>1 DEF Coming
<1> QED BY <1>1, <1>2, <1>3, <1>4, <1>5, <1>6 DEF Next, Takes, Starts

\* Without RelayTakes the relay's answers and subscriptions stay.
LEMMA RelayRests ==
  [Next]_vars /\ ~ RelayTakes => asked' = asked /\ subs' = subs
BY DEF Next, StartRequest, StartPublish, StartMessages, StartDiscover, Begin, RequestTakes,
       PublishTakes, MessagesTakes, Pop, TimesOut, DiscoverEnds, Deliver, ListArrives,
       PeerPublishes, RendezvousTakes, Announced, Lose, Repeat, Postpone, Fault,
       Stranger, relayVars, ghostVars, vars

\* The relay takes another question, and s has no subscription yet.
LEMMA RelayOnOthers ==
  ASSUME Types, Types', RelayTakes, NEW s \in Ids, s \notin Elements(subs), Head(up) # <<"REQ", s>>
  PROVE  /\ asked'[s] = asked[s] /\ s \notin Elements(subs')
         /\ \A m \in Coming' : m \in Coming \/ m[2] # s
<1>1. PICK q : q = Head(up)
  OBVIOUS
<1>2. q \in Questions /\ subs \in Seq(Ids) /\ asked \in [Ids -> Seq(Events) \cup {Unasked}]
  BY <1>1, RelayTypes DEF Types
<1>3. CASE q[1] = "EVENT" /\ OnEvent(q[2])
  <2>1. q[2] \in Events
    BY <1>2, <1>3, QuestionForms
  <2>2. PICK e \in Events : OnEvent(e)
    BY <1>3, <2>1
  <2>3. e # s
    BY ClientAssumption
  <2>4. subs' = subs /\ asked' = asked
        /\ \A m \in Coming' : m \in Coming \/ m[2] \in Elements(subs) \/ m[2] = e
    BY <2>2, EventComing
  <2> QED BY <2>3, <2>4
<1>4. CASE q[1] = "REQ" /\ OnReq(q[2])
  <2>1. q[2] \in Ids /\ q = <<"REQ", q[2]>>
    BY <1>2, <1>4, QuestionForms
  <2>2. PICK r \in Ids : OnReq(r) /\ q = <<"REQ", r>>
    BY <1>4, <2>1
  <2>3. r # s
    BY <1>1, <2>2
  <2>4. \A m \in Coming' : m \in Coming \/ m[2] = r
    BY <2>2, ReqComing
  <2>5. subs' = subs \/ subs' = Append(subs, r)
    BY <2>2 DEF OnReq, relayVars
  <2>6. Elements(Append(subs, r)) = Elements(subs) \cup {r}
    BY <1>2, Appending
  <2>7. asked' = asked \/ \E v : asked' = [asked EXCEPT ![r] = v]
    BY <2>2 DEF OnReq
  <2>8. asked'[s] = asked[s]
    <3>1. CASE asked' = asked
      BY <3>1
    <3>2. ASSUME NEW v, asked' = [asked EXCEPT ![r] = v] PROVE asked'[s] = asked[s]
      BY <1>2, <2>3, <3>2
    <3> QED BY <2>7, <3>1, <3>2
  <2>9. s \notin Elements(subs')
    BY <2>3, <2>5, <2>6
  <2> QED BY <2>3, <2>4, <2>8, <2>9
<1>5. CASE q[1] = "CLOSE" /\ OnClose(q[2])
  <2>1. Coming' = Coming /\ asked' = asked
    BY <1>5 DEF RelayTakes, OnClose, Coming
  <2>2. Elements(subs') \subseteq Elements(subs)
    BY <1>2, <1>5, OnlyKeeps DEF OnClose
  <2> QED BY <2>1, <2>2
<1> QED BY <1>1, <1>3, <1>4, <1>5 DEF RelayTakes

LEMMA UntouchedStep ==
  ASSUME Base, Base', InUse, Untouched, [Next]_vars
  PROVE  Untouched'
<1>0. Types /\ Types' /\ up \in Seq(Questions) /\ up' \in Seq(Questions)
  BY DEF Base, Types
<1>1. ASSUME NEW s \in Ids, s \notin used' PROVE Silent(s)'
  <2>1. Silent(s) /\ s \notin used
    BY <1>1, UsedGrows DEF Untouched
  <2>2. CASE RelayTakes
    <3>1. up # <<>> /\ up' = Tail(up)
      BY <2>2 DEF RelayTakes
    <3>2. Elements(up) = Elements(up') \cup {Head(up)}
      BY <1>0, <3>1, TakingHead
    <3>3. Head(up) # <<"REQ", s>>
      BY <2>1, <3>2 DEF Silent
    <3> QED BY <1>0, <2>1, <2>2, <3>2, <3>3, RelayOnOthers DEF Silent
  <2>3. CASE ~ RelayTakes
    <3>1. asked' = asked /\ subs' = subs
      BY <2>3, RelayRests
    <3>2. \A m \in Coming' : m \in Coming \/ m[2] \in Elements(subs)
      BY <1>0, <2>3, ComingAdds
    <3>3. \A q \in Elements(up') : q[2] # s
      <4>1. CASE Lose \/ Postpone
        BY <1>0, <2>1, <4>1, UpFaults DEF Silent
      <4>2. CASE ~ Lose /\ ~ Postpone
        <5>1. CASE up' = up
          BY <2>1, <5>1 DEF Silent
        <5>2. ASSUME NEW q \in Questions, up' = Append(up, q), q[2] \in used'
              PROVE  \A p \in Elements(up') : p[2] # s
          <6>1. Elements(up') = Elements(up) \cup {q}
            BY <1>0, <5>2, Appending
          <6> QED BY <1>1, <2>1, <5>2, <6>1 DEF Silent
        <5> QED BY <2>3, <4>2, <5>1, <5>2, UpAdds
      <4> QED BY <4>1, <4>2
    <3> QED BY <2>1, <3>1, <3>2, <3>3 DEF Silent
  <2> QED BY <2>2, <2>3
<1> QED BY <1>1 DEF Untouched

\* What a first REQ was answered with is kept.
LEMMA AskedKeeps ==
  ASSUME Types, [Next]_vars, NEW s \in Ids, asked[s] # Unasked
  PROVE  asked'[s] = asked[s]
<1>1. asked' = asked \/ \E r : asked' = [asked EXCEPT ![r] = IF @ = Unasked THEN stored ELSE @]
  <2>1. CASE RelayTakes
    BY <2>1 DEF RelayTakes, OnEvent, OnReq, OnClose
  <2>2. CASE ~ RelayTakes
    BY <2>2, RelayRests
  <2> QED BY <2>1, <2>2
<1>2. ASSUME NEW r, asked' = [asked EXCEPT ![r] = IF @ = Unasked THEN stored ELSE @]
      PROVE  asked'[s] = asked[s]
  BY <1>2 DEF Types
<1> QED BY <1>1, <1>2

\* The way down grows at its end, and by nothing that is not delivered or lost.
LEMMA DownGrows ==
  ASSUME Types, Types', [Next]_vars, ~ Lose, ~ Repeat, ~ Postpone, ~ Deliver
  PROVE  \E x, y \in Seq(Parcels) : down' = down \o x \o y
<1>1. PICK z : z = <<>>
  OBVIOUS
<1>2. z \in Seq(Parcels) /\ down \in Seq(Parcels)
  BY <1>1, EmptySeq DEF Types
<1>3. ASSUME down' = down PROVE \E x, y \in Seq(Parcels) : down' = down \o x \o y
  <2>1. down \o z = down
    BY <1>1, <1>2
  <2>2. down' = down \o z \o z
    BY <1>3, <2>1
  <2> QED BY <1>2, <2>2
<1>4. ASSUME NEW d \in Parcels, down' = Append(down, d)
      PROVE  \E x, y \in Seq(Parcels) : down' = down \o x \o y
  <2>1. PICK x : x = <<d>>
    OBVIOUS
  <2>2. x \in Seq(Parcels) /\ down \o x = Append(down, d) /\ Append(down, d) \in Seq(Parcels)
    BY <1>2, <1>4, <2>1
  <2>3. Append(down, d) \o z = Append(down, d)
    BY <1>1, <2>2
  <2>4. down' = down \o x \o z
    BY <1>4, <2>2, <2>3
  <2> QED BY <1>2, <2>2, <2>4
<1>5. ASSUME NEW x \in Seq(Parcels), down' = down \o x
      PROVE  \E y, w \in Seq(Parcels) : down' = down \o y \o w
  <2>1. PICK p : p = down \o x
    OBVIOUS
  <2>2. p \in Seq(Parcels)
    BY <1>2, <2>1
  <2>3. p \o z = p
    BY <1>1, <2>2
  <2>4. down' = down \o x \o z
    BY <1>5, <2>1, <2>3
  <2> QED BY <1>2, <2>4
<1>6. CASE RelayTakes
  <2>1. PICK q : q = Head(up)
    OBVIOUS
  <2>2. q \in Questions
    BY <1>6, <2>1, RelayTypes
  <2>3. ASSUME NEW e \in Events, OnEvent(e) PROVE \E x, y \in Seq(Parcels) : down' = down \o x \o y
    <3>1. PICK a, b, f : /\ a = FromBridge(<<"OK", e, "ok">>) /\ b = FromBridge(<<"OK", e, "refused">>)
                         /\ f = FanOut(e)
      OBVIOUS
    <3>2. a \in Parcels /\ b \in Parcels
      BY <3>1, OkIsParcel
    <3>3. f \in Seq(Parcels)
      BY <3>1, FanOutIs
    <3>4. <<a>> \in Seq(Parcels)
      BY <3>2
    <3>5. down' = down \o <<a>> \o f \/ down' = Append(down, b)
      BY <2>3, <3>1 DEF OnEvent
    <3>6. CASE down' = down \o <<a>> \o f
      BY <3>3, <3>4, <3>6
    <3>7. CASE down' = Append(down, b)
      BY <1>4, <3>2, <3>7
    <3> QED BY <3>5, <3>6, <3>7
  <2>4. ASSUME NEW s \in Ids, OnReq(s) PROVE \E x, y \in Seq(Parcels) : down' = down \o x \o y
    <3>1. PICK a, b, f : /\ a = FromBridge(<<"EOSE", s>>) /\ b = FromBridge(<<"CLOSED", s>>)
                         /\ f = Burst(s)
      OBVIOUS
    <3>2. a \in Parcels /\ b \in Parcels
      BY <3>1, EoseIsParcel
    <3>3. f \in Seq(Parcels)
      BY <3>1, BurstIs
    <3>4. <<a>> \in Seq(Parcels)
      BY <3>2
    <3>5. down' = down \o f \o <<a>> \/ down' = Append(down, b)
      BY <2>4, <3>1 DEF OnReq, Burst
    <3>6. CASE down' = down \o f \o <<a>>
      BY <3>3, <3>4, <3>6
    <3>7. CASE down' = Append(down, b)
      BY <1>4, <3>2, <3>7
    <3> QED BY <3>5, <3>6, <3>7
  <2>5. CASE q[1] = "EVENT" /\ OnEvent(q[2])
    <3>1. q[2] \in Events
      BY <2>2, <2>5, QuestionForms
    <3> QED BY <2>3, <2>5, <3>1
  <2>6. CASE q[1] = "REQ" /\ OnReq(q[2])
    <3>1. q[2] \in Ids
      BY <2>2, <2>6, QuestionForms
    <3> QED BY <2>4, <2>6, <3>1
  <2>7. CASE q[1] = "CLOSE" /\ OnClose(q[2])
    BY <1>3, <2>7 DEF OnClose
  <2> QED BY <1>6, <2>1, <2>5, <2>6, <2>7 DEF RelayTakes
<1>7. CASE PeerPublishes
  <2>1. PICK e \in Events : down' = down \o FanOut(e)
    BY <1>7 DEF PeerPublishes
  <2>2. FanOut(e) \in Seq(Parcels)
    BY FanOutIs
  <2> QED BY <1>5, <2>1, <2>2
<1>8. CASE Stranger
  <2>1. PICK m \in {<<"EOSE", s>> : s \in Ids \cap used} \cup {<<"OK", e, "ok">> : e \in Events \cap used} :
          down' = Append(down, [by |-> "other", msg |-> m])
    BY <1>8 DEF Stranger
  <2>2. m \in Answers
    BY DEF Answers
  <2>3. [by |-> "other", msg |-> m] \in Parcels
    BY <2>2 DEF Parcels
  <2> QED BY <1>4, <2>1, <2>3
<1>9. CASE \/ \E x \in Callers : Starts(x) \/ TimesOut(x) \/ DiscoverEnds(x) \/ Takes(x)
           \/ ListArrives \/ RendezvousTakes \/ Announced \/ UNCHANGED vars
  <2>1. down' = down
    BY <1>9 DEF Starts, StartRequest, StartPublish, StartMessages, StartDiscover, Begin, TimesOut,
                DiscoverEnds, ListArrives, RendezvousTakes, Announced, callVars, vars, Takes,
                RequestTakes, PublishTakes, MessagesTakes, Pop
  <2> QED BY <1>3, <2>1
<1> QED BY <1>6, <1>7, <1>8, <1>9 DEF Next, Takes, Starts

----------------------------------------------------------------------------
Single(q, m) == \A i, j \in 1..Len(q) : q[i] = m /\ q[j] = m => i = j

\* The request for s waits to be answered with a list of events, if it has not
\* been refused.
Waits(s, g) ==
  /\ asked[s] = Unasked /\ g = <<>> /\ s \notin Elements(subs)
  /\ \A m \in Coming : m[2] = s => m[1] = "CLOSED"
  /\ <<"REQ", s>> \in Elements(up) => \A m \in Coming : m[2] # s
  /\ Single(up, <<"REQ", s>>)

\* It was answered, and g is what was returned of the answer so far.
Answered(s, g) ==
  /\ asked[s] \in Seq(Events)
  /\ Continues(g, Only(inbox, Mine(s)), Only(down, Parcelled(s)), asked[s], s)

Stage(s, g) == Waits(s, g) \/ Answered(s, g)

LEMMA UnaskedIs == \A A \in Seq(Events) : A # Unasked
<1> SUFFICES ASSUME Unasked \in Seq(Events) PROVE FALSE
  OBVIOUS
<1>1. PICK u : u = Unasked
  OBVIOUS
<1>2. u \in Seq(Events) /\ Len(u) = 1 /\ u[1] = "unasked"
  BY <1>1 DEF Unasked
<1>3. u[1] \in Events
  BY <1>2
<1> QED BY <1>2, <1>3, ClientAssumption

LEMMA SingleAppend ==
  ASSUME NEW S, NEW q \in Seq(S), NEW m, NEW x \in S, Single(q, m), x # m \/ m \notin Elements(q)
  PROVE  Single(Append(q, x), m)
<1>1. PICK r : r = Append(q, x)
  OBVIOUS
<1>2. Len(q) \in Nat /\ Len(r) = Len(q) + 1 /\ r[Len(q) + 1] = x /\ \A i \in 1..Len(q) : r[i] = q[i]
  BY <1>1
<1>3. \A i \in 1..Len(r) : i \in 1..Len(q) \/ i = Len(q) + 1
  BY <1>2
<1>4. m \notin Elements(q) => \A i \in 1..Len(q) : q[i] # m
  BY DEF Elements
<1>5. \A i, j \in 1..Len(r) : r[i] = m /\ r[j] = m => i = j
  BY <1>2, <1>3, <1>4 DEF Single
<1> QED BY <1>1, <1>5 DEF Single

LEMMA SingleTail ==
  ASSUME NEW S, NEW q \in Seq(S), q # <<>>, NEW m, Single(q, m)
  PROVE  Single(Tail(q), m) /\ (Head(q) = m => m \notin Elements(Tail(q)))
<1>1. PICK t : t = Tail(q)
  OBVIOUS
<1>2. /\ Len(q) \in Nat \ {0} /\ Len(t) = Len(q) - 1 /\ Head(q) = q[1]
      /\ \A i \in 1..Len(t) : t[i] = q[i + 1] /\ i + 1 \in 1..Len(q)
  BY <1>1
<1>3. ASSUME NEW i \in 1..Len(t), NEW j \in 1..Len(t), t[i] = m, t[j] = m PROVE i = j
  <2>1. /\ i + 1 \in 1..Len(q) /\ q[i + 1] = m
        /\ j + 1 \in 1..Len(q) /\ q[j + 1] = m
    BY <1>2, <1>3
  <2>2. PICK k, l : k = i + 1 /\ l = j + 1
    OBVIOUS
  <2>3. k = l
    BY <2>1, <2>2 DEF Single
  <2> QED BY <2>2, <2>3
<1>4. ASSUME Head(q) = m, NEW i \in 1..Len(t), t[i] = m PROVE FALSE
  <2>1. 1 \in 1..Len(q) /\ i + 1 \in 1..Len(q) /\ q[1] = m /\ q[i + 1] = m
    BY <1>2, <1>4
  <2>2. 1 = i + 1
    BY <2>1 DEF Single
  <2> QED BY <2>2
<1> QED BY <1>1, <1>3, <1>4 DEF Single, Elements

\* A request goes on waiting until the relay takes its question.
LEMMA WaitsOn ==
  ASSUME Base, Base', InUse, [Next]_vars, ~ faulty', NEW s \in Ids, NEW g, Waits(s, g),
         \A x \in Callers : ~ StartRequest(x), RelayTakes => Head(up) # <<"REQ", s>>
  PROVE  Waits(s, g)'
<1>0. Types /\ Types' /\ up \in Seq(Questions) /\ up' \in Seq(Questions)
  BY DEF Base, Types
<1>1. PICK r : r = <<"REQ", s>>
  OBVIOUS
<1>2. CASE RelayTakes
  <2>1. up # <<>> /\ up' = Tail(up)
    BY <1>2 DEF RelayTakes
  <2>2. Elements(up) = Elements(up') \cup {Head(up)} /\ Single(up', r)
    BY <1>0, <1>1, <2>1, TakingHead, SingleTail DEF Waits
  <2>3. /\ asked'[s] = asked[s] /\ s \notin Elements(subs')
        /\ \A m \in Coming' : m \in Coming \/ m[2] # s
    BY <1>0, <1>2, RelayOnOthers DEF Waits
  <2> QED BY <1>1, <2>2, <2>3 DEF Waits, Single
<1>3. CASE ~ RelayTakes
  <2>1. asked' = asked /\ subs' = subs
    BY <1>3, RelayRests
  <2>2. \A m \in Coming' : m \in Coming \/ m[2] # s
    BY <1>0, <1>3, ComingAdds DEF Waits
  <2>3. ~ Lose /\ ~ Postpone
    BY <1>0, Faithful
  <2>4. Single(up', r) /\ (r \in Elements(up') => r \in Elements(up))
    <3>1. CASE up' = up
      BY <1>1, <3>1 DEF Waits
    <3>2. ASSUME NEW q \in Questions, up' = Append(up, q), q[1] # "REQ"
          PROVE  Single(up', r) /\ (r \in Elements(up') => r \in Elements(up))
      <4>1. q # r
        BY <1>1, <3>2
      <4>2. Single(up', r)
        BY <1>0, <1>1, <3>2, <4>1, SingleAppend DEF Waits
      <4>3. Elements(up') = Elements(up) \cup {q}
        BY <1>0, <3>2, Appending
      <4> QED BY <4>1, <4>2, <4>3
    <3> QED BY <1>3, <2>3, <3>1, <3>2, UpAdds
  <2> QED BY <1>1, <2>1, <2>2, <2>4 DEF Waits, Single
<1> QED BY <1>2, <1>3

\* The relay takes the request: it is answered in full, or refused.
LEMMA WaitsNoMore ==
  ASSUME Types, Types', RelayTakes, NEW s \in Ids, NEW g, Waits(s, g), Head(up) = <<"REQ", s>>
  PROVE  Stage(s, g)'
<1>1. PICK r : r = <<"REQ", s>>
  OBVIOUS
<1>2. /\ up \in Seq(Questions) /\ up # <<>> /\ up' = Tail(up) /\ inbox' = inbox
      /\ inbox \in Seq(Answers) /\ down \in Seq(Parcels)
      /\ asked \in [Ids -> Seq(Events) \cup {Unasked}]
  BY DEF RelayTakes, Types
<1>3. Elements(up) = Elements(up') \cup {r} /\ Single(up', r) /\ r \notin Elements(up')
  BY <1>1, <1>2, TakingHead, SingleTail DEF Waits
<1>4. \A m \in Coming : m[2] # s
  BY <1>1, <1>3 DEF Waits
<1>5. OnReq(s)
  BY <1>1 DEF RelayTakes
<1>6. PICK a, b : a = FromBridge(<<"EOSE", s>>) /\ b = FromBridge(<<"CLOSED", s>>)
  OBVIOUS
<1>7. a \in Parcels /\ b \in Parcels
  BY <1>6, EoseIsParcel
<1>8. CASE /\ down' = down \o Burst(s) \o <<a>>
           /\ asked' = [asked EXCEPT ![s] = IF @ = Unasked THEN stored ELSE @]
  <2>1. stored \in Seq(Events) /\ asked'[s] = stored
    <3>1. stored \in Seq(Events \ Ephemeral) /\ Events \ Ephemeral \subseteq Events
      BY DEF Types
    <3>2. stored \in Seq(Events)
      BY <3>1, SeqGrows
    <3> QED BY <1>2, <1>8, <3>2 DEF Waits
  <2>2. PICK f : f = Burst(s)
    OBVIOUS
  <2>3. /\ f \in Seq(Parcels) /\ Len(f) = Len(stored)
        /\ \A i \in 1..Len(stored) : stored[i] \in Events /\ f[i] = FromBridge(<<"EVENT", s, stored[i]>>)
    BY <2>2, BurstIs
  <2>4. Only(inbox, Mine(s)) = <<>>
    <3>1. Elements(inbox) \cap Mine(s) = {}
      BY <1>4, ComingIs DEF Mine
    <3> QED BY <1>2, <3>1, OnlyNone
  <2>5. Only(down, Parcelled(s)) = <<>>
    <3>1. Elements(down) \cap Parcelled(s) = {}
      BY <1>4, ComingIs DEF Parcelled, Spoken
    <3> QED BY <1>2, <3>1, OnlyNone
  <2>6. Only(f, Parcelled(s)) = f
    <3>1. ASSUME NEW i \in 1..Len(f) PROVE f[i] \in Parcelled(s)
      <4>1. f[i] \in Parcels /\ f[i] = FromBridge(<<"EVENT", s, stored[i]>>)
        BY <2>3, <3>1
      <4> QED BY <4>1 DEF Parcelled, FromBridge
    <3>2. Elements(f) \subseteq Parcelled(s)
      BY <3>1 DEF Elements
    <3> QED BY <2>3, <3>2, OnlyAll
  <2>7. PICK p : p = down \o f
    OBVIOUS
  <2>8. p \in Seq(Parcels) /\ Only(p, Parcelled(s)) = f
    <3>1. Only(p, Parcelled(s)) = Only(down, Parcelled(s)) \o Only(f, Parcelled(s))
      BY <1>2, <2>3, <2>7, OnlyJoined
    <3>2. <<>> \o f = f
      BY <2>3
    <3> QED BY <1>2, <2>3, <2>5, <2>6, <2>7, <3>1, <3>2
  <2>9. down' = Append(p, a)
    BY <1>7, <1>8, <2>2, <2>7, <2>8
  <2>10. Only(down', Parcelled(s)) = Append(f, a)
    <3>1. a \in Parcelled(s)
      BY <1>6, <1>7 DEF Parcelled, FromBridge
    <3> QED BY <1>7, <2>8, <2>9, <3>1, OnlyAppend
  <2>11. PICK l : l = Append(f, a)
    OBVIOUS
  <2>12. /\ l \in Seq(Parcels) /\ Len(l) = Len(stored) + 1 /\ l[Len(stored) + 1] = a
         /\ \A i \in 1..Len(stored) : l[i] = f[i]
    BY <1>7, <2>3, <2>11
  <2>13. l[Len(stored) + 1].msg = <<"EOSE", s>>
    BY <1>6, <2>12 DEF FromBridge
  <2>14. ASSUME NEW i \in 1..Len(stored) PROVE l[i].msg = <<"EVENT", s, stored[i]>>
    <3>1. l[i] = FromBridge(<<"EVENT", s, stored[i]>>)
      BY <2>3, <2>12
    <3> QED BY <3>1 DEF FromBridge
  <2>15. Continues(g, g, l, stored, s)
    BY <2>1, <2>12, <2>13, <2>14, ContinuesAtFirst DEF Waits
  <2>16. PICK n, i : n = Only(down', Parcelled(s)) /\ i = Only(inbox', Mine(s))
    OBVIOUS
  <2>17. n = l /\ i = g
    BY <1>2, <2>4, <2>10, <2>11, <2>16 DEF Waits
  <2>18. Answered(s, g)'
    BY <2>1, <2>15, <2>16, <2>17 DEF Answered, Mine, Parcelled
  <2> QED BY <2>18 DEF Stage
<1>9. CASE down' = Append(down, b) /\ subs' = subs /\ asked' = asked
  <2>1. Spoken(down') = Spoken(down) \cup {<<"CLOSED", s>>}
    BY <1>2, <1>6, <1>7, <1>9, SpokenAppend DEF FromBridge
  <2>2. Coming' = Coming \cup {<<"CLOSED", s>>}
    BY <1>2, <2>1, ComingIs
  <2>3. Waits(s, g)'
    BY <1>1, <1>3, <1>4, <1>9, <2>2 DEF Waits, Single
  <2> QED BY <2>3 DEF Stage
<1> QED BY <1>5, <1>6, <1>8, <1>9 DEF OnReq, Burst, relayVars

\* What Only leaves of the queues is of their types.
LEMMA QueuesFit ==
  ASSUME Types, NEW s \in Ids
  PROVE  Only(inbox, Mine(s)) \in Seq(Answers) /\ Only(down, Parcelled(s)) \in Seq(Parcels)
<1>1. inbox \in Seq(Answers) /\ down \in Seq(Parcels)
  BY DEF Types
<1> QED BY <1>1, OnlyKeeps

\* The answer comes closer while nobody takes from the inbox.
LEMMA AnsweredOn ==
  ASSUME Types, Types', [Next]_vars, ~ faulty', NEW s \in Ids, NEW g \in Seq(Events), Answered(s, g),
         \A x \in Callers : ~ Takes(x)
  PROVE  Answered(s, g)'
<1>1. PICK a, b, A : a = Only(inbox, Mine(s)) /\ b = Only(down, Parcelled(s)) /\ A = asked[s]
  OBVIOUS
<1>2. a \in Seq(Answers) /\ b \in Seq(Parcels) /\ A \in Seq(Events) /\ Continues(g, a, b, A, s)
  BY <1>1, QueuesFit DEF Answered
<1>3. asked'[s] = A
  BY <1>1, <1>2, AskedKeeps, UnaskedIs
<1>4. inbox \in Seq(Answers) /\ down \in Seq(Parcels)
  BY DEF Types
<1>5. ASSUME NEW i, NEW n, i = Only(inbox', Mine(s)), n = Only(down', Parcelled(s)),
             Continues(g, i, n, A, s)
      PROVE  Answered(s, g)'
  BY <1>2, <1>3, <1>5 DEF Answered, Mine, Parcelled
<1>6. CASE Deliver
  <2>1. PICK d, t : d = Head(down) /\ t = Tail(down)
    OBVIOUS
  <2>2. down # <<>> /\ down' = t /\ inbox' = IF d.by = "bridge" THEN Append(inbox, d.msg) ELSE inbox
    BY <1>6, <2>1 DEF Deliver
  <2>3. d \in Parcels /\ d.msg \in Answers
    <3>1. d \in Parcels
      BY <1>4, <2>1, <2>2, TakingHead
    <3> QED BY <3>1 DEF Parcels
  <2>4. CASE d \in Parcelled(s)
    <3>1. b # <<>> /\ Head(b) = d /\ Only(t, Parcelled(s)) = Tail(b)
      BY <1>1, <1>4, <2>1, <2>2, <2>4, OnlyTail
    <3>2. inbox' = Append(inbox, d.msg) /\ d.msg \in Mine(s)
      BY <2>2, <2>3, <2>4 DEF Parcelled, Mine
    <3>3. Only(inbox', Mine(s)) = Append(a, d.msg)
      BY <1>1, <1>4, <2>3, <3>2, OnlyAppend
    <3>4. Continues(g, Append(a, d.msg), Tail(b), A, s)
      BY <1>2, <3>1, ContinuesDelivered
    <3> QED BY <1>5, <2>2, <3>1, <3>3, <3>4
  <2>5. CASE d \notin Parcelled(s)
    <3>1. Only(t, Parcelled(s)) = b
      BY <1>1, <1>4, <2>1, <2>2, <2>5, OnlyTail
    <3>2. Only(inbox', Mine(s)) = a
      <4>1. CASE d.by = "bridge"
        <5>1. inbox' = Append(inbox, d.msg) /\ d.msg \notin Mine(s)
          BY <2>2, <2>3, <2>5, <4>1 DEF Parcelled, Mine
        <5> QED BY <1>1, <1>4, <2>3, <5>1, OnlyAppend
      <4>2. CASE d.by # "bridge"
        BY <1>1, <2>2, <4>2
      <4> QED BY <4>1, <4>2
    <3> QED BY <1>2, <1>5, <2>2, <3>1, <3>2
  <2> QED BY <2>4, <2>5
<1>7. CASE ~ Deliver
  <2>1. PICK x, y \in Seq(Parcels) : down' = down \o x \o y
    BY <1>7, Faithful, DownGrows
  <2>2. inbox' = inbox
    BY <1>7, Faithful DEF Next, Takes, StartRequest, StartPublish, StartMessages, StartDiscover, Begin,
       TimesOut, DiscoverEnds, ListArrives, RelayTakes, PeerPublishes, RendezvousTakes, Announced,
       Stranger, Fault, callVars, vars
  <2>3. PICK p, q, r : p = down \o x /\ q = Only(x, Parcelled(s)) /\ r = Only(y, Parcelled(s))
    OBVIOUS
  <2>4. p \in Seq(Parcels) /\ q \in Seq(Parcels) /\ r \in Seq(Parcels) /\ down' = p \o y
    <3>1. q \in Seq(Parcels) /\ r \in Seq(Parcels)
      BY <2>3, OnlyKeeps
    <3> QED BY <1>4, <2>1, <2>3, <3>1
  <2>5. Only(p, Parcelled(s)) = b \o q
    BY <1>1, <1>4, <2>3, OnlyJoined
  <2>6. Only(down', Parcelled(s)) = b \o q \o r
    <3>1. PICK S, w, z : S = Parcelled(s) /\ w = p \o y /\ z = Only(p, S)
      OBVIOUS
    <3>2. Only(p \o y, S) = Only(p, S) \o Only(y, S)
      BY <2>1, <2>4, OnlyJoined
    <3>3. z = b \o q /\ Only(y, S) = r
      BY <2>3, <2>5, <3>1
    <3>4. Only(w, S) = z \o r
      BY <3>1, <3>2, <3>3
    <3> QED BY <2>4, <3>1, <3>3, <3>4
  <2>7. b \o q \in Seq(Parcels) /\ Continues(g, a, b \o q, A, s)
    BY <1>2, <2>4, ContinuesLater
  <2>8. Continues(g, a, b \o q \o r, A, s)
    BY <1>2, <2>4, <2>7, ContinuesLater
  <2> QED BY <1>1, <1>5, <2>2, <2>6, <2>8
<1> QED BY <1>6, <1>7

\* The call takes a message itself: the list goes on, or is complete.
LEMMA OwnTaking ==
  ASSUME Base, Base', InUse, [Next]_vars, ~ faulty', NEW c \in Callers, RequestTakes(c),
         NEW s \in Ids, NEW g \in Seq(Events), s = call[c].arg, g = call[c].got, Stage(s, g)
  PROVE  /\ Ends(c, "eose") => asked[s] \in Seq(Events) /\ g = asked[s]
         /\ Running(c)' => Stage(s, call[c].got)'
<1>0. Types /\ Types'
  BY DEF Base
<1>1. PICK m, p : m = Head(inbox) /\ p = Tail(inbox)
  OBVIOUS
<1>2. /\ Pop(c, "request") /\ inbox # <<>> /\ inbox' = p /\ inbox \in Seq(Answers) /\ m \in Answers
      /\ down' = down /\ m \in Coming /\ call[c] \in Calls /\ Running(c)
  BY <1>0, <1>1, PopIs, PopComing DEF RequestTakes, Pop, Types
<1>3. /\ \/ m[2] = s /\ m[1] = "EVENT" /\ call' = [call EXCEPT ![c].got = Append(@, m[3])]
         \/ m[2] = s /\ m[1] = "EOSE" /\ Ends(c, "eose")
         \/ m[2] = s /\ m[1] = "CLOSED" /\ Ends(c, "closed")
         \/ m[2] # s /\ call' = call
  BY <1>1 DEF RequestTakes
<1>4. \A how \in Hows : Ends(c, how) => call'[c].how = how
  BY <1>0, EndsIs
<1>5. Running(c)' => ~ Ends(c, "eose") /\ ~ Ends(c, "closed")
  <2>1. {"eose", "closed"} \subseteq Hows
    BY DEF Hows
  <2> QED BY <1>4, <2>1 DEF Running
<1>6. Ends(c, "eose") => m[2] = s /\ m[1] = "EOSE"
  <2>1. "eose" \in Hows /\ "closed" \in Hows
    BY DEF Hows
  <2>2. Ends(c, "eose") => call'[c].how = "eose"
    BY <1>4, <2>1
  <2>3. Ends(c, "closed") => call'[c].how = "closed"
    BY <1>4, <2>1
  <2>4. call' = call => call'[c].how = "running"
    BY <1>2 DEF Running
  <2>5. call' = [call EXCEPT ![c].got = Append(@, m[3])] => call'[c].how = "running"
    <3>1. ASSUME NEW q, call' = [call EXCEPT ![c].got = q] PROVE call'[c].how = "running"
      BY <1>0, <1>2, <3>1 DEF Types, Calls, Running
    <3> QED BY <3>1
  <2> QED BY <1>3, <2>2, <2>3, <2>4, <2>5
<1>7. ASSUME m[2] = s, m[1] = "EVENT", call' = [call EXCEPT ![c].got = Append(@, m[3])]
      PROVE  call'[c].got = Append(g, m[3]) /\ m[3] \in Events
  <2>1. m[3] \in Events
    BY <1>2, <1>7, AnswerForms
  <2>2. PICK q : q = Append(g, m[3])
    OBVIOUS
  <2>3. call' = [call EXCEPT ![c].got = q]
    BY <1>7, <2>2
  <2>4. call'[c].got = q
    BY <1>0, <1>2, <2>3 DEF Types, Calls
  <2> QED BY <2>1, <2>2, <2>4
<1>8. \A x \in Callers : ~ StartRequest(x)
  <2>1. inbox' # inbox
    BY <1>1, <1>2
  <2> QED BY <2>1 DEF StartRequest, Begin
<1>9. CASE Waits(s, g)
  <2>1. m[2] = s => m[1] = "CLOSED"
    BY <1>2, <1>9 DEF Waits
  <2>2. Running(c)' => call' = call
    BY <1>3, <1>5, <2>1
  <2>3. ~ RelayTakes
    BY <1>1, <1>2 DEF RelayTakes
  <2>4. Waits(s, g)'
    BY <1>8, <1>9, <2>3, WaitsOn
  <2>5. ASSUME Running(c)' PROVE Stage(s, call[c].got)'
    <3>1. call'[c].got = g
      BY <2>2, <2>5
    <3> QED BY <2>4, <3>1 DEF Stage, Waits
  <2>6. ~ Ends(c, "eose")
    BY <1>6, <2>1
  <2> QED BY <2>5, <2>6
<1>10. CASE Answered(s, g)
  <2>1. PICK a, b, A : a = Only(inbox, Mine(s)) /\ b = Only(down, Parcelled(s)) /\ A = asked[s]
    OBVIOUS
  <2>2. a \in Seq(Answers) /\ b \in Seq(Parcels) /\ A \in Seq(Events) /\ Continues(g, a, b, A, s)
    BY <1>0, <1>10, <2>1, QueuesFit DEF Answered
  <2>3. asked'[s] = A
    BY <1>0, <2>1, <2>2, AskedKeeps, UnaskedIs
  <2>4. m[2] = s => a # <<>> /\ Head(a) = m /\ Only(p, Mine(s)) = Tail(a)
    <3>1. PICK S : S = Mine(s)
      OBVIOUS
    <3>2. Head(inbox) \in S => /\ Only(inbox, S) # <<>>
                              /\ Head(Only(inbox, S)) = Head(inbox)
                              /\ Only(Tail(inbox), S) = Tail(Only(inbox, S))
      BY <1>1, <1>2, OnlyTail
    <3>3. m[2] = s => m \in Mine(s)
      BY <1>2 DEF Mine
    <3>4. a = Only(inbox, S)
      BY <2>1, <3>1
    <3> QED BY <1>1, <3>1, <3>2, <3>3, <3>4
  <2>5. m[2] # s => Only(p, Mine(s)) = a
    <3>1. m[2] # s => m \notin Mine(s)
      BY DEF Mine
    <3> QED BY <1>1, <1>2, <2>1, <3>1, OnlyTail
  <2>6. Ends(c, "eose") => asked[s] \in Seq(Events) /\ g = asked[s]
    BY <1>6, <2>1, <2>2, <2>4, ContinuesTaken
  <2>7. ASSUME NEW n, n = call'[c].got, NEW i, i = Only(p, Mine(s)), Continues(n, i, b, A, s)
        PROVE  Stage(s, call[c].got)'
    <3>1. Only(inbox', Mine(s)) = i /\ Only(down', Parcelled(s)) = b
      BY <1>2, <2>1, <2>7
    <3>2. Answered(s, n)'
      BY <2>2, <2>3, <2>7, <3>1 DEF Answered, Mine, Parcelled
    <3> QED BY <2>7, <3>2 DEF Stage, Answered
  <2>8. ASSUME Running(c)' PROVE Stage(s, call[c].got)'
    <3>1. CASE m[2] = s /\ m[1] = "EVENT" /\ call' = [call EXCEPT ![c].got = Append(@, m[3])]
      <4>1. Continues(Append(g, m[3]), Tail(a), b, A, s)
        BY <2>2, <2>4, <3>1, ContinuesTaken
      <4> QED BY <1>7, <2>4, <2>7, <3>1, <4>1
    <3>2. CASE m[2] # s /\ call' = call
      BY <2>2, <2>5, <2>7, <3>2
    <3> QED BY <1>3, <1>5, <2>8, <3>1, <3>2
  <2> QED BY <2>6, <2>8
<1> QED BY <1>9, <1>10 DEF Stage

Lone(c) == call[c].fresh /\ call[c].lone /\ ~ faulty

Exact(c) == Running(c) /\ call[c].kind = "request" /\ Lone(c) => Stage(call[c].arg, call[c].got)

Complete(c) == call[c].how = "eose" /\ Lone(c) =>
                 /\ call[c].arg \in Ids /\ asked[call[c].arg] \in Seq(Events)
                 /\ call[c].got = asked[call[c].arg]

\* Exact is kept: a request that is alone is at the stage it was, or at the next.
LEMMA ExactStep ==
  ASSUME Base, Base', InUse, Untouched, Alone, [Next]_vars, NEW c \in Callers, Exact(c)
  PROVE  Exact(c)'
<1> SUFFICES ASSUME Running(c)', call'[c].kind = "request", call'[c].fresh, call'[c].lone, ~ faulty'
             PROVE  Stage(call[c].arg, call[c].got)'
  BY DEF Exact, Lone
<1>0. Types /\ Types'
  BY DEF Base
<1>1. CASE Starts(c)
  <2>1. PICK kind \in Kinds, arg \in Args, keep \in BOOLEAN : Begin(c, kind, arg, keep)
    BY <1>0, <1>1, StartsBegin
  <2>2. call'[c].kind = kind
    BY <1>0, <2>1, BeginIs
  <2>3. CASE StartRequest(c)
    <3>1. PICK s \in Ids, k \in BOOLEAN : Begin(c, "request", s, k) /\ up' = Append(up, <<"REQ", s>>)
      BY <2>3 DEF StartRequest, Sent
    <3>2. PICK r \in Kinds, b \in Args : r = "request" /\ b = s /\ Begin(c, r, b, k)
      BY <3>1 DEF Kinds, Args
    <3>3. call'[c].arg = s /\ call'[c].got = <<>> /\ s \notin used
      BY <1>0, <3>2, BeginIs
    <3>4. Silent(s)
      BY <3>3 DEF Untouched
    <3>5. asked' = asked /\ subs' = subs /\ Coming' = Coming
      BY <3>1 DEF Begin, relayVars, Coming
    <3>6. PICK q : q = <<"REQ", s>>
      OBVIOUS
    <3>7. q \in Questions /\ q[2] = s /\ up \in Seq(Questions)
      BY <1>0, <3>6 DEF Questions, Types
    <3>8. q \notin Elements(up) /\ \A i \in 1..Len(up) : up[i] # q
      BY <3>4, <3>7 DEF Silent, Elements
    <3>9. Single(up, q)
      BY <3>8 DEF Single
    <3>10. Single(Append(up, q), q)
      BY <3>7, <3>8, <3>9, SingleAppend
    <3>11. PICK g : g = <<>>
      OBVIOUS
    <3>12. Waits(s, g)'
      BY <3>1, <3>4, <3>5, <3>6, <3>10, <3>11 DEF Waits, Silent, Single
    <3> QED BY <3>3, <3>11, <3>12 DEF Stage, Waits
  <2>4. CASE StartPublish(c) \/ StartMessages(c) \/ StartDiscover(c)
    <3>1. PICK r \in {"publish", "messages", "discover"}, b \in Args, k \in BOOLEAN : Begin(c, r, b, k)
      BY <2>4 DEF StartPublish, StartMessages, StartDiscover, Args
    <3>2. r \in Kinds
      BY DEF Kinds
    <3>3. call'[c].kind = r
      BY <1>0, <3>1, <3>2, BeginIs
    <3> QED BY <3>3
  <2> QED BY <1>1, <2>3, <2>4 DEF Starts
<1>2. CASE ~ Starts(c)
  <2>1. GoesOn(c) /\ (call'[c].got = call[c].got \/ RequestTakes(c))
    BY <1>0, <1>2, CallsGoOn
  <2>2. /\ Running(c) /\ call[c].kind = "request" /\ call[c].lone /\ call[c].fresh /\ ~ faulty
        /\ call'[c].arg = call[c].arg
    BY <1>0, <2>1, Faithful DEF GoesOn
  <2>3. PICK s, g : s = call[c].arg /\ g = call[c].got
    OBVIOUS
  <2>4. s \in Ids /\ g \in Seq(Events) /\ Stage(s, g)
    <3>1. call[c] \in Calls
      BY <1>0 DEF Types
    <3> QED BY <2>2, <2>3, <3>1 DEF Exact, Lone, Base, ArgsFit, Calls
  <2>5. \A x \in Callers : Takes(x) => RequestTakes(c)
    <3>1. ASSUME NEW x \in Callers, Takes(x) PROVE RequestTakes(c)
      <4>1. PICK kind \in {"request", "publish", "messages"} : Pop(x, kind)
        BY <3>1 DEF Takes, RequestTakes, PublishTakes, MessagesTakes
      <4>2. x = c
        BY <2>2, <4>1 DEF Alone, Shares, Pop
      <4> QED BY <2>2, <3>1, <4>2 DEF Takes, PublishTakes, MessagesTakes, Pop
    <3> QED BY <3>1
  <2>6. CASE RequestTakes(c)
    <3>1. Stage(s, call[c].got)'
      BY <2>3, <2>4, <2>6, OwnTaking
    <3> QED BY <2>2, <2>3, <3>1 DEF Stage, Waits, Answered
  <2>7. CASE ~ RequestTakes(c)
    <3>1. call'[c].got = g
      BY <2>1, <2>3, <2>7
    <3>2. \A x \in Callers : ~ StartRequest(x)
      <4>1. ASSUME NEW x \in Callers, StartRequest(x) PROVE FALSE
        <5>1. PICK kind \in Kinds, arg \in Args, keep \in BOOLEAN :
                kind = "request" /\ Begin(x, kind, arg, keep)
          BY <4>1 DEF StartRequest, Kinds, Args
        <5>2. c # x
          BY <1>2, <4>1 DEF Starts
        <5>3. call'[c].lone <=> call[c].lone /\ ~ Shares(c, kind)
          BY <1>0, <5>1, <5>2, BeginIs
        <5> QED BY <2>2, <5>1, <5>3 DEF Shares
      <4> QED BY <4>1
    <3>3. Stage(s, g)'
      <4>1. CASE Waits(s, g) /\ RelayTakes /\ Head(up) = <<"REQ", s>>
        BY <1>0, <2>4, <4>1, WaitsNoMore
      <4>2. CASE Waits(s, g) /\ ~ (RelayTakes /\ Head(up) = <<"REQ", s>>)
        <5>1. Waits(s, g)'
          BY <2>4, <3>2, <4>2, WaitsOn
        <5> QED BY <5>1 DEF Stage
      <4>3. CASE Answered(s, g)
        <5>1. Answered(s, g)'
          BY <1>0, <2>4, <2>5, <2>7, <4>3, AnsweredOn
        <5> QED BY <5>1 DEF Stage
      <4> QED BY <2>4, <4>1, <4>2, <4>3 DEF Stage
    <3> QED BY <2>2, <2>3, <3>1, <3>3 DEF Stage, Waits, Answered
  <2> QED BY <2>6, <2>7
<1> QED BY <1>1, <1>2

\* A call that has returned stays as it is until its caller calls again.
LEMMA EndedStays ==
  ASSUME Types, [Next]_vars, NEW c \in Callers, call'[c].how = "eose"
  PROVE  \/ /\ call[c].how = "eose" /\ call'[c].arg = call[c].arg /\ call'[c].got = call[c].got
            /\ call'[c].fresh = call[c].fresh /\ (call'[c].lone => call[c].lone)
         \/ RequestTakes(c) /\ Ends(c, "eose")
<1>1. CASE \E x \in Callers : Starts(x)
  <2>1. PICK x \in Callers : Starts(x)
    BY <1>1
  <2>2. PICK kind \in Kinds, arg \in Args, keep \in BOOLEAN : Begin(x, kind, arg, keep)
    BY <2>1, StartsBegin
  <2>3. c # x
    BY <2>2, BeginIs
  <2> QED BY <2>2, <2>3, BeginIs
<1>2. ASSUME NEW x \in Callers, NEW how \in Hows \ {"eose"}, Ends(x, how)
      PROVE  call'[c] = call[c]
  <2>1. call'[x].how = how /\ \A d \in Callers \ {x} : call'[d] = call[d]
    BY <1>2, EndsIs
  <2> QED BY <1>2, <2>1
<1>3. {"closed", "ok", "refused", "timeout", "list"} \subseteq Hows \ {"eose"} /\ "eose" \in Hows
  BY DEF Hows
<1>4. ASSUME NEW x \in Callers, RequestTakes(x)
      PROVE  \/ /\ call[c].how = "eose" /\ call'[c].arg = call[c].arg /\ call'[c].got = call[c].got
                /\ call'[c].fresh = call[c].fresh /\ (call'[c].lone => call[c].lone)
             \/ RequestTakes(c) /\ Ends(c, "eose")
  <2>1. CASE \E e : call' = [call EXCEPT ![x].got = Append(@, e)]
    <3>1. PICK q : call' = [call EXCEPT ![x].got = q]
      BY <2>1
    <3>2. call'[x].how = "running" /\ \A d \in Callers \ {x} : call'[d] = call[d]
      BY <1>4, <3>1 DEF Types, Calls, RequestTakes, Pop, Running
    <3> QED BY <3>2
  <2>2. CASE Ends(x, "eose")
    <3>1. \A d \in Callers \ {x} : call'[d] = call[d]
      BY <1>3, <2>2, EndsIs
    <3> QED BY <1>4, <2>2, <3>1
  <2> QED BY <1>2, <1>3, <1>4, <2>1, <2>2 DEF RequestTakes
<1>5. ASSUME NEW x \in Callers, PublishTakes(x) PROVE call'[c] = call[c]
  <2>1. Head(inbox)[1] = "OK" => Head(inbox)[3] \in {"ok", "refused"}
    <3>1. Head(inbox) \in Answers
      BY <1>5, PopIs DEF PublishTakes
    <3> QED BY <3>1, AnswerForms
  <2> QED BY <1>2, <1>3, <1>5, <2>1 DEF PublishTakes
<1>6. CASE \E x \in Callers : TimesOut(x) \/ DiscoverEnds(x)
  BY <1>2, <1>3, <1>6 DEF TimesOut, DiscoverEnds
<1>7. CASE ListArrives
  BY <1>7, ListIs
<1>8. CASE \/ \E x \in Callers : MessagesTakes(x)
           \/ Deliver \/ RelayTakes \/ PeerPublishes \/ RendezvousTakes \/ Announced
           \/ Lose \/ Repeat \/ Postpone \/ Stranger \/ UNCHANGED vars
  <2>1. call' = call
    BY <1>8 DEF MessagesTakes, Pop, Deliver, RelayTakes, PeerPublishes, RendezvousTakes, Announced,
                Lose, Repeat, Postpone, Stranger, Fault, vars, callVars
  <2> QED BY <2>1
<1> QED BY <1>1, <1>4, <1>5, <1>6, <1>7, <1>8 DEF Next, Starts

\* A request that ends with EOSE has the whole answer.
LEMMA CompleteStep ==
  ASSUME Base, Base', InUse, [Next]_vars, NEW c \in Callers, Exact(c), Complete(c)
  PROVE  Complete(c)'
<1> SUFFICES ASSUME call'[c].how = "eose", call'[c].fresh, call'[c].lone, ~ faulty'
             PROVE  /\ call'[c].arg \in Ids /\ asked'[call'[c].arg] \in Seq(Events)
                    /\ call'[c].got = asked'[call'[c].arg]
  BY DEF Complete, Lone
<1>0. Types /\ Types' /\ ~ faulty
  BY Faithful DEF Base
<1>1. CASE /\ call[c].how = "eose" /\ call'[c].arg = call[c].arg /\ call'[c].got = call[c].got
           /\ call'[c].fresh = call[c].fresh /\ (call'[c].lone => call[c].lone)
  <2>1. PICK s : s = call[c].arg
    OBVIOUS
  <2>2. s \in Ids /\ asked[s] \in Seq(Events) /\ call[c].got = asked[s]
    BY <1>0, <1>1, <2>1 DEF Complete, Lone
  <2>3. asked'[s] = asked[s]
    BY <1>0, <2>2, UnaskedIs, AskedKeeps
  <2> QED BY <1>1, <2>1, <2>2, <2>3
<1>2. CASE RequestTakes(c) /\ Ends(c, "eose")
  <2>1. Running(c) /\ call[c].kind = "request" /\ call[c] \in Calls
    BY <1>0, <1>2 DEF RequestTakes, Pop, Types
  <2>2. /\ call'[c].arg = call[c].arg /\ call'[c].got = call[c].got
        /\ call'[c].fresh = call[c].fresh /\ call'[c].lone = call[c].lone
    <3>1. "eose" \in Hows
      BY DEF Hows
    <3> QED BY <1>0, <1>2, <3>1, EndsIs
  <2>3. PICK s, g : s = call[c].arg /\ g = call[c].got
    OBVIOUS
  <2>4. s \in Ids /\ g \in Seq(Events) /\ Stage(s, g)
    BY <1>0, <2>1, <2>2, <2>3 DEF Exact, Lone, Base, ArgsFit, Calls
  <2>5. asked[s] \in Seq(Events) /\ g = asked[s]
    BY <1>2, <2>3, <2>4, OwnTaking
  <2>6. asked'[s] = asked[s]
    BY <1>0, <2>4, <2>5, UnaskedIs, AskedKeeps
  <2> QED BY <2>2, <2>3, <2>4, <2>5, <2>6
<1> QED BY <1>0, <1>1, <1>2, EndedStays

\* A request that ended with EOSE returned exactly the relay's events of the
\* moment it was taken, in their order, if its id was never used before, no
\* other call read the inbox meanwhile and the path was faithful.
THEOREM RequestExactCorrect == Spec => []RequestExact
<1> DEFINE Inv == InUse /\ Untouched /\ Alone /\ \A c \in Callers : Exact(c) /\ Complete(c)
<1>1. Init => Inv
  <2> SUFFICES ASSUME Init PROVE Inv
    OBVIOUS
  <2>1. /\ inbox = <<>> /\ down = <<>> /\ up = <<>> /\ subs = <<>> /\ asked = [s \in Ids |-> Unasked]
        /\ \A c \in Callers : call[c].how = "none"
    BY DEF Init, NoCall
  <2>2. Len(<<>>) = 0 /\ Range(<<>>) = {}
    BY DEF Range
  <2>3. Coming = {} /\ Elements(up) = {} /\ Elements(subs) = {}
    BY <2>1, <2>2 DEF Coming, Elements
  <2>4. Untouched
    BY <2>1, <2>3 DEF Untouched, Silent
  <2> QED BY <2>1, <2>4 DEF InUse, Alone, Exact, Complete, Running
<1>2. Base /\ Base' /\ Inv /\ [Next]_vars => Inv'
  <2> SUFFICES ASSUME Base, Base', Inv, [Next]_vars PROVE Inv'
    OBVIOUS
  <2>1. InUse' /\ Untouched' /\ Alone'
    BY InUseStep, UntouchedStep, AloneStep DEF Base
  <2>2. \A c \in Callers : Exact(c)' /\ Complete(c)'
    BY ExactStep, CompleteStep
  <2> QED BY <2>1, <2>2
<1>3. Inv => RequestExact
  BY DEF RequestExact, Complete, Lone
<1> HIDE DEF Inv
<1> QED BY <1>1, <1>2, <1>3, BaseInit, BaseStep, PTL DEF Spec
=============================================================================
