------------------------- MODULE RelayDeliveryProofs -------------------------
(***************************************************************************)
(* What a connection promises, for any queue size, any number of messages  *)
(* and of connections.  A message is in one place only: the queue and what *)
(* the writer holds never have one in common, and while the writer lives   *)
(* neither has one that was written already, unless it is being finished.  *)
(* Only a writer that died puts back a message it may have written, and    *)
(* nothing is written after that until the next connection.                *)
(***************************************************************************)
EXTENDS RelayDelivery, QueueLemmas

Types == /\ queue \in Seq(Nat) /\ Len(queue) <= QueueSize
         /\ held \in Nat \cup {None}
         /\ written \in Seq(Nat)
         /\ accepted \in Nat
         /\ conn \in {"down", "up", "broken", "stopped"}
         /\ writer \in {"none", "idle", "taken", "written", "dead"}

\* Every number in sight has been given to send.
Accepted == /\ \A m \in Elements(queue) \cup Elements(written) : m <= accepted
            /\ held # None => held <= accepted

Holding == /\ held # None <=> writer \in {"taken", "written"}
           /\ conn \in {"down", "stopped"} <=> writer = "none"

OnePlace == /\ Distinct(queue) /\ held \notin Elements(queue)
            /\ Distinct(written)
            /\ writer \in {"idle", "taken", "written"} =>
                 Elements(queue) \cap Elements(written) = {}
            /\ writer = "taken" => held \notin Elements(written)
            /\ writer = "written" => held \in ever

Inv == Types /\ Accepted /\ Holding /\ OnePlace

----------------------------------------------------------------------------
\* What a send leaves in the queue.
LEMMA PutAllShape ==
  ASSUME NEW S, NEW q \in Seq(S), NEW m \in S, Len(q) <= QueueSize
  PROVE  /\ q = <<>> => Len(q) < QueueSize
         /\ PutAll(q, <<m>>) = IF Len(q) < QueueSize THEN Append(q, m) ELSE Append(Tail(q), m)
<1>1. QueueSize \in Nat \ {0} /\ PutAll(q, <<m>>) = LastOf(q \o <<m>>, QueueSize)
  BY LinkAssumption DEF PutAll, LastOf
<1> QED BY <1>1, Putting

LEMMA PutAllOne ==
  ASSUME NEW S, NEW q \in Seq(S), NEW m \in S, Len(q) <= QueueSize,
         NEW r, r = PutAll(q, <<m>>)
  PROVE  /\ r \in Seq(S) /\ Len(r) <= QueueSize
         /\ Elements(r) \subseteq Elements(q) \cup {m}
         /\ Len(q) < QueueSize => Elements(r) = Elements(q) \cup {m}
         /\ Distinct(q) /\ m \notin Elements(q) => Distinct(r)
<1>1. QueueSize \in Nat \ {0}
  BY LinkAssumption
<1>2. r = LastOf(q \o <<m>>, QueueSize)
  BY DEF PutAll, LastOf
<1>3. IsPut(LastOf(q \o <<m>>, QueueSize), q, m, QueueSize, S)
  BY <1>1, PuttingOne, Zenon
<1> QED BY <1>2, <1>3 DEF IsPut

\* What a reconnect leaves in the queue: everything but the messages dropped,
\* in the order it had.
LEMMA Dropping ==
  ASSUME NEW S, NEW q \in Seq(S), NEW Drop, NEW r, DropPending(q, Drop, r)
  PROVE  /\ r \in Seq(S) /\ Len(r) <= Len(q)
         /\ Elements(r) = Elements(q) \ Drop
         /\ Distinct(q) => Distinct(r)
         /\ \E f \in [1..Len(r) -> 1..Len(q)] :
              /\ \A i, j \in 1..Len(r) : i < j => f[i] < f[j]
              /\ \A i \in 1..Len(r) : r[i] = q[f[i]]
<1> DEFINE kept == {i \in 1..Len(q) : q[i] \notin Drop}
<1>1. PICK n : n = Cardinality(kept)
  OBVIOUS
<1>2. PICK f \in [1..n -> kept] :
        /\ \A i, j \in 1..n : i < j => f[i] < f[j]
        /\ r = [i \in DOMAIN f |-> q[f[i]]]
  BY <1>1 DEF DropPending, Ascending
<1>3. /\ r \in Seq(S) /\ Len(r) = n /\ n <= Len(q)
      /\ \A i \in 1..n : f[i] \in kept /\ r[i] = q[f[i]]
      /\ \A e : e \in Elements(r) <=> \E k \in kept : e = q[k]
      /\ Distinct(q) => Distinct(r)
  <2>1. kept \subseteq 1..Len(q)
    OBVIOUS
  <2>2. Enumerates(f, n, kept) /\ r = Picked(q, f)
    BY <1>1, <1>2 DEF Enumerates, Picked
  <2>3. IsSelection(Picked(q, f), q, f, n, kept, S)
    <3> HIDE DEF kept
    <3> QED BY <2>1, <2>2, Selecting, Zenon
  <2> HIDE DEF kept
  <2> QED BY <2>2, <2>3 DEF IsSelection
<1>4. Elements(r) = Elements(q) \ Drop
  <2>1. \A e : e \in Elements(q) <=> \E k \in 1..Len(q) : e = q[k]
    BY DEF Elements
  <2> QED BY <2>1, <1>3
<1>5. f \in [1..Len(r) -> 1..Len(q)]
  BY <1>2, <1>3
<1> HIDE DEF kept
<1> QED BY <1>2, <1>3, <1>4, <1>5

\* A message put back, or not.
LEMMA Requeueing ==
  ASSUME NEW S, NEW q \in Seq(S), NEW m \in S, Len(q) <= QueueSize,
         NEW r, r = Requeue(q, m)
  PROVE  /\ r \in Seq(S) /\ Len(r) <= QueueSize
         /\ Elements(r) \subseteq Elements(q) \cup {m}
         /\ Len(q) < QueueSize => Elements(r) = Elements(q) \cup {m}
         /\ Elements(q) \subseteq Elements(r)
         /\ Distinct(q) /\ m \notin Elements(q) => Distinct(r)
<1>1. QueueSize \in Nat /\ Len(q) \in Nat
  BY LinkAssumption
<1>2. CASE Len(q) < QueueSize
  <2>1. r = Append(q, m)
    BY <1>2 DEF Requeue
  <2>2. /\ r \in Seq(S) /\ Len(r) = Len(q) + 1
        /\ Elements(r) = Elements(q) \cup {m}
        /\ Distinct(q) /\ m \notin Elements(q) => Distinct(r)
    BY <2>1, Appending
  <2>3. Len(r) <= QueueSize
    BY <2>2, <1>1, <1>2
  <2> QED BY <2>2, <2>3
<1>3. CASE ~ (Len(q) < QueueSize)
  BY <1>3 DEF Requeue
<1> QED BY <1>2, <1>3

LEMMA DInitInv == DInit => Inv
BY DeliveryAssumption, LinkAssumption
   DEF DInit, Init, Inv, Types, Accepted, Holding, OnePlace, Elements, Distinct

----------------------------------------------------------------------------
\* A new message is in no place yet.
LEMMA OwnerSendInv == Inv /\ OwnerSend => Inv'
<1> SUFFICES ASSUME Inv, OwnerSend PROVE Inv'
  OBVIOUS
<1> DEFINE m == accepted + 1
<1>1. /\ queue' = PutAll(queue, <<m>>) /\ accepted' = m
      /\ UNCHANGED <<conn, writer, held, written, ever>>
  BY DEF OwnerSend, Send
<1>2. /\ queue \in Seq(Nat) /\ Len(queue) <= QueueSize /\ m \in Nat
      /\ m \notin Elements(queue) /\ m \notin Elements(written) /\ m # held
  BY DeliveryAssumption DEF Inv, Types, Accepted
<1>3. /\ queue' \in Seq(Nat) /\ Len(queue') <= QueueSize
      /\ Elements(queue') \subseteq Elements(queue) \cup {m}
      /\ Distinct(queue')
  <2>1. Distinct(queue)
    BY DEF Inv, OnePlace
  <2> QED BY <1>1, <1>2, <2>1, PutAllOne
<1>4. Types'
  BY <1>1, <1>2, <1>3 DEF Inv, Types
<1>5. Accepted'
  <2>1. /\ accepted \in Nat
        /\ \A k \in Elements(queue) : k \in Nat /\ k <= accepted
        /\ \A k \in Elements(written) : k \in Nat /\ k <= accepted
    BY <1>2 DEF Inv, Types, Accepted, Elements
  <2>2. \A k \in Elements(queue) \cup Elements(written) \cup {m} : k <= m
    BY <2>1
  <2>3. \A k \in Elements(queue') \cup Elements(written') : k <= accepted'
    BY <1>1, <1>3, <2>2
  <2>4. held' # None => held' <= accepted'
    <3>1. held # None => held \in Nat /\ held <= accepted
      BY DEF Inv, Types, Accepted
    <3> QED BY <1>1, <2>1, <3>1
  <2> QED BY <2>3, <2>4 DEF Accepted
<1>6. Holding' /\ OnePlace'
  BY <1>1, <1>2, <1>3 DEF Inv, Holding, OnePlace
<1> QED BY <1>4, <1>5, <1>6 DEF Inv

LEMMA ConnectInv == Inv /\ DConnect => Inv'
<1> SUFFICES ASSUME Inv, DConnect PROVE Inv'
  OBVIOUS
<1>1. /\ DropPending(queue, Stale, queue') /\ written' = <<>>
      /\ conn = "down" /\ conn' = "up" /\ writer' = "idle"
      /\ UNCHANGED <<held, accepted, ever>>
  BY DEF DConnect, Connect
<1>2. /\ queue' \in Seq(Nat) /\ Len(queue') <= Len(queue)
      /\ Elements(queue') \subseteq Elements(queue) /\ Distinct(queue')
  BY <1>1, Dropping DEF Inv, Types, OnePlace
<1>3. held = None
  BY <1>1 DEF Inv, Holding
<1>4. written' \in Seq(Nat) /\ Elements(written') = {} /\ Distinct(written')
  BY <1>1 DEF Elements, Distinct
<1>5. Types'
  <2>1. Len(queue') <= QueueSize
    BY <1>2, LinkAssumption DEF Inv, Types
  <2> QED BY <2>1, <1>1, <1>2, <1>4 DEF Inv, Types
<1>6. Accepted'
  BY <1>1, <1>2, <1>4 DEF Inv, Accepted
<1>7. Holding' /\ OnePlace'
  BY <1>1, <1>2, <1>3, <1>4 DEF Inv, Holding, OnePlace
<1> QED BY <1>5, <1>6, <1>7 DEF Inv

LEMMA WriterTakeInv == Inv /\ WriterTake /\ UNCHANGED histVars => Inv'
<1> SUFFICES ASSUME Inv, WriterTake, UNCHANGED histVars PROVE Inv'
  OBVIOUS
<1>1. /\ queue # <<>> /\ queue \in Seq(Nat)
      /\ held' = Head(queue) /\ queue' = Tail(queue) /\ writer = "idle" /\ writer' = "taken"
      /\ UNCHANGED <<conn, written, accepted, ever>>
  BY DEF WriterTake, histVars, Inv, Types
<1>2. /\ held' \in Nat /\ queue' \in Seq(Nat) /\ Len(queue') = Len(queue) - 1
      /\ Elements(queue) = Elements(queue') \cup {held'}
      /\ Distinct(queue') /\ held' \notin Elements(queue')
  BY <1>1, TakingHead DEF Inv, OnePlace
<1>3. held' # None
  BY <1>2, DeliveryAssumption
<1>4. Types'
  <2>1. Len(queue') <= QueueSize
    BY <1>2, LinkAssumption DEF Inv, Types
  <2> QED BY <2>1, <1>1, <1>2 DEF Inv, Types
<1>5. Accepted'
  BY <1>1, <1>2 DEF Inv, Accepted
<1>6. Holding' /\ OnePlace'
  BY <1>1, <1>2, <1>3 DEF Inv, Holding, OnePlace
<1> QED BY <1>4, <1>5, <1>6 DEF Inv

LEMMA WriterWriteInv == Inv /\ DWriterWrite => Inv'
<1> SUFFICES ASSUME Inv, DWriterWrite PROVE Inv'
  OBVIOUS
<1>1. /\ writer = "taken" /\ writer' = "written" /\ written' = Append(written, held)
      /\ ever' = ever \cup {held}
      /\ UNCHANGED <<queue, conn, held, accepted>>
  BY DEF DWriterWrite, WriterWrite
<1>2. held # None /\ held \in Nat
  BY <1>1 DEF Inv, Holding, Types
<1>3. /\ written' \in Seq(Nat) /\ Elements(written') = Elements(written) \cup {held}
      /\ Distinct(written')
  BY <1>1, <1>2, Appending DEF Inv, Types, OnePlace
<1>4. Types'
  BY <1>1, <1>3 DEF Inv, Types
<1>5. Accepted'
  BY <1>1, <1>2, <1>3 DEF Inv, Accepted
<1>6. Holding' /\ OnePlace'
  BY <1>1, <1>2, <1>3 DEF Inv, Holding, OnePlace
<1> QED BY <1>4, <1>5, <1>6 DEF Inv

LEMMA WriterDoneInv == Inv /\ WriterDone /\ UNCHANGED histVars => Inv'
<1> SUFFICES ASSUME Inv, WriterDone, UNCHANGED histVars PROVE Inv'
  OBVIOUS
<1>1. None \notin Elements(queue)
  BY DeliveryAssumption DEF Inv, Types, Elements
<1>2. /\ writer = "written" /\ writer' = "idle" /\ held' = None
      /\ UNCHANGED <<queue, conn, written, accepted, ever>>
  BY DEF WriterDone, histVars
<1> QED BY <1>1, <1>2 DEF Inv, Types, Accepted, Holding, OnePlace

\* What the writer holds is put back and nothing is written afterwards.
LEMMA PutBackInv ==
  ASSUME Inv, queue' = (IF held = None THEN queue ELSE Requeue(queue, held)),
         held' = None,
         \/ writer' = "dead" /\ UNCHANGED conn /\ writer # "none"
         \/ writer' = "none" /\ conn' = "down",
         UNCHANGED <<written, accepted, ever>>
  PROVE  Inv'
<1>1. /\ queue' \in Seq(Nat) /\ Len(queue') <= QueueSize
      /\ Elements(queue') \subseteq Elements(queue) \cup ({held} \ {None})
      /\ Distinct(queue')
  <2>1. CASE held = None
    BY <2>1 DEF Inv, Types, OnePlace
  <2>2. CASE held # None
    <3>1. held \in Nat /\ queue' = Requeue(queue, held)
      BY <2>2 DEF Inv, Types
    <3> QED BY <2>2, <3>1, Requeueing DEF Inv, Types, OnePlace
  <2> QED BY <2>1, <2>2
<1>2. None \notin Elements(queue')
  BY <1>1, DeliveryAssumption DEF Elements
<1>3. Types'
  BY <1>1 DEF Inv, Types
<1>4. Accepted'
  BY <1>1 DEF Inv, Accepted
<1>5. Holding' /\ OnePlace'
  BY <1>1, <1>2 DEF Inv, Holding, OnePlace
<1> QED BY <1>3, <1>4, <1>5 DEF Inv

LEMMA FailInv == Inv /\ (DWriterFail \/ DReaderEnd) => Inv'
<1> SUFFICES ASSUME Inv, DWriterFail \/ DReaderEnd PROVE Inv'
  OBVIOUS
<1>1. CASE DWriterFail
  <2>1. writer \in {"taken", "written"} /\ held # None
    BY <1>1 DEF DWriterFail, WriterFail, Inv, Holding
  <2> QED BY <2>1, <1>1, PutBackInv DEF DWriterFail, WriterFail
<1>2. CASE DReaderEnd
  BY <1>2, PutBackInv DEF DReaderEnd, ReaderEnd
<1> QED BY <1>1, <1>2

\* The connection breaks, is stopped, or the relay takes a frame.
LEMMA PeerInv ==
  ASSUME Inv, \/ (Break \/ BeginStop \/ FinishStop) /\ UNCHANGED histVars
              \/ DPeerReceive
  PROVE  Inv'
<1>1. /\ UNCHANGED <<queue, writer, held, written, accepted, ever>>
      /\ \/ UNCHANGED conn
         \/ conn = "up" /\ conn' = "broken"
         \/ conn = "down" /\ conn' = "stopped"
  BY DEF Break, BeginStop, FinishStop, DPeerReceive, PeerReceive, histVars
<1> QED BY <1>1 DEF Inv, Types, Accepted, Holding, OnePlace

LEMMA DStepInv == Inv /\ [DNext]_vars => Inv'
<1> SUFFICES ASSUME Inv, [DNext]_vars PROVE Inv'
  OBVIOUS
<1>1. CASE UNCHANGED vars
  BY <1>1 DEF vars, linkVars, histVars, Inv, Types, Accepted, Holding, OnePlace
<1> QED BY <1>1, OwnerSendInv, ConnectInv, WriterTakeInv, WriterWriteInv, WriterDoneInv,
           FailInv, PeerInv DEF DNext

\* No message goes out twice on one connection, although a failed or cancelled
\* send puts back one that may have been written.
THEOREM OncePerConnectionCorrect == DSpec => []OncePerConnection
<1>1. Inv => OncePerConnection
  BY DEF Inv, OnePlace, Distinct, OncePerConnection
<1> QED BY <1>1, DInitInv, DStepInv, PTL DEF DSpec

----------------------------------------------------------------------------
\* The step of m out of the connection is one that LossOnlyWhenFull allows.
MayLeave(m) == IF conn = "down" /\ conn' = "up"
                 THEN m \in Stale
                 ELSE m \in ever \/ Len(queue) = QueueSize

LEMMA QueuedElements == Queued = Elements(queue)
BY DEF Queued, Elements

LEMMA SendLoses ==
  ASSUME Inv, OwnerSend, NEW m \in Pending \ Pending'
  PROVE  MayLeave(m)
<1>1. /\ queue' = PutAll(queue, <<accepted + 1>>)
      /\ UNCHANGED <<conn, held>>
  BY DEF OwnerSend, Send
<1>2. /\ queue \in Seq(Nat) /\ Len(queue) \in Nat /\ Len(queue) <= QueueSize
      /\ accepted + 1 \in Nat /\ QueueSize \in Nat
  BY LinkAssumption DEF Inv, Types
<1>3. CASE Len(queue) < QueueSize
  <2>1. Elements(queue') = Elements(queue) \cup {accepted + 1}
    BY <1>1, <1>2, <1>3, PutAllOne
  <2> QED BY <2>1, <1>1, QueuedElements DEF Pending, Queued, Elements
<1>4. CASE Len(queue) = QueueSize
  BY <1>1, <1>4 DEF MayLeave
<1> QED BY <1>2, <1>3, <1>4

LEMMA ConnectLoses ==
  ASSUME Inv, DConnect, NEW m \in Pending \ Pending'
  PROVE  MayLeave(m)
<1>1. /\ DropPending(queue, Stale, queue') /\ conn = "down" /\ conn' = "up"
      /\ UNCHANGED held
  BY DEF DConnect, Connect
<1>2. Elements(queue') = Elements(queue) \ Stale
  BY <1>1, Dropping DEF Inv, Types
<1>3. Queued' = Queued \ Stale
  BY <1>2 DEF Queued, Elements
<1> QED BY <1>1, <1>3 DEF Pending, MayLeave

LEMMA TakeLoses ==
  ASSUME Inv, WriterTake, NEW m \in Pending \ Pending'
  PROVE  FALSE
<1>1. /\ queue # <<>> /\ queue \in Seq(Nat)
      /\ held' = Head(queue) /\ queue' = Tail(queue) /\ held = None
  BY DEF WriterTake, Inv, Types, Holding
<1>2. Elements(queue) = Elements(queue') \cup {held'} /\ held' \in Nat
  BY <1>1, TakingHead
<1>3. Queued = Queued' \cup {held'} /\ held' # None
  BY <1>2, DeliveryAssumption DEF Queued, Elements
<1> QED BY <1>1, <1>3 DEF Pending

LEMMA DoneLoses ==
  ASSUME Inv, WriterDone, NEW m \in Pending \ Pending'
  PROVE  MayLeave(m)
<1>1. /\ writer = "written" /\ conn = "up" /\ UNCHANGED queue
  BY DEF WriterDone
<1>2. m = held
  BY <1>1 DEF Pending, Queued
<1> QED BY <1>1, <1>2 DEF MayLeave, Inv, OnePlace

LEMMA PutBackLoses ==
  ASSUME Inv, DWriterFail \/ DReaderEnd, NEW m \in Pending \ Pending'
  PROVE  MayLeave(m)
<1>1. /\ queue' = (IF held = None THEN queue ELSE Requeue(queue, held))
      /\ conn' = conn \/ conn' = "down"
  BY DEF DWriterFail, WriterFail, DReaderEnd, ReaderEnd, Inv, Holding
<1>2. /\ queue \in Seq(Nat) /\ Len(queue) \in Nat /\ Len(queue) <= QueueSize
      /\ QueueSize \in Nat
  BY LinkAssumption DEF Inv, Types
<1>3. held # None /\ held \in Nat /\ queue' = Requeue(queue, held)
  BY <1>1 DEF Pending, Queued, Inv, Types
<1>4. /\ Elements(queue) \subseteq Elements(queue')
      /\ Len(queue) < QueueSize => Elements(queue') = Elements(queue) \cup {held}
  BY <1>2, <1>3, Requeueing
<1>5. /\ Queued \subseteq Queued'
      /\ Len(queue) < QueueSize => Queued' = Queued \cup {held}
  BY <1>4 DEF Queued, Elements
<1>6. Len(queue) = QueueSize
  BY <1>2, <1>5 DEF Pending
<1> QED BY <1>1, <1>6 DEF MayLeave

\* A message leaves a connection unwritten only when the queue is full, or on
\* connect because the owner drops it: no interleaving of the writer, failures,
\* the connection and stop loses another, whatever the size of the queue.
THEOREM LossOnlyWhenFullCorrect == DSpec => LossOnlyWhenFull
<1>1. Inv /\ [DNext]_vars => [\A m \in Pending \ Pending' : MayLeave(m)]_vars
  <2> SUFFICES ASSUME Inv, DNext, NEW m \in Pending \ Pending' PROVE MayLeave(m)
    OBVIOUS
  <2>1. ASSUME UNCHANGED <<queue, held>> PROVE FALSE
    BY <2>1 DEF Pending, Queued
  <2>2. CASE DWriterWrite
    BY <2>1, <2>2 DEF DWriterWrite, WriterWrite
  <2>3. CASE DPeerReceive \/ Break \/ BeginStop \/ FinishStop
    BY <2>1, <2>3 DEF DPeerReceive, Break, BeginStop, FinishStop
  <2> QED BY <2>2, <2>3, SendLoses, ConnectLoses, TakeLoses, DoneLoses, PutBackLoses DEF DNext
<1>2. [\A m \in Pending \ Pending' : MayLeave(m)]_vars
        => [\A m \in Pending \ Pending' :
              IF conn = "down" /\ conn' = "up"
                THEN m \in Stale
                ELSE m \in ever \/ Len(queue) = QueueSize]_vars
  BY DEF MayLeave
<1> QED BY <1>1, <1>2, DInitInv, DStepInv, PTL DEF DSpec, LossOnlyWhenFull

----------------------------------------------------------------------------
\* The parts of the state that carry messages, and those that say where the
\* tasks are.
Carriers == /\ queue \in Seq(Numbers) /\ Len(queue) <= QueueSize
            /\ held \in Numbers \cup {None}
            /\ toPeer \in Seq(Numbers) /\ fromPeer \in Seq({})
            /\ written \in Seq(Numbers) /\ ever \subseteq Numbers /\ requeued \subseteq Numbers
            /\ accepted \in 0..MaxSends

Tasks == /\ conn \in {"down", "up", "broken", "stopped"}
         /\ writer \in {"none", "idle", "taken", "written", "dead"}
         /\ stopping \in BOOLEAN
         /\ connects \in 0..MaxConnects /\ dropped \in Nat
         /\ LinkConsistent

LEMMA TypeParts == TypeOK <=> Carriers /\ Tasks
BY DEF TypeOK, LinkTypeOK, Carriers, Tasks

LEMMA NoneIsNoNumber == None \notin Numbers /\ Numbers \subseteq Nat
BY DeliveryAssumption DEF Numbers

LEMMA CarriersStep == Carriers /\ Tasks /\ [DNext]_vars => Carriers'
<1> SUFFICES ASSUME Carriers, Tasks, [DNext]_vars PROVE Carriers'
  OBVIOUS
<1>1. CASE OwnerSend
  <2>1. /\ queue' = PutAll(queue, <<accepted + 1>>) /\ accepted' = accepted + 1
        /\ accepted < MaxSends
        /\ UNCHANGED <<held, toPeer, fromPeer, written, ever, requeued>>
    BY <1>1 DEF OwnerSend, Send
  <2>2. accepted + 1 \in Numbers /\ accepted' \in 0..MaxSends
    BY <2>1, DeliveryAssumption DEF Carriers, Numbers
  <2>3. queue' \in Seq(Numbers) /\ Len(queue') <= QueueSize
    <3>1. queue \in Seq(Numbers) /\ Len(queue) <= QueueSize
      BY DEF Carriers
    <3> QED BY <3>1, <2>1, <2>2, PutAllOne
  <2> QED BY <2>1, <2>2, <2>3 DEF Carriers
<1>2. CASE DConnect
  <2>1. /\ DropPending(queue, Stale, queue') /\ written' = <<>>
        /\ UNCHANGED <<accepted, held, toPeer, fromPeer, ever, requeued>>
    BY <1>2 DEF DConnect, Connect
  <2>2. queue' \in Seq(Numbers) /\ Len(queue') <= Len(queue)
    BY <2>1, Dropping DEF Carriers
  <2>3. Len(queue') <= QueueSize
    BY <2>2, LinkAssumption DEF Carriers
  <2> QED BY <2>1, <2>2, <2>3 DEF Carriers
<1>3. CASE WriterTake /\ UNCHANGED histVars
  <2>1. /\ queue # <<>> /\ queue \in Seq(Numbers) /\ held' = Head(queue) /\ queue' = Tail(queue)
        /\ UNCHANGED <<toPeer, fromPeer, written, ever, requeued, accepted>>
    BY <1>3 DEF WriterTake, histVars, Carriers
  <2>2. held' \in Numbers /\ queue' \in Seq(Numbers) /\ Len(queue') = Len(queue) - 1
    BY <2>1, TakingHead
  <2>3. Len(queue') <= QueueSize
    BY <2>2, LinkAssumption DEF Carriers
  <2> QED BY <2>1, <2>2, <2>3 DEF Carriers
<1>4. CASE WriterDone /\ UNCHANGED histVars
  BY <1>4 DEF WriterDone, histVars, Carriers
<1>5. CASE DWriterWrite
  <2>1. /\ writer = "taken"
        /\ toPeer' = Append(toPeer, held) /\ written' = Append(written, held)
        /\ ever' = ever \cup {held}
        /\ UNCHANGED <<queue, held, fromPeer, requeued, accepted>>
    BY <1>5 DEF DWriterWrite, WriterWrite
  <2>2. held \in Numbers
    BY <2>1 DEF Tasks, LinkConsistent, Carriers
  <2> QED BY <2>1, <2>2 DEF Carriers
<1>6. ASSUME queue' = (IF held = None THEN queue ELSE Requeue(queue, held)), held' = None,
             requeued' = (IF held = None THEN requeued ELSE requeued \cup {held}),
             fromPeer' = fromPeer \/ fromPeer' = <<>>,
             UNCHANGED <<toPeer, written, ever, accepted>>
      PROVE  Carriers'
  <2>1. CASE held = None
    BY <1>6, <2>1 DEF Carriers
  <2>2. CASE held # None
    <3>1. /\ queue \in Seq(Numbers) /\ Len(queue) <= QueueSize /\ held \in Numbers
          /\ queue' = Requeue(queue, held)
      BY <1>6, <2>2 DEF Carriers
    <3>2. queue' \in Seq(Numbers) /\ Len(queue') <= QueueSize
      BY <3>1, Requeueing
    <3> QED BY <1>6, <2>2, <3>1, <3>2 DEF Carriers
  <2> QED BY <2>1, <2>2
<1>7. CASE DWriterFail
  <2>1. held # None
    BY <1>7 DEF DWriterFail, WriterFail, Tasks, LinkConsistent
  <2> QED BY <2>1, <1>6, <1>7 DEF DWriterFail, WriterFail
<1>8. CASE DReaderEnd
  BY <1>6, <1>8 DEF DReaderEnd, ReaderEnd
<1>9. CASE DPeerReceive
  BY <1>9 DEF DPeerReceive, PeerReceive, histVars, Carriers
<1>10. CASE (Break \/ BeginStop \/ FinishStop) /\ UNCHANGED histVars
  <2>1. /\ UNCHANGED <<queue, held, written, ever, requeued, accepted>>
        /\ toPeer' = toPeer \/ toPeer' = <<>>
        /\ fromPeer' = fromPeer \/ \E n \in 0..Len(fromPeer) : fromPeer' = SubSeq(fromPeer, 1, n)
    BY <1>10 DEF Break, BeginStop, FinishStop, histVars
  <2>2. fromPeer' \in Seq({})
    BY <2>1, PrefixTyped DEF Carriers
  <2> QED BY <2>1, <2>2 DEF Carriers
<1>11. CASE UNCHANGED vars
  BY <1>11 DEF vars, linkVars, histVars, Carriers
<1> QED BY <1>1, <1>2, <1>3, <1>4, <1>5, <1>7, <1>8, <1>9, <1>10, <1>11 DEF DNext

LEMMA TasksStep == Carriers /\ Tasks /\ [DNext]_vars => Tasks'
<1> SUFFICES ASSUME Carriers, Tasks, [DNext]_vars PROVE Tasks'
  OBVIOUS
<1> USE DEF Tasks, LinkConsistent
<1>1. CASE OwnerSend
  BY <1>1 DEF OwnerSend, Send
<1>2. CASE DConnect
  <2>1. connects' \in 0..MaxConnects
    BY <1>2, DeliveryAssumption DEF DConnect
  <2> QED BY <1>2, <2>1 DEF DConnect, Connect
<1>3. CASE WriterTake /\ UNCHANGED histVars
  <2>1. held' # None
    BY <1>3, TakingHead, NoneIsNoNumber DEF WriterTake, Carriers
  <2> QED BY <1>3, <2>1 DEF WriterTake, histVars
<1>4. CASE WriterDone /\ UNCHANGED histVars
  BY <1>4 DEF WriterDone, histVars
<1>5. CASE DWriterWrite
  BY <1>5 DEF DWriterWrite, WriterWrite
<1>6. CASE DWriterFail
  BY <1>6 DEF DWriterFail, WriterFail
<1>7. CASE DReaderEnd
  BY <1>7 DEF DReaderEnd, ReaderEnd
<1>8. CASE DPeerReceive
  BY <1>8 DEF DPeerReceive, PeerReceive, histVars
<1>9. CASE (Break \/ BeginStop \/ FinishStop) /\ UNCHANGED histVars
  BY <1>9 DEF Break, BeginStop, FinishStop, histVars
<1>10. CASE UNCHANGED vars
  BY <1>10 DEF vars, linkVars, histVars
<1> QED BY <1>1, <1>2, <1>3, <1>4, <1>5, <1>6, <1>7, <1>8, <1>9, <1>10 DEF DNext

\* The state of a connection has its type, and the writer, what it holds and
\* the connection agree.
THEOREM DeliveryTypeCorrect == DSpec => []TypeOK
<1>1. DInit => Carriers /\ Tasks
  <2> SUFFICES ASSUME DInit PROVE Carriers /\ Tasks
    OBVIOUS
  <2>1. /\ <<>> \in Seq(Numbers) /\ <<>> \in Seq({}) /\ Len(<<>>) <= QueueSize
        /\ 0 \in 0..MaxSends /\ 0 \in 0..MaxConnects
    BY DeliveryAssumption, LinkAssumption, EmptySeq
  <2>2. Carriers
    BY <2>1 DEF DInit, Init, Carriers
  <2>3. Tasks
    BY <2>1 DEF DInit, Init, Tasks, LinkConsistent
  <2> QED BY <2>2, <2>3
<1>2. Carriers /\ Tasks => TypeOK
  BY TypeParts
<1> QED BY <1>1, <1>2, CarriersStep, TasksStep, PTL DEF DSpec

----------------------------------------------------------------------------
\* In s only the messages of R come after a later one.
Ordered(s, R) == \A i, j \in 1..Len(s) : i < j /\ s[i] > s[j] => s[j] \in R

LEMMA OrderedAppend ==
  ASSUME NEW R, NEW s \in Seq(Nat), NEW x \in Nat, Ordered(s, R),
         x \in R \/ \A i \in 1..Len(s) : s[i] <= x
  PROVE  Ordered(Append(s, x), R)
<1> PICK r : r = Append(s, x)
  OBVIOUS
<1>1. /\ Len(r) = Len(s) + 1 /\ Len(s) \in Nat /\ r[Len(s) + 1] = x
      /\ \A i \in 1..Len(s) : r[i] = s[i] /\ s[i] \in Nat
  OBVIOUS
<1> SUFFICES ASSUME NEW i \in 1..Len(r), NEW j \in 1..Len(r), i < j, r[i] > r[j]
             PROVE  r[j] \in R
  BY DEF Ordered
<1> PICK n : n = Len(s)
  OBVIOUS
<1>2. i \in 1..Len(s) /\ (j \in 1..Len(s) \/ j = Len(s) + 1)
  <2>1. n \in Nat /\ i \in 1..(n + 1) /\ j \in 1..(n + 1)
    BY <1>1
  <2>2. i \in 1..n /\ (j \in 1..n \/ j = n + 1)
    BY <2>1
  <2> QED BY <2>2
<1>3. CASE j \in 1..Len(s)
  BY <1>1, <1>2, <1>3 DEF Ordered
<1>4. CASE j = Len(s) + 1
  BY <1>1, <1>2, <1>4
<1> QED BY <1>2, <1>3, <1>4

LEMMA OrderedWithout ==
  ASSUME NEW R, NEW s \in Seq(Nat), NEW k \in 1..Len(s), Ordered(s, R)
  PROVE  Without(s, k) \in Seq(Nat) /\ Ordered(Without(s, k), R)
<1> PICK r : r = Without(s, k)
  OBVIOUS
<1> DEFINE place(i) == IF i < k THEN i ELSE i + 1
<1>1. Len(s) \in Nat \ {0} /\ \A i \in 1..Len(s) : s[i] \in Nat
  OBVIOUS
<1>2. r = [i \in 1..(Len(s) - 1) |-> s[place(i)]]
  BY DEF Without
<1>3. \A i \in 1..(Len(s) - 1) : place(i) \in 1..Len(s)
  BY <1>1
<1>4. \A i, j \in 1..(Len(s) - 1) : i < j => place(i) < place(j)
  BY <1>1
<1> HIDE DEF place
<1>5. r \in [1..(Len(s) - 1) -> Nat] /\ Len(s) - 1 \in Nat
  <2>1. Len(s) - 1 \in Nat
    BY <1>1
  <2>2. \A i \in 1..(Len(s) - 1) : s[place(i)] \in Nat
    BY <1>1, <1>3, Zenon
  <2>3. r \in [1..(Len(s) - 1) -> Nat]
    BY <1>2, <2>2, Zenon
  <2> QED BY <2>1, <2>3
<1>6. r \in Seq(Nat) /\ Len(r) = Len(s) - 1
  BY <1>5, SeqDef
<1>7. \A i \in 1..Len(r) : r[i] = s[place(i)]
  BY <1>2, <1>6
<1>8. Ordered(r, R)
  <2> SUFFICES ASSUME NEW i \in 1..Len(r), NEW j \in 1..Len(r), i < j, r[i] > r[j]
               PROVE  r[j] \in R
    BY DEF Ordered
  <2>1. /\ place(i) \in 1..Len(s) /\ place(j) \in 1..Len(s) /\ place(i) < place(j)
        /\ r[i] = s[place(i)] /\ r[j] = s[place(j)]
    BY <1>3, <1>4, <1>6, <1>7
  <2> QED BY <2>1 DEF Ordered
<1> QED BY <1>6, <1>8

LEMMA OrderedSuffix ==
  ASSUME NEW R, NEW p \in Seq(Nat), NEW q \in Seq(Nat), Ordered(p \o <<>> \o q, R)
  PROVE  Ordered(q, R)
<1> PICK s : s = p \o <<>> \o q
  OBVIOUS
<1>1. /\ Len(s) = Len(p) + Len(q) /\ Len(p) \in Nat /\ Len(q) \in Nat
      /\ \A i \in 1..Len(q) : Len(p) + i \in 1..Len(s) /\ s[Len(p) + i] = q[i]
  OBVIOUS
<1>2. \A i, j \in 1..Len(q) : i < j => Len(p) + i < Len(p) + j
  BY <1>1
<1> QED BY <1>1, <1>2 DEF Ordered

\* The message in the writer's hands that it has not written yet.
Middle == IF writer = "taken" THEN <<held>> ELSE <<>>

LEMMA LineParts ==
  ASSUME Inv
  PROVE  /\ Line = written \o Middle \o queue /\ Line \in Seq(Nat)
         /\ written \in Seq(Nat) /\ Middle \in Seq(Nat) /\ queue \in Seq(Nat)
         /\ \A i \in 1..Len(Line) : Line[i] <= accepted
<1>1. writer = "taken" => held \in Nat /\ held <= accepted
  BY DEF Inv, Types, Holding, Accepted
<1>2. /\ written \in Seq(Nat) /\ Middle \in Seq(Nat) /\ queue \in Seq(Nat)
      /\ \A i \in 1..Len(Middle) : Middle[i] <= accepted
  BY <1>1 DEF Inv, Types, Middle
<1>3. /\ \A i \in 1..Len(written) : written[i] <= accepted
      /\ \A i \in 1..Len(queue) : queue[i] <= accepted
  BY DEF Inv, Accepted, Elements
<1>4. Line = written \o Middle \o queue
  BY DEF Line, Middle
<1> HIDE DEF Middle
<1>5. written \o Middle \o queue \in Seq(Nat)
  BY <1>2
<1>6. \A i \in 1..Len(written \o Middle \o queue) : (written \o Middle \o queue)[i] <= accepted
  <2> PICK a : a = written \o Middle
    OBVIOUS
  <2>1. a \in Seq(Nat) /\ \A i \in 1..Len(a) : a[i] <= accepted
    BY <1>2, <1>3
  <2> QED BY <2>1, <1>2, <1>3
<1> QED BY <1>2, <1>4, <1>5, <1>6

LEMMA SendOrder == Inv /\ OvertakenOnlyIfRequeued /\ OwnerSend => OvertakenOnlyIfRequeued'
<1> SUFFICES ASSUME Inv, Ordered(Line, requeued), OwnerSend PROVE Ordered(Line', requeued)
  BY DEF OvertakenOnlyIfRequeued, Ordered, OwnerSend
<1> PICK m : m = accepted + 1
  OBVIOUS
<1>1. /\ queue' = PutAll(queue, <<m>>)
      /\ UNCHANGED <<written, writer, held>>
  BY DEF OwnerSend, Send
<1>2. /\ queue \in Seq(Nat) /\ Len(queue) <= QueueSize /\ m \in Nat /\ accepted \in Nat
      /\ Len(queue) \in Nat /\ QueueSize \in Nat
  BY LinkAssumption DEF Inv, Types
<1>3. Line' = written \o Middle \o queue'
  BY <1>1 DEF Line, Middle
<1>4. \A i \in 1..Len(Line) : Line[i] <= m
  <2>1. \A i \in 1..Len(Line) : Line[i] \in Nat /\ Line[i] <= accepted
    BY LineParts
  <2> QED BY <2>1, <1>2
<1>5. /\ written \in Seq(Nat) /\ Middle \in Seq(Nat) /\ Line \in Seq(Nat)
      /\ Line = written \o Middle \o queue
  BY LineParts
<1>6. CASE Len(queue) < QueueSize
  <2>1. queue' = Append(queue, m)
    BY <1>1, <1>2, <1>6, PutAllShape
  <2>2. written \o Middle \o Append(queue, m) = Append(written \o Middle \o queue, m)
    <3>1. PICK a : a = written \o Middle
      OBVIOUS
    <3>2. a \in Seq(Nat) /\ queue \in Seq(Nat) /\ m \in Nat
      BY <1>2, <1>5, <3>1
    <3>3. a \o Append(queue, m) = Append(a \o queue, m)
      BY <3>2
    <3> QED BY <3>1, <3>3
  <2>3. Line' = Append(Line, m)
    BY <2>1, <2>2, <1>3, <1>5
  <2> QED BY <2>3, <1>2, <1>4, <1>5, OrderedAppend
<1>7. CASE Len(queue) = QueueSize
  <2>1. queue # <<>> /\ queue' = Append(Tail(queue), m)
    BY <1>1, <1>2, <1>7, PutAllShape
  <2> DEFINE k == Len(written) + Len(Middle) + 1
             rest == written \o Middle \o Tail(queue)
  <2>2. k \in 1..Len(Line) /\ rest = Without(Line, k)
    BY <2>1, <1>2, <1>5, Shedding, ZenonT(30)
  <2>3. Line \in Seq(Nat) /\ \A i \in 1..Len(Line) : Line[i] \in Nat
    BY LineParts
  <2>4. Tail(queue) \in Seq(Nat) /\ written \in Seq(Nat) /\ Middle \in Seq(Nat)
    BY <2>1, LineParts, HeadTailProperties
  <2>5. Line' = Append(rest, m)
    <3>1. written \o Middle \o Append(Tail(queue), m) = Append(rest, m)
      <4>1. PICK a, t : a = written \o Middle /\ t = Tail(queue)
        OBVIOUS
      <4>2. a \in Seq(Nat) /\ t \in Seq(Nat) /\ m \in Nat
        BY <1>2, <2>4, <4>1
      <4>3. a \o Append(t, m) = Append(a \o t, m)
        BY <4>2
      <4> QED BY <4>1, <4>3
    <3> QED BY <3>1, <2>1, <1>3
  <2> HIDE DEF k, rest
  <2>6. rest \in Seq(Nat) /\ Ordered(rest, requeued)
    BY <2>2, <2>3, OrderedWithout
  <2>7. \A i \in 1..Len(rest) : rest[i] <= m
    <3>1. Len(rest) = Len(Line) - 1
      BY <2>2, <2>3 DEF Without
    <3> QED BY <3>1, <2>2, <2>3, <1>4 DEF Without
  <2> QED BY <2>5, <2>6, <2>7, <1>2, OrderedAppend
<1> QED BY <1>2, <1>6, <1>7

LEMMA ConnectOrder == Inv /\ OvertakenOnlyIfRequeued /\ DConnect => OvertakenOnlyIfRequeued'
<1> SUFFICES ASSUME Inv, Ordered(Line, requeued), DConnect PROVE Ordered(Line', requeued)
  BY DEF OvertakenOnlyIfRequeued, Ordered, DConnect
<1>1. /\ DropPending(queue, Stale, queue') /\ written' = <<>>
      /\ conn = "down" /\ writer' = "idle"
  BY DEF DConnect, Connect
<1>2. queue \in Seq(Nat) /\ Ordered(queue, requeued)
  <2>1. Middle = <<>>
    BY <1>1 DEF Middle, Inv, Holding
  <2> QED BY <2>1, LineParts, OrderedSuffix
<1>3. /\ queue' \in Seq(Nat)
      /\ \E f \in [1..Len(queue') -> 1..Len(queue)] :
           /\ \A i, j \in 1..Len(queue') : i < j => f[i] < f[j]
           /\ \A i \in 1..Len(queue') : queue'[i] = queue[f[i]]
  BY <1>1, <1>2, Dropping
<1>4. Line' = queue'
  <2>1. PICK z : z = <<>>
    OBVIOUS
  <2>2. Line' = z \o z \o queue'
    BY <1>1, <2>1 DEF Line
  <2>3. z \o z = z /\ z \o queue' = queue'
    BY <1>3, <2>1
  <2> QED BY <2>2, <2>3
<1> QED BY <1>2, <1>3, <1>4 DEF Ordered

\* What the writer holds goes to the end of the queue and is one put back.
LEMMA PutBackOrder ==
  Inv /\ OvertakenOnlyIfRequeued /\ (DWriterFail \/ DReaderEnd) => OvertakenOnlyIfRequeued'
<1> SUFFICES ASSUME Inv, Ordered(Line, requeued), DWriterFail \/ DReaderEnd
             PROVE  Ordered(Line', requeued')
  BY DEF OvertakenOnlyIfRequeued, Ordered
<1>1. /\ queue' = (IF held = None THEN queue ELSE Requeue(queue, held))
      /\ requeued' = (IF held = None THEN requeued ELSE requeued \cup {held})
      /\ written' = written /\ writer' \in {"dead", "none"}
  BY DEF DWriterFail, WriterFail, DReaderEnd, ReaderEnd, Inv, Holding
<1>2. Line' = written \o <<>> \o queue'
  BY <1>1 DEF Line
<1>3. queue \in Seq(Nat) /\ written \in Seq(Nat) /\ <<>> \in Seq(Nat)
  BY LineParts
<1> DEFINE rest == written \o <<>> \o queue
<1>4. rest \in Seq(Nat) /\ Ordered(rest, requeued)
  <2>1. CASE writer = "taken"
    <3>1. held \in Nat
      BY <2>1 DEF Inv, Types, Holding
    <3>2. Middle = <<held>>
      BY <2>1 DEF Middle
    <3>3. Len(written) + 1 \in 1..Len(Line) /\ rest = Without(Line, Len(written) + 1)
      <4>1. Line = written \o <<held>> \o queue
        BY <3>2, LineParts
      <4> QED BY <4>1, <3>1, <1>3, Abandoning, ZenonT(30)
    <3> HIDE DEF rest
    <3> QED BY <3>3, LineParts, OrderedWithout
  <2>2. CASE writer # "taken"
    <3>1. Middle = <<>>
      BY <2>2 DEF Middle
    <3> QED BY <3>1, LineParts
  <2> QED BY <2>1, <2>2
<1>5. Ordered(rest, requeued')
  BY <1>1, <1>4 DEF Ordered
<1>6. CASE held = None \/ ~ (Len(queue) < QueueSize)
  <2>1. queue' = queue
    BY <1>1, <1>6 DEF Requeue
  <2> QED BY <2>1, <1>2, <1>5
<1>7. CASE held # None /\ Len(queue) < QueueSize
  <2>1. queue' = Append(queue, held) /\ held \in requeued'
    BY <1>1, <1>7 DEF Requeue
  <2>2. held \in Nat
    BY <1>7 DEF Inv, Types
  <2>3. Line' = Append(rest, held)
    BY <2>1, <2>2, <1>2, <1>3, Queueing
  <2> HIDE DEF rest
  <2> QED BY <2>1, <2>2, <2>3, <1>4, <1>5, OrderedAppend
<1> QED BY <1>6, <1>7

\* The steps that move a message along the line.
LEMMA WriterOrder ==
  ASSUME Inv, ((WriterTake \/ WriterDone) /\ UNCHANGED histVars) \/ DWriterWrite
  PROVE  Line' = Line /\ requeued' = requeued
<1>0. requeued' = requeued
  BY DEF histVars, DWriterWrite
<1>1. CASE WriterTake /\ UNCHANGED histVars
  <2>1. /\ queue # <<>> /\ held' = Head(queue) /\ queue' = Tail(queue)
        /\ writer = "idle" /\ writer' = "taken" /\ written' = written
    BY <1>1 DEF WriterTake, histVars
  <2>2. Line' = written \o <<Head(queue)>> \o Tail(queue) /\ Line = written \o <<>> \o queue
    BY <2>1 DEF Line
  <2>3. written \in Seq(Nat) /\ queue \in Seq(Nat)
    BY LineParts
  <2>4. written \o <<Head(queue)>> \o Tail(queue) = written \o <<>> \o queue
    BY <2>1, <2>3, TakingUp, Zenon
  <2> QED BY <2>2, <2>4, <1>0
<1>2. CASE DWriterWrite
  <2>1. /\ written' = Append(written, held) /\ queue' = queue
        /\ writer = "taken" /\ writer' = "written"
    BY <1>2 DEF DWriterWrite, WriterWrite
  <2>2. Line' = Append(written, held) \o <<>> \o queue /\ Line = written \o <<held>> \o queue
    BY <2>1 DEF Line
  <2>3. held \in Nat
    BY <2>1 DEF Inv, Types, Holding
  <2>4. written \in Seq(Nat) /\ queue \in Seq(Nat)
    BY LineParts
  <2>5. Append(written, held) \o <<>> \o queue = written \o <<held>> \o queue
    BY <2>3, <2>4
  <2> QED BY <2>2, <2>5, <1>0
<1>3. CASE WriterDone /\ UNCHANGED histVars
  BY <1>0, <1>3 DEF WriterDone, histVars, Line
<1> QED BY <1>1, <1>2, <1>3

\* Messages leave in the order they were given to send, except those put back
\* after a failed or cancelled send: in the line of what is written, held and
\* queued only they come after a later one.
THEOREM OvertakenCorrect == DSpec => []OvertakenOnlyIfRequeued
<1>1. DInit => OvertakenOnlyIfRequeued
  <2> SUFFICES ASSUME DInit PROVE OvertakenOnlyIfRequeued
    OBVIOUS
  <2>1. Line = <<>>
    BY DEF DInit, Init, Line
  <2> QED BY <2>1 DEF OvertakenOnlyIfRequeued
<1>2. Inv /\ OvertakenOnlyIfRequeued /\ [DNext]_vars => OvertakenOnlyIfRequeued'
  <2> SUFFICES ASSUME Inv, OvertakenOnlyIfRequeued, [DNext]_vars
               PROVE  OvertakenOnlyIfRequeued'
    OBVIOUS
  <2>1. ASSUME Line' = Line, requeued' = requeued PROVE OvertakenOnlyIfRequeued'
    BY <2>1 DEF OvertakenOnlyIfRequeued
  <2>2. CASE \/ (Break \/ BeginStop \/ FinishStop) /\ UNCHANGED histVars
             \/ DPeerReceive \/ UNCHANGED vars
    <3>1. UNCHANGED <<queue, writer, held, written, requeued>>
      BY <2>2 DEF Break, BeginStop, FinishStop, DPeerReceive, histVars, vars, linkVars
    <3> QED BY <3>1, <2>1 DEF Line
  <2> QED BY <2>1, <2>2, SendOrder, ConnectOrder, PutBackOrder, WriterOrder DEF DNext
<1> QED BY <1>1, <1>2, DInitInv, DStepInv, PTL DEF DSpec
============================================================================
