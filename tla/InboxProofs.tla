---------------------------- MODULE InboxProofs ----------------------------
(***************************************************************************)
(* What Inbox guarantees for every queue size, with and without AUTH and   *)
(* announcements.  The invariant adds to the property that a relay which   *)
(* does not demand AUTH accepts what the bridge asks on a connection: with *)
(* that, the REQ is in the queue, in the writer's hands, on the wire or    *)
(* taken by the relay, unless a full queue has dropped it.                 *)
(***************************************************************************)
EXTENDS Inbox, QueueLemmas

Replies == {"AUTH", "OK", "EOSE", "CLOSED"}

Bounds == responses \in 0..MaxResponses /\ connects \in 0..MaxConnects

Flags == demands \in BOOLEAN /\ authed \in BOOLEAN /\ inbox \in BOOLEAN /\ shed \in BOOLEAN

Channels == /\ queue \in Seq(Frames) /\ Len(queue) <= QueueSize
            /\ held \in Frames \cup {None}
            /\ toPeer \in Seq(Frames) /\ fromPeer \in Seq(Replies)

Standing == /\ conn \in {"down", "up", "broken", "stopped"}
            /\ writer \in {"none", "idle", "taken", "written", "dead"}
            /\ stopping \in BOOLEAN
            /\ Link!LinkConsistent

\* A relay that demands no AUTH takes the connection as it is.
Welcome == conn = "up" => demands \/ authed

\* The REQ is somewhere on its way.
OnItsWay == \/ Has(toPeer, "REQ")
            \/ writer = "taken" /\ held = "REQ"
            \/ Has(queue, "REQ")

AskedFor == Carrying /\ ~ demands => inbox \/ OnItsWay

TInv == Bounds /\ Flags /\ Channels /\ Standing

IInv == TInv /\ Welcome /\ AskedFor

LEMMA TInvGivesType == TInv => TypeOK
BY DEF TInv, Bounds, Flags, Channels, Standing, Replies, TypeOK, Link!LinkTypeOK

LEMMA PendingForm ==
  ASSUME Channels, Standing
  PROVE  IsPending("REQ") <=> OnItsWay
<1> PICK p : p = toPeer
  OBVIOUS
<1> PICK mid : mid = IF writer = "taken" THEN <<held>> ELSE <<>>
  OBVIOUS
<1> PICK q : q = queue
  OBVIOUS
<1> PICK line : line = p \o mid \o q
  OBVIOUS
<1>1. p \in Seq(Frames) /\ q \in Seq(Frames)
  BY DEF Channels
<1>2. /\ mid \in Seq(Frames)
      /\ Has(mid, "REQ") <=> writer = "taken" /\ held = "REQ"
  <2>1. writer = "taken" => held \in Frames
    BY DEF Channels, Standing, Link!LinkConsistent
  <2> QED BY <2>1 DEF Has
<1>3. Has(line, "REQ") <=> Has(p, "REQ") \/ Has(mid, "REQ") \/ Has(q, "REQ")
  BY <1>1, <1>2, HasJoined
<1> QED BY <1>2, <1>3 DEF IsPending, Pending, OnItsWay, Has

LEMMA OnConnectedShape ==
  /\ OnConnected \in Seq(Frames) /\ Len(OnConnected) \in Nat \ {0} /\ OnConnected[1] = "REQ"
<1>1. CASE Announce
  <2> PICK a : a = <<"REQ">>
    OBVIOUS
  <2> PICK b : b = <<"EVENT", "EVENT">>
    OBVIOUS
  <2>1. /\ a \in Seq(Frames) /\ Len(a) = 1 /\ a[1] = "REQ"
        /\ b \in Seq(Frames) /\ Len(b) = 2
    BY DEF Frames
  <2>2. OnConnected = a \o b
    BY <1>1 DEF OnConnected
  <2> QED BY <2>1, <2>2
<1>2. CASE ~ Announce
  <2>1. OnConnected = <<"REQ">>
    BY <1>2 DEF OnConnected
  <2> QED BY <2>1 DEF Frames
<1> QED BY <1>1, <1>2

\* Whatever is put into the queue, it keeps its type and its size.
LEMMA PutKeeps ==
  ASSUME Channels, NEW ms \in Seq(Frames)
  PROVE  /\ Link!PutAll(queue, ms) \in Seq(Frames)
         /\ Len(Link!PutAll(queue, ms)) <= QueueSize
<1> PICK all : all = queue \o ms
  OBVIOUS
<1>1. all \in Seq(Frames) /\ QueueSize \in Nat
  BY InboxAssumption DEF Channels
<1>2. LastOf(all, QueueSize) \in Seq(Frames) /\ Len(LastOf(all, QueueSize)) <= QueueSize
  BY <1>1, KeepingLast
<1> QED BY <1>2 DEF Link!PutAll, LastOf

\* The queue keeps the newest QueueSize messages.
LEMMA PutHas ==
  ASSUME Channels, NEW ms \in Seq(Frames), NEW i \in 1..(Len(queue) + Len(ms)),
         i > Len(queue) + Len(ms) - QueueSize
  PROVE  Has(Link!PutAll(queue, ms), (queue \o ms)[i])
<1> PICK all : all = queue \o ms
  OBVIOUS
<1>1. all \in Seq(Frames) /\ QueueSize \in Nat /\ Len(all) = Len(queue) + Len(ms)
  BY InboxAssumption DEF Channels
<1>2. i \in 1..Len(all) /\ i > Len(all) - QueueSize
  BY <1>1
<1>3. Has(LastOf(all, QueueSize), all[i])
  BY <1>1, <1>2, HasAmongLast
<1> QED BY <1>3 DEF Link!PutAll, LastOf

LEMMA InitInv == Init => IInv
<1> SUFFICES ASSUME Init PROVE IInv
  OBVIOUS
<1>1. Bounds /\ Flags
  <2>1. 0 \in 0..MaxResponses /\ 0 \in 0..MaxConnects
    BY InboxAssumption
  <2>2. Flags
    BY DEF Init, Flags
  <2> QED BY <2>1, <2>2 DEF Init, Bounds
<1>2. Channels
  <2>1. <<>> \in Seq(Frames) /\ <<>> \in Seq(Replies) /\ Len(<<>>) = 0
    BY EmptySeq
  <2> QED BY <2>1, InboxAssumption DEF Init, Link!Init, Channels
<1>3. Standing /\ Welcome /\ AskedFor
  BY DEF Init, Link!Init, Standing, Link!LinkConsistent, Welcome, AskedFor, Carrying
<1> QED BY <1>1, <1>2, <1>3 DEF IInv, TInv

LEMMA BoundsStep == Bounds /\ [Next]_vars => Bounds'
<1> SUFFICES ASSUME Bounds, [Next]_vars PROVE Bounds'
  OBVIOUS
<1>1. /\ responses' = responses \/ (responses < MaxResponses /\ responses' = responses + 1)
      /\ connects' = connects \/ (connects < MaxConnects /\ connects' = connects + 1)
  BY DEF Next, Connects, Respond, Announces, LinkStep, BridgeReceives, RelayTakes, vars, boundVars
<1> QED BY <1>1, InboxAssumption DEF Bounds

LEMMA FlagsStep == Flags /\ [Next]_vars => Flags'
<1> SUFFICES ASSUME Flags, [Next]_vars PROVE Flags'
  OBVIOUS
<1>1. demands' = demands
  BY DEF Next, Connects, Respond, Announces, LinkStep, BridgeReceives, RelayTakes, vars, relayVars
<1>2. authed' \in BOOLEAN
  <2>1. authed' = authed \/ authed' = (~ demands) \/ authed' = (authed \/ Head(toPeer) = "AUTH")
    BY DEF Next, Connects, Respond, Announces, LinkStep, BridgeReceives, RelayTakes, vars, relayVars
  <2>2. (~ demands) \in BOOLEAN /\ (authed \/ Head(toPeer) = "AUTH") \in BOOLEAN /\ authed \in BOOLEAN
    BY DEF Flags
  <2> QED BY <2>1, <2>2, Zenon
<1>3. inbox' \in BOOLEAN
  <2>1. \/ inbox' = inbox \/ inbox' = FALSE
        \/ inbox' = (inbox \/ (Head(toPeer) = "REQ" /\ ~ (Head(toPeer) = "REQ" /\ ~ authed)))
    BY DEF Next, Connects, Respond, Announces, LinkStep, BridgeReceives, RelayTakes, vars, relayVars
  <2>2. (inbox \/ (Head(toPeer) = "REQ" /\ ~ (Head(toPeer) = "REQ" /\ ~ authed))) \in BOOLEAN
        /\ inbox \in BOOLEAN
    BY DEF Flags
  <2> QED BY <2>1, <2>2, Zenon
<1>4. shed' \in BOOLEAN
  <2>1. CASE shed' = shed
    BY <2>1 DEF Flags
  <2>2. CASE Connects
    BY <2>2 DEF Connects
  <2>3. CASE Respond
    <3>1. (shed \/ (Len(queue) = QueueSize /\ Head(queue) = "REQ")) \in BOOLEAN
      BY Zenon
    <3>2. shed' = (shed \/ (Len(queue) = QueueSize /\ Head(queue) = "REQ"))
      BY <2>3, Zenon DEF Respond
    <3> QED BY <3>1, <3>2, Zenon
  <2>4. CASE Announces
    <3> DEFINE lost == Len(queue) + 2 - QueueSize
               dropped == \E i \in 1..Len(queue) : i <= lost /\ queue[i] = "REQ"
    <3>1. shed' = (shed \/ dropped)
      BY <2>4, Zenon DEF Announces
    <3> HIDE DEF dropped
    <3>2. (shed \/ dropped) \in BOOLEAN
      BY Zenon
    <3> QED BY <3>1, <3>2, Zenon
  <2> QED BY <2>1, <2>2, <2>3, <2>4 DEF Next, LinkStep, BridgeReceives, RelayTakes, vars
<1> QED BY <1>1, <1>2, <1>3, <1>4 DEF Flags

LEMMA ChannelsStep == TInv /\ [Next]_vars => Channels'
<1> SUFFICES ASSUME TInv, [Next]_vars PROVE Channels'
  OBVIOUS
<1>0. /\ queue \in Seq(Frames) /\ toPeer \in Seq(Frames) /\ fromPeer \in Seq(Replies)
      /\ held \in Frames \cup {None} /\ Len(queue) <= QueueSize /\ Len(queue) \in Nat
      /\ QueueSize \in Nat \ {0} /\ Channels /\ None \notin Frames
  BY InboxAssumption DEF TInv, Channels
<1>1. ASSUME NEW ms \in Seq(Frames), queue' = Link!PutAll(queue, ms),
             UNCHANGED <<held, toPeer>>, fromPeer' \in Seq(Replies)
      PROVE  Channels'
  BY <1>0, <1>1, PutKeeps DEF Channels
<1>2. CASE Connects
  <2>1. <<"AUTH">> \in Seq(Replies) /\ <<>> \in Seq(Replies)
    BY DEF Replies
  <2> QED BY <1>1, <1>2, <2>1, OnConnectedShape DEF Connects
<1>3. CASE Respond
  <2>1. <<"EVENT">> \in Seq(Frames)
    BY DEF Frames
  <2> QED BY <1>0, <1>1, <1>3, <2>1 DEF Respond, Link!Send
<1>4. CASE Announces
  <2>1. <<"EVENT", "EVENT">> \in Seq(Frames)
    BY DEF Frames
  <2> QED BY <1>0, <1>1, <1>4, <2>1 DEF Announces
<1>5. CASE LinkStep
  <2>1. ASSUME queue' \in Seq(Frames), Len(queue') <= QueueSize, held' \in Frames \cup {None},
               toPeer' \in {toPeer, <<>>} \/ (toPeer' = Append(toPeer, held) /\ held \in Frames),
               \/ fromPeer' = fromPeer \/ fromPeer' = <<>>
               \/ \E n \in 0..Len(fromPeer) : fromPeer' = SubSeq(fromPeer, 1, n)
        PROVE  Channels'
    <3>1. fromPeer' \in Seq(Replies)
      <4>1. CASE fromPeer' = fromPeer \/ fromPeer' = <<>>
        BY <1>0, <4>1, EmptySeq
      <4>2. CASE \E n \in 0..Len(fromPeer) : fromPeer' = SubSeq(fromPeer, 1, n)
        BY <1>0, <4>2, PrefixTyped
      <4> QED BY <2>1, <4>1, <4>2
    <3>2. toPeer' \in Seq(Frames)
      <4>1. CASE toPeer' \in {toPeer, <<>>}
        <5>1. <<>> \in Seq(Frames)
          BY EmptySeq
        <5> QED BY <1>0, <4>1, <5>1, Zenon
      <4>2. CASE toPeer' = Append(toPeer, held) /\ held \in Frames
        BY <1>0, <4>2
      <4> QED BY <2>1, <4>1, <4>2
    <3> QED BY <2>1, <3>1, <3>2 DEF Channels
  <2>2. held # None => Link!Requeue(queue, held) \in Seq(Frames) /\ Len(Link!Requeue(queue, held)) <= QueueSize
    BY <1>0 DEF Link!Requeue
  <2>3. CASE Link!WriterTake
    <3>1. queue # <<>> /\ held' = Head(queue) /\ queue' = Tail(queue) /\ UNCHANGED <<toPeer, fromPeer>>
      BY <2>3 DEF Link!WriterTake
    <3>2. Head(queue) \in Frames /\ Tail(queue) \in Seq(Frames) /\ Len(Tail(queue)) <= QueueSize
      BY <1>0, <3>1
    <3> QED BY <2>1, <3>1, <3>2
  <2>4. CASE Link!WriterWrite
    <3>1. /\ held \in Frames /\ toPeer' = Append(toPeer, held)
          /\ UNCHANGED <<queue, held, fromPeer>>
      BY <1>0, <2>4 DEF Link!WriterWrite, TInv, Standing, Link!LinkConsistent
    <3> QED BY <1>0, <2>1, <3>1
  <2>5. CASE Link!WriterDone
    BY <1>0, <2>1, <2>5 DEF Link!WriterDone
  <2>6. CASE Link!WriterFail
    <3>1. /\ held # None /\ queue' = Link!Requeue(queue, held) /\ held' = None
          /\ UNCHANGED <<toPeer, fromPeer>>
      BY <2>6 DEF Link!WriterFail, TInv, Standing, Link!LinkConsistent
    <3> QED BY <2>1, <2>2, <3>1
  <2>7. CASE Link!Break
    BY <1>0, <2>1, <2>7 DEF Link!Break
  <2>8. CASE Link!ReaderEnd
    <3>1. /\ queue' = IF held = None THEN queue ELSE Link!Requeue(queue, held)
          /\ held' = None /\ fromPeer' = <<>> /\ UNCHANGED toPeer
      BY <2>8 DEF Link!ReaderEnd
    <3>2. queue' \in Seq(Frames) /\ Len(queue') <= QueueSize
      BY <1>0, <2>2, <3>1
    <3> QED BY <2>1, <3>1, <3>2
  <2>9. CASE Link!BeginStop
    BY <1>0, <2>1, <2>9 DEF Link!BeginStop
  <2>10. CASE Link!FinishStop
    BY <1>0, <2>1, <2>10 DEF Link!FinishStop
  <2> QED BY <1>5, <2>3, <2>4, <2>5, <2>6, <2>7, <2>8, <2>9, <2>10 DEF LinkStep, Link!WriterStep
<1>6. CASE BridgeReceives
  <2>1. /\ fromPeer # <<>> /\ fromPeer' = Tail(fromPeer) /\ UNCHANGED <<queue, held>>
        /\ toPeer' = toPeer \/ toPeer' = Append(toPeer, "AUTH")
    BY <1>6 DEF BridgeReceives, Link!ReaderReceive
  <2>2. Tail(fromPeer) \in Seq(Replies) /\ Append(toPeer, "AUTH") \in Seq(Frames)
    <3>1. "AUTH" \in Frames
      BY DEF Frames
    <3> QED BY <1>0, <2>1, <3>1
  <2> QED BY <1>0, <2>1, <2>2 DEF Channels
<1>7. CASE RelayTakes
  <2>1. /\ toPeer # <<>> /\ toPeer' = Tail(toPeer) /\ UNCHANGED <<queue, held>>
        /\ \E a \in {"OK", "EOSE", "CLOSED"} : fromPeer' = Append(fromPeer, a)
    BY <1>7 DEF RelayTakes, Link!PeerReceive, Link!PeerSend
  <2>2. Tail(toPeer) \in Seq(Frames) /\ \A a \in {"OK", "EOSE", "CLOSED"} : Append(fromPeer, a) \in Seq(Replies)
    <3>1. {"OK", "EOSE", "CLOSED"} \subseteq Replies
      BY DEF Replies
    <3> QED BY <1>0, <2>1, <3>1
  <2> QED BY <1>0, <2>1, <2>2 DEF Channels
<1>8. CASE UNCHANGED vars
  BY <1>0, <1>8 DEF vars, linkVars, Channels
<1> QED BY <1>2, <1>3, <1>4, <1>5, <1>6, <1>7, <1>8 DEF Next

LEMMA StandingStep == TInv /\ [Next]_vars => Standing'
<1> SUFFICES ASSUME TInv, [Next]_vars PROVE Standing'
  OBVIOUS
<1>0. Standing /\ queue \in Seq(Frames) /\ None \notin Frames
  BY InboxAssumption DEF TInv, Channels
<1> USE DEF Standing, Link!LinkConsistent
<1>1. CASE Connects
  BY <1>0, <1>1 DEF Connects
<1>2. CASE Respond \/ Announces \/ UNCHANGED vars
  BY <1>0, <1>2 DEF Respond, Link!Send, Announces, vars, linkVars
<1>3. CASE LinkStep
  <2>1. Link!WriterTake => held' # None
    <3>1. queue # <<>> => Head(queue) \in Frames
      BY <1>0
    <3> QED BY <1>0, <3>1 DEF Link!WriterTake
  <2>2. CASE Link!WriterStep
    BY <1>0, <2>1, <2>2 DEF Link!WriterStep, Link!WriterTake, Link!WriterWrite, Link!WriterDone,
                            Link!WriterFail
  <2>3. CASE Link!Break
    BY <1>0, <2>3 DEF Link!Break
  <2>4. CASE Link!ReaderEnd
    BY <1>0, <2>4 DEF Link!ReaderEnd
  <2>5. CASE Link!BeginStop
    BY <1>0, <2>5 DEF Link!BeginStop
  <2>6. CASE Link!FinishStop
    BY <1>0, <2>6 DEF Link!FinishStop
  <2> QED BY <1>3, <2>2, <2>3, <2>4, <2>5, <2>6 DEF LinkStep
<1>4. CASE BridgeReceives
  BY <1>0, <1>4 DEF BridgeReceives, Link!ReaderReceive
<1>5. CASE RelayTakes
  BY <1>0, <1>5 DEF RelayTakes, Link!PeerReceive, Link!PeerSend
<1> HIDE DEF Standing, Link!LinkConsistent
<1> QED BY <1>1, <1>2, <1>3, <1>4, <1>5 DEF Next

LEMMA TInvStep == TInv /\ [Next]_vars => TInv'
BY BoundsStep, FlagsStep, ChannelsStep, StandingStep DEF TInv

\* The state of a rendez-vous connection has its type, and its tasks agree.
THEOREM InboxTypeCorrect == Spec => []TypeOK
BY InitInv, TInvStep, TInvGivesType, PTL DEF Spec, IInv

----------------------------------------------------------------------------
LEMMA WelcomeStep == TInv /\ Welcome /\ [Next]_vars => Welcome'
<1> SUFFICES ASSUME TInv, Welcome, [Next]_vars, conn' = "up" PROVE demands' \/ authed'
  BY DEF Welcome
<1>1. CASE Connects
  BY <1>1 DEF Connects
<1>2. CASE Respond \/ Announces \/ LinkStep \/ BridgeReceives \/ UNCHANGED vars
  <2>1. UNCHANGED relayVars /\ conn = "up"
    BY <1>2 DEF Respond, Link!Send, Announces, LinkStep, Link!WriterStep, Link!WriterTake,
                Link!WriterWrite, Link!WriterDone, Link!WriterFail, Link!Break, Link!ReaderEnd,
                Link!BeginStop, Link!FinishStop, BridgeReceives, vars, linkVars
  <2> QED BY <2>1 DEF Welcome, relayVars
<1>3. CASE RelayTakes
  BY <1>3 DEF RelayTakes, Welcome
<1> QED BY <1>1, <1>2, <1>3 DEF Next

\* The REQ is not lost: it moves from the queue to the writer, to the wire, to
\* the relay.  What makes room for new messages is older than it, or shed.
LEMMA AskedForStep == IInv /\ [Next]_vars => AskedFor'
<1> SUFFICES ASSUME IInv, [Next]_vars, conn' = "up", writer' # "dead", ~ shed', ~ demands'
             PROVE  inbox' \/ OnItsWay'
  BY DEF AskedFor, Carrying
<1>0. /\ Channels /\ queue \in Seq(Frames) /\ toPeer \in Seq(Frames) /\ fromPeer \in Seq(Replies)
      /\ QueueSize \in Nat \ {0} /\ Len(queue) \in Nat /\ Len(queue) <= QueueSize
  BY InboxAssumption DEF IInv, TInv, Channels
<1>1. CASE Connects
  <2>1. /\ queue' = Link!PutAll(queue, OnConnected) /\ shed' = (Len(OnConnected) > QueueSize)
    BY <1>1 DEF Connects
  <2>2. ~ (Len(OnConnected) > QueueSize)
    BY <2>1, Zenon
  <2>3. /\ Len(queue) + 1 \in 1..(Len(queue) + Len(OnConnected))
        /\ Len(queue) + 1 > Len(queue) + Len(OnConnected) - QueueSize
    BY <1>0, <2>2, OnConnectedShape
  <2>4. (queue \o OnConnected)[Len(queue) + 1] = "REQ"
    BY <1>0, OnConnectedShape
  <2>5. Has(queue', "REQ")
    BY <1>0, <2>1, <2>3, <2>4, OnConnectedShape, PutHas
  <2> QED BY <2>5 DEF OnItsWay
<1>2. ASSUME conn = "up", writer # "dead", ~ shed, ~ demands PROVE inbox \/ OnItsWay
  BY <1>2 DEF IInv, AskedFor, Carrying
<1>3. ASSUME NEW ms \in Seq(Frames), queue' = Link!PutAll(queue, ms),
             UNCHANGED <<conn, writer, held, toPeer, relayVars>>, ~ shed,
             \A i \in 1..Len(queue) : queue[i] = "REQ" => i > Len(queue) + Len(ms) - QueueSize
      PROVE  inbox' \/ OnItsWay'
  <2>1. inbox \/ OnItsWay
    BY <1>2, <1>3 DEF relayVars
  <2>2. ASSUME Has(queue, "REQ") PROVE Has(queue', "REQ")
    <3>1. PICK i \in 1..Len(queue) : queue[i] = "REQ"
      BY <2>2 DEF Has
    <3>2. i \in 1..(Len(queue) + Len(ms)) /\ (queue \o ms)[i] = "REQ"
      BY <1>0, <3>1
    <3> QED BY <1>0, <1>3, <3>1, <3>2, PutHas
  <2> QED BY <1>3, <2>1, <2>2 DEF OnItsWay, relayVars
<1>4. CASE Respond
  <2>1. shed' = (shed \/ (Len(queue) = QueueSize /\ Head(queue) = "REQ"))
    BY <1>4 DEF Respond
  <2>2. ~ shed /\ ~ (Len(queue) = QueueSize /\ Head(queue) = "REQ")
    BY <2>1, Zenon
  <2>3. \A i \in 1..Len(queue) : queue[i] = "REQ" => i > Len(queue) + 1 - QueueSize
    BY <1>0, <2>2
  <2>4. <<"EVENT">> \in Seq(Frames) /\ Len(<<"EVENT">>) = 1
    BY DEF Frames
  <2>5. queue' = Link!PutAll(queue, <<"EVENT">>) /\ UNCHANGED <<conn, writer, held, toPeer, relayVars>>
    BY <1>4 DEF Respond, Link!Send
  <2> QED BY <1>3, <2>2, <2>3, <2>4, <2>5
<1>5. CASE Announces
  <2> DEFINE lost == Len(queue) + 2 - QueueSize
             dropped == \E i \in 1..Len(queue) : i <= lost /\ queue[i] = "REQ"
  <2>1. shed' = (shed \/ dropped)
    BY <1>5 DEF Announces
  <2>2. ~ shed /\ ~ dropped
    <3> HIDE DEF dropped
    <3> QED BY <2>1, Zenon
  <2>3. \A i \in 1..Len(queue) : queue[i] = "REQ" => i > Len(queue) + 2 - QueueSize
    BY <1>0, <2>2
  <2>4. <<"EVENT", "EVENT">> \in Seq(Frames) /\ Len(<<"EVENT", "EVENT">>) = 2
    BY DEF Frames
  <2>5. /\ queue' = Link!PutAll(queue, <<"EVENT", "EVENT">>)
        /\ UNCHANGED <<conn, writer, held, toPeer, relayVars>>
    BY <1>5 DEF Announces
  <2> QED BY <1>3, <2>2, <2>3, <2>4, <2>5
<1>6. CASE LinkStep
  <2>1. ~ shed /\ ~ demands /\ inbox' = inbox
    BY <1>6 DEF LinkStep, relayVars
  <2>2. CASE Link!WriterTake
    <3>1. /\ queue # <<>> /\ held' = Head(queue) /\ queue' = Tail(queue) /\ toPeer' = toPeer
          /\ writer = "idle" /\ writer' = "taken" /\ conn = "up"
      BY <2>2 DEF Link!WriterTake
    <3>2. Has(queue, "REQ") /\ Head(queue) # "REQ" => Has(queue', "REQ")
      BY <1>0, <3>1, HasTail
    <3> QED BY <1>2, <2>1, <3>1, <3>2 DEF OnItsWay
  <2>3. CASE Link!WriterWrite
    <3>1. /\ toPeer' = Append(toPeer, held) /\ UNCHANGED <<queue, conn, held>>
          /\ writer = "taken" /\ writer' = "written" /\ held \in Frames
      BY <2>3 DEF Link!WriterWrite, IInv, TInv, Channels, Standing, Link!LinkConsistent
    <3>2. Has(toPeer, "REQ") \/ held = "REQ" => Has(toPeer', "REQ")
      BY <1>0, <3>1, HasAppend
    <3> QED BY <1>2, <2>1, <3>1, <3>2 DEF OnItsWay
  <2>4. CASE Link!WriterDone
    BY <1>2, <2>1, <2>4 DEF Link!WriterDone, OnItsWay
  <2> QED BY <1>6, <2>2, <2>3, <2>4
          DEF LinkStep, Link!WriterStep, Link!WriterFail, Link!Break, Link!ReaderEnd,
              Link!BeginStop, Link!FinishStop, IInv, TInv, Standing, Link!LinkConsistent
<1>7. CASE BridgeReceives
  <2>1. /\ UNCHANGED <<queue, conn, writer, held, relayVars, shed>>
        /\ toPeer' = toPeer \/ toPeer' = Append(toPeer, "AUTH")
    BY <1>7 DEF BridgeReceives
  <2>2. Has(toPeer, "REQ") => Has(toPeer', "REQ")
    <3>1. "AUTH" \in Frames
      BY DEF Frames
    <3>2. Has(toPeer, "REQ") => Has(Append(toPeer, "AUTH"), "REQ")
      BY <1>0, <3>1, HasAppend
    <3> QED BY <2>1, <3>2
  <2> QED BY <1>2, <2>1, <2>2 DEF OnItsWay, relayVars
<1>8. CASE RelayTakes
  <2>1. /\ toPeer # <<>> /\ toPeer' = Tail(toPeer) /\ conn = "up"
        /\ UNCHANGED <<queue, conn, writer, held, demands, shed>>
        /\ inbox' = (inbox \/ (Head(toPeer) = "REQ" /\ ~ (Head(toPeer) = "REQ" /\ ~ authed)))
    BY <1>8 DEF RelayTakes, Link!PeerReceive
  <2>2. authed
    BY <2>1 DEF IInv, Welcome
  <2>3. inbox \/ Head(toPeer) = "REQ" => inbox'
    BY <2>1, <2>2, Zenon
  <2>4. Has(toPeer, "REQ") /\ Head(toPeer) # "REQ" => Has(toPeer', "REQ")
    BY <1>0, <2>1, HasTail
  <2> QED BY <1>2, <2>1, <2>3, <2>4 DEF OnItsWay
<1>9. CASE UNCHANGED vars
  BY <1>2, <1>9 DEF vars, linkVars, relayVars, OnItsWay
<1> QED BY <1>1, <1>4, <1>5, <1>6, <1>7, <1>8, <1>9 DEF Next

LEMMA StepInv == IInv /\ [Next]_vars => IInv'
BY TInvStep, WelcomeStep, AskedForStep DEF IInv

LEMMA AskedForIsOpen == IInv => InboxOpen
BY PendingForm DEF IInv, TInv, AskedFor, InboxOpen

\* The bridge can be reached: while a connection to a relay without AUTH carries
\* its traffic, the relay has the inbox subscription or is about to, for every
\* size of the queue that its own greeting fits and any number of responses.
THEOREM InboxStaysOpen == Spec => []InboxOpen
BY InitInv, StepInv, AskedForIsOpen, PTL DEF Spec
============================================================================
