---------------------------- MODULE SessionProofs ----------------------------
(***************************************************************************)
(* What a session guarantees whatever its connection, its relay and its    *)
(* client do, for any ids, queues and budget.  Its steps use the table by  *)
(* the table's operations, so that what is proved of the table holds of    *)
(* every session.  The rest is about one line of frames, from what the     *)
(* relay has not read over what the writer holds to what is queued: what   *)
(* its last word about an id is (no subscription is lost), and that no two *)
(* of its requests are the same (none is repeated).                        *)
(***************************************************************************)
EXTENDS Session, QueueLemmas

\* The table.  The inductive invariant adds one fact to its properties: an open
\* id has the rewritten id make_upstream_id gives it.
Deterministic == \A c \in ClientIds : toUpstream[c] \in {None, MakeUpstreamId(c)}

TableInv == TableTypeOK /\ TableInverse /\ Deterministic

\* The markers keep the two forms apart: distinct ids have the same rewritten
\* id only if both are long and their digests agree.
LEMMA MarkersSeparate ==
  ASSUME NEW c \in ClientIds, NEW d \in ClientIds,
         MakeUpstreamId(c) = MakeUpstreamId(d), c # d
  PROVE  c \in LongIds /\ d \in LongIds /\ Digest[c] = Digest[d]
BY DEF MakeUpstreamId

LEMMA IdInRange == \A c \in ClientIds : MakeUpstreamId(c) \in UpstreamIds
BY DEF UpstreamIds

\* The table's dictionaries agree at the start and every operation keeps it so.
LEMMA TableInitInv == TableInit => TableInv
BY TableAssumption DEF TableInit, TableInv, TableTypeOK, TableInverse, Deterministic

LEMMA TableOpenInv ==
  ASSUME TableInv, NEW c \in ClientIds, NEW v \in Verbs, NEW f \in Filters,
         OpenEntry(c, v, f)
  PROVE  TableInv'
<1> DEFINE up == MakeUpstreamId(c)
<1> USE TableAssumption, IdInRange
<1>1. up \in UpstreamIds /\ up # None /\ c # None
  OBVIOUS
<1>2. [verb |-> v, filter |-> f] \in Requests
  BY DEF Requests
<1>3. toClient[up] \in {None, c}
  <2>1. CASE c \in Open
    BY <2>1, <1>1 DEF TableInv, TableInverse, Deterministic, Open
  <2>2. CASE c \notin Open
    BY <2>2 DEF OpenEntry, MayOpen, Collides
  <2> QED BY <2>1, <2>2
<1>4. TableTypeOK'
  BY <1>1, <1>2 DEF TableInv, TableTypeOK, OpenEntry
<1>5. Deterministic'
  BY DEF TableInv, TableTypeOK, Deterministic, OpenEntry
<1>6. TableInverse'
  <2>1. ASSUME NEW d \in ClientIds, NEW u \in UpstreamIds
        PROVE  toUpstream'[d] = u <=> toClient'[u] = d
    <3>1. CASE d = c
      BY <3>1, <1>1 DEF TableInv, TableTypeOK, TableInverse, Deterministic, OpenEntry
    <3>2. CASE d # c /\ u = up
      BY <3>2, <1>1, <1>3 DEF TableInv, TableTypeOK, TableInverse, OpenEntry
    <3>3. CASE d # c /\ u # up
      BY <3>3 DEF TableInv, TableTypeOK, TableInverse, OpenEntry
    <3> QED BY <3>1, <3>2, <3>3
  <2>2. ASSUME NEW d \in ClientIds
        PROVE  toUpstream'[d] = None <=> request'[d] = None
    BY <1>1, <1>2 DEF TableInv, TableTypeOK, TableInverse, OpenEntry
  <2> QED BY <2>1, <2>2 DEF TableInverse
<1> QED BY <1>4, <1>5, <1>6 DEF TableInv

LEMMA TableCloseInv ==
  ASSUME TableInv, NEW c \in ClientIds, CloseEntry(c)
  PROVE  TableInv'
<1> USE TableAssumption
<1>1. toUpstream[c] = MakeUpstreamId(c) /\ toUpstream[c] \in UpstreamIds
  BY IdInRange DEF TableInv, TableTypeOK, Deterministic, CloseEntry, Open
<1>2. TableTypeOK' /\ Deterministic'
  BY <1>1 DEF TableInv, TableTypeOK, Deterministic, CloseEntry
<1>3. TableInverse'
  <2>1. ASSUME NEW d \in ClientIds, NEW u \in UpstreamIds
        PROVE  toUpstream'[d] = u <=> toClient'[u] = d
    BY <1>1 DEF TableInv, TableTypeOK, TableInverse, CloseEntry
  <2>2. ASSUME NEW d \in ClientIds
        PROVE  toUpstream'[d] = None <=> request'[d] = None
    BY DEF TableInv, TableTypeOK, TableInverse, CloseEntry
  <2> QED BY <2>1, <2>2 DEF TableInverse
<1> QED BY <1>2, <1>3 DEF TableInv

LEMMA TableClearInv ==
  ASSUME ClearTable
  PROVE  TableInv'
BY TableAssumption DEF ClearTable, TableInv, TableTypeOK, TableInverse, Deterministic

LEMMA TableStepInv == TableInv /\ [TableNext]_tableVars => TableInv'
<1> SUFFICES ASSUME TableInv, [TableNext]_tableVars PROVE TableInv'
  OBVIOUS
<1>1. ASSUME NEW c \in ClientIds, NEW v \in Verbs, NEW f \in Filters, OpenEntry(c, v, f)
      PROVE  TableInv'
  BY <1>1, TableOpenInv
<1>2. ASSUME NEW c \in ClientIds, CloseEntry(c)
      PROVE  TableInv'
  BY <1>2, TableCloseInv
<1>3. CASE ClearTable
  BY <1>3, TableClearInv
<1>4. CASE UNCHANGED tableVars
  BY <1>4 DEF tableVars, TableInv, TableTypeOK, TableInverse, Deterministic, MakeUpstreamId
<1> QED BY <1>1, <1>2, <1>3, <1>4 DEF TableNext

\* The values the table holds are of their types in every reachable state of
\* every table, whatever the ids, the digest and the budget.
THEOREM TypeCorrect == TableSpec => []TableTypeOK
<1>1. TableInv => TableTypeOK
  BY DEF TableInv
<1> QED BY <1>1, TableInitInv, TableStepInv, PTL DEF TableSpec

\* The dictionaries of the table are inverse to each other in every reachable
\* state: a relay message is routed to the one subscription that asked for it.
THEOREM InverseCorrect == TableSpec => []TableInverse
<1>1. TableInv => TableInverse
  BY DEF TableInv
<1> QED BY <1>1, TableInitInv, TableStepInv, PTL DEF TableSpec

\* The collision branch of open is reached by long ids with equal digests only.
THEOREM CollisionCorrect == TableSpec => []OnlyLongIdsCollide
<1>1. TableInv => OnlyLongIdsCollide
  <2> SUFFICES ASSUME TableInv, NEW c \in ClientIds, Collides(c)
               PROVE  c \in LongIds /\ \E d \in LongIds \ {c} : Digest[d] = Digest[c]
    BY DEF OnlyLongIdsCollide
  <2> DEFINE d == toClient[MakeUpstreamId(c)]
  <2>1. d \in ClientIds /\ d # c
    BY IdInRange DEF TableInv, TableTypeOK, Collides
  <2>2. toUpstream[d] = MakeUpstreamId(c)
    BY <2>1, IdInRange DEF TableInv, TableInverse
  <2>3. toUpstream[d] = MakeUpstreamId(d)
    BY <2>1, <2>2, IdInRange, TableAssumption DEF TableInv, Deterministic
  <2> QED BY <2>1, <2>2, <2>3, MarkersSeparate
<1> QED BY <1>1, TableInitInv, TableStepInv, PTL DEF TableSpec

\* A client's open subscriptions never exceed its budget.
THEOREM BudgetCorrect == TableSpec => []WithinBudget
<1>1. TableInit => WithinBudget
  <2> SUFFICES ASSUME TableInit PROVE WithinBudget
    OBVIOUS
  <2>1. Open = {}
    BY TableAssumption DEF TableInit, Open
  <2> QED BY <2>1, FS_EmptySet, TableAssumption DEF WithinBudget
<1>2. TableInv /\ WithinBudget /\ [TableNext]_tableVars => WithinBudget'
  <2> SUFFICES ASSUME TableInv, WithinBudget, [TableNext]_tableVars PROVE WithinBudget'
    OBVIOUS
  <2>1. IsFiniteSet(Open) /\ Cardinality(Open) \in Nat
    <3>1. Open \subseteq ClientIds
      BY DEF Open
    <3> QED BY <3>1, FS_Subset, FS_CardinalityType, TableAssumption
  <2>2. ASSUME Open' \subseteq Open PROVE WithinBudget'
    <3>1. Cardinality(Open') <= Cardinality(Open) /\ Cardinality(Open') \in Nat
      BY <2>1, <2>2, FS_Subset, FS_CardinalityType
    <3> QED BY <2>1, <3>1, TableAssumption DEF WithinBudget
  <2>3. ASSUME NEW c \in ClientIds, NEW v \in Verbs, NEW f \in Filters, OpenEntry(c, v, f)
        PROVE  WithinBudget'
    <3>1. Open' \subseteq Open \cup {c}
      BY <2>3 DEF TableInv, TableTypeOK, OpenEntry, Open
    <3>2. CASE c \in Open
      BY <3>1, <3>2, <2>2
    <3>3. CASE c \notin Open
      <4>1. Cardinality(Open) < MaxSubscriptions
        BY <2>1, <2>3, <3>3, TableAssumption DEF OpenEntry, MayOpen, OverBudget
      <4>2. IsFiniteSet(Open \cup {c}) /\ Cardinality(Open \cup {c}) = Cardinality(Open) + 1
        BY <2>1, <3>3, FS_AddElement
      <4>3. Cardinality(Open') <= Cardinality(Open \cup {c}) /\ Cardinality(Open') \in Nat
        BY <3>1, <4>2, FS_Subset, FS_CardinalityType
      <4> QED BY <2>1, <4>1, <4>2, <4>3, TableAssumption DEF WithinBudget
    <3> QED BY <3>2, <3>3
  <2>4. ASSUME NEW c \in ClientIds, CloseEntry(c) PROVE WithinBudget'
    <3>1. Open' \subseteq Open
      BY <2>4 DEF TableInv, TableTypeOK, CloseEntry, Open
    <3> QED BY <3>1, <2>2
  <2>5. CASE ClearTable
    <3>1. Open' = {}
      BY <2>5 DEF ClearTable, Open
    <3> QED BY <3>1, <2>2
  <2>6. CASE UNCHANGED tableVars
    BY <2>6 DEF tableVars, WithinBudget, Open
  <2> QED BY <2>3, <2>4, <2>5, <2>6 DEF TableNext
<1> QED BY <1>1, <1>2, TableInitInv, TableStepInv, PTL DEF TableSpec

----------------------------------------------------------------------------
\* The session.
Counting == asked \in Nat

LEMMA IdsOpened == ReqIds \cup CountIds \subseteq ClientIds
BY SessionAssumption

\* The steps that leave the table alone.
LEMMA TableUntouched ==
  ASSUME \/ ClientSendsOther \/ Connects \/ LinkStep \/ RelayTakes
         \/ \E u \in UpstreamIds : RelayCloses(u)
         \/ FlushTake \/ FlushDeliver \/ BeginClose \/ UNCHANGED vars
  PROVE  UNCHANGED tableVars
BY DEF ClientSendsOther, Connects, LinkStep, RelayTakes, RelayCloses, FlushTake,
       FlushDeliver, BeginClose, vars

\* A request of the client opens an entry, or is refused.
LEMMA AsksUsesTable ==
  ASSUME NEW c \in ClientIds, NEW verb \in Verbs, Counting, ClientAsks(c, verb)
  PROVE  [TableNext]_tableVars
<1>1. asked < MaxRequests
  BY DEF ClientAsks
<1>2. asked + 1 \in Filters
  BY <1>1, SessionAssumption DEF Counting
<1>3. OpenEntry(c, verb, asked + 1) \/ UNCHANGED tableVars
  BY DEF ClientAsks
<1> QED BY <1>2, <1>3 DEF TableNext

\* A CLOSE of the client ends an entry.
LEMMA ClosesUsesTable ==
  ASSUME NEW c \in ClientIds, ClientCloses(c)
  PROVE  TableNext
BY DEF ClientCloses, TableNext

\* A message of the relay ends an entry, or leaves the table alone.
LEMMA ReceivesUsesTable ==
  ASSUME BridgeReceives
  PROVE  [TableNext]_tableVars
<1>1. (\E c : CloseEntry(c)) \/ UNCHANGED tableVars
  BY DEF BridgeReceives
<1>2. ASSUME NEW c, CloseEntry(c) PROVE TableNext
  BY <1>2 DEF CloseEntry, Open, TableNext
<1> QED BY <1>1, <1>2

LEMMA AskedCounts == Counting /\ [Next]_vars => Counting'
<1> SUFFICES ASSUME Counting, [Next]_vars PROVE Counting'
  OBVIOUS
<1>1. asked' = asked + 1 \/ asked' = asked
  BY DEF Next, ClientAsks, ClientCloses, ClientSendsOther, Connects, LinkStep,
         BridgeReceives, RelayTakes, RelayCloses, FlushTake, FlushDeliver, BeginClose,
         FinishClose, vars, boundVars
<1> QED BY <1>1 DEF Counting

LEMMA StepUsesTable == Counting /\ [Next]_vars => [TableNext]_tableVars
<1> SUFFICES ASSUME Counting, [Next]_vars PROVE [TableNext]_tableVars
  OBVIOUS
<1>1. ASSUME NEW c \in ReqIds, ClientAsks(c, "REQ") PROVE [TableNext]_tableVars
  BY <1>1, IdsOpened, AsksUsesTable, SessionAssumption
<1>2. ASSUME NEW c \in CountIds, ClientAsks(c, "COUNT") PROVE [TableNext]_tableVars
  BY <1>2, IdsOpened, AsksUsesTable, SessionAssumption
<1>3. CASE FinishClose
  BY <1>3 DEF FinishClose, TableNext
<1> QED BY <1>1, <1>2, <1>3, ClosesUsesTable, ReceivesUsesTable, TableUntouched DEF Next

\* A session implements the specification of its table: whatever the relay
\* sends and however often the connection breaks, the dictionaries change by
\* open, close and clear only, and a refused open changes nothing.
THEOREM SessionImplementsTable == Spec => TableSpec
<1>1. Init => TableInit /\ Counting
  BY DEF Init, Counting
<1> QED BY <1>1, AskedCounts, StepUsesTable, PTL DEF Spec, TableSpec

\* In every session the dictionaries of the table agree.
THEOREM SessionTableInverse == Spec => []TableInverse
BY SessionImplementsTable, InverseCorrect, PTL

\* In every session a collision takes two long ids with one digest.
THEOREM SessionCollisions == Spec => []OnlyLongIdsCollide
BY SessionImplementsTable, CollisionCorrect, PTL

\* No session has more open subscriptions than the client's budget.
THEOREM SessionWithinBudget == Spec => []WithinBudget
BY SessionImplementsTable, BudgetCorrect, PTL

----------------------------------------------------------------------------
\* What is on a connection.  A frame about a subscription names a rewritten id;
\* its filter is one the client has used, so that a new request differs from
\* every message under way.  Only the COUNT ids are counted.
CountSubs == {MakeUpstreamId(c) : c \in CountIds}

Sent(n) == {m \in Frames : /\ m.verb = "EVENT" <=> m.sub = None
                           /\ m.verb \in {"REQ", "COUNT"} => m.filter \in 1..n
                           /\ m.verb = "COUNT" => m.sub \in CountSubs}

Answers == {m \in [verb : {"EOSE", "COUNT", "CLOSED", "OK"}, sub : UpstreamIds \cup {None}] :
              /\ m.verb = "OK" <=> m.sub = None
              /\ m.verb = "COUNT" => m.sub \in CountSubs}

ToClient == [verb : {"EOSE", "COUNT", "CLOSED", "OK", "NOTICE"}, sub : ClientIds \cup {None}]

Bounds == /\ asked \in 0..MaxRequests /\ events \in 0..MaxEvents
          /\ connects \in 0..MaxConnects

\* An open id has been asked for, and with COUNT only if it is a COUNT id.
Entries == \A c \in Open : /\ request[c].filter \in 1..asked
                           /\ request[c].verb = "COUNT" => c \in CountIds

IsChannel(q, h, to, from, M) == /\ q \in Seq(M) /\ Len(q) <= QueueSize
                                /\ h \in M \cup {None}
                                /\ to \in Seq(M) /\ from \in Seq(Answers)

Channels == IsChannel(queue, held, toPeer, fromPeer, Sent(asked))

Standing == /\ conn \in {"down", "up", "broken", "stopped"}
            /\ writer \in {"none", "idle", "taken", "written", "dead"}
            /\ stopping \in BOOLEAN
            /\ Link!LinkConsistent

Tasks == Standing /\ shed \in BOOLEAN /\ phase \in {"open", "closing", "closed"}

AtRelay == relaySubs \in [UpstreamIds -> 1..asked \cup {None}]

AtClient == /\ outbound \in Seq(ToClient) /\ Len(outbound) <= OutboundSize
            /\ batch \in Seq(ToClient) /\ Len(batch) <= MaxBatch
            /\ live \subseteq ReqIds /\ told \in BOOLEAN

IInv == /\ Bounds /\ TableInv /\ Entries /\ Channels /\ Tasks
        /\ AtRelay /\ AtClient

LEMMA InvGivesType == IInv => TypeOK
<1> SUFFICES ASSUME IInv PROVE TypeOK
  OBVIOUS
<1>1. /\ Sent(asked) \subseteq Frames
      /\ Answers \subseteq [verb : {"EOSE", "COUNT", "CLOSED", "OK"}, sub : UpstreamIds \cup {None}]
      /\ 1..asked \subseteq 1..MaxRequests
  <2>1. asked \in 0..MaxRequests /\ MaxRequests \in Nat
    BY SessionAssumption DEF IInv, Bounds
  <2>2. 1..asked \subseteq 1..MaxRequests
    BY <2>1
  <2>3. Sent(asked) \subseteq Frames
    BY DEF Sent
  <2>4. Answers \subseteq [verb : {"EOSE", "COUNT", "CLOSED", "OK"}, sub : UpstreamIds \cup {None}]
    BY DEF Answers
  <2> QED BY <2>2, <2>3, <2>4
<1>2. /\ queue \in Seq(Frames) /\ toPeer \in Seq(Frames)
      /\ fromPeer \in Seq([verb : {"EOSE", "COUNT", "CLOSED", "OK"}, sub : UpstreamIds \cup {None}])
  <2>1. queue \in Seq(Sent(asked)) /\ toPeer \in Seq(Sent(asked)) /\ fromPeer \in Seq(Answers)
    BY DEF IInv, Channels, IsChannel
  <2> QED BY <1>1, <2>1, SeqGrows
<1>3. Link!LinkTypeOK(Frames, [verb : {"EOSE", "COUNT", "CLOSED", "OK"},
                               sub : UpstreamIds \cup {None}])
  <2>1. Len(queue) <= QueueSize /\ held \in Frames \cup {None}
    BY <1>1 DEF IInv, Channels, IsChannel
  <2>2. /\ conn \in {"down", "up", "broken", "stopped"}
        /\ writer \in {"none", "idle", "taken", "written", "dead"} /\ stopping \in BOOLEAN
    BY DEF IInv, Tasks, Standing
  <2> QED BY <1>2, <2>1, <2>2 DEF Link!LinkTypeOK
<1>4. relaySubs \in [UpstreamIds -> 1..MaxRequests \cup {None}]
  BY <1>1 DEF IInv, AtRelay
<1>5. \A q \in {outbound, batch} :
        q \in Seq([verb : {"EOSE", "COUNT", "CLOSED", "OK", "NOTICE"},
                   sub : ClientIds \cup {None}])
  BY DEF IInv, AtClient, ToClient
<1> QED BY <1>3, <1>4, <1>5 DEF TypeOK, IInv, Bounds, TableInv, Tasks, Standing, AtClient

LEMMA InitInv == Init => IInv
<1> SUFFICES ASSUME Init PROVE IInv
  OBVIOUS
<1>1. TableInv /\ Open = {}
  BY TableInitInv, TableAssumption DEF Init, TableInit, Open
<1>2. Bounds /\ AtRelay
  BY SessionAssumption DEF Init, Bounds, AtRelay
<1>3. Channels /\ AtClient
  <2>1. /\ <<>> \in Seq(Sent(asked)) /\ <<>> \in Seq(Answers) /\ <<>> \in Seq(ToClient)
        /\ Len(<<>>) = 0
    BY EmptySeq
  <2> QED BY <2>1, SessionAssumption DEF Init, Link!Init, Channels, IsChannel, AtClient
<1>4. Tasks
  BY DEF Init, Link!Init, Tasks, Standing, Link!LinkConsistent
<1> QED BY <1>1, <1>2, <1>3, <1>4 DEF IInv, Entries

----------------------------------------------------------------------------
LEMMA SentGrows ==
  ASSUME NEW n \in Nat, NEW k \in Nat, n <= k
  PROVE  Sent(n) \subseteq Sent(k)
<1>1. \A i \in 1..n : i \in 1..k
  OBVIOUS
<1> QED BY <1>1 DEF Sent

\* What the session makes to be sent, and what the relay answers.
LEMMA Makes ==
  ASSUME NEW n \in 0..MaxRequests
  PROVE  /\ Other \in Sent(n)
         /\ \A u \in UpstreamIds : Frame("CLOSE", u, 0) \in Sent(n)
         /\ \A u \in UpstreamIds, f \in 1..n : Frame("REQ", u, f) \in Sent(n)
         /\ \A u \in CountSubs \cap UpstreamIds, f \in 1..n : Frame("COUNT", u, f) \in Sent(n)
<1>1. 0 \in 0..MaxRequests /\ \A f \in 1..n : f \in 0..MaxRequests
  BY SessionAssumption
<1>2. None \notin UpstreamIds
  BY TableAssumption
<1> QED BY <1>1, <1>2 DEF Sent, Frames, Frame, Other

LEMMA BoundsStep == IInv /\ [Next]_vars => Bounds' /\ asked <= asked' /\ asked \in Nat
<1> SUFFICES ASSUME IInv, [Next]_vars PROVE Bounds' /\ asked <= asked' /\ asked \in Nat
  OBVIOUS
<1>1. /\ asked \in 0..MaxRequests /\ events \in 0..MaxEvents /\ connects \in 0..MaxConnects
      /\ MaxRequests \in Nat /\ MaxEvents \in Nat /\ MaxConnects \in Nat
  BY SessionAssumption DEF IInv, Bounds
<1>2. /\ asked' = asked \/ (asked < MaxRequests /\ asked' = asked + 1)
      /\ events' = events \/ (events < MaxEvents /\ events' = events + 1)
      /\ connects' = connects \/ (connects < MaxConnects /\ connects' = connects + 1)
  BY DEF Next, ClientAsks, ClientCloses, ClientSendsOther, Connects, LinkStep,
         BridgeReceives, RelayTakes, RelayCloses, FlushTake, FlushDeliver, BeginClose,
         FinishClose, vars, boundVars
<1> QED BY <1>1, <1>2 DEF Bounds

LEMMA TableStep == IInv /\ [Next]_vars => TableInv'
BY StepUsesTable, TableStepInv DEF IInv, Bounds, Counting

\* A request is remembered with the filter it asked for.
LEMMA EntriesStep == IInv /\ [Next]_vars => Entries'
<1> SUFFICES ASSUME IInv, [Next]_vars, NEW c \in Open'
             PROVE  request'[c].filter \in 1..asked' /\ (request'[c].verb = "COUNT" => c \in CountIds)
  BY DEF Entries, Open
<1>1. asked \in Nat /\ asked' \in Nat /\ asked <= asked'
  BY BoundsStep DEF Bounds
<1>2. c \in ClientIds /\ toUpstream'[c] # None
  BY DEF Open
<1>3. ASSUME toUpstream[c] = toUpstream'[c], request'[c] = request[c]
      PROVE  request'[c].filter \in 1..asked' /\ (request'[c].verb = "COUNT" => c \in CountIds)
  BY <1>1, <1>2, <1>3 DEF IInv, Entries, Open
<1>4. ASSUME NEW d \in ClientIds, NEW verb \in Verbs, ClientAsks(d, verb),
             verb = "COUNT" => d \in CountIds
      PROVE  request'[c].filter \in 1..asked' /\ (request'[c].verb = "COUNT" => c \in CountIds)
  <2>1. CASE OpenEntry(d, verb, asked + 1)
    <3>1. asked' = asked + 1
      BY <1>4 DEF ClientAsks
    <3>2. CASE c = d
      <4>1. request'[c] = [verb |-> verb, filter |-> asked + 1]
        BY <2>1, <3>2 DEF OpenEntry, IInv, TableInv, TableTypeOK
      <4> QED BY <4>1, <3>1, <3>2, <1>1, <1>4
    <3>3. CASE c # d
      BY <1>2, <1>3, <2>1, <3>3 DEF OpenEntry, IInv, TableInv, TableTypeOK
    <3> QED BY <3>2, <3>3
  <2>2. CASE UNCHANGED tableVars
    BY <1>3, <2>2 DEF tableVars
  <2> QED BY <1>4, <2>1, <2>2 DEF ClientAsks
<1>5. ASSUME NEW d \in ClientIds, CloseEntry(d)
      PROVE  request'[c].filter \in 1..asked' /\ (request'[c].verb = "COUNT" => c \in CountIds)
  <2>1. c # d
    BY <1>2, <1>5 DEF CloseEntry, IInv, TableInv, TableTypeOK
  <2> QED BY <1>2, <1>3, <1>5, <2>1 DEF CloseEntry, IInv, TableInv, TableTypeOK
<1>6. CASE UNCHANGED tableVars
  BY <1>3, <1>6 DEF tableVars
<1>7. ASSUME ClearTable PROVE FALSE
  BY <1>2, <1>7 DEF ClearTable
<1>8. ASSUME BridgeReceives PROVE (\E d \in ClientIds : CloseEntry(d)) \/ UNCHANGED tableVars
  <2>1. (\E d : CloseEntry(d)) \/ UNCHANGED tableVars
    BY <1>8 DEF BridgeReceives
  <2> QED BY <2>1 DEF CloseEntry, Open
<1>9. ASSUME NEW d \in ReqIds, ClientAsks(d, "REQ")
      PROVE  request'[c].filter \in 1..asked' /\ (request'[c].verb = "COUNT" => c \in CountIds)
  BY <1>4, <1>9, IdsOpened, SessionAssumption
<1>10. ASSUME NEW d \in CountIds, ClientAsks(d, "COUNT")
       PROVE  request'[c].filter \in 1..asked' /\ (request'[c].verb = "COUNT" => c \in CountIds)
  BY <1>4, <1>10, IdsOpened, SessionAssumption
<1>11. CASE \E d \in ClientIds : ClientCloses(d)
  BY <1>5, <1>11 DEF ClientCloses
<1>12. CASE BridgeReceives
  BY <1>5, <1>6, <1>8, <1>12
<1>13. CASE FinishClose
  BY <1>7, <1>13 DEF FinishClose
<1>14. CASE \/ ClientSendsOther \/ Connects \/ LinkStep \/ RelayTakes
            \/ \E u \in UpstreamIds : RelayCloses(u)
            \/ FlushTake \/ FlushDeliver \/ BeginClose \/ UNCHANGED vars
  BY <1>6, <1>14, TableUntouched
<1> QED BY <1>9, <1>10, <1>11, <1>12, <1>13, <1>14 DEF Next

----------------------------------------------------------------------------
\* The steps of a connection pass on what it was given to send.
LEMMA SendKeeps ==
  ASSUME NEW M, IsChannel(queue, held, toPeer, fromPeer, M), NEW m \in M, Link!Send(m)
  PROVE  IsChannel(queue', held', toPeer', fromPeer', M)
<1>1. /\ queue' = LastOf(queue \o <<m>>, QueueSize)
      /\ UNCHANGED <<held, toPeer, fromPeer>>
  BY DEF Link!Send, Link!PutAll, LastOf
<1>2. queue \in Seq(M) /\ Len(queue) <= QueueSize /\ QueueSize \in Nat \ {0}
  BY SessionAssumption DEF IsChannel
<1>3. IsPut(LastOf(queue \o <<m>>, QueueSize), queue, m, QueueSize, M)
  <2>1. queue \in Seq(M)
    BY <1>2
  <2> QED BY <1>2, <2>1, PuttingOne, Zenon
<1> QED BY <1>1, <1>3 DEF IsPut, IsChannel

LEMMA WriterKeeps ==
  ASSUME NEW M, IsChannel(queue, held, toPeer, fromPeer, M), None \notin M,
         Link!LinkConsistent, Link!WriterStep
  PROVE  IsChannel(queue', held', toPeer', fromPeer', M)
<1>0. queue \in Seq(M) /\ toPeer \in Seq(M) /\ Len(queue) \in Nat /\ QueueSize \in Nat
  BY SessionAssumption DEF IsChannel
<1>1. CASE Link!WriterTake
  <2>1. queue # <<>> /\ held' = Head(queue) /\ queue' = Tail(queue)
        /\ UNCHANGED <<toPeer, fromPeer>>
    BY <1>1 DEF Link!WriterTake
  <2>2. Head(queue) \in M /\ Tail(queue) \in Seq(M) /\ Len(Tail(queue)) = Len(queue) - 1
    BY <1>0, <2>1
  <2>3. Len(queue') <= QueueSize
    BY <1>0, <2>1, <2>2 DEF IsChannel
  <2> QED BY <2>1, <2>2, <2>3 DEF IsChannel
<1>2. CASE Link!WriterWrite
  <2>1. toPeer' = Append(toPeer, held) /\ UNCHANGED <<queue, held, fromPeer>> /\ held \in M
    BY <1>2 DEF Link!WriterWrite, Link!LinkConsistent, IsChannel
  <2>2. Append(toPeer, held) \in Seq(M)
    BY <1>0, <2>1
  <2> QED BY <2>1, <2>2 DEF IsChannel
<1>3. CASE Link!WriterDone
  BY <1>3 DEF Link!WriterDone, IsChannel
<1>4. CASE Link!WriterFail
  <2>1. queue' = Link!Requeue(queue, held) /\ held' = None /\ UNCHANGED <<toPeer, fromPeer>>
        /\ held \in M
    BY <1>4 DEF Link!WriterFail, Link!LinkConsistent, IsChannel
  <2>2. queue' \in Seq(M) /\ Len(queue') <= QueueSize
    BY <1>0, <2>1 DEF Link!Requeue, IsChannel
  <2> QED BY <2>1, <2>2 DEF IsChannel
<1> QED BY <1>1, <1>2, <1>3, <1>4 DEF Link!WriterStep

LEMMA EndingKeeps ==
  ASSUME NEW M, IsChannel(queue, held, toPeer, fromPeer, M), None \notin M,
         Link!Break \/ Link!ReaderEnd \/ Link!BeginStop \/ Link!FinishStop
  PROVE  IsChannel(queue', held', toPeer', fromPeer', M)
<1>0. /\ queue \in Seq(M) /\ toPeer \in Seq(M) /\ fromPeer \in Seq(Answers)
      /\ Len(queue) \in Nat /\ QueueSize \in Nat
  BY SessionAssumption DEF IsChannel
<1>1. ASSUME UNCHANGED <<queue, held>>, toPeer' = toPeer \/ toPeer' = <<>>,
             \/ fromPeer' = fromPeer
             \/ \E n \in 0..Len(fromPeer) : fromPeer' = SubSeq(fromPeer, 1, n)
      PROVE  IsChannel(queue', held', toPeer', fromPeer', M)
  <2>1. fromPeer' \in Seq(Answers)
    BY <1>0, <1>1, PrefixTyped
  <2>2. toPeer' \in Seq(M)
    <3>1. toPeer' = toPeer \/ toPeer' = <<>>
      BY <1>1
    <3>2. <<>> \in Seq(M)
      BY EmptySeq
    <3> QED BY <1>0, <3>1, <3>2, Zenon
  <2> QED BY <1>1, <2>1, <2>2 DEF IsChannel
<1>2. CASE Link!Break
  BY <1>1, <1>2 DEF Link!Break
<1>3. CASE Link!BeginStop
  BY <1>1, <1>3 DEF Link!BeginStop
<1>4. CASE Link!FinishStop
  BY <1>1, <1>4 DEF Link!FinishStop
<1>5. CASE Link!ReaderEnd
  <2>1. /\ queue' = (IF held = None THEN queue ELSE Link!Requeue(queue, held)) /\ held' = None
        /\ fromPeer' = <<>> /\ UNCHANGED toPeer
    BY <1>5 DEF Link!ReaderEnd
  <2>2. queue' \in Seq(M) /\ Len(queue') <= QueueSize
    <3>1. CASE held = None
      BY <2>1, <3>1 DEF IsChannel
    <3>2. CASE held # None
      <4>1. held \in M
        BY <3>2 DEF IsChannel
      <4> QED BY <1>0, <2>1, <3>2, <4>1 DEF Link!Requeue, IsChannel
    <3> QED BY <3>1, <3>2
  <2>3. fromPeer' \in Seq(Answers)
    BY <2>1
  <2> QED BY <2>1, <2>2, <2>3 DEF IsChannel
<1> QED BY <1>2, <1>3, <1>4, <1>5

\* What a reconnect leaves in the queue: of what was queued, in its order, and
\* then the replayed requests, the last QueueSize of them all.
Kept == {i \in 1..Len(queue) : ~ IsSubscriptionTraffic(queue[i])}

IsReplayOrder(ids) == /\ ids \in [1..Cardinality(Open) -> Open]
                      /\ \A i, j \in DOMAIN ids : i # j => ids[i] # ids[j]

\* The connection counts as the session does.
LEMMA SameCardinality == \A S : Link!Cardinality(S) = Cardinality(S)
BY DEF Link!Cardinality, Cardinality

LEMMA ConnectsShape ==
  ASSUME Connects
  PROVE  \E keep, ids :
           /\ Enumerates(keep, Cardinality(Kept), Kept) /\ IsReplayOrder(ids)
           /\ queue' = LastOf(Picked(queue, keep) \o Replay(ids), QueueSize)
           /\ conn = "down" /\ ~ stopping /\ conn' = "up" /\ writer' = "idle"
           /\ UNCHANGED <<held, toPeer, fromPeer, stopping>>
<1>1. PICK keep, ids :
        /\ keep \in Link!Ascending(Kept) /\ IsReplayOrder(ids)
        /\ Link!Connect(Link!PutAll([i \in DOMAIN keep |-> queue[keep[i]]], Replay(ids)))
  BY DEF Connects, Kept, IsReplayOrder
<1>2. Enumerates(keep, Cardinality(Kept), Kept)
  <2>1. keep \in {f \in [1..Cardinality(Kept) -> Kept] :
                    \A i, j \in 1..Cardinality(Kept) : i < j => f[i] < f[j]}
    BY <1>1, SameCardinality DEF Link!Ascending
  <2>2. /\ keep \in [1..Cardinality(Kept) -> Kept]
        /\ \A i, j \in 1..Cardinality(Kept) : i < j => keep[i] < keep[j]
    BY <2>1
  <2> QED BY <2>2 DEF Enumerates
<1>3. Link!PutAll([i \in DOMAIN keep |-> queue[keep[i]]], Replay(ids))
        = LastOf(Picked(queue, keep) \o Replay(ids), QueueSize)
  BY DEF Link!PutAll, LastOf, Picked
<1> QED BY <1>1, <1>2, <1>3 DEF Link!Connect

\* A replayed request is one of the table.
LEMMA Replays ==
  ASSUME IInv, NEW ids, IsReplayOrder(ids)
  PROVE  /\ Replay(ids) \in Seq(Sent(asked)) /\ Len(Replay(ids)) = Cardinality(Open)
         /\ Cardinality(Open) \in Nat
         /\ \A i \in 1..Cardinality(Open) :
              /\ ids[i] \in Open
              /\ Replay(ids)[i] = Frame(request[ids[i]].verb, toUpstream[ids[i]],
                                        request[ids[i]].filter)
         /\ \A c \in Open : \E i \in 1..Cardinality(Open) : ids[i] = c
<1> DEFINE n == Cardinality(Open)
           word(c) == Frame(request[c].verb, toUpstream[c], request[c].filter)
<1>1. IsFiniteSet(Open) /\ n \in Nat
  <2>1. Open \subseteq ClientIds
    BY DEF Open
  <2> QED BY <2>1, FS_Subset, FS_CardinalityType, TableAssumption
<1>2. ids \in [1..n -> Open] /\ \A i, j \in 1..n : i # j => ids[i] # ids[j]
  BY DEF IsReplayOrder
<1>3. \A c \in Open : word(c) \in Sent(asked)
  <2> SUFFICES ASSUME NEW c \in Open PROVE word(c) \in Sent(asked)
    OBVIOUS
  <2>1. /\ c \in ClientIds /\ toUpstream[c] = MakeUpstreamId(c) /\ MakeUpstreamId(c) \in UpstreamIds
        /\ request[c] # None /\ request[c] \in Requests
    BY IdInRange DEF Open, IInv, TableInv, TableTypeOK, TableInverse, Deterministic
  <2>2. /\ request[c].verb \in {"REQ", "COUNT"} /\ request[c].filter \in 1..asked
        /\ request[c].verb = "COUNT" => c \in CountIds
    BY <2>1, SessionAssumption DEF IInv, Entries, Requests
  <2>3. request[c].verb = "COUNT" => toUpstream[c] \in CountSubs \cap UpstreamIds
    BY <2>1, <2>2 DEF CountSubs
  <2> QED BY <2>1, <2>2, <2>3, Makes DEF IInv, Bounds
<1>4. Replay(ids) = [i \in 1..n |-> word(ids[i])]
  BY <1>2 DEF Replay
<1>5. Replay(ids) \in Seq(Sent(asked)) /\ Len(Replay(ids)) = n
  <2> HIDE DEF word, n
  <2>1. Replay(ids) \in [1..n -> Sent(asked)]
    BY <1>2, <1>3, <1>4
  <2> QED BY <2>1, <1>1, SeqDef
<1>6. \A c \in Open : \E i \in 1..n : ids[i] = c
  <2>1. ids \in Injection(1..n, Open)
    BY <1>2 DEF Injection, IsInjective
  <2>2. IsFiniteSet(1..n) /\ Cardinality(1..n) = n
    BY <1>1, CountTo
  <2>3. ids \in Surjection(1..n, Open)
    BY <1>1, <2>1, <2>2, FS_Injection
  <2> QED BY <2>3 DEF Surjection
<1> QED BY <1>1, <1>2, <1>4, <1>5, <1>6

LEMMA ConnectKeeps ==
  ASSUME IInv, Connects
  PROVE  queue' \in Seq(Sent(asked)) /\ Len(queue') <= QueueSize
<1>1. PICK keep, ids :
        /\ Enumerates(keep, Cardinality(Kept), Kept) /\ IsReplayOrder(ids)
        /\ queue' = LastOf(Picked(queue, keep) \o Replay(ids), QueueSize)
  BY ConnectsShape
<1>2. queue \in Seq(Sent(asked)) /\ Kept \subseteq 1..Len(queue)
  BY DEF IInv, Channels, IsChannel, Kept
<1>3. Picked(queue, keep) \in Seq(Sent(asked))
  <2>1. IsSelection(Picked(queue, keep), queue, keep, Cardinality(Kept), Kept, Sent(asked))
    BY <1>1, <1>2, Selecting, Zenon
  <2> QED BY <2>1 DEF IsSelection
<1>4. Replay(ids) \in Seq(Sent(asked))
  BY <1>1, Replays
<1>5. PICK all : all = Picked(queue, keep) \o Replay(ids)
  OBVIOUS
<1>6. all \in Seq(Sent(asked))
  BY <1>3, <1>4, <1>5
<1>7. QueueSize \in Nat
  BY SessionAssumption
<1>8. LastOf(all, QueueSize) \in Seq(Sent(asked)) /\ Len(LastOf(all, QueueSize)) <= QueueSize
  BY <1>6, <1>7, KeepingLast, Zenon
<1> QED BY <1>1, <1>5, <1>8

LEMMA NoneIsNotSent == \A n : None \notin Sent(n)
BY SessionAssumption DEF Sent

\* The relay answers what it takes.
LEMMA Answering ==
  ASSUME NEW n \in 0..MaxRequests, NEW m \in Sent(n)
  PROVE  /\ Reply("OK", None) \in Answers
         /\ m.verb = "REQ" => Reply("EOSE", m.sub) \in Answers
         /\ m.verb = "COUNT" => Reply("COUNT", m.sub) \in Answers
         /\ \A u \in UpstreamIds : Reply("CLOSED", u) \in Answers
<1>1. m.verb \in {"REQ", "COUNT", "CLOSE", "EVENT"} /\ m.sub \in UpstreamIds \cup {None}
  BY DEF Sent, Frames
<1>2. m.verb \in {"REQ", "COUNT"} => m.sub # None
  BY DEF Sent
<1>3. m.verb = "COUNT" => m.sub \in CountSubs
  BY DEF Sent
<1>4. None \notin UpstreamIds
  BY TableAssumption
<1> QED BY <1>1, <1>2, <1>3, <1>4 DEF Answers, Reply

LEMMA ChannelsStep == IInv /\ [Next]_vars => Channels'
<1> SUFFICES ASSUME IInv, [Next]_vars PROVE Channels'
  OBVIOUS
<1> DEFINE M == Sent(asked')
<1>1. asked \in 0..MaxRequests /\ asked' \in 0..MaxRequests /\ asked <= asked'
  BY BoundsStep DEF IInv, Bounds
<1>2. IsChannel(queue, held, toPeer, fromPeer, M)
  <2>1. Sent(asked) \subseteq M
    BY <1>1, SentGrows
  <2>2. queue \in Seq(Sent(asked)) /\ toPeer \in Seq(Sent(asked))
    BY DEF IInv, Channels, IsChannel
  <2>3. queue \in Seq(M) /\ toPeer \in Seq(M)
    BY <2>1, <2>2, SeqGrows
  <2> QED BY <2>1, <2>3 DEF IInv, Channels, IsChannel
<1>3. None \notin M /\ Link!LinkConsistent
  BY NoneIsNotSent DEF IInv, Tasks, Standing
<1> SUFFICES IsChannel(queue', held', toPeer', fromPeer', M)
  BY DEF Channels, IsChannel
<1> HIDE DEF M
<1>4. CASE UNCHANGED linkVars
  BY <1>2, <1>4 DEF linkVars, IsChannel
<1>5. ASSUME NEW m \in M, Forward(m) PROVE IsChannel(queue', held', toPeer', fromPeer', M)
  BY <1>2, <1>5, SendKeeps DEF Forward
<1>6. ASSUME NEW c \in ClientIds, NEW verb \in Verbs, ClientAsks(c, verb),
             verb = "COUNT" => c \in CountIds
      PROVE  IsChannel(queue', held', toPeer', fromPeer', M)
  <2>1. CASE Forward(Frame(verb, MakeUpstreamId(c), asked + 1))
    <3>1. asked' = asked + 1 /\ asked + 1 \in 1..asked'
      <4>1. asked' = asked + 1
        BY <1>6 DEF ClientAsks
      <4> QED BY <4>1, <1>1
    <3>2. MakeUpstreamId(c) \in UpstreamIds /\ (verb = "COUNT" => MakeUpstreamId(c) \in CountSubs)
      BY <1>6 DEF CountSubs, UpstreamIds
    <3>3. verb \in {"REQ", "COUNT"}
      BY SessionAssumption
    <3>4. Frame(verb, MakeUpstreamId(c), asked + 1) \in M
      BY <1>1, <3>1, <3>2, <3>3, Makes DEF M
    <3> QED BY <1>5, <2>1, <3>4
  <2> QED BY <1>4, <1>6, <2>1 DEF ClientAsks
<1>7. CASE \E c \in ReqIds : ClientAsks(c, "REQ")
  BY <1>6, <1>7, IdsOpened, SessionAssumption
<1>8. CASE \E c \in CountIds : ClientAsks(c, "COUNT")
  BY <1>6, <1>8, IdsOpened, SessionAssumption
<1>9. ASSUME NEW c \in ClientIds, ClientCloses(c)
      PROVE  IsChannel(queue', held', toPeer', fromPeer', M)
  <2>1. toUpstream[c] \in UpstreamIds /\ Forward(Frame("CLOSE", toUpstream[c], 0))
    BY <1>9 DEF ClientCloses, CloseEntry, Open, IInv, TableInv, TableTypeOK
  <2>2. Frame("CLOSE", toUpstream[c], 0) \in M
    BY <1>1, <2>1, Makes DEF M
  <2> QED BY <1>5, <2>1, <2>2
<1>10. CASE ClientSendsOther
  <2>1. Other \in M
    BY <1>1, Makes DEF M
  <2> QED BY <1>4, <1>5, <1>10, <2>1 DEF ClientSendsOther
<1>11. CASE Connects
  <2>1. queue' \in Seq(Sent(asked)) /\ Len(queue') <= QueueSize
    BY <1>11, ConnectKeeps
  <2>2. Sent(asked) = M /\ UNCHANGED <<held, toPeer, fromPeer>>
    BY <1>11 DEF Connects, Link!Connect, M
  <2> QED BY <1>2, <2>1, <2>2 DEF IsChannel
<1>12. CASE LinkStep
  BY <1>2, <1>3, <1>12, WriterKeeps, EndingKeeps DEF LinkStep
<1>13. CASE BridgeReceives
  <2>1. fromPeer # <<>> /\ fromPeer' = Tail(fromPeer) /\ UNCHANGED <<queue, held, toPeer>>
    BY <1>13 DEF BridgeReceives, Link!ReaderReceive
  <2>2. fromPeer \in Seq(Answers)
    BY <1>2 DEF IsChannel
  <2>3. Tail(fromPeer) \in Seq(Answers)
    BY <2>1, <2>2
  <2> QED BY <1>2, <2>1, <2>3 DEF IsChannel
<1>14. CASE RelayTakes
  <2> DEFINE m == Head(toPeer)
             answer == CASE m.verb = "REQ" -> Reply("EOSE", m.sub)
                         [] m.verb = "COUNT" -> Reply("COUNT", m.sub)
                         [] OTHER -> Reply("OK", None)
  <2>1. /\ toPeer # <<>> /\ toPeer' = Tail(toPeer) /\ UNCHANGED <<queue, held>>
        /\ fromPeer' = fromPeer \/ fromPeer' = Append(fromPeer, answer)
    BY <1>14 DEF RelayTakes, Link!PeerReceive, Link!PeerSend
  <2>2. toPeer \in Seq(M) /\ fromPeer \in Seq(Answers)
    BY <1>2 DEF IsChannel
  <2>3. m \in M /\ Tail(toPeer) \in Seq(M)
    BY <2>1, <2>2
  <2>4. answer \in Answers
    <3> HIDE DEF m
    <3>1. /\ Reply("OK", None) \in Answers
          /\ m.verb = "REQ" => Reply("EOSE", m.sub) \in Answers
          /\ m.verb = "COUNT" => Reply("COUNT", m.sub) \in Answers
      BY <1>1, <2>3, Answering DEF M
    <3> QED BY <3>1
  <2> HIDE DEF answer
  <2>5. Append(fromPeer, answer) \in Seq(Answers)
    BY <2>2, <2>4
  <2> QED BY <1>2, <2>1, <2>2, <2>3, <2>5 DEF IsChannel
<1>15. ASSUME NEW u \in UpstreamIds, RelayCloses(u)
       PROVE  IsChannel(queue', held', toPeer', fromPeer', M)
  <2>1. fromPeer' = Append(fromPeer, Reply("CLOSED", u)) /\ UNCHANGED <<queue, held, toPeer>>
    BY <1>15 DEF RelayCloses, Link!PeerSend
  <2>2. fromPeer \in Seq(Answers) /\ Reply("CLOSED", u) \in Answers
    BY <1>1, <1>2, Makes, Answering DEF IsChannel
  <2>3. Append(fromPeer, Reply("CLOSED", u)) \in Seq(Answers)
    BY <2>2
  <2> QED BY <1>2, <2>1, <2>3 DEF IsChannel
<1>16. CASE FlushTake \/ FlushDeliver \/ UNCHANGED vars
  BY <1>4, <1>16 DEF FlushTake, FlushDeliver, vars
<1>17. CASE BeginClose \/ FinishClose
  BY <1>2, <1>3, <1>17, EndingKeeps DEF BeginClose, FinishClose
<1> QED BY <1>7, <1>8, <1>9, <1>10, <1>11, <1>12, <1>13, <1>14, <1>15, <1>16, <1>17 DEF Next

LEMMA TasksStep == IInv /\ [Next]_vars => Tasks'
<1> SUFFICES ASSUME IInv, [Next]_vars PROVE Tasks'
  OBVIOUS
<1>0. Tasks /\ queue \in Seq(Sent(asked)) /\ None \notin Sent(asked)
  BY NoneIsNotSent DEF IInv, Channels, IsChannel
<1>1. shed' \in BOOLEAN
  <2>1. ASSUME NEW m, Forward(m) PROVE shed' \in BOOLEAN
    <3>1. (shed \/ (Len(queue) = QueueSize /\ IsSubscriptionTraffic(Head(queue)))) \in BOOLEAN
      BY Zenon
    <3>2. shed' = (shed \/ (Len(queue) = QueueSize /\ IsSubscriptionTraffic(Head(queue))))
      BY <2>1, Zenon DEF Forward
    <3> QED BY <3>1, <3>2, Zenon
  <2>2. CASE Connects
    BY <2>2 DEF Connects
  <2>3. CASE shed' = shed
    BY <1>0, <2>3 DEF Tasks
  <2> QED BY <2>1, <2>2, <2>3
          DEF Next, ClientAsks, ClientCloses, ClientSendsOther, LinkStep, BridgeReceives,
              RelayTakes, RelayCloses, FlushTake, FlushDeliver, BeginClose, FinishClose, vars
<1>2. phase' \in {"open", "closing", "closed"}
  BY <1>0 DEF Tasks, Next, ClientAsks, ClientCloses, ClientSendsOther, Connects, LinkStep,
              BridgeReceives, RelayTakes, RelayCloses, FlushTake, FlushDeliver, BeginClose,
              FinishClose, vars
<1> SUFFICES Standing'
  BY <1>1, <1>2 DEF Tasks
<1> USE DEF Tasks, Standing, Link!LinkConsistent
<1>3. CASE UNCHANGED <<conn, writer, held, toPeer, fromPeer, stopping>>
  BY <1>0, <1>3
<1>4. CASE \/ \E c \in ReqIds : ClientAsks(c, "REQ")
           \/ \E c \in CountIds : ClientAsks(c, "COUNT")
           \/ \E c \in ClientIds : ClientCloses(c)
           \/ ClientSendsOther \/ FlushTake \/ FlushDeliver \/ UNCHANGED vars
  BY <1>3, <1>4 DEF ClientAsks, ClientCloses, ClientSendsOther, Forward, Link!Send, FlushTake,
                    FlushDeliver, vars, linkVars
<1>5. CASE Connects
  BY <1>0, <1>5, ConnectsShape
<1>6. CASE LinkStep
  <2>1. Link!WriterTake => held' # None
    <3>1. queue # <<>> => Head(queue) \in Sent(asked)
      BY <1>0
    <3> QED BY <1>0, <3>1 DEF Link!WriterTake
  <2>2. CASE Link!WriterStep
    BY <1>0, <2>1, <2>2 DEF Link!WriterStep, Link!WriterTake, Link!WriterWrite, Link!WriterDone,
                            Link!WriterFail
  <2>3. CASE Link!Break
    BY <1>0, <2>3 DEF Link!Break
  <2>4. CASE Link!ReaderEnd
    BY <1>0, <2>4 DEF Link!ReaderEnd
  <2> QED BY <1>6, <2>2, <2>3, <2>4 DEF LinkStep
<1>7. CASE BridgeReceives
  BY <1>0, <1>7 DEF BridgeReceives, Link!ReaderReceive
<1>8. CASE RelayTakes
  BY <1>0, <1>8 DEF RelayTakes, Link!PeerReceive, Link!PeerSend
<1>9. CASE \E u \in UpstreamIds : RelayCloses(u)
  BY <1>0, <1>9 DEF RelayCloses, Link!PeerSend
<1>10. CASE BeginClose
  BY <1>0, <1>10 DEF BeginClose, Link!BeginStop
<1>11. CASE FinishClose
  BY <1>0, <1>11 DEF FinishClose, Link!FinishStop
<1> HIDE DEF Tasks, Standing, Link!LinkConsistent
<1> QED BY <1>4, <1>5, <1>6, <1>7, <1>8, <1>9, <1>10, <1>11 DEF Next

\* The relay holds filters the client has asked for.
LEMMA AtRelayStep == IInv /\ [Next]_vars => AtRelay'
<1> SUFFICES ASSUME IInv, [Next]_vars PROVE AtRelay'
  OBVIOUS
<1>1. relaySubs \in [UpstreamIds -> 1..asked' \cup {None}]
  <2>1. asked \in Nat /\ asked' \in Nat /\ asked <= asked'
    BY BoundsStep DEF Bounds
  <2>2. 1..asked \subseteq 1..asked'
    BY <2>1
  <2> QED BY <2>2 DEF IInv, AtRelay
<1>2. CASE relaySubs' = relaySubs
  BY <1>1, <1>2 DEF AtRelay
<1>3. CASE Connects
  BY <1>3 DEF Connects, AtRelay
<1>4. CASE RelayTakes
  <2> DEFINE m == Head(toPeer)
  <2>1. /\ toPeer # <<>> /\ asked' = asked
        /\ relaySubs' = CASE m.verb = "REQ" -> [relaySubs EXCEPT ![m.sub] = m.filter]
                          [] m.verb = "CLOSE" -> [relaySubs EXCEPT ![m.sub] = None]
                          [] OTHER -> relaySubs
    BY <1>4 DEF RelayTakes, Link!PeerReceive, boundVars
  <2>2. m \in Sent(asked)
    <3>1. toPeer \in Seq(Sent(asked))
      BY DEF IInv, Channels, IsChannel
    <3> QED BY <2>1, <3>1
  <2>3. m.verb = "REQ" => m.filter \in 1..asked
    BY <2>2 DEF Sent
  <2> HIDE DEF m
  <2> QED BY <1>1, <2>1, <2>3 DEF AtRelay
<1>5. CASE \E u \in UpstreamIds : RelayCloses(u)
  BY <1>1, <1>5 DEF RelayCloses, AtRelay
<1> QED BY <1>2, <1>3, <1>4, <1>5
     DEF Next, ClientAsks, ClientCloses, ClientSendsOther, LinkStep, BridgeReceives, FlushTake,
         FlushDeliver, BeginClose, FinishClose, vars

\* A message for the client fits the outbound queue or is dropped.
LEMMA Enqueues ==
  ASSUME AtClient, NEW m \in ToClient, Enqueue(m)
  PROVE  AtClient'
<1>1. outbound \in Seq(ToClient) /\ Len(outbound) \in Nat /\ OutboundSize \in Nat
  BY SessionAssumption DEF AtClient
<1>2. CASE Len(outbound) < OutboundSize
  <2>1. outbound' = Append(outbound, m) /\ UNCHANGED <<batch, live, told>>
    BY <1>2 DEF Enqueue
  <2>2. Append(outbound, m) \in Seq(ToClient) /\ Len(Append(outbound, m)) <= OutboundSize
    BY <1>1, <1>2
  <2> QED BY <2>1, <2>2 DEF AtClient
<1>3. CASE ~ (Len(outbound) < OutboundSize)
  BY <1>3 DEF Enqueue, AtClient
<1> QED BY <1>2, <1>3

LEMMA AtClientStep == IInv /\ [Next]_vars => AtClient'
<1> SUFFICES ASSUME IInv, [Next]_vars PROVE AtClient'
  OBVIOUS
<1>0. AtClient /\ outbound \in Seq(ToClient) /\ batch \in Seq(ToClient) /\ MaxBatch \in Nat \ {0}
  BY SessionAssumption DEF IInv, AtClient
<1>1. ASSUME UNCHANGED <<outbound, batch, told>>, live' \subseteq ReqIds PROVE AtClient'
  BY <1>0, <1>1 DEF AtClient
<1>2. ASSUME NEW c \in ClientIds, NEW verb \in Verbs, ClientAsks(c, verb),
             verb = "REQ" => c \in ReqIds
      PROVE  AtClient'
  <2>1. Reply("CLOSED", c) \in ToClient
    BY DEF Reply, ToClient
  <2>2. CASE Enqueue(Reply("CLOSED", c))
    BY <1>0, <2>1, <2>2, Enqueues
  <2>3. CASE /\ live' = IF verb = "REQ" THEN live \cup {c} ELSE live
             /\ UNCHANGED <<outbound, batch, told>>
    BY <1>0, <1>1, <1>2, <2>3 DEF AtClient
  <2> QED BY <1>2, <2>2, <2>3 DEF ClientAsks
<1>3. CASE \E c \in ReqIds : ClientAsks(c, "REQ")
  BY <1>2, <1>3, IdsOpened, SessionAssumption
<1>4. CASE \E c \in CountIds : ClientAsks(c, "COUNT")
  BY <1>2, <1>4, IdsOpened, SessionAssumption
<1>5. CASE \E c \in ClientIds : ClientCloses(c)
  BY <1>0, <1>1, <1>5 DEF ClientCloses, AtClient
<1>6. CASE ClientSendsOther
  <2>1. Notice \in ToClient
    BY DEF Notice, ToClient
  <2>2. Enqueue(Notice) \/ UNCHANGED clientVars
    BY <1>6 DEF ClientSendsOther
  <2> QED BY <1>0, <1>1, <2>1, <2>2, Enqueues DEF clientVars, AtClient
<1>7. CASE BridgeReceives
  <2> DEFINE m == Head(fromPeer)
  <2>1. fromPeer # <<>> /\ fromPeer \in Seq(Answers)
    BY <1>7 DEF BridgeReceives, Link!ReaderReceive, IInv, Channels, IsChannel
  <2>2. m \in Answers
    BY <2>1
  <2>3. \/ m.sub = None /\ Enqueue(m)
        \/ UNCHANGED clientVars
        \/ m.sub # None /\ toClient[m.sub] # None /\ Enqueue(Reply(m.verb, toClient[m.sub]))
    BY <1>7 DEF BridgeReceives
  <2> HIDE DEF m
  <2>4. CASE m.sub = None /\ Enqueue(m)
    <3>1. m \in ToClient
      BY <2>2, <2>4 DEF Answers, ToClient
    <3> QED BY <1>0, <2>4, <3>1, Enqueues
  <2>5. CASE UNCHANGED clientVars
    BY <1>0, <1>1, <2>5 DEF clientVars, AtClient
  <2>6. CASE m.sub # None /\ toClient[m.sub] # None /\ Enqueue(Reply(m.verb, toClient[m.sub]))
    <3>1. m.sub \in UpstreamIds /\ m.verb \in {"EOSE", "COUNT", "CLOSED", "OK"}
      BY <2>2, <2>6 DEF Answers
    <3>2. toClient[m.sub] \in ClientIds
      BY <2>6, <3>1 DEF IInv, TableInv, TableTypeOK
    <3>3. Reply(m.verb, toClient[m.sub]) \in ToClient
      BY <3>1, <3>2 DEF Reply, ToClient
    <3> QED BY <1>0, <2>6, <3>3, Enqueues
  <2> QED BY <2>3, <2>4, <2>5, <2>6
<1>8. CASE FlushTake
  <2>1. /\ outbound # <<>> /\ Len(batch) < MaxBatch
        /\ batch' = Append(batch, Head(outbound)) /\ outbound' = Tail(outbound)
        /\ UNCHANGED <<live, told>>
    BY <1>8 DEF FlushTake
  <2>2. /\ Head(outbound) \in ToClient /\ Tail(outbound) \in Seq(ToClient)
        /\ Len(Tail(outbound)) = Len(outbound) - 1 /\ Len(outbound) \in Nat
    BY <1>0, <2>1
  <2>3. Append(batch, Head(outbound)) \in Seq(ToClient)
        /\ Len(Append(batch, Head(outbound))) <= MaxBatch
    BY <1>0, <2>1, <2>2
  <2>4. Len(Tail(outbound)) <= OutboundSize
    BY <1>0, <2>2, SessionAssumption DEF AtClient
  <2> QED BY <1>0, <2>1, <2>2, <2>3, <2>4 DEF AtClient
<1>9. CASE FlushDeliver
  <2>1. batch' = <<>> /\ live' \subseteq live /\ UNCHANGED <<outbound, told>>
    BY <1>9 DEF FlushDeliver
  <2> QED BY <1>0, <2>1, EmptySeq DEF AtClient
<1>10. CASE BeginClose
  <2>1. batch' = <<>> /\ UNCHANGED <<outbound, live, told>>
    BY <1>10 DEF BeginClose
  <2> QED BY <1>0, <2>1, EmptySeq DEF AtClient
<1>11. CASE UNCHANGED clientVars
  BY <1>0, <1>1, <1>11 DEF clientVars, AtClient
<1>12. CASE Connects \/ LinkStep \/ RelayTakes \/ (\E u \in UpstreamIds : RelayCloses(u))
            \/ FinishClose \/ UNCHANGED vars
  BY <1>11, <1>12 DEF Connects, LinkStep, RelayTakes, RelayCloses, FinishClose, vars
<1> QED BY <1>3, <1>4, <1>5, <1>6, <1>7, <1>8, <1>9, <1>10, <1>12 DEF Next

LEMMA StepInv == IInv /\ [Next]_vars => IInv'
BY BoundsStep, TableStep, EntriesStep, ChannelsStep, TasksStep, AtRelayStep, AtClientStep DEF IInv

\* The state of a session has its type: the queues keep their bounds, what is
\* on the connection is a frame, and the connection's tasks agree.
THEOREM SessionTypeCorrect == Spec => []TypeOK
BY InitInv, StepInv, InvGivesType, PTL DEF Spec

----------------------------------------------------------------------------
\* The last word a line of frames p says about u, to a relay that holds r, is f:
\* SettlesAs of any line.
Speaks(m, u) == m.sub = u /\ m.verb # "COUNT"
WordIs(m, f) == IF m.verb = "REQ" THEN m.filter = f ELSE f = None

Settled(p, r, u, f) ==
  \/ r[u] = f /\ \A i \in 1..Len(p) : ~ Speaks(p[i], u)
  \/ \E i \in 1..Len(p) : /\ Speaks(p[i], u) /\ WordIs(p[i], f)
                          /\ \A j \in 1..Len(p) : Speaks(p[j], u) => j <= i

LEMMA SettledForm == \A u, f : SettlesAs(u, f) <=> Settled(Pending, relaySubs, u, f)
<1> SUFFICES ASSUME NEW u, NEW f PROVE SettlesAs(u, f) <=> Settled(Pending, relaySubs, u, f)
  OBVIOUS
<1> DEFINE about == {i \in 1..Len(Pending) : Pending[i].sub = u /\ Pending[i].verb # "COUNT"}
<1>1. \A i \in 1..Len(Pending) : i \in about <=> Speaks(Pending[i], u)
  BY DEF Speaks
<1>2. about = {} <=> \A i \in 1..Len(Pending) : ~ Speaks(Pending[i], u)
  BY <1>1
<1>3. SettlesAs(u, f) <=> IF about = {} THEN relaySubs[u] = f
                          ELSE \E i \in about : (\A j \in about : j <= i) /\ WordIs(Pending[i], f)
  BY DEF SettlesAs, WordIs
<1>4. \A i \in about : i \in 1..Len(Pending)
  OBVIOUS
<1> HIDE DEF about
<1> QED BY <1>1, <1>2, <1>3, <1>4 DEF Settled

LEMMA SettledAppend ==
  ASSUME NEW S, NEW p \in Seq(S), NEW x \in S, NEW r, NEW u, NEW f,
         \/ Settled(p, r, u, f) /\ ~ Speaks(x, u)
         \/ Speaks(x, u) /\ WordIs(x, f)
  PROVE  Settled(Append(p, x), r, u, f)
<1> PICK a : a = Append(p, x)
  OBVIOUS
<1>1. /\ Len(a) = Len(p) + 1 /\ Len(p) \in Nat /\ a[Len(p) + 1] = x
      /\ \A i \in 1..Len(p) : a[i] = p[i]
  OBVIOUS
<1>2. \A i \in 1..Len(a) : i \in 1..Len(p) \/ i = Len(p) + 1
  BY <1>1
<1>3. \A i \in 1..Len(p) : i \in 1..Len(a)
  BY <1>1
<1>4. CASE Settled(p, r, u, f) /\ ~ Speaks(x, u)
  BY <1>1, <1>2, <1>3, <1>4 DEF Settled
<1>5. CASE Speaks(x, u) /\ WordIs(x, f)
  <2>1. Len(p) + 1 \in 1..Len(a) /\ \A j \in 1..Len(a) : j <= Len(p) + 1
    BY <1>1
  <2> QED BY <1>1, <1>5, <2>1 DEF Settled
<1> QED BY <1>4, <1>5

LEMMA SettledWithout ==
  ASSUME NEW S, NEW p \in Seq(S), NEW k \in 1..Len(p), NEW r, NEW u, NEW f,
         Settled(p, r, u, f), ~ Speaks(p[k], u)
  PROVE  Settled(Without(p, k), r, u, f)
<1> PICK a : a = Without(p, k)
  OBVIOUS
<1>1. Len(p) \in Nat
  OBVIOUS
<1>2. /\ a \in Seq(S) /\ Len(a) = Len(p) - 1
      /\ \A i \in 1..Len(a) : IF i < k THEN i \in 1..Len(p) /\ a[i] = p[i]
                                      ELSE i + 1 \in 1..Len(p) /\ a[i] = p[i + 1]
      /\ \A i \in 1..Len(p) : /\ i < k => i \in 1..Len(a) /\ a[i] = p[i]
                              /\ i > k => i - 1 \in 1..Len(a) /\ a[i - 1] = p[i]
  BY TakingOut
<1>4. CASE r[u] = f /\ \A i \in 1..Len(p) : ~ Speaks(p[i], u)
  BY <1>2, <1>4 DEF Settled
<1>5. ASSUME NEW i \in 1..Len(p), Speaks(p[i], u), WordIs(p[i], f),
             \A j \in 1..Len(p) : Speaks(p[j], u) => j <= i
      PROVE  Settled(a, r, u, f)
  <2>1. \A j \in 1..Len(a) : Speaks(a[j], u) => (IF j < k THEN j ELSE j + 1) <= i
    BY <1>2, <1>5
  <2>2. CASE i < k
    <3>1. i \in 1..Len(a) /\ a[i] = p[i]
      BY <1>2, <1>5, <2>2
    <3>2. \A j \in 1..Len(a) : Speaks(a[j], u) => j <= i
      <4> SUFFICES ASSUME NEW j \in 1..Len(a), Speaks(a[j], u) PROVE j <= i
        OBVIOUS
      <4>1. (IF j < k THEN j ELSE j + 1) <= i
        BY <2>1
      <4>2. j \in Int /\ i \in Int /\ k \in Int
        BY <1>1, <1>2
      <4> QED BY <4>1, <4>2
    <3> QED BY <1>5, <3>1, <3>2 DEF Settled
  <2>3. CASE i > k
    <3>1. i - 1 \in 1..Len(a) /\ a[i - 1] = p[i]
      BY <1>2, <1>5, <2>3
    <3>2. \A j \in 1..Len(a) : Speaks(a[j], u) => j <= i - 1
      <4> SUFFICES ASSUME NEW j \in 1..Len(a), Speaks(a[j], u) PROVE j <= i - 1
        OBVIOUS
      <4>1. (IF j < k THEN j ELSE j + 1) <= i
        BY <2>1
      <4>2. j \in Int /\ i \in Int /\ k \in Int
        BY <1>1, <1>2
      <4> QED BY <4>1, <4>2, <2>3
    <3> QED BY <1>5, <3>1, <3>2 DEF Settled
  <2>4. i # k
    BY <1>5
  <2> QED BY <2>2, <2>3, <2>4
<1> QED BY <1>4, <1>5 DEF Settled

LEMMA SettledTail ==
  ASSUME NEW S, NEW p \in Seq(S), p # <<>>, NEW r, NEW s, NEW u, NEW f,
         Settled(p, r, u, f),
         IF Speaks(Head(p), u) THEN WordIs(Head(p), s[u]) ELSE s[u] = r[u]
  PROVE  Settled(Tail(p), s, u, f)
<1> PICK a : a = Tail(p)
  OBVIOUS
<1>1. /\ Len(p) \in Nat \ {0} /\ Len(a) = Len(p) - 1 /\ Head(p) = p[1]
      /\ \A i \in 1..Len(a) : i + 1 \in 1..Len(p) /\ a[i] = p[i + 1]
      /\ \A i \in 1..Len(p) : i > 1 => i - 1 \in 1..Len(a) /\ a[i - 1] = p[i]
  OBVIOUS
<1>2. CASE r[u] = f /\ \A i \in 1..Len(p) : ~ Speaks(p[i], u)
  <2>1. ~ Speaks(Head(p), u)
    BY <1>1, <1>2
  <2> QED BY <1>1, <1>2, <2>1 DEF Settled
<1>3. ASSUME NEW i \in 1..Len(p), Speaks(p[i], u), WordIs(p[i], f),
             \A j \in 1..Len(p) : Speaks(p[j], u) => j <= i
      PROVE  Settled(a, s, u, f)
  <2>1. CASE i = 1
    <3>1. s[u] = f
      BY <1>1, <1>3, <2>1 DEF WordIs
    <3>2. \A j \in 1..Len(a) : ~ Speaks(a[j], u)
      BY <1>1, <1>3, <2>1
    <3> QED BY <3>1, <3>2 DEF Settled
  <2>2. CASE i > 1
    <3>1. i - 1 \in 1..Len(a) /\ a[i - 1] = p[i]
      BY <1>1, <2>2
    <3>2. \A j \in 1..Len(a) : Speaks(a[j], u) => j <= i - 1
      BY <1>1, <1>3
    <3> QED BY <1>3, <3>1, <3>2 DEF Settled
  <2> QED BY <2>1, <2>2
<1> QED BY <1>2, <1>3 DEF Settled

----------------------------------------------------------------------------
\* The line of what the relay has not taken: out, in the writer's hands, queued.
Middle == IF writer = "taken" THEN <<held>> ELSE <<>>

LEMMA PendingParts ==
  ASSUME IInv, NEW S, Sent(asked) \subseteq S
  PROVE  /\ Pending = toPeer \o Middle \o queue /\ Pending \in Seq(S)
         /\ toPeer \in Seq(S) /\ Middle \in Seq(S) /\ queue \in Seq(S)
<1>1. toPeer \in Seq(Sent(asked)) /\ queue \in Seq(Sent(asked)) /\ held \in Sent(asked) \cup {None}
  BY DEF IInv, Channels, IsChannel
<1>2. writer = "taken" => held \in Sent(asked)
  BY <1>1 DEF IInv, Tasks, Standing, Link!LinkConsistent
<1>3. toPeer \in Seq(S) /\ queue \in Seq(S)
  BY <1>1, SeqGrows
<1>4. Middle \in Seq(S)
  BY <1>2 DEF Middle
<1>5. Pending = toPeer \o Middle \o queue
  BY DEF Pending, Middle
<1> HIDE DEF Middle
<1>6. toPeer \o Middle \o queue \in Seq(S)
  BY <1>3, <1>4
<1> QED BY <1>3, <1>4, <1>5, <1>6

\* A send puts its message at the end of the line; if the queue is full the
\* oldest queued message leaves the line.
LEMMA PendingSend ==
  ASSUME IInv, NEW S, Sent(asked) \subseteq S, NEW m \in S, Forward(m)
  PROVE  \/ Pending' = Append(Pending, m)
         \/ /\ \E k \in 1..Len(Pending) :
                 /\ Pending[k] = Head(queue) /\ Pending' = Append(Without(Pending, k), m)
            /\ ~ shed' => ~ IsSubscriptionTraffic(Head(queue))
<1>1. /\ queue' = LastOf(queue \o <<m>>, QueueSize) /\ UNCHANGED <<toPeer, writer, held>>
      /\ shed' = (shed \/ (Len(queue) = QueueSize /\ IsSubscriptionTraffic(Head(queue))))
  BY DEF Forward, Link!Send, Link!PutAll, LastOf
<1>2. /\ Pending = toPeer \o Middle \o queue
      /\ toPeer \in Seq(S) /\ Middle \in Seq(S) /\ queue \in Seq(S)
  BY PendingParts
<1>3. Pending' = toPeer \o Middle \o queue'
  BY <1>1 DEF Pending, Middle
<1>4. Len(queue) <= QueueSize /\ QueueSize \in Nat \ {0} /\ Len(queue) \in Nat
  BY <1>2, SessionAssumption DEF IInv, Channels, IsChannel
<1>5. /\ queue = <<>> => Len(queue) < QueueSize
      /\ LastOf(queue \o <<m>>, QueueSize)
           = IF Len(queue) < QueueSize THEN Append(queue, m) ELSE Append(Tail(queue), m)
  <2>1. queue \in Seq(S)
    BY <1>2
  <2> QED BY <2>1, <1>4, Putting, Zenon
<1> HIDE DEF Middle
<1>6. CASE Len(queue) < QueueSize
  <2>1. queue' = Append(queue, m)
    BY <1>1, <1>5, <1>6
  <2>2. toPeer \o Middle \o Append(queue, m) = Append(toPeer \o Middle \o queue, m)
    BY <1>2
  <2> QED BY <2>1, <2>2, <1>2, <1>3
<1>7. CASE ~ (Len(queue) < QueueSize)
  <2>1. queue' = Append(Tail(queue), m) /\ queue # <<>> /\ Len(queue) = QueueSize
    BY <1>1, <1>4, <1>5, <1>7
  <2> DEFINE line == toPeer \o Middle \o queue
             k == Len(toPeer) + Len(Middle) + 1
             rest == toPeer \o Middle \o Tail(queue)
  <2>2. k \in 1..Len(line) /\ line[k] = Head(queue) /\ rest = Without(line, k)
    BY <1>2, <2>1, Shedding, ZenonT(30)
  <2>3. Tail(queue) \in Seq(S)
    BY <1>2, <2>1
  <2>4. toPeer \o Middle \o Append(Tail(queue), m) = Append(rest, m)
    BY <1>2, <2>3
  <2>5. Pending = line /\ Pending' = Append(rest, m)
    BY <1>2, <1>3, <2>1, <2>4
  <2> HIDE DEF line, k, rest
  <2> QED BY <2>1, <2>2, <2>5, <1>1
<1> QED BY <1>6, <1>7

\* The writer moves the line along.
LEMMA PendingWriter ==
  ASSUME IInv, Link!WriterTake \/ Link!WriterWrite \/ Link!WriterDone
  PROVE  Pending' = Pending
<1> PICK S : S = Sent(asked)
  OBVIOUS
<1>0. toPeer \in Seq(S) /\ queue \in Seq(S)
  BY PendingParts
<1>1. CASE Link!WriterTake
  <2>1. /\ queue # <<>> /\ held' = Head(queue) /\ queue' = Tail(queue)
        /\ writer = "idle" /\ writer' = "taken" /\ toPeer' = toPeer
    BY <1>1 DEF Link!WriterTake
  <2>2. Pending' = toPeer \o <<Head(queue)>> \o Tail(queue) /\ Pending = toPeer \o <<>> \o queue
    BY <2>1 DEF Pending
  <2>3. toPeer \o <<Head(queue)>> \o Tail(queue) = toPeer \o <<>> \o queue
    BY <2>1, <1>0, TakingUp, Zenon
  <2> QED BY <2>2, <2>3
<1>2. CASE Link!WriterWrite
  <2>1. /\ toPeer' = Append(toPeer, held) /\ queue' = queue
        /\ writer = "taken" /\ writer' = "written"
    BY <1>2 DEF Link!WriterWrite
  <2>2. Pending' = Append(toPeer, held) \o <<>> \o queue /\ Pending = toPeer \o <<held>> \o queue
    BY <2>1 DEF Pending
  <2>3. held \in S
    BY <2>1 DEF IInv, Channels, IsChannel, Tasks, Standing, Link!LinkConsistent
  <2>4. Append(toPeer, held) \o <<>> \o queue = toPeer \o <<held>> \o queue
    BY <2>3, <1>0
  <2> QED BY <2>2, <2>4
<1>3. CASE Link!WriterDone
  BY <1>3 DEF Link!WriterDone, Pending
<1> QED BY <1>1, <1>2, <1>3

\* The relay takes the first frame of the line.
LEMMA PendingTaken ==
  ASSUME IInv, RelayTakes
  PROVE  /\ Pending \in Seq(Sent(asked)) /\ Pending # <<>>
         /\ Head(Pending) = Head(toPeer) /\ Pending' = Tail(Pending)
<1>1. toPeer # <<>> /\ toPeer' = Tail(toPeer) /\ UNCHANGED <<queue, writer, held>>
  BY DEF RelayTakes, Link!PeerReceive
<1> PICK S : S = Sent(asked)
  OBVIOUS
<1>2. /\ Pending = toPeer \o Middle \o queue /\ Pending \in Seq(S)
      /\ toPeer \in Seq(S) /\ Middle \in Seq(S) /\ queue \in Seq(S)
  BY PendingParts
<1>3. Pending' = Tail(toPeer) \o Middle \o queue
  BY <1>1 DEF Pending, Middle
<1> HIDE DEF Middle
<1>4. LET line == toPeer \o Middle \o queue
      IN  /\ line \in Seq(S) /\ line # <<>> /\ Head(line) = Head(toPeer)
          /\ Tail(toPeer) \o Middle \o queue = Tail(line)
  <2>1. toPeer # <<>> /\ toPeer \in Seq(S)
    BY <1>1, <1>2
  <2>2. Middle \in Seq(S) /\ queue \in Seq(S)
    BY <1>2
  <2> QED BY <2>1, <2>2
<1> QED BY <1>2, <1>3, <1>4

----------------------------------------------------------------------------
\* What NoLostSubscription says of one entry.
Carried(p, r, a, v, u, f) ==
  IF v = "REQ" THEN Settled(p, r, u, f) \/ Has(a, Reply("CLOSED", u))
               ELSE Has(a, Reply("COUNT", u)) \/ Has(p, Frame("COUNT", u, f))

AllCarried ==
  Carrying => \A c \in Open : Carried(Pending, relaySubs, fromPeer, request[c].verb,
                                      toUpstream[c], request[c].filter)

LEMMA NoLostForm == NoLostSubscription <=> AllCarried
BY SettledForm DEF AllCarried, NoLostSubscription, Carried, Has, OnItsWay

\* Only subscription traffic is about a subscription.
LEMMA OtherIsSilent ==
  ASSUME NEW n, NEW m \in Sent(n), ~ IsSubscriptionTraffic(m), NEW u \in UpstreamIds, NEW f
  PROVE  ~ Speaks(m, u) /\ m # Frame("COUNT", u, f)
<1>1. m.verb = "EVENT" /\ m.sub = None
  BY DEF Sent, Frames, IsSubscriptionTraffic
<1> QED BY <1>1, TableAssumption DEF Speaks, Frame

\* A send that sheds no subscription traffic leaves every entry carried that
\* its message is not about.
LEMMA CarriedSend ==
  ASSUME IInv, NEW n, Sent(asked) \subseteq Sent(n), NEW m \in Sent(n), Forward(m), ~ shed',
         NEW u \in UpstreamIds, NEW v, NEW f, NEW r, NEW a,
         Carried(Pending, r, a, v, u, f), ~ Speaks(m, u)
  PROVE  Carried(Pending', r, a, v, u, f)
<1> PICK S : S = Sent(n)
  OBVIOUS
<1>0. Pending \in Seq(S) /\ m \in S
  BY PendingParts
<1>1. CASE Pending' = Append(Pending, m)
  BY <1>0, <1>1, SettledAppend, HasAppend DEF Carried
<1>2. CASE Pending' # Append(Pending, m)
  <2>1. PICK k \in 1..Len(Pending) :
          /\ Pending[k] = Head(queue) /\ Pending' = Append(Without(Pending, k), m)
          /\ ~ IsSubscriptionTraffic(Pending[k])
    BY <1>2, PendingSend
  <2>2. Pending[k] \in Sent(n)
    BY <1>0
  <2>3. ~ Speaks(Pending[k], u) /\ Pending[k] # Frame("COUNT", u, f)
    BY <2>1, <2>2, OtherIsSilent
  <2>4. PICK rest : rest = Without(Pending, k)
    OBVIOUS
  <2>5. rest \in Seq(S)
    BY <1>0, <2>4, TakingOut
  <2>6. Settled(Pending, r, u, f) => Settled(rest, r, u, f)
    BY <1>0, <2>3, <2>4, SettledWithout
  <2>7. Has(Pending, Frame("COUNT", u, f)) => Has(rest, Frame("COUNT", u, f))
    BY <1>0, <2>3, <2>4, HasWithout
  <2> QED BY <1>0, <2>1, <2>4, <2>5, <2>6, <2>7, SettledAppend, HasAppend DEF Carried
<1> QED BY <1>1, <1>2

\* The request it sends is carried.
LEMMA CarriedNew ==
  ASSUME IInv, NEW n, Sent(asked) \subseteq Sent(n), NEW u, NEW f, NEW v \in {"REQ", "COUNT"},
         Frame(v, u, f) \in Sent(n), Forward(Frame(v, u, f)), NEW r, NEW a
  PROVE  Carried(Pending', r, a, v, u, f)
<1> PICK S : S = Sent(n)
  OBVIOUS
<1> PICK m : m = Frame(v, u, f)
  OBVIOUS
<1>0. Pending \in Seq(S) /\ m \in S /\ Forward(m)
  BY PendingParts
<1>1. PICK p \in Seq(S) : Pending' = Append(p, m)
  <2>1. \A k \in 1..Len(Pending) : Without(Pending, k) \in Seq(S)
    BY <1>0, TakingOut
  <2> QED BY <1>0, <2>1, PendingSend
<1>2. v = "REQ" => Speaks(m, u) /\ WordIs(m, f)
  BY DEF Speaks, WordIs, Frame
<1> QED BY <1>0, <1>1, <1>2, SettledAppend, HasAppend DEF Carried

\* The relay's step from a frame of the line to what it holds or answers.
LEMMA CarriedTaken ==
  ASSUME IInv, RelayTakes, NEW u \in UpstreamIds, NEW v, NEW f,
         Carried(Pending, relaySubs, fromPeer, v, u, f)
  PROVE  Carried(Pending', relaySubs', fromPeer', v, u, f)
<1> PICK m : m = Head(toPeer)
  OBVIOUS
<1> DEFINE answer == CASE m.verb = "REQ" -> Reply("EOSE", m.sub)
                       [] m.verb = "COUNT" -> Reply("COUNT", m.sub)
                       [] OTHER -> Reply("OK", None)
<1> PICK S : S = Sent(asked)
  OBVIOUS
<1>1. Pending \in Seq(S) /\ Pending # <<>> /\ Head(Pending) = m /\ Pending' = Tail(Pending)
  BY PendingTaken
<1>2. m \in Sent(asked)
  BY <1>1
<1>3. /\ m.verb \in {"REQ", "COUNT", "CLOSE", "EVENT"} /\ (m.verb = "EVENT" => m.sub = None)
      /\ u # None
  BY <1>2, TableAssumption DEF Sent, Frames
<1>4. /\ relaySubs' = CASE m.verb = "REQ" -> [relaySubs EXCEPT ![m.sub] = m.filter]
                        [] m.verb = "CLOSE" -> [relaySubs EXCEPT ![m.sub] = None]
                        [] OTHER -> relaySubs
      /\ fromPeer' = IF m.verb = "CLOSE" THEN fromPeer ELSE Append(fromPeer, answer)
  BY DEF RelayTakes, Link!PeerSend
<1>5. fromPeer \in Seq(Answers) /\ relaySubs \in [UpstreamIds -> 1..asked \cup {None}]
  BY DEF IInv, Channels, IsChannel, AtRelay
<1>6. IF Speaks(m, u) THEN WordIs(m, relaySubs'[u]) ELSE relaySubs'[u] = relaySubs[u]
  BY <1>3, <1>4, <1>5 DEF Speaks, WordIs
<1>7. Settled(Pending, relaySubs, u, f) => Settled(Pending', relaySubs', u, f)
  BY <1>1, <1>6, SettledTail
<1>8. m.verb # "CLOSE" => answer \in Answers
  BY <1>2, Answering DEF IInv, Bounds
<1>9. /\ \A x : Has(fromPeer, x) => Has(fromPeer', x)
      /\ m.verb # "CLOSE" => Has(fromPeer', answer)
  <2> HIDE DEF answer
  <2> QED BY <1>4, <1>5, <1>8, HasAppend
<1>10. CASE m = Frame("COUNT", u, f)
  <2>1. m.verb = "COUNT" /\ answer = Reply("COUNT", u)
    BY <1>10 DEF Frame
  <2> HIDE DEF answer
  <2> QED BY <1>7, <1>9, <2>1 DEF Carried
<1>11. CASE m # Frame("COUNT", u, f)
  <2>1. Has(Pending, Frame("COUNT", u, f)) => Has(Pending', Frame("COUNT", u, f))
    BY <1>1, <1>11, HasTail
  <2> HIDE DEF answer
  <2> QED BY <1>7, <1>9, <2>1 DEF Carried
<1> QED BY <1>10, <1>11

LEMMA CarriedClosed ==
  ASSUME IInv, NEW w \in UpstreamIds, RelayCloses(w), NEW u \in UpstreamIds, NEW v, NEW f,
         Carried(Pending, relaySubs, fromPeer, v, u, f)
  PROVE  Carried(Pending', relaySubs', fromPeer', v, u, f)
<1>1. /\ fromPeer' = Append(fromPeer, Reply("CLOSED", w))
      /\ relaySubs' = [relaySubs EXCEPT ![w] = None]
      /\ UNCHANGED <<queue, writer, held, toPeer>>
  BY DEF RelayCloses, Link!PeerSend
<1>2. Pending' = Pending
  BY <1>1 DEF Pending
<1>3. /\ fromPeer \in Seq(Answers) /\ relaySubs \in [UpstreamIds -> 1..asked \cup {None}]
      /\ Reply("CLOSED", w) \in Answers
  BY Makes, Answering DEF IInv, Bounds, Channels, IsChannel, AtRelay
<1>4. /\ \A x : Has(fromPeer, x) => Has(fromPeer', x)
      /\ Has(fromPeer', Reply("CLOSED", w))
  BY <1>1, <1>3, HasAppend
<1>5. CASE u = w
  BY <1>2, <1>4, <1>5 DEF Carried
<1>6. CASE u # w
  <2>1. relaySubs'[u] = relaySubs[u]
    BY <1>1, <1>3, <1>6
  <2> QED BY <1>2, <1>4, <2>1 DEF Carried, Settled
<1> QED BY <1>5, <1>6

\* A message about an entry that ends it takes it out of the table.
LEMMA CarriedReceived ==
  ASSUME IInv, BridgeReceives, NEW c \in Open', NEW v, NEW f,
         Carried(Pending, relaySubs, fromPeer, v, toUpstream[c], f)
  PROVE  /\ Carried(Pending', relaySubs', fromPeer', v, toUpstream[c], f)
         /\ c \in Open /\ toUpstream'[c] = toUpstream[c] /\ request'[c] = request[c]
<1> DEFINE m == Head(fromPeer)
           u == toUpstream[c]
<1>1. /\ fromPeer # <<>> /\ fromPeer' = Tail(fromPeer)
      /\ UNCHANGED <<queue, writer, held, toPeer, relaySubs>>
  BY DEF BridgeReceives, Link!ReaderReceive
<1>2. c \in ClientIds /\ toUpstream'[c] # None /\ fromPeer \in Seq(Answers)
  BY DEF Open, IInv, Channels, IsChannel
<1>3. \/ UNCHANGED tableVars /\ (m.sub = None \/ toClient[m.sub] = None)
      \/ UNCHANGED tableVars /\ ~ EndsEntry(m)
      \/ m.sub # None /\ CloseEntry(toClient[m.sub])
  BY DEF BridgeReceives
<1>4. ASSUME NEW d, CloseEntry(d)
      PROVE  c # d /\ c \in Open /\ toUpstream'[c] = toUpstream[c] /\ request'[c] = request[c]
  <2>1. d \in ClientIds /\ toUpstream'[d] = None
    BY <1>4 DEF CloseEntry, Open, IInv, TableInv, TableTypeOK
  <2> QED BY <1>2, <1>4, <2>1 DEF CloseEntry, Open, IInv, TableInv, TableTypeOK
<1>5. c \in Open /\ toUpstream'[c] = toUpstream[c] /\ request'[c] = request[c]
  BY <1>2, <1>3, <1>4 DEF tableVars, Open
<1>6. u \in UpstreamIds /\ u # None /\ toClient[u] = c /\ c # None
  BY <1>5, TableAssumption DEF Open, IInv, TableInv, TableTypeOK, TableInverse
<1>7. m # Reply("CLOSED", u) /\ m # Reply("COUNT", u)
  <2> SUFFICES ASSUME m \in {Reply("CLOSED", u), Reply("COUNT", u)} PROVE FALSE
    OBVIOUS
  <2>1. EndsEntry(m) /\ m.sub = u
    BY DEF Reply, EndsEntry
  <2> HIDE DEF m
  <2> QED BY <1>3, <1>4, <1>6, <2>1
<1>8. \A x : x # m /\ Has(fromPeer, x) => Has(fromPeer', x)
  BY <1>1, <1>2, HasTail
<1>9. Pending' = Pending /\ relaySubs' = relaySubs
  BY <1>1 DEF Pending
<1> HIDE DEF m
<1> QED BY <1>5, <1>7, <1>8, <1>9 DEF Carried

\* After a reconnect the line is the queue: up to a place d nothing that is
\* subscription traffic, from there on the replayed requests, all of them if
\* they fit.
LEMMA ConnectLine ==
  ASSUME IInv, Connects
  PROVE  \E ids : \E d \in Int :
           /\ IsReplayOrder(ids) /\ Pending' \in Seq(Sent(asked))
           /\ \A j \in 1..Len(Pending') :
                IF j <= d THEN ~ IsSubscriptionTraffic(Pending'[j])
                ELSE j - d \in 1..Cardinality(Open) /\ Pending'[j] = Replay(ids)[j - d]
           /\ ~ shed' => \A i \in 1..Cardinality(Open) : d + i \in 1..Len(Pending')
<1>1. PICK keep, ids :
        /\ Enumerates(keep, Cardinality(Kept), Kept) /\ IsReplayOrder(ids)
        /\ queue' = LastOf(Picked(queue, keep) \o Replay(ids), QueueSize)
        /\ conn = "down" /\ writer' = "idle" /\ UNCHANGED toPeer
  BY ConnectsShape
<1> PICK S : S = Sent(asked)
  OBVIOUS
<1> PICK K : K = Picked(queue, keep)
  OBVIOUS
<1> PICK R : R = Replay(ids)
  OBVIOUS
<1> PICK n : n = Cardinality(Open)
  OBVIOUS
<1>2. K \in Seq(S) /\ \A i \in 1..Len(K) : ~ IsSubscriptionTraffic(K[i])
  <2>1. queue \in Seq(S) /\ Kept \subseteq 1..Len(queue)
    BY DEF IInv, Channels, IsChannel, Kept
  <2>2. IsSelection(Picked(queue, keep), queue, keep, Cardinality(Kept), Kept, S)
    BY <1>1, <2>1, Selecting, Zenon
  <2>3. K \in Seq(S) /\ \A e : e \in Elements(K) <=> \E k \in Kept : e = queue[k]
    BY <2>2 DEF IsSelection
  <2>4. \A i \in 1..Len(K) : K[i] \in Elements(K)
    BY DEF Elements
  <2> QED BY <2>3, <2>4 DEF Kept
<1>3. R \in Seq(S) /\ Len(R) = n /\ n \in Nat
  BY <1>1, Replays
<1> PICK all : all = K \o R
  OBVIOUS
<1>4. /\ all \in Seq(S) /\ Len(all) = Len(K) + n /\ Len(K) \in Nat
      /\ \A i \in 1..Len(all) : all[i] = IF i <= Len(K) THEN K[i] ELSE R[i - Len(K)]
  BY <1>2, <1>3
<1>5. QueueSize \in Nat /\ queue' = LastOf(all, QueueSize)
  BY <1>1, SessionAssumption
<1> PICK q : q = LastOf(all, QueueSize)
  OBVIOUS
<1>6. q \in Seq(S)
  BY <1>4, <1>5, KeepingLast
<1>7. PICK o \in 0..Len(all) :
        /\ Len(q) = Len(all) - o /\ (o # 0 => Len(all) - o = QueueSize)
        /\ \A i \in 1..(Len(all) - o) : q[i] = all[o + i]
  <2>1. all \in Seq(S) /\ QueueSize \in Nat
    BY <1>4, <1>5
  <2>2. IsEndOf(LastOf(all, QueueSize), all, QueueSize)
    BY <2>1, LastPlaces, Zenon
  <2> QED BY <2>2 DEF IsEndOf
<1>8. Pending' = q
  <2>1. toPeer' = <<>>
    BY <1>1 DEF IInv, Tasks, Standing, Link!LinkConsistent
  <2> QED BY <2>1, <1>1, <1>5, <1>6 DEF Pending
<1> DEFINE d == Len(K) - o
<1>9. d \in Int
  BY <1>4, <1>7
<1>10. ASSUME NEW j \in 1..Len(q)
       PROVE  IF j <= d THEN ~ IsSubscriptionTraffic(q[j]) ELSE j - d \in 1..n /\ q[j] = R[j - d]
  <2>1. o + j \in 1..Len(all) /\ q[j] = all[o + j] /\ j \in Int
    BY <1>4, <1>7
  <2>2. CASE j <= d
    <3>1. o + j \in 1..Len(K) /\ q[j] = K[o + j]
      BY <2>1, <2>2, <1>4, <1>7
    <3> QED BY <3>1, <2>2, <1>2
  <2>3. CASE ~ (j <= d)
    <3>1. ~ (o + j <= Len(K)) /\ (o + j) - Len(K) = j - d /\ j - d \in 1..n
      BY <2>1, <2>3, <1>3, <1>4, <1>7
    <3> QED BY <3>1, <2>1, <2>3, <1>4
  <2> QED BY <2>2, <2>3
<1>11. ASSUME ~ shed', NEW i \in 1..n PROVE d + i \in 1..Len(q)
  <2>1. n <= QueueSize
    <3>1. shed' = (Cardinality(Open) > QueueSize)
      BY DEF Connects
    <3>2. ~ (n > QueueSize)
      BY <3>1, <1>11, Zenon
    <3> QED BY <3>2, <1>3, <1>5
  <2>2. d >= 0
    BY <2>1, <1>3, <1>4, <1>5, <1>7
  <2> QED BY <2>2, <1>3, <1>4, <1>7
<1> HIDE DEF d
<1>12. /\ IsReplayOrder(ids) /\ Pending' \in Seq(Sent(asked))
       /\ \A j \in 1..Len(Pending') :
            IF j <= d THEN ~ IsSubscriptionTraffic(Pending'[j])
            ELSE j - d \in 1..Cardinality(Open) /\ Pending'[j] = Replay(ids)[j - d]
       /\ ~ shed' => \A i \in 1..Cardinality(Open) : d + i \in 1..Len(Pending')
  BY <1>1, <1>6, <1>8, <1>10, <1>11
<1> QED BY <1>9, <1>12, Zenon

\* Every open id's request is replayed, once.
LEMMA CarriedReplayed ==
  ASSUME IInv, Connects, ~ shed', NEW c \in Open
  PROVE  Carried(Pending', relaySubs', fromPeer', request[c].verb, toUpstream[c],
                 request[c].filter)
<1>1. PICK ids, d :
        /\ d \in Int /\ IsReplayOrder(ids) /\ Pending' \in Seq(Sent(asked))
        /\ \A j \in 1..Len(Pending') :
             IF j <= d THEN ~ IsSubscriptionTraffic(Pending'[j])
             ELSE j - d \in 1..Cardinality(Open) /\ Pending'[j] = Replay(ids)[j - d]
        /\ ~ shed' => \A i \in 1..Cardinality(Open) : d + i \in 1..Len(Pending')
  BY ConnectLine
<1> PICK n : n = Cardinality(Open)
  OBVIOUS
<1> PICK p : p = Pending'
  OBVIOUS
<1> PICK u, v, f : u = toUpstream[c] /\ v = request[c].verb /\ f = request[c].filter
  OBVIOUS
<1>2. /\ n \in Nat
      /\ \A i \in 1..n : /\ ids[i] \in Open
                         /\ Replay(ids)[i] = Frame(request[ids[i]].verb, toUpstream[ids[i]],
                                                   request[ids[i]].filter)
      /\ \A b \in Open : \E i \in 1..n : ids[i] = b
  BY <1>1, Replays
<1>3. PICK i \in 1..n : ids[i] = c
  BY <1>2
<1>4. \A b \in Open : toUpstream[b] = u => b = c
  BY TableAssumption DEF Open, IInv, TableInv, TableTypeOK, TableInverse
<1>5. d + i \in 1..Len(p) /\ p[d + i] = Frame(v, u, f)
  <2>1. d + i \in 1..Len(p)
    BY <1>1
  <2>2. ~ (d + i <= d) /\ (d + i) - d = i
    BY <1>1, <1>2
  <2>3. p[d + i] = Replay(ids)[i]
    BY <2>1, <2>2, <1>1
  <2> QED BY <2>1, <2>3, <1>2, <1>3
<1>6. u \in UpstreamIds /\ v \in {"REQ", "COUNT"}
  BY SessionAssumption DEF Open, IInv, TableInv, TableTypeOK, TableInverse, Requests
<1>7. ASSUME NEW j \in 1..Len(p), Speaks(p[j], u) PROVE j <= d + i
  <2>1. CASE j <= d
    BY <1>1, <1>6, <1>7, <2>1, OtherIsSilent
  <2>2. CASE ~ (j <= d)
    <3>1. j - d \in 1..n /\ p[j] = Replay(ids)[j - d]
      BY <1>1, <2>2
    <3>2. toUpstream[ids[j - d]] = u
      <4>1. PICK k \in 1..n : k = j - d /\ p[j] = Replay(ids)[k]
        BY <3>1
      <4>2. p[j] = Frame(request[ids[k]].verb, toUpstream[ids[k]], request[ids[k]].filter)
        BY <1>2, <4>1
      <4>3. p[j].sub = toUpstream[ids[k]]
        BY <4>2 DEF Frame
      <4> QED BY <1>7, <4>1, <4>3 DEF Speaks
    <3>3. ids[j - d] = ids[i]
      BY <1>2, <1>3, <1>4, <3>1, <3>2
    <3>4. j - d = i
      BY <1>1, <1>2, <3>1, <3>3 DEF IsReplayOrder
    <3> QED BY <3>4, <1>1, <1>2
  <2> QED BY <2>1, <2>2
<1>8. v = "REQ" => Speaks(p[d + i], u) /\ WordIs(p[d + i], f)
  BY <1>5 DEF Speaks, WordIs, Frame
<1>9. v = "REQ" => Settled(p, relaySubs', u, f)
  BY <1>5, <1>7, <1>8 DEF Settled
<1>10. v = "COUNT" => Has(p, Frame("COUNT", u, f))
  BY <1>5 DEF Has
<1> QED BY <1>6, <1>9, <1>10 DEF Carried

\* A connection starts to carry its traffic only when it is made.
LEMMA StillCarrying ==
  ASSUME IInv, [Next]_vars, ~ Connects, Carrying'
  PROVE  Carrying
<1> USE DEF Carrying
<1>1. CASE UNCHANGED <<conn, writer, shed>>
  BY <1>1
<1>2. ASSUME NEW m, Forward(m) PROVE Carrying
  <2>1. UNCHANGED <<conn, writer>>
    BY <1>2 DEF Forward, Link!Send
  <2>2. ~ shed
    BY <1>2 DEF Forward
  <2> QED BY <2>1, <2>2
<1>3. CASE LinkStep
  BY <1>3 DEF LinkStep, Link!WriterStep, Link!WriterTake, Link!WriterWrite, Link!WriterDone,
              Link!WriterFail, Link!Break, Link!ReaderEnd
<1>4. CASE BeginClose
  BY <1>4 DEF BeginClose, Link!BeginStop
<1>5. CASE FinishClose
  BY <1>5 DEF FinishClose, Link!FinishStop
<1>6. CASE BridgeReceives \/ RelayTakes \/ \E u \in UpstreamIds : RelayCloses(u)
  BY <1>1, <1>6 DEF BridgeReceives, RelayTakes, RelayCloses
<1>7. CASE FlushTake \/ FlushDeliver \/ UNCHANGED vars
  BY <1>1, <1>7 DEF FlushTake, FlushDeliver, vars, linkVars
<1>8. CASE \/ \E c \in ReqIds : ClientAsks(c, "REQ")
           \/ \E c \in CountIds : ClientAsks(c, "COUNT")
           \/ \E c \in ClientIds : ClientCloses(c)
           \/ ClientSendsOther
  BY <1>1, <1>2, <1>8 DEF ClientAsks, ClientCloses, ClientSendsOther, linkVars
<1> HIDE DEF Carrying
<1> QED BY <1>3, <1>4, <1>5, <1>6, <1>7, <1>8 DEF Next

LEMMA AllCarriedStep == IInv /\ AllCarried /\ [Next]_vars => AllCarried'
<1> DEFINE Entry(c) == Carried(Pending, relaySubs, fromPeer, request[c].verb, toUpstream[c],
                               request[c].filter)
<1>0. SUFFICES ASSUME IInv, AllCarried, [Next]_vars, Carrying', NEW c \in Open'
               PROVE  Entry(c)'
  BY DEF AllCarried
<1> USE <1>0
<1>1. c \in ClientIds /\ toUpstream'[c] # None /\ toUpstream'[c] \in UpstreamIds /\ ~ shed'
  BY TableStep DEF Open, TableInv, TableTypeOK, Carrying
<1>2. CASE Connects
  <2>1. c \in Open /\ UNCHANGED tableVars
    BY <1>2 DEF Connects, tableVars, Open
  <2>2. Carried(Pending', relaySubs', fromPeer', request[c].verb, toUpstream[c], request[c].filter)
    BY <1>1, <1>2, <2>1, CarriedReplayed
  <2> QED BY <2>1, <2>2 DEF tableVars
<1>3. CASE ~ Connects
  <2>0. \A b \in Open : Entry(b)
    BY <1>3, StillCarrying DEF AllCarried
  <2> HIDE DEF Entry
  <2>1. ASSUME c \in Open, toUpstream'[c] = toUpstream[c], request'[c] = request[c],
               Pending' = Pending, UNCHANGED <<relaySubs, fromPeer>>
        PROVE  Entry(c)'
    BY <2>0, <2>1 DEF Entry
  <2>2. UNCHANGED tableVars => c \in Open /\ toUpstream'[c] = toUpstream[c] /\ request'[c] = request[c]
    BY DEF tableVars, Open
  <2>3. Sent(asked) \subseteq Sent(asked')
    BY BoundsStep, SentGrows DEF Bounds
  <2>4. ASSUME c \in Open, toUpstream'[c] = toUpstream[c], request'[c] = request[c],
               NEW m \in Sent(asked'), Forward(m), ~ Speaks(m, toUpstream[c]),
               relaySubs' = relaySubs
        PROVE  Entry(c)'
    <3>1. fromPeer' = fromPeer
      BY <2>4 DEF Forward, Link!Send
    <3>2. toUpstream[c] \in UpstreamIds
      BY <1>1, <2>4
    <3>3. Carried(Pending, relaySubs, fromPeer, request[c].verb, toUpstream[c], request[c].filter)
      BY <2>0, <2>4 DEF Entry
    <3>4. Carried(Pending', relaySubs, fromPeer, request[c].verb, toUpstream[c], request[c].filter)
      BY <1>1, <2>3, <2>4, <3>2, <3>3, CarriedSend
    <3> QED BY <2>4, <3>1, <3>4 DEF Entry
  <2>5. ASSUME NEW d \in ClientIds, NEW verb \in Verbs, ClientAsks(d, verb),
               verb = "COUNT" => d \in CountIds
        PROVE  Entry(c)'
    <3> DEFINE m == Frame(verb, MakeUpstreamId(d), asked + 1)
    <3>1. CASE OpenEntry(d, verb, asked + 1) /\ Forward(m)
      <4>1. asked' = asked + 1 /\ relaySubs' = relaySubs /\ asked' \in 0..MaxRequests /\ asked \in Nat
        BY <2>5, BoundsStep DEF ClientAsks, Bounds
      <4>2. verb \in {"REQ", "COUNT"} /\ MakeUpstreamId(d) \in UpstreamIds
            /\ (verb = "COUNT" => MakeUpstreamId(d) \in CountSubs)
        BY <2>5, IdInRange, SessionAssumption DEF CountSubs
      <4>3. m \in Sent(asked')
        BY <4>1, <4>2, Makes
      <4>4. /\ toUpstream'[d] = MakeUpstreamId(d)
            /\ request'[d] = [verb |-> verb, filter |-> asked + 1]
            /\ d # c => toUpstream'[c] = toUpstream[c] /\ request'[c] = request[c]
        BY <1>1, <3>1 DEF OpenEntry, IInv, TableInv, TableTypeOK
      <4>5. CASE d = c
        <5>1. Carried(Pending', relaySubs', fromPeer', verb, MakeUpstreamId(c), asked + 1)
          BY <2>3, <3>1, <4>2, <4>3, <4>5, CarriedNew
        <5>2. request'[c].verb = verb /\ request'[c].filter = asked + 1
              /\ toUpstream'[c] = MakeUpstreamId(c)
          BY <4>4, <4>5
        <5> QED BY <5>1, <5>2 DEF Entry
      <4>6. CASE d # c
        <5>1. c \in Open
          BY <1>1, <4>4, <4>6 DEF Open
        <5>2. MakeUpstreamId(d) # toUpstream[c]
          <6>1. TableInverse' /\ toUpstream'[d] = MakeUpstreamId(d)
            BY <4>4, TableStep DEF TableInv
          <6>2. toUpstream'[c] = MakeUpstreamId(d) => toClient'[MakeUpstreamId(d)] = c
            BY <1>1, <4>2, <6>1 DEF TableInverse
          <6>3. toClient'[MakeUpstreamId(d)] = d
            BY <4>2, <6>1 DEF TableInverse
          <6> QED BY <4>4, <4>6, <6>2, <6>3
        <5>3. ~ Speaks(m, toUpstream[c])
          BY <5>2 DEF Speaks, Frame
        <5> HIDE DEF m
        <5> QED BY <2>4, <3>1, <4>1, <4>3, <4>4, <4>6, <5>1, <5>3
      <4> QED BY <4>5, <4>6
    <3>2. CASE UNCHANGED <<tableVars, linkVars>>
      <4>1. Pending' = Pending /\ UNCHANGED fromPeer /\ UNCHANGED relaySubs
        BY <2>5, <3>2 DEF ClientAsks, linkVars, Pending
      <4> QED BY <2>1, <2>2, <3>2, <4>1
    <3> QED BY <2>5, <3>1, <3>2 DEF ClientAsks
  <2>6. CASE \E d \in ReqIds : ClientAsks(d, "REQ")
    BY <2>5, <2>6, IdsOpened, SessionAssumption
  <2>7. CASE \E d \in CountIds : ClientAsks(d, "COUNT")
    BY <2>5, <2>7, IdsOpened, SessionAssumption
  <2>8. ASSUME NEW d \in ClientIds, ClientCloses(d) PROVE Entry(c)'
    <3> DEFINE m == Frame("CLOSE", toUpstream[d], 0)
    <3>1. CloseEntry(d) /\ Forward(m) /\ relaySubs' = relaySubs /\ asked' = asked
      BY <2>8 DEF ClientCloses, boundVars
    <3>2. c # d /\ toUpstream'[c] = toUpstream[c] /\ request'[c] = request[c] /\ c \in Open
      BY <1>1, <3>1 DEF CloseEntry, Open, IInv, TableInv, TableTypeOK
    <3>3. toUpstream[d] \in UpstreamIds /\ toUpstream[d] # toUpstream[c]
      BY <1>1, <3>1, <3>2 DEF CloseEntry, Open, IInv, TableInv, TableTypeOK, TableInverse
    <3>4. m \in Sent(asked')
      BY <3>1, <3>3, Makes DEF IInv, Bounds
    <3>5. ~ Speaks(m, toUpstream[c])
      BY <3>3 DEF Speaks, Frame
    <3> HIDE DEF m
    <3> QED BY <2>4, <3>1, <3>2, <3>4, <3>5
  <2>9. CASE ClientSendsOther
    <3>1. UNCHANGED tableVars /\ relaySubs' = relaySubs /\ asked' = asked
      BY <2>9 DEF ClientSendsOther
    <3>2. CASE Forward(Other)
      <4>1. Other \in Sent(asked')
        BY <3>1, Makes DEF IInv, Bounds
      <4>2. ~ Speaks(Other, toUpstream[c])
        BY <1>1, <2>2, <3>1, TableAssumption DEF Speaks, Other, Frame
      <4> QED BY <2>2, <2>4, <3>1, <3>2, <4>1, <4>2
    <3>3. CASE UNCHANGED linkVars
      <4>1. Pending' = Pending /\ UNCHANGED fromPeer
        BY <3>3 DEF linkVars, Pending
      <4> QED BY <2>1, <2>2, <3>1, <4>1
    <3> QED BY <2>9, <3>2, <3>3 DEF ClientSendsOther
  <2>10. CASE LinkStep
    <3>1. UNCHANGED tableVars /\ UNCHANGED relaySubs
      BY <2>10 DEF LinkStep
    <3>2. Link!WriterTake \/ Link!WriterWrite \/ Link!WriterDone
      BY <2>10 DEF LinkStep, Link!WriterStep, Link!WriterFail, Link!Break, Link!ReaderEnd, Carrying
    <3>3. Pending' = Pending /\ fromPeer' = fromPeer
      BY <3>2, PendingWriter DEF Link!WriterTake, Link!WriterWrite, Link!WriterDone
    <3> QED BY <2>1, <2>2, <3>1, <3>3
  <2>11. CASE BridgeReceives
    <3>1. \A b \in Open : Carried(Pending, relaySubs, fromPeer, request[b].verb, toUpstream[b],
                                  request[b].filter)
      BY <2>0 DEF Entry
    <3>2. c \in Open
      <4>1. (\E d : CloseEntry(d)) \/ UNCHANGED tableVars
        BY <2>11 DEF BridgeReceives
      <4>2. ASSUME NEW d, CloseEntry(d) PROVE c \in Open
        BY <1>1, <4>2 DEF CloseEntry, Open, IInv, TableInv, TableTypeOK
      <4> QED BY <2>2, <4>1, <4>2
    <3>3. /\ Carried(Pending', relaySubs', fromPeer', request[c].verb, toUpstream[c],
                     request[c].filter)
          /\ toUpstream'[c] = toUpstream[c] /\ request'[c] = request[c]
      BY <2>11, <3>1, <3>2, CarriedReceived
    <3> QED BY <3>3 DEF Entry
  <2>12. CASE RelayTakes
    <3>1. UNCHANGED tableVars
      BY <2>12 DEF RelayTakes
    <3>2. c \in Open /\ toUpstream[c] \in UpstreamIds
      BY <1>1, <2>2, <3>1
    <3>3. Carried(Pending, relaySubs, fromPeer, request[c].verb, toUpstream[c], request[c].filter)
      BY <2>0, <3>2 DEF Entry
    <3>4. Carried(Pending', relaySubs', fromPeer', request[c].verb, toUpstream[c], request[c].filter)
      BY <2>12, <3>2, <3>3, CarriedTaken
    <3> QED BY <2>2, <3>1, <3>4 DEF Entry
  <2>13. ASSUME NEW w \in UpstreamIds, RelayCloses(w) PROVE Entry(c)'
    <3>1. UNCHANGED tableVars
      BY <2>13 DEF RelayCloses
    <3>2. c \in Open /\ toUpstream[c] \in UpstreamIds
      BY <1>1, <2>2, <3>1
    <3>3. Carried(Pending, relaySubs, fromPeer, request[c].verb, toUpstream[c], request[c].filter)
      BY <2>0, <3>2 DEF Entry
    <3>4. Carried(Pending', relaySubs', fromPeer', request[c].verb, toUpstream[c], request[c].filter)
      BY <2>13, <3>2, <3>3, CarriedClosed
    <3> QED BY <2>2, <3>1, <3>4 DEF Entry
  <2>14. CASE FlushTake \/ FlushDeliver \/ UNCHANGED vars
    <3>1. UNCHANGED <<tableVars, relaySubs, fromPeer>> /\ Pending' = Pending
      BY <2>14 DEF FlushTake, FlushDeliver, vars, linkVars, Pending
    <3> QED BY <2>1, <2>2, <3>1
  <2>15. CASE BeginClose \/ FinishClose
    BY <2>15 DEF BeginClose, FinishClose, Link!BeginStop, Link!FinishStop, Carrying
  <2> QED BY <1>3, <2>6, <2>7, <2>8, <2>9, <2>10, <2>11, <2>12, <2>13, <2>14, <2>15 DEF Next
<1> QED BY <1>2, <1>3

\* While a connection carries its traffic no subscription is lost: every entry
\* of the table is at the relay or on its way there as its last word, or the
\* answer that ends it is on its way back, whatever the interleaving of client,
\* connection and relay, for any queue size and any ids.
THEOREM SessionLosesNothing == Spec => []NoLostSubscription
<1>1. Init => AllCarried
  BY DEF Init, Link!Init, AllCarried, Carrying
<1> QED BY <1>1, InitInv, StepInv, AllCarriedStep, NoLostForm, PTL DEF Spec

----------------------------------------------------------------------------
\* NoDuplicateRequest of any line p and a relay that holds r.
IsRequest(m) == m.verb \in {"REQ", "COUNT"}

Single(p, r) ==
  \A i \in 1..Len(p) : IsRequest(p[i]) =>
    /\ \A j \in 1..Len(p) : p[i] = p[j] => i = j
    /\ p[i].verb = "REQ" => r[p[i].sub] # p[i].filter

LEMMA SingleForm == NoDuplicateRequest <=> (conn = "up" => Single(Pending, relaySubs))
BY DEF NoDuplicateRequest, Single, IsRequest

LEMMA SingleAppend ==
  ASSUME NEW S, NEW p \in Seq(S), NEW x \in S, NEW r, Single(p, r),
         IsRequest(x) => ~ Has(p, x) /\ (x.verb = "REQ" => r[x.sub] # x.filter)
  PROVE  Single(Append(p, x), r)
<1> PICK a : a = Append(p, x)
  OBVIOUS
<1>1. /\ Len(a) = Len(p) + 1 /\ Len(p) \in Nat /\ a[Len(p) + 1] = x
      /\ \A i \in 1..Len(p) : a[i] = p[i]
  OBVIOUS
<1>2. \A i \in 1..Len(a) : i \in 1..Len(p) \/ i = Len(p) + 1
  BY <1>1
<1> SUFFICES ASSUME NEW i \in 1..Len(a), IsRequest(a[i])
             PROVE  /\ \A j \in 1..Len(a) : a[i] = a[j] => i = j
                    /\ a[i].verb = "REQ" => r[a[i].sub] # a[i].filter
  BY DEF Single
<1>3. CASE i \in 1..Len(p)
  <2>1. a[i] # x
    BY <1>1, <1>3 DEF Has
  <2> QED BY <1>1, <1>2, <1>3, <2>1 DEF Single
<1>4. CASE i = Len(p) + 1
  <2>1. \A j \in 1..Len(p) : a[j] # x
    BY <1>1, <1>4 DEF Has
  <2> QED BY <1>1, <1>2, <1>4, <2>1
<1> QED BY <1>2, <1>3, <1>4

LEMMA SingleWithout ==
  ASSUME NEW S, NEW p \in Seq(S), NEW k \in 1..Len(p), NEW r, Single(p, r)
  PROVE  /\ Without(p, k) \in Seq(S) /\ Single(Without(p, k), r)
         /\ IsRequest(p[k]) => ~ Has(Without(p, k), p[k])
         /\ \A m : Has(Without(p, k), m) => Has(p, m)
<1> PICK a : a = Without(p, k)
  OBVIOUS
<1> DEFINE place(i) == IF i < k THEN i ELSE i + 1
<1>1. /\ a \in Seq(S) /\ Len(a) = Len(p) - 1 /\ Len(p) \in Nat
      /\ \A i \in 1..Len(a) : IF i < k THEN i \in 1..Len(p) /\ a[i] = p[i]
                                      ELSE i + 1 \in 1..Len(p) /\ a[i] = p[i + 1]
  BY TakingOut
<1>2. \A i \in 1..Len(a) : place(i) \in 1..Len(p) /\ a[i] = p[place(i)] /\ place(i) # k
  BY <1>1
<1>3. \A i, j \in 1..Len(a) : place(i) = place(j) => i = j
  BY <1>1
<1> HIDE DEF place
<1>4. Single(a, r)
  BY <1>2, <1>3 DEF Single
<1>5. IsRequest(p[k]) => ~ Has(a, p[k])
  BY <1>2 DEF Single, Has
<1>6. \A m : Has(a, m) => Has(p, m)
  BY <1>2 DEF Has
<1> QED BY <1>1, <1>4, <1>5, <1>6

\* The relay takes a request: no other one of the line is the same.
LEMMA SingleTail ==
  ASSUME NEW S, NEW p \in Seq(S), p # <<>>, NEW r, NEW s, Single(p, r),
         \A i \in 2..Len(p) : p[i].verb = "REQ" =>
           \/ s[p[i].sub] = r[p[i].sub] \/ s[p[i].sub] # p[i].filter
           \/ p[i] = p[1]
  PROVE  Single(Tail(p), s)
<1> PICK a : a = Tail(p)
  OBVIOUS
<1>1. /\ Len(p) \in Nat \ {0} /\ Len(a) = Len(p) - 1
      /\ \A i \in 1..Len(a) : i + 1 \in 2..Len(p) /\ a[i] = p[i + 1]
  OBVIOUS
<1>2. 1 \in 1..Len(p) /\ \A i \in 2..Len(p) : i \in 1..Len(p) /\ i # 1
  BY <1>1
<1> SUFFICES ASSUME NEW i \in 1..Len(a), IsRequest(a[i])
             PROVE  /\ \A j \in 1..Len(a) : a[i] = a[j] => i = j
                    /\ a[i].verb = "REQ" => s[a[i].sub] # a[i].filter
  BY DEF Single
<1>3. i + 1 \in 2..Len(p) /\ i + 1 \in 1..Len(p) /\ a[i] = p[i + 1] /\ i + 1 # 1
  BY <1>1, <1>2
<1>4. /\ \A j \in 1..Len(p) : p[i + 1] = p[j] => i + 1 = j
      /\ p[i + 1].verb = "REQ" => r[p[i + 1].sub] # p[i + 1].filter
  BY <1>3 DEF Single
<1>5. \A j \in 1..Len(a) : a[i] = a[j] => i = j
  <2> SUFFICES ASSUME NEW j \in 1..Len(a), a[i] = a[j] PROVE i = j
    OBVIOUS
  <2>1. j + 1 \in 1..Len(p) /\ a[j] = p[j + 1]
    BY <1>1, <1>2
  <2>2. i + 1 = j + 1
    BY <1>3, <1>4, <2>1
  <2> QED BY <2>2, <1>1
<1>6. p[i + 1] # p[1]
  BY <1>2, <1>3, <1>4
<1> QED BY <1>3, <1>4, <1>5, <1>6

LEMMA SingleSend ==
  ASSUME IInv, NEW n, Sent(asked) \subseteq Sent(n), NEW m \in Sent(n), Forward(m), NEW r,
         Single(Pending, r),
         IsRequest(m) => ~ Has(Pending, m) /\ (m.verb = "REQ" => r[m.sub] # m.filter)
  PROVE  Single(Pending', r)
<1> PICK S : S = Sent(n)
  OBVIOUS
<1>0. Pending \in Seq(S) /\ m \in S
  BY PendingParts
<1>1. CASE Pending' = Append(Pending, m)
  BY <1>0, <1>1, SingleAppend
<1>2. CASE Pending' # Append(Pending, m)
  <2>1. PICK k \in 1..Len(Pending) : Pending' = Append(Without(Pending, k), m)
    BY <1>2, PendingSend
  <2>2. PICK rest : rest = Without(Pending, k)
    OBVIOUS
  <2>3. rest \in Seq(S) /\ Single(rest, r) /\ \A x : Has(rest, x) => Has(Pending, x)
    BY <1>0, <2>2, SingleWithout
  <2> QED BY <1>0, <2>1, <2>2, <2>3, SingleAppend
<1> QED BY <1>1, <1>2

\* A message put back is the one that was in the writer's hands.
LEMMA SinglePutBack ==
  ASSUME IInv, Link!WriterFail, conn = "up", NEW r, Single(Pending, r)
  PROVE  Single(Pending', r)
<1> PICK S : S = Sent(asked)
  OBVIOUS
<1>1. /\ toPeer \in Seq(S) /\ queue \in Seq(S) /\ Pending \in Seq(S)
  BY PendingParts
<1>2. /\ writer = "taken" /\ queue' = Link!Requeue(queue, held) /\ toPeer' = toPeer
      /\ writer' = "dead"
  BY DEF Link!WriterFail
<1>3. held \in S /\ Pending = toPeer \o <<held>> \o queue
  BY <1>2 DEF IInv, Channels, IsChannel, Tasks, Standing, Link!LinkConsistent, Pending
<1> PICK k : k = Len(toPeer) + 1
  OBVIOUS
<1> PICK rest : rest = toPeer \o <<>> \o queue
  OBVIOUS
<1>4. k \in 1..Len(Pending) /\ Pending[k] = held /\ rest = Without(Pending, k)
  <2>1. LET line == toPeer \o <<held>> \o queue
            j == Len(toPeer) + 1
        IN  /\ j \in 1..Len(line) /\ line[j] = held
            /\ toPeer \o <<>> \o queue = Without(line, j)
    BY <1>1, <1>3, Abandoning, ZenonT(30)
  <2> QED BY <2>1, <1>3
<1>5. rest \in Seq(S) /\ Single(rest, r) /\ (IsRequest(held) => ~ Has(rest, held))
  <2>1. Pending \in Seq(S) /\ k \in 1..Len(Pending)
    BY <1>1, <1>4
  <2>2. /\ Without(Pending, k) \in Seq(S) /\ Single(Without(Pending, k), r)
        /\ IsRequest(Pending[k]) => ~ Has(Without(Pending, k), Pending[k])
    BY <2>1, SingleWithout, Zenon
  <2> QED BY <2>2, <1>4
<1>6. IsRequest(held) => (held.verb = "REQ" => r[held.sub] # held.filter)
  BY <1>4 DEF Single
<1>7. Pending' = toPeer \o <<>> \o queue'
  BY <1>2 DEF Pending
<1>8. CASE queue' = queue
  BY <1>5, <1>7, <1>8
<1>9. CASE queue' = Append(queue, held)
  <2>1. toPeer \o <<>> \o Append(queue, held) = Append(toPeer \o <<>> \o queue, held)
    BY <1>1, <1>3
  <2>2. Pending' = Append(rest, held)
    BY <2>1, <1>7, <1>9
  <2> QED BY <2>2, <1>3, <1>5, <1>6, SingleAppend
<1> QED BY <1>2, <1>8, <1>9 DEF Link!Requeue

LEMMA SingleTaken ==
  ASSUME IInv, RelayTakes, Single(Pending, relaySubs)
  PROVE  Single(Pending', relaySubs')
<1> PICK m : m = Head(toPeer)
  OBVIOUS
<1> PICK S : S = Sent(asked)
  OBVIOUS
<1>1. Pending \in Seq(S) /\ Pending # <<>> /\ Head(Pending) = m /\ Pending' = Tail(Pending)
  BY PendingTaken
<1>2. m = Pending[1] /\ 1 \in 1..Len(Pending) /\ \A i \in 2..Len(Pending) : i \in 1..Len(Pending)
  BY <1>1
<1>3. relaySubs' = CASE m.verb = "REQ" -> [relaySubs EXCEPT ![m.sub] = m.filter]
                     [] m.verb = "CLOSE" -> [relaySubs EXCEPT ![m.sub] = None]
                     [] OTHER -> relaySubs
  BY DEF RelayTakes
<1>4. relaySubs \in [UpstreamIds -> 1..asked \cup {None}] /\ None \notin Nat
  BY SessionAssumption DEF IInv, AtRelay
<1>5. ASSUME NEW i \in 2..Len(Pending), Pending[i].verb = "REQ"
      PROVE  LET x == Pending[i]
             IN  relaySubs'[x.sub] = relaySubs[x.sub] \/ relaySubs'[x.sub] # x.filter \/ x = Pending[1]
  <2> PICK x : x = Pending[i]
    OBVIOUS
  <2>1. x \in Sent(asked) /\ m \in Sent(asked)
    BY <1>1, <1>2
  <2>2. x \in Frames /\ m \in Frames /\ x.filter \in Nat /\ x.sub \in UpstreamIds
    BY <1>5, <2>1 DEF Sent, Frames
  <2>3. CASE m.verb = "REQ" /\ m.sub = x.sub /\ m.filter = x.filter
    <3>1. x = m
      BY <1>5, <2>2, <2>3 DEF Frames
    <3> QED BY <1>2, <3>1
  <2>4. CASE m.verb = "REQ" /\ m.sub = x.sub /\ m.filter # x.filter
    BY <1>3, <1>4, <2>2, <2>4
  <2>5. CASE m.verb = "CLOSE" /\ m.sub = x.sub
    BY <1>3, <1>4, <2>2, <2>5
  <2>6. CASE ~ (m.verb \in {"REQ", "CLOSE"} /\ m.sub = x.sub)
    BY <1>3, <1>4, <2>2, <2>6
  <2> QED BY <2>3, <2>4, <2>5, <2>6
<1>6. \A i \in 2..Len(Pending) : Pending[i].verb = "REQ" =>
        \/ relaySubs'[Pending[i].sub] = relaySubs[Pending[i].sub]
        \/ relaySubs'[Pending[i].sub] # Pending[i].filter
        \/ Pending[i] = Pending[1]
  BY <1>5
<1> QED BY <1>1, <1>6, SingleTail

\* What is replayed differs in its ids.
LEMMA SingleReplayed ==
  ASSUME IInv, Connects
  PROVE  Single(Pending', relaySubs')
<1>1. PICK ids, d :
        /\ d \in Int /\ IsReplayOrder(ids) /\ Pending' \in Seq(Sent(asked))
        /\ \A j \in 1..Len(Pending') :
             IF j <= d THEN ~ IsSubscriptionTraffic(Pending'[j])
             ELSE j - d \in 1..Cardinality(Open) /\ Pending'[j] = Replay(ids)[j - d]
  BY ConnectLine
<1> PICK n : n = Cardinality(Open)
  OBVIOUS
<1> PICK p : p = Pending'
  OBVIOUS
<1>2. /\ n \in Nat
      /\ \A i \in 1..n : /\ ids[i] \in Open
                         /\ Replay(ids)[i] = Frame(request[ids[i]].verb, toUpstream[ids[i]],
                                                   request[ids[i]].filter)
  BY <1>1, Replays
<1>3. \A b, c \in Open : toUpstream[b] = toUpstream[c] => b = c
  BY TableAssumption DEF Open, IInv, TableInv, TableTypeOK, TableInverse
<1>4. ASSUME NEW j \in 1..Len(p), IsRequest(p[j])
      PROVE  /\ j - d \in 1..n /\ p[j].sub = toUpstream[ids[j - d]]
             /\ p[j].filter \in Nat /\ p[j].sub \in UpstreamIds
  <2>1. ~ (j <= d)
    BY <1>1, <1>4 DEF IsRequest, IsSubscriptionTraffic
  <2>2. PICK k \in 1..n : k = j - d /\ p[j] = Replay(ids)[k]
    BY <1>1, <2>1
  <2>3. p[j] = Frame(request[ids[k]].verb, toUpstream[ids[k]], request[ids[k]].filter)
    BY <1>2, <2>2
  <2>4. p[j].sub = toUpstream[ids[k]]
    BY <2>3 DEF Frame
  <2>5. p[j] \in Sent(asked)
    BY <1>1
  <2>6. p[j].filter \in Nat /\ p[j].sub \in UpstreamIds
    BY <1>4, <2>5 DEF Sent, Frames, IsRequest
  <2> QED BY <2>2, <2>4, <2>6
<1>5. ASSUME NEW i \in 1..Len(p), IsRequest(p[i]), NEW j \in 1..Len(p), p[i] = p[j]
      PROVE  i = j
  <2>1. i - d \in 1..n /\ j - d \in 1..n /\ toUpstream[ids[i - d]] = toUpstream[ids[j - d]]
    BY <1>4, <1>5
  <2>2. ids[i - d] = ids[j - d]
    BY <1>2, <1>3, <2>1
  <2>3. i - d = j - d
    BY <1>1, <1>2, <2>1, <2>2 DEF IsReplayOrder
  <2> QED BY <1>1, <2>3
<1>6. ASSUME NEW i \in 1..Len(p), IsRequest(p[i]) PROVE relaySubs'[p[i].sub] # p[i].filter
  <2>1. relaySubs' = [u \in UpstreamIds |-> None]
    BY DEF Connects
  <2>2. p[i].filter \in Nat /\ p[i].sub \in UpstreamIds
    BY <1>4, <1>6
  <2> QED BY <2>1, <2>2, SessionAssumption
<1>7. Single(p, relaySubs')
  BY <1>5, <1>6 DEF Single
<1> QED BY <1>7

\* A request of the client differs from all that are under way.
LEMMA SingleAsked ==
  ASSUME IInv, NEW d \in ClientIds, NEW verb \in {"REQ", "COUNT"}, ClientAsks(d, verb),
         verb = "COUNT" => d \in CountIds, Single(Pending, relaySubs)
  PROVE  Single(Pending', relaySubs')
<1>1. relaySubs' = relaySubs /\ asked \in Nat /\ asked + 1 \in 0..MaxRequests
  BY SessionAssumption DEF ClientAsks, IInv, Bounds
<1>2. CASE UNCHANGED linkVars
  <2>1. Pending' = Pending
    BY <1>2 DEF linkVars, Pending
  <2> QED BY <1>1, <2>1
<1>3. CASE Forward(Frame(verb, MakeUpstreamId(d), asked + 1))
  <2> PICK m : m = Frame(verb, MakeUpstreamId(d), asked + 1)
    OBVIOUS
  <2>1. /\ MakeUpstreamId(d) \in UpstreamIds /\ asked + 1 \in 1..(asked + 1)
        /\ verb = "COUNT" => MakeUpstreamId(d) \in CountSubs
    BY <1>1 DEF UpstreamIds, CountSubs
  <2>2. m \in Sent(asked + 1) /\ m.filter = asked + 1 /\ m.sub \in UpstreamIds
    <3>1. m \in Sent(asked + 1)
      BY <1>1, <2>1, Makes
    <3> QED BY <2>1, <3>1 DEF Frame
  <2>3. Sent(asked) \subseteq Sent(asked + 1)
    BY <1>1, SentGrows
  <2>4. ~ Has(Pending, m)
    <3>1. Pending \in Seq(Sent(asked))
      BY PendingParts
    <3>2. \A x \in Sent(asked) : IsRequest(x) => x.filter <= asked
      BY <1>1 DEF Sent, IsRequest, Frames
    <3>3. IsRequest(m)
      BY DEF IsRequest, Frame
    <3> QED BY <1>1, <2>2, <3>1, <3>2, <3>3 DEF Has
  <2>5. relaySubs[m.sub] # m.filter
    BY <1>1, <2>2, SessionAssumption DEF IInv, AtRelay
  <2>6. Single(Pending', relaySubs)
    <3>1. Forward(m)
      BY <1>3
    <3> QED BY <2>2, <2>3, <2>4, <2>5, <3>1, SingleSend
  <2> QED BY <1>1, <2>6
<1> QED BY <1>2, <1>3 DEF ClientAsks

\* What is no request duplicates none.
LEMMA SingleSilent ==
  ASSUME IInv, NEW m \in Sent(asked), Forward(m), ~ IsRequest(m), UNCHANGED relaySubs,
         Single(Pending, relaySubs)
  PROVE  Single(Pending', relaySubs')
BY SingleSend

AllSingle == conn = "up" => Single(Pending, relaySubs)

LEMMA AllSingleStep == IInv /\ AllSingle /\ [Next]_vars => AllSingle'
<1> SUFFICES ASSUME IInv, AllSingle, [Next]_vars, conn' = "up"
             PROVE  Single(Pending', relaySubs')
  BY DEF AllSingle
<1>1. CASE Connects
  BY <1>1, SingleReplayed
<1>2. CASE ~ Connects
  <2>1. conn = "up"
    BY <1>2 DEF Next, vars, linkVars, ClientAsks, ClientCloses, ClientSendsOther, Forward,
         Link!Send, LinkStep, Link!WriterStep, Link!WriterTake, Link!WriterWrite,
         Link!WriterDone, Link!WriterFail, Link!Break, Link!ReaderEnd, BridgeReceives,
         RelayTakes, RelayCloses, Link!PeerReceive, Link!PeerSend, FlushTake, FlushDeliver,
         BeginClose, FinishClose, Link!BeginStop, Link!FinishStop
  <2>2. Single(Pending, relaySubs)
    BY <2>1 DEF AllSingle
  <2>3. CASE \E d \in ReqIds : ClientAsks(d, "REQ")
    BY <2>2, <2>3, IdsOpened, SingleAsked
  <2>4. CASE \E d \in CountIds : ClientAsks(d, "COUNT")
    BY <2>2, <2>4, IdsOpened, SingleAsked
  <2>5. ASSUME NEW d \in ClientIds, ClientCloses(d) PROVE Single(Pending', relaySubs')
    <3>1. toUpstream[d] \in UpstreamIds
      BY <2>5 DEF ClientCloses, CloseEntry, Open, IInv, TableInv, TableTypeOK
    <3>2. Frame("CLOSE", toUpstream[d], 0) \in Sent(asked)
      BY <3>1, Makes DEF IInv, Bounds
    <3>3. ~ IsRequest(Frame("CLOSE", toUpstream[d], 0))
      BY DEF IsRequest, Frame
    <3>4. Forward(Frame("CLOSE", toUpstream[d], 0)) /\ UNCHANGED relaySubs
      BY <2>5 DEF ClientCloses
    <3> QED BY <2>2, <3>2, <3>3, <3>4, SingleSilent
  <2>6. CASE ClientSendsOther
    <3>1. Other \in Sent(asked) /\ ~ IsRequest(Other) /\ relaySubs' = relaySubs
      BY <2>6, Makes DEF IInv, Bounds, IsRequest, Other, Frame, ClientSendsOther
    <3>2. UNCHANGED linkVars => Pending' = Pending
      BY DEF linkVars, Pending
    <3> QED BY <2>2, <2>6, <3>1, <3>2, SingleSilent DEF ClientSendsOther
  <2>7. CASE LinkStep
    <3>1. relaySubs' = relaySubs
      BY <2>7 DEF LinkStep
    <3>2. CASE Link!WriterFail
      BY <2>1, <2>2, <3>1, <3>2, SinglePutBack
    <3>3. CASE Link!WriterTake \/ Link!WriterWrite \/ Link!WriterDone
      <4>1. Pending' = Pending
        BY <3>3, PendingWriter
      <4> QED BY <2>2, <3>1, <4>1
    <3>4. Link!WriterFail \/ Link!WriterTake \/ Link!WriterWrite \/ Link!WriterDone
      BY <2>7 DEF LinkStep, Link!WriterStep, Link!Break, Link!ReaderEnd
    <3> QED BY <3>2, <3>3, <3>4
  <2>8. CASE RelayTakes
    BY <2>2, <2>8, SingleTaken
  <2>9. ASSUME NEW u \in UpstreamIds, RelayCloses(u) PROVE Single(Pending', relaySubs')
    <3>1. Pending' = Pending /\ relaySubs' = [relaySubs EXCEPT ![u] = None]
      BY <2>9 DEF RelayCloses, Pending
    <3>2. PICK p : p = Pending
      OBVIOUS
    <3>3. \A i \in 1..Len(p) : IsRequest(p[i]) => p[i].filter \in Nat /\ p[i].sub \in UpstreamIds
      <4>1. Pending \in Seq(Sent(asked))
        BY PendingParts
      <4>2. \A i \in 1..Len(p) : p[i] \in Sent(asked)
        BY <3>2, <4>1
      <4> QED BY <4>2 DEF Sent, Frames, IsRequest
    <3>4. relaySubs \in [UpstreamIds -> 1..asked \cup {None}] /\ None \notin Nat
      BY SessionAssumption DEF IInv, AtRelay
    <3>5. Single(p, relaySubs')
      BY <2>2, <3>1, <3>2, <3>3, <3>4 DEF Single
    <3> QED BY <3>1, <3>2, <3>5
  <2>10. CASE BridgeReceives \/ FlushTake \/ FlushDeliver \/ UNCHANGED vars
    <3>1. relaySubs' = relaySubs /\ Pending' = Pending
      BY <2>10 DEF BridgeReceives, FlushTake, FlushDeliver, vars, linkVars, Pending
    <3> QED BY <2>2, <3>1
  <2>11. CASE BeginClose \/ FinishClose
    BY <2>11 DEF BeginClose, FinishClose, Link!BeginStop, Link!FinishStop
  <2> QED BY <1>2, <2>3, <2>4, <2>5, <2>6, <2>7, <2>8, <2>9, <2>10, <2>11 DEF Next
<1> QED BY <1>1, <1>2

\* On one connection no request is under way twice, nor for a subscription that
\* the relay already holds: what overflowed, was put back after a failed write
\* or was replayed on a connection never doubles what is in the line.
THEOREM SessionRequestsOnce == Spec => []NoDuplicateRequest
<1>1. Init => AllSingle
  BY DEF Init, Link!Init, AllSingle
<1> QED BY <1>1, InitInv, StepInv, AllSingleStep, SingleForm, PTL DEF Spec, AllSingle

----------------------------------------------------------------------------
\* What the client has open is in the table, if it does not use one id for both
\* a REQ and a COUNT: only an answer to a COUNT ends an entry untold.
Known(c) == c \in Open /\ request[c].verb = "REQ"

\* Then the rewritten ids are separate, too.
LEMMA RewrittenApart ==
  ASSUME SeparateIds
  PROVE  \A c \in ReqIds, d \in CountIds : MakeUpstreamId(c) # MakeUpstreamId(d)
BY IdsOpened, MarkersSeparate DEF SeparateIds

\* A message for the client is on its way, or the client is not told of all.
LEMMA EnqueuedIsOnItsWay ==
  ASSUME AtClient, NEW m \in ToClient, Enqueue(m)
  PROVE  /\ ~ told' \/ Has(outbound', m)
         /\ told' => told
         /\ \A c : ClosedOnItsWay(c) => ClosedOnItsWay(c)'
         /\ live' = live
<1>1. outbound \in Seq(ToClient)
  BY DEF AtClient
<1>2. CASE Len(outbound) < OutboundSize
  <2>1. outbound' = Append(outbound, m) /\ UNCHANGED <<batch, live, told>>
    BY <1>2 DEF Enqueue
  <2>2. Has(outbound', m) /\ \A x : Has(outbound, x) => Has(outbound', x)
    BY <1>1, <2>1, HasAppend
  <2> QED BY <2>1, <2>2 DEF ClosedOnItsWay, Has
<1>3. CASE ~ (Len(outbound) < OutboundSize)
  BY <1>3 DEF Enqueue, ClosedOnItsWay
<1> QED BY <1>2, <1>3

\* An entry that ends at the bridge ends with a CLOSED, or was a COUNT's.
LEMMA KnownReceived ==
  ASSUME SeparateIds, IInv, BridgeReceives, told', NEW c \in ReqIds,
         Known(c) \/ ClosedOnItsWay(c)
  PROVE  Known(c)' \/ ClosedOnItsWay(c)'
<1> PICK m : m = Head(fromPeer)
  OBVIOUS
<1>1. m \in Answers
  <2>1. fromPeer # <<>> /\ fromPeer \in Seq(Answers)
    BY DEF BridgeReceives, Link!ReaderReceive, IInv, Channels, IsChannel
  <2> QED BY <2>1
<1>2. AtClient /\ c \in ClientIds
  BY SessionAssumption DEF IInv
<1>3. CASE m.sub = None \/ toClient[m.sub] = None
  <2>1. UNCHANGED tableVars
    BY <1>3 DEF BridgeReceives
  <2>2. Known(c) => Known(c)'
    BY <2>1 DEF tableVars, Known, Open
  <2>3. ClosedOnItsWay(c) => ClosedOnItsWay(c)'
    <3>1. CASE m.sub = None
      <4>1. Enqueue(m) /\ m \in ToClient
        BY <1>1, <3>1 DEF BridgeReceives, Answers, ToClient
      <4> QED BY <1>2, <4>1, EnqueuedIsOnItsWay
    <3>2. CASE m.sub # None
      BY <1>3, <3>2 DEF BridgeReceives, clientVars, ClosedOnItsWay
    <3> QED BY <3>1, <3>2
  <2> QED BY <2>2, <2>3
<1>4. CASE m.sub # None /\ toClient[m.sub] # None
  <2> PICK d : d = toClient[m.sub]
    OBVIOUS
  <2>1. /\ m.sub \in UpstreamIds /\ d \in ClientIds /\ m.sub = MakeUpstreamId(d)
        /\ m.verb \in {"EOSE", "COUNT", "CLOSED", "OK"}
    <3>1. m.sub \in UpstreamIds /\ m.verb \in {"EOSE", "COUNT", "CLOSED", "OK"}
      BY <1>1, <1>4 DEF Answers
    <3>2. d \in ClientIds /\ toUpstream[d] = m.sub
      BY <1>4, <3>1 DEF IInv, TableInv, TableTypeOK, TableInverse
    <3>3. m.sub = MakeUpstreamId(d)
      BY <1>4, <3>2 DEF IInv, TableInv, Deterministic
    <3> QED BY <3>1, <3>2, <3>3
  <2>2. /\ Enqueue(Reply(m.verb, d))
        /\ IF EndsEntry(m) THEN CloseEntry(d) ELSE UNCHANGED tableVars
    BY <1>4 DEF BridgeReceives
  <2>3. Reply(m.verb, d) \in ToClient
    BY <2>1 DEF Reply, ToClient
  <2>4. Has(outbound', Reply(m.verb, d)) /\ (ClosedOnItsWay(c) => ClosedOnItsWay(c)')
    BY <1>2, <2>2, <2>3, EnqueuedIsOnItsWay
  <2>5. CASE ~ EndsEntry(m) \/ d # c
    <3>1. toUpstream'[c] = toUpstream[c] /\ request'[c] = request[c]
      BY <1>2, <2>2, <2>5 DEF tableVars, CloseEntry, Open, IInv, TableInv, TableTypeOK
    <3>2. Known(c) => Known(c)'
      BY <3>1 DEF Known, Open
    <3> QED BY <2>4, <3>2
  <2>6. CASE EndsEntry(m) /\ d = c /\ m.verb = "CLOSED"
    <3>1. ClosedOnItsWay(c)'
      BY <2>4, <2>6 DEF ClosedOnItsWay, Has
    <3> QED BY <3>1
  <2>7. CASE EndsEntry(m) /\ d = c /\ m.verb = "COUNT"
    <3>1. PICK e \in CountIds : m.sub = MakeUpstreamId(e)
      BY <1>1, <2>7 DEF Answers, CountSubs
    <3> QED BY <2>1, <2>7, <3>1, RewrittenApart
  <2> QED BY <2>5, <2>6, <2>7 DEF EndsEntry
<1> QED BY <1>3, <1>4

LEMMA KnownAsked ==
  ASSUME SeparateIds, IInv, NEW d \in ClientIds, NEW verb \in {"REQ", "COUNT"},
         ClientAsks(d, verb), verb = "COUNT" => d \in CountIds,
         told', NEW c \in live', c \in live => Known(c) \/ ClosedOnItsWay(c)
  PROVE  Known(c)' \/ ClosedOnItsWay(c)'
<1>1. AtClient /\ live \subseteq ReqIds /\ ReqIds \subseteq ClientIds
  BY SessionAssumption DEF IInv, AtClient
<1>2. CASE /\ OpenEntry(d, verb, asked + 1)
           /\ live' = IF verb = "REQ" THEN live \cup {d} ELSE live
           /\ UNCHANGED <<outbound, batch, told>>
  <2>1. ClosedOnItsWay(c) => ClosedOnItsWay(c)'
    BY <1>2 DEF ClosedOnItsWay
  <2>2. CASE c = d
    <3>1. verb = "REQ"
      <4>1. CASE verb = "COUNT"
        BY <1>1, <1>2, <2>2, <4>1 DEF SeparateIds
      <4> QED BY <4>1
    <3>2. toUpstream'[c] # None /\ request'[c].verb = "REQ"
      BY <1>2, <2>2, <3>1, IdInRange, TableAssumption
         DEF OpenEntry, IInv, TableInv, TableTypeOK
    <3> QED BY <2>2, <3>2 DEF Known, Open
  <2>3. CASE c # d
    <3>1. c \in live /\ c \in ClientIds
      BY <1>1, <1>2, <2>3
    <3>2. toUpstream'[c] = toUpstream[c] /\ request'[c] = request[c]
      BY <1>2, <2>3, <3>1 DEF OpenEntry, IInv, TableInv, TableTypeOK
    <3>3. Known(c) => Known(c)'
      BY <3>2 DEF Known, Open
    <3> QED BY <2>1, <3>1, <3>3
  <2> QED BY <2>2, <2>3
<1>3. CASE Enqueue(Reply("CLOSED", d)) /\ UNCHANGED tableVars
  <2>1. Reply("CLOSED", d) \in ToClient
    BY DEF Reply, ToClient
  <2>2. live' = live /\ (ClosedOnItsWay(c) => ClosedOnItsWay(c)')
    BY <1>1, <1>3, <2>1, EnqueuedIsOnItsWay
  <2>3. Known(c) => Known(c)'
    BY <1>3 DEF Known, Open, tableVars
  <2> QED BY <2>2, <2>3
<1> QED BY <1>2, <1>3 DEF ClientAsks

LEMMA LiveStep ==
  ASSUME SeparateIds
  PROVE  IInv /\ LiveInTable /\ [Next]_vars => LiveInTable'
<1> SUFFICES ASSUME IInv, LiveInTable, [Next]_vars, phase' = "open", told', NEW c \in live'
             PROVE  Known(c)' \/ ClosedOnItsWay(c)'
  BY DEF LiveInTable, Known
<1>1. phase = "open"
  BY DEF Next, vars, ClientAsks, ClientCloses, ClientSendsOther, Connects, LinkStep,
         BridgeReceives, RelayTakes, RelayCloses, FlushTake, FlushDeliver, BeginClose, FinishClose
<1>2. told
  BY DEF Next, vars, clientVars, ClientAsks, ClientCloses, ClientSendsOther, Connects, LinkStep,
         BridgeReceives, RelayTakes, RelayCloses, FlushTake, FlushDeliver, BeginClose,
         FinishClose, Enqueue
<1>3. c \in live => c \in ReqIds /\ (Known(c) \/ ClosedOnItsWay(c))
  BY <1>1, <1>2 DEF LiveInTable, Known, IInv, AtClient
<1>4. ASSUME UNCHANGED tableVars, UNCHANGED clientVars PROVE Known(c)' \/ ClosedOnItsWay(c)'
  BY <1>3, <1>4 DEF tableVars, clientVars, Known, Open, ClosedOnItsWay
<1>5. CASE \E d \in ReqIds : ClientAsks(d, "REQ")
  BY <1>3, <1>5, IdsOpened, KnownAsked
<1>6. CASE \E d \in CountIds : ClientAsks(d, "COUNT")
  BY <1>3, <1>6, IdsOpened, KnownAsked
<1>7. ASSUME NEW d \in ClientIds, ClientCloses(d) PROVE Known(c)' \/ ClosedOnItsWay(c)'
  <2>1. /\ c \in live /\ c # d /\ CloseEntry(d) /\ UNCHANGED <<outbound, batch>>
    BY <1>7 DEF ClientCloses
  <2>2. c \in ClientIds
    BY <1>3, <2>1, SessionAssumption
  <2>3. toUpstream'[c] = toUpstream[c] /\ request'[c] = request[c]
    BY <2>1, <2>2 DEF CloseEntry, Open, IInv, TableInv, TableTypeOK
  <2>4. Known(c) => Known(c)'
    BY <2>3 DEF Known, Open
  <2> QED BY <1>3, <2>1, <2>4 DEF ClosedOnItsWay
<1>8. CASE ClientSendsOther
  <2>1. CASE UNCHANGED clientVars
    BY <1>4, <1>8, <2>1 DEF ClientSendsOther
  <2>2. CASE Enqueue(Notice)
    <3>1. Notice \in ToClient /\ AtClient
      BY DEF Notice, ToClient, IInv
    <3>2. live' = live /\ (ClosedOnItsWay(c) => ClosedOnItsWay(c)')
      BY <2>2, <3>1, EnqueuedIsOnItsWay
    <3>3. Known(c) => Known(c)'
      BY <1>8 DEF ClientSendsOther, tableVars, Known, Open
    <3> QED BY <1>3, <3>2, <3>3
  <2> QED BY <1>8, <2>1, <2>2 DEF ClientSendsOther
<1>9. CASE BridgeReceives
  <2>1. live' = live
    BY <1>9 DEF BridgeReceives, clientVars, Enqueue
  <2> QED BY <1>3, <1>9, <2>1, KnownReceived
<1>10. CASE FlushTake
  <2>1. /\ outbound # <<>> /\ batch' = Append(batch, Head(outbound))
        /\ outbound' = Tail(outbound) /\ UNCHANGED <<tableVars, live>>
    BY <1>10 DEF FlushTake
  <2>2. Known(c) => Known(c)'
    BY <2>1 DEF tableVars, Known, Open
  <2>3. outbound \in Seq(ToClient) /\ batch \in Seq(ToClient) /\ Head(outbound) \in ToClient
    <3>1. outbound \in Seq(ToClient) /\ batch \in Seq(ToClient)
      BY DEF IInv, AtClient
    <3> QED BY <2>1, <3>1
  <2>4. \A x : Has(batch, x) \/ Head(outbound) = x => Has(batch', x)
    BY <2>1, <2>3, HasAppend
  <2>5. \A x : Has(outbound, x) /\ Head(outbound) # x => Has(outbound', x)
    BY <2>1, <2>3, HasTail
  <2>6. ClosedOnItsWay(c) => ClosedOnItsWay(c)'
    BY <2>4, <2>5 DEF ClosedOnItsWay, Has
  <2> QED BY <1>3, <2>1, <2>2, <2>6
<1>11. CASE FlushDeliver
  <2>1. /\ c \in live /\ UNCHANGED <<tableVars, outbound>>
        /\ c \in ClientIds => ~ Has(batch, Reply("CLOSED", c))
    BY <1>11 DEF FlushDeliver, Has
  <2>2. c \in ClientIds
    BY <1>3, <2>1, SessionAssumption
  <2>3. ClosedOnItsWay(c) => ClosedOnItsWay(c)'
    BY <2>1, <2>2 DEF ClosedOnItsWay, Has
  <2>4. Known(c) => Known(c)'
    BY <2>1 DEF tableVars, Known, Open
  <2> QED BY <1>3, <2>1, <2>3, <2>4
<1>12. CASE Connects \/ LinkStep \/ RelayTakes \/ (\E u \in UpstreamIds : RelayCloses(u))
            \/ UNCHANGED vars
  BY <1>4, <1>12 DEF Connects, LinkStep, RelayTakes, RelayCloses, vars
<1>13. CASE BeginClose \/ FinishClose
  BY <1>13 DEF BeginClose, FinishClose
<1> QED BY <1>5, <1>6, <1>7, <1>8, <1>9, <1>10, <1>11, <1>12, <1>13 DEF Next

\* What the client has open stays in the table, where a reconnect finds it, until
\* a CLOSED is on its way to it: for a client that uses no id for both a REQ and
\* a COUNT.  Without this assumption it is false: a COUNT takes over an entry.
THEOREM SessionKeepsLive == SeparateIds => (Spec => []LiveInTable)
<1> SUFFICES ASSUME SeparateIds PROVE Spec => []LiveInTable
  OBVIOUS
<1>1. Init => LiveInTable
  BY DEF Init, LiveInTable
<1>2. IInv /\ LiveInTable /\ [Next]_vars => LiveInTable'
  BY LiveStep
<1> QED BY <1>1, <1>2, InitInv, StepInv, PTL DEF Spec

LEMMA LiveIsCarried ==
  ASSUME IInv, LiveInTable, NoLostSubscription
  PROVE  LiveAtRelay
<1> SUFFICES ASSUME Carrying, phase = "open", told, NEW c \in live, ~ ClosedOnItsWay(c)
             PROVE  LET u == MakeUpstreamId(c)
                    IN  ~ SettlesAs(u, None) \/ OnItsWay(Reply("CLOSED", u))
  BY DEF LiveAtRelay
<1> PICK u : u = MakeUpstreamId(c)
  OBVIOUS
<1> PICK f : f = request[c].filter
  OBVIOUS
<1>1. c \in Open /\ request[c].verb = "REQ"
  BY DEF LiveInTable
<1>2. toUpstream[c] = u
  BY <1>1 DEF Open, IInv, TableInv, Deterministic
<1>3. SettlesAs(u, f) \/ OnItsWay(Reply("CLOSED", u))
  BY <1>1, <1>2 DEF NoLostSubscription
<1>4. ASSUME Settled(Pending, relaySubs, u, f), Settled(Pending, relaySubs, u, None) PROVE FALSE
  <2>1. f \in Nat /\ f # None
    BY <1>1, SessionAssumption DEF IInv, Entries, Bounds
  <2> PICK p : p = Pending
    OBVIOUS
  <2>2. PICK i \in 1..Len(p) : Speaks(p[i], u) /\ WordIs(p[i], f)
                               /\ \A j \in 1..Len(p) : Speaks(p[j], u) => j <= i
    BY <1>4, <2>1 DEF Settled
  <2>3. PICK j \in 1..Len(p) : Speaks(p[j], u) /\ WordIs(p[j], None)
                               /\ \A k \in 1..Len(p) : Speaks(p[k], u) => k <= j
    BY <1>4, <2>2 DEF Settled
  <2>4. i = j
    BY <2>2, <2>3
  <2> QED BY <2>1, <2>2, <2>3, <2>4 DEF WordIs
<1> QED BY <1>3, <1>4, SettledForm

\* End to end: what the client has open the relay has, or is about to have, or a
\* CLOSED is on its way back, while a connection carries its traffic.
THEOREM SessionServesLive == SeparateIds => (Spec => []LiveAtRelay)
<1> SUFFICES ASSUME SeparateIds PROVE Spec => []LiveAtRelay
  OBVIOUS
<1>1. Spec => []LiveInTable
  BY SessionKeepsLive
<1> QED BY <1>1, LiveIsCarried, SessionLosesNothing, InitInv, StepInv, PTL DEF Spec
============================================================================
