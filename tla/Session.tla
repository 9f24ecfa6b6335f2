------------------------------ MODULE Session ------------------------------
(***************************************************************************)
(* One whitelisted client and its connection to the local relay:           *)
(* ClientSession of session.py, composed of the client's subscription      *)
(* table, a RelayConnection, the outbound queue with its flusher, and the  *)
(* local relay at the other end (modelled from NIP-01 as the session uses  *)
(* it).  Every REQ and COUNT of the client carries a new filter, a number, *)
(* so that an old request for an id is told from the latest one.           *)
(***************************************************************************)
EXTENDS Subscriptions, Sequences

CONSTANTS QueueSize, SendMayFail,   \* see RelayConnection
          OutboundSize,    \* the maxsize of _outbound
          MaxBatch,        \* limits.max_messages_per_event
          ReqIds,          \* the ids the client uses with REQ
          CountIds,        \* the ids the client uses with COUNT
          RelayMayClose,   \* does the relay close subscriptions by itself?
          MaxRequests, MaxEvents, MaxConnects, MaxInFlight   \* bounds

VARIABLES queue, conn, writer, held, toPeer, fromPeer, stopping,      \* the connection
          relaySubs,    \* the local relay: the filter of each subscription it holds
          outbound,     \* _outbound: messages for the client
          batch,        \* the flusher's pending list
          phase,        \* "open", "closing", "closed"
          asked,        \* bound: how many requests the client has made
          events,       \* bound: how many other messages the client has sent
          connects,     \* connect_count
          live,         \* history: the client's REQ subscriptions, as it knows them
          told,         \* history: FALSE once a message for the client was dropped
          shed          \* history: the queue overflowed into subscription traffic
                        \* on this connection

linkVars == <<queue, conn, writer, held, toPeer, fromPeer, stopping>>
clientVars == <<outbound, batch, live, told>>
boundVars == <<asked, events, connects>>
vars == <<tableVars, linkVars, clientVars, boundVars, relaySubs, phase, shed>>

Link == INSTANCE RelayConnection

\* What the session sends on its connection.
Frames == [verb : {"REQ", "COUNT", "CLOSE", "EVENT"}, sub : UpstreamIds \cup {None},
           filter : 0..MaxRequests]

ASSUME SessionAssumption ==
  /\ QueueSize \in Nat \ {0} /\ SendMayFail \in BOOLEAN
  /\ None \notin Frames /\ None \notin Nat
  /\ Verbs = {"REQ", "COUNT"} /\ Filters = 1..MaxRequests
  /\ OutboundSize \in Nat \ {0} /\ MaxBatch \in Nat \ {0}
  /\ ReqIds \cup CountIds \subseteq ClientIds
  /\ RelayMayClose \in BOOLEAN
  /\ MaxRequests \in Nat /\ MaxEvents \in Nat /\ MaxConnects \in Nat /\ MaxInFlight \in Nat

----------------------------------------------------------------------------
Frame(verb, sub, filter) == [verb |-> verb, sub |-> sub, filter |-> filter]
Other == Frame("EVENT", None, 0)      \* EVENT, AUTH and unknown verbs, verbatim
Notice == [verb |-> "NOTICE", sub |-> None]
Reply(verb, sub) == [verb |-> verb, sub |-> sub]

\* Mutant: COUNT and REQ stay queued.
IsClose(m) == m.verb = "CLOSE"

\* The queued traffic _on_local_connected drops.
IsSubscriptionTraffic(m) == m.verb \in {"REQ", "COUNT", "CLOSE"}

\* Mutant: nothing is replayed.
ReplayNothing(ids) == <<>>

\* The table's requests in the order ids of the open subscriptions.
Replay(ids) == [i \in DOMAIN ids |->
  Frame(request[ids[i]].verb, toUpstream[ids[i]], request[ids[i]].filter)]

\* Mutants: an EOSE ends the subscription; a COUNT does not.
EndsEntryEarly(m) == m.verb \in {"CLOSED", "COUNT", "EOSE"}
EndsEntryNever(m) == m.verb = "CLOSED"

\* The relay's messages after which _on_local_message closes the table entry.
EndsEntry(m) == m.verb \in {"CLOSED", "COUNT"}

\* Mutant: the outbound queue has no bound.
EnqueueUnbounded(m) == outbound' = Append(outbound, m) /\ UNCHANGED <<batch, live, told>>

\* _enqueue: a full outbound queue drops the new message.
Enqueue(m) == IF Len(outbound) < OutboundSize
                THEN outbound' = Append(outbound, m) /\ UNCHANGED <<batch, live, told>>
                ELSE told' = FALSE /\ UNCHANGED <<outbound, batch, live>>

\* send of one message: what was shed if it overflows.
Forward(m) == /\ Link!Send(m)
              /\ shed' = (shed \/ (Len(queue) = QueueSize /\ IsSubscriptionTraffic(Head(queue))))

Init == /\ TableInit /\ Link!Init
        /\ relaySubs = [u \in UpstreamIds |-> None]
        /\ outbound = <<>> /\ batch = <<>> /\ phase = "open"
        /\ asked = 0 /\ events = 0 /\ connects = 0
        /\ live = {} /\ told = TRUE /\ shed = FALSE

----------------------------------------------------------------------------
\* The client's messages, handled one by one by _forward_to_local_locked.
ClientAsks(c, verb) ==
  /\ phase = "open" /\ asked < MaxRequests
  /\ asked' = asked + 1
  /\ \/ /\ OpenEntry(c, verb, asked + 1)
        /\ Forward(Frame(verb, MakeUpstreamId(c), asked + 1))
        /\ live' = IF verb = "REQ" THEN live \cup {c} ELSE live
        /\ UNCHANGED <<outbound, batch, told>>
     \/ /\ ~ MayOpen(c)
        /\ Enqueue(Reply("CLOSED", c))
        /\ UNCHANGED <<tableVars, linkVars, shed>>
  /\ UNCHANGED <<events, connects, relaySubs, phase>>

\* Mutant: the table forgets the subscription, the relay is not told.
ClientClosesSilently(c) ==
  /\ phase = "open"
  /\ CloseEntry(c)
  /\ live' = live \ {c}
  /\ UNCHANGED <<linkVars, shed, outbound, batch, told, boundVars, relaySubs, phase>>

\* A CLOSE of an open subscription (of any other it is ignored).
ClientCloses(c) ==
  /\ phase = "open"
  /\ CloseEntry(c)
  /\ Forward(Frame("CLOSE", toUpstream[c], 0))
  /\ live' = live \ {c}
  /\ UNCHANGED <<outbound, batch, told, boundVars, relaySubs, phase>>

\* Any other message goes through; a REQ without an id is answered by a NOTICE.
ClientSendsOther ==
  /\ phase = "open" /\ events < MaxEvents
  /\ events' = events + 1
  /\ \/ Forward(Other) /\ UNCHANGED clientVars
     \/ Enqueue(Notice) /\ UNCHANGED <<linkVars, shed>>
  /\ UNCHANGED <<tableVars, asked, connects, relaySubs, phase>>

----------------------------------------------------------------------------
\* A connection: queued subscription traffic is dropped, the table replayed
\* (in the order of the dictionary; any order is allowed here).
Connects ==
  /\ connects < MaxConnects
  /\ connects' = connects + 1
  /\ \E keep \in Link!Ascending({i \in 1..Len(queue) : ~ IsSubscriptionTraffic(queue[i])}),
       ids \in {f \in [1..Cardinality(Open) -> Open] :
                  \A i, j \in DOMAIN f : i # j => f[i] # f[j]} :
       Link!Connect(Link!PutAll([i \in DOMAIN keep |-> queue[keep[i]]], Replay(ids)))
  /\ relaySubs' = [u \in UpstreamIds |-> None]
  /\ shed' = (Cardinality(Open) > QueueSize)
  /\ UNCHANGED <<tableVars, clientVars, asked, events, phase>>

\* The steps of the connection's tasks that touch nothing else.
LinkStep ==
  /\ Link!WriterStep \/ Link!Break \/ Link!ReaderEnd
  /\ UNCHANGED <<tableVars, clientVars, boundVars, relaySubs, phase, shed>>

\* _on_local_message: the client's id is restored, or the message dropped; a
\* CLOSED or COUNT also ends the table entry.
BridgeReceives ==
  LET m == Head(fromPeer)
      c == IF m.sub = None THEN None ELSE toClient[m.sub]
  IN  /\ Link!ReaderReceive
      /\ \/ /\ m.sub = None
            /\ Enqueue(m) /\ UNCHANGED tableVars
         \/ /\ m.sub # None /\ c = None
            /\ UNCHANGED <<tableVars, clientVars>>
         \/ /\ m.sub # None /\ c # None
            /\ Enqueue(Reply(m.verb, c))
            /\ IF EndsEntry(m) THEN CloseEntry(c) ELSE UNCHANGED tableVars
      /\ UNCHANGED <<queue, conn, writer, held, toPeer, stopping>>
      /\ UNCHANGED <<boundVars, relaySubs, phase, shed>>

----------------------------------------------------------------------------
\* The local relay (NIP-01, NIP-45): a REQ replaces the subscription of its id
\* and is answered, a COUNT is answered once, an EVENT gets an OK.
RelayTakes ==
  LET m == Head(toPeer)
      answer == CASE m.verb = "REQ" -> Reply("EOSE", m.sub)
                  [] m.verb = "COUNT" -> Reply("COUNT", m.sub)
                  [] OTHER -> Reply("OK", None)
  IN  /\ Link!PeerReceive
      /\ relaySubs' = CASE m.verb = "REQ" -> [relaySubs EXCEPT ![m.sub] = m.filter]
                        [] m.verb = "CLOSE" -> [relaySubs EXCEPT ![m.sub] = None]
                        [] OTHER -> relaySubs
      /\ IF m.verb = "CLOSE" THEN UNCHANGED fromPeer
                             ELSE Len(fromPeer) < MaxInFlight /\ Link!PeerSend(answer)
      /\ UNCHANGED <<queue, conn, writer, held, stopping>>
      /\ UNCHANGED <<tableVars, clientVars, boundVars, phase, shed>>

\* The relay closes a subscription: a refused REQ, a restart, a limit.
RelayCloses(u) ==
  /\ RelayMayClose
  /\ relaySubs[u] # None /\ Len(fromPeer) < MaxInFlight
  /\ Link!PeerSend(Reply("CLOSED", u))
  /\ relaySubs' = [relaySubs EXCEPT ![u] = None]
  /\ UNCHANGED <<queue, conn, writer, held, toPeer, stopping>>
  /\ UNCHANGED <<tableVars, clientVars, boundVars, phase, shed>>

----------------------------------------------------------------------------
\* _flush_loop: the first message waits for more, up to a limit or a delay.
FlushTake ==
  /\ phase = "open" /\ outbound # <<>> /\ Len(batch) < MaxBatch
  /\ batch' = Append(batch, Head(outbound))
  /\ outbound' = Tail(outbound)
  /\ UNCHANGED <<tableVars, linkVars, boundVars, live, told, relaySubs, phase, shed>>

\* The batch is delivered: a CLOSED tells the client its subscription is over.
FlushDeliver ==
  /\ phase = "open" /\ batch # <<>>
  /\ batch' = <<>>
  /\ live' = live \ {c \in ClientIds : \E i \in 1..Len(batch) : batch[i] = Reply("CLOSED", c)}
  /\ UNCHANGED <<tableVars, linkVars, boundVars, outbound, told, relaySubs, phase, shed>>

\* close: the flusher is cancelled with what it holds, the connection stopped,
\* and once it has ended the table is cleared.
BeginClose ==
  /\ phase = "open"
  /\ phase' = "closing"
  /\ batch' = <<>>
  /\ Link!BeginStop
  /\ UNCHANGED <<tableVars, boundVars, outbound, live, told, relaySubs, shed>>

\* Mutant: close waits for the queue to drain.
FinishCloseDrained ==
  /\ phase = "closing" /\ queue = <<>>
  /\ phase' = "closed"
  /\ Link!FinishStop
  /\ ClearTable
  /\ UNCHANGED <<clientVars, boundVars, relaySubs, shed>>

FinishClose ==
  /\ phase = "closing"
  /\ phase' = "closed"
  /\ Link!FinishStop
  /\ ClearTable
  /\ UNCHANGED <<clientVars, boundVars, relaySubs, shed>>

Next == \/ \E c \in ReqIds : ClientAsks(c, "REQ")
        \/ \E c \in CountIds : ClientAsks(c, "COUNT")
        \/ \E c \in ClientIds : ClientCloses(c)
        \/ ClientSendsOther
        \/ Connects \/ LinkStep \/ BridgeReceives
        \/ RelayTakes \/ \E u \in UpstreamIds : RelayCloses(u)
        \/ FlushTake \/ FlushDeliver
        \/ BeginClose \/ FinishClose

\* The event loop runs every task that can run, the transport of a connection
\* that stays up drains, and the relay reads what it is sent.
OwnSteps(A) == A /\ UNCHANGED <<tableVars, clientVars, boundVars, relaySubs, phase, shed>>
Fairness == /\ WF_vars(OwnSteps(Link!WriterTake \/ Link!WriterWrite \/ Link!WriterDone))
            /\ WF_vars(OwnSteps(Link!ReaderEnd))
            /\ WF_vars(BridgeReceives) /\ WF_vars(RelayTakes)
            /\ WF_vars(FlushTake) /\ WF_vars(FlushDeliver) /\ WF_vars(FinishClose)

Spec == Init /\ [][Next]_vars
----------------------------------------------------------------------------
TypeOK ==
  /\ TableTypeOK
  /\ Link!LinkTypeOK(Frames, [verb : {"EOSE", "COUNT", "CLOSED", "OK"},
                              sub : UpstreamIds \cup {None}])
  /\ Link!LinkConsistent
  /\ relaySubs \in [UpstreamIds -> 1..MaxRequests \cup {None}]
  /\ \A q \in {outbound, batch} :
       q \in Seq([verb : {"EOSE", "COUNT", "CLOSED", "OK", "NOTICE"},
                  sub : ClientIds \cup {None}])
  /\ Len(outbound) <= OutboundSize /\ Len(batch) <= MaxBatch
  /\ phase \in {"open", "closing", "closed"}
  /\ asked \in 0..MaxRequests /\ events \in 0..MaxEvents /\ connects \in 0..MaxConnects
  /\ live \subseteq ReqIds
  /\ told \in BOOLEAN /\ shed \in BOOLEAN

\* What the relay has not taken yet, in the order it will.
Pending == toPeer \o (IF writer = "taken" THEN <<held>> ELSE <<>>) \o queue

\* Once the relay has taken what is pending it holds the filter f for u.
SettlesAs(u, f) ==
  LET about == {i \in 1..Len(Pending) : Pending[i].sub = u /\ Pending[i].verb # "COUNT"}
  IN  IF about = {} THEN relaySubs[u] = f
      ELSE \E i \in about :
             /\ \A j \in about : j <= i
             /\ IF Pending[i].verb = "REQ" THEN Pending[i].filter = f ELSE f = None

\* The connection carries what it is given: it is up, its writer lives, and its
\* queue has not overflowed into subscription traffic.
Carrying == conn = "up" /\ writer # "dead" /\ ~ shed

OnItsWay(m) == \E i \in 1..Len(fromPeer) : fromPeer[i] = m

\* "nor lose one" (README.md:134): while a connection carries its traffic,
\* every REQ of the table is at the relay or on its way there as its last
\* word, unless the relay has closed it; every COUNT is asked or answered.
NoLostSubscription ==
  Carrying => \A c \in Open :
    LET u == toUpstream[c]  f == request[c].filter
    IN  IF request[c].verb = "REQ"
          THEN SettlesAs(u, f) \/ OnItsWay(Reply("CLOSED", u))
          ELSE \/ OnItsWay(Reply("COUNT", u))
               \/ \E i \in 1..Len(Pending) : Pending[i] = Frame("COUNT", u, f)

\* "a connect can neither duplicate a subscription" (session.py:184): a request
\* is pending once, and not while the relay has it already.
NoDuplicateRequest ==
  conn = "up" =>
    \A i \in 1..Len(Pending) : Pending[i].verb \in {"REQ", "COUNT"} =>
      /\ \A j \in 1..Len(Pending) : Pending[i] = Pending[j] => i = j
      /\ Pending[i].verb = "REQ" => relaySubs[Pending[i].sub] # Pending[i].filter

\* "This table is the single source of truth" (subscriptions.py:100): the relay
\* holds no subscription the table does not have, or is about to close it.
NoOrphan == Carrying => \A u \in UpstreamIds :
                          toClient[u] = None => SettlesAs(u, None)

\* The client has been told, or is about to be, that a subscription is over.
ClosedOnItsWay(c) ==
  \E q \in {outbound, batch} : \E i \in 1..Len(q) : q[i] = Reply("CLOSED", c)

\* A subscription the client has open is in the table, where a reconnect
\* finds it, until a CLOSED for it is at least on its way to the client (a full
\* outbound queue may drop that one, see told).
LiveInTable ==
  phase = "open" /\ told => \A c \in live :
    (c \in Open /\ request[c].verb = "REQ") \/ ClosedOnItsWay(c)

\* The client uses no id for both a REQ and a COUNT, nor two with one digest: the
\* table holds one entry for an id, and a COUNT under the id of an open REQ takes
\* its entry over.
SeparateIds ==
  \A c \in ReqIds, d \in CountIds :
    c # d /\ ~ (c \in LongIds /\ d \in LongIds /\ Digest[c] = Digest[d])

\* End to end, "nor lose one" (README.md:134) as the client sees it: what it has
\* open the relay has or is about to have, or a CLOSED is on its way.
LiveAtRelay ==
  Carrying /\ phase = "open" /\ told => \A c \in live :
    LET u == MakeUpstreamId(c)
    IN  ~ SettlesAs(u, None) \/ OnItsWay(Reply("CLOSED", u)) \/ ClosedOnItsWay(c)

\* close ends, whatever the connection was doing.
CloseEnds == phase = "closing" ~> phase = "closed"
============================================================================
