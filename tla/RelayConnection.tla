-------------------------- MODULE RelayConnection --------------------------
(***************************************************************************)
(* One websocket to a relay, kept alive: RelayConnection of nostr/relay.py.*)
(* The run task connects, lets the owner restore its state (on_connected), *)
(* and then a writer task drains the send queue while the run task reads.  *)
(* All tasks share one event loop, so what lies between two awaits is one  *)
(* step here.  Owners of a connection INSTANCE this module, say what they  *)
(* do on connect and with each message they receive, and what the peer     *)
(* does.                                                                   *)
(***************************************************************************)
EXTENDS Naturals, Sequences, FiniteSets

CONSTANTS QueueSize,     \* send_queue_size
          SendMayFail,   \* may ws.send raise while the connection is up?
          None

VARIABLES queue,      \* _queue: the messages that wait for the writer
          conn,       \* "down", "up", "broken" (lost, its tasks not ended), "stopped"
          writer,     \* the writer task: "none", "idle", "taken", "written", "dead"
          held,       \* the message the writer took from the queue and has not finished
          toPeer,     \* frames written and not yet received by the relay
          fromPeer,   \* frames the relay sent and the reader has not handled
          stopping    \* _stopping

linkVars == <<queue, conn, writer, held, toPeer, fromPeer, stopping>>

ASSUME LinkAssumption == QueueSize \in Nat \ {0} /\ SendMayFail \in BOOLEAN

Init == /\ queue = <<>>
        /\ conn = "down"
        /\ writer = "none"
        /\ held = None
        /\ toPeer = <<>>
        /\ fromPeer = <<>>
        /\ stopping = FALSE

----------------------------------------------------------------------------
\* Mutant: the queue has no bound.
PutAllUnbounded(q, ms) == q \o ms

\* The queue after send puts the messages ms one after the other: each put
\* into a full queue discards the oldest message.
PutAll(q, ms) ==
  LET all == q \o ms
      over == IF Len(all) > QueueSize THEN Len(all) - QueueSize ELSE 0
  IN  SubSeq(all, over + 1, Len(all))

\* put_nowait of a message taken back: at the end, or nowhere if all is full.
Requeue(q, m) == IF Len(q) < QueueSize THEN Append(q, m) ELSE q

\* The ascending enumeration of a set of positions (a set of one function).
Ascending(S) == {f \in [1..Cardinality(S) -> S] :
                   \A i, j \in 1..Cardinality(S) : i < j => f[i] < f[j]}

\* Mutant: what is kept is put back last message first.
DropPendingReversed(q, Drop, r) ==
  \E f \in Ascending({i \in 1..Len(q) : q[i] \notin Drop}) :
    r = [i \in DOMAIN f |-> q[f[Cardinality(DOMAIN f) + 1 - i]]]

\* drop_pending: r is q without the messages of Drop.
DropPending(q, Drop, r) ==
  \E f \in Ascending({i \in 1..Len(q) : q[i] \notin Drop}) :
    r = [i \in DOMAIN f |-> q[f[i]]]

----------------------------------------------------------------------------
Send(m) == /\ queue' = PutAll(queue, <<m>>)
           /\ UNCHANGED <<conn, writer, held, toPeer, fromPeer, stopping>>

\* Mutant: the run loop does not look at _stopping.
ConnectThoughStopping(q) == /\ conn = "down"
                            /\ conn' = "up"
                            /\ queue' = q
                            /\ writer' = "idle"
                            /\ UNCHANGED <<held, toPeer, fromPeer, stopping>>

\* A connect attempt succeeds; the owner's on_connected leaves the queue q.
\* Nothing on the way suspends, so the writer starts only after it.
Connect(q) == /\ conn = "down" /\ ~ stopping
              /\ conn' = "up"
              /\ queue' = q
              /\ writer' = "idle"
              /\ UNCHANGED <<held, toPeer, fromPeer, stopping>>

\* Mutant: the writer looks at the message and leaves it in the queue.
WriterPeek == /\ writer = "idle" /\ queue # <<>>
              /\ held' = Head(queue)
              /\ writer' = "taken"
              /\ UNCHANGED <<queue, conn, toPeer, fromPeer, stopping>>

\* Mutant: the writer waits for a second message.
WriterTakeOfTwo == /\ writer = "idle" /\ Len(queue) > 1
                   /\ held' = Head(queue)
                   /\ queue' = Tail(queue)
                   /\ writer' = "taken"
                   /\ UNCHANGED <<conn, toPeer, fromPeer, stopping>>

\* queue.get returns the oldest message.
WriterTake == /\ writer = "idle" /\ queue # <<>>
              /\ held' = Head(queue)
              /\ queue' = Tail(queue)
              /\ writer' = "taken"
              /\ UNCHANGED <<conn, toPeer, fromPeer, stopping>>

\* ws.send hands the frame to the transport, then waits while it is congested.
WriterWrite == /\ writer = "taken" /\ conn = "up"
               /\ toPeer' = Append(toPeer, held)
               /\ writer' = "written"
               /\ UNCHANGED <<queue, conn, held, fromPeer, stopping>>

WriterDone == /\ writer = "written" /\ conn = "up"
              /\ writer' = "idle"
              /\ held' = None
              /\ UNCHANGED <<queue, conn, toPeer, fromPeer, stopping>>

\* Mutant: a message whose send failed is not put back.
WriterFailDrops == /\ writer \in {"taken", "written"}
                   /\ conn = "broken" \/ (SendMayFail /\ writer = "taken")
                   /\ held' = None
                   /\ writer' = "dead"
                   /\ UNCHANGED <<queue, conn, toPeer, fromPeer, stopping>>

\* ws.send raises: the message goes back and the writer task returns.
WriterFail == /\ writer \in {"taken", "written"}
              /\ conn = "broken" \/ (SendMayFail /\ writer = "taken")
              /\ queue' = Requeue(queue, held)
              /\ held' = None
              /\ writer' = "dead"
              /\ UNCHANGED <<conn, toPeer, fromPeer, stopping>>

\* The connection is lost: the relay gets no more, the reader what had arrived.
Break == /\ conn = "up"
         /\ conn' = "broken"
         /\ toPeer' = <<>>
         /\ \E n \in 0..Len(fromPeer) : fromPeer' = SubSeq(fromPeer, 1, n)
         /\ UNCHANGED <<queue, writer, held, stopping>>

\* The reader ends (or stop cancels it): the writer is cancelled, puts back
\* what it holds, and the run task goes on to the next attempt.
ReaderEnd == /\ conn = "broken"
             /\ fromPeer = <<>> \/ stopping
             /\ queue' = IF held = None THEN queue ELSE Requeue(queue, held)
             /\ held' = None
             /\ writer' = "none"
             /\ conn' = "down"
             /\ fromPeer' = <<>>
             /\ UNCHANGED <<toPeer, stopping>>

\* The reader hands the next frame to the owner's on_message.
ReaderReceive == /\ conn \in {"up", "broken"} /\ fromPeer # <<>>
                 /\ fromPeer' = Tail(fromPeer)

\* stop closes the websocket if there is one, and cancels the run task.
BeginStop == /\ ~ stopping
             /\ stopping' = TRUE
             /\ IF conn = "up"
                  THEN /\ conn' = "broken"
                       /\ toPeer' = <<>>
                       /\ \E n \in 0..Len(fromPeer) : fromPeer' = SubSeq(fromPeer, 1, n)
                  ELSE UNCHANGED <<conn, toPeer, fromPeer>>
             /\ UNCHANGED <<queue, writer, held>>

FinishStop == /\ stopping /\ conn = "down"
              /\ conn' = "stopped"
              /\ UNCHANGED <<queue, writer, held, toPeer, fromPeer, stopping>>

\* The relay takes the next frame, or sends one.
PeerReceive == conn = "up" /\ toPeer # <<>> /\ toPeer' = Tail(toPeer)
PeerSend(m) == conn = "up" /\ fromPeer' = Append(fromPeer, m)

\* The steps of the connection's own tasks.
WriterStep == WriterTake \/ WriterWrite \/ WriterDone \/ WriterFail
RunStep == ReaderEnd \/ FinishStop

----------------------------------------------------------------------------
\* What the state of a connection is: messages of M sent, of N received.
LinkTypeOK(M, N) ==
  /\ queue \in Seq(M) /\ Len(queue) <= QueueSize
  /\ conn \in {"down", "up", "broken", "stopped"}
  /\ writer \in {"none", "idle", "taken", "written", "dead"}
  /\ held \in M \cup {None}
  /\ toPeer \in Seq(M)
  /\ fromPeer \in Seq(N)
  /\ stopping \in BOOLEAN

\* The writer holds a message exactly while it is sending one, there is a
\* writer exactly while there is a connection, frames only on a connection,
\* and a connection is only up for good if nobody stopped it.
LinkConsistent ==
  /\ held # None <=> writer \in {"taken", "written"}
  /\ writer = "none" <=> conn \in {"down", "stopped"}
  /\ conn # "up" => toPeer = <<>>
  /\ conn \in {"down", "stopped"} => fromPeer = <<>>
  /\ conn = "up" => ~ stopping
  /\ conn = "stopped" => stopping
============================================================================
