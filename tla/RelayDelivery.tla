--------------------------- MODULE RelayDelivery ---------------------------
(***************************************************************************)
(* What RelayConnection promises the owner of a connection.  The owner     *)
(* sends the messages 1, 2, 3, ... in this order, each once; on connect it *)
(* drops the queued ones of Stale, as a session does.  Beside the code's   *)
(* state there is a history: what was written, and what was put back.      *)
(***************************************************************************)
EXTENDS RelayConnection

CONSTANTS MaxSends,      \* bound: how many messages the owner sends
          MaxConnects,   \* bound: how many connections are made
          Stale          \* the messages drop_pending removes on connect

VARIABLES accepted,    \* how many messages send has been given
          connects,    \* connect_count
          dropped,     \* dropped_messages
          written,     \* history: the frames written on this connection
          ever,        \* history: the messages written on any connection
          requeued     \* history: the messages that were put back

histVars == <<accepted, connects, dropped, written, ever, requeued>>
vars == <<linkVars, histVars>>

Numbers == 1..MaxSends

ASSUME DeliveryAssumption ==
  /\ MaxSends \in Nat /\ MaxConnects \in Nat
  /\ Stale \subseteq Numbers
  /\ None \notin Nat

DInit == /\ Init
         /\ accepted = 0 /\ connects = 0 /\ dropped = 0
         /\ written = <<>> /\ ever = {} /\ requeued = {}

----------------------------------------------------------------------------
OwnerSend == /\ accepted < MaxSends
             /\ Send(accepted + 1)
             /\ accepted' = accepted + 1
             /\ dropped' = IF Len(queue) = QueueSize THEN dropped + 1 ELSE dropped
             /\ UNCHANGED <<connects, written, ever, requeued>>

DConnect == /\ connects < MaxConnects
            /\ connects' = connects + 1
            /\ \E q \in UNION {[1..n -> Numbers] : n \in 0..Len(queue)} :
                 DropPending(queue, Stale, q) /\ Connect(q)
            /\ written' = <<>>
            /\ UNCHANGED <<accepted, dropped, ever, requeued>>

DWriterWrite == /\ WriterWrite
                /\ written' = Append(written, held)
                /\ ever' = ever \cup {held}
                /\ UNCHANGED <<accepted, connects, dropped, requeued>>

\* A failed send that finds no room is counted; a cancelled one is not.
DWriterFail == /\ WriterFail
               /\ requeued' = requeued \cup {held}
               /\ dropped' = IF Len(queue) = QueueSize THEN dropped + 1 ELSE dropped
               /\ UNCHANGED <<accepted, connects, written, ever>>

DReaderEnd == /\ ReaderEnd
              /\ requeued' = IF held = None THEN requeued ELSE requeued \cup {held}
              /\ UNCHANGED <<accepted, connects, dropped, written, ever>>

DPeerReceive == /\ PeerReceive
                /\ UNCHANGED <<queue, conn, writer, held, fromPeer, stopping, histVars>>

DNext == \/ OwnerSend \/ DConnect
         \/ (WriterTake \/ WriterDone) /\ UNCHANGED histVars
         \/ DWriterWrite \/ DWriterFail \/ DReaderEnd \/ DPeerReceive
         \/ (Break \/ BeginStop \/ FinishStop) /\ UNCHANGED histVars

\* The event loop runs a task that can run; the transport of a connection that
\* stays up drains (the keepalive pings break it otherwise).
DFairness == /\ WF_vars(WriterTake /\ UNCHANGED histVars)
             /\ WF_vars(WriterDone /\ UNCHANGED histVars)
             /\ WF_vars(FinishStop /\ UNCHANGED histVars)
             /\ WF_vars(DWriterWrite) /\ WF_vars(DReaderEnd)

DSpec == DInit /\ [][DNext]_vars
DFairSpec == DSpec /\ DFairness

----------------------------------------------------------------------------
Queued == {queue[i] : i \in 1..Len(queue)}
Pending == Queued \cup ({held} \ {None})

TypeOK == /\ LinkTypeOK(Numbers, {}) /\ LinkConsistent
          /\ accepted \in 0..MaxSends
          /\ connects \in 0..MaxConnects
          /\ dropped \in Nat
          /\ written \in Seq(Numbers)
          /\ ever \subseteq Numbers
          /\ requeued \subseteq Numbers

\* A message send was given leaves the connection unwritten only when the
\* queue was full at that step (relay.py:103 drops the oldest, :206 and :200
\* find no room), or on connect because the owner drops it: no interleaving
\* of the writer, a broken connection, a failed send and stop loses another.
LossOnlyWhenFull ==
  [][\A m \in Pending \ Pending' :
       IF conn = "down" /\ conn' = "up"
         THEN m \in Stale
         ELSE m \in ever \/ Len(queue) = QueueSize]_vars

\* The frames of the connection, then the message being sent, then the queue.
Line == written \o (IF writer = "taken" THEN <<held>> ELSE <<>>) \o queue

\* Messages leave in the order they were given to send: only one that was put
\* back after a failed or cancelled send is overtaken by later ones (_writer
\* puts it at the end of the queue, not where it was).
OvertakenOnlyIfRequeued ==
  \A i, j \in 1..Len(Line) : i < j /\ Line[i] > Line[j] => Line[j] \in requeued

\* No message goes out twice on one connection, though a cancelled or failed
\* send puts back a message that may have been written: it goes out again on
\* the next connection at the earliest.
OncePerConnection ==
  \A i, j \in 1..Len(written) : i # j => written[i] # written[j]

\* While a connection stays up with a live writer the queue drains.
DrainsWhileUp ==
  <>[](conn = "up" /\ writer # "dead") => <>[](queue = <<>> /\ held = None)

\* stop ends the connection, whatever its tasks were doing.
StopEnds == stopping ~> conn = "stopped"
============================================================================
