------------------------------- MODULE Inbox -------------------------------
(***************************************************************************)
(* The bridge's inbox on one rendez-vous relay: RendezvousHub of           *)
(* rendezvous.py as the owner of a RelayConnection.  On connect it asks    *)
(* for its inbox and publishes two announcements; responses for clients    *)
(* and later announcements share the send queue.  The relay may demand     *)
(* NIP-42 AUTH and then sends its challenge first; the answer is written   *)
(* past the queue.                                                         *)
(***************************************************************************)
EXTENDS Naturals, Sequences, FiniteSets

CONSTANTS QueueSize, SendMayFail, None,   \* see RelayConnection
          AuthEnabled,                    \* rendezvous.auth
          Announce,                       \* rendezvous.publish_announcements
          MaxResponses, MaxConnects, MaxInFlight   \* bounds

VARIABLES queue, conn, writer, held, toPeer, fromPeer, stopping,
          demands,      \* the relay: it demands AUTH
          authed,       \* the relay: it has accepted an AUTH on this connection
          inbox,        \* the relay: it has the subscription hrb-inbox
          responses,    \* bound: how many responses and rounds of announcements were sent
          connects,     \* connect_count
          shed          \* history: the REQ was dropped by a full queue

linkVars == <<queue, conn, writer, held, toPeer, fromPeer, stopping>>
relayVars == <<demands, authed, inbox>>
boundVars == <<responses, connects>>
vars == <<linkVars, relayVars, boundVars, shed>>

Link == INSTANCE RelayConnection

\* What the bridge writes on the connection.
Frames == {"REQ", "EVENT", "AUTH"}

ASSUME InboxAssumption ==
  /\ QueueSize \in Nat \ {0} /\ SendMayFail \in BOOLEAN /\ None \notin Frames
  /\ AuthEnabled \in BOOLEAN /\ Announce \in BOOLEAN
  /\ MaxResponses \in Nat /\ MaxConnects \in Nat /\ MaxInFlight \in Nat \ {0}

Init == /\ Link!Init
        /\ demands \in BOOLEAN /\ authed = FALSE /\ inbox = FALSE
        /\ responses = 0 /\ connects = 0 /\ shed = FALSE

----------------------------------------------------------------------------
\* Mutant: only the announcements.
OnConnectedAnnounce == IF Announce THEN <<"EVENT", "EVENT">> ELSE <<>>

\* on_connected: the inbox REQ, then the announcements (_publish_announcements);
\* the relay greets with its challenge.
OnConnected == <<"REQ">> \o (IF Announce THEN <<"EVENT", "EVENT">> ELSE <<>>)

Connects == /\ connects < MaxConnects
            /\ connects' = connects + 1
            /\ conn = "down" /\ ~ stopping
            /\ conn' = "up" /\ writer' = "idle"
            /\ queue' = Link!PutAll(queue, OnConnected)
            /\ fromPeer' = IF demands THEN <<"AUTH">> ELSE <<>>
            /\ authed' = ~ demands /\ inbox' = FALSE
            /\ shed' = (Len(OnConnected) > QueueSize)
            /\ UNCHANGED <<held, toPeer, stopping, demands, responses>>

\* broadcast of a response, as this connection sees it.
Respond == /\ responses < MaxResponses
           /\ responses' = responses + 1
           /\ Link!Send("EVENT")
           /\ shed' = (shed \/ (Len(queue) = QueueSize /\ Head(queue) = "REQ"))
           /\ UNCHANGED <<relayVars, connects>>

\* The announcer's round, or another relay that connects: _publish_announcements
\* broadcasts both announcements, to this connection too.
Announces ==
  LET lost == Len(queue) + 2 - QueueSize   \* this many of the oldest messages
  IN  /\ Announce /\ responses < MaxResponses
      /\ responses' = responses + 1
      /\ queue' = Link!PutAll(queue, <<"EVENT", "EVENT">>)
      /\ shed' = (shed \/ \E i \in 1..Len(queue) : i <= lost /\ queue[i] = "REQ")
      /\ UNCHANGED <<conn, writer, held, toPeer, fromPeer, stopping, relayVars, connects>>

LinkStep == /\ Link!WriterStep \/ Link!Break \/ Link!ReaderEnd \/ Link!BeginStop
               \/ Link!FinishStop
            /\ UNCHANGED <<relayVars, boundVars, shed>>

\* Mutant: the answer to a challenge is queued like any message.
BridgeAnswersQueued ==
  /\ Link!ReaderReceive
  /\ queue' = IF Head(fromPeer) = "AUTH" /\ AuthEnabled
                THEN Link!PutAll(queue, <<"AUTH">>) ELSE queue
  /\ UNCHANGED <<toPeer, conn, writer, held, stopping, relayVars, boundVars, shed>>

\* _reader and _on_relay_message: a challenge is answered by send_now, a CLOSED
\* is logged, and so is everything else (requests are Ingress's business).
BridgeReceives ==
  /\ Link!ReaderReceive
  /\ toPeer' = IF Head(fromPeer) = "AUTH" /\ AuthEnabled /\ conn = "up"
                 THEN Append(toPeer, "AUTH") ELSE toPeer
  /\ UNCHANGED <<queue, conn, writer, held, stopping, relayVars, boundVars, shed>>

\* The relay: AUTH authenticates, a REQ without it is refused.
RelayTakes ==
  LET m == Head(toPeer)
      refused == m = "REQ" /\ ~ authed
  IN  /\ Link!PeerReceive
      /\ Len(fromPeer) < MaxInFlight
      /\ authed' = (authed \/ m = "AUTH")
      /\ inbox' = (inbox \/ (m = "REQ" /\ ~ refused))
      /\ Link!PeerSend(CASE refused -> "CLOSED" [] m = "REQ" -> "EOSE" [] OTHER -> "OK")
      /\ UNCHANGED <<queue, conn, writer, held, stopping, demands, boundVars, shed>>

Next == \/ Connects \/ Respond \/ Announces \/ LinkStep
        \/ BridgeReceives \/ RelayTakes

OwnSteps(A) == A /\ UNCHANGED <<relayVars, boundVars, shed>>
Fairness == /\ WF_vars(OwnSteps(Link!WriterTake \/ Link!WriterWrite \/ Link!WriterDone))
            /\ WF_vars(BridgeReceives) /\ WF_vars(RelayTakes)

Spec == Init /\ [][Next]_vars
FairSpec == Spec /\ Fairness

----------------------------------------------------------------------------
TypeOK == /\ Link!LinkTypeOK(Frames, {"AUTH", "OK", "EOSE", "CLOSED"})
          /\ Link!LinkConsistent
          /\ demands \in BOOLEAN /\ authed \in BOOLEAN /\ inbox \in BOOLEAN /\ shed \in BOOLEAN
          /\ responses \in 0..MaxResponses /\ connects \in 0..MaxConnects

Pending == toPeer \o (IF writer = "taken" THEN <<held>> ELSE <<>>) \o queue
IsPending(m) == \E i \in 1..Len(Pending) : Pending[i] = m
Carrying == conn = "up" /\ writer # "dead" /\ ~ shed

\* The bridge can be reached: while a connection to a relay without AUTH
\* carries its traffic, the relay has the inbox subscription or is about to,
\* whatever responses and reconnects come between.
InboxOpen == Carrying /\ ~ demands => inbox \/ IsPending("REQ")

\* "A rendez-vous relay that demands AUTH still works end to end"
\* (tests/test_end_to_end.py:335): a relay to which the bridge has
\* authenticated, with nothing under way in either direction, has the inbox.
ReachableOnceAuthed ==
  Carrying /\ authed /\ Pending = <<>> /\ fromPeer = <<>> => inbox

\* A challenge is answered while the connection stays up, whatever waits in the
\* queue and even if the writer has died: send_now goes past both.
ChallengeAnswered == <>[](conn = "up") => <>[]authed
============================================================================
