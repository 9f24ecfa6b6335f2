------------------------------ MODULE Protocol ------------------------------
(***************************************************************************)
(* protocol.py and its two users: what a kind 27901 event carries, how     *)
(* either side wraps messages in one, and which events the bridge          *)
(* (_reject_reason of rendezvous.py, without time and rate) and the        *)
(* client (_on_relay_message of client.py) read.  An event is intact if    *)
(* its id and signature are its author's; its content can be decrypted by  *)
(* the one it was encrypted to.  Operators that may refuse return sets.    *)
(***************************************************************************)
LOCAL INSTANCE Naturals
LOCAL INSTANCE Sequences

KindCommunication == 27901
SupportedEncryption == {"nip44_v2"}

CommunicationTags(to) == <<<<"p", to>>, <<"encryption", "nip44_v2">>>>

\* send and send_to_client: the items are messages, of which one part is kept,
\* whether they are a non-empty array that begins with a verb.
Wrap(author, to, items, at) ==
  [kind |-> KindCommunication, pubkey |-> author, created_at |-> at, intact |-> TRUE,
   tags |-> CommunicationTags(to), content |-> [to |-> to, array |-> TRUE, items |-> items]]

Message == "message"
NoMessage == "no message"

ParsePayload(content, max) ==
  IF content.array /\ Len(content.items) <= max /\ content.items \in Seq({Message})
    THEN {content.items} ELSE {}

\* The places of the tags of that name that have a value.
Named(tags, name) == {i \in 1..Len(tags) : Len(tags[i]) >= 2 /\ tags[i][1] = name}
First(places) == CHOOSE i \in places : \A j \in places : i <= j

\* Mutant: only the first p tag counts.
SplitFirst(tags) ==
  LET to == Named(tags, "p")
      named == {i \in Named(tags, "encryption") : tags[i][2] # ""}
  IN  [recipients |-> IF to = {} THEN {} ELSE {tags[First(to)][2]},
       encryption |-> IF named = {} THEN "" ELSE tags[First(named)][2]]

SplitPubkeyAndEncryption(tags) ==
  LET named == {i \in Named(tags, "encryption") : tags[i][2] # ""}
  IN  [recipients |-> {tags[i][2] : i \in Named(tags, "p")},
       encryption |-> IF named = {} THEN "" ELSE tags[First(named)][2]]

\* The bridge takes the event; no encryption tag is as good as the right one.
Admitted(event, bridge, allowed) ==
  LET split == SplitPubkeyAndEncryption(event.tags)
  IN  /\ event.kind = KindCommunication
      /\ event.pubkey # bridge /\ event.pubkey \in allowed
      /\ bridge \in split.recipients
      /\ split.encryption \in SupportedEncryption \cup {""}
      /\ event.intact

\* What is decrypted and parsed of an event's content.
Opened(event, reader, max) ==
  IF event.content.to = reader THEN ParsePayload(event.content, max) ELSE {}

BridgeReads(event, bridge, allowed, max) ==
  IF Admitted(event, bridge, allowed) THEN Opened(event, bridge, max) ELSE {}

ClientReads(event, client, bridge, max) ==
  IF /\ event.kind = KindCommunication /\ event.pubkey = bridge
     /\ client \in SplitPubkeyAndEncryption(event.tags).recipients
     /\ event.intact
    THEN Opened(event, client, max) ELSE {}
=============================================================================
