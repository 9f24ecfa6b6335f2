---------------------------- MODULE MCEncodings ----------------------------
(***************************************************************************)
(* The pure parts of the bridge on bounded inputs: the packing loop of     *)
(* MCFraming, or else one sample: a plaintext by its length, an event on    *)
(* its way between bridge and client, or an address as it was written and  *)
(* then with one mistake made in copying it.                               *)
(***************************************************************************)
EXTENDS MCFraming, Nip44Padding, Nip19, Protocol

CONSTANTS MaxLength,        \* MAX_PLAINTEXT_SIZE
          Symbols           \* bound: the symbols that get into a text by mistake

VARIABLE sample

Key == [i \in 1..KeySize |-> (37 * i) % 256]
Url(n) == [i \in 1..n |-> (11 * i) % 128]
Relays == {<<>>, <<Url(0)>>, <<Url(3), Url(1)>>, <<Url(MaxValue)>>, <<Url(1), Url(MaxValue + 1)>>}

Plaintexts == [what : {"plaintext"}, length : 0..(MaxLength + 1)]
Address(kind, key, relays) ==
  {[what |-> "address", kind |-> kind, key |-> key, relays |-> relays, text |-> t, intact |-> TRUE] :
     t \in IF kind = "nrv" THEN EncodeNrv(key, relays) ELSE EncodeKey(kind, key)}
Addresses == Address("npub", Key, <<>>) \cup Address("nsec", Key, <<>>)
             \cup UNION {Address("nrv", Key, relays) : relays \in Relays}
             \cup UNION {Address(kind, Tail(Key), <<>>) : kind \in DOMAIN Hrp}

\* What anybody may sign and send; Neutral are tags for somebody else.
Neutral == {<<"p">>, <<"p", "stranger">>, <<"e", "bridge">>, <<"encryption", "">>}
Tags == {<<"p", "bridge">>, <<"p", "client">>, <<"encryption", "nip44_v2">>, <<"encryption", "nip04">>}
Envelopes ==
  [what : {"envelope"},
   event : [kind : {KindCommunication, 10112}, pubkey : {"bridge", "client", "stranger"},
            created_at : {0}, intact : BOOLEAN, tags : BoundedSeq(Tags, 2),
            content : [to : {"bridge", "client"}, array : BOOLEAN,
                       items : BoundedSeq({Message, NoMessage}, MaxMessages + 1)]]]

EncInit == /\ PackInit
           /\ \/ sample = [what |-> "none"]
              \/ input = <<>> /\ sample \in Plaintexts \cup Addresses \cup Envelopes

Mistyped(text) ==
  LET n == Len(text.symbols)
      Put(i, x) == [text EXCEPT !.symbols[i] = x]
      Swap(i) == [text EXCEPT !.symbols[i] = text.symbols[i + 1], !.symbols[i + 1] = text.symbols[i]]
      Drop(i) == [text EXCEPT !.symbols = RemoveAt(@, i)]
      Double(i) == [text EXCEPT !.symbols = InsertAt(@, i, @[i])]
  IN  (UNION {{Drop(i), Double(i)} \cup {Put(i, x) : x \in Symbols} : i \in 1..n} \cup {Swap(i) : i \in 1..(n - 1)}
       \cup {[text EXCEPT !.hrp = Hrp[kind]] : kind \in DOMAIN Hrp}) \ {text}

Mistype == /\ sample.what = "address" /\ sample.intact
           /\ \E text \in Mistyped(sample.text) :
                sample' = [sample EXCEPT !.text = text, !.intact = FALSE]

EncNext == \/ PackNext /\ sample.what = "none" /\ UNCHANGED sample
           \/ Mistype /\ UNCHANGED packVars
EncSpec == EncInit /\ [][EncNext]_<<packVars, sample>>

----------------------------------------------------------------------------
BridgeOf(event) == BridgeReads(event, "bridge", {"client"}, MaxMessages)
ClientOf(event) == ClientReads(event, "client", "bridge", MaxMessages)

\* The lengths a NIP-44 plaintext may be padded to: up to 256 every 32 bytes, from
\* there on four for each power of two.
PaddedLengths == {32 * i : i \in 1..8} \cup {i * 2^e : i \in 5..8, e \in 6..13}
LeastPaddedLength(n) == CHOOSE m \in PaddedLengths : m >= n /\ \A l \in PaddedLengths : l >= n => m <= l

\* A plaintext can be encrypted if it has 1 to 65535 bytes; all of them, and no
\* more, come back from the decoder, none of whose limits is off by one; it is
\* padded to the least length that holds it, so that the payload tells its
\* length as coarsely as NIP-44 has it; and framing.py's estimate is the payload's
\* size.
PlaintextReturns ==
  sample.what = "plaintext" =>
    LET n == sample.length
    IN  /\ Encrypt(n) = {} <=> n \notin 1..MaxLength
        /\ \A message \in Encrypt(n) :
             /\ Decrypt(message) = {n}
             /\ message.padded.size = 2 + LeastPaddedLength(n)
             /\ message.payload = Estimate(n)

\* Messages that one side wraps in an event the other side reads, if they are no
\* more than the limit; and what a side reads of any event does not depend on
\* tags meant for others, wherever they stand.
EnvelopeIsRead ==
  sample.what = "envelope" =>
    LET event == sample.event
        items == event.content.items
        With(i, tag) == [event EXCEPT !.tags = InsertAt(@, i, tag)]
        whole == ToSet(items) \subseteq {Message} /\ Len(items) <= MaxMessages
    IN  /\ whole /\ event = Wrap("client", "bridge", items, 0) => BridgeOf(event) = {items}
        /\ whole /\ event = Wrap("bridge", "client", items, 0) => ClientOf(event) = {items}
        /\ \A i \in 1..(Len(event.tags) + 1), tag \in Neutral :
             /\ BridgeOf(With(i, tag)) = BridgeOf(event)
             /\ ClientOf(With(i, tag)) = ClientOf(event)

\* What is encrypted, and what is wrapped, is read by the other side.
RoundTrips == PlaintextReturns /\ EnvelopeIsRead

\* A key or an address is read back as it was written and as nothing else, by
\* every function that reads one, up to the longest relay an entry may carry;
\* a symbol that is wrong, missing, doubled or swapped with the next, or another
\* prefix, and all refuse it.
AddressesReadBack ==
  sample.what = "address" =>
    LET Own(kind) == sample.intact /\ sample.kind = kind
        If(b, x) == IF b THEN {x} ELSE {}
        written == [key |-> sample.key, relays |-> sample.relays]
    IN  /\ \A kind \in {"npub", "nsec"} : DecodeKey(kind, sample.text) = If(Own(kind), written)
        /\ DecodeNrv(sample.text) = If(Own("nrv"), written)
        /\ ParsePubkey(sample.text) = If(Own("npub") \/ Own("nrv"), sample.key)
        /\ ParseSecretKey(sample.text) = If(Own("nsec"), sample.key)
=============================================================================
