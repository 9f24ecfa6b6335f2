------------------------------ MODULE Framing ------------------------------
(***************************************************************************)
(* Packing relay messages into payloads: batch_messages of framing.py as   *)
(* the loop it is, and what send_to_client of rendezvous.py then makes of  *)
(* the batches.  A message is its encoded length in characters, which the  *)
(* packing counts, and in bytes of UTF-8, which NIP-44 counts.             *)
(***************************************************************************)
EXTENDS Naturals, SequencesExt

CONSTANTS MessageSizes,      \* the [chars, bytes] of the messages that occur
          MaxInput,          \* bound: how many messages one flush has
          MaxPayload,        \* limits.max_payload_bytes
          MaxPlaintext,      \* MAX_PLAINTEXT_BYTES
          MaxMessages        \* limits.max_messages_per_event

VARIABLES input,      \* messages
          taken,      \* how many of them the loop has seen
          current,    \* current
          size,       \* current_size
          batches     \* batches

packVars == <<input, taken, current, size, batches>>

ASSUME FramingAssumption ==
  /\ \A m \in MessageSizes : m.chars \in Nat \ {0} /\ m.bytes \in Nat /\ m.bytes >= m.chars
  /\ MaxInput \in Nat /\ MaxPayload \in Nat
  /\ MaxPlaintext \in Nat /\ MaxMessages \in Nat \ {0}

Limit == IF MaxPayload <= MaxPlaintext THEN MaxPayload ELSE MaxPlaintext

\* encode_payload: a bracket, then each message with the comma or the bracket
\* behind it.  The unit is one of the two fields of a message.
Encoded(batch, unit) ==
  LET upTo[i \in 0..Len(batch)] == IF i = 0 THEN 1 ELSE upTo[i - 1] + batch[i][unit] + 1
  IN  upTo[Len(batch)]
Chars(batch) == Encoded(batch, "chars")
Bytes(batch) == Encoded(batch, "bytes")

IsOversized(m) == m.chars + 2 > Limit

----------------------------------------------------------------------------
PackInit == /\ input \in BoundedSeq(MessageSizes, MaxInput)
            /\ taken = 0 /\ current = <<>> /\ size = 2 /\ batches = <<>>

\* Mutants: the separator is not counted; a payload may not be exactly full.
PackNoSeparator ==
  LET m == input[taken + 1]
      tooBig == size + m.chars > Limit
      tooMany == Len(current) >= MaxMessages
  IN  /\ taken < Len(input)
      /\ taken' = taken + 1
      /\ IF current # <<>> /\ (tooBig \/ tooMany)
           THEN batches' = Append(batches, current) /\ current' = <<m>> /\ size' = 2 + m.chars
           ELSE /\ current' = Append(current, m) /\ size' = size + m.chars
                /\ UNCHANGED batches
      /\ UNCHANGED input
PackNotFull ==
  LET m == input[taken + 1]
      separator == IF current # <<>> THEN 1 ELSE 0
      tooBig == size + separator + m.chars >= Limit
      tooMany == Len(current) >= MaxMessages
  IN  /\ taken < Len(input)
      /\ taken' = taken + 1
      /\ IF current # <<>> /\ (tooBig \/ tooMany)
           THEN batches' = Append(batches, current) /\ current' = <<m>> /\ size' = 2 + m.chars
           ELSE /\ current' = Append(current, m) /\ size' = size + separator + m.chars
                /\ UNCHANGED batches
      /\ UNCHANGED input

\* One round of the loop.
Pack == LET m == input[taken + 1]
            separator == IF current # <<>> THEN 1 ELSE 0
            tooBig == size + separator + m.chars > Limit
            tooMany == Len(current) >= MaxMessages
        IN  /\ taken < Len(input)
            /\ taken' = taken + 1
            /\ IF current # <<>> /\ (tooBig \/ tooMany)
                 THEN /\ batches' = Append(batches, current)
                      /\ current' = <<m>>
                      /\ size' = 2 + m.chars
                 ELSE /\ current' = Append(current, m)
                      /\ size' = size + separator + m.chars
                      /\ UNCHANGED batches
            /\ UNCHANGED input

\* Mutant: the last batch is forgotten.
FinishForgets == /\ taken = Len(input) /\ current # <<>>
                 /\ current' = <<>>
                 /\ UNCHANGED <<input, taken, size, batches>>

\* The last batch.
Finish == /\ taken = Len(input) /\ current # <<>>
          /\ batches' = Append(batches, current)
          /\ current' = <<>>
          /\ UNCHANGED <<input, taken, size>>

PackNext == Pack \/ Finish
PackSpec == PackInit /\ [][PackNext]_packVars

Done == taken = Len(input) /\ current = <<>>

----------------------------------------------------------------------------
\* No message is lost, repeated or moved by the packing, at any point of it.
NothingLost == FlattenSeq(batches) \o current = SubSeq(input, 1, taken)

\* A payload exceeds the limits only if it is a single oversized message, and
\* the running size of the loop is the encoded size it stands for.
PayloadsFit ==
  /\ \A b \in ToSet(batches) \cup {current} :
       \/ b = <<>>
       \/ Len(b) = 1 /\ IsOversized(b[1])
       \/ Chars(b) <= Limit /\ Len(b) <= MaxMessages
  /\ current # <<>> => size = Chars(current)

\* The fewest payloads the first n messages can be packed into, in order.
Fits(b) == Len(b) = 1 \/ (Chars(b) <= Limit /\ Len(b) <= MaxMessages)
FewestFor[n \in 0..Len(input)] ==
  IF n = 0 THEN 0
  ELSE LET last == {k \in 1..n : Fits(SubSeq(input, k, n))}
       IN  1 + (CHOOSE f \in {FewestFor[k - 1] : k \in last} :
                  \A k \in last : f <= FewestFor[k - 1])

\* Packing greedily never takes more events than packing in the best way.
FewestPayloads == Done => Len(batches) = FewestFor[Len(input)]

\* "Plaintext size of one 27901 payload ... Hard ceiling 65535" (README.md:177):
\* a payload of messages each of which could be encrypted on its own has no more
\* bytes than NIP-44 takes, so that it is not skipped with all its messages.
PayloadsEncryptable ==
  \A b \in ToSet(batches) :
    (\A i \in 1..Len(b) : b[i].bytes + 2 <= MaxPlaintext) => Bytes(b) <= MaxPlaintext
============================================================================
