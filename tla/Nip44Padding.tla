---------------------------- MODULE Nip44Padding ----------------------------
(***************************************************************************)
(* The lengths of the built-in NIP-44 backend, nip44_builtin.py: how long  *)
(* a plaintext is padded, how long the payload becomes, which payloads the *)
(* decoder lets through and how much of them it returns; and framing.py's  *)
(* estimate of the payload.  A padded plaintext is the length it begins    *)
(* with and its size.  Operators that may refuse return sets.              *)
(***************************************************************************)
EXTENDS Naturals

MinPlaintextSize == 1
MaxPlaintextSize == 65535

\* 1 << (n - 1).bit_length(), up to the 2^16 a plaintext can need.
NextPower(n) == CHOOSE p \in {2^k : k \in 0..16} : p >= n /\ (p = 1 \/ p \div 2 < n)

Chunk(n) == IF NextPower(n) <= 256 THEN 32 ELSE NextPower(n) \div 8

\* Mutant: what fills its chunks is padded by one more.
CalcPaddedLenMore(n) == IF n <= 32 THEN 32 ELSE Chunk(n) * (n \div Chunk(n) + 1)

CalcPaddedLen(n) == IF n <= 32 THEN 32 ELSE Chunk(n) * ((n - 1) \div Chunk(n) + 1)

\* pad: two bytes of length, the plaintext, zeros (of which there cannot be
\* fewer than none).
Pad(n) ==
  IF n \in MinPlaintextSize..MaxPlaintextSize /\ CalcPaddedLen(n) >= n
    THEN {[length |-> n, size |-> 2 + n + (CalcPaddedLen(n) - n)]} ELSE {}

\* unpad: the length of the plaintext, which a slice may cut short.
Unpad(padded) ==
  LET length == padded.length
      rest == padded.size - 2
      unpadded == IF length <= rest THEN length ELSE rest
  IN  IF /\ padded.size >= 2
         /\ length >= MinPlaintextSize
         /\ unpadded = length
         /\ padded.size = 2 + CalcPaddedLen(length)
        THEN {unpadded} ELSE {}

Base64(n) == 4 * ((n + 2) \div 3)

\* encrypt_with_conversation_key: version, nonce, ciphertext and MAC in base64.
Encrypt(n) ==
  {LET raw == 1 + 32 + padded.size + 32
   IN  [payload |-> Base64(raw), raw |-> raw, padded |-> padded] : padded \in Pad(n)}

\* Mutant: the longest payload is refused.
DecryptShorter(message) ==
  IF /\ message.payload >= 132 /\ message.payload < 87472
     /\ message.raw >= 99 /\ message.raw <= 65603
    THEN Unpad(message.padded) ELSE {}

\* decrypt_with_conversation_key: the checks on the payload's length and on
\* that of its content come before those on the padding.
Decrypt(message) ==
  IF /\ message.payload >= 132 /\ message.payload <= 87472
     /\ message.raw >= 99 /\ message.raw <= 65603
    THEN Unpad(message.padded) ELSE {}

\* estimate_encrypted_size.
Estimate(n) == ((2 + CalcPaddedLen(n) + (1 + 32 + 32) + 2) \div 3) * 4
=============================================================================
