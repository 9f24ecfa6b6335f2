------------------------------- MODULE Nip19 -------------------------------
(***************************************************************************)
(* nip19.py: keys and hidden relay addresses as bech32 texts.  An address  *)
(* carries the key and the rendez-vous relays as type, length, value       *)
(* entries.  Keys and relays are sequences of bytes; KeySize is 32 and     *)
(* MaxValue 255 in the code.  An operator that may raise returns a set, as *)
(* in Bech32.                                                              *)
(***************************************************************************)
LOCAL INSTANCE Naturals
LOCAL INSTANCE SequencesExt
LOCAL INSTANCE Bech32

CONSTANTS KeySize, MaxValue

ASSUME Nip19Assumption == KeySize \in Nat \ {0} /\ MaxValue \in KeySize..255

\* "npub", "nsec", "nrv" in character codes.
Hrp == [npub |-> <<110, 112, 117, 98>>, nsec |-> <<110, 115, 101, 99>>, nrv |-> <<110, 114, 118>>]

Special == 0
Relay == 1

TlvEncode(entries) ==
  IF \E i \in 1..Len(entries) : Len(entries[i].value) > MaxValue THEN {}
  ELSE {FlattenSeq([i \in 1..Len(entries) |->
          <<entries[i].type, Len(entries[i].value)>> \o entries[i].value])}

\* Mutant: an entry that ends with the payload is called truncated.
TlvDecodeShort(p) ==
  LET from[i \in 1..(Len(p) + 1)] ==
        IF i > Len(p) THEN {<<>>}
        ELSE IF i + 1 > Len(p) \/ i + 1 + p[i + 1] >= Len(p) THEN {}
        ELSE {<<[type |-> p[i], value |-> SubSeq(p, i + 2, i + 1 + p[i + 1])]>> \o rest :
                rest \in from[i + 2 + p[i + 1]]}
  IN  from[1]

TlvDecode(p) ==
  LET from[i \in 1..(Len(p) + 1)] ==
        IF i > Len(p) THEN {<<>>}
        ELSE IF i + 1 > Len(p) \/ i + 1 + p[i + 1] > Len(p) THEN {}
        ELSE {<<[type |-> p[i], value |-> SubSeq(p, i + 2, i + 1 + p[i + 1])]>> \o rest :
                rest \in from[i + 2 + p[i + 1]]}
  IN  from[1]

ValuesOf(entries, type) ==
  LET those == SelectSeq(entries, LAMBDA e : e.type = type)
  IN  [i \in 1..Len(those) |-> those[i].value]

\* encode_npub, encode_nsec.
EncodeKey(kind, key) == IF Len(key) = KeySize THEN {EncodeBytes(Hrp[kind], key)} ELSE {}

EncodeNrv(key, relays) ==
  IF Len(key) # KeySize THEN {}
  ELSE {EncodeBytes(Hrp.nrv, bytes) : bytes \in
          TlvEncode(<<[type |-> Special, value |-> key]>>
                    \o [i \in 1..Len(relays) |-> [type |-> Relay, value |-> relays[i]]])}

\* decode_npub, decode_nsec.
DecodeKey(kind, text) ==
  {[key |-> d.bytes, relays |-> <<>>] :
     d \in {x \in DecodeBytes(text) : x.hrp = Hrp[kind] /\ Len(x.bytes) = KeySize}}

DecodeNrv(text) ==
  {[key |-> ValuesOf(entries, Special)[1], relays |-> ValuesOf(entries, Relay)] :
     entries \in {e \in UNION {TlvDecode(x.bytes) :
                                 x \in {d \in DecodeBytes(text) : d.hrp = Hrp.nrv}} :
                    /\ Len(ValuesOf(e, Special)) = 1
                    /\ Len(ValuesOf(e, Special)[1]) = KeySize}}

\* parse_pubkey and parse_secret_key on a text that is not plain hex.
ParsePubkey(text) ==
  CASE text.hrp = Hrp.npub -> {d.key : d \in DecodeKey("npub", text)}
    [] text.hrp = Hrp.nrv -> {d.key : d \in DecodeNrv(text)}
    [] OTHER -> {}
ParseSecretKey(text) ==
  IF text.hrp = Hrp.nsec THEN {d.key : d \in DecodeKey("nsec", text)} ELSE {}
============================================================================
