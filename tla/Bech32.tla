------------------------------- MODULE Bech32 -------------------------------
(***************************************************************************)
(* bech32.py: a prefix and 5-bit symbols with a checksum over both, and    *)
(* the conversion between bytes and symbols.  A text is its prefix, in     *)
(* character codes, and its symbols; the characters that stand for the     *)
(* symbols, their case and the separator are left out.  An operator that   *)
(* the code lets fail returns the set of its results: none if it fails.    *)
(***************************************************************************)
LOCAL INSTANCE Naturals
LOCAL INSTANCE SequencesExt
LOCAL INSTANCE Bitwise

\* The 30 bits of the checksum are six symbols.
SymbolsOf(n) == [i \in 1..6 |-> (n \div 32^(6 - i)) % 32]

SymbolXor == [a \in 0..31 |-> [b \in 0..31 |-> a ^^ b]]

\* The generator constants, in decimal, and what _polymod's inner loop makes of
\* each value the top symbol may have.
Generator == <<996825010, 642813549, 513874426, 1027748829, 705979059>>
Feedback ==
  LET Sum(top, j) == FoldLeft(LAMBDA c, i : IF (top \div 2^(i - 1)) % 2 = 1
                                              THEN SymbolXor[c][SymbolsOf(Generator[i])[j]] ELSE c,
                              0, <<1, 2, 3, 4, 5>>)
  IN  [top \in 0..31 |-> [j \in 1..6 |-> Sum(top, j)]]

\* A shift by five bits moves every symbol up and takes the value in.
Polymod(values) ==
  LET Round(chk, value) ==
        LET back == Feedback[chk[1]]
        IN  <<SymbolXor[chk[2]][back[1]], SymbolXor[chk[3]][back[2]], SymbolXor[chk[4]][back[3]],
              SymbolXor[chk[5]][back[4]], SymbolXor[chk[6]][back[5]], SymbolXor[value][back[6]]>>
  IN  FoldLeft(Round, SymbolsOf(1), values)

HrpExpand(hrp) == [i \in 1..Len(hrp) |-> hrp[i] \div 32] \o <<0>>
                  \o [i \in 1..Len(hrp) |-> hrp[i] % 32]

Checksum(hrp, data) ==
  LET polymod == Polymod(HrpExpand(hrp) \o data \o [i \in 1..6 |-> 0])
  IN  [polymod EXCEPT ![6] = SymbolXor[@][1]]

Bech32Encode(hrp, data) == [hrp |-> hrp, symbols |-> data \o Checksum(hrp, data)]

Bech32Decode(text) ==
  LET n == Len(text.symbols)
  IN  IF n >= 6 /\ Polymod(HrpExpand(text.hrp) \o text.symbols) = SymbolsOf(1)
        THEN {[hrp |-> text.hrp, data |-> SubSeq(text.symbols, 1, n - 6)]}
        ELSE {}

\* The bits of numbers of w bits each, and the w-bit numbers of bits.
BitsOf(data, w) ==
  [i \in 1..(w * Len(data)) |-> (data[(i - 1) \div w + 1] \div 2^(w - 1 - ((i - 1) % w))) % 2]
GroupsOf(bits, w) ==
  [g \in 1..(Len(bits) \div w) |->
     FoldLeft(LAMBDA n, b : 2 * n + b, 0, SubSeq(bits, w * (g - 1) + 1, w * g))]

\* convertbits from 8 to 5 bits with padding ...
ToSymbols(bytes) ==
  LET bits == BitsOf(bytes, 8)
      pad == (5 - (Len(bits) % 5)) % 5
  IN  GroupsOf(bits \o [i \in 1..pad |-> 0], 5)

\* ... and back without: what is left over must be padding.
FromSymbols(data) ==
  LET bits == BitsOf(data, 5)
      left == Len(bits) % 8
      padding == SubSeq(bits, Len(bits) - left + 1, Len(bits))
  IN  IF left < 5 /\ \A i \in 1..left : padding[i] = 0 THEN {GroupsOf(bits, 8)} ELSE {}

EncodeBytes(hrp, bytes) == Bech32Encode(hrp, ToSymbols(bytes))
DecodeBytes(text) ==
  UNION {{[hrp |-> d.hrp, bytes |-> b] : b \in FromSymbols(d.data)} : d \in Bech32Decode(text)}
=============================================================================
