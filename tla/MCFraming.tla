----------------------------- MODULE MCFraming -----------------------------
(***************************************************************************)
(* Inputs of up to six messages of one to seven characters and payloads    *)
(* of eight: one fits with several, with one, or with no other, and the    *)
(* largest does not fit at all.  In "wide" some are longer in bytes.       *)
(***************************************************************************)
EXTENDS Framing

Ascii == {[chars |-> n, bytes |-> n] : n \in {1, 2, 3, 5, 7}}
Wide == Ascii \cup {[chars |-> 2, bytes |-> 4]}
============================================================================
