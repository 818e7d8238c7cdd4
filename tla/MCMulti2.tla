------------------------------- MODULE MCMulti2 -------------------------------
(***************************************************************************)
(* Payloads of the lengths at which the batches of some build change: one  *)
(* less than, exactly and one more than each block size, and both ends.    *)
(***************************************************************************)
EXTENDS Multi2

CONSTANTS Sizes, PlainSizes

Payload(name, n) ==
  [size |-> n,
   words |-> [i \in 1 .. 2 * (n \div 8) |-> {<<name, i, 0>>}],
   rest |-> IF n % 8 = 0 THEN {} ELSE {<<name, 0, 0>>}]

CipherTexts == {Payload("c", n) : n \in Sizes}
PlainTexts == {Payload("p", n) : n \in PlainSizes}
=============================================================================
