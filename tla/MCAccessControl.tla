--------------------------- MODULE MCAccessControl ---------------------------
(***************************************************************************)
(* One reader.  The contract for the first stream is there from the        *)
(* beginning, that for the second comes with an EMM, which is sent in two  *)
(* sections whose elements are also for another card.                      *)
(***************************************************************************)
EXTENDS AccessControl

CONSTANTS Own, Other

ToOwn == [card |-> Own, grants |-> {"k2"}]
ToOther == [card |-> Other, grants |-> {"k2"}]

Sections ==
  {EcmSection(k, period) : k \in ECMs, period \in 0 .. 1}
    \cup {EmmSection(<<ToOther, ToOwn>>), EmmSection(<<ToOther>>)}
=============================================================================
