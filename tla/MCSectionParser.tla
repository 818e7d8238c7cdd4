-------------------------- MODULE MCSectionParser --------------------------
(***************************************************************************)
(* The section parser against arbitrary packets: two sections A and B of   *)
(* two units each (B may be damaged in flight), one of one unit, and every *)
(* packet of at most PacketUnits units, well-formed or not.                *)
(***************************************************************************)
EXTENDS SectionParser, TLC

CONSTANTS PacketUnits

A1 == <<"A", 1>>
A2 == <<"A", 2>>
B1 == <<"B", 1>>
C1 == <<"C", 1>>

MCPad == <<"pad", 0>>

MCUnits == {A1, A2, B1, C1, MCPad}

\* B is a two-unit section whose second half equals that of A; read as a
\* header, a second half or a filler announces two units more.
MCSecLen == [u \in MCUnits |-> IF u = C1 THEN 1 ELSE IF u = MCPad THEN 3 ELSE 2]

MCValid == {<<A1, A2>>, <<B1, A2>>, <<C1>>}

UnitSeqs == UNION {[1 .. n -> MCUnits] : n \in 1 .. PacketUnits}

MCPackets ==
  [pid: {"p"}, pusi: BOOLEAN, ptr: 0 .. 1, data: UnitSeqs]
    \cup [pid: {"q"}, pusi: {TRUE}, ptr: {0}, data: {<<A1, A2>>}]

Symmetry == Permutations(Elems)
=============================================================================
