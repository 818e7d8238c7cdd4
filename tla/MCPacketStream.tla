---------------------------- MODULE MCPacketStream ----------------------------
(***************************************************************************)
(* Packets of four bytes in N units of four or five, the input beginning   *)
(* with a packet or in the middle of one and ending with a unit or in the  *)
(* middle of one, with up to two damaged or broken packets and a false     *)
(* sync byte.                                                              *)
(***************************************************************************)
EXTENDS PacketStream

CONSTANTS N, Shapes

Numbers == 0 .. N - 1
AtMostOne == {{}} \cup {{k} : k \in Numbers}
Faulty ==
  {<<{i, j}, {}>> : i \in Numbers, j \in Numbers} \cup (AtMostOne \X AtMostOne)

\* A shape says where the first packet starts and how much of the last unit
\* is missing.
PacketStart(shape, k) == shape.first + k * shape.unit
Input(shape, damaged, broken, false) ==
  [unit |-> shape.unit, first |-> shape.first, length |-> PacketStart(shape, N) - shape.cut,
   damaged |-> damaged, broken |-> broken,
   syncs |-> {PacketStart(shape, k) : k \in Numbers \ damaged} \cup false]

FaultyInputs ==
  {Input(shape, f[1], f[2], {PacketStart(shape, k) + 2 : k \in false}) :
     shape \in Shapes, f \in Faulty, false \in AtMostOne}
FaultlessInputs == {Input(shape, {}, {}, {}) : shape \in Shapes}

Shape(u, f, c) == [unit |-> u, first |-> f, cut |-> c]
AllShapes == {Shape(4, 0, 0), Shape(4, 3, 2), Shape(5, 0, 0)}
\* Packets with a time stamp in front of each, as in M2TS files.
Stamped == {Shape(5, 1, 1)}

ASSUME InputsRecognisable == StreamsRecognisable
=============================================================================
