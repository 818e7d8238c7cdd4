------------------------- MODULE MCSectionBroadcast -------------------------
(***************************************************************************)
(* Three versions of a table, of two, four and three units.  They share    *)
(* and repeat a unit in the middle, so a section torn by a loss can go on  *)
(* with a piece of another version or of another repetition; only the last *)
(* unit, where the checksum is, belongs to one version.                    *)
(***************************************************************************)
EXTENDS SectionBroadcast, TLC

MCPad == <<"pad", 0>>
MCContent == << <<<<"A", 1>>, <<"A", 2>>>>,
                <<<<"B", 1>>, <<"x", 0>>, <<"x", 0>>, <<"B", 4>>>>,
                <<<<"C", 1>>, <<"x", 0>>, <<"C", 3>>>> >>

MCUnits == {MCPad} \cup UNION {{MCContent[v][i] : i \in DOMAIN MCContent[v]} :
                               v \in DOMAIN MCContent}

\* The length in a section's first unit; a filler or a unit from the middle
\* of a section read as a header announces something else.
MCSecLen ==
  [u \in MCUnits |->
     CASE u[2] = 1 -> Len(CHOOSE s \in {MCContent[v] : v \in DOMAIN MCContent} :
                            s[1] = u)
       [] u = MCPad -> 5
       [] OTHER -> 2]

MCValid == {MCContent[v] : v \in DOMAIN MCContent}
MCPackets == {}
=============================================================================
