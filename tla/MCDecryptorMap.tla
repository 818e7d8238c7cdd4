--------------------------- MODULE MCDecryptorMap ---------------------------
(***************************************************************************)
(* Two programs that share the ECM PID k1.  The first goes through the     *)
(* changes a broadcaster makes: another ECM PID, no scrambling, a CA       *)
(* descriptor of its own for one stream, a stream that comes and goes; the *)
(* second names k1 for the program, for its stream, or for both.           *)
(* ECM, stream, EMM and PMT PIDs are kept apart.                           *)
(***************************************************************************)
EXTENDS DecryptorMap, TLC

ES(p, c) == [pid |-> p, ca |-> c]
PMT(c, es) == [ca |-> c, es |-> es]

MCTables ==
  ("g1" :> {PMT("k1", <<ES("s1", None), ES("s2", None)>>),
            PMT("k2", <<ES("s1", None)>>),
            PMT(None, <<ES("s1", None), ES("s2", None)>>),
            PMT("k1", <<ES("s1", "k2"), ES("s2", Unscrambled)>>)})
  @@
  ("g2" :> {PMT("k1", <<ES("s3", "k1")>>),
            PMT(None, <<ES("s3", None)>>),
            PMT(None, <<ES("s3", "k1")>>)})

MCCATs == [emm: {"e1", None}, version: {0, 1}]

\* A CAT that never changes.
OneCAT == {[emm |-> "e1", version |-> 0]}

\* What the routing theorems ask of the PMTs holds of these.
ASSUME StreamsAreApart == OwnStreams

Symmetry == Permutations(Decs)
=============================================================================
