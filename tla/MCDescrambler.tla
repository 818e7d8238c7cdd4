---------------------------- MODULE MCDescrambler ----------------------------
(***************************************************************************)
(* One or two programs that share an ECM PID or have one each; the sizes   *)
(* are in the configurations.                                              *)
(***************************************************************************)
EXTENDS DescramblerBroadcast

OneECM == [g \in Progs |-> "k1"]
OwnECM == [g \in Progs |-> IF g = "g1" THEN "k1" ELSE "k2"]
=============================================================================
