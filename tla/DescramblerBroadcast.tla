------------------------ MODULE DescramblerBroadcast ------------------------
(***************************************************************************)
(* The library behind a broadcast that begins in the middle: programs come *)
(* and go with a new PAT, a program moves to another ECM PID with a new    *)
(* PMT, keys change with the ECMs.  Every key period begins with its ECM,  *)
(* and tables and ECMs are repeated: after a new PAT or PMT, the ECM of    *)
(* the running period comes once more before the next period begins.       *)
(***************************************************************************)
EXTENDS Descrambler

CONSTANTS
  Events,      \* what may happen: "pat", "pmt", "flush", "padding", "error"
  PATs,        \* the program sets of the PATs
  FirstECM,    \* the ECM PID of every program at the start
  MaxBuffer,   \* packets the buffer may hold
  Chunk,       \* packets per put(); the last one may have less
  MaxPeriods   \* key periods per ECM PID

ASSUME BroadcastAssumption ==
  PATs \subseteq SUBSET Progs /\ FirstECM \in [Progs -> ECMs]

VARIABLES
  listed,      \* the programs of the PAT on air
  ecmOf,       \* the ECM PID of every program on air
  period,      \* the running key period of every ECM PID
  repeated     \* the ECM PIDs whose ECM came since the tables last changed

airVars == <<listed, ecmOf, period, repeated>>
allVars == <<vars, airVars>>

----------------------------------------------------------------------------
Air(kind, pid, progs, k, t) ==
  /\ Len(sbuf) < MaxBuffer
  /\ arrived < Chunk
  /\ Arrive([n |-> 0, kind |-> kind, pid |-> pid, progs |-> progs,
             ecm |-> k, period |-> t])

SendPat == Air("PAT", None, listed, None, 0) /\ UNCHANGED <<listed, ecmOf, period, repeated>>

ChangePat(gs) ==
  /\ "pat" \in Events /\ gs # listed
  /\ Air("PAT", None, gs, None, 0)
  /\ listed' = gs
  /\ repeated' = {}
  /\ UNCHANGED <<ecmOf, period>>

SendPmt(g) ==
  /\ g \in listed
  /\ Air("PMT", g, {}, ecmOf[g], 0)
  /\ UNCHANGED <<listed, ecmOf, period, repeated>>

ChangePmt(g, k) ==
  /\ "pmt" \in Events /\ g \in listed /\ k # ecmOf[g]
  /\ Air("PMT", g, {}, k, 0)
  /\ ecmOf' = [ecmOf EXCEPT ![g] = k]
  /\ repeated' = {}
  /\ UNCHANGED <<listed, period>>

OnAir == {ecmOf[g] : g \in listed}

SendEcm(k) ==
  /\ k \in OnAir
  /\ Air("ECM", k, {}, None, period[k])
  /\ repeated' = repeated \cup {k}
  /\ UNCHANGED <<listed, ecmOf, period>>

NextPeriod(k) ==
  /\ k \in OnAir \cap repeated
  /\ period[k] < MaxPeriods
  /\ Air("ECM", k, {}, None, period[k] + 1)
  /\ period' = [period EXCEPT ![k] = @ + 1]
  /\ UNCHANGED <<listed, ecmOf, repeated>>

SendStream(g) ==
  /\ g \in listed
  /\ Air("ES", g, {}, ecmOf[g], period[ecmOf[g]])
  /\ UNCHANGED <<listed, ecmOf, period, repeated>>

SendOther(kind) ==
  /\ kind \in Events \cap {"padding", "error"}
  /\ Air(kind, None, {}, None, 0)
  /\ UNCHANGED <<listed, ecmOf, period, repeated>>

BInit ==
  /\ Init
  /\ listed \in PATs
  /\ ecmOf = FirstECM
  /\ period = [k \in ECMs |-> 0]
  /\ repeated = {}

BNext ==
  \/ (arrived = Chunk \/ Len(sbuf) = MaxBuffer) /\ PutBegin /\ UNCHANGED airVars
  \/ CallStep /\ UNCHANGED airVars
  \/ "flush" \in Events /\ FlushBegin /\ UNCHANGED airVars
  \/ SendPat
  \/ \E gs \in PATs : ChangePat(gs)
  \/ \E g \in Progs : SendPmt(g) \/ SendStream(g) \/ \E k \in ECMs : ChangePmt(g, k)
  \/ \E k \in ECMs : SendEcm(k) \/ NextPeriod(k)
  \/ \E kind \in {"padding", "error"} : SendOther(kind)

BSpec == BInit /\ [][BNext]_allVars
=============================================================================
