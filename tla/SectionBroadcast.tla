--------------------------- MODULE SectionBroadcast ---------------------------
(***************************************************************************)
(* A section parser behind a broadcast: the transmitter repeats the        *)
(* current version of a table, cutting it into packets of Capacity units   *)
(* in which a section may follow the end of the one before it, and the     *)
(* channel loses and duplicates packets.  The parser looks at no           *)
(* continuity counter, so only lengths, checksums and section starts tell  *)
(* it that something is missing.                                           *)
(***************************************************************************)
EXTENDS SectionParser

CONSTANTS
  Content,   \* the successive versions of the table, each a valid section
  Capacity,  \* payload units of a packet
  MaxFaults  \* how many packets the channel loses or duplicates in all

Versions == 1 .. Len(Content)

\* Only what is broadcast has a right checksum.
ASSUME BroadcastAssumption ==
  /\ Capacity \in Nat \ {0} /\ MaxFaults \in Nat /\ Pids # {}
  /\ Content \in Seq(Valid) /\ Content # <<>>
  /\ Valid = {Content[v] : v \in Versions} /\ <<>> \notin Valid

VARIABLES
  ver,       \* the version on air
  tx,        \* the units of the section on air that are still to be sent
  faults,    \* faults of the channel so far
  seen       \* the version the reader took last, 0 before the first

bvars == <<ver, tx, faults, seen>>
allvars == <<vars, bvars>>

----------------------------------------------------------------------------
\* The next packet: the rest of the section on air, and behind it either
\* filler or the first units of its repetition.  `more` says which.
Following(more) ==
  LET s == Content[ver]
  IN  [i \in 1 .. Capacity |-> IF more THEN s[((i - 1) % Len(s)) + 1] ELSE Pad]

Packet(more) ==
  LET stream == tx \o Following(more)
      starts == more /\ Len(tx) < Capacity
  IN  [pid  |-> CHOOSE p \in Pids : TRUE,
       pusi |-> starts,
       ptr  |-> IF starts THEN Len(tx) ELSE 0,
       data |-> SubSeq(stream, 1, Capacity)]

\* What the transmitter has still to send of the section the packet ends in.
Remaining(more) ==
  LET n == Len(Content[ver]) IN
  IF Len(tx) >= Capacity THEN SubSeq(tx, Capacity + 1, Len(tx))
  ELSE IF ~more THEN <<>>
  ELSE SubSeq(Content[ver], ((Capacity - Len(tx) - 1) % n) + 2, n)

\* An empty packet is not sent.
CanSend(more) == more \/ tx # <<>>

Send(more) ==
  /\ CanSend(more)
  /\ Put(Packet(more))
  /\ tx' = Remaining(more)
  /\ UNCHANGED <<ver, faults, seen>>

Lose(more) ==
  /\ Idle
  /\ CanSend(more)
  /\ faults < MaxFaults
  /\ faults' = faults + 1
  /\ tx' = Remaining(more)
  /\ UNCHANGED <<vars, ver, seen>>

Duplicate(more) ==
  /\ CanSend(more)
  /\ faults < MaxFaults
  /\ Put(Packet(more))
  /\ faults' = faults + 1
  /\ UNCHANGED <<ver, tx, seen>>

\* The table changes between two sections.
Change ==
  /\ tx = <<>>
  /\ ver < Len(Content)
  /\ ver' = ver + 1
  /\ UNCHANGED <<vars, tx, faults, seen>>

\* put() going on with the packet it was called with.
Continue ==
  /\ PutSection \/ PutNoMemory
  /\ UNCHANGED bvars

VersionOf(s) == CHOOSE v \in Versions : Content[v] = s

Take ==
  /\ Get
  /\ seen' = VersionOf(raw[Head(buff)])
  /\ UNCHANGED <<ver, tx, faults>>

GiveUp(e) == Ret(e) /\ UNCHANGED bvars

BInit == Init /\ ver = 1 /\ tx = <<>> /\ faults = 0 /\ seen = 0

BNext ==
  \/ \E more \in BOOLEAN : Send(more) \/ Lose(more) \/ Duplicate(more)
  \/ Change
  \/ Continue
  \/ Take
  \/ \E e \in Elems : GiveUp(e)

\* The transmitter goes on forever.  The application reads what is queued and
\* gives it back between two calls of put(), as proc_pat() and its like do in
\* the call that found a section: get() and ret() are called again and again
\* at moments at which no put() runs, hence the strong fairness.
Fairness ==
  /\ WF_allvars(\E more \in BOOLEAN : Send(more))
  /\ WF_allvars(Continue)
  /\ SF_allvars(Take)
  /\ SF_allvars(\E e \in Elems : GiveUp(e))

BSpec == BInit /\ [][BNext]_allvars /\ Fairness

----------------------------------------------------------------------------
BTypeOK ==
  /\ TypeOK
  /\ ver \in Versions
  /\ tx \in Seq(Units)
  /\ faults \in 0 .. MaxFaults
  /\ seen \in 0 .. Len(Content)

\* A version that is on air for good is read in the end, whatever was lost
\* before: the parser finds its way back into the section stream.
Converges ==
  \A v \in Versions : <>[](ver = v) => <>[](seen = v)

\* Reading never goes back to an older version, nor ahead of the broadcast:
\* lost and duplicated packets cannot make up a section nobody sends.
NeverStale == [][seen' >= seen /\ seen' <= ver]_seen
=============================================================================
