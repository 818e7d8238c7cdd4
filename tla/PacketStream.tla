----------------------------- MODULE PacketStream -----------------------------
(***************************************************************************)
(* The bytes under the packets: the driver of td.c reads a file and calls  *)
(* put() and get() until its end, then flush() and get().  put() appends   *)
(* to the work buffer `sbuf`, finds out how far apart packets are          *)
(* (select_unit_size), looks ahead for the tables from `sbuf_offset` on,   *)
(* and sends out what is there; wherever the sync bytes are not where they *)
(* should be, the loops search for packets again (resync, resync_force).   *)
(*                                                                         *)
(* Every turn of a loop is a step.  The buffer always holds a piece of the *)
(* input, so that addresses are positions in the input.  What a packet     *)
(* means is left out but for two things: a packet may be a broken one, and *)
(* every third packet is the one a stage of the look-ahead waits for.      *)
(* Descrambler has the rest, the exits of the loops at a new PAT and at    *)
(* errors among it, after which a packet goes out again.  The loops copy   *)
(* with memcpy what they keep, also onto itself; it is taken to arrive.    *)
(***************************************************************************)
EXTENDS Integers, FiniteSets, FiniteSetsExt

CONSTANTS
  P,            \* bytes of a packet, 188 in the code
  MaxInterval,  \* 320: units are shorter
  MinCount,     \* 8: how often the interval has to be seen
  Slack,        \* 3: for how many units it may be missed
  Run,          \* 8: units in sync that resync() asks for
  Keep,         \* 1024: less than this is moved to the front of the buffer
  Least,        \* 512: the smallest buffer
  HeadLimit,    \* 16M and 32M: how far the look-ahead goes
  Streams,      \* inputs
  Chunks        \* how much read() gives at once; the rest, near the end

\* The driver reads 64 kB at most.
ReadLimit == 65536

ASSUME StreamAssumption ==
  /\ {P, MinCount, Run, Keep, Least, HeadLimit} \subseteq Nat \ {0}
  /\ MaxInterval \in P + 1 .. 2 * P
  /\ Slack \in Nat /\ Slack >= 3 /\ Run \in 2 .. MinCount
  /\ Chunks \subseteq 1 .. ReadLimit
  /\ \A s \in Streams : /\ s.unit \in Nat \ {0} /\ {s.first, s.length} \subseteq Nat
                       /\ s.syncs \subseteq Nat

VARIABLES
  stream,    \* the input: unit, first packet, length, damage
  unit,      \* unit_size, 0 while unknown
  head, tail,\* the bytes in sbuf
  room,      \* sbuf.head - sbuf.pool
  max,       \* sbuf.max
  offset,    \* sbuf_offset
  stage,     \* tables found: PAT, PMT, ECM
  pc, curr,  \* where the running call is
  flushing,  \* the input is at its end
  pending,   \* packets in dbuf
  written,   \* packets the driver wrote
  code       \* how the driver ended

sbuf == <<head, tail, room, max>>
vars == <<stream, unit, sbuf, offset, stage, pc, curr, flushing, pending, written, code>>

----------------------------------------------------------------------------
\* The input.  Packet k is at Start(k); stream.syncs is where the byte 0x47 is:
\* not at a damaged packet, but sometimes in the middle of one.  A broken packet
\* has an adaptation field that is too long.
Start(k) == stream.first + k * stream.unit
Packets == {k \in 0 .. stream.length : Start(k) + P <= stream.length}
IsStart(s) == s >= stream.first /\ (s - stream.first) % stream.unit = 0
Number(s) == (s - stream.first) \div stream.unit

Sync(s) == s \in stream.syncs
Broken(s) == IsStart(s) /\ Number(s) \in stream.broken
Faults == stream.damaged \cup stream.broken
\* PAT, PMT and ECM in turn.
Carries(s, n) == IsStart(s) /\ ~Broken(s) /\ Number(s) % 3 = n

\* An input of one unit size whose first packet is in its first unit, with a
\* sync byte at every packet that is not damaged.  Of other bytes that look like
\* one there are few in whatever is read first, and none at the very beginning or
\* next to the sync byte of a broken packet; Run of them are never a unit apart,
\* and not even two among the first MinCount or the last Run units.
FalseSyncs(s) == {p \in s.syncs : p < s.first \/ (p - s.first) % s.unit # 0}
FewFalse(s, l) ==
  LET n == 2 * Cardinality({p \in FalseSyncs(s) : p < l})
  IN  n < MinCount \/ (n + Slack) * MaxInterval <= l
Recognisable(s) ==
  /\ s.unit \in P .. MaxInterval - 1 /\ s.first < s.unit
  /\ s.damaged \subseteq 0 .. s.length /\ s.broken \subseteq 0 .. s.length
  /\ \A k \in 0 .. s.length : s.first + k * s.unit < s.length =>
       (s.first + k * s.unit \in s.syncs <=> k \notin s.damaged)
  /\ \A l \in 0 .. s.length : FewFalse(s, l)
  /\ \A p \in FalseSyncs(s) :
       /\ p # 0 /\ \E i \in 1 .. Run - 1 : p + s.unit * i \notin s.syncs
       /\ p < s.first + MinCount * s.unit \/ p + s.unit * Run > s.length => p + s.unit \notin s.syncs
  /\ \A k \in s.broken : s.first + k * s.unit + 1 \notin s.syncs
StreamsRecognisable == \A s \in Streams : Recognisable(s)

----------------------------------------------------------------------------
\* select_unit_size(): how often a sync byte follows another at the interval i,
\* among the sync bytes of the buffer.
Intervals == P .. MaxInterval - 1
Count(syncs, i) == Cardinality({s \in syncs : s < tail - P /\ s + i \in syncs})

\* Mutant: the number of units is not checked.
VerifiedNot(m, n) == m > 0

Verified(m, n) == m >= MinCount /\ m * n + Slack * n >= tail - head

\* The interval seen most often, the smallest of them if there are several;
\* 0 for an input that is no transport stream.
UnitSize ==
  LET syncs == stream.syncs \cap (head .. tail - 1)
      counts == {<<i, Count(syncs, i)>> : i \in Intervals}
      m == Max({c[2] : c \in counts})
      n == Min({c[1] : c \in {d \in counts : d[2] = m}})
  IN  IF Verified(m, n) THEN n ELSE 0

\* resync() and resync_force(): the first place in sync, or tail.
First(S) == IF S = {} THEN tail ELSE Min(S)

\* Mutant: any sync byte will do.
ResyncAnywhere(c) == First({s \in c .. tail - unit * Run : Sync(s)})

Resync(c) ==
  First({s \in c .. tail - unit * Run : \A i \in 0 .. Run - 1 : Sync(s + unit * i)})

\* Only what follows up to the end of the buffer has to be in sync.
ResyncForce(c) ==
  First({s \in c .. tail - P :
           Sync(s) /\ \A i \in 1 .. ((tail - s) \div unit) - 1 : Sync(s + unit * i)})

\* reserve_work_buffer(): the new size for a buffer that has to hold size.  More
\* than 16 doublings are never needed for what read() gives.
Doublings ==
  {1, 2, 4, 8, 16, 32, 64, 128, 256, 512, 1024, 2048, 4096, 8192, 16384, 32768, ReadLimit}

Grown(size) ==
  LET n == IF max < Least THEN Least ELSE 2 * max
  IN  Min({i \in {n * k : k \in Doublings} : i >= size})

----------------------------------------------------------------------------
Init ==
  /\ stream \in Streams
  /\ unit = 0
  /\ head = 0 /\ tail = 0 /\ room = 0 /\ max = 0
  /\ offset = 0 /\ stage = 0
  /\ pc = "read" /\ curr = 0 /\ flushing = FALSE
  /\ pending = {} /\ written = {} /\ code = "running"

Stop(c) == pc' = "done" /\ code' = c

\* The call goes on with the look-ahead, or without it.
Enter(h, s) ==
  IF s < 3 /\ ~flushing THEN pc' = "scan" /\ curr' = h + offset
                        ELSE pc' = "proc" /\ curr' = h

\* Mutant: the bytes in front of the head do not count.
AppendShort(n) ==
  /\ tail' = tail + n
  /\ IF tail - head + n > max
       THEN max' = Grown(tail - head + n) /\ room' = 0
       ELSE UNCHANGED <<max, room>>

\* append_work_buffer()
Append(n) ==
  /\ tail' = tail + n
  /\ IF room + (tail - head) + n > max
       THEN max' = Grown(room + (tail - head) + n) /\ room' = 0
       ELSE UNCHANGED <<max, room>>

\* The driver reads a piece of the file and puts it.
Put(chunk) ==
  /\ pc = "read" /\ tail < stream.length
  /\ Append(Min({chunk, stream.length - tail}))
  /\ IF unit = 0 THEN pc' = "select" /\ UNCHANGED curr ELSE Enter(head, stage)
  /\ UNCHANGED <<stream, unit, head, offset, stage, flushing, pending, written, code>>

\* There is no memory for a larger buffer: put() fails, and the driver ends.
PutFails(chunk) ==
  /\ pc = "read" /\ tail < stream.length
  /\ room + (tail - head) + Min({chunk, stream.length - tail}) > max
  /\ Stop("no_memory")
  /\ UNCHANGED <<stream, unit, sbuf, offset, stage, curr, flushing, pending, written>>

\* The file is at its end, flush().
Flush ==
  /\ pc = "read" /\ tail = stream.length
  /\ flushing' = TRUE
  /\ IF unit = 0 THEN pc' = "select" /\ UNCHANGED curr ELSE pc' = "proc" /\ curr' = head
  /\ UNCHANGED <<stream, unit, sbuf, offset, stage, pending, written, code>>

SelectUnitSize ==
  /\ pc = "select"
  /\ unit' = UnitSize
  /\ IF unit' = 0 THEN Stop("non_ts") /\ UNCHANGED curr
                  ELSE Enter(head, stage) /\ UNCHANGED code
  /\ UNCHANGED <<stream, sbuf, offset, stage, flushing, pending, written>>

----------------------------------------------------------------------------
\* Where a turn of a loop finds its packet; tail if it finds none.
InSync(c) == Sync(c) /\ Sync(c + unit)
PacketAt == IF curr + unit >= tail THEN tail ELSE IF InSync(curr) THEN curr ELSE Resync(curr)

\* find_pat(), find_pmt(), find_ecm(): a turn, and the end without the table.
ScanTurn ==
  /\ pc = "scan" /\ PacketAt # tail
  /\ IF Carries(PacketAt, stage)
       THEN /\ stage' = stage + 1 /\ offset' = 0
            /\ pc' = (IF stage = 2 THEN "proc" ELSE "scan") /\ curr' = head
       ELSE curr' = PacketAt + unit /\ UNCHANGED <<offset, stage, pc>>
  /\ UNCHANGED <<stream, unit, sbuf, flushing, pending, written, code>>

ScanEndSwapped ==   \* mutant
  /\ pc = "scan" /\ PacketAt = tail
  /\ offset' = head - curr
  /\ IF offset' < HeadLimit THEN pc' = "get" /\ UNCHANGED code ELSE Stop("no_table")
  /\ UNCHANGED <<stream, unit, sbuf, stage, curr, flushing, pending, written>>

ScanEnd ==
  /\ pc = "scan" /\ PacketAt = tail
  /\ offset' = curr - head
  /\ IF offset' < HeadLimit THEN pc' = "get" /\ UNCHANGED code ELSE Stop("no_table")
  /\ UNCHANGED <<stream, unit, sbuf, stage, curr, flushing, pending, written>>

\* The rest of a turn of the loops of proc_arib_std_b25() and flush(); a broken
\* packet is searched through byte by byte.
TurnStuck(s) ==   \* mutant: the search begins at the packet itself
  IF Broken(s) THEN curr' = s /\ UNCHANGED pending
               ELSE curr' = s + unit /\ pending' = pending \cup {s}

Turn(s) ==
  IF Broken(s) THEN curr' = s + 1 /\ UNCHANGED pending
               ELSE curr' = s + unit /\ pending' = pending \cup {s}

\* The label LAST of both: what is left moves to the front of the buffer when
\* it is short or more than half of the buffer is in front of it.  The length
\* of the copy is unsigned.
Last(next) ==
  /\ IF tail < curr THEN pc' = "crashed" ELSE pc' = next
  /\ head' = curr
  /\ room' = IF tail - curr < Keep \/ curr - head > max \div 2 THEN 0 ELSE room + (curr - head)
  /\ UNCHANGED <<tail, max>>

ProcTurn ==
  /\ pc = "proc" /\ PacketAt # tail
  /\ Turn(PacketAt)
  /\ UNCHANGED <<stream, unit, sbuf, offset, stage, pc, flushing, written, code>>

ProcEnd ==
  /\ pc = "proc" /\ PacketAt = tail
  /\ Last(IF flushing THEN "drain" ELSE "get")
  /\ UNCHANGED <<stream, unit, offset, stage, curr, flushing, pending, written, code>>

\* flush() takes a packet without another one behind it.
DrainAtUnit ==   \* mutant: the condition of the other loops
  IF curr + unit >= tail THEN tail ELSE IF Sync(curr) THEN curr ELSE ResyncForce(curr)

DrainAt == IF curr + P > tail THEN tail ELSE IF Sync(curr) THEN curr ELSE ResyncForce(curr)

DrainTurn ==
  /\ pc = "drain" /\ DrainAt # tail
  /\ Turn(DrainAt)
  /\ UNCHANGED <<stream, unit, sbuf, offset, stage, pc, flushing, written, code>>

DrainEnd ==
  /\ pc = "drain" /\ DrainAt = tail
  /\ Last("get")
  /\ UNCHANGED <<stream, unit, offset, stage, curr, flushing, pending, written, code>>

\* get() and the driver's write(), which may fail.
Get ==
  /\ pc = "get"
  /\ written' = written \cup pending /\ pending' = {}
  /\ IF flushing THEN Stop("ok") ELSE pc' = "read" /\ UNCHANGED code
  /\ UNCHANGED <<stream, unit, sbuf, offset, stage, curr, flushing>>

WriteFails ==
  /\ pc = "get" /\ pending # {}
  /\ Stop("write_failed") /\ pending' = {}
  /\ UNCHANGED <<stream, unit, sbuf, offset, stage, curr, flushing, written>>

Next ==
  \/ \E chunk \in Chunks : Put(chunk) \/ PutFails(chunk)
  \/ Flush \/ SelectUnitSize
  \/ ScanTurn \/ ScanEnd
  \/ ProcTurn \/ ProcEnd
  \/ DrainTurn \/ DrainEnd
  \/ Get \/ WriteFails

\* The driver is one thread and waits for nothing but its file.
Spec == Init /\ [][Next]_vars /\ WF_vars(Next)

----------------------------------------------------------------------------
TypeOK ==
  /\ unit \in {0} \cup Intervals
  /\ {head, tail, curr} \subseteq 0 .. stream.length + MaxInterval
  /\ {room, max, offset} \subseteq Nat
  /\ stage \in 0 .. 3
  /\ pc \in {"read", "select", "scan", "proc", "drain", "get", "done", "crashed"}
  /\ flushing \in BOOLEAN
  /\ pending \cup written \subseteq 0 .. stream.length
  /\ code \in {"running", "ok", "non_ts", "no_table", "no_memory", "write_failed"}

\* Whatever piece of the input came first, damaged or not, the unit size is
\* that of the input or stays unknown; and it is found when there are enough
\* packets and none of them lost its sync byte, or only one of an input that
\* begins with a packet: bytes in front of the first packet count as missed.
UnitRight ==
  /\ unit \in {0, stream.unit}
  /\ code = "non_ts" =>
       \/ Cardinality(stream.damaged) > 1
       \/ stream.damaged # {} /\ stream.first > 0
       \/ tail - stream.first < (MinCount + Slack) * stream.unit

\* The bytes of the buffer are inside its memory, the head before the tail.
BufferRight == head <= tail /\ room + (tail - head) <= max

\* What goes out are packets of the input, never bytes from the middle of one:
\* only flush(), behind a damaged or broken packet and less than two units from
\* the end, takes a false sync byte for a packet.  No resynchronisation makes a packet
\* go out a second time or behind one that came later.
PacketsInOrder ==
  [][\A s \in pending' \ pending :
       /\ \/ IsStart(s)
          \/ pc = "drain" /\ s + 2 * unit > tail /\ \E k \in Faults : Start(k) < s
       /\ \A before \in pending \cup written : before < s]_vars

\* A packet is missing in the output of a run that ended well only when it is
\* damaged or broken itself or the one behind it is damaged, when less than
\* eight units in sync are between it and a damaged one, or when a false sync
\* byte took its place at the end.  An input that begins in the middle of a
\* packet begins with a fault.
Beginning == IF stream.first = 0 THEN {} ELSE {-1}
Excused(k) ==
  \/ k \in Faults \/ k + 1 \in stream.damaged
  \/ \E i \in Faults \cup Beginning, j \in stream.damaged : i < k /\ k < j /\ j - i <= Run
  \/ \E s \in written : ~IsStart(s) /\ Start(k) < s + unit
NothingLost ==
  code = "ok" => \A k \in Packets : Start(k) \in written \/ Excused(k)

\* The driver comes to its end, with every input of Streams that flush() does not read
\* past the end (FlushReturns).
Finishes == <>(pc = "done")

\* README.org, step 1 of the data processing: units of 188, 192 and 204 bytes
\* are common; flush() ends well with all of them.
FlushReturns == pc # "crashed"
=============================================================================
