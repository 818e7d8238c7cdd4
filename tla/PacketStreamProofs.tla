-------------------------- MODULE PacketStreamProofs --------------------------
(***************************************************************************)
(* Proofs about PacketStream.  For any input: what is sent goes forward,   *)
(* the work buffer holds what it says, and flush() crashes with long units *)
(* only.  Where the sync bytes are plays no part in that: resync() and     *)
(* resync_force() may find any place they can find.                        *)
(*                                                                         *)
(* For the inputs of StreamsRecognisable: the unit size is that of the     *)
(* input, nothing but packets is sent, and no packet is lost.              *)
(***************************************************************************)
EXTENDS PacketStream, FiniteSetTheorems, WellFoundedInduction, TLAPS

\* A set of naturals has a smallest member.
LEMMA MinOf ==
  ASSUME NEW S \in SUBSET Nat, S # {}
  PROVE  Min(S) \in S /\ \A x \in S : Min(S) <= x
<1>. DEFINE R == OpToRel(<, Nat)
<1>1. IsWellFoundedOn(R, Nat)
  BY NatLessThanWellFounded
<1>2. \E x \in S : \A y \in S : ~(<<y, x>> \in R)
  <2>. HIDE DEF R
  <2>. QED
    BY <1>1, WFMin
<1>3. PICK x \in S : \A y \in S : ~(<<y, x>> \in R)
  BY <1>2
<1>4. R = {ss \in Nat \X Nat : ss[1] < ss[2]}
  BY DEF OpToRel
<1>5. \A y \in S : x <= y
  <2>. HIDE DEF R
  <2>1. ASSUME NEW y \in S, y < x
        PROVE  FALSE
    <3>1. <<y, x>> \in Nat \X Nat /\ <<y, x>>[1] < <<y, x>>[2]
      BY <2>1
    <3>. QED
      BY <1>3, <1>4, <3>1
  <2>. QED
    BY <2>1
<1>. QED
  BY <1>5 DEF Min

\* A bounded set of naturals has a largest member.
LEMMA MaxOf ==
  ASSUME NEW S \in SUBSET Nat, S # {}, NEW b \in Nat, \A x \in S : x <= b
  PROVE  Max(S) \in S /\ \A x \in S : x <= Max(S)
<1>. DEFINE T == {b - x : x \in S}
<1>1. T \in SUBSET Nat /\ T # {}
  <2>1. \A x \in S : b - x \in Nat
    OBVIOUS
  <2>. QED
    BY <2>1
<1>2. Min(T) \in T /\ \A t \in T : Min(T) <= t
  BY <1>1, MinOf
<1>3. PICK m \in S : Min(T) = b - m
  BY <1>2
<1>4. \A x \in S : m >= x
  <2>1. \A x \in S : b - m <= b - x
    BY <1>2, <1>3
  <2>. QED
    BY <2>1
<1>. QED
  BY <1>4 DEF Max

LEMMA MinOfPair ==
  ASSUME NEW a \in Nat, NEW b \in Nat
  PROVE  Min({a, b}) = IF a <= b THEN a ELSE b
<1>1. Min({a, b}) \in {a, b} /\ \A x \in {a, b} : Min({a, b}) <= x
  BY MinOf
<1>. QED
  BY <1>1

----------------------------------------------------------------------------
\* What a function makes of a finite set has no more members.
LEMMA ImageBound ==
  ASSUME NEW S, IsFiniteSet(S), NEW f, NEW T, T \subseteq {f[x] : x \in S}
  PROVE  IsFiniteSet(T) /\ Cardinality(T) <= Cardinality(S)
<1>. DEFINE I == {f[x] : x \in S}
            g == [x \in S |-> f[x]]
<1>1. g \in Surjection(S, I)
  <2>1. g \in [S -> I]
    OBVIOUS
  <2>2. \A t \in I : \E x \in S : g[x] = t
    OBVIOUS
  <2>. QED
    BY <2>1, <2>2 DEF Surjection
<1>2. IsFiniteSet(I) /\ Cardinality(I) <= Cardinality(S)
  <2>. HIDE DEF I, g
  <2>. QED
    BY <1>1, FS_Surjection
<1>3. Cardinality(T) <= Cardinality(I) /\ IsFiniteSet(T)
  <2>. HIDE DEF I
  <2>1. T \in SUBSET I
    BY DEF I
  <2>. QED
    BY <1>2, <2>1, FS_Subset
<1>4. Cardinality(T) \in Int /\ Cardinality(I) \in Int /\ Cardinality(S) \in Int
  <2>. HIDE DEF I
  <2>. QED
    BY <1>2, <1>3, FS_CardinalityType
<1>. QED
  <2>. HIDE DEF I
  <2>. QED
    BY <1>2, <1>3, <1>4

\* The sync bytes that select_unit_size() looks at, and their pairs.
Seen == stream.syncs \cap (head .. tail - 1)
Pairs(i) == {s \in Seen : s < tail - P /\ s + i \in Seen}

LEMMA PairsFinite ==
  ASSUME head \in Nat, tail \in Nat, NEW i
  PROVE  /\ IsFiniteSet(Pairs(i))
         /\ Count(Seen, i) = Cardinality(Pairs(i)) /\ Count(Seen, i) \in Nat
         /\ Count(Seen, i) <= Cardinality(head .. tail - 1)
<1>1. IsFiniteSet(head .. tail - 1)
  BY FS_Interval
<1>2. Pairs(i) \in SUBSET (head .. tail - 1)
  BY DEF Pairs, Seen
<1>3. IsFiniteSet(Pairs(i)) /\ Cardinality(Pairs(i)) <= Cardinality(head .. tail - 1)
  BY <1>1, <1>2, FS_Subset
<1>4. Count(Seen, i) = Cardinality(Pairs(i))
  BY DEF Count, Pairs
<1>. QED
  BY <1>3, <1>4, FS_CardinalityType

\* select_unit_size() decides on an interval that is seen as often as any.
LEMMA MostSeen ==
  ASSUME head \in Nat, tail \in Nat
  PROVE  \E n \in Intervals :
           /\ UnitSize = IF Verified(Count(Seen, n), n) THEN n ELSE 0
           /\ \A i \in Intervals : Count(Seen, i) <= Count(Seen, n)
<1>. DEFINE syncs == stream.syncs \cap (head .. tail - 1)
            counts == {<<i, Count(syncs, i)>> : i \in Intervals}
            numbers == {c[2] : c \in counts}
            m == Max(numbers)
            best == {c[1] : c \in {d \in counts : d[2] = m}}
            n == Min(best)
<1>0. syncs = Seen
  BY DEF Seen
<1>1. Intervals # {} /\ Intervals \subseteq Nat
  <2>1. P \in Nat \ {0} /\ MaxInterval \in P + 1 .. 2 * P
    BY StreamAssumption
  <2>2. P \in Intervals
    BY <2>1 DEF Intervals
  <2>. QED
    BY <2>1, <2>2 DEF Intervals
<1>2. PICK b \in Nat : \A i : Count(syncs, i) \in Nat /\ Count(syncs, i) <= b
  <2>1. Cardinality(head .. tail - 1) \in Nat
    BY FS_Interval, FS_CardinalityType
  <2>2. \A i : Count(syncs, i) \in Nat /\ Count(syncs, i) <= Cardinality(head .. tail - 1)
    BY <1>0, PairsFinite
  <2>. QED
    BY <2>1, <2>2
<1>3. numbers \in SUBSET Nat /\ numbers # {} /\ \A x \in numbers : x <= b
  <2>1. \A c \in counts : c[2] \in Nat /\ c[2] <= b
    BY <1>2
  <2>2. counts # {}
    BY <1>1
  <2>. QED
    BY <2>1, <2>2
<1>4. m \in numbers /\ \A x \in numbers : x <= m
  <2>. HIDE DEF numbers
  <2>. QED
    BY <1>3, MaxOf
<1>5. best \in SUBSET Intervals /\ best # {}
  <2>1. PICK c \in counts : c[2] = m
    BY <1>4
  <2>2. \A d \in counts : d[1] \in Intervals
    OBVIOUS
  <2>. HIDE DEF counts, m
  <2>. QED
    BY <2>1, <2>2
<1>6. n \in Intervals /\ Count(syncs, n) = m
  <2>1. best \in SUBSET Nat
    BY <1>1, <1>5
  <2>2. n \in best
    <3>. HIDE DEF best
    <3>. QED
      BY <1>5, <2>1, MinOf
  <2>3. PICK d \in counts : d[2] = m /\ d[1] = n
    <3>. HIDE DEF counts, m, n
    <3>. QED
      BY <2>2
  <2>4. PICK i \in Intervals : d = <<i, Count(syncs, i)>>
    BY <2>3
  <2>. HIDE DEF counts, m, n, syncs
  <2>. QED
    BY <2>3, <2>4
<1>7. \A i \in Intervals : Count(syncs, i) <= m
  <2>. HIDE DEF m
  <2>1. \A i \in Intervals : <<i, Count(syncs, i)>> \in counts
    OBVIOUS
  <2>2. \A i \in Intervals : Count(syncs, i) \in numbers
    <3>. HIDE DEF counts
    <3>1. ASSUME NEW i \in Intervals
          PROVE  Count(syncs, i) \in numbers
      <4>1. <<i, Count(syncs, i)>> \in counts /\ <<i, Count(syncs, i)>>[2] = Count(syncs, i)
        BY <2>1
      <4>. QED
        BY <4>1
    <3>. QED
      BY <3>1
  <2>. QED
    BY <1>4, <2>2
<1>8. UnitSize = IF Verified(m, n) THEN n ELSE 0
  BY DEF UnitSize
<1>. HIDE DEF m, n, syncs
<1>. QED
  BY <1>0, <1>6, <1>7, <1>8

\* It leaves the unit unknown or finds one of the intervals.
LEMMA UnitSizeFound ==
  ASSUME head \in Nat, tail \in Nat
  PROVE  UnitSize \in {0} \cup Intervals
BY MostSeen

\* reserve_work_buffer() finds a size that is enough for what one read() gives.
LEMMA GrownIsEnough ==
  ASSUME max \in Nat, NEW size \in Nat, size <= max + ReadLimit
  PROVE  Grown(size) \in Nat /\ Grown(size) >= size
<1>. DEFINE n == IF max < Least THEN Least ELSE 2 * max
            S == {i \in {n * k : k \in Doublings} : i >= size}
<1>1. n \in Nat /\ n * ReadLimit >= size
  <2>1. Least \in Nat \ {0}
    BY StreamAssumption
  <2>. QED
    BY <2>1 DEF ReadLimit
<1>2. Doublings \subseteq Nat /\ ReadLimit \in Doublings
  BY DEF Doublings, ReadLimit
<1>3. S \in SUBSET Nat /\ S # {}
  <2>1. \A k \in Doublings : n * k \in Nat
    BY <1>1, <1>2
  <2>2. n * ReadLimit \in S
    BY <1>1, <1>2
  <2>. QED
    BY <2>1, <2>2
<1>4. Min(S) \in S
  <2>. HIDE DEF S
  <2>. QED
    BY <1>3, MinOf
<1>. QED
  BY <1>3, <1>4 DEF Grown

\* resync() finds tail or a place with all units that it looked at behind it.
LEMMA ResyncBounds ==
  ASSUME NEW c \in Nat, tail \in Nat, unit \in Nat \ {0}, Resync(c) # tail
  PROVE  Resync(c) \in Nat /\ c <= Resync(c) /\ Resync(c) + unit <= tail
<1>. DEFINE S == {s \in c .. tail - unit * Run : \A i \in 0 .. Run - 1 : Sync(s + unit * i)}
<1>1. unit * Run \in Nat /\ unit * Run >= unit
  <2>1. Run \in Nat \ {0}
    BY StreamAssumption
  <2>. QED
    BY <2>1
<1>2. S \in SUBSET Nat
  BY <1>1
<1>3. Resync(c) = First(S)
  BY DEF Resync
<1>4. S # {} /\ Resync(c) = Min(S)
  BY <1>3 DEF First
<1>5. Resync(c) \in S
  BY <1>2, <1>4, MinOf
<1>6. Resync(c) \in c .. tail - unit * Run
  BY <1>5
<1>. QED
  BY <1>1, <1>6

\* resync_force() finds tail or a place with a packet behind it.
LEMMA ResyncForceBounds ==
  ASSUME NEW c \in Nat, tail \in Nat, ResyncForce(c) # tail
  PROVE  ResyncForce(c) \in Nat /\ c <= ResyncForce(c) /\ ResyncForce(c) + P <= tail
<1>. DEFINE S == {s \in c .. tail - P :
                    Sync(s) /\ \A i \in 1 .. ((tail - s) \div unit) - 1 : Sync(s + unit * i)}
<1>1. P \in Nat
  BY StreamAssumption
<1>2. S \in SUBSET Nat
  BY <1>1
<1>3. ResyncForce(c) = First(S)
  BY DEF ResyncForce
<1>4. S # {} /\ ResyncForce(c) = Min(S)
  BY <1>3 DEF First
<1>5. ResyncForce(c) \in S
  BY <1>2, <1>4, MinOf
<1>6. ResyncForce(c) \in c .. tail - P
  BY <1>5
<1>. QED
  BY <1>1, <1>6

\* A turn of a loop finds a packet with a unit behind it, and never goes back.
LEMMA PacketAtBounds ==
  ASSUME curr \in Nat, tail \in Nat, unit \in Nat \ {0}, PacketAt # tail
  PROVE  PacketAt \in Nat /\ curr <= PacketAt /\ PacketAt + unit <= tail
BY ResyncBounds DEF PacketAt

\* The last loop of flush() finds a packet, but not a unit, and never goes back.
LEMMA DrainAtBounds ==
  ASSUME curr \in Nat, tail \in Nat, DrainAt # tail
  PROVE  DrainAt \in Nat /\ curr <= DrainAt /\ DrainAt + P <= tail
<1>1. P \in Nat
  BY StreamAssumption
<1>2. CASE curr + P <= tail /\ Sync(curr)
  BY <1>1, <1>2 DEF DrainAt
<1>3. CASE ~(curr + P <= tail /\ Sync(curr))
  <2>1. DrainAt = ResyncForce(curr)
    BY <1>1, <1>3 DEF DrainAt
  <2>. QED
    BY <2>1, ResyncForceBounds
<1>. QED
  BY <1>2, <1>3

----------------------------------------------------------------------------
\* The cursor of a running call is in the buffer; only the last loop of
\* flush() takes it beyond the tail, by the difference of a unit and a packet.
CursorRight ==
  /\ pc \in {"scan", "proc"} => head <= curr /\ curr <= tail
  /\ pc = "drain" => flushing /\ head <= curr /\ (curr <= tail \/ curr <= tail + unit - P)
  /\ pc = "crashed" => flushing /\ unit > P

\* What the look-ahead left off at is in the buffer when it goes on there: the
\* call goes on only without the flush, and proc_arib_std_b25() takes bytes
\* out of the buffer only when there is nothing left to look for.
OffsetRight ==
  /\ pc = "scan" => stage < 3 /\ ~flushing
  /\ pc = "proc" /\ ~flushing => stage = 3
  /\ stage = 3 => offset = 0
  /\ ~flushing => head + offset <= tail

\* Nothing was done yet while the unit size is unknown.
UnitUnknown ==
  /\ pc = "select" => unit = 0
  /\ unit = 0 => /\ pc \in {"read", "select", "done"}
                 /\ head = 0 /\ offset = 0 /\ stage = 0
                 /\ pending = {} /\ written = {}

\* Where the next packet is looked for.
Front == IF pc \in {"proc", "drain"} THEN curr ELSE head

\* All packets that were sent out are before it.
SentBefore == \A s \in pending \cup written : s < Front

BufferKept == pc # "crashed" => BufferRight

PInv ==
  /\ TypeOK
  /\ stream \in Streams /\ tail <= stream.length
  /\ BufferKept
  /\ CursorRight
  /\ OffsetRight
  /\ UnitUnknown
  /\ SentBefore

\* Types as the proofs use them.
LEMMA StreamTypes ==
  /\ ReadLimit \in Nat
  /\ P \in Nat /\ P > 0 /\ MaxInterval \in Nat /\ P < MaxInterval
  /\ \A s \in Streams : s.length \in Nat
<1>1. ReadLimit \in Nat
  BY DEF ReadLimit
<1>2. P \in Nat \ {0} /\ MaxInterval \in P + 1 .. 2 * P
  BY StreamAssumption
<1>3. \A s \in Streams : s.length \in Nat
  BY StreamAssumption
<1>. QED
  BY <1>1, <1>2, <1>3

LEMMA PTypes ==
  ASSUME PInv
  PROVE  /\ stream.length \in Nat
         /\ unit \in Nat /\ (unit = 0 \/ (P <= unit /\ unit < MaxInterval))
         /\ head \in Nat /\ tail \in Nat /\ curr \in Nat
         /\ head <= stream.length + MaxInterval /\ curr <= stream.length + MaxInterval
         /\ room \in Nat /\ max \in Nat /\ offset \in Nat
         /\ stage \in 0 .. 3
<1>1. /\ unit \in {0} \cup Intervals
      /\ {head, tail, curr} \subseteq 0 .. stream.length + MaxInterval
      /\ {room, max, offset} \subseteq Nat
      /\ stage \in 0 .. 3
      /\ stream \in Streams
  BY DEF PInv, TypeOK
<1>2. Intervals \subseteq Nat /\ \A i \in Intervals : P <= i /\ i < MaxInterval
  BY StreamTypes DEF Intervals
<1>. QED
  BY <1>1, <1>2, StreamTypes

----------------------------------------------------------------------------
\* A piece of the file is not empty and what one read() gives at most.
LEMMA PieceBounds ==
  ASSUME NEW chunk \in Chunks, tail \in Nat, stream.length \in Nat, tail < stream.length
  PROVE  /\ Min({chunk, stream.length - tail}) \in 1 .. ReadLimit
         /\ tail + Min({chunk, stream.length - tail}) <= stream.length
<1>1. chunk \in 1 .. ReadLimit /\ ReadLimit \in Nat
  BY StreamAssumption, StreamTypes
<1>2. PICK l \in Nat : l = stream.length - tail /\ l > 0
  OBVIOUS
<1>3. Min({chunk, l}) = IF chunk <= l THEN chunk ELSE l
  BY <1>1, MinOfPair
<1>. QED
  BY <1>1, <1>2, <1>3

\* append_work_buffer() leaves the bytes inside the memory.
LEMMA AppendFits ==
  ASSUME head \in Nat, tail \in Nat, room \in Nat, max \in Nat, BufferRight,
         NEW n \in 1 .. ReadLimit, Append(n)
  PROVE  /\ tail' = tail + n
         /\ max' \in Nat /\ room' \in Nat
         /\ room' + (tail + n - head) <= max'
<1>1. head <= tail /\ room + (tail - head) <= max
  BY DEF BufferRight
<1>2. CASE room + (tail - head) + n > max
  <2>1. PICK size \in Nat : size = room + (tail - head) + n
    BY <1>1, StreamTypes
  <2>a. size <= max + ReadLimit
    BY <1>1, <2>1, StreamTypes
  <2>2. Grown(size) \in Nat /\ Grown(size) >= size
    BY <2>a, GrownIsEnough
  <2>3. max' = Grown(size) /\ room' = 0 /\ tail' = tail + n
    BY <1>2, <2>1 DEF Append
  <2>. QED
    BY <1>1, <2>1, <2>2, <2>3
<1>3. CASE ~(room + (tail - head) + n > max)
  BY <1>1, <1>3 DEF Append
<1>. QED
  BY <1>2, <1>3

LEMMA PutKeeps ==
  ASSUME PInv, NEW chunk \in Chunks, Put(chunk)
  PROVE  PInv'
<1>. DEFINE n == Min({chunk, stream.length - tail})
<1>1. /\ pc = "read" /\ tail < stream.length /\ Append(n)
      /\ IF unit = 0 THEN pc' = "select" /\ UNCHANGED curr ELSE Enter(head, stage)
      /\ UNCHANGED <<stream, unit, head, offset, stage, flushing, pending, written, code>>
  BY DEF Put
<1>2. n \in 1 .. ReadLimit /\ tail + n <= stream.length
  BY <1>1, PTypes, PieceBounds
<1>3. head <= tail /\ room + (tail - head) <= max /\ BufferRight
  BY <1>1 DEF PInv, BufferKept, BufferRight
<1>. HIDE DEF n
<1>4. tail' = tail + n /\ max' \in Nat /\ room' \in Nat /\ room' + (tail + n - head) <= max'
  BY <1>1, <1>2, <1>3, PTypes, AppendFits
<1>5. /\ pc' \in {"select", "scan", "proc"}
      /\ pc' = "select" => unit = 0 /\ curr' = curr
      /\ pc' = "scan" => curr' = head + offset /\ stage < 3 /\ ~flushing /\ unit # 0
      /\ pc' = "proc" => curr' = head /\ (stage < 3 => flushing) /\ unit # 0
  BY <1>1, PTypes DEF Enter
<1>6. PInv /\ pending \cup written \subseteq 0 .. stream.length
  BY DEF PInv, TypeOK
<1>7. TypeOK'
  BY <1>1, <1>2, <1>4, <1>5, <1>6, PTypes, StreamTypes DEF PInv, TypeOK, OffsetRight
<1>8. BufferKept' /\ CursorRight' /\ OffsetRight'
  BY <1>1, <1>2, <1>3, <1>4, <1>5, PTypes, StreamTypes
  DEF PInv, BufferKept, BufferRight, CursorRight, OffsetRight
<1>9. UnitUnknown' /\ SentBefore'
  BY <1>1, <1>5 DEF PInv, UnitUnknown, SentBefore, Front
<1>. QED
  BY <1>1, <1>2, <1>4, <1>7, <1>8, <1>9 DEF PInv

LEMMA SelectKeeps ==
  ASSUME PInv, SelectUnitSize
  PROVE  PInv'
<1>1. /\ pc = "select" /\ unit' = UnitSize
      /\ IF unit' = 0 THEN Stop("non_ts") /\ UNCHANGED curr
                      ELSE Enter(head, stage) /\ UNCHANGED code
      /\ UNCHANGED <<stream, sbuf, offset, stage, flushing, pending, written>>
  BY DEF SelectUnitSize
<1>2. unit' \in {0} \cup Intervals
  BY <1>1, PTypes, UnitSizeFound
<1>3. head' = head /\ tail' = tail /\ room' = room /\ max' = max
  BY <1>1 DEF sbuf
<1>4. /\ pc' \in {"done", "scan", "proc"}
      /\ pc' = "done" => curr' = curr /\ code' = "non_ts"
      /\ pc' = "scan" => curr' = head + offset /\ stage < 3 /\ ~flushing
      /\ pc' = "proc" => curr' = head /\ (stage < 3 => flushing)
      /\ pc' # "done" => unit' # 0 /\ code' = code
  BY <1>1, PTypes DEF Enter, Stop
<1>5. TypeOK'
  <2>1. curr' \in 0 .. stream.length + MaxInterval
    BY <1>4, PTypes, StreamTypes DEF PInv, OffsetRight
  <2>. QED
    BY <1>1, <1>2, <1>3, <1>4, <2>1 DEF PInv, TypeOK
<1>6. BufferKept' /\ CursorRight' /\ OffsetRight'
  BY <1>1, <1>3, <1>4, PTypes, StreamTypes
  DEF PInv, BufferKept, BufferRight, CursorRight, OffsetRight
<1>7. UnitUnknown'
  <2>1. unit = 0 /\ pc' # "select"
    BY <1>1, <1>4 DEF PInv, UnitUnknown
  <2>2. head = 0 /\ offset = 0 /\ stage = 0 /\ pending = {} /\ written = {}
    BY <2>1 DEF PInv, UnitUnknown
  <2>3. unit' = 0 => pc' = "done"
    BY <1>4
  <2>. QED
    BY <1>1, <1>3, <2>1, <2>2, <2>3 DEF UnitUnknown
<1>8. SentBefore'
  BY <1>1, <1>3, <1>4 DEF PInv, SentBefore, Front
<1>. QED
  BY <1>1, <1>3, <1>5, <1>6, <1>7, <1>8 DEF PInv

LEMMA FlushKeeps ==
  ASSUME PInv, Flush
  PROVE  PInv'
<1>1. /\ pc = "read" /\ tail = stream.length /\ flushing' = TRUE
      /\ IF unit = 0 THEN pc' = "select" /\ UNCHANGED curr ELSE pc' = "proc" /\ curr' = head
      /\ UNCHANGED <<stream, unit, sbuf, offset, stage, pending, written, code>>
  BY DEF Flush
<1>2. head' = head /\ tail' = tail /\ room' = room /\ max' = max
  BY <1>1 DEF sbuf
<1>3. head <= tail
  BY <1>1 DEF PInv, BufferKept, BufferRight
<1>4. TypeOK'
  <2>1. curr' \in 0 .. stream.length + MaxInterval
    BY <1>1, PTypes, StreamTypes
  <2>. QED
    BY <1>1, <1>2, <2>1 DEF PInv, TypeOK
<1>5. BufferKept' /\ CursorRight' /\ OffsetRight'
  BY <1>1, <1>2, <1>3, PTypes
  DEF PInv, BufferKept, BufferRight, CursorRight, OffsetRight
<1>6. UnitUnknown' /\ SentBefore'
  BY <1>1, <1>2 DEF PInv, UnitUnknown, SentBefore, Front
<1>. QED
  BY <1>1, <1>2, <1>4, <1>5, <1>6 DEF PInv

\* The look-ahead moves nothing and sends nothing.
LEMMA ScanKeeps ==
  ASSUME PInv, ScanTurn \/ ScanEnd
  PROVE  PInv'
<1>1. /\ pc = "scan" /\ unit # 0 /\ head <= curr /\ curr <= tail
      /\ stage < 3 /\ ~flushing /\ tail <= stream.length /\ BufferRight
  BY DEF ScanTurn, ScanEnd, PInv, CursorRight, OffsetRight, UnitUnknown, BufferKept
<1>2. /\ head' = head /\ tail' = tail /\ room' = room /\ max' = max
      /\ UNCHANGED <<stream, unit, flushing, pending, written>>
  BY DEF ScanTurn, ScanEnd, sbuf
<1>3. /\ pc' \in {"scan", "proc", "get", "done"}
      /\ pc' = "scan" => stage' < 3 /\ head <= curr' /\ curr' <= tail
      /\ pc' = "proc" => stage' = 3 /\ curr' = head
      /\ curr' \in 0 .. stream.length + MaxInterval
      /\ stage' \in 0 .. 3 /\ offset' \in Nat /\ head + offset' <= tail
      /\ stage' = 3 => offset' = 0
      /\ code' \in {code, "no_table"}
  <2>1. CASE ScanTurn
    <3>1. PacketAt \in Nat /\ curr <= PacketAt /\ PacketAt + unit <= tail
      BY <1>1, <2>1, PTypes, PacketAtBounds DEF ScanTurn
    <3>2. head + offset <= tail
      BY <1>1 DEF PInv, OffsetRight
    <3>3. CASE Carries(PacketAt, stage)
      <4>1. stage' = stage + 1 /\ offset' = 0 /\ curr' = head /\ code' = code
        BY <2>1, <3>3 DEF ScanTurn
      <4>2. pc' = IF stage = 2 THEN "proc" ELSE "scan"
        BY <2>1, <3>3 DEF ScanTurn
      <4>. QED
        BY <1>1, <4>1, <4>2, PTypes
    <3>4. CASE ~Carries(PacketAt, stage)
      <4>1. curr' = PacketAt + unit /\ UNCHANGED <<offset, stage, pc, code>>
        BY <2>1, <3>4 DEF ScanTurn
      <4>. QED
        BY <1>1, <3>1, <3>2, <4>1, PTypes, StreamTypes
    <3>. QED
      BY <3>3, <3>4
  <2>2. CASE ScanEnd
    <3>1. offset' = curr - head /\ stage' = stage /\ curr' = curr
      BY <2>2 DEF ScanEnd
    <3>2. pc' \in {"get", "done"} /\ code' \in {code, "no_table"}
      BY <2>2 DEF ScanEnd, Stop
    <3>. QED
      BY <1>1, <3>1, <3>2, PTypes
  <2>. QED
    BY <2>1, <2>2
<1>4. TypeOK'
  BY <1>2, <1>3 DEF PInv, TypeOK
<1>5. BufferKept' /\ CursorRight' /\ OffsetRight'
  BY <1>1, <1>2, <1>3, PTypes
  DEF PInv, BufferKept, BufferRight, CursorRight, OffsetRight
<1>6. UnitUnknown' /\ SentBefore'
  BY <1>1, <1>2, <1>3 DEF PInv, UnitUnknown, SentBefore, Front
<1>. QED
  BY <1>1, <1>2, <1>4, <1>5, <1>6 DEF PInv

\* A turn takes the cursor past the packet it sends, or one byte into it.
LEMMA TurnKeeps ==
  ASSUME PInv, pc \in {"proc", "drain"}, NEW s \in Nat, curr <= s, s + P <= tail,
         pc = "proc" => s + unit <= tail, Turn(s),
         UNCHANGED <<stream, unit, sbuf, offset, stage, pc, flushing, written, code>>
  PROVE  PInv' /\ \A t \in pending' \ pending : \A before \in pending \cup written : before < t
<1>1. /\ unit # 0 /\ head <= curr /\ tail <= stream.length /\ BufferRight
      /\ \A t \in pending \cup written : t < curr
      /\ pending \cup written \subseteq 0 .. stream.length
  BY DEF PInv, TypeOK, CursorRight, UnitUnknown, BufferKept, SentBefore, Front
<1>2. /\ head' = head /\ tail' = tail /\ room' = room /\ max' = max
      /\ UNCHANGED <<stream, unit, offset, stage, pc, flushing, written, code>>
  BY DEF sbuf
<1>3. /\ curr' \in Nat /\ s < curr'
      /\ curr' <= tail \/ curr' <= tail + unit - P
      /\ pc = "proc" => curr' <= tail
      /\ pending' \subseteq pending \cup {s}
  <2>1. CASE Broken(s)
    BY <1>1, <2>1, PTypes, StreamTypes DEF Turn
  <2>2. CASE ~Broken(s)
    BY <1>1, <2>2, PTypes, StreamTypes DEF Turn
  <2>. QED
    BY <2>1, <2>2
<1>4. TypeOK'
  <2>1. curr' \in 0 .. stream.length + MaxInterval
    BY <1>1, <1>3, PTypes, StreamTypes
  <2>2. pending' \cup written \subseteq 0 .. stream.length
    BY <1>1, <1>3, PTypes, StreamTypes
  <2>. QED
    BY <1>2, <2>1, <2>2 DEF PInv, TypeOK
<1>5. BufferKept' /\ CursorRight' /\ OffsetRight'
  BY <1>1, <1>2, <1>3, PTypes
  DEF PInv, BufferKept, BufferRight, CursorRight, OffsetRight
<1>6. UnitUnknown'
  BY <1>1, <1>2 DEF PInv, UnitUnknown
<1>7. \A t \in pending \cup written : t \in Nat /\ t < s
  BY <1>1, PTypes
<1>8. SentBefore'
  <2>1. \A t \in pending' \cup written : t < curr'
    BY <1>3, <1>7
  <2>. QED
    BY <1>2, <2>1 DEF SentBefore, Front
<1>9. \A t \in pending' \ pending : t = s
  BY <1>3
<1>. QED
  BY <1>1, <1>2, <1>4, <1>5, <1>6, <1>7, <1>8, <1>9 DEF PInv

LEMMA TurnsKeep ==
  ASSUME PInv, ProcTurn \/ DrainTurn
  PROVE  PInv' /\ \A t \in pending' \ pending : \A before \in pending \cup written : before < t
<1>1. CASE ProcTurn
  <2>1. PacketAt \in Nat /\ curr <= PacketAt /\ PacketAt + unit <= tail /\ unit # 0
    BY <1>1, PTypes, PacketAtBounds DEF ProcTurn, PInv, UnitUnknown
  <2>2. PacketAt + P <= tail
    BY <2>1, PTypes, StreamTypes
  <2>3. PICK s \in Nat : s = PacketAt
    BY <2>1
  <2>. QED
    BY <1>1, <2>1, <2>2, <2>3, TurnKeeps DEF ProcTurn
<1>2. CASE DrainTurn
  <2>1. DrainAt \in Nat /\ curr <= DrainAt /\ DrainAt + P <= tail
    BY <1>2, PTypes, DrainAtBounds DEF DrainTurn
  <2>2. PICK s \in Nat : s = DrainAt
    BY <2>1
  <2>. QED
    BY <1>2, <2>1, <2>2, TurnKeeps DEF DrainTurn
<1>. QED
  BY <1>1, <1>2

\* The label LAST: the bytes from the cursor on stay, and the buffer is right
\* unless the cursor is beyond the tail.
LEMMA LastKeeps ==
  ASSUME PInv, ProcEnd \/ DrainEnd
  PROVE  PInv'
<1>1. /\ pc \in {"proc", "drain"} /\ unit # 0 /\ head <= curr /\ tail <= stream.length
      /\ BufferRight
      /\ pc = "drain" => flushing
      /\ ~flushing => stage = 3 /\ offset = 0
      /\ curr <= tail \/ curr <= tail + unit - P
      /\ pc = "proc" => curr <= tail
  BY DEF ProcEnd, DrainEnd, PInv, CursorRight, OffsetRight, UnitUnknown, BufferKept
<1>2. /\ tail' = tail /\ max' = max /\ head' = curr
      /\ UNCHANGED <<stream, unit, offset, stage, curr, flushing, pending, written, code>>
      /\ room' \in {0, room + (curr - head)}
  BY DEF ProcEnd, DrainEnd, Last
<1>3. /\ tail < curr => pc' = "crashed"
      /\ curr <= tail => pc' \in {"drain", "get"}
      /\ pc' = "drain" => flushing
  <2>1. CASE ProcEnd
    BY <2>1, <1>1, PTypes DEF ProcEnd, Last
  <2>2. CASE DrainEnd
    BY <2>2, <1>1, PTypes DEF DrainEnd, Last
  <2>. QED
    BY <2>1, <2>2
<1>4. curr <= tail \/ (tail < curr /\ flushing /\ unit > P)
  BY <1>1, PTypes, StreamTypes
<1>5. TypeOK'
  <2>1. room' \in Nat
    BY <1>1, <1>2, PTypes
  <2>2. pc' \in {"drain", "get", "crashed"}
    BY <1>3, <1>4
  <2>. QED
    BY <1>2, <2>1, <2>2 DEF PInv, TypeOK
<1>6. BufferKept'
  <2>1. ASSUME curr <= tail
        PROVE  room' + (tail - curr) <= max
    BY <1>1, <1>2, <2>1, PTypes DEF BufferRight
  <2>. QED
    BY <1>2, <1>3, <1>4, <2>1 DEF BufferKept, BufferRight
<1>7. CursorRight' /\ OffsetRight'
  BY <1>1, <1>2, <1>3, <1>4, PTypes DEF PInv, CursorRight, OffsetRight
<1>8. UnitUnknown'
  BY <1>1, <1>2, <1>3, <1>4 DEF PInv, UnitUnknown
<1>9. SentBefore'
  BY <1>1, <1>2 DEF PInv, SentBefore, Front
<1>. QED
  BY <1>1, <1>2, <1>5, <1>6, <1>7, <1>8, <1>9 DEF PInv

LEMMA GetKeeps ==
  ASSUME PInv, Get \/ WriteFails
  PROVE  PInv'
<1>1. /\ pc = "get" /\ pc' \in {"read", "done"}
      /\ pc' = "read" => ~flushing
      /\ pending' = {} /\ written' \subseteq pending \cup written
      /\ code' \in {code, "ok", "write_failed"}
      /\ head' = head /\ tail' = tail /\ room' = room /\ max' = max
      /\ UNCHANGED <<stream, unit, offset, stage, curr, flushing>>
  BY DEF Get, WriteFails, Stop, sbuf
<1>2. unit # 0
  BY <1>1 DEF PInv, UnitUnknown
<1>3. TypeOK'
  BY <1>1 DEF PInv, TypeOK
<1>4. BufferKept' /\ CursorRight' /\ OffsetRight' /\ UnitUnknown'
  BY <1>1, <1>2
  DEF PInv, BufferKept, BufferRight, CursorRight, OffsetRight, UnitUnknown
<1>5. SentBefore'
  BY <1>1 DEF PInv, SentBefore, Front
<1>. QED
  BY <1>1, <1>3, <1>4, <1>5 DEF PInv

LEMMA PutFailsKeeps ==
  ASSUME PInv, NEW chunk \in Chunks, PutFails(chunk)
  PROVE  PInv'
<1>1. /\ pc = "read" /\ pc' = "done" /\ code' = "no_memory"
      /\ head' = head /\ tail' = tail /\ room' = room /\ max' = max
      /\ UNCHANGED <<stream, unit, offset, stage, curr, flushing, pending, written>>
  BY DEF PutFails, Stop, sbuf
<1>2. TypeOK'
  BY <1>1 DEF PInv, TypeOK
<1>3. BufferKept' /\ CursorRight' /\ OffsetRight' /\ UnitUnknown' /\ SentBefore'
  BY <1>1
  DEF PInv, BufferKept, BufferRight, CursorRight, OffsetRight, UnitUnknown, SentBefore, Front
<1>. QED
  BY <1>1, <1>2, <1>3 DEF PInv

LEMMA StepSendsForward ==
  ASSUME PInv, [Next]_vars
  PROVE  PInv' /\ \A t \in pending' \ pending : \A before \in pending \cup written : before < t
<1>1. ASSUME NEW chunk \in Chunks, Put(chunk) \/ PutFails(chunk)
      PROVE  PInv' /\ pending' = pending
  BY <1>1, PutKeeps, PutFailsKeeps DEF Put, PutFails
<1>2. CASE Flush
  BY <1>2, FlushKeeps DEF Flush
<1>3. CASE SelectUnitSize
  BY <1>3, SelectKeeps DEF SelectUnitSize
<1>4. CASE ScanTurn \/ ScanEnd
  BY <1>4, ScanKeeps DEF ScanTurn, ScanEnd
<1>5. CASE ProcTurn \/ DrainTurn
  BY <1>5, TurnsKeep
<1>6. CASE ProcEnd \/ DrainEnd
  BY <1>6, LastKeeps DEF ProcEnd, DrainEnd
<1>7. CASE Get \/ WriteFails
  BY <1>7, GetKeeps DEF Get, WriteFails
<1>8. CASE UNCHANGED vars
  BY <1>8 DEF vars, sbuf, PInv, TypeOK, BufferKept, BufferRight, CursorRight, OffsetRight,
              UnitUnknown, SentBefore, Front
<1>. QED
  BY <1>1, <1>2, <1>3, <1>4, <1>5, <1>6, <1>7, <1>8 DEF Next

----------------------------------------------------------------------------
LEMMA PInvHolds == Spec => []PInv
<1>1. Init => PInv
  <2>. SUFFICES ASSUME Init PROVE PInv
    OBVIOUS
  <2>1. stream.length \in Nat /\ stream \in Streams
    BY StreamTypes DEF Init
  <2>2. 0 \in 0 .. stream.length + MaxInterval
    BY <2>1, StreamTypes
  <2>3. {head, tail, curr} \subseteq 0 .. stream.length + MaxInterval
    BY <2>2 DEF Init
  <2>4. {room, max, offset} \subseteq Nat
    BY DEF Init
  <2>5. pending \cup written \subseteq 0 .. stream.length /\ stage \in 0 .. 3
    BY DEF Init
  <2>6. TypeOK
    <3>. HIDE DEF Init
    <3>1. /\ unit = 0 /\ flushing = FALSE /\ pc = "read" /\ code = "running"
      BY DEF Init
    <3>. QED
      BY <2>3, <2>4, <2>5, <3>1 DEF TypeOK
  <2>. QED
    BY <2>1, <2>6 DEF Init, PInv, BufferKept, BufferRight, CursorRight, OffsetRight,
                      UnitUnknown, SentBefore, Front
<1>2. PInv /\ [Next]_vars => PInv'
  BY StepSendsForward
<1>. QED
  BY <1>1, <1>2, PTL DEF Spec

\* The positions, sizes and codes of a run stay what they may be, for any
\* input: the cursor leaves the input by less than a unit.
THEOREM StreamTypeCorrect == Spec => []TypeOK
<1>1. PInv => TypeOK
  BY DEF PInv
<1>. QED
  BY <1>1, PInvHolds, PTL

\* The work buffer holds what it says, head before tail and inside its memory,
\* with any input, read in any pieces and damaged in any way: after every call of
\* append_work_buffer() and at every label LAST, until flush() goes wrong.
THEOREM BufferStaysRight == Spec => [](pc # "crashed" => BufferRight)
<1>1. PInv => (pc # "crashed" => BufferRight)
  BY DEF PInv, BufferKept
<1>. QED
  BY <1>1, PInvHolds, PTL

\* And it goes wrong only with units longer than a packet: the last loop of
\* flush() asks for a packet and takes a unit.
THEOREM OnlyLongUnitsCrash == Spec => [](unit <= P => FlushReturns)
<1>1. PInv => (unit <= P => FlushReturns)
  BY PTypes, StreamTypes DEF PInv, CursorRight, FlushReturns
<1>. QED
  BY <1>1, PInvHolds, PTL

\* What is sent out, in a call or in the next one, lies behind everything that
\* was sent before: no loop takes up a packet again, whatever resync() and
\* resync_force() find and wherever the look-ahead left off.
SentForward ==
  [][\A t \in pending' \ pending : \A before \in pending \cup written : before < t]_vars

THEOREM NothingSentTwice == Spec => SentForward
<1>1. PInv /\ [Next]_vars =>
        [\A t \in pending' \ pending : \A before \in pending \cup written : before < t]_vars
  BY StepSendsForward
<1>. QED
  BY <1>1, PInvHolds, PTL DEF Spec, SentForward

----------------------------------------------------------------------------
\* Multiples of a unit.
LEMMA TimesOne ==
  ASSUME NEW u \in Nat \ {0}, NEW k \in Int
  PROVE  (k * u) % u = 0 /\ (k * u) \div u = k
BY SMTT(20)

LEMMA TimesStep ==
  ASSUME NEW u \in Nat, NEW i \in Int, NEW j \in Int, i < j
  PROVE  i * u + u <= j * u /\ i * u \in Int /\ j * u \in Int
BY SMTT(20)

LEMMA TimesBack ==
  ASSUME NEW u \in Nat \ {0}, NEW x \in Nat, x % u = 0
  PROVE  x \div u \in Nat /\ x = (x \div u) * u
BY SMTT(20)

LEMMA TimesOrder ==
  ASSUME NEW u \in Nat \ {0}, NEW i \in Int, NEW j \in Int, i * u < j * u
  PROVE  i < j
BY SMTT(20)

----------------------------------------------------------------------------
\* The invariant behind recognisable inputs: it relates where the next packet is
\* looked for to the faults of the input, and accounts for every packet in front
\* of that place.

\* The unit size is known only when MinCount pairs of packets were seen.
SeenEnough ==
  unit # 0 =>
    /\ tail > Start(MinCount)
    /\ (\E j \in stream.damaged : j < MinCount) => tail > Start(MinCount + 1)

\* A sync byte where the next packet is looked for is that of a packet.
FrontInSync == Sync(Front) => IsStart(Front)

\* What is looked for from there on stands behind a fault or with a packet, or
\* there is no room for it.
Behind(i, c) == Start(i) < c /\ c <= Start(i + 1)
Anchored(c) ==
  \/ IsStart(c)
  \/ \E i \in Faults \cup Beginning : Behind(i, c)
  \/ pc = "drain" /\ c + unit > tail /\ \E i \in Faults : Start(i) < c

\* Flushing, damaged packets stand too close for resync().
Dense(c) ==
  \A k \in 0 .. stream.length :
    c <= Start(k) /\ Start(k) + unit * Run <= tail => \E j \in stream.damaged : k <= j /\ j < k + Run

\* What became of a packet.
ExcusedBy(k, sent) ==
  \/ k \in Faults \/ k + 1 \in stream.damaged
  \/ \E i \in Faults \cup Beginning, j \in stream.damaged : i < k /\ k < j /\ j - i <= Run
  \/ \E s \in sent : ~IsStart(s) /\ Start(k) < s + unit
Kept(k) == Start(k) \in pending \cup written \/ ExcusedBy(k, pending \cup written)

Passed == \A k \in Packets : Start(k) < Front => Kept(k)

Ended == pc \in {"done", "crashed"} \/ (pc = "get" /\ flushing)

Input == stream \in Streams /\ Recognisable(stream)

RInv ==
  /\ Input
  /\ UnitRight
  /\ code # "running" => pc = "done"
  /\ flushing => tail = stream.length
  /\ SeenEnough
  /\ ~Ended => FrontInSync /\ Anchored(Front) /\ Passed
  /\ pc = "drain" => Dense(curr)
  /\ pc = "get" /\ flushing => \A k \in Packets : Kept(k)
  /\ NothingLost

LEMMA InputTypes ==
  ASSUME Input
  PROVE  /\ stream.unit \in Nat \ {0} /\ P <= stream.unit /\ stream.unit < MaxInterval
         /\ MaxInterval <= 2 * P
         /\ stream.first \in Nat /\ stream.first < stream.unit /\ stream.length \in Nat
         /\ stream.damaged \subseteq Nat /\ stream.broken \subseteq Nat
         /\ IsFiniteSet(stream.damaged)
<1>1. stream.first \in Nat /\ stream.length \in Nat
  BY StreamAssumption DEF Input
<1>2. MaxInterval \in P + 1 .. 2 * P /\ P \in Nat \ {0}
  BY StreamAssumption
<1>3. /\ stream.unit \in P .. MaxInterval - 1 /\ stream.first < stream.unit
      /\ stream.damaged \subseteq 0 .. stream.length /\ stream.broken \subseteq 0 .. stream.length
  BY DEF Input, Recognisable
<1>4. IsFiniteSet(stream.damaged)
  <2>1. IsFiniteSet(0 .. stream.length)
    BY <1>1, FS_Interval
  <2>. QED
    BY <1>3, <2>1, FS_Subset
<1>. QED
  BY <1>1, <1>2, <1>3, <1>4

\* Where packets start, in the order of their numbers.
LEMMA StartOrder ==
  ASSUME Input, NEW i \in Int, NEW j \in Int
  PROVE  /\ Start(i) \in Int
         /\ i < j => Start(i) + stream.unit <= Start(j)
         /\ Start(i) < Start(j) => i < j
         /\ Start(i) + stream.unit = Start(i + 1)
         /\ i >= 0 => Start(i) \in Nat /\ i <= Start(i) /\ stream.first <= Start(i)
<1>1. PICK u \in Nat \ {0}, f \in Nat : u = stream.unit /\ f = stream.first
  BY InputTypes
<1>2. Start(i) = f + i * u /\ Start(j) = f + j * u /\ Start(i + 1) = f + (i + 1) * u
  BY <1>1 DEF Start
<1>3. i * u \in Int /\ j * u \in Int
  OBVIOUS
<1>4. i < j => i * u + u <= j * u
  BY TimesStep
<1>5. i * u < j * u => i < j
  BY TimesOrder
<1>6. (i + 1) * u = i * u + u
  OBVIOUS
<1>7. i >= 0 => i * u \in Nat /\ i <= i * u
  OBVIOUS
<1>. QED
  BY <1>1, <1>2, <1>3, <1>4, <1>5, <1>6, <1>7

LEMMA StartIsStart ==
  ASSUME Input, NEW k \in Nat
  PROVE  IsStart(Start(k)) /\ Number(Start(k)) = k
<1>1. PICK u \in Nat \ {0}, f \in Nat : u = stream.unit /\ f = stream.first
  BY InputTypes
<1>2. Start(k) = f + k * u /\ k * u \in Nat
  BY <1>1 DEF Start
<1>3. Start(k) - f = k * u
  BY <1>2
<1>4. (k * u) % u = 0 /\ (k * u) \div u = k
  BY TimesOne
<1>. QED
  BY <1>1, <1>2, <1>3, <1>4 DEF IsStart, Number

LEMMA StartOfNumber ==
  ASSUME Input, NEW s \in Int, IsStart(s)
  PROVE  Number(s) \in Nat /\ s = Start(Number(s))
<1>1. PICK u \in Nat \ {0}, f \in Nat : u = stream.unit /\ f = stream.first
  BY InputTypes
<1>2. PICK x \in Nat : x = s - f /\ x % u = 0
  BY <1>1 DEF IsStart
<1>3. x \div u \in Nat /\ x = (x \div u) * u
  BY <1>2, TimesBack
<1>. QED
  BY <1>1, <1>2, <1>3 DEF Number, Start

\* Where sync bytes are.
LEMMA SyncAtStart ==
  ASSUME Input, NEW k \in Nat, Start(k) < stream.length
  PROVE  Sync(Start(k)) <=> k \notin stream.damaged
<1>1. k \in 0 .. stream.length
  <2>1. k \in Int /\ k >= 0
    OBVIOUS
  <2>2. Start(k) \in Nat /\ k <= Start(k)
    BY <2>1, StartOrder
  <2>. QED
    BY <2>1, <2>2, InputTypes
<1>. QED
  BY <1>1 DEF Input, Recognisable, Sync, Start

LEMMA FalseSync ==
  ASSUME Input, NEW s \in Int, Sync(s), ~IsStart(s)
  PROVE  /\ s \in FalseSyncs(stream) /\ s # 0
         /\ \E i \in 1 .. Run - 1 : ~Sync(s + stream.unit * i)
         /\ s < Start(MinCount) \/ s + stream.unit * Run > stream.length => ~Sync(s + stream.unit)
<1>1. s \in FalseSyncs(stream)
  BY InputTypes DEF FalseSyncs, IsStart, Sync
<1>. QED
  BY <1>1 DEF Input, Recognisable, Sync, Start

LEMMA NoSyncBehindBroken ==
  ASSUME Input, NEW s \in Int, Broken(s)
  PROVE  IsStart(s) /\ Number(s) \in Faults /\ ~Sync(s + 1)
<1>1. IsStart(s) /\ Number(s) \in stream.broken
  BY DEF Broken
<1>2. s = Start(Number(s))
  BY <1>1, StartOfNumber
<1>. QED
  BY <1>1, <1>2 DEF Input, Recognisable, Sync, Start, Faults

\* Two packets one of the intervals apart are one unit apart.
LEMMA NextStart ==
  ASSUME Input, NEW s \in Int, NEW i \in Intervals, IsStart(s), IsStart(s + i)
  PROVE  i = stream.unit
<1>1. i \in Nat /\ P <= i /\ i < MaxInterval
  BY StreamTypes DEF Intervals
<1>2. PICK a \in Int, b \in Int : s = Start(a) /\ s + i = Start(b)
  <2>1. s + i \in Int
    BY <1>1
  <2>2. Number(s) \in Int /\ s = Start(Number(s))
    BY StartOfNumber
  <2>3. Number(s + i) \in Int /\ s + i = Start(Number(s + i))
    BY <2>1, StartOfNumber
  <2>. QED
    BY <2>2, <2>3
<1>3. P \in Nat /\ MaxInterval \in Nat /\ MaxInterval <= 2 * P /\ P <= stream.unit /\ stream.unit \in Nat
  BY StreamTypes, InputTypes
<1>4. a < b
  <2>1. Start(a) < Start(b) => a < b
    BY StartOrder
  <2>. QED
    BY <1>1, <1>2, <1>3, <2>1
<1>5. Start(a) + stream.unit = Start(a + 1)
  BY StartOrder
<1>6. ~(a + 1 < b)
  <2>1. a + 1 \in Int
    OBVIOUS
  <2>2. a + 1 < b => Start(a + 1) + stream.unit <= Start(b)
    BY <2>1, StartOrder
  <2>3. PICK k \in Int : k = a + 1
    BY <2>1
  <2>. QED
    BY <1>1, <1>2, <1>3, <1>5, <2>2
<1>7. b = a + 1
  BY <1>4, <1>6
<1>. QED
  BY <1>1, <1>2, <1>3, <1>5, <1>7

----------------------------------------------------------------------------
\* What select_unit_size() sees.
LEMMA StartOfNext ==
  ASSUME Input, NEW k \in Int
  PROVE  /\ Start(k) \in Int /\ k + 1 \in Int
         /\ Start(k) + stream.unit = Start(k + 1) /\ Start(k) < Start(k + 1)
         /\ k >= 0 => k \in Nat /\ k + 1 \in Nat /\ k <= Start(k) /\ Start(k) \in Nat
<1>1. Start(k) \in Int /\ Start(k) + stream.unit = Start(k + 1)
  BY StartOrder
<1>2. stream.unit \in Nat \ {0}
  BY InputTypes
<1>3. k >= 0 => k <= Start(k) /\ Start(k) \in Nat
  BY StartOrder
<1>. QED
  BY <1>1, <1>2, <1>3

\* A wrong interval is seen with false sync bytes only, two times with each.
Missed == 2 * Cardinality({p \in FalseSyncs(stream) : p < tail})

LEMMA WrongInterval ==
  ASSUME Input, head \in Nat, tail \in Nat, NEW i \in Intervals, i # stream.unit
  PROVE  Count(Seen, i) <= Missed /\ Missed \in Nat
<1>. DEFINE F == {p \in FalseSyncs(stream) : p < tail}
            G == {s - i : s \in F}
<1>1. IsFiniteSet(F)
  <2>1. F \in SUBSET (0 .. tail - 1)
    BY StreamAssumption DEF FalseSyncs, Input
  <2>2. IsFiniteSet(0 .. tail - 1)
    BY FS_Interval
  <2>. HIDE DEF F
  <2>. QED
    BY <2>1, <2>2, FS_Subset
<1>2. i \in Int /\ stream.first \in Int /\ stream.unit \in Nat
  BY InputTypes, StreamTypes DEF Intervals
<1>3. Pairs(i) \subseteq F \cup G
  <2>1. SUFFICES ASSUME NEW s \in Pairs(i), s \notin F
                 PROVE  s + i \in F
    <3>1. ASSUME NEW s \in Pairs(i), s + i \in F
          PROVE  s \in G
      <4>1. s \in Int /\ s = (s + i) - i
        BY <1>2 DEF Pairs, Seen
      <4>. HIDE DEF F
      <4>. QED
        BY <3>1, <4>1
    <3>. HIDE DEF F, G
    <3>. QED
      BY <2>1, <3>1
  <2>2. s \in Int /\ s + i \in Int /\ Sync(s) /\ Sync(s + i) /\ s < tail /\ s + i < tail
    BY <1>2 DEF Pairs, Seen, Sync
  <2>3. IsStart(s)
    BY <2>1, <2>2, FalseSync
  <2>4. ~IsStart(s + i)
    BY <2>2, <2>3, NextStart
  <2>. QED
    BY <2>2, <2>4, FalseSync
<1>4. IsFiniteSet(G) /\ Cardinality(G) <= Cardinality(F)
  <2>1. G \subseteq {[s \in F |-> s - i][x] : x \in F}
    OBVIOUS
  <2>. HIDE DEF F, G
  <2>. QED
    BY <1>1, <2>1, ImageBound
<1>0. Missed = 2 * Cardinality(F)
  BY DEF Missed
<1>. HIDE DEF F, G
<1>5. IsFiniteSet(F \cup G) /\ Cardinality(F \cup G) <= Cardinality(F) + Cardinality(G)
  <2>1. /\ IsFiniteSet(F \cup G) /\ IsFiniteSet(F \cap G)
        /\ Cardinality(F \cup G) = Cardinality(F) + Cardinality(G) - Cardinality(F \cap G)
    BY <1>1, <1>4, FS_Union, FS_Intersection
  <2>2. Cardinality(F \cap G) \in Nat /\ Cardinality(F) \in Nat /\ Cardinality(G) \in Nat
    BY <1>1, <1>4, <2>1, FS_CardinalityType
  <2>. QED
    BY <2>1, <2>2
<1>6. Cardinality(Pairs(i)) <= Cardinality(F \cup G)
  BY <1>3, <1>5, FS_Subset
<1>7. Count(Seen, i) = Cardinality(Pairs(i)) /\ Count(Seen, i) \in Nat
  BY PairsFinite
<1>8. Cardinality(F) \in Nat /\ Cardinality(G) \in Nat /\ Cardinality(F \cup G) \in Nat
  BY <1>1, <1>4, <1>5, FS_CardinalityType
<1>. QED
  BY <1>0, <1>4, <1>5, <1>6, <1>7, <1>8

LEMMA FewMissed ==
  ASSUME Input, tail \in Nat, tail <= stream.length
  PROVE  Missed < MinCount \/ (Missed + Slack) * MaxInterval <= tail
<1>1. tail \in 0 .. stream.length
  BY InputTypes
<1>2. FewFalse(stream, tail)
  BY <1>1 DEF Input, Recognisable
<1>. QED
  BY <1>2 DEF FewFalse, Missed

\* What is found is the unit of the input, seen often enough: a wrong interval
\* is seen too seldom, or misses more units than it may.
LEMMA UnitSizeRight ==
  ASSUME Input, head = 0, tail \in Nat, tail <= stream.length, UnitSize # 0
  PROVE  UnitSize = stream.unit /\ Count(Seen, stream.unit) >= MinCount
<1>1. PICK n \in Intervals : UnitSize = IF Verified(Count(Seen, n), n) THEN n ELSE 0
  BY MostSeen
<1>2. UnitSize = n /\ Verified(Count(Seen, n), n)
  BY <1>1
<1>3. ASSUME n # stream.unit
      PROVE  FALSE
  <2>1. PICK c \in Nat : c = Count(Seen, n)
    BY PairsFinite
  <2>2. PICK m \in Nat : m = Missed /\ c <= m
    BY <1>3, <2>1, WrongInterval
  <2>3. PICK l \in Nat : l = Slack /\ l >= 3
    BY StreamAssumption
  <2>4. PICK x \in Nat : x = MaxInterval
    BY StreamTypes
  <2>5. n \in Nat /\ n < x
    BY <2>4, StreamTypes DEF Intervals
  <2>6. c >= MinCount /\ c * n + l * n >= tail /\ MinCount \in Nat
    BY <1>2, <2>1, <2>3, StreamAssumption DEF Verified
  <2>7. (m + l) * x <= tail
    BY <2>2, <2>3, <2>4, <2>6, FewMissed
  <2>8. c * n + l * n < (m + l) * x
    <3>1. \A a, b \in Nat : \A y, z \in Nat : a <= b /\ b > 0 /\ y < z => a * y < b * z
      BY SMTT(20)
    <3>2. c + l <= m + l /\ m + l > 0 /\ c + l \in Nat /\ m + l \in Nat
      BY <2>2, <2>3
    <3>3. (c + l) * n < (m + l) * x
      BY <2>5, <3>1, <3>2
    <3>4. (c + l) * n = c * n + l * n
      BY <2>5
    <3>. QED
      BY <3>3, <3>4
  <2>9. c * n + l * n \in Nat /\ (m + l) * x \in Nat
    BY <2>5
  <2>. QED
    BY <2>6, <2>7, <2>8, <2>9
<1>. QED
  BY <1>2, <1>3 DEF Verified

\* Among the first units, a unit apart are two packets, neither of them damaged.
LEMMA PairOfPackets ==
  ASSUME Input, tail \in Nat, tail <= stream.length, head \in Nat, tail <= Start(MinCount + 1),
         NEW s \in Pairs(stream.unit)
  PROVE  \E k \in Nat : /\ s = Start(k) /\ Start(k + 1) < tail
                        /\ k \notin stream.damaged /\ k + 1 \notin stream.damaged
<1>1. s \in Int /\ Sync(s) /\ Sync(s + stream.unit) /\ s + stream.unit < tail
  BY InputTypes DEF Pairs, Seen, Sync
<1>2. IsStart(s)
  <2>1. MinCount \in Int
    BY StreamAssumption
  <2>2. /\ Start(MinCount) \in Int /\ Start(MinCount + 1) \in Int
        /\ Start(MinCount) + stream.unit = Start(MinCount + 1)
    BY <2>1, StartOfNext
  <2>3. s < Start(MinCount)
    <3>. PICK x \in Int, y \in Int : x = Start(MinCount) /\ y = Start(MinCount + 1)
      BY <2>2
    <3>. QED
      BY <1>1, <2>2, InputTypes
  <2>. QED
    BY <1>1, <2>3, FalseSync
<1>3. PICK k \in Int : k >= 0 /\ s = Start(k)
  BY <1>1, <1>2, StartOfNumber
<1>4. Start(k) + stream.unit = Start(k + 1) /\ Start(k) < Start(k + 1)
  BY <1>3, StartOfNext
<1>5. Start(k) < stream.length /\ Start(k + 1) < stream.length
  BY <1>1, <1>3, <1>4, InputTypes
<1>6. k \notin stream.damaged /\ k + 1 \notin stream.damaged
  <2>1. k \in Nat /\ k + 1 \in Nat
    BY <1>3
  <2>2. Sync(Start(k)) /\ Sync(Start(k + 1))
    BY <1>1, <1>3, <1>4
  <2>. QED
    BY <1>5, <2>1, <2>2, SyncAtStart
<1>. QED
  BY <1>1, <1>3, <1>4, <1>6

\* So many pairs of packets are not all among the first ones.
LEMMA PairBehind ==
  ASSUME Input, tail \in Nat, tail <= stream.length, head \in Nat, tail <= Start(MinCount + 1),
         NEW A, IsFiniteSet(A), Cardinality(A) < Cardinality(Pairs(stream.unit)),
         NEW n \in Nat, 0 .. n - 1 \subseteq A \cup stream.damaged
  PROVE  Start(n + 1) < tail
<1>1. PICK s \in Pairs(stream.unit) : \A k \in A : s # Start(k)
  <2>1. Cardinality(A) \in Nat /\ Cardinality(Pairs(stream.unit)) \in Nat
    BY FS_CardinalityType, PairsFinite
  <2>. DEFINE f == [k \in A |-> Start(k)]
              T == {f[x] : x \in A}
  <2>2. \A T1 : T1 \subseteq T => Cardinality(T1) <= Cardinality(A)
    <3>. HIDE DEF f
    <3>. QED
      BY ImageBound
  <2>3. ~(Pairs(stream.unit) \subseteq T)
    <3>. HIDE DEF T
    <3>. QED
      BY <2>1, <2>2
  <2>4. \A k \in A : Start(k) \in T
    <3>1. \A k \in A : f[k] = Start(k)
      OBVIOUS
    <3>. HIDE DEF f
    <3>. QED
      BY <3>1
  <2>. QED
    BY <2>3, <2>4
<1>2. PICK k \in Nat : /\ s = Start(k) /\ Start(k + 1) < tail
                       /\ k \notin stream.damaged
  BY PairOfPackets
<1>3. k \in Int /\ k >= n
  BY <1>1, <1>2
<1>4. k + 1 \in Int /\ n + 1 \in Int /\ Start(k + 1) \in Int /\ Start(n + 1) \in Int
  <2>1. k + 1 \in Int /\ n + 1 \in Int
    BY <1>3
  <2>. QED
    BY <2>1, StartOfNext
<1>5. n + 1 = k + 1 \/ Start(n + 1) + stream.unit <= Start(k + 1)
  <2>1. n + 1 < k + 1 => Start(n + 1) + stream.unit <= Start(k + 1)
    BY <1>4, StartOrder
  <2>. QED
    BY <1>3, <2>1
<1>. QED
  BY <1>2, <1>4, <1>5, InputTypes

\* Where the unit size is found, MinCount packets and one more are in the
\* buffer, and another one if one of those is damaged.
LEMMA FoundBehind ==
  ASSUME Input, tail \in Nat, tail <= stream.length, head = 0, UnitSize # 0
  PROVE  /\ tail > Start(MinCount)
         /\ (\E j \in stream.damaged : j < MinCount) => tail > Start(MinCount + 1)
<1>. DEFINE C == Cardinality(Pairs(stream.unit))
<1>1. MinCount \in Nat /\ MinCount - 1 \in Nat /\ MinCount - 1 + 1 = MinCount
  <2>1. MinCount \in Nat \ {0}
    BY StreamAssumption
  <2>. QED
    BY <2>1
<1>2. C >= MinCount /\ C \in Nat
  BY UnitSizeRight, PairsFinite
<1>. HIDE DEF C
<1>0. /\ Start(MinCount) \in Int /\ Start(MinCount + 1) \in Int
      /\ Start(MinCount) < Start(MinCount + 1)
  <2>1. MinCount \in Int
    BY <1>1
  <2>. QED
    BY <2>1, StartOfNext
<1>. SUFFICES ASSUME tail <= Start(MinCount + 1)
              PROVE  /\ tail > Start(MinCount)
                     /\ (\E j \in stream.damaged : j < MinCount) => tail > Start(MinCount + 1)
  <2>. PICK x \in Int, y \in Int : x = Start(MinCount) /\ y = Start(MinCount + 1)
    BY <1>0
  <2>. QED
    BY <1>0
<1>3. Start(MinCount) < tail
  <2>. DEFINE A == 0 .. (MinCount - 1) - 1
  <2>1. IsFiniteSet(A) /\ Cardinality(A) < C
    <3>1. 0 \in Int /\ (MinCount - 1) - 1 \in Int
      BY <1>1
    <3>2. IsFiniteSet(A) /\ Cardinality(A) = IF 0 > (MinCount - 1) - 1 THEN 0
                                             ELSE (MinCount - 1) - 1 - 0 + 1
      BY <3>1, FS_Interval
    <3>. HIDE DEF A
    <3>. QED
      BY <1>1, <1>2, <3>2
  <2>2. A \subseteq A \cup stream.damaged
    OBVIOUS
  <2>3. Start((MinCount - 1) + 1) < tail
    BY <1>1, <2>1, <2>2, PairBehind DEF C
  <2>. QED
    BY <1>1, <2>3
<1>4. ASSUME NEW j \in stream.damaged, j < MinCount
      PROVE  Start(MinCount + 1) < tail
  <2>. DEFINE B == 0 .. MinCount - 1
              A == B \ {j}
  <2>1. IsFiniteSet(A) /\ Cardinality(A) < C
    <3>1. 0 \in Int /\ MinCount - 1 \in Int
      BY <1>1
    <3>2. IsFiniteSet(B) /\ Cardinality(B) = IF 0 > MinCount - 1 THEN 0 ELSE MinCount - 1 - 0 + 1
      BY <3>1, FS_Interval
    <3>3. j \in B
      BY <1>1, <1>4, InputTypes
    <3>. HIDE DEF B
    <3>4. IsFiniteSet(A) /\ Cardinality(A) = Cardinality(B) - 1
      BY <3>2, <3>3, FS_RemoveElement
    <3>. QED
      BY <1>1, <1>2, <3>2, <3>4
  <2>2. B \subseteq A \cup stream.damaged
    BY <1>4
  <2>. QED
    BY <1>1, <2>1, <2>2, PairBehind DEF C
<1>. QED
  BY <1>0, <1>3, <1>4

\* How many packets begin in front of the tail.
LEMMA HowMany ==
  ASSUME NEW u \in Nat \ {0}, NEW d \in Nat \ {0}
  PROVE  \E n \in Nat : n * u < d /\ d <= n * u + u
<1>1. PICK n \in Nat : n = (d - 1) \div u
  OBVIOUS
<1>2. n * u <= d - 1 /\ d - 1 < n * u + u
  BY <1>1, SMTT(20)
<1>. QED
  BY <1>2

\* A pair of packets without damage is seen.
LEMMA SeenPair ==
  ASSUME Input, head = 0, tail \in Nat, tail <= stream.length,
         NEW k \in Nat, Start(k + 1) < tail, k \notin stream.damaged, k + 1 \notin stream.damaged
  PROVE  Start(k) \in Pairs(stream.unit)
<1>1. /\ Start(k) \in Nat /\ k + 1 \in Nat
      /\ Start(k) + stream.unit = Start(k + 1) /\ Start(k) < Start(k + 1)
  BY StartOfNext
<1>2. Start(k) < stream.length /\ Start(k + 1) < stream.length
  BY <1>1, InputTypes
<1>3. Sync(Start(k)) /\ Sync(Start(k + 1))
  BY <1>1, <1>2, SyncAtStart
<1>4. Start(k) < tail - P
  BY <1>1, InputTypes, StreamTypes
<1>. QED
  BY <1>1, <1>3, <1>4, InputTypes DEF Pairs, Seen, Sync

\* With one damaged packet at most, and not in an input that begins in the
\* middle of a packet, all units but three are seen to be followed by another.
LEMMA EnoughPairs ==
  ASSUME Input, head = 0, tail \in Nat, tail <= stream.length,
         Cardinality(stream.damaged) <= 1, stream.damaged = {} \/ stream.first = 0,
         NEW n \in Nat, n > 0, Start(n) < tail
  PROVE  /\ Count(Seen, stream.unit) >= n - 2
         /\ stream.damaged = {} => Count(Seen, stream.unit) >= n
<1>. DEFINE B == 0 .. n - 1
            C == Pairs(stream.unit)
<1>1. IsFiniteSet(B) /\ Cardinality(B) = n
  <2>1. 0 \in Int /\ n - 1 \in Int
    OBVIOUS
  <2>2. IsFiniteSet(B) /\ Cardinality(B) = IF 0 > n - 1 THEN 0 ELSE n - 1 - 0 + 1
    BY <2>1, FS_Interval
  <2>. HIDE DEF B
  <2>. QED
    BY <2>2
<1>2. IsFiniteSet(C) /\ Cardinality(C) \in Nat /\ Count(Seen, stream.unit) = Cardinality(C)
  BY PairsFinite, FS_CardinalityType
<1>3. ASSUME NEW A \in SUBSET B, \A k \in A : k \notin stream.damaged /\ k + 1 \notin stream.damaged
      PROVE  Cardinality(A) <= Cardinality(C)
  <2>1. ASSUME NEW k \in A
        PROVE  Start(k) \in C /\ Number(Start(k)) = k
    <3>1. k \in Nat /\ k + 1 \in Int /\ k + 1 <= n /\ n \in Int
      OBVIOUS
    <3>2. Start(k + 1) < tail
      <4>1. k + 1 < n => Start(k + 1) + stream.unit <= Start(n)
        BY <3>1, StartOrder
      <4>2. Start(k + 1) \in Int /\ Start(n) \in Int
        BY <3>1, StartOrder
      <4>. QED
        BY <3>1, <4>1, <4>2, InputTypes
    <3>. HIDE DEF C
    <3>3. Start(k) \in C
      BY <1>3, <3>1, <3>2, SeenPair DEF C
    <3>. QED
      BY <3>1, <3>3, StartIsStart
  <2>. DEFINE f == [s \in C |-> Number(s)]
  <2>2. \A k \in A : Start(k) \in C /\ f[Start(k)] = k
    <3>. HIDE DEF C
    <3>. QED
      BY <2>1
  <2>. HIDE DEF C, f, B
  <2>3. A \subseteq {f[s] : s \in C}
    BY <2>2
  <2>. QED
    BY <1>2, <2>3, ImageBound
<1>4. CASE stream.damaged = {}
  <2>1. Cardinality(B) <= Cardinality(C)
    <3>. HIDE DEF B, C
    <3>. QED
      BY <1>3, <1>4
  <2>. HIDE DEF B, C
  <2>. QED
    BY <1>1, <1>2, <2>1
<1>5. CASE stream.damaged # {}
  <2>1. PICK j : stream.damaged = {j}
    <3>1. Cardinality(stream.damaged) \in Nat /\ Cardinality(stream.damaged) # 0
      BY <1>5, InputTypes, FS_CardinalityType, FS_EmptySet
    <3>2. Cardinality(stream.damaged) = 1
      BY <3>1
    <3>. QED
      BY <3>2, InputTypes, FS_Singleton
  <2>2. j \in Nat
    BY <2>1, InputTypes
  <2>. DEFINE A == (B \ {j}) \ {j - 1}
  <2>3. \A k \in A : k \notin stream.damaged /\ k + 1 \notin stream.damaged
    BY <2>1, <2>2
  <2>. HIDE DEF B, C
  <2>4. Cardinality(A) >= n - 2
    <3>1. IsFiniteSet(B \ {j}) /\ Cardinality(B \ {j}) \in {n, n - 1}
      BY <1>1, FS_RemoveElement
    <3>2. Cardinality(A) \in {Cardinality(B \ {j}), Cardinality(B \ {j}) - 1}
      BY <3>1, FS_RemoveElement
    <3>. QED
      BY <3>1, <3>2
  <2>5. Cardinality(A) <= Cardinality(C)
    BY <1>3, <2>3
  <2>6. Cardinality(A) \in Nat
    <3>1. IsFiniteSet(A)
      BY <1>1, FS_RemoveElement
    <3>. QED
      BY <3>1, FS_CardinalityType
  <2>. QED
    BY <1>2, <1>5, <2>4, <2>5, <2>6
<1>. QED
  BY <1>4, <1>5

\* With that few damaged packets and enough of them the unit size is found.
LEMMA UnitFound ==
  ASSUME Input, head = 0, tail \in Nat, tail <= stream.length,
         Cardinality(stream.damaged) <= 1, stream.damaged = {} \/ stream.first = 0,
         tail - stream.first >= (MinCount + Slack) * stream.unit
  PROVE  UnitSize # 0
<1>1. PICK u \in Nat \ {0} : u = stream.unit
  BY InputTypes
<1>2. PICK f \in Nat : f = stream.first /\ f < u
  BY <1>1, InputTypes
<1>3. PICK m \in Nat \ {0} : m = MinCount
  BY StreamAssumption
<1>4. PICK l \in Nat : l = Slack /\ l >= 3
  BY StreamAssumption
<1>5. (m + l) * u <= tail - f /\ (m + l) * u \in Nat /\ (m + l) * u > 0
  <2>1. (m + l) * u \in Nat /\ (m + l) * u > 0
    BY <1>4
  <2>. QED
    BY <1>1, <1>2, <1>3, <1>4, <2>1
<1>6. PICK n \in Nat : n * u < tail - f /\ tail - f <= n * u + u
  <2>1. tail - f \in Nat \ {0}
    BY <1>5
  <2>. QED
    BY <2>1, HowMany
<1>7. n >= m + l - 1
  <2>1. (m + l) * u < (n + 1) * u \/ (m + l) * u = (n + 1) * u
    <3>1. (n + 1) * u = n * u + u
      OBVIOUS
    <3>2. n * u \in Int /\ (n + 1) * u \in Int
      OBVIOUS
    <3>. QED
      BY <1>5, <1>6, <3>1, <3>2
  <2>2. m + l \in Int /\ n + 1 \in Int
    OBVIOUS
  <2>3. ~(n + 1 < m + l)
    <3>1. n + 1 < m + l => (n + 1) * u + u <= (m + l) * u /\ (n + 1) * u \in Int
      BY <2>2, TimesStep
    <3>. QED
      BY <1>5, <2>1, <3>1
  <2>. QED
    BY <2>3
<1>8. Start(n) < tail /\ n > 0
  <2>1. Start(n) = f + n * u /\ n * u \in Int
    BY <1>1, <1>2 DEF Start
  <2>. QED
    BY <1>4, <1>6, <1>7, <2>1
<1>9. PICK c \in Nat : /\ c = Count(Seen, stream.unit) /\ c >= n - 2
                       /\ stream.damaged = {} => c >= n
  <2>1. Count(Seen, stream.unit) \in Nat
    BY PairsFinite
  <2>. QED
    BY <1>8, <2>1, EnoughPairs
<1>10. c >= m
  BY <1>4, <1>7, <1>9
<1>11. c * u + l * u >= tail
  <2>1. c + l >= n + 1 /\ (f # 0 => c + l >= n + 2)
    BY <1>2, <1>4, <1>9
  <2>2. \A x \in Nat : c + l >= x => (c + l) * u >= x * u
    <3>1. ASSUME NEW x \in Nat, NEW y \in Nat, y >= x
          PROVE  y * u >= x * u
      BY <3>1, SMTT(20)
    <3>2. c + l \in Nat
      OBVIOUS
    <3>. QED
      BY <3>1, <3>2
  <2>3. (n + 1) * u = n * u + u /\ (n + 2) * u = n * u + u + u /\ (c + l) * u = c * u + l * u
    OBVIOUS
  <2>4. n * u \in Nat /\ c * u \in Nat /\ l * u \in Nat
    OBVIOUS
  <2>5. (c + l) * u >= (n + 1) * u /\ (f # 0 => (c + l) * u >= (n + 2) * u)
    BY <2>1, <2>2
  <2>. QED
    BY <1>2, <1>6, <2>3, <2>4, <2>5
<1>12. Verified(c, stream.unit)
  BY <1>1, <1>3, <1>4, <1>10, <1>11 DEF Verified
<1>13. PICK i \in Intervals :
         /\ UnitSize = IF Verified(Count(Seen, i), i) THEN i ELSE 0
         /\ \A j \in Intervals : Count(Seen, j) <= Count(Seen, i)
  BY MostSeen
<1>14. stream.unit \in Intervals
  BY InputTypes, StreamTypes DEF Intervals
<1>15. i = stream.unit
  <2>1. SUFFICES ASSUME i # stream.unit PROVE FALSE
    OBVIOUS
  <2>2. PICK d \in Nat : d = Count(Seen, i) /\ c <= d
    BY <1>9, <1>13, <1>14, PairsFinite
  <2>3. PICK w \in Nat : w = Missed /\ d <= w
    BY <2>1, <2>2, WrongInterval
  <2>4. PICK x \in Nat : x = MaxInterval /\ u < x
    BY <1>1, InputTypes, StreamTypes
  <2>5. (w + l) * x <= tail
    BY <1>3, <1>4, <1>10, <2>2, <2>3, <2>4, FewMissed
  <2>6. c * u + l * u < (w + l) * x
    <3>0. c * u + l * u = (c + l) * u
      OBVIOUS
    <3>1. \A a, b \in Nat : \A y, z \in Nat : a <= b /\ b > 0 /\ y < z => a * y < b * z
      BY SMTT(20)
    <3>2. c + l <= w + l /\ w + l > 0 /\ c + l \in Nat /\ w + l \in Nat
      BY <1>4, <2>2, <2>3
    <3>3. (c + l) * u < (w + l) * x
      BY <2>4, <3>1, <3>2
    <3>. QED
      BY <3>0, <3>3
  <2>7. c * u + l * u \in Nat /\ (w + l) * x \in Nat
    OBVIOUS
  <2>. QED
    BY <1>11, <2>5, <2>6, <2>7
<1>. QED
  BY <1>9, <1>12, <1>13, <1>15, InputTypes

----------------------------------------------------------------------------
\* resync() takes the first place that is in sync.
LEMMA ResyncFirst ==
  ASSUME NEW c \in Nat, tail \in Nat, unit \in Nat \ {0}
  PROVE  /\ Resync(c) # tail => /\ \A i \in 0 .. Run - 1 : Sync(Resync(c) + unit * i)
                                /\ Resync(c) + unit * Run <= tail
         /\ \A s \in Nat : c <= s /\ s < Resync(c) /\ s + unit * Run <= tail =>
              \E i \in 0 .. Run - 1 : ~Sync(s + unit * i)
<1>. DEFINE S == {s \in c .. tail - unit * Run : \A i \in 0 .. Run - 1 : Sync(s + unit * i)}
<1>1. unit * Run \in Nat
  <2>1. Run \in Nat
    BY StreamAssumption
  <2>. QED
    BY <2>1
<1>2. S \in SUBSET Nat
  BY <1>1
<1>3. Resync(c) = IF S = {} THEN tail ELSE Min(S)
  BY DEF Resync, First
<1>4. S # {} => Min(S) \in S /\ \A s \in S : Min(S) <= s
  <2>. HIDE DEF S
  <2>. QED
    BY <1>2, MinOf
<1>5. ASSUME Resync(c) # tail
      PROVE  (\A i \in 0 .. Run - 1 : Sync(Resync(c) + unit * i)) /\ Resync(c) + unit * Run <= tail
  <2>1. Resync(c) \in S
    <3>. HIDE DEF S
    <3>. QED
      BY <1>3, <1>4, <1>5
  <2>2. Resync(c) \in c .. tail - unit * Run
    BY <2>1
  <2>. QED
    BY <1>1, <2>1, <2>2
<1>6. ASSUME NEW s \in Nat, c <= s, s < Resync(c), s + unit * Run <= tail
      PROVE  \E i \in 0 .. Run - 1 : ~Sync(s + unit * i)
  <2>1. s \notin S
    <3>1. S # {} => Min(S) \in Nat
      <4>. HIDE DEF S
      <4>. QED
        BY <1>2, <1>4
    <3>. HIDE DEF S
    <3>. QED
      BY <1>3, <1>4, <1>6, <3>1
  <2>2. s \in c .. tail - unit * Run
    BY <1>1, <1>6
  <2>. QED
    BY <2>1, <2>2
<1>. QED
  BY <1>5, <1>6

\* resync_force() takes the first place with nothing but sync bytes behind it.
LEMMA ResyncForceFirst ==
  ASSUME NEW c \in Nat, tail \in Nat
  PROVE  /\ ResyncForce(c) # tail =>
              /\ Sync(ResyncForce(c))
              /\ \A i \in 1 .. ((tail - ResyncForce(c)) \div unit) - 1 : Sync(ResyncForce(c) + unit * i)
         /\ \A s \in Nat : c <= s /\ s < ResyncForce(c) /\ s + P <= tail /\ Sync(s) =>
              \E i \in 1 .. ((tail - s) \div unit) - 1 : ~Sync(s + unit * i)
<1>. DEFINE S == {s \in c .. tail - P :
                    Sync(s) /\ \A i \in 1 .. ((tail - s) \div unit) - 1 : Sync(s + unit * i)}
<1>1. P \in Nat
  BY StreamTypes
<1>2. S \in SUBSET Nat
  BY <1>1
<1>3. ResyncForce(c) = IF S = {} THEN tail ELSE Min(S)
  BY DEF ResyncForce, First
<1>4. S # {} => Min(S) \in S /\ \A s \in S : Min(S) <= s
  <2>. HIDE DEF S
  <2>. QED
    BY <1>2, MinOf
<1>5. ASSUME ResyncForce(c) # tail
      PROVE  /\ Sync(ResyncForce(c))
             /\ \A i \in 1 .. ((tail - ResyncForce(c)) \div unit) - 1 : Sync(ResyncForce(c) + unit * i)
  <2>1. ResyncForce(c) \in S
    <3>. HIDE DEF S
    <3>. QED
      BY <1>3, <1>4, <1>5
  <2>. QED
    BY <2>1
<1>6. ASSUME NEW s \in Nat, c <= s, s < ResyncForce(c), s + P <= tail, Sync(s)
      PROVE  \E i \in 1 .. ((tail - s) \div unit) - 1 : ~Sync(s + unit * i)
  <2>1. s \notin S
    <3>1. S # {} => Min(S) \in Nat
      <4>. HIDE DEF S
      <4>. QED
        BY <1>2, <1>4
    <3>. HIDE DEF S
    <3>. QED
      BY <1>3, <1>4, <1>6, <3>1
  <2>2. s \in c .. tail - P
    BY <1>1, <1>6
  <2>. QED
    BY <1>6, <2>1, <2>2
<1>. QED
  BY <1>5, <1>6

\* A packet that is not where it should be is a damaged one.
LEMMA DamagedBehind ==
  ASSUME Input, unit = stream.unit, tail \in Nat, tail <= stream.length,
         NEW k \in Nat, NEW i \in Nat, Start(k) + unit * i < tail, ~Sync(Start(k) + unit * i)
  PROVE  k + i \in stream.damaged /\ Start(k + i) = Start(k) + unit * i
<1>1. Start(k + i) = Start(k) + unit * i
  <2>1. PICK u \in Nat, f \in Nat : u = stream.unit /\ f = stream.first
    BY InputTypes
  <2>2. f + (k + i) * u = (f + k * u) + u * i
    OBVIOUS
  <2>. QED
    BY <2>1, <2>2 DEF Start
<1>2. k + i \in Nat
  OBVIOUS
<1>3. Start(k + i) < stream.length
  <2>1. Start(k + i) \in Nat
    BY <1>2, StartOfNext
  <2>. QED
    BY <1>1, <2>1, InputTypes
<1>. QED
  BY <1>1, <1>2, <1>3, SyncAtStart

\* resync() skips a packet only for a damaged one among the next ones.
LEMMA ResyncSkips ==
  ASSUME Input, unit = stream.unit, tail \in Nat, tail <= stream.length,
         NEW c \in Nat, NEW k \in Nat, c <= Start(k), Start(k) < Resync(c),
         Resync(c) # tail \/ Start(k) + unit * Run <= tail
  PROVE  \E j \in stream.damaged : k <= j /\ j < k + Run
<1>1. unit \in Nat \ {0} /\ Start(k) \in Nat /\ Run \in Nat
  BY InputTypes, StartOfNext, StreamAssumption
<1>2. PICK r \in Nat : r = unit * Run
  BY <1>1
<1>3. Start(k) + r <= tail
  <2>1. Resync(c) # tail => Resync(c) \in Nat /\ Resync(c) + unit * Run <= tail
    BY <1>1, ResyncFirst, ResyncBounds
  <2>. QED
    BY <1>1, <1>2, <2>1
<1>4. PICK i \in 0 .. Run - 1 : ~Sync(Start(k) + unit * i)
  BY <1>1, <1>2, <1>3, ResyncFirst
<1>5. i \in Nat /\ i < Run
  BY <1>1
<1>6. Start(k) + unit * i < tail
  <2>1. unit * i < unit * Run /\ unit * i \in Nat
    <3>1. \A x, y \in Nat : \A u \in Nat \ {0} : x < y => u * x < u * y /\ u * x \in Nat
      BY SMTT(20)
    <3>. QED
      BY <1>1, <1>5, <3>1
  <2>. QED
    BY <1>1, <1>2, <1>3, <2>1
<1>7. k + i \in stream.damaged
  BY <1>5, <1>6, <1>4, DamagedBehind
<1>. QED
  BY <1>1, <1>5, <1>7

LEMMA BehindStart ==
  ASSUME Input, NEW i \in Int, NEW j \in Int
  PROVE  /\ Start(i) < Start(j) => i < j /\ i + 1 <= j /\ Start(i + 1) <= Start(j)
         /\ Start(i) <= Start(j) => i <= j
         /\ i <= j => Start(i) <= Start(j)
<1>1. Start(i) \in Int /\ Start(j) \in Int /\ stream.unit \in Nat \ {0}
  BY StartOrder, InputTypes
<1>2. Start(i) + stream.unit = Start(i + 1)
  BY StartOrder
<1>3. i < j => Start(i) + stream.unit <= Start(j)
  BY StartOrder
<1>4. j < i => Start(j) + stream.unit <= Start(i)
  BY StartOrder
<1>5. i = j => Start(i) = Start(j)
  OBVIOUS
<1>. QED
  BY <1>1, <1>2, <1>3, <1>4, <1>5

\* Packets skipped behind a fault, each for a damaged one among the next, are
\* between two faults that are close together: the last one that was passed
\* before the packet, and the first behind it.
LEMMA ExcusedBehind ==
  ASSUME Input, NEW c \in Nat, NEW k \in Nat, c <= Start(k), k \notin Faults, k + 1 \notin stream.damaged,
         \/ \E a \in Nat : c = Start(a) /\ (a \in stream.damaged \/ a + 1 \in stream.damaged)
         \/ \E i \in Faults \cup Beginning : Behind(i, c),
         \A m \in Nat : c <= Start(m) /\ m <= k => \E j \in stream.damaged : m <= j /\ j < m + Run
  PROVE  \E i \in Faults \cup Beginning, j \in stream.damaged : i < k /\ k < j /\ j - i <= Run
<1>. DEFINE D == {d \in stream.damaged : d < k /\ c <= Start(d)}
<1>1. stream.damaged \subseteq Nat /\ Run \in Nat /\ k \notin stream.damaged
  BY InputTypes, StreamAssumption DEF Faults
<1>2. ASSUME NEW i \in Faults \cup Beginning, i \in Int, i + 1 \in Nat, i < k, c <= Start(i + 1),
             \A d \in D : d <= i
      PROVE  \E j \in stream.damaged : i < k /\ k < j /\ j - i <= Run
  <2>1. i + 1 <= k
    BY <1>2
  <2>2. PICK j \in stream.damaged : i + 1 <= j /\ j < i + 1 + Run
    BY <1>2, <2>1
  <2>3. j \in Int /\ k \in Int /\ i + 1 \in Int /\ j # k
    BY <1>1, <1>2, <2>2
  <2>4. ~(j < k)
    <3>1. Start(i + 1) <= Start(j) /\ Start(i + 1) \in Int /\ Start(j) \in Int
      BY <2>2, <2>3, BehindStart, StartOfNext
    <3>2. c <= Start(j)
      BY <1>2, <3>1
    <3>3. j < k => j \in D
      BY <2>2, <3>2
    <3>. HIDE DEF D
    <3>. QED
      BY <1>2, <2>2, <2>3, <3>3
  <2>5. k < j /\ j - i <= Run
    BY <1>1, <1>2, <2>2, <2>3, <2>4
  <2>. QED
    BY <1>2, <2>2, <2>5
<1>3. CASE D # {}
  <2>1. D \in SUBSET Nat /\ \A d \in D : d <= k
    BY <1>1
  <2>2. Max(D) \in D /\ \A d \in D : d <= Max(D)
    <3>. HIDE DEF D
    <3>. QED
      BY <1>3, <2>1, MaxOf
  <2>3. PICK i \in Nat : i = Max(D)
    <3>. HIDE DEF D
    <3>. QED
      BY <2>1, <2>2
  <2>4. i \in stream.damaged /\ i < k /\ c <= Start(i) /\ \A d \in D : d <= i
    <3>1. \A d \in D : d \in stream.damaged /\ d < k /\ c <= Start(d)
      OBVIOUS
    <3>. HIDE DEF D
    <3>. QED
      BY <2>2, <2>3, <3>1
  <2>5. i \in Int /\ i + 1 \in Nat /\ c <= Start(i + 1)
    <3>1. i \in Int
      BY <2>3
    <3>2. Start(i) < Start(i + 1) /\ Start(i) \in Int /\ Start(i + 1) \in Int
      BY <3>1, StartOfNext
    <3>. QED
      BY <2>4, <3>1, <3>2
  <2>. HIDE DEF D
  <2>6. i \in Faults \cup Beginning
    BY <2>4 DEF Faults
  <2>. QED
    BY <1>2, <2>4, <2>5, <2>6
<1>4. CASE D = {}
  <2>1. CASE \E i \in Faults \cup Beginning : Behind(i, c)
    <3>1. PICK i \in Faults \cup Beginning : Start(i) < c /\ c <= Start(i + 1)
      BY <2>1 DEF Behind
    <3>2. i \in Int /\ i + 1 \in Nat
      BY InputTypes DEF Faults, Beginning
    <3>3. i < k
      <4>1. Start(i) \in Int /\ Start(k) \in Int
        BY <3>2, StartOfNext
      <4>2. Start(i) < Start(k)
        BY <3>1, <4>1
      <4>. QED
        BY <3>2, <4>2, BehindStart
    <3>. HIDE DEF D
    <3>. QED
      BY <1>2, <1>4, <3>1, <3>2, <3>3
  <2>2. CASE \E a \in Nat : c = Start(a) /\ (a \in stream.damaged \/ a + 1 \in stream.damaged)
    <3>1. PICK a \in Nat : c = Start(a) /\ (a \in stream.damaged \/ a + 1 \in stream.damaged)
      BY <2>2
    <3>2. a \in Int /\ k \in Int /\ a <= k
      <4>1. a \in Int /\ k \in Int
        OBVIOUS
      <4>. QED
        BY <3>1, <4>1, BehindStart
    <3>3. a \notin stream.damaged
      <4>1. a < k => a \notin stream.damaged
        <5>1. Start(a) \in Int
          BY <3>2, StartOfNext
        <5>. QED
          BY <1>4, <3>1, <5>1
      <4>. QED
        BY <1>1, <3>2, <4>1
    <3>4. a + 1 \in stream.damaged /\ a + 1 # k + 1
      BY <3>1, <3>3
    <3>5. a + 1 < k
      BY <1>1, <3>2, <3>4
    <3>6. c <= Start(a + 1)
      <4>1. Start(a) < Start(a + 1) /\ Start(a) \in Int /\ Start(a + 1) \in Int
        BY <3>2, StartOfNext
      <4>. QED
        BY <3>1, <4>1
    <3>. QED
      BY <1>4, <3>4, <3>5, <3>6
  <2>. QED
    BY <2>1, <2>2
<1>. QED
  BY <1>3, <1>4

\* The loops find packets only, but for the last one of flush().
LEMMA TurnAtStart ==
  ASSUME PInv, Input, unit = stream.unit, Sync(curr) => IsStart(curr), PacketAt # tail
  PROVE  IsStart(PacketAt) /\ \E k \in Nat : PacketAt = Start(k)
<1>1. unit \in Nat \ {0} /\ curr \in Nat /\ tail \in Nat
  BY PTypes, InputTypes
<1>2. CASE PacketAt = curr /\ InSync(curr)
  <2>1. IsStart(curr) /\ curr \in Int
    BY <1>1, <1>2 DEF InSync
  <2>. QED
    BY <1>2, <2>1, StartOfNumber
<1>3. CASE PacketAt = Resync(curr)
  <2>1. PICK s \in Nat : s = Resync(curr)
    BY <1>1, <1>3, ResyncBounds
  <2>2. \A i \in 0 .. Run - 1 : Sync(s + unit * i)
    BY <1>1, <1>3, <2>1, ResyncFirst
  <2>3. 0 \in 0 .. Run - 1 /\ 1 .. Run - 1 \subseteq 0 .. Run - 1
    <3>1. Run \in 2 .. MinCount /\ MinCount \in Nat
      BY StreamAssumption
    <3>. QED
      BY <3>1
  <2>4. s + unit * 0 = s /\ s \in Int
    BY <1>1
  <2>5. IsStart(s)
    BY <2>2, <2>3, <2>4, FalseSync
  <2>. QED
    BY <1>3, <2>1, <2>4, <2>5, StartOfNumber
<1>. QED
  BY <1>2, <1>3 DEF PacketAt

\* What the first loops pass over on the way to a packet is excused.
LEMMA SkippedByProc ==
  ASSUME PInv, Input, unit = stream.unit, pc = "proc", Anchored(curr), PacketAt # tail,
         NEW k \in Nat, curr <= Start(k), Start(k) < PacketAt, NEW sent
  PROVE  ExcusedBy(k, sent)
<1>1. /\ unit \in Nat \ {0} /\ curr \in Nat /\ tail \in Nat /\ tail <= stream.length
      /\ Start(k) \in Nat /\ stream.length \in Nat
  BY PTypes, InputTypes, StartOfNext DEF PInv
<1>2. PacketAt = Resync(curr) /\ ~InSync(curr) /\ curr + unit < tail
  BY <1>1 DEF PacketAt
<1>3. SUFFICES ASSUME k \notin Faults, k + 1 \notin stream.damaged
               PROVE  \E i \in Faults \cup Beginning, j \in stream.damaged :
                        i < k /\ k < j /\ j - i <= Run
  BY DEF ExcusedBy
<1>4. \/ \E a \in Nat : curr = Start(a) /\ (a \in stream.damaged \/ a + 1 \in stream.damaged)
      \/ \E i \in Faults \cup Beginning : Behind(i, curr)
  <2>1. ASSUME IsStart(curr)
        PROVE  \E a \in Nat : curr = Start(a) /\ (a \in stream.damaged \/ a + 1 \in stream.damaged)
    <3>1. curr \in Int
      BY <1>1
    <3>2. PICK a \in Nat : curr = Start(a)
      BY <2>1, <3>1, StartOfNumber
    <3>3. a + 1 \in Nat /\ Start(a + 1) = curr + unit
      <4>1. a \in Int
        OBVIOUS
      <4>. QED
        BY <3>2, <4>1, StartOfNext
    <3>4. Start(a) < stream.length /\ Start(a + 1) < stream.length
      BY <1>1, <1>2, <3>2, <3>3
    <3>5. ~Sync(Start(a)) \/ ~Sync(Start(a + 1))
      BY <1>2, <3>2, <3>3 DEF InSync
    <3>. QED
      BY <3>2, <3>3, <3>4, <3>5, SyncAtStart
  <2>. QED
    BY <2>1 DEF Anchored
<1>5. ASSUME NEW m \in Nat, curr <= Start(m), m <= k
      PROVE  \E j \in stream.damaged : m <= j /\ j < m + Run
  <2>1. Start(m) <= Start(k) /\ Start(m) \in Int
    <3>1. m \in Int /\ k \in Int
      OBVIOUS
    <3>. QED
      BY <1>5, <3>1, BehindStart, StartOfNext
  <2>2. Resync(curr) \in Nat
    BY <1>1, <1>2, ResyncBounds
  <2>3. Start(m) < Resync(curr)
    BY <1>1, <1>2, <2>1, <2>2
  <2>. QED
    BY <1>1, <1>2, <1>5, <2>3, ResyncSkips
<1>. QED
  BY <1>1, <1>3, <1>4, <1>5, ExcusedBehind

\* Where they end, damaged packets stand too close for resync().
LEMMA DenseBehindProc ==
  ASSUME PInv, Input, unit = stream.unit, pc = "proc", PacketAt = tail
  PROVE  Dense(curr)
<1>1. /\ unit \in Nat \ {0} /\ curr \in Nat /\ tail \in Nat /\ tail <= stream.length
      /\ stream.length \in Nat
  BY PTypes, InputTypes DEF PInv
<1>2. SUFFICES ASSUME NEW k \in 0 .. stream.length, curr <= Start(k), Start(k) + unit * Run <= tail
               PROVE  \E j \in stream.damaged : k <= j /\ j < k + Run
  BY DEF Dense
<1>3. k \in Nat /\ Start(k) \in Nat
  <2>1. k \in Nat /\ k \in Int /\ k >= 0
    BY <1>1
  <2>. QED
    BY <2>1, StartOfNext
<1>4. unit * Run \in Nat /\ unit * Run >= 2 * unit
  <2>1. Run \in Nat /\ Run >= 2
    <3>1. Run \in 2 .. MinCount /\ MinCount \in Nat
      BY StreamAssumption
    <3>. QED
      BY <3>1
  <2>. QED
    BY <1>1, <2>1, SMTT(20)
<1>5. curr + unit < tail
  BY <1>1, <1>2, <1>3, <1>4
<1>6. Resync(curr) = tail
  BY <1>1, <1>5 DEF PacketAt
<1>. QED
  BY <1>1, <1>2, <1>3, <1>4, <1>6, ResyncSkips

\* Flushing, a packet that resync_force() passes over is damaged, or a damaged
\* one in reach of resync() is behind it.
LEMMA PassedByForce ==
  ASSUME Input, unit = stream.unit, unit \in Nat \ {0}, tail = stream.length, tail \in Nat,
         NEW c \in Nat, Dense(c), NEW k \in Packets, c <= Start(k), Start(k) < ResyncForce(c),
         k \notin stream.damaged
  PROVE  /\ Start(k) + unit <= tail
         /\ \/ Start(k) + unit * Run <= tail
            \/ \E j \in stream.damaged : k <= j /\ j < k + Run /\ Start(j) + unit <= tail
<1>1. /\ k \in 0 .. stream.length /\ k \in Nat /\ Start(k) \in Nat /\ Start(k) + P <= tail
      /\ Run \in Nat /\ Run >= 2 /\ P \in Nat /\ P > 0
  <2>1. k \in 0 .. stream.length /\ Start(k) + P <= tail
    BY DEF Packets
  <2>2. k \in Nat /\ k \in Int /\ k >= 0
    BY <2>1, InputTypes
  <2>3. Run \in 2 .. MinCount /\ MinCount \in Nat
    BY StreamAssumption
  <2>. QED
    BY <2>1, <2>2, <2>3, StartOfNext, StreamTypes
<1>2. CASE Start(k) + unit * Run <= tail
  <2>1. unit * Run \in Nat /\ unit * Run >= unit
    BY <1>1, SMTT(20)
  <2>. QED
    BY <1>1, <1>2, <2>1
<1>3. CASE ~(Start(k) + unit * Run <= tail)
  <2>1. Sync(Start(k))
    BY <1>1, SyncAtStart
  <2>2. PICK i \in 1 .. ((tail - Start(k)) \div unit) - 1 : ~Sync(Start(k) + unit * i)
    BY <1>1, <2>1, ResyncForceFirst
  <2>3. PICK d \in Nat : d = tail - Start(k)
    BY <1>1
  <2>4. i \in Nat /\ i + 1 <= d \div unit /\ d \div unit \in Nat
    BY <2>2, <2>3
  <2>5. unit * i \in Nat /\ unit * i + unit <= d
    <3>1. unit * (d \div unit) <= d
      BY SMTT(20)
    <3>2. \A x, y \in Nat : \A u \in Nat \ {0} : x + 1 <= y => u * x \in Nat /\ u * x + u <= u * y
      BY SMTT(20)
    <3>3. unit * i + unit <= unit * (d \div unit) /\ unit * i \in Nat
      BY <2>4, <3>2
    <3>4. unit * (d \div unit) \in Nat
      BY <2>4
    <3>. QED
      BY <3>1, <3>3, <3>4
  <2>6. Start(k) + unit * i < tail /\ Start(k) + unit * i + unit <= tail
    BY <1>1, <2>3, <2>5
  <2>7. k + i \in stream.damaged /\ Start(k + i) = Start(k) + unit * i
    BY <1>1, <2>2, <2>4, <2>6, DamagedBehind
  <2>8. i < Run
    <3>1. \A x, y \in Nat : \A u \in Nat \ {0} : u * x + u <= u * y \/ y <= x
      BY SMTT(20)
    <3>2. unit * Run \in Nat
      BY <1>1
    <3>3. unit * i < unit * Run
      BY <1>1, <1>3, <2>5, <2>6, <3>2
    <3>4. ~(Run <= i)
      <4>1. Run <= i => unit * Run <= unit * i
        BY <1>1, <2>4, SMTT(20)
      <4>. QED
        BY <2>5, <3>2, <3>3, <4>1
    <3>. QED
      BY <1>1, <2>4, <3>4
  <2>. QED
    BY <1>1, <2>4, <2>5, <2>6, <2>7, <2>8
<1>. QED
  BY <1>2, <1>3

\* What the last loop of flush() passes over on the way to a packet is excused.
LEMMA SkippedByDrain ==
  ASSUME PInv, Input, unit = stream.unit, tail = stream.length, Anchored(curr), Dense(curr),
         curr + P <= tail, ~Sync(curr),
         NEW k \in Packets, curr <= Start(k), Start(k) < ResyncForce(curr), NEW sent
  PROVE  ExcusedBy(k, sent)
<1>1. /\ unit \in Nat \ {0} /\ curr \in Nat /\ tail \in Nat /\ P \in Nat /\ P > 0
  BY PTypes, InputTypes, StreamTypes
<1>2. /\ k \in 0 .. stream.length /\ k \in Nat /\ k \in Int /\ Start(k) \in Nat
      /\ Run \in Nat
  <2>1. k \in 0 .. stream.length
    BY DEF Packets
  <2>2. k \in Nat /\ k \in Int /\ k >= 0
    BY <2>1, InputTypes
  <2>. QED
    BY <2>1, <2>2, StartOfNext, StreamAssumption
<1>3. SUFFICES ASSUME k \notin Faults, k + 1 \notin stream.damaged
               PROVE  \E i \in Faults \cup Beginning, j \in stream.damaged :
                        i < k /\ k < j /\ j - i <= Run
  BY DEF ExcusedBy
<1>4. /\ Start(k) + unit <= tail
      /\ \/ Start(k) + unit * Run <= tail
         \/ \E j \in stream.damaged : k <= j /\ j < k + Run /\ Start(j) + unit <= tail
  BY <1>1, <1>3, PassedByForce DEF Faults
<1>5. \/ \E a \in Nat : curr = Start(a) /\ (a \in stream.damaged \/ a + 1 \in stream.damaged)
      \/ \E i \in Faults \cup Beginning : Behind(i, curr)
  <2>1. ASSUME IsStart(curr)
        PROVE  \E a \in Nat : curr = Start(a) /\ (a \in stream.damaged \/ a + 1 \in stream.damaged)
    <3>1. curr \in Int
      BY <1>1
    <3>2. PICK a \in Nat : curr = Start(a)
      BY <2>1, <3>1, StartOfNumber
    <3>3. a \in stream.damaged
      BY <1>1, <3>2, SyncAtStart
    <3>. QED
      BY <3>2, <3>3
  <2>2. ~(curr + unit > tail)
    BY <1>1, <1>2, <1>4
  <2>. QED
    BY <2>1, <2>2 DEF Anchored
<1>6. ASSUME NEW m \in Nat, curr <= Start(m), m <= k
      PROVE  \E j \in stream.damaged : m <= j /\ j < m + Run
  <2>1. Start(m) <= Start(k) /\ Start(m) \in Int
    <3>1. m \in Int /\ k \in Int
      BY <1>2
    <3>. QED
      BY <1>6, <3>1, BehindStart, StartOfNext
  <2>2. CASE Start(m) + unit * Run <= tail
    <3>1. m \in 0 .. stream.length
      BY <1>1, <1>2, <1>6
    <3>. QED
      BY <1>6, <2>2, <3>1 DEF Dense
  <2>3. CASE ~(Start(m) + unit * Run <= tail)
    <3>1. PICK r \in Nat : r = unit * Run
      BY <1>1, <1>2
    <3>2. ~(Start(k) + unit * Run <= tail)
      BY <1>1, <1>2, <2>1, <2>3, <3>1
    <3>3. PICK j \in stream.damaged : k <= j /\ j < k + Run /\ Start(j) + unit <= tail
      BY <1>4, <3>2
    <3>4. j \in Int /\ m + Run \in Int /\ Start(j) \in Int /\ Start(m + Run) \in Int
      <4>1. j \in Int /\ m + Run \in Int
        BY <1>2, InputTypes
      <4>. QED
        BY <4>1, StartOfNext
    <3>5. Start(m + Run) = Start(m) + unit * Run
      <4>1. PICK u \in Nat, f \in Nat : u = stream.unit /\ f = stream.first
        BY InputTypes
      <4>2. f + (m + Run) * u = (f + m * u) + u * Run
        BY <1>2
      <4>. QED
        BY <4>1, <4>2 DEF Start
    <3>6. Start(j) < Start(m + Run)
      BY <1>1, <2>1, <2>3, <3>1, <3>3, <3>4, <3>5
    <3>7. j < m + Run
      BY <3>4, <3>6, BehindStart
    <3>8. m <= j
      BY <1>2, <1>6, <3>3, <3>4
    <3>. QED
      BY <3>7, <3>8
  <2>. QED
    BY <2>2, <2>3
<1>. QED
  BY <1>1, <1>2, <1>3, <1>5, <1>6, ExcusedBehind

\* It takes a false sync byte for a packet only near the end and behind a fault.
LEMMA TakenByDrain ==
  ASSUME PInv, Input, unit = stream.unit, tail = stream.length, Anchored(curr), Dense(curr),
         Sync(curr) => IsStart(curr), SeenEnough, DrainAt # tail, ~IsStart(DrainAt)
  PROVE  /\ DrainAt + 2 * unit > tail /\ Sync(DrainAt)
         /\ \E i \in Faults : Start(i) < DrainAt
<1>1. /\ unit \in Nat \ {0} /\ curr \in Nat /\ tail \in Nat /\ P \in Nat /\ P > 0
  BY PTypes, InputTypes, StreamTypes
<1>2. curr + P <= tail /\ ~Sync(curr) /\ DrainAt = ResyncForce(curr)
  BY <1>1 DEF DrainAt
<1>3. PICK s \in Nat : s = DrainAt /\ curr <= s /\ s + P <= tail
  BY <1>1, DrainAtBounds
<1>4. Sync(s) /\ \A i \in 1 .. ((tail - s) \div unit) - 1 : Sync(s + unit * i)
  BY <1>1, <1>2, <1>3, ResyncForceFirst
<1>5. s \in Int /\ ~IsStart(s) /\ curr # s /\ curr < s
  BY <1>1, <1>2, <1>3, <1>4
<1>6. ~Sync(s + unit) \/ (tail - s) \div unit < 2
  <2>1. CASE s + unit * Run > tail
    BY <1>4, <1>5, <2>1, FalseSync
  <2>2. CASE ~(s + unit * Run > tail)
    <3>1. PICK i \in 1 .. Run - 1 : ~Sync(s + unit * i)
      BY <1>4, <1>5, FalseSync
    <3>2. Run \in Nat /\ i \in Nat /\ i < Run /\ i >= 1
      <4>1. Run \in Nat
        BY StreamAssumption
      <4>. QED
        BY <4>1
    <3>3. PICK d \in Nat : d = tail - s
      BY <1>1, <1>3
    <3>4. PICK r \in Nat : r = unit * Run
      BY <1>1, <3>2
    <3>5. r <= d
      BY <1>1, <1>3, <2>2, <3>3, <3>4
    <3>6. Run <= d \div unit /\ d \div unit \in Nat
      <4>1. \A x, y \in Nat : \A u \in Nat \ {0} : u * x <= y => x <= y \div u /\ y \div u \in Nat
        BY SMTT(20)
      <4>. QED
        BY <1>1, <3>2, <3>4, <3>5, <4>1
    <3>7. i \in 1 .. (d \div unit) - 1
      BY <3>2, <3>6
    <3>. QED
      BY <1>4, <3>1, <3>3, <3>7
  <2>. QED
    BY <2>1, <2>2
<1>7. s + 2 * unit > tail
  <2>1. unit * 1 = unit
    BY <1>1
  <2>2. 1 \notin 1 .. ((tail - s) \div unit) - 1 \/ (tail - s) \div unit < 2
    BY <1>4, <1>6, <2>1
  <2>3. PICK d \in Nat : d = tail - s
    BY <1>1, <1>3
  <2>4. PICK q \in Nat : q = d \div unit /\ d < unit * q + unit
    <3>1. d \div unit \in Nat /\ d < unit * (d \div unit) + unit
      BY <1>1, SMTT(20)
    <3>. QED
      BY <3>1
  <2>5. q = 0 \/ q = 1
    BY <2>2, <2>3, <2>4
  <2>6. d < 2 * unit
    BY <1>1, <2>4, <2>5
  <2>. QED
    BY <1>1, <1>3, <2>3, <2>6
<1>8. \E i \in Faults : Start(i) < s
  <2>1. CASE IsStart(curr)
    <3>1. curr \in Int
      BY <1>1
    <3>2. PICK a \in Nat : curr = Start(a)
      BY <2>1, <3>1, StartOfNumber
    <3>3. a \in stream.damaged
      BY <1>1, <1>2, <3>2, SyncAtStart
    <3>. QED
      BY <1>5, <3>2, <3>3 DEF Faults
  <2>2. CASE \E i \in Faults : Start(i) < curr
    <3>1. PICK i \in Faults : Start(i) < curr
      BY <2>2
    <3>2. i \in Int
      BY InputTypes DEF Faults
    <3>3. Start(i) \in Int
      BY <3>2, StartOfNext
    <3>. QED
      BY <1>1, <1>5, <3>1, <3>3
  <2>3. CASE \E i \in Beginning : Behind(i, curr)
    <3>1. curr <= Start(0)
      BY <2>3 DEF Beginning, Behind
    <3>2. unit # 0 /\ MinCount \in Nat /\ Run \in Nat /\ Run <= MinCount /\ MinCount - 1 \in Int
      <4>1. Run \in 2 .. MinCount /\ MinCount \in Nat
        BY StreamAssumption
      <4>. QED
        BY <1>1, <4>1
    <3>3. tail > Start(MinCount) /\ ((\E j \in stream.damaged : j < MinCount) => tail > Start(MinCount + 1))
      BY <3>2 DEF SeenEnough
    <3>4. PICK u \in Nat \ {0}, f \in Nat : u = stream.unit /\ f = stream.first
      BY InputTypes
    <3>5. Start(0) = f /\ f + u * Run <= tail
      <4>1. Start(0) = f + 0 * u /\ Start(MinCount) = f + MinCount * u
        BY <3>4 DEF Start
      <4>2. MinCount * u \in Nat /\ u * Run \in Nat /\ u * Run <= MinCount * u
        BY <3>2, SMTT(20)
      <4>. QED
        BY <1>1, <3>3, <4>1, <4>2
    <3>6. 0 \in 0 .. stream.length
      BY InputTypes
    <3>7. PICK j \in stream.damaged : 0 <= j /\ j < 0 + Run
      BY <3>1, <3>4, <3>5, <3>6 DEF Dense
    <3>8. j \in Int /\ j <= MinCount - 1 /\ j < MinCount
      BY <3>2, <3>7, InputTypes
    <3>9. tail > Start(MinCount + 1)
      BY <3>3, <3>8
    <3>10. Start(MinCount - 1) + 2 * u = Start(MinCount + 1)
      <4>1. (MinCount - 1) * u + 2 * u = (MinCount + 1) * u
        BY <3>2
      <4>. QED
        BY <3>2, <3>4, <4>1 DEF Start
    <3>11. Start(j) <= Start(MinCount - 1) /\ Start(j) \in Int /\ Start(MinCount - 1) \in Int
      <4>1. PICK l \in Int : l = MinCount - 1
        BY <3>2
      <4>2. Start(j) <= Start(l) /\ Start(j) \in Int /\ Start(l) \in Int
        BY <3>8, <4>1, BehindStart, StartOfNext
      <4>. QED
        BY <4>1, <4>2
    <3>12. Start(j) < s
      BY <1>1, <1>7, <3>4, <3>9, <3>10, <3>11
    <3>. QED
      BY <3>7, <3>12 DEF Faults
  <2>. QED
    BY <2>1, <2>2, <2>3 DEF Anchored, Behind
<1>. QED
  BY <1>3, <1>4, <1>7, <1>8

----------------------------------------------------------------------------
\* The input stays what it is.
LEMMA SameInput ==
  ASSUME stream' = stream
  PROVE  /\ Input' <=> Input
         /\ Packets' = Packets /\ Faults' = Faults /\ Beginning' = Beginning
         /\ \A k : Start(k)' = Start(k)
         /\ \A s : (IsStart(s)' <=> IsStart(s)) /\ (Sync(s)' <=> Sync(s))
BY DEF Input, Packets, Faults, Beginning, Start, IsStart, Sync

LEMMA ExcusedStays ==
  ASSUME stream' = stream, unit' = unit, NEW k, NEW sent, NEW more, sent \subseteq more,
         ExcusedBy(k, sent)
  PROVE  ExcusedBy(k, more)'
<1>1. Faults' = Faults /\ Beginning' = Beginning /\ Start(k)' = Start(k)
  BY SameInput
<1>2. \A s : IsStart(s)' <=> IsStart(s)
  BY SameInput
<1>. QED
  BY <1>1, <1>2 DEF ExcusedBy

LEMMA KeptStays ==
  ASSUME stream' = stream, unit' = unit, pending \cup written \subseteq pending' \cup written',
         NEW k, Kept(k)
  PROVE  Kept(k)'
<1>1. Start(k)' = Start(k)
  BY SameInput
<1>2. CASE Start(k) \in pending \cup written
  BY <1>1, <1>2 DEF Kept
<1>3. CASE ExcusedBy(k, pending \cup written)
  <2>1. PICK more : more = pending' \cup written'
    OBVIOUS
  <2>2. ExcusedBy(k, more)'
    BY <1>3, <2>1, ExcusedStays
  <2>3. ExcusedBy(k, pending \cup written)'
    BY <2>1, <2>2 DEF ExcusedBy
  <2>. QED
    BY <2>3 DEF Kept
<1>. QED
  BY <1>2, <1>3 DEF Kept

\* A step that leaves the next packet and what was sent alone.
LEMMA QuietKeeps ==
  ASSUME PInv, RInv, stream' = stream, unit' = unit, tail \in Nat, tail' \in Nat, tail <= tail',
         Front' = Front, pending' \cup written' = pending \cup written,
         ~Ended, pc # "drain", pc' # "drain", ~(pc' = "get" /\ flushing'),
         flushing' => tail' = stream.length,
         code' # "running" => pc' = "done", code' \notin {"non_ts", "ok"}
  PROVE  RInv'
<1>1. Input /\ UnitRight /\ SeenEnough /\ FrontInSync /\ Anchored(Front) /\ Passed
  BY DEF RInv
<1>2. Input' /\ UnitRight'
  BY <1>1, SameInput DEF UnitRight
<1>3. SeenEnough'
  <2>1. Start(MinCount)' = Start(MinCount) /\ Start(MinCount + 1)' = Start(MinCount + 1)
    BY SameInput
  <2>2. Start(MinCount) \in Int /\ Start(MinCount + 1) \in Int
    <3>1. MinCount \in Int /\ MinCount + 1 \in Int
      BY StreamAssumption
    <3>. QED
      BY <1>1, <3>1, StartOfNext
  <2>. QED
    BY <1>1, <2>1, <2>2 DEF SeenEnough
<1>4. FrontInSync'
  <2>1. PICK c : c = Front /\ Front' = c
    OBVIOUS
  <2>2. (IsStart(c)' <=> IsStart(c)) /\ (Sync(c)' <=> Sync(c))
    BY SameInput
  <2>. QED
    BY <1>1, <2>1, <2>2 DEF FrontInSync, IsStart, Sync
<1>5. Anchored(Front)'
  <2>1. PICK c : c = Front /\ Front' = c
    OBVIOUS
  <2>2. IsStart(c) \/ \E i \in Faults \cup Beginning : Behind(i, c)
    BY <1>1, <2>1 DEF Anchored
  <2>3. Faults' = Faults /\ Beginning' = Beginning
    BY SameInput
  <2>4. Anchored(c)'
    BY <2>2, <2>3 DEF Anchored, IsStart, Behind, Start
  <2>. QED
    BY <2>1, <2>4 DEF Anchored, IsStart, Behind
<1>6. Passed'
  <2>1. ASSUME NEW k \in Packets, Start(k) < Front
        PROVE  Kept(k)'
    BY <1>1, <2>1, KeptStays DEF Passed
  <2>2. Packets' = Packets /\ \A k : Start(k)' = Start(k)
    BY SameInput
  <2>. QED
    BY <2>1, <2>2 DEF Passed
<1>7. NothingLost'
  BY DEF NothingLost
<1>8. (flushing => tail = stream.length)'
  OBVIOUS
<1>. QED
  BY <1>2, <1>3, <1>4, <1>5, <1>6, <1>7, <1>8 DEF RInv

\* A turn: what was passed over is excused, and what is looked for next stands
\* with a packet or behind a fault.
LEMMA TurnExcuses ==
  ASSUME PInv, RInv, pc \in {"proc", "drain"}, unit # 0,
         NEW s \in Nat, curr <= s, Turn(s),
         UNCHANGED <<stream, unit, sbuf, offset, stage, pc, flushing, written, code>>,
         \A k \in Packets : curr <= Start(k) /\ Start(k) < s => ExcusedBy(k, pending \cup written),
         ~IsStart(s) => /\ pc = "drain" /\ s + 2 * unit > tail /\ Sync(s)
                        /\ \E i \in Faults : Start(i) < s
  PROVE  RInv'
<1>1. /\ Input /\ UnitRight /\ SeenEnough /\ Passed /\ unit = stream.unit
      /\ code = "running" /\ Front = curr
      /\ pc = "drain" => Dense(curr)
  BY DEF RInv, UnitRight, Ended, Front
<1>2. /\ stream' = stream /\ unit' = unit /\ pc' = pc /\ tail' = tail /\ code' = code
      /\ flushing' = flushing /\ written' = written /\ Front' = curr'
  BY DEF sbuf, Front
<1>3. curr \in Nat /\ tail \in Nat /\ unit \in Nat \ {0} /\ stream.length \in Nat
  BY <1>1, PTypes, InputTypes
<1>4. /\ Input' /\ Packets' = Packets /\ Faults' = Faults /\ Beginning' = Beginning
      /\ \A k : Start(k)' = Start(k)
      /\ \A t : (IsStart(t)' <=> IsStart(t)) /\ (Sync(t)' <=> Sync(t))
  BY <1>1, <1>2, SameInput
<1>5. ASSUME NEW k \in Packets
      PROVE  k \in Nat /\ k \in Int /\ Start(k) \in Int
  <2>1. k \in Nat /\ k \in Int
    BY <1>3 DEF Packets
  <2>. QED
    BY <1>1, <2>1, StartOfNext
<1>6. pending \cup written \subseteq pending' \cup written'
  BY <1>2 DEF Turn
<1>7. ASSUME NEW k \in Packets, Start(k) < s
      PROVE  Kept(k)'
  <2>1. Kept(k)
    <3>1. CASE Start(k) < curr
      BY <1>1, <3>1 DEF Passed
    <3>2. CASE curr <= Start(k)
      BY <1>7, <3>2 DEF Kept
    <3>. QED
      BY <1>3, <1>5, <3>1, <3>2
  <2>. QED
    BY <1>2, <1>6, <2>1, KeptStays
<1>8. /\ curr' \in Nat /\ s < curr'
      /\ Sync(curr') => IsStart(curr')
      /\ \/ IsStart(curr')
         \/ \E i \in Faults \cup Beginning : Behind(i, curr')
         \/ pc = "drain" /\ curr' + unit > tail /\ \E i \in Faults : Start(i) < curr'
      /\ \A k \in Packets : s <= Start(k) /\ Start(k) < curr' => Kept(k)'
  <2>0. s \in Int
    OBVIOUS
  <2>1. CASE Broken(s)
    <3>1. curr' = s + 1
      BY <2>1 DEF Turn
    <3>2. IsStart(s) /\ Number(s) \in Faults /\ ~Sync(s + 1)
      BY <1>1, <2>0, <2>1, NoSyncBehindBroken
    <3>3. PICK n \in Nat : n = Number(s) /\ s = Start(n)
      BY <1>1, <2>0, <3>2, StartOfNumber
    <3>4. n \in Int
      OBVIOUS
    <3>5. Behind(n, s + 1)
      <4>1. Start(n) < Start(n + 1) /\ Start(n + 1) \in Int
        BY <1>1, <3>4, StartOfNext
      <4>. QED
        BY <3>3, <4>1 DEF Behind
    <3>6. ASSUME NEW k \in Packets, s <= Start(k), Start(k) < s + 1
          PROVE  Kept(k)'
      <4>1. Start(k) = Start(n)
        BY <1>5, <3>3, <3>6
      <4>2. k = n
        BY <1>1, <1>5, <4>1, StartIsStart
      <4>. QED
        BY <1>4, <3>2, <3>3, <4>2 DEF Kept, ExcusedBy
    <3>. QED
      BY <3>1, <3>2, <3>3, <3>5, <3>6
  <2>2. CASE ~Broken(s) /\ IsStart(s)
    <3>1. curr' = s + unit /\ s \in pending'
      BY <2>2 DEF Turn
    <3>2. PICK n \in Int : n >= 0 /\ n + 1 \in Nat /\ s = Start(n)
      BY <1>1, <2>0, <2>2, StartOfNumber
    <3>3. s + unit = Start(n + 1)
      BY <1>1, <3>2, StartOfNext
    <3>4. IsStart(s + unit)
      BY <1>1, <3>2, <3>3, StartIsStart
    <3>5. ASSUME NEW k \in Packets, s <= Start(k), Start(k) < s + unit
          PROVE  Kept(k)'
      <4>1. n + 1 \in Int /\ n <= k
        BY <1>1, <1>5, <3>2, <3>5, BehindStart
      <4>2. k < n + 1
        <5>1. PICK m \in Int : m = n + 1
          BY <4>1
        <5>2. Start(k) < Start(m) => k < m
          BY <1>1, <1>5, BehindStart
        <5>. QED
          BY <3>3, <3>5, <5>1, <5>2
      <4>3. k = n
        BY <1>5, <3>2, <4>1, <4>2
      <4>. QED
        BY <1>4, <3>1, <3>2, <4>3 DEF Kept
    <3>. QED
      BY <1>3, <3>1, <3>4, <3>5
  <2>3. CASE ~Broken(s) /\ ~IsStart(s)
    <3>1. curr' = s + unit /\ s \in pending'
      BY <2>3 DEF Turn
    <3>2. ~Sync(s + unit)
      <4>1. tail = stream.length
        BY <2>3 DEF RInv, PInv, CursorRight
      <4>2. Run \in Nat /\ Run >= 2
        <5>1. Run \in 2 .. MinCount /\ MinCount \in Nat
          BY StreamAssumption
        <5>. QED
          BY <5>1
      <4>3. PICK r \in Nat : r = unit * Run /\ r >= 2 * unit
        <5>1. unit * Run >= 2 * unit /\ unit * Run \in Nat
          BY <1>3, <4>2, SMTT(20)
        <5>. QED
          BY <5>1
      <4>4. s + unit * Run > stream.length
        BY <1>3, <2>3, <4>1, <4>3
      <4>. QED
        BY <1>1, <2>0, <2>3, <4>4, FalseSync
    <3>3. s + unit + unit > tail
      BY <1>3, <2>3
    <3>4. PICK i \in Faults : Start(i) < s
      BY <2>3
    <3>5. Start(i) < s + unit
      <4>1. i \in Int
        BY <1>1, InputTypes DEF Faults
      <4>2. Start(i) \in Int
        BY <1>1, <4>1, StartOfNext
      <4>. QED
        BY <1>3, <3>4, <4>2
    <3>6. ASSUME NEW k \in Packets, Start(k) < s + unit
          PROVE  Kept(k)'
      <4>1. s \in pending' \cup written' /\ ~IsStart(s)' /\ Start(k)' < s + unit'
        BY <1>2, <1>4, <2>3, <3>1, <3>6
      <4>. QED
        BY <4>1 DEF Kept, ExcusedBy
    <3>. QED
      BY <1>3, <2>3, <3>1, <3>2, <3>3, <3>4, <3>5, <3>6
  <2>. QED
    BY <2>1, <2>2, <2>3
<1>9. PICK c \in Nat : c = curr'
  BY <1>8
<1>10. FrontInSync'
  <2>1. Sync(c)' => IsStart(c)'
    BY <1>4, <1>8, <1>9
  <2>. QED
    BY <1>2, <1>9, <2>1 DEF FrontInSync, Sync, IsStart
<1>11. Anchored(Front)'
  <2>1. Anchored(c)'
    BY <1>2, <1>4, <1>8, <1>9 DEF Anchored, IsStart, Behind, Start
  <2>. QED
    BY <1>2, <1>9, <2>1 DEF Anchored, IsStart, Behind
<1>12. Passed'
  <2>1. ASSUME NEW k \in Packets, Start(k) < c
        PROVE  Kept(k)'
    BY <1>5, <1>7, <1>8, <1>9, <2>1
  <2>. QED
    BY <1>2, <1>4, <1>9, <2>1 DEF Passed
<1>13. pc' = "drain" => Dense(curr)'
  <2>1. SUFFICES ASSUME pc = "drain", NEW k \in 0 .. stream.length,
                        c <= Start(k), Start(k) + unit * Run <= tail
                 PROVE  \E j \in stream.damaged : k <= j /\ j < k + Run
    BY <1>2, <1>4, <1>9 DEF Dense
  <2>2. k \in Int /\ Start(k) \in Int
    <3>1. k \in Int
      BY <1>3
    <3>. QED
      BY <1>1, <3>1, StartOfNext
  <2>3. curr <= Start(k)
    BY <1>3, <1>8, <1>9, <2>1, <2>2
  <2>. QED
    BY <1>1, <2>1, <2>3 DEF Dense
<1>14. UnitRight' /\ SeenEnough' /\ NothingLost'
  BY <1>1, <1>2, <1>4 DEF UnitRight, SeenEnough, NothingLost
<1>15. (code # "running" => pc = "done")' /\ (flushing => tail = stream.length)'
       /\ (pc = "get" /\ flushing => \A k \in Packets : Kept(k))'
  BY <1>1, <1>2 DEF RInv
<1>. QED
  BY <1>4, <1>10, <1>11, <1>12, <1>13, <1>14, <1>15 DEF RInv

LEMMA UnitKnown ==
  ASSUME PInv, RInv
  PROVE  /\ Input /\ tail \in Nat /\ tail <= stream.length /\ head \in Nat /\ curr \in Nat
         /\ unit # 0 => unit = stream.unit
         /\ pc \in {"scan", "proc", "drain", "get"} => unit # 0
BY PTypes DEF PInv, RInv, UnitRight, UnitUnknown

\* What put() and flush() do in front of the loops, and the look-ahead, leaves
\* the next packet alone.
LEMMA PutQuiet ==
  ASSUME PInv, RInv, NEW chunk \in Chunks, Put(chunk) \/ PutFails(chunk)
  PROVE  RInv'
<1>1. pc = "read" /\ tail < stream.length /\ code = "running" /\ ~flushing
  <2>1. pc = "read" /\ tail < stream.length
    BY DEF Put, PutFails
  <2>. QED
    BY <2>1, UnitKnown, InputTypes DEF RInv
<1>2. CASE Put(chunk)
  <2>1. /\ Append(Min({chunk, stream.length - tail}))
        /\ IF unit = 0 THEN pc' = "select" /\ UNCHANGED curr ELSE Enter(head, stage)
        /\ UNCHANGED <<stream, unit, head, offset, stage, flushing, pending, written, code>>
    BY <1>2 DEF Put
  <2>2. PICK n \in Nat : tail' = tail + n
    <3>1. Min({chunk, stream.length - tail}) \in 1 .. ReadLimit
      BY <1>1, UnitKnown, InputTypes, PieceBounds
    <3>. QED
      BY <2>1, <3>1, StreamTypes DEF Append
  <2>3. pc' \in {"select", "scan", "proc"} /\ (pc' = "proc" => curr' = head)
    BY <2>1 DEF Enter
  <2>4. Front' = Front
    BY <1>1, <2>1, <2>3 DEF Front
  <2>. QED
    BY <1>1, <2>1, <2>2, <2>3, <2>4, UnitKnown, QuietKeeps DEF Ended
<1>3. CASE PutFails(chunk)
  <2>1. /\ pc' = "done" /\ code' = "no_memory" /\ tail' = tail /\ head' = head
        /\ UNCHANGED <<stream, unit, offset, stage, curr, flushing, pending, written>>
    BY <1>3 DEF PutFails, Stop, sbuf
  <2>2. Front' = Front
    BY <1>1, <2>1 DEF Front
  <2>. QED
    BY <1>1, <2>1, <2>2, UnitKnown, QuietKeeps DEF Ended
<1>. QED
  BY <1>2, <1>3

LEMMA FlushQuiet ==
  ASSUME PInv, RInv, Flush
  PROVE  RInv'
<1>1. /\ pc = "read" /\ tail = stream.length /\ code = "running"
      /\ IF unit = 0 THEN pc' = "select" /\ UNCHANGED curr ELSE pc' = "proc" /\ curr' = head
      /\ tail' = tail /\ head' = head
      /\ UNCHANGED <<stream, unit, offset, stage, pending, written, code>>
  BY DEF Flush, sbuf, RInv
<1>2. Front' = Front
  BY <1>1 DEF Front
<1>. QED
  BY <1>1, <1>2, UnitKnown, QuietKeeps DEF Ended

LEMMA ScanQuiet ==
  ASSUME PInv, RInv, ScanTurn \/ ScanEnd
  PROVE  RInv'
<1>1. /\ pc = "scan" /\ code = "running" /\ ~flushing
      /\ tail' = tail /\ head' = head
      /\ UNCHANGED <<stream, unit, flushing, pending, written>>
  BY DEF ScanTurn, ScanEnd, sbuf, RInv, PInv, OffsetRight
<1>2. /\ pc' \in {"scan", "proc", "get", "done"} /\ (pc' = "proc" => curr' = head)
      /\ code' = code \/ (pc' = "done" /\ code' = "no_table")
  <2>1. CASE ScanTurn
    BY <1>1, <2>1 DEF ScanTurn
  <2>2. CASE ScanEnd
    BY <1>1, <2>2 DEF ScanEnd, Stop
  <2>. QED
    BY <2>1, <2>2
<1>3. Front' = Front
  BY <1>1, <1>2 DEF Front
<1>. QED
  BY <1>1, <1>2, <1>3, UnitKnown, QuietKeeps DEF Ended

\* select_unit_size() finds the unit of the input.
LEMMA SelectFinds ==
  ASSUME PInv, RInv, SelectUnitSize
  PROVE  RInv'
<1>1. /\ pc = "select" /\ unit = 0 /\ head = 0 /\ pending = {} /\ written = {}
      /\ unit' = UnitSize /\ code = "running"
      /\ IF unit' = 0 THEN Stop("non_ts") /\ UNCHANGED curr ELSE Enter(head, stage) /\ UNCHANGED code
      /\ tail' = tail /\ head' = head
      /\ UNCHANGED <<stream, offset, stage, flushing, pending, written>>
  BY DEF SelectUnitSize, sbuf, PInv, UnitUnknown, RInv
<1>2. Input /\ tail \in Nat /\ tail <= stream.length /\ head \in Nat /\ stream.length \in Nat
  BY UnitKnown, InputTypes
<1>3. /\ FrontInSync /\ Anchored(Front) /\ Front = 0 /\ (flushing => tail = stream.length)
  BY <1>1 DEF RInv, Ended, Front
<1>4. /\ pc' \in {"done", "scan", "proc"} /\ (pc' = "proc" => curr' = 0)
      /\ pc' = "done" => unit' = 0 /\ code' = "non_ts"
      /\ pc' # "done" => unit' # 0 /\ code' = "running"
      /\ Front' = 0
  BY <1>1 DEF Enter, Stop, Front
<1>5. /\ Input' /\ Packets' = Packets /\ Faults' = Faults /\ Beginning' = Beginning
      /\ \A k : Start(k)' = Start(k)
  BY <1>1, <1>2, SameInput
<1>6. UnitRight'
  <2>1. unit' \in {0, stream.unit}
    BY <1>1, <1>2, UnitSizeRight
  <2>2. unit' = 0 => \/ Cardinality(stream.damaged) > 1
                     \/ stream.damaged # {} /\ stream.first > 0
                     \/ tail - stream.first < (MinCount + Slack) * stream.unit
    <3>1. PICK d \in Nat : d = Cardinality(stream.damaged)
      BY <1>2, InputTypes, FS_CardinalityType
    <3>2. PICK f \in Nat : f = stream.first
      BY <1>2, InputTypes
    <3>3. PICK l \in Nat : l = (MinCount + Slack) * stream.unit
      BY <1>2, InputTypes, StreamAssumption
    <3>4. ~(/\ Cardinality(stream.damaged) <= 1 /\ (stream.damaged = {} \/ stream.first = 0)
            /\ tail - stream.first >= (MinCount + Slack) * stream.unit) \/ UnitSize # 0
      BY <1>1, <1>2, UnitFound
    <3>. QED
      BY <1>1, <1>2, <3>1, <3>2, <3>3, <3>4
  <2>3. code' = "non_ts" => unit' = 0
    BY <1>4
  <2>. QED
    BY <1>1, <2>1, <2>2, <2>3 DEF UnitRight
<1>7. SeenEnough'
  <2>1. UnitSize # 0 => /\ tail > Start(MinCount)
                        /\ (\E j \in stream.damaged : j < MinCount) => tail > Start(MinCount + 1)
    BY <1>1, <1>2, FoundBehind
  <2>. QED
    BY <1>1, <1>5, <2>1 DEF SeenEnough
<1>8. FrontInSync'
  BY <1>1, <1>3, <1>4 DEF FrontInSync, Sync, IsStart
<1>9. Anchored(Front)'
  <2>1. IsStart(0) \/ \E i \in Faults \cup Beginning : Behind(i, 0)
    BY <1>1, <1>3 DEF Anchored
  <2>2. Anchored(0)'
    BY <1>1, <1>5, <2>1 DEF Anchored, IsStart, Behind, Start
  <2>. QED
    BY <1>4, <2>2 DEF Anchored, IsStart, Behind
<1>10. Passed'
  <2>1. ASSUME NEW k \in Packets
        PROVE  ~(Start(k) < 0)
    <3>1. k \in Int /\ k >= 0
      BY <1>2, <2>1 DEF Packets
    <3>2. Start(k) \in Nat
      BY <1>2, <3>1, StartOfNext
    <3>. QED
      BY <3>2
  <2>. QED
    BY <1>4, <1>5, <2>1 DEF Passed
<1>11. NothingLost' /\ (code # "running" => pc = "done")' /\ (flushing => tail = stream.length)'
       /\ pc' # "drain" /\ pc' # "get"
  BY <1>1, <1>3, <1>4 DEF NothingLost
<1>. QED
  BY <1>5, <1>6, <1>7, <1>8, <1>9, <1>10, <1>11 DEF RInv

\* What PacketsInOrder says of where packets are found.
PacketsSent ==
  \A s \in pending' \ pending :
    \/ IsStart(s)
    \/ pc = "drain" /\ s + 2 * unit > tail /\ \E k \in Faults : Start(k) < s

\* The turns of the loops, and their ends.
LEMMA ProcTurnExcuses ==
  ASSUME PInv, RInv, ProcTurn
  PROVE  RInv' /\ PacketsSent
<1>1. /\ pc = "proc" /\ PacketAt # tail /\ Turn(PacketAt)
      /\ UNCHANGED <<stream, unit, sbuf, offset, stage, pc, flushing, written, code>>
  BY DEF ProcTurn
<1>2. Input /\ curr \in Nat /\ tail \in Nat /\ unit # 0 /\ unit = stream.unit /\ unit \in Nat \ {0}
  BY <1>1, UnitKnown, PTypes
<1>3. Anchored(curr) /\ (Sync(curr) => IsStart(curr))
  BY <1>1 DEF RInv, Ended, Front, FrontInSync
<1>4. PICK s \in Nat : s = PacketAt /\ curr <= s
  BY <1>1, <1>2, PacketAtBounds
<1>5. IsStart(s)
  BY <1>1, <1>2, <1>3, <1>4, TurnAtStart
<1>6. ASSUME NEW k \in Packets, curr <= Start(k), Start(k) < s
      PROVE  ExcusedBy(k, pending \cup written)
  <2>1. k \in Nat
    BY <1>2, InputTypes DEF Packets
  <2>. QED
    BY <1>1, <1>2, <1>3, <1>4, <1>6, <2>1, SkippedByProc
<1>7. Turn(s)
  BY <1>1, <1>4
<1>8. PacketsSent
  BY <1>5, <1>7 DEF PacketsSent, Turn
<1>. QED
  BY <1>1, <1>2, <1>4, <1>5, <1>6, <1>7, <1>8, TurnExcuses

LEMMA DrainTurnExcuses ==
  ASSUME PInv, RInv, DrainTurn
  PROVE  RInv' /\ PacketsSent
<1>1. /\ pc = "drain" /\ DrainAt # tail /\ Turn(DrainAt)
      /\ UNCHANGED <<stream, unit, sbuf, offset, stage, pc, flushing, written, code>>
  BY DEF DrainTurn
<1>2. Input /\ curr \in Nat /\ tail \in Nat /\ unit # 0 /\ unit = stream.unit /\ unit \in Nat \ {0}
  BY <1>1, UnitKnown, PTypes
<1>3. Anchored(curr) /\ Dense(curr) /\ (Sync(curr) => IsStart(curr)) /\ SeenEnough
  BY <1>1 DEF RInv, Ended, Front, FrontInSync
<1>4. flushing /\ tail = stream.length
  BY <1>1 DEF RInv, PInv, CursorRight
<1>5. PICK s \in Nat : s = DrainAt /\ curr <= s /\ s + P <= tail
  BY <1>1, <1>2, DrainAtBounds
<1>6. ~IsStart(s) => /\ pc = "drain" /\ s + 2 * unit > tail /\ Sync(s)
                     /\ \E i \in Faults : Start(i) < s
  BY <1>1, <1>2, <1>3, <1>4, <1>5, TakenByDrain
<1>7. ASSUME NEW k \in Packets, curr <= Start(k), Start(k) < s
      PROVE  ExcusedBy(k, pending \cup written)
  <2>1. k \in Int /\ k >= 0
    BY <1>2, InputTypes DEF Packets
  <2>2. Start(k) \in Nat
    BY <1>2, <2>1, StartOfNext
  <2>3. ~Sync(curr) /\ s = ResyncForce(curr) /\ curr + P <= tail
    BY <1>1, <1>2, <1>5, <1>7, <2>2, StreamTypes DEF DrainAt
  <2>. QED
    BY <1>2, <1>3, <1>4, <1>7, <2>3, SkippedByDrain
<1>8. Turn(s)
  BY <1>1, <1>5
<1>9. PacketsSent
  BY <1>6, <1>8 DEF PacketsSent, Turn
<1>. QED
  BY <1>1, <1>2, <1>5, <1>6, <1>7, <1>8, <1>9, TurnExcuses

\* The loops of proc_arib_std_b25() and flush() end: what is left is looked for
\* again in the next call, or by the last loop of flush().
LEMMA ProcEndExcuses ==
  ASSUME PInv, RInv, ProcEnd
  PROVE  RInv'
<1>1. /\ pc = "proc" /\ PacketAt = tail /\ head' = curr /\ tail' = tail
      /\ UNCHANGED <<stream, unit, offset, stage, curr, flushing, pending, written, code>>
      /\ pc' \in {"crashed", "drain", "get"} /\ (pc' = "drain" => flushing)
      /\ pc' = "get" => ~flushing
  BY DEF ProcEnd, Last
<1>2. /\ Input /\ curr \in Nat /\ tail \in Nat /\ unit # 0 /\ unit = stream.unit
      /\ tail <= stream.length
  BY <1>1, UnitKnown
<1>3. pc' # "crashed" /\ curr <= tail
  BY <1>1, <1>2 DEF ProcEnd, Last, PInv, CursorRight
<1>4. code = "running" /\ (flushing => tail = stream.length) /\ ~Ended /\ Front = curr
  BY <1>1 DEF RInv, Ended, Front
<1>5. Front' = Front
  BY <1>1, <1>3, <1>4 DEF Front
<1>6. CASE pc' = "get"
  BY <1>1, <1>2, <1>4, <1>5, <1>6, QuietKeeps
<1>7. CASE pc' = "drain"
  <2>1. Dense(curr)
    BY <1>1, <1>2, DenseBehindProc
  <2>2. FrontInSync /\ Anchored(curr) /\ Passed /\ UnitRight /\ SeenEnough
    BY <1>4 DEF RInv
  <2>3. /\ Input' /\ Packets' = Packets /\ Faults' = Faults /\ Beginning' = Beginning
        /\ \A k : Start(k)' = Start(k)
    BY <1>1, <1>2, SameInput
  <2>4. FrontInSync'
    <3>1. Front = curr /\ Front' = curr
      BY <1>4, <1>5
    <3>. QED
      BY <1>1, <2>2, <3>1 DEF FrontInSync, Sync, IsStart
  <2>5. Anchored(Front)'
    <3>1. IsStart(curr) \/ \E i \in Faults \cup Beginning : Behind(i, curr)
      BY <1>1, <2>2 DEF Anchored
    <3>2. IsStart(curr)' \/ \E i \in Faults' \cup Beginning' : Behind(i, curr)'
      BY <1>1, <2>3, <3>1 DEF IsStart, Behind, Start
    <3>3. PICK c : c = curr /\ curr' = c /\ Front' = c
      BY <1>1, <1>4, <1>5
    <3>. QED
      BY <3>2, <3>3 DEF Anchored, IsStart, Behind
  <2>6. Passed'
    <3>1. ASSUME NEW k \in Packets, Start(k) < Front
          PROVE  Kept(k)'
      BY <1>1, <2>2, <3>1, KeptStays DEF Passed
    <3>. QED
      BY <1>5, <2>3, <3>1 DEF Passed
  <2>7. Dense(curr)'
    BY <1>1, <2>1, <2>3 DEF Dense
  <2>8. UnitRight' /\ SeenEnough' /\ NothingLost'
        /\ (code # "running" => pc = "done")' /\ (flushing => tail = stream.length)'
    BY <1>1, <1>4, <2>2, <2>3 DEF UnitRight, SeenEnough, NothingLost
  <2>. QED
    BY <1>7, <2>3, <2>4, <2>5, <2>6, <2>7, <2>8 DEF RInv
<1>. QED
  BY <1>1, <1>3, <1>6, <1>7

\* When the last loop ends nothing is missing without an excuse.
LEMMA DrainEndExcuses ==
  ASSUME PInv, RInv, DrainEnd
  PROVE  RInv'
<1>1. /\ pc = "drain" /\ DrainAt = tail /\ tail' = tail
      /\ UNCHANGED <<stream, unit, offset, stage, curr, flushing, pending, written, code>>
      /\ pc' \in {"crashed", "get"}
  BY DEF DrainEnd, Last
<1>2. /\ Input /\ curr \in Nat /\ tail \in Nat /\ unit # 0 /\ unit = stream.unit
      /\ tail <= stream.length /\ P \in Nat /\ P > 0
  BY <1>1, UnitKnown, StreamTypes
<1>3. flushing /\ tail = stream.length /\ code = "running"
  BY <1>1 DEF RInv, PInv, CursorRight
<1>4. Anchored(curr) /\ Dense(curr) /\ Passed /\ Front = curr /\ UnitRight /\ SeenEnough
  BY <1>1 DEF RInv, Ended, Front
<1>5. ASSUME NEW k \in Packets
      PROVE  Kept(k)
  <2>1. k \in Int /\ k >= 0 /\ Start(k) + P <= tail
    BY <1>2, <1>3, <1>5, InputTypes DEF Packets
  <2>2. Start(k) \in Nat
    BY <1>2, <2>1, StartOfNext
  <2>3. CASE Start(k) < curr
    BY <1>4, <2>3 DEF Passed
  <2>4. CASE curr <= Start(k)
    <3>1. curr + P <= tail /\ curr # tail /\ Start(k) < tail
      BY <1>2, <2>1, <2>2, <2>4
    <3>2. ~Sync(curr) /\ ResyncForce(curr) = tail
      BY <1>1, <1>2, <3>1 DEF DrainAt
    <3>3. ExcusedBy(k, pending \cup written)
      BY <1>2, <1>3, <1>4, <2>4, <3>1, <3>2, SkippedByDrain
    <3>. QED
      BY <3>3 DEF Kept
  <2>. QED
    BY <1>2, <2>2, <2>3, <2>4
<1>6. /\ Input' /\ Packets' = Packets /\ \A k : Start(k)' = Start(k)
  BY <1>1, <1>2, SameInput
<1>7. \A k \in Packets' : Kept(k)'
  BY <1>1, <1>5, <1>6, KeptStays
<1>8. UnitRight' /\ SeenEnough' /\ NothingLost' /\ Ended'
      /\ (code # "running" => pc = "done")' /\ (flushing => tail = stream.length)'
  BY <1>1, <1>3, <1>4, <1>6 DEF UnitRight, SeenEnough, NothingLost, Ended
<1>. QED
  BY <1>1, <1>6, <1>7, <1>8 DEF RInv

LEMMA GetExcuses ==
  ASSUME PInv, RInv, Get \/ WriteFails
  PROVE  RInv'
<1>1. /\ pc = "get" /\ code = "running" /\ tail' = tail /\ head' = head
      /\ UNCHANGED <<stream, unit, offset, stage, curr, flushing>>
  BY DEF Get, WriteFails, sbuf, RInv
<1>2. Input /\ tail \in Nat /\ UnitRight /\ SeenEnough /\ (flushing => tail = stream.length)
  BY UnitKnown DEF RInv
<1>3. /\ Input' /\ Packets' = Packets /\ Faults' = Faults /\ Beginning' = Beginning
      /\ \A k : Start(k)' = Start(k)
      /\ \A t : (IsStart(t)' <=> IsStart(t)) /\ (Sync(t)' <=> Sync(t))
  BY <1>1, <1>2, SameInput
<1>4. CASE Get /\ ~flushing
  <2>1. /\ pc' = "read" /\ code' = code /\ pending' \cup written' = pending \cup written
    BY <1>4 DEF Get
  <2>2. Front' = Front
    BY <1>1, <2>1 DEF Front
  <2>. QED
    BY <1>1, <1>2, <1>4, <2>1, <2>2, QuietKeeps DEF Ended
<1>5. CASE (Get /\ flushing) \/ WriteFails
  <2>1. pc' = "done" /\ code' \in {"ok", "write_failed"}
    BY <1>5 DEF Get, WriteFails, Stop
  <2>2. NothingLost'
    <3>1. SUFFICES ASSUME code' = "ok", NEW k \in Packets
                   PROVE  Start(k)' \in written' \/ Excused(k)'
      BY <1>3 DEF NothingLost
    <3>2. Get /\ flushing
      BY <1>5, <3>1 DEF WriteFails, Stop
    <3>3. Kept(k) /\ written' = written \cup pending
      BY <1>1, <3>1, <3>2 DEF RInv, Get
    <3>4. CASE Start(k) \in pending \cup written
      BY <1>3, <3>3, <3>4
    <3>5. CASE ExcusedBy(k, pending \cup written)
      <4>1. PICK more : more = written' /\ more = pending \cup written
        BY <3>3
      <4>2. ExcusedBy(k, more)'
        BY <1>1, <3>5, <4>1, ExcusedStays
      <4>. QED
        BY <4>1, <4>2 DEF ExcusedBy, Excused
    <3>. QED
      BY <3>3, <3>4, <3>5 DEF Kept
  <2>3. UnitRight' /\ SeenEnough' /\ Ended' /\ (flushing => tail = stream.length)'
        /\ (code # "running" => pc = "done")'
    BY <1>1, <1>2, <1>3, <2>1 DEF UnitRight, SeenEnough, Ended
  <2>. QED
    BY <1>3, <2>1, <2>2, <2>3 DEF RInv
<1>. QED
  BY <1>4, <1>5

LEMMA StepExcuses ==
  ASSUME PInv, RInv, [Next]_vars
  PROVE  RInv' /\ PacketsSent
<1>1. ASSUME NEW chunk \in Chunks, Put(chunk) \/ PutFails(chunk)
      PROVE  RInv' /\ pending' = pending
  BY <1>1, PutQuiet DEF Put, PutFails
<1>2. CASE Flush
  BY <1>2, FlushQuiet DEF Flush, PacketsSent
<1>3. CASE SelectUnitSize
  BY <1>3, SelectFinds DEF SelectUnitSize, PacketsSent
<1>4. CASE ScanTurn \/ ScanEnd
  BY <1>4, ScanQuiet DEF ScanTurn, ScanEnd, PacketsSent
<1>5. CASE ProcTurn \/ DrainTurn
  BY <1>5, ProcTurnExcuses, DrainTurnExcuses
<1>6. CASE ProcEnd \/ DrainEnd
  BY <1>6, ProcEndExcuses, DrainEndExcuses DEF ProcEnd, DrainEnd, PacketsSent
<1>7. CASE Get \/ WriteFails
  BY <1>7, GetExcuses DEF Get, WriteFails, PacketsSent
<1>8. CASE UNCHANGED vars
  <2>1. /\ UNCHANGED <<stream, unit, head, tail, pc, curr, flushing, pending, written, code>>
    BY <1>8 DEF vars, sbuf
  <2>2. RInv'
    BY <2>1 DEF RInv, Input, UnitRight, SeenEnough, FrontInSync, Front, Sync, IsStart, Start,
                Anchored, Behind, Faults, Beginning, Passed, Packets, Kept, ExcusedBy, Ended,
                Dense, NothingLost, Excused
  <2>. QED
    BY <2>1, <2>2 DEF PacketsSent
<1>. QED
  BY <1>1, <1>2, <1>3, <1>4, <1>5, <1>6, <1>7, <1>8 DEF Next, PacketsSent

\* Both invariants hold.
LEMMA RInvHolds == StreamsRecognisable /\ Spec => [](PInv /\ RInv)
<1>1. StreamsRecognisable /\ Init => RInv
  <2>. SUFFICES ASSUME StreamsRecognisable, Init PROVE RInv
    OBVIOUS
  <2>1. Input
    BY DEF StreamsRecognisable, Init, Input
  <2>2. /\ unit = 0 /\ head = 0 /\ tail = 0 /\ pc = "read" /\ flushing = FALSE
        /\ pending = {} /\ written = {} /\ code = "running"
    BY DEF Init
  <2>3. Front = 0
    BY <2>2 DEF Front
  <2>4. FrontInSync
    <3>1. stream.first \in Nat /\ 0 \in Int
      BY <2>1, InputTypes
    <3>2. Sync(0) => IsStart(0)
      BY <2>1, <3>1, FalseSync
    <3>. QED
      BY <2>3, <3>2 DEF FrontInSync
  <2>5. Anchored(Front)
    <3>1. PICK f \in Nat, u \in Nat \ {0} : f = stream.first /\ u = stream.unit /\ f < u
      BY <2>1, InputTypes
    <3>2. CASE f = 0
      <4>1. Start(0) = 0
        BY <3>1, <3>2 DEF Start
      <4>2. IsStart(0)
        BY <2>1, <4>1, StartIsStart
      <4>. QED
        BY <2>3, <4>2 DEF Anchored
    <3>3. CASE f # 0
      <4>1. Start(-1) = f - u /\ Start(-1 + 1) = f
        <5>1. Start(-1) = f + (-1) * u /\ Start(-1 + 1) = f + (-1 + 1) * u
          BY <3>1 DEF Start
        <5>2. (-1) * u = 0 - u /\ (-1 + 1) * u = 0
          OBVIOUS
        <5>. QED
          BY <5>1, <5>2
      <4>2. Behind(-1, 0)
        BY <3>1, <4>1 DEF Behind
      <4>3. -1 \in Beginning
        BY <3>1, <3>3 DEF Beginning
      <4>. QED
        BY <2>3, <4>2, <4>3 DEF Anchored
    <3>. QED
      BY <3>2, <3>3
  <2>6. Passed
    <3>1. ASSUME NEW k \in Packets
          PROVE  ~(Start(k) < 0)
      <4>1. k \in Int /\ k >= 0
        BY <2>1, <3>1, InputTypes DEF Packets
      <4>2. Start(k) \in Nat
        BY <2>1, <4>1, StartOfNext
      <4>. QED
        BY <4>2
    <3>. QED
      BY <2>3, <3>1 DEF Passed
  <2>. QED
    BY <2>1, <2>2, <2>4, <2>5, <2>6 DEF RInv, UnitRight, SeenEnough, NothingLost
<1>2. PInv /\ RInv /\ [Next]_vars => RInv'
  BY StepExcuses
<1>. QED
  BY <1>1, <1>2, PInvHolds, PTL DEF Spec

\* Whatever piece of the input came first, select_unit_size() finds the unit of
\* the input or nothing, and it finds it where there are enough packets: a wrong
\* interval is never seen as often as the right one has to be.
THEOREM UnitSizeIsRight == StreamsRecognisable /\ Spec => []UnitRight
<1>1. RInv => UnitRight
  BY DEF RInv
<1>. QED
  BY <1>1, RInvHolds, PTL

\* Every packet of the input comes out when the driver ends well, but for those
\* that are damaged or too close to damaged ones: however the input is cut into
\* pieces, no loop leaves a packet behind that another one did not send.
THEOREM NoPacketLost == StreamsRecognisable /\ Spec => []NothingLost
<1>1. RInv => NothingLost
  BY DEF RInv
<1>. QED
  BY <1>1, RInvHolds, PTL

\* And what comes out are packets, in their order: resync() finds nothing but
\* packets, and resync_force() takes a false sync byte for one only near the end
\* and behind a fault.
THEOREM OnlyPacketsInOrder == StreamsRecognisable /\ Spec => PacketsInOrder
<1>1. PInv /\ RInv /\ [Next]_vars =>
        [\A s \in pending' \ pending :
           /\ \/ IsStart(s)
              \/ pc = "drain" /\ s + 2 * unit > tail /\ \E k \in Faults : Start(k) < s
           /\ \A before \in pending \cup written : before < s]_vars
  BY StepExcuses, StepSendsForward DEF PacketsSent
<1>. QED
  BY <1>1, RInvHolds, PTL DEF Spec, PacketsInOrder
=============================================================================
