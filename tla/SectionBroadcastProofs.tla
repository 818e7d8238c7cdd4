----------------------- MODULE SectionBroadcastProofs -----------------------
(***************************************************************************)
(* Proofs about the section parser behind a channel that loses and         *)
(* duplicates packets, for any versions of a table, any number of faults   *)
(* and any size of packets: the parser's invariant and its promise hold,   *)
(* and the reader never goes back to an older version nor gets one that is *)
(* not on air yet.                                                         *)
(***************************************************************************)
EXTENDS SectionBroadcast, SectionParserProofs

----------------------------------------------------------------------------
\* Types.

AirTyped ==
  /\ ver \in Versions
  /\ tx \in Seq(Units)
  /\ faults \in 0 .. MaxFaults
  /\ seen \in 0 .. Len(Content)

BInv == IInv /\ AirTyped

LEMMA ContentTyped ==
  /\ Len(Content) \in Nat \ {0}
  /\ \A v \in Versions : /\ v \in Nat \ {0}
                         /\ Content[v] \in Valid /\ Content[v] \in Seq(Units)
                         /\ Len(Content[v]) \in Nat \ {0}
<1>1. Len(Content) \in Nat \ {0}
  BY BroadcastAssumption
<1>2. ASSUME NEW v \in Versions
      PROVE  /\ v \in Nat \ {0}
             /\ Content[v] \in Valid /\ Content[v] \in Seq(Units)
             /\ Len(Content[v]) \in Nat \ {0}
  <2>1. v \in Nat \ {0} /\ Content[v] \in Valid
    BY <1>1, BroadcastAssumption DEF Versions
  <2>2. Content[v] \in Seq(Units) /\ Content[v] # <<>>
    BY <2>1, BroadcastAssumption, UnitAssumption
  <2>3. QED
    BY <2>1, <2>2
<1>3. QED
  BY <1>1, <1>2

LEMMA PieceTyped ==
  ASSUME NEW q \in Seq(Units), NEW a \in Nat \ {0}, NEW b \in Nat, b <= Len(q)
  PROVE  /\ SubSeq(q, a, b) \in Seq(Units)
         /\ \A i \in 1 .. Len(SubSeq(q, a, b)) :
              a + i - 1 \in 1 .. Len(q) /\ SubSeq(q, a, b)[i] = q[a + i - 1]
<1>1. CASE a <= b
  <2>1. Len(SubSeq(q, a, b)) = b - a + 1
    BY <1>1
  <2>2. \A i \in 1 .. b - a + 1 :
          a + i - 1 \in 1 .. Len(q) /\ SubSeq(q, a, b)[i] = q[a + i - 1]
    BY <1>1
  <2>3. SubSeq(q, a, b) \in Seq(Units)
    BY <1>1
  <2>4. QED
    BY <2>1, <2>2, <2>3
<1>2. CASE a > b
  <2>1. SubSeq(q, a, b) = <<>>
    BY <1>2
  <2>2. QED
    BY <2>1
<1>3. QED
  BY <1>1, <1>2

\* What the versions consist of, and filler.
OnAir(w) == {Pad} \cup {Content[w][i] : i \in 1 .. Len(Content[w])}
AllOnAir(q, w) == \A i \in 1 .. Len(q) : q[i] \in OnAir(w)

LEMMA PieceOnAir ==
  ASSUME NEW q \in Seq(Units), NEW a \in Nat \ {0}, NEW b \in Nat, b <= Len(q), NEW w,
         AllOnAir(q, w)
  PROVE  AllOnAir(SubSeq(q, a, b), w)
<1> DEFINE t == SubSeq(q, a, b)
<1>1. \A i \in 1 .. Len(t) : a + i - 1 \in 1 .. Len(q) /\ t[i] = q[a + i - 1]
  BY PieceTyped
<1> HIDE DEF t
<1>2. AllOnAir(t, w)
  BY <1>1 DEF AllOnAir
<1>3. QED
  BY <1>2 DEF t

LEMMA Remainder ==
  ASSUME NEW a \in Nat, NEW n \in Nat \ {0}
  PROVE  (a % n) + 1 \in 1 .. n /\ (a % n) + 2 \in Nat \ {0}
<1>1. PICK x : x = a % n
  OBVIOUS
<1>2. x \in 0 .. n - 1
  BY <1>1
<1>3. x + 1 \in 1 .. n /\ x + 2 \in Nat \ {0}
  BY <1>2
<1>4. QED
  BY <1>1, <1>3

LEMMA FollowingTyped ==
  ASSUME AirTyped, NEW more
  PROVE  /\ Following(more) \in Seq(Units) /\ Len(Following(more)) = Capacity
         /\ AllOnAir(Following(more), ver)
<1> DEFINE s == Content[ver]
           f == [i \in 1 .. Capacity |-> IF more THEN s[((i - 1) % Len(s)) + 1] ELSE Pad]
<1>1. ver \in Versions /\ s \in Seq(Units) /\ Len(s) \in Nat \ {0} /\ Capacity \in Nat \ {0}
  BY ContentTyped, BroadcastAssumption DEF AirTyped
<1>2. ASSUME NEW i \in 1 .. Capacity
      PROVE  ((i - 1) % Len(s)) + 1 \in 1 .. Len(s)
  <2>1. i - 1 \in Nat
    BY <1>1, <1>2
  <2>2. QED
    BY <1>1, <2>1, Remainder
<1> HIDE DEF s
<1>3. \A i \in 1 .. Capacity : f[i] \in Units /\ f[i] \in {Pad} \cup {s[j] : j \in 1 .. Len(s)}
  BY <1>1, <1>2, UnitAssumption
<1>4. f \in Seq(Units) /\ Len(f) = Capacity
  BY <1>1, <1>3
<1>5. Following(more) = f
  BY DEF Following, s
<1> HIDE DEF f
<1>6. QED
  BY <1>3, <1>4, <1>5 DEF AllOnAir, OnAir, s

LEMMA PacketTyped ==
  ASSUME AirTyped, NEW more \in BOOLEAN
  PROVE  /\ Packet(more) \in TsPacket
         /\ AllOnAir(tx, ver) => AllOnAir(Packet(more).data, ver)
<1> DEFINE q == tx \o Following(more)
<1>1. /\ tx \in Seq(Units) /\ Following(more) \in Seq(Units)
      /\ Len(Following(more)) = Capacity /\ AllOnAir(Following(more), ver)
      /\ Capacity \in Nat \ {0} /\ Len(tx) \in Nat
  BY FollowingTyped, BroadcastAssumption DEF AirTyped
<1>2. /\ q \in Seq(Units) /\ Len(q) = Len(tx) + Capacity
      /\ \A i \in 1 .. Len(q) : \/ i \in 1 .. Len(tx) /\ q[i] = tx[i]
                                \/ /\ i - Len(tx) \in 1 .. Capacity
                                   /\ q[i] = Following(more)[i - Len(tx)]
  BY <1>1
<1> HIDE DEF q
<1>3. /\ SubSeq(q, 1, Capacity) \in Seq(Units)
      /\ \A i \in 1 .. Len(SubSeq(q, 1, Capacity)) :
           1 + i - 1 \in 1 .. Len(q) /\ SubSeq(q, 1, Capacity)[i] = q[1 + i - 1]
  BY <1>1, <1>2, PieceTyped
<1>4. AllOnAir(tx, ver) => AllOnAir(q, ver)
  BY <1>1, <1>2 DEF AllOnAir
<1>5. (CHOOSE p \in Pids : TRUE) \in Pids
  BY BroadcastAssumption
<1>6. /\ Packet(more).data = SubSeq(q, 1, Capacity)
      /\ Packet(more) \in TsPacket
  BY <1>1, <1>3, <1>5 DEF Packet, TsPacket, q
<1>7. QED
  BY <1>1, <1>4, <1>6, <1>2, PieceOnAir

LEMMA RemainingTyped ==
  ASSUME AirTyped, NEW more \in BOOLEAN
  PROVE  /\ Remaining(more) \in Seq(Units)
         /\ AllOnAir(tx, ver) => AllOnAir(Remaining(more), ver)
<1> DEFINE s == Content[ver]
           n == Len(s)
           a == ((Capacity - Len(tx) - 1) % n) + 2
<1>1. /\ ver \in Versions /\ s \in Seq(Units) /\ n \in Nat \ {0} /\ Capacity \in Nat \ {0}
      /\ tx \in Seq(Units) /\ Len(tx) \in Nat
  BY ContentTyped, BroadcastAssumption DEF AirTyped
<1>2. CASE Len(tx) >= Capacity
  <2>1. Remaining(more) = SubSeq(tx, Capacity + 1, Len(tx))
    BY <1>2 DEF Remaining
  <2>2. QED
    BY <1>1, <2>1, PieceTyped, PieceOnAir
<1>3. CASE ~(Len(tx) >= Capacity) /\ ~more
  <2>1. Remaining(more) = <<>>
    BY <1>3 DEF Remaining
  <2>2. QED
    BY <2>1 DEF AllOnAir
<1>4. CASE ~(Len(tx) >= Capacity) /\ more
  <2>1. a \in Nat \ {0}
    <3>1. Capacity - Len(tx) - 1 \in Nat
      BY <1>1, <1>4
    <3>2. QED
      BY <1>1, <3>1, Remainder
  <2>2. Remaining(more) = SubSeq(s, a, n)
    BY <1>4 DEF Remaining
  <2> HIDE DEF a, s
  <2>3. AllOnAir(s, ver)
    BY DEF AllOnAir, OnAir, s
  <2>4. QED
    BY <1>1, <2>1, <2>2, <2>3, PieceTyped, PieceOnAir
<1>5. QED
  BY <1>2, <1>3, <1>4

LEMMA VersionTyped ==
  ASSUME NEW s \in Valid
  PROVE  VersionOf(s) \in Versions /\ Content[VersionOf(s)] = s
  BY BroadcastAssumption DEF VersionOf

LEMMA SendTyped ==
  ASSUME BInv, NEW more \in BOOLEAN, Put(Packet(more)), UNCHANGED <<ver, seen>>,
         tx' \in {tx, Remaining(more)}, faults' \in 0 .. MaxFaults
  PROVE  BInv'
<1>1. IInv'
  BY PacketTyped, PutKeeps DEF BInv
<1>2. AirTyped'
  BY RemainingTyped DEF BInv, AirTyped
<1>3. QED
  BY <1>1, <1>2 DEF BInv

\* The section the reader takes is one of the versions.
LEMMA TakeTyped ==
  ASSUME BInv, Take
  PROVE  BInv' /\ seen' \in Versions /\ Content[seen'] = raw[Head(buff)]
<1>1. buff \in Seq(Elems) /\ buff # <<>> /\ Get
  BY DEF BInv, IInv, TypeOK, Take, Get
<1>2. Head(buff) = buff[1] /\ 1 \in 1 .. Len(buff)
  BY <1>1
<1>3. raw[Head(buff)] \in Valid
  BY <1>2 DEF BInv, IInv, OnlyValid, Queued
<1>4. seen' \in Versions /\ Content[seen'] = raw[Head(buff)]
  BY <1>3, VersionTyped DEF Take
<1>5. AirTyped'
  BY <1>4, ContentTyped DEF BInv, AirTyped, Take, Versions
<1>6. IInv'
  BY <1>1, GetKeeps DEF BInv
<1>7. QED
  BY <1>4, <1>5, <1>6 DEF BInv

LEMMA InitTyped == BInit => BInv
<1> SUFFICES ASSUME BInit PROVE BInv
  OBVIOUS
<1>1. AirTyped
  BY ContentTyped, BroadcastAssumption DEF BInit, AirTyped, Versions
<1>2. QED
  BY <1>1, InitIInv DEF BInit, BInv

LEMMA NextTyped == BInv /\ [BNext]_allvars => BInv'
<1> SUFFICES ASSUME BInv, [BNext]_allvars PROVE BInv'
  OBVIOUS
<1> USE BroadcastAssumption
<1>1. CASE \E more \in BOOLEAN : Send(more)
  BY <1>1, SendTyped DEF Send, BInv, AirTyped
<1>2. CASE \E more \in BOOLEAN : Lose(more)
  BY <1>2, StutterKeeps, RemainingTyped DEF Lose, BInv, AirTyped
<1>3. CASE \E more \in BOOLEAN : Duplicate(more)
  BY <1>3, SendTyped DEF Duplicate, BInv, AirTyped
<1>4. CASE Change
  BY <1>4, StutterKeeps, ContentTyped DEF Change, BInv, AirTyped, Versions
<1>5. CASE Continue
  BY <1>5, PutSectionKeeps, PutNoMemoryKeeps DEF Continue, BInv, AirTyped, bvars
<1>6. CASE Take
  BY <1>6, TakeTyped
<1>7. CASE \E e \in Elems : GiveUp(e)
  BY <1>7, RetKeeps DEF GiveUp, BInv, AirTyped, bvars
<1>8. CASE UNCHANGED allvars
  BY <1>8, StutterKeeps DEF allvars, BInv, AirTyped, bvars
<1>9. QED
  BY <1>1, <1>2, <1>3, <1>4, <1>5, <1>6, <1>7, <1>8 DEF BNext

\* Packets that are lost, repeated or torn leave the parser in order, and every
\* section the reader takes is a version of the table.
THEOREM BroadcastTypeCorrect == BSpec => []BTypeOK
<1>1. BInv => BTypeOK
  BY DEF BInv, IInv, AirTyped, BTypeOK
<1>2. QED
  BY <1>1, InitTyped, NextTyped, PTL DEF BSpec

LEMMA StepImplements == BInv /\ [BNext]_allvars => [Feed!FeedNext]_(Feed!feedVars)
<1> SUFFICES ASSUME BInv, [BNext]_allvars PROVE [Feed!FeedNext]_(Feed!feedVars)
  OBVIOUS
<1>1. IInv /\ AirTyped
  BY DEF BInv
<1>2. CASE \E more \in BOOLEAN : Send(more) \/ Duplicate(more)
  BY <1>1, <1>2, PacketTyped, PutImplements DEF Send, Duplicate
<1>3. CASE UNCHANGED vars
  BY <1>1, <1>3, FeedStutters DEF vars
<1>4. CASE Continue
  BY <1>1, <1>4, PutSectionImplements, FeedStutters DEF Continue, PutNoMemory
<1>5. CASE Take
  BY <1>1, <1>5, GetImplements DEF Take, Feed!FeedNext
<1>6. CASE \E e \in Elems : GiveUp(e)
  BY <1>1, <1>6, RetImplements DEF GiveUp, Feed!FeedNext
<1>7. QED
  BY <1>2, <1>3, <1>4, <1>5, <1>6 DEF BNext, Lose, Change, allvars

\* Behind the channel the parser keeps its promise.
THEOREM BroadcastKeepsPromise == BSpec => ImplementsFeed
<1>1. BInit => Feed!FeedInit
  BY InitImplements DEF BInit
<1>2. QED
  BY <1>1, StepImplements, InitTyped, NextTyped, PTL DEF BSpec, ImplementsFeed, Feed!FeedSpec

----------------------------------------------------------------------------
\* Order.

\* The last unit of a section holds its checksum: no other version contains it.
ChecksumTells ==
  \A v, w \in Versions :
    LET checksum == Content[v][Len(Content[v])]
    IN  checksum \in OnAir(w) => checksum # Pad /\ v = w

LEMMA LastUnitTells ==
  ASSUME ChecksumTells, NEW w \in Versions, NEW s \in Valid, s[Len(s)] \in OnAir(w)
  PROVE  VersionOf(s) = w
  BY VersionTyped DEF ChecksumTells

LEMMA VersionsDiffer ==
  ASSUME ChecksumTells, NEW v \in Versions
  PROVE  VersionOf(Content[v]) = v
<1>1. /\ Content[v] \in Valid /\ Len(Content[v]) \in 1 .. Len(Content[v])
  BY ContentTyped
<1>2. QED
  BY <1>1, LastUnitTells DEF OnAir

\* A section that was not complete before has its last unit from the new data.
LEMMA LastUnitIsNew ==
  ASSUME NEW old \in Seq(Units), NEW data \in Seq(Units), ~Complete(old),
         Complete(Appended(old, data))
  PROVE  \E i \in 1 .. Len(data) :
           Appended(old, data)[Len(Appended(old, data))] = data[i]
<1> DEFINE t == old \o data
           s == Appended(old, data)
<1>1. /\ t \in Seq(Units) /\ Len(t) = Len(old) + Len(data)
      /\ Len(old) \in Nat /\ Len(data) \in Nat
      /\ \A i \in Len(old) + 1 .. Len(t) : i - Len(old) \in 1 .. Len(data)
                                           /\ t[i] = data[i - Len(old)]
      /\ old # <<>> => t[1] = old[1]
  OBVIOUS
<1> HIDE DEF t
<1>2. t # <<>> /\ t[1] \in Units /\ SecLen[t[1]] \in Nat \ {0}
  <2>1. CASE t = <<>>
    BY <2>1 DEF Appended, Complete, t
  <2>2. CASE t # <<>>
    <3>1. t[1] \in Units
      BY <1>1, <2>2
    <3>2. QED
      BY <2>2, <3>1, UnitAssumption
  <2>3. QED
    BY <2>1, <2>2
<1> DEFINE n == SecLen[t[1]]
<1>3. Len(old) < n
  BY <1>1, <1>2, UnitAssumption DEF Complete
<1>4. s = IF n < Len(t) THEN SubSeq(t, 1, n) ELSE t
  BY <1>2 DEF Appended, t
<1>5. s[1] = t[1] /\ n <= Len(t) /\ Len(s) = n /\ s[n] = t[n]
  <2>1. CASE n < Len(t)
    <3>1. s = SubSeq(t, 1, n) /\ Len(t) \in Nat /\ n \in Nat \ {0}
      BY <1>1, <1>2, <1>4, <2>1
    <3> HIDE DEF n, s
    <3>2. Len(SubSeq(t, 1, n)) = n /\ SubSeq(t, 1, n)[1] = t[1] /\ SubSeq(t, 1, n)[n] = t[n]
      BY <1>1, <2>1, <3>1
    <3>3. QED
      BY <2>1, <3>1, <3>2
  <2>2. CASE ~(n < Len(t))
    BY <1>1, <1>2, <1>4, <2>2 DEF Complete
  <2>3. QED
    BY <2>1, <2>2
<1>6. n \in Len(old) + 1 .. Len(t)
  BY <1>1, <1>2, <1>3, <1>5
<1>7. QED
  BY <1>1, <1>5, <1>6

VersionAt(i) == VersionOf(raw[buff[i]])

\* What the reader will get is in order, and none of it newer than version w.
QueueInOrder == \A i, j \in 1 .. Len(buff) : i < j => VersionAt(i) <= VersionAt(j)
UpTo(w) == seen <= w /\ \A i \in 1 .. Len(buff) : seen <= VersionAt(i) /\ VersionAt(i) <= w

NotYetComplete == work # Null => ~Complete(raw[work])

\* What a running put() has still to cut is of one version, which was on air when it
\* was called.
OrderInv ==
  /\ AllOnAir(tx, ver)
  /\ NotYetComplete
  /\ QueueInOrder
  /\ \E w \in 1 .. ver : UpTo(w) /\ AllOnAir(rest, w)

\* A section that ends in version w is version w.
LEMMA SettleInOrder ==
  ASSUME IInv, ChecksumTells, NEW w \in Versions, QueueInOrder, UpTo(w), seen' = seen,
         seen \in Nat, NEW e, NEW code, Loose(e),
         NEW old \in Seq(Units), ~Complete(old), NEW data \in Seq(Units), AllOnAir(data, w),
         Complete(Appended(old, data)), Settle(e, Appended(old, data), code)
  PROVE  QueueInOrder' /\ UpTo(w)'
<1> DEFINE s == Appended(old, data)
<1>1. /\ buff \in Seq(Elems) /\ e \in Elems /\ raw \in [Elems -> Seq(Units)]
      /\ \A i \in 1 .. Len(buff) : buff[i] \in Elems /\ buff[i] # e
  <2>1. buff \in Seq(Elems) /\ e \in Elems /\ raw \in [Elems -> Seq(Units)]
    BY DEF IInv, TypeOK, Loose
  <2>2. \A i \in 1 .. Len(buff) : buff[i] # e
    BY DEF Loose, Queued
  <2>3. QED
    BY <2>1, <2>2
<1>2. CASE Cancel(e)
  <2>1. buff' = buff /\ \A i \in 1 .. Len(buff) : raw'[buff[i]] = raw[buff[i]]
    BY <1>1, <1>2 DEF Cancel
  <2>2. \A i \in 1 .. Len(buff) : VersionAt(i)' = VersionAt(i)
    BY <2>1 DEF VersionAt
  <2>3. QED
    BY <2>1, <2>2 DEF QueueInOrder, UpTo
<1>3. CASE s \in Valid /\ Commit(e, s)
  <2>1. VersionOf(s) = w
    <3>1. s[Len(s)] \in OnAir(w)
      BY LastUnitIsNew DEF AllOnAir
    <3> HIDE DEF s
    <3>2. QED
      BY <1>3, <3>1, LastUnitTells
  <2>2. buff' = Append(buff, e) /\ raw' = [raw EXCEPT ![e] = s]
    BY <1>3 DEF Commit
  <2> HIDE DEF s
  <2>3. PICK n \in Nat : n = Len(buff)
    BY <1>1
  <2>4. /\ Len(buff') = n + 1 /\ raw'[buff'[n + 1]] = s
        /\ \A i \in 1 .. n : raw'[buff'[i]] = raw[buff[i]]
    <3>1. Len(buff') = n + 1 /\ buff'[n + 1] = e /\ \A i \in 1 .. n : buff'[i] = buff[i]
      BY <1>1, <2>2, <2>3
    <3>2. QED
      BY <1>1, <2>2, <2>3, <3>1
  <2>5. VersionAt(n + 1)' = w /\ \A i \in 1 .. n : VersionAt(i)' = VersionAt(i)
    BY <2>1, <2>4 DEF VersionAt
  <2>6. UpTo(w)'
    <3>1. seen <= w /\ \A i \in 1 .. n : seen <= VersionAt(i)' /\ VersionAt(i)' <= w
      BY <2>3, <2>5 DEF UpTo
    <3>2. w \in Nat
      BY ContentTyped
    <3>3. \A i \in 1 .. n + 1 : seen <= VersionAt(i)' /\ VersionAt(i)' <= w
      BY <2>3, <2>5, <3>1, <3>2
    <3>4. QED
      BY <2>4, <3>1, <3>3 DEF UpTo
  <2>7. QueueInOrder'
    BY <2>3, <2>4, <2>5 DEF UpTo, QueueInOrder
  <2>8. QED
    BY <2>6, <2>7
<1>4. QED
  BY <1>2, <1>3 DEF Settle

LEMMA NothingInOrder ==
  ASSUME UNCHANGED <<buff, raw, seen>>, NEW w
  PROVE  /\ QueueInOrder => QueueInOrder'
         /\ UpTo(w) => UpTo(w)'
  BY DEF QueueInOrder, UpTo, VersionAt

LEMMA RewriteInOrder ==
  ASSUME IInv, NEW e, Loose(e), UNCHANGED <<buff, seen>>, NEW t, raw' = [raw EXCEPT ![e] = t],
         NEW w
  PROVE  /\ QueueInOrder => QueueInOrder'
         /\ UpTo(w) => UpTo(w)'
<1>1. \A i \in 1 .. Len(buff) : buff[i] \in Elems /\ buff[i] # e
  <2>1. buff \in Seq(Elems)
    BY DEF IInv, TypeOK
  <2>2. \A i \in 1 .. Len(buff) : buff[i] # e
    BY DEF Loose, Queued
  <2>3. QED
    BY <2>1, <2>2
<1>2. \A i \in 1 .. Len(buff) : raw'[buff[i]] = raw[buff[i]]
  BY <1>1 DEF IInv, TypeOK
<1>3. \A i \in 1 .. Len(buff) : VersionAt(i)' = VersionAt(i)
  BY <1>2 DEF VersionAt
<1>4. QED
  BY <1>3 DEF QueueInOrder, UpTo

\* put() with a packet of version w.
LEMMA PutInOrder ==
  ASSUME IInv, ChecksumTells, NEW w \in Versions, QueueInOrder, UpTo(w), NotYetComplete,
         seen' = seen, seen \in Nat, NEW pkt \in TsPacket, AllOnAir(pkt.data, w), Put(pkt)
  PROVE  QueueInOrder' /\ UpTo(w)' /\ NotYetComplete' /\ AllOnAir(rest', w)
<1>1. rest = <<>> /\ AllOnAir(rest, w)
  BY DEF Put, PutOtherPid, PutContinuation, PutBrokenPointer, PutStart, Idle, AllOnAir
<1>2. /\ pkt.data \in Seq(Units) /\ pkt.ptr \in Nat
  BY DEF TsPacket
<1>3. CASE PutOtherPid(pkt)
  BY <1>1, <1>3, NothingInOrder DEF PutOtherPid, NotYetComplete
<1>4. CASE work = Null /\ ~PutOtherPid(pkt)
  <2>1. UNCHANGED <<work, buff, raw>>
    BY <1>4 DEF Put, PutContinuation, PutBrokenPointer, PutStart
  <2>2. QueueInOrder' /\ UpTo(w)' /\ NotYetComplete'
    BY <1>4, <2>1, NothingInOrder DEF NotYetComplete
  <2>3. CASE PutStart(pkt)
    <3>1. rest' = SubSeq(pkt.data, pkt.ptr + 1, Len(pkt.data))
      BY <2>3 DEF PutStart
    <3>2. pkt.ptr + 1 \in Nat \ {0} /\ Len(pkt.data) \in Nat
      BY <1>2
    <3>3. QED
      BY <1>2, <2>2, <3>1, <3>2, PieceOnAir
  <2>4. CASE PutContinuation(pkt) \/ PutBrokenPointer(pkt)
    BY <1>1, <2>2, <2>4 DEF PutContinuation, PutBrokenPointer
  <2>5. QED
    BY <1>4, <2>3, <2>4 DEF Put
<1>5. CASE work # Null
  <2>1. PICK e \in Elems : e = work
    BY <1>5 DEF IInv, TypeOK
  <2>2. Loose(e) /\ raw[e] \in Seq(Units) /\ ~Complete(raw[e])
    BY <1>5, <2>1, AvailableLoose DEF NotYetComplete, IInv, TypeOK
  <2>3. CASE PutContinuation(pkt)
    <3> DEFINE s == Appended(raw[e], pkt.data)
    <3>1. rest' = rest
      BY <2>3 DEF PutContinuation
    <3>2. CASE Complete(s)
      <4>1. work' = Null /\ Settle(e, s, "ok")
        BY <1>5, <2>1, <2>3, <3>2 DEF PutContinuation
      <4>2. QueueInOrder' /\ UpTo(w)'
        BY <1>2, <2>2, <3>2, <4>1, SettleInOrder
      <4>3. QED
        BY <1>1, <3>1, <4>1, <4>2 DEF NotYetComplete
    <3>3. CASE ~Complete(s)
      <4>1. raw' = [raw EXCEPT ![e] = s] /\ UNCHANGED <<work, buff>>
        BY <1>5, <2>1, <2>3, <3>3 DEF PutContinuation
      <4>2. raw'[work'] = s
        BY <2>1, <4>1 DEF IInv, TypeOK
      <4>3. QED
        BY <1>1, <2>2, <3>1, <3>3, <4>1, <4>2, RewriteInOrder DEF NotYetComplete
    <3>4. QED
      BY <3>2, <3>3
  <2>4. CASE PutBrokenPointer(pkt)
    <3>1. work' = Null /\ Cancel(e) /\ rest' = rest
      BY <1>5, <2>1, <2>4 DEF PutBrokenPointer
    <3>2. QED
      BY <1>1, <2>2, <3>1, RewriteInOrder DEF NotYetComplete, Cancel
  <2>5. CASE PutStart(pkt)
    <3> DEFINE head == SubSeq(pkt.data, 1, pkt.ptr)
               s == Appended(raw[e], head)
    <3>1. work' = Null /\ rest' = SubSeq(pkt.data, pkt.ptr + 1, Len(pkt.data))
      BY <2>5 DEF PutStart
    <3>2. /\ head \in Seq(Units) /\ AllOnAir(head, w)
          /\ AllOnAir(rest', w)
      <4>1. /\ pkt.ptr + 1 \in Nat \ {0} /\ Len(pkt.data) \in Nat
            /\ pkt.ptr <= Len(pkt.data)
        BY <1>2, <2>5 DEF PutStart
      <4>2. head \in Seq(Units) /\ AllOnAir(head, w)
        BY <1>2, <4>1, PieceTyped, PieceOnAir
      <4>3. AllOnAir(rest', w)
        BY <1>2, <3>1, <4>1, PieceOnAir
      <4>4. QED
        BY <4>2, <4>3
    <3>3. CASE Complete(s)
      <4>1. Settle(e, s, "ok")
        BY <1>5, <2>1, <2>5, <3>3 DEF PutStart
      <4>2. QueueInOrder' /\ UpTo(w)'
        BY <2>2, <3>2, <3>3, <4>1, SettleInOrder
      <4>3. QED
        BY <3>1, <3>2, <4>2 DEF NotYetComplete
    <3>4. CASE ~Complete(s)
      <4>1. Cancel(e)
        BY <1>5, <2>1, <2>5, <3>4 DEF PutStart
      <4>2. QED
        BY <2>2, <3>1, <3>2, <4>1, RewriteInOrder DEF NotYetComplete, Cancel
    <3>5. QED
      BY <3>3, <3>4
  <2>6. QED
    BY <1>3, <2>3, <2>4, <2>5 DEF Put
<1>6. QED
  BY <1>3, <1>4, <1>5

LEMMA TurnInOrder ==
  ASSUME IInv, ChecksumTells, NEW w \in Versions, QueueInOrder, UpTo(w), NotYetComplete,
         seen' = seen, seen \in Nat, AllOnAir(rest, w), PutSection
  PROVE  QueueInOrder' /\ UpTo(w)' /\ NotYetComplete' /\ AllOnAir(rest', w)
<1> DEFINE s == Appended(<<>>, rest)
           left == SubSeq(rest, Len(s) + 1, Len(rest))
<1>1. PICK e \in Available :
        IF Complete(s)
          THEN /\ Settle(e, s, r)
               /\ rest' = IF left # <<>> /\ left[1] # Pad THEN left ELSE <<>>
               /\ UNCHANGED work
          ELSE /\ work' = e
               /\ raw' = [raw EXCEPT ![e] = s]
               /\ rest' = <<>>
               /\ UNCHANGED <<last, buff>>
  BY Zenon DEF PutSection
<1>2. Loose(e) /\ e # work /\ e \in Elems
  BY AvailableLoose DEF Loose
<1>3. /\ rest \in Seq(Units) /\ <<>> \in Seq(Units) /\ ~Complete(<<>>)
      /\ raw \in [Elems -> Seq(Units)]
  BY DEF IInv, TypeOK, Complete
<1>4. CASE Complete(s)
  <2>1. QueueInOrder' /\ UpTo(w)'
    BY <1>1, <1>2, <1>3, <1>4, SettleInOrder
  <2>2. AllOnAir(rest', w)
    <3>1. s \in Seq(Units) /\ Len(s) \in Nat
      BY <1>3, AppendedType
    <3> HIDE DEF s
    <3>2. AllOnAir(left, w)
      BY <1>3, <3>1, PieceOnAir
    <3>3. AllOnAir(<<>>, w)
      BY DEF AllOnAir
    <3> HIDE DEF left
    <3>4. QED
      BY <1>1, <1>4, <3>2, <3>3
  <2>3. NotYetComplete'
    <3>1. work' = work
      BY <1>1, <1>4
    <3>2. work # Null => raw'[work] = raw[work]
      <4>1. \E t : raw' = [raw EXCEPT ![e] = t]
        BY <1>1, <1>4 DEF Settle, Cancel, Commit
      <4>2. work # Null => work \in Elems
        BY DEF IInv, TypeOK
      <4>3. QED
        BY <1>2, <1>3, <4>1, <4>2
    <3>3. QED
      BY <3>1, <3>2 DEF NotYetComplete
  <2>4. QED
    BY <2>1, <2>2, <2>3
<1>5. CASE ~Complete(s)
  <2> HIDE DEF s
  <2>1. work' = e /\ raw' = [raw EXCEPT ![e] = s] /\ rest' = <<>> /\ buff' = buff
    BY <1>1, <1>5
  <2>2. raw'[work'] = s
    BY <1>2, <1>3, <2>1
  <2>3. NotYetComplete' /\ AllOnAir(rest', w)
    BY <1>5, <2>1, <2>2 DEF NotYetComplete, AllOnAir
  <2>4. QED
    BY <1>2, <2>1, <2>3, RewriteInOrder
<1>6. QED
  BY <1>4, <1>5

\* The reader takes the oldest section: what is left is not older.
LEMMA TakeInOrder ==
  ASSUME BInv, ChecksumTells, NEW w \in Versions, QueueInOrder, UpTo(w), Take
  PROVE  QueueInOrder' /\ UpTo(w)' /\ seen' >= seen /\ seen' <= w
<1>1. /\ buff \in Seq(Elems) /\ buff # <<>> /\ buff' = Tail(buff) /\ raw' = raw
      /\ seen' = VersionOf(raw[Head(buff)])
  BY DEF BInv, IInv, TypeOK, Take, Get
<1>2. /\ Len(buff) \in Nat \ {0} /\ Len(buff') = Len(buff) - 1 /\ Head(buff) = buff[1]
      /\ \A i \in 1 .. Len(buff') : buff'[i] = buff[i + 1] /\ i + 1 \in 1 .. Len(buff)
  BY <1>1
<1>3. /\ seen' = VersionAt(1)
      /\ \A i \in 1 .. Len(buff') : VersionAt(i)' = VersionAt(i + 1)
  BY <1>1, <1>2 DEF VersionAt
<1>4. seen <= VersionAt(1) /\ VersionAt(1) <= w
  BY <1>2 DEF UpTo
<1>5. UpTo(w)'
  <2>1. ASSUME NEW i \in 1 .. Len(buff')
        PROVE  seen' <= VersionAt(i)' /\ VersionAt(i)' <= w
    <3>1. i + 1 \in 1 .. Len(buff) /\ 1 \in 1 .. Len(buff) /\ 1 < i + 1
      BY <1>2, <2>1
    <3>2. VersionAt(1) <= VersionAt(i + 1) /\ VersionAt(i + 1) <= w
      BY <3>1 DEF UpTo, QueueInOrder
    <3>3. QED
      BY <1>3, <2>1, <3>2
  <2>2. QED
    BY <1>3, <1>4, <2>1 DEF UpTo
<1>6. QueueInOrder'
  <2>1. ASSUME NEW i \in 1 .. Len(buff'), NEW j \in 1 .. Len(buff'), i < j
        PROVE  VersionAt(i)' <= VersionAt(j)'
    <3>1. i + 1 \in 1 .. Len(buff) /\ j + 1 \in 1 .. Len(buff) /\ i + 1 < j + 1
      BY <1>2, <2>1
    <3>2. VersionAt(i + 1) <= VersionAt(j + 1)
      BY <3>1 DEF QueueInOrder
    <3>3. QED
      BY <1>3, <2>1, <3>2
  <2>2. QED
    BY <2>1 DEF QueueInOrder
<1>7. QED
  BY <1>3, <1>4, <1>5, <1>6

LEMMA InitInOrder == BInit => OrderInv
<1> SUFFICES ASSUME BInit PROVE OrderInv
  OBVIOUS
<1>1. ver = 1 /\ tx = <<>> /\ seen = 0 /\ work = Null /\ buff = <<>> /\ rest = <<>>
  BY DEF BInit, Init
<1>2. UpTo(1) /\ AllOnAir(rest, 1) /\ AllOnAir(tx, ver) /\ QueueInOrder /\ NotYetComplete
  BY <1>1 DEF UpTo, AllOnAir, QueueInOrder, NotYetComplete
<1>3. QED
  BY <1>1, <1>2 DEF OrderInv

\* A packet of the version on air.
LEMMA SendInOrder ==
  ASSUME BInv, OrderInv, ChecksumTells, NEW more \in BOOLEAN, Put(Packet(more)),
         UNCHANGED <<ver, seen>>, tx' \in {tx, Remaining(more)}
  PROVE  OrderInv'
<1>1. IInv /\ AirTyped /\ ver \in Versions /\ ver \in Nat \ {0} /\ seen \in Nat
  BY ContentTyped DEF BInv, AirTyped
<1>2. PICK w \in 1 .. ver : UpTo(w)
  BY DEF OrderInv
<1>3. UpTo(ver)
  <2>1. ASSUME NEW i \in 1 .. Len(buff) PROVE VersionAt(i) \in Nat
    <3>1. raw[buff[i]] \in Valid
      BY <1>1 DEF IInv, OnlyValid, Queued
    <3>2. QED
      BY <3>1, VersionTyped, ContentTyped DEF VersionAt
  <2>2. QED
    BY <1>1, <1>2, <2>1 DEF UpTo
<1>4. /\ Packet(more) \in TsPacket /\ AllOnAir(Packet(more).data, ver)
      /\ AllOnAir(tx', ver)
  BY <1>1, PacketTyped, RemainingTyped DEF OrderInv
<1>5. QueueInOrder' /\ UpTo(ver)' /\ NotYetComplete' /\ AllOnAir(rest', ver)
  BY <1>1, <1>3, <1>4, PutInOrder DEF OrderInv
<1>6. ver' = ver /\ ver \in 1 .. ver
  BY <1>1
<1>7. QED
  BY <1>4, <1>5, <1>6 DEF OrderInv

LEMMA NextInOrder ==
  ASSUME ChecksumTells
  PROVE  BInv /\ OrderInv /\ [BNext]_allvars => OrderInv' /\ [seen' >= seen /\ seen' <= ver]_seen
<1> SUFFICES ASSUME BInv, OrderInv, [BNext]_allvars
             PROVE  OrderInv' /\ [seen' >= seen /\ seen' <= ver]_seen
  OBVIOUS
<1>1. IInv /\ AirTyped /\ ver \in Versions /\ ver \in Nat \ {0} /\ seen \in Nat
  BY ContentTyped DEF BInv, AirTyped
<1>2. PICK w \in 1 .. ver : UpTo(w) /\ AllOnAir(rest, w)
  BY DEF OrderInv
<1>3. w \in Versions /\ w \in Nat
  BY <1>1, <1>2, ContentTyped DEF Versions
<1>4. CASE \E more \in BOOLEAN : Send(more) \/ Duplicate(more)
  BY <1>4, SendInOrder DEF Send, Duplicate
<1>5. CASE \E more \in BOOLEAN : Lose(more)
  <2>1. UNCHANGED <<vars, ver, seen>> /\ AllOnAir(tx', ver)
    BY <1>1, <1>5, RemainingTyped DEF Lose, OrderInv
  <2>2. QED
    BY <1>2, <2>1, NothingInOrder DEF vars, OrderInv, NotYetComplete
<1>6. CASE Change
  <2>1. UNCHANGED <<vars, seen>> /\ tx' = <<>> /\ ver' = ver + 1 /\ w \in 1 .. ver'
    BY <1>1, <1>2, <1>6 DEF Change
  <2>2. AllOnAir(tx', ver')
    BY <2>1 DEF AllOnAir
  <2>3. QED
    BY <1>2, <2>1, <2>2, NothingInOrder DEF vars, OrderInv, NotYetComplete
<1>7. CASE Continue
  <2>1. UNCHANGED <<ver, tx, faults, seen>>
    BY <1>7 DEF Continue, bvars
  <2>2. CASE PutSection
    BY <1>1, <1>2, <1>3, <2>1, <2>2, TurnInOrder DEF OrderInv
  <2>3. CASE PutNoMemory
    <3>1. UNCHANGED <<work, buff, raw>> /\ AllOnAir(rest', w)
      BY <2>3 DEF PutNoMemory, AllOnAir
    <3>2. QED
      BY <1>2, <2>1, <3>1, NothingInOrder DEF OrderInv, NotYetComplete
  <2>4. QED
    BY <1>7, <2>2, <2>3 DEF Continue
<1>8. CASE Take
  <2>1. QueueInOrder' /\ UpTo(w)' /\ seen' >= seen /\ seen' <= w
    BY <1>2, <1>3, <1>8, TakeInOrder DEF OrderInv
  <2>2. UNCHANGED <<ver, tx, work, raw, rest>>
    BY <1>8 DEF Take, Get
  <2>3. seen' \in Nat /\ seen' <= ver
    BY <1>1, <1>2, <1>3, <1>8, <2>1, TakeTyped, ContentTyped
  <2>4. QED
    BY <1>2, <2>1, <2>2, <2>3 DEF OrderInv, NotYetComplete
<1>9. CASE \E e \in Elems : GiveUp(e)
  <2>1. UNCHANGED <<ver, tx, seen, work, buff, raw, rest>>
    BY <1>9 DEF GiveUp, Ret, bvars
  <2>2. QED
    BY <1>2, <2>1, NothingInOrder DEF OrderInv, NotYetComplete
<1>10. CASE UNCHANGED allvars
  <2>1. UNCHANGED <<ver, tx, seen, work, buff, raw, rest>>
    BY <1>10 DEF allvars, vars, bvars
  <2>2. QED
    BY <1>2, <2>1, NothingInOrder DEF OrderInv, NotYetComplete
<1>11. QED
  BY <1>4, <1>5, <1>6, <1>7, <1>8, <1>9, <1>10 DEF BNext

\* The reader never goes back to an older version of the table and never gets one
\* that is not on air yet, whatever is lost, repeated or torn: a section that is
\* completed with the checksum of a version is that version.
THEOREM ReadingNeverGoesBack ==
  ASSUME ChecksumTells
  PROVE  BSpec => NeverStale
  BY InitTyped, NextTyped, InitInOrder, NextInOrder, PTL DEF BSpec, NeverStale

=============================================================================
