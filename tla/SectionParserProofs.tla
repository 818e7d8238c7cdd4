------------------------- MODULE SectionParserProofs -------------------------
(***************************************************************************)
(* Proofs about the section parser, for any memory size, any packets and   *)
(* any checksum: the element bookkeeping is exact, only valid sections are *)
(* delivered, a section lent to the reader is never overwritten, and the   *)
(* parser implements SectionFeed.                                          *)
(***************************************************************************)
EXTENDS SectionParser, TLAPS

----------------------------------------------------------------------------
\* Sequences: what the queue operations do to the set of queued elements.

LEMMA AppendSet ==
  ASSUME NEW S, NEW q \in Seq(S), NEW e \in S
  PROVE  /\ Append(q, e) \in Seq(S)
         /\ {Append(q, e)[i] : i \in 1 .. Len(Append(q, e))}
              = {q[i] : i \in 1 .. Len(q)} \cup {e}
         /\ (/\ \A i, j \in 1 .. Len(q) : q[i] = q[j] => i = j
             /\ e \notin {q[i] : i \in 1 .. Len(q)})
              => \A i, j \in 1 .. Len(Append(q, e)) :
                   Append(q, e)[i] = Append(q, e)[j] => i = j
<1> DEFINE a == Append(q, e)
<1>1. /\ a \in Seq(S) /\ Len(a) = Len(q) + 1 /\ Len(q) \in Nat
      /\ \A i \in 1 .. Len(q) : a[i] = q[i]
      /\ a[Len(q) + 1] = e
  OBVIOUS
<1>2. 1 .. Len(a) = (1 .. Len(q)) \cup {Len(q) + 1}
  BY <1>1
<1> HIDE DEF a
<1>3. {a[i] : i \in 1 .. Len(a)} = {q[i] : i \in 1 .. Len(q)} \cup {e}
  BY <1>1, <1>2
<1>4. ASSUME \A i, j \in 1 .. Len(q) : q[i] = q[j] => i = j,
             e \notin {q[i] : i \in 1 .. Len(q)}
      PROVE  \A i, j \in 1 .. Len(a) : a[i] = a[j] => i = j
  BY <1>1, <1>2, <1>4
<1>5. QED
  BY <1>1, <1>3, <1>4 DEF a

LEMMA TailSet ==
  ASSUME NEW S, NEW q \in Seq(S), q # <<>>,
         \A i, j \in 1 .. Len(q) : q[i] = q[j] => i = j
  PROVE  /\ Tail(q) \in Seq(S)
         /\ Head(q) \in S
         /\ Head(q) \in {q[i] : i \in 1 .. Len(q)}
         /\ {Tail(q)[i] : i \in 1 .. Len(Tail(q))}
              = {q[i] : i \in 1 .. Len(q)} \ {Head(q)}
         /\ \A i, j \in 1 .. Len(Tail(q)) : Tail(q)[i] = Tail(q)[j] => i = j
<1> DEFINE t == Tail(q)
<1>1. /\ t \in Seq(S) /\ Len(t) = Len(q) - 1 /\ Len(q) \in Nat \ {0}
      /\ \A i \in 1 .. Len(t) : t[i] = q[i + 1]
      /\ Head(q) = q[1] /\ q[1] \in S
  OBVIOUS
<1> HIDE DEF t
<1>2. {t[i] : i \in 1 .. Len(t)} \subseteq {q[i] : i \in 1 .. Len(q)} \ {q[1]}
  BY <1>1
<1>3. ASSUME NEW x \in {q[i] : i \in 1 .. Len(q)} \ {q[1]}
      PROVE  x \in {t[i] : i \in 1 .. Len(t)}
  <2>1. PICK i \in 1 .. Len(q) : x = q[i] /\ i # 1
    BY <1>3
  <2>2. i - 1 \in 1 .. Len(t) /\ t[i - 1] = x
    BY <2>1, <1>1
  <2>3. QED
    BY <2>2
<1>4. \A i, j \in 1 .. Len(t) : t[i] = t[j] => i = j
  BY <1>1
<1>5. QED
  BY <1>1, <1>2, <1>3, <1>4 DEF t

LEMMA QueuedType == buff \in Seq(Elems) => Queued \subseteq Elems
  BY DEF Queued

\* The bytes append_section_data() leaves are again payload units.
LEMMA AppendedType ==
  ASSUME NEW old \in Seq(Units), NEW data \in Seq(Units)
  PROVE  /\ Appended(old, data) \in Seq(Units)
         /\ Len(Appended(old, data)) \in Nat
         /\ data # <<>> => Appended(old, data) # <<>>
<1> DEFINE s == old \o data
<1>1. s \in Seq(Units) /\ Len(s) = Len(old) + Len(data)
  OBVIOUS
<1>2. CASE s # <<>> /\ SecLen[s[1]] < Len(s)
  <2>1. s[1] \in Units /\ SecLen[s[1]] \in Nat \ {0}
    BY <1>1, <1>2, UnitAssumption
  <2> HIDE DEF s
  <2>2. SubSeq(s, 1, SecLen[s[1]]) \in Seq(Units)
          /\ Len(SubSeq(s, 1, SecLen[s[1]])) = SecLen[s[1]]
    <3> DEFINE n == SecLen[s[1]]
    <3>1. n \in Nat \ {0} /\ n < Len(s)
      BY <1>2, <2>1
    <3> HIDE DEF n
    <3>2. SubSeq(s, 1, n) \in Seq(Units) /\ Len(SubSeq(s, 1, n)) = n
      BY <1>1, <3>1, SMTT(60)
    <3>3. QED
      BY <3>2 DEF n
  <2>3. QED
    BY <1>2, <2>1, <2>2 DEF Appended, s
<1>3. CASE ~(s # <<>> /\ SecLen[s[1]] < Len(s))
  BY <1>1, <1>3 DEF Appended
<1>4. QED
  BY <1>2, <1>3

----------------------------------------------------------------------------
\* Elements nobody looks at.

\* An element of which put() may dispose: nobody but the caller knows it.
Loose(e) == e \in Elems /\ e # last /\ e \notin held /\ e \notin Queued

\* The section at work is loose, and so is every element query_work_elem()
\* may choose: this is what the reference counts are for.
LEMMA AvailableLoose ==
  ASSUME IInv
  PROVE  /\ work # Null => Loose(work)
         /\ \A e \in Available : Loose(e) /\ e # work
<1> USE DEF IInv, TypeOK, OnePlace, LastPlaced, RefExact
<1>1. work # Null => Loose(work)
  BY NullAssumption DEF Loose
<1>2. ASSUME NEW e \in Reusable PROVE Loose(e) /\ e # work
  <2>1. e \in pool /\ ref[e] < 1 /\ e \in Elems
    BY <1>2 DEF Reusable
  <2>2. e # last /\ e \notin held /\ e \notin Queued
    BY <2>1
  <2>3. QED
    BY <2>1, <2>2, NullAssumption DEF Loose
<1>3. ASSUME NEW e \in Fresh PROVE Loose(e) /\ e # work
  BY <1>3, NullAssumption DEF Fresh, Allocated, Loose
<1>4. QED
  BY <1>1, <1>2, <1>3 DEF Available

\* The cancel_elem_*() functions preserve the invariant.
LEMMA CancelKeeps ==
  ASSUME IInv, NEW e, Loose(e), Cancel(e),
         work' \in {work, Null}, work' # e, held' = held,
         pid' \in Pids \cup {Null}, rest' \in Seq(Units), r' \in Codes
  PROVE  IInv'
<1> USE DEF IInv, TypeOK, OnePlace, LastPlaced, RefExact, OnlyValid
<1>1. /\ e \in Elems /\ e # last /\ e \notin held /\ e \notin Queued
      /\ raw' = [raw EXCEPT ![e] = <<>>] /\ ref' = [ref EXCEPT ![e] = 0]
      /\ pool' = pool \cup {e} /\ last' = last /\ buff' = buff
  BY DEF Loose, Cancel
<1>2. Queued' = Queued
  BY <1>1 DEF Queued
<1>3. TypeOK'
  BY <1>1
<1>4. OnePlace'
  BY <1>1, <1>2
<1>5. LastPlaced'
  BY <1>1, <1>2
<1>6. RefExact'
  BY <1>1, <1>2
<1>7. OnlyValid'
  <2> SUFFICES ASSUME NEW x \in held' \cup Queued' \cup ({last'} \ {Null})
               PROVE  raw'[x] \in Valid
    OBVIOUS
  <2>1. x # e /\ x \in Elems /\ x \in held \cup Queued \cup ({last} \ {Null})
    BY <1>1, <1>2, QueuedType
  <2>2. QED
    BY <1>1, <2>1
<1>8. QED
  BY <1>3, <1>4, <1>5, <1>6, <1>7

\* commit_elem_updated() preserves the invariant.
LEMMA CommitKeeps ==
  ASSUME IInv, NEW e, NEW s, Loose(e), Commit(e, s), s \in Valid,
         work' \in {work, Null}, work' # e, held' = held,
         pid' \in Pids \cup {Null}, rest' \in Seq(Units), r' \in Codes
  PROVE  IInv'
<1> USE DEF IInv, TypeOK, OnePlace, LastPlaced, RefExact, OnlyValid
<1>1. /\ e \in Elems /\ e # last /\ e \notin held /\ e \notin Queued
      /\ raw' = [raw EXCEPT ![e] = s]
      /\ ref' = [Release(last) EXCEPT ![e] = 2]
      /\ pool' = pool \ {e} /\ last' = e /\ buff' = Append(buff, e)
  BY DEF Loose, Commit
<1>2. /\ buff' \in Seq(Elems)
      /\ Queued' = Queued \cup {e}
      /\ \A i, j \in 1 .. Len(buff') : buff'[i] = buff'[j] => i = j
  <2>1. buff \in Seq(Elems) /\ e \in Elems
    BY <1>1
  <2>2. buff' = Append(buff, e)
    BY <1>1
  <2>3. e \notin {buff[i] : i \in 1 .. Len(buff)}
    BY <1>1 DEF Queued
  <2>4. \A i, j \in 1 .. Len(buff) : buff[i] = buff[j] => i = j
    OBVIOUS
  <2> HIDE DEF IInv, TypeOK, OnePlace, LastPlaced, RefExact, OnlyValid
  <2>5. QED
    BY <2>1, <2>2, <2>3, <2>4, AppendSet DEF Queued
<1>3. \A x \in Elems :
        ref'[x] = IF x = e THEN 2 ELSE IF x = last THEN ref[x] - 1 ELSE ref[x]
  <2>1. last # Null => ref[last] > 0
    BY DEF RefExact
  <2>2. QED
    BY <1>1, <2>1, NullAssumption DEF Release
<1>4. ref' \in [Elems -> Nat]
  <2>1. \A x \in Elems : ref'[x] \in Nat
    <3> TAKE x \in Elems
    <3>1. ref[x] \in Nat /\ (x = last => ref[x] > 0)
      OBVIOUS
    <3>2. ref'[x] = IF x = e THEN 2 ELSE IF x = last THEN ref[x] - 1 ELSE ref[x]
      BY <1>3
    <3> HIDE DEF IInv, TypeOK, OnePlace, LastPlaced, RefExact, OnlyValid
    <3>3. QED
      BY <3>1, <3>2
  <2>2. Release(last) \in [Elems -> Int]
    BY DEF Release
  <2>3. QED
    BY <1>1, <2>1, <2>2
<1>5. TypeOK'
  BY <1>1, <1>2, <1>4, UnitAssumption
<1>6. OnePlace'
  BY <1>1, <1>2
<1>7. LastPlaced'
  BY <1>1, <1>2
<1>8. RefExact'
  <2> SUFFICES ASSUME NEW x \in Elems
               PROVE  ref'[x] = (IF x = last' THEN 1 ELSE 0)
                              + (IF x \in held' \cup Queued' THEN 1 ELSE 0)
    OBVIOUS
  <2>1. CASE x = e
    BY <1>1, <1>2, <1>3, <2>1
  <2>2. CASE x # e
    <3>1. ref[x] = (IF x = last THEN 1 ELSE 0)
                 + (IF x \in held \cup Queued THEN 1 ELSE 0)
      OBVIOUS
    <3>2. x \in held' \cup Queued' <=> x \in held \cup Queued
      BY <1>1, <1>2, <2>2
    <3>3. ref'[x] = (IF x = last THEN ref[x] - 1 ELSE ref[x])
      BY <1>3, <2>2
    <3> HIDE DEF IInv, TypeOK, OnePlace, LastPlaced, RefExact, OnlyValid
    <3>4. QED
      BY <1>1, <2>2, <3>1, <3>2, <3>3
  <2>3. QED
    BY <2>1, <2>2
<1>9. OnlyValid'
  <2> SUFFICES ASSUME NEW x \in held' \cup Queued' \cup ({last'} \ {Null})
               PROVE  raw'[x] \in Valid
    OBVIOUS
  <2>1. x = e \/ (x # e /\ x \in Elems /\ x \in held \cup Queued)
    BY <1>1, <1>2, QueuedType
  <2>2. QED
    BY <1>1, <2>1
<1>10. QED
  BY <1>5, <1>6, <1>7, <1>8, <1>9

\* Hence so does everything put() does with a finished section.
LEMMA SettleKeeps ==
  ASSUME IInv, NEW e, NEW s, NEW code \in Codes, Loose(e), Settle(e, s, code),
         work' \in {work, Null}, work' # e, held' = held,
         pid' \in Pids \cup {Null}, rest' \in Seq(Units)
  PROVE  IInv'
<1>1. CASE s \notin Valid /\ Cancel(e) /\ r' = "crc"
  BY <1>1, CancelKeeps DEF Codes
<1>2. CASE Cancel(e) /\ r' = code
  BY <1>2, CancelKeeps
<1>3. CASE s \in Valid /\ Commit(e, s) /\ r' = code
  BY <1>3, CommitKeeps
<1>4. QED
  BY <1>1, <1>2, <1>3 DEF Settle

----------------------------------------------------------------------------
\* The inductive invariant, one step per operation.

LEMMA InitIInv == Init => IInv
  BY NullAssumption
  DEF Init, IInv, TypeOK, OnePlace, LastPlaced, RefExact, OnlyValid, Codes, Queued

LEMMA PutContinuationKeeps ==
  ASSUME IInv, NEW pkt \in TsPacket, PutContinuation(pkt)
  PROVE  IInv'
<1>1. pkt.pid \in Pids /\ pkt.data \in Seq(Units)
  BY DEF TsPacket
<1>2. pid' \in Pids \cup {Null} /\ rest' \in Seq(Units) /\ held' = held
  BY <1>1 DEF PutContinuation, IInv, TypeOK
<1>3. CASE work = Null
  <2>1. /\ UNCHANGED <<work, last, pool, buff, ref, raw, held>>
        /\ r' = "ok" /\ Queued' = Queued
    BY <1>3 DEF PutContinuation, Queued
  <2>2. QED
    BY <1>2, <2>1
    DEF IInv, TypeOK, OnePlace, LastPlaced, RefExact, OnlyValid, Codes
<1>4. CASE work # Null
  <2>1. PICK e \in Elems : e = work
    BY <1>4 DEF IInv, TypeOK
  <2>2. PICK s : s = Appended(raw[e], pkt.data)
    OBVIOUS
  <2>3. Loose(e) /\ s \in Seq(Units)
    BY <1>1, <1>4, <2>1, <2>2, AvailableLoose, AppendedType DEF IInv, TypeOK
  <2>4. CASE Complete(s)
    <3>1. work' = Null /\ Settle(e, s, "ok")
      BY <1>4, <2>1, <2>2, <2>4 DEF PutContinuation
    <3>2. QED
      BY <1>2, <2>3, <3>1, NullAssumption, SettleKeeps DEF Codes
  <2>5. CASE ~Complete(s)
    <3>1. /\ UNCHANGED <<work, last, pool, buff, ref, held>>
          /\ raw' = [raw EXCEPT ![e] = s] /\ r' = "ok" /\ Queued' = Queued
      BY <1>4, <2>1, <2>2, <2>5 DEF PutContinuation, Queued
    <3>2. TypeOK'
      BY <1>2, <2>3, <3>1 DEF IInv, TypeOK, Codes
    <3>3. OnlyValid'
      BY <2>1, <2>3, <3>1, QueuedType DEF IInv, TypeOK, OnlyValid, Loose
    <3>4. QED
      BY <3>1, <3>2, <3>3 DEF IInv, OnePlace, LastPlaced, RefExact
  <2>6. QED
    BY <2>4, <2>5
<1>5. QED
  BY <1>3, <1>4

LEMMA PutBrokenPointerKeeps ==
  ASSUME IInv, NEW pkt \in TsPacket, PutBrokenPointer(pkt)
  PROVE  IInv'
<1>1. pkt.pid \in Pids
  BY DEF TsPacket
<1>2. /\ pid' \in Pids \cup {Null} /\ rest' \in Seq(Units)
      /\ held' = held /\ work' = Null
  BY <1>1 DEF PutBrokenPointer, IInv, TypeOK
<1>3. CASE work = Null
  <2>1. /\ UNCHANGED <<work, last, pool, buff, ref, raw, held>>
        /\ r' = "ok" /\ Queued' = Queued
    BY <1>3 DEF PutBrokenPointer, Queued
  <2>2. QED
    BY <1>2, <2>1
    DEF IInv, TypeOK, OnePlace, LastPlaced, RefExact, OnlyValid, Codes
<1>4. CASE work # Null
  <2>1. PICK e \in Elems : e = work
    BY <1>4 DEF IInv, TypeOK
  <2>2. Loose(e) /\ Cancel(e) /\ r' \in Codes
    BY <1>4, <2>1, AvailableLoose DEF PutBrokenPointer, Codes
  <2>3. QED
    BY <1>2, <2>2, NullAssumption, CancelKeeps DEF Loose
<1>5. QED
  BY <1>3, <1>4

LEMMA PutStartKeeps ==
  ASSUME IInv, NEW pkt \in TsPacket, PutStart(pkt)
  PROVE  IInv'
<1>1. /\ pkt.pid \in Pids /\ pkt.data \in Seq(Units) /\ pkt.ptr \in Nat
      /\ pkt.ptr < Len(pkt.data)
  BY DEF TsPacket, PutStart
<1>2. /\ SubSeq(pkt.data, 1, pkt.ptr) \in Seq(Units)
      /\ SubSeq(pkt.data, pkt.ptr + 1, Len(pkt.data)) \in Seq(Units)
  <2>1. Len(pkt.data) \in Nat /\ pkt.ptr + 1 \in 1 .. Len(pkt.data)
    BY <1>1
  <2>2. \A i \in 1 .. Len(pkt.data) : pkt.data[i] \in Units
    BY <1>1
  <2>3. QED
    BY <1>1, <2>1, <2>2
<1>3. /\ pid' \in Pids \cup {Null} /\ rest' \in Seq(Units)
      /\ held' = held /\ work' = Null
  BY <1>1, <1>2 DEF PutStart
<1>4. CASE work = Null
  <2>1. /\ UNCHANGED <<work, last, pool, buff, ref, raw, held>>
        /\ r' = "ok" /\ Queued' = Queued
    BY <1>4 DEF PutStart, Queued
  <2>2. QED
    BY <1>3, <2>1
    DEF IInv, TypeOK, OnePlace, LastPlaced, RefExact, OnlyValid, Codes
<1>5. CASE work # Null
  <2>1. PICK e \in Elems : e = work
    BY <1>5 DEF IInv, TypeOK
  <2>2. PICK s : s = Appended(raw[e], SubSeq(pkt.data, 1, pkt.ptr))
    OBVIOUS
  <2>3. Loose(e) /\ work' # e
    BY <1>3, <1>5, <2>1, NullAssumption, AvailableLoose
  <2>4. \/ Settle(e, s, "ok")
        \/ r' = "length" /\ Cancel(e)
    BY <1>5, <2>1, <2>2 DEF PutStart
  <2>5. CASE Settle(e, s, "ok")
    BY <1>3, <2>3, <2>5, SettleKeeps DEF Codes
  <2>6. CASE r' = "length" /\ Cancel(e)
    BY <1>3, <2>3, <2>6, CancelKeeps DEF Codes
  <2>7. QED
    BY <2>4, <2>5, <2>6
<1>6. QED
  BY <1>4, <1>5

LEMMA PutSectionKeeps ==
  ASSUME IInv, PutSection
  PROVE  IInv'
<1>1. PICK e \in Available :
        LET s == Appended(<<>>, rest)
            left == SubSeq(rest, Len(s) + 1, Len(rest))
        IN  IF Complete(s)
              THEN /\ Settle(e, s, r)
                   /\ rest' = IF left # <<>> /\ left[1] # Pad THEN left ELSE <<>>
                   /\ UNCHANGED work
              ELSE /\ work' = e
                   /\ raw' = [raw EXCEPT ![e] = s]
                   /\ ref' = [ref EXCEPT ![e] = 0]
                   /\ pool' = pool \ {e}
                   /\ r' = "ok"
                   /\ rest' = <<>>
                   /\ UNCHANGED <<last, buff>>
  BY DEF PutSection
<1>2. Loose(e) /\ e # work /\ e \in Elems
  BY <1>1, AvailableLoose DEF Loose
<1>3. /\ rest \in Seq(Units) /\ Len(rest) \in Nat /\ r \in Codes
      /\ pid' = pid /\ held' = held /\ pid \in Pids \cup {Null}
  BY DEF PutSection, IInv, TypeOK
<1>4. PICK s : s = Appended(<<>>, rest)
  OBVIOUS
<1>5. s \in Seq(Units) /\ Len(s) \in Nat
  <2>1. <<>> \in Seq(Units)
    OBVIOUS
  <2>2. QED
    BY <1>3, <1>4, <2>1, AppendedType
<1>6. CASE Complete(s)
  <2>1. SubSeq(rest, Len(s) + 1, Len(rest)) \in Seq(Units)
    <3>1. \A i \in 1 .. Len(rest) : rest[i] \in Units
      BY <1>3
    <3>2. QED
      BY <1>3, <1>5, <3>1
  <2>2. /\ Settle(e, s, r) /\ work' = work
        /\ rest' = IF /\ SubSeq(rest, Len(s) + 1, Len(rest)) # <<>>
                     /\ SubSeq(rest, Len(s) + 1, Len(rest))[1] # Pad
                  THEN SubSeq(rest, Len(s) + 1, Len(rest)) ELSE <<>>
    BY <1>1, <1>4, <1>6, Zenon
  <2>3. <<>> \in Seq(Units)
    OBVIOUS
  <2>4. rest' \in Seq(Units)
    BY <2>1, <2>2, <2>3
  <2>5. QED
    BY <1>2, <1>3, <2>2, <2>4, SettleKeeps
<1>7. CASE ~Complete(s)
  <2>1. /\ work' = e /\ raw' = [raw EXCEPT ![e] = s]
        /\ ref' = [ref EXCEPT ![e] = 0] /\ pool' = pool \ {e}
        /\ r' = "ok" /\ rest' = <<>>
        /\ last' = last /\ buff' = buff /\ Queued' = Queued
    BY <1>1, <1>4, <1>7 DEF Queued
  <2>2. TypeOK'
    BY <1>2, <1>3, <1>5, <2>1 DEF IInv, TypeOK, Codes
  <2>3. OnePlace' /\ LastPlaced'
    BY <1>2, <1>3, <2>1 DEF IInv, TypeOK, OnePlace, LastPlaced, Loose
  <2>4. RefExact'
    BY <1>2, <1>3, <2>1 DEF IInv, TypeOK, RefExact, Loose
  <2>5. OnlyValid'
    BY <1>2, <1>3, <2>1, QueuedType DEF IInv, TypeOK, OnlyValid, Loose
  <2>6. QED
    BY <2>2, <2>3, <2>4, <2>5 DEF IInv
<1>8. QED
  BY <1>6, <1>7

LEMMA GetKeeps ==
  ASSUME IInv, Get
  PROVE  IInv'
<1> DEFINE h == Head(buff)
<1>1. /\ held' = held \cup {h} /\ pool' = pool \cup {h} /\ buff' = Tail(buff)
      /\ UNCHANGED <<pid, work, last, ref, raw, rest, r>>
  BY DEF Get
<1>2. /\ buff' \in Seq(Elems) /\ h \in Elems /\ h \in Queued
      /\ Queued' = Queued \ {h}
      /\ \A i, j \in 1 .. Len(buff') : buff'[i] = buff'[j] => i = j
  <2>1. buff \in Seq(Elems) /\ buff # <<>> /\ buff' = Tail(buff)
    BY DEF Get, IInv, TypeOK
  <2>2. \A i, j \in 1 .. Len(buff) : buff[i] = buff[j] => i = j
    BY DEF IInv, OnePlace
  <2>3. /\ Tail(buff) \in Seq(Elems)
        /\ h \in Elems
        /\ h \in {buff[i] : i \in 1 .. Len(buff)}
        /\ {Tail(buff)[i] : i \in 1 .. Len(Tail(buff))}
             = {buff[i] : i \in 1 .. Len(buff)} \ {h}
        /\ \A i, j \in 1 .. Len(Tail(buff)) : Tail(buff)[i] = Tail(buff)[j] => i = j
    BY <2>1, <2>2, TailSet
  <2> HIDE DEF h
  <2>4. Queued' = {Tail(buff)[i] : i \in 1 .. Len(Tail(buff))}
    BY <2>1, Zenon DEF Queued
  <2>5. Queued' = Queued \ {h} /\ h \in Queued
    BY <2>3, <2>4, Zenon DEF Queued
  <2>6. \A i, j \in 1 .. Len(buff') : buff'[i] = buff'[j] => i = j
    BY <2>1, <2>3, Zenon
  <2>7. buff' \in Seq(Elems) /\ h \in Elems
    BY <2>1, <2>3, Zenon
  <2>8. QED
    BY <2>5, <2>6, <2>7, Zenon
<1> HIDE DEF h
<1>3. TypeOK'
  BY <1>1, <1>2 DEF IInv, TypeOK
<1>4. OnePlace' /\ LastPlaced'
  BY <1>1, <1>2 DEF IInv, OnePlace, LastPlaced
<1>5. held' \cup Queued' = held \cup Queued
  BY <1>1, <1>2
<1>6. RefExact' /\ OnlyValid'
  BY <1>1, <1>5 DEF IInv, RefExact, OnlyValid
<1>7. QED
  BY <1>3, <1>4, <1>6 DEF IInv

LEMMA RetKeeps ==
  ASSUME IInv, NEW e \in Elems, Ret(e)
  PROVE  IInv'
<1>1. /\ e \in held /\ held' = held \ {e} /\ Queued' = Queued
      /\ UNCHANGED <<pid, work, last, pool, buff, raw, rest, r>>
  BY DEF Ret, Queued
<1>2. e \in pool /\ e \notin Queued
  BY <1>1 DEF IInv, OnePlace
<1>3. ref[e] \in Nat /\ ref[e] > 0
  <2>1. ref[e] = (IF e = last THEN 1 ELSE 0)
               + (IF e \in held \cup Queued THEN 1 ELSE 0)
    BY DEF IInv, RefExact
  <2>2. ref[e] = (IF e = last THEN 1 ELSE 0) + 1
    BY <1>1, <2>1
  <2>3. QED
    BY <2>2
<1>4. ref' = [ref EXCEPT ![e] = @ - 1]
  BY <1>2, <1>3, NullAssumption DEF Ret, Release
<1>5. TypeOK'
  BY <1>1, <1>3, <1>4 DEF IInv, TypeOK
<1>6. RefExact'
  <2> SUFFICES ASSUME NEW x \in Elems
               PROVE  ref'[x] = (IF x = last' THEN 1 ELSE 0)
                              + (IF x \in held' \cup Queued' THEN 1 ELSE 0)
    BY DEF RefExact
  <2>1. ref[x] = (IF x = last THEN 1 ELSE 0)
               + (IF x \in held \cup Queued THEN 1 ELSE 0)
    BY DEF IInv, RefExact
  <2>2. ref'[x] = IF x = e THEN ref[x] - 1 ELSE ref[x]
    BY <1>4 DEF IInv, TypeOK
  <2>3. QED
    BY <1>1, <1>2, <2>1, <2>2
<1>7. OnePlace' /\ LastPlaced' /\ OnlyValid'
  BY <1>1 DEF IInv, OnePlace, LastPlaced, OnlyValid
<1>8. QED
  BY <1>5, <1>6, <1>7 DEF IInv

LEMMA ResetKeeps ==
  ASSUME IInv, Reset
  PROVE  IInv'
<1>1. Queued' = {}
  BY DEF Reset, Queued
<1>2. QED
  BY <1>1, NullAssumption
  DEF Reset, IInv, TypeOK, OnePlace, LastPlaced, RefExact, OnlyValid

\* A step that leaves the elements alone.
LEMMA NothingKeeps ==
  ASSUME IInv, UNCHANGED <<pid, work, last, pool, buff, raw, ref, held>>,
         rest' \in {rest, <<>>}, r' \in Codes
  PROVE  IInv'
<1>1. Queued' = Queued
  BY DEF Queued
<1>2. TypeOK'
  <2>1. <<>> \in Seq(Units) /\ rest \in Seq(Units)
    BY DEF IInv, TypeOK
  <2>2. rest' \in Seq(Units)
    BY <2>1
  <2>3. QED
    BY <2>2 DEF IInv, TypeOK
<1>3. OnePlace' /\ LastPlaced' /\ RefExact' /\ OnlyValid'
  BY <1>1 DEF IInv, OnePlace, LastPlaced, RefExact, OnlyValid
<1>4. QED
  BY <1>2, <1>3 DEF IInv

LEMMA PutNoMemoryKeeps == ASSUME IInv, PutNoMemory PROVE IInv'
  BY NothingKeeps DEF PutNoMemory, Codes

LEMMA StutterKeeps == ASSUME IInv, UNCHANGED vars PROVE IInv'
<1>1. r' \in Codes
  BY DEF vars, IInv, TypeOK
<1>2. QED
  BY <1>1, NothingKeeps DEF vars

\* put() may be called with any packet, not only with those of Packets.
LEMMA PutKeeps ==
  ASSUME IInv, NEW pkt \in TsPacket, Put(pkt)
  PROVE  IInv'
<1>1. CASE PutOtherPid(pkt)
  BY <1>1, NothingKeeps DEF PutOtherPid, Codes
<1>2. QED
  BY <1>1, PutContinuationKeeps, PutBrokenPointerKeeps, PutStartKeeps DEF Put

LEMMA NextIInv == IInv /\ [Next]_vars => IInv'
<1> SUFFICES ASSUME IInv, [Next]_vars PROVE IInv'
  OBVIOUS
<1>1. CASE \E pkt \in Packets : Put(pkt)
  BY <1>1, PutKeeps, PacketAssumption
<1>2. CASE PutSection
  BY <1>2, PutSectionKeeps
<1>3. CASE PutNoMemory
  BY <1>3, PutNoMemoryKeeps
<1>4. CASE Get
  BY <1>4, GetKeeps
<1>5. CASE \E e \in Elems : Ret(e)
  BY <1>5, RetKeeps
<1>6. CASE Reset
  BY <1>6, ResetKeeps
<1>7. CASE UNCHANGED vars
  BY <1>7, StutterKeeps
<1>8. QED
  BY <1>1, <1>2, <1>3, <1>4, <1>5, <1>6, <1>7 DEF Next

\* The bookkeeping of the parser's elements is right in every reachable state.
THEOREM InvariantHolds == Spec => []IInv
  BY InitIInv, NextIInv, PTL DEF Spec

\* Every variable keeps its type: no count drops below zero, no list gets a
\* foreign element.
THEOREM TypeCorrect == Spec => []TypeOK
<1>1. IInv => TypeOK
  BY DEF IInv
<1>2. QED
  BY <1>1, InvariantHolds, PTL

\* No element is ever in two lists, or twice in the queue of get().
THEOREM ElementsInOnePlace == Spec => []OnePlace
<1>1. IInv => OnePlace
  BY DEF IInv
<1>2. QED
  BY <1>1, InvariantHolds, PTL

\* The reference counts of commit_elem_updated() and ret() are exact.
THEOREM ReferenceCountsExact == Spec => []RefExact
<1>1. IInv => RefExact
  BY DEF IInv
<1>2. QED
  BY <1>1, InvariantHolds, PTL

\* Only sections that pass the checksum test leave the parser.
THEOREM OnlyValidSections == Spec => []OnlyValid
<1>1. IInv => OnlyValid
  BY DEF IInv
<1>2. QED
  BY <1>1, InvariantHolds, PTL

----------------------------------------------------------------------------
\* Action properties.

\* A step that empties or fills an element writes a loose one.
LEMMA SettleWrites ==
  ASSUME IInv, NEW e, NEW s, NEW code, Loose(e), Settle(e, s, code)
  PROVE  /\ \A x \in Elems \ {e} : raw'[x] = raw[x]
         /\ last' # last => last' = e /\ raw'[e] = s /\ ~SameAsLast(s)
<1>1. e \in Elems /\ raw \in [Elems -> Seq(Units)]
  BY DEF Loose, IInv, TypeOK
<1>2. CASE Cancel(e)
  BY <1>1, <1>2 DEF Cancel
<1>3. CASE Commit(e, s) /\ ~SameAsLast(s)
  BY <1>1, <1>3 DEF Commit
<1>4. QED
  BY <1>2, <1>3 DEF Settle

\* What a step may write, for every operation: memory the reader was not lent.
StepWrites == \A x \in held : x \in held' => raw'[x] = raw[x]

LEMMA SettleStep ==
  ASSUME IInv, NEW e, NEW s, NEW code, Loose(e), Settle(e, s, code)
  PROVE  StepWrites
<1>1. \A x \in Elems \ {e} : raw'[x] = raw[x]
  BY SettleWrites
<1>2. held \subseteq Elems \ {e}
  BY DEF Loose, IInv, TypeOK
<1>3. QED
  BY <1>1, <1>2 DEF StepWrites

\* A step that writes at most one loose element.
LEMMA LooseStep ==
  ASSUME IInv, NEW e, Loose(e), NEW s, raw' = [raw EXCEPT ![e] = s]
  PROVE  StepWrites
  BY DEF StepWrites, Loose, IInv, TypeOK

LEMMA PutStep ==
  ASSUME IInv, NEW pkt \in TsPacket, Put(pkt)
  PROVE  StepWrites
<1>1. CASE raw' = raw
  BY <1>1 DEF StepWrites
<1>2. CASE work # Null /\ raw' # raw
  <2>1. PICK e \in Elems : e = work
    BY <1>2 DEF IInv, TypeOK
  <2>2. Loose(e)
    BY <1>2, <2>1, AvailableLoose
  <2>3. CASE PutContinuation(pkt)
    <3>1. PICK s : s = Appended(raw[e], pkt.data)
      OBVIOUS
    <3>2. \/ Settle(e, s, "ok")
          \/ raw' = [raw EXCEPT ![e] = s]
      BY <1>2, <2>1, <2>3, <3>1 DEF PutContinuation
    <3>3. QED
      BY <2>2, <3>2, SettleStep, LooseStep
  <2>4. CASE PutBrokenPointer(pkt)
    BY <1>2, <2>1, <2>2, <2>4, LooseStep DEF PutBrokenPointer, Cancel
  <2>5. CASE PutStart(pkt)
    <3>1. PICK s : s = Appended(raw[e], SubSeq(pkt.data, 1, pkt.ptr))
      OBVIOUS
    <3>2. \/ Settle(e, s, "ok")
          \/ raw' = [raw EXCEPT ![e] = <<>>]
      BY <1>2, <2>1, <2>5, <3>1 DEF PutStart, Cancel
    <3>3. QED
      BY <2>2, <3>2, SettleStep, LooseStep
  <2>6. QED
    BY <1>2, <2>3, <2>4, <2>5 DEF Put, PutOtherPid
<1>3. CASE work = Null
  BY <1>1, <1>3 DEF Put, PutOtherPid, PutContinuation, PutBrokenPointer, PutStart
<1>4. QED
  BY <1>1, <1>2, <1>3

LEMMA PutSectionStep ==
  ASSUME IInv, PutSection
  PROVE  StepWrites
<1>1. PICK e \in Available : \E s :
        \/ Settle(e, s, r)
        \/ raw' = [raw EXCEPT ![e] = s]
  BY Zenon DEF PutSection
<1>2. Loose(e)
  BY <1>1, AvailableLoose
<1>3. QED
  BY <1>1, <1>2, SettleStep, LooseStep

LEMMA NextStepWrites == IInv /\ Next => StepWrites
<1> SUFFICES ASSUME IInv, Next PROVE StepWrites
  OBVIOUS
<1>1. CASE \E pkt \in Packets : Put(pkt)
  BY <1>1, PutStep, PacketAssumption
<1>2. CASE PutSection
  BY <1>2, PutSectionStep
<1>3. CASE PutNoMemory \/ Get \/ \E e \in Elems : Ret(e)
  BY <1>3 DEF PutNoMemory, Get, Ret, StepWrites
<1>4. CASE Reset
  BY <1>4 DEF Reset, StepWrites
<1>5. QED
  BY <1>1, <1>2, <1>3, <1>4 DEF Next

\* What get() lent to the reader stays as it is until ret().
THEOREM LoansAreUntouched == Spec => LoanUntouched
<1>1. IInv /\ [Next]_vars => [\A e \in held \cap held' : raw'[e] = raw[e]]_vars
  BY NextStepWrites DEF StepWrites
<1>2. QED
  BY <1>1, InvariantHolds, PTL DEF Spec, LoanUntouched

----------------------------------------------------------------------------
\* The parser implements SectionFeed: what its reader sees is a queue of valid
\* sections, the newest of them and the sections it was lent, although the parser
\* keeps them in elements that are counted, pooled and used again.  Every operation
\* is one step of the feed or none; the invariant says that only an element nobody
\* looks at is written.

\* What the reader can see of the elements.
Visible == held \cup Queued \cup ({last} \ {Null})

\* A sequence is the function of its elements.
LEMMA SequenceIsFunction ==
  ASSUME NEW S, NEW q \in Seq(S)
  PROVE  q = [i \in 1 .. Len(q) |-> q[i]]
  OBVIOUS

LEMMA LooseIsInvisible ==
  ASSUME IInv, NEW e, Loose(e)
  PROVE  e \in Elems /\ e \notin Visible /\ Visible \subseteq Elems
  BY QueuedType DEF Loose, Visible, IInv, TypeOK

\* As long as the reader's elements stay what they are, it sees nothing.
LEMMA FeedStutters ==
  ASSUME IInv, UNCHANGED <<buff, last, held>>, \A x \in Visible : raw'[x] = raw[x]
  PROVE  UNCHANGED Feed!feedVars
<1>1. [i \in 1 .. Len(buff') |-> raw'[buff'[i]]] = [i \in 1 .. Len(buff) |-> raw[buff[i]]]
  <2>1. \A i \in 1 .. Len(buff) : raw'[buff[i]] = raw[buff[i]]
    BY DEF Visible, Queued
  <2>2. QED
    BY <2>1
<1>2. (IF last' = Null THEN Null ELSE raw'[last']) = (IF last = Null THEN Null ELSE raw[last])
  BY DEF Visible
<1>3. [x \in held' |-> raw'[x]] = [x \in held |-> raw[x]]
  BY DEF Visible
<1>4. QED
  BY <1>1, <1>2, <1>3 DEF Feed!feedVars

\* An element is emptied or filled that nobody looks at.
LEMMA LooseStutters ==
  ASSUME IInv, NEW e, NEW s, Loose(e), raw' = [raw EXCEPT ![e] = s],
         UNCHANGED <<buff, last, held>>
  PROVE  UNCHANGED Feed!feedVars
<1>1. \A x \in Visible : raw'[x] = raw[x]
  BY LooseIsInvisible DEF IInv, TypeOK
<1>2. QED
  BY <1>1, FeedStutters

\* commit_elem_updated() is the one place where the feed accepts a section.
LEMMA CommitAccepts ==
  ASSUME IInv, NEW e, NEW s \in Valid, Loose(e), Commit(e, s), ~SameAsLast(s), held' = held
  PROVE  Feed!Accept(s)
<1>1. /\ raw' = [raw EXCEPT ![e] = s] /\ last' = e /\ buff' = Append(buff, e)
      /\ raw \in [Elems -> Seq(Units)] /\ buff \in Seq(Elems)
      /\ held \subseteq Elems /\ last \in Elems \cup {Null}
      /\ e \in Elems /\ e \notin Visible /\ Visible \subseteq Elems
  BY LooseIsInvisible DEF Commit, IInv, TypeOK
<1>2. \A x \in Visible : raw'[x] = raw[x]
  BY <1>1
<1>3. raw'[e] = s /\ e # Null /\ s # Null
  BY <1>1, NullAssumption
<1>4. s # (IF last = Null THEN Null ELSE raw[last])
  BY <1>3 DEF SameAsLast
<1>5. [i \in 1 .. Len(buff') |-> raw'[buff'[i]]]
        = Append([i \in 1 .. Len(buff) |-> raw[buff[i]]], s)
  <2> DEFINE q == [i \in 1 .. Len(buff) |-> raw[buff[i]]]
             a == [i \in 1 .. Len(buff') |-> raw'[buff'[i]]]
  <2>1. /\ Len(buff) \in Nat /\ Len(buff') = Len(buff) + 1
        /\ \A i \in 1 .. Len(buff) : buff'[i] = buff[i] /\ buff[i] \in Elems
        /\ buff'[Len(buff) + 1] = e
    BY <1>1
  <2>2. \A i \in 1 .. Len(buff) : raw'[buff'[i]] = raw[buff[i]]
    BY <1>2, <2>1 DEF Visible, Queued
  <2>3. s \in Seq(Units)
    BY UnitAssumption
  <2>4. q \in Seq(Seq(Units)) /\ Len(q) = Len(buff)
    BY <1>1, <2>1
  <2>5. /\ Append(q, s) \in Seq(Seq(Units)) /\ Len(Append(q, s)) = Len(buff) + 1
        /\ \A i \in 1 .. Len(buff) : Append(q, s)[i] = raw[buff[i]]
        /\ Append(q, s)[Len(buff) + 1] = s
    BY <2>1, <2>3, <2>4
  <2>6. a = [i \in 1 .. Len(buff) + 1 |-> Append(q, s)[i]]
    BY <1>3, <2>1, <2>2, <2>5
  <2> HIDE DEF a, q
  <2>7. Append(q, s) = [i \in 1 .. Len(buff) + 1 |-> Append(q, s)[i]]
    BY <2>5, SequenceIsFunction
  <2>8. QED
    BY <2>6, <2>7 DEF a, q
<1>6. (IF last' = Null THEN Null ELSE raw'[last']) = s
  BY <1>1, <1>3
<1>7. [x \in held' |-> raw'[x]] = [x \in held |-> raw[x]]
  BY <1>2 DEF Visible
<1>8. QED
  BY <1>4, <1>5, <1>6, <1>7 DEF Feed!Accept

\* What put() does with a finished section.
LEMMA SettleImplements ==
  ASSUME IInv, NEW e, NEW s, NEW code, Loose(e), Settle(e, s, code), held' = held
  PROVE  [Feed!FeedNext]_(Feed!feedVars)
<1>1. CASE Cancel(e)
  BY <1>1, LooseStutters DEF Cancel
<1>2. CASE s \in Valid /\ Commit(e, s) /\ ~SameAsLast(s)
  BY <1>2, CommitAccepts DEF Feed!FeedNext
<1>3. QED
  BY <1>1, <1>2 DEF Settle

----------------------------------------------------------------------------
\* One step per operation.

LEMMA PutImplements ==
  ASSUME IInv, NEW pkt \in TsPacket, Put(pkt)
  PROVE  [Feed!FeedNext]_(Feed!feedVars)
<1>1. held' = held
  BY DEF Put, PutOtherPid, PutContinuation, PutBrokenPointer, PutStart
<1>2. CASE UNCHANGED <<buff, last, raw>>
  BY <1>1, <1>2, FeedStutters
<1>3. CASE work # Null /\ ~UNCHANGED <<buff, last, raw>>
  <2>1. PICK e \in Elems : e = work
    BY <1>3 DEF IInv, TypeOK
  <2>2. Loose(e)
    BY <1>3, <2>1, AvailableLoose
  <2>3. CASE PutContinuation(pkt)
    <3>1. PICK s : s = Appended(raw[e], pkt.data)
      OBVIOUS
    <3>2. \/ Settle(e, s, "ok")
          \/ raw' = [raw EXCEPT ![e] = s] /\ UNCHANGED <<buff, last>>
      BY <1>3, <2>1, <2>3, <3>1 DEF PutContinuation
    <3>3. QED
      BY <1>1, <2>2, <3>2, SettleImplements, LooseStutters
  <2>4. CASE PutBrokenPointer(pkt)
    <3>1. Cancel(e)
      BY <1>3, <2>1, <2>4 DEF PutBrokenPointer
    <3>2. QED
      BY <1>1, <2>2, <3>1, LooseStutters DEF Cancel
  <2>5. CASE PutStart(pkt)
    <3>1. PICK s : s = Appended(raw[e], SubSeq(pkt.data, 1, pkt.ptr))
      OBVIOUS
    <3>2. Settle(e, s, "ok") \/ Cancel(e)
      BY <1>3, <2>1, <2>5, <3>1 DEF PutStart
    <3>3. QED
      BY <1>1, <2>2, <3>2, SettleImplements, LooseStutters DEF Cancel
  <2>6. QED
    BY <1>3, <2>3, <2>4, <2>5 DEF Put, PutOtherPid
<1>4. CASE work = Null
  BY <1>2, <1>4 DEF Put, PutOtherPid, PutContinuation, PutBrokenPointer, PutStart
<1>5. QED
  BY <1>2, <1>3, <1>4

LEMMA PutSectionImplements ==
  ASSUME IInv, PutSection
  PROVE  [Feed!FeedNext]_(Feed!feedVars)
<1>1. PICK e \in Available : \E s :
        \/ Settle(e, s, r)
        \/ raw' = [raw EXCEPT ![e] = s] /\ UNCHANGED <<buff, last>>
  BY Zenon DEF PutSection
<1>2. Loose(e) /\ held' = held
  BY <1>1, AvailableLoose DEF PutSection
<1>3. QED
  BY <1>1, <1>2, SettleImplements, LooseStutters

\* get() lends the oldest section: it is not lent already.
LEMMA GetImplements ==
  ASSUME IInv, Get
  PROVE  \E h \in Elems : Feed!Lend(h)
<1>1. /\ buff \in Seq(Elems) /\ buff # <<>> /\ raw \in [Elems -> Seq(Units)]
      /\ held' = held \cup {Head(buff)} /\ buff' = Tail(buff)
      /\ raw' = raw /\ last' = last
  BY DEF Get, IInv, TypeOK
<1>2. PICK h \in Elems : h = Head(buff) /\ h = buff[1] /\ 1 \in 1 .. Len(buff)
  BY <1>1
<1>3. h \notin held
  BY <1>2 DEF IInv, OnePlace, Queued
<1> DEFINE q == [i \in 1 .. Len(buff) |-> raw[buff[i]]]
           t == [i \in 1 .. Len(buff') |-> raw'[buff'[i]]]
<1>4. q \in Seq(Seq(Units)) /\ Len(q) = Len(buff) /\ q # <<>> /\ Head(q) = raw[h]
  <2>1. q \in Seq(Seq(Units)) /\ Len(q) = Len(buff) /\ Len(buff) > 0
    BY <1>1
  <2>2. q # <<>> /\ Head(q) = q[1]
    BY <2>1
  <2>3. QED
    BY <1>2, <2>1, <2>2
<1>5. t = Tail(q)
  <2>1. Len(buff') = Len(buff) - 1 /\ \A i \in 1 .. Len(buff') : buff'[i] = buff[i + 1]
    BY <1>1
  <2>2. /\ Tail(q) \in Seq(Seq(Units)) /\ Len(Tail(q)) = Len(buff) - 1
        /\ \A i \in 1 .. Len(buff) - 1 : Tail(q)[i] = q[i + 1]
    BY <1>4
  <2>3. t = [i \in 1 .. Len(buff) - 1 |-> Tail(q)[i]]
    BY <1>1, <2>1, <2>2
  <2> HIDE DEF q, t
  <2>4. Tail(q) = [i \in 1 .. Len(buff) - 1 |-> Tail(q)[i]]
    BY <2>2, SequenceIsFunction
  <2>5. QED
    BY <2>3, <2>4
<1> HIDE DEF q, t
<1>6. [x \in held' |-> raw'[x]]
        = [x \in held \cup {h} |-> IF x = h THEN Head(q) ELSE [y \in held |-> raw[y]][x]]
  BY <1>1, <1>2, <1>3, <1>4
<1>7. DOMAIN [y \in held |-> raw[y]] = held
  OBVIOUS
<1>8. Feed!Lend(h)
  BY <1>1, <1>3, <1>4, <1>5, <1>6, <1>7, Zenon DEF Feed!Lend, q, t
<1>9. QED
  BY <1>8

LEMMA RetImplements ==
  ASSUME IInv, NEW e \in Elems, Ret(e)
  PROVE  Feed!GiveBack(e)
<1>1. e \in held /\ held' = held \ {e} /\ UNCHANGED <<buff, last, raw>>
  BY DEF Ret
<1>2. QED
  BY <1>1 DEF Feed!GiveBack

LEMMA ResetImplements ==
  ASSUME IInv, Reset
  PROVE  Feed!Clear
<1>1. held = {} /\ held' = {} /\ buff' = <<>> /\ last' = Null
  BY DEF Reset
<1>2. [i \in 1 .. Len(buff') |-> raw'[buff'[i]]] = <<>>
  BY <1>1
<1>3. [x \in held' |-> raw'[x]] = [x \in held |-> raw[x]]
  BY <1>1
<1>4. QED
  BY <1>1, <1>2, <1>3 DEF Feed!Clear

LEMMA InitImplements == Init => Feed!FeedInit
<1> SUFFICES ASSUME Init PROVE Feed!FeedInit
  OBVIOUS
<1>1. buff = <<>> /\ last = Null /\ held = {}
  BY DEF Init
<1>2. [i \in 1 .. Len(buff) |-> raw[buff[i]]] = <<>>
  BY <1>1
<1>3. [x \in held |-> raw[x]] = [h \in {} |-> Null]
  BY <1>1
<1>4. QED
  BY <1>1, <1>2, <1>3 DEF Feed!FeedInit

LEMMA NextImplements == IInv /\ [Next]_vars => [Feed!FeedNext]_(Feed!feedVars)
<1> SUFFICES ASSUME IInv, [Next]_vars PROVE [Feed!FeedNext]_(Feed!feedVars)
  OBVIOUS
<1>1. CASE \E pkt \in Packets : Put(pkt)
  BY <1>1, PutImplements, PacketAssumption
<1>2. CASE PutSection
  BY <1>2, PutSectionImplements
<1>3. CASE PutNoMemory \/ UNCHANGED vars
  BY <1>3, FeedStutters DEF PutNoMemory, vars
<1>4. CASE Get
  BY <1>4, GetImplements DEF Feed!FeedNext
<1>5. CASE \E e \in Elems : Ret(e)
  BY <1>5, RetImplements DEF Feed!FeedNext
<1>6. CASE Reset
  BY <1>6, ResetImplements DEF Feed!FeedNext
<1>7. QED
  BY <1>1, <1>2, <1>3, <1>4, <1>5, <1>6 DEF Next

\* For its reader the parser is a feed: valid sections come out in the order in
\* which they were completed, none twice in a row, and a section that was lent
\* keeps its contents until it is given back.
THEOREM ParserImplementsFeed == Spec => ImplementsFeed
  BY InitImplements, NextImplements, InvariantHolds, PTL
  DEF Spec, ImplementsFeed, Feed!FeedSpec

=============================================================================
