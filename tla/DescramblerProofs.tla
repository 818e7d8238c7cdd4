------------------------- MODULE DescramblerProofs --------------------------
(***************************************************************************)
(* Proofs about look-ahead and descrambling, for any programs, ECM PIDs,   *)
(* sizes of the buffer and lengths of the stream. First, for any input:    *)
(* packets go out in order, refused streams untouched, and repetitions are *)
(* bounded. Then, behind a broadcast with one ECM PID that is paid for:    *)
(* nothing is left scrambled and nothing is descrambled with a wrong key,  *)
(* however programs come and go, wherever key periods change and however   *)
(* the input is cut into calls.                                            *)
(***************************************************************************)
EXTENDS DescramblerBroadcast, FiniteSetTheorems, TLAPS

----------------------------------------------------------------------------
\* What the tables do to the database.

LEMMA EmptyDecryptorTyped == NewDecryptor \in Decryptor /\ NewProgram \in Program
  BY DEF NewDecryptor, Decryptor, NewProgram, Program

LEMMA InUseTyped ==
  ASSUME NEW d \in Database
  PROVE  InUse(d) \subseteq ECMs
  BY DEF InUse, Database, Program

\* A decryptor no program names has been removed, one that is named is as it was.
Tidied(d) == \A k \in ECMs \ InUse(d) : d.dec[k] = NewDecryptor

LEMMA TidyTidies ==
  ASSUME NEW d \in Database
  PROVE  /\ Tidy(d) \in Database
         /\ Tidied(Tidy(d))
         /\ Tidy(d).pat = d.pat /\ Tidy(d).prog = d.prog
         /\ InUse(Tidy(d)) = InUse(d)
         /\ \A k \in InUse(d) : Tidy(d).dec[k] = d.dec[k]
<1>1. Tidy(d) = [d EXCEPT !.dec = [k \in ECMs |-> IF k \in InUse(d) THEN d.dec[k]
                                                    ELSE NewDecryptor]]
  BY DEF Tidy, Database
<1>2. /\ Tidy(d) \in Database
      /\ Tidy(d).pat = d.pat /\ Tidy(d).prog = d.prog
      /\ \A k \in ECMs : Tidy(d).dec[k] = IF k \in InUse(d) THEN d.dec[k] ELSE NewDecryptor
  BY <1>1, EmptyDecryptorTyped DEF Database
<1>3. InUse(Tidy(d)) = InUse(d)
  BY <1>2 DEF InUse
<1>4. QED
  BY <1>2, <1>3, InUseTyped DEF Tidied

LEMMA PatTyped ==
  ASSUME NEW d \in Database, NEW p \in Packet
  PROVE  /\ WithPat(d, p) \in Database
         /\ Tidied(WithPat(d, p))
         /\ WithPat(d, p).pat = p.progs
         /\ WithPat(d, p).prog = [g \in Progs |-> NewProgram]
         /\ InUse(WithPat(d, p)) = {}
         /\ WithPat(d, p).dec = [k \in ECMs |-> NewDecryptor]
<1> DEFINE c == [d EXCEPT !.pat = p.progs, !.prog = [g \in Progs |-> NewProgram]]
<1>1. c \in Database
  BY EmptyDecryptorTyped DEF Database, Packet
<1>2. c.pat = p.progs /\ c.prog = [g \in Progs |-> NewProgram]
  BY DEF Database
<1>3. p.progs \subseteq Progs
  BY DEF Packet
<1>4. InUse(c) = {}
  BY <1>2, <1>3 DEF InUse, NewProgram
<1>5. WithPat(d, p) = Tidy(c)
  BY DEF WithPat
<1> HIDE DEF c
<1>6. /\ Tidy(c) \in Database /\ Tidied(Tidy(c)) /\ Tidy(c).pat = c.pat
      /\ Tidy(c).prog = c.prog /\ InUse(Tidy(c)) = {}
  BY <1>1, <1>4, TidyTidies
<1>7. Tidy(c).dec = [k \in ECMs |-> NewDecryptor]
  BY <1>6 DEF Tidied, Database
<1>8. QED
  BY <1>2, <1>5, <1>6, <1>7

LEMMA PmtTyped ==
  ASSUME NEW d \in Database, NEW p \in Packet, p.pid \in Progs
  PROVE  /\ WithPmt(d, p) \in Database
         /\ Tidied(WithPmt(d, p))
         /\ WithPmt(d, p).pat = d.pat
         /\ WithPmt(d, p).prog = [d.prog EXCEPT ![p.pid].ecm = p.ecm]
         /\ \A k \in InUse(WithPmt(d, p)) : WithPmt(d, p).dec[k] = d.dec[k]
<1> DEFINE c == [d EXCEPT !.prog[p.pid].ecm = p.ecm]
<1>1. /\ c \in Database
      /\ c.pat = d.pat /\ c.dec = d.dec
      /\ c.prog = [d.prog EXCEPT ![p.pid].ecm = p.ecm]
  BY DEF Database, Packet, Program
<1>2. WithPmt(d, p) = Tidy(c)
  BY DEF WithPmt
<1> HIDE DEF c
<1>3. QED
  BY <1>1, <1>2, TidyTidies

\* An ECM changes the decryptor of its PID, and there is one.
LEMMA EcmTyped ==
  ASSUME NEW d \in Database, NEW p \in Packet, p.pid \in InUse(d), Tidied(d),
         NEW answer \in {"key", "failed", "refused", "locked"}
  PROVE  /\ WithEcm(d, p, answer) \in Database
         /\ Tidied(WithEcm(d, p, answer))
         /\ WithEcm(d, p, answer).pat = d.pat
         /\ WithEcm(d, p, answer).prog = d.prog
         /\ InUse(WithEcm(d, p, answer)) = InUse(d)
         /\ \A k \in ECMs \ {p.pid} : WithEcm(d, p, answer).dec[k] = d.dec[k]
<1> DEFINE e == WithEcm(d, p, answer)
           x == CASE answer = "key"     -> [d.dec[p.pid] EXCEPT !.seen = p.period, !.m2 = TRUE,
                                                              !.key = p.period]
                  [] answer = "failed"  -> [d.dec[p.pid] EXCEPT !.seen = p.period, !.key = None]
                  [] answer = "refused" -> [d.dec[p.pid] EXCEPT !.seen = p.period, !.m2 = FALSE,
                                                              !.key = None, !.locked = TRUE]
                  [] answer = "locked"  -> [d.dec[p.pid] EXCEPT !.seen = p.period]
<1>1. p.pid \in ECMs /\ p.period \in Nat
  BY InUseTyped DEF Packet
<1>2. d.dec[p.pid] \in Decryptor
  BY <1>1 DEF Database
<1>3. x \in Decryptor
  BY <1>1, <1>2 DEF Decryptor
<1>4. e = [d EXCEPT !.dec[p.pid] = x]
  BY DEF WithEcm
<1> HIDE DEF x, e
<1>5. /\ e \in Database /\ e.pat = d.pat /\ e.prog = d.prog
      /\ \A k \in ECMs \ {p.pid} : e.dec[k] = d.dec[k]
  BY <1>1, <1>3, <1>4 DEF Database
<1>6. InUse(e) = InUse(d)
  BY <1>5 DEF InUse
<1>7. Tidied(e)
  BY <1>5, <1>6 DEF Tidied
<1>8. QED
  BY <1>5, <1>6, <1>7 DEF e

\* check_pmt_complete() and check_ecm_complete() count what comes in phases.
PmtSeen(d, g, n) == [d EXCEPT !.prog[g].phase = n]
EcmSeen(d, k, n) == [d EXCEPT !.dec[k].phase = n]

LEMMA PmtSeenTyped ==
  ASSUME NEW d \in Database, Tidied(d), NEW g \in Progs, NEW n \in {1, 2}
  PROVE  /\ PmtSeen(d, g, n) \in Database
         /\ Tidied(PmtSeen(d, g, n))
         /\ InUse(PmtSeen(d, g, n)) = InUse(d)
         /\ PmtSeen(d, g, n).pat = d.pat
         /\ PmtSeen(d, g, n).dec = d.dec
         /\ PmtSeen(d, g, n).prog = [d.prog EXCEPT ![g].phase = n]
<1> DEFINE e == PmtSeen(d, g, n)
<1>1. /\ e \in Database /\ e.pat = d.pat /\ e.dec = d.dec
      /\ e.prog = [d.prog EXCEPT ![g].phase = n]
      /\ \A h \in Progs : e.prog[h].ecm = d.prog[h].ecm
  <2>1. /\ d.prog \in [Progs -> Program] /\ d.prog[g] \in Program
        /\ e = [d EXCEPT !.prog = [d.prog EXCEPT ![g].phase = n]]
    BY DEF PmtSeen, Database
  <2>2. [d.prog EXCEPT ![g].phase = n] \in [Progs -> Program]
    BY <2>1 DEF Program
  <2>3. /\ e \in Database /\ e.pat = d.pat /\ e.dec = d.dec
        /\ e.prog = [d.prog EXCEPT ![g].phase = n]
    BY <2>1, <2>2 DEF Database
  <2>4. \A h \in Progs : e.prog[h].ecm = d.prog[h].ecm
    BY <2>1, <2>3 DEF Program
  <2>5. QED
    BY <2>3, <2>4
<1> HIDE DEF e
<1>2. InUse(e) = InUse(d)
  BY <1>1 DEF InUse, Database
<1>3. Tidied(e)
  BY <1>1, <1>2 DEF Tidied
<1>4. QED
  BY <1>1, <1>2, <1>3 DEF e

LEMMA EcmSeenTyped ==
  ASSUME NEW d \in Database, Tidied(d), NEW k \in InUse(d), NEW n \in {1, 2}
  PROVE  /\ EcmSeen(d, k, n) \in Database
         /\ Tidied(EcmSeen(d, k, n))
         /\ InUse(EcmSeen(d, k, n)) = InUse(d)
         /\ EcmSeen(d, k, n).pat = d.pat
         /\ EcmSeen(d, k, n).prog = d.prog
         /\ EcmSeen(d, k, n).dec = [d.dec EXCEPT ![k].phase = n]
<1> DEFINE e == EcmSeen(d, k, n)
<1>1. k \in ECMs
  BY InUseTyped
<1>2. /\ e \in Database /\ e.pat = d.pat /\ e.prog = d.prog
      /\ e.dec = [d.dec EXCEPT ![k].phase = n]
  <2>1. /\ d.dec \in [ECMs -> Decryptor] /\ d.dec[k] \in Decryptor
        /\ e = [d EXCEPT !.dec = [d.dec EXCEPT ![k].phase = n]]
    BY <1>1 DEF EcmSeen, Database
  <2>2. [d.dec EXCEPT ![k].phase = n] \in [ECMs -> Decryptor]
    BY <1>1, <2>1 DEF Decryptor
  <2>3. QED
    BY <2>1, <2>2 DEF Database
<1> HIDE DEF e
<1>3. InUse(e) = InUse(d)
  BY <1>2 DEF InUse
<1>4. Tidied(e)
  BY <1>1, <1>2, <1>3 DEF Tidied, Database
<1>5. QED
  BY <1>2, <1>3, <1>4 DEF e

----------------------------------------------------------------------------
\* The types.

StageNames == {"find_pat", "find_pmt", "find_ecm", "proc"}

LEMMA StageTyped == \A d : Stage(d) \in StageNames
  BY DEF Stage, StageNames

LEMMA AheadTyped ==
  ASSUME TypeOK, More
  PROVE  Ahead \in Packet /\ offset + 1 \in 1 .. Len(sbuf) /\ Ahead = sbuf[offset + 1]
  BY DEF TypeOK, More, Ahead

LEMMA CurrentTyped ==
  ASSUME TypeOK, Processing, Readable
  PROVE  /\ sbuf # <<>> /\ Len(sbuf) \in Nat \ {0} /\ Current = sbuf[1] /\ Current \in Packet
         /\ Tail(sbuf) \in Seq(Packet) /\ Len(Tail(sbuf)) = Len(sbuf) - 1
         /\ \A i \in 1 .. Len(Tail(sbuf)) : Tail(sbuf)[i] = sbuf[i + 1]
  BY DEF TypeOK, Processing, Readable, Current

\* What a packet brings is new for its parser, which is there.
LEMMA FreshKinds ==
  ASSUME TypeOK, NEW p \in Packet, Fresh(p)
  PROVE  /\ p.kind \in {"PAT", "PMT", "ECM"}
         /\ p.kind = "PMT" => p.pid \in db.pat /\ p.pid \in Progs
         /\ p.kind = "ECM" => p.pid \in InUse(db) /\ p.pid \in ECMs
<1>1. db.pat \subseteq Progs /\ InUse(db) \subseteq ECMs
  BY InUseTyped DEF TypeOK, Database
<1>2. QED
  BY <1>1 DEF Fresh, IsPat, IsPmt, IsEcm

LEMMA GoOnTyped ==
  ASSUME TypeOK, NEW d, GoOn(d)
  PROVE  at' \in StageNames /\ offset' \in Nat
  BY StageTyped DEF GoOn, TypeOK

LEMMA FindPatTyped ==
  ASSUME TypeOK, FindPat
  PROVE  db' \in Database /\ Tidied(db')
<1>1. Ahead \in Packet
  BY AheadTyped DEF FindPat
<1>2. db \in Database /\ Tidied(db)
  BY DEF TypeOK, Tidied
<1>3. WithPat(db, Ahead) \in Database /\ Tidied(WithPat(db, Ahead))
  BY <1>1, <1>2, PatTyped
<1>4. QED
  BY <1>2, <1>3 DEF FindPat

LEMMA FindPmtTyped ==
  ASSUME TypeOK, FindPmt
  PROVE  db' \in Database /\ Tidied(db')
<1>1. Ahead \in Packet
  BY AheadTyped DEF FindPmt
<1>2. db \in Database /\ Tidied(db)
  BY DEF TypeOK, Tidied
<1>3. CASE ~IsPmt(Ahead)
  BY <1>2, <1>3 DEF FindPmt
<1>4. CASE IsPmt(Ahead)
  <2>1. Ahead.pid \in Progs
    BY <1>2, <1>4 DEF IsPmt, Database
  <2>2. /\ WithPmt(db, Ahead) \in Database
        /\ Tidied(WithPmt(db, Ahead))
    BY <1>1, <1>2, <2>1, PmtTyped
  <2>3. PmtSeen(db, Ahead.pid, 2) \in Database /\ Tidied(PmtSeen(db, Ahead.pid, 2))
    BY <1>2, <2>1, PmtSeenTyped
  <2>4. /\ PmtSeen(WithPmt(db, Ahead), Ahead.pid, 1) \in Database
        /\ Tidied(PmtSeen(WithPmt(db, Ahead), Ahead.pid, 1))
    BY <2>1, <2>2, PmtSeenTyped
  <2>5. db' \in {db, PmtSeen(db, Ahead.pid, 2), PmtSeen(WithPmt(db, Ahead), Ahead.pid, 1)}
    BY DEF FindPmt, PmtSeen
  <2>6. QED
    BY <1>2, <2>3, <2>4, <2>5
<1>5. QED
  BY <1>3, <1>4

LEMMA EcmAnswerTyped ==
  ASSUME TypeOK, NEW p \in Packet, IsEcm(p), NEW answer \in Answers(p.pid)
  PROVE  /\ answer \in {"key", "failed", "refused", "locked"}
         /\ p.pid \in InUse(db) /\ p.pid \in ECMs
         /\ answer = "failed" => failures + 1 \in 0 .. MaxFailures
         /\ answer = "locked" <=> db.dec[p.pid].locked
         /\ answer = "refused" => p.pid \notin Contracted
<1>1. p.pid \in InUse(db) /\ p.pid \in ECMs
  BY InUseTyped DEF IsEcm, TypeOK
<1>2. /\ answer \in {"key", "failed", "refused", "locked"}
      /\ answer = "failed" => failures < MaxFailures
      /\ answer = "locked" <=> db.dec[p.pid].locked
      /\ answer = "refused" => p.pid \notin Contracted
  BY Zenon DEF Answers
<1>3. answer = "failed" => failures + 1 \in 0 .. MaxFailures
  BY <1>2, DescramblerAssumption DEF TypeOK
<1>4. QED
  BY <1>1, <1>2, <1>3

LEMMA FindFirstEcmTyped ==
  ASSUME TypeOK, NEW answer, FindFirstEcm(answer)
  PROVE  db' \in Database /\ Tidied(db') /\ failures' \in 0 .. MaxFailures
<1>1. Ahead \in Packet
  BY AheadTyped DEF FindFirstEcm
<1>2. db \in Database /\ Tidied(db) /\ failures \in 0 .. MaxFailures
  BY DEF TypeOK, Tidied
<1>3. /\ answer \in {"key", "failed", "refused", "locked"}
      /\ Ahead.pid \in InUse(db)
      /\ answer = "failed" => failures + 1 \in 0 .. MaxFailures
  BY <1>1, EcmAnswerTyped DEF FindFirstEcm
<1>4. /\ WithEcm(db, Ahead, answer) \in Database /\ Tidied(WithEcm(db, Ahead, answer))
      /\ Ahead.pid \in InUse(WithEcm(db, Ahead, answer))
  BY <1>1, <1>2, <1>3, EcmTyped
<1>5. /\ EcmSeen(WithEcm(db, Ahead, answer), Ahead.pid, 1) \in Database
      /\ Tidied(EcmSeen(WithEcm(db, Ahead, answer), Ahead.pid, 1))
  BY <1>4, EcmSeenTyped
<1>6. db' \in {WithEcm(db, Ahead, answer), EcmSeen(WithEcm(db, Ahead, answer), Ahead.pid, 1)}
  BY DEF FindFirstEcm, EcmSeen
<1>7. failures' = failures \/ (answer = "failed" /\ failures' = failures + 1)
  BY DEF FindFirstEcm
<1>8. QED
  BY <1>2, <1>3, <1>4, <1>5, <1>6, <1>7

LEMMA FindOtherTyped ==
  ASSUME TypeOK, FindOther
  PROVE  db' \in Database /\ Tidied(db')
<1>1. db \in Database /\ Tidied(db)
  BY DEF TypeOK, Tidied
<1>2. IsEcm(Ahead) => EcmSeen(db, Ahead.pid, 2) \in Database /\ Tidied(EcmSeen(db, Ahead.pid, 2))
  BY <1>1, EcmSeenTyped DEF IsEcm
<1>3. db' = db \/ (IsEcm(Ahead) /\ db' = EcmSeen(db, Ahead.pid, 2))
  BY DEF FindOther, EcmSeen
<1>4. QED
  BY <1>1, <1>2, <1>3

\* The look-ahead keeps the types.
LEMMA LookAheadTyped ==
  ASSUME TypeOK,
         \/ FindPat \/ FindPmt \/ FindOther
         \/ \E answer \in {"key", "failed", "refused", "locked"} : FindFirstEcm(answer)
  PROVE  TypeOK'
<1>1. db' \in Database /\ Tidied(db') /\ failures' \in 0 .. MaxFailures
  <2>1. CASE FindPat
    BY <2>1, FindPatTyped DEF FindPat, TypeOK
  <2>2. CASE FindPmt
    BY <2>2, FindPmtTyped DEF FindPmt, TypeOK
  <2>3. CASE FindOther
    BY <2>3, FindOtherTyped DEF FindOther, TypeOK
  <2>4. ASSUME NEW answer, FindFirstEcm(answer)
        PROVE  db' \in Database /\ Tidied(db') /\ failures' \in 0 .. MaxFailures
    BY <2>4, FindFirstEcmTyped
  <2>5. QED
    BY <2>1, <2>2, <2>3, <2>4
<1>2. at' \in StageNames \cup {"idle"} /\ offset' \in Nat
  <2>1. CASE \E d : GoOn(d)
    BY <2>1, GoOnTyped
  <2>2. CASE at' = "idle" /\ offset' = offset + 1
    BY <2>2 DEF TypeOK
  <2>3. QED
    BY <2>1, <2>2 DEF FindPat, FindPmt, FindOther, FindFirstEcm
<1>3. code' \in Codes
  BY DEF FindPat, FindPmt, FindOther, FindFirstEcm, TypeOK, Codes
<1>4. UNCHANGED <<count, sbuf, emitted, arrived>>
  BY DEF FindPat, FindPmt, FindOther, FindFirstEcm
<1>5. at' \in Stages
  BY <1>2 DEF StageNames, Stages
<1>6. QED
  BY <1>1, <1>2, <1>3, <1>4, <1>5 DEF TypeOK, Tidied

LEMMA EmitTyped ==
  ASSUME TypeOK, NEW p \in Packet, Emit(p)
  PROVE  emitted' \in [pkt: Packet, how: {"plain", "clear", "garbled", "scrambled"}, times: Nat]
  BY DEF Emit, Result, TypeOK

\* So do the steps that take a packet from the head, and the sections among them.
LEMMA SectionTyped ==
  ASSUME TypeOK,
         \/ NewPmt \/ NewPat
         \/ \E answer \in {"key", "failed", "refused", "locked"} : NewEcm(answer)
  PROVE  TypeOK'
<1>1. Processing /\ Readable /\ Emit(Current)
  BY DEF NewPmt, NewPat, NewEcm
<1>2. Current \in Packet /\ Tail(sbuf) \in Seq(Packet)
  BY <1>1, CurrentTyped
<1>3. emitted' \in [pkt: Packet, how: {"plain", "clear", "garbled", "scrambled"}, times: Nat]
  BY <1>1, <1>2, EmitTyped
<1>4. db \in Database /\ Tidied(db) /\ failures \in 0 .. MaxFailures
  BY DEF TypeOK, Tidied
<1>5. db' \in Database /\ Tidied(db') /\ failures' \in 0 .. MaxFailures
  <2>1. CASE NewPmt
    <3>1. Current.pid \in Progs
      BY <2>1, <1>4 DEF NewPmt, IsPmt, Database
    <3>2. QED
      BY <2>1, <3>1, <1>2, <1>4, PmtTyped DEF NewPmt
  <2>2. CASE NewPat
    BY <2>2, <1>2, <1>4, PatTyped DEF NewPat
  <2>3. ASSUME NEW answer, NewEcm(answer)
        PROVE  db' \in Database /\ Tidied(db') /\ failures' \in 0 .. MaxFailures
    <3>1. /\ answer \in {"key", "failed", "refused", "locked"}
          /\ Current.pid \in InUse(db)
          /\ answer = "failed" => failures + 1 \in 0 .. MaxFailures
      BY <2>3, <1>2, EcmAnswerTyped DEF NewEcm
    <3>2. QED
      BY <2>3, <3>1, <1>2, <1>4, EcmTyped DEF NewEcm
  <2>4. QED
    BY <2>1, <2>2, <2>3
<1>6. sbuf' \in {sbuf, Tail(sbuf)} /\ at' \in {at, "idle", "flush"}
      /\ code' \in {code, "ok", "ecm_proc_failure"}
  BY <1>1 DEF NewPmt, NewPat, NewEcm, Advance, Return, Processing
<1>7. UNCHANGED <<count, offset, arrived>>
  BY DEF NewPmt, NewPat, NewEcm
<1>8. sbuf' \in Seq(Packet) /\ at' \in Stages /\ code' \in Codes
  BY <1>2, <1>6 DEF TypeOK, Stages, Codes
<1>9. QED
  BY <1>3, <1>5, <1>7, <1>8 DEF TypeOK, Tidied

LEMMA OtherStepsTyped ==
  ASSUME TypeOK,
         \/ \E p \in Packet : Arrive(p)
         \/ PutBegin \/ FlushBegin \/ NeedMore
         \/ SkipPadding \/ DecryptFailure \/ PassPacket \/ ProcEnd
  PROVE  TypeOK'
<1> USE DEF TypeOK
<1>1. ASSUME NEW p \in Packet, Arrive(p) PROVE TypeOK'
  <2>1. count' \in 0 .. Wrap - 1
    BY <1>1, DescramblerAssumption DEF Arrive
  <2>2. [p EXCEPT !.n = count'] \in Packet
    BY <2>1 DEF Packet
  <2>3. sbuf' \in Seq(Packet)
    BY <1>1, <2>2 DEF Arrive
  <2>4. arrived' \in Nat
    BY <1>1 DEF Arrive
  <2>5. QED
    BY <1>1, <2>1, <2>3, <2>4 DEF Arrive
<1>2. CASE PutBegin
  BY <1>2, StageTyped DEF PutBegin, StageNames, Stages
<1>3. CASE FlushBegin
  BY <1>3 DEF FlushBegin, Stages
<1>4. CASE NeedMore
  BY <1>4 DEF NeedMore, Stages, Codes
<1>5. CASE SkipPadding
  <2>1. Tail(sbuf) \in Seq(Packet)
    BY <1>5, CurrentTyped DEF SkipPadding
  <2>2. QED
    BY <1>5, <2>1 DEF SkipPadding, Advance
<1>6. CASE DecryptFailure
  BY <1>6 DEF DecryptFailure, Return, Stages, Codes
<1>7. CASE PassPacket
  <2>1. Tail(sbuf) \in Seq(Packet) /\ Current \in Packet
    BY <1>7, CurrentTyped DEF PassPacket
  <2>2. emitted' \in [pkt: Packet, how: {"plain", "clear", "garbled", "scrambled"}, times: Nat]
    BY <1>7, <2>1, EmitTyped DEF PassPacket
  <2>3. QED
    BY <1>7, <2>1, <2>2 DEF PassPacket, Advance
<1>8. CASE ProcEnd
  BY <1>8 DEF ProcEnd, Return, Stages, Codes
<1>9. QED
  BY <1>1, <1>2, <1>3, <1>4, <1>5, <1>6, <1>7, <1>8

LEMMA InitTyped == Init => TypeOK
<1>1. NoPacket \in Packet
  BY DescramblerAssumption DEF NoPacket, Packet
<1>2. SUFFICES ASSUME Init PROVE TypeOK
  OBVIOUS
<1>3. db \in Database /\ \A k \in ECMs : db.dec[k] = NewDecryptor
  BY <1>2, EmptyDecryptorTyped DEF Init, Database
<1>4. QED
  BY <1>1, <1>2, <1>3, DescramblerAssumption DEF Init, TypeOK, Stages, Codes

LEMMA NextTyped == TypeOK /\ [Next]_vars => TypeOK'
<1>1. SUFFICES ASSUME TypeOK, [Next]_vars PROVE TypeOK'
  OBVIOUS
<1>2. CASE UNCHANGED vars
  BY <1>1, <1>2 DEF vars, TypeOK
<1>3. CASE Next
  BY <1>1, <1>3, LookAheadTyped, SectionTyped, OtherStepsTyped DEF Next, Step, CallStep
<1>4. QED
  BY <1>1, <1>2, <1>3

\* The buffer, the tables and the positions in them have their types, and the
\* decryptors are those of the programs: one no PMT names any more is gone.
THEOREM TypeCorrect == Spec => []TypeOK
  BY InitTyped, NextTyped, PTL DEF Spec

----------------------------------------------------------------------------
\* The order of the packets.

\* What a call writes out, and from where it takes it: nothing, or the packet at
\* the head of the buffer, which stays there or goes.
Keeps == sbuf' = sbuf /\ emitted' = emitted
Skips == sbuf # <<>> /\ Padding(sbuf[1]) /\ sbuf' = Tail(sbuf) /\ emitted' = emitted
Writes == sbuf # <<>> /\ sbuf[1] \in Packet /\ ~Padding(sbuf[1]) /\ Emit(sbuf[1])
            /\ sbuf' \in {sbuf, Tail(sbuf)}

LEMMA HeadOnly ==
  ASSUME TypeOK, Step
  PROVE  (Keeps \/ Skips \/ Writes) /\ count' = count
<1>1. CASE PutBegin \/ FlushBegin
  BY <1>1 DEF PutBegin, FlushBegin, Keeps
<1>2. CASE FindPat \/ FindPmt \/ FindOther \/ NeedMore
  BY <1>2 DEF FindPat, FindPmt, FindOther, NeedMore, Keeps
<1>3. CASE DecryptFailure \/ ProcEnd
  BY <1>3 DEF DecryptFailure, ProcEnd, Keeps
<1>4. ASSUME NEW answer, FindFirstEcm(answer)
      PROVE  Keeps /\ count' = count
  BY <1>4 DEF FindFirstEcm, Keeps
<1>5. CASE SkipPadding
  BY <1>5, CurrentTyped DEF SkipPadding, Skips, Advance
<1>6. CASE PassPacket
  BY <1>6, CurrentTyped DEF PassPacket, Writes, Advance
<1>7. CASE NewPmt \/ NewPat \/ \E answer : NewEcm(answer)
  <2>1. Processing /\ Readable /\ Emit(Current) /\ Fresh(Current) /\ count' = count
    BY <1>7 DEF NewPmt, NewPat, NewEcm
  <2>2. sbuf # <<>> /\ Current = sbuf[1] /\ Current \in Packet
    BY <2>1, CurrentTyped
  <2>3. ~Padding(Current)
    BY <2>1, <2>2, FreshKinds DEF Padding
  <2>4. sbuf' \in {sbuf, Tail(sbuf)}
    BY <1>7, <2>1 DEF NewPmt, NewPat, NewEcm, Advance, Processing
  <2>5. QED
    BY <2>1, <2>2, <2>3, <2>4 DEF Writes
<1>8. QED
  BY <1>1, <1>2, <1>3, <1>4, <1>5, <1>6, <1>7 DEF Step, CallStep

\* Packet p can follow one with number n.  Padding is not numbered.
Follows(n, p) == p.n = IF p.kind = "padding" THEN n ELSE (n + 1) % Wrap
NumberBefore(i) == IF i = 1 THEN emitted.pkt.n ELSE sbuf[i - 1].n

\* The packets in the buffer follow each other, and the first one follows the last
\* one that went out, or is that packet.
Numbered ==
  /\ \A i \in 1 .. Len(sbuf) :
       \/ Follows(NumberBefore(i), sbuf[i])
       \/ i = 1 /\ sbuf[1].n = emitted.pkt.n
  /\ count = IF sbuf = <<>> THEN emitted.pkt.n ELSE sbuf[Len(sbuf)].n

LEMMA StepNumbered ==
  ASSUME TypeOK, Numbered, Step
  PROVE  Numbered' /\ emitted'.pkt.n \in {emitted.pkt.n, (emitted.pkt.n + 1) % Wrap}
<1>1. (Keeps \/ Skips \/ Writes) /\ count' = count
  BY HeadOnly
<1>2. CASE Keeps
  BY <1>1, <1>2 DEF Keeps, Numbered, NumberBefore
<1>3. ASSUME sbuf # <<>>, sbuf' = Tail(sbuf), emitted'.pkt.n = sbuf[1].n
      PROVE  Numbered'
  <2>1. /\ Len(sbuf) \in Nat \ {0} /\ Len(sbuf') = Len(sbuf) - 1
        /\ \A i \in 1 .. Len(sbuf') : sbuf'[i] = sbuf[i + 1]
    BY <1>3 DEF TypeOK
  <2>2. ASSUME NEW i \in 1 .. Len(sbuf')
        PROVE  Follows(NumberBefore(i), sbuf[i])' 
    <3>1. i + 1 \in 1 .. Len(sbuf) /\ i + 1 # 1 /\ (i + 1) - 1 = i
      BY <2>1
    <3>2. Follows(sbuf[i].n, sbuf[i + 1])
      BY <3>1 DEF Numbered, NumberBefore
    <3>3. NumberBefore(i)' = sbuf[i].n
      <4>1. CASE i = 1
        BY <1>3, <4>1 DEF NumberBefore
      <4>2. CASE i # 1
        BY <2>1, <4>2 DEF NumberBefore
      <4>3. QED
        BY <4>1, <4>2
    <3>4. QED
      BY <2>1, <3>2, <3>3 DEF Follows
  <2>3. count = sbuf[Len(sbuf)].n
    BY <1>3 DEF Numbered
  <2>4. count' = IF sbuf' = <<>> THEN emitted'.pkt.n ELSE sbuf'[Len(sbuf')].n
    <3>1. CASE Len(sbuf) = 1
      <4>1. sbuf' = <<>>
        BY <1>3, <2>1, <3>1 DEF TypeOK
      <4>2. QED
        BY <1>1, <1>3, <2>3, <3>1, <4>1
    <3>2. CASE Len(sbuf) # 1
      BY <1>1, <1>3, <2>1, <2>3, <3>2
    <3>3. QED
      BY <3>1, <3>2
  <2>5. QED
    BY <2>2, <2>4 DEF Numbered
<1>4. sbuf # <<>> => \/ Follows(emitted.pkt.n, sbuf[1])
                     \/ sbuf[1].n = emitted.pkt.n
  BY DEF Numbered, NumberBefore, TypeOK
<1>5. CASE Skips
  BY <1>3, <1>4, <1>5 DEF Skips, Padding, Follows
<1>6. CASE Writes
  <2>1. emitted'.pkt = sbuf[1]
    BY <1>6 DEF Writes, Emit
  <2>2. emitted'.pkt.n \in {emitted.pkt.n, (emitted.pkt.n + 1) % Wrap}
    BY <1>4, <1>6, <2>1 DEF Writes, Follows
  <2>3. CASE sbuf' = Tail(sbuf)
    BY <1>3, <1>6, <2>1, <2>2, <2>3 DEF Writes
  <2>4. CASE sbuf' = sbuf
    BY <1>1, <1>6, <2>1, <2>2, <2>4 DEF Writes, Numbered, NumberBefore
  <2>5. QED
    BY <1>6, <2>2, <2>3, <2>4 DEF Writes
<1>7. QED
  BY <1>1, <1>2, <1>5, <1>6 DEF Keeps, Skips

LEMMA ArriveNumbered ==
  ASSUME TypeOK, Numbered, NEW p \in Packet, Arrive(p)
  PROVE  Numbered' /\ emitted' = emitted
<1> DEFINE q == [p EXCEPT !.n = count']
<1>1. /\ sbuf' = Append(sbuf, q) /\ emitted' = emitted
      /\ count' = IF p.kind = "padding" THEN count ELSE (count + 1) % Wrap
  BY DEF Arrive
<1>2. q.n = count' /\ q.kind = p.kind
  BY DEF Packet
<1> HIDE DEF q
<1>3. /\ Len(sbuf) \in Nat /\ Len(sbuf') = Len(sbuf) + 1
      /\ \A i \in 1 .. Len(sbuf) : sbuf'[i] = sbuf[i]
      /\ sbuf'[Len(sbuf')] = q
  BY <1>1 DEF TypeOK
<1>4. ASSUME NEW i \in 1 .. Len(sbuf)
      PROVE  NumberBefore(i)' = NumberBefore(i) /\ sbuf'[i] = sbuf[i]
  <2>1. CASE i = 1
    BY <1>1, <1>3, <2>1 DEF NumberBefore
  <2>2. CASE i # 1
    BY <1>3, <2>2 DEF NumberBefore
  <2>3. QED
    BY <2>1, <2>2
<1>5. ASSUME NEW n, n = Len(sbuf) + 1
      PROVE  NumberBefore(n)' = count
  <2>1. CASE Len(sbuf) = 0
    <3>1. sbuf = <<>> /\ n = 1
      BY <1>5, <2>1 DEF TypeOK
    <3>2. QED
      BY <1>1, <3>1 DEF NumberBefore, Numbered
  <2>2. CASE Len(sbuf) # 0
    <3>1. sbuf # <<>> /\ n # 1 /\ n - 1 = Len(sbuf) /\ Len(sbuf) \in 1 .. Len(sbuf)
      BY <1>3, <1>5, <2>2
    <3>2. QED
      BY <1>3, <3>1 DEF NumberBefore, Numbered
  <2>3. QED
    BY <2>1, <2>2
<1>6. Follows(count, q)
  BY <1>1, <1>2 DEF Follows
<1>7. ASSUME NEW i \in 1 .. Len(sbuf')
      PROVE  (Follows(NumberBefore(i), sbuf[i]) \/ (i = 1 /\ sbuf[1].n = emitted.pkt.n))'
  <2>1. CASE i = Len(sbuf')
    <3>1. NumberBefore(i)' = count /\ sbuf'[i] = q
      BY <1>3, <1>5, <2>1
    <3>2. QED
      BY <1>6, <3>1 DEF Follows
  <2>2. CASE i # Len(sbuf')
    <3>1. i \in 1 .. Len(sbuf)
      BY <1>3, <2>2
    <3>2. QED
      BY <1>1, <1>4, <3>1 DEF Numbered, Follows
  <2>3. QED
    BY <2>1, <2>2
<1>8. sbuf' # <<>> /\ count' = sbuf'[Len(sbuf')].n
  BY <1>1, <1>2, <1>3
<1>9. QED
  BY <1>1, <1>7, <1>8 DEF Numbered

LEMMA InitNumbered == Init => Numbered
  BY DEF Init, Numbered, NoPacket

LEMMA NextNumbered ==
  TypeOK /\ Numbered /\ [Next]_vars
    => /\ Numbered'
       /\ emitted'.pkt.n \in {emitted.pkt.n, (emitted.pkt.n + 1) % Wrap}
<1>1. SUFFICES ASSUME TypeOK, Numbered, [Next]_vars
               PROVE  /\ Numbered'
                      /\ emitted'.pkt.n \in {emitted.pkt.n, (emitted.pkt.n + 1) % Wrap}
  OBVIOUS
<1>2. CASE UNCHANGED vars
  BY <1>1, <1>2 DEF vars, Numbered, NumberBefore
<1>3. CASE Next
  BY <1>1, <1>3, StepNumbered, ArriveNumbered DEF Next
<1>4. QED
  BY <1>1, <1>2, <1>3

\* Packets go out in the order of the input, and none is left out: the four loops
\* that read the buffer and the errors that leave them never lose the place.
THEOREM PacketsGoOutInOrder == Spec => InOrder
<1>1. TypeOK /\ Numbered /\ [Next]_vars
        => [emitted'.pkt # emitted.pkt
              => emitted'.pkt.n \in {emitted.pkt.n, (emitted.pkt.n + 1) % Wrap}]_emitted
  BY NextNumbered
<1>2. QED
  BY <1>1, InitTyped, NextTyped, InitNumbered, NextNumbered, PTL DEF Spec, InOrder

----------------------------------------------------------------------------
\* Refused streams.

\* A decryptor the card refused has no cipher.
Bare(d) == \A k \in ECMs : d.dec[k].locked => ~d.dec[k].m2

LEMMA NewBare == ~NewDecryptor.locked
  BY DEF NewDecryptor

LEMMA PatBare ==
  ASSUME NEW d \in Database, NEW p \in Packet
  PROVE  Bare(WithPat(d, p))
  BY PatTyped, NewBare DEF Bare

LEMMA PmtBare ==
  ASSUME NEW d \in Database, Bare(d), NEW p \in Packet, p.pid \in Progs
  PROVE  Bare(WithPmt(d, p))
<1>1. /\ Tidied(WithPmt(d, p))
      /\ \A k \in InUse(WithPmt(d, p)) : WithPmt(d, p).dec[k] = d.dec[k]
  BY PmtTyped
<1>2. QED
  BY <1>1, NewBare DEF Tidied, Bare

LEMMA EcmBare ==
  ASSUME TypeOK, Bare(db), NEW p \in Packet, IsEcm(p), NEW answer \in Answers(p.pid)
  PROVE  Bare(WithEcm(db, p, answer))
<1>1. /\ db \in Database /\ Tidied(db) /\ p.pid \in InUse(db) /\ p.pid \in ECMs
      /\ answer \in {"key", "failed", "refused", "locked"}
      /\ answer = "locked" <=> db.dec[p.pid].locked
  BY EcmAnswerTyped DEF TypeOK, Tidied
<1>2. \A k \in ECMs \ {p.pid} : WithEcm(db, p, answer).dec[k] = db.dec[k]
  BY <1>1, EcmTyped
<1>3. db.dec[p.pid] \in Decryptor
  BY <1>1 DEF Database
<1>4. /\ WithEcm(db, p, answer).dec[p.pid].locked =
           (db.dec[p.pid].locked \/ answer = "refused")
      /\ WithEcm(db, p, answer).dec[p.pid].m2 =
           CASE answer = "key" -> TRUE
             [] answer = "refused" -> FALSE
             [] answer = "failed" -> db.dec[p.pid].m2
             [] answer = "locked" -> db.dec[p.pid].m2
  <2>1. CASE answer = "key"
    BY <1>1, <1>3, <2>1 DEF WithEcm, Database, Decryptor
  <2>2. CASE answer = "failed"
    BY <1>1, <1>3, <2>2 DEF WithEcm, Database, Decryptor
  <2>3. CASE answer = "refused"
    BY <1>1, <1>3, <2>3 DEF WithEcm, Database, Decryptor
  <2>4. CASE answer = "locked"
    BY <1>1, <1>3, <2>4 DEF WithEcm, Database, Decryptor
  <2>5. QED
    BY <1>1, <2>1, <2>2, <2>3, <2>4
<1>5. WithEcm(db, p, answer).dec[p.pid].locked => ~WithEcm(db, p, answer).dec[p.pid].m2
  BY <1>1, <1>4 DEF Bare
<1>6. QED
  BY <1>1, <1>2, <1>5 DEF Bare

\* Counting what comes in touches neither the lock nor the cipher.
LEMMA PmtSeenBare ==
  ASSUME NEW d \in Database, Tidied(d), Bare(d), NEW g \in Progs
  PROVE  Bare(PmtSeen(d, g, 1)) /\ Bare(PmtSeen(d, g, 2))
  BY PmtSeenTyped DEF Bare

LEMMA EcmSeenKeeps ==
  ASSUME NEW d \in Database, Tidied(d), NEW k \in InUse(d), NEW n \in {1, 2}, NEW j \in ECMs
  PROVE  /\ EcmSeen(d, k, n).dec[j].locked = d.dec[j].locked
         /\ EcmSeen(d, k, n).dec[j].m2 = d.dec[j].m2
         /\ EcmSeen(d, k, n).dec[j].key = d.dec[j].key
         /\ EcmSeen(d, k, n).dec[j].seen = d.dec[j].seen
         /\ EcmSeen(d, k, n).dec[j].phase = IF j = k THEN n ELSE d.dec[j].phase
<1>1. EcmSeen(d, k, n).dec = [d.dec EXCEPT ![k].phase = n]
  BY InUseTyped DEF EcmSeen, Database
<1>2. QED
  BY <1>1, InUseTyped DEF Database, Decryptor

LEMMA EcmSeenBare ==
  ASSUME NEW d \in Database, Tidied(d), Bare(d), NEW k \in InUse(d), NEW n \in {1, 2}
  PROVE  Bare(EcmSeen(d, k, n))
  BY EcmSeenKeeps DEF Bare

LEMMA NextBare ==
  ASSUME TypeOK, Bare(db), Next
  PROVE  Bare(db')
<1>1. db \in Database /\ Tidied(db)
  BY DEF TypeOK, Tidied
<1>2. CASE db' = db
  BY <1>2
<1>3. CASE FindPat
  BY <1>1, <1>3, AheadTyped, PatBare DEF FindPat
<1>4. CASE FindPmt /\ IsPmt(Ahead)
  <2>1. Ahead \in Packet /\ Ahead.pid \in Progs
    BY <1>1, <1>4, AheadTyped DEF FindPmt, IsPmt, Database
  <2>2. /\ WithPmt(db, Ahead) \in Database /\ Tidied(WithPmt(db, Ahead))
        /\ Bare(WithPmt(db, Ahead))
    BY <1>1, <2>1, PmtTyped, PmtBare
  <2>3. Bare(PmtSeen(db, Ahead.pid, 2)) /\ Bare(PmtSeen(WithPmt(db, Ahead), Ahead.pid, 1))
    BY <1>1, <2>1, <2>2, PmtSeenBare
  <2>4. db' \in {db, PmtSeen(db, Ahead.pid, 2), PmtSeen(WithPmt(db, Ahead), Ahead.pid, 1)}
    BY <1>4 DEF FindPmt, PmtSeen
  <2>5. QED
    BY <2>3, <2>4
<1>5. ASSUME NEW answer, FindFirstEcm(answer)
      PROVE  Bare(db')
  <2>1. Ahead \in Packet /\ IsEcm(Ahead) /\ answer \in Answers(Ahead.pid)
    BY <1>5, AheadTyped DEF FindFirstEcm
  <2>2. Bare(WithEcm(db, Ahead, answer))
    BY <2>1, EcmBare
  <2>3. /\ WithEcm(db, Ahead, answer) \in Database /\ Tidied(WithEcm(db, Ahead, answer))
        /\ Ahead.pid \in InUse(WithEcm(db, Ahead, answer))
    <3>1. Ahead.pid \in InUse(db) /\ answer \in {"key", "failed", "refused", "locked"}
      BY <2>1, EcmAnswerTyped
    <3>2. QED
      BY <1>1, <2>1, <3>1, EcmTyped
  <2>4. Bare(EcmSeen(WithEcm(db, Ahead, answer), Ahead.pid, 1))
    BY <2>2, <2>3, EcmSeenBare
  <2>5. db' \in {WithEcm(db, Ahead, answer), EcmSeen(WithEcm(db, Ahead, answer), Ahead.pid, 1)}
    BY <1>5 DEF FindFirstEcm, EcmSeen
  <2>6. QED
    BY <2>2, <2>4, <2>5
<1>6. CASE FindOther /\ IsEcm(Ahead)
  <2>1. Bare(EcmSeen(db, Ahead.pid, 2))
    BY <1>1, <1>6, EcmSeenBare DEF IsEcm
  <2>2. db' \in {db, EcmSeen(db, Ahead.pid, 2)}
    BY <1>6 DEF FindOther, EcmSeen
  <2>3. QED
    BY <2>1, <2>2
<1>7. CASE NewPmt
  <2>1. Current \in Packet /\ Current.pid \in Progs
    BY <1>1, <1>7, CurrentTyped DEF NewPmt, IsPmt, Database
  <2>2. QED
    BY <1>1, <1>7, <2>1, PmtBare DEF NewPmt
<1>8. ASSUME NEW answer, NewEcm(answer)
      PROVE  Bare(db')
  BY <1>8, CurrentTyped, EcmBare DEF NewEcm
<1>9. CASE NewPat
  BY <1>1, <1>9, CurrentTyped, PatBare DEF NewPat
<1>10. QED
  BY <1>2, <1>3, <1>4, <1>5, <1>6, <1>7, <1>8, <1>9
  DEF Next, Step, CallStep, Arrive, PutBegin, FlushBegin, FindPmt, FindOther, NeedMore,
      SkipPadding, DecryptFailure, PassPacket, ProcEnd

\* What goes out of a program's stream that is locked is the packet as it came in.
LEMMA LockedPasses ==
  ASSUME TypeOK, Bare(db), Next, emitted' # emitted
  PROVE  LET p == emitted'.pkt IN
         (p.kind = "ES" /\ p.pid \in db.pat /\ db.prog[p.pid].ecm \in InUse(db))
           => (db.dec[db.prog[p.pid].ecm].locked => emitted'.how = "scrambled")
<1>1. Emit(sbuf[1])
  <2>1. CASE Step
    BY <2>1, HeadOnly DEF Keeps, Skips, Writes
  <2>2. CASE \E p \in Packet : Arrive(p)
    BY <2>2 DEF Arrive
  <2>3. QED
    BY <2>1, <2>2 DEF Next
<1>2. PICK p : p = sbuf[1]
  OBVIOUS
<1>3. emitted'.pkt = p /\ emitted'.how = Result(p)
  BY <1>1, <1>2 DEF Emit
<1>4. ASSUME p.kind = "ES", p.pid \in db.pat, db.prog[p.pid].ecm \in InUse(db),
             db.dec[db.prog[p.pid].ecm].locked
      PROVE  Result(p) = "scrambled"
  <2>1. db.prog[p.pid].ecm # None /\ db.prog[p.pid].ecm \in ECMs
    BY <1>4, InUseTyped DEF InUse, TypeOK
  <2>2. Route(p) = {db.prog[p.pid].ecm}
    BY <1>4, <2>1 DEF Route
  <2>3. Ciphers(p) = {}
    BY <1>4, <2>1, <2>2 DEF Ciphers, Bare
  <2>4. QED
    BY <1>4, <2>3 DEF Result
<1>5. QED
  BY <1>3, <1>4

LEMMA InitBare == Init => Bare(db)
  BY NewBare DEF Init, Bare

\* A stream whose ECM was refused is passed through untouched, whatever keys its
\* decryptor had before and however the tables change around it.
THEOREM RefusedStreamsUntouched == Spec => RefusedUntouched
<1>1. TypeOK /\ Bare(db) /\ [Next]_vars => Bare(db)'
  BY NextBare DEF vars, Bare
<1>2. TypeOK /\ Bare(db) /\ [Next]_vars
        => [LET p == emitted'.pkt IN
            (p.kind = "ES" /\ p.pid \in db.pat /\ db.prog[p.pid].ecm \in InUse(db))
              => (db.dec[db.prog[p.pid].ecm].locked => emitted'.how = "scrambled")]_emitted
  BY LockedPasses DEF vars
<1>3. QED
  BY <1>1, <1>2, InitTyped, NextTyped, InitBare, PTL DEF Spec, RefusedUntouched

----------------------------------------------------------------------------
\* The broadcast in front of it.

AirTyped ==
  /\ listed \in PATs
  /\ ecmOf \in [Progs -> ECMs]
  /\ period \in [ECMs -> Nat]
  /\ repeated \subseteq ECMs

\* Packet p comes in, and a PAT among them is one that may be broadcast.
Sent(p) == p \in Packet /\ Arrive(p) /\ (p.kind = "PAT" => p.progs \in PATs)

AirPacket(kind, pid, progs, k, t) ==
  [n |-> 0, kind |-> kind, pid |-> pid, progs |-> progs, ecm |-> k, period |-> t]

LEMMA AirPacketTyped ==
  ASSUME NEW kind \in {"PAT", "PMT", "ECM", "ES", "padding", "error"},
         NEW pid \in Progs \cup ECMs \cup {None}, NEW progs \in SUBSET Progs,
         NEW k \in ECMs \cup {None}, NEW t \in Nat
  PROVE  AirPacket(kind, pid, progs, k, t) \in Packet
  BY DescramblerAssumption DEF AirPacket, Packet

LEMMA AirSends ==
  ASSUME NEW kind \in {"PAT", "PMT", "ECM", "ES", "padding", "error"},
         NEW pid \in Progs \cup ECMs \cup {None}, NEW progs \in SUBSET Progs,
         NEW k \in ECMs \cup {None}, NEW t \in Nat,
         kind = "PAT" => progs \in PATs,
         Air(kind, pid, progs, k, t)
  PROVE  Sent(AirPacket(kind, pid, progs, k, t))
<1>1. AirPacket(kind, pid, progs, k, t) \in Packet
  BY AirPacketTyped
<1>2. Arrive(AirPacket(kind, pid, progs, k, t))
  BY DEF Air, AirPacket
<1>3. QED
  BY <1>1, <1>2 DEF Sent, AirPacket

\* Every step of the composition is a step of the library or brings a packet.
LEMMA AirStep ==
  ASSUME AirTyped, BNext
  PROVE  (Step \/ \E p : Sent(p)) /\ AirTyped'
<1>1. /\ listed \in PATs /\ listed \in SUBSET Progs /\ None \in Progs \cup ECMs \cup {None}
      /\ None \in ECMs \cup {None} /\ {} \in SUBSET Progs /\ 0 \in Nat
      /\ PATs \subseteq SUBSET Progs
  BY BroadcastAssumption DEF AirTyped
<1>2. CASE /\ \/ (arrived = Chunk \/ Len(sbuf) = MaxBuffer) /\ PutBegin
              \/ CallStep
              \/ "flush" \in Events /\ FlushBegin
           /\ UNCHANGED airVars
  BY <1>2 DEF Step, airVars, AirTyped
<1>3. CASE SendPat
  BY <1>1, <1>3, AirSends DEF SendPat, AirTyped
<1>4. ASSUME NEW gs \in PATs, ChangePat(gs)
      PROVE  (\E p : Sent(p)) /\ AirTyped'
  <2>1. gs \in SUBSET Progs
    BY <1>1
  <2>2. \E p : Sent(p)
    BY <1>1, <1>4, <2>1, AirSends DEF ChangePat
  <2>3. QED
    BY <1>4, <2>2 DEF ChangePat, AirTyped
<1>5. ASSUME NEW g \in Progs, SendPmt(g)
      PROVE  (\E p : Sent(p)) /\ AirTyped'
  <2>1. ecmOf[g] \in ECMs
    BY DEF AirTyped
  <2>2. \E p : Sent(p)
    BY <1>1, <1>5, <2>1, AirSends DEF SendPmt
  <2>3. QED
    BY <1>5, <2>2 DEF SendPmt, AirTyped
<1>6. ASSUME NEW g \in Progs, NEW k \in ECMs, ChangePmt(g, k)
      PROVE  (\E p : Sent(p)) /\ AirTyped'
  <2>1. \E p : Sent(p)
    BY <1>1, <1>6, AirSends DEF ChangePmt
  <2>2. QED
    BY <1>6, <2>1 DEF ChangePmt, AirTyped
<1>7. ASSUME NEW k \in ECMs, SendEcm(k)
      PROVE  (\E p : Sent(p)) /\ AirTyped'
  <2>1. period[k] \in Nat
    BY DEF AirTyped
  <2>2. \E p : Sent(p)
    BY <1>1, <1>7, <2>1, AirSends DEF SendEcm
  <2>3. QED
    BY <1>7, <2>2 DEF SendEcm, AirTyped
<1>8. ASSUME NEW k \in ECMs, NextPeriod(k)
      PROVE  (\E p : Sent(p)) /\ AirTyped'
  <2>1. period[k] + 1 \in Nat
    BY DEF AirTyped
  <2>2. \E p : Sent(p)
    BY <1>1, <1>8, <2>1, AirSends DEF NextPeriod
  <2>3. QED
    BY <1>8, <2>1, <2>2 DEF NextPeriod, AirTyped
<1>9. ASSUME NEW g \in Progs, SendStream(g)
      PROVE  (\E p : Sent(p)) /\ AirTyped'
  <2>1. ecmOf[g] \in ECMs /\ period[ecmOf[g]] \in Nat
    BY DEF AirTyped
  <2>2. \E p : Sent(p)
    BY <1>1, <1>9, <2>1, AirSends DEF SendStream
  <2>3. QED
    BY <1>9, <2>2 DEF SendStream, AirTyped
<1>10. ASSUME NEW kind \in {"padding", "error"}, SendOther(kind)
       PROVE  (\E p : Sent(p)) /\ AirTyped'
  BY <1>1, <1>10, AirSends DEF SendOther, AirTyped
<1>11. QED
  BY <1>2, <1>3, <1>4, <1>5, <1>6, <1>7, <1>8, <1>9, <1>10 DEF BNext

LEMMA AirInit == BInit => Init /\ AirTyped
  BY BroadcastAssumption DEF BInit, AirTyped

LEMMA AirNext == AirTyped /\ [BNext]_allVars => AirTyped' /\ [Next]_vars
  BY AirStep DEF allVars, airVars, AirTyped, Next, Sent

\* Behind the broadcast the library takes no step of its own kind: what is proved
\* for any input holds there.
THEOREM BroadcastIsAnInput == BSpec => Spec
  BY AirInit, AirNext, PTL DEF BSpec, Spec

----------------------------------------------------------------------------
\* Repetitions.

\* The packet that went out last is still at the head of the buffer.
Stands == sbuf # <<>> /\ emitted.pkt = sbuf[1]

\* A packet that stays after it went out is a new PAT or an ECM the card failed on.
Stays ==
  /\ sbuf' = sbuf
  /\ \/ IsPat(sbuf[1]) /\ Fresh(sbuf[1]) /\ db'.pat = sbuf[1].progs
     \/ IsEcm(sbuf[1]) /\ failures' = failures + 1

LEMMA StepRepeats ==
  ASSUME TypeOK, Step
  PROVE  /\ \/ (Keeps \/ Skips) /\ (db'.pat = db.pat \/ at = "find_pat") /\ failures' >= failures
            \/ Writes /\ sbuf' = Tail(sbuf) /\ failures' >= failures
            \/ Writes /\ Stays
         /\ at' = "find_pat" => db'.pat = {} \/ (at = "find_pat" /\ db' = db)
<1>1. db \in Database /\ Tidied(db) /\ failures \in Nat
  BY DescramblerAssumption DEF TypeOK, Tidied
<1>2. GoOn(db') /\ at' = "find_pat" => db'.pat = {}
  BY DEF GoOn, Stage
<1>3. CASE PutBegin \/ FlushBegin \/ NeedMore \/ DecryptFailure \/ ProcEnd
  BY <1>1, <1>3
  DEF Stage, PutBegin, FlushBegin, NeedMore, DecryptFailure, ProcEnd, Keeps, Return, Processing
<1>4. CASE FindPat
  <2>1. GoOn(db') /\ Keeps /\ failures' = failures /\ at = "find_pat"
    BY <1>4 DEF FindPat, Keeps
  <2>2. QED
    BY <1>1, <1>2, <2>1
<1>5. CASE FindPmt
  <2>1. db'.pat = db.pat
    <3>1. CASE ~IsPmt(Ahead)
      BY <1>5, <3>1 DEF FindPmt
    <3>2. CASE IsPmt(Ahead)
      <4>1. Ahead \in Packet /\ Ahead.pid \in Progs
        BY <1>1, <1>5, <3>2, AheadTyped DEF FindPmt, IsPmt, Database
      <4>2. /\ WithPmt(db, Ahead) \in Database /\ Tidied(WithPmt(db, Ahead))
            /\ WithPmt(db, Ahead).pat = db.pat
        BY <1>1, <4>1, PmtTyped
      <4>3. /\ PmtSeen(db, Ahead.pid, 2).pat = db.pat
            /\ PmtSeen(WithPmt(db, Ahead), Ahead.pid, 1).pat = db.pat
        BY <1>1, <4>1, <4>2, PmtSeenTyped
      <4>4. db' \in {db, PmtSeen(db, Ahead.pid, 2), PmtSeen(WithPmt(db, Ahead), Ahead.pid, 1)}
        BY <1>5 DEF FindPmt, PmtSeen
      <4>5. QED
        BY <4>3, <4>4
    <3>3. QED
      BY <3>1, <3>2
  <2>2. GoOn(db') /\ Keeps /\ failures' = failures
    BY <1>5 DEF FindPmt, Keeps
  <2>3. QED
    BY <1>1, <1>2, <2>1, <2>2
<1>6. ASSUME NEW answer, FindFirstEcm(answer)
      PROVE  Keeps /\ db'.pat = db.pat /\ failures' >= failures
             /\ (at' = "find_pat" => db'.pat = {})
  <2>1. Ahead \in Packet /\ IsEcm(Ahead) /\ answer \in Answers(Ahead.pid)
    BY <1>6, AheadTyped DEF FindFirstEcm
  <2>2. /\ WithEcm(db, Ahead, answer) \in Database /\ Tidied(WithEcm(db, Ahead, answer))
        /\ Ahead.pid \in InUse(WithEcm(db, Ahead, answer))
        /\ WithEcm(db, Ahead, answer).pat = db.pat
    <3>1. /\ Ahead.pid \in InUse(db)
          /\ answer \in {"key", "failed", "refused", "locked"}
      BY <2>1, EcmAnswerTyped
    <3>2. QED
      BY <1>1, <2>1, <3>1, EcmTyped
  <2>3. EcmSeen(WithEcm(db, Ahead, answer), Ahead.pid, 1).pat = db.pat
    BY <2>2, EcmSeenTyped
  <2>4. db' \in {WithEcm(db, Ahead, answer), EcmSeen(WithEcm(db, Ahead, answer), Ahead.pid, 1)}
    BY <1>6 DEF FindFirstEcm, EcmSeen
  <2>5. Keeps /\ failures' \in {failures, failures + 1}
    BY <1>6 DEF FindFirstEcm, Keeps
  <2>6. at' = "find_pat" => db'.pat = {}
    <3>1. at' = "idle" \/ GoOn(db')
      BY <1>6 DEF FindFirstEcm
    <3>2. QED
      BY <1>2, <3>1
  <2>7. QED
    BY <1>1, <2>2, <2>3, <2>4, <2>5, <2>6
<1>7. CASE FindOther
  <2>1. IsEcm(Ahead) => EcmSeen(db, Ahead.pid, 2).pat = db.pat
    BY <1>1, EcmSeenTyped DEF IsEcm
  <2>2. db' = db \/ (IsEcm(Ahead) /\ db' = EcmSeen(db, Ahead.pid, 2))
    BY <1>7 DEF FindOther, EcmSeen
  <2>3. GoOn(db') /\ Keeps /\ failures' = failures
    BY <1>7 DEF FindOther, Keeps
  <2>4. QED
    BY <1>1, <1>2, <2>1, <2>2, <2>3
<1>8. CASE SkipPadding
  BY <1>1, <1>8, CurrentTyped DEF SkipPadding, Skips, Advance, Processing
<1>9. CASE PassPacket
  BY <1>1, <1>9, CurrentTyped DEF PassPacket, Writes, Advance, Processing
<1>10. CASE NewPmt \/ NewPat \/ \E answer : NewEcm(answer)
  <2>1. Processing /\ Readable /\ Emit(Current) /\ Fresh(Current)
    BY <1>10 DEF NewPmt, NewPat, NewEcm
  <2>2. sbuf # <<>> /\ Current = sbuf[1] /\ Current \in Packet
    BY <2>1, CurrentTyped
  <2>3. ~Padding(Current)
    BY <2>1, <2>2, FreshKinds DEF Padding
  <2>4. at' # "find_pat"
    BY <1>10, <2>1 DEF NewPmt, NewPat, NewEcm, Return, Processing
  <2>5. CASE NewPmt
    BY <1>1, <2>1, <2>2, <2>3, <2>4, <2>5 DEF NewPmt, Writes, Advance
  <2>6. CASE NewPat
    <3>1. db'.pat = Current.progs
      BY <1>1, <2>2, <2>6, PatTyped DEF NewPat
    <3>2. sbuf' = Tail(sbuf) \/ sbuf' = sbuf
      BY <2>1, <2>6 DEF NewPat, Advance, Processing
    <3>3. QED
      BY <1>1, <2>1, <2>2, <2>3, <2>4, <2>6, <3>1, <3>2 DEF NewPat, Writes, Stays
  <2>7. ASSUME NEW answer, NewEcm(answer)
        PROVE  \/ Writes /\ sbuf' = Tail(sbuf) /\ failures' >= failures
               \/ Writes /\ Stays
    BY <1>1, <2>1, <2>2, <2>3, <2>7 DEF NewEcm, Writes, Stays, Advance
  <2>8. QED
    BY <1>10, <2>4, <2>5, <2>6, <2>7
<1>11. QED
  BY <1>3, <1>4, <1>5, <1>6, <1>7, <1>8, <1>9, <1>10 DEF Step, CallStep

\* A packet that follows another one is not that packet again.
LEMMA NextNumber ==
  ASSUME NEW n \in 0 .. Wrap - 1
  PROVE  (n + 1) % Wrap # n
<1>1. Wrap \in Nat /\ Wrap > 1
  BY DescramblerAssumption
<1>2. CASE n + 1 = Wrap
  BY <1>1, <1>2
<1>3. CASE n + 1 < Wrap
  BY <1>1, <1>3
<1>4. QED
  BY <1>1, <1>2, <1>3

\* The first packet of the buffer is new or stands there since it went out, which
\* it can do only for a reason: a PAT was new and is in force now, the card failed
\* on an ECM every time.
RepeatInv ==
  /\ sbuf # <<>> => Follows(emitted.pkt.n, sbuf[1]) \/ Stands
  /\ Stands => IF emitted.pkt.kind = "PAT"
                 THEN emitted.times <= 1 /\ emitted.pkt.progs = db.pat
                 ELSE emitted.times <= failures
  /\ emitted.pkt.kind # "padding"
  /\ at = "find_pat" => db.pat = {}
  /\ \A i \in 1 .. Len(sbuf) : sbuf[i].kind = "PAT" => sbuf[i].progs # {}
  /\ RepeatsBounded

LEMMA NotTheSame ==
  ASSUME TypeOK, emitted.pkt.kind # "padding", NEW p, Follows(emitted.pkt.n, p)
  PROVE  emitted.pkt # p
<1>1. emitted.pkt.n \in 0 .. Wrap - 1
  BY DEF TypeOK, Packet
<1>2. QED
  BY <1>1, NextNumber DEF Follows

LEMMA StepRepeatInv ==
  ASSUME Strip, TypeOK, Numbered, RepeatInv, Step, TypeOK'
  PROVE  RepeatInv'
<1>1. /\ failures \in Nat /\ failures' \in Nat /\ emitted.times \in Nat
      /\ emitted'.times \in Nat
  BY DescramblerAssumption DEF TypeOK
<1>2. (at' = "find_pat" => db'.pat = {})
  BY StepRepeats DEF RepeatInv
<1>3. CASE (Keeps \/ Skips) /\ (db'.pat = db.pat \/ at = "find_pat") /\ failures' >= failures
  <2>1. CASE Keeps
    <3>1. Stands' = Stands /\ emitted' = emitted /\ sbuf' = sbuf
      BY <2>1 DEF Keeps, Stands
    <3>2. Stands /\ emitted.pkt.kind = "PAT" => db'.pat = db.pat
      <4>1. Stands => 1 \in 1 .. Len(sbuf)
        BY DEF Stands, TypeOK
      <4>2. Stands /\ emitted.pkt.kind = "PAT" => db.pat # {}
        BY <4>1 DEF RepeatInv, Stands
      <4>3. QED
        BY <1>3, <4>2 DEF RepeatInv
    <3>3. RepeatsBounded'
      BY <1>1, <1>3, <3>1 DEF RepeatInv, RepeatsBounded
    <3>4. (Stands => IF emitted.pkt.kind = "PAT"
                       THEN emitted.times <= 1 /\ emitted.pkt.progs = db.pat
                       ELSE emitted.times <= failures)'
      BY <1>1, <1>3, <3>1, <3>2 DEF RepeatInv
    <3>5. QED
      BY <1>2, <3>1, <3>3, <3>4 DEF RepeatInv, Follows
  <2>2. CASE Skips
    <3>1. ~Stands
      BY <2>2 DEF Skips, Padding, Stands, RepeatInv
    <3>2. sbuf[1].n = emitted.pkt.n
      BY <2>2, <3>1 DEF Skips, Padding, RepeatInv, Follows
    <3>3. emitted' = emitted /\ sbuf' = Tail(sbuf) /\ sbuf # <<>>
      BY <2>2 DEF Skips
    <3>4. sbuf' # <<>> => Follows(emitted'.pkt.n, sbuf'[1])
      <4> SUFFICES ASSUME sbuf' # <<>> PROVE Follows(emitted'.pkt.n, sbuf'[1])
        OBVIOUS
      <4>1. 2 \in 1 .. Len(sbuf) /\ sbuf'[1] = sbuf[2]
        BY <3>3 DEF TypeOK
      <4>2. Follows(sbuf[1].n, sbuf[2])
        BY <4>1 DEF Numbered, NumberBefore
      <4>3. QED
        BY <3>2, <3>3, <4>1, <4>2 DEF Follows
    <3>5. ~Stands'
      BY <3>3, <3>4, NotTheSame DEF RepeatInv, Stands
    <3>6. \A i \in 1 .. Len(sbuf') : sbuf'[i].kind = "PAT" => sbuf'[i].progs # {}
      <4>1. \A i \in 1 .. Len(sbuf') : i + 1 \in 1 .. Len(sbuf) /\ sbuf'[i] = sbuf[i + 1]
        BY <3>3 DEF TypeOK
      <4>2. QED
        BY <4>1 DEF RepeatInv
    <3>7. RepeatsBounded'
      BY <1>1, <1>3, <3>3 DEF RepeatInv, RepeatsBounded
    <3>8. QED
      BY <1>2, <3>3, <3>4, <3>5, <3>6, <3>7 DEF RepeatInv, Follows
  <2>3. QED
    BY <1>3, <2>1, <2>2
<1>4. ASSUME Writes
      PROVE  /\ sbuf # <<>> /\ emitted'.pkt = sbuf[1]
             /\ emitted'.times = IF Stands THEN emitted.times + 1 ELSE 1
             /\ emitted'.pkt.kind # "padding"
  BY <1>4 DEF Writes, Emit, Stands, Padding
<1>5. CASE Writes /\ sbuf' = Tail(sbuf) /\ failures' >= failures
  <2>1. RepeatsBounded'
    BY <1>1, <1>4, <1>5 DEF RepeatInv, RepeatsBounded, Stands
  <2>2. sbuf' # <<>> => Follows(emitted'.pkt.n, sbuf'[1])
    <3> SUFFICES ASSUME sbuf' # <<>> PROVE Follows(emitted'.pkt.n, sbuf'[1])
      OBVIOUS
    <3>1. 2 \in 1 .. Len(sbuf) /\ sbuf'[1] = sbuf[2]
      BY <1>4, <1>5 DEF TypeOK
    <3>2. Follows(sbuf[1].n, sbuf[2])
      BY <3>1 DEF Numbered, NumberBefore
    <3>3. QED
      BY <1>4, <1>5, <3>1, <3>2 DEF Follows
  <2>3. ~Stands'
    <3>1. sbuf' # <<>> => emitted'.pkt.n # sbuf'[1].n \/ sbuf'[1].kind = "padding"
      <4>1. emitted'.pkt.n \in 0 .. Wrap - 1
        BY DEF TypeOK, Packet
      <4>2. QED
        BY <2>2, <4>1, NextNumber DEF Follows
    <3> SUFFICES ASSUME Stands'
                 PROVE  FALSE
      OBVIOUS
    <3>2. sbuf' # <<>> /\ emitted'.pkt = sbuf'[1]
      BY DEF Stands
    <3>3. emitted'.pkt.kind # "padding"
      BY <1>4, <1>5
    <3>4. QED
      BY <3>1, <3>2, <3>3
  <2>4. \A i \in 1 .. Len(sbuf') : sbuf'[i].kind = "PAT" => sbuf'[i].progs # {}
    <3>1. \A i \in 1 .. Len(sbuf') : i + 1 \in 1 .. Len(sbuf) /\ sbuf'[i] = sbuf[i + 1]
      BY <1>4, <1>5 DEF TypeOK
    <3>2. QED
      BY <3>1 DEF RepeatInv
  <2>5. QED
    BY <1>2, <1>4, <1>5, <2>1, <2>2, <2>3, <2>4 DEF RepeatInv, Follows
<1>6. CASE Writes /\ Stays
  <2>1. sbuf' = sbuf /\ Stands'
    BY <1>4, <1>6 DEF Stays, Stands
  <2>2. \A i \in 1 .. Len(sbuf') : sbuf'[i].kind = "PAT" => sbuf'[i].progs # {}
    BY <2>1 DEF RepeatInv
  <2>3. CASE IsPat(sbuf[1]) /\ Fresh(sbuf[1]) /\ db'.pat = sbuf[1].progs
    <3>1. sbuf[1].kind = "PAT" /\ sbuf[1].progs # db.pat
      BY <2>3 DEF Fresh, IsPat, IsPmt, IsEcm
    <3>2. ~Stands
      BY <3>1 DEF RepeatInv, Stands
    <3>3. emitted'.times = 1 /\ emitted'.pkt.kind = "PAT" /\ emitted'.pkt.progs = db'.pat
      BY <1>4, <1>6, <2>3, <3>1, <3>2
    <3>4. QED
      BY <1>2, <1>1, <2>1, <2>2, <3>3 DEF RepeatInv, RepeatsBounded
  <2>4. CASE IsEcm(sbuf[1]) /\ failures' = failures + 1
    <3>1. emitted'.pkt.kind = "ECM"
      BY <1>4, <1>6, <2>4 DEF IsEcm
    <3>2. emitted'.times <= failures'
      <4>1. Stands => emitted.times <= failures
        BY <1>4, <1>6, <3>1 DEF RepeatInv, Stands
      <4>2. QED
        BY <1>1, <1>4, <1>6, <2>4, <4>1
    <3>3. QED
      BY <1>2, <1>1, <2>1, <2>2, <3>1, <3>2 DEF RepeatInv, RepeatsBounded
  <2>5. QED
    BY <1>6, <2>3, <2>4 DEF Stays
<1>7. QED
  BY <1>3, <1>5, <1>6, StepRepeats

LEMMA ArriveRepeatInv ==
  ASSUME Strip, TypeOK, Numbered, RepeatInv, NEW p, Sent(p), {} \notin PATs
  PROVE  RepeatInv'
<1> DEFINE q == [p EXCEPT !.n = count']
<1>1. /\ sbuf' = Append(sbuf, q) /\ UNCHANGED <<emitted, db, at, failures>>
      /\ count' = IF p.kind = "padding" THEN count ELSE (count + 1) % Wrap
  BY DEF Sent, Arrive
<1>2. q.n = count' /\ q.kind = p.kind /\ q.progs = p.progs
  BY DEF Sent, Packet
<1> HIDE DEF q
<1>3. /\ Len(sbuf) \in Nat /\ Len(sbuf') = Len(sbuf) + 1 /\ sbuf' # <<>>
      /\ \A i \in 1 .. Len(sbuf) : sbuf'[i] = sbuf[i]
      /\ sbuf'[Len(sbuf) + 1] = q
  BY <1>1 DEF TypeOK
<1>4. \A i \in 1 .. Len(sbuf') : sbuf'[i].kind = "PAT" => sbuf'[i].progs # {}
  <2> SUFFICES ASSUME NEW i \in 1 .. Len(sbuf'), sbuf'[i].kind = "PAT"
               PROVE  sbuf'[i].progs # {}
    OBVIOUS
  <2>1. CASE i \in 1 .. Len(sbuf)
    BY <1>3, <2>1 DEF RepeatInv
  <2>2. CASE i = Len(sbuf) + 1
    BY <1>2, <1>3, <2>2 DEF Sent
  <2>3. QED
    BY <1>3, <2>1, <2>2
<1>5. CASE sbuf = <<>>
  <2>1. Len(sbuf) = 0 /\ sbuf'[1] = q /\ count = emitted.pkt.n
    BY <1>3, <1>5 DEF Numbered
  <2>2. Follows(emitted.pkt.n, sbuf'[1])
    BY <1>1, <1>2, <2>1 DEF Follows
  <2>3. emitted.pkt # sbuf'[1]
    BY <2>2, NotTheSame DEF RepeatInv
  <2>4. QED
    BY <1>1, <1>4, <2>2, <2>3 DEF RepeatInv, Stands, RepeatsBounded, Follows
<1>6. CASE sbuf # <<>>
  <2>1. sbuf'[1] = sbuf[1]
    BY <1>3, <1>6 DEF TypeOK
  <2>2. QED
    BY <1>1, <1>3, <1>4, <1>6, <2>1 DEF RepeatInv, Stands, RepeatsBounded, Follows
<1>7. QED
  BY <1>5, <1>6

LEMMA InitRepeatInv == Init => RepeatInv
  BY DescramblerAssumption DEF Init, RepeatInv, Stands, RepeatsBounded, NoPacket

LEMMA NextRepeatInv ==
  ASSUME Strip, {} \notin PATs
  PROVE  TypeOK /\ TypeOK' /\ Numbered /\ AirTyped /\ RepeatInv /\ [BNext]_allVars => RepeatInv'
<1>1. SUFFICES ASSUME TypeOK, TypeOK', Numbered, AirTyped, RepeatInv, [BNext]_allVars
               PROVE  RepeatInv'
  OBVIOUS
<1>2. CASE UNCHANGED allVars
  BY <1>1, <1>2 DEF allVars, vars, RepeatInv, Stands, RepeatsBounded, Follows
<1>3. CASE BNext
  BY <1>1, <1>3, AirStep, StepRepeatInv, ArriveRepeatInv
<1>4. QED
  BY <1>1, <1>2, <1>3

\* Whatever the loops come back to goes out again only for a reason: a new PAT once,
\* any other packet once for every failure of the card.  A PAT without programs would
\* be new again at every call, since the look-ahead for a PAT then starts once more;
\* padding has no number that tells one packet of it from the next.
THEOREM RepetitionsBounded ==
  ASSUME Strip, {} \notin PATs
  PROVE  BSpec => []RepeatsBounded
<1>1. RepeatInv => RepeatsBounded
  BY DEF RepeatInv
<1>2. TypeOK /\ TypeOK' /\ Numbered /\ AirTyped /\ RepeatInv /\ [BNext]_allVars => RepeatInv'
  BY NextRepeatInv
<1>3. QED
  BY <1>1, <1>2, AirInit, AirNext, InitTyped, NextTyped, InitNumbered, NextNumbered,
     InitRepeatInv, PTL DEF BSpec

----------------------------------------------------------------------------
\* Keys and their periods in the buffer, with one ECM PID.  `now` is the period on
\* air.

Timed(p) == p.kind \in {"ES", "ECM"}
EcmAt(s, i, t) == i \in 1 .. Len(s) /\ s[i].kind = "ECM" /\ s[i].period = t

\* One packet more, one packet less.
Longer(s, t, p) ==
  /\ s \in Seq(Packet) /\ t \in Seq(Packet)
  /\ Len(t) = Len(s) + 1 /\ t[Len(s) + 1] = p
  /\ \A i \in 1 .. Len(s) : t[i] = s[i]

Shorter(s, t) ==
  /\ s \in Seq(Packet) /\ t \in Seq(Packet)
  /\ Len(s) = Len(t) + 1
  /\ \A i \in 1 .. Len(t) : t[i] = s[i + 1]

\* Periods only grow, and every one begins with its ECM.
Line(s, now) ==
  /\ \A j \in 1 .. Len(s) : Timed(s[j]) =>
       /\ s[j].period <= now
       /\ s[j].period < now => \E x \in j + 1 .. Len(s) : EcmAt(s, x, now)
  /\ \A i, j \in 1 .. Len(s) : i < j /\ Timed(s[i]) /\ Timed(s[j]) =>
       /\ s[i].period <= s[j].period
       /\ s[i].period < s[j].period => \E x \in i + 1 .. j : EcmAt(s, x, s[j].period)

\* Behind packet a, the first ECM is that of the period of all packets before it.
From(s, a, b, now) ==
  /\ \A j \in a + 1 .. Len(s) : Timed(s[j]) =>
       /\ s[j].period >= b
       /\ s[j].period > b => \E x \in a + 1 .. j - 1 : EcmAt(s, x, b)
  /\ now >= b
  /\ now > b => \E x \in a + 1 .. Len(s) : EcmAt(s, x, b)

EcmBehind(s, a) == \E x \in a + 1 .. Len(s) : s[x].kind = "ECM"

Restart(s, a, now, again) ==
  /\ \E b \in Nat : From(s, a, b, now)
  /\ again => EcmBehind(s, a)

\* With the key of period q, every later period begins with its ECM.
Keyed(s, q, now) ==
  /\ \A j \in 1 .. Len(s) : Timed(s[j]) =>
       /\ s[j].period >= q
       /\ s[j].period > q => \E x \in 1 .. j : EcmAt(s, x, s[j].period)
  /\ now >= q
  /\ now > q => \E x \in 1 .. Len(s) : EcmAt(s, x, now)

\* What the broadcast sends next: a packet of the running period, or the ECM of the
\* next one if that of the running one came since the tables last changed.
Follow(p, now, next, again) ==
  /\ Timed(p) => p.period = next
  /\ next = now \/ (next = now + 1 /\ p.kind = "ECM" /\ again)

LEMMA PeriodsNat ==
  ASSUME NEW s \in Seq(Packet), NEW i \in 1 .. Len(s)
  PROVE  s[i].period \in Nat /\ s[i] \in Packet
<1>1. s[i] \in Packet
  OBVIOUS
<1>2. QED
  BY <1>1 DEF Packet

LEMMA LongerEcm ==
  ASSUME NEW s, NEW t, NEW p, Longer(s, t, p), NEW x, NEW y, EcmAt(s, x, y)
  PROVE  EcmAt(t, x, y) /\ x \in 1 .. Len(s)
  BY DEF Longer, EcmAt

LEMMA ShorterEcm ==
  ASSUME NEW s, NEW t, Shorter(s, t), NEW x, NEW y, EcmAt(s, x, y), x # 1
  PROVE  EcmAt(t, x - 1, y)
  BY DEF Shorter, EcmAt

LEMMA LineGrows ==
  ASSUME NEW s, NEW t, NEW p, Longer(s, t, p), NEW now \in Nat, NEW next \in Nat, NEW again,
         Follow(p, now, next, again), Line(s, now)
  PROVE  Line(t, next)
<1>1. /\ Len(s) \in Nat /\ Len(t) = Len(s) + 1 /\ t[Len(s) + 1] = p
      /\ \A i \in 1 .. Len(s) : t[i] = s[i]
      /\ next >= now /\ p.period \in Nat
      /\ \A i \in 1 .. Len(s) : s[i].period \in Nat
  BY PeriodsNat DEF Longer, Follow
<1>2. next > now => EcmAt(t, Len(s) + 1, next)
  BY <1>1 DEF Follow, Timed, EcmAt
<1>3. ASSUME NEW j \in 1 .. Len(t), Timed(t[j])
      PROVE  /\ t[j].period <= next
             /\ t[j].period < next => \E x \in j + 1 .. Len(t) : EcmAt(t, x, next)
  <2>1. CASE j = Len(s) + 1
    BY <1>1, <1>3, <2>1 DEF Follow
  <2>2. CASE j \in 1 .. Len(s)
    <3>1. /\ s[j].period <= now
          /\ s[j].period < now => \E x \in j + 1 .. Len(s) : EcmAt(s, x, now)
      BY <1>1, <1>3, <2>2 DEF Line
    <3>2. CASE next > now
      BY <1>1, <1>2, <2>2, <3>1, <3>2
    <3>3. CASE next = now
      BY <1>1, <2>2, <3>1, <3>3, LongerEcm
    <3>4. QED
      BY <1>1, <3>2, <3>3
  <2>3. QED
    BY <1>1, <2>1, <2>2
<1>4. ASSUME NEW i \in 1 .. Len(t), NEW j \in 1 .. Len(t), i < j, Timed(t[i]), Timed(t[j])
      PROVE  /\ t[i].period <= t[j].period
             /\ t[i].period < t[j].period => \E x \in i + 1 .. j : EcmAt(t, x, t[j].period)
  <2>1. i \in 1 .. Len(s) /\ t[i] = s[i]
    BY <1>1, <1>4
  <2>2. CASE j = Len(s) + 1
    <3>1. t[j].period = next
      BY <1>1, <1>4, <2>2 DEF Follow
    <3>2. QED
      BY <1>1, <1>3, <1>4, <2>1, <2>2, <3>1
  <2>3. CASE j \in 1 .. Len(s)
    <3>1. /\ s[i].period <= s[j].period
          /\ s[i].period < s[j].period => \E x \in i + 1 .. j : EcmAt(s, x, s[j].period)
      BY <1>1, <1>4, <2>1, <2>3 DEF Line
    <3>2. QED
      BY <1>1, <2>1, <2>3, <3>1, LongerEcm
  <2>4. QED
    BY <1>1, <2>2, <2>3
<1>5. QED
  BY <1>3, <1>4 DEF Line

LEMMA LineShrinks ==
  ASSUME NEW s, NEW t, Shorter(s, t), NEW now \in Nat, Line(s, now)
  PROVE  Line(t, now)
<1>1. /\ Len(t) \in Nat /\ Len(s) = Len(t) + 1
      /\ \A i \in 1 .. Len(t) : t[i] = s[i + 1] /\ i + 1 \in 1 .. Len(s)
  BY DEF Shorter
<1>2. ASSUME NEW j \in 1 .. Len(t), Timed(t[j])
      PROVE  /\ t[j].period <= now
             /\ t[j].period < now => \E x \in j + 1 .. Len(t) : EcmAt(t, x, now)
  <2>1. /\ t[j].period <= now
        /\ t[j].period < now => \E x \in (j + 1) + 1 .. Len(s) : EcmAt(s, x, now)
    BY <1>1, <1>2 DEF Line
  <2>2. ASSUME NEW x \in (j + 1) + 1 .. Len(s), EcmAt(s, x, now)
        PROVE  x - 1 \in j + 1 .. Len(t) /\ EcmAt(t, x - 1, now)
    <3>1. x # 1 /\ x - 1 \in j + 1 .. Len(t)
      BY <1>1, <2>2
    <3>2. QED
      BY <2>2, <3>1, ShorterEcm
  <2>3. QED
    BY <2>1, <2>2
<1>3. ASSUME NEW i \in 1 .. Len(t), NEW j \in 1 .. Len(t), i < j, Timed(t[i]), Timed(t[j])
      PROVE  /\ t[i].period <= t[j].period
             /\ t[i].period < t[j].period => \E x \in i + 1 .. j : EcmAt(t, x, t[j].period)
  <2>1. /\ t[i].period <= t[j].period
        /\ t[i].period < t[j].period => \E x \in (i + 1) + 1 .. j + 1 : EcmAt(s, x, t[j].period)
    <3>1. /\ i + 1 \in 1 .. Len(s) /\ j + 1 \in 1 .. Len(s) /\ i + 1 < j + 1
          /\ t[i] = s[i + 1] /\ t[j] = s[j + 1]
      BY <1>1, <1>3
    <3>2. Timed(s[i + 1]) /\ Timed(s[j + 1])
      BY <1>3, <3>1
    <3>3. QED
      BY <3>1, <3>2 DEF Line
  <2>2. ASSUME NEW x \in (i + 1) + 1 .. j + 1, EcmAt(s, x, t[j].period)
        PROVE  x - 1 \in i + 1 .. j /\ EcmAt(t, x - 1, t[j].period)
    BY <1>1, <2>2, ShorterEcm
  <2>3. QED
    BY <2>1, <2>2
<1>4. QED
  BY <1>2, <1>3 DEF Line

LEMMA RestartGrows ==
  ASSUME NEW s, NEW t, NEW p, Longer(s, t, p), NEW now \in Nat, NEW next \in Nat,
         NEW again, NEW more, NEW a \in 0 .. Len(s),
         Follow(p, now, next, again), Line(s, now), Restart(s, a, now, again),
         more => again \/ p.kind = "ECM"
  PROVE  Restart(t, a, next, more)
<1>1. /\ Len(s) \in Nat /\ Len(t) = Len(s) + 1 /\ t[Len(s) + 1] = p
      /\ \A i \in 1 .. Len(s) : t[i] = s[i]
      /\ next >= now /\ p.period \in Nat
      /\ \A i \in 1 .. Len(s) : s[i].period \in Nat
  BY PeriodsNat DEF Longer, Follow
<1>2. PICK b \in Nat : From(s, a, b, now)
  BY DEF Restart
<1>3. next > b => \E x \in a + 1 .. Len(s) : EcmAt(s, x, b)
  <2>1. CASE now > b
    BY <1>2, <2>1 DEF From
  <2>2. CASE now = b
    <3> SUFFICES ASSUME next > b PROVE \E x \in a + 1 .. Len(s) : EcmAt(s, x, b)
      OBVIOUS
    <3>1. again
      BY <2>2 DEF Follow
    <3>2. PICK x \in a + 1 .. Len(s) : s[x].kind = "ECM"
      BY <3>1 DEF Restart, EcmBehind
    <3>3. x \in 1 .. Len(s) /\ Timed(s[x])
      BY <1>1, <3>2 DEF Timed
    <3>4. s[x].period >= b /\ s[x].period <= now
      BY <1>2, <3>2, <3>3 DEF From, Line
    <3>5. EcmAt(s, x, b)
      BY <1>1, <2>2, <3>2, <3>3, <3>4 DEF EcmAt
    <3>6. QED
      BY <3>5
  <2>3. QED
    BY <1>2, <2>1, <2>2 DEF From
<1>4. From(t, a, b, next)
  <2>1. ASSUME NEW j \in a + 1 .. Len(t), Timed(t[j])
        PROVE  /\ t[j].period >= b
               /\ t[j].period > b => \E x \in a + 1 .. j - 1 : EcmAt(t, x, b)
    <3>1. CASE j = Len(s) + 1
      <4>1. t[j].period = next /\ next >= b
        BY <1>1, <1>2, <2>1, <3>1 DEF Follow, From
      <4>2. ASSUME next > b
            PROVE  \E x \in a + 1 .. j - 1 : EcmAt(t, x, b)
        <5>1. PICK x \in a + 1 .. Len(s) : EcmAt(s, x, b)
          BY <1>3, <4>2
        <5>2. EcmAt(t, x, b) /\ x \in a + 1 .. j - 1
          BY <1>1, <3>1, <5>1, LongerEcm
        <5>3. QED
          BY <5>2
      <4>3. QED
        BY <4>1, <4>2
    <3>2. CASE j \in a + 1 .. Len(s)
      <4>1. j \in 1 .. Len(s) /\ t[j] = s[j]
        BY <1>1, <3>2
      <4>2. /\ s[j].period >= b
            /\ s[j].period > b => \E x \in a + 1 .. j - 1 : EcmAt(s, x, b)
        BY <1>2, <2>1, <3>2, <4>1 DEF From
      <4>3. QED
        BY <4>1, <4>2, LongerEcm
    <3>3. QED
      BY <1>1, <2>1, <3>1, <3>2
  <2>2. next >= b
    BY <1>1, <1>2 DEF From
  <2>3. next > b => \E x \in a + 1 .. Len(t) : EcmAt(t, x, b)
    <3> SUFFICES ASSUME next > b PROVE \E x \in a + 1 .. Len(t) : EcmAt(t, x, b)
      OBVIOUS
    <3>1. PICK x \in a + 1 .. Len(s) : EcmAt(s, x, b)
      BY <1>3
    <3>2. EcmAt(t, x, b) /\ x \in a + 1 .. Len(t)
      BY <1>1, <3>1, LongerEcm
    <3>3. QED
      BY <3>2
  <2>4. QED
    BY <2>1, <2>2, <2>3 DEF From
<1>5. more => EcmBehind(t, a)
  <2>1. CASE p.kind = "ECM"
    BY <1>1, <2>1 DEF EcmBehind
  <2>2. CASE more /\ again
    <3>1. PICK x \in a + 1 .. Len(s) : s[x].kind = "ECM"
      BY <2>2 DEF Restart, EcmBehind
    <3>2. x \in a + 1 .. Len(t) /\ t[x] = s[x]
      BY <1>1, <3>1
    <3>3. QED
      BY <3>1, <3>2 DEF EcmBehind
  <2>3. QED
    BY <2>1, <2>2
<1>6. QED
  BY <1>4, <1>5 DEF Restart

\* A PAT that has just been sent: nothing is behind it yet.
LEMMA RestartBegins ==
  ASSUME NEW s, NEW a, a = Len(s), NEW now \in Nat
  PROVE  Restart(s, a, now, FALSE)
<1>1. From(s, a, now, now)
  BY DEF From
<1>2. QED
  BY <1>1 DEF Restart

LEMMA RestartShrinks ==
  ASSUME NEW s, NEW t, Shorter(s, t), NEW now \in Nat, NEW again,
         NEW a \in 1 .. Len(s), Restart(s, a, now, again)
  PROVE  Restart(t, a - 1, now, again)
<1>1. /\ Len(t) \in Nat /\ Len(s) = Len(t) + 1
      /\ \A i \in 1 .. Len(t) : t[i] = s[i + 1] /\ i + 1 \in 1 .. Len(s)
  BY DEF Shorter
<1>2. PICK b \in Nat : From(s, a, b, now)
  BY DEF Restart
<1>3. ASSUME NEW l \in Nat, NEW x \in a + 1 .. l, EcmAt(s, x, b)
      PROVE  x - 1 \in a .. l - 1 /\ EcmAt(t, x - 1, b)
  <2>1. x # 1 /\ x - 1 \in a .. l - 1
    BY <1>1, <1>3
  <2>2. QED
    BY <1>3, <2>1, ShorterEcm
<1>4. ASSUME NEW j \in (a - 1) + 1 .. Len(t), Timed(t[j])
      PROVE  /\ t[j].period >= b
             /\ t[j].period > b => \E x \in (a - 1) + 1 .. j - 1 : EcmAt(t, x, b)
  <2>1. j + 1 \in a + 1 .. Len(s) /\ t[j] = s[j + 1] /\ (j + 1) - 1 = j /\ j \in Nat
    BY <1>1
  <2>2. /\ t[j].period >= b
        /\ t[j].period > b => \E x \in a + 1 .. j : EcmAt(s, x, b)
    BY <1>2, <1>4, <2>1 DEF From
  <2>3. ASSUME t[j].period > b
        PROVE  \E x \in (a - 1) + 1 .. j - 1 : EcmAt(t, x, b)
    <3>1. PICK x \in a + 1 .. j : EcmAt(s, x, b)
      BY <2>2, <2>3
    <3>2. x - 1 \in a .. j - 1 /\ EcmAt(t, x - 1, b)
      BY <1>3, <2>1, <3>1
    <3>3. QED
      BY <3>2
  <2>4. QED
    BY <2>2, <2>3
<1>5. now > b => \E x \in (a - 1) + 1 .. Len(t) : EcmAt(t, x, b)
  <2> SUFFICES ASSUME now > b PROVE \E x \in (a - 1) + 1 .. Len(t) : EcmAt(t, x, b)
    OBVIOUS
  <2>1. PICK x \in a + 1 .. Len(s) : EcmAt(s, x, b)
    BY <1>2 DEF From
  <2>2. Len(s) \in Nat
    BY <1>1
  <2>3. x - 1 \in a .. Len(s) - 1 /\ EcmAt(t, x - 1, b)
    BY <1>3, <2>1, <2>2
  <2>4. QED
    BY <1>1, <2>3
<1>6. From(t, a - 1, b, now)
  BY <1>2, <1>4, <1>5 DEF From
<1>7. again => EcmBehind(t, a - 1)
  <2> SUFFICES ASSUME again PROVE EcmBehind(t, a - 1)
    OBVIOUS
  <2>1. PICK x \in a + 1 .. Len(s) : s[x].kind = "ECM"
    BY DEF Restart, EcmBehind
  <2>2. x - 1 \in (a - 1) + 1 .. Len(t) /\ t[x - 1] = s[x]
    BY <1>1, <2>1
  <2>3. QED
    BY <2>1, <2>2 DEF EcmBehind
<1>8. QED
  BY <1>6, <1>7 DEF Restart

\* What holds behind the PAT at the head holds from the head on.
LEMMA RestartAtHead ==
  ASSUME NEW s \in Seq(Packet), s # <<>>, NEW now \in Nat, NEW again,
         Restart(s, 1, now, again), ~Timed(s[1])
  PROVE  Restart(s, 0, now, again)
<1>1. PICK b \in Nat : From(s, 1, b, now)
  BY DEF Restart
<1>2. ASSUME NEW j \in 0 + 1 .. Len(s), Timed(s[j])
      PROVE  /\ s[j].period >= b
             /\ s[j].period > b => \E x \in 0 + 1 .. j - 1 : EcmAt(s, x, b)
  <2>1. j \in 1 + 1 .. Len(s)
    BY <1>2
  <2>2. QED
    BY <1>1, <1>2, <2>1 DEF From
<1>3. From(s, 0, b, now)
  BY <1>1, <1>2 DEF From
<1>4. again => EcmBehind(s, 0)
  BY DEF Restart, EcmBehind
<1>5. QED
  BY <1>3, <1>4 DEF Restart

LEMMA KeyedGrows ==
  ASSUME NEW s, NEW t, NEW p, Longer(s, t, p), NEW now \in Nat, NEW next \in Nat,
         NEW again, NEW q \in Nat, Follow(p, now, next, again), Keyed(s, q, now)
  PROVE  Keyed(t, q, next)
<1>1. /\ Len(s) \in Nat /\ Len(t) = Len(s) + 1 /\ t[Len(s) + 1] = p
      /\ \A i \in 1 .. Len(s) : t[i] = s[i]
      /\ next >= now /\ p.period \in Nat
  BY PeriodsNat DEF Longer, Follow
<1>2. /\ now >= q
      /\ now > q => \E x \in 1 .. Len(s) : EcmAt(s, x, now)
  BY DEF Keyed
<1>3. next > q => \E x \in 1 .. Len(t) : EcmAt(t, x, next)
  <2>1. CASE next = now
    <3> SUFFICES ASSUME next > q PROVE \E x \in 1 .. Len(t) : EcmAt(t, x, next)
      OBVIOUS
    <3>1. PICK x \in 1 .. Len(s) : EcmAt(s, x, now)
      BY <1>2, <2>1
    <3>2. EcmAt(t, x, next) /\ x \in 1 .. Len(t)
      BY <1>1, <2>1, <3>1, LongerEcm
    <3>3. QED
      BY <3>2
  <2>2. CASE p.kind = "ECM" /\ p.period = next
    <3>1. EcmAt(t, Len(s) + 1, next)
      BY <1>1, <2>2 DEF EcmAt
    <3>2. QED
      BY <1>1, <3>1
  <2>3. QED
    BY <2>1, <2>2 DEF Follow, Timed
<1>4. ASSUME NEW j \in 1 .. Len(t), Timed(t[j])
      PROVE  /\ t[j].period >= q
             /\ t[j].period > q => \E x \in 1 .. j : EcmAt(t, x, t[j].period)
  <2>1. CASE j = Len(s) + 1
    <3>1. t[j].period = next
      BY <1>1, <1>4, <2>1 DEF Follow
    <3>2. QED
      BY <1>1, <1>2, <1>3, <2>1, <3>1
  <2>2. CASE j \in 1 .. Len(s)
    <3>1. /\ t[j] = s[j]
          /\ s[j].period >= q
          /\ s[j].period > q => \E x \in 1 .. j : EcmAt(s, x, s[j].period)
      BY <1>1, <1>4, <2>2 DEF Keyed
    <3>2. QED
      BY <3>1, LongerEcm
  <2>3. QED
    BY <1>1, <2>1, <2>2
<1>5. next >= q
  BY <1>1, <1>2
<1>6. QED
  BY <1>3, <1>4, <1>5 DEF Keyed

\* The head goes; if it was an ECM its key is the one that is set now.
LEMMA KeyedShrinks ==
  ASSUME NEW s, NEW t, Shorter(s, t), NEW now \in Nat, NEW q \in Nat, Line(s, now),
         Keyed(s, q, now), NEW r,
         r = IF s[1].kind = "ECM" THEN s[1].period ELSE q
  PROVE  Keyed(t, r, now)
<1>1. /\ Len(t) \in Nat /\ Len(s) = Len(t) + 1 /\ 1 \in 1 .. Len(s)
      /\ \A i \in 1 .. Len(t) : t[i] = s[i + 1] /\ i + 1 \in 1 .. Len(s)
      /\ \A i \in 1 .. Len(s) : s[i].period \in Nat
  BY PeriodsNat DEF Shorter
<1>2. /\ r \in Nat /\ r >= q
      /\ s[1].kind = "ECM" => r = s[1].period /\ Timed(s[1])
      /\ s[1].kind # "ECM" => r = q
  BY <1>1 DEF Timed, Keyed
<1>3. ASSUME NEW l \in Nat, NEW v \in Nat, v > r,
             \E x \in 1 .. l + 1 : EcmAt(s, x, v)
      PROVE  \E x \in 1 .. l : EcmAt(t, x, v)
  <2>1. PICK x \in 1 .. l + 1 : EcmAt(s, x, v)
    BY <1>3
  <2>2. x # 1
    BY <1>2, <1>3, <2>1 DEF EcmAt
  <2>3. EcmAt(t, x - 1, v) /\ x - 1 \in 1 .. l
    BY <2>1, <2>2, ShorterEcm
  <2>4. QED
    BY <2>3
<1>4. ASSUME NEW j \in 1 .. Len(t), Timed(t[j])
      PROVE  /\ t[j].period >= r
             /\ t[j].period > r => \E x \in 1 .. j : EcmAt(t, x, t[j].period)
  <2>1. /\ t[j] = s[j + 1] /\ j + 1 \in 1 .. Len(s) /\ 1 < j + 1 /\ (j + 1) - 1 = j
        /\ t[j].period \in Nat /\ j \in Nat
    BY <1>1
  <2>2. /\ t[j].period >= q
        /\ t[j].period > q => \E x \in 1 .. j + 1 : EcmAt(s, x, t[j].period)
    BY <1>4, <2>1 DEF Keyed
  <2>3. t[j].period >= r
    BY <1>1, <1>2, <1>4, <2>1, <2>2 DEF Line
  <2>4. ASSUME t[j].period > r
        PROVE  \E x \in 1 .. j : EcmAt(t, x, t[j].period)
    <3>1. \E x \in 1 .. j + 1 : EcmAt(s, x, t[j].period)
      BY <1>2, <2>1, <2>2, <2>4
    <3>2. QED
      BY <1>3, <2>1, <2>4, <3>1
  <2>5. QED
    BY <2>3, <2>4
<1>5. now >= r
  BY <1>1, <1>2 DEF Line, Keyed
<1>6. now > r => \E x \in 1 .. Len(t) : EcmAt(t, x, now)
  <2> SUFFICES ASSUME now > r PROVE \E x \in 1 .. Len(t) : EcmAt(t, x, now)
    OBVIOUS
  <2>1. \E x \in 1 .. Len(s) : EcmAt(s, x, now)
    BY <1>2 DEF Keyed
  <2>2. Len(s) = Len(t) + 1 /\ Len(t) \in Nat
    BY <1>1
  <2>3. QED
    BY <1>3, <2>1, <2>2
<1>7. QED
  BY <1>4, <1>5, <1>6 DEF Keyed

\* The first ECM the look-ahead finds has the key of everything before it.
LEMMA FirstKey ==
  ASSUME NEW s \in Seq(Packet), NEW now \in Nat, NEW again, Restart(s, 0, now, again),
         Line(s, now), NEW o \in 1 .. Len(s), s[o].kind = "ECM",
         \A i \in 1 .. o - 1 : s[i].kind # "ECM"
  PROVE  Keyed(s, s[o].period, now)
<1>1. PICK b \in Nat : From(s, 0, b, now)
  BY DEF Restart
<1>2. /\ Len(s) \in Nat
      /\ \A i \in 1 .. Len(s) : s[i].period \in Nat
  BY PeriodsNat
<1>3. s[o].period = b
  <2>1. /\ s[o].period >= b
        /\ s[o].period > b => \E x \in 0 + 1 .. o - 1 : EcmAt(s, x, b)
    BY <1>1 DEF From, Timed
  <2>2. ~(\E x \in 0 + 1 .. o - 1 : EcmAt(s, x, b))
    BY DEF EcmAt
  <2>3. QED
    BY <1>2, <2>1, <2>2
<1>4. ASSUME NEW j \in 1 .. Len(s), Timed(s[j])
      PROVE  /\ s[j].period >= b
             /\ s[j].period > b => \E x \in 1 .. j : EcmAt(s, x, s[j].period)
  <2>1. /\ s[j].period >= b
        /\ s[j].period > b => \E x \in 1 .. j - 1 : EcmAt(s, x, b)
    BY <1>1, <1>4 DEF From
  <2>2. ASSUME s[j].period > b
        PROVE  \E x \in 1 .. j : EcmAt(s, x, s[j].period)
    <3>1. PICK i \in 1 .. j - 1 : EcmAt(s, i, b)
      BY <2>1, <2>2
    <3>2. i \in 1 .. Len(s) /\ i < j /\ Timed(s[i]) /\ s[i].period = b
      BY <3>1 DEF EcmAt, Timed
    <3>3. \E x \in i + 1 .. j : EcmAt(s, x, s[j].period)
      BY <1>4, <2>2, <3>2 DEF Line
    <3>4. QED
      BY <3>2, <3>3
  <2>3. QED
    BY <2>1, <2>2
<1>5. now >= b
  BY <1>1 DEF From
<1>6. now > b => \E x \in 1 .. Len(s) : EcmAt(s, x, now)
  <2> SUFFICES ASSUME now > b PROVE \E x \in 1 .. Len(s) : EcmAt(s, x, now)
    OBVIOUS
  <2>1. PICK i \in 1 .. Len(s) : EcmAt(s, i, b)
    BY <1>1 DEF From
  <2>2. Timed(s[i]) /\ s[i].period = b
    BY <2>1 DEF EcmAt, Timed
  <2>3. \E x \in i + 1 .. Len(s) : EcmAt(s, x, now)
    BY <2>2 DEF Line
  <2>4. QED
    BY <2>3
<1>7. QED
  BY <1>3, <1>4, <1>5, <1>6 DEF Keyed

----------------------------------------------------------------------------
\* The PATs in the buffer, and which of them will be new when they are reached.

\* x is the PAT in force behind the first n packets, if pat is before them.
InForce(s, pat, n, x) ==
  \/ \E b \in 1 .. n : /\ s[b].kind = "PAT" /\ s[b].progs = x
                       /\ \A c \in b + 1 .. n : s[c].kind # "PAT"
  \/ (\A c \in 1 .. n : s[c].kind # "PAT") /\ x = pat

Changed(s, pat, a) ==
  /\ a \in 1 .. Len(s) /\ s[a].kind = "PAT"
  /\ \E x \in SUBSET Progs : InForce(s, pat, a - 1, x) /\ x \notin {{}, s[a].progs}

LEMMA ForceGrows ==
  ASSUME NEW s, NEW t, NEW p, Longer(s, t, p), NEW pat, NEW n \in 0 .. Len(s), NEW x
  PROVE  InForce(t, pat, n, x) <=> InForce(s, pat, n, x)
<1>1. \A i \in 1 .. n : t[i] = s[i]
  BY DEF Longer
<1>2. \A b \in 1 .. n : \A c \in b + 1 .. n : c \in 1 .. n
  OBVIOUS
<1>3. QED
  BY <1>1, <1>2 DEF InForce

LEMMA ChangedGrows ==
  ASSUME NEW s, NEW t, NEW p, Longer(s, t, p), NEW pat, NEW a \in 1 .. Len(s),
         Changed(t, pat, a)
  PROVE  Changed(s, pat, a)
<1>1. a - 1 \in 0 .. Len(s) /\ t[a] = s[a]
  BY DEF Longer
<1>2. QED
  BY <1>1, ForceGrows DEF Changed

LEMMA ForceAtEnd ==
  ASSUME NEW s, NEW t, NEW p, Longer(s, t, p), NEW pat, NEW x, InForce(t, pat, Len(t), x)
  PROVE  IF p.kind = "PAT" THEN x = p.progs ELSE InForce(s, pat, Len(s), x)
<1>1. /\ Len(s) \in Nat /\ Len(t) = Len(s) + 1 /\ t[Len(s) + 1] = p
      /\ \A i \in 1 .. Len(s) : t[i] = s[i]
  BY DEF Longer
<1>2. CASE p.kind = "PAT"
  <2>1. Len(t) \in 1 .. Len(t) /\ t[Len(t)].kind = "PAT"
    BY <1>1, <1>2
  <2>2. PICK b \in 1 .. Len(t) : /\ t[b].kind = "PAT" /\ t[b].progs = x
                                 /\ \A c \in b + 1 .. Len(t) : t[c].kind # "PAT"
    BY <2>1 DEF InForce
  <2>3. b = Len(t)
    BY <1>1, <2>1, <2>2
  <2>4. QED
    BY <1>1, <1>2, <2>2, <2>3
<1>3. CASE p.kind # "PAT"
  <2>1. CASE \E b \in 1 .. Len(t) : /\ t[b].kind = "PAT" /\ t[b].progs = x
                                    /\ \A c \in b + 1 .. Len(t) : t[c].kind # "PAT"
    <3>1. PICK b \in 1 .. Len(t) : /\ t[b].kind = "PAT" /\ t[b].progs = x
                                   /\ \A c \in b + 1 .. Len(t) : t[c].kind # "PAT"
      BY <2>1
    <3>2. b # Len(s) + 1
      BY <1>1, <1>3, <3>1
    <3>3. b \in 1 .. Len(s)
      BY <1>1, <3>2
    <3>4. /\ s[b].kind = "PAT" /\ s[b].progs = x
          /\ \A c \in b + 1 .. Len(s) : s[c].kind # "PAT"
      BY <1>1, <3>1, <3>3
    <3>5. QED
      BY <1>3, <3>3, <3>4 DEF InForce
  <2>2. CASE (\A c \in 1 .. Len(t) : t[c].kind # "PAT") /\ x = pat
    <3>1. \A c \in 1 .. Len(s) : s[c].kind # "PAT"
      BY <1>1, <2>2
    <3>2. QED
      BY <1>3, <2>2, <3>1 DEF InForce
  <2>3. QED
    BY <2>1, <2>2 DEF InForce
<1>4. QED
  BY <1>2, <1>3

\* The head goes: if it is a PAT, it is the one in force.
LEMMA ForceShrinks ==
  ASSUME NEW s, NEW t, Shorter(s, t), NEW pat, s[1].kind = "PAT" => s[1].progs = pat,
         NEW n \in 0 .. Len(t), NEW x, InForce(t, pat, n, x)
  PROVE  InForce(s, pat, n + 1, x)
<1>1. /\ Len(t) \in Nat /\ Len(s) = Len(t) + 1
      /\ \A i \in 1 .. Len(t) : t[i] = s[i + 1]
  BY DEF Shorter
<1>2. CASE \E b \in 1 .. n : /\ t[b].kind = "PAT" /\ t[b].progs = x
                             /\ \A c \in b + 1 .. n : t[c].kind # "PAT"
  <2>1. PICK b \in 1 .. n : /\ t[b].kind = "PAT" /\ t[b].progs = x
                            /\ \A c \in b + 1 .. n : t[c].kind # "PAT"
    BY <1>2
  <2>2. b + 1 \in 1 .. n + 1 /\ s[b + 1].kind = "PAT" /\ s[b + 1].progs = x
    BY <1>1, <2>1
  <2>3. ASSUME NEW c \in (b + 1) + 1 .. n + 1
        PROVE  s[c].kind # "PAT"
    <3>1. c - 1 \in b + 1 .. n /\ c - 1 \in 1 .. Len(t) /\ (c - 1) + 1 = c
      BY <1>1
    <3>2. s[c] = t[c - 1]
      BY <1>1, <3>1
    <3>3. QED
      BY <2>1, <3>1, <3>2
  <2>4. QED
    BY <2>2, <2>3 DEF InForce
<1>3. CASE (\A c \in 1 .. n : t[c].kind # "PAT") /\ x = pat
  <2>1. ASSUME NEW c \in 1 + 1 .. n + 1
        PROVE  s[c].kind # "PAT"
    <3>1. c - 1 \in 1 .. n /\ c - 1 \in 1 .. Len(t) /\ (c - 1) + 1 = c
      BY <1>1
    <3>2. s[c] = t[c - 1]
      BY <1>1, <3>1
    <3>3. QED
      BY <1>3, <3>1, <3>2
  <2>2. CASE s[1].kind = "PAT"
    <3>1. 1 \in 1 .. n + 1 /\ s[1].progs = x
      BY <1>3, <2>2
    <3>2. QED
      BY <2>1, <2>2, <3>1 DEF InForce
  <2>3. CASE s[1].kind # "PAT"
    <3>1. \A c \in 1 .. n + 1 : s[c].kind # "PAT"
      BY <2>1, <2>3
    <3>2. QED
      BY <1>3, <3>1 DEF InForce
  <2>4. QED
    BY <2>2, <2>3
<1>4. QED
  BY <1>2, <1>3 DEF InForce

LEMMA ChangedShrinks ==
  ASSUME NEW s, NEW t, Shorter(s, t), NEW pat, s[1].kind = "PAT" => s[1].progs = pat,
         NEW a, Changed(t, pat, a)
  PROVE  Changed(s, pat, a + 1) /\ a + 1 \in 1 .. Len(s) /\ a \in Nat
<1>1. /\ Len(t) \in Nat /\ Len(s) = Len(t) + 1 /\ a \in 1 .. Len(t)
      /\ a - 1 \in 0 .. Len(t) /\ (a - 1) + 1 = a /\ (a + 1) - 1 = a
      /\ t[a] = s[a + 1] /\ a + 1 \in 1 .. Len(s)
  BY DEF Shorter, Changed
<1>2. PICK x \in SUBSET Progs : InForce(t, pat, a - 1, x) /\ x \notin {{}, t[a].progs}
  BY DEF Changed
<1>3. InForce(s, pat, a, x)
  BY <1>1, <1>2, ForceShrinks
<1>4. QED
  BY <1>1, <1>2, <1>3 DEF Changed

----------------------------------------------------------------------------
\* A steady broadcast: one ECM PID k, paid for, a card that answers; programs come and
\* go, but no PAT is empty, and the application does not flush.
Steady(k) ==
  /\ ECMs = {k} /\ Contracted = {k} /\ MaxFailures = 0
  /\ {} \notin PATs /\ Events \cap {"pmt", "flush"} = {}

Fitting(p, k) ==
  /\ p.kind \in {"PMT", "ES"} => p.ecm = k
  /\ p.kind = "ECM" => p.pid = k
  /\ p.kind = "PAT" => p.progs # {}

\* The one decryptor is there with a key exactly when nothing is looked for any more.
OneDecryptor(d, k) ==
  /\ \A g \in Progs : d.prog[g].phase # 0 => d.prog[g].ecm = k
  /\ d.dec[k].m2 <=> d.dec[k].phase # 0
  /\ d.dec[k].m2 <=> d.dec[k].key # None
  /\ d.dec[k].m2 <=> Stage(d) = "proc"
  /\ d.dec[k].seen = d.dec[k].key
  /\ ~d.dec[k].locked

\* What the look-ahead passed by was not what it looked for.
PassedBy ==
  /\ at \in {"idle", Stage(db)}
  /\ offset <= Len(sbuf)
  /\ Stage(db) = "proc" => offset = 0
  /\ \A i \in 1 .. offset : /\ Stage(db) = "find_pat" => sbuf[i].kind # "PAT"
                            /\ Stage(db) = "find_ecm" => sbuf[i].kind # "ECM"

Again(k) == k \in repeated

\* Behind every PAT that will be new, and at the start, the first ECM is the right
\* one; once there is a key, it is that of the packets at the head.
KeysAhead(k) ==
  /\ Line(sbuf, period[k])
  /\ \A a \in 1 .. Len(sbuf) :
       Changed(sbuf, db.pat, a) => Restart(sbuf, a, period[k], Again(k))
  /\ IF db.dec[k].m2 THEN Keyed(sbuf, db.dec[k].key, period[k])
     ELSE Restart(sbuf, 0, period[k], Again(k))

SteadyInv(k) ==
  /\ \A i \in 1 .. Len(sbuf) : Fitting(sbuf[i], k)
  /\ OneDecryptor(db, k)
  /\ PassedBy
  /\ \A x \in SUBSET Progs : InForce(sbuf, db.pat, Len(sbuf), x) => x \in {{}, listed}
  /\ KeysAhead(k)
  /\ emitted.how \in {"plain", "clear"}

----------------------------------------------------------------------------
\* The one decryptor.

LEMMA SteadyFacts ==
  ASSUME NEW k, Steady(k), TypeOK
  PROVE  /\ k \in ECMs /\ ECMs = {k} /\ k # None /\ failures = 0 /\ MaxFailures = 0
         /\ ~db.dec[k].locked => Answers(k) = {"key"}
<1>1. k \in ECMs /\ ECMs = {k} /\ k # None /\ failures = 0 /\ MaxFailures = 0
  BY DescramblerAssumption DEF Steady, TypeOK
<1>2. k \in Contracted /\ ~(failures < MaxFailures)
  BY <1>1 DEF Steady
<1>3. QED
  BY <1>1, <1>2 DEF Answers

\* When every PMT waited for is there, the decryptor is in use, and it is waited for
\* until it has had an ECM.
NamesIt(d, k) == \A g \in Progs : d.prog[g].phase # 0 => d.prog[g].ecm = k

LEMMA OneInUse ==
  ASSUME NEW k, ECMs = {k}, k # None, NEW d \in Database, NamesIt(d, k)
  PROVE  /\ d.pat # {} /\ PmtComplete(d) => InUse(d) = {k}
         /\ Stage(d) = "proc" <=> d.pat # {} /\ PmtComplete(d) /\ d.dec[k].phase # 0
         /\ Stage(d) = "find_ecm" <=> d.pat # {} /\ PmtComplete(d) /\ d.dec[k].phase = 0
         /\ Stage(d) = "find_pmt" <=> d.pat # {} /\ ~PmtComplete(d)
<1>1. ASSUME d.pat # {}, PmtComplete(d)
      PROVE  InUse(d) = {k}
  <2>1. PICK g \in d.pat : d.prog[g].phase # 0
    BY <1>1 DEF PmtComplete
  <2>2. g \in Progs
    BY DEF Database
  <2>3. d.prog[g].ecm = k
    BY <2>1, <2>2 DEF NamesIt
  <2>4. k \in InUse(d)
    BY <2>3 DEF InUse
  <2>5. QED
    BY <2>4, InUseTyped
<1>2. ASSUME InUse(d) = {k}
      PROVE  EcmComplete(d) <=> d.dec[k].phase # 0
  <2>1. d.dec[k].phase \in 0 .. 2
    BY DEF Database, Decryptor
  <2>2. QED
    BY <1>2, <2>1 DEF EcmComplete
<1>3. QED
  BY <1>1, <1>2 DEF Stage

LEMMA PatOne ==
  ASSUME NEW k, Steady(k), k # None, NEW d \in Database, NEW p \in Packet, p.progs # {}
  PROVE  /\ OneDecryptor(WithPat(d, p), k)
         /\ Stage(WithPat(d, p)) = "find_pmt"
         /\ ~WithPat(d, p).dec[k].m2
<1> DEFINE e == WithPat(d, p)
<1>1. /\ e \in Database /\ e.pat = p.progs /\ e.pat \subseteq Progs
      /\ e.prog = [g \in Progs |-> NewProgram]
      /\ e.dec = [j \in ECMs |-> NewDecryptor]
  BY PatTyped DEF Database
<1> HIDE DEF e
<1>2. \A g \in Progs : e.prog[g].phase = 0
  BY <1>1 DEF NewProgram
<1>3. ~PmtComplete(e)
  BY <1>1, <1>2 DEF PmtComplete
<1>4. e.dec[k] = NewDecryptor
  BY <1>1 DEF Steady
<1>5. Stage(e) = "find_pmt"
  BY <1>1, <1>3 DEF Stage
<1>6. OneDecryptor(e, k)
  BY <1>2, <1>4, <1>5 DEF OneDecryptor, NewDecryptor
<1>7. QED
  BY <1>4, <1>5, <1>6 DEF e, NewDecryptor

\* The decryptor is as it was, and so is what is waited for.
LEMMA SameOne ==
  ASSUME NEW k, ECMs = {k}, k # None, NEW d \in Database, NEW e \in Database,
         OneDecryptor(d, k), NamesIt(e, k), e.dec[k] = d.dec[k],
         Stage(d) = "proc" <=> Stage(e) = "proc"
  PROVE  OneDecryptor(e, k)
  BY DEF OneDecryptor, NamesIt

LEMMA EcmOne ==
  ASSUME NEW k, Steady(k), k # None, NEW d \in Database, Tidied(d), OneDecryptor(d, k),
         NEW p \in Packet, p.pid = k, k \in InUse(d),
         NEW e, e = WithEcm(d, p, "key")
  PROVE  /\ e \in Database /\ e.pat = d.pat /\ e.prog = d.prog /\ InUse(e) = {k}
         /\ e.dec[k].seen = p.period /\ e.dec[k].key = p.period /\ e.dec[k].m2
         /\ e.dec[k].phase = d.dec[k].phase /\ ~e.dec[k].locked
         /\ Tidied(e)
<1>1. /\ e \in Database /\ e.pat = d.pat /\ e.prog = d.prog /\ InUse(e) = InUse(d)
      /\ Tidied(e)
  BY EcmTyped
<1>2. InUse(d) = {k}
  BY InUseTyped DEF Steady
<1>3. k \in ECMs /\ d.dec[k] \in Decryptor
  BY DEF Steady, Database
<1>4. e.dec[k] = [d.dec[k] EXCEPT !.seen = p.period, !.m2 = TRUE, !.key = p.period]
  BY <1>3 DEF WithEcm, Database
<1>5. ~d.dec[k].locked
  BY DEF OneDecryptor
<1>6. QED
  BY <1>1, <1>2, <1>3, <1>4, <1>5 DEF Decryptor

----------------------------------------------------------------------------
\* The steps of the look-ahead.

AirAsBefore == UNCHANGED <<listed, period, repeated>>

\* Nothing goes out and no key is set: only what is waited for may change.
LEMMA QuietStep ==
  ASSUME NEW k, SteadyInv(k), AirAsBefore, sbuf' = sbuf, emitted' = emitted,
         db'.pat = db.pat, db'.dec[k] = db.dec[k], OneDecryptor(db', k), PassedBy'
  PROVE  SteadyInv(k)'
<1>1. Again(k)' = Again(k) /\ period' = period /\ listed' = listed
  BY DEF AirAsBefore, Again
<1>2. KeysAhead(k)'
  BY <1>1 DEF SteadyInv, KeysAhead
<1>3. QED
  BY <1>1, <1>2 DEF SteadyInv

LEMMA GoOnPasses ==
  ASSUME NEW k, Steady(k), TypeOK, SteadyInv(k), More, GoOn(db'), sbuf' = sbuf, at = Stage(db),
         \/ Stage(db') = "find_pmt"
         \/ Stage(db') = "find_pat" /\ Ahead.kind # "PAT"
         \/ Stage(db') = "find_ecm" /\ (at = "find_ecm" => Ahead.kind # "ECM")
         \/ Stage(db') = "proc" /\ at # "proc"
  PROVE  PassedBy'
<1>1. /\ offset \in Nat /\ Len(sbuf) \in Nat /\ offset + 1 <= Len(sbuf)
      /\ Ahead = sbuf[offset + 1]
      /\ \A i \in 1 .. offset : /\ Stage(db) = "find_pat" => sbuf[i].kind # "PAT"
                                /\ Stage(db) = "find_ecm" => sbuf[i].kind # "ECM"
  BY DEF TypeOK, More, Ahead, SteadyInv, PassedBy
<1>2. at' = Stage(db')
  BY DEF GoOn
<1>3. CASE Stage(db') = at
  <2>1. offset' = offset + 1
    BY <1>3 DEF GoOn
  <2>2. \A i \in 1 .. offset + 1 : i \in 1 .. offset \/ i = offset + 1
    BY <1>1
  <2>3. \A i \in 1 .. offset' : /\ Stage(db') = "find_pat" => sbuf[i].kind # "PAT"
                                /\ Stage(db') = "find_ecm" => sbuf[i].kind # "ECM"
    BY <1>1, <1>3, <2>1, <2>2
  <2>4. QED
    BY <1>1, <1>2, <1>3, <2>1, <2>3 DEF PassedBy
<1>4. CASE Stage(db') # at
  <2>1. offset' = 0
    BY <1>4 DEF GoOn
  <2>2. QED
    BY <1>1, <1>2, <2>1 DEF PassedBy
<1>5. QED
  BY <1>3, <1>4

LEMMA SteadyTypes ==
  ASSUME NEW k, Steady(k), TypeOK, AirTyped, SteadyInv(k)
  PROVE  /\ k \in ECMs /\ ECMs = {k} /\ k # None
         /\ db \in Database /\ Tidied(db) /\ db.dec[k] \in Decryptor
         /\ period[k] \in Nat /\ NamesIt(db, k) /\ OneDecryptor(db, k)
         /\ db.dec[k].m2 => db.dec[k].key \in Nat
         /\ at # "idle" => at = Stage(db)
<1>1. k \in ECMs /\ ECMs = {k} /\ k # None
  BY SteadyFacts
<1>2. db \in Database /\ Tidied(db) /\ db.dec[k] \in Decryptor
  BY <1>1 DEF TypeOK, Tidied, Database
<1>3. OneDecryptor(db, k) /\ NamesIt(db, k)
  BY DEF SteadyInv, OneDecryptor, NamesIt
<1>4. db.dec[k].m2 => db.dec[k].key \in Nat
  BY <1>2, <1>3 DEF OneDecryptor, Decryptor
<1>5. period[k] \in Nat
  BY <1>1 DEF AirTyped
<1>6. QED
  BY <1>1, <1>2, <1>3, <1>4, <1>5 DEF SteadyInv, PassedBy

\* The first PAT: it was not in force before, so what follows it, and all PATs
\* behind it, were ahead before, too.
LEMMA FindPatSteady ==
  ASSUME NEW k, Steady(k), TypeOK, TypeOK', AirTyped, SteadyInv(k), AirAsBefore, FindPat
  PROVE  SteadyInv(k)'
<1>1. /\ at = "find_pat" /\ More /\ GoOn(db') /\ sbuf' = sbuf /\ emitted' = emitted
      /\ at = Stage(db) /\ k \in ECMs /\ ECMs = {k} /\ k # None /\ db \in Database
      /\ OneDecryptor(db, k) /\ db' \in Database
  BY SteadyTypes DEF FindPat, TypeOK
<1>2. db.pat = {} /\ ~db.dec[k].m2
  BY <1>1 DEF Stage, OneDecryptor
<1>3. /\ offset \in Nat /\ Len(sbuf) \in Nat /\ Ahead \in Packet
      /\ offset + 1 \in 1 .. Len(sbuf) /\ Ahead = sbuf[offset + 1]
      /\ \A i \in 1 .. offset : sbuf[i].kind # "PAT"
  BY <1>1, AheadTyped DEF TypeOK, SteadyInv, PassedBy
<1>4. CASE Ahead.kind # "PAT"
  <2>1. db' = db
    BY <1>4 DEF FindPat, IsPat
  <2>2. PassedBy'
    BY <1>1, <1>4, <2>1, GoOnPasses
  <2>3. QED
    BY <1>1, <2>1, <2>2, QuietStep
<1>5. CASE Ahead.kind = "PAT"
  <2>1. Ahead.progs # {}
    BY <1>3, <1>5 DEF SteadyInv, Fitting
  <2>2. db' = WithPat(db, Ahead)
    BY <1>2, <1>5, <2>1 DEF FindPat, Fresh, IsPat
  <2>3. /\ OneDecryptor(db', k) /\ Stage(db') = "find_pmt" /\ ~db'.dec[k].m2
        /\ db'.pat = Ahead.progs
    BY <1>1, <1>3, <2>1, <2>2, PatOne, PatTyped
  <2>4. PassedBy'
    BY <1>1, <2>3, GoOnPasses
  <2>5. ASSUME NEW n \in 0 .. Len(sbuf), NEW x, InForce(sbuf, Ahead.progs, n, x)
        PROVE  InForce(sbuf, {}, n, x) \/ (n <= offset /\ x = Ahead.progs)
    <3>1. CASE \E b \in 1 .. n : /\ sbuf[b].kind = "PAT" /\ sbuf[b].progs = x
                                 /\ \A c \in b + 1 .. n : sbuf[c].kind # "PAT"
      BY <3>1 DEF InForce
    <3>2. CASE (\A c \in 1 .. n : sbuf[c].kind # "PAT") /\ x = Ahead.progs
      <4>1. offset + 1 \notin 1 .. n
        BY <1>3, <1>5, <3>2
      <4>2. QED
        BY <1>3, <3>2, <4>1
    <3>3. QED
      BY <2>5, <3>1, <3>2 DEF InForce
  <2>6. ASSUME NEW a, Changed(sbuf, Ahead.progs, a)
        PROVE  Changed(sbuf, {}, a)
    <3>1. /\ a \in 1 .. Len(sbuf) /\ sbuf[a].kind = "PAT" /\ a - 1 \in 0 .. Len(sbuf)
      BY <1>3, <2>6 DEF Changed
    <3>2. PICK x \in SUBSET Progs : InForce(sbuf, Ahead.progs, a - 1, x) /\ x \notin {{}, sbuf[a].progs}
      BY <2>6 DEF Changed
    <3>3. CASE InForce(sbuf, {}, a - 1, x)
      BY <3>1, <3>2, <3>3 DEF Changed
    <3>4. CASE a - 1 <= offset /\ x = Ahead.progs
      <4>1. a \notin 1 .. offset
        BY <1>3, <3>1
      <4>2. a = offset + 1
        BY <1>3, <3>1, <3>4, <4>1
      <4>3. QED
        BY <1>3, <3>2, <3>4, <4>2
    <3>5. QED
      BY <2>5, <3>1, <3>2, <3>3, <3>4
  <2>7. Again(k)' = Again(k) /\ period' = period /\ listed' = listed
    BY DEF AirAsBefore, Again
  <2>8. KeysAhead(k)'
    <3>1. \A a \in 1 .. Len(sbuf') :
            Changed(sbuf', db'.pat, a) => Restart(sbuf', a, period'[k], Again(k)')
      BY <1>1, <1>2, <2>3, <2>6, <2>7 DEF SteadyInv, KeysAhead
    <3>2. Line(sbuf', period'[k]) /\ Restart(sbuf', 0, period'[k], Again(k)')
      BY <1>1, <1>2, <2>7 DEF SteadyInv, KeysAhead
    <3>3. QED
      BY <2>3, <3>1, <3>2 DEF KeysAhead
  <2>9. \A x \in SUBSET Progs :
          InForce(sbuf', db'.pat, Len(sbuf'), x) => x \in {{}, listed'}
    <3> SUFFICES ASSUME NEW x \in SUBSET Progs, InForce(sbuf, Ahead.progs, Len(sbuf), x)
                 PROVE  x \in {{}, listed}
      BY <1>1, <2>3, <2>7
    <3>1. InForce(sbuf, {}, Len(sbuf), x) \/ Len(sbuf) <= offset
      BY <1>3, <2>5
    <3>2. ~(Len(sbuf) <= offset)
      BY <1>3
    <3>3. QED
      BY <1>2, <3>1, <3>2 DEF SteadyInv
  <2>10. QED
    BY <1>1, <2>3, <2>4, <2>8, <2>9 DEF SteadyInv
<1>6. QED
  BY <1>4, <1>5

\* A PMT names the decryptor; an ECM is only waited for now.
LEMMA FindPmtSteady ==
  ASSUME NEW k, Steady(k), TypeOK, TypeOK', AirTyped, SteadyInv(k), AirAsBefore, FindPmt
  PROVE  SteadyInv(k)'
<1>1. /\ at = "find_pmt" /\ More /\ GoOn(db') /\ sbuf' = sbuf /\ emitted' = emitted
      /\ at = Stage(db) /\ k \in ECMs /\ ECMs = {k} /\ k # None /\ db \in Database
      /\ OneDecryptor(db, k) /\ db' \in Database /\ Tidied(db) /\ NamesIt(db, k)
  BY SteadyTypes DEF FindPmt, TypeOK
<1>2. db.pat # {} /\ ~db.dec[k].m2 /\ db.dec[k].phase = 0
  BY <1>1 DEF Stage, OneDecryptor
<1>3. Ahead \in Packet /\ Ahead = sbuf[offset + 1] /\ offset + 1 \in 1 .. Len(sbuf)
  BY <1>1, AheadTyped
<1>4. db'.pat = db.pat /\ db'.dec[k] = db.dec[k] /\ NamesIt(db', k)
  <2>1. CASE db' = db
    BY <1>1, <2>1
  <2>2. CASE db' # db
    <3>1. IsPmt(Ahead)
      BY <2>2 DEF FindPmt
    <3>2. Ahead.pid \in Progs /\ Ahead.pid \in db.pat /\ Ahead.ecm = k
      BY <1>1, <1>3, <3>1 DEF IsPmt, Database, SteadyInv, Fitting
    <3>3. CASE db' = PmtSeen(db, Ahead.pid, 2) /\ db.prog[Ahead.pid].phase # 0
      <4>1. /\ db'.pat = db.pat /\ db'.dec = db.dec
            /\ db'.prog = [db.prog EXCEPT ![Ahead.pid].phase = 2]
        BY <1>1, <3>2, <3>3, PmtSeenTyped
      <4>2. NamesIt(db', k)
        BY <1>1, <3>2, <3>3, <4>1 DEF NamesIt, Database, Program
      <4>3. QED
        BY <4>1, <4>2
    <3>4. CASE db' = PmtSeen(WithPmt(db, Ahead), Ahead.pid, 1)
      <4> DEFINE d == WithPmt(db, Ahead)
      <4>1. /\ d \in Database /\ Tidied(d) /\ d.pat = db.pat
            /\ d.prog = [db.prog EXCEPT ![Ahead.pid].ecm = Ahead.ecm]
            /\ \A j \in InUse(d) : d.dec[j] = db.dec[j]
        BY <1>1, <1>3, <3>2, PmtTyped
      <4> HIDE DEF d
      <4>2. d.prog[Ahead.pid].ecm = k
        BY <1>1, <3>2, <4>1 DEF Database, Program
      <4>3. k \in InUse(d)
        BY <1>1, <3>2, <4>1, <4>2 DEF InUse
      <4>4. db' = PmtSeen(d, Ahead.pid, 1)
        BY <3>4 DEF d
      <4>5. /\ db'.pat = d.pat /\ db'.dec = d.dec
            /\ db'.prog = [d.prog EXCEPT ![Ahead.pid].phase = 1]
        BY <3>2, <4>1, <4>4, PmtSeenTyped
      <4>6. db'.prog[Ahead.pid].ecm = k
        BY <3>2, <4>1, <4>2, <4>5 DEF Database, Program
      <4>7. \A g \in Progs \ {Ahead.pid} : db'.prog[g] = db.prog[g]
        BY <1>1, <3>2, <4>1, <4>5 DEF Database, Program
      <4>8. NamesIt(db', k)
        BY <1>1, <4>6, <4>7 DEF NamesIt
      <4>9. QED
        BY <4>1, <4>3, <4>5, <4>8
    <3>5. QED
      BY <2>2, <3>3, <3>4 DEF FindPmt, PmtSeen
  <2>3. QED
    BY <2>1, <2>2
<1>5. Stage(db') \in {"find_pmt", "find_ecm"}
  BY <1>1, <1>2, <1>4, OneInUse DEF Stage
<1>6. OneDecryptor(db', k)
  BY <1>1, <1>4, <1>5, SameOne
<1>7. PassedBy'
  BY <1>1, <1>5, GoOnPasses
<1>8. QED
  BY <1>1, <1>4, <1>6, <1>7, QuietStep

\* The first ECM behind a PAT: its key is that of all packets in the buffer.
LEMMA FindFirstEcmSteady ==
  ASSUME NEW k, Steady(k), TypeOK, TypeOK', AirTyped, SteadyInv(k), AirAsBefore,
         NEW answer, FindFirstEcm(answer)
  PROVE  SteadyInv(k)'
<1>1. /\ at = "find_ecm" /\ More /\ sbuf' = sbuf /\ emitted' = emitted
      /\ at = Stage(db) /\ k \in ECMs /\ ECMs = {k} /\ k # None /\ db \in Database
      /\ OneDecryptor(db, k) /\ db' \in Database /\ Tidied(db) /\ NamesIt(db, k)
      /\ period[k] \in Nat
  BY SteadyTypes DEF FindFirstEcm, TypeOK
<1>2. /\ offset \in Nat /\ Len(sbuf) \in Nat /\ sbuf \in Seq(Packet) /\ Ahead \in Packet
      /\ offset + 1 \in 1 .. Len(sbuf) /\ Ahead = sbuf[offset + 1]
      /\ \A i \in 1 .. offset : sbuf[i].kind # "ECM"
  BY <1>1, AheadTyped DEF TypeOK, SteadyInv, PassedBy
<1>3. Ahead.kind = "ECM" /\ Ahead.pid \in InUse(db) /\ Ahead.pid = k
  BY <1>1, InUseTyped DEF FindFirstEcm, IsEcm
<1>4. answer = "key"
  BY <1>1, <1>3, SteadyFacts DEF FindFirstEcm, OneDecryptor
<1>5. db.pat # {} /\ PmtComplete(db) /\ ~db.dec[k].m2
  BY <1>1 DEF Stage, OneDecryptor
<1> DEFINE e == WithEcm(db, Ahead, "key")
<1>6. /\ e \in Database /\ e.pat = db.pat /\ e.prog = db.prog /\ InUse(e) = {k}
      /\ e.dec[k].seen = Ahead.period /\ e.dec[k].key = Ahead.period /\ e.dec[k].m2
      /\ ~e.dec[k].locked /\ Tidied(e)
  BY <1>1, <1>2, <1>3, EcmOne
<1> HIDE DEF e
<1>7. db' = EcmSeen(e, k, 1) /\ GoOn(db')
  BY <1>3, <1>4 DEF FindFirstEcm, EcmSeen, e
<1>8. /\ db'.pat = db.pat /\ db'.prog = db.prog
      /\ db'.dec = [e.dec EXCEPT ![k].phase = 1]
  BY <1>6, <1>7, EcmSeenTyped
<1>9. /\ db'.dec[k].seen = Ahead.period /\ db'.dec[k].key = Ahead.period /\ db'.dec[k].m2
      /\ ~db'.dec[k].locked /\ db'.dec[k].phase = 1
  BY <1>1, <1>6, <1>8 DEF Database, Decryptor
<1>10. NamesIt(db', k) /\ PmtComplete(db')
  BY <1>1, <1>5, <1>8 DEF NamesIt, PmtComplete
<1>11. Stage(db') = "proc"
  <2>1. db'.pat # {} /\ db'.dec[k].phase # 0
    BY <1>5, <1>8, <1>9
  <2>2. Stage(db') = "proc" <=> db'.pat # {} /\ PmtComplete(db') /\ db'.dec[k].phase # 0
    BY <1>1, <1>10, OneInUse
  <2>3. QED
    BY <1>10, <2>1, <2>2
<1>12. OneDecryptor(db', k)
  <2>1. db'.dec[k].key # None
    BY <1>2, <1>9, DescramblerAssumption DEF Packet
  <2>2. QED
    BY <1>9, <1>10, <1>11, <2>1 DEF OneDecryptor, NamesIt
<1>13. PassedBy'
  BY <1>1, <1>7, <1>11, GoOnPasses
<1>14. Again(k)' = Again(k) /\ period' = period /\ listed' = listed
  BY DEF AirAsBefore, Again
<1>15. Keyed(sbuf, Ahead.period, period[k])
  <2>1. Restart(sbuf, 0, period[k], Again(k)) /\ Line(sbuf, period[k])
    BY <1>5 DEF SteadyInv, KeysAhead
  <2>2. \A i \in 1 .. (offset + 1) - 1 : sbuf[i].kind # "ECM"
    BY <1>2
  <2>3. sbuf[offset + 1].kind = "ECM"
    BY <1>2, <1>3
  <2>4. QED
    BY <1>1, <1>2, <2>1, <2>2, <2>3, FirstKey
<1>16. KeysAhead(k)'
  BY <1>1, <1>8, <1>9, <1>14, <1>15 DEF SteadyInv, KeysAhead
<1>17. QED
  BY <1>1, <1>8, <1>12, <1>13, <1>14, <1>16 DEF SteadyInv

\* Every other packet there is passed by: an ECM would have been the first.
LEMMA FindOtherSteady ==
  ASSUME NEW k, Steady(k), TypeOK, TypeOK', AirTyped, SteadyInv(k), AirAsBefore, FindOther
  PROVE  SteadyInv(k)'
<1>1. /\ at = "find_ecm" /\ More /\ GoOn(db') /\ sbuf' = sbuf /\ emitted' = emitted
      /\ at = Stage(db) /\ k \in ECMs /\ ECMs = {k} /\ k # None /\ db \in Database
      /\ OneDecryptor(db, k) /\ NamesIt(db, k)
  BY SteadyTypes DEF FindOther
<1>2. Ahead \in Packet /\ Ahead = sbuf[offset + 1] /\ offset + 1 \in 1 .. Len(sbuf)
  BY <1>1, AheadTyped
<1>3. db.dec[k].phase = 0 /\ db.dec[k].seen = None
  BY <1>1 DEF OneDecryptor
<1>4. ~IsEcm(Ahead)
  <2> SUFFICES ASSUME IsEcm(Ahead) PROVE FALSE
    OBVIOUS
  <2>1. Ahead.pid = k
    BY <1>1, InUseTyped DEF IsEcm
  <2>2. Ahead.period # None
    BY <1>2, DescramblerAssumption DEF Packet
  <2>3. Fresh(Ahead)
    BY <1>3, <2>1, <2>2 DEF Fresh
  <2>4. QED
    BY <1>3, <2>1, <2>3 DEF FindOther
<1>5. Ahead.kind # "ECM"
  <2>1. Ahead.kind = "ECM" => Ahead.pid = k
    BY <1>2 DEF SteadyInv, Fitting
  <2>2. db.pat # {} /\ PmtComplete(db)
    BY <1>1 DEF Stage
  <2>3. InUse(db) = {k}
    BY <1>1, <2>2, OneInUse
  <2>4. QED
    BY <1>4, <2>1, <2>3 DEF IsEcm
<1>6. db' = db
  BY <1>4 DEF FindOther
<1>7. PassedBy'
  BY <1>1, <1>5, <1>6, GoOnPasses
<1>8. QED
  BY <1>1, <1>6, <1>7, QuietStep

\* Between the calls, and when the input ends.
LEMMA CallEndsSteady ==
  ASSUME NEW k, Steady(k), TypeOK, TypeOK', AirTyped, SteadyInv(k), AirAsBefore,
         PutBegin \/ NeedMore \/ ProcEnd \/ DecryptFailure
  PROVE  SteadyInv(k)'
<1>1. /\ sbuf' = sbuf /\ emitted' = emitted /\ db' = db /\ offset' = offset
      /\ at' \in {"idle", Stage(db)}
  <2>1. at # "flush_proc"
    BY StageTyped DEF SteadyInv, PassedBy, StageNames
  <2>2. QED
    BY <2>1 DEF PutBegin, NeedMore, ProcEnd, DecryptFailure, Return
<1>2. PassedBy' /\ OneDecryptor(db', k)
  BY <1>1 DEF SteadyInv, PassedBy
<1>3. QED
  BY <1>1, <1>2, QuietStep

----------------------------------------------------------------------------
\* The steps of the processing loop: there is a decryptor with a key.

ProcessingHead(k) ==
  /\ at = "proc" /\ Stage(db) = "proc" /\ InUse(db) = {k} /\ db.pat # {}
  /\ sbuf \in Seq(Packet) /\ sbuf # <<>> /\ 1 \in 1 .. Len(sbuf)
  /\ Current = sbuf[1] /\ sbuf[1] \in Packet
  /\ Fitting(sbuf[1], k)
  /\ db.dec[k].m2 /\ db.dec[k].key \in Nat
  /\ Keyed(sbuf, db.dec[k].key, period[k])

LEMMA AtTheHead ==
  ASSUME NEW k, Steady(k), TypeOK, AirTyped, SteadyInv(k), Processing, Readable
  PROVE  ProcessingHead(k)
<1>1. /\ at # "idle" /\ at = Stage(db) /\ db \in Database /\ NamesIt(db, k) /\ ECMs = {k}
      /\ k # None /\ OneDecryptor(db, k)
      /\ db.dec[k].m2 => db.dec[k].key \in Nat
  BY SteadyTypes DEF Processing
<1>2. at = "proc"
  BY <1>1, StageTyped DEF Processing, StageNames
<1>3. db.pat # {} /\ InUse(db) = {k}
  BY <1>1, <1>2, OneInUse
<1>4. /\ sbuf \in Seq(Packet) /\ sbuf # <<>> /\ 1 \in 1 .. Len(sbuf)
      /\ Current = sbuf[1] /\ sbuf[1] \in Packet
  BY CurrentTyped DEF TypeOK
<1>5. Fitting(sbuf[1], k)
  BY <1>4 DEF SteadyInv
<1>6. db.dec[k].m2
  BY <1>1, <1>2 DEF OneDecryptor
<1>7. Keyed(sbuf, db.dec[k].key, period[k])
  BY <1>6 DEF SteadyInv, KeysAhead
<1>8. QED
  BY <1>1, <1>2, <1>3, <1>4, <1>5, <1>6, <1>7 DEF ProcessingHead

\* What goes out is not scrambled, or descrambled with the key it was scrambled with.
LEMMA HeadIsClear ==
  ASSUME NEW k, Steady(k), TypeOK, ProcessingHead(k)
  PROVE  Result(Current) \in {"plain", "clear"}
<1> DEFINE p == sbuf[1]
<1>1. p = Current /\ p \in Packet /\ db \in Database /\ ECMs = {k}
  BY DEF ProcessingHead, TypeOK, Steady
<1>2. CASE p.kind # "ES"
  BY <1>1, <1>2 DEF Result
<1>3. CASE p.kind = "ES"
  <2>1. Cardinality(InUse(db)) = 1
    BY FS_Singleton DEF ProcessingHead
  <2>2. p.pid \in db.pat /\ db.prog[p.pid].ecm # None => db.prog[p.pid].ecm = k
    BY <1>1 DEF Database, Program
  <2>3. Route(p) = {k}
    BY <2>1, <2>2 DEF Route, ProcessingHead
  <2>4. Ciphers(p) = {k}
    BY <2>3 DEF Ciphers, ProcessingHead
  <2>5. p.ecm = k
    BY <1>3 DEF ProcessingHead, Fitting
  <2>6. p.period = db.dec[k].key
    <3>1. /\ p.period >= db.dec[k].key
          /\ p.period > db.dec[k].key => \E x \in 1 .. 1 : EcmAt(sbuf, x, p.period)
      BY <1>3 DEF ProcessingHead, Keyed, Timed
    <3>2. ~(\E x \in 1 .. 1 : EcmAt(sbuf, x, p.period))
      BY <1>3 DEF EcmAt
    <3>3. p.period \in Nat /\ db.dec[k].key \in Nat
      BY <1>1 DEF Packet, ProcessingHead
    <3>4. QED
      BY <3>1, <3>2, <3>3
  <2>7. Fits(p, k)
    BY <2>5, <2>6 DEF Fits
  <2>8. QED
    BY <1>1, <1>3, <2>4, <2>7 DEF Result
<1>4. QED
  BY <1>2, <1>3

\* The head goes: a PAT is the one in force, an ECM brings its key.
LEMMA HeadGoes ==
  ASSUME NEW k, Steady(k), TypeOK, TypeOK', AirTyped, SteadyInv(k), AirAsBefore,
         ProcessingHead(k), sbuf' = Tail(sbuf), offset' = offset, at' = at,
         db'.pat = db.pat, OneDecryptor(db', k), Stage(db') = "proc",
         sbuf[1].kind = "PAT" => sbuf[1].progs = db.pat,
         db'.dec[k].key = IF sbuf[1].kind = "ECM" THEN sbuf[1].period ELSE db.dec[k].key,
         emitted'.how \in {"plain", "clear"}
  PROVE  SteadyInv(k)'
<1>1. Shorter(sbuf, sbuf')
  BY DEF Shorter, TypeOK, ProcessingHead
<1>2. /\ Len(sbuf') \in Nat /\ Len(sbuf) = Len(sbuf') + 1
      /\ \A i \in 1 .. Len(sbuf') : sbuf'[i] = sbuf[i + 1] /\ i + 1 \in 1 .. Len(sbuf)
  BY <1>1 DEF Shorter
<1>3. Again(k)' = Again(k) /\ period' = period /\ listed' = listed
  BY DEF AirAsBefore, Again
<1>4. period[k] \in Nat /\ Line(sbuf, period[k]) /\ db'.dec[k].m2
  BY SteadyTypes DEF SteadyInv, KeysAhead, OneDecryptor
<1>5. offset = 0 /\ PassedBy'
  <2>1. offset = 0
    BY DEF ProcessingHead, SteadyInv, PassedBy
  <2>2. QED
    BY <1>2, <2>1 DEF PassedBy, ProcessingHead
<1>6. \A i \in 1 .. Len(sbuf') : Fitting(sbuf'[i], k)
  BY <1>2 DEF SteadyInv
<1>7. ASSUME NEW x \in SUBSET Progs, InForce(sbuf', db.pat, Len(sbuf'), x)
      PROVE  x \in {{}, listed}
  <2>1. Len(sbuf') \in 0 .. Len(sbuf')
    BY <1>2
  <2>2. InForce(sbuf, db.pat, Len(sbuf), x)
    BY <1>1, <1>2, <1>7, <2>1, ForceShrinks
  <2>3. QED
    BY <2>2 DEF SteadyInv
<1>8. ASSUME NEW a \in 1 .. Len(sbuf'), Changed(sbuf', db.pat, a)
      PROVE  Restart(sbuf', a, period[k], Again(k))
  <2>1. Changed(sbuf, db.pat, a + 1) /\ a + 1 \in 1 .. Len(sbuf) /\ a \in Nat
    BY <1>1, <1>8, ChangedShrinks
  <2>2. Restart(sbuf, a + 1, period[k], Again(k))
    BY <2>1 DEF SteadyInv, KeysAhead
  <2>3. Restart(sbuf', (a + 1) - 1, period[k], Again(k))
    BY <1>1, <1>4, <2>1, <2>2, RestartShrinks
  <2>4. (a + 1) - 1 = a
    BY <2>1
  <2>5. QED
    BY <2>3, <2>4
<1>9. Keyed(sbuf', db'.dec[k].key, period[k])
  BY <1>1, <1>4, KeyedShrinks DEF ProcessingHead
<1>10. Line(sbuf', period[k])
  BY <1>1, <1>4, LineShrinks
<1>11. KeysAhead(k)'
  BY <1>3, <1>4, <1>8, <1>9, <1>10 DEF KeysAhead
<1>12. QED
  BY <1>3, <1>5, <1>6, <1>7, <1>11 DEF SteadyInv

LEMMA PassPacketSteady ==
  ASSUME NEW k, Steady(k), TypeOK, TypeOK', AirTyped, SteadyInv(k), AirAsBefore,
         PassPacket \/ SkipPadding
  PROVE  SteadyInv(k)'
<1>1. ProcessingHead(k) /\ Processing /\ Readable
  BY AtTheHead DEF PassPacket, SkipPadding
<1>2. sbuf' = Tail(sbuf) /\ offset' = offset /\ at' = at /\ db' = db
  BY DEF PassPacket, SkipPadding, Advance
<1>3. OneDecryptor(db', k) /\ Stage(db') = "proc" /\ Current = sbuf[1]
  BY <1>1, <1>2 DEF SteadyInv, ProcessingHead
<1>4. emitted'.how \in {"plain", "clear"}
  <2>1. CASE SkipPadding
    BY <2>1 DEF SkipPadding, SteadyInv
  <2>2. CASE PassPacket
    BY <1>1, <2>2, HeadIsClear DEF PassPacket, Emit
  <2>3. QED
    BY <2>1, <2>2
<1>5. \/ sbuf[1].kind = "padding"
      \/ ~Fresh(sbuf[1])
  BY <1>3 DEF SkipPadding, PassPacket, Padding
<1>6. sbuf[1].kind = "PAT" => sbuf[1].progs = db.pat
  BY <1>5 DEF Fresh, IsPat
<1>7. sbuf[1].kind = "ECM" => sbuf[1].period = db.dec[k].key
  <2> SUFFICES ASSUME sbuf[1].kind = "ECM" PROVE sbuf[1].period = db.dec[k].key
    OBVIOUS
  <2>1. sbuf[1].pid = k /\ IsEcm(sbuf[1])
    BY <1>1 DEF ProcessingHead, Fitting, IsEcm
  <2>2. sbuf[1].period = db.dec[k].seen
    BY <1>5, <2>1 DEF Fresh
  <2>3. QED
    BY <2>2 DEF SteadyInv, OneDecryptor
<1>8. QED
  BY <1>1, <1>2, <1>3, <1>4, <1>6, <1>7, HeadGoes

\* A program with another PMT: it names the same decryptor, which stays as it is.
LEMMA NewPmtSteady ==
  ASSUME NEW k, Steady(k), TypeOK, TypeOK', AirTyped, SteadyInv(k), AirAsBefore, NewPmt
  PROVE  SteadyInv(k)'
<1>1. /\ ProcessingHead(k) /\ sbuf' = Tail(sbuf) /\ offset' = offset /\ at' = at
      /\ sbuf[1].kind = "PMT" /\ sbuf[1].pid \in db.pat /\ db' = WithPmt(db, sbuf[1])
      /\ Current = sbuf[1] /\ Emit(Current)
  BY AtTheHead DEF NewPmt, Advance, IsPmt, ProcessingHead
<1>2. /\ k \in ECMs /\ ECMs = {k} /\ k # None /\ db \in Database /\ db' \in Database
      /\ OneDecryptor(db, k) /\ Tidied(db) /\ NamesIt(db, k)
  BY SteadyTypes DEF TypeOK
<1>3. sbuf[1] \in Packet /\ sbuf[1].ecm = k /\ sbuf[1].pid \in Progs
  BY <1>1, <1>2 DEF ProcessingHead, Fitting, Database
<1>4. /\ db'.pat = db.pat
      /\ db'.prog = [db.prog EXCEPT ![sbuf[1].pid].ecm = k]
      /\ \A j \in InUse(db') : db'.dec[j] = db.dec[j]
  BY <1>1, <1>2, <1>3, PmtTyped
<1>5. /\ db'.prog[sbuf[1].pid].ecm = k
      /\ \A g \in Progs : db'.prog[g].phase = db.prog[g].phase
      /\ \A g \in Progs : db'.prog[g].ecm \in {db.prog[g].ecm, k}
  BY <1>2, <1>3, <1>4 DEF Database, Program
<1>6. k \in InUse(db')
  BY <1>1, <1>2, <1>4, <1>5 DEF InUse
<1>7. db'.dec[k] = db.dec[k] /\ NamesIt(db', k)
  BY <1>2, <1>4, <1>5, <1>6 DEF NamesIt
<1>8. PmtComplete(db') <=> PmtComplete(db)
  BY <1>2, <1>4, <1>5 DEF PmtComplete, Database
<1>9. Stage(db') = "proc"
  <2>1. Stage(db) = "proc"
    BY <1>1 DEF ProcessingHead
  <2>2. db.pat # {} /\ PmtComplete(db) /\ db.dec[k].phase # 0
    BY <1>2, <2>1, OneInUse
  <2>3. Stage(db') = "proc" <=> db'.pat # {} /\ PmtComplete(db') /\ db'.dec[k].phase # 0
    BY <1>2, <1>7, OneInUse
  <2>4. QED
    BY <1>4, <1>7, <1>8, <2>2, <2>3
<1>10. OneDecryptor(db', k)
  BY <1>1, <1>2, <1>7, <1>9, SameOne DEF ProcessingHead
<1>11. emitted'.how \in {"plain", "clear"}
  BY <1>1, HeadIsClear DEF Emit
<1>12. QED
  BY <1>1, <1>4, <1>7, <1>9, <1>10, <1>11, HeadGoes

LEMMA NewEcmSteady ==
  ASSUME NEW k, Steady(k), TypeOK, TypeOK', AirTyped, SteadyInv(k), AirAsBefore,
         NEW answer, NewEcm(answer)
  PROVE  SteadyInv(k)'
<1>1. /\ ProcessingHead(k) /\ Current = sbuf[1] /\ Emit(Current) /\ IsEcm(sbuf[1])
      /\ sbuf[1].kind = "ECM" /\ sbuf[1].pid = k /\ sbuf[1] \in Packet
  BY AtTheHead DEF NewEcm, IsEcm, ProcessingHead, Fitting
<1>2. /\ k \in ECMs /\ ECMs = {k} /\ k # None /\ db \in Database /\ db' \in Database
      /\ OneDecryptor(db, k) /\ Tidied(db) /\ NamesIt(db, k)
  BY SteadyTypes DEF TypeOK
<1>3. answer = "key"
  BY <1>1, <1>2, SteadyFacts DEF NewEcm, OneDecryptor
<1>4. sbuf' = Tail(sbuf) /\ offset' = offset /\ at' = at /\ db' = WithEcm(db, sbuf[1], "key")
  BY <1>1, <1>3 DEF NewEcm, Advance
<1>5. /\ db'.pat = db.pat /\ db'.prog = db.prog
      /\ db'.dec[k].seen = sbuf[1].period /\ db'.dec[k].key = sbuf[1].period
      /\ db'.dec[k].m2 /\ db'.dec[k].phase = db.dec[k].phase /\ ~db'.dec[k].locked
  <2>1. k \in InUse(db)
    BY <1>1 DEF ProcessingHead
  <2>2. QED
    BY <1>1, <1>2, <1>4, <2>1, EcmOne
<1>6. NamesIt(db', k) /\ (PmtComplete(db') <=> PmtComplete(db))
  BY <1>2, <1>5 DEF NamesIt, PmtComplete
<1>7. db.dec[k].phase # 0 /\ Stage(db') = "proc"
  <2>1. Stage(db) = "proc"
    BY <1>1 DEF ProcessingHead
  <2>2. db.pat # {} /\ PmtComplete(db) /\ db.dec[k].phase # 0
    BY <1>2, <2>1, OneInUse
  <2>3. Stage(db') = "proc" <=> db'.pat # {} /\ PmtComplete(db') /\ db'.dec[k].phase # 0
    BY <1>2, <1>6, OneInUse
  <2>4. QED
    BY <1>5, <1>6, <2>2, <2>3
<1>8. OneDecryptor(db', k)
  <2>1. db'.dec[k].key # None
    BY <1>1, <1>5, DescramblerAssumption DEF Packet
  <2>2. QED
    BY <1>5, <1>6, <1>7, <2>1 DEF OneDecryptor, NamesIt
<1>9. emitted'.how \in {"plain", "clear"}
  BY <1>1, HeadIsClear DEF Emit
<1>10. QED
  BY <1>1, <1>4, <1>5, <1>7, <1>8, <1>9, HeadGoes

\* A new PAT: the look-ahead starts again at its packet, and the broadcast has sent
\* the ECM of the running period again behind it.
LEMMA NewPatSteady ==
  ASSUME NEW k, Steady(k), TypeOK, TypeOK', AirTyped, SteadyInv(k), AirAsBefore, NewPat
  PROVE  SteadyInv(k)'
<1>1. /\ ProcessingHead(k) /\ Current = sbuf[1] /\ Emit(Current)
      /\ sbuf[1].kind = "PAT" /\ sbuf[1].progs # db.pat /\ sbuf[1] \in Packet
      /\ db' = WithPat(db, sbuf[1]) /\ offset' = offset
  BY AtTheHead DEF NewPat, ProcessingHead, Fresh, IsPat, IsPmt, IsEcm
<1>2. /\ k \in ECMs /\ ECMs = {k} /\ k # None /\ db \in Database /\ db' \in Database
      /\ period[k] \in Nat /\ db.pat \in SUBSET Progs
  BY SteadyTypes DEF TypeOK, Database
<1>3. sbuf' = sbuf /\ at' = "idle"
  BY <1>1 DEF NewPat, ProcessingHead, Return
<1>4. sbuf[1].progs # {}
  BY <1>1 DEF ProcessingHead, Fitting
<1>5. /\ OneDecryptor(db', k) /\ Stage(db') = "find_pmt" /\ ~db'.dec[k].m2
      /\ db'.pat = sbuf[1].progs
  BY <1>1, <1>2, <1>4, PatOne, PatTyped
<1>6. offset = 0
  BY <1>1 DEF SteadyInv, PassedBy, ProcessingHead
<1>7. Len(sbuf) \in Nat /\ 1 \in 1 .. Len(sbuf)
  BY <1>1 DEF ProcessingHead
<1>8. PassedBy'
  BY <1>1, <1>3, <1>5, <1>6, <1>7 DEF PassedBy
<1>9. ASSUME NEW n \in 1 .. Len(sbuf), NEW x, InForce(sbuf, sbuf[1].progs, n, x)
      PROVE  InForce(sbuf, db.pat, n, x)
  <2>1. 1 \in 1 .. n
    BY <1>7
  <2>2. QED
    BY <1>1, <1>9, <2>1 DEF InForce
<1>10. ASSUME NEW a \in 1 .. Len(sbuf), Changed(sbuf, sbuf[1].progs, a)
       PROVE  Changed(sbuf, db.pat, a)
  <2>1. PICK x \in SUBSET Progs : /\ InForce(sbuf, sbuf[1].progs, a - 1, x)
                                  /\ x \notin {{}, sbuf[a].progs}
    BY <1>10 DEF Changed
  <2>2. CASE a = 1
    <3>1. x = sbuf[1].progs
      BY <2>1, <2>2 DEF InForce
    <3>2. QED
      BY <2>1, <2>2, <3>1
  <2>3. CASE a # 1
    <3>1. a - 1 \in 1 .. Len(sbuf)
      BY <1>7, <2>3
    <3>2. InForce(sbuf, db.pat, a - 1, x)
      BY <1>9, <2>1, <3>1
    <3>3. QED
      BY <1>10, <2>1, <3>2 DEF Changed
  <2>4. QED
    BY <2>2, <2>3
<1>11. Restart(sbuf, 0, period[k], Again(k))
  <2>1. InForce(sbuf, db.pat, 1 - 1, db.pat)
    BY DEF InForce
  <2>2. Changed(sbuf, db.pat, 1)
    BY <1>1, <1>2, <1>7, <2>1 DEF Changed, ProcessingHead
  <2>3. Restart(sbuf, 1, period[k], Again(k))
    BY <1>7, <2>2 DEF SteadyInv, KeysAhead
  <2>4. ~Timed(sbuf[1])
    BY <1>1 DEF Timed
  <2>5. QED
    BY <1>1, <1>2, <2>3, <2>4, RestartAtHead DEF ProcessingHead
<1>12. Again(k)' = Again(k) /\ period' = period /\ listed' = listed
  BY DEF AirAsBefore, Again
<1>13. KeysAhead(k)'
  BY <1>3, <1>5, <1>10, <1>11, <1>12 DEF SteadyInv, KeysAhead
<1>14. ASSUME NEW x \in SUBSET Progs, InForce(sbuf, sbuf[1].progs, Len(sbuf), x)
       PROVE  x \in {{}, listed}
  <2>1. Len(sbuf) \in 1 .. Len(sbuf)
    BY <1>7
  <2>2. QED
    BY <1>9, <1>14, <2>1 DEF SteadyInv
<1>15. emitted'.how \in {"plain", "clear"}
  BY <1>1, HeadIsClear DEF Emit
<1>16. QED
  BY <1>3, <1>5, <1>8, <1>12, <1>13, <1>14, <1>15 DEF SteadyInv

LEMMA CallSteady ==
  ASSUME NEW k, Steady(k), TypeOK, TypeOK', AirTyped, SteadyInv(k), AirAsBefore,
         CallStep \/ PutBegin
  PROVE  SteadyInv(k)'
<1>1. CASE FindPat
  BY <1>1, FindPatSteady
<1>2. CASE FindPmt
  BY <1>2, FindPmtSteady
<1>3. CASE FindOther
  BY <1>3, FindOtherSteady
<1>4. CASE PutBegin \/ NeedMore \/ ProcEnd \/ DecryptFailure
  BY <1>4, CallEndsSteady
<1>5. CASE PassPacket \/ SkipPadding
  BY <1>5, PassPacketSteady
<1>6. CASE NewPmt
  BY <1>6, NewPmtSteady
<1>7. CASE NewPat
  BY <1>7, NewPatSteady
<1>8. ASSUME NEW answer, FindFirstEcm(answer)
      PROVE  SteadyInv(k)'
  BY <1>8, FindFirstEcmSteady
<1>9. ASSUME NEW answer, NewEcm(answer)
      PROVE  SteadyInv(k)'
  BY <1>9, NewEcmSteady
<1>10. QED
  BY <1>1, <1>2, <1>3, <1>4, <1>5, <1>6, <1>7, <1>8, <1>9 DEF CallStep

----------------------------------------------------------------------------
\* The broadcast goes on.

\* A PAT is the one on air from now on, and after a new one the ECM must come again.
Announced(p, k) ==
  IF p.kind = "PAT" THEN p.progs = listed' /\ (listed' = listed \/ ~Again(k)')
  ELSE listed' = listed

LEMMA ArriveSteady ==
  ASSUME NEW k, Steady(k), TypeOK, TypeOK', AirTyped, AirTyped', SteadyInv(k),
         NEW p, Sent(p), Fitting(p, k), Announced(p, k),
         Follow(p, period[k], period'[k], Again(k)),
         Again(k)' => Again(k) \/ p.kind = "ECM"
  PROVE  SteadyInv(k)'
<1> DEFINE q == [p EXCEPT !.n = count']
<1>1. sbuf' = Append(sbuf, q) /\ UNCHANGED <<offset, db, at, emitted>> /\ at = "idle"
  BY DEF Sent, Arrive, Idle
<1>2. /\ q.kind = p.kind /\ q.progs = p.progs /\ q.ecm = p.ecm /\ q.pid = p.pid
      /\ q.period = p.period
  BY DEF Sent, Packet
<1> HIDE DEF q
<1>3. /\ Longer(sbuf, sbuf', q) /\ Len(sbuf) \in Nat /\ Len(sbuf') = Len(sbuf) + 1
      /\ \A i \in 1 .. Len(sbuf) : sbuf'[i] = sbuf[i]
      /\ sbuf'[Len(sbuf) + 1] = q
  BY <1>1 DEF Longer, TypeOK
<1>4. Follow(q, period[k], period'[k], Again(k)) /\ Fitting(q, k)
  BY <1>2 DEF Follow, Timed, Fitting
<1>5. period[k] \in Nat /\ period'[k] \in Nat
  BY SteadyFacts DEF AirTyped
<1>6. \A i \in 1 .. Len(sbuf') : i \in 1 .. Len(sbuf) \/ i = Len(sbuf) + 1
  BY <1>3
<1>7. \A i \in 1 .. Len(sbuf') : Fitting(sbuf'[i], k)
  BY <1>3, <1>4, <1>6 DEF SteadyInv
<1>8. PassedBy'
  <2>1. offset \in Nat /\ offset <= Len(sbuf)
    BY DEF SteadyInv, PassedBy, TypeOK
  <2>2. \A i \in 1 .. offset : sbuf'[i] = sbuf[i]
    BY <1>3, <2>1
  <2>3. offset <= Len(sbuf')
    BY <1>3, <2>1
  <2>4. QED
    BY <1>1, <2>2, <2>3 DEF SteadyInv, PassedBy
<1>9. Line(sbuf, period[k]) /\ Line(sbuf', period'[k])
  <2>1. Line(sbuf, period[k])
    BY DEF SteadyInv, KeysAhead
  <2>2. QED
    BY <1>3, <1>4, <1>5, <2>1, LineGrows
<1>10. ASSUME NEW a \in 0 .. Len(sbuf), Restart(sbuf, a, period[k], Again(k))
       PROVE  Restart(sbuf', a, period'[k], Again(k)')
  <2>1. Again(k)' => Again(k) \/ q.kind = "ECM"
    BY <1>2
  <2>2. QED
    BY <1>3, <1>4, <1>5, <1>9, <1>10, <2>1, RestartGrows
<1>11. ASSUME NEW x \in SUBSET Progs, InForce(sbuf, db.pat, Len(sbuf), x)
       PROVE  x \in {{}, listed}
  BY <1>11 DEF SteadyInv
<1>12. ASSUME NEW a \in 1 .. Len(sbuf'), Changed(sbuf', db.pat, a)
       PROVE  Restart(sbuf', a, period'[k], Again(k)')
  <2>1. CASE a \in 1 .. Len(sbuf)
    <3>1. Changed(sbuf, db.pat, a)
      BY <1>3, <1>12, <2>1, ChangedGrows
    <3>2. Restart(sbuf, a, period[k], Again(k))
      BY <2>1, <3>1 DEF SteadyInv, KeysAhead
    <3>3. a \in 0 .. Len(sbuf)
      BY <2>1
    <3>4. QED
      BY <1>10, <3>2, <3>3
  <2>2. CASE a = Len(sbuf) + 1
    <3>1. PICK x \in SUBSET Progs : InForce(sbuf', db.pat, a - 1, x) /\ x \notin {{}, sbuf'[a].progs}
      BY <1>12 DEF Changed
    <3>2. a - 1 = Len(sbuf) /\ Len(sbuf) \in 0 .. Len(sbuf)
      BY <1>3, <2>2
    <3>3. InForce(sbuf, db.pat, Len(sbuf), x)
      BY <1>3, <3>1, <3>2, ForceGrows
    <3>4. q.kind = "PAT" /\ x # q.progs /\ x = listed
      BY <1>3, <1>11, <1>12, <2>2, <3>1, <3>3 DEF Changed
    <3>5. ~Again(k)'
      BY <1>2, <3>4 DEF Announced
    <3>6. a = Len(sbuf')
      BY <1>3, <2>2
    <3>7. Restart(sbuf', a, period'[k], FALSE)
      BY <1>5, <3>6, RestartBegins
    <3>8. QED
      BY <3>5, <3>7 DEF Restart
  <2>3. QED
    BY <1>6, <2>1, <2>2
<1>13. IF db.dec[k].m2 THEN Keyed(sbuf', db.dec[k].key, period'[k])
       ELSE Restart(sbuf', 0, period'[k], Again(k)')
  <2>1. CASE db.dec[k].m2
    <3>1. db.dec[k].key \in Nat
      BY <2>1, SteadyTypes
    <3>2. Keyed(sbuf, db.dec[k].key, period[k])
      BY <2>1 DEF SteadyInv, KeysAhead
    <3>3. Keyed(sbuf', db.dec[k].key, period'[k])
      BY <1>3, <1>4, <1>5, <3>1, <3>2, KeyedGrows
    <3>4. QED
      BY <2>1, <3>3
  <2>2. CASE ~db.dec[k].m2
    <3>1. Restart(sbuf, 0, period[k], Again(k))
      BY <2>2 DEF SteadyInv, KeysAhead
    <3>2. 0 \in 0 .. Len(sbuf)
      BY <1>3
    <3>3. QED
      BY <1>10, <2>2, <3>1, <3>2
  <2>3. QED
    BY <2>1, <2>2
<1>14. KeysAhead(k)'
  BY <1>1, <1>9, <1>12, <1>13 DEF KeysAhead
<1>15. ASSUME NEW x \in SUBSET Progs, InForce(sbuf', db.pat, Len(sbuf'), x)
       PROVE  x \in {{}, listed'}
  <2>1. IF q.kind = "PAT" THEN x = q.progs ELSE InForce(sbuf, db.pat, Len(sbuf), x)
    BY <1>3, <1>15, ForceAtEnd
  <2>2. QED
    BY <1>2, <1>11, <2>1 DEF Announced
<1>16. OneDecryptor(db', k) /\ emitted'.how \in {"plain", "clear"}
  BY <1>1 DEF SteadyInv
<1>17. QED
  BY <1>1, <1>7, <1>8, <1>14, <1>15, <1>16 DEF SteadyInv

\* What the broadcast sends.
LEMMA BroadcastSteady ==
  ASSUME NEW k, Steady(k), TypeOK, TypeOK', AirTyped, AirTyped', SteadyInv(k),
         \/ SendPat \/ \E gs \in PATs : ChangePat(gs)
         \/ \E g \in Progs : SendPmt(g) \/ SendStream(g) \/ \E j \in ECMs : ChangePmt(g, j)
         \/ \E j \in ECMs : SendEcm(j) \/ NextPeriod(j)
         \/ \E kind \in {"padding", "error"} : SendOther(kind)
  PROVE  SteadyInv(k)'
<1>1. /\ listed \in PATs /\ listed \in SUBSET Progs /\ None \in Progs \cup ECMs \cup {None}
      /\ None \in ECMs \cup {None} /\ {} \in SUBSET Progs /\ 0 \in Nat
      /\ PATs \subseteq SUBSET Progs
      /\ k \in ECMs /\ ECMs = {k} /\ period[k] \in Nat
      /\ \A g \in Progs : ecmOf[g] = k
  BY BroadcastAssumption, SteadyFacts DEF AirTyped
<1>2. CASE SendPat
  <2> DEFINE p == AirPacket("PAT", None, listed, None, 0)
  <2>1. /\ Sent(p) /\ Fitting(p, k)
        /\ p.kind = "PAT" /\ p.progs = listed /\ p.period = 0
    <3>1. Air("PAT", None, listed, None, 0)
      BY <1>1, <1>2 DEF SendPat
    <3>2. Sent(p)
      BY <1>1, <3>1, AirSends
    <3>3. Fitting(p, k) /\ p.kind = "PAT" /\ p.progs = listed /\ p.period = 0
      BY <1>1 DEF AirPacket, Fitting, Steady
    <3>4. QED
      BY <3>2, <3>3
  <2> HIDE DEF p
  <2>2. listed' = listed /\ period' = period /\ repeated' = repeated
    BY <1>2 DEF SendPat
  <2>3. Announced(p, k) /\ Follow(p, period[k], period'[k], Again(k))
    BY <2>1, <2>2 DEF Announced, Follow, Timed
  <2>4. QED
    BY <2>1, <2>2, <2>3, ArriveSteady DEF Again
<1>3. ASSUME NEW gs \in PATs, ChangePat(gs)
      PROVE  SteadyInv(k)'
  <2> DEFINE p == AirPacket("PAT", None, gs, None, 0)
  <2>1. /\ Sent(p) /\ Fitting(p, k)
        /\ p.kind = "PAT" /\ p.progs = gs /\ p.period = 0
    <3>1. Air("PAT", None, gs, None, 0)
      BY <1>1, <1>3 DEF ChangePat
    <3>2. Sent(p)
      BY <1>1, <3>1, AirSends
    <3>3. Fitting(p, k) /\ p.kind = "PAT" /\ p.progs = gs /\ p.period = 0
      BY <1>1 DEF AirPacket, Fitting, Steady
    <3>4. QED
      BY <3>2, <3>3
  <2> HIDE DEF p
  <2>2. listed' = gs /\ period' = period /\ repeated' = {}
    BY <1>3 DEF ChangePat
  <2>3. Announced(p, k) /\ Follow(p, period[k], period'[k], Again(k))
    BY <2>1, <2>2 DEF Announced, Follow, Timed, Again
  <2>4. QED
    BY <2>1, <2>2, <2>3, ArriveSteady DEF Again
<1>4. ASSUME NEW g \in Progs, SendPmt(g)
      PROVE  SteadyInv(k)'
  <2> DEFINE p == AirPacket("PMT", g, {}, k, 0)
  <2>1. /\ Sent(p) /\ Fitting(p, k)
        /\ p.kind = "PMT" /\ p.progs = {} /\ p.period = 0
    <3>1. Air("PMT", g, {}, k, 0)
      BY <1>1, <1>4 DEF SendPmt
    <3>2. Sent(p)
      BY <1>1, <3>1, AirSends
    <3>3. Fitting(p, k) /\ p.kind = "PMT" /\ p.progs = {} /\ p.period = 0
      BY <1>1 DEF AirPacket, Fitting, Steady
    <3>4. QED
      BY <3>2, <3>3
  <2> HIDE DEF p
  <2>2. listed' = listed /\ period' = period /\ repeated' = repeated
    BY <1>4 DEF SendPmt
  <2>3. Announced(p, k) /\ Follow(p, period[k], period'[k], Again(k))
    BY <2>1, <2>2 DEF Announced, Follow, Timed
  <2>4. QED
    BY <2>1, <2>2, <2>3, ArriveSteady DEF Again
<1>5. ASSUME NEW g \in Progs, SendStream(g)
      PROVE  SteadyInv(k)'
  <2> DEFINE p == AirPacket("ES", g, {}, k, period[k])
  <2>1. /\ Sent(p) /\ Fitting(p, k)
        /\ p.kind = "ES" /\ p.progs = {} /\ p.period = period[k]
    <3>1. Air("ES", g, {}, k, period[k])
      BY <1>1, <1>5 DEF SendStream
    <3>2. Sent(p)
      BY <1>1, <3>1, AirSends
    <3>3. Fitting(p, k) /\ p.kind = "ES" /\ p.progs = {} /\ p.period = period[k]
      BY <1>1 DEF AirPacket, Fitting, Steady
    <3>4. QED
      BY <3>2, <3>3
  <2> HIDE DEF p
  <2>2. listed' = listed /\ period' = period /\ repeated' = repeated
    BY <1>5 DEF SendStream
  <2>3. Announced(p, k) /\ Follow(p, period[k], period'[k], Again(k))
    BY <2>1, <2>2 DEF Announced, Follow, Timed
  <2>4. QED
    BY <2>1, <2>2, <2>3, ArriveSteady DEF Again
<1>6. ASSUME NEW g \in Progs, NEW j \in ECMs, ChangePmt(g, j)
      PROVE  FALSE
  BY <1>6 DEF ChangePmt, Steady
<1>7. ASSUME NEW j \in ECMs, SendEcm(j)
      PROVE  SteadyInv(k)'
  <2> DEFINE p == AirPacket("ECM", k, {}, None, period[k])
  <2>1. /\ Sent(p) /\ Fitting(p, k)
        /\ p.kind = "ECM" /\ p.progs = {} /\ p.period = period[k]
    <3>1. Air("ECM", k, {}, None, period[k])
      BY <1>1, <1>7 DEF SendEcm
    <3>2. Sent(p)
      BY <1>1, <3>1, AirSends
    <3>3. Fitting(p, k) /\ p.kind = "ECM" /\ p.progs = {} /\ p.period = period[k]
      BY <1>1 DEF AirPacket, Fitting, Steady
    <3>4. QED
      BY <3>2, <3>3
  <2> HIDE DEF p
  <2>2. listed' = listed /\ period' = period
    BY <1>7 DEF SendEcm
  <2>3. Announced(p, k) /\ Follow(p, period[k], period'[k], Again(k))
    BY <2>1, <2>2 DEF Announced, Follow
  <2>4. QED
    BY <2>1, <2>3, ArriveSteady
<1>8. ASSUME NEW j \in ECMs, NextPeriod(j)
      PROVE  SteadyInv(k)'
  <2> DEFINE p == AirPacket("ECM", k, {}, None, period[k] + 1)
  <2>1. /\ Sent(p) /\ Fitting(p, k)
        /\ p.kind = "ECM" /\ p.progs = {} /\ p.period = period[k] + 1
    <3>1. Air("ECM", k, {}, None, period[k] + 1)
      BY <1>1, <1>8 DEF NextPeriod
    <3>2. Sent(p)
      <4>1. period[k] + 1 \in Nat
        BY <1>1
      <4>2. QED
        BY <1>1, <3>1, <4>1, AirSends
    <3>3. Fitting(p, k) /\ p.kind = "ECM" /\ p.progs = {} /\ p.period = period[k] + 1
      BY <1>1 DEF AirPacket, Fitting, Steady
    <3>4. QED
      BY <3>2, <3>3
  <2> HIDE DEF p
  <2>2. listed' = listed /\ period'[k] = period[k] + 1 /\ k \in repeated
    BY <1>1, <1>8 DEF NextPeriod, AirTyped
  <2>3. Announced(p, k) /\ Follow(p, period[k], period'[k], Again(k))
    BY <2>1, <2>2 DEF Announced, Follow, Again
  <2>4. QED
    BY <2>1, <2>3, ArriveSteady
<1>9. ASSUME NEW kind \in {"padding", "error"}, SendOther(kind)
      PROVE  SteadyInv(k)'
  <2> DEFINE p == AirPacket(kind, None, {}, None, 0)
  <2>1. /\ Sent(p) /\ Fitting(p, k)
        /\ p.kind = kind /\ p.progs = {} /\ p.period = 0
    <3>1. Air(kind, None, {}, None, 0)
      BY <1>1, <1>9 DEF SendOther
    <3>2. Sent(p)
      BY <1>1, <3>1, AirSends
    <3>3. Fitting(p, k) /\ p.kind = kind /\ p.progs = {} /\ p.period = 0
      BY <1>1 DEF AirPacket, Fitting, Steady
    <3>4. QED
      BY <3>2, <3>3
  <2> HIDE DEF p
  <2>2. listed' = listed /\ period' = period /\ repeated' = repeated
    BY <1>9 DEF SendOther
  <2>3. Announced(p, k) /\ Follow(p, period[k], period'[k], Again(k))
    BY <2>1, <2>2 DEF Announced, Follow, Timed
  <2>4. QED
    BY <2>1, <2>2, <2>3, ArriveSteady DEF Again
<1>10. QED
  BY <1>2, <1>3, <1>4, <1>5, <1>6, <1>7, <1>8, <1>9

----------------------------------------------------------------------------
LEMMA InitSteady ==
  ASSUME NEW k, Steady(k), BInit
  PROVE  SteadyInv(k)
<1>1. /\ sbuf = <<>> /\ Len(sbuf) = 0 /\ offset = 0 /\ at = "idle"
      /\ emitted.how = "plain"
      /\ db.pat = {} /\ db.dec[k] = NewDecryptor /\ period[k] = 0
      /\ \A g \in Progs : db.prog[g].phase = 0
      /\ repeated = {}
  BY DEF BInit, Init, Steady, NewProgram
<1>2. OneDecryptor(db, k) /\ Stage(db) = "find_pat" /\ ~db.dec[k].m2
  BY <1>1 DEF OneDecryptor, Stage, NewDecryptor
<1>3. PassedBy
  BY <1>1, <1>2 DEF PassedBy
<1>4. \A x : InForce(sbuf, db.pat, Len(sbuf), x) => x = {}
  BY <1>1 DEF InForce
<1>5. Restart(sbuf, 0, period[k], Again(k))
  <2>1. From(sbuf, 0, 0, period[k])
    BY <1>1 DEF From
  <2>2. QED
    BY <1>1, <2>1 DEF Restart, Again
<1>6. Line(sbuf, period[k])
  BY <1>1 DEF Line
<1>7. KeysAhead(k)
  BY <1>1, <1>2, <1>5, <1>6 DEF KeysAhead
<1>8. QED
  BY <1>1, <1>2, <1>3, <1>4, <1>7 DEF SteadyInv

LEMMA NextSteady ==
  ASSUME NEW k, Steady(k)
  PROVE  TypeOK /\ TypeOK' /\ AirTyped /\ AirTyped' /\ SteadyInv(k) /\ [BNext]_allVars
           => SteadyInv(k)'
<1> SUFFICES ASSUME TypeOK, TypeOK', AirTyped, AirTyped', SteadyInv(k), [BNext]_allVars
             PROVE  SteadyInv(k)'
  OBVIOUS
<1>1. CASE UNCHANGED allVars
  BY <1>1 DEF allVars, airVars, vars, SteadyInv, PassedBy, KeysAhead, Again
<1>2. CASE (CallStep \/ PutBegin) /\ UNCHANGED airVars
  BY <1>2, CallSteady DEF airVars, AirAsBefore
<1>3. CASE "flush" \in Events /\ FlushBegin
  BY <1>3 DEF Steady
<1>4. CASE BNext
  <2>1. \/ (CallStep \/ PutBegin) /\ UNCHANGED airVars
        \/ "flush" \in Events /\ FlushBegin
        \/ SendPat \/ \E gs \in PATs : ChangePat(gs)
        \/ \E g \in Progs : SendPmt(g) \/ SendStream(g) \/ \E j \in ECMs : ChangePmt(g, j)
        \/ \E j \in ECMs : SendEcm(j) \/ NextPeriod(j)
        \/ \E kind \in {"padding", "error"} : SendOther(kind)
    BY <1>4 DEF BNext
  <2>2. QED
    BY <1>2, <1>3, <2>1, BroadcastSteady
<1>5. QED
  BY <1>1, <1>4

\* The inductive invariant of the steady broadcast.
THEOREM KeysFollowTheBroadcast ==
  ASSUME NEW k, Steady(k)
  PROVE  BSpec => []SteadyInv(k)
<1>1. BInit => SteadyInv(k)
  BY InitSteady
<1>2. TypeOK /\ TypeOK' /\ AirTyped /\ AirTyped' /\ SteadyInv(k) /\ [BNext]_allVars
        => SteadyInv(k)'
  BY NextSteady
<1>3. QED
  BY <1>1, <1>2, AirInit, AirNext, InitTyped, NextTyped, PTL DEF BSpec

\* Every stream packet is descrambled with the key it was scrambled with, whatever
\* of the broadcast the look-ahead saw first and wherever the calls cut it.
THEOREM KeysAreRight ==
  ASSUME NEW k, Steady(k)
  PROVE  BSpec => []RightKey
<1>1. SteadyInv(k) => RightKey
  BY DEF SteadyInv, RightKey
<1>2. QED
  BY <1>1, KeysFollowTheBroadcast, PTL

\* Nothing goes out before its key is there: the streams before the first ECM, and
\* those between a new PAT and the ECM that follows it, come out clear.
THEOREM NothingLeftScrambled ==
  ASSUME NEW k, Steady(k)
  PROVE  BSpec => []NotLeftScrambled
<1>1. SteadyInv(k) => NotLeftScrambled
  BY DEF SteadyInv, NotLeftScrambled
<1>2. QED
  BY <1>1, KeysFollowTheBroadcast, PTL
=============================================================================
