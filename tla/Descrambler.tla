----------------------------- MODULE Descrambler -----------------------------
(***************************************************************************)
(* put() and flush() of arib_std_b25.c: packets are collected in `sbuf`,   *)
(* and before any of them goes out the library looks ahead for the PAT,    *)
(* the PMTs and the first ECMs (find_pat, find_pmt, find_ecm), so that the *)
(* packets that came before the first key can be descrambled, too.  Then   *)
(* proc_arib_std_b25() reads the same packets again from the head of the   *)
(* buffer, descrambles them, appends them to the output and follows the    *)
(* updates of all tables.  flush() does the same for what is left.         *)
(*                                                                         *)
(* Every turn of one of these loops is a step.  A section fills a packet   *)
(* and its parser delivers it when it differs from the one before it       *)
(* (SectionParser, SectionFeed); a program has one stream, its PMT always  *)
(* names an ECM PID, so that the decryptors are the ECM PIDs of the        *)
(* programs (DecryptorMap has the rest, and CAT and EMM).  A key is the    *)
(* number of its period: an ECM brings the keys of its own period and of   *)
(* the next, as odd and even key.                                          *)
(***************************************************************************)
EXTENDS Integers, Sequences, FiniteSets

CONSTANTS
  Progs,        \* programs, named by their PMT PID; also names the stream
  ECMs,         \* ECM PIDs
  Contracted,   \* ECM PIDs the card always gives keys for
  MaxFailures,  \* how often the card fails in all
  Strip,        \* the option that removes padding
  HeadLimit,    \* the 16M and 32M limits of look-ahead, in packets
  Wrap,         \* packets are numbered from 0 to Wrap - 1, over and over
  None

ASSUME DescramblerAssumption ==
  /\ Contracted \subseteq ECMs
  /\ None \notin Progs \cup ECMs \cup Nat
  /\ MaxFailures \in Nat /\ HeadLimit \in Nat /\ Wrap \in Nat \ {0, 1} /\ Strip \in BOOLEAN

VARIABLES
  sbuf,      \* packets not yet sent out
  offset,    \* how far the look-ahead got (sbuf_offset)
  db,        \* what the tables said, see Database
  at,        \* where the running call is
  code,      \* what the last call returned; a warning counts as "ok"
  emitted,   \* the packet that went out last: pkt, how, how many times
  count,     \* number of the last packet of the input
  arrived,   \* packets that came in since the last call
  failures   \* failures of the card so far

vars == <<sbuf, offset, db, at, code, emitted, count, arrived, failures>>

\* n is the packet's number.  A section is a PAT with its programs, a
\* PMT with its ECM PID, an ECM with its period.  A stream packet carries the
\* key it was scrambled with, which the library cannot see.
Packet ==
  [n: 0 .. Wrap - 1, kind: {"PAT", "PMT", "ECM", "ES", "padding", "error"},
   pid: Progs \cup ECMs \cup {None}, progs: SUBSET Progs,
   ecm: ECMs \cup {None}, period: Nat]

Program == [phase: 0 .. 2, ecm: ECMs \cup {None}]
Decryptor == [phase: 0 .. 2, seen: Nat \cup {None}, m2: BOOLEAN,
              key: Nat \cup {None}, locked: BOOLEAN]
Database == [pat: SUBSET Progs, prog: [Progs -> Program], dec: [ECMs -> Decryptor]]

NewProgram == [phase |-> 0, ecm |-> None]
NewDecryptor == [phase |-> 0, seen |-> None, m2 |-> FALSE, key |-> None, locked |-> FALSE]

----------------------------------------------------------------------------
\* The decryptors there are, and the tables as they come in.
InUse(d) == {d.prog[g].ecm : g \in d.pat} \ {None}

TidyNothing(d) == d   \* mutant: decryptors without streams stay

Tidy(d) ==
  [d EXCEPT !.dec = [k \in ECMs |-> IF k \in InUse(d) THEN @[k] ELSE NewDecryptor]]

WithPat(d, p) == Tidy([d EXCEPT !.pat = p.progs, !.prog = [g \in Progs |-> NewProgram]])
WithPmt(d, p) == Tidy([d EXCEPT !.prog[p.pid].ecm = p.ecm])

\* Mutant: a refusal locks the decryptor and leaves it its keys.
WithEcmKept(d, p, answer) ==
  [d EXCEPT !.dec[p.pid] =
     CASE answer = "key"     -> [@ EXCEPT !.seen = p.period, !.m2 = TRUE, !.key = p.period]
       [] answer = "failed"  -> [@ EXCEPT !.seen = p.period, !.key = None]
       [] answer = "refused" -> [@ EXCEPT !.seen = p.period, !.locked = TRUE]
       [] answer = "locked"  -> [@ EXCEPT !.seen = p.period]]

\* proc_ecm(): a failure of the card clears the keys but not the cipher, a
\* refusal releases the cipher, and after it the card is not asked again.
WithEcm(d, p, answer) ==
  [d EXCEPT !.dec[p.pid] =
     CASE answer = "key"     -> [@ EXCEPT !.seen = p.period, !.m2 = TRUE, !.key = p.period]
       [] answer = "failed"  -> [@ EXCEPT !.seen = p.period, !.key = None]
       [] answer = "refused" -> [@ EXCEPT !.seen = p.period, !.m2 = FALSE, !.key = None,
                                          !.locked = TRUE]
       [] answer = "locked"  -> [@ EXCEPT !.seen = p.period]]

\* What the card can answer to an ECM.
Answers(k) ==
  IF db.dec[k].locked THEN {"locked"}
  ELSE {"key"} \cup (IF k \in Contracted THEN {} ELSE {"refused"})
               \cup (IF failures < MaxFailures THEN {"failed"} ELSE {})

\* The parser of the packet's PID delivers the section.
IsPat(p) == p.kind = "PAT"
IsPmt(p) == p.kind = "PMT" /\ p.pid \in db.pat
IsEcm(p) == p.kind = "ECM" /\ p.pid \in InUse(db)

\* Mutant: only the first ECM is processed.
FreshOnce(p) ==
  \/ IsPat(p) /\ p.progs # db.pat
  \/ IsPmt(p) /\ p.ecm # db.prog[p.pid].ecm
  \/ IsEcm(p) /\ db.dec[p.pid].seen = None

Fresh(p) ==
  \/ IsPat(p) /\ p.progs # db.pat
  \/ IsPmt(p) /\ p.ecm # db.prog[p.pid].ecm
  \/ IsEcm(p) /\ p.period # db.dec[p.pid].seen

\* check_pmt_complete(), check_ecm_complete(): all were found, or one of them
\* came again while others were waited for.
PmtComplete(d) ==
  \/ \E g \in d.pat : d.prog[g].phase = 2
  \/ \A g \in d.pat : d.prog[g].phase # 0

EcmComplete(d) ==
  \/ \E k \in InUse(d) : d.dec[k].phase = 2
  \/ \A k \in InUse(d) : d.dec[k].phase # 0

\* Mutant: put() does not wait for the first ECM.
StageWithoutEcm(d) ==
  IF d.pat = {} THEN "find_pat"
  ELSE IF ~PmtComplete(d) THEN "find_pmt"
  ELSE "proc"

\* The loop put() has to enter next.
Stage(d) ==
  IF d.pat = {} THEN "find_pat"
  ELSE IF ~PmtComplete(d) THEN "find_pmt"
  ELSE IF ~EcmComplete(d) THEN "find_ecm"
  ELSE "proc"

----------------------------------------------------------------------------
NoPacket == [n |-> 0, kind |-> "error", pid |-> None, progs |-> {},
             ecm |-> None, period |-> 0]

Init ==
  /\ sbuf = <<>> /\ offset = 0
  /\ db = [pat |-> {}, prog |-> [g \in Progs |-> NewProgram],
           dec |-> [k \in ECMs |-> NewDecryptor]]
  /\ at = "idle" /\ code = "ok"
  /\ emitted = [pkt |-> NoPacket, how |-> "plain", times |-> 0]
  /\ count = 0 /\ arrived = 0
  /\ failures = 0

Idle == at = "idle"

\* The input of the next put(), packet by packet.  Padding is not numbered:
\* it is not missed when it is stripped.
Arrive(p) ==
  /\ Idle
  /\ count' = IF p.kind = "padding" THEN count ELSE (count + 1) % Wrap
  /\ sbuf' = Append(sbuf, [p EXCEPT !.n = count'])
  /\ arrived' = arrived + 1
  /\ UNCHANGED <<offset, db, at, code, emitted, failures>>

PutBegin ==
  /\ Idle
  /\ arrived > 0
  /\ arrived' = 0
  /\ at' = Stage(db)
  /\ UNCHANGED <<count, sbuf, offset, db, code, emitted, failures>>

FlushBegin ==
  /\ Idle
  /\ sbuf # <<>>
  /\ arrived' = 0
  /\ at' = "flush_proc"
  /\ UNCHANGED <<count, sbuf, offset, db, code, emitted, failures>>

\* A packet is looked at when a byte of the one after it is there.
Ahead == sbuf[offset + 1]
More == offset + 1 < Len(sbuf)

\* The look-ahead goes on behind this packet, or the next loop starts again at
\* the head of the buffer.
GoOn(d) ==
  /\ at' = Stage(d)
  /\ offset' = IF Stage(d) = at THEN offset + 1 ELSE 0

FindPat ==
  /\ at = "find_pat" /\ More
  /\ IF IsPat(Ahead) /\ Fresh(Ahead)
       THEN db' = WithPat(db, Ahead)
       ELSE UNCHANGED db
  /\ GoOn(db')
  /\ UNCHANGED <<count, sbuf, code, emitted, arrived, failures>>

FindPmt ==
  /\ at = "find_pmt" /\ More
  /\ LET g == Ahead.pid IN
     IF IsPmt(Ahead) /\ db.prog[g].phase # 0
       THEN db' = [db EXCEPT !.prog[g].phase = 2]
     ELSE IF IsPmt(Ahead) /\ Fresh(Ahead)
       THEN db' = [WithPmt(db, Ahead) EXCEPT !.prog[g].phase = 1]
     ELSE UNCHANGED db
  /\ GoOn(db')
  /\ UNCHANGED <<count, sbuf, code, emitted, arrived, failures>>

\* An ECM of a decryptor that has none yet.
FindFirstEcm(answer) ==
  /\ at = "find_ecm" /\ More
  /\ IsEcm(Ahead) /\ db.dec[Ahead.pid].phase = 0 /\ Fresh(Ahead)
  /\ answer \in Answers(Ahead.pid)
  /\ LET d == WithEcm(db, Ahead, answer) IN
     IF answer = "failed"
       THEN /\ db' = d
            /\ failures' = failures + 1
            /\ offset' = offset + 1
            /\ at' = "idle" /\ code' = "ecm_proc_failure"
       ELSE /\ db' = [d EXCEPT !.dec[Ahead.pid].phase = 1]
            /\ GoOn(db')
            /\ UNCHANGED <<code, failures>>
  /\ UNCHANGED <<count, sbuf, emitted, arrived>>

FindOther ==
  /\ at = "find_ecm" /\ More
  /\ ~(IsEcm(Ahead) /\ db.dec[Ahead.pid].phase = 0 /\ Fresh(Ahead))
  /\ db' = IF IsEcm(Ahead) /\ db.dec[Ahead.pid].phase # 0
             THEN [db EXCEPT !.dec[Ahead.pid].phase = 2] ELSE db
  /\ GoOn(db')
  /\ UNCHANGED <<count, sbuf, code, emitted, arrived, failures>>

\* The input ends before the tables are complete: put() wants more, the
\* position of the look-ahead is kept.
NeedMore ==
  /\ at \in {"find_pat", "find_pmt", "find_ecm"} /\ ~More
  /\ at' = "idle"
  /\ code' = IF offset < HeadLimit THEN "ok" ELSE "no_table_in_head"
  /\ UNCHANGED <<count, sbuf, offset, db, emitted, arrived, failures>>

----------------------------------------------------------------------------
\* The loop of proc_arib_std_b25(), for put() and at the start of flush(), and
\* that of flush() itself, which takes the last packet, too.
Processing == at \in {"proc", "flush_proc", "flush"}
Readable == IF at = "flush" THEN sbuf # <<>> ELSE Len(sbuf) > 1
Current == Head(sbuf)

\* The decryptor of a stream packet: that of its PMT or, for a PID no PMT
\* listed, the only one there is.
Route(p) ==
  IF p.pid \in db.pat /\ db.prog[p.pid].ecm # None THEN {db.prog[p.pid].ecm}
  ELSE IF Cardinality(InUse(db)) = 1 THEN InUse(db)
  ELSE {}

Ciphers(p) == {k \in Route(p) : db.dec[k].m2}

\* MULTI2 refuses to work without a key.
Undecipherable(p) ==
  p.kind = "ES" /\ \E k \in Ciphers(p) : db.dec[k].key = None

Fits(p, k) == p.ecm = k /\ p.period \in {db.dec[k].key, db.dec[k].key + 1}

Result(p) ==
  IF p.kind # "ES" THEN "plain"
  ELSE IF Ciphers(p) = {} THEN "scrambled"
  ELSE IF \A k \in Ciphers(p) : Fits(p, k) THEN "clear"
  ELSE "garbled"

Emit(p) ==
  emitted' = [pkt |-> p, how |-> Result(p),
              times |-> IF emitted.pkt = p THEN emitted.times + 1 ELSE 1]

Advance == sbuf' = Tail(sbuf)

Return(c) == at' = "idle" /\ code' = c

PaddingOrError(p) == p.kind \in {"padding", "error"} /\ Strip   \* mutant
Padding(p) == p.kind = "padding" /\ Strip

SkipPadding ==
  /\ Processing /\ Readable
  /\ Padding(Current)
  /\ Advance
  /\ UNCHANGED <<count, offset, db, at, code, emitted, arrived, failures>>

\* Mutant: the packet is given up.
DecryptFailureSkips ==
  /\ Processing /\ Readable
  /\ Undecipherable(Current)
  /\ Return("decrypt_failure")
  /\ Advance
  /\ UNCHANGED <<count, offset, db, emitted, arrived, failures>>

\* Whatever goes wrong, the packet stays at the head of the buffer.
DecryptFailure ==
  /\ Processing /\ Readable
  /\ Undecipherable(Current)
  /\ Return("decrypt_failure")
  /\ UNCHANGED <<count, sbuf, offset, db, emitted, arrived, failures>>

\* A packet goes out before its section is looked at.
PassPacket ==
  /\ Processing /\ Readable
  /\ ~Padding(Current) /\ ~Undecipherable(Current) /\ ~Fresh(Current)
  /\ Emit(Current)
  /\ Advance
  /\ UNCHANGED <<count, offset, db, at, code, arrived, failures>>

NewPmt ==
  /\ Processing /\ Readable
  /\ IsPmt(Current) /\ Fresh(Current)
  /\ Emit(Current)
  /\ db' = WithPmt(db, Current)
  /\ Advance
  /\ UNCHANGED <<count, offset, at, code, arrived, failures>>

\* Mutant: a refusal is taken for an error.
NewEcmStrict(answer) ==
  /\ Processing /\ Readable
  /\ IsEcm(Current) /\ Fresh(Current)
  /\ answer \in Answers(Current.pid)
  /\ Emit(Current)
  /\ db' = WithEcm(db, Current, answer)
  /\ failures' = IF answer = "failed" THEN failures + 1 ELSE failures
  /\ IF answer # "key"
       THEN Return("ecm_proc_failure") /\ UNCHANGED sbuf
       ELSE Advance /\ UNCHANGED <<at, code>>
  /\ UNCHANGED <<count, offset, arrived>>

NewEcm(answer) ==
  /\ Processing /\ Readable
  /\ IsEcm(Current) /\ Fresh(Current)
  /\ answer \in Answers(Current.pid)
  /\ Emit(Current)
  /\ db' = WithEcm(db, Current, answer)
  /\ IF answer = "failed"
       THEN /\ Return("ecm_proc_failure")
            /\ failures' = failures + 1
            /\ UNCHANGED sbuf
       ELSE /\ Advance
            /\ UNCHANGED <<at, code, failures>>
  /\ UNCHANGED <<count, offset, arrived>>

\* proc_arib_std_b25() returns when the PAT has changed, without stepping over
\* its packet; the loop of flush() goes on.
NewPat ==
  /\ Processing /\ Readable
  /\ IsPat(Current) /\ Fresh(Current)
  /\ Emit(Current)
  /\ db' = WithPat(db, Current)
  /\ CASE at = "proc"       -> Return("ok") /\ UNCHANGED sbuf
       [] at = "flush_proc" -> at' = "flush" /\ UNCHANGED <<sbuf, code>>
       [] at = "flush"      -> Advance /\ UNCHANGED <<at, code>>
  /\ UNCHANGED <<count, offset, arrived, failures>>

ProcEnd ==
  /\ Processing /\ ~Readable
  /\ IF at = "flush_proc" THEN at' = "flush" /\ UNCHANGED code ELSE Return("ok")
  /\ UNCHANGED <<count, sbuf, offset, db, emitted, arrived, failures>>

CallStep ==
  \/ FindPat \/ FindPmt \/ FindOther \/ NeedMore
  \/ SkipPadding \/ DecryptFailure \/ PassPacket \/ NewPmt \/ NewPat \/ ProcEnd
  \/ \E answer \in {"key", "failed", "refused", "locked"} :
       FindFirstEcm(answer) \/ NewEcm(answer)

Step == PutBegin \/ FlushBegin \/ CallStep
Next == Step \/ \E p \in Packet : Arrive(p)
Spec == Init /\ [][Next]_vars

----------------------------------------------------------------------------
Stages == {"idle", "find_pat", "find_pmt", "find_ecm", "proc", "flush_proc", "flush"}
Codes == {"ok", "no_table_in_head", "ecm_proc_failure", "decrypt_failure"}

\* The types, and what ties the counters to the buffer: a decryptor that no
\* program names has been removed.
TypeOK ==
  /\ sbuf \in Seq(Packet)
  /\ offset \in Nat
  /\ db \in Database
  /\ \A k \in ECMs \ InUse(db) : db.dec[k] = NewDecryptor
  /\ at \in Stages /\ code \in Codes
  /\ emitted \in [pkt: Packet, how: {"plain", "clear", "garbled", "scrambled"}, times: Nat]
  /\ count \in 0 .. Wrap - 1 /\ arrived \in Nat
  /\ failures \in 0 .. MaxFailures

\* Reading ahead and starting again at the head, stopping in the middle and
\* coming back: packets go out in the order of the input and none is missing.
InOrder ==
  [][emitted'.pkt # emitted.pkt
       => emitted'.pkt.n \in {emitted.pkt.n, (emitted.pkt.n + 1) % Wrap}]_emitted

\* A packet the loops stop at goes out again when they come back to it: a new
\* PAT twice, any other packet once more for every failure of the card.
RepeatsBounded ==
  emitted.times <= (IF emitted.pkt.kind = "PAT" THEN 2 ELSE 1 + failures)

\* A stream is descrambled with the key its packets were scrambled with.
RightKey == emitted.how # "garbled"

\* README 4, 7: nothing goes out before the first ECM of its ECM PID is there.
NotLeftScrambled ==
  emitted.how = "scrambled" => emitted.pkt.ecm \notin Contracted

\* README 0.1.3: a stream whose ECM was refused is passed through untouched,
\* whatever keys there were before.
RefusedUntouched ==
  [][LET p == emitted'.pkt IN
     (p.kind = "ES" /\ p.pid \in db.pat /\ db.prog[p.pid].ecm \in InUse(db))
       => (db.dec[db.prog[p.pid].ecm].locked => emitted'.how = "scrambled")]_emitted

\* README 0.1.3: so is a stream whose key could not be had at all; put() does
\* not fail over it.
NoKeyNoFailure == code # "decrypt_failure"
=============================================================================
