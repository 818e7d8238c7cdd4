---------------------------- MODULE SectionParser ----------------------------
(***************************************************************************)
(* The PSI section parser of ts_section_parser.c: TS packet payloads of    *)
(* one PID go in through put(), finished sections come out through get()   *)
(* and their memory goes back through ret().                               *)
(*                                                                         *)
(* A section element (TS_SECTION_ELEM) is always in exactly one place: it  *)
(* is the half-assembled section `work`, it is queued for the reader in    *)
(* `buff`, or it is in `pool`.  An element of the pool is free when its    *)
(* reference count is zero; the reader and the change filter (`last`, the  *)
(* newest accepted section) each hold one reference to an element they     *)
(* still look at.  get() moves an element from buff to the pool BEFORE the *)
(* reader has read it, so only the count keeps put() from recycling it.    *)
(*                                                                         *)
(* Data are abstracted to units: a unit is a run of payload bytes that no  *)
(* packet boundary cuts.  SecLen[u] is the length, in units, that the      *)
(* section header read from a leading unit u announces, Valid the          *)
(* unit sequences that pass the checksum test, Pad the 0xff that fills     *)
(* the rest of a packet.                                                   *)
(***************************************************************************)
EXTENDS Integers, Sequences, FiniteSets

CONSTANTS
  Elems,     \* the section elements calloc() can still give us: the memory
  Units,     \* the payload units
  Pad,       \* the 0xff filler, one of the units
  SecLen,    \* length of the section that starts with a unit
  Valid,     \* the contents whose checksum is right (or is not looked at)
  Pids,      \* packet identifiers
  Packets,   \* the packets put() can be called with
  Null       \* no element, no PID, no section

ASSUME UnitAssumption ==
  /\ Pad \in Units
  /\ SecLen \in [Units -> Nat \ {0}]
  /\ Valid \subseteq Seq(Units)

\* A packet: its PID, whether sections start in it, pointer_field, payload.
TsPacket == [pid: Pids, pusi: BOOLEAN, ptr: Nat, data: Seq(Units)]

ASSUME PacketAssumption == Packets \subseteq TsPacket

ASSUME NullAssumption == Null \notin Elems /\ Null \notin Pids /\ Null \notin Valid

VARIABLES
  pid,       \* the PID of the first packet, fixed until reset()
  work,      \* the section being assembled, or Null
  last,      \* the newest section accepted, or Null
  pool,      \* the elements of the pool list
  buff,      \* the queue of sections get() will hand out
  ref,       \* reference counts
  raw,       \* the units from raw to tail of every element
  rest,      \* what a running put() has still to cut into sections
  r,         \* the result of the last put(), or that of the running one so far
  held       \* elements handed out by get() and not yet given back by ret()

vars == <<pid, work, last, pool, buff, ref, raw, rest, r, held>>

Codes == {"ok", "crc", "length", "pid", "nomem"}

----------------------------------------------------------------------------
\* put() is not reentrant: no other call starts while it runs.
Idle == rest = <<>>

Queued == {buff[i] : i \in 1 .. Len(buff)}

\* Elements that have been allocated and not been freed.
Allocated == pool \cup Queued \cup (IF work = Null THEN {} ELSE {work})

\* Elements query_work_elem() may take: one whose count has dropped to zero
\* or, when there is none, memory that was never used.
Reusable == {e \in pool : ref[e] < 1}
Fresh == Elems \ Allocated
Available == IF Reusable # {} THEN Reusable ELSE Fresh

\* What append_section_data() leaves between raw and tail: the old bytes and
\* the new ones, cut where the announced length ends.
AppendedUncut(old, data) == old \o data   \* mutant

Appended(old, data) ==
  LET s == old \o data
  IN  IF s # <<>> /\ SecLen[s[1]] < Len(s) THEN SubSeq(s, 1, SecLen[s[1]]) ELSE s

Complete(s) == s # <<>> /\ SecLen[s[1]] <= Len(s)

\* Mutant: a cancelled element gives a reference back it never had.
CancelDecrements(e) ==
  /\ raw' = [raw EXCEPT ![e] = <<>>]
  /\ ref' = [ref EXCEPT ![e] = @ - 1]
  /\ pool' = pool \cup {e}
  /\ UNCHANGED <<last, buff>>

\* The three cancel_elem_*() functions: the element is emptied and free.
Cancel(e) ==
  /\ raw' = [raw EXCEPT ![e] = <<>>]
  /\ ref' = [ref EXCEPT ![e] = 0]
  /\ pool' = pool \cup {e}
  /\ UNCHANGED <<last, buff>>

\* commit_elem_updated(): `last` and the queue take one reference each, the
\* previous `last` loses the one it had as `last`.
Release(e) == IF e # Null /\ ref[e] > 0 THEN [ref EXCEPT ![e] = @ - 1] ELSE ref

\* Mutants: the element stays linked in the pool; the previous `last` keeps
\* its count; the change filter has no count of its own; last in, first out.
CommitStillPooled(e, s) ==
  /\ raw' = [raw EXCEPT ![e] = s]
  /\ ref' = [Release(last) EXCEPT ![e] = 2]
  /\ last' = e
  /\ buff' = Append(buff, e)
  /\ UNCHANGED pool

CommitKeepsLast(e, s) ==
  /\ raw' = [raw EXCEPT ![e] = s]
  /\ ref' = [ref EXCEPT ![e] = 2]
  /\ last' = e
  /\ buff' = Append(buff, e)
  /\ pool' = pool \ {e}

CommitOnce(e, s) ==
  /\ raw' = [raw EXCEPT ![e] = s]
  /\ ref' = [Release(last) EXCEPT ![e] = 1]
  /\ last' = e
  /\ buff' = Append(buff, e)
  /\ pool' = pool \ {e}

CommitAtHead(e, s) ==
  /\ raw' = [raw EXCEPT ![e] = s]
  /\ ref' = [Release(last) EXCEPT ![e] = 2]
  /\ last' = e
  /\ buff' = <<e>> \o buff
  /\ pool' = pool \ {e}

Commit(e, s) ==
  /\ raw' = [raw EXCEPT ![e] = s]
  /\ ref' = [Release(last) EXCEPT ![e] = 2]
  /\ last' = e
  /\ buff' = Append(buff, e)
  /\ pool' = pool \ {e}

\* compare_elem_section() against the newest accepted section only.
SameAsLast(s) == last # Null /\ raw[last] = s

\* Mutant: the checksum is not looked at.
SettleUnchecked(e, s, code) ==
  /\ IF SameAsLast(s) THEN Cancel(e) ELSE Commit(e, s)
  /\ r' = code

\* What put() does with element e once it holds the complete section s.
Settle(e, s, code) ==
  \/ /\ s \notin Valid
     /\ Cancel(e)
     /\ r' = "crc"
  \/ /\ s \in Valid
     /\ SameAsLast(s)
     /\ Cancel(e)
     /\ r' = code
  \/ /\ s \in Valid
     /\ ~SameAsLast(s)
     /\ Commit(e, s)
     /\ r' = code

----------------------------------------------------------------------------
Init ==
  /\ pid = Null
  /\ work = Null /\ last = Null
  /\ pool = {} /\ buff = <<>>
  /\ ref = [e \in Elems |-> 0]
  /\ raw = [e \in Elems |-> <<>>]
  /\ rest = <<>> /\ r = "ok"
  /\ held = {}

\* The parser follows the PID of the first packet it was given.
Accepts(pkt) == pid \in {Null, pkt.pid}

PutOtherPid(pkt) ==
  /\ Idle
  /\ ~Accepts(pkt)
  /\ r' = "pid"
  /\ UNCHANGED <<pid, work, last, pool, buff, ref, raw, rest, held>>

\* A packet without a section start (payload_unit_start_indicator = 0)
\* continues the section at work; with no such section it is dropped.
PutContinuation(pkt) ==
  /\ Idle
  /\ Accepts(pkt)
  /\ ~pkt.pusi
  /\ pid' = pkt.pid
  /\ IF work = Null
       THEN r' = "ok" /\ UNCHANGED <<work, last, pool, buff, ref, raw>>
       ELSE LET s == Appended(raw[work], pkt.data) IN
            IF Complete(s)
              THEN work' = Null /\ Settle(work, s, "ok")
              ELSE /\ raw' = [raw EXCEPT ![work] = s]
                   /\ r' = "ok"
                   /\ UNCHANGED <<work, last, pool, buff, ref>>
  /\ UNCHANGED <<rest, held>>

\* A section start whose pointer_field leaves the packet: the section at work
\* is abandoned and nothing else happens.
PutBrokenPointer(pkt) ==
  /\ Idle
  /\ Accepts(pkt)
  /\ pkt.pusi
  /\ pkt.ptr >= Len(pkt.data)
  /\ pid' = pkt.pid
  /\ work' = Null
  /\ IF work = Null
       THEN r' = "ok" /\ UNCHANGED <<last, pool, buff, ref, raw>>
       ELSE r' = "length" /\ Cancel(work)
  /\ UNCHANGED <<rest, held>>

\* A section start: the units before the pointer complete the section at
\* work, which is abandoned when they do not; the units from the pointer on
\* are left in `rest` for PutSection.
PutStart(pkt) ==
  /\ Idle
  /\ Accepts(pkt)
  /\ pkt.pusi
  /\ pkt.ptr < Len(pkt.data)
  /\ pid' = pkt.pid
  /\ work' = Null
  /\ IF work = Null
       THEN r' = "ok" /\ UNCHANGED <<last, pool, buff, ref, raw>>
       ELSE LET s == Appended(raw[work], SubSeq(pkt.data, 1, pkt.ptr)) IN
            IF Complete(s)
              THEN Settle(work, s, "ok")
              ELSE r' = "length" /\ Cancel(work)
  /\ rest' = SubSeq(pkt.data, pkt.ptr + 1, Len(pkt.data))
  /\ UNCHANGED held

\* One turn of the loop of put_include_section_start(): an element is taken,
\* filled, and kept at work when the packet ends inside its section.
PutSection ==
  /\ ~Idle
  /\ \E e \in Available :
       LET s == Appended(<<>>, rest)
           left == SubSeq(rest, Len(s) + 1, Len(rest))
       IN  IF Complete(s)
             THEN /\ Settle(e, s, r)
                  /\ rest' = IF left # <<>> /\ left[1] # Pad THEN left ELSE <<>>
                  /\ UNCHANGED work
             ELSE /\ work' = e
                  /\ raw' = [raw EXCEPT ![e] = s]
                  /\ ref' = [ref EXCEPT ![e] = 0]
                  /\ pool' = pool \ {e}
                  /\ r' = "ok"
                  /\ rest' = <<>>
                  /\ UNCHANGED <<last, buff>>
  /\ UNCHANGED <<pid, held>>

PutNoMemory ==
  /\ ~Idle
  /\ Available = {}
  /\ r' = "nomem"
  /\ rest' = <<>>
  /\ UNCHANGED <<pid, work, last, pool, buff, ref, raw, held>>

Put(pkt) ==
  \/ PutOtherPid(pkt)
  \/ PutContinuation(pkt)
  \/ PutBrokenPointer(pkt)
  \/ PutStart(pkt)

\* get() lends the oldest queued section to the reader; the element itself
\* goes to the pool at once, protected by its count alone.
Get ==
  /\ Idle
  /\ buff # <<>>
  /\ held' = held \cup {Head(buff)}
  /\ pool' = pool \cup {Head(buff)}
  /\ buff' = Tail(buff)
  /\ UNCHANGED <<pid, work, last, ref, raw, rest, r>>

\* ret() of a section the reader was lent, in any order.  The element is
\* looked up in the pool only.
Ret(e) ==
  /\ Idle
  /\ e \in held
  /\ held' = held \ {e}
  /\ ref' = IF e \in pool THEN Release(e) ELSE ref
  /\ UNCHANGED <<pid, work, last, pool, buff, raw, rest, r>>

\* reset() frees everything.  A section still lent out would dangle: callers
\* reset (or release) a parser only with all of them given back.
Reset ==
  /\ Idle
  /\ held = {}
  /\ pid' = Null
  /\ work' = Null /\ last' = Null
  /\ pool' = {} /\ buff' = <<>>
  /\ ref' = [e \in Elems |-> 0]
  /\ raw' = [e \in Elems |-> <<>>]
  /\ UNCHANGED <<rest, r, held>>

Next ==
  \/ \E pkt \in Packets : Put(pkt)
  \/ PutSection
  \/ PutNoMemory
  \/ Get
  \/ \E e \in Elems : Ret(e)
  \/ Reset

Spec == Init /\ [][Next]_vars

----------------------------------------------------------------------------
TypeOK ==
  /\ pid \in Pids \cup {Null}
  /\ work \in Elems \cup {Null}
  /\ last \in Elems \cup {Null}
  /\ pool \subseteq Elems
  /\ buff \in Seq(Elems)
  /\ ref \in [Elems -> Nat]
  /\ raw \in [Elems -> Seq(Units)]
  /\ rest \in Seq(Units)
  /\ r \in Codes
  /\ held \subseteq Elems

\* Every element is in one place at a time and the queue names none twice:
\* what put_ts_section_list_tail() and unlink_ts_section_list() move around
\* never ends up in two lists, which would tie their links together.
OnePlace ==
  /\ work # Null => work \notin pool \cup Queued
  /\ pool \cap Queued = {}
  /\ \A i, j \in 1 .. Len(buff) : buff[i] = buff[j] => i = j
  /\ held \subseteq pool

\* The count of an element is exactly the number of parties that look at it:
\* the change filter, and the queue or the reader.  One too few and put()
\* overwrites a section in use; one too many and the element is lost.
RefExact ==
  \A e \in Elems :
    ref[e] = (IF e = last THEN 1 ELSE 0)
           + (IF e \in held \cup Queued THEN 1 ELSE 0)

\* Whatever packets came in, broken or not, the queue, the reader and the
\* change filter only ever hold sections whose checksum is right.
OnlyValid ==
  \A e \in held \cup Queued \cup ({last} \ {Null}) : raw[e] \in Valid

\* The newest accepted section stays in the queue or in the pool.
LastPlaced == last # Null => last \in pool \cup Queued

\* The inductive invariant: OnePlace and LastPlaced say that an element that
\* is taken for new data is nobody's, given the counts RefExact speaks of.
IInv == TypeOK /\ OnePlace /\ LastPlaced /\ RefExact /\ OnlyValid

\* Memory the reader was lent is not written until the reader gives it back,
\* however many put() calls come in between (get() already pooled it).
LoanUntouched == [][\A e \in held \cap held' : raw'[e] = raw[e]]_vars

\* All of the above as the reader sees it: the parser implements a feed of
\* sections in which elements, counts and packets do not occur.  What a loan
\* holds is what is in the element's memory now.
Feed == INSTANCE SectionFeed WITH
  Sections <- Valid,
  Handles  <- Elems,
  None     <- Null,
  queue    <- [i \in 1 .. Len(buff) |-> raw[buff[i]]],
  newest   <- IF last = Null THEN Null ELSE raw[last],
  loans    <- [e \in held |-> raw[e]]

ImplementsFeed == Feed!FeedSpec
=============================================================================
