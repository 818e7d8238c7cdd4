---------------------------- MODULE DecryptorMap ----------------------------
(***************************************************************************)
(* The PID map of arib_std_b25.c and the reference counts behind it.       *)
(*                                                                         *)
(* map[pid] says what a PID carries and, for a stream, which decryptor     *)
(* descrambles it.  Two counts keep it alive: map[pid].ref counts the      *)
(* stream list entries that name the PID, DECRYPTOR_ELEM.ref the streams   *)
(* bound to the decryptor (and proc_pmt() itself while it works).  Every   *)
(* program has two stream lists, the current one and that of the previous  *)
(* PMT: a stream that leaves a PMT is forgotten one update later, so that  *)
(* packets still on their way are descrambled.                             *)
(*                                                                         *)
(* proc_pmt() and proc_pat() are loops over stream entries; each turn of   *)
(* a loop is a step here, `job` is what the running call has still to do.  *)
(***************************************************************************)
EXTENDS Integers, Sequences, FiniteSets

CONSTANTS
  Progs,        \* PMT PIDs; a program is named by its PMT PID
  PIDs,         \* all PIDs of the model, those of Progs included
  ECMs,         \* the PIDs a CA descriptor in a PMT may name
  Tables,       \* the PMTs each program may have: [ca, es], es of [pid, ca]
  EMMs,         \* the PIDs a CA descriptor in the CAT may name
  CATs,         \* the CATs that may be broadcast: [emm, version]
  Decs,         \* memory for decryptors
  None,         \* no decryptor, no program, no PID
  Unscrambled   \* the CA PID 0x1fff: this stream is not scrambled

\* A PID has one purpose: broadcasters keep the PIDs of PMTs, ECMs, EMMs and
\* streams apart.  The code relies on it: set_decryptor(), proc_pmt() and
\* proc_cat() change the type of an entry of the map whatever it was.
ASSUME PidAssumption ==
  /\ IsFiniteSet(PIDs)
  /\ Progs \subseteq PIDs /\ ECMs \subseteq PIDs /\ EMMs \subseteq PIDs
  /\ Progs \cap ECMs = {} /\ Progs \cap EMMs = {} /\ ECMs \cap EMMs = {}
  /\ Unscrambled \notin ECMs \cup {None} /\ None \notin ECMs \cup EMMs \cup Decs \cup Progs

StreamPIDs == PIDs \ (Progs \cup ECMs \cup EMMs)
CaPIDs == ECMs \cup {Unscrambled, None}

ASSUME TableAssumption ==
  \A g \in Progs : \A t \in Tables[g] :
    t \in [ca: CaPIDs, es: Seq([pid: StreamPIDs, ca: CaPIDs])]

\* The streams of a program, in any of its PMTs.
StreamsOf(g) ==
  {s \in StreamPIDs : \E t \in Tables[g] : \E i \in 1 .. Len(t.es) : t.es[i].pid = s}

\* No PID is a stream of two programs, and a PMT lists none twice.  Otherwise what
\* leads a stream to its decryptor is whichever entry was processed last.
OwnStreams ==
  /\ \A g, h \in Progs : g # h => StreamsOf(g) \cap StreamsOf(h) = {}
  /\ \A g \in Progs : \A t \in Tables[g] : \A i, j \in 1 .. Len(t.es) :
       t.es[i].pid = t.es[j].pid => i = j

VARIABLES
  m,            \* the map and the decryptors, see MapType
  streams,      \* stream list of the current PMT of every program
  oldStrm,      \* stream list of the PMT before it
  pmt,          \* the PMT of every program that was processed last
  cat,          \* the CAT the CAT parser accepted last
  job           \* what the running proc_pmt(), proc_pat() has still to do

vars == <<m, streams, oldStrm, pmt, cat, job>>

Kinds == {"UNKNOWN", "PMT", "ECM", "EMM", "OTHER"}

\* type, count and target are the fields of PID_MAP; ecm and uses are ecm_pid
\* and ref of a DECRYPTOR_ELEM, ecm[d] = None for memory that is not in use.
MapType == [type:   [PIDs -> Kinds],
            count:  [PIDs -> Nat],
            target: [PIDs -> Decs \cup {None}],
            ecm:    [Decs -> ECMs \cup {None}],
            uses:   [Decs -> Nat]]

Alive(mm) == {d \in Decs : mm.ecm[d] # None}
Bound(mm, d) == {p \in PIDs : mm.type[p] = "OTHER" /\ mm.target[p] = d}

NoJob == [kind |-> "none", prog |-> None, dec0 |-> None,
          unref |-> <<>>, todo |-> <<>>, release |-> {}, next |-> {}]

Idle == job = NoJob

----------------------------------------------------------------------------
\* The helpers of proc_pmt(), as functions from a map to a map.

\* Mutant: the PID map is not told.
RemoveDecryptorOnly(mm, d) == [mm EXCEPT !.ecm[d] = None, !.uses[d] = 0]

\* remove_decryptor(): the ECM PID is given up if it still leads to d.
RemoveDecryptor(mm, d) ==
  LET p == mm.ecm[d]
      own == p # None /\ mm.type[p] = "ECM" /\ mm.target[p] = d
  IN  [mm EXCEPT
         !.type   = IF own THEN [@ EXCEPT ![p] = "UNKNOWN"] ELSE @,
         !.target = IF own THEN [@ EXCEPT ![p] = None] ELSE @,
         !.ecm[d] = None,
         !.uses[d] = 0]

\* dec->ref -= 1 and the test that follows it.
DropUse(mm, d) ==
  LET less == [mm EXCEPT !.uses[d] = @ - 1]
  IN  IF less.uses[d] < 1 THEN RemoveDecryptor(less, d) ELSE less

DropTarget(mm, p) ==
  IF mm.type[p] = "OTHER" /\ mm.target[p] # None
    THEN DropUse(mm, mm.target[p]) ELSE mm

\* Mutant: the stream goes one entry too early.
UnrefStreamEarly(mm, p) ==
  LET less == [mm EXCEPT !.count[p] = @ - 1]
  IN  IF less.count[p] <= 1
        THEN [DropTarget(less, p) EXCEPT !.type[p] = "UNKNOWN",
                                         !.count[p] = 0,
                                         !.target[p] = None]
        ELSE less

\* unref_stream(): the last entry takes the PID out of the map.  The count is
\* unsigned: only zero is less than one, and below zero (-1 stands for 2^32 - 1)
\* the entry would stay forever.
UnrefStream(mm, p) ==
  LET less == [mm EXCEPT !.count[p] = @ - 1]
  IN  IF less.count[p] = 0
        THEN [DropTarget(less, p) EXCEPT !.type[p] = "UNKNOWN",
                                         !.count[p] = 0,
                                         !.target[p] = None]
        ELSE less

\* set_decryptor(): the decryptor p already leads to, or a new one.
HasDecryptor(mm, p) == mm.type[p] = "ECM" /\ mm.target[p] # None

DecryptorFor(mm, p) ==
  IF HasDecryptor(mm, p) THEN {mm.target[p]} ELSE Decs \ Alive(mm)

SetDecryptor(mm, p, d) ==
  IF HasDecryptor(mm, p) THEN mm
  ELSE LET new == [mm EXCEPT !.ecm[d] = p, !.uses[d] = 0]
       IN  [DropTarget(new, p) EXCEPT !.type[p] = "ECM", !.target[p] = d]

\* dec[0]->ref += 1: proc_pmt() holds the program's decryptor over its loops.
HoldNothing(mm, d) == mm   \* mutant

Hold(mm, d) == IF d = None THEN mm ELSE [mm EXCEPT !.uses[d] = @ + 1]

\* Mutants: a decryptor without streams is not removed; a stream keeps the
\* decryptor it has.
BindStreamLeak(mm, p, d) ==
  LET old  == mm.target[p]
      free == IF old = None THEN mm
              ELSE [mm EXCEPT !.uses[old] = @ - 1, !.target[p] = None]
  IN  IF old = d THEN mm
      ELSE IF d = None THEN free
      ELSE [free EXCEPT !.target[p] = d, !.uses[d] = @ + 1]

BindStreamOnce(mm, p, d) ==
  IF mm.target[p] # None \/ d = None THEN mm
  ELSE [mm EXCEPT !.target[p] = d, !.uses[d] = @ + 1]

\* bind_stream_decryptor(): here a decryptor is removed at exactly zero, and
\* whatever the PID led to before is taken for a decryptor of a stream.
BindStream(mm, p, d) ==
  LET old  == mm.target[p]
      less == [mm EXCEPT !.uses[old] = @ - 1]
      rest == [(IF less.uses[old] = 0 THEN RemoveDecryptor(less, old) ELSE less)
                 EXCEPT !.target[p] = None]
      free == IF old = None THEN mm ELSE rest
  IN  IF old = d THEN mm
      ELSE IF d = None THEN free
      ELSE [free EXCEPT !.target[p] = d, !.uses[d] = @ + 1]

\* add_ecm_stream(): an ECM PID is listed once.
Lists(list, p) == \E i \in 1 .. Len(list) : list[i] = p
AddEcmAlways(mm, list, p) == [mm EXCEPT !.count[p] = @ + 1]   \* mutant
AddEcm(mm, list, p) == IF Lists(list, p) THEN mm ELSE [mm EXCEPT !.count[p] = @ + 1]
WithEcm(list, p) == IF Lists(list, p) THEN list ELSE Append(list, p)

----------------------------------------------------------------------------
Init ==
  /\ m = [type   |-> [p \in PIDs |-> "UNKNOWN"],
          count  |-> [p \in PIDs |-> 0],
          target |-> [p \in PIDs |-> None],
          ecm    |-> [d \in Decs |-> None],
          uses   |-> [d \in Decs |-> 0]]
  /\ streams = [g \in Progs |-> <<>>]
  /\ oldStrm = [g \in Progs |-> <<>>]
  /\ pmt = [g \in Progs |-> None]
  /\ cat = None
  /\ job = NoJob

\* proc_pmt() up to its first loop: the decryptor of the program's own CA
\* descriptor is found or made and held; without one, the only decryptor
\* there is, if there is only one.  The stream lists move on by one.
PmtBegin(g, table, d) ==
  /\ Idle
  /\ m.type[g] = "PMT"
  /\ LET scrambled == table.ca \in ECMs
         only      == ~scrambled /\ Cardinality(Alive(m)) = 1
         set       == IF scrambled THEN SetDecryptor(m, table.ca, d) ELSE m
         hold      == Hold(set, d)
     IN  /\ d \in IF scrambled THEN DecryptorFor(m, table.ca)
                  ELSE IF only THEN Alive(m) ELSE {None}
         /\ m' = IF scrambled THEN AddEcm(hold, <<>>, table.ca) ELSE hold
         /\ streams' = [streams EXCEPT ![g] = IF scrambled THEN <<table.ca>> ELSE <<>>]
  /\ oldStrm' = [oldStrm EXCEPT ![g] = streams[g]]
  /\ job' = [NoJob EXCEPT !.kind = "pmt", !.prog = g, !.dec0 = d,
                          !.unref = oldStrm[g], !.todo = table.es]
  /\ pmt' = [pmt EXCEPT ![g] = table]
  /\ UNCHANGED cat

\* An entry of a list that is given up: of the PMT before the previous one in
\* proc_pmt(), of all lists in proc_pat() and teardown().
Unref ==
  /\ job.unref # <<>>
  /\ m' = UnrefStream(m, Head(job.unref))
  /\ job' = [job EXCEPT !.unref = Tail(@)]
  /\ UNCHANGED <<streams, oldStrm, pmt, cat>>

\* A stream entry of the PMT: its own decryptor if it has a CA descriptor,
\* none if that says it is not scrambled, else the program's.
PmtStream(d) ==
  /\ job.kind = "pmt" /\ job.unref = <<>> /\ job.todo # <<>>
  /\ LET s    == Head(job.todo)
         g    == job.prog
         own  == s.ca \in ECMs
         set  == IF own THEN AddEcm(SetDecryptor(m, s.ca, d), streams[g], s.ca) ELSE m
         list == IF own THEN WithEcm(streams[g], s.ca) ELSE streams[g]
         mark == [set EXCEPT !.type[s.pid] = "OTHER", !.count[s.pid] = @ + 1]
     IN  /\ d \in IF own THEN DecryptorFor(m, s.ca)
                  ELSE IF s.ca = Unscrambled THEN {None} ELSE {job.dec0}
         /\ m' = BindStream(mark, s.pid, d)
         /\ streams' = [streams EXCEPT ![g] = Append(list, s.pid)]
  /\ job' = [job EXCEPT !.todo = Tail(@)]
  /\ UNCHANGED <<oldStrm, pmt, cat>>

\* Mutant: proc_pmt() leaves without giving its hold back.
PmtEndHolding ==
  /\ job.kind = "pmt" /\ job.unref = <<>> /\ job.todo = <<>>
  /\ job' = NoJob
  /\ UNCHANGED <<m, streams, oldStrm, pmt, cat>>

PmtEnd ==
  /\ job.kind = "pmt" /\ job.unref = <<>> /\ job.todo = <<>>
  /\ m' = IF job.dec0 = None THEN m ELSE DropUse(m, job.dec0)
  /\ job' = NoJob
  /\ UNCHANGED <<streams, oldStrm, pmt, cat>>

\* proc_pat() and teardown() release all programs.  With a PAT the map is then
\* cleared, the entries of CAT and EMM included, and the new programs come in;
\* teardown() also removes the decryptors and the parsers.
ReleaseBegin(kind, gs) ==
  /\ Idle
  /\ job' = [NoJob EXCEPT !.kind = kind, !.release = Progs, !.next = gs]
  /\ UNCHANGED <<m, streams, oldStrm, pmt, cat>>

PatBegin == \E gs \in SUBSET Progs : ReleaseBegin("pat", gs)
TeardownBegin == ReleaseBegin("teardown", {})

\* release_program(): the PMT PID is forgotten, the entries of both lists are
\* left to Unref.
ReleaseProgram(g) ==
  /\ job.unref = <<>> /\ g \in job.release
  /\ job' = [job EXCEPT !.unref = oldStrm[g] \o streams[g], !.release = @ \ {g}]
  /\ streams' = [streams EXCEPT ![g] = <<>>]
  /\ oldStrm' = [oldStrm EXCEPT ![g] = <<>>]
  /\ m' = [m EXCEPT !.type[g] = "UNKNOWN", !.count[g] = 0, !.target[g] = None]
  /\ pmt' = [pmt EXCEPT ![g] = None]
  /\ UNCHANGED cat

ClearedMap(mm, gs) ==
  [mm EXCEPT !.type   = [p \in PIDs |-> IF p \in gs THEN "PMT" ELSE "UNKNOWN"],
             !.count  = [p \in PIDs |-> 0],
             !.target = [p \in PIDs |-> None]]

Released(kind) == job.kind = kind /\ job.unref = <<>> /\ job.release = {}

PatEnd ==
  /\ Released("pat")
  /\ m' = ClearedMap(m, job.next)
  /\ job' = NoJob
  /\ UNCHANGED <<streams, oldStrm, pmt, cat>>

TeardownEnd ==
  /\ Released("teardown")
  /\ m' = [ClearedMap(m, {}) EXCEPT !.ecm = [d \in Decs |-> None],
                                    !.uses = [d \in Decs |-> 0]]
  /\ cat' = None
  /\ job' = NoJob
  /\ UNCHANGED <<streams, oldStrm, pmt>>

\* proc_cat(): only a CAT that differs from the one before it gets here (the
\* section parser drops the others), and none before the first PAT.  A CAT
\* without a CA descriptor of ours changes nothing; the entry of an earlier
\* EMM PID stays.
ProcCat(c) ==
  /\ Idle
  /\ \E g \in Progs : m.type[g] = "PMT"
  /\ c # cat
  /\ cat' = c
  /\ m' = IF c.emm \in EMMs
            THEN [DropTarget(m, c.emm) EXCEPT !.type[c.emm] = "EMM",
                                              !.count[c.emm] = 1,
                                              !.target[c.emm] = None]
            ELSE m
  /\ UNCHANGED <<streams, oldStrm, pmt, job>>

Next ==
  \/ \E g \in Progs : \E t \in Tables[g], d \in Decs \cup {None} : PmtBegin(g, t, d)
  \/ Unref
  \/ \E d \in Decs \cup {None} : PmtStream(d)
  \/ PmtEnd
  \/ PatBegin
  \/ TeardownBegin
  \/ \E g \in Progs : ReleaseProgram(g)
  \/ PatEnd
  \/ TeardownEnd
  \/ \E c \in CATs : ProcCat(c)

Spec == Init /\ [][Next]_vars

\* proc_pmt(), proc_pat() and teardown() run to their end, and the CAT is
\* broadcast again and again.
FairSpec ==
  /\ Spec
  /\ WF_vars(Unref) /\ WF_vars(\E d \in Decs \cup {None} : PmtStream(d))
  /\ WF_vars(PmtEnd) /\ WF_vars(\E g \in Progs : ReleaseProgram(g))
  /\ WF_vars(PatEnd) /\ WF_vars(TeardownEnd)
  /\ SF_vars(\E c \in CATs : ProcCat(c))

----------------------------------------------------------------------------
JobType ==
  [kind: {"none", "pmt", "pat", "teardown"}, prog: Progs \cup {None},
   dec0: Decs \cup {None}, unref: Seq(PIDs),
   todo: Seq([pid: StreamPIDs, ca: CaPIDs]), release: SUBSET Progs, next: SUBSET Progs]

TypeOK ==
  /\ m \in MapType
  /\ streams \in [Progs -> Seq(PIDs)]
  /\ oldStrm \in [Progs -> Seq(PIDs)]
  /\ pmt \in [Progs -> (UNION {Tables[g] : g \in Progs}) \cup {None}]
  /\ \A g \in Progs : pmt[g] \in Tables[g] \cup {None}
  /\ cat \in CATs \cup {None}
  /\ job \in JobType

\* Nothing leads to a decryptor that has been freed: neither a PID of the map
\* nor the pointer proc_pmt() keeps in dec[0] over its loops.
NoDangling ==
  /\ \A p \in PIDs : m.target[p] # None => m.target[p] \in Alive(m)
  /\ job.dec0 # None => job.dec0 \in Alive(m)

\* "this code will never execute": a PID of type ECM leads to the decryptor
\* made for it, at every packet.
EcmServed ==
  \A p \in PIDs : m.type[p] = "ECM" =>
    m.target[p] \in Alive(m) /\ m.ecm[m.target[p]] = p

\* DECRYPTOR_ELEM.ref counts the streams bound to the decryptor, and proc_pmt()
\* while it holds it.  Bindings and releases go through five functions.
UsesExact ==
  \A d \in Alive(m) :
    m.uses[d] = Cardinality(Bound(m, d)) + (IF job.dec0 = d THEN 1 ELSE 0)

\* Between calls every decryptor has a stream: none outlives its streams, not
\* even over a PAT that clears the map without looking at it.
NoLeak == Idle => \A d \in Alive(m) : Bound(m, d) # {}

\* map[pid].ref counts the entries that name the PID in the lists of all
\* programs and in what a running call has still to release: it reaches zero
\* when the last of them goes, never earlier and never later.
ListOf(g, k) == IF k = "new" THEN streams[g] ELSE oldStrm[g]
Places(list, p) == {i \in 1 .. Len(list) : list[i] = p}

Entries(p) ==
  UNION {{<<g, k>>} \X Places(ListOf(g, k), p) : g \in Progs, k \in {"new", "old"}}

CountsExact ==
  \A p \in PIDs : m.type[p] \notin {"PMT", "EMM"} =>
    m.count[p] = Cardinality(Entries(p)) + Cardinality(Places(job.unref, p))

\* A stream of the PMT in force leads to the decryptor that gets the ECMs of
\* the PID that PMT names for it: its own CA descriptor first, then the
\* program's.  The routes of streams and of ECMs are set by different calls.
RoutedRight ==
  Idle => \A g \in Progs : pmt[g] # None => \A i \in 1 .. Len(pmt[g].es) :
    LET s == pmt[g].es[i]
        k == IF s.ca = None THEN pmt[g].ca ELSE s.ca
    IN  /\ k \in ECMs => /\ m.type[k] = "ECM"
                         /\ m.target[k] \in Alive(m)
                         /\ m.target[s.pid] = m.target[k]
        /\ s.ca = Unscrambled => m.target[s.pid] = None

\* README: a packet whose PID no PMT lists is descrambled with the keys of the
\* ECM of the stream when there is only one.  The code asks for one decryptor:
\* that is the same only if the one ECM PID in use has the only decryptor.
OneEcmOneDecryptor ==
  Idle /\ Cardinality({p \in PIDs : m.type[p] = "ECM"}) = 1
    => Cardinality(Alive(m)) = 1

\* README: when a CAT names an EMM PID, EMMs are picked up.
EmmRouted == cat # None /\ cat.emm \in EMMs /\ m.type[cat.emm] = "EMM"

EmmsPickedUp ==
  \A c \in CATs : c.emm \in EMMs => (cat = c ~> EmmRouted)

\* A stream that left its PMT keeps its decryptor until the next PMT of the
\* program: packets that are still on their way can be descrambled.
LateStreamsKept ==
  [][\A p \in PIDs :
       (/\ job'.kind # "pat" /\ job'.kind # "teardown"
        /\ m.type[p] = "OTHER" /\ m.target'[p] # m.target[p])
         => \A g \in Progs : ~Lists(oldStrm'[g], p) \/ Lists(streams'[g], p)]_vars
=============================================================================
