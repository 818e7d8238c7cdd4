---------------------------- MODULE AccessControl ----------------------------
(***************************************************************************)
(* Who may watch what: set_b_cas_card(), proc_ecm() and proc_emm() of      *)
(* arib_std_b25.c over the card module of BCasCard.  The card refuses the  *)
(* keys of a stream it has no contract for; the decryptor is then locked   *)
(* and the card is left alone until an EMM was handed to it, or until the  *)
(* tables give the stream another decryptor.  The application sets the     *)
(* card up, goes on when a call failed, and may reset the library.         *)
(*                                                                         *)
(* The broadcast repeats its sections; as some are lost, they arrive in    *)
(* any order.  External is what the cards hold: they take the contracts an *)
(* EMM that is addressed to them brings, and may do so although their      *)
(* answer never arrives, and contracts run out.                            *)
(***************************************************************************)
EXTENDS BCasCard, Sequences

CONSTANTS
  ECMs,      \* ECM PIDs
  Sent,      \* the sections that are sent
  Paid       \* the contracts a card has from the beginning

\* A section is an ECM of a period of keys, or an EMM with its elements.
EcmSection(k, period) == [kind |-> "ecm", pid |-> k, period |-> period, elements |-> <<>>]
EmmSection(elements)  == [kind |-> "emm", pid |-> None, period |-> 0, elements |-> elements]

\* The elements that are sent, and the sections a parser may deliver.
Elements == UNION {{s.elements[i] : i \in 1 .. Len(s.elements)} : s \in Sent}
Section == [kind: {"none", "ecm", "emm"}, pid: ECMs \cup {None}, period: Nat,
            elements: Seq(Elements)]

ASSUME SectionAssumption ==
  /\ Sent \subseteq Section
  /\ \A s \in Sent : s.kind = "ecm" => s.pid \in ECMs
  /\ \A e \in Elements : e.grants \subseteq ECMs
  /\ Paid \subseteq ECMs

VARIABLES
  phase,     \* the application: init, status, id, run, or stopped
  casid,     \* the card whose IDs prv->casid has
  dec,       \* the decryptors
  last_emm,  \* the last section the EMM parser accepted
  work,      \* the section that is processed; its elements shrink
  contracts  \* what the cards hold: [Cards -> SUBSET ECMs]

avars == <<phase, casid, dec, last_emm, work, contracts>>
NoWork == [kind |-> "none", pid |-> None, period |-> 0, elements |-> <<>>]

\* m2 holds the card whose system key the MULTI2 instance has (None if prv->stat was
\* never filled), nothing while there is no instance; key is the card and the period
\* of the keys, seen the period of the last ECM the parser delivered.
NewDecryptor == [locked |-> FALSE, m2 |-> {}, key |-> None, seen |-> None]

AInit ==
  /\ Init
  /\ phase = "init" /\ casid = None
  /\ dec = [k \in ECMs |-> NewDecryptor]
  /\ last_emm = NoWork /\ work = NoWork
  /\ contracts = [c \in Cards |-> Paid]

----------------------------------------------------------------------------
\* init() of the card module, then set_b_cas_card(): the initial status, the
\* IDs of the card.  The application gives up when one of them fails.
Begin ==
  /\ phase = "init" /\ Idle
  /\ InitBegin
  /\ phase' = "status"
  /\ UNCHANGED <<casid, dec, last_emm, work, contracts>>

SetBCasCard ==
  /\ phase = "status" /\ Idle
  /\ IF result = "ok" /\ card # 0
       THEN CommandBegin("id") /\ phase' = "id"
       ELSE phase' = "stopped" /\ UNCHANGED vars
  /\ UNCHANGED <<casid, dec, last_emm, work, contracts>>

GotId ==
  /\ phase = "id" /\ Idle
  /\ IF result = "ok" THEN phase' = "run" /\ casid' = answered
                      ELSE phase' = "stopped" /\ UNCHANGED casid
  /\ UNCHANGED <<vars, dec, last_emm, work, contracts>>

----------------------------------------------------------------------------
\* A section arrives; a parser drops one that is the same as its last one
\* (SectionFeed).
Ready == phase = "run" /\ Idle /\ work = NoWork

\* proc_ecm() up to the card.  A locked decryptor does not ask it.
ProcEcm(s) ==
  /\ Ready /\ s.kind = "ecm"
  /\ dec' = [dec EXCEPT ![s.pid].seen = s.period]
  /\ IF dec[s.pid].seen = s.period \/ dec[s.pid].locked
       THEN UNCHANGED <<vars, work>>
       ELSE CommandBegin("ecm") /\ work' = s
  /\ UNCHANGED <<phase, casid, last_emm, contracts>>

\* The rest of proc_ecm(): a failure clears the keys, a refusal gives up the
\* cipher and locks, the keys of a card go into the cipher there is or into a
\* new one with the system key of the card that is known.
WithAnswerStale(d) ==   \* mutant: the keys outlive a failure
  CASE result # "ok" -> d
    [] result = "ok" /\ work.pid \notin contracts[answered] ->
         [d EXCEPT !.m2 = {}, !.key = None, !.locked = TRUE]
    [] OTHER -> [d EXCEPT !.m2 = IF @ = {} THEN {stat} ELSE @,
                          !.key = <<answered, work.period>>]

WithAnswerKept(d) ==   \* mutant: a refused stream keeps its cipher
  CASE result # "ok" -> [d EXCEPT !.key = None]
    [] result = "ok" /\ work.pid \notin contracts[answered] ->
         [d EXCEPT !.key = None, !.locked = TRUE]
    [] OTHER -> [d EXCEPT !.m2 = IF @ = {} THEN {stat} ELSE @,
                          !.key = <<answered, work.period>>]

WithAnswer(d) ==
  CASE result # "ok" -> [d EXCEPT !.key = None]
    [] result = "ok" /\ work.pid \notin contracts[answered] ->
         [d EXCEPT !.m2 = {}, !.key = None, !.locked = TRUE]
    [] OTHER -> [d EXCEPT !.m2 = IF @ = {} THEN {stat} ELSE @,
                          !.key = <<answered, work.period>>]

EcmDone ==
  /\ work.kind = "ecm" /\ Idle
  /\ dec' = [dec EXCEPT ![work.pid] = WithAnswer(@)]
  /\ work' = NoWork
  /\ UNCHANGED <<vars, phase, casid, last_emm, contracts>>

\* proc_emm(): the elements in turn; the card gets those that are addressed
\* to one of the IDs of casid.
ArriveEmm(s) ==
  /\ Ready /\ s.kind = "emm"
  /\ last_emm' = s
  /\ work' = IF last_emm = s \/ s.elements = <<>> THEN NoWork ELSE s
  /\ UNCHANGED <<vars, phase, casid, dec, contracts>>

Element == Head(work.elements)
Rest == IF Len(work.elements) = 1 THEN NoWork ELSE [work EXCEPT !.elements = Tail(@)]

ForUs(e) == e.card = casid

ProcEmm ==
  /\ phase = "run" /\ work.kind = "emm" /\ Idle
  /\ IF ForUs(Element)
       THEN CommandBegin("emm") /\ phase' = "emm" /\ UNCHANGED work
       ELSE work' = Rest /\ UNCHANGED <<vars, phase>>
  /\ UNCHANGED <<casid, dec, last_emm, contracts>>

\* A card takes the contracts of an element that is addressed to it.
Take(c) ==
  contracts' = IF Element.card = c THEN [contracts EXCEPT ![c] = @ \cup Element.grants]
                                   ELSE contracts

\* unlock_all_decryptor()
UnlockNone(d) == d   \* mutant: nothing is unlocked
UnlockAll(d) == [k \in ECMs |-> [d[k] EXCEPT !.locked = FALSE]]

\* The card processed the element: all streams may ask again.  It failed: the
\* rest of the section is given up.
EmmDone ==
  /\ phase = "emm" /\ Idle
  /\ phase' = "run"
  /\ IF result = "ok"
       THEN dec' = UnlockAll(dec) /\ work' = Rest /\ Take(answered)
       ELSE work' = NoWork /\ UNCHANGED <<dec, contracts>>
  /\ UNCHANGED <<vars, casid, last_emm>>

\* The card takes an element whose answer does not arrive.
TakenUnanswered ==
  /\ op = "emm" /\ pc = "transmit" /\ Reachable
  /\ Take(slot[card])
  /\ contracts' # contracts
  /\ UNCHANGED <<vars, phase, casid, dec, last_emm, work>>

\* A new PAT or PMT releases decryptors with their parsers and ciphers
\* (DecryptorMap says which), and the next one for the stream begins anew.
NewTables ==
  /\ Ready
  /\ \E released \in SUBSET ECMs :
       dec' = [k \in ECMs |-> IF k \in released THEN NewDecryptor ELSE dec[k]]
  /\ UNCHANGED <<vars, phase, casid, last_emm, work, contracts>>

\* reset(): all decryptors and the EMM parser go; the card and its IDs stay.
Reset ==
  /\ Ready
  /\ dec' = [k \in ECMs |-> NewDecryptor] /\ last_emm' = NoWork
  /\ UNCHANGED <<vars, phase, casid, work, contracts>>

\* A contract runs out.
Expire ==
  /\ Ready
  /\ \E c \in Cards, k \in ECMs :
       k \in contracts[c] /\ contracts' = [contracts EXCEPT ![c] = @ \ {k}]
  /\ UNCHANGED <<vars, phase, casid, dec, last_emm, work>>

----------------------------------------------------------------------------
OurStep == Begin \/ SetBCasCard \/ GotId \/ EcmDone \/ ProcEmm \/ EmmDone
CardStep == CallStep /\ UNCHANGED avars
SomebodySwaps ==
  /\ \E i \in Readers, c \in Cards \cup {Foreign, None} : Swap(i, c)
  /\ UNCHANGED avars

ANext ==
  \/ OurStep
  \/ \E s \in Sent : ProcEcm(s) \/ ArriveEmm(s)
  \/ NewTables \/ Reset
  \/ CardStep \/ TakenUnanswered \/ Expire
  \/ SomebodySwaps

Gone == card = 0 \/ slot[card] # casid \/ casid = None

Asks(cmd, pid) == ~Gone /\ op = "none" /\ op' = cmd /\ work'.pid = pid
Answers(cmd, pid) == op = cmd /\ work.pid = pid /\ op' = "none" /\ result' = "ok"

\* A card that is there answers at last what it is asked again and again.
CardAnswers(cmd, pid) ==
  []<><<Asks(cmd, pid)>>_<<vars, avars>> => []<><<Answers(cmd, pid)>>_<<vars, avars>>

NewEcm(k) == \E s \in Sent : s.pid = k /\ s.period # dec[k].seen /\ ProcEcm(s)
NewEmm == \E s \in Sent : s # last_emm /\ ArriveEmm(s)

\* A call that has begun goes on, and of what is new some is not lost: the tables
\* list the stream at last, and EMMs are routed (DecryptorMap has when they are not).
ASpec ==
  /\ AInit /\ [][ANext]_<<vars, avars>>
  /\ WF_<<vars, avars>>(OurStep) /\ WF_<<vars, avars>>(CardStep)
  /\ SF_<<vars, avars>>(NewEmm) /\ CardAnswers("emm", None)
  /\ \A k \in ECMs : SF_<<vars, avars>>(NewEcm(k)) /\ CardAnswers("ecm", k)

----------------------------------------------------------------------------
ATypeOK ==
  /\ TypeOK
  /\ phase \in {"init", "status", "id", "run", "emm", "stopped"}
  /\ casid \in Cards \cup {None} /\ (phase \in {"run", "emm"} => casid # None)
  /\ \A k \in ECMs :
       /\ dec[k].m2 \subseteq Cards \cup {None}
       /\ dec[k].key # None => dec[k].m2 # {}
       /\ dec[k].locked => dec[k].m2 = {}
  /\ contracts \in [Cards -> SUBSET ECMs]

\* Keys are those of the last ECM of the stream: when the card failed on an ECM or
\* refused it, or it was skipped because the decryptor is locked, the keys of an
\* earlier period are gone, whatever was retried, unlocked or released in between.
KeysOfLastEcm ==
  \A k \in ECMs :
    dec[k].key # None /\ ~(work.kind = "ecm" /\ work.pid = k) => dec[k].key[2] = dec[k].seen

\* A contract takes effect: a stream whose contract lasts, on a card that
\* stays, has keys again and again.
ContractTakesEffect ==
  \A k \in ECMs : <>[](~Gone /\ k \in contracts[casid]) => []<>(dec[k].key # None)
=============================================================================
