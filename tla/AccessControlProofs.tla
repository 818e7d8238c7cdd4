------------------------- MODULE AccessControlProofs -------------------------
(***************************************************************************)
(* Proofs about access control, for any cards, readers, streams and        *)
(* sections: keys are only there with a cipher, a locked stream has none,  *)
(* and keys are those of the last ECM of their stream, whatever the card   *)
(* and the tables do.  They build on those about the card module.          *)
(***************************************************************************)
EXTENDS AccessControl, BCasCardProofs

----------------------------------------------------------------------------
\* The types of what the composition adds.
Decryptor == [locked: BOOLEAN, m2: SUBSET (Cards \cup {None}),
              key: (Cards \X Nat) \cup {None}, seen: Nat \cup {None}]

AccessTypes ==
  /\ phase \in {"init", "status", "id", "run", "emm", "stopped"}
  /\ casid \in Cards \cup {None}
  /\ dec \in [ECMs -> Decryptor]
  /\ work \in Section
  /\ contracts \in [Cards -> SUBSET ECMs]

\* What the application does and what the card is asked fit together.
CallsInPhase ==
  /\ phase \in {"init", "stopped"} => op = "none"
  /\ phase = "status" => op \in {"none", "init"}
  /\ phase = "id" => op \in {"none", "id"}
  /\ phase = "run" => op \in {"none", "ecm"}
  /\ phase = "emm" => op \in {"none", "emm"} /\ work.kind = "emm"
  /\ op = "ecm" => work.kind = "ecm"
  /\ work.kind = "ecm" => phase = "run" /\ work.pid \in ECMs
  /\ work.kind = "emm" => phase \in {"run", "emm"} /\ work.elements # <<>>
  /\ phase \in {"run", "emm"} => casid # None

\* A call whose answer is awaited ends well only with an answer.
AnswerThere ==
  op = "none" /\ result = "ok" /\ (phase \in {"id", "emm"} \/ work.kind = "ecm")
    => answered # None

\* A locked stream has no cipher and is not being asked about; keys are in a
\* cipher; an ECM that is processed is the last one the parser delivered.
LocksHold ==
  /\ \A k \in ECMs : /\ dec[k].key # None => dec[k].m2 # {}
                     /\ dec[k].locked => dec[k].m2 = {}
  /\ work.kind = "ecm" => ~dec[work.pid].locked /\ dec[work.pid].seen = work.period

\* The inductive invariant, on top of that of the card module.
AInv ==
  /\ IInv
  /\ AccessTypes
  /\ CallsInPhase
  /\ AnswerThere
  /\ LocksHold
  /\ KeysOfLastEcm

----------------------------------------------------------------------------
\* What the card module tells the composition.

\* A call that ends well, init() aside, has brought an answer; no call turns into
\* another one.
LEMMA CallStepEnds ==
  ASSUME IInv, CallStep
  PROVE  /\ op # "none" /\ op' \in {op, "none"}
         /\ op # "init" /\ op' = "none" /\ result' = "ok" => answered' # None
<1>1. op \in {"init", "id", "ecm", "emm"}
  BY DEF IInv, TypeOK, CallStep, Connect, InitialSetting, NextReader, Transmit
<1>2. CASE Failed
  BY <1>1, <1>2, FailedStep
<1>3. CASE Connect /\ ~Failed
  BY <1>1, <1>3 DEF Connect
<1>4. CASE InitialSetting /\ ~Failed
  BY <1>1, <1>4 DEF InitialSetting, Return
<1>5. CASE NextReader
  BY <1>1, <1>5 DEF NextReader, Return, IInv, ReadersInTurn
<1>6. CASE Transmit /\ ~Failed
  <2>1. Reachable /\ answered' = slot[card] /\ op' = "none"
    BY <1>6 DEF Transmit, Return
  <2>2. QED
    BY <1>1, <2>1, CardAssumption DEF Reachable
<1>7. QED
  BY <1>2, <1>3, <1>4, <1>5, <1>6 DEF CallStep

\* A command runs, or ends at once because there is no connection.
LEMMA CommandBegins ==
  ASSUME NEW cmd, CommandBegin(cmd)
  PROVE  op = "none" /\ (op' = cmd \/ (op' = op /\ result' = "not_initialized"))
  BY DEF CommandBegin, Idle, Return

LEMMA StutterKeeps == IInv /\ UNCHANGED vars => IInv'
  BY NextIInv

----------------------------------------------------------------------------
\* Sections, elements and contracts.

LEMMA NoWorkType == NoWork \in Section
  BY DEF NoWork, Section

LEMMA RestType ==
  ASSUME work \in Section, work.kind = "emm", work.elements # <<>>
  PROVE  /\ Element \in Elements
         /\ Rest \in Section
         /\ Rest.kind \in {"none", "emm"}
         /\ Rest.kind = "emm" => Rest.elements # <<>>
<1>1. work.elements \in Seq(Elements) /\ Len(work.elements) \in Nat \ {0}
  BY DEF Section
<1>2. Element \in Elements
  BY <1>1 DEF Element
<1>3. CASE Len(work.elements) = 1
  BY <1>2, <1>3, NoWorkType DEF Rest, NoWork
<1>4. CASE Len(work.elements) # 1
  <2>1. Tail(work.elements) \in Seq(Elements) /\ Tail(work.elements) # <<>>
    <3>1. PICK q \in Seq(Elements) : q = work.elements
      BY <1>1
    <3>2. Len(q) \in Nat \ {0, 1}
      BY <1>1, <1>4, <3>1
    <3>3. q # <<>> /\ Len(Tail(q)) = Len(q) - 1 /\ Tail(q) \in Seq(Elements)
      BY <3>2
    <3>4. Tail(q) # <<>>
      <4>1. Len(q) - 1 # 0 /\ Len(<<>>) = 0
        BY <3>2
      <4>2. QED
        BY <3>3, <4>1, Zenon
    <3>5. QED
      BY <3>1, <3>3, <3>4
  <2>2. Rest = [work EXCEPT !.elements = Tail(work.elements)]
    BY <1>4 DEF Rest
  <2>3. QED
    BY <1>2, <2>1, <2>2 DEF Section
<1>5. QED
  BY <1>3, <1>4

LEMMA TakeType ==
  ASSUME contracts \in [Cards -> SUBSET ECMs], NEW c, Element \in Elements, Take(c)
  PROVE  contracts' \in [Cards -> SUBSET ECMs]
  BY SectionAssumption DEF Take

----------------------------------------------------------------------------
\* The inductive invariant, one step per action.

LEMMA InitAInv == AInit => AInv
<1> SUFFICES ASSUME AInit PROVE AInv
  OBVIOUS
<1>1. IInv
  BY InitIInv DEF AInit
<1>2. AccessTypes
  BY SectionAssumption, NoWorkType DEF AInit, AccessTypes, NewDecryptor, Decryptor
<1>3. CallsInPhase /\ AnswerThere /\ LocksHold /\ KeysOfLastEcm
  BY DEF AInit, Init, NoWork, NewDecryptor, CallsInPhase, AnswerThere, LocksHold,
         KeysOfLastEcm
<1>4. QED
  BY <1>1, <1>2, <1>3 DEF AInv

LEMMA BeginKeeps == ASSUME AInv, Begin PROVE AInv'
<1>1. IInv'
  BY InitBeginKeeps DEF AInv, Begin
<1>2. op' \in {"none", "init"} /\ answered' = None
  BY DEF Begin, InitBegin, Return, Idle
<1>3. QED
  BY <1>1, <1>2
  DEF Begin, AInv, AccessTypes, CallsInPhase, AnswerThere, LocksHold, KeysOfLastEcm

LEMMA SetBCasCardKeeps == ASSUME AInv, SetBCasCard PROVE AInv'
<1>1. CASE CommandBegin("id") /\ phase' = "id"
  <2>1. IInv'
    BY <1>1, CommandBeginKeeps DEF AInv
  <2>2. QED
    BY <1>1, <2>1, CommandBegins
    DEF SetBCasCard, AInv, AccessTypes, CallsInPhase, AnswerThere, LocksHold, KeysOfLastEcm
<1>2. CASE phase' = "stopped" /\ UNCHANGED vars
  <2>1. IInv'
    BY <1>2, StutterKeeps DEF AInv
  <2>2. QED
    BY <1>2, <2>1
    DEF SetBCasCard, Idle, vars, AInv, AccessTypes, CallsInPhase, AnswerThere, LocksHold,
        KeysOfLastEcm
<1>3. QED
  BY <1>1, <1>2 DEF SetBCasCard

LEMMA GotIdKeeps == ASSUME AInv, GotId PROVE AInv'
<1>1. IInv'
  BY StutterKeeps DEF AInv, GotId
<1>2. answered \in Cards \cup {None}
  BY DEF AInv, IInv, TypeOK
<1>3. QED
  BY <1>1, <1>2
  DEF GotId, Idle, vars, AInv, AccessTypes, CallsInPhase, AnswerThere, LocksHold,
      KeysOfLastEcm

LEMMA ProcEcmKeeps ==
  ASSUME AInv, NEW s \in Sent, ProcEcm(s)
  PROVE  AInv'
<1>1. /\ s \in Section /\ s.kind = "ecm" /\ s.pid \in ECMs /\ s.period \in Nat
      /\ phase = "run" /\ op = "none" /\ work = NoWork
  BY SectionAssumption DEF ProcEcm, Ready, Idle, Section
<1>2. /\ dec' \in [ECMs -> Decryptor] /\ dec'[s.pid].seen = s.period
      /\ \A k \in ECMs : /\ dec'[k].key = dec[k].key /\ dec'[k].m2 = dec[k].m2
                         /\ dec'[k].locked = dec[k].locked
                         /\ k # s.pid => dec'[k].seen = dec[k].seen
  <2>1. dec \in [ECMs -> Decryptor] /\ dec' = [dec EXCEPT ![s.pid].seen = s.period]
    BY DEF ProcEcm, AInv, AccessTypes
  <2>2. dec[s.pid] \in Decryptor /\ [dec[s.pid] EXCEPT !.seen = s.period] \in Decryptor
    BY <1>1, <2>1 DEF Decryptor
  <2>3. QED
    BY <1>1, <2>1, <2>2 DEF Decryptor
<1>3. CASE UNCHANGED <<vars, work>>
  <2>1. IInv'
    BY <1>3, StutterKeeps DEF AInv
  <2>2. QED
    BY <1>1, <1>2, <1>3, <2>1
    DEF ProcEcm, vars, AInv, AccessTypes, CallsInPhase, AnswerThere, LocksHold,
        KeysOfLastEcm
<1>4. CASE ~dec[s.pid].locked /\ CommandBegin("ecm") /\ work' = s
  <2>1. IInv'
    BY <1>4, CommandBeginKeeps DEF AInv
  <2>2. op' = "ecm" \/ (op' = op /\ result' = "not_initialized")
    BY <1>4, CommandBegins
  <2>3. LocksHold' /\ KeysOfLastEcm'
    BY <1>1, <1>2, <1>4 DEF AInv, NoWork, LocksHold, KeysOfLastEcm
  <2>4. QED
    BY <1>1, <1>2, <1>4, <2>1, <2>2, <2>3
    DEF ProcEcm, AInv, AccessTypes, CallsInPhase, AnswerThere
<1>5. QED
  BY <1>3, <1>4 DEF ProcEcm

\* The answer to an ECM: no key without a cipher, no cipher in a locked stream, and
\* no key but that of the ECM.
LEMMA WithAnswerType ==
  ASSUME NEW d \in Decryptor, work.period \in Nat, stat \in Cards \cup {None},
         answered \in Cards \cup {None},
         ~d.locked, d.key # None => d.m2 # {},
         result = "ok" => answered # None
  PROVE  LET x == WithAnswer(d)
         IN  /\ x \in Decryptor /\ x.seen = d.seen
             /\ x.key # None => x.m2 # {}
             /\ x.key # None => x.key[2] = work.period
             /\ x.locked => x.m2 = {}
<1>1. CASE result # "ok"
  BY <1>1 DEF WithAnswer, Decryptor
<1>2. CASE result = "ok" /\ work.pid \notin contracts[answered]
  <2>1. WithAnswer(d) = [d EXCEPT !.m2 = {}, !.key = None, !.locked = TRUE]
    BY <1>2 DEF WithAnswer
  <2>2. QED
    BY <1>2, <2>1 DEF Decryptor
<1>3. CASE result = "ok" /\ work.pid \in contracts[answered]
  <2>1. WithAnswer(d) = [d EXCEPT !.m2 = IF d.m2 = {} THEN {stat} ELSE d.m2,
                                  !.key = <<answered, work.period>>]
    BY <1>3 DEF WithAnswer
  <2>2. /\ <<answered, work.period>> \in Cards \X Nat
        /\ <<answered, work.period>>[2] = work.period
    BY <1>3
  <2>3. PICK m \in SUBSET (Cards \cup {None}) :
          m = (IF d.m2 = {} THEN {stat} ELSE d.m2) /\ m # {}
    <3>1. d.m2 \in SUBSET (Cards \cup {None}) /\ {stat} \in SUBSET (Cards \cup {None})
      BY DEF Decryptor
    <3>2. {stat} # {}
      OBVIOUS
    <3>3. QED
      BY <3>1, <3>2
  <2>4. PICK c \in Cards \X Nat : c = <<answered, work.period>>
    BY <2>2
  <2>5. WithAnswer(d) = [d EXCEPT !.m2 = m, !.key = c]
    BY <2>1, <2>3, <2>4
  <2>6. QED
    BY <1>3, <2>2, <2>4, <2>5, <2>3 DEF Decryptor
<1>4. QED
  BY <1>1, <1>2, <1>3

LEMMA EcmDoneKeeps == ASSUME AInv, EcmDone PROVE AInv'
<1>1. IInv'
  BY StutterKeeps DEF AInv, EcmDone
<1>2. /\ work.kind = "ecm" /\ phase = "run" /\ work.pid \in ECMs /\ work.period \in Nat
      /\ dec \in [ECMs -> Decryptor] /\ ~dec[work.pid].locked
      /\ dec[work.pid].seen = work.period
      /\ work' = NoWork /\ op = "none"
      /\ dec' = [dec EXCEPT ![work.pid] = WithAnswer(dec[work.pid])]
      /\ UNCHANGED <<vars, phase, casid, last_emm, contracts>>
  BY DEF EcmDone, Idle, AInv, AccessTypes, CallsInPhase, LocksHold, Section
<1>3. /\ stat \in Cards \cup {None} /\ answered \in Cards \cup {None}
      /\ result = "ok" => answered # None
  BY <1>2 DEF AInv, IInv, TypeOK, AnswerThere
<1>4. LET x == WithAnswer(dec[work.pid])
      IN  /\ x \in Decryptor /\ x.seen = work.period
          /\ x.key # None => x.m2 # {}
          /\ x.key # None => x.key[2] = work.period
          /\ x.locked => x.m2 = {}
  BY <1>2, <1>3, WithAnswerType DEF AInv, LocksHold
<1>5. /\ dec' \in [ECMs -> Decryptor]
      /\ dec'[work.pid] = WithAnswer(dec[work.pid])
      /\ \A k \in ECMs : k # work.pid => dec'[k] = dec[k]
  BY <1>2, <1>4
<1>6. work'.kind = "none"
  BY <1>2 DEF NoWork
<1>7. LocksHold' /\ KeysOfLastEcm'
  <2>1. ASSUME NEW k \in ECMs
        PROVE  /\ dec'[k].key # None => dec'[k].m2 # {}
               /\ dec'[k].key # None => dec'[k].key[2] = dec'[k].seen
               /\ dec'[k].locked => dec'[k].m2 = {}
    BY <1>2, <1>4, <1>5 DEF AInv, LocksHold, KeysOfLastEcm
  <2>2. QED
    BY <1>6, <2>1 DEF LocksHold, KeysOfLastEcm
<1>8. AccessTypes'
  <2>1. UNCHANGED <<phase, casid, contracts>> /\ work' \in Section
    BY <1>2, NoWorkType
  <2>2. QED
    BY <1>5, <2>1 DEF AccessTypes, AInv
<1>9. QED
  BY <1>1, <1>2, <1>6, <1>7, <1>8 DEF AInv, vars, CallsInPhase, AnswerThere, NoWork

LEMMA ArriveEmmKeeps ==
  ASSUME AInv, NEW s \in Sent, ArriveEmm(s)
  PROVE  AInv'
<1>1. IInv'
  BY StutterKeeps DEF AInv, ArriveEmm
<1>2. /\ s \in Section /\ s.kind = "emm" /\ phase = "run" /\ op = "none" /\ work = NoWork
      /\ work' \in {NoWork, s} /\ (work' = s => s.elements # <<>>)
  BY SectionAssumption DEF ArriveEmm, Ready, Idle, NoWork
<1>3. QED
  BY <1>1, <1>2, NoWorkType
  DEF ArriveEmm, NoWork, vars, AInv, AccessTypes, CallsInPhase, AnswerThere, LocksHold,
      KeysOfLastEcm

LEMMA ProcEmmKeeps == ASSUME AInv, ProcEmm PROVE AInv'
<1>1. phase = "run" /\ work.kind = "emm" /\ op = "none" /\ work \in Section
      /\ work.elements # <<>>
  BY DEF ProcEmm, Idle, AInv, AccessTypes, CallsInPhase
<1>2. CASE CommandBegin("emm") /\ phase' = "emm" /\ UNCHANGED work
  <2>1. IInv'
    BY <1>2, CommandBeginKeeps DEF AInv
  <2>2. op' = "emm" \/ (op' = op /\ result' = "not_initialized")
    BY <1>2, CommandBegins
  <2>3. QED
    BY <1>1, <1>2, <2>1, <2>2
    DEF ProcEmm, AInv, AccessTypes, CallsInPhase, AnswerThere, LocksHold, KeysOfLastEcm
<1>3. CASE work' = Rest /\ UNCHANGED <<vars, phase>>
  <2>1. IInv'
    BY <1>3, StutterKeeps DEF AInv
  <2>2. work' \in Section /\ work'.kind \in {"none", "emm"}
        /\ (work'.kind = "emm" => work'.elements # <<>>)
    BY <1>1, <1>3, RestType
  <2>3. QED
    BY <1>1, <1>3, <2>1, <2>2
    DEF ProcEmm, vars, AInv, AccessTypes, CallsInPhase, AnswerThere, LocksHold,
        KeysOfLastEcm
<1>4. QED
  BY <1>2, <1>3 DEF ProcEmm

LEMMA EmmDoneKeeps == ASSUME AInv, EmmDone PROVE AInv'
<1>1. IInv'
  BY StutterKeeps DEF AInv, EmmDone
<1>2. /\ phase' = "run" /\ work.kind = "emm" /\ op = "none" /\ work \in Section
      /\ work.elements # <<>> /\ dec \in [ECMs -> Decryptor]
      /\ contracts \in [Cards -> SUBSET ECMs]
      /\ UNCHANGED <<vars, casid, last_emm>>
  BY DEF EmmDone, Idle, AInv, AccessTypes, CallsInPhase
<1>3. CASE result = "ok" /\ dec' = UnlockAll(dec) /\ work' = Rest
           /\ Take(answered)
  <2>1. /\ work' \in Section /\ work'.kind \in {"none", "emm"}
        /\ work'.kind = "emm" => work'.elements # <<>>
        /\ Element \in Elements
    BY <1>2, <1>3, RestType
  <2>2. contracts' \in [Cards -> SUBSET ECMs]
    BY <1>2, <1>3, <2>1, TakeType
  <2>3. /\ dec' \in [ECMs -> Decryptor]
        /\ \A k \in ECMs : /\ dec'[k].key = dec[k].key /\ dec'[k].m2 = dec[k].m2
                           /\ ~dec'[k].locked /\ dec'[k].seen = dec[k].seen
    BY <1>2, <1>3 DEF UnlockAll, Decryptor
  <2>4. QED
    BY <1>1, <1>2, <1>3, <2>1, <2>2, <2>3
    DEF EmmDone, vars, AInv, AccessTypes, CallsInPhase, AnswerThere, LocksHold,
        KeysOfLastEcm
<1>4. CASE work' = NoWork /\ UNCHANGED <<dec, contracts>>
  BY <1>1, <1>2, <1>4, NoWorkType
  DEF EmmDone, vars, NoWork, AInv, AccessTypes, CallsInPhase, AnswerThere, LocksHold,
      KeysOfLastEcm
<1>5. QED
  BY <1>3, <1>4 DEF EmmDone

LEMMA CardStepKeeps == ASSUME AInv, CardStep PROVE AInv'
<1>1. IInv'
  BY CallStepKeeps DEF AInv, CardStep
<1>2. /\ op # "none" /\ op' \in {op, "none"}
      /\ op # "init" /\ op' = "none" /\ result' = "ok" => answered' # None
      /\ UNCHANGED avars
  BY CallStepEnds DEF AInv, CardStep
<1>3. QED
  BY <1>1, <1>2
  DEF avars, AInv, AccessTypes, CallsInPhase, AnswerThere, LocksHold, KeysOfLastEcm

LEMMA SomebodySwapsKeeps == ASSUME AInv, SomebodySwaps PROVE AInv'
<1>1. PICK i \in Readers, c \in Cards \cup {Foreign, None} : Swap(i, c) /\ UNCHANGED avars
  BY DEF SomebodySwaps
<1>2. IInv'
  BY <1>1, SwapKeeps DEF AInv
<1>3. QED
  BY <1>1, <1>2
  DEF Swap, avars, AInv, AccessTypes, CallsInPhase, AnswerThere, LocksHold, KeysOfLastEcm

\* A decryptor that is released and made anew.
LEMMA ReleaseKeeps == ASSUME AInv, NewTables \/ Reset PROVE AInv'
<1>1. IInv'
  BY StutterKeeps DEF AInv, NewTables, Reset
<1>2. NewDecryptor \in Decryptor
  BY DEF NewDecryptor, Decryptor
<1>3. /\ phase = "run" /\ op = "none" /\ work = NoWork /\ dec \in [ECMs -> Decryptor]
      /\ UNCHANGED <<vars, phase, casid, work, contracts>>
  BY DEF NewTables, Reset, Ready, Idle, AInv, AccessTypes
<1>4. /\ dec' \in [ECMs -> Decryptor]
      /\ \A k \in ECMs : dec'[k] \in {dec[k], NewDecryptor}
  BY <1>2, <1>3 DEF NewTables, Reset
<1>5. \A k \in ECMs :
        /\ dec'[k].key # None => dec'[k].m2 # {}
        /\ dec'[k].key # None => dec'[k].key[2] = dec'[k].seen
        /\ dec'[k].locked => dec'[k].m2 = {}
  BY <1>3, <1>4 DEF NewDecryptor, NoWork, AInv, LocksHold, KeysOfLastEcm
<1>6. QED
  BY <1>1, <1>3, <1>4, <1>5
  DEF vars, NoWork, AInv, AccessTypes, CallsInPhase, AnswerThere, LocksHold, KeysOfLastEcm

\* What happens on the cards alone.
LEMMA CardsChangeKeeps == ASSUME AInv, TakenUnanswered \/ Expire PROVE AInv'
<1>1. IInv'
  BY StutterKeeps DEF AInv, TakenUnanswered, Expire
<1>2. contracts' \in [Cards -> SUBSET ECMs]
  <2>1. CASE TakenUnanswered
    <3>1. work \in Section /\ work.kind = "emm" /\ work.elements # <<>>
      BY <2>1 DEF TakenUnanswered, AInv, AccessTypes, CallsInPhase
    <3>2. QED
      BY <2>1, <3>1, RestType, TakeType DEF TakenUnanswered, AInv, AccessTypes
  <2>2. CASE Expire
    BY <2>2 DEF Expire, AInv, AccessTypes
  <2>3. QED
    BY <2>1, <2>2
<1>3. QED
  BY <1>1, <1>2
  DEF TakenUnanswered, Expire, vars, AInv, AccessTypes, CallsInPhase, AnswerThere,
      LocksHold, KeysOfLastEcm

LEMMA NextAInv == AInv /\ [ANext]_<<vars, avars>> => AInv'
<1> SUFFICES ASSUME AInv, [ANext]_<<vars, avars>> PROVE AInv'
  OBVIOUS
<1>1. CASE OurStep
  BY <1>1, BeginKeeps, SetBCasCardKeeps, GotIdKeeps, EcmDoneKeeps, ProcEmmKeeps,
     EmmDoneKeeps
  DEF OurStep
<1>2. CASE \E s \in Sent : ProcEcm(s) \/ ArriveEmm(s)
  BY <1>2, ProcEcmKeeps, ArriveEmmKeeps
<1>3. CASE CardStep \/ TakenUnanswered \/ Expire \/ SomebodySwaps
  BY <1>3, CardStepKeeps, CardsChangeKeeps, SomebodySwapsKeeps
<1>4. CASE NewTables \/ Reset
  BY <1>4, ReleaseKeeps
<1>5. CASE UNCHANGED <<vars, avars>>
  <2>1. IInv'
    BY <1>5, StutterKeeps DEF AInv
  <2>2. QED
    BY <1>5, <2>1
    DEF vars, avars, AInv, AccessTypes, CallsInPhase, AnswerThere, LocksHold, KeysOfLastEcm
<1>6. QED
  BY <1>1, <1>2, <1>3, <1>4, <1>5 DEF ANext

----------------------------------------------------------------------------
\* The inductive invariant of the composition holds in every reachable state.
THEOREM AccessInvariantHolds == ASpec => []AInv
<1>1. ASpec => AInit /\ [][ANext]_<<vars, avars>>
  BY PTL DEF ASpec
<1>2. QED
  BY <1>1, InitAInv, NextAInv, PTL

\* The library runs only with the IDs of a card that answered; keys are only in a
\* cipher; a locked stream has no cipher.
THEOREM AccessTypeCorrect == ASpec => []ATypeOK
<1>1. AInv => ATypeOK
  BY DEF AInv, IInv, AccessTypes, CallsInPhase, LocksHold, Decryptor, ATypeOK
<1>2. QED
  BY <1>1, AccessInvariantHolds, PTL

\* The keys of a stream are those of the last ECM its parser delivered: a failure, a
\* refusal and a lock leave none of an earlier one.
THEOREM KeysAreOfLastEcm == ASpec => []KeysOfLastEcm
<1>1. AInv => KeysOfLastEcm
  BY DEF AInv
<1>2. QED
  BY <1>1, AccessInvariantHolds, PTL
=============================================================================
