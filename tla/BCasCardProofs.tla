---------------------------- MODULE BCasCardProofs ----------------------------
(***************************************************************************)
(* Proofs about the card module, for any number of readers, cards,         *)
(* retries and exchanges of cards: its variables keep their types, and     *)
(* after a reconnection only the card answers whose status it has read.    *)
(***************************************************************************)
EXTENDS BCasCard, TLAPS

----------------------------------------------------------------------------
\* What a card that would answer at once is when connect_card() came to its end: the
\* one prv->stat came from; a card that is exchanged invalidates the connection.
ConnectedCardKnown == known => stat # None /\ (valid => slot[card] = stat)

\* A command is only sent again after a connect_card() that came to its end.
SentAgainWhenKnown == pc = "transmit" /\ tries # 0 => known

\* No answer is at hand while a call is running, so that prv->stat may change.
NoAnswerYet == op # "none" => answered = None

\* init() alone walks through the list, and it stays in it; what is sent after
\* it needs a connection, and only a failure of the last one leaves none.
ReadersInTurn ==
  /\ op = "init" => reader \in Readers /\ pc # "transmit"
  /\ pc = "next_reader" => op = "init"
  /\ pc = "transmit" => card # 0 /\ op \in {"id", "ecm", "emm"}
  /\ pc = "setting" => card # 0

\* The inductive invariant.
IInv ==
  /\ TypeOK
  /\ AnswerFromKnownCard
  /\ ConnectedCardKnown
  /\ SentAgainWhenKnown
  /\ NoAnswerYet
  /\ ReadersInTurn

----------------------------------------------------------------------------
LEMMA RetriesBounded ==
  /\ MostRetries \in Nat
  /\ \A cmd \in {"id", "ecm", "emm"} : Retries[cmd] \in 0 .. MostRetries
  BY CardAssumption DEF MostRetries, Retries

\* The ends of the ranges, and what is a reader.
LEMMA Ranges ==
  /\ 0 \in 0 .. NReaders /\ NReaders + 1 \in 1 .. NReaders + 1
  /\ 0 \in 0 .. MostRetries /\ 0 \in 0 .. MaxSwaps
  /\ NReaders > 0 => 1 \in Readers
  /\ \A i \in Readers : i \in 0 .. NReaders /\ i # 0 /\ i \in 1 .. NReaders + 1
                        /\ i + 1 \in 1 .. NReaders + 1
  /\ \A i \in 0 .. NReaders : i # 0 => i \in Readers
  BY CardAssumption, RetriesBounded DEF Readers

LEMMA InitIInv == Init => IInv
<1> SUFFICES ASSUME Init PROVE IInv
  OBVIOUS
<1>1. TypeOK
  BY Ranges DEF Init, TypeOK
<1>2. AnswerFromKnownCard /\ ConnectedCardKnown /\ SentAgainWhenKnown /\ NoAnswerYet
      /\ ReadersInTurn
  BY DEF Init, AnswerFromKnownCard, ConnectedCardKnown, SentAgainWhenKnown, NoAnswerYet,
         ReadersInTurn
<1>3. QED
  BY <1>1, <1>2 DEF IInv

\* What the calls leave alone, and how a call may go on after a failure.
LEMMA FailedStep ==
  ASSUME IInv, Failed, op # "none"
  PROVE  /\ op' \in {op, "none"} /\ pc' \in {"done", "connect", "next_reader"}
         /\ (op' = "none") <=> (pc' = "done")
         /\ pc' = "next_reader" => op' = "init"
         /\ tries' \in 0 .. MostRetries
         /\ result' \in {result, "transmit_failed"}
         /\ op' = "none" => result' = "transmit_failed"
<1>1. tries \in 0 .. MostRetries
      /\ op \in {"init", "id", "ecm", "emm"}
  BY DEF IInv, TypeOK
<1>2. CASE op = "init"
  BY <1>1, <1>2 DEF Failed
<1>3. CASE op # "init" /\ tries < Retries[op]
  <2>1. Retries[op] \in 0 .. MostRetries
    BY <1>1, <1>3, RetriesBounded
  <2>2. pc' = "connect" /\ tries' = tries + 1 /\ UNCHANGED <<op, result>>
    BY <1>3 DEF Failed
  <2>3. QED
    BY <1>1, <1>3, <2>1, <2>2, RetriesBounded
<1>4. CASE op # "init" /\ ~(tries < Retries[op])
  BY <1>1, <1>4 DEF Failed, Return
<1>5. QED
  BY <1>2, <1>3, <1>4

LEMMA InitBeginKeeps == ASSUME IInv, InitBegin PROVE IInv'
  BY Ranges
  DEF InitBegin, Idle, Return, IInv, TypeOK, AnswerFromKnownCard, ConnectedCardKnown,
      SentAgainWhenKnown, NoAnswerYet, ReadersInTurn

LEMMA CommandBeginKeeps ==
  ASSUME IInv, NEW cmd \in {"id", "ecm", "emm"}, CommandBegin(cmd)
  PROVE  IInv'
  BY Ranges
  DEF CommandBegin, Idle, Return, IInv, TypeOK, AnswerFromKnownCard, ConnectedCardKnown,
      SentAgainWhenKnown, NoAnswerYet, ReadersInTurn

LEMMA ConnectKeeps == ASSUME IInv, Connect PROVE IInv'
<1> USE DEF IInv
<1>1. /\ op # "none" /\ answered = None
      /\ known' = FALSE /\ UNCHANGED <<slot, reader, stat, answered, swaps>>
  BY DEF Connect, TypeOK, NoAnswerYet
<1>2. CASE reader \in Readers /\ card' = reader /\ valid' = TRUE /\ pc' = "setting"
           /\ UNCHANGED <<op, tries, result>>
  BY <1>1, <1>2, Ranges
  DEF TypeOK, AnswerFromKnownCard, ConnectedCardKnown, SentAgainWhenKnown, NoAnswerYet,
      ReadersInTurn
<1>3. CASE card' = 0 /\ valid' = FALSE /\ Failed
  <2>1. /\ op' \in {op, "none"} /\ pc' \in {"done", "connect", "next_reader"}
        /\ (op' = "none") <=> (pc' = "done")
        /\ pc' = "next_reader" => op' = "init"
        /\ tries' \in 0 .. MostRetries
        /\ result' \in {result, "transmit_failed"}
    BY <1>1, <1>3, FailedStep
  <2>2. TypeOK'
    BY <1>1, <1>3, <2>1, Ranges DEF TypeOK
  <2>3. QED
    BY <1>1, <1>3, <2>1, <2>2
    DEF AnswerFromKnownCard, ConnectedCardKnown, SentAgainWhenKnown, NoAnswerYet,
        ReadersInTurn
<1>4. QED
  BY <1>2, <1>3 DEF Connect

LEMMA InitialSettingKeeps == ASSUME IInv, InitialSetting PROVE IInv'
<1> USE DEF IInv
<1>1. /\ op # "none" /\ answered = None /\ card # 0
      /\ UNCHANGED <<slot, card, valid, reader, answered, swaps>>
  BY DEF InitialSetting, TypeOK, NoAnswerYet, ReadersInTurn
<1>2. CASE Reachable /\ stat' = slot[card] /\ known' = TRUE /\ UNCHANGED tries
           /\ IF op = "init" THEN Return("ok")
                             ELSE pc' = "transmit" /\ UNCHANGED <<op, result>>
  <2>1. stat' \in Cards /\ stat' # None /\ stat' = slot[card]
    BY <1>2, CardAssumption DEF Reachable
  <2>2. CASE op = "init" /\ Return("ok")
    BY <1>1, <1>2, <2>1, <2>2
    DEF Return, TypeOK, AnswerFromKnownCard, ConnectedCardKnown, SentAgainWhenKnown,
        NoAnswerYet, ReadersInTurn
  <2>3. CASE op # "init" /\ pc' = "transmit" /\ UNCHANGED <<op, result>>
    BY <1>1, <1>2, <2>1, <2>3
    DEF TypeOK, AnswerFromKnownCard, ConnectedCardKnown, SentAgainWhenKnown, NoAnswerYet,
        ReadersInTurn
  <2>4. QED
    BY <1>2, <2>2, <2>3
<1>3. CASE Failed /\ UNCHANGED <<stat, known>>
  <2>1. /\ op' \in {op, "none"} /\ pc' \in {"done", "connect", "next_reader"}
        /\ (op' = "none") <=> (pc' = "done")
        /\ pc' = "next_reader" => op' = "init"
        /\ tries' \in 0 .. MostRetries
        /\ result' \in {result, "transmit_failed"}
    BY <1>1, <1>3, FailedStep
  <2>2. TypeOK'
    BY <1>1, <1>3, <2>1 DEF TypeOK
  <2>3. QED
    BY <1>1, <1>3, <2>1, <2>2
    DEF AnswerFromKnownCard, ConnectedCardKnown, SentAgainWhenKnown, NoAnswerYet,
        ReadersInTurn
<1>4. QED
  BY <1>2, <1>3 DEF InitialSetting

LEMMA NextReaderKeeps == ASSUME IInv, NextReader PROVE IInv'
<1>1. reader \in Readers /\ reader' = reader + 1 /\ op = "init"
  BY DEF IInv, ReadersInTurn, NextReader
<1>2. reader' \in 1 .. NReaders + 1
  BY <1>1, Ranges
<1>3. QED
  BY <1>1, <1>2
  DEF NextReader, Return, IInv, TypeOK, AnswerFromKnownCard, ConnectedCardKnown,
      SentAgainWhenKnown, NoAnswerYet, ReadersInTurn

LEMMA TransmitKeeps == ASSUME IInv, Transmit PROVE IInv'
<1> USE DEF IInv
<1>1. /\ op # "none" /\ op # "init" /\ answered = None /\ pc = "transmit"
      /\ UNCHANGED <<slot, card, valid, known, reader, stat, swaps>>
  BY DEF Transmit, TypeOK, NoAnswerYet, ReadersInTurn
<1>2. CASE Reachable /\ answered' = slot[card] /\ Return("ok") /\ UNCHANGED tries
  BY <1>1, <1>2
  DEF Reachable, Return, TypeOK, AnswerFromKnownCard, ConnectedCardKnown,
      SentAgainWhenKnown, NoAnswerYet, ReadersInTurn
<1>3. CASE Failed /\ UNCHANGED answered
  <2>1. /\ op' \in {op, "none"} /\ pc' \in {"done", "connect", "next_reader"}
        /\ (op' = "none") <=> (pc' = "done")
        /\ pc' = "next_reader" => op' = "init"
        /\ tries' \in 0 .. MostRetries
        /\ result' \in {result, "transmit_failed"}
    BY <1>1, <1>3, FailedStep
  <2>2. TypeOK'
    BY <1>1, <1>3, <2>1 DEF TypeOK
  <2>3. QED
    BY <1>1, <1>3, <2>1, <2>2
    DEF AnswerFromKnownCard, ConnectedCardKnown, SentAgainWhenKnown, NoAnswerYet,
        ReadersInTurn
<1>4. QED
  BY <1>2, <1>3 DEF Transmit

LEMMA CallStepKeeps == ASSUME IInv, CallStep PROVE IInv'
  BY ConnectKeeps, InitialSettingKeeps, NextReaderKeeps, TransmitKeeps DEF CallStep

LEMMA GetInitStatusKeeps == ASSUME IInv, GetInitStatus PROVE IInv'
  BY DEF GetInitStatus, Idle, IInv, TypeOK, AnswerFromKnownCard, ConnectedCardKnown,
         SentAgainWhenKnown, NoAnswerYet, ReadersInTurn

\* A card is exchanged: the connection to it, if there is one, is not valid any
\* more, the others stay what they are.
LEMMA SwapKeeps ==
  ASSUME IInv, NEW i \in Readers, NEW c \in Cards \cup {Foreign, None}, Swap(i, c)
  PROVE  IInv'
<1>1. /\ slot' = [slot EXCEPT ![i] = c] /\ valid' = (valid /\ card # i)
      /\ swaps < MaxSwaps /\ swaps' = swaps + 1
      /\ UNCHANGED <<card, known, reader, stat, op, pc, tries, result, answered>>
  BY DEF Swap
<1>2. TypeOK'
  BY <1>1, CardAssumption DEF IInv, TypeOK
<1>3. ConnectedCardKnown'
  <2>1. card \in 0 .. NReaders /\ (valid => card # 0)
        /\ slot \in [Readers -> Cards \cup {Foreign, None}]
    BY DEF IInv, TypeOK
  <2>2. valid' => valid /\ card # i
    BY <1>1, Zenon
  <2>3. valid' => card \in Readers /\ slot'[card] = slot[card]
    BY <1>1, <2>1, <2>2, Ranges
  <2>4. QED
    BY <1>1, <2>2, <2>3 DEF IInv, ConnectedCardKnown
<1>4. QED
  BY <1>1, <1>2, <1>3
  DEF IInv, AnswerFromKnownCard, SentAgainWhenKnown, NoAnswerYet, ReadersInTurn

LEMMA NextIInv == IInv /\ [Next]_vars => IInv'
<1> SUFFICES ASSUME IInv, [Next]_vars PROVE IInv'
  OBVIOUS
<1>1. CASE InitBegin
  BY <1>1, InitBeginKeeps
<1>2. CASE \E cmd \in {"id", "ecm", "emm"} : CommandBegin(cmd)
  BY <1>2, CommandBeginKeeps
<1>3. CASE CallStep
  BY <1>3, CallStepKeeps
<1>4. CASE GetInitStatus
  BY <1>4, GetInitStatusKeeps
<1>5. CASE \E i \in Readers, c \in Cards \cup {Foreign, None} : Swap(i, c)
  BY <1>5, SwapKeeps
<1>6. CASE UNCHANGED vars
  BY <1>6
  DEF vars, IInv, TypeOK, AnswerFromKnownCard, ConnectedCardKnown, SentAgainWhenKnown,
      NoAnswerYet, ReadersInTurn
<1>7. QED
  BY <1>1, <1>2, <1>3, <1>4, <1>5, <1>6 DEF Next

----------------------------------------------------------------------------
\* The inductive invariant of the card module holds in every reachable state.
THEOREM InvariantHolds == Spec => []IInv
  BY InitIInv, NextIInv, PTL DEF Spec

\* The handle, the reader and the retry counter keep their ranges: the walk over
\* the list of readers never leaves it, the retries stay below their limit.
THEOREM TypeCorrect == Spec => []TypeOK
<1>1. IInv => TypeOK
  BY DEF IInv
<1>2. QED
  BY <1>1, InvariantHolds, PTL

\* After a reconnection only the card answers whose system key and initial CBC state
\* that reconnection read, although cards are exchanged while it retries; another one
\* answers only the first command over a handle that a failed connect_card() has left.
THEOREM AnswersFromKnownCard == Spec => []AnswerFromKnownCard
<1>1. IInv => AnswerFromKnownCard
  BY DEF IInv
<1>2. QED
  BY <1>1, InvariantHolds, PTL

\* A connection that connect_card() made to the end is to the card whose status it read,
\* as long as it is valid.
THEOREM ConnectionKnown == Spec => []ConnectedCardKnown
<1>1. IInv => ConnectedCardKnown
  BY DEF IInv
<1>2. QED
  BY <1>1, InvariantHolds, PTL
=============================================================================
