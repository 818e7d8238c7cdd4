------------------------------- MODULE BCasCard -------------------------------
(***************************************************************************)
(* The B-CAS card of b_cas_card.c: init() looks for a card in the list of  *)
(* readers, proc_ecm() and proc_emm() send it a command and reconnect when *)
(* there is no answer.  Every call of the smart card service is a step,    *)
(* and between two of them cards are taken out and put in.                 *)
(*                                                                         *)
(* The service and the cards are external: a B-CAS card that is connected  *)
(* and was not moved since may answer any command, whatever it was sent    *)
(* before; any answer may be lost, short or have another return code,      *)
(* although the card took the command.                                     *)
(***************************************************************************)
EXTENDS Integers

CONSTANTS
  NReaders,    \* the readers are numbered in the order of their list
  Cards,       \* B-CAS cards
  Foreign,     \* a card of another kind
  None,        \* an empty slot, no card
  EcmRetries,  \* 10 in the code
  EmmRetries,  \* 2 in the code
  MaxSwaps     \* how often a card is put in or taken out in all

ASSUME CardAssumption ==
  /\ NReaders \in Nat /\ MaxSwaps \in Nat
  /\ EcmRetries \in Nat /\ EmmRetries \in Nat
  /\ None \notin Cards /\ Foreign \notin Cards

VARIABLES
  slot,      \* what is in every reader
  card,      \* the reader prv->card is connected to, 0 if it is not
  valid,     \* what was connected is still there
  known,     \* connect_card() returned 1 for this connection: it filled prv->stat
  reader,    \* prv->reader: NReaders + 1 behind the end of the list, or NULL
  stat,      \* the card prv->stat came from
  op,        \* the running call
  pc,        \* where it is
  tries,     \* retry_count
  result,    \* what the last call returned
  answered,  \* the card that answered it
  swaps      \* swaps so far

vars == <<slot, card, valid, known, reader, stat, op, pc, tries, result, answered, swaps>>

Readers == 1 .. NReaders
Idle == op = "none"

----------------------------------------------------------------------------
Init ==
  /\ slot \in [Readers -> Cards \cup {Foreign, None}]
  /\ card = 0 /\ valid = FALSE /\ known = FALSE
  /\ reader = NReaders + 1
  /\ stat = None
  /\ op = "none" /\ pc = "done" /\ tries = 0
  /\ result = "not_initialized" /\ answered = None
  /\ swaps = 0

Return(code) == op' = "none" /\ pc' = "done" /\ result' = code

\* init(): teardown(), then the readers in turn; no service, no readers.
InitBegin ==
  /\ Idle
  /\ card' = 0 /\ valid' = FALSE /\ known' = FALSE
  /\ answered' = None
  /\ \/ NReaders > 0 /\ op' = "init" /\ pc' = "connect" /\ reader' = 1 /\ UNCHANGED result
     \/ Return("no_reader") /\ reader' = NReaders + 1
  /\ UNCHANGED <<slot, stat, tries, swaps>>

\* The functions that need a card: get_id() sends its command once, the other
\* two send theirs again after a new connection.
Retries == [id |-> 0, ecm |-> EcmRetries, emm |-> EmmRetries]

CommandBegin(cmd) ==
  /\ Idle
  /\ IF card = 0
       THEN Return("not_initialized") /\ UNCHANGED tries
       ELSE op' = cmd /\ pc' = "transmit" /\ tries' = 0 /\ UNCHANGED result
  /\ answered' = None
  /\ UNCHANGED <<slot, card, valid, known, reader, stat, swaps>>

\* A connection or a command failed: the loops of proc_ecm() and proc_emm().
FailedUncounted ==   \* mutant: the counter stands still
  IF op = "init"
    THEN pc' = "next_reader" /\ UNCHANGED <<op, tries, result>>
  ELSE IF Retries[op] > 0
    THEN pc' = "connect" /\ UNCHANGED <<op, tries, result>>
  ELSE Return("transmit_failed") /\ UNCHANGED tries

Failed ==
  IF op = "init"
    THEN pc' = "next_reader" /\ UNCHANGED <<op, tries, result>>
  ELSE IF tries < Retries[op]
    THEN pc' = "connect" /\ tries' = tries + 1 /\ UNCHANGED <<op, result>>
  ELSE Return("transmit_failed") /\ UNCHANGED tries

\* connect_card(): the old connection is given up and a new one made.  A card
\* that stays silent after that leaves prv->card set.
Connect ==
  /\ pc = "connect"
  /\ \/ /\ reader \in Readers /\ slot[reader] # None
        /\ card' = reader /\ valid' = TRUE
        /\ pc' = "setting"
        /\ UNCHANGED <<op, tries, result>>
     \/ /\ card' = 0 /\ valid' = FALSE
        /\ Failed
  /\ known' = FALSE
  /\ UNCHANGED <<slot, reader, stat, answered, swaps>>

Reachable == valid /\ slot[card] \in Cards

\* The initial setting command.  When its answer does not come or is not the one
\* that is expected, the handle stays, and the card may be ready all the same.

\* Mutant: what is known of the card dates from init().
InitialSettingOnce ==
  /\ pc = "setting"
  /\ \/ /\ Reachable
        /\ stat' = (IF op = "init" THEN slot[card] ELSE stat) /\ known' = TRUE
        /\ IF op = "init" THEN Return("ok") ELSE pc' = "transmit" /\ UNCHANGED <<op, result>>
        /\ UNCHANGED tries
     \/ Failed /\ UNCHANGED <<stat, known>>
  /\ UNCHANGED <<slot, card, valid, reader, answered, swaps>>

InitialSetting ==
  /\ pc = "setting"
  /\ \/ /\ Reachable
        /\ stat' = slot[card] /\ known' = TRUE
        /\ IF op = "init" THEN Return("ok") ELSE pc' = "transmit" /\ UNCHANGED <<op, result>>
        /\ UNCHANGED tries
     \/ Failed /\ UNCHANGED <<stat, known>>
  /\ UNCHANGED <<slot, card, valid, reader, answered, swaps>>

\* Mutant: the loop runs over the end of the list.
NextReaderLate ==
  /\ pc = "next_reader"
  /\ reader' = reader + 1
  /\ IF reader \in Readers THEN pc' = "connect" /\ UNCHANGED <<op, result>>
     ELSE IF card = 0 THEN Return("all_failed")
     ELSE Return("ok")
  /\ UNCHANGED <<slot, card, valid, known, stat, tries, answered, swaps>>

\* The end of the list is reached, or the next reader is tried.
NextReader ==
  /\ pc = "next_reader"
  /\ reader' = reader + 1
  /\ IF reader' \in Readers THEN pc' = "connect" /\ UNCHANGED <<op, result>>
     ELSE IF card = 0 THEN Return("all_failed")
     ELSE Return("ok")
  /\ UNCHANGED <<slot, card, valid, known, stat, tries, answered, swaps>>

\* A command over the handle there is, whatever became of the initial setting.
Transmit ==
  /\ pc = "transmit"
  /\ \/ /\ Reachable
        /\ answered' = slot[card]
        /\ Return("ok")
        /\ UNCHANGED tries
     \/ Failed /\ UNCHANGED answered
  /\ UNCHANGED <<slot, card, valid, known, reader, stat, swaps>>

\* get_init_status() hands out the system key of prv->stat.
GetInitStatus ==
  /\ Idle
  /\ result' = IF card = 0 THEN "not_initialized" ELSE "ok"
  /\ answered' = IF card = 0 THEN None ELSE stat
  /\ UNCHANGED <<slot, card, valid, known, reader, stat, op, pc, tries, swaps>>

\* Somebody changes the card in a reader.
Swap(i, c) ==
  /\ swaps < MaxSwaps
  /\ slot[i] # c
  /\ slot' = [slot EXCEPT ![i] = c]
  /\ swaps' = swaps + 1
  /\ valid' = (valid /\ card # i)
  /\ UNCHANGED <<card, known, reader, stat, op, pc, tries, result, answered>>

CallStep == Connect \/ InitialSetting \/ NextReader \/ Transmit

Next ==
  \/ InitBegin
  \/ \E cmd \in {"id", "ecm", "emm"} : CommandBegin(cmd)
  \/ CallStep
  \/ GetInitStatus
  \/ \E i \in Readers, c \in Cards \cup {Foreign, None} : Swap(i, c)

\* A call that has begun goes on.
Spec == Init /\ [][Next]_vars /\ WF_vars(CallStep)

----------------------------------------------------------------------------
MostRetries == IF EcmRetries > EmmRetries THEN EcmRetries ELSE EmmRetries

TypeOK ==
  /\ slot \in [Readers -> Cards \cup {Foreign, None}]
  /\ card \in 0 .. NReaders
  /\ valid \in BOOLEAN /\ known \in BOOLEAN
  /\ valid => card # 0
  /\ reader \in 1 .. NReaders + 1
  /\ stat \in Cards \cup {None}
  /\ op \in {"none", "init", "id", "ecm", "emm"}
  /\ pc \in {"done", "connect", "setting", "next_reader", "transmit"}
  /\ (op = "none") <=> (pc = "done")
  /\ tries \in 0 .. MostRetries
  /\ result \in {"ok", "no_reader", "all_failed", "not_initialized", "transmit_failed"}
  /\ answered \in Cards \cup {None}
  /\ swaps \in 0 .. MaxSwaps

\* Whatever was taken out and put in during the retries: after a reconnection only
\* the card answers whose status this reconnection read, and another one than that of
\* prv->stat only the first command of a call, over a handle that a connect_card()
\* which failed has left.
AnswerFromKnownCard ==
  answered # None => answered = stat \/ (tries = 0 /\ ~known)

\* Every call comes to an end, with no card in any reader, too.
CallsReturn == op # "none" ~> op = "none"

\* README, at start 1.b: init() receives the system key and the initial CBC
\* state from the card.
InitMeansReady ==
  [][op = "init" /\ op' = "none" /\ result' = "ok" => stat' # None /\ known']_vars
=============================================================================
