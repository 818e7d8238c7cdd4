---------------------------- MODULE Multi2Promise ----------------------------
(***************************************************************************)
(* What the interface of multi2.h promises: whatever the build, a payload  *)
(* is deciphered block by block in CBC mode, its rest in OFB mode.  The    *)
(* data keys are those set last.  The system key is that of the moment     *)
(* when the data key was first used: setting another one later has no      *)
(* effect on a data key in use, nor when the same data key is set again,   *)
(* until the data key changes.                                             *)
(***************************************************************************)
EXTENDS Integers, Sequences, Multi2Cipher

CONSTANTS SystemKeys, IVs, DataKeys, Rounds, Payloads, PlainPayloads, None

VARIABLES
  ref, round, system_key, iv, data_key, last,
  bound   \* the system keys the data keys in use were first used with, else None

pvars == <<ref, round, system_key, iv, data_key, last, bound>>

Quiet(op) == [op |-> op, type |-> 0, code |-> "ok", in |-> None, out |-> None]

PInit ==
  /\ ref = 1 /\ round \in Rounds /\ system_key = None /\ iv = None
  /\ data_key = <<None, None>> /\ last = Quiet("set") /\ bound = <<None, None>>

Block(payload, i) == <<payload.words[2 * i - 1], payload.words[2 * i]>>

\* CBC and OFB as they are defined, one block at a time.
Before(payload, i, v) == IF i = 1 THEN InitialState(v) ELSE Block(payload, i - 1)
PlainBlock(payload, i, v, key) ==
  XorBlock(CipherDecrypt(Block(payload, i), key), Before(payload, i, v))
Plain(payload, v, key) ==
  LET n == payload.size \div 8
  IN  [payload EXCEPT
         !.words = [j \in DOMAIN @ |->
                      PlainBlock(payload, (j + 1) \div 2, v, key)[1 + ((j - 1) % 2)]],
         !.rest = IF payload.size % 8 = 0 THEN @
                  ELSE Xor(@, {<<"rest", CipherEncrypt(Before(payload, n + 1, v), key),
                                 payload.size % 8>>})]

Half(type) == IF type = 2 THEN 2 ELSE 1
System(type) == IF bound[Half(type)] = None THEN system_key ELSE bound[Half(type)]
Key(type) == <<data_key[Half(type)], System(type), round>>
Code(type) ==
  CASE iv = None -> "unset_cbc_init"
    [] iv # None /\ system_key = None -> "unset_system_key"
    [] iv # None /\ system_key # None /\ data_key[Half(type)] = None -> "unset_scramble_key"
    [] OTHER -> "ok"
Bind(type) ==
  bound' = IF Code(type) = "ok" THEN [bound EXCEPT ![Half(type)] = System(type)] ELSE bound

\* The settings: round, system key and initial state as they are given, both
\* data keys at once, no data key after a call of clear_scramble_key.
PSet ==
  /\ last' = Quiet("set")
  /\ \E s \in SystemKeys \cup {system_key}, v \in IVs \cup {iv}, r \in Rounds :
       system_key' = s /\ iv' = v /\ round' = r
  /\ ref' \in ref - 1 .. ref + 1
  /\ UNCHANGED <<data_key, bound>>

PSetKeys(k) ==
  /\ last' = [Quiet("keys") EXCEPT !.in = k] /\ data_key' = k
  /\ bound' = [i \in 1 .. 2 |-> IF k[i] = data_key[i] THEN bound[i] ELSE None]
  /\ UNCHANGED <<ref, round, system_key, iv>>

PClear ==
  /\ last' = Quiet("clear") /\ data_key' = <<None, None>>
  /\ bound' = <<None, None>>
  /\ UNCHANGED <<ref, round, system_key, iv>>

PEncrypt(type) ==
  /\ last'.op = "encrypt" /\ last'.type = type /\ last'.code = Code(type)
  /\ last'.in \in PlainPayloads /\ Bind(type)
  /\ UNCHANGED <<ref, round, system_key, iv, data_key>>

\* What is deciphered is anything, or what was just encrypted.
PDecrypt(type) ==
  /\ last'.op = "decrypt" /\ last'.type = type /\ last'.code = Code(type)
  /\ last'.in \in Payloads \cup {last.out} /\ Bind(type)
  /\ last'.out = IF Code(type) = "ok" THEN Plain(last'.in, iv, Key(type)) ELSE last'.in
  /\ UNCHANGED <<ref, round, system_key, iv, data_key>>

PNext ==
  \/ PSet \/ PClear
  \/ \E k \in DataKeys \X DataKeys : PSetKeys(k)
  \/ \E type \in 0 .. 3 : PEncrypt(type) \/ PDecrypt(type)

PSpec == PInit /\ [][PNext]_pvars
=============================================================================
