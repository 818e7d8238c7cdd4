-------------------------------- MODULE Multi2 --------------------------------
(***************************************************************************)
(* A MULTI2 instance of multi2.cc: system key, initial CBC state, the two  *)
(* data keys and the work keys derived from them at their first use, and   *)
(* its reference count.  Multi2Cipher has what decryption does to a        *)
(* payload.                                                                *)
(***************************************************************************)
EXTENDS Integers, Sequences, Multi2Cipher

CONSTANTS
  SystemKeys, IVs, DataKeys,
  Rounds,         \* what set_round is called with; 4 after create
  Payloads,       \* ciphertexts
  PlainPayloads,  \* plaintexts
  MaxRef,
  None

ASSUME Multi2Assumption ==
  /\ None \notin SystemKeys \cup IVs \cup DataKeys \cup (DataKeys \X SystemKeys)
  /\ 4 \in Rounds /\ MaxRef \in Nat \ {0}
  /\ \A p \in Payloads \cup PlainPayloads : IsPayload(p)

VARIABLES
  build,       \* the instruction set the library was compiled for
  payload,     \* what the caller has; no call depends on the payload before
  ref,         \* ref_count; 0 once the instance is deleted
  round, system_key, iv,
  data_key,    \* odd and even, None while unset
  work_key,    \* the work keys derived from them, None while not derived
  last         \* the last call of encrypt or decrypt

keys == <<round, system_key, iv, data_key, work_key>>
vars == <<build, payload, ref, keys, last>>

Quiet(op) == [op |-> op, type |-> 0, code |-> "ok", in |-> None, out |-> None]

Init ==
  /\ build \in Builds
  /\ payload \in Payloads \cup PlainPayloads
  /\ ref = 1 /\ round = 4
  /\ system_key = None /\ iv = None
  /\ data_key = <<None, None>> /\ work_key = <<None, None>>
  /\ last = Quiet("set")

\* The instance is there, and the call is none of encrypt and decrypt.
Called == ref > 0 /\ UNCHANGED <<build, payload>>
Setting == Called /\ last' = Quiet("set")

AddRef  == Setting /\ ref < MaxRef /\ ref' = ref + 1 /\ UNCHANGED keys
Release == Setting /\ ref' = ref - 1 /\ UNCHANGED keys

SetRound(r) ==
  Setting /\ round' = r /\ UNCHANGED <<ref, system_key, iv, data_key, work_key>>

\* The work keys stay what they are, also those that were derived with another
\* system key.
SetSystemKey(s) ==
  /\ Setting
  /\ system_key' = s
  /\ UNCHANGED <<ref, round, iv, data_key, work_key>>

SetInitCbc(v) ==
  Setting /\ iv' = v /\ UNCHANGED <<ref, round, system_key, data_key, work_key>>

\* Mutant: only the odd half is compared.
SetScrambleKeyOdd(k) ==
  /\ Called /\ last' = [Quiet("keys") EXCEPT !.in = k]
  /\ data_key' = k
  /\ work_key' = IF k[1] = data_key[1] THEN work_key ELSE <<None, None>>
  /\ UNCHANGED <<ref, round, system_key, iv>>

\* A work key is forgotten only with its data key.
SetScrambleKey(k) ==
  /\ Called /\ last' = [Quiet("keys") EXCEPT !.in = k]
  /\ data_key' = k
  /\ work_key' = [i \in 1 .. 2 |-> IF k[i] = data_key[i] THEN work_key[i] ELSE None]
  /\ UNCHANGED <<ref, round, system_key, iv>>

ClearScrambleKey ==
  /\ Called /\ last' = Quiet("clear")
  /\ data_key' = <<None, None>> /\ work_key' = <<None, None>>
  /\ UNCHANGED <<ref, round, system_key, iv>>

\* Type 2 is the even key, every other value the odd one.
Half(type) == IF type = 2 THEN 2 ELSE 1

Schedule(dk) == <<dk, system_key>>

Refusal(type) ==
  CASE iv = None -> "unset_cbc_init"
    [] iv # None /\ work_key[Half(type)] = None /\ system_key = None -> "unset_system_key"
    [] iv # None /\ work_key[Half(type)] = None /\ system_key # None
         /\ data_key[Half(type)] = None -> "unset_scramble_key"
    [] OTHER -> "ok"

WorkKey(type) ==
  IF work_key[Half(type)] = None THEN Schedule(data_key[Half(type)]) ELSE work_key[Half(type)]
CipherKey(type) == Append(WorkKey(type), round)

\* encrypt() and decrypt(): the work key is derived at its first use.
Crypt(op, type, p, result) ==
  /\ ref > 0
  /\ IF Refusal(type) = "ok"
       THEN /\ work_key' = [work_key EXCEPT ![Half(type)] = WorkKey(type)]
            /\ last' = [op |-> op, type |-> type, code |-> "ok", in |-> p, out |-> result]
       ELSE /\ last' = [op |-> op, type |-> type, code |-> Refusal(type), in |-> p, out |-> p]
            /\ UNCHANGED work_key
  /\ UNCHANGED <<build, payload, ref, round, system_key, iv, data_key>>

Encrypt(type, p) == Crypt("encrypt", type, p, EncryptCbcOfb(p, iv, CipherKey(type)))
Decrypt(type, p) == Crypt("decrypt", type, p, DecryptCbcOfb(build, p, iv, CipherKey(type)))

Next ==
  \/ AddRef \/ Release \/ ClearScrambleKey
  \/ \E r \in Rounds : SetRound(r)
  \/ \E s \in SystemKeys : SetSystemKey(s)
  \/ \E v \in IVs : SetInitCbc(v)
  \/ \E k \in DataKeys \X DataKeys : SetScrambleKey(k)
  \/ \E type \in 2 .. 3 : payload \in PlainPayloads /\ Encrypt(type, payload)
  \/ \E type \in 2 .. 3 : payload \in Payloads /\ Decrypt(type, payload)
  \/ \E type \in 2 .. 3 : last.op = "encrypt" /\ Decrypt(type, last.out)

Spec == Init /\ [][Next]_vars

----------------------------------------------------------------------------
TypeOK ==
  /\ build \in Builds
  /\ ref \in 0 .. MaxRef
  /\ round \in Rounds
  /\ system_key \in SystemKeys \cup {None} /\ iv \in IVs \cup {None}
  /\ data_key \in (DataKeys \X DataKeys) \cup {<<None, None>>}
  /\ \A i \in 1 .. 2 :
       work_key[i] # None => /\ work_key[i] \in DataKeys \X SystemKeys
                             /\ work_key[i][1] = data_key[i] /\ system_key # None
  /\ last.op \in {"set", "keys", "clear", "encrypt", "decrypt"}

\* The system key each half is in use with.
Bound == [i \in 1 .. 2 |-> IF work_key[i] = None THEN None ELSE work_key[i][2]]

\* Whatever the build, the length of the payload and the order in which keys
\* were set, used and cleared: decrypt() gives the plaintext that CBC and OFB
\* define for the data keys set last and the system key each of them was first
\* used with, or says which key is missing.
Promise == INSTANCE Multi2Promise WITH bound <- Bound
ImplementsPromise == Promise!PSpec

\* What encrypt() made, decrypt() turns back with the same type.
RoundTrip ==
  [][/\ last.op = "encrypt" /\ last.code = "ok"
     /\ last'.op = "decrypt" /\ last'.type = last.type /\ last'.in = last.out
     => last'.code = "ok" /\ last'.out = last.in]_vars
=============================================================================
