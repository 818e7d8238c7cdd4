# A verification of libarib25 in TLA+

libarib25 descrambles Japanese digital television (ARIB STD-B25). An
application feeds it a transport stream with `put()`, collects the descrambled
stream with `get()` and ends with `flush()`; the library finds the tables of
the stream, sends the ECMs it finds to a B-CAS smart card and descrambles with
the MULTI2 keys the card returns. Everything runs in the caller's thread. What
makes it hard is order: the same buffer is read several times, tables and keys
change in the middle of it, three kinds of reference counts keep shared
structures alive, and cards and packets fail.

## 1 Inventory

| component | state | operations | interacts with | hard behaviour |
|---|---|---|---|---|
| section parser `ts_section_parser.c` | PID, section at work, newest section, pool, queue, reference counts | put, get, ret, reset, get_count, get_stat | one instance for PAT, CAT and EMM, one per PMT and ECM PID | lost packets, several sections in a packet, memory lent to the reader while put goes on |
| PID map, decryptors, stream lists `arib_std_b25.c` | map[0x2000], decryptor list with counts, two stream lists per program | proc_pat, proc_pmt, proc_cat, teardown and their helpers | section parsers, loops | counts changed by five functions, streams shared by programs, removal in the middle of a loop |
| look-ahead and loops `arib_std_b25.c` | sbuf, sbuf_offset, phases | put, find_pat, find_pmt, find_ecm, proc_arib_std_b25, flush | all others | four passes over one buffer, errors in the middle, updates in the middle |
| ECM processing `proc_ecm` | keys, locked flag of a decryptor | card answers, refuses, fails | B-CAS card, MULTI2 | what is left of the old keys |
| EMM processing `proc_emm` | EMM parser and PID, card IDs | match card IDs, unlock decryptors | B-CAS card, CAT | PID changes, lost routes |
| unit size, resync | unit_size | select_unit_size, resync, resync_force | loops | votes of sync bytes that may be false or missing, ends of buffers |
| work buffers | pool, head, tail, max | reserve, append, reset, release, get | loops, application | growth, two moments at which contents move, lengths that may become negative |
| B-CAS card `b_cas_card.c` | handle, reader, status, ID and control data memory | init, get_init_status, get_id, get_pwr_on_ctrl, proc_ecm, proc_emm | smart card service | retries with reconnection, cards exchanged |
| MULTI2 `multi2.cc` and headers | system key, CBC state, data and work keys, reference count | set_*, clear, encrypt, decrypt | decryptors | cached work keys; five builds with vectors of different lengths, lane orders and overlaps |
| driver `td.c` | files | read, put, get, write; flush | the library | stops at the first error |
| options, version, portability | none | | | |

What makes each correct:

- *section parser*: valid sections only, in order, none twice in a row; memory
  in use is never written; the parser recovers after loss.
- *map and decryptors*: no pointer to a freed decryptor, no decryptor without
  streams, exact counts, every stream with the decryptor of the ECM PID its PMT
  names, late packets still served.
- *loops*: packets go out in the order of the input, none is missing, repeats
  are bounded; nothing goes out scrambled that could be descrambled; nothing is
  descrambled with a wrong key.
- *card*: every call returns, after a reconnection answers come from the card
  whose status it read, success of init means that a card is ready.
- *EMM and locks*: the keys of a stream are those of its last ECM and none that a
  failure, a refusal or a lock should have ended; a stream that is paid for gets
  its keys.
- *unit size, buffers*: the unit found is that of the input; what is in the
  buffer is a piece of the input inside its memory; packets go out once, in
  order, and none is missing that could be recognised.
- *MULTI2*: every build deciphers every payload to what CBC with OFB for the rest
  gives, with the data keys set last and the system key each was first used with,
  or says which of them is missing.

The hazards of the code, each at its line, are in PROJECT.json with the
properties that watch them; those without a property say why.

## 2 Modules

| module | models | builds on |
|---|---|---|
| SectionFeed | what a section parser promises its reader (abstract) | |
| SectionParser | `ts_section_parser.c`, packet by packet and section by section | |
| SectionParserProofs | theorems: invariant, action properties, the parser implements SectionFeed | SectionParser |
| SectionBroadcast | the parser behind a transmitter and a lossy channel (external) | SectionParser |
| SectionBroadcastProofs | theorems: types, promise, order of the versions read | SectionBroadcast, SectionParserProofs |
| DecryptorMap | the PID map, the decryptors, the stream lists: the loops of proc_pmt, proc_pat, teardown, one turn per step | |
| DecryptorMapProofs | theorems: reference counts, no dangling pointer, no leak; every stream leads to the decryptor of its ECM PID, late streams keep theirs | DecryptorMap |
| Descrambler | put, flush, the look-ahead and the descrambling loop, one packet per step; proc_ecm | |
| DescramblerBroadcast | the broadcast in front of it (external): programs, ECM PIDs and key periods change | Descrambler |
| DescramblerProofs | theorems: order of the output, refused streams, repetitions; keys behind a broadcast with one ECM PID | DescramblerBroadcast |
| BCasCard | `b_cas_card.c`: init and the commands with their retries, one call of the smart card service per step | |
| BCasCardProofs | theorems: after a reconnection every answer comes from the card that is known | BCasCard |
| AccessControl | set_b_cas_card, proc_ecm, proc_emm, the locks of the decryptors; the contracts on the cards (external) | BCasCard |
| AccessControlProofs | theorems: locks and ciphers, keys are those of the last ECM | AccessControl, BCasCardProofs |
| PacketStream | the driver of `td.c`, put, get and flush in bytes: buffer, unit size, resynchronisation; the input (external) | |
| PacketStreamProofs | theorems: the unit size, packets in order, none lost, the work buffer, which flush() crashes | PacketStream |
| Multi2Promise | what MULTI2 decryption promises (abstract): CBC, and OFB for the rest | |
| Multi2Cipher | the vector implementations: load, chaining, store and the choice of batches of every build | |
| Multi2 | `multi2.cc`: keys, cached work keys, reference count; implements Multi2Promise | Multi2Cipher |
| Multi2Proofs | theorems: every build computes CBC and OFB for every length; cached work keys fit their data keys; promise and round trip | Multi2 |
| MC modules | values for TLC | the module they are named after |

Definitions marked "Mutant" are plausible mistakes, kept beside the definition
they would replace; no specification uses them. They show that every property
can fail.

### SectionParser

`work`, `last`, `pool`, `buff` are the fields of
TS_SECTION_PARSER_PRIVATE_DATA; `ref` and `raw` those of the elements. The
elements of `Elems` that are in no list are memory `calloc` can still return,
so that exhaustion of memory (PutNoMemory) is a matter of the size of `Elems`.
`held` is not in the code: it is what the reader was lent, the history the
properties speak about. `put` is PutOtherPid, PutContinuation, PutBrokenPointer
or PutStart; after PutStart the rest of the packet is in `rest` and every turn
of the do-loop of put_include_section_start is a step PutSection. Packet bytes
are abstracted to *units*, runs no packet boundary cuts: SecLen gives the
announced length, Valid the contents with a right checksum, Pad the filler.
Choosing any free element of the pool, where the code takes the first, makes
the model a little more general.

SectionBroadcast puts a multiplexer and a channel in front of it: versions of a
table are repeated for ever, cut into packets of Capacity units, and behind the
end of a section a packet holds filler or the beginning of the next repetitions, as
many as fit. What the channel sends is never one of `Packets`: those are the
inputs of SectionParser alone.

### DecryptorMap

`m` is the map together with the decryptors, so that the helpers
(remove_decryptor, unref_stream, set_decryptor, bind_stream_decryptor,
add_ecm_stream) are functions from `m` to `m` and compose in the order the code
calls them. `job` is what the running call has still to do. A table names the
CA PID of the program and of every stream. PIDs of PMTs, ECMs, EMMs and streams
are kept apart, and `Decs` is large enough that memory never runs out.

### Descrambler

`sbuf` holds packets, `offset` is sbuf_offset in packets, `db` what the tables
said so far, `at` the loop the running call is in. `Stage` is the ladder of
tests of put(). The four loops are FindPat, FindPmt, FindFirstEcm and FindOther,
and, for output, SkipPadding, DecryptFailure, PassPacket, NewPmt, NewEcm, NewPat,
ProcEnd, which proc_arib_std_b25 and the loop of flush() share. `emitted` is the
last packet of the output with what happened to it. A section fills one packet;
what its parser passes on is `Fresh`, the promise of SectionFeed. Every program
has one stream and its PMT names an ECM PID, so that the set of decryptors is
InUse; the counts behind that are the subject of DecryptorMap. Packets are
numbered modulo `Wrap`: that is enough to tell the next packet from a repeated
and from a missing one, and it keeps the state space finite without a bound on
the length of the stream. Keys are numbers of key periods, and an ECM brings
the keys of its period and the next one, as odd and even key.

### BCasCard

`card`, `reader`, `stat` are the fields of the private data. `valid` belongs to
the smart card service: whether the connected card is still there. `known` is
not in the code: connect_card() returned 1 for this connection, so that
prv->stat is of this card. Any exchange with the service may fail at any time:
the answer is lost, too short or carries another return code, while the card may
have taken the command. A connected B-CAS card may therefore answer whatever it is
sent, also when its initial setting failed: the handle stays, and the next command
uses it. That is the exception AnswerFromKnownCard makes, and MCUnknownCard shows
that it happens.

### AccessControl

BCasCard step by step, with the library on top of it: `dec` has of every
decryptor whether it is locked, whose system key its MULTI2 instance has (`m2`,
empty without an instance) and whose keys of which period it uses; `seen` is the
last section its parser accepted. `work` is the section that proc_ecm() or
proc_emm() is processing while the card is at work. `contracts` (what the cards
hold) is not in the code. A new PAT or PMT may release any set of decryptors
(NewTables), and reset() all of them with the EMM parser (Reset): the next
decryptor of the stream has no keys and no lock, so that the card is asked again
also for a stream it refused. Which decryptors go is the subject of DecryptorMap.
The application is `phase`: init() and set_b_cas_card() first, then sections in
any order, so that losses, repetitions and reorderings need no action of their
own. One section is ready at a time.

### PacketStream

Positions in `sbuf` are positions in the input, since the buffer always holds a
piece of it: `head` and `tail` are sbuf.head and sbuf.tail, `room` is the distance
of the head from the pool. An input is where its sync bytes are, which packets are
damaged (no sync byte) or broken (an adaptation field that is too long), and which
bytes in the middle look like a sync byte. The loops are ScanTurn (the three of the
look-ahead), ProcTurn and DrainTurn (flush), their ends ScanEnd, ProcEnd and
DrainEnd; `Last` is the label LAST. What packets mean is left to Descrambler, and
with it the exits of the loops at a new PAT and at errors: that no packet goes out
twice is meant of resynchronisation here.

### Multi2, Multi2Cipher, Multi2Promise

Words of memory are sets of terms joined by exclusive or; encryption is an
uninterpreted term that decryption with the same key takes off. That leaves what the
vector code adds to the cipher: which word goes into which lane (UnpackLo, UnpackHi,
SwapMiddle as the instructions define them), which lane is joined with which
(Rotation, Chain), where the results go and which of two copies of a block stays
(Store), and which batches a length is cut into (Vectors). `build` is chosen once,
as a compiler does. Multi2Promise knows nothing of builds, batches or cached work
keys, only of the system key that each data key in use was first used with. The
interface takes a system key at any time and keeps the work keys there are;
`arib_std_b25.c` (1761) sets it once, right after it made the instance.

## 3 Runs

Runs that pass:

| run | shows | bounds | size |
|---|---|---|---|
| section_parser | types, OnePlace, RefExact, OnlyValid, LoanUntouched, and that the parser implements SectionFeed | 4 elements, 2 PIDs, three sections, every packet of at most 2 units, well-formed or not | 66 600 states |
| section_broadcast | Converges (liveness), NeverStale | 3 versions, 3 faults of the channel, 3 units per packet | 19 800 |
| decryptor_map | NoDangling, EcmServed, UsesExact, NoLeak, CountsExact, RoutedRight, LateStreamsKept | 2 programs, 2 ECM PIDs, 3 streams, 1 EMM PID, 3 decryptors; no bound on the length | 145 000 |
| descrambler_steady | RightKey, NotLeftScrambled, InOrder | 2 programs with one ECM PID, new PATs, damaged packets, padding, 3 key periods, buffer of 5 packets | 2 010 000 |
| descrambler_faulty | RepeatsBounded, InOrder, RefusedUntouched | 1 program that moves between 2 ECM PIDs, 2 card failures, refusals, flush, 2 key periods, buffer of 3 packets | 4 450 000 |
| b_cas_card | AnswerFromKnownCard, CallsReturn (liveness) | 2 readers, 2 cards and a foreign one, 4 exchanges, 3 and 2 retries | 86 000 |
| multi2 | Multi2 implements Multi2Promise, RoundTrip | 5 builds, 19 lengths from 1 to 184 bytes, plaintexts of 7 and 39 bytes, 2 system keys, 2 values of each data key, 2 references | 82 500 |
| packet_stream | UnitRight, BufferRight, NothingLost, PacketsInOrder, Finishes (liveness) | 10 units of 4 or 5 bytes, 3 shapes of input, up to 2 damaged or 1 damaged and 1 broken packet, a false sync byte, pieces of 6, 26, 35 and 40 bytes | 444 300 |
| access_control | KeysOfLastEcm, ContractTakesEffect (liveness) | 1 card in 1 reader that is put in or taken out once, 2 streams, 2 key periods, 2 EMM sections, 1 retry of an EMM, decryptors replaced at any time | 124 000 |

Why these bounds are enough. Four elements are one at work, one
queued, one lent and the newest one; with them memory runs out as well. Two programs
share or contend for decryptors in every way the helpers distinguish: same ECM
PID, own ECM PID of a stream, none, not scrambled. A third decryptor is needed
because an old and a new one exist at a time. Five packets of buffer hold a
PAT, a PMT, an ECM, a stream packet and the packet behind it that look-ahead
needs, and every loop can stop in the middle and come back. In three packets
look-ahead for the ECM succeeds only when a flush() came first and left the
tables behind, which is the case descrambler_faulty is about: what put() and
flush() find in a database an interrupted call left. Two failures are one on
the repetition of what failed. The run section_parser starts from
any packets, in any order; section_broadcast only sends what a multiplexer sends.

packet_stream scales the numbers of the code down and keeps their order: packets
of 4 bytes for 188, intervals below 7 for 320 (less than two units), 3 units in
sync for 8 in resync() and 3 occurrences for 8 in select_unit_size(), moves to
the front below 9 bytes for 1024, buffers from 8 bytes for 512. Ten units are
enough for a damaged packet in front of, inside and behind the run that resync()
asks for, and for the buffer to grow twice and to move its contents both ways.
A piece of 6 bytes lets every boundary fall into a packet; the first put() has
then too little to find the unit size, and the driver ends with an error, as the
code does. With longer pieces it goes on. multi2 takes the lengths one less than,
equal to and one more than the sizes of all batches and their sums, and 184, the
payload of a packet, which has a path of its own in two builds. Its plaintexts are
short, so that RoundTrip reaches the batches of xmm, sse2 and neon in TLC; for the others
there is the theorem. In
access_control the ECM is not retried (b_cas_card has that); two key periods are
enough, since the parser compares a section with its last one only, and two EMM
sections are needed for the same reason. One card: with two see below.

CHECK_DEADLOCK is FALSE in the descrambler runs, where the bounded broadcast has
nothing left to send when the buffer is at its bound, and in the runs of systems
that stop: an instance of MULTI2 that was released (multi2), a driver that came
to its end (packet_stream, last_unit), an application that gave up because the
card could not be set up (access_control).

Runs that show the code differing from its documentation (`src/README.org`),
each with one property that states the documentation:

| run | property | what the code does |
|---|---|---|
| emm_routing | EmmsPickedUp | a new PAT drops the EMM PID until the CAT changes |
| card_init | InitMeansReady | init() succeeds with a card that was connected but never answered |
| last_unit | FlushReturns | flush() advances by the unit size over a last packet of 188 bytes and copies a negative length |

Five more configurations are kept to be run by hand (`tlc -config X.cfg M`); each
ends with a violation:

| configuration, module | property | what the code does |
|---|---|---|
| MCOnlyEcm, MCDecryptorMap | OneEcmOneDecryptor | README.org:237 lets the only ECM of a stream decide about stray PIDs; the code counts decryptors (`arib_std_b25.c` 1907): one kept for late packets switches the rule off |
| MCStrayKey, MCDescrambler | RightKey | the same rule applies while a PMT is still missing: its streams are descrambled with another program's keys (1906) |
| MCPmtUpdate, MCDescrambler | NotLeftScrambled | README.org:183 goes back to waiting for the ECM after a PMT with a new ECM PID; the rest of the buffer goes out first (1981) |
| MCEcmFailure, MCDescrambler | NoKeyNoFailure | README.org:332 passes streams without keys through; after the card failed on an ECM, put() fails at the next scrambled packet (1731) |
| MCUnknownCard, MCBCasCard | OnlyKnownAnswers | a handle whose initial setting failed stays (`b_cas_card.c` 606-620), and the card behind it answers the first command of the next call (249, 393) with prv->stat not filled or of another card |

With a second card in `Cards` of MCAccessControl.cfg one more case can be
seen: casid and the system key in a MULTI2 instance are those of the card that
was there first, so that after an exchange during a retry EMMs for the first
card are handed to the second. Nothing in the sources promises that cards may be
exchanged, so that it is no finding.

descrambler_steady leaves these cases out on purpose: its two programs share one
ECM PID, so that a missing PMT does no harm, and ECM PIDs do not change; within
that, the properties that fail in MCStrayKey and MCPmtUpdate hold. packet_stream
has units whose additional bytes follow the packet and inputs that end with a
unit or inside a packet; last_unit has the others.

### Fairness

- SectionBroadcast: the transmitter goes on for ever (weak fairness of Send), a
  put() that has begun ends (weak fairness of Continue), and the application
  reads and returns sections again and again between two calls of put(), as
  proc_pat and its like do in the very call that found a section (strong
  fairness, since a moment between two calls comes and goes). Losses are finite:
  nothing can be promised on a channel that loses everything.
- BCasCard: a call that has begun goes on (weak fairness of its steps). There is
  none for the service: it may fail at every call.
- DecryptorMap (emm_routing only): loops run to their end, and the CAT is
  broadcast again and again.
- PacketStream: the driver is one thread that waits for nothing but its file
  (weak fairness of Next).
- AccessControl: calls go on (weak fairness of OurStep and CardStep). A section that
  is new for its parser arrives again and again and is not lost every time (strong
  fairness of NewEcm and NewEmm): a broadcast repeats its tables for ever. That
  takes a stream the tables list and a routed EMM PID; emm_routing shows when the
  code loses that route, and ContractTakesEffect says nothing about then. A card
  that is there and is asked the same kind of thing again and again answers at last
  (CardAnswers); a card that never answers has no contract worth speaking of. It is
  stated with the call, not with one transmission, because an answer takes a
  connection, an initial setting and a transmission.
- Multi2, Descrambler: no fairness; their properties are safety properties.

## 4 What is proved

Eight modules hold theorems. Every theorem is about all values of the constants
that satisfy the named assumptions of the modules; nothing is assumed finite but
where it says so. The assumptions that describe the environment:

| assumption | says | why the code may rely on it |
|---|---|---|
| UnitAssumption, PacketAssumption, NullAssumption (SectionParser) | types of units and packets | |
| BroadcastAssumption (SectionBroadcast) | what has a right checksum is what is broadcast | that is what the CRC is for |
| PidAssumption (DecryptorMap) | PIDs are finitely many; those of PMTs, ECMs, EMMs and streams are kept apart | map[0x2000]; broadcasters do keep them apart, and the code has no answer if they do not (see hazards) |
| TableAssumption (DecryptorMap) | a PMT names streams and CA PIDs | parsing is not part of the model |
| CardAssumption, SectionAssumption, DescramblerAssumption, BroadcastAssumption (DescramblerBroadcast) | types of the constants, None apart from the rest | |
| StreamAssumption (PacketStream) | sizes are positive, units are less than two packets, no more units in sync are asked for than pairs for the unit size, read() gives at most 64 kB | `arib_std_b25.c` 1004, 1048, 2613, `td.c` 195 |
| StreamsRecognisable (hypothesis of three theorems of PacketStream) | what an input looks like | see PacketStreamProofs |
| Multi2Assumption (Multi2) | types of keys; a payload is whole words and a rest of less than a block (IsPayload) | what `decrypt(type, buf, size)` is given |

Each component follows the same plan: an inductive invariant, checked by TLC on the
component's run first; lemmas about the helpers; one lemma per action; and the
properties from the invariant.

### SectionParserProofs

| theorem | says |
|---|---|
| InvariantHolds | the inductive invariant IInv always holds |
| TypeCorrect, ElementsInOnePlace, ReferenceCountsExact, OnlyValidSections | so do its parts TypeOK, OnePlace, RefExact, OnlyValid |
| LoansAreUntouched | no step writes a section that is lent before and after it |
| ParserImplementsFeed | the parser implements SectionFeed |

RefExact alone is not inductive: commit_elem_updated sets the
count of the element it queues to 2, which is right only if nobody looked at
that element before. That follows when an element taken from the pool with
count zero is not `last`, not queued and not held, which is RefExact read
backwards, and when fresh memory and the section at work are none of these
either, which needs OnePlace and the conjunct LastPlaced (the newest accepted
section is in the queue or in the pool, so never in fresh memory and never at
work). IInv is the conjunction. The lemmas follow the code: what Append and
Tail do to the set of queued elements; AvailableLoose, an element query_work_elem
may return is nobody's; CancelKeeps and CommitKeeps, the two ways a section
ends; then one lemma per action, stated for any packet of the right type so that
they serve behind a broadcast too. The action properties follow from
StepWrites: between two states of IInv only a *loose* element, one nobody looks
at, is written.

The refinement maps the queue, what the reader holds and the last section to
their contents. What the feed sees are the elements that are held, queued or
last; loose ones it does not see. So a step that writes only loose elements is a
stutter, one that queues one is Accept, get() is Lend, ret() is GiveBack and
reset() is Clear.

### SectionBroadcastProofs

| theorem | says |
|---|---|
| BroadcastTypeCorrect | BTypeOK: transmitter, channel and parser have their types |
| BroadcastKeepsPromise | ImplementsFeed, behind a channel that loses and duplicates |
| ReadingNeverGoesBack | NeverStale: the reader never gets a version older than one it read, nor one that is not yet on air |

The first two show that a packet the multiplexer makes is a packet SectionParser
is made for, and then reuse the lemmas of SectionParserProofs. The third has a
hypothesis, ChecksumTells: the last unit of a version, where its checksum is,
occurs in no other version and is not filler. The versions of section_broadcast
satisfy it, although they share units in the middle. Its invariant OrderInv says
that the transmitter's rest is of the version on air, that the section at work is
never complete, that the queue is in the order of the versions, and that what a
running put() has still to cut is of *one* version w, at most the one on air,
with queue and reader at w or before. The work itself may be torn, of several
versions; but when it becomes complete its last unit is from the packet just put,
so that if its checksum is right it is version w.

### DecryptorMapProofs

| theorem | says |
|---|---|
| MapInvariantHolds | the inductive invariant IInv holds, in the middle of proc_pmt(), proc_pat() and teardown() too |
| MapTypeCorrect | TypeOK: no count falls below zero, which in the code would be 2^32 - 1 |
| NothingDangles | NoDangling: neither the map nor dec[0] leads to a freed decryptor |
| EcmsFindTheirDecryptor | EcmServed: the branch "this code will never execute" is never taken |
| DecryptorCountsExact, EntryCountsExact | UsesExact, CountsExact: both reference counts are exact |
| NoDecryptorLeaks | NoLeak: between two calls every decryptor has a stream |

IInv is TypeOK with these conjuncts:

- MapOK(m, job.dec0): KindsApart (what a PID is for decides the types it may
  have), TargetsAlive, Served and UsesAre, the exact count of uses with the hold of
  proc_pmt() counted in. It is an operator on a map, because the helpers are
  functions from a map to a map, and within one step the map goes through several
  of them: RemoveDecryptor, DropUse, UnrefStream, SetDecryptor, Hold, AddEcm and
  BindStream each have a lemma that takes MapOK of the argument to MapOK of the result.
- InUseBut: every decryptor is used by someone. In the middle of a step the one
  just made is not; that is the exception the operator has room for.
- CountsExact and StreamsListed: a PID that counts as a stream is still listed. With
  them an entry that goes to zero is the last one, and UnrefStream never meets a
  count of zero.
- ListsTyped: the lists hold ECM PIDs and streams of their program. JobShape: what the
  running call has still to do; a program that proc_pat() released has empty lists.

CountsExact and UsesExact count finite sets, so the proofs rest on FiniteSetTheorems
and on lemmas about what one entry more or less does to a sum over all lists
(TotalChanges, TotalCovers).

### DecryptorMapProofs: routes

| theorem | says |
|---|---|
| RoutesFollowThePmts | the inductive invariant RInv, between any two turns of the loops |
| StreamsRoutedRight | RoutedRight: between calls every stream of a PMT in force leads to the decryptor that gets the ECMs its PMT names for it |
| LateStreamsAreKept | LateStreamsKept: a stream that left its PMT keeps its decryptor until the next PMT of the program |

They stand on IInv and have a hypothesis of their own, OwnStreams: no PID is a
stream of two programs, and no PMT lists one twice. Without it the entry that was
processed last decides where a stream leads, so RoutedRight does not hold; the PMTs
of decryptor_map satisfy it (an ASSUME of MCDecryptorMap).

RoutedRight speaks of states between calls and says nothing of why a route stays.
RInv has, for every entry of a PMT that was processed (ProgramRouted): the
stream leads to the decryptor of its ECM PID, and *both PIDs are in the
program's list*. The list is what keeps them: by CountsExact an entry that goes is
the last one only if no list names the PID (StillCounted), so Unref takes no route
that is in force. A decryptor is removed only when no stream leads to it, and the
stream of the entry does (EntryStays). While proc_pmt() runs, the entries that are
processed are those before job.todo, and the program's own ECM PID leads to dec[0]
(JobRouted): that is why an entry without a CA descriptor is bound right. What
proc_pat() released has no PMT any more (ReleasedForgotten).

LateStreamsAreKept needs the same facts: a stream changes its decryptor with its last
entry, when no list names it, or as an entry of the PMT at work, which then lists it.

### BCasCardProofs, AccessControlProofs

| theorem | says |
|---|---|
| BCasCardProofs: InvariantHolds, TypeCorrect | the inductive invariant and TypeOK, for any readers, cards and numbers of retries |
| AnswersFromKnownCard | after a reconnection an answer comes from the card whose status that reconnection read; before one, another card answers only over a handle a failed connect_card() left |
| ConnectionKnown | a connection whose connect_card() returned 1 is to the card of prv->stat as long as it is valid |
| AccessControlProofs: AccessInvariantHolds, AccessTypeCorrect | the invariant AInv of the composition, and ATypeOK |
| KeysAreOfLastEcm | KeysOfLastEcm: a stream has no keys but those of the last ECM its parser delivered |

AnswerFromKnownCard needs ConnectedCardKnown (a connection that connect_card() made
to the end is to the card whose status it read, and an exchange of that card
invalidates it), SentAgainWhenKnown (a retry sends its command only after such a
connect_card(); the first transmission of a call takes the handle there is),
NoAnswerYet (no answer is at hand while a call runs, so that a reconnection may
change prv->stat) and ReadersInTurn (where each call may be).

AInv is IInv with AccessTypes, CallsInPhase (which call of the card can be running
in which phase, and about which section), AnswerThere (a call that ended well has an
answer), LocksHold and KeysOfLastEcm. LocksHold: keys are in a cipher, a locked
stream has none and is not being asked about, and the ECM at work is the last one
its parser delivered, so that the keys its answer brings are of that one. A locked
stream skips ECMs; that it has no keys is why none of them outlives the ECM. The
proofs use the steps of the card module only through lemmas that say what a call
does to `op`, `result` and `answered` (among them that a call that ends well, init()
aside, has an answer).

### DescramblerProofs

| theorem | says |
|---|---|
| TypeCorrect | TypeOK, for any input |
| PacketsGoOutInOrder | InOrder, for any input: nothing is left out and nothing overtakes, whatever the loops and the errors in them do |
| RefusedStreamsUntouched | RefusedUntouched, for any input: a stream whose ECM was refused goes out as it came |
| BroadcastIsAnInput | every behaviour with the broadcast is one of the library alone, so that the three hold there too |
| RepetitionsBounded | RepeatsBounded behind the broadcast, when no PAT is empty and padding is stripped |

InOrder needs Numbered: the packets of the buffer are numbered one after another,
modulo Wrap, and the first follows the last one that went out, or is that one again. RefusedUntouched needs Bare: a
locked decryptor has no cipher. RepeatInv says for every place the loops come back
to what stands at the head of the buffer and what of it went out already. Both
hypotheses are needed, and TLC shows it: an empty PAT is new at every call, since
find_pat() starts again (`p_count < 1`, `arib_std_b25.c` 805), and packets of
padding have no number that tells one from its repetition.

### DescramblerProofs: keys behind a steady broadcast

| theorem | says |
|---|---|
| KeysFollowTheBroadcast | the inductive invariant SteadyInv holds behind the broadcast |
| KeysAreRight | RightKey: no packet is descrambled with another period's key |
| NothingLeftScrambled | NotLeftScrambled: no stream of a listed program goes out scrambled |

They are about a *steady* broadcast (Steady): one ECM PID that is paid for, a card that answers,
no empty PAT, no PMT that changes its ECM PID and no flush(). Programs come and
go, keys change any number of times, packets are damaged, and the application cuts the input
wherever it likes. Outside it the two properties are false:
MCStrayKey and MCPmtUpdate show how. descrambler_steady is an instance.

SteadyInv relates the state of the library to the *whole* buffer, because what
look-ahead will find decides what is right now:

- Line: periods only grow along the buffer, and each begins with its ECM.
- Restart(a): behind packet a the first ECM is that of the period of all packets
  before it. It has to hold behind every PAT in the buffer that will be new when it
  is processed (Changed), because processing it throws the key away and
  look-ahead begins again there; and at the head while there is no key.
- Keyed: while there is a key, later periods begin with their ECM further on.
- OneDecryptor: the decryptor has a key exactly when nothing is looked for any more.
- PassedBy: what look-ahead passed by was not what it was looking for.
- InForce: the PAT that will be in force behind the buffer is the one on air, so
  that what is sent next belongs to a listed program.

TLC checked SteadyInv on the 2 000 000 states of descrambler_steady before it was
proved.

### Multi2Proofs

| theorem | says |
|---|---|
| BuildsComputeCbc | whatever the build, the length of the payload, the initial state and the key: DecryptCbcOfb is the plaintext that CBC and OFB define (Plain of Multi2Promise) |
| BuildsUndoEncryption | in every build DecryptCbcOfb turns back what EncryptCbcOfb made |
| KeysInvariantHolds, Multi2TypeCorrect | the inductive invariant KInv, with TypeOK |
| Multi2KeepsPromise | ImplementsPromise |
| EncryptionIsUndone | RoundTrip |

Two things could go wrong in the module: the vector code of a build, and the keys
it is given, since work keys are derived when they are first used and kept.

The first two theorems are about the vector code, from its instructions up. LoadIs
and StoreIs compute which word of memory is in which lane of each shape (BlockOf,
LaneOf) from UnpackLo, UnpackHi and SwapMiddle. TablesFit is the fact that Rotation fits
them: the lane of a block is rotated to where the next block is. SingleBatch and
PairBatch say of all eight types of a batch that it leaves the memory as if its blocks had
been joined one by one (BlocksDone). For ymm2 and neon2<7> that is a matter of the order of the
stores, since the block that both vectors have is wrong in the second (HalvesStored,
NeonStored). PlanIs says that the batches of a plan follow one another without a gap and take
all whole blocks, for every length and build, the path for 184 bytes among them.
AllBatches puts these together along the plan.

The promise knows of no work keys: it takes data key and rounds as they were set last,
and the system key each data key was first used with, because a system key that is set
later does not reach a work key in use. KInv says why that is what the module does: a
work key is kept only while its data key is (TypeOK, WorkKeysFit), and what encrypt()
made was made with the work key the next call uses, kept or derived (LastEncrypted).
CryptDerives says which work key a call leaves, CryptBinds that the refinement maps it
to the system key of its first use.

The proofs need induction along a plan and along the blocks of a payload. The
library's induction theorems have an operator parameter, which the provers at
hand cannot instantiate; LeastIn (a set of numbers has a least one, from the
well-founded order of the naturals) takes their place: it is applied to the set of places
where the claim fails.

### PacketStreamProofs

| theorem | says |
|---|---|
| StreamTypeCorrect | TypeOK |
| BufferStaysRight | BufferRight, until flush() goes wrong |
| OnlyLongUnitsCrash | FlushReturns, when units are no longer than a packet: what last_unit finds needs units of 192 or 204 bytes |
| NothingSentTwice | SentForward, the second half of PacketsInOrder: what is sent lies behind all that was sent before |
| UnitSizeIsRight | UnitRight, for recognisable inputs |
| OnlyPacketsInOrder | PacketsInOrder, for recognisable inputs |
| NoPacketLost | NothingLost, for recognisable inputs |

The first four hold for every input: sync bytes may be anywhere, so that resync() and
resync_force() may find any place behind the cursor that leaves room for a unit, or a packet
(PacketAtBounds, DrainAtBounds). The lemmas are about the searches: MinOf and
MaxOf from well-founded induction, MostSeen, GrownIsEnough (the
doublings are enough for what one read() gives). PInv adds to TypeOK and
BufferRight: CursorRight; SentBefore, all that was sent is before the cursor of
a running loop, and before the head between calls; UnitUnknown; and
OffsetRight, which look-ahead needs: it goes on at head + offset, and that is in
the buffer only because nothing leaves the buffer before look-ahead is over
(`arib_std_b25.c` 805 - 856), when the offset is 0.

The other three are about inputs of any length, cut into pieces in any way, with any
packets damaged or broken, that satisfy StreamsRecognisable: packets of one unit
size, the first in the first unit, and a sync byte at every packet that is not
damaged. Other bytes may look like sync bytes, but there are few of them in what
is read first (less than half of MinCount, or less than one for every two units of the
longest size, less the slack); Run of them never stand a unit apart, and not even two among the first
MinCount or the last Run units; and there is none at the very beginning or next to the
sync byte of a broken packet. Scrambled payload looks like random bytes, with a false sync byte in every
packet or two: that there are eight in a row, each a unit behind the one before, does not
happen in practice, but two such among the first or last eight units do in a few inputs of a
hundred, and about those nothing is proved. MCPacketStream states the hypothesis as an ASSUME, so that TLC evaluates it for
the inputs of both runs.

RInv says how far the driver has come with such an input: no sync byte
where the next packet is looked for is a false one (FrontInSync); that place is a
packet's or not further than a unit behind a fault (Anchored); and every packet before it was sent
or is excused (Passed), where an excuse is a fault of its own, the gap between two
faults that is too short for resync(), or a false packet at the end. In the last loop of flush()
damaged packets stand so close from the cursor on that resync() found nothing
(Dense). The lemmas: WrongInterval, each pair at a wrong interval has a false
sync byte in it, so that it is counted too seldom or misses more units than Slack;
FoundBehind, where the unit size is found there are MinCount packets, which puts a
fault in front of any false sync byte that flush() takes; ExcusedBehind, the last
fault passed before a packet and the first one behind it are close together when
each packet between has a damaged one within Run; SkippedByProc and SkippedByDrain
apply it to resync() and resync_force(); TurnExcuses is the step of all loops.

The proof showed that UnitRight used to say too much: it promised the unit size
with one damaged packet also for an input that begins in the middle of a packet.
The bytes in front of the first packet count as missed, and with a first
piece of exactly eleven units select_unit_size() gives up; UnitRight now says so, and
the pieces of 35 bytes in packet_stream reach the case. TLC checked PInv and RInv
on the states of packet_stream and on 16 000 other inputs, with damage and pairs of false
sync bytes in other places, before they were proved.

### Only model-checked

- RightKey and NotLeftScrambled behind broadcasts that are not steady: they fail in
  some, and what is left is the instances of the runs.
- Converges, CallsReturn, Finishes and ContractTakesEffect: liveness under fairness
  is outside what TLAPS proves here, and so is ENABLED.

## 5 What is not modelled, and why

- get_stat, get_count and get_program_info read only.
- A section header split over two packets, the cut at 4100 bytes: units do not
  cut headers, and 4100 exceeds any announced length plus header.
- get_pwr_on_ctrl, extract_mjd and the memory of the card module
  (change_id_max, change_pwc_max): they matter only for a card that reports more
  records than the arrays were made for.
- EMM messages, which the code ignores, broken EMM elements, and an EMM PID that
  changes while its parser exists.
- The memory of the output buffer, and memcpy between ranges that overlap.
- Lack of memory outside the section parser and put().
- A PID used for two purposes at a time.
- The rounds of MULTI2 and its key schedule (arithmetic on words, no behaviour),
  the order of bytes in a word, invalid parameters.
- Options, progress output and summary of `td.c`, option parser, version strings.

## 6 Plan

Done, in this order: SectionParser with SectionFeed, SectionBroadcast and the
proofs of IInv; DecryptorMap; Descrambler with DescramblerBroadcast; BCasCard;
Multi2 with Multi2Cipher and Multi2Promise; PacketStream; AccessControl; then the
proofs about DecryptorMap, BCasCard, AccessControl, Descrambler, the steady
broadcast, the refinement of SectionFeed, SectionBroadcast, Multi2 and PacketStream.

Left, in the order of importance:

1. A PID used for two purposes in DecryptorMap, and an EMM PID that changes while
   its parser exists, in AccessControl.
2. The card module's ID and control memory.
