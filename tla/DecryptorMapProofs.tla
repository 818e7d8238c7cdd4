------------------------- MODULE DecryptorMapProofs -------------------------
(***************************************************************************)
(* Proofs about DecryptorMap, for any number of programs, PIDs, tables and *)
(* decryptors. First: the two reference counts are exact, nothing leads to *)
(* a decryptor that was freed, and no decryptor outlives its streams.      *)
(* Then: every stream is led to the decryptor that gets the ECMs its PMT   *)
(* names, and a stream that left its PMT keeps its decryptor until the     *)
(* next one.                                                               *)
(***************************************************************************)
EXTENDS DecryptorMap, FiniteSetTheorems, TLAPS

----------------------------------------------------------------------------
\* The inductive invariant of counts and bindings.

\* What a PID is for decides what the map says of it.
KindsApart(mm) ==
  /\ \A p \in Progs : mm.type[p] \in {"UNKNOWN", "PMT"}
  /\ \A p \in ECMs : mm.type[p] \in {"UNKNOWN", "ECM"}
  /\ \A p \in EMMs : mm.type[p] \in {"UNKNOWN", "EMM"}
  /\ \A p \in StreamPIDs : mm.type[p] \in {"UNKNOWN", "OTHER"}
  /\ \A p \in PIDs : mm.type[p] \notin {"ECM", "OTHER"} => mm.target[p] = None

TargetsAlive(mm) ==
  \A p \in PIDs : mm.target[p] # None => mm.target[p] \in Alive(mm)

Served(mm) ==
  \A p \in PIDs : mm.type[p] = "ECM" =>
    mm.target[p] \in Alive(mm) /\ mm.ecm[mm.target[p]] = p

One(b) == IF b THEN 1 ELSE 0

UsesAre(mm, h) ==
  \A d \in Alive(mm) : mm.uses[d] = Cardinality(Bound(mm, d)) + One(h = d)

\* A map in order while proc_pmt() holds the decryptor h, or none.
MapOK(mm, h) ==
  /\ mm \in MapType
  /\ KindsApart(mm)
  /\ TargetsAlive(mm)
  /\ Served(mm)
  /\ UsesAre(mm, h)
  /\ h \in Alive(mm) \cup {None}

\* Every decryptor but x is used by someone.
InUseBut(mm, x) == \A d \in Alive(mm) : d # x => mm.uses[d] > 0

ListsTyped ==
  /\ \A g \in Progs : /\ streams[g] \in Seq(ECMs \cup StreamsOf(g))
                      /\ oldStrm[g] \in Seq(ECMs \cup StreamsOf(g))
  /\ job.unref \in Seq(ECMs \cup StreamPIDs)
  /\ job.kind = "pmt" => job.prog \in Progs /\ job.todo \in Seq([pid: StreamsOf(job.prog), ca: CaPIDs])

\* A PID that still counts as a stream is still listed.
StreamsListed == \A p \in PIDs : m.type[p] = "OTHER" => m.count[p] > 0

JobShape ==
  /\ job.kind = "none" => job = NoJob
  /\ job.kind = "pmt" => job.release = {}
  /\ job.kind # "pmt" => job.dec0 = None
  /\ job.kind \in {"pat", "teardown"} =>
       \A g \in Progs \ job.release : streams[g] = <<>> /\ oldStrm[g] = <<>>

IInv ==
  /\ TypeOK
  /\ MapOK(m, job.dec0)
  /\ InUseBut(m, None)
  /\ ListsTyped
  /\ CountsExact
  /\ StreamsListed
  /\ JobShape

----------------------------------------------------------------------------
\* Counting.  A number of places in a list, and of entries in all lists.

LEMMA ShiftKeepsSize ==
  ASSUME NEW S \in SUBSET Nat, IsFiniteSet(S), NEW n \in Nat
  PROVE  /\ IsFiniteSet({i + n : i \in S})
         /\ Cardinality({i + n : i \in S}) = Cardinality(S)
<1> DEFINE T == {i + n : i \in S}
           f == [i \in S |-> i + n]
<1>1. f \in Bijection(S, T)
  <2>1. \A i, j \in S : f[i] = f[j] => i = j
    OBVIOUS
  <2>2. \A t \in T : \E i \in S : f[i] = t
    OBVIOUS
  <2>3. f \in [S -> T]
    OBVIOUS
  <2> HIDE DEF f, T
  <2>4. QED
    BY <2>1, <2>2, <2>3 DEF Bijection, Injection, Surjection, IsInjective
<1>2. ExistsBijection(S, T)
  BY <1>1 DEF ExistsBijection
<1>3. QED
  BY <1>2, FS_Bijection

LEMMA TagKeepsSize ==
  ASSUME NEW S, IsFiniteSet(S), NEW c
  PROVE  IsFiniteSet({c} \X S) /\ Cardinality({c} \X S) = Cardinality(S)
<1>1. IsFiniteSet({c}) /\ Cardinality({c}) = 1
  BY FS_Singleton
<1>2. Cardinality(S) \in Nat
  BY FS_CardinalityType
<1>3. IsFiniteSet({c} \X S) /\ Cardinality({c} \X S) = 1 * Cardinality(S)
  BY <1>1, FS_Product
<1>4. QED
  BY <1>2, <1>3

LEMMA DisjointSizes ==
  ASSUME NEW S, NEW T, IsFiniteSet(S), IsFiniteSet(T), S \cap T = {}
  PROVE  IsFiniteSet(S \cup T) /\ Cardinality(S \cup T) = Cardinality(S) + Cardinality(T)
<1>1. Cardinality(S) \in Nat /\ Cardinality(T) \in Nat
  BY FS_CardinalityType
<1>2. QED
  BY <1>1, FS_Union, FS_EmptySet

\* How often a list names a PID.
Times(list, p) == Cardinality(Places(list, p))

LEMMA TimesType ==
  ASSUME NEW S, NEW list \in Seq(S), NEW p
  PROVE  /\ IsFiniteSet(Places(list, p))
         /\ Times(list, p) \in Nat
         /\ Times(list, p) = 0 <=> ~Lists(list, p)
<1>1. Len(list) \in Nat /\ Places(list, p) \in SUBSET (1 .. Len(list))
  BY DEF Places
<1>2. IsFiniteSet(1 .. Len(list))
  BY <1>1, FS_Interval
<1>3. IsFiniteSet(Places(list, p))
  BY <1>1, <1>2, FS_Subset
<1>4. Times(list, p) \in Nat
  BY <1>3, FS_CardinalityType DEF Times
<1>5. Times(list, p) = 0 <=> Places(list, p) = {}
  BY <1>3, FS_EmptySet DEF Times
<1>6. Places(list, p) = {} <=> ~Lists(list, p)
  BY DEF Places, Lists
<1>7. QED
  BY <1>3, <1>4, <1>5, <1>6

LEMMA TimesEmpty == \A p : Times(<<>>, p) = 0
<1>1. \A p : Places(<<>>, p) = {}
  BY DEF Places
<1>2. QED
  BY <1>1, FS_EmptySet DEF Times

LEMMA TimesSingle == \A x, p : Times(<<x>>, p) = One(x = p)
<1>1. \A x, p : Places(<<x>>, p) = IF x = p THEN {1} ELSE {}
  BY DEF Places
<1>2. QED
  BY <1>1, FS_EmptySet, FS_Singleton DEF Times, One

LEMMA TimesAppend ==
  ASSUME NEW S, NEW list \in Seq(S), NEW x \in S, NEW p
  PROVE  Times(Append(list, x), p) = Times(list, p) + One(x = p)
<1>1. Len(list) \in Nat /\ IsFiniteSet(Places(list, p))
  BY TimesType
<1>2. CASE x = p
  <2>1. Places(Append(list, x), p) = Places(list, p) \cup {Len(list) + 1}
    BY <1>1, <1>2 DEF Places
  <2>2. Len(list) + 1 \notin Places(list, p)
    BY <1>1 DEF Places
  <2>3. QED
    BY <1>1, <1>2, <2>1, <2>2, FS_AddElement DEF Times, One
<1>3. CASE x # p
  <2>1. Places(Append(list, x), p) = Places(list, p)
    BY <1>1, <1>3 DEF Places
  <2>2. QED
    BY <1>3, <2>1, TimesType DEF Times, One
<1>4. QED
  BY <1>2, <1>3

LEMMA TimesConcat ==
  ASSUME NEW S, NEW a \in Seq(S), NEW b \in Seq(S), NEW p
  PROVE  Times(a \o b, p) = Times(a, p) + Times(b, p)
<1> DEFINE moved == {i + Len(a) : i \in Places(b, p)}
<1>1. /\ Len(a) \in Nat /\ Len(b) \in Nat
      /\ IsFiniteSet(Places(a, p)) /\ IsFiniteSet(Places(b, p))
      /\ Places(b, p) \in SUBSET Nat
  <2>1. IsFiniteSet(Places(a, p)) /\ IsFiniteSet(Places(b, p))
    BY TimesType
  <2>2. Len(a) \in Nat /\ Len(b) \in Nat
    OBVIOUS
  <2>3. Places(b, p) \in SUBSET Nat
    BY <2>2 DEF Places
  <2>4. QED
    BY <2>1, <2>2, <2>3
<1>2. IsFiniteSet(moved) /\ Cardinality(moved) = Cardinality(Places(b, p))
  BY <1>1, ShiftKeepsSize
<1>3. Places(a, p) \cap moved = {}
  BY <1>1 DEF Places
<1>4. Places(a \o b, p) = Places(a, p) \cup moved
  <2>1. /\ Len(a \o b) = Len(a) + Len(b)
        /\ \A i \in 1 .. Len(a) : (a \o b)[i] = a[i]
        /\ \A i \in 1 .. Len(b) : (a \o b)[i + Len(a)] = b[i]
    BY <1>1
  <2>2. \A i \in 1 .. Len(a) + Len(b) :
          i \in 1 .. Len(a) \/ (i - Len(a) \in 1 .. Len(b) /\ i = (i - Len(a)) + Len(a))
    BY <1>1
  <2>3. Places(a \o b, p) \subseteq Places(a, p) \cup moved
    BY <2>1, <2>2 DEF Places
  <2>4. Places(a, p) \cup moved \subseteq Places(a \o b, p)
    BY <1>1, <2>1 DEF Places
  <2>5. QED
    BY <2>3, <2>4
<1>5. QED
  BY <1>1, <1>2, <1>3, <1>4, DisjointSizes DEF Times

LEMMA TimesTail ==
  ASSUME NEW S, NEW list \in Seq(S), list # <<>>, NEW p
  PROVE  Times(list, p) = One(Head(list) = p) + Times(Tail(list), p)
<1>1. Head(list) \in S /\ Tail(list) \in Seq(S) /\ <<Head(list)>> \in Seq(S)
  OBVIOUS
<1>2. list = <<Head(list)>> \o Tail(list)
  OBVIOUS
<1>3. Times(list, p) = Times(<<Head(list)>>, p) + Times(Tail(list), p)
  <2>1. Times(<<Head(list)>> \o Tail(list), p) = Times(<<Head(list)>>, p) + Times(Tail(list), p)
    BY <1>1, TimesConcat
  <2>2. QED
    BY <1>2, <2>1, Zenon
<1>4. Times(<<Head(list)>>, p) = One(Head(list) = p)
  BY TimesSingle
<1>5. QED
  BY <1>2, <1>3, <1>4

\* The lists of the programs G.
ListsIn(S, G, new, old) == \A h \in G : new[h] \in Seq(S) /\ old[h] \in Seq(S)

\* The entries for p in one list, and in the lists of the programs G.
EntriesOf(new, old, h, k, p) ==
  {<<h, k>>} \X Places(IF k = "new" THEN new[h] ELSE old[h], p)

EntriesIn(new, old, G, p) ==
  UNION {EntriesOf(new, old, h, k, p) : h \in G, k \in {"new", "old"}}

LEMMA EntriesAre == \A p : Entries(p) = EntriesIn(streams, oldStrm, Progs, p)
  BY DEF Entries, EntriesIn, EntriesOf, ListOf

LEMMA InEntries ==
  ASSUME NEW G, NEW p, NEW new, NEW old
  PROVE  \A z : z \in EntriesIn(new, old, G, p)
                  <=> \E h \in G, k \in {"new", "old"} : z \in EntriesOf(new, old, h, k, p)
  BY DEF EntriesIn

LEMMA EntriesOfFacts ==
  ASSUME NEW S, NEW p, NEW new, NEW old, NEW h, new[h] \in Seq(S), old[h] \in Seq(S)
  PROVE  /\ IsFiniteSet(EntriesOf(new, old, h, "new", p))
         /\ IsFiniteSet(EntriesOf(new, old, h, "old", p))
         /\ Cardinality(EntriesOf(new, old, h, "new", p)) = Times(new[h], p)
         /\ Cardinality(EntriesOf(new, old, h, "old", p)) = Times(old[h], p)
<1>1. IsFiniteSet(Places(new[h], p)) /\ IsFiniteSet(Places(old[h], p))
  BY TimesType
<1>2. /\ EntriesOf(new, old, h, "new", p) = {<<h, "new">>} \X Places(new[h], p)
      /\ EntriesOf(new, old, h, "old", p) = {<<h, "old">>} \X Places(old[h], p)
  BY DEF EntriesOf
<1>3. QED
  <2>1. /\ IsFiniteSet({<<h, "new">>} \X Places(new[h], p))
        /\ Cardinality({<<h, "new">>} \X Places(new[h], p)) = Cardinality(Places(new[h], p))
    BY <1>1, TagKeepsSize
  <2>2. /\ IsFiniteSet({<<h, "old">>} \X Places(old[h], p))
        /\ Cardinality({<<h, "old">>} \X Places(old[h], p)) = Cardinality(Places(old[h], p))
    BY <1>1, TagKeepsSize
  <2>3. QED
    BY <1>2, <2>1, <2>2, Zenon DEF Times

LEMMA EntriesInFinite ==
  ASSUME NEW S, NEW G, IsFiniteSet(G), NEW p, NEW new, NEW old,
         ListsIn(S, G, new, old)
  PROVE  IsFiniteSet(EntriesIn(new, old, G, p))
         /\ Cardinality(EntriesIn(new, old, G, p)) \in Nat
<1> DEFINE P(h, k) == EntriesOf(new, old, h, k, p)
           Pair(h) == P(h, "new") \cup P(h, "old")
           Q == {Pair(h) : h \in G}
           f == [h \in G |-> Pair(h)]
<1>1. \A h \in G : IsFiniteSet(Pair(h))
  <2> SUFFICES ASSUME NEW h \in G PROVE IsFiniteSet(Pair(h))
    OBVIOUS
  <2>1. IsFiniteSet(P(h, "new")) /\ IsFiniteSet(P(h, "old"))
    BY EntriesOfFacts DEF ListsIn
  <2>2. QED
    BY <2>1, FS_Union
<1>2. EntriesIn(new, old, G, p) = UNION Q
  BY InEntries
<1> HIDE DEF Pair
<1>3. f \in Surjection(G, Q)
  BY DEF Surjection
<1>4. IsFiniteSet(Q)
  BY <1>3, FS_Surjection
<1>5. \A q \in Q : IsFiniteSet(q)
  BY <1>1
<1> HIDE DEF Q
<1>6. IsFiniteSet(UNION Q)
  BY <1>4, <1>5, FS_UNION
<1>7. QED
  BY <1>2, <1>6, FS_CardinalityType

LEMMA EntriesSplit ==
  ASSUME NEW S, NEW G, IsFiniteSet(G), NEW g \in G, NEW p, NEW new, NEW old,
         ListsIn(S, G, new, old)
  PROVE  Cardinality(EntriesIn(new, old, G, p))
           = Cardinality(EntriesIn(new, old, G \ {g}, p)) + Times(new[g], p) + Times(old[g], p)
<1> DEFINE rest == EntriesIn(new, old, G \ {g}, p)
           a == EntriesOf(new, old, g, "new", p)
           b == EntriesOf(new, old, g, "old", p)
<1>1. EntriesIn(new, old, G, p) = (rest \cup a) \cup b
  BY InEntries
<1>2. /\ \A z \in a : z[1] = <<g, "new">>
      /\ \A z \in b : z[1] = <<g, "old">>
      /\ \A z \in rest : z[1] # <<g, "new">> /\ z[1] # <<g, "old">>
  <2>1. \A h, k : \A z \in EntriesOf(new, old, h, k, p) : z[1] = <<h, k>>
    BY DEF EntriesOf
  <2>2. QED
    BY <2>1, InEntries
<1>3. rest \cap a = {} /\ (rest \cup a) \cap b = {}
  <2>1. <<g, "new">> # <<g, "old">>
    OBVIOUS
  <2> HIDE DEF a, b, rest
  <2>2. QED
    BY <1>2, <2>1
<1>4. /\ IsFiniteSet(a) /\ Cardinality(a) = Times(new[g], p)
      /\ IsFiniteSet(b) /\ Cardinality(b) = Times(old[g], p)
  BY EntriesOfFacts DEF ListsIn
<1>5. IsFiniteSet(G \ {g})
  BY FS_RemoveElement
<1>6. IsFiniteSet(rest)
  BY <1>5, EntriesInFinite DEF ListsIn
<1> HIDE DEF a, b, rest
<1>7. /\ IsFiniteSet(rest \cup a)
      /\ Cardinality(rest \cup a) = Cardinality(rest) + Cardinality(a)
  BY <1>3, <1>4, <1>6, DisjointSizes
<1>8. Cardinality((rest \cup a) \cup b) = Cardinality(rest \cup a) + Cardinality(b)
  BY <1>3, <1>4, <1>7, DisjointSizes
<1>9. QED
  BY <1>1, <1>4, <1>7, <1>8 DEF rest

\* How often all lists of all programs name p.
Total(new, old, p) == Cardinality(EntriesIn(new, old, Progs, p))

\* When the lists of one program change, so does the total.
LEMMA TotalChanges ==
  ASSUME NEW S, NEW g \in Progs, NEW p, NEW new, NEW old, NEW new2, NEW old2,
         ListsIn(S, Progs, new, old),
         ListsIn(S, Progs, new2, old2),
         \A h \in Progs \ {g} : new2[h] = new[h] /\ old2[h] = old[h]
  PROVE  /\ Total(new, old, p) \in Nat /\ Total(new2, old2, p) \in Nat
         /\ Total(new2, old2, p) - Times(new2[g], p) - Times(old2[g], p)
              = Total(new, old, p) - Times(new[g], p) - Times(old[g], p)
<1>1. IsFiniteSet(Progs) /\ IsFiniteSet(Progs \ {g})
  BY PidAssumption, FS_Subset, FS_RemoveElement
<1>2. EntriesIn(new2, old2, Progs \ {g}, p) = EntriesIn(new, old, Progs \ {g}, p)
  <2>1. \A h \in Progs \ {g}, k \in {"new", "old"} :
          EntriesOf(new2, old2, h, k, p) = EntriesOf(new, old, h, k, p)
    BY DEF EntriesOf
  <2>2. \A z : z \in EntriesIn(new2, old2, Progs \ {g}, p) <=> z \in EntriesIn(new, old, Progs \ {g}, p)
    BY <2>1, InEntries
  <2>3. QED
    BY <2>2
<1>3. Cardinality(EntriesIn(new, old, Progs \ {g}, p)) \in Nat
  BY <1>1, EntriesInFinite DEF ListsIn
<1>4. /\ Times(new[g], p) \in Nat /\ Times(old[g], p) \in Nat
      /\ Times(new2[g], p) \in Nat /\ Times(old2[g], p) \in Nat
  BY TimesType DEF ListsIn
<1>5. Total(new, old, p) = Cardinality(EntriesIn(new, old, Progs \ {g}, p))
                             + Times(new[g], p) + Times(old[g], p)
  BY <1>1, EntriesSplit DEF Total
<1>6. Total(new2, old2, p) = Cardinality(EntriesIn(new2, old2, Progs \ {g}, p))
                               + Times(new2[g], p) + Times(old2[g], p)
  BY <1>1, EntriesSplit DEF Total
<1>7. PICK n \in Nat : n = Cardinality(EntriesIn(new, old, Progs \ {g}, p))
  BY <1>3
<1>8. /\ Total(new, old, p) = n + Times(new[g], p) + Times(old[g], p)
      /\ Total(new2, old2, p) = n + Times(new2[g], p) + Times(old2[g], p)
  BY <1>2, <1>5, <1>6, <1>7
<1>9. PICK a \in Nat, b \in Nat, c \in Nat, d \in Nat :
        a = Times(new[g], p) /\ b = Times(old[g], p) /\ c = Times(new2[g], p) /\ d = Times(old2[g], p)
  BY <1>4
<1>10. Total(new, old, p) = n + a + b /\ Total(new2, old2, p) = n + c + d
  BY <1>8, <1>9
<1>11. /\ n + a + b \in Nat /\ n + c + d \in Nat
       /\ (n + c + d) - c - d = (n + a + b) - a - b
  OBVIOUS
<1>12. QED
  BY <1>9, <1>10, <1>11, Zenon

\* What one list names counts.
LEMMA TotalCovers ==
  ASSUME NEW S, NEW g \in Progs, NEW p, NEW new, NEW old,
         ListsIn(S, Progs, new, old)
  PROVE  Total(new, old, p) >= Times(new[g], p) + Times(old[g], p)
<1>1. IsFiniteSet(Progs) /\ IsFiniteSet(Progs \ {g})
  BY PidAssumption, FS_Subset, FS_RemoveElement
<1>2. Total(new, old, p) = Cardinality(EntriesIn(new, old, Progs \ {g}, p))
                             + Times(new[g], p) + Times(old[g], p)
  BY <1>1, EntriesSplit DEF Total
<1>3. Cardinality(EntriesIn(new, old, Progs \ {g}, p)) \in Nat
  BY <1>1, EntriesInFinite DEF ListsIn
<1>4. Times(new[g], p) \in Nat /\ Times(old[g], p) \in Nat
  BY TimesType DEF ListsIn
<1>5. PICK n \in Nat, a \in Nat, b \in Nat :
        /\ n = Cardinality(EntriesIn(new, old, Progs \ {g}, p))
        /\ a = Times(new[g], p) /\ b = Times(old[g], p)
  BY <1>3, <1>4
<1>6. n + a + b >= a + b
  OBVIOUS
<1>7. QED
  BY <1>2, <1>5, <1>6, Zenon

LEMMA TotalUnlisted ==
  ASSUME NEW p, NEW new, NEW old, \A h \in Progs : ~Lists(new[h], p) /\ ~Lists(old[h], p)
  PROVE  Total(new, old, p) = 0
<1>1. \A h \in Progs : Places(new[h], p) = {} /\ Places(old[h], p) = {}
  BY DEF Places, Lists
<1>2. \A h \in Progs, k \in {"new", "old"} : EntriesOf(new, old, h, k, p) = {}
  BY <1>1 DEF EntriesOf
<1>3. EntriesIn(new, old, Progs, p) = {}
  BY <1>2, InEntries
<1>4. QED
  BY <1>3, FS_EmptySet DEF Total

LEMMA TotalOfEmptyLists ==
  ASSUME NEW p, NEW new, NEW old, \A h \in Progs : new[h] = <<>> /\ old[h] = <<>>
  PROVE  Total(new, old, p) = 0
<1>1. ~Lists(<<>>, p)
  BY DEF Lists
<1>2. QED
  BY <1>1, TotalUnlisted

----------------------------------------------------------------------------
\* The helpers of proc_pmt() keep a map in order.

LEMMA BoundFinite ==
  ASSUME NEW mm, NEW d
  PROVE  IsFiniteSet(Bound(mm, d)) /\ Cardinality(Bound(mm, d)) \in Nat
<1>1. Bound(mm, d) \in SUBSET PIDs
  BY DEF Bound
<1>2. IsFiniteSet(Bound(mm, d))
  BY <1>1, PidAssumption, FS_Subset
<1>3. QED
  BY <1>2, FS_CardinalityType

LEMMA KindsOfPids ==
  /\ \A p \in ECMs : p \in PIDs /\ p # None /\ p \notin StreamPIDs \cup Progs \cup EMMs
  /\ \A p \in StreamPIDs : p \in PIDs /\ p \notin ECMs \cup Progs \cup EMMs
  /\ \A p \in EMMs : p \in PIDs /\ p \notin StreamPIDs \cup Progs \cup ECMs
  /\ \A p \in Progs : p \in PIDs /\ p \notin StreamPIDs \cup EMMs \cup ECMs
  /\ None \notin Decs
  BY PidAssumption DEF StreamPIDs

LEMMA MapFields ==
  ASSUME NEW mm \in MapType
  PROVE  /\ mm.type \in [PIDs -> Kinds] /\ mm.count \in [PIDs -> Nat]
         /\ mm.target \in [PIDs -> Decs \cup {None}]
         /\ mm.ecm \in [Decs -> ECMs \cup {None}] /\ mm.uses \in [Decs -> Nat]
         /\ mm = [type |-> mm.type, count |-> mm.count, target |-> mm.target,
                  ecm |-> mm.ecm, uses |-> mm.uses]
  BY DEF MapType

\* The map only says the same as before about what MapOK speaks of.
LEMMA CountsAreFree ==
  ASSUME NEW mm, NEW h, MapOK(mm, h), NEW c \in [PIDs -> Nat], NEW n, n = [mm EXCEPT !.count = c]
  PROVE  /\ MapOK(n, h) /\ n.count = c /\ n.type = mm.type /\ n.target = mm.target
         /\ Alive(n) = Alive(mm) /\ \A x : InUseBut(mm, x) => InUseBut(n, x)
<1>1. /\ n \in MapType /\ n.count = c
      /\ n.type = mm.type /\ n.target = mm.target /\ n.ecm = mm.ecm /\ n.uses = mm.uses
  BY DEF MapOK, MapType
<1>2. Alive(n) = Alive(mm) /\ \A d : Bound(n, d) = Bound(mm, d)
  BY <1>1 DEF Alive, Bound
<1>3. KindsApart(n) /\ TargetsAlive(n) /\ Served(n)
  BY <1>1, <1>2 DEF MapOK, KindsApart, TargetsAlive, Served
<1>4. UsesAre(n, h)
  BY <1>1, <1>2 DEF MapOK, UsesAre
<1>5. QED
  BY <1>1, <1>2, <1>3, <1>4 DEF MapOK, InUseBut

\* set_decryptor().
LEMMA SetDecryptorOK ==
  ASSUME NEW mm, NEW h, MapOK(mm, h), InUseBut(mm, None),
         NEW p \in ECMs, NEW d \in DecryptorFor(mm, p), NEW n, n = SetDecryptor(mm, p, d)
  PROVE  /\ MapOK(n, h) /\ InUseBut(n, d) /\ d \in Alive(n)
         /\ n.count = mm.count /\ n.type[p] = "ECM" /\ n.target[p] = d
         /\ \A q \in PIDs : q # p => n.type[q] = mm.type[q] /\ n.target[q] = mm.target[q]
<1>1. CASE HasDecryptor(mm, p)
  <2>1. n = mm /\ d = mm.target[p] /\ mm.type[p] = "ECM" /\ d # None
    BY <1>1 DEF SetDecryptor, DecryptorFor, HasDecryptor
  <2>2. d \in Alive(mm)
    BY <2>1, KindsOfPids DEF MapOK, TargetsAlive
  <2>3. InUseBut(n, d)
    BY <2>1, KindsOfPids DEF InUseBut, Alive
  <2>4. QED
    BY <2>1, <2>2, <2>3
<1>2. CASE ~HasDecryptor(mm, p)
  <2>1. d \in Decs /\ d \notin Alive(mm)
    BY <1>2 DEF DecryptorFor
  <2>2. p \in PIDs /\ p # None /\ mm.type[p] # "OTHER" /\ mm.target[p] = None /\ mm.type[p] # "ECM"
    <3>1. p \in PIDs /\ p # None /\ mm.type[p] \in {"UNKNOWN", "ECM"}
      BY KindsOfPids DEF MapOK, KindsApart
    <3>2. mm.type[p] = "ECM" => mm.target[p] \in Decs
      BY <3>1 DEF MapOK, Served, Alive
    <3>3. mm.type[p] # "ECM"
      BY <1>2, <3>2, KindsOfPids DEF HasDecryptor
    <3>4. QED
      BY <3>1, <3>3 DEF MapOK, KindsApart
  <2>3. n = [mm EXCEPT !.ecm[d] = p, !.uses[d] = 0, !.type[p] = "ECM", !.target[p] = d]
    BY <1>2, <2>1, <2>2 DEF SetDecryptor, DropTarget, MapOK, MapType
  <2>4. /\ n \in MapType
        /\ n.count = mm.count
        /\ n.type = [mm.type EXCEPT ![p] = "ECM"] /\ n.target = [mm.target EXCEPT ![p] = d]
        /\ n.ecm = [mm.ecm EXCEPT ![d] = p] /\ n.uses = [mm.uses EXCEPT ![d] = 0]
        /\ mm.type \in [PIDs -> Kinds] /\ mm.target \in [PIDs -> Decs \cup {None}]
        /\ mm.ecm \in [Decs -> ECMs \cup {None}] /\ mm.uses \in [Decs -> Nat]
    <3>1. mm \in MapType
      BY DEF MapOK
    <3>2. n = [type |-> [mm.type EXCEPT ![p] = "ECM"], count |-> mm.count,
               target |-> [mm.target EXCEPT ![p] = d],
               ecm |-> [mm.ecm EXCEPT ![d] = p], uses |-> [mm.uses EXCEPT ![d] = 0]]
      BY <2>3, <3>1 DEF MapType
    <3>3. /\ [mm.type EXCEPT ![p] = "ECM"] \in [PIDs -> Kinds]
          /\ [mm.target EXCEPT ![p] = d] \in [PIDs -> Decs \cup {None}]
          /\ [mm.ecm EXCEPT ![d] = p] \in [Decs -> ECMs \cup {None}]
          /\ [mm.uses EXCEPT ![d] = 0] \in [Decs -> Nat]
      BY <2>1, <2>2, <3>1, MapFields DEF Kinds
    <3>4. QED
      BY <3>1, <3>2, <3>3, MapFields DEF MapType
  <2>5. Alive(n) = Alive(mm) \cup {d}
    BY <2>1, <2>2, <2>4 DEF Alive
  <2>6. \A x : Bound(n, x) = Bound(mm, x)
    BY <2>2, <2>4 DEF Bound
  <2>7. KindsApart(n)
    BY <2>2, <2>4, KindsOfPids DEF MapOK, KindsApart
  <2>8. TargetsAlive(n)
    BY <2>4, <2>5 DEF MapOK, TargetsAlive
  <2>9. Served(n)
    BY <2>1, <2>2, <2>4, <2>5 DEF MapOK, Served
  <2>10. UsesAre(n, h)
    <3>1. Bound(n, d) = {} /\ h # d
      BY <2>1, <2>6, KindsOfPids DEF MapOK, TargetsAlive, Bound
    <3>2. n.uses[d] = Cardinality(Bound(n, d)) + One(h = d)
      BY <2>1, <2>4, <3>1, FS_EmptySet DEF One
    <3>3. \A x \in Alive(mm) : n.uses[x] = mm.uses[x]
      BY <2>1, <2>4 DEF Alive
    <3>4. QED
      BY <2>5, <2>6, <3>2, <3>3 DEF MapOK, UsesAre
  <2>11. InUseBut(n, d)
    BY <2>1, <2>4, <2>5, KindsOfPids DEF InUseBut, Alive
  <2>12. h \in Alive(n) \cup {None}
    BY <2>5 DEF MapOK
  <2>13. QED
    BY <2>2, <2>4, <2>5, <2>7, <2>8, <2>9, <2>10, <2>11, <2>12 DEF MapOK
<1>3. QED
  BY <1>1, <1>2

\* What a step leaves alone: what the map says of the PIDs outside P, except
\* that an ECM PID is given up together with its decryptor.
SameBut(mm, n, P) ==
  /\ \A q \in PIDs \ (P \cup ECMs) : n.type[q] = mm.type[q] /\ n.target[q] = mm.target[q]
  /\ \A q \in ECMs \ P : mm.target[q] \in Alive(n) =>
       n.type[q] = mm.type[q] /\ n.target[q] = mm.target[q]

\* dec[0]->ref += 1.
LEMMA HoldOK ==
  ASSUME NEW mm, NEW d, MapOK(mm, None), InUseBut(mm, d), d \in Alive(mm),
         NEW n, n = Hold(mm, d)
  PROVE  /\ MapOK(n, d) /\ InUseBut(n, None) /\ Alive(n) = Alive(mm)
         /\ n.count = mm.count /\ n.type = mm.type /\ n.target = mm.target
<1>1. mm \in MapType /\ d \in Decs /\ d # None
  BY KindsOfPids DEF MapOK, Alive
<1>2. n = [mm EXCEPT !.uses[d] = @ + 1]
  BY <1>1 DEF Hold
<1>3. /\ n \in MapType /\ n.count = mm.count /\ n.type = mm.type
      /\ n.target = mm.target /\ n.ecm = mm.ecm
      /\ n.uses = [mm.uses EXCEPT ![d] = mm.uses[d] + 1]
  BY <1>1, <1>2 DEF MapType
<1>4. Alive(n) = Alive(mm) /\ \A x : Bound(n, x) = Bound(mm, x)
  BY <1>3 DEF Alive, Bound
<1>5. KindsApart(n) /\ TargetsAlive(n) /\ Served(n)
  BY <1>3, <1>4 DEF MapOK, KindsApart, TargetsAlive, Served
<1>6. \A x \in Alive(mm) : x \in Decs /\ mm.uses[x] \in Nat
  BY <1>1, MapFields DEF Alive
<1>7. \A x \in Alive(mm) : n.uses[x] = IF x = d THEN mm.uses[x] + 1 ELSE mm.uses[x]
  BY <1>1, <1>3, <1>6, MapFields
<1>8. UsesAre(n, d)
  <2> SUFFICES ASSUME NEW x \in Alive(mm)
               PROVE  n.uses[x] = Cardinality(Bound(mm, x)) + One(d = x)
    BY <1>4 DEF UsesAre
  <2>1. Cardinality(Bound(mm, x)) \in Nat
    BY BoundFinite
  <2>2. mm.uses[x] = Cardinality(Bound(mm, x)) + 0
    BY <1>6, KindsOfPids DEF MapOK, UsesAre, One
  <2>3. QED
    BY <1>7, <2>1, <2>2 DEF One
<1>9. InUseBut(n, None)
  BY <1>4, <1>6, <1>7 DEF InUseBut
<1>10. QED
  BY <1>3, <1>4, <1>5, <1>8, <1>9 DEF MapOK

\* remove_decryptor().
LEMMA RemoveOK ==
  ASSUME NEW mm \in MapType, KindsApart(mm), Served(mm), NEW d \in Alive(mm),
         NEW n, n = RemoveDecryptor(mm, d)
  PROVE  /\ n \in MapType /\ KindsApart(n) /\ Served(n)
         /\ Alive(n) = Alive(mm) \ {d}
         /\ n.count = mm.count
         /\ \A q \in ECMs : n.target[q] # d /\ n.target[q] \in {mm.target[q], None}
         /\ \A x \in Alive(n) : n.uses[x] = mm.uses[x]
         /\ SameBut(mm, n, {})
<1> DEFINE p == mm.ecm[d]
           own == p # None /\ mm.type[p] = "ECM" /\ mm.target[p] = d
           ty == IF own THEN [mm.type EXCEPT ![p] = "UNKNOWN"] ELSE mm.type
           ta == IF own THEN [mm.target EXCEPT ![p] = None] ELSE mm.target
<1>1. d \in Decs /\ p # None /\ p \in ECMs /\ p \in PIDs /\ d # None
  BY MapFields, KindsOfPids DEF Alive
<1>2. n = [mm EXCEPT !.type = ty, !.target = ta, !.ecm[d] = None, !.uses[d] = 0]
  BY DEF RemoveDecryptor
<1>3. /\ mm.type \in [PIDs -> Kinds] /\ mm.target \in [PIDs -> Decs \cup {None}]
      /\ mm.ecm \in [Decs -> ECMs \cup {None}] /\ mm.uses \in [Decs -> Nat]
  BY MapFields
<1>4. ty \in [PIDs -> Kinds] /\ ta \in [PIDs -> Decs \cup {None}]
  BY <1>3 DEF Kinds
<1>5. /\ \A q \in PIDs : ty[q] = IF own /\ q = p THEN "UNKNOWN" ELSE mm.type[q]
      /\ \A q \in PIDs : ta[q] = IF own /\ q = p THEN None ELSE mm.target[q]
  BY <1>3
<1> HIDE DEF ty, ta
<1>6. /\ n \in MapType /\ n.count = mm.count /\ n.type = ty /\ n.target = ta
      /\ n.ecm = [mm.ecm EXCEPT ![d] = None] /\ n.uses = [mm.uses EXCEPT ![d] = 0]
  <2>1. n = [type |-> ty, count |-> mm.count, target |-> ta,
             ecm |-> [mm.ecm EXCEPT ![d] = None], uses |-> [mm.uses EXCEPT ![d] = 0]]
    <3> HIDE DEF own
    <3>1. QED
      BY <1>2 DEF MapType
  <2>2. /\ [mm.ecm EXCEPT ![d] = None] \in [Decs -> ECMs \cup {None}]
        /\ [mm.uses EXCEPT ![d] = 0] \in [Decs -> Nat]
    BY <1>3
  <2>3. QED
    BY <1>4, <2>1, <2>2, MapFields DEF MapType
<1>7. Alive(n) = Alive(mm) \ {d}
  BY <1>1, <1>3, <1>6 DEF Alive
<1>8. \A q \in ECMs : mm.target[q] = d => own /\ q = p
  BY <1>1, KindsOfPids DEF KindsApart, Served
<1>9. KindsApart(n)
  BY <1>1, <1>5, <1>6, KindsOfPids DEF KindsApart
<1>10. Served(n)
  <2> SUFFICES ASSUME NEW q \in PIDs, ty[q] = "ECM"
               PROVE  ta[q] \in Alive(n) /\ n.ecm[ta[q]] = q
    BY <1>6 DEF Served
  <2>1. mm.type[q] = "ECM" /\ ty[q] = mm.type[q] /\ ta[q] = mm.target[q]
    BY <1>5
  <2>2. mm.target[q] \in Alive(mm) /\ mm.ecm[mm.target[q]] = q
    BY <2>1 DEF Served
  <2>3. mm.target[q] # d
    BY <1>1, <1>5, <2>1, <2>2
  <2>4. QED
    BY <1>3, <1>6, <1>7, <2>1, <2>2, <2>3 DEF Alive
<1>11. \A q \in ECMs : n.target[q] # d /\ n.target[q] \in {mm.target[q], None}
  BY <1>1, <1>5, <1>6, <1>8, KindsOfPids
<1>12. \A x \in Alive(n) : n.uses[x] = mm.uses[x]
  BY <1>3, <1>6, <1>7 DEF Alive
<1>13. SameBut(mm, n, {})
  BY <1>1, <1>5, <1>6, <1>7, KindsOfPids DEF SameBut
<1>14. QED
  BY <1>6, <1>7, <1>9, <1>10, <1>11, <1>12, <1>13

\* dec->ref -= 1 and what follows: a decryptor goes with its last user.
LEMMA DropUseOK ==
  ASSUME NEW mm \in MapType, KindsApart(mm), Served(mm), NEW d \in Alive(mm), mm.uses[d] > 0,
         NEW n, n = DropUse(mm, d)
  PROVE  /\ n \in MapType /\ KindsApart(n) /\ Served(n)
         /\ n.count = mm.count
         /\ Alive(n) = IF mm.uses[d] = 1 THEN Alive(mm) \ {d} ELSE Alive(mm)
         /\ \A q \in ECMs : n.target[q] \in {mm.target[q], None}
         /\ \A q \in ECMs : mm.uses[d] = 1 => n.target[q] # d
         /\ \A x \in Alive(n) : n.uses[x] = mm.uses[x] - One(x = d)
         /\ SameBut(mm, n, {})
<1> DEFINE less == [mm EXCEPT !.uses[d] = @ - 1]
<1>1. d \in Decs /\ mm.uses[d] \in Nat
  BY MapFields DEF Alive
<1>2. /\ less \in MapType /\ less.count = mm.count /\ less.type = mm.type
      /\ less.target = mm.target /\ less.ecm = mm.ecm
      /\ less.uses = [mm.uses EXCEPT ![d] = mm.uses[d] - 1]
  BY <1>1 DEF MapType
<1>3. /\ \A x \in Decs : less.uses[x] = mm.uses[x] - One(x = d)
      /\ Alive(less) = Alive(mm)
  BY <1>1, <1>2, MapFields DEF One, Alive
<1>4. n = IF less.uses[d] < 1 THEN RemoveDecryptor(less, d) ELSE less
  BY DEF DropUse
<1> HIDE DEF less
<1>5. KindsApart(less) /\ Served(less)
  BY <1>2, <1>3 DEF KindsApart, Served
<1>6. CASE mm.uses[d] = 1
  <2>1. n = RemoveDecryptor(less, d)
    BY <1>1, <1>3, <1>4, <1>6 DEF One
  <2>2. /\ n \in MapType /\ KindsApart(n) /\ Served(n)
        /\ Alive(n) = Alive(less) \ {d}
        /\ n.count = less.count
        /\ \A q \in ECMs : n.target[q] # d /\ n.target[q] \in {less.target[q], None}
        /\ \A x \in Alive(n) : n.uses[x] = less.uses[x]
        /\ SameBut(less, n, {})
    BY <1>2, <1>3, <1>5, <2>1, RemoveOK
  <2>3. SameBut(mm, n, {})
    BY <1>2, <2>2 DEF SameBut
  <2>4. QED
    BY <1>2, <1>3, <1>6, <2>2, <2>3 DEF Alive
<1>7. CASE mm.uses[d] # 1
  <2>1. n = less
    BY <1>1, <1>3, <1>4, <1>7 DEF One
  <2>2. SameBut(mm, n, {})
    BY <1>2, <2>1 DEF SameBut
  <2>3. QED
    BY <1>2, <1>3, <1>5, <1>7, <2>1, <2>2 DEF Alive
<1>8. QED
  BY <1>6, <1>7

\* proc_pmt() gives its hold back.
LEMMA ReleaseHoldOK ==
  ASSUME NEW mm, NEW d, d # None, MapOK(mm, d), InUseBut(mm, None),
         NEW n, n = DropUse(mm, d)
  PROVE  /\ MapOK(n, None) /\ InUseBut(n, None)
         /\ n.count = mm.count /\ SameBut(mm, n, {})
<1>1. mm \in MapType /\ KindsApart(mm) /\ Served(mm) /\ d \in Alive(mm)
  BY DEF MapOK
<1>2. \A x \in Alive(mm) : x \in Decs /\ mm.uses[x] \in Nat /\ mm.uses[x] > 0
  BY <1>1, MapFields, KindsOfPids DEF Alive, InUseBut
<1>3. /\ n \in MapType /\ KindsApart(n) /\ Served(n) /\ n.count = mm.count
      /\ Alive(n) = IF mm.uses[d] = 1 THEN Alive(mm) \ {d} ELSE Alive(mm)
      /\ \A q \in ECMs : n.target[q] \in {mm.target[q], None}
      /\ \A q \in ECMs : mm.uses[d] = 1 => n.target[q] # d
      /\ \A x \in Alive(n) : n.uses[x] = mm.uses[x] - One(x = d)
      /\ SameBut(mm, n, {})
  BY <1>1, <1>2, DropUseOK
<1>4. \A x : Bound(n, x) = Bound(mm, x)
  BY <1>1, <1>3, KindsOfPids DEF Bound, SameBut, KindsApart
<1>5. \A x \in Alive(mm) : /\ mm.uses[x] = Cardinality(Bound(mm, x)) + One(d = x)
                           /\ Cardinality(Bound(mm, x)) \in Nat
  BY BoundFinite DEF MapOK, UsesAre
<1>6. mm.uses[d] = 1 => \A q \in PIDs : mm.type[q] = "OTHER" => mm.target[q] # d
  <2>1. mm.uses[d] = 1 => Cardinality(Bound(mm, d)) = 0
    BY <1>1, <1>5 DEF One
  <2>2. mm.uses[d] = 1 => Bound(mm, d) = {}
    BY <2>1, BoundFinite, FS_EmptySet
  <2>3. QED
    BY <2>2 DEF Bound
<1>7. TargetsAlive(n)
  <2> SUFFICES ASSUME NEW q \in PIDs, n.target[q] # None PROVE n.target[q] \in Alive(n)
    BY DEF TargetsAlive
  <2>1. n.target[q] = mm.target[q]
    BY <1>3 DEF SameBut
  <2>2. mm.target[q] \in Alive(mm)
    BY <2>1 DEF MapOK, TargetsAlive
  <2>3. mm.uses[d] = 1 => n.target[q] # d
    <3>1. CASE q \in ECMs
      BY <1>3, <3>1
    <3>2. CASE q \notin ECMs
      <4>1. mm.type[q] = "OTHER"
        BY <1>1, <2>1, <3>2, KindsOfPids DEF KindsApart, StreamPIDs
      <4>2. QED
        BY <1>6, <2>1, <4>1
    <3>3. QED
      BY <3>1, <3>2
  <2>4. QED
    BY <1>3, <2>1, <2>2, <2>3
<1>8. UsesAre(n, None)
  <2> SUFFICES ASSUME NEW x \in Alive(n)
               PROVE  n.uses[x] = Cardinality(Bound(n, x)) + One(None = x)
    BY DEF UsesAre
  <2>1. x \in Alive(mm) /\ x # None
    BY <1>2, <1>3, KindsOfPids
  <2>2. QED
    BY <1>3, <1>4, <1>5, <2>1 DEF One
<1>9. InUseBut(n, None)
  BY <1>2, <1>3 DEF InUseBut, One
<1>10. QED
  BY <1>3, <1>7, <1>8, <1>9 DEF MapOK

\* A stream leaves its decryptor: what bind_stream_decryptor() and
\* unref_stream() have in common.
Unbind(mm, p, t) == [DropTarget(mm, p) EXCEPT !.type[p] = t, !.target[p] = None]

LEMMA UnbindOK ==
  ASSUME NEW mm, NEW h, MapOK(mm, h), NEW x, InUseBut(mm, x), x = None \/ x \in Alive(mm),
         NEW p \in StreamPIDs, mm.target[p] # x \/ x = None,
         NEW t \in {"OTHER", "UNKNOWN"},
         NEW n, n = Unbind(mm, p, t)
  PROVE  /\ MapOK(n, h) /\ InUseBut(n, x) /\ x \in Alive(n) \cup {None}
         /\ n.count = mm.count /\ n.type[p] = t /\ n.target[p] = None
         /\ SameBut(mm, n, {p})
<1>1. /\ mm \in MapType /\ KindsApart(mm) /\ Served(mm) /\ TargetsAlive(mm)
      /\ p \in PIDs /\ p \notin ECMs /\ h \in Alive(mm) \cup {None}
  BY KindsOfPids DEF MapOK
<1>2. PICK d : d = mm.target[p]
  OBVIOUS
<1>3. PICK r : r = DropTarget(mm, p)
  OBVIOUS
<1>4. d # None => mm.type[p] = "OTHER" /\ d \in Alive(mm) /\ d # x
  BY <1>1, <1>2, KindsOfPids DEF KindsApart, TargetsAlive
<1>5. r = IF d = None THEN mm ELSE DropUse(mm, d)
  BY <1>2, <1>3, <1>4 DEF DropTarget
<1>6. d # None => mm.uses[d] > 0
  BY <1>4 DEF InUseBut
<1>7. /\ r \in MapType /\ KindsApart(r) /\ Served(r) /\ r.count = mm.count
      /\ Alive(r) = IF d # None /\ mm.uses[d] = 1 THEN Alive(mm) \ {d} ELSE Alive(mm)
      /\ \A q \in ECMs : r.target[q] \in {mm.target[q], None}
      /\ \A q \in ECMs : d # None /\ mm.uses[d] = 1 => r.target[q] # d
      /\ \A y \in Alive(r) : r.uses[y] = mm.uses[y] - One(y = d)
      /\ SameBut(mm, r, {})
  <2>1. CASE d = None
    <3>1. \A y \in Alive(mm) : mm.uses[y] \in Nat /\ y # None
      BY <1>1, MapFields, KindsOfPids DEF Alive
    <3>2. r = mm
      BY <1>5, <2>1
    <3>3. \A y \in Alive(r) : r.uses[y] = mm.uses[y] - One(y = d)
      BY <2>1, <3>1, <3>2 DEF One
    <3>4. SameBut(mm, r, {})
      BY <3>2 DEF SameBut
    <3>5. QED
      BY <1>1, <2>1, <3>2, <3>3, <3>4
  <2>2. CASE d # None
    BY <1>1, <1>4, <1>5, <1>6, <2>2, DropUseOK
  <2>3. QED
    BY <2>1, <2>2
<1>8. /\ n \in MapType /\ n.count = r.count
      /\ n.type = [r.type EXCEPT ![p] = t] /\ n.target = [r.target EXCEPT ![p] = None]
      /\ n.ecm = r.ecm /\ n.uses = r.uses
  BY <1>1, <1>3, <1>7 DEF Unbind, MapType, Kinds
<1>9. Alive(n) = Alive(r)
  BY <1>8 DEF Alive
<1>10. n.type[p] = t /\ n.target[p] = None /\ SameBut(mm, n, {p})
  <2>1. \A q \in PIDs \ {p} : n.type[q] = r.type[q] /\ n.target[q] = r.target[q]
    BY <1>7, <1>8, MapFields
  <2>2. n.type[p] = t /\ n.target[p] = None
    BY <1>1, <1>7, <1>8, MapFields
  <2>3. \A q \in ECMs : q \in PIDs \ {p}
    BY <1>1, KindsOfPids
  <2>4. QED
    BY <1>7, <1>9, <2>1, <2>2, <2>3 DEF SameBut
<1>11. \A q \in PIDs \ {p} : n.type[q] = r.type[q] /\ n.target[q] = r.target[q]
  BY <1>7, <1>8, MapFields
<1>12. KindsApart(n)
  BY <1>1, <1>7, <1>10, <1>11, KindsOfPids DEF KindsApart
<1>13. Served(n)
  BY <1>7, <1>8, <1>9, <1>10, <1>11 DEF Served
<1>14. \A y \in Alive(mm) : Bound(n, y) = IF y = d THEN Bound(mm, y) \ {p} ELSE Bound(mm, y)
  <2> SUFFICES ASSUME NEW y \in Alive(mm), NEW q \in PIDs
               PROVE  q \in Bound(n, y) <=> q \in Bound(mm, y) /\ (q # p)
    BY <1>2, <1>4 DEF Bound
  <2>1. y # None
    BY KindsOfPids DEF Alive
  <2>2. CASE q = p
    BY <1>10, <2>1, <2>2 DEF Bound
  <2>3. CASE q # p /\ q \in ECMs
    BY <1>1, <1>12, <2>3, KindsOfPids DEF Bound, KindsApart
  <2>4. CASE q # p /\ q \notin ECMs
    BY <1>10, <2>4 DEF Bound, SameBut
  <2>5. QED
    BY <2>2, <2>3, <2>4
<1>15. \A y \in Alive(mm) : /\ mm.uses[y] = Cardinality(Bound(mm, y)) + One(h = y)
                            /\ Cardinality(Bound(mm, y)) \in Nat
                            /\ Cardinality(Bound(n, y)) = Cardinality(Bound(mm, y)) - One(y = d)
  <2> SUFFICES ASSUME NEW y \in Alive(mm)
               PROVE  /\ mm.uses[y] = Cardinality(Bound(mm, y)) + One(h = y)
                      /\ Cardinality(Bound(mm, y)) \in Nat
                      /\ Cardinality(Bound(n, y)) = Cardinality(Bound(mm, y)) - One(y = d)
    OBVIOUS
  <2>1. IsFiniteSet(Bound(mm, y)) /\ Cardinality(Bound(mm, y)) \in Nat
    BY BoundFinite
  <2>2. y = d => p \in Bound(mm, y)
    BY <1>1, <1>2, <1>4, KindsOfPids DEF Bound, Alive
  <2>3. Cardinality(Bound(n, y)) = Cardinality(Bound(mm, y)) - One(y = d)
    BY <1>14, <2>1, <2>2, FS_RemoveElement DEF One
  <2>4. QED
    BY <2>1, <2>3 DEF MapOK, UsesAre
<1>16. UsesAre(n, h)
  <2> SUFFICES ASSUME NEW y \in Alive(n)
               PROVE  n.uses[y] = Cardinality(Bound(n, y)) + One(h = y)
    BY DEF UsesAre
  <2>1. y \in Alive(mm) /\ n.uses[y] = mm.uses[y] - One(y = d)
    BY <1>7, <1>8, <1>9
  <2>2. QED
    BY <1>15, <2>1 DEF One
<1>17. d # None /\ mm.uses[d] = 1 => Bound(n, d) = {} /\ h # d
  <2> SUFFICES ASSUME d # None, mm.uses[d] = 1 PROVE Bound(n, d) = {} /\ h # d
    OBVIOUS
  <2>1. /\ 1 = Cardinality(Bound(mm, d)) + One(h = d)
        /\ Cardinality(Bound(n, d)) = Cardinality(Bound(mm, d)) - 1
        /\ Cardinality(Bound(mm, d)) \in Nat /\ Cardinality(Bound(n, d)) \in Nat
    BY <1>4, <1>15, BoundFinite DEF One
  <2>2. Cardinality(Bound(n, d)) = 0 /\ h # d
    BY <2>1 DEF One
  <2>3. QED
    BY <2>2, BoundFinite, FS_EmptySet
<1>18. TargetsAlive(n)
  <2> SUFFICES ASSUME NEW q \in PIDs, n.target[q] # None PROVE n.target[q] \in Alive(n)
    BY DEF TargetsAlive
  <2>1. q # p /\ n.target[q] = r.target[q]
    BY <1>10, <1>11
  <2>2. n.target[q] = mm.target[q]
    BY <1>7, <2>1 DEF SameBut
  <2>3. n.target[q] \in Alive(mm)
    BY <1>1, <2>2 DEF TargetsAlive
  <2>4. ASSUME d # None, mm.uses[d] = 1 PROVE n.target[q] # d
    <3>1. CASE q \in ECMs
      BY <1>7, <2>1, <2>4, <3>1
    <3>2. CASE q \notin ECMs
      <4>1. n.type[q] = "OTHER"
        BY <1>12, <3>2, KindsOfPids DEF KindsApart, StreamPIDs
      <4>2. QED
        BY <1>17, <2>4, <4>1 DEF Bound
    <3>3. QED
      BY <3>1, <3>2
  <2>5. QED
    BY <1>7, <1>9, <2>3, <2>4
<1>19. h \in Alive(n) \cup {None} /\ x \in Alive(n) \cup {None}
  BY <1>1, <1>4, <1>7, <1>9, <1>17
<1>20. InUseBut(n, x)
  <2> SUFFICES ASSUME NEW y \in Alive(n), y # x PROVE n.uses[y] > 0
    BY DEF InUseBut
  <2>1. y \in Alive(mm) /\ n.uses[y] = mm.uses[y] - One(y = d) /\ mm.uses[y] > 0
    BY <1>7, <1>8, <1>9 DEF InUseBut
  <2>2. mm.uses[y] \in Nat /\ (y = d => mm.uses[y] # 1)
    BY <1>1, <1>7, <1>9, <2>1, MapFields, KindsOfPids DEF Alive
  <2>3. QED
    BY <2>1, <2>2 DEF One
<1>21. QED
  BY <1>7, <1>8, <1>10, <1>12, <1>13, <1>16, <1>18, <1>19, <1>20 DEF MapOK

\* A PID becomes a stream.
Mark(mm, p) == [mm EXCEPT !.type[p] = "OTHER"]

LEMMA MarkOK ==
  ASSUME NEW mm, NEW h, MapOK(mm, h), NEW x, InUseBut(mm, x), NEW p \in StreamPIDs,
         NEW n, n = Mark(mm, p)
  PROVE  /\ MapOK(n, h) /\ InUseBut(n, x) /\ Alive(n) = Alive(mm) /\ n.count = mm.count
         /\ n.type[p] = "OTHER" /\ n.target = mm.target
         /\ \A q \in PIDs : q # p => n.type[q] = mm.type[q]
<1>1. /\ mm \in MapType /\ KindsApart(mm) /\ p \in PIDs /\ p \notin ECMs \cup Progs \cup EMMs
  BY KindsOfPids DEF MapOK
<1>2. /\ n \in MapType /\ n.count = mm.count /\ n.target = mm.target
      /\ n.type = [mm.type EXCEPT ![p] = "OTHER"] /\ n.ecm = mm.ecm /\ n.uses = mm.uses
  BY <1>1 DEF MapType, Kinds, Mark
<1>3. /\ n.type[p] = "OTHER" /\ \A q \in PIDs : q # p => n.type[q] = mm.type[q]
      /\ Alive(n) = Alive(mm)
  BY <1>1, <1>2, MapFields DEF Alive
<1>4. KindsApart(n)
  BY <1>1, <1>2, <1>3, KindsOfPids DEF KindsApart
<1>5. TargetsAlive(n) /\ Served(n)
  BY <1>2, <1>3 DEF MapOK, TargetsAlive, Served
<1>6. \A d \in Alive(n) : Bound(n, d) = Bound(mm, d)
  <2> SUFFICES ASSUME NEW d \in Alive(n), NEW q \in PIDs
               PROVE  q \in Bound(n, d) <=> q \in Bound(mm, d)
    BY DEF Bound
  <2>1. d # None
    BY KindsOfPids DEF Alive
  <2>2. CASE q = p
    BY <1>1, <1>2, <1>3, <2>1, <2>2, KindsOfPids DEF Bound, KindsApart
  <2>3. CASE q # p
    BY <1>2, <1>3, <2>3 DEF Bound
  <2>4. QED
    BY <2>2, <2>3
<1>7. UsesAre(n, h) /\ InUseBut(n, x)
  BY <1>2, <1>3, <1>6 DEF MapOK, UsesAre, InUseBut
<1>8. QED
  BY <1>2, <1>3, <1>4, <1>5, <1>7 DEF MapOK

\* An ECM PID that no list names any more is given up; its decryptor stays as
\* long as it has streams.
GiveUp(mm, p) == [mm EXCEPT !.type[p] = "UNKNOWN", !.target[p] = None]

LEMMA GiveUpEcmOK ==
  ASSUME NEW mm, NEW h, MapOK(mm, h), NEW x, InUseBut(mm, x), NEW p \in ECMs,
         NEW n, n = GiveUp(mm, p)
  PROVE  /\ MapOK(n, h) /\ InUseBut(n, x) /\ Alive(n) = Alive(mm) /\ n.count = mm.count
         /\ n.type[p] = "UNKNOWN" /\ n.target[p] = None /\ SameBut(mm, n, {p})
<1>1. mm \in MapType /\ KindsApart(mm) /\ p \in PIDs /\ p \notin StreamPIDs \cup Progs \cup EMMs
  BY KindsOfPids DEF MapOK
<1>2. /\ n \in MapType /\ n.count = mm.count
      /\ n.type = [mm.type EXCEPT ![p] = "UNKNOWN"] /\ n.target = [mm.target EXCEPT ![p] = None]
      /\ n.ecm = mm.ecm /\ n.uses = mm.uses
  BY <1>1 DEF MapType, Kinds, GiveUp
<1>3. /\ n.type[p] = "UNKNOWN" /\ n.target[p] = None
      /\ \A q \in PIDs : q # p => n.type[q] = mm.type[q] /\ n.target[q] = mm.target[q]
      /\ Alive(n) = Alive(mm)
  BY <1>1, <1>2, MapFields DEF Alive
<1>4. KindsApart(n)
  BY <1>1, <1>3, KindsOfPids DEF KindsApart
<1>5. TargetsAlive(n) /\ Served(n)
  BY <1>2, <1>3 DEF MapOK, TargetsAlive, Served
<1>6. \A d : Bound(n, d) = Bound(mm, d)
  <2> SUFFICES ASSUME NEW d, NEW q \in PIDs
               PROVE  q \in Bound(n, d) <=> q \in Bound(mm, d)
    BY DEF Bound
  <2>1. CASE q = p
    BY <1>1, <1>3, <2>1 DEF Bound, KindsApart
  <2>2. CASE q # p
    BY <1>3, <2>2 DEF Bound
  <2>3. QED
    BY <2>1, <2>2
<1>7. UsesAre(n, h) /\ InUseBut(n, x)
  BY <1>2, <1>3, <1>6 DEF MapOK, UsesAre, InUseBut
<1>8. SameBut(mm, n, {p})
  BY <1>3, KindsOfPids DEF SameBut
<1>9. QED
  BY <1>2, <1>3, <1>4, <1>5, <1>7, <1>8 DEF MapOK

\* A stream without a decryptor gets one.
Bind(mm, p, d) == [mm EXCEPT !.target[p] = d, !.uses[d] = @ + 1]

LEMMA BindOK ==
  ASSUME NEW mm, NEW h, MapOK(mm, h), NEW d \in Alive(mm), InUseBut(mm, d),
         NEW p \in StreamPIDs, mm.type[p] = "OTHER", mm.target[p] = None,
         NEW n, n = Bind(mm, p, d)
  PROVE  /\ MapOK(n, h) /\ InUseBut(n, None) /\ Alive(n) = Alive(mm)
         /\ n.count = mm.count /\ n.type = mm.type /\ n.target[p] = d
         /\ \A q \in PIDs : q # p => n.target[q] = mm.target[q]
<1>1. /\ mm \in MapType /\ KindsApart(mm) /\ d \in Decs /\ d # None
      /\ p \in PIDs /\ p \notin ECMs \cup Progs \cup EMMs
  BY KindsOfPids DEF MapOK, Alive
<1>2. /\ n \in MapType /\ n.count = mm.count /\ n.type = mm.type
      /\ n.target = [mm.target EXCEPT ![p] = d] /\ n.ecm = mm.ecm
      /\ n.uses = [mm.uses EXCEPT ![d] = mm.uses[d] + 1]
  <2>1. n = [type |-> mm.type, count |-> mm.count, target |-> [mm.target EXCEPT ![p] = d],
             ecm |-> mm.ecm, uses |-> [mm.uses EXCEPT ![d] = mm.uses[d] + 1]]
    BY <1>1 DEF Bind, MapType
  <2>2. /\ [mm.target EXCEPT ![p] = d] \in [PIDs -> Decs \cup {None}]
        /\ [mm.uses EXCEPT ![d] = mm.uses[d] + 1] \in [Decs -> Nat]
    BY <1>1, MapFields
  <2>3. QED
    BY <1>1, <2>1, <2>2, MapFields DEF MapType
<1>3. /\ n.target[p] = d /\ \A q \in PIDs : q # p => n.target[q] = mm.target[q]
      /\ Alive(n) = Alive(mm)
      /\ \A y \in Alive(mm) : n.uses[y] = mm.uses[y] + One(y = d) /\ mm.uses[y] \in Nat
  BY <1>1, <1>2, MapFields DEF Alive, One
<1>4. KindsApart(n)
  BY <1>1, <1>2, <1>3 DEF KindsApart
<1>5. TargetsAlive(n)
  BY <1>3 DEF MapOK, TargetsAlive
<1>6. Served(n)
  BY <1>1, <1>2, <1>3 DEF MapOK, Served
<1>7. \A y \in Alive(mm) : Bound(n, y) = IF y = d THEN Bound(mm, y) \cup {p} ELSE Bound(mm, y)
  BY <1>1, <1>2, <1>3, KindsOfPids DEF Bound, Alive
<1>8. UsesAre(n, h)
  <2> SUFFICES ASSUME NEW y \in Alive(mm)
               PROVE  n.uses[y] = Cardinality(Bound(n, y)) + One(h = y)
    BY <1>3 DEF UsesAre
  <2>1. /\ IsFiniteSet(Bound(mm, y)) /\ Cardinality(Bound(mm, y)) \in Nat
        /\ mm.uses[y] = Cardinality(Bound(mm, y)) + One(h = y)
    BY BoundFinite DEF MapOK, UsesAre
  <2>2. p \notin Bound(mm, y)
    BY KindsOfPids DEF Bound, Alive
  <2>3. Cardinality(Bound(n, y)) = Cardinality(Bound(mm, y)) + One(y = d)
    <3>1. CASE y = d
      BY <1>7, <2>1, <2>2, <3>1, FS_AddElement DEF One
    <3>2. CASE y # d
      BY <1>7, <2>1, <3>2 DEF One
    <3>3. QED
      BY <3>1, <3>2
  <2>4. QED
    BY <1>3, <2>1, <2>3 DEF One
<1>9. InUseBut(n, None)
  BY <1>3 DEF InUseBut, One
<1>10. QED
  BY <1>2, <1>3, <1>4, <1>5, <1>6, <1>8, <1>9 DEF MapOK

\* bind_stream_decryptor().
LEMMA BindStreamOK ==
  ASSUME NEW mm, NEW h, MapOK(mm, h), NEW d \in Alive(mm) \cup {None}, InUseBut(mm, d),
         NEW p \in StreamPIDs, mm.type[p] = "OTHER",
         NEW n, n = BindStream(mm, p, d)
  PROVE  /\ MapOK(n, h) /\ InUseBut(n, None)
         /\ n.count = mm.count /\ n.type[p] = "OTHER" /\ n.target[p] = d
         /\ SameBut(mm, n, {p})
<1>1. /\ mm \in MapType /\ KindsApart(mm) /\ p \in PIDs /\ p \notin ECMs
  BY KindsOfPids DEF MapOK
<1>2. PICK old : old = mm.target[p]
  OBVIOUS
<1>3. old # None => old \in Alive(mm)
  BY <1>1, <1>2 DEF MapOK, TargetsAlive
<1>4. CASE old = d
  <2>1. n = mm
    BY <1>2, <1>4 DEF BindStream
  <2>2. d # None => mm.uses[d] > 0
    <3> SUFFICES ASSUME d # None PROVE mm.uses[d] > 0
      OBVIOUS
    <3>1. p \in Bound(mm, d)
      BY <1>1, <1>2, <1>4 DEF Bound
    <3>2. Cardinality(Bound(mm, d)) # 0 /\ Cardinality(Bound(mm, d)) \in Nat
      BY <3>1, BoundFinite, FS_EmptySet
    <3>3. QED
      BY <3>2 DEF MapOK, UsesAre, One
  <2>3. InUseBut(n, None)
    BY <2>1, <2>2 DEF InUseBut
  <2>4. QED
    BY <1>2, <1>4, <2>1, <2>3 DEF SameBut
<1>5. CASE old # d
  <2>1. PICK u : u = Unbind(mm, p, "OTHER")
    OBVIOUS
  <2>2. /\ MapOK(u, h) /\ InUseBut(u, d) /\ d \in Alive(u) \cup {None}
        /\ u.count = mm.count /\ u.type[p] = "OTHER" /\ u.target[p] = None
        /\ SameBut(mm, u, {p})
    <3>1. /\ d = None \/ d \in Alive(mm)
          /\ mm.target[p] # d \/ d = None
          /\ "OTHER" \in {"OTHER", "UNKNOWN"}
      BY <1>2, <1>5
    <3>2. QED
      BY <2>1, <3>1, UnbindOK
  <2>3. PICK free :
          free = IF old = None THEN mm
                 ELSE [(IF mm.uses[old] - 1 = 0
                          THEN RemoveDecryptor([mm EXCEPT !.uses[old] = @ - 1], old)
                          ELSE [mm EXCEPT !.uses[old] = @ - 1]) EXCEPT !.target[p] = None]
    OBVIOUS
  <2>4. n = IF d = None THEN free ELSE [free EXCEPT !.target[p] = d, !.uses[d] = @ + 1]
    <3>1. PICK less : less = [mm EXCEPT !.uses[old] = @ - 1]
      OBVIOUS
    <3>2. old # None => less.uses[old] = mm.uses[old] - 1
      BY <1>1, <1>3, <3>1 DEF MapType, Alive
    <3>3. free = IF old = None THEN mm
                 ELSE [(IF less.uses[old] = 0 THEN RemoveDecryptor(less, old) ELSE less)
                         EXCEPT !.target[p] = None]
      BY <2>3, <3>1, <3>2, Zenon
    <3>4. QED
      BY <1>2, <1>5, <3>1, <3>3, ZenonT(60) DEF BindStream
  <2>5. free = u
    <3>1. CASE old = None
      <4>1. DropTarget(mm, p) = mm
        BY <1>2, <3>1 DEF DropTarget
      <4>2. u = [mm EXCEPT !.type[p] = "OTHER", !.target[p] = None]
        BY <2>1, <4>1 DEF Unbind
      <4>3. u = mm
        BY <1>1, <1>2, <3>1, <4>2 DEF MapType
      <4>4. QED
        BY <2>3, <3>1, <4>3
    <3>2. CASE old # None
      <4>1. old \in Decs /\ mm.uses[old] \in Nat /\ mm.uses[old] > 0
        BY <1>1, <1>3, <1>5, <3>2, MapFields DEF InUseBut, Alive
      <4>2. PICK r : r = DropUse(mm, old)
        OBVIOUS
      <4>3. r \in MapType /\ SameBut(mm, r, {})
        BY <1>1, <1>3, <3>2, <4>1, <4>2, DropUseOK DEF MapOK
      <4>4. r.type[p] = "OTHER"
        BY <1>1, <4>3 DEF SameBut
      <4>5. u = [r EXCEPT !.type[p] = "OTHER", !.target[p] = None]
        BY <1>2, <2>1, <3>2, <4>2 DEF Unbind, DropTarget
      <4>6. u = [r EXCEPT !.target[p] = None]
        BY <1>1, <4>3, <4>4, <4>5 DEF MapType
      <4>7. r = IF mm.uses[old] - 1 = 0
                  THEN RemoveDecryptor([mm EXCEPT !.uses[old] = @ - 1], old)
                  ELSE [mm EXCEPT !.uses[old] = @ - 1]
        <5>1. [mm EXCEPT !.uses[old] = @ - 1].uses[old] = mm.uses[old] - 1
          BY <1>1, <4>1 DEF MapType
        <5>2. QED
          BY <4>1, <4>2, <5>1 DEF DropUse
      <4>8. QED
        BY <2>3, <3>2, <4>6, <4>7
    <3>3. QED
      BY <3>1, <3>2
  <2>6. CASE d = None
    BY <2>2, <2>4, <2>5, <2>6
  <2>7. CASE d # None
    <3>1. n = Bind(u, p, d) /\ d \in Alive(u)
      BY <2>2, <2>4, <2>5, <2>7 DEF Bind
    <3>2. /\ MapOK(n, h) /\ InUseBut(n, None) /\ Alive(n) = Alive(u)
          /\ n.count = u.count /\ n.type = u.type /\ n.target[p] = d
          /\ \A q \in PIDs : q # p => n.target[q] = u.target[q]
      BY <2>2, <3>1, BindOK
    <3>3. SameBut(mm, n, {p})
      BY <2>2, <3>2, KindsOfPids DEF SameBut
    <3>4. QED
      BY <2>2, <3>2, <3>3
  <2>8. QED
    BY <2>6, <2>7
<1>6. QED
  BY <1>4, <1>5

\* unref_stream().
LEMMA UnrefStreamOK ==
  ASSUME NEW mm, NEW h, MapOK(mm, h), InUseBut(mm, None),
         NEW p \in ECMs \cup StreamPIDs, mm.count[p] > 0,
         NEW n, n = UnrefStream(mm, p)
  PROVE  /\ MapOK(n, h) /\ InUseBut(n, None)
         /\ n.count = [mm.count EXCEPT ![p] = mm.count[p] - 1]
         /\ mm.count[p] = 1 => n.type[p] = "UNKNOWN" /\ n.target[p] = None
         /\ mm.count[p] # 1 => n.type[p] = mm.type[p] /\ n.target[p] = mm.target[p]
         /\ SameBut(mm, n, {p})
<1>1. mm \in MapType /\ p \in PIDs /\ mm.count[p] \in Nat
  BY MapFields, KindsOfPids DEF MapOK
<1>2. PICK c \in [PIDs -> Nat] : c = [mm.count EXCEPT ![p] = mm.count[p] - 1]
  <2>1. [mm.count EXCEPT ![p] = mm.count[p] - 1] \in [PIDs -> Nat]
    BY <1>1, MapFields
  <2>2. QED
    BY <2>1
<1>3. PICK less : less = [mm EXCEPT !.count = c]
  OBVIOUS
<1>4. /\ MapOK(less, h) /\ less.count = c /\ less.type = mm.type /\ less.target = mm.target
      /\ Alive(less) = Alive(mm) /\ InUseBut(less, None)
  BY <1>3, CountsAreFree
<1>5. less = [mm EXCEPT !.count[p] = @ - 1] /\ less.count[p] = mm.count[p] - 1
  BY <1>1, <1>2, <1>3 DEF MapType
<1>6. CASE mm.count[p] # 1
  <2>1. n = less
    BY <1>1, <1>5, <1>6 DEF UnrefStream
  <2>2. QED
    BY <1>2, <1>4, <1>6, <2>1 DEF SameBut
<1>7. CASE mm.count[p] = 1
  <2>1. PICK u : u = Unbind(less, p, "UNKNOWN")
    OBVIOUS
  <2>2. /\ MapOK(u, h) /\ InUseBut(u, None) /\ u.count = c
        /\ u.type[p] = "UNKNOWN" /\ u.target[p] = None /\ SameBut(less, u, {p})
    <3>1. CASE p \in StreamPIDs
      <4>1. "UNKNOWN" \in {"OTHER", "UNKNOWN"} /\ None = None
        OBVIOUS
      <4>2. QED
        BY <1>4, <2>1, <3>1, <4>1, UnbindOK
    <3>2. CASE p \in ECMs
      <4>1. less.type[p] # "OTHER"
        BY <1>4, <3>2 DEF MapOK, KindsApart
      <4>2. u = GiveUp(less, p)
        BY <2>1, <4>1 DEF Unbind, DropTarget, GiveUp
      <4>3. QED
        BY <1>4, <3>2, <4>2, GiveUpEcmOK
    <3>3. QED
      BY <3>1, <3>2
  <2>3. n = [u EXCEPT !.count = c]
    <3>1. n = [DropTarget(less, p) EXCEPT !.type[p] = "UNKNOWN", !.count[p] = 0, !.target[p] = None]
      BY <1>5, <1>7 DEF UnrefStream
    <3>2. u \in MapType /\ u.count = c /\ c = [c EXCEPT ![p] = 0]
      BY <1>2, <1>7, <2>2 DEF MapOK
    <3>3. n = [u EXCEPT !.count[p] = 0]
      BY <2>1, <3>1 DEF Unbind
    <3>4. QED
      BY <3>2, <3>3 DEF MapType
  <2>4. /\ MapOK(n, h) /\ n.count = c /\ n.type = u.type /\ n.target = u.target
        /\ Alive(n) = Alive(u) /\ InUseBut(n, None)
    BY <2>2, <2>3, CountsAreFree
  <2>5. SameBut(mm, n, {p})
    BY <1>4, <2>2, <2>4 DEF SameBut
  <2>6. QED
    BY <1>2, <1>7, <2>2, <2>4, <2>5
<1>8. QED
  BY <1>6, <1>7

----------------------------------------------------------------------------
\* Every operation keeps the invariant.

CountsAre(mm, new, old, unref) ==
  \A p \in PIDs : mm.type[p] \notin {"PMT", "EMM"} =>
    mm.count[p] = Total(new, old, p) + Times(unref, p)

LEMMA CountsExactIs ==
  /\ CountsExact <=> CountsAre(m, streams, oldStrm, job.unref)
  /\ CountsExact' <=> CountsAre(m', streams', oldStrm', job'.unref)
<1>1. \A p : Entries(p)' = EntriesIn(streams', oldStrm', Progs, p)
  BY DEF Entries, EntriesIn, EntriesOf, ListOf
<1>2. CountsExact <=> CountsAre(m, streams, oldStrm, job.unref)
  BY EntriesAre DEF CountsExact, CountsAre, Total, Times
<1>3. CountsExact' <=> CountsAre(m', streams', oldStrm', job'.unref)
  BY <1>1 DEF CountsExact, CountsAre, Total, Times
<1>4. QED
  BY <1>2, <1>3

\* PMT and EMM PIDs are no business of the helpers.
LEMMA OtherKindsStay ==
  ASSUME NEW mm, NEW n, KindsApart(mm), KindsApart(n), NEW P \in SUBSET (ECMs \cup StreamPIDs),
         SameBut(mm, n, P)
  PROVE  /\ \A q \in PIDs : n.type[q] \in {"PMT", "EMM"} <=> mm.type[q] \in {"PMT", "EMM"}
         /\ \A q \in PIDs \ P : n.type[q] = "OTHER" => mm.type[q] = "OTHER"
<1> SUFFICES ASSUME NEW q \in PIDs
             PROVE  /\ n.type[q] \in {"PMT", "EMM"} <=> mm.type[q] \in {"PMT", "EMM"}
                    /\ q \notin P /\ n.type[q] = "OTHER" => mm.type[q] = "OTHER"
  OBVIOUS
<1>1. CASE q \in ECMs \cup StreamPIDs
  BY <1>1, KindsOfPids DEF KindsApart, SameBut
<1>2. CASE q \notin ECMs \cup StreamPIDs
  BY <1>2 DEF SameBut
<1>3. QED
  BY <1>1, <1>2

\* Elements of a sequence.
LEMMA ElementType == ASSUME NEW S, NEW q \in Seq(S), NEW i \in 1 .. Len(q) PROVE q[i] \in S
  OBVIOUS

LEMMA SequenceType ==
  ASSUME NEW S, NEW T, NEW q \in Seq(S), \A i \in 1 .. Len(q) : q[i] \in T
  PROVE  q \in Seq(T)
  OBVIOUS

LEMMA StreamsOfProgram ==
  /\ \A g : StreamsOf(g) \subseteq StreamPIDs
  /\ StreamPIDs \subseteq PIDs
  /\ \A g \in Progs : \A t \in Tables[g] :
       t.ca \in CaPIDs /\ t.es \in Seq([pid: StreamsOf(g), ca: CaPIDs])
<1>1. \A g : StreamsOf(g) \subseteq StreamPIDs
  BY DEF StreamsOf
<1>2. StreamPIDs \subseteq PIDs
  BY DEF StreamPIDs
<1>3. ASSUME NEW g \in Progs, NEW t \in Tables[g]
      PROVE  t.ca \in CaPIDs /\ t.es \in Seq([pid: StreamsOf(g), ca: CaPIDs])
  <2>1. t \in [ca: CaPIDs, es: Seq([pid: StreamPIDs, ca: CaPIDs])]
    BY TableAssumption
  <2>2. PICK es \in Seq([pid: StreamPIDs, ca: CaPIDs]) : es = t.es /\ t.ca \in CaPIDs
    BY <2>1
  <2>3. \A i \in 1 .. Len(es) : es[i] \in [pid: StreamsOf(g), ca: CaPIDs]
    <3> SUFFICES ASSUME NEW i \in 1 .. Len(es)
                 PROVE  es[i] \in [pid: StreamsOf(g), ca: CaPIDs]
      OBVIOUS
    <3>1. es[i] \in [pid: StreamPIDs, ca: CaPIDs]
      BY ElementType
    <3>2. es[i].pid \in StreamsOf(g)
      BY <2>2, <3>1 DEF StreamsOf
    <3>3. QED
      BY <3>1, <3>2
  <2>4. es \in Seq([pid: StreamsOf(g), ca: CaPIDs])
    BY <2>3, SequenceType
  <2>5. QED
    BY <2>2, <2>4
<1>4. QED
  BY <1>1, <1>2, <1>3

\* What the invariant says of a list and of the running call.
LEMMA ListFacts ==
  ASSUME IInv
  PROVE  /\ \A g \in Progs : streams[g] \in Seq(PIDs) /\ oldStrm[g] \in Seq(PIDs)
         /\ ListsIn(PIDs, Progs, streams, oldStrm)
         /\ job.unref \in Seq(PIDs)
         /\ \A p : Times(job.unref, p) \in Nat
         /\ \A g \in Progs, p \in PIDs : Times(streams[g], p) \in Nat /\ Times(oldStrm[g], p) \in Nat
         /\ CountsAre(m, streams, oldStrm, job.unref)
         /\ m \in MapType /\ KindsApart(m)
<1>1. /\ \A g \in Progs : streams[g] \in Seq(PIDs) /\ oldStrm[g] \in Seq(PIDs)
      /\ job.unref \in Seq(PIDs)
  BY DEF IInv, TypeOK, JobType
<1>2. ListsIn(PIDs, Progs, streams, oldStrm)
  BY <1>1 DEF ListsIn
<1>3. \A p : Times(job.unref, p) \in Nat
  BY <1>1, TimesType
<1>4. \A g \in Progs, p \in PIDs : Times(streams[g], p) \in Nat /\ Times(oldStrm[g], p) \in Nat
  BY <1>1, TimesType
<1>5. QED
  BY <1>1, <1>2, <1>3, <1>4, CountsExactIs DEF IInv, MapOK

LEMMA JobFields ==
  ASSUME IInv
  PROVE  /\ job.kind \in {"none", "pmt", "pat", "teardown"}
         /\ job.prog \in Progs \cup {None} /\ job.dec0 \in Decs \cup {None}
         /\ job.unref \in Seq(PIDs) /\ job.todo \in Seq([pid: StreamPIDs, ca: CaPIDs])
         /\ job.release \in SUBSET Progs /\ job.next \in SUBSET Progs
         /\ job = [kind |-> job.kind, prog |-> job.prog, dec0 |-> job.dec0, unref |-> job.unref,
                   todo |-> job.todo, release |-> job.release, next |-> job.next]
  BY DEF IInv, TypeOK, JobType

LEMMA NoJobType == NoJob \in JobType
<1>1. /\ "none" \in {"none", "pmt", "pat", "teardown"} /\ None \in Progs \cup {None}
      /\ None \in Decs \cup {None} /\ <<>> \in Seq(PIDs)
      /\ {} \in SUBSET Progs
  OBVIOUS
<1>2. \A S : <<>> \in Seq(S)
  OBVIOUS
<1>3. QED
  BY <1>1, <1>2 DEF NoJob, JobType

LEMMA InitKeeps == Init => IInv
<1> SUFFICES ASSUME Init PROVE IInv
  OBVIOUS
<1>1. /\ m.type = [p \in PIDs |-> "UNKNOWN"] /\ m.count = [p \in PIDs |-> 0]
      /\ m.target = [p \in PIDs |-> None] /\ m.ecm = [d \in Decs |-> None]
      /\ m.uses = [d \in Decs |-> 0] /\ m \in MapType
  BY DEF Init, MapType, Kinds
<1>2. /\ streams = [g \in Progs |-> <<>>] /\ oldStrm = [g \in Progs |-> <<>>]
      /\ pmt = [g \in Progs |-> None] /\ cat = None /\ job = NoJob
  BY DEF Init
<1>3. /\ NoJob.kind = "none" /\ NoJob.prog = None /\ NoJob.dec0 = None /\ NoJob.unref = <<>>
      /\ NoJob.todo = <<>> /\ NoJob.release = {} /\ NoJob.next = {}
  BY DEF NoJob
<1>4. TypeOK
  <2>1. \A S : <<>> \in Seq(S)
    OBVIOUS
  <2>2. streams \in [Progs -> Seq(PIDs)] /\ oldStrm \in [Progs -> Seq(PIDs)]
    BY <1>2, <2>1
  <2>3. pmt \in [Progs -> (UNION {Tables[g] : g \in Progs}) \cup {None}] /\ \A g \in Progs : pmt[g] = None
    <3> DEFINE U == UNION {Tables[g] : g \in Progs}
    <3> HIDE DEF U
    <3>1. pmt \in [Progs -> U \cup {None}] /\ \A g \in Progs : pmt[g] = None
      BY <1>2
    <3>2. QED
      BY <3>1 DEF U
  <2>4. QED
    BY <1>1, <1>2, <2>2, <2>3, NoJobType DEF TypeOK
<1>5. Alive(m) = {}
  BY <1>1 DEF Alive
<1>6. MapOK(m, job.dec0) /\ InUseBut(m, None)
  <2>1. KindsApart(m)
    BY <1>1, KindsOfPids DEF KindsApart
  <2>2. TargetsAlive(m) /\ Served(m) /\ UsesAre(m, None) /\ InUseBut(m, None)
    BY <1>1, <1>5 DEF TargetsAlive, Served, UsesAre, InUseBut
  <2>3. QED
    BY <1>1, <1>2, <1>3, <2>1, <2>2 DEF MapOK
<1>7. ListsTyped
  <2>1. \A S : <<>> \in Seq(S)
    OBVIOUS
  <2>2. QED
    BY <1>2, <1>3, <2>1 DEF ListsTyped
<1>8. CountsExact
  <2>1. \A p \in PIDs : Total(streams, oldStrm, p) = 0 /\ Times(<<>>, p) = 0
    BY <1>2, TotalOfEmptyLists, TimesEmpty
  <2>2. CountsAre(m, streams, oldStrm, job.unref)
    BY <1>1, <1>2, <1>3, <2>1 DEF CountsAre
  <2>3. QED
    BY <2>2, CountsExactIs
<1>9. StreamsListed /\ JobShape
  BY <1>1, <1>2, <1>3 DEF StreamsListed, JobShape
<1>10. QED
  BY <1>4, <1>6, <1>7, <1>8, <1>9 DEF IInv

\* An entry is given up.
LEMMA UnrefKeeps ==
  ASSUME IInv, Unref
  PROVE  IInv'
<1>1. PICK p, rest : /\ p = Head(job.unref) /\ rest = Tail(job.unref)
                     /\ p \in ECMs \cup StreamPIDs /\ p \in PIDs
                     /\ rest \in Seq(ECMs \cup StreamPIDs) /\ rest \in Seq(PIDs)
                     /\ job.unref # <<>> /\ job.unref \in Seq(PIDs)
  <2>1. /\ job.unref # <<>> /\ job.unref \in Seq(ECMs \cup StreamPIDs) /\ job.unref \in Seq(PIDs)
    BY ListFacts DEF Unref, IInv, ListsTyped
  <2>2. PICK q : q = job.unref
    OBVIOUS
  <2>3. /\ Head(q) \in ECMs \cup StreamPIDs /\ Head(q) \in PIDs
        /\ Tail(q) \in Seq(ECMs \cup StreamPIDs) /\ Tail(q) \in Seq(PIDs)
    BY <2>1, <2>2
  <2>4. QED
    BY <2>1, <2>2, <2>3
<1>2. /\ m' = UnrefStream(m, p) /\ job' = [job EXCEPT !.unref = rest]
      /\ streams' = streams /\ oldStrm' = oldStrm /\ pmt' = pmt /\ cat' = cat
  BY <1>1 DEF Unref
<1>3. \A q \in PIDs : /\ Times(job.unref, q) = One(p = q) + Times(rest, q)
                      /\ Times(rest, q) \in Nat
                      /\ Total(streams, oldStrm, q) \in Nat
  <2>1. \A q \in PIDs : Total(streams, oldStrm, q) \in Nat
    BY EntriesInFinite, ListFacts, PidAssumption, FS_Subset DEF Total
  <2>2. QED
    <3>1. job.unref \in Seq(PIDs) /\ job.unref # <<>> /\ p = Head(job.unref) /\ rest = Tail(job.unref)
      BY <1>1
    <3>2. rest \in Seq(PIDs)
      BY <3>1
    <3>3. \A q \in PIDs : Times(rest, q) \in Nat
      BY <3>2, TimesType
    <3>4. \A q \in PIDs : Times(job.unref, q) = One(p = q) + Times(rest, q)
      BY <3>1, TimesTail
    <3>5. QED
      BY <2>1, <3>3, <3>4
<1>4. m.type[p] \notin {"PMT", "EMM"}
  BY <1>1, KindsOfPids, ListFacts DEF KindsApart
<1>5. m.count[p] > 0 /\ m.count \in [PIDs -> Nat]
  <2>1. m.count[p] = Total(streams, oldStrm, p) + Times(job.unref, p)
    BY <1>1, <1>4, ListFacts DEF CountsAre
  <2>2. Times(job.unref, p) = 1 + Times(rest, p)
    BY <1>1, <1>3 DEF One
  <2>3. Times(rest, p) \in Nat /\ Total(streams, oldStrm, p) \in Nat
    BY <1>1, <1>3
  <2>4. m.count \in [PIDs -> Nat]
    BY ListFacts, MapFields
  <2>5. QED
    BY <2>1, <2>2, <2>3, <2>4, SMTT(60)
<1>6. /\ job'.kind = job.kind /\ job'.prog = job.prog /\ job'.dec0 = job.dec0
      /\ job'.unref = rest /\ job'.todo = job.todo /\ job'.release = job.release
      /\ job' \in JobType
  BY <1>1, <1>2 DEF IInv, TypeOK, JobType
<1>7. /\ MapOK(m', job.dec0) /\ InUseBut(m', None)
      /\ m'.count = [m.count EXCEPT ![p] = m.count[p] - 1]
      /\ m.count[p] = 1 => m'.type[p] = "UNKNOWN" /\ m'.target[p] = None
      /\ m.count[p] # 1 => m'.type[p] = m.type[p] /\ m'.target[p] = m.target[p]
      /\ SameBut(m, m', {p})
  <2>1. MapOK(m, job.dec0) /\ InUseBut(m, None)
    BY DEF IInv
  <2>2. p \in ECMs \cup StreamPIDs /\ m.count[p] > 0 /\ m' = UnrefStream(m, p)
    BY <1>1, <1>2, <1>5
  <2>3. QED
    BY <2>1, <2>2, UnrefStreamOK, SMTT(30)
<1>8. TypeOK'
  BY <1>2, <1>6, <1>7 DEF IInv, TypeOK, MapOK
<1>9. ListsTyped'
  BY <1>1, <1>2, <1>6 DEF IInv, ListsTyped
<1>10. /\ \A q \in PIDs : m'.type[q] \in {"PMT", "EMM"} <=> m.type[q] \in {"PMT", "EMM"}
       /\ \A q \in PIDs \ {p} : m'.type[q] = "OTHER" => m.type[q] = "OTHER"
  BY <1>1, <1>7, ListFacts, OtherKindsStay DEF MapOK
<1>11. CountsExact'
  <2>1. CountsAre(m', streams', oldStrm', job'.unref)
    <3> SUFFICES ASSUME NEW q \in PIDs, m'.type[q] \notin {"PMT", "EMM"}
                 PROVE  m'.count[q] = Total(streams, oldStrm, q) + Times(rest, q)
      BY <1>2, <1>6 DEF CountsAre
    <3>1. m.count[q] = Total(streams, oldStrm, q) + Times(job.unref, q)
      BY <1>10, ListFacts DEF CountsAre
    <3>2. m'.count[q] = m.count[q] - One(p = q)
      BY <1>1, <1>5, <1>7 DEF One
    <3>3. QED
      BY <1>3, <3>1, <3>2 DEF One
  <2>2. QED
    BY <2>1, CountsExactIs
<1>12. StreamsListed'
  <2> SUFFICES ASSUME NEW q \in PIDs, m'.type[q] = "OTHER" PROVE m'.count[q] > 0
    BY DEF StreamsListed
  <2>1. CASE q = p
    BY <1>1, <1>5, <1>7, <2>1
  <2>2. CASE q # p
    BY <1>5, <1>7, <1>10, <2>2 DEF IInv, StreamsListed
  <2>3. QED
    BY <2>1, <2>2
<1>13. JobShape'
  <2>1. job.kind # "none"
    BY <1>1 DEF IInv, JobShape, NoJob
  <2>2. QED
    BY <1>2, <1>6, <2>1 DEF IInv, JobShape
<1>14. QED
  BY <1>6, <1>7, <1>8, <1>9, <1>11, <1>12, <1>13 DEF IInv

\* proc_pmt() is done.
LEMMA PmtEndKeeps ==
  ASSUME IInv, PmtEnd
  PROVE  IInv'
<1>1. /\ job.kind = "pmt" /\ job.unref = <<>> /\ job' = NoJob
      /\ m' = IF job.dec0 = None THEN m ELSE DropUse(m, job.dec0)
      /\ streams' = streams /\ oldStrm' = oldStrm /\ pmt' = pmt /\ cat' = cat
  BY DEF PmtEnd
<1>2. /\ NoJob.kind = "none" /\ NoJob.dec0 = None /\ NoJob.unref = <<>> /\ NoJob.todo = <<>>
  BY DEF NoJob
<1>3. /\ MapOK(m', None) /\ InUseBut(m', None) /\ m'.count = m.count /\ SameBut(m, m', {})
  <2>1. CASE job.dec0 = None
    BY <1>1, <2>1 DEF IInv, SameBut
  <2>2. CASE job.dec0 # None
    BY <1>1, <2>2, ReleaseHoldOK DEF IInv
  <2>3. QED
    BY <2>1, <2>2
<1>4. TypeOK'
  BY <1>1, <1>3, NoJobType DEF IInv, TypeOK, MapOK
<1>5. ListsTyped'
  <2>1. \A S : <<>> \in Seq(S)
    OBVIOUS
  <2>2. QED
    BY <1>1, <1>2, <2>1 DEF IInv, ListsTyped
<1>6. /\ \A q \in PIDs : m'.type[q] \in {"PMT", "EMM"} <=> m.type[q] \in {"PMT", "EMM"}
      /\ \A q \in PIDs : m'.type[q] = "OTHER" => m.type[q] = "OTHER"
  BY <1>3, ListFacts, OtherKindsStay DEF MapOK
<1>7. CountsExact' /\ StreamsListed'
  <2>1. CountsAre(m', streams', oldStrm', job'.unref)
    BY <1>1, <1>2, <1>3, <1>6, ListFacts DEF CountsAre
  <2>2. QED
    BY <1>3, <1>6, <2>1, CountsExactIs DEF IInv, StreamsListed
<1>8. JobShape'
  BY <1>1, <1>2 DEF JobShape
<1>9. QED
  BY <1>1, <1>2, <1>3, <1>4, <1>5, <1>7, <1>8 DEF IInv

\* What is neither an ECM PID nor a stream is in no list.
LEMMA UnlistedPids ==
  ASSUME IInv, NEW p \in Progs \cup EMMs
  PROVE  Total(streams, oldStrm, p) = 0 /\ Times(job.unref, p) = 0
<1>1. p \notin ECMs /\ p \notin StreamPIDs
  BY KindsOfPids
<1>2. \A g \in Progs : ~Lists(streams[g], p) /\ ~Lists(oldStrm[g], p)
  <2> SUFFICES ASSUME NEW g \in Progs PROVE ~Lists(streams[g], p) /\ ~Lists(oldStrm[g], p)
    OBVIOUS
  <2>1. p \notin ECMs \cup StreamsOf(g)
    BY <1>1, StreamsOfProgram
  <2>2. streams[g] \in Seq(ECMs \cup StreamsOf(g)) /\ oldStrm[g] \in Seq(ECMs \cup StreamsOf(g))
    BY DEF IInv, ListsTyped
  <2>3. QED
    BY <2>1, <2>2, ElementType DEF Lists
<1>3. ~Lists(job.unref, p)
  <2>1. job.unref \in Seq(ECMs \cup StreamPIDs)
    BY DEF IInv, ListsTyped
  <2>2. QED
    BY <1>1, <2>1, ElementType DEF Lists
<1>4. QED
  BY <1>2, <1>3, TotalUnlisted, TimesType, ListFacts

\* An entry of the map that no list and no decryptor is about.
SetEntry(mm, p, t, c) == [mm EXCEPT !.type[p] = t, !.count[p] = c, !.target[p] = None]

LEMMA SetEntryOK ==
  ASSUME NEW mm, NEW h, MapOK(mm, h), NEW x, InUseBut(mm, x), NEW p \in Progs \cup EMMs,
         NEW t, t = "UNKNOWN" \/ (t = "PMT" /\ p \in Progs) \/ (t = "EMM" /\ p \in EMMs),
         NEW c \in Nat, NEW n, n = SetEntry(mm, p, t, c)
  PROVE  /\ MapOK(n, h) /\ InUseBut(n, x) /\ Alive(n) = Alive(mm)
         /\ n.type[p] = t /\ n.count[p] = c
         /\ \A q \in PIDs : q # p => /\ n.type[q] = mm.type[q] /\ n.target[q] = mm.target[q]
                                     /\ n.count[q] = mm.count[q]
<1>1. mm \in MapType /\ KindsApart(mm) /\ p \in PIDs /\ p \notin StreamPIDs \cup ECMs
  BY KindsOfPids DEF MapOK
<1>2. /\ n \in MapType /\ n.count = [mm.count EXCEPT ![p] = c]
      /\ n.type = [mm.type EXCEPT ![p] = t] /\ n.target = [mm.target EXCEPT ![p] = None]
      /\ n.ecm = mm.ecm /\ n.uses = mm.uses
  BY <1>1 DEF MapType, Kinds, SetEntry
<1>3. /\ n.type[p] = t /\ n.target[p] = None /\ n.count[p] = c
      /\ \A q \in PIDs : q # p => /\ n.type[q] = mm.type[q] /\ n.target[q] = mm.target[q]
                                  /\ n.count[q] = mm.count[q]
      /\ Alive(n) = Alive(mm)
  BY <1>1, <1>2, MapFields DEF Alive
<1>4. KindsApart(n)
  BY <1>1, <1>3, KindsOfPids DEF KindsApart
<1>5. TargetsAlive(n) /\ Served(n)
  BY <1>1, <1>2, <1>3 DEF MapOK, TargetsAlive, Served
<1>6. \A d : Bound(n, d) = Bound(mm, d)
  <2> SUFFICES ASSUME NEW d, NEW q \in PIDs
               PROVE  q \in Bound(n, d) <=> q \in Bound(mm, d)
    BY DEF Bound
  <2>1. CASE q = p
    BY <1>1, <1>3, <2>1, KindsOfPids DEF Bound, KindsApart
  <2>2. CASE q # p
    BY <1>3, <2>2 DEF Bound
  <2>3. QED
    BY <2>1, <2>2
<1>7. UsesAre(n, h) /\ InUseBut(n, x)
  BY <1>2, <1>3, <1>6 DEF MapOK, UsesAre, InUseBut
<1>8. QED
  BY <1>2, <1>3, <1>4, <1>5, <1>7 DEF MapOK

\* proc_cat().
LEMMA ProcCatKeeps ==
  ASSUME IInv, NEW c \in CATs, ProcCat(c)
  PROVE  IInv'
<1>1. /\ Idle /\ cat' = c /\ streams' = streams /\ oldStrm' = oldStrm /\ pmt' = pmt /\ job' = job
  BY DEF ProcCat
<1>2. /\ MapOK(m', job.dec0) /\ InUseBut(m', None)
      /\ \A q \in PIDs \ EMMs : /\ m'.type[q] = m.type[q] /\ m'.count[q] = m.count[q]
      /\ \A q \in EMMs : m'.type[q] = "EMM" \/ (m'.type[q] = m.type[q] /\ m'.count[q] = m.count[q])
  <2>1. CASE c.emm \in EMMs
    <3>1. m.type[c.emm] # "OTHER"
      BY <2>1, ListFacts DEF KindsApart
    <3>2. m' = SetEntry(m, c.emm, "EMM", 1)
      BY <2>1, <3>1 DEF ProcCat, DropTarget, SetEntry
    <3>3. MapOK(m, job.dec0) /\ InUseBut(m, None)
      BY DEF IInv
    <3>4. /\ MapOK(m', job.dec0) /\ InUseBut(m', None) /\ m'.type[c.emm] = "EMM"
          /\ \A q \in PIDs : q # c.emm => m'.type[q] = m.type[q] /\ m'.count[q] = m.count[q]
      BY <2>1, <3>2, <3>3, SetEntryOK
    <3>5. QED
      BY <2>1, <3>4, KindsOfPids
  <2>2. CASE c.emm \notin EMMs
    BY <2>2 DEF ProcCat, IInv
  <2>3. QED
    BY <2>1, <2>2
<1>3. TypeOK'
  BY <1>1, <1>2 DEF IInv, TypeOK, MapOK
<1>4. ListsTyped' /\ JobShape'
  BY <1>1 DEF IInv, ListsTyped, JobShape
<1>5. CountsExact'
  <2>1. CountsAre(m', streams', oldStrm', job'.unref)
    BY <1>1, <1>2, ListFacts DEF CountsAre
  <2>2. QED
    BY <2>1, CountsExactIs
<1>6. StreamsListed'
  BY <1>2 DEF IInv, StreamsListed
<1>7. QED
  BY <1>1, <1>2, <1>3, <1>4, <1>5, <1>6 DEF IInv

\* proc_pat() and teardown() begin.
LEMMA ReleaseBeginKeeps ==
  ASSUME IInv, NEW kind \in {"pat", "teardown"}, NEW gs \in SUBSET Progs, ReleaseBegin(kind, gs)
  PROVE  IInv'
<1>1. /\ job = NoJob /\ m' = m /\ streams' = streams /\ oldStrm' = oldStrm
      /\ pmt' = pmt /\ cat' = cat
      /\ job' = [NoJob EXCEPT !.kind = kind, !.release = Progs, !.next = gs]
  BY DEF ReleaseBegin, Idle
<1>2. /\ NoJob.unref = <<>> /\ NoJob.dec0 = None
      /\ job'.kind = kind /\ job'.dec0 = None /\ job'.unref = <<>> /\ job'.release = Progs
      /\ job' \in JobType
  BY <1>1, NoJobType DEF NoJob, JobType
<1>3. TypeOK' /\ MapOK(m', job'.dec0) /\ InUseBut(m', None)
  BY <1>1, <1>2 DEF IInv, TypeOK
<1>4. ListsTyped'
  BY <1>1, <1>2 DEF IInv, ListsTyped
<1>5. CountsExact' /\ StreamsListed'
  <2>1. CountsAre(m', streams', oldStrm', job'.unref)
    BY <1>1, <1>2, ListFacts
  <2>2. QED
    BY <1>1, <2>1, CountsExactIs DEF IInv, StreamsListed
<1>6. JobShape'
  BY <1>2 DEF JobShape
<1>7. QED
  BY <1>3, <1>4, <1>5, <1>6 DEF IInv

\* release_program(): the entries move from the lists to what is to be given up.
LEMMA ReleaseProgramKeeps ==
  ASSUME IInv, NEW g \in Progs, ReleaseProgram(g)
  PROVE  IInv'
<1>1. /\ job.unref = <<>> /\ g \in job.release
      /\ job' = [job EXCEPT !.unref = oldStrm[g] \o streams[g], !.release = @ \ {g}]
      /\ streams' = [streams EXCEPT ![g] = <<>>] /\ oldStrm' = [oldStrm EXCEPT ![g] = <<>>]
      /\ m' = SetEntry(m, g, "UNKNOWN", 0)
      /\ pmt' = [pmt EXCEPT ![g] = None] /\ cat' = cat
  BY DEF ReleaseProgram, SetEntry
<1>2. job.kind \in {"pat", "teardown"}
  <2>1. job.kind # "pmt"
    BY <1>1 DEF IInv, JobShape
  <2>2. job.kind # "none"
    BY <1>1 DEF IInv, JobShape, NoJob
  <2>3. QED
    BY <2>1, <2>2, JobFields
<1>3. PICK a, b : /\ a = oldStrm[g] /\ b = streams[g]
                  /\ a \in Seq(PIDs) /\ b \in Seq(PIDs)
                  /\ a \in Seq(ECMs \cup StreamPIDs) /\ b \in Seq(ECMs \cup StreamPIDs)
  <2>1. oldStrm[g] \in Seq(ECMs \cup StreamsOf(g)) /\ streams[g] \in Seq(ECMs \cup StreamsOf(g))
    BY DEF IInv, ListsTyped
  <2>2. oldStrm[g] \in Seq(ECMs \cup StreamPIDs) /\ streams[g] \in Seq(ECMs \cup StreamPIDs)
    BY <2>1, StreamsOfProgram
  <2>3. QED
    BY <2>2, ListFacts
<1>4. a \o b \in Seq(PIDs) /\ a \o b \in Seq(ECMs \cup StreamPIDs)
  BY <1>3
<1>5. /\ job'.kind = job.kind /\ job'.dec0 = job.dec0 /\ job'.unref = a \o b
      /\ job'.release = job.release \ {g} /\ job' \in JobType
  BY <1>1, <1>3, <1>4, JobFields DEF JobType
<1>6. /\ MapOK(m', job.dec0) /\ InUseBut(m', None)
      /\ m'.type[g] = "UNKNOWN" /\ m'.count[g] = 0
      /\ \A q \in PIDs : q # g => m'.type[q] = m.type[q] /\ m'.count[q] = m.count[q]
  <2>1. MapOK(m, job.dec0) /\ InUseBut(m, None)
    BY DEF IInv
  <2>2. QED
    BY <1>1, <2>1, SetEntryOK
<1>7. /\ streams' \in [Progs -> Seq(PIDs)] /\ oldStrm' \in [Progs -> Seq(PIDs)]
      /\ streams'[g] = <<>> /\ oldStrm'[g] = <<>>
      /\ \A h \in Progs \ {g} : streams'[h] = streams[h] /\ oldStrm'[h] = oldStrm[h]
  <2>1. <<>> \in Seq(PIDs)
    OBVIOUS
  <2>2. streams \in [Progs -> Seq(PIDs)] /\ oldStrm \in [Progs -> Seq(PIDs)]
    BY DEF IInv, TypeOK
  <2>3. QED
    BY <1>1, <2>1, <2>2
<1>8. TypeOK'
  <2>1. pmt' \in [Progs -> (UNION {Tables[h] : h \in Progs}) \cup {None}]
        /\ \A h \in Progs : pmt'[h] \in Tables[h] \cup {None}
    BY <1>1 DEF IInv, TypeOK
  <2>2. QED
    BY <1>1, <1>5, <1>6, <1>7, <2>1 DEF IInv, TypeOK, MapOK
<1>9. ListsTyped'
  <2>1. \A h \in Progs : /\ streams'[h] \in Seq(ECMs \cup StreamsOf(h))
                         /\ oldStrm'[h] \in Seq(ECMs \cup StreamsOf(h))
    <3> SUFFICES ASSUME NEW h \in Progs
                 PROVE  /\ streams'[h] \in Seq(ECMs \cup StreamsOf(h))
                        /\ oldStrm'[h] \in Seq(ECMs \cup StreamsOf(h))
      OBVIOUS
    <3>1. <<>> \in Seq(ECMs \cup StreamsOf(h))
      OBVIOUS
    <3>2. QED
      BY <1>7, <3>1 DEF IInv, ListsTyped
  <2>2. QED
    BY <1>2, <1>4, <1>5, <2>1 DEF ListsTyped
<1>10. \A q \in PIDs : Total(streams', oldStrm', q) + Times(a \o b, q) = Total(streams, oldStrm, q)
  <2> SUFFICES ASSUME NEW q \in PIDs
               PROVE  Total(streams', oldStrm', q) + Times(a \o b, q) = Total(streams, oldStrm, q)
    OBVIOUS
  <2>1. ListsIn(PIDs, Progs, streams', oldStrm') /\ ListsIn(PIDs, Progs, streams, oldStrm)
    BY <1>7, ListFacts DEF ListsIn
  <2>2. /\ Total(streams, oldStrm, q) \in Nat /\ Total(streams', oldStrm', q) \in Nat
        /\ Total(streams', oldStrm', q) - Times(streams'[g], q) - Times(oldStrm'[g], q)
             = Total(streams, oldStrm, q) - Times(streams[g], q) - Times(oldStrm[g], q)
    <3>1. \A h \in Progs \ {g} : streams'[h] = streams[h] /\ oldStrm'[h] = oldStrm[h]
      BY <1>7
    <3>2. QED
      BY <2>1, <3>1, TotalChanges, SMTT(60)
  <2>3. Times(streams'[g], q) = 0 /\ Times(oldStrm'[g], q) = 0
    BY <1>7, TimesEmpty
  <2>4. Times(a \o b, q) = Times(a, q) + Times(b, q) /\ Times(a, q) \in Nat /\ Times(b, q) \in Nat
    BY <1>3, TimesConcat, TimesType
  <2>5. QED
    BY <1>3, <2>2, <2>3, <2>4
<1>11. CountsExact'
  <2>1. CountsAre(m', streams', oldStrm', a \o b)
    <3> SUFFICES ASSUME NEW q \in PIDs, m'.type[q] \notin {"PMT", "EMM"}
                 PROVE  m'.count[q] = Total(streams', oldStrm', q) + Times(a \o b, q)
      BY DEF CountsAre
    <3>1. CASE q = g
      BY <1>6, <1>10, <3>1, UnlistedPids
    <3>2. CASE q # g
      <4>1. m.count[q] = Total(streams, oldStrm, q) + Times(<<>>, q)
        BY <1>1, <1>6, <3>2, ListFacts DEF CountsAre
      <4>2. Total(streams, oldStrm, q) \in Nat
        BY EntriesInFinite, ListFacts, PidAssumption, FS_Subset DEF Total
      <4>3. QED
        BY <1>6, <1>10, <3>2, <4>1, <4>2, TimesEmpty
    <3>3. QED
      BY <3>1, <3>2
  <2>2. QED
    BY <1>5, <2>1, CountsExactIs
<1>12. StreamsListed'
  BY <1>6 DEF IInv, StreamsListed
<1>13. JobShape'
  BY <1>2, <1>5, <1>7 DEF IInv, JobShape
<1>14. QED
  BY <1>5, <1>6, <1>8, <1>9, <1>11, <1>12, <1>13 DEF IInv

\* When all lists are gone, so are the streams, and the decryptors with them.
LEMMA NothingLeft ==
  ASSUME IInv, job.unref = <<>>, job.release = {}, job.kind \in {"pat", "teardown"}
  PROVE  /\ Alive(m) = {} /\ job.dec0 = None
         /\ \A g \in Progs : streams[g] = <<>> /\ oldStrm[g] = <<>>
<1>1. /\ job.dec0 = None
      /\ \A g \in Progs : streams[g] = <<>> /\ oldStrm[g] = <<>>
  BY DEF IInv, JobShape
<1>2. \A p \in PIDs : m.type[p] # "OTHER"
  <2> SUFFICES ASSUME NEW p \in PIDs, m.type[p] = "OTHER" PROVE FALSE
    OBVIOUS
  <2>1. m.count[p] = Total(streams, oldStrm, p) + Times(job.unref, p)
    BY ListFacts DEF CountsAre
  <2>2. Total(streams, oldStrm, p) = 0 /\ Times(job.unref, p) = 0
    BY <1>1, TotalOfEmptyLists, TimesEmpty
  <2>3. QED
    BY <2>1, <2>2 DEF IInv, StreamsListed
<1>3. Alive(m) = {}
  <2> SUFFICES ASSUME NEW d \in Alive(m) PROVE FALSE
    OBVIOUS
  <2>1. Bound(m, d) = {}
    BY <1>2 DEF Bound
  <2>2. m.uses[d] = Cardinality(Bound(m, d)) + One(job.dec0 = d) /\ d # None
    BY KindsOfPids DEF IInv, MapOK, UsesAre, Alive
  <2>3. m.uses[d] = 0
    BY <1>1, <2>1, <2>2, FS_EmptySet DEF One
  <2>4. QED
    BY <2>2, <2>3 DEF IInv, InUseBut
<1>4. QED
  BY <1>1, <1>3

LEMMA ClearedOK ==
  ASSUME NEW n, NEW gs \in SUBSET Progs, n \in MapType, Alive(n) = {},
         \A p \in PIDs : n.type[p] = IF p \in gs THEN "PMT" ELSE "UNKNOWN",
         \A p \in PIDs : n.target[p] = None
  PROVE  MapOK(n, None) /\ InUseBut(n, None)
<1>1. KindsApart(n)
  BY KindsOfPids DEF KindsApart
<1>2. TargetsAlive(n) /\ Served(n) /\ UsesAre(n, None) /\ InUseBut(n, None)
  BY DEF TargetsAlive, Served, UsesAre, InUseBut
<1>3. QED
  BY <1>1, <1>2 DEF MapOK

\* The map is cleared: the ends of proc_pat() and of teardown().
LEMMA ClearKeeps ==
  ASSUME IInv, job.unref = <<>>, job.release = {}, job.kind \in {"pat", "teardown"},
         NEW gs \in SUBSET Progs, NEW e \in [Decs -> ECMs \cup {None}], NEW u \in [Decs -> Nat],
         \A d \in Decs : e[d] = None,
         m' = [type   |-> [p \in PIDs |-> IF p \in gs THEN "PMT" ELSE "UNKNOWN"],
               count  |-> [p \in PIDs |-> 0],
               target |-> [p \in PIDs |-> None], ecm |-> e, uses |-> u],
         job' = NoJob, cat' \in CATs \cup {None}, UNCHANGED <<streams, oldStrm, pmt>>
  PROVE  IInv'
<1>1. /\ m'.type = [p \in PIDs |-> IF p \in gs THEN "PMT" ELSE "UNKNOWN"]
      /\ m'.count = [p \in PIDs |-> 0] /\ m'.target = [p \in PIDs |-> None]
      /\ m'.ecm = e /\ m'.uses = u /\ m' \in MapType
  BY DEF MapType, Kinds
<1>2. Alive(m') = {}
  BY <1>1 DEF Alive
<1>3. MapOK(m', None) /\ InUseBut(m', None)
  BY <1>1, <1>2, ClearedOK
<1>4. /\ NoJob.kind = "none" /\ NoJob.dec0 = None /\ NoJob.unref = <<>>
  BY DEF NoJob
<1>5. TypeOK'
  BY <1>1, NoJobType DEF IInv, TypeOK
<1>6. ListsTyped'
  <2>1. \A S : <<>> \in Seq(S)
    OBVIOUS
  <2>2. QED
    BY <1>4, <2>1 DEF IInv, ListsTyped
<1>7. CountsExact'
  <2>1. \A p \in PIDs : Total(streams, oldStrm, p) = 0 /\ Times(<<>>, p) = 0
    BY NothingLeft, TotalOfEmptyLists, TimesEmpty
  <2>2. CountsAre(m', streams', oldStrm', job'.unref)
    BY <1>1, <1>4, <2>1 DEF CountsAre
  <2>3. QED
    BY <2>2, CountsExactIs
<1>8. StreamsListed' /\ JobShape'
  BY <1>1, <1>4 DEF StreamsListed, JobShape
<1>9. QED
  BY <1>3, <1>4, <1>5, <1>6, <1>7, <1>8 DEF IInv

LEMMA PatEndKeeps ==
  ASSUME IInv, PatEnd
  PROVE  IInv'
<1>1. /\ job.kind \in {"pat", "teardown"} /\ job.unref = <<>> /\ job.release = {}
      /\ m' = ClearedMap(m, job.next) /\ job' = NoJob
      /\ UNCHANGED <<streams, oldStrm, pmt, cat>>
  BY DEF PatEnd, Released
<1>2. Alive(m) = {} /\ job.next \in SUBSET Progs /\ cat \in CATs \cup {None} /\ m \in MapType
  BY <1>1, NothingLeft, JobFields, ListFacts DEF IInv, TypeOK
<1>3. /\ m.ecm \in [Decs -> ECMs \cup {None}] /\ m.uses \in [Decs -> Nat]
      /\ \A d \in Decs : m.ecm[d] = None
  BY <1>2, MapFields DEF Alive
<1>4. m' = [type   |-> [p \in PIDs |-> IF p \in job.next THEN "PMT" ELSE "UNKNOWN"],
            count  |-> [p \in PIDs |-> 0],
            target |-> [p \in PIDs |-> None], ecm |-> m.ecm, uses |-> m.uses]
  BY <1>1, <1>2 DEF ClearedMap, MapType
<1>5. QED
  BY <1>1, <1>2, <1>3, <1>4, ClearKeeps

LEMMA TeardownEndKeeps ==
  ASSUME IInv, TeardownEnd
  PROVE  IInv'
<1>1. /\ job.kind \in {"pat", "teardown"} /\ job.unref = <<>> /\ job.release = {}
      /\ m' = [ClearedMap(m, {}) EXCEPT !.ecm = [d \in Decs |-> None],
                                        !.uses = [d \in Decs |-> 0]]
      /\ job' = NoJob /\ cat' = None /\ UNCHANGED <<streams, oldStrm, pmt>>
  BY DEF TeardownEnd, Released
<1>2. m \in MapType
  BY ListFacts
<1>3. PICK e \in [Decs -> ECMs \cup {None}], u \in [Decs -> Nat] :
        e = [d \in Decs |-> None] /\ u = [d \in Decs |-> 0]
  OBVIOUS
<1>4. m' = [type   |-> [p \in PIDs |-> IF p \in {} THEN "PMT" ELSE "UNKNOWN"],
            count  |-> [p \in PIDs |-> 0],
            target |-> [p \in PIDs |-> None], ecm |-> e, uses |-> u]
  BY <1>1, <1>2, <1>3 DEF ClearedMap, MapType
<1>5. (\A d \in Decs : e[d] = None) /\ {} \in SUBSET Progs /\ cat' \in CATs \cup {None}
  BY <1>1, <1>3
<1>6. QED
  BY <1>1, <1>4, <1>5, ClearKeeps

\* What proc_pmt() does to the map up to its first loop: L is the new list.
LEMMA PmtBeginMap ==
  ASSUME IInv, NEW g \in Progs, NEW t \in Tables[g], NEW d, PmtBegin(g, t, d)
  PROVE  \E L \in Seq(ECMs) :
           /\ streams' = [streams EXCEPT ![g] = L]
           /\ L = IF t.ca \in ECMs THEN <<t.ca>> ELSE <<>>
           /\ MapOK(m', d) /\ InUseBut(m', None)
           /\ \A q \in PIDs : m'.count[q] = m.count[q] + Times(L, q)
           /\ t.ca \in ECMs => m'.type[t.ca] = "ECM" /\ m'.target[t.ca] = d
           /\ \A q \in PIDs : t.ca \notin ECMs \/ q # t.ca =>
                m'.type[q] = m.type[q] /\ m'.target[q] = m.target[q]
<1>1. /\ MapOK(m, None) /\ InUseBut(m, None) /\ m \in MapType
      /\ m.count \in [PIDs -> Nat]
  <2>1. job.dec0 = None
    BY DEF PmtBegin, Idle, NoJob
  <2>2. m \in MapType
    BY ListFacts
  <2>3. QED
    BY <2>1, <2>2, MapFields DEF IInv
<1>2. CASE t.ca \in ECMs
  <2>1. PICK k \in ECMs : k = t.ca /\ k \in PIDs
    BY <1>2, KindsOfPids
  <2>2. /\ d \in DecryptorFor(m, k)
        /\ m' = AddEcm(Hold(SetDecryptor(m, k, d), d), <<>>, k)
        /\ streams' = [streams EXCEPT ![g] = <<k>>]
    BY <1>2, <2>1 DEF PmtBegin
  <2>3. PICK set : set = SetDecryptor(m, k, d)
    OBVIOUS
  <2>4. PICK hold : hold = Hold(set, d)
    OBVIOUS
  <2>5. /\ MapOK(set, None) /\ InUseBut(set, d) /\ d \in Alive(set)
        /\ set.count = m.count /\ set.type[k] = "ECM" /\ set.target[k] = d
        /\ \A q \in PIDs : q # k => set.type[q] = m.type[q] /\ set.target[q] = m.target[q]
    BY <1>1, <2>2, <2>3, SetDecryptorOK
  <2>6. /\ MapOK(hold, d) /\ InUseBut(hold, None)
        /\ hold.count = set.count /\ hold.type = set.type /\ hold.target = set.target
    BY <2>4, <2>5, HoldOK
  <2>7. PICK c \in [PIDs -> Nat] : c = [m.count EXCEPT ![k] = m.count[k] + 1]
    <3>1. [m.count EXCEPT ![k] = m.count[k] + 1] \in [PIDs -> Nat]
      BY <1>1, <2>1
    <3>2. QED
      BY <3>1
  <2>8. m' = [hold EXCEPT !.count = c]
    <3>1. ~Lists(<<>>, k)
      BY DEF Lists
    <3>2. m' = [hold EXCEPT !.count[k] = @ + 1]
      BY <2>2, <2>3, <2>4, <3>1 DEF AddEcm
    <3>3. hold \in MapType /\ hold.count = m.count
      BY <2>5, <2>6 DEF MapOK
    <3>4. QED
      BY <2>7, <3>2, <3>3 DEF MapType
  <2>9. /\ MapOK(m', d) /\ InUseBut(m', None) /\ m'.count = c
        /\ m'.type = hold.type /\ m'.target = hold.target
    BY <2>6, <2>8, CountsAreFree
  <2>10. \A q \in PIDs : m'.count[q] = m.count[q] + Times(<<k>>, q)
    BY <1>1, <2>1, <2>7, <2>9, TimesSingle DEF One
  <2>11. <<k>> \in Seq(ECMs) /\ <<k>> = IF t.ca \in ECMs THEN <<t.ca>> ELSE <<>>
    BY <1>2, <2>1
  <2>12. /\ streams' = [streams EXCEPT ![g] = <<k>>]
         /\ m'.type[t.ca] = "ECM" /\ m'.target[t.ca] = d
         /\ \A q \in PIDs : q # t.ca => m'.type[q] = m.type[q] /\ m'.target[q] = m.target[q]
    BY <2>1, <2>2, <2>5, <2>6, <2>9
  <2>13. PICK L : L = <<k>>
    OBVIOUS
  <2>14. QED
    BY <1>2, <2>9, <2>10, <2>11, <2>12, <2>13
<1>3. CASE t.ca \notin ECMs
  <2>1. /\ d \in Alive(m) \cup {None}
        /\ m' = Hold(m, d) /\ streams' = [streams EXCEPT ![g] = <<>>]
    BY <1>3 DEF PmtBegin
  <2>2. MapOK(m', d) /\ InUseBut(m', None) /\ m'.count = m.count /\ m'.type = m.type
        /\ m'.target = m.target
    <3>1. CASE d = None
      BY <1>1, <2>1, <3>1 DEF Hold
    <3>2. CASE d # None
      <4>1. d \in Alive(m) /\ InUseBut(m, d)
        BY <1>1, <2>1, <3>2, KindsOfPids DEF InUseBut, Alive
      <4>2. QED
        BY <1>1, <2>1, <4>1, HoldOK
    <3>3. QED
      BY <3>1, <3>2
  <2>3. \A q \in PIDs : m'.count[q] = m.count[q] + Times(<<>>, q)
    BY <1>1, <2>2, TimesEmpty
  <2>4. <<>> \in Seq(ECMs) /\ <<>> = IF t.ca \in ECMs THEN <<t.ca>> ELSE <<>>
    BY <1>3
  <2>5. QED
    BY <1>3, <2>1, <2>2, <2>3, <2>4
<1>4. QED
  BY <1>2, <1>3

\* proc_pmt() begins.
LEMMA PmtBeginKeeps ==
  ASSUME IInv, NEW g \in Progs, NEW t \in Tables[g], NEW d, PmtBegin(g, t, d)
  PROVE  IInv'
<1>1. /\ job = NoJob /\ oldStrm' = [oldStrm EXCEPT ![g] = streams[g]]
      /\ job' = [NoJob EXCEPT !.kind = "pmt", !.prog = g, !.dec0 = d,
                              !.unref = oldStrm[g], !.todo = t.es]
      /\ pmt' = [pmt EXCEPT ![g] = t] /\ cat' = cat
  BY DEF PmtBegin, Idle
<1>2. PICK L \in Seq(ECMs) :
        /\ streams' = [streams EXCEPT ![g] = L]
        /\ L = IF t.ca \in ECMs THEN <<t.ca>> ELSE <<>>
        /\ MapOK(m', d) /\ InUseBut(m', None)
        /\ \A q \in PIDs : m'.count[q] = m.count[q] + Times(L, q)
        /\ t.ca \in ECMs => m'.type[t.ca] = "ECM" /\ m'.target[t.ca] = d
        /\ \A q \in PIDs : t.ca \notin ECMs \/ q # t.ca =>
             m'.type[q] = m.type[q] /\ m'.target[q] = m.target[q]
  BY PmtBeginMap, Zenon
<1>3. L \in Seq(PIDs) /\ L \in Seq(ECMs \cup StreamsOf(g))
  <2>1. ECMs \subseteq PIDs /\ ECMs \subseteq ECMs \cup StreamsOf(g)
    BY KindsOfPids
  <2>2. \A S, T : \A q \in Seq(S) : S \subseteq T => q \in Seq(T)
    BY SequenceType, ElementType
  <2>3. QED
    BY <2>1, <2>2
<1>4. t.es \in Seq([pid: StreamsOf(g), ca: CaPIDs]) /\ t.es \in Seq([pid: StreamPIDs, ca: CaPIDs])
  <2>1. t \in [ca: CaPIDs, es: Seq([pid: StreamPIDs, ca: CaPIDs])]
    BY TableAssumption
  <2>2. QED
    BY <2>1, StreamsOfProgram
<1>5. /\ job'.kind = "pmt" /\ job'.prog = g /\ job'.dec0 = d /\ job'.unref = oldStrm[g]
      /\ job'.todo = t.es /\ job'.release = {} /\ job' \in JobType /\ job.unref = <<>>
  <2>1. d \in Decs \cup {None}
    BY <1>2 DEF MapOK, Alive
  <2>2. oldStrm[g] \in Seq(PIDs)
    BY ListFacts
  <2>3. PICK es, ol : es = t.es /\ ol = oldStrm[g] /\ ol \in Seq(PIDs)
                      /\ es \in Seq([pid: StreamPIDs, ca: CaPIDs])
    BY <1>4, <2>2
  <2>4. job' = [kind |-> "pmt", prog |-> g, dec0 |-> d, unref |-> ol,
                todo |-> es, release |-> {}, next |-> {}] /\ job.unref = <<>>
    BY <1>1, <2>3 DEF NoJob
  <2>5. job' \in JobType
    BY <2>1, <2>3, <2>4 DEF JobType
  <2>6. QED
    BY <2>3, <2>4, <2>5
<1>6. /\ streams' \in [Progs -> Seq(PIDs)] /\ oldStrm' \in [Progs -> Seq(PIDs)]
      /\ streams'[g] = L /\ oldStrm'[g] = streams[g]
      /\ \A h \in Progs \ {g} : streams'[h] = streams[h] /\ oldStrm'[h] = oldStrm[h]
  <2>1. streams \in [Progs -> Seq(PIDs)] /\ oldStrm \in [Progs -> Seq(PIDs)]
    BY DEF IInv, TypeOK
  <2>2. QED
    BY <1>1, <1>2, <1>3, <2>1
<1>7. TypeOK'
  <2>1. pmt' \in [Progs -> (UNION {Tables[h] : h \in Progs}) \cup {None}]
        /\ \A h \in Progs : pmt'[h] \in Tables[h] \cup {None}
    BY <1>1 DEF IInv, TypeOK
  <2>2. QED
    BY <1>1, <1>2, <1>5, <1>6, <2>1 DEF IInv, TypeOK, MapOK
<1>8. ListsTyped'
  <2>1. \A h \in Progs : /\ streams'[h] \in Seq(ECMs \cup StreamsOf(h))
                         /\ oldStrm'[h] \in Seq(ECMs \cup StreamsOf(h))
    BY <1>3, <1>6 DEF IInv, ListsTyped
  <2>2. oldStrm[g] \in Seq(ECMs \cup StreamPIDs)
    <3>1. oldStrm[g] \in Seq(ECMs \cup StreamsOf(g))
      BY DEF IInv, ListsTyped
    <3>2. QED
      BY <3>1, StreamsOfProgram
  <2>3. QED
    BY <1>4, <1>5, <2>1, <2>2 DEF ListsTyped
<1>9. \A q \in PIDs : Total(streams', oldStrm', q) + Times(oldStrm[g], q)
                        = Total(streams, oldStrm, q) + Times(L, q)
  <2> SUFFICES ASSUME NEW q \in PIDs
               PROVE  Total(streams', oldStrm', q) + Times(oldStrm[g], q)
                        = Total(streams, oldStrm, q) + Times(L, q)
    OBVIOUS
  <2>1. ListsIn(PIDs, Progs, streams', oldStrm') /\ ListsIn(PIDs, Progs, streams, oldStrm)
    BY <1>6, ListFacts DEF ListsIn
  <2>2. /\ Total(streams, oldStrm, q) \in Nat /\ Total(streams', oldStrm', q) \in Nat
        /\ Total(streams', oldStrm', q) - Times(streams'[g], q) - Times(oldStrm'[g], q)
             = Total(streams, oldStrm, q) - Times(streams[g], q) - Times(oldStrm[g], q)
    <3>1. \A h \in Progs \ {g} : streams'[h] = streams[h] /\ oldStrm'[h] = oldStrm[h]
      BY <1>6
    <3>2. QED
      BY <2>1, <3>1, TotalChanges, SMTT(60)
  <2>3. /\ Times(streams'[g], q) = Times(L, q) /\ Times(L, q) \in Nat
        /\ Times(oldStrm'[g], q) = Times(streams[g], q) /\ Times(streams[g], q) \in Nat
        /\ Times(oldStrm[g], q) \in Nat
    BY <1>3, <1>6, TimesType, ListFacts
  <2>4. QED
    BY <2>2, <2>3, SMTT(60)
<1>10. /\ \A q \in PIDs : m'.type[q] \in {"PMT", "EMM"} <=> m.type[q] \in {"PMT", "EMM"}
       /\ \A q \in PIDs : m'.type[q] = "OTHER" => m.type[q] = "OTHER"
  <2>1. t.ca \in ECMs => m.type[t.ca] \notin {"PMT", "EMM"}
    BY ListFacts DEF KindsApart
  <2>2. QED
    BY <1>2, <2>1
<1>11. CountsExact'
  <2>1. CountsAre(m', streams', oldStrm', oldStrm[g])
    <3> SUFFICES ASSUME NEW q \in PIDs, m'.type[q] \notin {"PMT", "EMM"}
                 PROVE  m'.count[q] = Total(streams', oldStrm', q) + Times(oldStrm[g], q)
      BY DEF CountsAre
    <3>1. m.count[q] = Total(streams, oldStrm, q) + Times(<<>>, q)
      BY <1>5, <1>10, ListFacts DEF CountsAre
    <3>2. Total(streams, oldStrm, q) \in Nat
      BY EntriesInFinite, ListFacts, PidAssumption, FS_Subset DEF Total
    <3>3. m.count[q] = Total(streams, oldStrm, q)
      BY <3>1, <3>2, TimesEmpty
    <3>4. m'.count[q] = m.count[q] + Times(L, q)
      BY <1>2
    <3>5. Total(streams', oldStrm', q) + Times(oldStrm[g], q)
            = Total(streams, oldStrm, q) + Times(L, q)
      BY <1>9
    <3>6. QED
      BY <3>3, <3>4, <3>5
  <2>2. QED
    BY <1>5, <2>1, CountsExactIs
<1>12. StreamsListed'
  <2> SUFFICES ASSUME NEW q \in PIDs, m'.type[q] = "OTHER" PROVE m'.count[q] > 0
    BY DEF StreamsListed
  <2>1. m.count[q] > 0 /\ m.count[q] \in Nat
    BY <1>10, ListFacts, MapFields DEF IInv, StreamsListed
  <2>2. Times(L, q) \in Nat
    BY <1>3, TimesType
  <2>3. QED
    BY <1>2, <2>1, <2>2
<1>13. JobShape'
  BY <1>5 DEF JobShape
<1>14. QED
  BY <1>2, <1>5, <1>7, <1>8, <1>11, <1>12, <1>13 DEF IInv

\* add_ecm_stream() and its list.
LEMMA AddEcmOK ==
  ASSUME NEW mm, NEW h, MapOK(mm, h), NEW x, InUseBut(mm, x), NEW list \in Seq(PIDs),
         NEW p \in ECMs, NEW n, n = AddEcm(mm, list, p)
  PROVE  /\ MapOK(n, h) /\ InUseBut(n, x) /\ Alive(n) = Alive(mm)
         /\ n.type = mm.type /\ n.target = mm.target
         /\ WithEcm(list, p) \in Seq(PIDs)
         /\ \A q \in PIDs : /\ mm.count[q] \in Nat
                            /\ n.count[q] = mm.count[q] + Times(WithEcm(list, p), q) - Times(list, q)
<1>1. mm \in MapType /\ p \in PIDs /\ mm.count \in [PIDs -> Nat]
      /\ \A q \in PIDs : mm.count[q] \in Nat
  BY KindsOfPids, MapFields DEF MapOK
<1>2. \A q \in PIDs : Times(list, q) \in Nat
  BY TimesType
<1>3. CASE Lists(list, p)
  BY <1>1, <1>2, <1>3 DEF AddEcm, WithEcm
<1>4. CASE ~Lists(list, p)
  <2>1. PICK c \in [PIDs -> Nat] : c = [mm.count EXCEPT ![p] = mm.count[p] + 1]
    <3>1. [mm.count EXCEPT ![p] = mm.count[p] + 1] \in [PIDs -> Nat]
      BY <1>1
    <3>2. QED
      BY <3>1
  <2>2. n = [mm EXCEPT !.count = c]
    BY <1>1, <1>4, <2>1 DEF AddEcm, MapType
  <2>3. /\ MapOK(n, h) /\ InUseBut(n, x) /\ Alive(n) = Alive(mm)
        /\ n.type = mm.type /\ n.target = mm.target /\ n.count = c
    BY <2>2, CountsAreFree
  <2>4. WithEcm(list, p) = Append(list, p) /\ Append(list, p) \in Seq(PIDs)
    BY <1>1, <1>4 DEF WithEcm
  <2>5. \A q \in PIDs : Times(Append(list, p), q) = Times(list, q) + One(p = q)
    BY <1>1, TimesAppend
  <2>6. \A q \in PIDs : c[q] = mm.count[q] + One(p = q)
    BY <1>1, <2>1 DEF One
  <2>7. \A q \in PIDs : n.count[q] = mm.count[q] + Times(WithEcm(list, p), q) - Times(list, q)
    <3> SUFFICES ASSUME NEW q \in PIDs
                 PROVE  n.count[q] = mm.count[q] + Times(WithEcm(list, p), q) - Times(list, q)
      OBVIOUS
    <3>1. PICK a \in Nat, b \in Nat : a = Times(list, q) /\ b = mm.count[q]
      BY <1>1, <1>2
    <3>2. PICK i \in {0, 1} : i = One(p = q)
      BY DEF One
    <3>3. n.count[q] = b + i /\ Times(WithEcm(list, p), q) = a + i
      BY <2>3, <2>4, <2>5, <2>6, <3>1, <3>2
    <3>4. b + i = b + (a + i) - a
      OBVIOUS
    <3>5. QED
      BY <3>1, <3>3, <3>4
  <2>8. QED
    BY <1>1, <2>3, <2>4, <2>7
<1>5. QED
  BY <1>3, <1>4

\* What a turn of the second loop of proc_pmt() does to the map.
LEMMA PmtStreamMap ==
  ASSUME IInv, NEW d, PmtStream(d), NEW s, s = Head(job.todo), NEW g, g = job.prog,
         NEW list, list = IF s.ca \in ECMs THEN WithEcm(streams[g], s.ca) ELSE streams[g]
  PROVE  /\ g \in Progs /\ s.pid \in StreamsOf(g) /\ s.pid \in StreamPIDs /\ s.ca \in CaPIDs
         /\ list \in Seq(PIDs)
         /\ streams' = [streams EXCEPT ![g] = Append(list, s.pid)]
         /\ s.ca \notin ECMs => d = IF s.ca = Unscrambled THEN None ELSE job.dec0
         /\ MapOK(m', job.dec0) /\ InUseBut(m', None)
         /\ \A q \in PIDs : /\ m.count[q] \in Nat
                            /\ m'.count[q] = m.count[q] + Times(list, q) - Times(streams[g], q)
                                             + One(s.pid = q)
         /\ m'.type[s.pid] = "OTHER" /\ m'.target[s.pid] = d
         /\ s.ca \in ECMs => m'.type[s.ca] = "ECM" /\ m'.target[s.ca] = d
         /\ \A q \in PIDs \ ECMs : q # s.pid =>
              m'.type[q] = m.type[q] /\ m'.target[q] = m.target[q]
         /\ \A q \in ECMs : q # s.ca /\ m.target[q] \in Alive(m') =>
              m'.type[q] = m.type[q] /\ m'.target[q] = m.target[q]
<1>1. /\ job.kind = "pmt" /\ job.unref = <<>> /\ job.todo # <<>>
      /\ g \in Progs /\ job.todo \in Seq([pid: StreamsOf(g), ca: CaPIDs])
  BY DEF PmtStream, IInv, ListsTyped
<1>2. s \in [pid: StreamsOf(g), ca: CaPIDs]
  <2>1. \A S : \A q \in Seq(S) : q # <<>> => Head(q) \in S
    OBVIOUS
  <2>2. QED
    BY <1>1, <2>1
<1>3. PICK p : p = s.pid /\ p \in StreamsOf(g) /\ p \in StreamPIDs /\ p \in PIDs /\ s.ca \in CaPIDs
               /\ p \notin ECMs
  BY <1>2, StreamsOfProgram, KindsOfPids
<1>4. /\ MapOK(m, job.dec0) /\ InUseBut(m, None) /\ streams[g] \in Seq(PIDs)
      /\ \A q \in PIDs : Times(streams[g], q) \in Nat
  BY <1>1, ListFacts DEF IInv
<1>5. PICK set : set = IF s.ca \in ECMs
                         THEN AddEcm(SetDecryptor(m, s.ca, d), streams[g], s.ca) ELSE m
  OBVIOUS
<1>6. PICK mark : mark = [set EXCEPT !.type[p] = "OTHER", !.count[p] = @ + 1]
  OBVIOUS
<1>7. /\ d \in IF s.ca \in ECMs THEN DecryptorFor(m, s.ca)
               ELSE IF s.ca = Unscrambled THEN {None} ELSE {job.dec0}
      /\ m' = BindStream(mark, p, d)
      /\ streams' = [streams EXCEPT ![g] = Append(list, p)]
  BY <1>3, <1>5, <1>6 DEF PmtStream
<1>8. /\ MapOK(set, job.dec0) /\ InUseBut(set, d) /\ d \in Alive(set) \cup {None}
      /\ list \in Seq(PIDs)
      /\ \A q \in PIDs : /\ m.count[q] \in Nat
                         /\ set.count[q] = m.count[q] + Times(list, q) - Times(streams[g], q)
      /\ s.ca \in ECMs => set.type[s.ca] = "ECM" /\ set.target[s.ca] = d /\ d # None
      /\ \A q \in PIDs : s.ca \notin ECMs \/ q # s.ca =>
           set.type[q] = m.type[q] /\ set.target[q] = m.target[q]
  <2>1. CASE s.ca \in ECMs
    <3>1. PICK k \in ECMs : k = s.ca /\ k \in PIDs /\ d \in DecryptorFor(m, k)
      BY <1>7, <2>1, KindsOfPids
    <3>2. PICK free : free = SetDecryptor(m, k, d)
      OBVIOUS
    <3>3. /\ MapOK(free, job.dec0) /\ InUseBut(free, d) /\ d \in Alive(free)
          /\ free.count = m.count /\ free.type[k] = "ECM" /\ free.target[k] = d
          /\ \A q \in PIDs : q # k => free.type[q] = m.type[q] /\ free.target[q] = m.target[q]
      BY <1>4, <3>1, <3>2, SetDecryptorOK
    <3>4. set = AddEcm(free, streams[g], k) /\ list = WithEcm(streams[g], k)
      BY <1>5, <2>1, <3>1, <3>2
    <3>5. /\ MapOK(set, job.dec0) /\ InUseBut(set, d) /\ Alive(set) = Alive(free)
          /\ set.type = free.type /\ set.target = free.target
          /\ WithEcm(streams[g], k) \in Seq(PIDs)
          /\ \A q \in PIDs : /\ free.count[q] \in Nat
                /\ set.count[q] = free.count[q] + Times(WithEcm(streams[g], k), q) - Times(streams[g], q)
      BY <1>4, <3>3, <3>4, AddEcmOK
    <3>6. d # None
      BY <3>3, KindsOfPids DEF Alive
    <3>7. /\ MapOK(set, job.dec0) /\ InUseBut(set, d) /\ list \in Seq(PIDs)
          /\ d \in Alive(set) \cup {None}
      BY <3>3, <3>4, <3>5
    <3>8. \A q \in PIDs : /\ m.count[q] \in Nat
                          /\ set.count[q] = m.count[q] + Times(list, q) - Times(streams[g], q)
      BY <3>3, <3>4, <3>5
    <3>9. set.type[k] = "ECM" /\ set.target[k] = d
      BY <3>3, <3>5
    <3>10. \A q \in PIDs : q # k => set.type[q] = m.type[q] /\ set.target[q] = m.target[q]
      BY <3>3, <3>5
    <3>11. QED
      BY <2>1, <3>1, <3>6, <3>7, <3>8, <3>9, <3>10
  <2>2. CASE s.ca \notin ECMs
    <3>1. set = m /\ list = streams[g] /\ (d = None \/ d = job.dec0)
      BY <1>5, <1>7, <2>2
    <3>2. d \in Alive(m) \cup {None} /\ InUseBut(m, d)
      BY <1>4, <3>1, KindsOfPids DEF MapOK, InUseBut, Alive
    <3>3. m.count \in [PIDs -> Nat]
      BY ListFacts, MapFields
    <3>4. QED
      BY <1>4, <2>2, <3>1, <3>2, <3>3
  <2>3. QED
    BY <2>1, <2>2
<1>9. /\ MapOK(mark, job.dec0) /\ InUseBut(mark, d) /\ d \in Alive(mark) \cup {None}
      /\ mark.type[p] = "OTHER" /\ mark.target = set.target
      /\ \A q \in PIDs : q # p => mark.type[q] = set.type[q]
      /\ \A q \in PIDs : mark.count[q] = set.count[q] + One(p = q)
  <2>1. PICK mark1 : mark1 = Mark(set, p)
    OBVIOUS
  <2>2. /\ MapOK(mark1, job.dec0) /\ InUseBut(mark1, d) /\ Alive(mark1) = Alive(set)
        /\ mark1.count = set.count /\ mark1.type[p] = "OTHER" /\ mark1.target = set.target
        /\ \A q \in PIDs : q # p => mark1.type[q] = set.type[q]
    BY <1>3, <1>8, <2>1, MarkOK
  <2>3. set \in MapType /\ set.count \in [PIDs -> Nat]
    BY <1>8, MapFields DEF MapOK
  <2>4. PICK c \in [PIDs -> Nat] : c = [set.count EXCEPT ![p] = set.count[p] + 1]
    <3>1. [set.count EXCEPT ![p] = set.count[p] + 1] \in [PIDs -> Nat]
      BY <1>3, <2>3
    <3>2. QED
      BY <3>1
  <2>5. mark = [mark1 EXCEPT !.count = c]
    BY <1>6, <2>1, <2>3, <2>4 DEF MapType, Mark
  <2>6. /\ MapOK(mark, job.dec0) /\ InUseBut(mark, d) /\ Alive(mark) = Alive(mark1)
        /\ mark.count = c /\ mark.type = mark1.type /\ mark.target = mark1.target
    BY <2>2, <2>5, CountsAreFree
  <2>7. \A q \in PIDs : c[q] = set.count[q] + One(p = q)
    BY <1>3, <2>3, <2>4 DEF One
  <2>8. QED
    BY <1>8, <2>2, <2>6, <2>7
<1>10. /\ MapOK(m', job.dec0) /\ InUseBut(m', None)
       /\ m'.count = mark.count /\ m'.type[p] = "OTHER" /\ m'.target[p] = d
       /\ SameBut(mark, m', {p})
  <2>1. p \in StreamPIDs /\ m' = BindStream(mark, p, d)
    BY <1>3, <1>7
  <2>2. QED
    BY <1>9, <2>1, BindStreamOK, SMTT(30)
<1>11. /\ \A q \in PIDs \ ECMs : q # p => m'.type[q] = m.type[q] /\ m'.target[q] = m.target[q]
       /\ \A q \in ECMs : q # s.ca /\ m.target[q] \in Alive(m') =>
            m'.type[q] = m.type[q] /\ m'.target[q] = m.target[q]
  BY <1>3, <1>8, <1>9, <1>10, KindsOfPids DEF SameBut
<1>12. s.ca \in ECMs => m'.type[s.ca] = "ECM" /\ m'.target[s.ca] = d
  <2> SUFFICES ASSUME s.ca \in ECMs PROVE m'.type[s.ca] = "ECM" /\ m'.target[s.ca] = d
    OBVIOUS
  <2>1. mark.target[s.ca] = d /\ mark.type[s.ca] = "ECM" /\ d # None
    BY <1>3, <1>8, <1>9, KindsOfPids
  <2>2. d \in Alive(m')
    BY <1>3, <1>10, <2>1 DEF MapOK, TargetsAlive
  <2>3. QED
    BY <1>3, <1>10, <2>1, <2>2 DEF SameBut
<1>13. \A q \in PIDs : /\ m.count[q] \in Nat
                       /\ m'.count[q] = m.count[q] + Times(list, q) - Times(streams[g], q) + One(p = q)
  BY <1>8, <1>9, <1>10
<1>14. QED
  BY <1>1, <1>3, <1>7, <1>8, <1>10, <1>11, <1>12, <1>13

\* A turn of the second loop of proc_pmt().
LEMMA PmtStreamKeeps ==
  ASSUME IInv, NEW d, PmtStream(d)
  PROVE  IInv'
<1>1. PICK s, g, list : /\ s = Head(job.todo) /\ g = job.prog
                        /\ list = IF s.ca \in ECMs THEN WithEcm(streams[g], s.ca) ELSE streams[g]
  OBVIOUS
<1>2. /\ g \in Progs /\ s.pid \in StreamsOf(g) /\ s.pid \in StreamPIDs /\ s.ca \in CaPIDs
      /\ list \in Seq(PIDs)
      /\ streams' = [streams EXCEPT ![g] = Append(list, s.pid)]
      /\ MapOK(m', job.dec0) /\ InUseBut(m', None)
      /\ \A q \in PIDs : /\ m.count[q] \in Nat
                         /\ m'.count[q] = m.count[q] + Times(list, q) - Times(streams[g], q)
                                          + One(s.pid = q)
      /\ m'.type[s.pid] = "OTHER"
      /\ \A q \in PIDs \ ECMs : q # s.pid => m'.type[q] = m.type[q]
  BY <1>1, PmtStreamMap, SMTT(60)
<1>3. PICK p : p = s.pid /\ p \in PIDs /\ p \notin ECMs
  BY <1>2, KindsOfPids
<1>4. PICK rest : rest = Tail(job.todo)
  OBVIOUS
<1>5. /\ job.kind = "pmt" /\ job.unref = <<>> /\ job' = [job EXCEPT !.todo = rest]
      /\ oldStrm' = oldStrm /\ pmt' = pmt /\ cat' = cat
      /\ rest \in Seq([pid: StreamPIDs, ca: CaPIDs]) /\ rest \in Seq([pid: StreamsOf(g), ca: CaPIDs])
  <2>1. job.kind = "pmt" /\ job.todo # <<>>
    BY DEF PmtStream
  <2>2. /\ job.todo \in Seq([pid: StreamPIDs, ca: CaPIDs])
        /\ job.todo \in Seq([pid: StreamsOf(g), ca: CaPIDs])
    BY <1>1, <2>1, JobFields DEF IInv, ListsTyped
  <2>3. \A S : \A q \in Seq(S) : q # <<>> => Tail(q) \in Seq(S)
    OBVIOUS
  <2>4. rest \in Seq([pid: StreamPIDs, ca: CaPIDs]) /\ rest \in Seq([pid: StreamsOf(g), ca: CaPIDs])
    BY <1>4, <2>1, <2>2, <2>3
  <2>5. QED
    BY <1>4, <2>1, <2>4 DEF PmtStream
<1>6. /\ job'.kind = "pmt" /\ job'.prog = g /\ job'.dec0 = job.dec0 /\ job'.unref = <<>>
      /\ job'.todo = rest /\ job'.release = job.release /\ job' \in JobType
  <2>1. job' = [kind |-> job.kind, prog |-> job.prog, dec0 |-> job.dec0, unref |-> job.unref,
                todo |-> rest, release |-> job.release, next |-> job.next]
    BY <1>5, JobFields
  <2>2. QED
    BY <1>1, <1>5, <2>1, JobFields DEF JobType
<1>7. PICK new : new = Append(list, p) /\ new \in Seq(PIDs) /\ new \in Seq(ECMs \cup StreamsOf(g))
  <2>1. streams[g] \in Seq(ECMs \cup StreamsOf(g))
    BY <1>2 DEF IInv, ListsTyped
  <2>2. list \in Seq(ECMs \cup StreamsOf(g))
    BY <1>1, <2>1 DEF WithEcm
  <2>3. Append(list, p) \in Seq(PIDs) /\ Append(list, p) \in Seq(ECMs \cup StreamsOf(g))
    BY <1>2, <1>3, <2>2
  <2>4. QED
    BY <2>3
<1>8. /\ streams' \in [Progs -> Seq(PIDs)] /\ streams'[g] = new
      /\ \A h \in Progs \ {g} : streams'[h] = streams[h] /\ oldStrm'[h] = oldStrm[h]
  <2>1. streams \in [Progs -> Seq(PIDs)]
    BY DEF IInv, TypeOK
  <2>2. QED
    BY <1>2, <1>3, <1>5, <1>7, <2>1
<1>9. TypeOK'
  BY <1>2, <1>5, <1>6, <1>8 DEF IInv, TypeOK, MapOK
<1>10. ListsTyped'
  <2>1. \A h \in Progs : /\ streams'[h] \in Seq(ECMs \cup StreamsOf(h))
                         /\ oldStrm'[h] \in Seq(ECMs \cup StreamsOf(h))
    BY <1>5, <1>7, <1>8 DEF IInv, ListsTyped
  <2>2. <<>> \in Seq(ECMs \cup StreamPIDs)
    OBVIOUS
  <2>3. QED
    BY <1>2, <1>5, <1>6, <2>1, <2>2 DEF ListsTyped
<1>11. \A q \in PIDs : Total(streams', oldStrm', q) \in Nat /\ Total(streams, oldStrm, q) \in Nat
         /\ Total(streams', oldStrm', q)
              = Total(streams, oldStrm, q) + Times(list, q) - Times(streams[g], q) + One(p = q)
  <2> SUFFICES ASSUME NEW q \in PIDs
               PROVE  /\ Total(streams', oldStrm', q) \in Nat /\ Total(streams, oldStrm, q) \in Nat
                      /\ Total(streams', oldStrm', q)
                          = Total(streams, oldStrm, q) + Times(list, q) - Times(streams[g], q) + One(p = q)
    OBVIOUS
  <2>1. ListsIn(PIDs, Progs, streams', oldStrm') /\ ListsIn(PIDs, Progs, streams, oldStrm)
    BY <1>5, <1>8, ListFacts DEF ListsIn
  <2>2. /\ Total(streams, oldStrm, q) \in Nat /\ Total(streams', oldStrm', q) \in Nat
        /\ Total(streams', oldStrm', q) - Times(streams'[g], q) - Times(oldStrm'[g], q)
             = Total(streams, oldStrm, q) - Times(streams[g], q) - Times(oldStrm[g], q)
    <3>1. \A h \in Progs \ {g} : streams'[h] = streams[h] /\ oldStrm'[h] = oldStrm[h]
      BY <1>8
    <3>2. g \in Progs
      BY <1>2
    <3>3. QED
      BY <2>1, <3>1, <3>2, TotalChanges, SMTT(60)
  <2>3. Times(new, q) = Times(list, q) + One(p = q)
    BY <1>2, <1>3, <1>7, TimesAppend
  <2>4. PICK a \in Nat, b \in Nat, c \in Nat, n \in Nat, i \in {0, 1} :
          /\ a = Times(streams[g], q) /\ b = Times(oldStrm[g], q) /\ c = Times(list, q)
          /\ n = Total(streams, oldStrm, q) /\ i = One(p = q)
    BY <1>2, <2>2, TimesType, ListFacts DEF One
  <2>5. PICK k \in Nat : k = Total(streams', oldStrm', q)
    BY <2>2
  <2>6. k - (c + i) - b = n - a - b
    BY <1>5, <1>8, <2>2, <2>3, <2>4, <2>5
  <2>7. k = n + c - a + i
    BY <2>6
  <2>8. QED
    BY <2>2, <2>4, <2>5, <2>7
<1>12. CountsExact'
  <2>1. CountsAre(m', streams', oldStrm', <<>>)
    <3> SUFFICES ASSUME NEW q \in PIDs, m'.type[q] \notin {"PMT", "EMM"}
                 PROVE  m'.count[q] = Total(streams', oldStrm', q) + Times(<<>>, q)
      BY DEF CountsAre
    <3>1. m.type[q] \notin {"PMT", "EMM"}
      <4>1. CASE q \in ECMs \cup StreamPIDs
        BY <4>1, KindsOfPids, ListFacts DEF KindsApart
      <4>2. CASE q \notin ECMs \cup StreamPIDs
        BY <1>2, <4>2
      <4>3. QED
        BY <4>1, <4>2
    <3>2. m.count[q] = Total(streams, oldStrm, q) + Times(<<>>, q)
      BY <1>5, <3>1, ListFacts DEF CountsAre
    <3>3. m.count[q] = Total(streams, oldStrm, q)
      BY <1>11, <3>2, TimesEmpty
    <3>4. /\ m'.count[q] = m.count[q] + Times(list, q) - Times(streams[g], q) + One(p = q)
          /\ Total(streams', oldStrm', q)
               = Total(streams, oldStrm, q) + Times(list, q) - Times(streams[g], q) + One(p = q)
          /\ Total(streams', oldStrm', q) \in Nat
      BY <1>2, <1>3, <1>11
    <3>5. m'.count[q] = Total(streams', oldStrm', q)
      BY <3>3, <3>4
    <3>6. QED
      BY <3>4, <3>5, TimesEmpty
  <2>2. QED
    BY <1>6, <2>1, CountsExactIs
<1>13. StreamsListed'
  <2> SUFFICES ASSUME NEW q \in PIDs, m'.type[q] = "OTHER" PROVE m'.count[q] > 0
    BY DEF StreamsListed
  <2>1. q \in StreamPIDs
    BY <1>2, KindsOfPids DEF MapOK, KindsApart, StreamPIDs
  <2>2. m'.count[q] = Total(streams', oldStrm', q) + Times(<<>>, q)
    BY <1>6, <1>12, CountsExactIs DEF CountsAre
  <2>3. CASE q = p
    <3>1. ListsIn(PIDs, Progs, streams', oldStrm')
      BY <1>5, <1>8, ListFacts DEF ListsIn
    <3>2. Total(streams', oldStrm', q) >= Times(streams'[g], q) + Times(oldStrm'[g], q)
      BY <1>2, <3>1, TotalCovers
    <3>3. /\ Times(new, q) = Times(list, q) + One(p = q)
          /\ Times(list, q) \in Nat /\ Times(oldStrm'[g], q) \in Nat
      BY <1>2, <1>3, <1>5, <1>7, TimesAppend, TimesType, ListFacts
    <3>4. QED
      BY <1>8, <1>11, <2>2, <2>3, <3>2, <3>3, TimesEmpty DEF One
  <2>4. CASE q # p
    <3>1. m.type[q] = "OTHER"
      BY <1>2, <1>3, <2>1, <2>4, KindsOfPids
    <3>2. Times(list, q) = Times(streams[g], q) /\ Times(list, q) \in Nat
      <4>1. CASE s.ca \in ECMs /\ ~Lists(streams[g], s.ca)
        <5>1. list = Append(streams[g], s.ca) /\ s.ca # q /\ s.ca \in PIDs
          BY <1>1, <2>1, <4>1, KindsOfPids DEF WithEcm
        <5>2. Times(list, q) = Times(streams[g], q) + One(s.ca = q) /\ Times(streams[g], q) \in Nat
          BY <1>2, <5>1, TimesAppend, ListFacts
        <5>3. QED
          BY <5>1, <5>2 DEF One
      <4>2. CASE ~(s.ca \in ECMs /\ ~Lists(streams[g], s.ca))
        BY <1>1, <1>2, <4>2, ListFacts DEF WithEcm
      <4>3. QED
        BY <4>1, <4>2
    <3>3. m.count[q] > 0 /\ m.count[q] \in Nat
      BY <1>2, <3>1 DEF IInv, StreamsListed
    <3>4. m'.count[q] = m.count[q] + Times(list, q) - Times(streams[g], q) + 0
      BY <1>2, <1>3, <2>4 DEF One
    <3>5. QED
      BY <3>2, <3>3, <3>4
  <2>5. QED
    BY <2>3, <2>4
<1>14. JobShape'
  BY <1>5, <1>6 DEF IInv, JobShape
<1>15. QED
  BY <1>2, <1>6, <1>9, <1>10, <1>12, <1>13, <1>14 DEF IInv

----------------------------------------------------------------------------
LEMMA NextKeeps == IInv /\ [Next]_vars => IInv'
<1> SUFFICES ASSUME IInv, [Next]_vars PROVE IInv'
  OBVIOUS
<1>1. CASE \E g \in Progs : \E t \in Tables[g], d \in Decs \cup {None} : PmtBegin(g, t, d)
  BY <1>1, PmtBeginKeeps
<1>2. CASE Unref
  BY <1>2, UnrefKeeps
<1>3. CASE \E d \in Decs \cup {None} : PmtStream(d)
  BY <1>3, PmtStreamKeeps
<1>4. CASE PmtEnd
  BY <1>4, PmtEndKeeps
<1>5. CASE PatBegin \/ TeardownBegin
  BY <1>5, ReleaseBeginKeeps DEF PatBegin, TeardownBegin
<1>6. CASE \E g \in Progs : ReleaseProgram(g)
  BY <1>6, ReleaseProgramKeeps
<1>7. CASE PatEnd \/ TeardownEnd
  BY <1>7, PatEndKeeps, TeardownEndKeeps
<1>8. CASE \E c \in CATs : ProcCat(c)
  BY <1>8, ProcCatKeeps
<1>9. CASE UNCHANGED vars
  <2>1. /\ m' = m /\ streams' = streams /\ oldStrm' = oldStrm
        /\ pmt' = pmt /\ cat' = cat /\ job' = job
    BY <1>9 DEF vars
  <2>2. CountsExact'
    BY <2>1, ListFacts, CountsExactIs
  <2>3. QED
    BY <2>1, <2>2 DEF IInv, TypeOK, ListsTyped, StreamsListed, JobShape
<1>10. QED
  BY <1>1, <1>2, <1>3, <1>4, <1>5, <1>6, <1>7, <1>8, <1>9 DEF Next

\* Between any two steps the map is in order for the decryptor that proc_pmt()
\* holds, every decryptor is used and the lists agree with the map.
THEOREM MapInvariantHolds == Spec => []IInv
  BY InitKeeps, NextKeeps, PTL DEF Spec

\* The variables of the PID map always have their types.
THEOREM MapTypeCorrect == Spec => []TypeOK
<1>1. IInv => TypeOK
  BY DEF IInv
<1>2. QED
  BY <1>1, MapInvariantHolds, PTL

\* Neither an entry of the map nor dec[0] leads to a decryptor that
\* remove_decryptor() has freed.
THEOREM NothingDangles == Spec => []NoDangling
<1>1. IInv => NoDangling
  BY DEF IInv, MapOK, TargetsAlive, NoDangling
<1>2. QED
  BY <1>1, MapInvariantHolds, PTL

\* "this code will never execute": at an ECM packet the PID always leads to the
\* decryptor that was made for it.
THEOREM EcmsFindTheirDecryptor == Spec => []EcmServed
<1>1. IInv => EcmServed
  BY DEF IInv, MapOK, Served, EcmServed
<1>2. QED
  BY <1>1, MapInvariantHolds, PTL

\* DECRYPTOR_ELEM.ref is the number of streams bound to the decryptor, and one
\* more while proc_pmt() holds it.
THEOREM DecryptorCountsExact == Spec => []UsesExact
<1>1. IInv => UsesExact
  BY DEF IInv, MapOK, UsesAre, UsesExact, One
<1>2. QED
  BY <1>1, MapInvariantHolds, PTL

\* map[pid].ref is the number of entries that name the PID.
THEOREM EntryCountsExact == Spec => []CountsExact
<1>1. IInv => CountsExact
  BY DEF IInv
<1>2. QED
  BY <1>1, MapInvariantHolds, PTL

\* Between calls every decryptor has a stream.
THEOREM NoDecryptorLeaks == Spec => []NoLeak
<1>1. IInv => NoLeak
  <2> SUFFICES ASSUME IInv, Idle, NEW d \in Alive(m), Bound(m, d) = {} PROVE FALSE
    BY DEF NoLeak
  <2>1. job.dec0 = None /\ d # None
    BY KindsOfPids DEF Idle, NoJob, Alive
  <2>2. m.uses[d] = 0
    BY <2>1, FS_EmptySet DEF IInv, MapOK, UsesAre, One
  <2>3. QED
    BY <2>1, <2>2 DEF IInv, InUseBut
<1>2. QED
  BY <1>1, MapInvariantHolds, PTL

----------------------------------------------------------------------------
\* Where the streams lead: the inductive invariant of routing, on top of the first.

\* The ECM PID that a PMT names for one of its streams.
NamedFor(t, s) == IF s.ca = None THEN t.ca ELSE s.ca

\* Stream p leads to the decryptor that gets the ECMs of k.
Routed(mm, p, k) ==
  mm.type[k] = "ECM" /\ mm.target[k] # None /\ mm.target[p] = mm.target[k]

\* The list keeps both of them in the map.
EntryRouted(mm, list, t, s) ==
  /\ NamedFor(t, s) \in ECMs =>
       /\ Routed(mm, s.pid, NamedFor(t, s))
       /\ Lists(list, NamedFor(t, s)) /\ Lists(list, s.pid)
  /\ s.ca = Unscrambled => mm.target[s.pid] = None

\* How many streams of its PMT a program has already: proc_pmt() may be at work.
Processed(g) ==
  Len(pmt[g].es) - (IF job.kind = "pmt" /\ job.prog = g THEN Len(job.todo) ELSE 0)

ProgramRouted(g) ==
  pmt[g] # None =>
    \A i \in 1 .. Processed(g) : EntryRouted(m, streams[g], pmt[g], pmt[g].es[i])

\* What proc_pmt() works on is the rest of the PMT, and dec[0] is the decryptor of
\* the program's own ECM PID, which is already listed.
JobRouted ==
  job.kind = "pmt" =>
    LET t == pmt[job.prog]
        n == Len(job.todo)
    IN  /\ t \in Tables[job.prog] /\ n <= Len(t.es)
        /\ \A j \in 1 .. n : job.todo[j] = t.es[Len(t.es) - n + j]
        /\ t.ca \in ECMs => /\ m.type[t.ca] = "ECM" /\ m.target[t.ca] = job.dec0
                            /\ job.dec0 # None /\ Lists(streams[job.prog], t.ca)

ReleasedForgotten ==
  job.kind \in {"pat", "teardown"} => \A g \in Progs \ job.release : pmt[g] = None

RInv ==
  /\ \A g \in Progs : ProgramRouted(g)
  /\ JobRouted
  /\ ReleasedForgotten

----------------------------------------------------------------------------
\* What changes of the map and what a step may change of it.

\* A PID that is touched stays as it is, or is no longer listed, or is an ECM PID that
\* had no decryptor.
Spared(mm, n, list, p) ==
  \/ n.type[p] = mm.type[p] /\ n.target[p] = mm.target[p]
  \/ ~Lists(list, p) /\ n.target[p] \in {mm.target[p], None}
  \/ p \in ECMs /\ ~HasDecryptor(mm, p)

\* The decryptor of an entry has the entry's stream, so that it outlives whatever
\* happens to other PIDs.
LEMMA EntryStays ==
  ASSUME NEW mm, NEW n, NEW h, MapOK(n, h), NEW P, SameBut(mm, n, P),
         NEW list, NEW list2, \A p : Lists(list, p) => Lists(list2, p),
         NEW t, NEW s, s.pid \in StreamPIDs, EntryRouted(mm, list, t, s),
         \A p \in P : p \in ECMs \cup {s.pid} => Spared(mm, n, list, p)
  PROVE  EntryRouted(n, list2, t, s)
<1>1. s.pid \in PIDs /\ s.pid \notin ECMs
  BY KindsOfPids
<1>2. ASSUME NamedFor(t, s) \in ECMs
      PROVE  /\ Routed(n, s.pid, NamedFor(t, s))
             /\ Lists(list2, NamedFor(t, s)) /\ Lists(list2, s.pid)
  <2>1. PICK k \in ECMs : k = NamedFor(t, s) /\ k \in PIDs
    BY <1>2, KindsOfPids
  <2>2. /\ mm.type[k] = "ECM" /\ mm.target[k] # None /\ mm.target[s.pid] = mm.target[k]
        /\ Lists(list, k) /\ Lists(list, s.pid)
    BY <2>1 DEF EntryRouted, Routed
  <2>3. n.target[s.pid] = mm.target[s.pid]
    <3>1. CASE s.pid \in P
      BY <1>1, <2>2, <3>1 DEF Spared
    <3>2. CASE s.pid \notin P
      BY <1>1, <3>2 DEF SameBut
    <3>3. QED
      BY <3>1, <3>2
  <2>4. mm.target[k] \in Alive(n)
    BY <1>1, <2>2, <2>3 DEF MapOK, TargetsAlive
  <2>5. n.type[k] = mm.type[k] /\ n.target[k] = mm.target[k]
    <3>1. CASE k \in P
      BY <2>1, <2>2, <3>1 DEF Spared, HasDecryptor
    <3>2. CASE k \notin P
      BY <2>4, <3>2 DEF SameBut
    <3>3. QED
      BY <3>1, <3>2
  <2>6. QED
    BY <2>1, <2>2, <2>3, <2>5 DEF Routed
<1>3. ASSUME s.ca = Unscrambled
      PROVE  n.target[s.pid] = None
  <2>1. mm.target[s.pid] = None
    BY <1>3 DEF EntryRouted
  <2>2. CASE s.pid \in P
    BY <1>1, <2>1, <2>2 DEF Spared
  <2>3. CASE s.pid \notin P
    BY <1>1, <2>1, <2>3 DEF SameBut
  <2>4. QED
    BY <2>2, <2>3
<1>4. QED
  BY <1>2, <1>3 DEF EntryRouted

\* What is in the PMT of a program.
LEMMA EntryTypeOf ==
  ASSUME NEW g \in Progs, NEW t \in Tables[g]
  PROVE  t.ca \in CaPIDs /\ t.es \in Seq([pid: StreamsOf(g), ca: CaPIDs]) /\ Len(t.es) \in Nat
<1>1. PICK es : es = t.es /\ es \in Seq([pid: StreamsOf(g), ca: CaPIDs])
  BY StreamsOfProgram
<1>2. QED
  BY <1>1, StreamsOfProgram

LEMMA EntryType ==
  ASSUME IInv, NEW g \in Progs, pmt[g] # None
  PROVE  /\ pmt[g] \in Tables[g] /\ pmt[g].ca \in CaPIDs
         /\ pmt[g].es \in Seq([pid: StreamsOf(g), ca: CaPIDs]) /\ Len(pmt[g].es) \in Nat
         /\ \A i \in 1 .. Len(pmt[g].es) :
              /\ pmt[g].es[i].pid \in StreamsOf(g) /\ pmt[g].es[i].pid \in StreamPIDs
              /\ pmt[g].es[i].ca \in CaPIDs
              /\ NamedFor(pmt[g], pmt[g].es[i]) \in CaPIDs
<1>1. pmt[g] \in Tables[g]
  BY DEF IInv, TypeOK
<1>2. PICK es : es = pmt[g].es
  OBVIOUS
<1>3. pmt[g].ca \in CaPIDs /\ es \in Seq([pid: StreamsOf(g), ca: CaPIDs])
  BY <1>1, <1>2, StreamsOfProgram
<1>4. \A i \in 1 .. Len(es) : es[i] \in [pid: StreamsOf(g), ca: CaPIDs]
  BY <1>3, ElementType
<1>5. \A i \in 1 .. Len(es) : es[i].pid \in StreamPIDs
  BY <1>4, StreamsOfProgram
<1>6. Len(es) \in Nat
  BY <1>3
<1>7. QED
  BY <1>1, <1>2, <1>3, <1>4, <1>5, <1>6 DEF NamedFor

LEMMA ProcessedPart ==
  ASSUME IInv, NEW g \in Progs, pmt[g] # None
  PROVE  1 .. Processed(g) \subseteq 1 .. Len(pmt[g].es) /\ Processed(g) \in Int
<1>1. Len(pmt[g].es) \in Nat
  BY EntryType
<1>2. Len(job.todo) \in Nat
  BY JobFields
<1>3. PICK a \in Nat, b \in Nat : a = Len(pmt[g].es) /\ b = Len(job.todo)
  BY <1>1, <1>2
<1>4. PICK c : c = Processed(g)
  OBVIOUS
<1>5. c = a - b \/ c = a - 0
  BY <1>3, <1>4 DEF Processed
<1>6. c \in Int /\ c <= a
  BY <1>5
<1>7. QED
  BY <1>3, <1>4, <1>6

\* A program whose PMT and place in it stay as they are.
LEMMA ProgramStays ==
  ASSUME IInv, IInv', NEW g \in Progs, ProgramRouted(g), NEW P, SameBut(m, m', P),
         pmt'[g] = pmt[g], Processed(g)' = Processed(g),
         \A p : Lists(streams[g], p) => Lists(streams'[g], p),
         \A p \in P : p \in ECMs \cup StreamsOf(g) => Spared(m, m', streams[g], p)
  PROVE  ProgramRouted(g)'
<1> SUFFICES ASSUME pmt[g] # None, NEW i \in 1 .. Processed(g)
             PROVE  EntryRouted(m', streams'[g], pmt[g], pmt[g].es[i])
  BY DEF ProgramRouted
<1>1. i \in 1 .. Len(pmt[g].es)
  BY ProcessedPart
<1>2. PICK t, s : t = pmt[g] /\ s = pmt[g].es[i]
  OBVIOUS
<1>3. s.pid \in StreamsOf(g) /\ s.pid \in StreamPIDs /\ s.ca \in CaPIDs /\ NamedFor(t, s) \in CaPIDs
  BY <1>1, <1>2, EntryType
<1>4. EntryRouted(m, streams[g], t, s)
  BY <1>2 DEF ProgramRouted
<1>5. MapOK(m', job'.dec0)
  BY DEF IInv
<1>6. \A p \in P : p \in ECMs \cup {s.pid} => Spared(m, m', streams[g], p)
  BY <1>3
<1>7. QED
  BY <1>2, <1>3, <1>4, <1>5, <1>6, EntryStays

----------------------------------------------------------------------------
\* Every operation keeps the routes.

\* Which entries a program has processed depends on the running call only.
LEMMA SameProcessed ==
  ASSUME NEW g, pmt'[g] = pmt[g],
         (job'.kind = "pmt" /\ job'.prog = g) <=> (job.kind = "pmt" /\ job.prog = g),
         job.kind = "pmt" /\ job.prog = g => Len(job'.todo) = Len(job.todo)
  PROVE  Processed(g)' = Processed(g)
  BY DEF Processed

\* A step that touches no ECM PID and no stream.
LEMMA QuietRoutes ==
  ASSUME IInv, IInv', NEW g \in Progs, ProgramRouted(g),
         \A q \in ECMs \cup StreamPIDs : m'.type[q] = m.type[q] /\ m'.target[q] = m.target[q],
         pmt'[g] = pmt[g], Processed(g)' = Processed(g), streams'[g] = streams[g]
  PROVE  ProgramRouted(g)'
<1>1. SameBut(m, m', PIDs \ (ECMs \cup StreamPIDs))
  BY KindsOfPids DEF SameBut
<1>2. ECMs \cup StreamsOf(g) \subseteq ECMs \cup StreamPIDs
  BY StreamsOfProgram
<1>3. QED
  BY <1>1, <1>2, ProgramStays

LEMMA InitRInv == Init => RInv
<1> SUFFICES ASSUME Init PROVE RInv
  OBVIOUS
<1>1. job.kind = "none" /\ \A g \in Progs : pmt[g] = None
  BY DEF Init, NoJob
<1>2. QED
  BY <1>1 DEF RInv, ProgramRouted, JobRouted, ReleasedForgotten

\* What is to be given up is counted, and counted once more for every list it is still in.
LEMMA StillCounted ==
  ASSUME IInv, job.unref # <<>>, NEW p \in ECMs \cup StreamPIDs, p = Head(job.unref)
  PROVE  /\ m.count[p] \in Nat /\ m.count[p] > 0
         /\ \A g \in Progs : Lists(streams[g], p) \/ Lists(oldStrm[g], p) => m.count[p] # 1
<1>1. /\ p \in PIDs /\ m.type[p] \notin {"PMT", "EMM"} /\ m.count[p] \in Nat
  BY KindsOfPids, ListFacts, MapFields DEF KindsApart
<1>2. PICK n \in Nat, k \in Nat : n = Total(streams, oldStrm, p) /\ k = Times(job.unref, p)
  <2>1. Total(streams, oldStrm, p) \in Nat
    BY <1>1, EntriesInFinite, ListFacts, PidAssumption, FS_Subset DEF Total
  <2>2. QED
    BY <2>1, ListFacts
<1>3. m.count[p] = n + k
  BY <1>1, <1>2, ListFacts DEF CountsAre
<1>4. k > 0
  <2>1. PICK q \in Seq(PIDs) : q = job.unref
    BY ListFacts
  <2>2. 1 \in 1 .. Len(q) /\ q[1] = p
    BY <2>1
  <2>3. Lists(q, p)
    BY <2>2 DEF Lists
  <2>4. QED
    BY <1>2, <2>1, <2>3, TimesType
<1>5. ASSUME NEW g \in Progs, Lists(streams[g], p) \/ Lists(oldStrm[g], p)
      PROVE  n > 0
  <2>1. n >= Times(streams[g], p) + Times(oldStrm[g], p)
    BY <1>2, ListFacts, TotalCovers
  <2>2. PICK a \in Nat, b \in Nat : a = Times(streams[g], p) /\ b = Times(oldStrm[g], p)
    BY <1>1, ListFacts
  <2>3. a # 0 \/ b # 0
    BY <1>5, <2>2, ListFacts, TimesType
  <2>4. n >= a + b
    BY <2>1, <2>2
  <2>5. QED
    BY <2>3, <2>4
<1>6. QED
  BY <1>1, <1>3, <1>4, <1>5

\* The last entry of a PID is the one that is given up, so a PID that is still
\* listed keeps its place in the map.
LEMMA UnrefRoutes ==
  ASSUME IInv, IInv', RInv, Unref
  PROVE  RInv'
<1>1. PICK p, rest : /\ p = Head(job.unref) /\ rest = Tail(job.unref)
                     /\ p \in ECMs \cup StreamPIDs /\ p \in PIDs
                     /\ job.unref # <<>> /\ job.unref \in Seq(PIDs) /\ rest \in Seq(PIDs)
  <2>1. /\ job.unref # <<>> /\ job.unref \in Seq(ECMs \cup StreamPIDs) /\ job.unref \in Seq(PIDs)
    BY ListFacts DEF Unref, IInv, ListsTyped
  <2>2. PICK q : q = job.unref
    OBVIOUS
  <2>3. /\ Head(q) \in ECMs \cup StreamPIDs /\ Head(q) \in PIDs /\ Tail(q) \in Seq(PIDs)
    BY <2>1, <2>2
  <2>4. QED
    BY <2>1, <2>2, <2>3
<1>2. /\ m' = UnrefStream(m, p) /\ job' = [job EXCEPT !.unref = rest]
      /\ streams' = streams /\ oldStrm' = oldStrm /\ pmt' = pmt
  BY <1>1 DEF Unref
<1>3. /\ job'.kind = job.kind /\ job'.prog = job.prog /\ job'.dec0 = job.dec0
      /\ job'.todo = job.todo /\ job'.release = job.release
  BY <1>2, JobFields
<1>4. /\ m.count[p] \in Nat /\ m.count[p] > 0
      /\ \A g \in Progs : Lists(streams[g], p) \/ Lists(oldStrm[g], p) => m.count[p] # 1
  BY <1>1, StillCounted, Zenon
<1>5. /\ MapOK(m', job.dec0) /\ InUseBut(m', None)
      /\ m'.count = [m.count EXCEPT ![p] = m.count[p] - 1]
      /\ m.count[p] = 1 => m'.type[p] = "UNKNOWN" /\ m'.target[p] = None
      /\ m.count[p] # 1 => m'.type[p] = m.type[p] /\ m'.target[p] = m.target[p]
      /\ SameBut(m, m', {p})
  <2>1. MapOK(m, job.dec0) /\ InUseBut(m, None)
    BY DEF IInv
  <2>2. p \in ECMs \cup StreamPIDs /\ m.count[p] > 0 /\ m' = UnrefStream(m, p)
    BY <1>1, <1>2, <1>4
  <2>3. QED
    BY <2>1, <2>2, UnrefStreamOK, SMTT(30)
<1>6. \A g \in Progs : Spared(m, m', streams[g], p)
  BY <1>4, <1>5 DEF Spared
<1>7. ASSUME NEW g \in Progs PROVE ProgramRouted(g)'
  <2>1. ProgramRouted(g) /\ pmt'[g] = pmt[g] /\ streams'[g] = streams[g]
    BY <1>2 DEF RInv
  <2>2. Processed(g)' = Processed(g)
    BY <1>3, <2>1, SameProcessed
  <2>3. QED
    BY <1>5, <1>6, <2>1, <2>2, ProgramStays
<1>8. JobRouted'
  <2> SUFFICES ASSUME job.kind = "pmt", pmt[job.prog].ca \in ECMs
               PROVE  /\ m'.type[pmt[job.prog].ca] = "ECM"
                      /\ m'.target[pmt[job.prog].ca] = job.dec0
    BY <1>2, <1>3 DEF RInv, JobRouted
  <2>1. PICK k \in ECMs : k = pmt[job.prog].ca
    OBVIOUS
  <2>2. /\ m.type[k] = "ECM" /\ m.target[k] = job.dec0 /\ job.dec0 # None
        /\ Lists(streams[job.prog], k) /\ job.prog \in Progs
    BY <2>1 DEF RInv, JobRouted, IInv, ListsTyped
  <2>3. CASE k = p
    BY <1>4, <1>5, <2>1, <2>2, <2>3
  <2>4. CASE k # p
    <3>1. job.dec0 \in Alive(m')
      BY <1>3, <2>2 DEF IInv, MapOK
    <3>2. QED
      BY <1>5, <2>1, <2>2, <2>4, <3>1 DEF SameBut
  <2>5. QED
    BY <2>3, <2>4
<1>9. ReleasedForgotten'
  BY <1>2, <1>3 DEF RInv, ReleasedForgotten
<1>10. QED
  BY <1>7, <1>8, <1>9 DEF RInv

\* proc_pmt() begins: nothing of the new PMT is promised yet, but its own decryptor.
LEMMA PmtBeginRoutes ==
  ASSUME IInv, IInv', RInv, NEW g \in Progs, NEW t \in Tables[g], NEW d, PmtBegin(g, t, d)
  PROVE  RInv'
<1>1. /\ job = NoJob /\ pmt' = [pmt EXCEPT ![g] = t]
      /\ job' = [NoJob EXCEPT !.kind = "pmt", !.prog = g, !.dec0 = d,
                              !.unref = oldStrm[g], !.todo = t.es]
  BY DEF PmtBegin, Idle
<1>2. PICK L \in Seq(ECMs) :
        /\ streams' = [streams EXCEPT ![g] = L]
        /\ L = IF t.ca \in ECMs THEN <<t.ca>> ELSE <<>>
        /\ MapOK(m', d) /\ InUseBut(m', None)
        /\ \A q \in PIDs : m'.count[q] = m.count[q] + Times(L, q)
        /\ t.ca \in ECMs => m'.type[t.ca] = "ECM" /\ m'.target[t.ca] = d
        /\ \A q \in PIDs : t.ca \notin ECMs \/ q # t.ca =>
             m'.type[q] = m.type[q] /\ m'.target[q] = m.target[q]
  BY PmtBeginMap, Zenon
<1>3. /\ job.kind = "none" /\ job'.kind = "pmt" /\ job'.prog = g /\ job'.dec0 = d
      /\ job'.todo = t.es
  BY <1>1 DEF NoJob
<1>4. /\ pmt'[g] = t /\ \A h \in Progs : h # g => pmt'[h] = pmt[h] /\ streams'[h] = streams[h]
      /\ streams'[g] = L
  BY <1>1, <1>2 DEF IInv, TypeOK
<1>5. t.ca \in ECMs => d # None /\ Lists(L, t.ca)
  <2>1. t.ca \in ECMs => d \in DecryptorFor(m, t.ca)
    BY DEF PmtBegin
  <2>2. t.ca \in ECMs => d # None
    BY <2>1, KindsOfPids DEF DecryptorFor, HasDecryptor
  <2>3. t.ca \in ECMs => 1 \in 1 .. Len(L) /\ L[1] = t.ca
    BY <1>2
  <2>4. QED
    BY <2>2, <2>3 DEF Lists
<1>6. ProgramRouted(g)'
  <2>1. Len(t.es) \in Nat
    BY <1>1, <1>4, EntryTypeOf
  <2>2. Processed(g)' = 0
    BY <1>3, <1>4, <2>1 DEF Processed
  <2>3. QED
    BY <2>2 DEF ProgramRouted
<1>7. ASSUME NEW h \in Progs, h # g PROVE ProgramRouted(h)'
  <2>1. ProgramRouted(h) /\ pmt'[h] = pmt[h] /\ streams'[h] = streams[h]
    BY <1>4, <1>7 DEF RInv
  <2>2. Processed(h)' = Processed(h)
    BY <1>3, <1>7, <2>1, SameProcessed
  <2>3. CASE t.ca \notin ECMs
    <3>1. \A q \in ECMs \cup StreamPIDs : m'.type[q] = m.type[q] /\ m'.target[q] = m.target[q]
      BY <1>2, <2>3, KindsOfPids
    <3>2. QED
      BY <2>1, <2>2, <3>1, QuietRoutes
  <2>4. CASE t.ca \in ECMs
    <3>1. SameBut(m, m', {t.ca})
      BY <1>2, <2>4, KindsOfPids DEF SameBut
    <3>2. Spared(m, m', streams[h], t.ca)
      <4>1. CASE HasDecryptor(m, t.ca)
        <5>1. d = m.target[t.ca] /\ m.type[t.ca] = "ECM"
          BY <2>4, <4>1 DEF PmtBegin, DecryptorFor, HasDecryptor
        <5>2. QED
          BY <1>2, <2>4, <5>1 DEF Spared
      <4>2. CASE ~HasDecryptor(m, t.ca)
        BY <2>4, <4>2 DEF Spared
      <4>3. QED
        BY <4>1, <4>2
    <3>3. QED
      BY <2>1, <2>2, <3>1, <3>2, ProgramStays
  <2>5. QED
    BY <2>3, <2>4
<1>8. JobRouted'
  <2>1. PICK es : es = t.es
    OBVIOUS
  <2>2. PICK n \in Nat : n = Len(es)
    BY <2>1, EntryTypeOf
  <2>3. n <= n /\ \A j \in 1 .. n : n - n + j = j
    OBVIOUS
  <2>4. n <= n /\ \A j \in 1 .. n : es[j] = es[n - n + j]
    BY <2>3
  <2>5. QED
    BY <1>1, <1>2, <1>3, <1>4, <1>5, <2>1, <2>2, <2>4 DEF JobRouted
<1>9. ReleasedForgotten'
  BY <1>3 DEF ReleasedForgotten
<1>10. QED
  BY <1>6, <1>7, <1>8, <1>9 DEF RInv

\* proc_pmt() gives its hold back: at most the decryptor it held goes, and only if no
\* stream has it.
LEMMA PmtEndMoves ==
  ASSUME IInv, PmtEnd
  PROVE  SameBut(m, m', {})
<1>1. m' = IF job.dec0 = None THEN m ELSE DropUse(m, job.dec0)
  BY DEF PmtEnd
<1>2. CASE job.dec0 = None
  BY <1>1, <1>2 DEF SameBut
<1>3. CASE job.dec0 # None
  BY <1>1, <1>3, ReleaseHoldOK DEF IInv
<1>4. QED
  BY <1>2, <1>3

\* proc_pmt() ends, its hold goes: the routes of all programs stand without it.
LEMMA PmtEndRoutes ==
  ASSUME IInv, IInv', RInv, PmtEnd
  PROVE  RInv'
<1>1. /\ job.kind = "pmt" /\ job.todo = <<>> /\ job' = NoJob
      /\ streams' = streams /\ pmt' = pmt
  BY DEF PmtEnd
<1>2. NoJob.kind = "none" /\ Len(job.todo) = 0
  BY <1>1 DEF NoJob
<1>3. SameBut(m, m', {})
  BY PmtEndMoves
<1>4. ASSUME NEW g \in Progs PROVE ProgramRouted(g)'
  <2>1. ProgramRouted(g) /\ pmt'[g] = pmt[g] /\ streams'[g] = streams[g]
    BY <1>1 DEF RInv
  <2>2. Processed(g)' = Processed(g)
    BY <1>1, <1>2 DEF Processed
  <2>3. QED
    BY <1>3, <2>1, <2>2, ProgramStays
<1>5. JobRouted' /\ ReleasedForgotten'
  BY <1>1, <1>2 DEF JobRouted, ReleasedForgotten
<1>6. QED
  BY <1>4, <1>5 DEF RInv

\* release_program() and the ends of proc_pat() and teardown().
LEMMA ReleaseRoutes ==
  ASSUME IInv, IInv', RInv,
         \/ PatBegin \/ TeardownBegin \/ (\E g \in Progs : ReleaseProgram(g))
         \/ PatEnd \/ TeardownEnd
  PROVE  RInv'
<1>1. CASE PatBegin \/ TeardownBegin
  <2>1. PICK kind \in {"pat", "teardown"}, gs \in SUBSET Progs : ReleaseBegin(kind, gs)
    BY <1>1 DEF PatBegin, TeardownBegin
  <2>2. /\ job.kind = "none" /\ job'.kind = kind /\ job'.release = Progs
        /\ m' = m /\ streams' = streams /\ pmt' = pmt
    BY <2>1 DEF ReleaseBegin, Idle, NoJob
  <2>3. ASSUME NEW g \in Progs PROVE ProgramRouted(g)'
    <3>1. pmt'[g] = pmt[g] /\ streams'[g] = streams[g]
      BY <2>2
    <3>2. Processed(g)' = Processed(g)
      BY <2>2, <3>1, SameProcessed
    <3>3. QED
      BY <2>2, <3>1, <3>2, QuietRoutes DEF RInv
  <2>4. JobRouted' /\ ReleasedForgotten'
    BY <2>2 DEF JobRouted, ReleasedForgotten
  <2>5. QED
    BY <2>3, <2>4 DEF RInv
<1>2. CASE \E g \in Progs : ReleaseProgram(g)
  <2>1. PICK g \in Progs : ReleaseProgram(g)
    BY <1>2
  <2>2. /\ g \in job.release
        /\ job' = [job EXCEPT !.unref = oldStrm[g] \o streams[g], !.release = @ \ {g}]
        /\ streams' = [streams EXCEPT ![g] = <<>>]
        /\ m' = SetEntry(m, g, "UNKNOWN", 0) /\ pmt' = [pmt EXCEPT ![g] = None]
    BY <2>1 DEF ReleaseProgram, SetEntry
  <2>3. job.kind \in {"pat", "teardown"}
    <3>1. job.kind # "pmt" /\ job.kind # "none"
      BY <2>2 DEF IInv, JobShape, NoJob
    <3>2. QED
      BY <3>1, JobFields
  <2>4. job'.kind = job.kind /\ job'.release = job.release \ {g}
    BY <2>2, JobFields
  <2>5. /\ pmt'[g] = None
        /\ \A h \in Progs : h # g => pmt'[h] = pmt[h] /\ streams'[h] = streams[h]
    BY <2>2 DEF IInv, TypeOK
  <2>6. \A q \in ECMs \cup StreamPIDs : m'.type[q] = m.type[q] /\ m'.target[q] = m.target[q]
    <3>1. 0 \in Nat /\ MapOK(m, job.dec0) /\ InUseBut(m, None)
      BY DEF IInv
    <3>2. \A q \in PIDs : q # g => m'.type[q] = m.type[q] /\ m'.target[q] = m.target[q]
      BY <2>2, <3>1, SetEntryOK
    <3>3. QED
      BY <3>2, KindsOfPids
  <2>7. ASSUME NEW h \in Progs, h # g PROVE ProgramRouted(h)'
    <3>1. pmt'[h] = pmt[h] /\ streams'[h] = streams[h]
      BY <2>5, <2>7
    <3>2. Processed(h)' = Processed(h)
      BY <2>3, <2>4, <3>1, SameProcessed
    <3>3. QED
      BY <2>6, <3>1, <3>2, QuietRoutes DEF RInv
  <2>8. ProgramRouted(g)'
    BY <2>5 DEF ProgramRouted
  <2>9. JobRouted' /\ ReleasedForgotten'
    BY <2>3, <2>4, <2>5 DEF RInv, JobRouted, ReleasedForgotten
  <2>10. QED
    BY <2>7, <2>8, <2>9 DEF RInv
<1>3. CASE PatEnd \/ TeardownEnd
  <2>1. /\ job.kind \in {"pat", "teardown"} /\ job.release = {} /\ job' = NoJob /\ pmt' = pmt
    BY <1>3 DEF PatEnd, TeardownEnd, Released
  <2>2. \A g \in Progs : pmt'[g] = None
    BY <2>1 DEF RInv, ReleasedForgotten
  <2>3. job'.kind = "none"
    BY <2>1 DEF NoJob
  <2>4. QED
    BY <2>2, <2>3 DEF RInv, ProgramRouted, JobRouted, ReleasedForgotten
<1>4. QED
  BY <1>1, <1>2, <1>3

\* proc_cat() writes the entry of the EMM PID and no other.
LEMMA ProcCatMoves ==
  ASSUME IInv, NEW c \in CATs, ProcCat(c)
  PROVE  \A q \in ECMs \cup StreamPIDs : m'.type[q] = m.type[q] /\ m'.target[q] = m.target[q]
<1>1. CASE c.emm \in EMMs
  <2>1. m.type[c.emm] # "OTHER"
    BY <1>1, ListFacts DEF KindsApart
  <2>2. m' = SetEntry(m, c.emm, "EMM", 1)
    BY <1>1, <2>1 DEF ProcCat, DropTarget, SetEntry
  <2>3. 1 \in Nat /\ MapOK(m, job.dec0) /\ InUseBut(m, None)
    BY DEF IInv
  <2>4. \A q \in PIDs : q # c.emm => m'.type[q] = m.type[q] /\ m'.target[q] = m.target[q]
    BY <1>1, <2>2, <2>3, SetEntryOK
  <2>5. QED
    BY <1>1, <2>4, KindsOfPids
<1>2. CASE c.emm \notin EMMs
  BY <1>2 DEF ProcCat
<1>3. QED
  BY <1>1, <1>2

\* proc_cat() and steps that change nothing.
LEMMA ProcCatRoutes ==
  ASSUME IInv, IInv', RInv, (\E c \in CATs : ProcCat(c)) \/ UNCHANGED vars
  PROVE  RInv'
<1>1. streams' = streams /\ pmt' = pmt /\ job' = job
  BY DEF ProcCat, vars
<1>2. \A q \in ECMs \cup StreamPIDs : m'.type[q] = m.type[q] /\ m'.target[q] = m.target[q]
  <2>1. CASE UNCHANGED vars
    BY <2>1 DEF vars
  <2>2. CASE \E c \in CATs : ProcCat(c)
    BY <2>2, ProcCatMoves
  <2>3. QED
    BY <2>1, <2>2
<1>3. ASSUME NEW g \in Progs PROVE ProgramRouted(g)'
  <2>1. pmt'[g] = pmt[g] /\ streams'[g] = streams[g]
    BY <1>1
  <2>2. Processed(g)' = Processed(g)
    BY <1>1, <2>1, SameProcessed
  <2>3. QED
    BY <1>2, <2>1, <2>2, QuietRoutes DEF RInv
<1>4. JobRouted'
  <2> SUFFICES ASSUME job.kind = "pmt", pmt[job.prog].ca \in ECMs
               PROVE  /\ m'.type[pmt[job.prog].ca] = m.type[pmt[job.prog].ca]
                      /\ m'.target[pmt[job.prog].ca] = m.target[pmt[job.prog].ca]
    BY <1>1 DEF RInv, JobRouted
  <2>1. QED
    BY <1>2
<1>5. ReleasedForgotten'
  BY <1>1 DEF RInv, ReleasedForgotten
<1>6. QED
  BY <1>3, <1>4, <1>5 DEF RInv


LEMMA ListsAppend ==
  ASSUME NEW S, NEW q \in Seq(S), NEW x \in S
  PROVE  /\ Lists(Append(q, x), x)
         /\ \A p : Lists(q, p) => Lists(Append(q, x), p)
<1>1. PICK n \in Nat : n = Len(q)
  OBVIOUS
<1>2. PICK r : r = Append(q, x)
  OBVIOUS
<1>3. Len(r) = n + 1 /\ r[n + 1] = x /\ \A i \in 1 .. n : r[i] = q[i]
  BY <1>1, <1>2
<1>4. n + 1 \in 1 .. Len(r) /\ 1 .. n \subseteq 1 .. Len(r)
  BY <1>1, <1>3
<1>5. QED
  BY <1>1, <1>2, <1>3, <1>4 DEF Lists

\* What an entry of the PMT moves: its stream, and its own ECM PID if it names one.
LEMMA PmtStreamMoves ==
  ASSUME IInv, IInv', NEW d, PmtStream(d), NEW s, s = Head(job.todo), NEW g, g = job.prog
  PROVE  /\ g \in Progs /\ s.pid \in StreamsOf(g) /\ s.pid \in StreamPIDs /\ s.ca \in CaPIDs
         /\ SameBut(m, m', {s.pid} \cup ({s.ca} \cap ECMs))
         /\ m'.target[s.pid] = d
         /\ s.ca \notin ECMs => d = IF s.ca = Unscrambled THEN None ELSE job.dec0
         /\ s.ca \in ECMs => /\ m'.type[s.ca] = "ECM" /\ m'.target[s.ca] = d /\ d # None
                             /\ HasDecryptor(m, s.ca) => d = m.target[s.ca]
                             /\ \A list : Spared(m, m', list, s.ca)
                             /\ Lists(streams'[g], s.ca)
         /\ Lists(streams'[g], s.pid)
         /\ \A p : Lists(streams[g], p) => Lists(streams'[g], p)
         /\ \A h \in Progs : h # g => streams'[h] = streams[h]
<1>1. PICK list : list = IF s.ca \in ECMs THEN WithEcm(streams[g], s.ca) ELSE streams[g]
  OBVIOUS
<1>2. /\ g \in Progs /\ s.pid \in StreamsOf(g) /\ s.pid \in StreamPIDs /\ s.ca \in CaPIDs
      /\ list \in Seq(PIDs)
      /\ streams' = [streams EXCEPT ![g] = Append(list, s.pid)]
      /\ s.ca \notin ECMs => d = IF s.ca = Unscrambled THEN None ELSE job.dec0
      /\ m'.target[s.pid] = d
      /\ s.ca \in ECMs => m'.type[s.ca] = "ECM" /\ m'.target[s.ca] = d
      /\ \A q \in PIDs \ ECMs : q # s.pid =>
           m'.type[q] = m.type[q] /\ m'.target[q] = m.target[q]
      /\ \A q \in ECMs : q # s.ca /\ m.target[q] \in Alive(m') =>
           m'.type[q] = m.type[q] /\ m'.target[q] = m.target[q]
  BY <1>1, PmtStreamMap, SMTT(60)
<1>3. PICK p : p = s.pid /\ p \in PIDs /\ p \notin ECMs
  BY <1>2, KindsOfPids
<1>4. SameBut(m, m', {s.pid} \cup ({s.ca} \cap ECMs))
  BY <1>2 DEF SameBut
<1>5. ASSUME s.ca \in ECMs
      PROVE  d # None /\ (HasDecryptor(m, s.ca) => d = m.target[s.ca])
  <2>1. d \in DecryptorFor(m, s.ca)
    BY <1>5 DEF PmtStream
  <2>2. d \in Alive(m')
    BY <1>2, <1>5, KindsOfPids DEF IInv, MapOK, Served
  <2>3. QED
    BY <2>1, <2>2, KindsOfPids DEF Alive, DecryptorFor
<1>6. ASSUME s.ca \in ECMs, NEW l PROVE Spared(m, m', l, s.ca)
  BY <1>2, <1>5, <1>6 DEF Spared, HasDecryptor
<1>7. /\ streams'[g] = Append(list, p)
      /\ \A h \in Progs : h # g => streams'[h] = streams[h]
  BY <1>2, <1>3 DEF IInv, TypeOK
<1>8. /\ \A q : Lists(streams[g], q) => Lists(list, q)
      /\ s.ca \in ECMs => Lists(list, s.ca)
  <2>1. PICK old \in Seq(PIDs) : old = streams[g]
    BY <1>2, ListFacts
  <2>2. CASE s.ca \in ECMs /\ ~Lists(old, s.ca)
    <3>1. PICK k \in PIDs : k = s.ca
      BY <2>2, KindsOfPids
    <3>2. list = Append(old, k)
      BY <1>1, <2>1, <2>2, <3>1 DEF WithEcm
    <3>3. QED
      BY <2>1, <3>1, <3>2, ListsAppend
  <2>3. CASE ~(s.ca \in ECMs /\ ~Lists(old, s.ca))
    BY <1>1, <2>1, <2>3 DEF WithEcm
  <2>4. QED
    BY <2>2, <2>3
<1>9. /\ Lists(streams'[g], p)
      /\ \A q : Lists(list, q) => Lists(streams'[g], q)
  <2>1. list \in Seq(PIDs) /\ p \in PIDs
    BY <1>2, <1>3
  <2>2. Lists(Append(list, p), p) /\ \A q : Lists(list, q) => Lists(Append(list, p), q)
    BY <2>1, ListsAppend
  <2>3. QED
    BY <1>7, <2>2
<1>10. QED
  BY <1>2, <1>3, <1>4, <1>5, <1>6, <1>7, <1>8, <1>9

\* An entry of the PMT is led to where it belongs, and no other entry is moved.
LEMMA PmtStreamRoutes ==
  ASSUME OwnStreams, IInv, IInv', RInv, NEW d, PmtStream(d)
  PROVE  RInv'
<1>1. PICK s, g : s = Head(job.todo) /\ g = job.prog
  OBVIOUS
<1>2. /\ g \in Progs /\ s.pid \in StreamsOf(g) /\ s.pid \in StreamPIDs /\ s.ca \in CaPIDs
      /\ SameBut(m, m', {s.pid} \cup ({s.ca} \cap ECMs))
      /\ m'.target[s.pid] = d
      /\ s.ca \notin ECMs => d = IF s.ca = Unscrambled THEN None ELSE job.dec0
      /\ s.ca \in ECMs => /\ m'.type[s.ca] = "ECM" /\ m'.target[s.ca] = d /\ d # None
                          /\ HasDecryptor(m, s.ca) => d = m.target[s.ca]
                          /\ \A list : Spared(m, m', list, s.ca)
                          /\ Lists(streams'[g], s.ca)
      /\ Lists(streams'[g], s.pid)
      /\ \A p : Lists(streams[g], p) => Lists(streams'[g], p)
      /\ \A h \in Progs : h # g => streams'[h] = streams[h]
  BY <1>1, PmtStreamMoves, SMTT(60)
<1>3. PICK P : P = {s.pid} \cup ({s.ca} \cap ECMs) /\ SameBut(m, m', P)
  BY <1>2
<1>4. /\ job.kind = "pmt" /\ job'.kind = "pmt" /\ job'.prog = g /\ job'.dec0 = job.dec0
      /\ job'.todo = Tail(job.todo) /\ job.todo # <<>> /\ pmt' = pmt
  BY <1>1, JobFields DEF PmtStream
<1>5. PICK t, es : /\ t = pmt[g] /\ t \in Tables[g] /\ es = t.es
                   /\ es \in Seq([pid: StreamsOf(g), ca: CaPIDs])
  BY <1>1, <1>2, <1>4, EntryTypeOf DEF RInv, JobRouted
<1>6. PICK n \in Nat, k \in Nat :
        /\ Len(job.todo) = n + 1 /\ Len(job'.todo) = n
        /\ Len(es) = k + 1 + n /\ es[k + 1] = s
        /\ \A j \in 1 .. n : job'.todo[j] = es[k + 1 + j]
  <2>1. PICK todo \in Seq([pid: StreamPIDs, ca: CaPIDs]) : todo = job.todo
    BY JobFields
  <2>2. PICK n \in Nat : Len(todo) = n + 1
    <3>1. Len(todo) \in Nat /\ Len(todo) > 0
      BY <1>4, <2>1
    <3>2. Len(todo) - 1 \in Nat /\ Len(todo) = (Len(todo) - 1) + 1
      BY <3>1
    <3>3. QED
      BY <3>2
  <2>3. /\ s = todo[1] /\ Len(Tail(todo)) = n
        /\ \A j \in 1 .. n : Tail(todo)[j] = todo[j + 1]
    BY <1>1, <2>1, <2>2
  <2>4. /\ n + 1 <= Len(es)
        /\ \A j \in 1 .. n + 1 : todo[j] = es[Len(es) - (n + 1) + j]
    BY <1>1, <1>4, <1>5, <2>1, <2>2 DEF RInv, JobRouted
  <2>5. Len(es) \in Nat
    BY <1>5
  <2>6. PICK k \in Nat : Len(es) = k + 1 + n
    <3>1. Len(es) - (n + 1) \in Nat /\ Len(es) = (Len(es) - (n + 1)) + 1 + n
      BY <2>4, <2>5
    <3>2. QED
      BY <3>1
  <2>7. \A j \in 1 .. n + 1 : todo[j] = es[k + j]
    <3>1. Len(es) - (n + 1) = k
      BY <2>6
    <3>2. QED
      BY <2>4, <3>1
  <2>8. s = es[k + 1] /\ \A j \in 1 .. n : todo[j + 1] = es[k + 1 + j]
    <3>1. 1 \in 1 .. n + 1 /\ \A j \in 1 .. n : j + 1 \in 1 .. n + 1 /\ k + (j + 1) = k + 1 + j
      OBVIOUS
    <3>2. QED
      BY <2>3, <2>7, <3>1
  <2>9. Len(job.todo) = n + 1 /\ Len(job'.todo) = n
    BY <1>4, <2>1, <2>2, <2>3
  <2>10. \A j \in 1 .. n : job'.todo[j] = es[k + 1 + j]
    BY <1>4, <2>1, <2>3, <2>8
  <2>11. QED
    BY <2>6, <2>8, <2>9, <2>10
<1>7. Processed(g) = k /\ Processed(g)' = k + 1
  <2>1. /\ Processed(g) = Len(es) - Len(job.todo)
        /\ Processed(g)' = Len(es) - Len(job'.todo)
    BY <1>1, <1>4, <1>5 DEF Processed
  <2>2. QED
    BY <1>6, <2>1
<1>8. ASSUME NEW h \in Progs, h # g PROVE ProgramRouted(h)'
  <2>1. ProgramRouted(h) /\ pmt'[h] = pmt[h] /\ streams'[h] = streams[h]
    BY <1>2, <1>4, <1>8 DEF RInv
  <2>2. Processed(h)' = Processed(h)
    BY <1>1, <1>4, <1>8, <2>1, SameProcessed
  <2>3. s.pid \notin ECMs \cup StreamsOf(h)
    BY <1>2, <1>8, KindsOfPids DEF OwnStreams
  <2>4. \A p \in P : p \in ECMs \cup StreamsOf(h) => Spared(m, m', streams[h], p)
    BY <1>3, <1>2, <2>3
  <2>5. QED
    BY <1>3, <2>1, <2>2, <2>4, <1>2, ProgramStays
<1>9. ASSUME t # None, NEW i \in 1 .. k
      PROVE  EntryRouted(m', streams'[g], t, es[i])
  <2>1. EntryRouted(m, streams[g], t, es[i])
    BY <1>2, <1>5, <1>7, <1>9 DEF RInv, ProgramRouted
  <2>2. i \in 1 .. Len(es) /\ k + 1 \in 1 .. Len(es) /\ i # k + 1
    BY <1>6
  <2>3. PICK e : e = es[i]
    OBVIOUS
  <2>4. e.pid \in StreamPIDs /\ e.pid # s.pid
    <3>1. e \in [pid: StreamsOf(g), ca: CaPIDs]
      BY <1>5, <2>2, <2>3, ElementType
    <3>2. es[i].pid # es[k + 1].pid
      BY <1>2, <1>5, <2>2 DEF OwnStreams
    <3>3. QED
      BY <1>6, <2>3, <3>1, <3>2, StreamsOfProgram
  <2>5. \A p \in P : p \in ECMs \cup {e.pid} => Spared(m, m', streams[g], p)
    BY <1>3, <1>2, <2>4, KindsOfPids
  <2>6. MapOK(m', job'.dec0)
    BY DEF IInv
  <2>7. QED
    BY <1>3, <1>2, <2>1, <2>3, <2>4, <2>5, <2>6, EntryStays
<1>10. ASSUME t.ca \in ECMs
       PROVE  /\ m'.type[t.ca] = "ECM" /\ m'.target[t.ca] = job.dec0
              /\ job.dec0 # None /\ Lists(streams'[g], t.ca)
  <2>1. PICK c \in ECMs : c = t.ca
    BY <1>10
  <2>2. /\ m.type[c] = "ECM" /\ m.target[c] = job.dec0
        /\ job.dec0 # None /\ Lists(streams[g], c)
    BY <1>1, <1>4, <1>5, <2>1 DEF RInv, JobRouted
  <2>3. CASE c = s.ca
    BY <1>2, <2>1, <2>2, <2>3 DEF HasDecryptor
  <2>4. CASE c # s.ca
    <3>1. c \notin P
      BY <1>3, <1>2, <2>4, KindsOfPids
    <3>2. job.dec0 \in Alive(m')
      BY <1>4, <2>2 DEF IInv, MapOK
    <3>3. QED
      BY <1>2, <1>3, <2>1, <2>2, <3>1, <3>2 DEF SameBut
  <2>5. QED
    BY <2>3, <2>4
<1>11. EntryRouted(m', streams'[g], t, s)
  <2>1. CASE s.ca \in ECMs
    BY <1>2, <2>1, PidAssumption DEF EntryRouted, NamedFor, Routed
  <2>2. CASE s.ca = None
    BY <1>2, <1>10, <2>2, PidAssumption DEF EntryRouted, NamedFor, Routed
  <2>3. CASE s.ca = Unscrambled
    BY <1>2, <2>3, PidAssumption DEF EntryRouted, NamedFor
  <2>4. QED
    BY <1>2, <2>1, <2>2, <2>3 DEF CaPIDs
<1>12. ProgramRouted(g)'
  <2> SUFFICES ASSUME t # None, NEW i \in 1 .. k + 1
               PROVE  EntryRouted(m', streams'[g], t, es[i])
    BY <1>4, <1>5, <1>7 DEF ProgramRouted
  <2>1. i \in 1 .. k \/ i = k + 1
    OBVIOUS
  <2>2. QED
    BY <1>6, <1>9, <1>11, <2>1
<1>13. JobRouted'
  <2>1. Len(es) - n = k + 1 /\ n <= Len(es)
    BY <1>6
  <2>2. \A j \in 1 .. n : job'.todo[j] = es[Len(es) - n + j]
    BY <1>6, <2>1
  <2>3. QED
    BY <1>4, <1>5, <1>6, <1>10, <2>1, <2>2 DEF JobRouted
<1>14. ReleasedForgotten'
  BY <1>4 DEF ReleasedForgotten
<1>15. ASSUME NEW h \in Progs PROVE ProgramRouted(h)'
  BY <1>8, <1>12
<1>16. QED
  BY <1>13, <1>14, <1>15 DEF RInv

----------------------------------------------------------------------------
LEMMA NextRoutes ==
  ASSUME OwnStreams, IInv, RInv, [Next]_vars
  PROVE  RInv'
<1>1. IInv'
  BY NextKeeps
<1>2. CASE \E g \in Progs : \E t \in Tables[g], d \in Decs \cup {None} : PmtBegin(g, t, d)
  BY <1>1, <1>2, PmtBeginRoutes
<1>3. CASE Unref
  BY <1>1, <1>3, UnrefRoutes
<1>4. CASE \E d \in Decs \cup {None} : PmtStream(d)
  BY <1>1, <1>4, PmtStreamRoutes
<1>5. CASE PmtEnd
  BY <1>1, <1>5, PmtEndRoutes
<1>6. CASE \/ PatBegin \/ TeardownBegin \/ (\E g \in Progs : ReleaseProgram(g))
           \/ PatEnd \/ TeardownEnd
  BY <1>1, <1>6, ReleaseRoutes
<1>7. CASE (\E c \in CATs : ProcCat(c)) \/ UNCHANGED vars
  BY <1>1, <1>7, ProcCatRoutes
<1>8. QED
  BY <1>2, <1>3, <1>4, <1>5, <1>6, <1>7 DEF Next

\* A stream that changes its decryptor either leaves the map with its last entry or
\* is an entry of the PMT that proc_pmt() is at.
LEMMA MovedStream ==
  ASSUME OwnStreams, IInv, [Next]_vars, NEW p \in PIDs, m.type[p] = "OTHER",
         m'.target[p] # m.target[p], job'.kind \notin {"pat", "teardown"}, NEW g \in Progs
  PROVE  ~Lists(oldStrm'[g], p) \/ Lists(streams'[g], p)
<1>1. p \in StreamPIDs /\ p \notin ECMs /\ p \in ECMs \cup StreamPIDs
  BY KindsOfPids, ListFacts DEF KindsApart, StreamPIDs
<1>2. CASE \E h \in Progs : \E t \in Tables[h], d \in Decs \cup {None} : PmtBegin(h, t, d)
  <2>1. PICK h \in Progs : \E t \in Tables[h], d \in Decs \cup {None} : PmtBegin(h, t, d)
    BY <1>2
  <2>2. PICK t \in Tables[h], d \in Decs \cup {None} : PmtBegin(h, t, d)
    BY <2>1
  <2>3. \A q \in PIDs : t.ca \notin ECMs \/ q # t.ca =>
          m'.type[q] = m.type[q] /\ m'.target[q] = m.target[q]
    BY <2>2, PmtBeginMap
  <2>4. QED
    BY <1>1, <2>3
<1>3. CASE Unref
  <2>1. PICK q : q = Head(job.unref) /\ q \in ECMs \cup StreamPIDs /\ job.unref # <<>>
    <3>1. /\ job.unref # <<>> /\ job.unref \in Seq(ECMs \cup StreamPIDs)
      BY <1>3 DEF Unref, IInv, ListsTyped
    <3>2. QED
      BY <3>1
  <2>2. /\ m.count[q] \in Nat /\ m.count[q] > 0
        /\ \A h \in Progs : Lists(streams[h], q) \/ Lists(oldStrm[h], q) => m.count[q] # 1
    BY <2>1, StillCounted, Zenon
  <2>3. /\ MapOK(m', job.dec0) /\ InUseBut(m', None)
        /\ m'.count = [m.count EXCEPT ![q] = m.count[q] - 1]
        /\ m.count[q] = 1 => m'.type[q] = "UNKNOWN" /\ m'.target[q] = None
        /\ m.count[q] # 1 => m'.type[q] = m.type[q] /\ m'.target[q] = m.target[q]
        /\ SameBut(m, m', {q})
    <3>1. MapOK(m, job.dec0) /\ InUseBut(m, None)
      BY DEF IInv
    <3>2. q \in ECMs \cup StreamPIDs /\ m.count[q] > 0 /\ m' = UnrefStream(m, q)
      BY <1>3, <2>1, <2>2 DEF Unref
    <3>3. QED
      BY <3>1, <3>2, UnrefStreamOK, SMTT(30)
  <2>4. p = q
    BY <1>1, <2>3 DEF SameBut
  <2>5. ~Lists(oldStrm[g], p)
    BY <2>2, <2>3, <2>4
  <2>6. QED
    BY <1>3, <2>5 DEF Unref
<1>4. CASE \E d \in Decs \cup {None} : PmtStream(d)
  <2>1. PICK d : PmtStream(d)
    BY <1>4
  <2>2. PICK s, h : s = Head(job.todo) /\ h = job.prog
    OBVIOUS
  <2>3. IInv'
    BY NextKeeps
  <2>4. /\ h \in Progs /\ s.pid \in StreamsOf(h)
        /\ SameBut(m, m', {s.pid} \cup ({s.ca} \cap ECMs))
        /\ Lists(streams'[h], s.pid)
    BY <2>1, <2>2, <2>3, PmtStreamMoves, SMTT(60)
  <2>5. p = s.pid
    BY <1>1, <2>4 DEF SameBut
  <2>6. CASE g # h
    <3>1. p \notin ECMs \cup StreamsOf(g)
      BY <1>1, <2>4, <2>5, <2>6 DEF OwnStreams
    <3>2. oldStrm'[g] = oldStrm[g] /\ oldStrm[g] \in Seq(ECMs \cup StreamsOf(g))
      BY <2>1 DEF PmtStream, IInv, ListsTyped
    <3>3. QED
      BY <3>1, <3>2, ElementType DEF Lists
  <2>7. QED
    BY <2>4, <2>5, <2>6
<1>5. CASE PmtEnd
  BY <1>1, <1>5, PmtEndMoves DEF SameBut
<1>6. CASE PatBegin \/ TeardownBegin \/ UNCHANGED vars
  BY <1>6 DEF PatBegin, TeardownBegin, ReleaseBegin, vars
<1>7. CASE \E h \in Progs : ReleaseProgram(h)
  <2>1. job'.kind = job.kind /\ job.release # {}
    BY <1>7, JobFields DEF ReleaseProgram
  <2>2. job.kind \in {"pat", "teardown"}
    BY <2>1, JobFields DEF IInv, JobShape, NoJob
  <2>3. QED
    BY <2>1, <2>2
<1>8. CASE PatEnd \/ TeardownEnd
  <2>1. job.kind \in {"pat", "teardown"} /\ job.release = {} /\ oldStrm' = oldStrm
    BY <1>8 DEF PatEnd, TeardownEnd, Released
  <2>2. oldStrm'[g] = <<>>
    BY <2>1 DEF IInv, JobShape
  <2>3. QED
    BY <2>2 DEF Lists
<1>9. CASE \E c \in CATs : ProcCat(c)
  BY <1>1, <1>9, ProcCatMoves
<1>10. QED
  BY <1>2, <1>3, <1>4, <1>5, <1>6, <1>7, <1>8, <1>9 DEF Next

\* At every point of proc_pmt(), proc_pat() and teardown(), every stream that was
\* processed since its program's PMT came leads to the decryptor of its ECM PID.
THEOREM RoutesFollowThePmts ==
  ASSUME OwnStreams
  PROVE  Spec => []RInv
<1>1. Init => RInv
  BY InitRInv
<1>2. IInv /\ RInv /\ [Next]_vars => RInv'
  BY NextRoutes
<1>3. QED
  BY <1>1, <1>2, MapInvariantHolds, PTL DEF Spec

\* Between calls every stream of a PMT in force leads to the decryptor that gets the
\* ECMs its PMT names for it: later calls for other programs do not take it away.
THEOREM StreamsRoutedRight ==
  ASSUME OwnStreams
  PROVE  Spec => []RoutedRight
<1>1. IInv /\ RInv => RoutedRight
  <2> SUFFICES ASSUME IInv, RInv, Idle, NEW g \in Progs, pmt[g] # None,
                      NEW i \in 1 .. Len(pmt[g].es),
                      NEW s, s = pmt[g].es[i], NEW k, k = NamedFor(pmt[g], s)
               PROVE  /\ k \in ECMs => /\ m.type[k] = "ECM"
                                       /\ m.target[k] \in Alive(m)
                                       /\ m.target[s.pid] = m.target[k]
                      /\ s.ca = Unscrambled => m.target[s.pid] = None
    BY DEF RoutedRight, NamedFor
  <2>1. Processed(g) = Len(pmt[g].es)
    <3>1. job.kind = "none" /\ Len(pmt[g].es) \in Nat
      BY EntryType DEF Idle, NoJob
    <3>2. QED
      BY <3>1 DEF Processed
  <2>2. EntryRouted(m, streams[g], pmt[g], s)
    BY <2>1 DEF RInv, ProgramRouted
  <2>3. k \in ECMs => m.type[k] = "ECM" /\ m.target[k] # None /\ m.target[s.pid] = m.target[k]
    BY <2>2 DEF EntryRouted, Routed
  <2>4. k \in ECMs => m.target[k] \in Alive(m)
    BY <2>3, KindsOfPids DEF IInv, MapOK, TargetsAlive
  <2>5. QED
    BY <2>2, <2>3, <2>4 DEF EntryRouted
<1>2. QED
  BY <1>1, MapInvariantHolds, RoutesFollowThePmts, PTL

\* A stream that leaves its PMT keeps its decryptor until the next PMT of the program.
THEOREM LateStreamsAreKept ==
  ASSUME OwnStreams
  PROVE  Spec => LateStreamsKept
<1> DEFINE Kept == \A p \in PIDs :
       (/\ job'.kind # "pat" /\ job'.kind # "teardown"
        /\ m.type[p] = "OTHER" /\ m.target'[p] # m.target[p])
         => \A g \in Progs : ~Lists(oldStrm'[g], p) \/ Lists(streams'[g], p)
<1>1. IInv /\ [Next]_vars => Kept
  BY MovedStream
<1>2. IInv /\ [Next]_vars => [Kept]_vars
  BY <1>1
<1> HIDE DEF Kept
<1>3. Spec => [][Kept]_vars
  BY <1>2, MapInvariantHolds, PTL DEF Spec
<1>4. QED
  BY <1>3 DEF Kept, LateStreamsKept
=============================================================================
