-------------------------- MODULE ElfWriterProofs --------------------------
(***************************************************************************)
(* Theorems about ElfWriter, for configurations of any size.               *)
(***************************************************************************)
EXTENDS ElfWriter, FiniteSetTheorems, WellFoundedInduction, TLAPS

(***************************************************************************)
(* Sequences.                                                              *)
(***************************************************************************)
LEMMA SeqIs ==
  ASSUME NEW s, IsSeq(s)
  PROVE  Len(s) \in Nat /\ DOMAIN s = 1 .. Len(s)
BY DEF IsSeq

LEMMA SeqMade ==
  ASSUME NEW s, NEW n \in Nat, s = [i \in 1 .. n |-> s[i]]
  PROVE  IsSeq(s) /\ Len(s) = n /\ DOMAIN s = 1 .. n
<1>1. \A i \in 1 .. n : s[i] \in ToSet(s)
  BY DEF ToSet
<1>2. s \in [1 .. n -> ToSet(s)]
  BY <1>1
<1>3. s \in Seq(ToSet(s))
  BY <1>2
<1>. QED
  BY <1>3 DEF IsSeq

LEMMA SeqTyped ==
  ASSUME NEW s, NEW T, s \in Seq(T)
  PROVE  IsSeq(s)
<1>1. /\ Len(s) \in Nat /\ s \in [1 .. Len(s) -> T] /\ DOMAIN s = 1 .. Len(s)
  OBVIOUS
<1>2. s = [i \in 1 .. Len(s) |-> s[i]]
  BY <1>1
<1>. QED
  BY <1>1, <1>2, SeqMade

LEMMA Appended ==
  ASSUME NEW s, NEW x, IsSeq(s)
  PROVE  /\ IsSeq(Append(s, x)) /\ Len(Append(s, x)) = Len(s) + 1
         /\ DOMAIN Append(s, x) = 1 .. Len(s) + 1
         /\ \A i \in 1 .. Len(s) : Append(s, x)[i] = s[i]
         /\ Append(s, x)[Len(s) + 1] = x
<1>. DEFINE T == ToSet(s) \cup {x}
<1>1. s \in Seq(T) /\ x \in T
  BY DEF IsSeq
<1>2. /\ Append(s, x) \in Seq(T) /\ Len(Append(s, x)) = Len(s) + 1 /\ Len(s) \in Nat
      /\ \A i \in 1 .. Len(s) : Append(s, x)[i] = s[i]
      /\ Append(s, x)[Len(s) + 1] = x
  BY <1>1
<1>3. IsSeq(Append(s, x))
  BY <1>2, SeqTyped
<1>. QED
  BY <1>2, <1>3, SeqIs

LEMMA Joined ==
  ASSUME NEW s, NEW t, IsSeq(s), IsSeq(t)
  PROVE  /\ IsSeq(s \o t) /\ Len(s \o t) = Len(s) + Len(t)
         /\ DOMAIN (s \o t) = 1 .. Len(s) + Len(t)
         /\ \A i \in 1 .. Len(s) : (s \o t)[i] = s[i]
         /\ \A i \in 1 .. Len(t) : (s \o t)[Len(s) + i] = t[i]
<1>. DEFINE T == ToSet(s) \cup ToSet(t)
<1>1. s \in Seq(T) /\ t \in Seq(T)
  BY DEF IsSeq
<1>2. /\ s \o t \in Seq(T) /\ Len(s \o t) = Len(s) + Len(t) /\ Len(s) \in Nat /\ Len(t) \in Nat
      /\ \A i \in 1 .. Len(s) : (s \o t)[i] = s[i]
      /\ \A i \in 1 .. Len(t) : (s \o t)[Len(s) + i] = t[i]
  BY <1>1
<1>3. IsSeq(s \o t)
  BY <1>2, SeqTyped
<1>. QED
  BY <1>2, <1>3, SeqIs

(***************************************************************************)
(* The order of numbers.                                                   *)
(***************************************************************************)
Numbers(S) == S \subseteq Nat /\ IsFiniteSet(S)

Rank(S, x) == Cardinality({y \in S : y <= x})

LEMMA RankRange ==
  ASSUME NEW S, Numbers(S), NEW x \in S
  PROVE  Rank(S, x) \in 1 .. Cardinality(S)
<1>. DEFINE T == {y \in S : y <= x}
<1>1. x \in Nat /\ x <= x
  BY DEF Numbers
<1>2. T \in SUBSET S /\ x \in T
  BY <1>1
<1>3. IsFiniteSet(T) /\ Cardinality(T) <= Cardinality(S)
  BY <1>2, FS_Subset DEF Numbers
<1>4. Cardinality(T) \in Nat /\ Cardinality(S) \in Nat
  BY <1>3, FS_CardinalityType DEF Numbers
<1>5. Cardinality(T) # 0
  BY <1>2, <1>3, FS_EmptySet
<1>6. Cardinality(T) \in 1 .. Cardinality(S)
  BY <1>3, <1>4, <1>5
<1>. QED
  BY <1>6 DEF Rank

LEMMA RankGrows ==
  ASSUME NEW S, Numbers(S), NEW x \in S, NEW y \in S, x < y
  PROVE  Rank(S, x) < Rank(S, y)
<1>. DEFINE T == {z \in S : z <= x}
            U == {z \in S : z <= y}
<1>1. S \subseteq Nat /\ x \in Nat /\ y \in Nat
  BY DEF Numbers
<1>2. T \subseteq U
  <2>1. ASSUME NEW z \in S, z <= x PROVE z <= y
    BY <1>1, <2>1
  <2>. QED
    BY <2>1
<1>3. y \in U /\ y \notin T
  BY <1>1
<1>4. IsFiniteSet(U)
  BY FS_Subset DEF Numbers
<1>5. IsFiniteSet(T) /\ Cardinality(T) <= Cardinality(U) /\ (Cardinality(U) = Cardinality(T) => U = T)
  BY <1>2, <1>4, FS_Subset
<1>6. Cardinality(T) \in Nat /\ Cardinality(U) \in Nat
  BY <1>4, <1>5, FS_CardinalityType
<1>7. Cardinality(T) # Cardinality(U)
  BY <1>3, <1>5
<1>8. Cardinality(T) < Cardinality(U)
  BY <1>5, <1>6, <1>7
<1>. QED
  BY <1>8 DEF Rank

LEMMA RankApart ==
  ASSUME NEW S, Numbers(S), NEW x \in S, NEW y \in S, Rank(S, x) = Rank(S, y)
  PROVE  x = y
<1>1. x \in Nat /\ y \in Nat
  BY DEF Numbers
<1>2. Rank(S, x) \in Int
  <2>1. Cardinality(S) \in Nat
    BY FS_CardinalityType DEF Numbers
  <2>. QED
    BY <2>1, RankRange
<1>3. ~ x < y
  BY <1>2, RankGrows
<1>4. ~ y < x
  BY <1>2, RankGrows
<1>. QED
  BY <1>1, <1>3, <1>4

LEMMA NthIs ==
  ASSUME NEW S, Numbers(S), NEW x \in S
  PROVE  Nth(S, Rank(S, x)) = x
<1>. DEFINE n == Rank(S, x)
            IsIt(z) == Cardinality({y \in S : y <= z}) = n
<1>1. Nth(S, n) = CHOOSE z \in S : IsIt(z)
  BY DEF Nth
<1>2. \A z \in S : IsIt(z) <=> Rank(S, z) = Rank(S, x)
  BY DEF Rank
<1>3. IsIt(x)
  BY <1>2
<1>4. \A z \in S : IsIt(z) => z = x
  BY <1>2, RankApart
<1>. HIDE DEF n, IsIt
<1>5. (CHOOSE z \in S : IsIt(z)) = x
  BY <1>3, <1>4
<1>. QED
  BY <1>1, <1>5 DEF n

LEMMA NthExists ==
  ASSUME NEW S, Numbers(S), NEW n \in 1 .. Cardinality(S)
  PROVE  Nth(S, n) \in S /\ Rank(S, Nth(S, n)) = n
<1>. DEFINE m == Cardinality(S)
            f == [x \in S |-> Rank(S, x)]
<1>1. m \in Nat
  BY FS_CardinalityType DEF Numbers
<1>2. f \in [S -> 1 .. m]
  BY RankRange
<1>3. \A x, y \in S : f[x] = f[y] => x = y
  BY RankApart
<1>4. f \in Injection(S, 1 .. m)
  BY <1>2, <1>3 DEF Injection, IsInjective
<1>5. IsFiniteSet(1 .. m) /\ Cardinality(1 .. m) = m
  BY <1>1, FS_Interval
<1>6. f \in Surjection(S, 1 .. m)
  BY <1>4, <1>5, FS_Injection
<1>7. PICK x \in S : f[x] = n
  BY <1>6 DEF Surjection
<1>8. Rank(S, x) = n
  BY <1>7
<1>. QED
  BY <1>8, NthIs

LEMMA SortedIs ==
  ASSUME NEW S, Numbers(S)
  PROVE  /\ IsSeq(Sorted(S)) /\ DOMAIN Sorted(S) = 1 .. Cardinality(S)
         /\ \A n \in DOMAIN Sorted(S) : Sorted(S)[n] \in S
         /\ \A x \in S : \E n \in DOMAIN Sorted(S) : Sorted(S)[n] = x
         /\ \A m, n \in DOMAIN Sorted(S) : Sorted(S)[m] = Sorted(S)[n] => m = n
<1>1. Cardinality(S) \in Nat
  BY FS_CardinalityType DEF Numbers
<1>2. /\ DOMAIN Sorted(S) = 1 .. Cardinality(S)
      /\ \A n \in 1 .. Cardinality(S) : Sorted(S)[n] = Nth(S, n)
  BY DEF Sorted
<1>3. Sorted(S) = [n \in 1 .. Cardinality(S) |-> Sorted(S)[n]]
  BY DEF Sorted
<1>4. IsSeq(Sorted(S))
  BY <1>1, <1>3, SeqMade
<1>5. \A n \in 1 .. Cardinality(S) : Nth(S, n) \in S /\ Rank(S, Nth(S, n)) = n
  BY NthExists
<1>6. \A x \in S : Nth(S, Rank(S, x)) = x /\ Rank(S, x) \in 1 .. Cardinality(S)
  BY NthIs, RankRange
<1>. QED
  BY <1>2, <1>4, <1>5, <1>6

LEMMA Least ==
  ASSUME NEW S, S \subseteq Nat, S # {}
  PROVE  \E n \in S : \A m \in S : n <= m
<1>1. PICK x \in S : \A y \in S : ~ (<<y, x>> \in OpToRel(<, Nat))
  BY NatLessThanWellFounded, WFMin
<1>2. \A y \in S : ~ y < x
  BY <1>1 DEF OpToRel
<1>3. \A y \in S : x <= y
  BY <1>2
<1>. QED
  BY <1>3

LEMMA MinIs ==
  ASSUME NEW S, S \subseteq Nat, S # {}
  PROVE  Min(S) \in S /\ \A m \in S : Min(S) <= m
BY Least DEF Min

(***************************************************************************)
(* The encoder's writers.                                                  *)
(***************************************************************************)
LEMMA KeysAre ==
  ASSUME NEW data, DOMAIN data \subseteq ToSet(KeyOrder)
  PROVE  /\ IsSeq(Keys(data))
         /\ \A k \in DOMAIN Keys(data) : Keys(data)[k] \in DOMAIN data
         /\ \A key \in DOMAIN data : \E k \in DOMAIN Keys(data) : Keys(data)[k] = key
         /\ \A j, k \in DOMAIN Keys(data) : Keys(data)[j] = Keys(data)[k] => j = k
<1>. DEFINE P == {n \in DOMAIN KeyOrder : KeyOrder[n] \in DOMAIN data}
            present == Sorted(P)
            keys == [k \in DOMAIN present |-> KeyOrder[present[k]]]
<1>1. Keys(data) = keys
  BY DEF Keys
<1>2. DOMAIN KeyOrder = 1 .. Len(KeyOrder) /\ Len(KeyOrder) \in Nat
  BY KeysAssumption, SeqIs
<1>3. Numbers(P)
  <2>1. IsFiniteSet(1 .. Len(KeyOrder)) /\ P \subseteq 1 .. Len(KeyOrder)
    BY <1>2, FS_Interval
  <2>2. IsFiniteSet(P)
    BY <2>1, FS_Subset
  <2>. QED
    BY <2>1, <2>2 DEF Numbers
<1>4. \A m, n \in DOMAIN KeyOrder : KeyOrder[m] = KeyOrder[n] => m = n
  BY KeysAssumption DEF IsInjective
<1>5. \A key \in DOMAIN data : \E n \in P : KeyOrder[n] = key
  BY DEF ToSet
<1>6. /\ IsSeq(present)
      /\ \A n \in DOMAIN present : present[n] \in P
      /\ \A x \in P : \E n \in DOMAIN present : present[n] = x
      /\ \A m, n \in DOMAIN present : present[m] = present[n] => m = n
  BY <1>3, SortedIs
<1>7. DOMAIN present = 1 .. Len(present) /\ Len(present) \in Nat
  BY <1>6, SeqIs
<1>. HIDE DEF present
<1>8. IsSeq(keys)
  <2>1. keys = [k \in 1 .. Len(present) |-> keys[k]]
    BY <1>7
  <2>. QED
    BY <1>7, <2>1, SeqMade
<1>9. \A k \in DOMAIN keys : keys[k] \in DOMAIN data
  BY <1>6
<1>10. \A key \in DOMAIN data : \E k \in DOMAIN keys : keys[k] = key
  BY <1>5, <1>6
<1>11. \A j, k \in DOMAIN keys : keys[j] = keys[k] => j = k
  BY <1>4, <1>6
<1>. QED
  BY <1>1, <1>8, <1>9, <1>10, <1>11

LEMMA KeysFree ==
  ASSUME NEW data, DOMAIN data \subseteq ToSet(KeyOrder), NEW k \in DOMAIN Keys(data)
  PROVE  Keys(data)[k] \notin Reserved
<1>1. Keys(data)[k] \in ToSet(KeyOrder)
  BY KeysAre
<1>. QED
  BY <1>1, KeysAssumption

LEMMA NoSeq == IsSeq(<<>>) /\ Len(<<>>) = 0 /\ DOMAIN <<>> = {}
<1>1. <<>> \in Seq({})
  OBVIOUS
<1>2. IsSeq(<<>>)
  BY <1>1, SeqTyped
<1>. QED
  BY <1>2

(* A blob's writers are what elf_writer expects.                           *)
LEMMA BlobWritersOK ==
  ASSUME NEW instance, BlobOK(instance)
  PROVE  WritersOK(BlobWriters(instance))
<1>. DEFINE keys == Keys(instance.data)
            ws == BlobWriters(instance)
<1>1. /\ DOMAIN instance.data \subseteq ToSet(KeyOrder)
      /\ \A key \in DOMAIN instance.data : instance.data[key] \in Nat
      /\ IsSeq(instance.symbols)
      /\ \A k \in DOMAIN instance.symbols :
           /\ instance.symbols[k].section \in DOMAIN instance.data
           /\ instance.data[keys[1]] > 0 => instance.data[instance.symbols[k].section] > 0
  BY DEF BlobOK
<1>2. /\ IsSeq(keys)
      /\ \A k \in DOMAIN keys : keys[k] \in DOMAIN instance.data
      /\ \A key \in DOMAIN instance.data : \E k \in DOMAIN keys : keys[k] = key
      /\ \A j, k \in DOMAIN keys : keys[j] = keys[k] => j = k
      /\ \A k \in DOMAIN keys : keys[k] \notin Reserved
  BY <1>1, KeysAre, KeysFree
<1>3. DOMAIN keys = 1 .. Len(keys) /\ Len(keys) \in Nat
  BY <1>2, SeqIs
<1>4. /\ DOMAIN ws = DOMAIN keys
      /\ \A k \in DOMAIN keys : /\ ws[k].name = keys[k] /\ ws[k].size = instance.data[keys[k]]
                                /\ ws[k].symbols = IF k = 1 THEN instance.symbols ELSE <<>>
      /\ ws = [k \in DOMAIN keys |-> ws[k]]
  BY DEF BlobWriters
<1>. HIDE DEF keys, ws
<1>5. IsSeq(ws)
  BY <1>3, <1>4, SeqMade
<1>6. ASSUME NEW w \in DOMAIN ws
      PROVE  IsSeq(ws[w].symbols)
  <2>1. CASE w = 1
    BY <1>1, <1>4, <2>1
  <2>2. CASE w # 1
    BY <1>4, <2>2, NoSeq
  <2>. QED
    BY <2>1, <2>2
<1>7. ASSUME NEW w \in DOMAIN ws, ws[w].size > 0, NEW k \in DOMAIN ws[w].symbols
      PROVE  \E v \in DOMAIN ws : ws[v].size > 0 /\ ws[v].name = ws[w].symbols[k].section
  <2>1. w = 1
    BY <1>4, <1>7, NoSeq
  <2>2. ws[w].symbols = instance.symbols /\ instance.data[keys[1]] > 0
    BY <1>4, <1>7, <2>1
  <2>3. /\ ws[w].symbols[k].section \in DOMAIN instance.data
        /\ instance.data[ws[w].symbols[k].section] > 0
    BY <1>1, <1>7, <2>2
  <2>4. PICK v \in DOMAIN keys : keys[v] = ws[w].symbols[k].section
    BY <1>2, <2>3
  <2>. QED
    BY <1>4, <2>3, <2>4
<1>8. \A v, w \in DOMAIN ws : ws[v].name = ws[w].name => v = w
  BY <1>2, <1>4
<1>9. \A w \in DOMAIN ws : ws[w].name \notin Reserved /\ ws[w].size \in Nat
  BY <1>1, <1>2, <1>4
<1>10. WritersOK(ws)
  BY <1>5, <1>6, <1>7, <1>8, <1>9 DEF WritersOK
<1>. QED
  BY <1>10 DEF ws

CommonOK(common) ==
  /\ DOMAIN common \subseteq ToSet(KeyOrder)
  /\ \A key \in DOMAIN common : common[key].size \in Nat

LEMMA CommonWritersOK ==
  ASSUME NEW common, CommonOK(common)
  PROVE  /\ WritersOK(CommonWriters(common))
         /\ \A w \in DOMAIN CommonWriters(common) :
              /\ CommonWriters(common)[w].name \in DOMAIN common
              /\ CommonWriters(common)[w].symbols = <<>>
<1>. DEFINE keys == Keys(common)
            ws == CommonWriters(common)
<1>1. /\ IsSeq(keys)
      /\ \A k \in DOMAIN keys : keys[k] \in DOMAIN common
      /\ \A j, k \in DOMAIN keys : keys[j] = keys[k] => j = k
      /\ \A k \in DOMAIN keys : keys[k] \notin Reserved
  BY KeysAre, KeysFree DEF CommonOK
<1>2. DOMAIN keys = 1 .. Len(keys) /\ Len(keys) \in Nat
  BY <1>1, SeqIs
<1>3. /\ DOMAIN ws = DOMAIN keys
      /\ \A k \in DOMAIN keys : /\ ws[k].name = keys[k] /\ ws[k].size = common[keys[k]].size
                                /\ ws[k].symbols = <<>>
      /\ ws = [k \in DOMAIN keys |-> ws[k]]
  BY DEF CommonWriters
<1>. HIDE DEF keys, ws
<1>4. IsSeq(ws)
  BY <1>2, <1>3, SeqMade
<1>5. \A v, w \in DOMAIN ws : ws[v].name = ws[w].name => v = w
  BY <1>1, <1>3
<1>6. \A w \in DOMAIN ws :
        /\ ws[w].name \notin Reserved /\ ws[w].size \in Nat /\ ws[w].name \in DOMAIN common
        /\ ws[w].symbols = <<>> /\ IsSeq(ws[w].symbols) /\ DOMAIN ws[w].symbols = {}
  BY <1>1, <1>3, NoSeq DEF CommonOK
<1>7. WritersOK(ws)
  BY <1>4, <1>5, <1>6 DEF WritersOK
<1>. QED
  BY <1>6, <1>7 DEF ws

InstanceOK(flavor, instance) ==
  IF flavor = "asm" THEN WritersOK(instance.writers) ELSE BlobOK(instance)

LEMMA WritersOfOK ==
  ASSUME NEW instance, InstanceOK(input.flavor, instance)
  PROVE  WritersOK(WritersOf(instance))
BY BlobWritersOK DEF InstanceOK, WritersOf

(***************************************************************************)
(* Reading the configuration.                                              *)
(***************************************************************************)
LEMMA OverIs ==
  ASSUME NEW f, NEW g
  PROVE  /\ DOMAIN Over(f, g) = DOMAIN f \cup DOMAIN g
         /\ \A x \in DOMAIN Over(f, g) : \/ x \in DOMAIN f /\ Over(f, g)[x] = f[x]
                                         \/ x \in DOMAIN g /\ Over(f, g)[x] = g[x]
<1>1. DOMAIN Over(f, g) = DOMAIN f \cup DOMAIN g
  BY DEF Over
<1>2. ASSUME NEW x \in DOMAIN Over(f, g)
      PROVE  \/ x \in DOMAIN f /\ Over(f, g)[x] = f[x]
             \/ x \in DOMAIN g /\ Over(f, g)[x] = g[x]
  <2>1. x \in DOMAIN f \/ x \in DOMAIN g
    BY <1>1
  <2>2. Over(f, g)[x] = IF x \in DOMAIN f THEN f[x] ELSE g[x]
    BY <1>1 DEF Over
  <2>. QED
    BY <2>1, <2>2
<1>. QED
  BY <1>1, <1>2

LEMMA Greatest ==
  ASSUME NEW k \in Nat, NEW S \in SUBSET (1 .. k), S # {}
  PROVE  Max(S) \in S
<1>. DEFINE T == {k - n : n \in S}
<1>1. T \subseteq Nat /\ T # {}
  <2>1. \A n \in S : k - n \in Nat
    OBVIOUS
  <2>. QED
    BY <2>1
<1>2. PICK x \in T : \A y \in T : x <= y
  BY <1>1, Least
<1>3. PICK n \in S : x = k - n
  OBVIOUS
<1>4. ASSUME NEW m \in S PROVE n >= m
  <2>1. k - n <= k - m
    BY <1>2, <1>3
  <2>. QED
    BY <2>1
<1>5. \E y \in S : \A m \in S : y >= m
  BY <1>4
<1>. QED
  BY <1>5 DEF Max

LEMMA ByIdIs ==
  ASSUME NEW list, IsSeq(list)
  PROVE  /\ \A id \in DOMAIN ById(list) : \E k \in DOMAIN list :
              list[k].id = id /\ ById(list)[id] = list[k]
         /\ \A k \in DOMAIN list : list[k].id \in DOMAIN ById(list)
<1>. DEFINE At(id) == {k \in DOMAIN list : list[k].id = id}
<1>1. DOMAIN list = 1 .. Len(list) /\ Len(list) \in Nat
  BY SeqIs
<1>2. /\ DOMAIN ById(list) = {list[k].id : k \in DOMAIN list}
      /\ \A id \in DOMAIN ById(list) : ById(list)[id] = list[Max(At(id))]
  BY DEF ById
<1>3. ASSUME NEW id \in DOMAIN ById(list)
      PROVE  \E k \in DOMAIN list : list[k].id = id /\ ById(list)[id] = list[k]
  <2>1. At(id) \in SUBSET (1 .. Len(list)) /\ At(id) # {}
    BY <1>1, <1>2
  <2>2. Max(At(id)) \in At(id)
    BY <1>1, <2>1, Greatest
  <2>. QED
    BY <1>2, <2>2
<1>. QED
  BY <1>2, <1>3

(* The entry names the instance, under the kernel.                         *)
InEntry(entry, n, id) ==
  entry.name = n /\ \E k \in DOMAIN entry.instances : entry.instances[k].id = id

KernelOK(flavor, kernel) ==
  /\ CommonOK(kernel.common)
  /\ DOMAIN kernel.instances \subseteq Nat
  /\ \A id \in DOMAIN kernel.instances : InstanceOK(flavor, kernel.instances[id])

(* The map has the kernels and instances of the entries read.              *)
KernelsOf(i, r, m) ==
  /\ DOMAIN m \subseteq Nat
  /\ \A n \in DOMAIN m : KernelOK(i.flavor, m[n])
  /\ \A n \in DOMAIN m : \A id \in DOMAIN m[n].instances :
       \E e \in 1 .. r : InEntry(i.entries[e], n, id)
  /\ \A e \in 1 .. r : \A n, id :
       InEntry(i.entries[e], n, id) => n \in DOMAIN m /\ id \in DOMAIN m[n].instances

ReadOK ==
  /\ input \in Inputs
  /\ read \in 0 .. Len(input.entries)
  /\ stage \notin {"read", "rejected"} => read = Len(input.entries)
  /\ KernelsOf(input, read, kernel_map)

LEMMA InputKnown ==
  ASSUME input \in Inputs
  PROVE  /\ input.config \in BOOLEAN
         /\ Len(input.entries) \in Nat /\ DOMAIN input.entries = 1 .. Len(input.entries)
         /\ \A e \in DOMAIN input.entries : EntryOK(input.flavor, input.entries[e])
         /\ ~ input.config => Len(input.entries) = 1 /\ Len(input.entries[1].instances) = 1
<1>1. InputOK(input)
  BY InputsAssumption
<1>2. IsSeq(input.entries)
  BY <1>1 DEF InputOK
<1>. QED
  BY <1>1, <1>2, SeqIs DEF InputOK

LEMMA EntryKnown ==
  ASSUME NEW entry, EntryOK(input.flavor, entry)
  PROVE  /\ CommonOK(ById(entry.pdis))
         /\ DOMAIN ById(entry.instances) \subseteq Nat
         /\ \A id \in DOMAIN ById(entry.instances) : InstanceOK(input.flavor, ById(entry.instances)[id])
         /\ \A id : id \in DOMAIN ById(entry.instances) <=>
                      \E k \in DOMAIN entry.instances : entry.instances[k].id = id
<1>1. /\ IsSeq(entry.pdis) /\ IsSeq(entry.instances)
      /\ \A k \in DOMAIN entry.pdis : entry.pdis[k].id \in ToSet(KeyOrder) /\ entry.pdis[k].size \in Nat
      /\ \A k \in DOMAIN entry.instances :
           entry.instances[k].id \in Nat /\ InstanceOK(input.flavor, entry.instances[k])
  BY DEF EntryOK, InstanceOK
<1>2. CommonOK(ById(entry.pdis))
  <2>1. \A id \in DOMAIN ById(entry.pdis) : \E k \in DOMAIN entry.pdis :
          entry.pdis[k].id = id /\ ById(entry.pdis)[id] = entry.pdis[k]
    BY <1>1, ByIdIs
  <2>. QED
    BY <1>1, <2>1 DEF CommonOK
<1>3. /\ \A id \in DOMAIN ById(entry.instances) : \E k \in DOMAIN entry.instances :
           entry.instances[k].id = id /\ ById(entry.instances)[id] = entry.instances[k]
      /\ \A k \in DOMAIN entry.instances : entry.instances[k].id \in DOMAIN ById(entry.instances)
  BY <1>1, ByIdIs
<1>. QED
  BY <1>1, <1>2, <1>3

LEMMA KernelOver ==
  ASSUME NEW common, NEW instances, NEW kernel, NEW flavor, CommonOK(common),
         DOMAIN instances \subseteq Nat, \A id \in DOMAIN instances : InstanceOK(flavor, instances[id]),
         KernelOK(flavor, kernel)
  PROVE  KernelOK(flavor, [common |-> Over(common, kernel.common), instances |-> Over(instances, kernel.instances)])
<1>. DEFINE kc == kernel.common
            ki == kernel.instances
            c == Over(common, kc)
            i == Over(instances, ki)
<1>. HIDE DEF kc, ki
<1>1. /\ DOMAIN c = DOMAIN common \cup DOMAIN kc
      /\ \A x \in DOMAIN c : \/ x \in DOMAIN common /\ c[x] = common[x]
                             \/ x \in DOMAIN kc /\ c[x] = kc[x]
  BY OverIs
<1>2. /\ DOMAIN i = DOMAIN instances \cup DOMAIN ki
      /\ \A x \in DOMAIN i : \/ x \in DOMAIN instances /\ i[x] = instances[x]
                             \/ x \in DOMAIN ki /\ i[x] = ki[x]
  BY OverIs
<1>. HIDE DEF c, i
<1>5. CommonOK(c)
  BY <1>1 DEF CommonOK, KernelOK, kc
<1>6. DOMAIN i \subseteq Nat /\ \A id \in DOMAIN i : InstanceOK(flavor, i[id])
  BY <1>2 DEF KernelOK, ki
<1>7. KernelOK(flavor, [common |-> c, instances |-> i])
  BY <1>5, <1>6 DEF KernelOK
<1>. QED
  BY <1>7 DEF c, i, kc, ki

LEMMA InitRead == Init => ReadOK
<1>. SUFFICES ASSUME Init PROVE ReadOK
  OBVIOUS
<1>1. input \in Inputs /\ read = 0 /\ kernel_map = <<>> /\ stage = "read"
  BY DEF Init, Fresh
<1>2. Len(input.entries) \in Nat
  BY <1>1, InputKnown
<1>3. DOMAIN kernel_map = {}
  BY <1>1
<1>. QED
  BY <1>1, <1>2, <1>3 DEF ReadOK, KernelsOf

(* What an entry adds.                                                     *)
LEMMA WithEntryIs ==
  ASSUME ReadOK, NEW entry, EntryOK(input.flavor, entry)
  PROVE  LET m == WithEntry(entry) IN
         /\ DOMAIN m \subseteq Nat
         /\ \A n \in DOMAIN m : KernelOK(input.flavor, m[n])
         /\ \A n \in DOMAIN m : \A id \in DOMAIN m[n].instances :
              \/ n \in DOMAIN kernel_map /\ id \in DOMAIN kernel_map[n].instances
              \/ n = entry.name /\ \E k \in DOMAIN entry.instances : entry.instances[k].id = id
         /\ \A n \in DOMAIN kernel_map : n \in DOMAIN m /\
              DOMAIN kernel_map[n].instances \subseteq DOMAIN m[n].instances
         /\ \A k \in DOMAIN entry.instances :
              entry.name \in DOMAIN m /\ entry.instances[k].id \in DOMAIN m[entry.name].instances
<1>. DEFINE m == WithEntry(entry)
            old == KernelOf(entry.name)
            name == entry.name
<1>1. DOMAIN kernel_map \subseteq Nat /\ \A n \in DOMAIN kernel_map : KernelOK(input.flavor, kernel_map[n])
  BY DEF ReadOK, KernelsOf
<1>2. /\ CommonOK(ById(entry.pdis))
      /\ DOMAIN ById(entry.instances) \subseteq Nat
      /\ \A id \in DOMAIN ById(entry.instances) : InstanceOK(input.flavor, ById(entry.instances)[id])
      /\ \A id : id \in DOMAIN ById(entry.instances) <=>
                   \E k \in DOMAIN entry.instances : entry.instances[k].id = id
  BY EntryKnown
<1>3. name \in Nat
  BY DEF EntryOK
<1>4. CASE entry.pdis = <<>> /\ entry.instances = <<>>
  <2>1. m = kernel_map
    BY <1>4 DEF WithEntry
  <2>2. DOMAIN entry.instances = {}
    BY <1>4
  <2>. HIDE DEF m
  <2>3. /\ DOMAIN m \subseteq Nat
        /\ \A n \in DOMAIN m : KernelOK(input.flavor, m[n])
    BY <1>1, <2>1
  <2>. QED
    BY <2>1, <2>2, <2>3 DEF m
<1>5. CASE ~ (entry.pdis = <<>> /\ entry.instances = <<>>)
  <2>. DEFINE new == [common |-> Over(ById(entry.pdis), old.common),
                      instances |-> Over(ById(entry.instances), old.instances)]
  <2>1. m = With(kernel_map, name, new)
    BY <1>5 DEF WithEntry
  <2>. HIDE DEF m, new, name
  <2>2. KernelOK(input.flavor, NoKernel)
    BY DEF KernelOK, NoKernel, CommonOK
  <2>3. KernelOK(input.flavor, old)
    BY <1>1, <2>2 DEF KernelOf
  <2>4. KernelOK(input.flavor, new)
    BY <1>2, <2>3, KernelOver DEF new
  <2>5. /\ DOMAIN m = DOMAIN kernel_map \cup {name}
        /\ m[name] = new
        /\ \A n \in DOMAIN kernel_map : n # name => m[n] = kernel_map[n]
    <3>1. m = [x \in DOMAIN kernel_map \cup {name} |-> IF x = name THEN new ELSE kernel_map[x]]
      BY <2>1 DEF With
    <3>. QED
      BY <3>1
  <2>6. /\ name \in DOMAIN kernel_map => old = kernel_map[name]
        /\ name \notin DOMAIN kernel_map => DOMAIN old.instances = {}
    BY DEF KernelOf, NoKernel, name
  <2>7. DOMAIN new.instances = DOMAIN ById(entry.instances) \cup DOMAIN old.instances
    <3>. DEFINE f == ById(entry.instances)
                g == old.instances
    <3>1. new.instances = Over(f, g)
      BY DEF new
    <3>. HIDE DEF f, g
    <3>2. DOMAIN Over(f, g) = DOMAIN f \cup DOMAIN g
      BY OverIs
    <3>. QED
      BY <3>1, <3>2 DEF f, g
  <2>. HIDE DEF old
  <2>8. \A n \in DOMAIN m : KernelOK(input.flavor, m[n])
    BY <1>1, <2>4, <2>5
  <2>9. DOMAIN m \subseteq Nat
    BY <1>1, <1>3, <2>5 DEF name
  <2>10. ASSUME NEW n \in DOMAIN m, NEW id \in DOMAIN m[n].instances
         PROVE  \/ n \in DOMAIN kernel_map /\ id \in DOMAIN kernel_map[n].instances
                \/ n = name /\ \E k \in DOMAIN entry.instances : entry.instances[k].id = id
    <3>1. CASE n # name
      BY <2>5, <3>1
    <3>2. CASE n = name
      <4>1. id \in DOMAIN ById(entry.instances) \/ id \in DOMAIN old.instances
        BY <2>5, <2>7, <3>2
      <4>. QED
        BY <1>2, <2>6, <3>2, <4>1
    <3>. QED
      BY <3>1, <3>2
  <2>11. ASSUME NEW n \in DOMAIN kernel_map
         PROVE  n \in DOMAIN m /\ DOMAIN kernel_map[n].instances \subseteq DOMAIN m[n].instances
    <3>1. CASE n # name
      BY <2>5, <3>1
    <3>2. CASE n = name
      BY <2>5, <2>6, <2>7, <3>2
    <3>. QED
      BY <3>1, <3>2
  <2>12. ASSUME NEW k \in DOMAIN entry.instances
         PROVE  name \in DOMAIN m /\ entry.instances[k].id \in DOMAIN m[name].instances
    BY <1>2, <2>5, <2>7
  <2>. QED
    BY <2>8, <2>9, <2>10, <2>11, <2>12 DEF m, name
<1>. QED
  BY <1>4, <1>5

LEMMA ReadKeeps ==
  ASSUME ReadOK, ReadKernel
  PROVE  ReadOK'
<1>1. /\ input' = input /\ kernel_map' = WithEntry(Entry) /\ read' = read + 1 /\ stage' = stage
      /\ stage = "read" /\ read < Len(input.entries)
  BY DEF ReadKernel, Reading
<1>2. /\ Len(input.entries) \in Nat /\ read \in Nat /\ read + 1 \in DOMAIN input.entries
      /\ EntryOK(input.flavor, Entry) /\ Entry = input.entries[read + 1]
  BY <1>1, InputKnown DEF ReadOK, Entry
<1>3. /\ DOMAIN kernel_map' \subseteq Nat
      /\ \A n \in DOMAIN kernel_map' : KernelOK(input.flavor, kernel_map'[n])
      /\ \A n \in DOMAIN kernel_map' : \A id \in DOMAIN kernel_map'[n].instances :
           \/ n \in DOMAIN kernel_map /\ id \in DOMAIN kernel_map[n].instances
           \/ n = Entry.name /\ \E k \in DOMAIN Entry.instances : Entry.instances[k].id = id
      /\ \A n \in DOMAIN kernel_map : n \in DOMAIN kernel_map' /\
           DOMAIN kernel_map[n].instances \subseteq DOMAIN kernel_map'[n].instances
      /\ \A k \in DOMAIN Entry.instances :
           Entry.name \in DOMAIN kernel_map' /\ Entry.instances[k].id \in DOMAIN kernel_map'[Entry.name].instances
  BY <1>1, <1>2, WithEntryIs
<1>4. ASSUME NEW n \in DOMAIN kernel_map', NEW id \in DOMAIN kernel_map'[n].instances
      PROVE  \E e \in 1 .. read + 1 : InEntry(input.entries[e], n, id)
  <2>1. CASE n \in DOMAIN kernel_map /\ id \in DOMAIN kernel_map[n].instances
    <3>1. PICK e \in 1 .. read : InEntry(input.entries[e], n, id)
      BY <2>1 DEF ReadOK, KernelsOf
    <3>. QED
      BY <1>2, <3>1
  <2>2. CASE n = Entry.name /\ \E k \in DOMAIN Entry.instances : Entry.instances[k].id = id
    <3>1. InEntry(input.entries[read + 1], n, id)
      BY <1>2, <2>2 DEF InEntry
    <3>. QED
      BY <1>2, <3>1
  <2>. QED
    BY <1>3, <2>1, <2>2
<1>5. ASSUME NEW e \in 1 .. read + 1, NEW n, NEW id, InEntry(input.entries[e], n, id)
      PROVE  n \in DOMAIN kernel_map' /\ id \in DOMAIN kernel_map'[n].instances
  <2>1. CASE e \in 1 .. read
    <3>1. n \in DOMAIN kernel_map /\ id \in DOMAIN kernel_map[n].instances
      BY <1>5, <2>1 DEF ReadOK, KernelsOf
    <3>. QED
      BY <1>3, <3>1
  <2>2. CASE e = read + 1
    <3>1. n = Entry.name /\ \E k \in DOMAIN Entry.instances : Entry.instances[k].id = id
      BY <1>2, <1>5, <2>2 DEF InEntry
    <3>. QED
      BY <1>3, <3>1
  <2>. QED
    BY <1>2, <2>1, <2>2
<1>6. KernelsOf(input', read', kernel_map')
  BY <1>1, <1>3, <1>4, <1>5 DEF KernelsOf
<1>7. input' \in Inputs /\ read' \in 0 .. Len(input'.entries)
  BY <1>1, <1>2 DEF ReadOK
<1>. QED
  BY <1>1, <1>6, <1>7 DEF ReadOK

LEMMA ReadInvariant ==
  ASSUME ReadOK, [Next]_vars
  PROVE  ReadOK'
<1>1. CASE ReadKernel
  BY <1>1, ReadKeeps
<1>2. CASE EndOfConfig
  BY <1>2 DEF ReadOK, EndOfConfig, config
<1>3. CASE RejectPdis
  BY <1>3 DEF ReadOK, RejectPdis, config
<1>4. ASSUME UNCHANGED config, stage \notin {"read", "rejected"} \/ stage' = stage
      PROVE  ReadOK'
  BY <1>4 DEF ReadOK, config
<1>5. CASE EncodeNothing \/ EncodeKernel \/ EncodeInstance \/ RejectPartition \/ EncodeCode \/ StartElf
  BY <1>4, <1>5 DEF EncodeNothing, EncodeKernel, EncodeInstance, RejectPartition, EncodeCode,
                    StartElf, Encode, Encoding
<1>6. CASE Start \/ PassOver \/ AddSection \/ AddSymbols \/ AddGroup \/ EndOfCommon \/ Finalize
  BY <1>4, <1>6 DEF Start, PassOver, AddSection, AddSymbols, AddGroup, EndOfCommon, Finalize
<1>7. CASE Ended \/ UNCHANGED vars
  BY <1>4, <1>7 DEF Ended, vars
<1>. QED
  BY <1>1, <1>2, <1>3, <1>5, <1>6, <1>7 DEF Next

(***************************************************************************)
(* The plan of the encoder.                                                *)
(***************************************************************************)
TaskOK(i, m, task) ==
  /\ WritersOK(task.writers)
  /\ task.kind \in {"kernel", "instance", "code"}
  /\ task.kind = "code" <=> ~ i.config
  /\ task.kind = "kernel" =>
       /\ task.kernel \in DOMAIN m /\ task.id = task.kernel
       /\ \A w \in DOMAIN task.writers :
            task.writers[w].name \in DOMAIN m[task.kernel].common /\ task.writers[w].symbols = <<>>
  /\ task.kind = "instance" =>
       task.kernel \in DOMAIN m /\ task.id \in DOMAIN m[task.kernel].instances

(* A kernel's task comes before those of its instances.                    *)
Preceded(p, t) ==
  p[t].kind = "instance" =>
    \E s \in 1 .. t - 1 : p[s].kind = "kernel" /\ p[s].kernel = p[t].kernel

PlanOf(i, m, p) ==
  /\ IsSeq(p)
  /\ \A t \in DOMAIN p : TaskOK(i, m, p[t]) /\ Preceded(p, t)
  /\ \A s \in DOMAIN p : \A t \in DOMAIN p :
       p[s].kind = "kernel" /\ p[t].kind = "kernel" /\ p[s].kernel = p[t].kernel => s = t
  /\ ~ i.config => Len(p) <= 1

PlannedIn(p, k, id) ==
  \E t \in DOMAIN p : p[t].kind = "instance" /\ p[t].kernel = k /\ p[t].id = id

(* Behind the kernel at hand nothing is left out.                          *)
Behind(m, p) ==
  \A s \in DOMAIN p : p[s].kernel # p[Len(p)].kernel =>
    \A id \in DOMAIN m[p[s].kernel].instances : PlannedIn(p, p[s].kernel, id)

PlanOK ==
  /\ PlanOf(input, kernel_map, plan)
  /\ stage = "read" => plan = <<>>
  /\ input.config => Behind(kernel_map, plan)
  /\ input.config /\ stage \in {"write", "done"} =>
       \A k \in DOMAIN kernel_map : \A id \in DOMAIN kernel_map[k].instances : PlannedIn(plan, k, id)

LEMMA EmptyPlan ==
  ASSUME NEW i, NEW m
  PROVE  PlanOf(i, m, <<>>) /\ Behind(m, <<>>)
BY NoSeq DEF PlanOf, Behind

LEMMA PlanGrows ==
  ASSUME NEW i, NEW m, NEW p, PlanOf(i, m, p), NEW task, TaskOK(i, m, task),
         task.kind = "instance" =>
           \E s \in DOMAIN p : p[s].kind = "kernel" /\ p[s].kernel = task.kernel,
         task.kind = "kernel" => \A s \in DOMAIN p : p[s].kernel # task.kernel,
         ~ i.config => p = <<>>
  PROVE  PlanOf(i, m, Append(p, task))
<1>. DEFINE q == Append(p, task)
            n == Len(p)
<1>1. IsSeq(p)
  BY DEF PlanOf
<1>2. n \in Nat /\ DOMAIN p = 1 .. n
  BY <1>1, SeqIs
<1>3. /\ IsSeq(q) /\ Len(q) = n + 1 /\ DOMAIN q = 1 .. n + 1
      /\ \A k \in 1 .. n : q[k] = p[k]
      /\ q[n + 1] = task
  BY <1>1, Appended
<1>. HIDE DEF q, n
<1>4. ASSUME NEW t \in DOMAIN q
      PROVE  TaskOK(i, m, q[t]) /\ Preceded(q, t)
  <2>1. CASE t \in 1 .. n
    <3>1. TaskOK(i, m, p[t]) /\ Preceded(p, t) /\ q[t] = p[t]
      BY <1>2, <1>3, <2>1 DEF PlanOf
    <3>2. \A s \in 1 .. t - 1 : s \in 1 .. n
      BY <1>2, <2>1
    <3>3. Preceded(q, t)
      BY <1>3, <3>1, <3>2 DEF Preceded
    <3>. QED
      BY <3>1, <3>3
  <2>2. CASE t = n + 1
    <3>1. \A s \in DOMAIN p : s \in 1 .. t - 1 /\ q[s] = p[s]
      BY <1>2, <1>3, <2>2
    <3>2. Preceded(q, t)
      BY <1>3, <2>2, <3>1 DEF Preceded
    <3>. QED
      BY <1>3, <2>2, <3>2
  <2>. QED
    BY <1>2, <1>3, <2>1, <2>2
<1>5. ASSUME NEW s \in DOMAIN q, NEW t \in DOMAIN q,
             q[s].kind = "kernel", q[t].kind = "kernel", q[s].kernel = q[t].kernel
      PROVE  s = t
  <2>1. s \in 1 .. n \/ s = n + 1
    BY <1>2, <1>3
  <2>2. t \in 1 .. n \/ t = n + 1
    BY <1>2, <1>3
  <2>3. CASE s \in 1 .. n /\ t \in 1 .. n
    BY <1>2, <1>3, <1>5, <2>3 DEF PlanOf
  <2>4. CASE s \in 1 .. n /\ t = n + 1
    BY <1>2, <1>3, <1>5, <2>4
  <2>5. CASE s = n + 1 /\ t \in 1 .. n
    BY <1>2, <1>3, <1>5, <2>5
  <2>. QED
    BY <2>1, <2>2, <2>3, <2>4, <2>5
<1>6. ~ i.config => Len(q) <= 1
  <2>1. p = <<>> => n = 0
    BY NoSeq DEF n
  <2>. QED
    BY <1>2, <1>3, <2>1
<1>7. PlanOf(i, m, q)
  BY <1>3, <1>4, <1>5, <1>6 DEF PlanOf
<1>. QED
  BY <1>7 DEF q

(* The kernel at hand is left when nothing of it is.                       *)
LEMMA BehindGrows ==
  ASSUME NEW m, NEW p, IsSeq(p), Behind(m, p), NEW task,
         \/ p = <<>>
         \/ task.kernel = p[Len(p)].kernel
         \/ \A id \in DOMAIN m[p[Len(p)].kernel].instances : PlannedIn(p, p[Len(p)].kernel, id)
  PROVE  Behind(m, Append(p, task))
<1>. DEFINE q == Append(p, task)
            n == Len(p)
<1>2. n \in Nat /\ DOMAIN p = 1 .. n
  BY SeqIs
<1>3. /\ IsSeq(q) /\ Len(q) = n + 1 /\ DOMAIN q = 1 .. n + 1
      /\ \A k \in 1 .. n : q[k] = p[k]
      /\ q[n + 1] = task
  BY Appended
<1>4. p = <<>> => n = 0
  BY NoSeq
<1>. HIDE DEF q, n
<1>5. \A k, id : PlannedIn(p, k, id) => PlannedIn(q, k, id)
  BY <1>2, <1>3 DEF PlannedIn
<1>6. ASSUME NEW s \in DOMAIN q, q[s].kernel # q[n + 1].kernel,
             NEW id \in DOMAIN m[q[s].kernel].instances
      PROVE  PlannedIn(q, q[s].kernel, id)
  <2>1. s \in 1 .. n /\ n # 0
    BY <1>2, <1>3, <1>6
  <2>2. q[s] = p[s] /\ p[s].kernel # task.kernel /\ p # <<>>
    BY <1>3, <1>4, <1>6, <2>1
  <2>3. CASE p[s].kernel # p[n].kernel
    <3>1. PlannedIn(p, p[s].kernel, id)
      BY <1>2, <1>6, <2>1, <2>2, <2>3 DEF Behind, n
    <3>. QED
      BY <1>5, <2>2, <3>1
  <2>4. CASE p[s].kernel = p[n].kernel
    <3>1. PlannedIn(p, p[s].kernel, id)
      BY <1>6, <2>2, <2>4 DEF n
    <3>. QED
      BY <1>5, <2>2, <3>1
  <2>. QED
    BY <2>3, <2>4
<1>7. Behind(m, q)
  BY <1>3, <1>6 DEF Behind
<1>. QED
  BY <1>7 DEF q

LEMMA InitPlan == Init => PlanOK
BY EmptyPlan DEF Init, Fresh, PlanOK

LEMMA EncodeStep ==
  ASSUME PlanOK, NEW task, Encode(task), stage = "encode",
         PlanOf(input, kernel_map, Append(plan, task)),
         input.config => Behind(kernel_map, Append(plan, task))
  PROVE  PlanOK'
<1>1. /\ plan' = Append(plan, task) /\ stage' = "encode"
      /\ input' = input /\ kernel_map' = kernel_map
  BY DEF Encode, config
<1>2. PlanOf(input', kernel_map', plan') /\ (input.config => Behind(kernel_map', plan'))
  BY <1>1
<1>. QED
  BY <1>1, <1>2 DEF PlanOK

(* How the plan stands when the next task is chosen.                       *)
LEMMA AtHandKnown ==
  ASSUME PlanOK, plan # <<>>, input.config
  PROVE  /\ Len(plan) \in DOMAIN plan /\ AtHand \in DOMAIN kernel_map
         /\ \E s \in DOMAIN plan : plan[s].kind = "kernel" /\ plan[s].kernel = AtHand
<1>1. PlanOf(input, kernel_map, plan)
  BY DEF PlanOK
<1>2. IsSeq(plan)
  BY <1>1 DEF PlanOf
<1>3. DOMAIN plan = 1 .. Len(plan) /\ Len(plan) \in Nat
  BY <1>2, SeqIs
<1>4. Len(plan) # 0
  BY <1>2 DEF IsSeq
<1>5. Len(plan) \in DOMAIN plan
  BY <1>3, <1>4
<1>6. TaskOK(input, kernel_map, plan[Len(plan)]) /\ Preceded(plan, Len(plan))
  BY <1>1, <1>5 DEF PlanOf
<1>7. AtHand = plan[Len(plan)].kernel
  BY DEF AtHand
<1>8. CASE plan[Len(plan)].kind = "kernel"
  BY <1>5, <1>6, <1>7, <1>8 DEF TaskOK
<1>9. CASE plan[Len(plan)].kind = "instance"
  <2>1. PICK s \in 1 .. Len(plan) - 1 : plan[s].kind = "kernel" /\ plan[s].kernel = AtHand
    BY <1>6, <1>7, <1>9 DEF Preceded
  <2>2. s \in DOMAIN plan
    BY <1>3
  <2>. QED
    BY <1>5, <1>6, <1>7, <1>9, <2>1, <2>2 DEF TaskOK
<1>. QED
  BY <1>6, <1>8, <1>9 DEF TaskOK

LEMMA NoneLeft ==
  ASSUME input.config, plan # <<>>, InstancesLeft = {}
  PROVE  \A id \in DOMAIN kernel_map[AtHand].instances : PlannedIn(plan, AtHand, id)
BY DEF InstancesLeft, PlannedIn

LEMMA EncodeKernelKeeps ==
  ASSUME ReadOK, PlanOK, EncodeKernel
  PROVE  PlanOK'
<1>. DEFINE k == Min(KernelsLeft)
            task == [kind |-> "kernel", kernel |-> k, id |-> k,
                     writers |-> CommonWriters(kernel_map[k].common)]
<1>1. /\ stage = "encode" /\ input.config /\ InstancesLeft = {} /\ KernelsLeft # {}
      /\ Encode(task)
  BY DEF EncodeKernel, Encoding
<1>2. /\ DOMAIN kernel_map \subseteq Nat
      /\ \A n \in DOMAIN kernel_map : KernelOK(input.flavor, kernel_map[n])
  BY DEF ReadOK, KernelsOf
<1>3. KernelsLeft \subseteq Nat
  BY <1>2 DEF KernelsLeft
<1>4. k \in KernelsLeft
  BY <1>1, <1>3, MinIs
<1>5. k \in DOMAIN kernel_map /\ \A s \in DOMAIN plan : plan[s].kernel # k
  BY <1>4 DEF KernelsLeft
<1>6. CommonOK(kernel_map[k].common)
  BY <1>2, <1>5 DEF KernelOK
<1>. HIDE DEF k
<1>7. /\ WritersOK(CommonWriters(kernel_map[k].common))
      /\ \A w \in DOMAIN CommonWriters(kernel_map[k].common) :
           /\ CommonWriters(kernel_map[k].common)[w].name \in DOMAIN kernel_map[k].common
           /\ CommonWriters(kernel_map[k].common)[w].symbols = <<>>
  BY <1>6, CommonWritersOK
<1>8. TaskOK(input, kernel_map, task)
  BY <1>1, <1>5, <1>7 DEF TaskOK
<1>9. PlanOf(input, kernel_map, plan) /\ Behind(kernel_map, plan) /\ IsSeq(plan)
  BY <1>1 DEF PlanOK, PlanOf
<1>10. task.kind = "kernel" /\ task.kernel = k
  OBVIOUS
<1>. HIDE DEF task
<1>11. PlanOf(input, kernel_map, Append(plan, task))
  BY <1>1, <1>5, <1>8, <1>9, <1>10, PlanGrows
<1>12. \/ plan = <<>>
       \/ \A id \in DOMAIN kernel_map[plan[Len(plan)].kernel].instances :
            PlannedIn(plan, plan[Len(plan)].kernel, id)
  BY <1>1, NoneLeft DEF AtHand
<1>13. Behind(kernel_map, Append(plan, task))
  BY <1>9, <1>12, BehindGrows
<1>. QED
  BY <1>1, <1>11, <1>13, EncodeStep

LEMMA EncodeInstanceKeeps ==
  ASSUME ReadOK, PlanOK, EncodeInstance
  PROVE  PlanOK'
<1>. DEFINE id == Min(InstancesLeft)
            task == [kind |-> "instance", kernel |-> AtHand, id |-> id,
                     writers |-> WritersOf(NextInstance)]
<1>1. /\ stage = "encode" /\ input.config /\ InstancesLeft # {} /\ Encode(task)
  BY DEF EncodeInstance, Encoding
<1>2. plan # <<>>
  BY <1>1 DEF InstancesLeft
<1>3. /\ AtHand \in DOMAIN kernel_map
      /\ \E s \in DOMAIN plan : plan[s].kind = "kernel" /\ plan[s].kernel = AtHand
  BY <1>1, <1>2, AtHandKnown
<1>4. KernelOK(input.flavor, kernel_map[AtHand])
  BY <1>3 DEF ReadOK, KernelsOf
<1>5. InstancesLeft \subseteq DOMAIN kernel_map[AtHand].instances
  BY DEF InstancesLeft
<1>6. id \in DOMAIN kernel_map[AtHand].instances
  <2>1. InstancesLeft \subseteq Nat
    BY <1>4, <1>5 DEF KernelOK
  <2>. QED
    BY <1>1, <1>5, <2>1, MinIs
<1>7. InstanceOK(input.flavor, NextInstance)
  BY <1>4, <1>6 DEF KernelOK, NextInstance
<1>8. WritersOK(WritersOf(NextInstance))
  BY <1>7, WritersOfOK
<1>9. TaskOK(input, kernel_map, task)
  BY <1>1, <1>3, <1>6, <1>8 DEF TaskOK
<1>10. PlanOf(input, kernel_map, plan) /\ Behind(kernel_map, plan) /\ IsSeq(plan)
  BY <1>1 DEF PlanOK, PlanOf
<1>11. task.kind = "instance" /\ task.kernel = AtHand /\ task.kernel = plan[Len(plan)].kernel
  BY DEF AtHand
<1>. HIDE DEF task
<1>12. PlanOf(input, kernel_map, Append(plan, task))
  BY <1>1, <1>3, <1>9, <1>10, <1>11, PlanGrows
<1>13. Behind(kernel_map, Append(plan, task))
  BY <1>10, <1>11, BehindGrows
<1>. QED
  BY <1>1, <1>12, <1>13, EncodeStep

LEMMA EncodeCodeKeeps ==
  ASSUME ReadOK, PlanOK, EncodeCode
  PROVE  PlanOK'
<1>. DEFINE entry == input.entries[1]
            task == [kind |-> "code", kernel |-> entry.name, id |-> entry.name,
                     writers |-> WritersOf(entry.instances[1])]
<1>1. stage = "encode" /\ ~ input.config /\ plan = <<>> /\ Encode(task)
  BY DEF EncodeCode, Encoding
<1>2. EntryOK(input.flavor, entry) /\ Len(entry.instances) = 1
  BY <1>1, InputKnown DEF ReadOK
<1>3. 1 \in DOMAIN entry.instances
  <2>1. IsSeq(entry.instances)
    BY <1>2 DEF EntryOK
  <2>. QED
    BY <1>2, <2>1, SeqIs
<1>4. InstanceOK(input.flavor, entry.instances[1])
  BY <1>2, <1>3 DEF EntryOK, InstanceOK
<1>5. WritersOK(WritersOf(entry.instances[1]))
  BY <1>4, WritersOfOK
<1>6. TaskOK(input, kernel_map, task)
  BY <1>1, <1>5 DEF TaskOK
<1>7. task.kind = "code" /\ PlanOf(input, kernel_map, plan)
  BY DEF PlanOK
<1>. HIDE DEF task
<1>8. PlanOf(input, kernel_map, Append(plan, task))
  BY <1>1, <1>6, <1>7, PlanGrows
<1>. QED
  BY <1>1, <1>8, EncodeStep

LEMMA StartElfKeeps ==
  ASSUME PlanOK, StartElf
  PROVE  PlanOK'
<1>1. /\ stage = "encode" /\ HasFirst /\ InstancesLeft = {} /\ KernelsLeft = {} /\ stage' = "write"
      /\ plan' = plan /\ input' = input /\ kernel_map' = kernel_map
  BY DEF StartElf, Encoding, config, loop
<1>2. ASSUME input.config, NEW k \in DOMAIN kernel_map, NEW id \in DOMAIN kernel_map[k].instances
      PROVE  PlannedIn(plan, k, id)
  <2>1. PICK s \in DOMAIN plan : plan[s].kernel = k
    BY <1>1 DEF KernelsLeft
  <2>2. plan # <<>>
    BY <2>1
  <2>3. CASE k = AtHand
    BY <1>1, <1>2, <2>2, <2>3, NoneLeft
  <2>4. CASE k # AtHand
    BY <1>2, <2>1, <2>4 DEF PlanOK, Behind, AtHand
  <2>. QED
    BY <2>3, <2>4
<1>. QED
  BY <1>1, <1>2 DEF PlanOK

LEMMA PlanInvariant ==
  ASSUME ReadOK, PlanOK, [Next]_vars
  PROVE  PlanOK'
<1>1. CASE ReadKernel
  <2>1. plan' = <<>> /\ stage' = "read"
    BY <1>1 DEF ReadKernel, Reading, PlanOK, loop
  <2>2. PlanOf(input', kernel_map', <<>>) /\ Behind(kernel_map', <<>>)
    BY EmptyPlan
  <2>3. PlanOf(input', kernel_map', plan') /\ Behind(kernel_map', plan')
    BY <2>1, <2>2
  <2>. QED
    BY <2>1, <2>3 DEF PlanOK
<1>2. ASSUME UNCHANGED <<config, plan>>,
             stage' # "read" \/ stage' = stage,
             stage' \notin {"write", "done"} \/ stage \in {"write", "done"}
      PROVE  PlanOK'
  BY <1>2 DEF PlanOK, config
<1>3. CASE RejectPdis \/ EndOfConfig \/ EncodeNothing \/ RejectPartition
  BY <1>2, <1>3 DEF RejectPdis, EndOfConfig, EncodeNothing, RejectPartition, loop
<1>4. CASE Start \/ PassOver \/ AddSection \/ AddSymbols \/ AddGroup \/ EndOfCommon \/ Finalize
  BY <1>2, <1>4 DEF Start, PassOver, AddSection, AddSymbols, AddGroup, EndOfCommon, Finalize, loop
<1>5. CASE Ended \/ UNCHANGED vars
  BY <1>2, <1>5 DEF Ended, vars, loop
<1>. QED
  BY <1>1, <1>3, <1>4, <1>5, EncodeKernelKeeps, EncodeInstanceKeeps, EncodeCodeKeeps,
     StartElfKeeps DEF Next

(* Every instance named by an entry is planned, and no other.              *)
LEMMA NamedAre ==
  ASSUME ReadOK, PlanOK, stage = "done", input.config
  PROVE  Named = {<<plan[t].kernel, plan[t].id>> : t \in InstanceTasks}
<1>1. /\ read = Len(input.entries) /\ read \in Nat /\ KernelsOf(input, read, kernel_map)
      /\ DOMAIN input.entries = 1 .. Len(input.entries)
  BY InputKnown DEF ReadOK
<1>2. \A k \in DOMAIN kernel_map : \A id \in DOMAIN kernel_map[k].instances : PlannedIn(plan, k, id)
  BY DEF PlanOK
<1>3. ASSUME NEW x \in Named
      PROVE  x \in {<<plan[t].kernel, plan[t].id>> : t \in InstanceTasks}
  <2>1. PICK entry \in ToSet(input.entries) :
          x \in {<<entry.name, entry.instances[k].id>> : k \in DOMAIN entry.instances}
    BY DEF Named
  <2>2. PICK e \in DOMAIN input.entries : input.entries[e] = entry
    BY DEF ToSet
  <2>3. PICK k \in DOMAIN entry.instances : x = <<entry.name, entry.instances[k].id>>
    BY <2>1
  <2>4. InEntry(input.entries[e], entry.name, entry.instances[k].id)
    BY <2>2 DEF InEntry
  <2>5. entry.name \in DOMAIN kernel_map
        /\ entry.instances[k].id \in DOMAIN kernel_map[entry.name].instances
    BY <1>1, <2>2, <2>4 DEF KernelsOf
  <2>6. PICK t \in DOMAIN plan :
          plan[t].kind = "instance" /\ plan[t].kernel = entry.name /\ plan[t].id = entry.instances[k].id
    BY <1>2, <2>5 DEF PlannedIn
  <2>7. t \in InstanceTasks
    BY <2>6 DEF InstanceTasks
  <2>. QED
    BY <2>3, <2>6, <2>7
<1>4. ASSUME NEW t \in InstanceTasks
      PROVE  <<plan[t].kernel, plan[t].id>> \in Named
  <2>1. t \in DOMAIN plan /\ plan[t].kind = "instance"
    BY DEF InstanceTasks
  <2>2. TaskOK(input, kernel_map, plan[t])
    BY <2>1 DEF PlanOK, PlanOf
  <2>3. plan[t].kernel \in DOMAIN kernel_map /\ plan[t].id \in DOMAIN kernel_map[plan[t].kernel].instances
    BY <2>1, <2>2 DEF TaskOK
  <2>4. PICK e \in 1 .. read : InEntry(input.entries[e], plan[t].kernel, plan[t].id)
    BY <1>1, <2>3 DEF KernelsOf
  <2>5. PICK k \in DOMAIN input.entries[e].instances : input.entries[e].instances[k].id = plan[t].id
    BY <2>4 DEF InEntry
  <2>. DEFINE entry == input.entries[e]
  <2>6. entry \in ToSet(input.entries)
    BY <1>1 DEF ToSet
  <2>7. entry.name = plan[t].kernel
    BY <2>4 DEF InEntry
  <2>8. <<plan[t].kernel, plan[t].id>> = <<entry.name, entry.instances[k].id>>
    BY <2>5, <2>7
  <2>. QED
    BY <2>5, <2>6, <2>8 DEF Named
<1>. QED
  BY <1>3, <1>4

(***************************************************************************)
(* What elf_writer has made: the loop over the tasks.                      *)
(***************************************************************************)
Instances(p, n) == {s \in 1 .. n : p[s].kind = "instance"}
Count(p, n) == Cardinality(Instances(p, n))

(* The number an instance has, and the suffix of its sections.             *)
SuffixOf(p, t) == IF p[t].kind = "instance" THEN Count(p, t - 1) ELSE -1

Finished == IF busy THEN at - 1 ELSE at

LoopOK ==
  /\ at \in 0 .. Len(plan) /\ next \in Nat /\ busy \in BOOLEAN
  /\ stage \notin {"write", "done"} => at = 0
  /\ at = 0 => next = 0 /\ ~ busy
  /\ at > 0 => next <= Len(plan[at].writers) /\ (busy \/ next = Len(plan[at].writers))
  /\ ~ busy => syms = <<>>
  /\ index = Count(plan, Finished)
  /\ stage = "done" => at = Len(plan) /\ ~ busy

(* Sections: each is one of elf_writer's own, or was made for a writer     *)
(* that is done and has bytes; those have one each.                        *)
WrittenIn(p, t) == {w \in DOMAIN p[t].writers : p[t].writers[w].size > 0}

DoneIn(p, a, n, t) == {w \in WrittenIn(p, t) : t = a => w <= n}

Special(section) == section.of = <<0, 0>> /\ section.name[1] \in Reserved

FromWriter(p, a, n, section) ==
  \E t \in 1 .. a : \E w \in DoneIn(p, a, n, t) :
    section.of = <<t, w>> /\ section.name = <<p[t].writers[w].name, SuffixOf(p, t)>>

SectionsOf(p, a, n, all) ==
  /\ IsSeq(all)
  /\ \A k \in DOMAIN all : Special(all[k]) \/ FromWriter(p, a, n, all[k])
  /\ \A j \in DOMAIN all : \A k \in DOMAIN all : all[j].of = all[k].of /\ all[j].of # <<0, 0>> => j = k
  /\ \A t \in 1 .. a : \A w \in DoneIn(p, a, n, t) : \E k \in DOMAIN all : all[k].of = <<t, w>>

(* Kernels' common data have names of their own.                           *)
Distinct(m) ==
  \A j \in DOMAIN m : \A k \in DOMAIN m :
    j # k => DOMAIN m[j].common \cap DOMAIN m[k].common = {}

SectionsOK == SectionsOf(plan, at, next, sections)

Code(all) == {k \in DOMAIN all : all[k].of # <<0, 0>>}
LoadsOf(segs) == {k \in DOMAIN segs : segs[k].type = "load"}

LoadsRight(all, segs) ==
  /\ \A k \in LoadsOf(segs) : segs[k].section \in Code(all)
  /\ \A n \in Code(all) : \E k \in LoadsOf(segs) : segs[k].section = n
  /\ \A j \in LoadsOf(segs) : \A k \in LoadsOf(segs) : segs[j].section = segs[k].section => j = k

LoadsOK ==
  /\ IsSeq(segments)
  /\ at = 0 => LoadsOf(segments) = {}
  /\ Distinct(kernel_map) => LoadsRight(sections, segments)

(* The symbols of the kernels are there; the instance at hand is the last. *)
NamesTask(table, n, task) ==
  /\ n \in DOMAIN table /\ table[n].name = task.id
  /\ table[n].section \in DOMAIN table /\ table[table[n].section].name = task.kernel

SymtabOK ==
  /\ IsSeq(symtab)
  /\ \A t \in 1 .. at : plan[t].kind = "kernel" =>
       \E k \in DOMAIN symtab : symtab[k].name = plan[t].kernel /\ symtab[k].kind = "kernel"
  /\ busy /\ plan[at].kind = "instance" => NamesTask(symtab, Len(symtab), plan[at])

(* The sections made for a task, and its group.                            *)
MadeFor(all, t) == {k \in DOMAIN all : all[k].of # <<0, 0>> /\ all[k].of[1] = t}

GroupRight(all, table, t, task, group) ==
  /\ ToSet(group.members) = MadeFor(all, t) /\ IsInjective(group.members)
  /\ NamesTask(table, group.info, task)

GroupsOK ==
  /\ IsSeq(section_index_list) /\ IsInjective(section_index_list)
  /\ ToSet(section_index_list) = MadeFor(sections, at)
  /\ IsSeq(groups) /\ Len(groups) = index
  /\ \A t \in 1 .. Finished : plan[t].kind = "instance" =>
       GroupRight(sections, symtab, t, plan[t], groups[SuffixOf(plan, t) + 1])

(* The symbols of the writers done: those in front have relocations, the   *)
(* others wait in syms.                                                    *)
SlotsIn(p, a, n) ==
  UNION {UNION {{<<t, w, k>> : k \in DOMAIN p[t].writers[w].symbols} : w \in DoneIn(p, a, n, t)} :
           t \in 1 .. a}

PlaceIn(S, slot) == Cardinality({s \in S : UpTo(s, slot)})

SymbolAt(p, slot) == p[slot[1]].writers[slot[2]].symbols[slot[3]]

Resolved(p, slot, relocation, table, all) ==
  LET sym == SymbolAt(p, slot)
      entry == table[relocation.symbol]
      section == all[entry.section]
  IN /\ relocation.symbol \in DOMAIN table /\ entry.section \in DOMAIN all
     /\ relocation.pos = sym.pos
     /\ entry.name = sym.name /\ entry.size = sym.size
     /\ section.of[1] = slot[1]
     /\ p[slot[1]].writers[section.of[2]].name = sym.section

SlotOK(p, a, S, slot, r, s, table, all) ==
  \/ /\ PlaceIn(S, slot) \in 1 .. Len(r)
     /\ Resolved(p, slot, r[PlaceIn(S, slot)], table, all)
  \/ /\ PlaceIn(S, slot) - Len(r) \in 1 .. Len(s) /\ slot[1] = a
     /\ s[PlaceIn(S, slot) - Len(r)] = SymbolAt(p, slot)

RelaOf(p, a, n, r, s, table, all) ==
  /\ IsSeq(r) /\ IsSeq(s) /\ IsSeq(table)
  /\ IsFiniteSet(SlotsIn(p, a, n)) /\ Cardinality(SlotsIn(p, a, n)) = Len(r) + Len(s)
  /\ \A slot \in SlotsIn(p, a, n) : SlotOK(p, a, SlotsIn(p, a, n), slot, r, s, table, all)
  /\ HasDynamic(all) <=> r # <<>>

RelaOK ==
  /\ RelaOf(plan, at, next, rela, syms, dynsym, sections)
  /\ dynamic = IF stage = "done" /\ rela # <<>> THEN [relasz |-> Len(rela)] ELSE NotThere

ElfInv ==
  ReadOK /\ PlanOK /\ LoopOK /\ SectionsOK /\ LoadsOK /\ SymtabOK /\ GroupsOK /\ RelaOK

(* The instances are numbered in their order.                              *)
LEMMA CountIs ==
  ASSUME NEW p, NEW n \in Nat
  PROVE  /\ IsFiniteSet(Instances(p, n)) /\ Count(p, n) \in Nat
         /\ Count(p, 0) = 0
         /\ p[n + 1].kind = "instance" => Count(p, n + 1) = Count(p, n) + 1
         /\ p[n + 1].kind # "instance" => Count(p, n + 1) = Count(p, n)
<1>1. IsFiniteSet(1 .. n)
  BY FS_Interval
<1>2. Instances(p, n) \in SUBSET (1 .. n)
  BY DEF Instances
<1>3. IsFiniteSet(Instances(p, n)) /\ Cardinality(Instances(p, n)) \in Nat
  BY <1>1, <1>2, FS_Subset, FS_CardinalityType
<1>4. Count(p, 0) = 0
  <2>1. Instances(p, 0) = {}
    BY DEF Instances
  <2>. QED
    BY <2>1, FS_EmptySet DEF Count
<1>5. ASSUME p[n + 1].kind = "instance"
      PROVE  Count(p, n + 1) = Count(p, n) + 1
  <2>1. Instances(p, n + 1) = Instances(p, n) \cup {n + 1}
    <3>1. 1 .. n + 1 = (1 .. n) \cup {n + 1}
      OBVIOUS
    <3>. QED
      BY <1>5, <3>1 DEF Instances
  <2>2. n + 1 \notin Instances(p, n)
    BY DEF Instances
  <2>3. Cardinality(Instances(p, n) \cup {n + 1}) = Cardinality(Instances(p, n)) + 1
    BY <1>3, <2>2, FS_AddElement
  <2>. QED
    BY <2>1, <2>3 DEF Count
<1>6. ASSUME p[n + 1].kind # "instance"
      PROVE  Count(p, n + 1) = Count(p, n)
  <2>1. Instances(p, n + 1) = Instances(p, n)
    <3>1. 1 .. n + 1 = (1 .. n) \cup {n + 1}
      OBVIOUS
    <3>. QED
      BY <1>6, <3>1 DEF Instances
  <2>. QED
    BY <2>1 DEF Count
<1>. QED
  BY <1>3, <1>4, <1>5, <1>6 DEF Count

LEMMA CountGrows ==
  ASSUME NEW p, NEW m \in Nat, NEW n \in Nat, m <= n
  PROVE  Count(p, m) <= Count(p, n)
<1>1. Instances(p, m) \in SUBSET Instances(p, n)
  BY DEF Instances
<1>2. IsFiniteSet(Instances(p, n))
  BY CountIs
<1>. QED
  BY <1>1, <1>2, FS_Subset DEF Count

LEMMA SuffixIs ==
  ASSUME NEW p, NEW t \in Nat \ {0}
  PROVE  /\ p[t].kind = "instance" => SuffixOf(p, t) \in Nat /\ SuffixOf(p, t) + 1 = Count(p, t)
         /\ p[t].kind # "instance" => SuffixOf(p, t) = -1
<1>1. t - 1 \in Nat /\ (t - 1) + 1 = t
  OBVIOUS
<1>2. Count(p, t - 1) \in Nat /\ (p[t].kind = "instance" => Count(p, t) = Count(p, t - 1) + 1)
  <2>. DEFINE n == t - 1
  <2>1. n \in Nat /\ n + 1 = t
    BY <1>1
  <2>2. Count(p, n) \in Nat /\ (p[n + 1].kind = "instance" => Count(p, n + 1) = Count(p, n) + 1)
    BY <2>1, CountIs
  <2>. QED
    BY <2>1, <2>2
<1>. QED
  BY <1>2 DEF SuffixOf

(* Two instances have two suffixes.                                        *)
LEMMA SuffixesApart ==
  ASSUME NEW p, NEW s \in Nat \ {0}, NEW t \in Nat \ {0},
         p[s].kind = "instance", p[t].kind = "instance", SuffixOf(p, s) = SuffixOf(p, t)
  PROVE  s = t
<1>1. /\ SuffixOf(p, s) + 1 = Count(p, s) /\ SuffixOf(p, s) = Count(p, s - 1) /\ SuffixOf(p, s) \in Nat
      /\ SuffixOf(p, t) + 1 = Count(p, t) /\ SuffixOf(p, t) = Count(p, t - 1) /\ SuffixOf(p, t) \in Nat
  BY SuffixIs DEF SuffixOf
<1>2. CASE s < t
  <2>1. s <= t - 1 /\ t - 1 \in Nat
    BY <1>2
  <2>2. Count(p, s) <= Count(p, t - 1)
    BY <2>1, CountGrows
  <2>3. SuffixOf(p, s) + 1 <= SuffixOf(p, t)
    BY <1>1, <2>2
  <2>. QED
    BY <1>1, <2>3
<1>3. CASE t < s
  <2>1. t <= s - 1 /\ s - 1 \in Nat
    BY <1>3
  <2>2. Count(p, t) <= Count(p, s - 1)
    BY <2>1, CountGrows
  <2>3. SuffixOf(p, t) + 1 <= SuffixOf(p, s)
    BY <1>1, <2>2
  <2>. QED
    BY <1>1, <2>3
<1>. QED
  BY <1>2, <1>3

LEMMA InitLoop == Init => LoopOK
<1>. SUFFICES ASSUME Init PROVE LoopOK
  OBVIOUS
<1>1. /\ plan = <<>> /\ at = 0 /\ busy = FALSE /\ index = 0 /\ next = 0 /\ syms = <<>>
      /\ stage = "read"
  BY DEF Init, Fresh
<1>2. Count(plan, 0) = 0 /\ Len(plan) = 0
  BY <1>1, CountIs, NoSeq
<1>3. ~ busy /\ busy \in BOOLEAN
  BY <1>1, Zenon
<1>4. Finished = 0
  BY <1>1, <1>3 DEF Finished
<1>5. at \in 0 .. Len(plan)
  BY <1>1, <1>2
<1>6. index = Count(plan, Finished)
  BY <1>1, <1>2, <1>4
<1>. QED
  BY <1>1, <1>3, <1>5, <1>6 DEF LoopOK

LEMMA TaskKnown ==
  ASSUME PlanOK
  PROVE  /\ Len(plan) \in Nat /\ DOMAIN plan = 1 .. Len(plan)
         /\ \A t \in 1 .. Len(plan) :
              /\ TaskOK(input, kernel_map, plan[t]) /\ WritersOK(plan[t].writers)
              /\ Len(plan[t].writers) \in Nat /\ DOMAIN plan[t].writers = 1 .. Len(plan[t].writers)
<1>1. PlanOf(input, kernel_map, plan)
  BY DEF PlanOK
<1>2. IsSeq(plan)
  BY <1>1 DEF PlanOf
<1>3. Len(plan) \in Nat /\ DOMAIN plan = 1 .. Len(plan)
  BY <1>2, SeqIs
<1>4. ASSUME NEW t \in 1 .. Len(plan)
      PROVE  /\ TaskOK(input, kernel_map, plan[t]) /\ WritersOK(plan[t].writers)
             /\ Len(plan[t].writers) \in Nat /\ DOMAIN plan[t].writers = 1 .. Len(plan[t].writers)
  <2>1. TaskOK(input, kernel_map, plan[t])
    BY <1>1, <1>3 DEF PlanOf
  <2>2. WritersOK(plan[t].writers)
    BY <2>1 DEF TaskOK
  <2>3. IsSeq(plan[t].writers)
    BY <2>2 DEF WritersOK
  <2>. QED
    BY <2>1, <2>2, <2>3, SeqIs
<1>. QED
  BY <1>3, <1>4

LEMMA LoopInvariant ==
  ASSUME PlanOK, LoopOK, [Next]_vars
  PROVE  LoopOK'
<1>1. /\ at \in 0 .. Len(plan) /\ Len(plan) \in Nat /\ next \in Nat /\ busy \in BOOLEAN
      /\ index = Count(plan, Finished)
      /\ \A t \in 1 .. Len(plan) : Len(plan[t].writers) \in Nat
  BY TaskKnown DEF LoopOK
<1>2. ASSUME NEW task, Encode(task), stage = "encode", IsSeq(plan)
      PROVE  LoopOK'
  <2>1. at = 0 /\ next = 0 /\ ~ busy /\ syms = <<>>
    BY <1>2 DEF LoopOK
  <2>2. UNCHANGED <<at, next, busy, syms, index, stage>> /\ plan' = Append(plan, task)
    BY <1>2 DEF Encode, helper
  <2>3. Len(plan') = Len(plan) + 1
    BY <1>2, <2>2, Appended
  <2>4. Count(plan, 0) = 0 /\ Count(plan', 0) = 0
    BY CountIs
  <2>. QED
    BY <1>1, <1>2, <2>1, <2>2, <2>3, <2>4 DEF LoopOK, Finished
<1>3. IsSeq(plan)
  BY DEF PlanOK, PlanOf
<1>4. CASE EncodeKernel \/ EncodeInstance \/ EncodeCode
  BY <1>2, <1>3, <1>4 DEF EncodeKernel, EncodeInstance, EncodeCode, Encoding
<1>5. CASE ReadKernel \/ RejectPdis \/ EndOfConfig \/ EncodeNothing \/ RejectPartition \/ StartElf
  BY <1>5 DEF ReadKernel, Reading, RejectPdis, EndOfConfig, EncodeNothing, RejectPartition, StartElf,
              Encoding, LoopOK, Finished, loop, helper
<1>6. CASE Start
  <2>1. /\ at' = at + 1 /\ busy' = TRUE /\ next' = 0 /\ syms' = <<>> /\ index' = index /\ plan' = plan
        /\ stage = "write" /\ stage' = "write" /\ ~ busy /\ at < Len(plan)
    BY <1>6 DEF Start
  <2>2. Finished' = Finished
    BY <1>1, <2>1 DEF Finished
  <2>3. Len(plan[at'].writers) \in Nat
    BY <1>1, <2>1
  <2>. QED
    BY <1>1, <2>1, <2>2, <2>3 DEF LoopOK
<1>7. CASE PassOver \/ AddSection
  <2>1. /\ UNCHANGED loop /\ next' = next + 1 /\ busy /\ next < Len(plan[at].writers)
        /\ stage = "write" /\ stage' = "write"
    BY <1>7 DEF PassOver, AddSection, Task
  <2>. QED
    BY <1>1, <2>1 DEF LoopOK, Finished, loop
<1>8. CASE AddSymbols
  BY <1>8 DEF AddSymbols, LoopOK, Finished, loop
<1>9. CASE AddGroup
  <2>1. /\ UNCHANGED <<stage, plan, at, next, syms>> /\ busy' = FALSE /\ index' = index + 1
        /\ next = Len(plan[at].writers) /\ plan[at].kind = "instance" /\ busy /\ syms = <<>>
    BY <1>9 DEF AddGroup, Task, NextIndex, helper
  <2>2. at \in Nat \ {0}
    BY <1>1, <2>1 DEF LoopOK
  <2>3. index = Count(plan, at - 1) /\ Count(plan, at) = index + 1
    BY <1>1, <2>1, <2>2, SuffixIs DEF Finished, SuffixOf
  <2>4. Finished' = at
    BY <2>1 DEF Finished
  <2>5. index' = Count(plan', Finished')
    BY <2>1, <2>3, <2>4
  <2>. QED
    BY <1>1, <2>1, <2>2, <2>5 DEF LoopOK
<1>10. CASE EndOfCommon
  <2>1. /\ UNCHANGED <<stage, plan, at, next, syms, index>> /\ busy' = FALSE
        /\ next = Len(plan[at].writers) /\ plan[at].kind # "instance" /\ busy /\ syms = <<>>
    BY <1>10 DEF EndOfCommon, Task, helper
  <2>2. at \in Nat \ {0}
    BY <1>1, <2>1 DEF LoopOK
  <2>3. index = Count(plan, at - 1) /\ Count(plan, at) = index
    <3>. DEFINE n == at - 1
    <3>1. n \in Nat /\ n + 1 = at
      BY <2>2
    <3>2. Count(plan, n + 1) = Count(plan, n)
      BY <2>1, <3>1, CountIs
    <3>. QED
      BY <1>1, <2>1, <3>1, <3>2 DEF Finished
  <2>4. Finished' = at
    BY <2>1 DEF Finished
  <2>5. index' = Count(plan', Finished')
    BY <2>1, <2>3, <2>4
  <2>. QED
    BY <1>1, <2>1, <2>2, <2>5 DEF LoopOK
<1>11. CASE Finalize
  BY <1>11 DEF Finalize, LoopOK, Finished, loop, helper
<1>12. CASE Ended \/ UNCHANGED vars
  BY <1>12 DEF Ended, vars, LoopOK, Finished, loop, helper
<1>. QED
  BY <1>4, <1>5, <1>6, <1>7, <1>8, <1>9, <1>10, <1>11, <1>12 DEF Next

(***************************************************************************)
(* The sections.                                                           *)
(***************************************************************************)
(* A name with its suffix is that of one writer, unless it is that of two  *)
(* kernels' common data.                                                   *)
LEMMA NamesApart ==
  ASSUME NEW i, NEW m, NEW p, PlanOf(i, m, p), NEW s \in DOMAIN p, NEW t \in DOMAIN p,
         NEW v \in WrittenIn(p, s), NEW w \in WrittenIn(p, t),
         p[s].writers[v].name = p[t].writers[w].name, SuffixOf(p, s) = SuffixOf(p, t),
         p[t].kind # "kernel" \/ Distinct(m)
  PROVE  s = t /\ v = w
<1>1. IsSeq(p)
  BY DEF PlanOf
<1>2. s \in Nat \ {0} /\ t \in Nat \ {0} /\ DOMAIN p = 1 .. Len(p) /\ Len(p) \in Nat
  BY <1>1, SeqIs
<1>3. TaskOK(i, m, p[s]) /\ TaskOK(i, m, p[t])
  BY DEF PlanOf
<1>4. v \in DOMAIN p[s].writers /\ w \in DOMAIN p[t].writers
  BY DEF WrittenIn
<1>5. /\ p[s].kind = "instance" => SuffixOf(p, s) \in Nat
      /\ p[s].kind # "instance" => SuffixOf(p, s) = -1
      /\ p[t].kind = "instance" => SuffixOf(p, t) \in Nat
      /\ p[t].kind # "instance" => SuffixOf(p, t) = -1
  BY <1>2, SuffixIs
<1>6. s = t
  <2>1. CASE p[s].kind = "instance" /\ p[t].kind = "instance"
    BY <1>2, <2>1, SuffixesApart
  <2>2. CASE p[s].kind # "instance" /\ p[t].kind # "instance"
    <3>1. CASE p[t].kind = "code"
      <4>1. Len(p) <= 1
        BY <1>3, <3>1 DEF TaskOK, PlanOf
      <4>. QED
        BY <1>2, <4>1
    <3>2. CASE p[t].kind = "kernel"
      <4>1. p[s].kind = "kernel"
        BY <1>3, <2>2, <3>2 DEF TaskOK
      <4>2. /\ p[s].kernel \in DOMAIN m /\ p[t].kernel \in DOMAIN m
            /\ p[s].writers[v].name \in DOMAIN m[p[s].kernel].common
            /\ p[t].writers[w].name \in DOMAIN m[p[t].kernel].common
        BY <1>3, <1>4, <3>2, <4>1 DEF TaskOK
      <4>3. p[s].kernel = p[t].kernel
        BY <3>2, <4>2 DEF Distinct
      <4>. QED
        BY <3>2, <4>1, <4>3 DEF PlanOf
    <3>. QED
      BY <1>3, <2>2, <3>1, <3>2 DEF TaskOK
  <2>3. CASE ~ (p[s].kind = "instance" <=> p[t].kind = "instance")
    BY <1>5, <2>3
  <2>. QED
    BY <2>1, <2>2, <2>3
<1>7. WritersOK(p[t].writers)
  BY <1>3 DEF TaskOK
<1>8. v = w
  BY <1>4, <1>6, <1>7 DEF WritersOK
<1>. QED
  BY <1>6, <1>8

(* Find finds the section of a writer that is done.                        *)
LEMMA FindIs ==
  ASSUME NEW i, NEW m, NEW p, PlanOf(i, m, p), NEW a \in 0 .. Len(p), NEW n \in Nat, NEW all,
         SectionsOf(p, a, n, all), NEW t \in 1 .. a, NEW w \in DoneIn(p, a, n, t),
         p[t].kind # "kernel" \/ Distinct(m),
         NEW name, name = <<p[t].writers[w].name, SuffixOf(p, t)>>
  PROVE  Find(all, name) \in DOMAIN all /\ all[Find(all, name)].of = <<t, w>>
<1>. DEFINE Named1 == {k \in DOMAIN all : all[k].name = name}
<1>1. /\ IsSeq(p) /\ IsSeq(all)
      /\ \A k \in DOMAIN all : Special(all[k]) \/ FromWriter(p, a, n, all[k])
      /\ \A u \in 1 .. a : \A v \in DoneIn(p, a, n, u) : \E k \in DOMAIN all : all[k].of = <<u, v>>
  BY DEF SectionsOf, PlanOf
<1>2. /\ DOMAIN p = 1 .. Len(p) /\ Len(p) \in Nat /\ DOMAIN all = 1 .. Len(all) /\ Len(all) \in Nat
      /\ \A u \in 1 .. a : u \in DOMAIN p /\ u \in Nat \ {0}
  BY <1>1, SeqIs
<1>3. \A u \in 1 .. a : \A v \in DoneIn(p, a, n, u) : v \in WrittenIn(p, u)
  BY DEF DoneIn
<1>4. p[t].writers[w].name \notin Reserved
  <2>1. TaskOK(i, m, p[t])
    BY <1>2 DEF PlanOf
  <2>2. w \in DOMAIN p[t].writers
    BY <1>3 DEF WrittenIn
  <2>. QED
    BY <2>1, <2>2 DEF TaskOK, WritersOK
<1>5. ASSUME NEW k \in Named1
      PROVE  all[k].of = <<t, w>>
  <2>1. ~ Special(all[k])
    BY <1>4 DEF Special
  <2>2. FromWriter(p, a, n, all[k])
    BY <1>1, <2>1
  <2>3. PICK u \in 1 .. a : \E v \in DoneIn(p, a, n, u) :
          all[k].of = <<u, v>> /\ all[k].name = <<p[u].writers[v].name, SuffixOf(p, u)>>
    BY <2>2 DEF FromWriter
  <2>3a. PICK v \in DoneIn(p, a, n, u) :
           all[k].of = <<u, v>> /\ all[k].name = <<p[u].writers[v].name, SuffixOf(p, u)>>
    BY <2>3
  <2>4. p[u].writers[v].name = p[t].writers[w].name /\ SuffixOf(p, u) = SuffixOf(p, t)
    BY <2>3a
  <2>5. u = t /\ v = w
    BY <1>2, <1>3, <2>4, NamesApart
  <2>. QED
    BY <2>3a, <2>5
<1>6. \E k \in DOMAIN all : k \in Named1
  <2>1. PICK k \in DOMAIN all : all[k].of = <<t, w>>
    BY <1>1
  <2>2. ~ Special(all[k])
    BY <1>2, <2>1 DEF Special
  <2>3. FromWriter(p, a, n, all[k])
    BY <1>1, <2>2
  <2>4. PICK u \in 1 .. a : \E v \in DoneIn(p, a, n, u) :
          all[k].of = <<u, v>> /\ all[k].name = <<p[u].writers[v].name, SuffixOf(p, u)>>
    BY <2>3 DEF FromWriter
  <2>4a. PICK v \in DoneIn(p, a, n, u) :
           all[k].of = <<u, v>> /\ all[k].name = <<p[u].writers[v].name, SuffixOf(p, u)>>
    BY <2>4
  <2>5. u = t /\ v = w
    BY <2>1, <2>4a
  <2>6. all[k].name = name
    BY <2>4a, <2>5
  <2>. QED
    BY <2>6
<1>7. Named1 \subseteq Nat /\ Named1 # {}
  BY <1>2, <1>6
<1>8. Min(Named1) \in Named1
  BY <1>7, MinIs
<1>9. Find(all, name) = Min(Named1)
  BY DEF Find
<1>. QED
  BY <1>5, <1>8, <1>9

LEMMA SpecialAdded ==
  ASSUME NEW p, NEW a, NEW n, NEW all, NEW more, SectionsOf(p, a, n, all), IsSeq(more),
         Len(all) <= Len(more), \A k \in 1 .. Len(all) : more[k] = all[k],
         \A k \in Len(all) + 1 .. Len(more) : Special(more[k])
  PROVE  SectionsOf(p, a, n, more)
<1>1. /\ IsSeq(all)
      /\ \A k \in DOMAIN all : Special(all[k]) \/ FromWriter(p, a, n, all[k])
      /\ \A j \in DOMAIN all : \A k \in DOMAIN all :
           all[j].of = all[k].of /\ all[j].of # <<0, 0>> => j = k
      /\ \A t \in 1 .. a : \A w \in DoneIn(p, a, n, t) : \E k \in DOMAIN all : all[k].of = <<t, w>>
  BY DEF SectionsOf
<1>2. /\ DOMAIN all = 1 .. Len(all) /\ Len(all) \in Nat
      /\ DOMAIN more = 1 .. Len(more) /\ Len(more) \in Nat
  BY <1>1, SeqIs
<1>3. \A k \in DOMAIN more :
        IF k \in DOMAIN all THEN more[k] = all[k] ELSE Special(more[k])
  BY <1>2
<1>4. \A k \in DOMAIN more : Special(more[k]) \/ FromWriter(p, a, n, more[k])
  BY <1>1, <1>3
<1>5. \A k \in DOMAIN more : more[k].of # <<0, 0>> => k \in DOMAIN all /\ more[k] = all[k]
  BY <1>3 DEF Special
<1>6. \A j \in DOMAIN more : \A k \in DOMAIN more :
        more[j].of = more[k].of /\ more[j].of # <<0, 0>> => j = k
  BY <1>1, <1>5
<1>7. \A k \in DOMAIN all : k \in DOMAIN more /\ more[k] = all[k]
  BY <1>2
<1>8. ASSUME NEW t \in 1 .. a, NEW w \in DoneIn(p, a, n, t)
      PROVE  \E k \in DOMAIN more : more[k].of = <<t, w>>
  BY <1>1, <1>7
<1>. QED
  BY <1>4, <1>6, <1>8 DEF SectionsOf

LEMMA WriterAdded ==
  ASSUME NEW p, NEW a \in Nat \ {0}, NEW n \in Nat, NEW all, NEW x, SectionsOf(p, a, n, all),
         n + 1 \in WrittenIn(p, a), \A t \in 1 .. a : WrittenIn(p, t) \subseteq Nat,
         x.of = <<a, n + 1>>, x.name = <<p[a].writers[n + 1].name, SuffixOf(p, a)>>
  PROVE  SectionsOf(p, a, n + 1, Append(all, x))
<1>. DEFINE more == Append(all, x)
<1>1. /\ IsSeq(all)
      /\ \A k \in DOMAIN all : Special(all[k]) \/ FromWriter(p, a, n, all[k])
      /\ \A j \in DOMAIN all : \A k \in DOMAIN all :
           all[j].of = all[k].of /\ all[j].of # <<0, 0>> => j = k
      /\ \A t \in 1 .. a : \A w \in DoneIn(p, a, n, t) : \E k \in DOMAIN all : all[k].of = <<t, w>>
  BY DEF SectionsOf
<1>2. /\ DOMAIN all = 1 .. Len(all) /\ Len(all) \in Nat
      /\ IsSeq(more) /\ DOMAIN more = 1 .. Len(all) + 1
      /\ \A k \in 1 .. Len(all) : more[k] = all[k]
      /\ more[Len(all) + 1] = x
  BY <1>1, SeqIs, Appended
<1>. HIDE DEF more
<1>3. \A t \in 1 .. a : DoneIn(p, a, n, t) \subseteq DoneIn(p, a, n + 1, t)
  BY DEF DoneIn
<1>4. a \in 1 .. a /\ n + 1 \in DoneIn(p, a, n + 1, a)
  BY DEF DoneIn
<1>5. FromWriter(p, a, n + 1, x)
  BY <1>4 DEF FromWriter
<1>6. \A section : FromWriter(p, a, n, section) => FromWriter(p, a, n + 1, section)
  BY <1>3 DEF FromWriter
<1>7. \A k \in DOMAIN more :
        IF k \in DOMAIN all THEN more[k] = all[k] ELSE k = Len(all) + 1 /\ more[k] = x
  BY <1>2
<1>8. \A k \in DOMAIN more : Special(more[k]) \/ FromWriter(p, a, n + 1, more[k])
  BY <1>1, <1>5, <1>6, <1>7
<1>9. ASSUME NEW k \in DOMAIN all
      PROVE  all[k].of # x.of
  <2>1. CASE Special(all[k])
    BY <2>1 DEF Special
  <2>2. CASE FromWriter(p, a, n, all[k])
    <3>1. PICK t \in 1 .. a : \E w \in DoneIn(p, a, n, t) : all[k].of = <<t, w>>
      BY <2>2 DEF FromWriter
    <3>1a. PICK w \in DoneIn(p, a, n, t) : all[k].of = <<t, w>>
      BY <3>1
    <3>2. t = a => w <= n /\ w \in Nat
      BY DEF DoneIn
    <3>. QED
      BY <3>1a, <3>2
  <2>. QED
    BY <1>1, <2>1, <2>2
<1>10. ASSUME NEW j \in DOMAIN more, NEW k \in DOMAIN more, more[j].of = more[k].of, more[j].of # <<0, 0>>
       PROVE  j = k
  BY <1>1, <1>7, <1>9, <1>10
<1>11. ASSUME NEW t \in 1 .. a, NEW w \in DoneIn(p, a, n + 1, t)
       PROVE  \E k \in DOMAIN more : more[k].of = <<t, w>>
  <2>1. CASE w \in DoneIn(p, a, n, t)
    <3>1. PICK k \in DOMAIN all : all[k].of = <<t, w>>
      BY <1>1, <2>1
    <3>. QED
      BY <1>2, <3>1
  <2>2. CASE w \notin DoneIn(p, a, n, t)
    <3>1. t = a /\ w = n + 1
      BY <2>2 DEF DoneIn
    <3>2. Len(all) + 1 \in DOMAIN more /\ more[Len(all) + 1].of = <<t, w>>
      BY <1>2, <3>1
    <3>. QED
      BY <3>2
  <2>. QED
    BY <2>1, <2>2
<1>12. SectionsOf(p, a, n + 1, more)
  BY <1>2, <1>8, <1>10, <1>11 DEF SectionsOf
<1>. QED
  BY <1>12 DEF more

LEMMA SameDone ==
  ASSUME NEW p, NEW a, NEW n, NEW b, NEW c, NEW all, SectionsOf(p, a, n, all),
         \A t : \A w : (t \in 1 .. a /\ w \in DoneIn(p, a, n, t)) <=> (t \in 1 .. b /\ w \in DoneIn(p, b, c, t))
  PROVE  SectionsOf(p, b, c, all)
<1>1. \A section : FromWriter(p, a, n, section) <=> FromWriter(p, b, c, section)
  BY DEF FromWriter
<1>. QED
  BY <1>1 DEF SectionsOf

(* Sections of elf_writer's own are added, or none.                        *)
MoreSpecial(all, more) ==
  /\ IsSeq(more) /\ Len(all) <= Len(more)
  /\ \A k \in 1 .. Len(all) : more[k] = all[k]
  /\ \A k \in Len(all) + 1 .. Len(more) : Special(more[k])

LEMMA SpecialJoined ==
  ASSUME NEW all, IsSeq(all), NEW t, IsSeq(t), \A k \in DOMAIN t : Special(t[k])
  PROVE  MoreSpecial(all, all \o t)
<1>. DEFINE more == all \o t
<1>1. /\ Len(all) \in Nat /\ Len(t) \in Nat /\ DOMAIN t = 1 .. Len(t)
      /\ IsSeq(more) /\ Len(more) = Len(all) + Len(t)
      /\ \A i \in 1 .. Len(all) : more[i] = all[i]
      /\ \A i \in 1 .. Len(t) : more[Len(all) + i] = t[i]
  BY SeqIs, Joined
<1>. HIDE DEF more
<1>2. ASSUME NEW k \in Len(all) + 1 .. Len(more)
      PROVE  Special(more[k])
  <2>1. k - Len(all) \in 1 .. Len(t) /\ k = Len(all) + (k - Len(all))
    BY <1>1
  <2>2. more[k] = t[k - Len(all)]
    BY <1>1, <2>1
  <2>. QED
    BY <1>1, <2>1, <2>2
<1>3. MoreSpecial(all, more)
  BY <1>1, <1>2 DEF MoreSpecial
<1>. QED
  BY <1>3 DEF more

LEMMA SpecialAppended ==
  ASSUME NEW all, IsSeq(all), NEW x, Special(x)
  PROVE  MoreSpecial(all, Append(all, x))
<1>1. /\ IsSeq(Append(all, x)) /\ Len(Append(all, x)) = Len(all) + 1 /\ Len(all) \in Nat
      /\ \A i \in 1 .. Len(all) : Append(all, x)[i] = all[i]
      /\ Append(all, x)[Len(all) + 1] = x
  BY SeqIs, Appended
<1>2. \A k \in Len(all) + 1 .. Len(Append(all, x)) : k = Len(all) + 1
  BY <1>1
<1>. QED
  BY <1>1, <1>2 DEF MoreSpecial

LEMMA SpecialNone ==
  ASSUME NEW all, IsSeq(all)
  PROVE  MoreSpecial(all, all)
BY SeqIs DEF MoreSpecial

LEMMA SpecialStep ==
  ASSUME SectionsOK, [Next]_vars, ~ AddSection
  PROVE  MoreSpecial(sections, sections')
<1>1. IsSeq(sections)
  BY DEF SectionsOK, SectionsOf
<1>2. CASE UNCHANGED sections
  BY <1>1, <1>2, SpecialNone
<1>3. CASE StartElf
  <2>. DEFINE x == [name |-> <<".strtab", -1>>, of |-> <<0, 0>>]
              y == [name |-> <<".symtab", -1>>, of |-> <<0, 0>>]
  <2>1. sections' = sections \/ sections' = sections \o <<x, y>>
    BY <1>3 DEF StartElf
  <2>2. Special(x) /\ Special(y)
    BY DEF Special, Reserved
  <2>. HIDE DEF x, y
  <2>3. <<x, y>> \in Seq({x, y}) /\ \A k \in DOMAIN <<x, y>> : Special(<<x, y>>[k])
    BY <2>2
  <2>4. IsSeq(<<x, y>>)
    BY <2>3, SeqTyped
  <2>5. MoreSpecial(sections, sections \o <<x, y>>)
    BY <1>1, <2>3, <2>4, SpecialJoined
  <2>. QED
    BY <1>2, <2>1, <2>5
<1>4. CASE AddSymbols
  <2>. DEFINE x == [name |-> <<".dynstr", -1>>, of |-> <<0, 0>>]
              y == [name |-> <<".dynsym", -1>>, of |-> <<0, 0>>]
              z == [name |-> <<".rela.dyn", -1>>, of |-> <<0, 0>>]
  <2>1. sections' = sections \/ sections' = sections \o <<x, y, z>>
    BY <1>4 DEF AddSymbols
  <2>2. Special(x) /\ Special(y) /\ Special(z)
    BY DEF Special, Reserved
  <2>. HIDE DEF x, y, z
  <2>3. <<x, y, z>> \in Seq({x, y, z}) /\ \A k \in DOMAIN <<x, y, z>> : Special(<<x, y, z>>[k])
    BY <2>2
  <2>4. IsSeq(<<x, y, z>>)
    BY <2>3, SeqTyped
  <2>5. MoreSpecial(sections, sections \o <<x, y, z>>)
    BY <1>1, <2>3, <2>4, SpecialJoined
  <2>. QED
    BY <1>2, <2>1, <2>5
<1>5. CASE AddGroup
  <2>. DEFINE x == [name |-> <<".group", index>>, of |-> <<0, 0>>]
  <2>1. sections' = Append(sections, x)
    BY <1>5 DEF AddGroup
  <2>2. Special(x)
    BY DEF Special, Reserved
  <2>. QED
    BY <1>1, <2>1, <2>2, SpecialAppended
<1>6. CASE Finalize
  <2>. DEFINE x == [name |-> <<".dynamic", -1>>, of |-> <<0, 0>>]
  <2>1. sections' = sections \/ sections' = Append(sections, x)
    BY <1>6 DEF Finalize, AddDynamic
  <2>2. Special(x)
    BY DEF Special, Reserved
  <2>. QED
    BY <1>1, <1>2, <2>1, <2>2, SpecialAppended
<1>7. CASE ReadKernel \/ RejectPdis \/ EndOfConfig \/ EncodeNothing \/ EncodeKernel \/ EncodeInstance
           \/ RejectPartition \/ EncodeCode \/ Start \/ PassOver \/ EndOfCommon \/ Ended \/ UNCHANGED vars
  BY <1>2, <1>7 DEF ReadKernel, RejectPdis, EndOfConfig, EncodeNothing, EncodeKernel, EncodeInstance,
     RejectPartition, EncodeCode, Encode, Start, PassOver, EndOfCommon, Ended, vars, elf
<1>. QED
  BY <1>3, <1>4, <1>5, <1>6, <1>7 DEF Next

(* What the loop has done does not depend on where between tasks it is.    *)
LEMMA StartDone ==
  ASSUME PlanOK, LoopOK, Start, NEW t, NEW w
  PROVE  (t \in 1 .. at /\ w \in DoneIn(plan, at, next, t)) <=>
           (t \in 1 .. at' /\ w \in DoneIn(plan, at', next', t))
<1>1. /\ at' = at + 1 /\ next' = 0 /\ at \in Nat /\ at + 1 <= Len(plan) /\ Len(plan) \in Nat
      /\ (at > 0 => next = Len(plan[at].writers))
  BY TaskKnown DEF Start, LoopOK
<1>2. ASSUME t \in 1 .. at + 1, w \in WrittenIn(plan, t)
      PROVE  w \in 1 .. Len(plan[t].writers) /\ Len(plan[t].writers) \in Nat
  BY <1>1, <1>2, TaskKnown DEF WrittenIn
<1>3. ASSUME t \in 1 .. at, w \in DoneIn(plan, at, next, t)
      PROVE  t \in 1 .. at + 1 /\ w \in DoneIn(plan, at + 1, 0, t)
  BY <1>1, <1>3 DEF DoneIn
<1>4. ASSUME t \in 1 .. at + 1, w \in DoneIn(plan, at + 1, 0, t)
      PROVE  t \in 1 .. at /\ w \in DoneIn(plan, at, next, t)
  <2>1. w \in 1 .. Len(plan[t].writers) /\ Len(plan[t].writers) \in Nat
    BY <1>2, <1>4 DEF DoneIn
  <2>2. t # at + 1
    BY <1>1, <1>4, <2>1 DEF DoneIn
  <2>3. t \in 1 .. at /\ (t = at => next = Len(plan[t].writers))
    BY <1>1, <1>4, <2>2
  <2>. QED
    BY <1>4, <2>1, <2>3 DEF DoneIn
<1>. QED
  BY <1>1, <1>3, <1>4

LEMMA PassDone ==
  ASSUME PlanOK, LoopOK, PassOver, NEW t, NEW w
  PROVE  (t \in 1 .. at /\ w \in DoneIn(plan, at, next, t)) <=>
           (t \in 1 .. at' /\ w \in DoneIn(plan, at', next', t))
<1>1. /\ at' = at /\ next' = next + 1 /\ next \in Nat /\ at \in Nat
      /\ plan[at].writers[next + 1].size = 0
  BY TaskKnown DEF PassOver, LoopOK, loop, Writer, Task
<1>2. next + 1 \notin WrittenIn(plan, at)
  BY <1>1 DEF WrittenIn
<1>3. t \in 1 .. at /\ w \in WrittenIn(plan, t) => w \in Nat
  BY TaskKnown DEF WrittenIn, LoopOK
<1>. QED
  BY <1>1, <1>2, <1>3 DEF DoneIn

LEMMA AddSectionIs ==
  ASSUME PlanOK, LoopOK, AddSection
  PROVE  /\ at \in Nat \ {0} /\ at <= Len(plan) /\ next \in Nat /\ next + 1 \in WrittenIn(plan, at)
         /\ sections' = Append(sections, [name |-> <<plan[at].writers[next + 1].name, SuffixOf(plan, at)>>,
                                          of |-> <<at, next + 1>>])
         /\ at' = at /\ next' = next + 1 /\ plan' = plan /\ input' = input /\ kernel_map' = kernel_map
         /\ busy /\ Suffix = SuffixOf(plan, at)
         /\ \A t \in 1 .. at : WrittenIn(plan, t) \subseteq Nat
<1>1. /\ at' = at /\ plan' = plan /\ next' = next + 1 /\ busy /\ next < Len(plan[at].writers)
      /\ plan[at].writers[next + 1].size > 0 /\ input' = input /\ kernel_map' = kernel_map
      /\ sections' = Append(sections, [name |-> <<plan[at].writers[next + 1].name, Suffix>>,
                                       of |-> <<at, next + 1>>])
  BY DEF AddSection, loop, config, Writer, Task
<1>2. at \in Nat \ {0} /\ at <= Len(plan) /\ next \in Nat /\ index = Count(plan, at - 1) /\ Len(plan) \in Nat
  BY <1>1, TaskKnown DEF LoopOK, Finished
<1>3. next + 1 \in WrittenIn(plan, at)
  BY <1>1, <1>2, TaskKnown DEF WrittenIn
<1>4. Suffix = SuffixOf(plan, at)
  BY <1>2 DEF Suffix, SuffixOf, Task
<1>5. \A t \in 1 .. at : WrittenIn(plan, t) \subseteq Nat
  BY <1>2, TaskKnown DEF WrittenIn
<1>. QED
  BY <1>1, <1>2, <1>3, <1>4, <1>5

LEMMA InitSections == Init => SectionsOK
<1>. SUFFICES ASSUME Init PROVE SectionsOK
  OBVIOUS
<1>. DEFINE x == [name |-> <<".shstrtab", -1>>, of |-> <<0, 0>>]
<1>1. sections = <<x>> /\ at = 0
  BY DEF Init, Fresh
<1>2. Special(x)
  BY DEF Special, Reserved
<1>. HIDE DEF x
<1>3. <<x>> \in Seq({x}) /\ \A k \in DOMAIN <<x>> : Special(<<x>>[k])
  BY <1>2
<1>4. IsSeq(<<x>>)
  BY <1>3, SeqTyped
<1>. QED
  BY <1>1, <1>3, <1>4 DEF SectionsOK, SectionsOf, Special

LEMMA SectionsInvariant ==
  ASSUME PlanOK, LoopOK, SectionsOK, [Next]_vars
  PROVE  SectionsOK'
<1>1. CASE AddSection
  <2>. DEFINE x == [name |-> <<plan[at].writers[next + 1].name, SuffixOf(plan, at)>>,
                    of |-> <<at, next + 1>>]
  <2>1. /\ at \in Nat \ {0} /\ next \in Nat /\ next + 1 \in WrittenIn(plan, at)
        /\ \A t \in 1 .. at : WrittenIn(plan, t) \subseteq Nat
        /\ sections' = Append(sections, x) /\ at' = at /\ next' = next + 1 /\ plan' = plan
    BY <1>1, AddSectionIs
  <2>2. /\ x.of = <<at, next + 1>>
        /\ x.name = <<plan[at].writers[next + 1].name, SuffixOf(plan, at)>>
    OBVIOUS
  <2>. HIDE DEF x
  <2>3. SectionsOf(plan, at, next + 1, Append(sections, x))
    BY <2>1, <2>2, WriterAdded DEF SectionsOK
  <2>. QED
    BY <2>1, <2>3 DEF SectionsOK
<1>2. ASSUME ~ AddSection
      PROVE  SectionsOf(plan, at, next, sections')
  <2>1. MoreSpecial(sections, sections')
    BY <1>2, SpecialStep
  <2>. QED
    BY <2>1, SpecialAdded DEF SectionsOK, MoreSpecial
<1>3. CASE ~ AddSection /\ UNCHANGED <<plan, at, next>>
  BY <1>2, <1>3 DEF SectionsOK
<1>4. CASE Start \/ PassOver
  <2>1. /\ ~ AddSection /\ plan' = plan
        /\ \A t : \A w : (t \in 1 .. at /\ w \in DoneIn(plan, at, next, t)) <=>
                           (t \in 1 .. at' /\ w \in DoneIn(plan, at', next', t))
    <3>1. plan' = plan /\ ~ AddSection
      BY <1>4 DEF Start, PassOver, AddSection, loop
    <3>. QED
      BY <1>4, <3>1, StartDone, PassDone
  <2>2. SectionsOf(plan, at', next', sections')
    BY <1>2, <2>1, SameDone
  <2>. QED
    BY <2>1, <2>2 DEF SectionsOK
<1>5. CASE EncodeKernel \/ EncodeInstance \/ EncodeCode
  <2>1. at = 0 /\ at' = at /\ next' = next /\ sections' = sections
    BY <1>5 DEF EncodeKernel, EncodeInstance, EncodeCode, Encoding, Encode, LoopOK, helper, elf
  <2>2. /\ IsSeq(sections) /\ \A k \in DOMAIN sections : Special(sections[k])
    BY <2>1 DEF SectionsOK, SectionsOf, FromWriter
  <2>3. SectionsOf(plan', at', next', sections')
    BY <2>1, <2>2 DEF SectionsOf, Special
  <2>. QED
    BY <2>3 DEF SectionsOK
<1>6. CASE \/ ReadKernel \/ RejectPdis \/ EndOfConfig \/ EncodeNothing \/ RejectPartition \/ StartElf
           \/ AddSymbols \/ AddGroup \/ EndOfCommon \/ Finalize \/ Ended \/ UNCHANGED vars
  <2>1. UNCHANGED <<plan, at, next>>
    BY <1>6 DEF ReadKernel, RejectPdis, EndOfConfig, EncodeNothing, RejectPartition, StartElf,
       AddSymbols, AddGroup, EndOfCommon, Finalize, Ended, vars, loop, helper
  <2>2. CASE AddSection
    BY <1>1, <2>2
  <2>. QED
    BY <1>3, <2>1, <2>2
<1>. QED
  BY <1>1, <1>4, <1>5, <1>6 DEF Next

(***************************************************************************)
(* The sections that have code, and those of one task.                     *)
(***************************************************************************)
LEMMA CodeKept ==
  ASSUME NEW all, IsSeq(all), NEW more, MoreSpecial(all, more)
  PROVE  Code(more) = Code(all) /\ \A t : MadeFor(more, t) = MadeFor(all, t)
<1>1. /\ DOMAIN all = 1 .. Len(all) /\ Len(all) \in Nat
      /\ DOMAIN more = 1 .. Len(more) /\ Len(more) \in Nat
  BY SeqIs DEF MoreSpecial
<1>2. \A k \in DOMAIN all : k \in DOMAIN more /\ more[k] = all[k]
  BY <1>1 DEF MoreSpecial
<1>3. \A k \in DOMAIN more : k \in DOMAIN all \/ more[k].of = <<0, 0>>
  BY <1>1 DEF MoreSpecial, Special
<1>. QED
  BY <1>2, <1>3 DEF Code, MadeFor

LEMMA CodeAdded ==
  ASSUME NEW all, NEW more, NEW m, m \notin DOMAIN all, DOMAIN more = DOMAIN all \cup {m},
         \A k \in DOMAIN all : more[k] = all[k],
         NEW a, more[m].of # <<0, 0>>, more[m].of[1] = a
  PROVE  /\ Code(more) = Code(all) \cup {m} /\ m \notin Code(all)
         /\ MadeFor(more, a) = MadeFor(all, a) \cup {m} /\ m \notin MadeFor(all, a)
         /\ \A t : t # a => MadeFor(more, t) = MadeFor(all, t)
<1>1. Code(more) = Code(all) \cup {m} /\ m \notin Code(all)
  BY DEF Code
<1>2. MadeFor(more, a) = MadeFor(all, a) \cup {m} /\ m \notin MadeFor(all, a)
  BY DEF MadeFor
<1>3. \A t : t # a => MadeFor(more, t) = MadeFor(all, t)
  BY DEF MadeFor
<1>. QED
  BY <1>1, <1>2, <1>3

LEMMA SectionAdded ==
  ASSUME PlanOK, LoopOK, SectionsOK, AddSection, NEW m, m = Len(sections) + 1
  PROVE  /\ Len(sections') = m /\ m \in DOMAIN sections'
         /\ sections'[m].of = <<at, next + 1>> /\ <<at, next + 1>> # <<0, 0>>
         /\ \A k \in DOMAIN sections : k \in DOMAIN sections' /\ sections'[k] = sections[k]
         /\ Code(sections') = Code(sections) \cup {m} /\ m \notin Code(sections)
         /\ MadeFor(sections', at) = MadeFor(sections, at) \cup {m} /\ m \notin MadeFor(sections, at)
         /\ \A t : t # at => MadeFor(sections', t) = MadeFor(sections, t)
<1>. DEFINE x == [name |-> <<plan[at].writers[next + 1].name, SuffixOf(plan, at)>>,
                  of |-> <<at, next + 1>>]
<1>1. /\ at \in Nat \ {0} /\ sections' = Append(sections, x)
      /\ x.of = <<at, next + 1>> /\ x.of # <<0, 0>> /\ x.of[1] = at
  BY AddSectionIs
<1>. HIDE DEF x
<1>2. IsSeq(sections)
  BY DEF SectionsOK, SectionsOf
<1>3. /\ DOMAIN sections = 1 .. Len(sections) /\ Len(sections) \in Nat
      /\ DOMAIN sections' = 1 .. Len(sections) + 1 /\ Len(sections') = Len(sections) + 1
      /\ \A i \in 1 .. Len(sections) : sections'[i] = sections[i]
      /\ sections'[Len(sections) + 1] = x
  BY <1>1, <1>2, SeqIs, Appended
<1>4. /\ m \notin DOMAIN sections /\ DOMAIN sections' = DOMAIN sections \cup {m}
      /\ \A k \in DOMAIN sections : sections'[k] = sections[k]
      /\ sections'[m] = x
  BY <1>3
<1>5. sections'[m].of # <<0, 0>> /\ sections'[m].of[1] = at
  BY <1>1, <1>4
<1>6. /\ Code(sections') = Code(sections) \cup {m} /\ m \notin Code(sections)
      /\ MadeFor(sections', at) = MadeFor(sections, at) \cup {m} /\ m \notin MadeFor(sections, at)
      /\ \A t : t # at => MadeFor(sections', t) = MadeFor(sections, t)
  BY <1>4, <1>5, CodeAdded
<1>. QED
  BY <1>1, <1>3, <1>4, <1>6

(* No code is there before the first task, and none for tasks to come.     *)
LEMMA NoneYet ==
  ASSUME NEW p, NEW a \in Nat, NEW n, NEW all, SectionsOf(p, a, n, all)
  PROVE  /\ a = 0 => Code(all) = {}
         /\ MadeFor(all, a + 1) = {} /\ MadeFor(all, 0) = {}
<1>1. ASSUME NEW k \in DOMAIN all, all[k].of # <<0, 0>>
      PROVE  all[k].of[1] \in 1 .. a
  <2>1. FromWriter(p, a, n, all[k])
    BY <1>1 DEF SectionsOf, Special
  <2>2. PICK t \in 1 .. a : \E w \in DoneIn(p, a, n, t) : all[k].of = <<t, w>>
    BY <2>1 DEF FromWriter
  <2>. QED
    BY <2>2
<1>2. 0 \notin 1 .. a /\ a + 1 \notin 1 .. a /\ (a = 0 => 1 .. a = {})
  OBVIOUS
<1>3. \A k \in DOMAIN all : all[k].of = <<0, 0>> \/ all[k].of[1] \in 1 .. a
  BY <1>1
<1>4. a = 0 => Code(all) = {}
  BY <1>2, <1>3 DEF Code
<1>5. MadeFor(all, a + 1) = {}
  BY <1>2, <1>3 DEF MadeFor
<1>6. MadeFor(all, 0) = {}
  BY <1>2, <1>3 DEF MadeFor
<1>. QED
  BY <1>4, <1>5, <1>6

(***************************************************************************)
(* The load segments.                                                      *)
(***************************************************************************)
LEMMA LoadNotAdded ==
  ASSUME NEW segs, IsSeq(segs), NEW x, x.type # "load"
  PROVE  /\ IsSeq(Append(segs, x)) /\ LoadsOf(Append(segs, x)) = LoadsOf(segs)
         /\ \A all : LoadsRight(all, segs) => LoadsRight(all, Append(segs, x))
<1>. DEFINE more == Append(segs, x)
<1>1. /\ DOMAIN segs = 1 .. Len(segs) /\ Len(segs) \in Nat
      /\ IsSeq(more) /\ DOMAIN more = 1 .. Len(segs) + 1
      /\ \A k \in 1 .. Len(segs) : more[k] = segs[k]
      /\ more[Len(segs) + 1] = x
  BY SeqIs, Appended
<1>. HIDE DEF more
<1>2. DOMAIN more = DOMAIN segs \cup {Len(segs) + 1} /\ \A k \in DOMAIN segs : more[k] = segs[k]
  BY <1>1
<1>3. LoadsOf(more) = LoadsOf(segs)
  BY <1>1, <1>2 DEF LoadsOf
<1>4. \A k \in LoadsOf(segs) : more[k] = segs[k]
  BY <1>2 DEF LoadsOf
<1>5. \A all : LoadsRight(all, segs) => LoadsRight(all, more)
  BY <1>3, <1>4 DEF LoadsRight
<1>. QED
  BY <1>1, <1>3, <1>5 DEF more

LEMMA LoadAdded ==
  ASSUME NEW all, NEW segs, IsSeq(segs), LoadsRight(all, segs), NEW more,
         NEW n, n \notin Code(all), Code(more) = Code(all) \cup {n},
         NEW x, x.type = "load", x.section = n
  PROVE  LoadsRight(more, Append(segs, x))
<1>. DEFINE with == Append(segs, x)
            m == Len(segs) + 1
<1>1. /\ DOMAIN segs = 1 .. Len(segs) /\ Len(segs) \in Nat
      /\ IsSeq(with) /\ DOMAIN with = 1 .. Len(segs) + 1
      /\ \A k \in 1 .. Len(segs) : with[k] = segs[k]
      /\ with[Len(segs) + 1] = x
  BY SeqIs, Appended
<1>. HIDE DEF with
<1>2. DOMAIN with = DOMAIN segs \cup {m} /\ m \notin DOMAIN segs /\ \A k \in DOMAIN segs : with[k] = segs[k]
  BY <1>1
<1>3. with[m] = x
  BY <1>1
<1>. HIDE DEF m
<1>4. LoadsOf(with) = LoadsOf(segs) \cup {m}
  BY <1>2, <1>3 DEF LoadsOf
<1>5. \A k \in LoadsOf(segs) : with[k] = segs[k] /\ segs[k].section \in Code(all)
  BY <1>2 DEF LoadsOf, LoadsRight
<1>6. \A k \in LoadsOf(with) : with[k].section \in Code(more)
  BY <1>3, <1>4, <1>5
<1>7. \A s \in Code(more) : \E k \in LoadsOf(with) : with[k].section = s
  BY <1>3, <1>4, <1>5 DEF LoadsRight
<1>8. ASSUME NEW j \in LoadsOf(with), NEW k \in LoadsOf(with), with[j].section = with[k].section
      PROVE  j = k
  BY <1>3, <1>4, <1>5, <1>8 DEF LoadsRight
<1>9. LoadsRight(more, with)
  BY <1>6, <1>7, <1>8 DEF LoadsRight
<1>. QED
  BY <1>9 DEF with

LEMMA InitLoads == Init => LoadsOK
<1>. SUFFICES ASSUME Init PROVE LoadsOK
  OBVIOUS
<1>. DEFINE x == [type |-> "phdr", section |-> 0]
<1>1. segments = <<x>> /\ at = 0
  BY DEF Init, Fresh
<1>2. x.type # "load"
  OBVIOUS
<1>. HIDE DEF x
<1>3. <<x>> \in Seq({x}) /\ \A k \in DOMAIN <<x>> : <<x>>[k] = x
  OBVIOUS
<1>4. IsSeq(<<x>>)
  BY <1>3, SeqTyped
<1>5. LoadsOf(segments) = {}
  BY <1>1, <1>2, <1>3 DEF LoadsOf
<1>6. Code(sections) = {}
  BY <1>1, InitSections, NoneYet DEF SectionsOK
<1>7. LoadsRight(sections, segments)
  BY <1>5, <1>6 DEF LoadsRight
<1>. QED
  BY <1>1, <1>4, <1>5, <1>7 DEF LoadsOK

LEMMA LoadsInvariant ==
  ASSUME PlanOK, LoopOK, SectionsOK, LoadsOK, [Next]_vars
  PROVE  LoadsOK'
<1>1. IsSeq(sections) /\ IsSeq(segments) /\ at \in Nat
  <2>1. Len(plan) \in Nat
    BY TaskKnown
  <2>2. at \in Nat
    BY <2>1 DEF LoopOK
  <2>. QED
    BY <2>2 DEF SectionsOK, SectionsOf, LoadsOK
<1>2. CASE AddSection
  <2>. DEFINE name == <<plan[at].writers[next + 1].name, SuffixOf(plan, at)>>
              m == Len(sections) + 1
              n == Find(sections', name)
              s == [type |-> "load", section |-> n]
  <2>1. /\ at \in Nat \ {0} /\ at <= Len(plan) /\ next \in Nat /\ next + 1 \in WrittenIn(plan, at)
        /\ at' = at /\ next' = next + 1 /\ plan' = plan
        /\ kernel_map' = kernel_map /\ Suffix = SuffixOf(plan, at)
    BY <1>2, AddSectionIs
  <2>2. segments' = Append(segments, s)
    BY <1>2, <2>1 DEF AddSection, Writer, Task
  <2>3. s.type = "load" /\ s.section = n
    OBVIOUS
  <2>4. PlanOf(input, kernel_map, plan) /\ SectionsOf(plan, at, next + 1, sections')
    BY <2>1, SectionsInvariant DEF SectionsOK, PlanOK
  <2>5. at \in 0 .. Len(plan) /\ at \in 1 .. at /\ next + 1 \in DoneIn(plan, at, next + 1, at) /\ next + 1 \in Nat
    BY <2>1, TaskKnown DEF DoneIn
  <2>. HIDE DEF s, m, n, name
  <2>6. /\ m \in DOMAIN sections' /\ sections'[m].of = <<at, next + 1>> /\ <<at, next + 1>> # <<0, 0>>
        /\ Code(sections') = Code(sections) \cup {m} /\ m \notin Code(sections)
    BY <1>2, SectionAdded DEF m
  <2>7. ASSUME Distinct(kernel_map)
        PROVE  LoadsRight(sections', segments')
    <3>1. n \in DOMAIN sections' /\ sections'[n].of = <<at, next + 1>>
      <4>1. Find(sections', name) \in DOMAIN sections'
            /\ sections'[Find(sections', name)].of = <<at, next + 1>>
        BY <2>4, <2>5, <2>7, FindIs DEF name
      <4>. QED
        BY <4>1 DEF n
    <3>2. \A j \in DOMAIN sections' : \A k \in DOMAIN sections' :
            sections'[j].of = sections'[k].of /\ sections'[j].of # <<0, 0>> => j = k
      BY <2>4 DEF SectionsOf
    <3>3. n = m
      BY <2>6, <3>1, <3>2
    <3>4. LoadsRight(sections, segments)
      BY <2>7 DEF LoadsOK
    <3>5. LoadsRight(sections', Append(segments, s))
      BY <1>1, <2>3, <2>6, <3>3, <3>4, LoadAdded
    <3>. QED
      BY <2>2, <3>5
  <2>8. IsSeq(segments')
    BY <1>1, <2>2, Appended
  <2>. QED
    BY <2>1, <2>7, <2>8 DEF LoadsOK
<1>3. CASE ReadKernel
  <2>1. at = 0 /\ UNCHANGED <<at, sections, segments>>
    BY <1>3 DEF ReadKernel, Reading, LoopOK, loop, elf
  <2>2. Code(sections) = {} /\ LoadsOf(segments) = {}
    BY <2>1, NoneYet DEF SectionsOK, LoadsOK
  <2>. QED
    BY <2>1, <2>2 DEF LoadsOK, LoadsRight
<1>4. ASSUME ~ AddSection, kernel_map' = kernel_map, at' = 0 => at = 0,
             \/ segments' = segments
             \/ \E x : segments' = Append(segments, x) /\ x.type # "load"
      PROVE  LoadsOK'
  <2>1. Code(sections') = Code(sections)
    BY <1>1, <1>4, SpecialStep, CodeKept
  <2>2. /\ IsSeq(segments') /\ LoadsOf(segments') = LoadsOf(segments)
        /\ LoadsRight(sections, segments) => LoadsRight(sections, segments')
    BY <1>1, <1>4, LoadNotAdded
  <2>3. LoadsRight(sections, segments) => LoadsRight(sections', segments')
    BY <2>1, <2>2 DEF LoadsRight
  <2>. QED
    BY <1>4, <2>2, <2>3 DEF LoadsOK
<1>5. CASE Finalize
  <2>. DEFINE x == [type |-> "dynamic", section |-> Len(sections) + 1]
  <2>1. segments' = segments \/ segments' = Append(segments, x)
    BY <1>5 DEF Finalize, AddDynamic
  <2>2. x.type # "load"
    OBVIOUS
  <2>3. kernel_map' = kernel_map /\ at' = at /\ ~ AddSection
    BY <1>5 DEF Finalize, AddSection, config, loop
  <2>. QED
    BY <1>4, <2>1, <2>2, <2>3
<1>6. CASE Start
  BY <1>1, <1>4, <1>6 DEF Start, AddSection, config
<1>7. CASE PassOver \/ AddSymbols \/ AddGroup \/ EndOfCommon
  <2>1. UNCHANGED <<kernel_map, at, segments>>
    BY <1>7 DEF PassOver, AddSymbols, AddGroup, EndOfCommon, config, loop, elf
  <2>2. CASE AddSection
    BY <1>2, <2>2
  <2>. QED
    BY <1>4, <2>1, <2>2
<1>8. CASE RejectPdis \/ EndOfConfig \/ EncodeNothing \/ EncodeKernel \/ EncodeInstance \/ RejectPartition
           \/ EncodeCode \/ StartElf \/ Ended \/ UNCHANGED vars
  <2>1. UNCHANGED <<kernel_map, at, segments>>
    BY <1>8 DEF RejectPdis, EndOfConfig, EncodeNothing, EncodeKernel, EncodeInstance, RejectPartition,
       EncodeCode, Encode, StartElf, Ended, vars, config, loop, elf
  <2>2. CASE AddSection
    BY <1>2, <2>2
  <2>. QED
    BY <1>4, <2>1, <2>2
<1>. QED
  BY <1>2, <1>3, <1>5, <1>6, <1>7, <1>8 DEF Next

(***************************************************************************)
(* The symbols of kernels and instances.                                   *)
(***************************************************************************)
Longer(s, t) == IsSeq(t) /\ DOMAIN s \subseteq DOMAIN t /\ \A k \in DOMAIN s : t[k] = s[k]

LEMMA NamesKept ==
  ASSUME NEW table, NEW more, Longer(table, more), NEW n, NEW task, NamesTask(table, n, task)
  PROVE  NamesTask(more, n, task)
<1>1. n \in DOMAIN table /\ table[n].section \in DOMAIN table
  BY DEF NamesTask
<1>2. /\ n \in DOMAIN more /\ more[n] = table[n] /\ table[n].section \in DOMAIN more
      /\ more[table[n].section] = table[table[n].section]
  BY <1>1 DEF Longer
<1>. QED
  BY <1>2 DEF NamesTask

LEMMA SymbolsGrow ==
  ASSUME PlanOK, LoopOK, SymtabOK, [Next]_vars
  PROVE  Longer(symtab, symtab')
<1>1. IsSeq(symtab)
  BY DEF SymtabOK
<1>2. CASE symtab' = symtab
  BY <1>1, <1>2 DEF Longer
<1>3. ASSUME NEW x, symtab' = Append(symtab, x)
      PROVE  Longer(symtab, symtab')
  <2>1. /\ IsSeq(symtab') /\ DOMAIN symtab' = 1 .. Len(symtab) + 1
        /\ DOMAIN symtab = 1 .. Len(symtab) /\ Len(symtab) \in Nat
        /\ \A k \in 1 .. Len(symtab) : symtab'[k] = symtab[k]
    BY <1>1, <1>3, SeqIs, Appended
  <2>. QED
    BY <2>1 DEF Longer
<1>4. CASE Start
  <2>. DEFINE task == plan[at + 1]
  <2>1. at + 1 \in 1 .. Len(plan)
    BY <1>4, TaskKnown DEF Start, LoopOK
  <2>2. task.kind \in {"kernel", "instance", "code"}
    <3>1. TaskOK(input, kernel_map, task)
      BY <2>1, TaskKnown
    <3>. QED
      BY <3>1 DEF TaskOK
  <2>3. symtab' = CASE task.kind = "code" -> symtab
                    [] task.kind = "kernel" ->
                         Append(symtab, [kind |-> "kernel", name |-> task.id, section |-> 0])
                    [] task.kind = "instance" ->
                         Append(symtab, [kind |-> "instance", name |-> task.id,
                                         section |-> SymbolOf(task.kernel)])
    BY <1>4 DEF Start
  <2>. HIDE DEF task
  <2>4. symtab' = symtab \/ \E x : symtab' = Append(symtab, x)
    BY <2>2, <2>3
  <2>. QED
    BY <1>2, <1>3, <2>4
<1>5. CASE ReadKernel \/ RejectPdis \/ EndOfConfig \/ EncodeNothing \/ EncodeKernel \/ EncodeInstance
           \/ RejectPartition \/ EncodeCode \/ StartElf
  BY <1>2, <1>5 DEF ReadKernel, RejectPdis, EndOfConfig, EncodeNothing, EncodeKernel, EncodeInstance,
     RejectPartition, EncodeCode, Encode, StartElf, elf
<1>6. CASE PassOver \/ AddSection \/ AddSymbols \/ AddGroup \/ EndOfCommon \/ Finalize \/ Ended
           \/ UNCHANGED vars
  BY <1>2, <1>6 DEF PassOver, AddSection, AddSymbols, AddGroup, EndOfCommon, Finalize, Ended, vars, elf
<1>. QED
  BY <1>4, <1>5, <1>6 DEF Next

LEMMA InitSymtab == Init => SymtabOK
<1>. SUFFICES ASSUME Init PROVE SymtabOK
  OBVIOUS
<1>1. symtab = <<>> /\ at = 0 /\ busy = FALSE
  BY DEF Init, Fresh
<1>2. ~ busy
  BY <1>1, Zenon
<1>. QED
  BY <1>1, <1>2, NoSeq DEF SymtabOK

(* What one step does to the loop, seen from the tasks.                    *)
LEMMA LoopStep ==
  ASSUME PlanOK, LoopOK, [Next]_vars
  PROVE  \/ Start
         \/ at' = 0 /\ at = 0 /\ busy' = busy
         \/ at' = at /\ plan' = plan /\ (busy' = busy \/ busy' = FALSE)
<1>1. CASE EncodeKernel \/ EncodeInstance \/ EncodeCode
  BY <1>1 DEF EncodeKernel, EncodeInstance, EncodeCode, Encoding, Encode, LoopOK
<1>2. CASE ReadKernel \/ RejectPdis \/ EndOfConfig \/ EncodeNothing \/ RejectPartition \/ StartElf
  BY <1>2 DEF ReadKernel, RejectPdis, EndOfConfig, EncodeNothing, RejectPartition, StartElf, loop
<1>3. CASE PassOver \/ AddSection \/ AddSymbols \/ AddGroup \/ EndOfCommon \/ Finalize
  BY <1>3 DEF PassOver, AddSection, AddSymbols, AddGroup, EndOfCommon, Finalize, loop
<1>4. CASE Ended \/ UNCHANGED vars
  BY <1>4 DEF Ended, vars, loop
<1>. QED
  BY <1>1, <1>2, <1>3, <1>4 DEF Next

LEMMA StartSymbols ==
  ASSUME PlanOK, LoopOK, SymtabOK, Start
  PROVE  SymtabOK'
<1>. DEFINE t == at + 1
            task == plan[t]
<1>1. /\ at' = t /\ plan' = plan /\ busy' = TRUE /\ at \in Nat /\ t \in 1 .. Len(plan) /\ t \in DOMAIN plan
      /\ IsSeq(symtab)
  BY TaskKnown DEF Start, LoopOK, SymtabOK
<1>2. PlanOf(input, kernel_map, plan)
  BY DEF PlanOK
<1>3. TaskOK(input, kernel_map, task) /\ Preceded(plan, t)
  BY <1>1, <1>2 DEF PlanOf
<1>4. \A s \in 1 .. t - 1 : s \in 1 .. at
  BY <1>1
<1>5. \A s \in 1 .. t : s \in 1 .. at \/ s = t
  BY <1>1
<1>6. \A s \in 1 .. at : plan[s].kind = "kernel" =>
        \E k \in DOMAIN symtab : symtab[k].name = plan[s].kernel /\ symtab[k].kind = "kernel"
  BY DEF SymtabOK
<1>7. symtab' = CASE task.kind = "code" -> symtab
                  [] task.kind = "kernel" ->
                       Append(symtab, [kind |-> "kernel", name |-> task.id, section |-> 0])
                  [] task.kind = "instance" ->
                       Append(symtab, [kind |-> "instance", name |-> task.id,
                                       section |-> SymbolOf(task.kernel)])
  BY DEF Start
<1>8. Longer(symtab, symtab')
  <2>1. [Next]_vars
    BY DEF Next
  <2>. QED
    BY <2>1, SymbolsGrow
<1>9. t \in Nat \ {0}
  BY <1>1
<1>. HIDE DEF t, task
<1>10. ASSUME NEW s \in 1 .. at, plan[s].kind = "kernel"
       PROVE  \E k \in DOMAIN symtab' : symtab'[k].name = plan[s].kernel /\ symtab'[k].kind = "kernel"
  <2>1. PICK k \in DOMAIN symtab : symtab[k].name = plan[s].kernel /\ symtab[k].kind = "kernel"
    BY <1>6, <1>10
  <2>. QED
    BY <1>8, <2>1 DEF Longer
<1>11. ASSUME NEW x, symtab' = Append(symtab, x)
       PROVE  /\ Len(symtab') \in DOMAIN symtab' /\ symtab'[Len(symtab')] = x
              /\ \A k \in DOMAIN symtab : k \in DOMAIN symtab' /\ symtab'[k] = symtab[k]
  <2>1. /\ Len(symtab) \in Nat /\ Len(Append(symtab, x)) = Len(symtab) + 1
        /\ DOMAIN Append(symtab, x) = 1 .. Len(symtab) + 1
        /\ Append(symtab, x)[Len(symtab) + 1] = x
    BY <1>1, SeqIs, Appended
  <2>2. Len(symtab') = Len(symtab) + 1 /\ Len(symtab) + 1 \in DOMAIN symtab'
        /\ symtab'[Len(symtab) + 1] = x
    BY <1>11, <2>1
  <2>. QED
    BY <1>8, <2>2 DEF Longer
<1>12. CASE task.kind = "code"
  <2>1. plan[t].kind = "code"
    BY <1>12 DEF task
  <2>. QED
    BY <1>1, <1>5, <1>8, <1>10, <2>1 DEF SymtabOK, Longer
<1>13. CASE task.kind = "kernel"
  <2>. DEFINE x == [kind |-> "kernel", name |-> task.id, section |-> 0]
  <2>1. symtab' = Append(symtab, x)
    BY <1>7, <1>13
  <2>2. x.kind = "kernel" /\ x.name = task.kernel
    BY <1>3, <1>13 DEF TaskOK
  <2>. HIDE DEF x
  <2>3. Len(symtab') \in DOMAIN symtab' /\ symtab'[Len(symtab')] = x
    BY <1>11, <2>1
  <2>4. plan[t].kind = "kernel" /\ plan[t].kernel = task.kernel
    BY <1>13 DEF task
  <2>5. ASSUME NEW s \in 1 .. t, plan[s].kind = "kernel"
        PROVE  \E k \in DOMAIN symtab' : symtab'[k].name = plan[s].kernel /\ symtab'[k].kind = "kernel"
    BY <1>5, <1>10, <2>2, <2>3, <2>4, <2>5
  <2>. QED
    BY <1>1, <1>8, <2>4, <2>5 DEF SymtabOK, Longer
<1>14. CASE task.kind = "instance"
  <2>. DEFINE c == SymbolOf(task.kernel)
              x == [kind |-> "instance", name |-> task.id, section |-> c]
  <2>1. symtab' = Append(symtab, x)
    BY <1>7, <1>14
  <2>2. c \in DOMAIN symtab /\ symtab[c].name = task.kernel
    <3>1. PICK s \in 1 .. t - 1 : plan[s].kind = "kernel" /\ plan[s].kernel = plan[t].kernel
      BY <1>3, <1>14 DEF Preceded, task
    <3>2. PICK k \in DOMAIN symtab : symtab[k].name = plan[s].kernel /\ symtab[k].kind = "kernel"
      BY <1>4, <1>6, <3>1
    <3>3. symtab[k].name = task.kernel
      BY <3>1, <3>2 DEF task
    <3>. QED
      BY <3>2, <3>3 DEF SymbolOf
  <2>3. x.name = task.id /\ x.section = c
    OBVIOUS
  <2>. HIDE DEF c, x
  <2>4. /\ Len(symtab') \in DOMAIN symtab' /\ symtab'[Len(symtab')] = x
        /\ c \in DOMAIN symtab' /\ symtab'[c] = symtab[c]
    BY <1>11, <2>1, <2>2
  <2>5. NamesTask(symtab', Len(symtab'), plan[t])
    BY <2>2, <2>3, <2>4 DEF NamesTask, task
  <2>6. plan[t].kind = "instance"
    BY <1>14 DEF task
  <2>7. ASSUME NEW s \in 1 .. t, plan[s].kind = "kernel"
        PROVE  \E k \in DOMAIN symtab' : symtab'[k].name = plan[s].kernel /\ symtab'[k].kind = "kernel"
    BY <1>5, <1>10, <2>6, <2>7
  <2>. QED
    BY <1>1, <1>8, <2>5, <2>7 DEF SymtabOK, Longer
<1>. QED
  BY <1>3, <1>12, <1>13, <1>14 DEF TaskOK

LEMMA SymtabInvariant ==
  ASSUME PlanOK, LoopOK, SymtabOK, [Next]_vars
  PROVE  SymtabOK'
<1>1. CASE Start
  BY <1>1, StartSymbols
<1>2. CASE ~ Start
  <2>1. symtab' = symtab
    <3>1. CASE ReadKernel \/ RejectPdis \/ EndOfConfig \/ EncodeNothing \/ EncodeKernel
               \/ EncodeInstance \/ RejectPartition \/ EncodeCode \/ StartElf
      BY <3>1 DEF ReadKernel, RejectPdis, EndOfConfig, EncodeNothing, EncodeKernel, EncodeInstance,
         RejectPartition, EncodeCode, Encode, StartElf, elf
    <3>2. CASE PassOver \/ AddSection \/ AddSymbols \/ AddGroup \/ EndOfCommon \/ Finalize \/ Ended
               \/ UNCHANGED vars
      BY <3>2 DEF PassOver, AddSection, AddSymbols, AddGroup, EndOfCommon, Finalize, Ended, vars, elf
    <3>. QED
      BY <1>2, <3>1, <3>2 DEF Next
  <2>2. CASE at' = 0 /\ at = 0 /\ busy' = busy
    <3>1. ~ busy
      BY <2>2 DEF LoopOK
    <3>. QED
      BY <2>1, <2>2, <3>1 DEF SymtabOK
  <2>3. CASE at' = at /\ plan' = plan /\ (busy' = busy \/ busy' = FALSE)
    <3>1. busy' => busy
      BY <2>3, Zenon
    <3>. QED
      BY <2>1, <2>3, <3>1 DEF SymtabOK
  <2>. QED
    BY <1>2, <2>2, <2>3, LoopStep
<1>. QED
  BY <1>1, <1>2

(***************************************************************************)
(* The groups.                                                             *)
(***************************************************************************)
LEMMA GroupsCarried ==
  ASSUME GroupsOK, NEW all, NEW table, Longer(symtab, table),
         \A t \in 1 .. Finished : MadeFor(all, t) = MadeFor(sections, t)
  PROVE  \A t \in 1 .. Finished : plan[t].kind = "instance" =>
           GroupRight(all, table, t, plan[t], groups[SuffixOf(plan, t) + 1])
<1>. SUFFICES ASSUME NEW t \in 1 .. Finished, plan[t].kind = "instance"
     PROVE  GroupRight(all, table, t, plan[t], groups[SuffixOf(plan, t) + 1])
  OBVIOUS
<1>. DEFINE group == groups[SuffixOf(plan, t) + 1]
            task == plan[t]
<1>1. GroupRight(sections, symtab, t, task, group)
  BY DEF GroupsOK
<1>2. MadeFor(all, t) = MadeFor(sections, t)
  OBVIOUS
<1>. HIDE DEF group, task
<1>3. NamesTask(table, group.info, task)
  BY <1>1, NamesKept DEF GroupRight
<1>4. GroupRight(all, table, t, task, group)
  BY <1>1, <1>2, <1>3 DEF GroupRight
<1>. QED
  BY <1>4 DEF group, task

LEMMA FinishedIs ==
  ASSUME PlanOK, LoopOK
  PROVE  /\ at \in Nat /\ Finished \in Nat /\ at <= Len(plan) /\ Len(plan) \in Nat
         /\ busy => at \in Nat \ {0} /\ Finished = at - 1 /\ Finished + 1 = at
         /\ ~ busy => Finished = at
<1>1. at \in 0 .. Len(plan) /\ Len(plan) \in Nat /\ busy \in BOOLEAN /\ (at = 0 => ~ busy)
  BY TaskKnown DEF LoopOK
<1>. QED
  BY <1>1 DEF Finished

LEMMA InitGroups == Init => GroupsOK
<1>. SUFFICES ASSUME Init PROVE GroupsOK
  OBVIOUS
<1>1. groups = <<>> /\ section_index_list = <<>> /\ at = 0 /\ index = 0 /\ busy = FALSE
  BY DEF Init, Fresh
<1>2. Finished = 0
  BY <1>1 DEF Finished
<1>3. MadeFor(sections, 0) = {}
  BY <1>1, InitSections, NoneYet DEF SectionsOK
<1>4. ToSet(<<>>) = {} /\ IsInjective(<<>>)
  BY NoSeq DEF ToSet, IsInjective
<1>. QED
  BY <1>1, <1>2, <1>3, <1>4, NoSeq DEF GroupsOK

(* The loop's ends of a task have nothing to do with the sections made.    *)
LEMMA GroupsKept ==
  ASSUME PlanOK, LoopOK, SectionsOK, SymtabOK, GroupsOK, [Next]_vars, ~ AddSection,
         UNCHANGED <<at, busy, index, section_index_list, groups>>,
         plan' = plan \/ at = 0
  PROVE  GroupsOK'
<1>1. IsSeq(sections)
  BY DEF SectionsOK, SectionsOf
<1>2. \A t : MadeFor(sections', t) = MadeFor(sections, t)
  BY <1>1, SpecialStep, CodeKept
<1>3. Longer(symtab, symtab')
  BY SymbolsGrow
<1>4. \A t \in 1 .. Finished : plan[t].kind = "instance" =>
        GroupRight(sections', symtab', t, plan[t], groups[SuffixOf(plan, t) + 1])
  BY <1>2, <1>3, GroupsCarried
<1>5. Finished' = Finished
  BY DEF Finished
<1>6. CASE plan' = plan
  <2>1. \A t \in 1 .. Finished' : plan'[t].kind = "instance" =>
          GroupRight(sections', symtab', t, plan'[t], groups'[SuffixOf(plan', t) + 1])
    BY <1>4, <1>5, <1>6
  <2>. QED
    BY <1>2, <2>1 DEF GroupsOK
<1>7. CASE at = 0
  <2>1. Finished = 0
    BY <1>7, FinishedIs DEF LoopOK
  <2>2. 1 .. Finished' = {}
    BY <1>5, <2>1
  <2>. QED
    BY <1>2, <2>2 DEF GroupsOK
<1>. QED
  BY <1>6, <1>7

LEMMA StartGroups ==
  ASSUME PlanOK, LoopOK, SectionsOK, SymtabOK, GroupsOK, Start
  PROVE  GroupsOK'
<1>1. /\ at' = at + 1 /\ busy' = TRUE /\ ~ busy /\ section_index_list' = <<>>
      /\ UNCHANGED <<plan, index, sections, groups>>
  BY DEF Start
<1>2. at \in Nat /\ Finished = at
  BY <1>1, FinishedIs
<1>3. Finished' = Finished
  BY <1>1, <1>2 DEF Finished
<1>4. Longer(symtab, symtab')
  <2>1. [Next]_vars
    BY DEF Next
  <2>. QED
    BY <2>1, SymbolsGrow
<1>5. \A t \in 1 .. Finished : plan[t].kind = "instance" =>
        GroupRight(sections, symtab', t, plan[t], groups[SuffixOf(plan, t) + 1])
  BY <1>4, GroupsCarried
<1>6. MadeFor(sections, at + 1) = {}
  BY <1>2, NoneYet DEF SectionsOK
<1>7. ToSet(<<>>) = {} /\ IsInjective(<<>>)
  BY NoSeq DEF ToSet, IsInjective
<1>8. \A t \in 1 .. Finished' : plan'[t].kind = "instance" =>
        GroupRight(sections', symtab', t, plan'[t], groups'[SuffixOf(plan', t) + 1])
  BY <1>1, <1>3, <1>5
<1>9. ToSet(section_index_list') = MadeFor(sections', at')
  BY <1>1, <1>6, <1>7
<1>. QED
  BY <1>1, <1>7, <1>8, <1>9, NoSeq DEF GroupsOK

LEMMA ListGrows ==
  ASSUME NEW s, IsSeq(s), IsInjective(s), NEW x, x \notin ToSet(s)
  PROVE  /\ IsSeq(Append(s, x)) /\ IsInjective(Append(s, x))
         /\ ToSet(Append(s, x)) = ToSet(s) \cup {x}
<1>. DEFINE more == Append(s, x)
<1>1. /\ DOMAIN s = 1 .. Len(s) /\ Len(s) \in Nat
      /\ IsSeq(more) /\ DOMAIN more = 1 .. Len(s) + 1
      /\ \A i \in 1 .. Len(s) : more[i] = s[i]
      /\ more[Len(s) + 1] = x
  BY SeqIs, Appended
<1>. HIDE DEF more
<1>2. DOMAIN more = DOMAIN s \cup {Len(s) + 1} /\ \A i \in DOMAIN s : more[i] = s[i]
  BY <1>1
<1>3. \A i \in DOMAIN s : s[i] # x
  BY DEF ToSet
<1>4. IsInjective(more)
  BY <1>1, <1>2, <1>3 DEF IsInjective
<1>5. ToSet(more) = ToSet(s) \cup {x}
  BY <1>1, <1>2 DEF ToSet
<1>. QED
  BY <1>1, <1>4, <1>5 DEF more

LEMMA SectionGroups ==
  ASSUME PlanOK, LoopOK, SectionsOK, SymtabOK, GroupsOK, AddSection
  PROVE  GroupsOK'
<1>. DEFINE m == Len(sections) + 1
<1>1. at \in Nat \ {0} /\ at' = at /\ plan' = plan /\ busy
  BY AddSectionIs
<1>2. /\ UNCHANGED <<index, groups, symtab, busy>>
      /\ section_index_list' = Append(section_index_list, Len(sections'))
  BY DEF AddSection, loop
<1>. HIDE DEF m
<1>3. /\ MadeFor(sections', at) = MadeFor(sections, at) \cup {m} /\ m \notin MadeFor(sections, at)
      /\ \A t : t # at => MadeFor(sections', t) = MadeFor(sections, t)
      /\ Len(sections') = m
  BY SectionAdded DEF m
<1>4. Len(sections') \notin ToSet(section_index_list)
  BY <1>3 DEF GroupsOK
<1>5. /\ IsSeq(section_index_list') /\ IsInjective(section_index_list')
      /\ ToSet(section_index_list') = ToSet(section_index_list) \cup {Len(sections')}
  BY <1>2, <1>4, ListGrows DEF GroupsOK
<1>6. ToSet(section_index_list') = MadeFor(sections', at')
  BY <1>1, <1>3, <1>5 DEF GroupsOK
<1>7. Finished' = Finished
  BY <1>1, <1>2 DEF Finished
<1>8. \A t \in 1 .. Finished : MadeFor(sections', t) = MadeFor(sections, t)
  BY <1>1, <1>3, FinishedIs
<1>9. Longer(symtab, symtab)
  BY DEF Longer, SymtabOK
<1>10. \A t \in 1 .. Finished : plan[t].kind = "instance" =>
         GroupRight(sections', symtab, t, plan[t], groups[SuffixOf(plan, t) + 1])
  BY <1>8, <1>9, GroupsCarried
<1>11. \A t \in 1 .. Finished' : plan'[t].kind = "instance" =>
         GroupRight(sections', symtab', t, plan'[t], groups'[SuffixOf(plan', t) + 1])
  BY <1>1, <1>2, <1>7, <1>10
<1>. QED
  BY <1>2, <1>5, <1>6, <1>11 DEF GroupsOK

LEMMA GroupAdded ==
  ASSUME PlanOK, LoopOK, SectionsOK, SymtabOK, GroupsOK, AddGroup
  PROVE  GroupsOK'
<1>. DEFINE group == [members |-> section_index_list, info |-> Len(symtab)]
<1>1. /\ groups' = Append(groups, group) /\ index' = index + 1 /\ busy' = FALSE /\ busy
      /\ plan[at].kind = "instance"
      /\ UNCHANGED <<plan, at, section_index_list, symtab>>
  BY DEF AddGroup, NextIndex, Task, helper
<1>2. group.members = section_index_list /\ group.info = Len(symtab)
  OBVIOUS
<1>. HIDE DEF group
<1>3. /\ at \in Nat \ {0} /\ Finished = at - 1 /\ Finished + 1 = at /\ Finished \in Nat
      /\ at <= Len(plan) /\ Len(plan) \in Nat
  BY <1>1, FinishedIs
<1>4. Finished' = at
  BY <1>1 DEF Finished
<1>5. IsSeq(sections) /\ ~ AddSection /\ [Next]_vars
  BY DEF SectionsOK, SectionsOf, Next, AddSection, AddGroup
<1>6. \A t : MadeFor(sections', t) = MadeFor(sections, t)
  BY <1>5, SpecialStep, CodeKept
<1>7. Longer(symtab, symtab)
  BY DEF Longer, SymtabOK
<1>8. \A t \in 1 .. Finished : plan[t].kind = "instance" =>
        GroupRight(sections', symtab, t, plan[t], groups[SuffixOf(plan, t) + 1])
  BY <1>6, <1>7, GroupsCarried
<1>9. GroupRight(sections', symtab, at, plan[at], group)
  BY <1>1, <1>2, <1>6 DEF GroupRight, GroupsOK, SymtabOK
<1>10. /\ IsSeq(groups') /\ Len(groups') = index + 1 /\ Len(groups) = index /\ index \in Nat
       /\ \A n \in 1 .. index : groups'[n] = groups[n]
       /\ groups'[index + 1] = group
  <2>1. IsSeq(groups) /\ Len(groups) = index /\ index \in Nat
    BY SeqIs DEF GroupsOK
  <2>. QED
    BY <1>1, <2>1, Appended
<1>11. index = Count(plan, at - 1)
  BY <1>3 DEF LoopOK
<1>12. ASSUME NEW t \in 1 .. at, plan[t].kind = "instance"
       PROVE  GroupRight(sections', symtab, t, plan[t], groups'[SuffixOf(plan, t) + 1])
  <2>1. CASE t = at
    <3>1. SuffixOf(plan, t) = index
      BY <1>1, <1>11, <2>1 DEF SuffixOf
    <3>2. groups'[SuffixOf(plan, t) + 1] = group
      BY <1>10, <3>1
    <3>. QED
      BY <1>9, <2>1, <3>2
  <2>2. CASE t # at
    <3>1. t \in 1 .. Finished /\ t \in Nat \ {0} /\ t <= Finished /\ t \in Nat
      BY <1>3, <2>2
    <3>2. Count(plan, t) <= Count(plan, Finished) /\ index = Count(plan, Finished)
      BY <1>3, <3>1, CountGrows DEF LoopOK
    <3>3. SuffixOf(plan, t) \in Nat /\ SuffixOf(plan, t) + 1 = Count(plan, t)
      BY <1>12, <3>1, SuffixIs
    <3>4. SuffixOf(plan, t) + 1 \in 1 .. index
      BY <1>10, <3>2, <3>3
    <3>5. groups'[SuffixOf(plan, t) + 1] = groups[SuffixOf(plan, t) + 1]
      BY <1>10, <3>4
    <3>. QED
      BY <1>8, <1>12, <3>1, <3>5
  <2>. QED
    BY <2>1, <2>2
<1>13. \A t \in 1 .. Finished' : plan'[t].kind = "instance" =>
         GroupRight(sections', symtab', t, plan'[t], groups'[SuffixOf(plan', t) + 1])
  BY <1>1, <1>4, <1>12
<1>14. ToSet(section_index_list') = MadeFor(sections', at')
  BY <1>1, <1>6 DEF GroupsOK
<1>. QED
  BY <1>1, <1>10, <1>13, <1>14 DEF GroupsOK

LEMMA CommonGroups ==
  ASSUME PlanOK, LoopOK, SectionsOK, SymtabOK, GroupsOK, EndOfCommon
  PROVE  GroupsOK'
<1>1. /\ busy' = FALSE /\ busy /\ plan[at].kind # "instance"
      /\ UNCHANGED <<plan, at, index, section_index_list, symtab, sections, groups>>
  BY DEF EndOfCommon, Task, helper, elf
<1>2. at \in Nat \ {0} /\ Finished = at - 1 /\ Finished + 1 = at /\ Finished \in Nat
  BY <1>1, FinishedIs
<1>3. Finished' = at
  BY <1>1 DEF Finished
<1>4. ASSUME NEW t \in 1 .. at, plan[t].kind = "instance"
      PROVE  GroupRight(sections, symtab, t, plan[t], groups[SuffixOf(plan, t) + 1])
  <2>1. t \in 1 .. Finished
    BY <1>1, <1>2, <1>4
  <2>. QED
    BY <1>4, <2>1 DEF GroupsOK
<1>5. \A t \in 1 .. Finished' : plan'[t].kind = "instance" =>
        GroupRight(sections', symtab', t, plan'[t], groups'[SuffixOf(plan', t) + 1])
  BY <1>1, <1>3, <1>4
<1>. QED
  BY <1>1, <1>5 DEF GroupsOK

LEMMA GroupsInvariant ==
  ASSUME PlanOK, LoopOK, SectionsOK, SymtabOK, GroupsOK, [Next]_vars
  PROVE  GroupsOK'
<1>1. CASE EncodeKernel \/ EncodeInstance \/ EncodeCode
  <2>1. UNCHANGED <<at, busy, index, section_index_list, groups>> /\ at = 0
    BY <1>1 DEF EncodeKernel, EncodeInstance, EncodeCode, Encoding, Encode, helper, elf, LoopOK
  <2>2. CASE AddSection
    BY <2>2, SectionGroups
  <2>. QED
    BY <2>1, <2>2, GroupsKept
<1>2. CASE ReadKernel \/ RejectPdis \/ EndOfConfig \/ EncodeNothing \/ RejectPartition \/ StartElf
  <2>1. UNCHANGED <<plan, at, busy, index, section_index_list, groups>>
    BY <1>2 DEF ReadKernel, RejectPdis, EndOfConfig, EncodeNothing, RejectPartition, StartElf, loop,
       helper, elf
  <2>2. CASE AddSection
    BY <2>2, SectionGroups
  <2>. QED
    BY <2>1, <2>2, GroupsKept
<1>3. CASE PassOver \/ AddSymbols \/ Finalize \/ Ended \/ UNCHANGED vars
  <2>1. UNCHANGED <<plan, at, busy, index, section_index_list, groups>>
    BY <1>3 DEF PassOver, AddSymbols, Finalize, Ended, vars, loop, helper, elf
  <2>2. CASE AddSection
    BY <2>2, SectionGroups
  <2>. QED
    BY <2>1, <2>2, GroupsKept
<1>. QED
  BY <1>1, <1>2, <1>3, StartGroups, SectionGroups, GroupAdded, CommonGroups DEF Next

(***************************************************************************)
(* The relocations.  First the places of the symbols.                      *)
(***************************************************************************)
LEMMA SlotIs ==
  ASSUME NEW p, NEW a, NEW n, NEW slot
  PROVE  slot \in SlotsIn(p, a, n) <=>
           \E t \in 1 .. a : \E w \in DoneIn(p, a, n, t) :
             \E k \in DOMAIN p[t].writers[w].symbols : slot = <<t, w, k>>
<1>1. ASSUME slot \in SlotsIn(p, a, n)
      PROVE  \E t \in 1 .. a : \E w \in DoneIn(p, a, n, t) :
               \E k \in DOMAIN p[t].writers[w].symbols : slot = <<t, w, k>>
  <2>1. PICK t \in 1 .. a :
          slot \in UNION {{<<t, w, k>> : k \in DOMAIN p[t].writers[w].symbols} : w \in DoneIn(p, a, n, t)}
    BY <1>1 DEF SlotsIn
  <2>2. PICK w \in DoneIn(p, a, n, t) : slot \in {<<t, w, k>> : k \in DOMAIN p[t].writers[w].symbols}
    BY <2>1
  <2>. QED
    BY <2>2
<1>2. ASSUME NEW t \in 1 .. a, NEW w \in DoneIn(p, a, n, t),
             NEW k \in DOMAIN p[t].writers[w].symbols, slot = <<t, w, k>>
      PROVE  slot \in SlotsIn(p, a, n)
  <2>. DEFINE I == {<<t, w, j>> : j \in DOMAIN p[t].writers[w].symbols}
              Of(v) == {<<t, v, j>> : j \in DOMAIN p[t].writers[v].symbols}
              J == UNION {Of(v) : v \in DoneIn(p, a, n, t)}
  <2>1. slot \in Of(w)
    BY <1>2
  <2>. HIDE DEF Of
  <2>2. slot \in J
    BY <2>1
  <2>3. J \in {UNION {{<<u, v, j>> : j \in DOMAIN p[u].writers[v].symbols} : v \in DoneIn(p, a, n, u)} :
                 u \in 1 .. a}
    BY DEF Of
  <2>. HIDE DEF J
  <2>. QED
    BY <2>2, <2>3 DEF SlotsIn
<1>. QED
  BY <1>1, <1>2

LEMMA SlotsSame ==
  ASSUME NEW p, NEW a, NEW n, NEW b, NEW c,
         \A t : \A w : (t \in 1 .. a /\ w \in DoneIn(p, a, n, t)) <=> (t \in 1 .. b /\ w \in DoneIn(p, b, c, t))
  PROVE  SlotsIn(p, b, c) = SlotsIn(p, a, n)
<1>1. \A slot : slot \in SlotsIn(p, a, n) <=> slot \in SlotsIn(p, b, c)
  BY SlotIs
<1>. QED
  BY <1>1

LEMMA NoSlots ==
  ASSUME NEW p, NEW n
  PROVE  SlotsIn(p, 0, n) = {}
<1>1. \A slot : slot \notin SlotsIn(p, 0, n)
  BY SlotIs
<1>. QED
  BY <1>1

(* The symbols of one writer, up to the k-th.                              *)
Row(a, w, k) == {<<a, w, j>> : j \in 1 .. k}

LEMMA RowIs ==
  ASSUME NEW a, NEW w, NEW k \in Nat
  PROVE  IsFiniteSet(Row(a, w, k)) /\ Cardinality(Row(a, w, k)) = k
<1>. DEFINE f == [j \in 1 .. k |-> <<a, w, j>>]
<1>1. f \in Surjection(1 .. k, Row(a, w, k))
  BY DEF Surjection, Row
<1>2. f \in Injection(1 .. k, Row(a, w, k))
  BY DEF Injection, IsInjective, Row
<1>3. IsFiniteSet(1 .. k) /\ Cardinality(1 .. k) = k
  BY FS_Interval
<1>. HIDE DEF f
<1>. QED
  BY <1>1, <1>2, <1>3, FS_Surjection

LEMMA RowAdded ==
  ASSUME NEW p, NEW a \in Nat \ {0}, NEW n \in Nat, NEW d \in Nat, d = n + 1, d \in WrittenIn(p, a),
         \A t \in 1 .. a : WrittenIn(p, t) \subseteq Nat,
         NEW m \in Nat, DOMAIN p[a].writers[d].symbols = 1 .. m
  PROVE  SlotsIn(p, a, d) = SlotsIn(p, a, n) \cup Row(a, d, m)
<1>1. \A t : t # a => DoneIn(p, a, d, t) = DoneIn(p, a, n, t)
  BY DEF DoneIn
<1>2. WrittenIn(p, a) \subseteq Nat
  OBVIOUS
<1>3. DoneIn(p, a, d, a) = DoneIn(p, a, n, a) \cup {d}
  BY <1>2 DEF DoneIn
<1>4. ASSUME NEW slot \in SlotsIn(p, a, d)
      PROVE  slot \in SlotsIn(p, a, n) \cup Row(a, d, m)
  <2>1. PICK t \in 1 .. a : \E w \in DoneIn(p, a, d, t) :
          \E k \in DOMAIN p[t].writers[w].symbols : slot = <<t, w, k>>
    BY SlotIs
  <2>2. PICK w \in DoneIn(p, a, d, t) : \E k \in DOMAIN p[t].writers[w].symbols : slot = <<t, w, k>>
    BY <2>1
  <2>3. CASE w \in DoneIn(p, a, n, t)
    BY <2>2, <2>3, SlotIs
  <2>4. CASE w \notin DoneIn(p, a, n, t)
    <3>1. t = a /\ w = d
      BY <1>1, <1>3, <2>4
    <3>. QED
      BY <2>2, <3>1 DEF Row
  <2>. QED
    BY <2>3, <2>4
<1>5. ASSUME NEW slot \in SlotsIn(p, a, n)
      PROVE  slot \in SlotsIn(p, a, d)
  <2>1. PICK t \in 1 .. a : \E w \in DoneIn(p, a, n, t) :
          \E k \in DOMAIN p[t].writers[w].symbols : slot = <<t, w, k>>
    BY SlotIs
  <2>2. DoneIn(p, a, n, t) \subseteq DoneIn(p, a, d, t)
    BY <1>1, <1>3
  <2>. QED
    BY <2>1, <2>2, SlotIs
<1>6. ASSUME NEW slot \in Row(a, d, m)
      PROVE  slot \in SlotsIn(p, a, d)
  <2>1. PICK k \in 1 .. m : slot = <<a, d, k>>
    BY DEF Row
  <2>2. a \in 1 .. a /\ d \in DoneIn(p, a, d, a)
    BY <1>3
  <2>. QED
    BY <2>1, <2>2, SlotIs
<1>. QED
  BY <1>4, <1>5, <1>6

(* A new writer's symbols come after all the others.                       *)
LEMMA PlacesKept ==
  ASSUME NEW p, NEW a \in Nat \ {0}, NEW n \in Nat, NEW d \in Nat, d = n + 1, d \in WrittenIn(p, a),
         \A t \in 1 .. a : WrittenIn(p, t) \subseteq Nat,
         NEW m \in Nat, DOMAIN p[a].writers[d].symbols = 1 .. m,
         IsFiniteSet(SlotsIn(p, a, n))
  PROVE  /\ IsFiniteSet(SlotsIn(p, a, d))
         /\ Cardinality(SlotsIn(p, a, d)) = Cardinality(SlotsIn(p, a, n)) + m
         /\ \A slot \in SlotsIn(p, a, n) : PlaceIn(SlotsIn(p, a, d), slot) = PlaceIn(SlotsIn(p, a, n), slot)
         /\ \A k \in 1 .. m :
              PlaceIn(SlotsIn(p, a, d), <<a, d, k>>) = Cardinality(SlotsIn(p, a, n)) + k
         /\ SlotsIn(p, a, d) = SlotsIn(p, a, n) \cup Row(a, d, m)
<1>. DEFINE S == SlotsIn(p, a, n)
            T == SlotsIn(p, a, d)
<1>1. T = S \cup Row(a, d, m)
  BY RowAdded
<1>2. ASSUME NEW slot \in S
      PROVE  /\ slot[1] \in Nat /\ slot[1] <= a
             /\ slot[1] = a => slot[2] \in Nat /\ slot[2] < d
  <2>1. PICK t \in 1 .. a : \E w \in DoneIn(p, a, n, t) :
          \E k \in DOMAIN p[t].writers[w].symbols : slot = <<t, w, k>>
    BY SlotIs
  <2>2. PICK w \in DoneIn(p, a, n, t) : \E k \in DOMAIN p[t].writers[w].symbols : slot = <<t, w, k>>
    BY <2>1
  <2>3. slot[1] = t /\ slot[2] = w
    BY <2>2
  <2>4. w \in WrittenIn(p, t) /\ (t = a => w <= n)
    BY DEF DoneIn
  <2>5. w \in Nat
    BY <2>4
  <2>. QED
    BY <2>3, <2>4, <2>5
<1>3. d \in Nat
  OBVIOUS
<1>4. IsFiniteSet(S) /\ Cardinality(S) \in Nat
  BY FS_CardinalityType
<1>. HIDE DEF S, T
<1>5. \A slot \in Row(a, d, m) : slot[1] = a /\ slot[2] = d /\ slot[3] \in 1 .. m /\ slot = <<a, d, slot[3]>>
  BY DEF Row
<1>6. S \cap Row(a, d, m) = {}
  BY <1>2, <1>3, <1>5
<1>7. ASSUME NEW k \in 0 .. m
      PROVE  IsFiniteSet(S \cup Row(a, d, k)) /\ Cardinality(S \cup Row(a, d, k)) = Cardinality(S) + k
  <2>1. IsFiniteSet(Row(a, d, k)) /\ Cardinality(Row(a, d, k)) = k
    BY RowIs
  <2>2. S \cap Row(a, d, k) = {}
    <3>1. Row(a, d, k) \subseteq Row(a, d, m)
      BY DEF Row
    <3>. QED
      BY <1>6, <3>1
  <2>3. IsFiniteSet(S \cup Row(a, d, k)) /\
        Cardinality(S \cup Row(a, d, k)) =
          Cardinality(S) + Cardinality(Row(a, d, k)) - Cardinality(S \cap Row(a, d, k))
    BY <1>4, <2>1, FS_Union
  <2>4. Cardinality(S \cap Row(a, d, k)) = 0
    BY <2>2, FS_EmptySet
  <2>. QED
    BY <1>4, <2>1, <2>3, <2>4
<1>8. IsFiniteSet(T) /\ Cardinality(T) = Cardinality(S) + m
  BY <1>1, <1>7
<1>9. ASSUME NEW slot \in S
      PROVE  PlaceIn(T, slot) = PlaceIn(S, slot)
  <2>1. \A s \in Row(a, d, m) : ~ UpTo(s, slot)
    BY <1>2, <1>3, <1>5, <1>9 DEF UpTo
  <2>2. {s \in T : UpTo(s, slot)} = {s \in S : UpTo(s, slot)}
    BY <1>1, <2>1
  <2>. QED
    BY <2>2 DEF PlaceIn
<1>10. ASSUME NEW k \in 1 .. m
       PROVE  PlaceIn(T, <<a, d, k>>) = Cardinality(S) + k
  <2>. DEFINE slot == <<a, d, k>>
  <2>1. slot[1] = a /\ slot[2] = d /\ slot[3] = k
    OBVIOUS
  <2>. HIDE DEF slot
  <2>2. \A s \in S : UpTo(s, slot)
    BY <1>2, <1>3, <2>1 DEF UpTo
  <2>3. \A s \in Row(a, d, m) : UpTo(s, slot) <=> s[3] <= k
    BY <1>3, <1>5, <2>1 DEF UpTo
  <2>4. \A s \in Row(a, d, m) : s[3] <= k <=> s \in Row(a, d, k)
    BY <1>5 DEF Row
  <2>5. Row(a, d, k) \subseteq Row(a, d, m)
    BY DEF Row
  <2>6. {s \in T : UpTo(s, slot)} = S \cup Row(a, d, k)
    BY <1>1, <2>2, <2>3, <2>4, <2>5
  <2>7. PlaceIn(T, slot) = Cardinality(S \cup Row(a, d, k))
    BY <2>6 DEF PlaceIn
  <2>8. k \in 0 .. m
    OBVIOUS
  <2>9. Cardinality(S \cup Row(a, d, k)) = Cardinality(S) + k
    BY <1>7, <2>8
  <2>10. PlaceIn(T, slot) = Cardinality(S) + k
    BY <2>7, <2>9
  <2>. QED
    BY <2>10 DEF slot
<1>. QED
  BY <1>1, <1>8, <1>9, <1>10 DEF S, T

(***************************************************************************)
(* What is resolved stays so.                                              *)
(***************************************************************************)
LEMMA ResolvedKept ==
  ASSUME NEW p, NEW slot, NEW relocation, NEW table, NEW all, Resolved(p, slot, relocation, table, all),
         NEW table2, Longer(table, table2), NEW all2, Longer(all, all2)
  PROVE  Resolved(p, slot, relocation, table2, all2)
<1>1. relocation.symbol \in DOMAIN table /\ table[relocation.symbol].section \in DOMAIN all
  BY DEF Resolved
<1>2. /\ relocation.symbol \in DOMAIN table2 /\ table2[relocation.symbol] = table[relocation.symbol]
      /\ table[relocation.symbol].section \in DOMAIN all2
      /\ all2[table[relocation.symbol].section] = all[table[relocation.symbol].section]
  BY <1>1 DEF Longer
<1>. QED
  BY <1>2 DEF Resolved

LEMMA RelaKept ==
  ASSUME NEW p, NEW a, NEW n, NEW r, NEW s, NEW table, NEW all, RelaOf(p, a, n, r, s, table, all),
         NEW b, NEW c, SlotsIn(p, b, c) = SlotsIn(p, a, n), b = a \/ s = <<>>,
         NEW more, Longer(all, more), HasDynamic(more) <=> HasDynamic(all)
  PROVE  RelaOf(p, b, c, r, s, table, more)
<1>. DEFINE S == SlotsIn(p, a, n)
<1>1. /\ IsSeq(r) /\ IsSeq(s) /\ IsSeq(table) /\ IsFiniteSet(S) /\ Cardinality(S) = Len(r) + Len(s)
      /\ \A slot \in S : SlotOK(p, a, S, slot, r, s, table, all)
      /\ HasDynamic(all) <=> r # <<>>
  BY DEF RelaOf
<1>2. Longer(table, table)
  BY <1>1 DEF Longer
<1>3. SlotsIn(p, b, c) = S
  OBVIOUS
<1>. HIDE DEF S
<1>4. s = <<>> => Len(s) = 0
  BY NoSeq
<1>5. ASSUME NEW slot \in S
      PROVE  SlotOK(p, b, S, slot, r, s, table, more)
  <2>1. SlotOK(p, a, S, slot, r, s, table, all)
    BY <1>1
  <2>. DEFINE place == PlaceIn(S, slot)
              relocation == r[place]
  <2>2. \/ place \in 1 .. Len(r) /\ Resolved(p, slot, relocation, table, all)
        \/ place - Len(r) \in 1 .. Len(s) /\ slot[1] = a /\ s[place - Len(r)] = SymbolAt(p, slot)
    BY <2>1 DEF SlotOK
  <2>. HIDE DEF place, relocation
  <2>3. CASE place \in 1 .. Len(r) /\ Resolved(p, slot, relocation, table, all)
    <3>1. Resolved(p, slot, relocation, table, more)
      BY <1>2, <2>3, ResolvedKept
    <3>. QED
      BY <2>3, <3>1 DEF SlotOK, place, relocation
  <2>4. CASE place - Len(r) \in 1 .. Len(s) /\ slot[1] = a /\ s[place - Len(r)] = SymbolAt(p, slot)
    <3>1. b = a
      BY <1>4, <2>4
    <3>. QED
      BY <2>4, <3>1 DEF SlotOK, place
  <2>. QED
    BY <2>2, <2>3, <2>4
<1>. QED
  BY <1>1, <1>3, <1>5 DEF RelaOf

LEMMA EmptyRela ==
  ASSUME NEW p, NEW n, NEW all, ~ HasDynamic(all)
  PROVE  RelaOf(p, 0, n, <<>>, <<>>, <<>>, all)
<1>1. SlotsIn(p, 0, n) = {}
  BY NoSlots
<1>2. IsFiniteSet({}) /\ Cardinality({}) = 0
  BY FS_EmptySet
<1>. QED
  BY <1>1, <1>2, NoSeq DEF RelaOf

(* The sections for dynamic symbols are there when they are added, only.   *)
LEMMA DynamicKept ==
  ASSUME NEW all, NEW more, Longer(all, more),
         \A k \in DOMAIN more : k \in DOMAIN all \/ more[k].name[1] \notin DynamicNames
  PROVE  HasDynamic(more) <=> HasDynamic(all)
<1>1. ASSUME NEW k \in DOMAIN all, all[k].name[1] \in DynamicNames
      PROVE  k \in DOMAIN more /\ more[k].name[1] \in DynamicNames
  BY <1>1 DEF Longer
<1>2. ASSUME NEW k \in DOMAIN more, more[k].name[1] \in DynamicNames
      PROVE  k \in DOMAIN all /\ all[k].name[1] \in DynamicNames
  BY <1>2 DEF Longer
<1>. QED
  BY <1>1, <1>2 DEF HasDynamic

LEMMA LongerJoined ==
  ASSUME NEW s, IsSeq(s), NEW t, IsSeq(t)
  PROVE  /\ Longer(s, s \o t)
         /\ \A k \in DOMAIN (s \o t) : k \in DOMAIN s \/ \E j \in DOMAIN t : (s \o t)[k] = t[j]
<1>. DEFINE u == s \o t
<1>1. /\ DOMAIN s = 1 .. Len(s) /\ Len(s) \in Nat /\ DOMAIN t = 1 .. Len(t) /\ Len(t) \in Nat
      /\ IsSeq(u) /\ DOMAIN u = 1 .. Len(s) + Len(t)
      /\ \A i \in 1 .. Len(s) : u[i] = s[i]
      /\ \A i \in 1 .. Len(t) : u[Len(s) + i] = t[i]
  BY SeqIs, Joined
<1>. HIDE DEF u
<1>2. Longer(s, u)
  BY <1>1 DEF Longer
<1>3. ASSUME NEW k \in DOMAIN u, k \notin DOMAIN s
      PROVE  \E j \in DOMAIN t : u[k] = t[j]
  <2>1. k - Len(s) \in 1 .. Len(t) /\ Len(s) + (k - Len(s)) = k
    BY <1>1, <1>3
  <2>2. u[k] = t[k - Len(s)]
    BY <1>1, <2>1
  <2>. QED
    BY <1>1, <2>1, <2>2
<1>. QED
  BY <1>2, <1>3 DEF u

LEMMA LongerAppended ==
  ASSUME NEW s, IsSeq(s), NEW x, NEW t, t = Append(s, x)
  PROVE  Longer(s, t) /\ \A k \in DOMAIN t : k \in DOMAIN s \/ t[k] = x
<1>1. /\ DOMAIN s = 1 .. Len(s) /\ Len(s) \in Nat
      /\ IsSeq(t) /\ DOMAIN t = 1 .. Len(s) + 1
      /\ \A i \in 1 .. Len(s) : t[i] = s[i]
      /\ t[Len(s) + 1] = x
  BY SeqIs, Appended
<1>. QED
  BY <1>1 DEF Longer

LEMMA LongerSame ==
  ASSUME NEW s, IsSeq(s)
  PROVE  Longer(s, s)
BY DEF Longer

(* What is added to the sections, unless by AddSymbols.                    *)
LEMMA DynamicStep ==
  ASSUME PlanOK, LoopOK, SectionsOK, [Next]_vars, ~ AddSymbols
  PROVE  Longer(sections, sections') /\ (HasDynamic(sections') <=> HasDynamic(sections))
<1>1. IsSeq(sections)
  BY DEF SectionsOK, SectionsOf
<1>2. CASE sections' = sections
  BY <1>1, <1>2, LongerSame
<1>3. ASSUME NEW x, sections' = Append(sections, x), x.name[1] \notin DynamicNames
      PROVE  Longer(sections, sections') /\ (HasDynamic(sections') <=> HasDynamic(sections))
  <2>1. Longer(sections, sections') /\ \A k \in DOMAIN sections' : k \in DOMAIN sections \/ sections'[k] = x
    BY <1>1, <1>3, LongerAppended
  <2>. QED
    BY <1>3, <2>1, DynamicKept
<1>4. CASE AddSection
  <2>. DEFINE x == [name |-> <<plan[at].writers[next + 1].name, SuffixOf(plan, at)>>,
                    of |-> <<at, next + 1>>]
  <2>1. sections' = Append(sections, x) /\ x.name[1] = plan[at].writers[next + 1].name
        /\ next + 1 \in WrittenIn(plan, at) /\ at \in 1 .. Len(plan)
    BY <1>4, AddSectionIs, TaskKnown
  <2>2. plan[at].writers[next + 1].name \notin Reserved
    BY <2>1, TaskKnown DEF WritersOK, WrittenIn
  <2>. HIDE DEF x
  <2>3. x.name[1] \notin DynamicNames
    BY <2>1, <2>2 DEF Reserved, DynamicNames
  <2>. QED
    BY <1>3, <2>1, <2>3
<1>5. CASE AddGroup
  <2>. DEFINE x == [name |-> <<".group", index>>, of |-> <<0, 0>>]
  <2>1. sections' = Append(sections, x) /\ x.name[1] \notin DynamicNames
    BY <1>5 DEF AddGroup, DynamicNames
  <2>. QED
    BY <1>3, <2>1
<1>6. CASE Finalize
  <2>. DEFINE x == [name |-> <<".dynamic", -1>>, of |-> <<0, 0>>]
  <2>1. x.name[1] \notin DynamicNames
    BY DEF DynamicNames
  <2>2. sections' = sections \/ sections' = Append(sections, x)
    BY <1>6 DEF Finalize, AddDynamic
  <2>. QED
    BY <1>2, <1>3, <2>1, <2>2
<1>7. CASE StartElf
  <2>. DEFINE x == [name |-> <<".strtab", -1>>, of |-> <<0, 0>>]
              y == [name |-> <<".symtab", -1>>, of |-> <<0, 0>>]
  <2>1. sections' = sections \/ sections' = sections \o <<x, y>>
    BY <1>7 DEF StartElf
  <2>2. x.name[1] \notin DynamicNames /\ y.name[1] \notin DynamicNames
    BY DEF DynamicNames
  <2>. HIDE DEF x, y
  <2>3. <<x, y>> \in Seq({x, y}) /\ \A k \in DOMAIN <<x, y>> : <<x, y>>[k].name[1] \notin DynamicNames
    BY <2>2
  <2>4. IsSeq(<<x, y>>)
    BY <2>3, SeqTyped
  <2>. DEFINE t == <<x, y>>
  <2>. HIDE DEF t
  <2>5. /\ Longer(sections, sections \o t)
        /\ \A k \in DOMAIN (sections \o t) : k \in DOMAIN sections \/ \E j \in DOMAIN t : (sections \o t)[k] = t[j]
    BY <1>1, <2>4, LongerJoined DEF t
  <2>6. CASE sections' = sections \o t
    <3>1. Longer(sections, sections')
      BY <2>5, <2>6
    <3>2. \A k \in DOMAIN sections' : k \in DOMAIN sections \/ sections'[k].name[1] \notin DynamicNames
      BY <2>3, <2>5, <2>6 DEF t
    <3>. QED
      BY <3>1, <3>2, DynamicKept
  <2>. QED
    BY <1>2, <2>1, <2>6 DEF t
<1>8. CASE ReadKernel \/ RejectPdis \/ EndOfConfig \/ EncodeNothing \/ EncodeKernel \/ EncodeInstance
           \/ RejectPartition \/ EncodeCode \/ Start \/ PassOver \/ EndOfCommon \/ Ended \/ UNCHANGED vars
  BY <1>2, <1>8 DEF ReadKernel, RejectPdis, EndOfConfig, EncodeNothing, EncodeKernel, EncodeInstance,
     RejectPartition, EncodeCode, Encode, Start, PassOver, EndOfCommon, Ended, vars, elf
<1>. QED
  BY <1>4, <1>5, <1>6, <1>7, <1>8 DEF Next

(* A writer's symbols are put behind those that wait.                      *)
LEMMA RelaWriter ==
  ASSUME NEW p, NEW a \in Nat \ {0}, NEW n \in Nat, NEW d \in Nat, d = n + 1, NEW r, NEW s, NEW table, NEW all,
         RelaOf(p, a, n, r, s, table, all), d \in WrittenIn(p, a),
         \A t \in 1 .. a : WrittenIn(p, t) \subseteq Nat,
         NEW y, IsSeq(y), p[a].writers[d].symbols = y,
         NEW more, Longer(all, more), HasDynamic(more) <=> HasDynamic(all)
  PROVE  RelaOf(p, a, d, r, s \o y, table, more)
<1>. DEFINE S == SlotsIn(p, a, n)
            T == SlotsIn(p, a, d)
            m == Len(y)
            z == s \o y
<1>1. /\ IsSeq(r) /\ IsSeq(s) /\ IsSeq(table) /\ IsFiniteSet(S) /\ Cardinality(S) = Len(r) + Len(s)
      /\ HasDynamic(all) <=> r # <<>>
  BY DEF RelaOf
<1>2. /\ Len(r) \in Nat /\ Len(s) \in Nat /\ m \in Nat /\ DOMAIN y = 1 .. m
      /\ IsSeq(z) /\ Len(z) = Len(s) + m
      /\ \A i \in 1 .. Len(s) : z[i] = s[i]
      /\ \A i \in 1 .. m : z[Len(s) + i] = y[i]
  BY <1>1, SeqIs, Joined
<1>3. DOMAIN p[a].writers[d].symbols = 1 .. m
  BY <1>2
<1>. HIDE DEF m, z
<1>4. /\ IsFiniteSet(T) /\ Cardinality(T) = Cardinality(S) + m
      /\ \A slot \in S : PlaceIn(T, slot) = PlaceIn(S, slot)
      /\ \A k \in 1 .. m : PlaceIn(T, <<a, d, k>>) = Cardinality(S) + k
      /\ T = S \cup Row(a, d, m)
  <2>1. m \in Nat /\ IsFiniteSet(SlotsIn(p, a, n))
    BY <1>1, <1>2
  <2>. HIDE DEF S, T
  <2>2. IsFiniteSet(SlotsIn(p, a, d)) /\ Cardinality(SlotsIn(p, a, d)) = Cardinality(SlotsIn(p, a, n)) + m
    BY <1>3, <2>1, PlacesKept
  <2>3. \A slot \in SlotsIn(p, a, n) : PlaceIn(SlotsIn(p, a, d), slot) = PlaceIn(SlotsIn(p, a, n), slot)
    BY <1>3, <2>1, PlacesKept
  <2>4. \A k \in 1 .. m : PlaceIn(SlotsIn(p, a, d), <<a, d, k>>) = Cardinality(SlotsIn(p, a, n)) + k
    BY <1>3, <2>1, PlacesKept
  <2>5. SlotsIn(p, a, d) = SlotsIn(p, a, n) \cup Row(a, d, m)
    BY <1>3, <2>1, PlacesKept
  <2>. QED
    BY <2>2, <2>3, <2>4, <2>5 DEF S, T
<1>5. Longer(table, table)
  BY <1>1, LongerSame
<1>6. ASSUME NEW slot \in S
      PROVE  SlotOK(p, a, T, slot, r, z, table, more)
  <2>1. SlotOK(p, a, S, slot, r, s, table, all)
    BY DEF RelaOf
  <2>. DEFINE place == PlaceIn(S, slot)
              relocation == r[place]
  <2>2. PlaceIn(T, slot) = place
    BY <1>4
  <2>3. \/ place \in 1 .. Len(r) /\ Resolved(p, slot, relocation, table, all)
        \/ place - Len(r) \in 1 .. Len(s) /\ slot[1] = a /\ s[place - Len(r)] = SymbolAt(p, slot)
    BY <2>1 DEF SlotOK
  <2>4. relocation = r[PlaceIn(T, slot)]
    BY <2>2
  <2>. HIDE DEF place, relocation
  <2>5. CASE place \in 1 .. Len(r) /\ Resolved(p, slot, relocation, table, all)
    <3>1. Resolved(p, slot, relocation, table, more)
      BY <1>5, <2>5, ResolvedKept
    <3>. QED
      BY <2>2, <2>4, <2>5, <3>1 DEF SlotOK
  <2>6. CASE place - Len(r) \in 1 .. Len(s) /\ slot[1] = a /\ s[place - Len(r)] = SymbolAt(p, slot)
    <3>1. place - Len(r) \in 1 .. Len(z) /\ z[place - Len(r)] = SymbolAt(p, slot)
      BY <1>2, <2>6
    <3>. QED
      BY <2>2, <2>6, <3>1 DEF SlotOK
  <2>. QED
    BY <2>3, <2>5, <2>6
<1>7. ASSUME NEW k \in 1 .. m, NEW slot, slot = <<a, d, k>>
      PROVE  SlotOK(p, a, T, slot, r, z, table, more)
  <2>1. PlaceIn(T, slot) = Cardinality(S) + k
    BY <1>4, <1>7
  <2>2. PlaceIn(T, slot) - Len(r) = Len(s) + k
    BY <1>1, <1>2, <2>1
  <2>3. Len(s) + k \in 1 .. Len(z)
    BY <1>2
  <2>4. SymbolAt(p, slot) = y[k]
    BY <1>7 DEF SymbolAt
  <2>5. z[Len(s) + k] = SymbolAt(p, slot)
    BY <1>2, <2>4
  <2>6. slot[1] = a
    BY <1>7
  <2>. QED
    BY <2>2, <2>3, <2>5, <2>6 DEF SlotOK
<1>8. ASSUME NEW slot \in T
      PROVE  SlotOK(p, a, T, slot, r, z, table, more)
  <2>1. CASE slot \in S
    BY <1>6, <2>1
  <2>2. CASE slot \in Row(a, d, m)
    <3>1. PICK k \in 1 .. m : slot = <<a, d, k>>
      BY <2>2 DEF Row
    <3>. QED
      BY <1>7, <3>1
  <2>. QED
    BY <1>4, <2>1, <2>2
<1>9. Cardinality(T) = Len(r) + Len(z)
  BY <1>1, <1>2, <1>4
<1>10. RelaOf(p, a, d, r, z, table, more)
  BY <1>1, <1>2, <1>4, <1>8, <1>9 DEF RelaOf
<1>. QED
  BY <1>10 DEF z

(***************************************************************************)
(* The entries of .dynsym.                                                 *)
(***************************************************************************)
FirstSet == {k \in DOMAIN syms : \A j \in 1 .. k - 1 : Key(syms[j]) # Key(syms[k])}

LEMMA FirstIs ==
  ASSUME IsSeq(syms)
  PROVE  /\ IsSeq(FirstOfKey)
         /\ \A p \in DOMAIN FirstOfKey : FirstOfKey[p] \in DOMAIN syms
         /\ \A j \in DOMAIN syms : \E p \in DOMAIN FirstOfKey : Key(syms[FirstOfKey[p]]) = Key(syms[j])
<1>1. DOMAIN syms = 1 .. Len(syms) /\ Len(syms) \in Nat
  BY SeqIs
<1>2. FirstOfKey = Sorted(FirstSet)
  BY DEF FirstOfKey, FirstSet
<1>3. Numbers(FirstSet)
  <2>1. IsFiniteSet(1 .. Len(syms)) /\ FirstSet \in SUBSET (1 .. Len(syms))
    BY <1>1, FS_Interval DEF FirstSet
  <2>2. IsFiniteSet(FirstSet)
    BY <2>1, FS_Subset
  <2>. QED
    BY <2>1, <2>2 DEF Numbers
<1>4. /\ IsSeq(FirstOfKey)
      /\ \A p \in DOMAIN FirstOfKey : FirstOfKey[p] \in FirstSet
      /\ \A x \in FirstSet : \E p \in DOMAIN FirstOfKey : FirstOfKey[p] = x
  BY <1>2, <1>3, SortedIs
<1>5. ASSUME NEW j \in DOMAIN syms
      PROVE  \E p \in DOMAIN FirstOfKey : Key(syms[FirstOfKey[p]]) = Key(syms[j])
  <2>. DEFINE Same == {k \in DOMAIN syms : Key(syms[k]) = Key(syms[j])}
  <2>1. Same \subseteq Nat /\ Same # {}
    BY <1>1
  <2>2. PICK x \in Same : \A k \in Same : x <= k
    BY <2>1, Least
  <2>3. x \in 1 .. Len(syms) /\ x \in DOMAIN syms /\ Key(syms[x]) = Key(syms[j])
    BY <1>1
  <2>4. ASSUME NEW k \in 1 .. x - 1
        PROVE  Key(syms[k]) # Key(syms[x])
    <3>1. k \in DOMAIN syms /\ ~ x <= k
      BY <1>1, <2>3
    <3>2. k \notin Same
      BY <2>2, <3>1
    <3>. QED
      BY <2>3, <3>1, <3>2
  <2>5. x \in FirstSet
    BY <2>3, <2>4 DEF FirstSet
  <2>6. PICK p \in DOMAIN FirstOfKey : FirstOfKey[p] = x
    BY <1>4, <2>5
  <2>. QED
    BY <2>3, <2>6
<1>6. FirstSet \subseteq DOMAIN syms
  BY DEF FirstSet
<1>. QED
  BY <1>4, <1>5, <1>6

LEMMA EntriesAre ==
  ASSUME IsSeq(syms), IsSeq(dynsym), AddSymbols
  PROVE  /\ Longer(dynsym, dynsym')
         /\ \A j \in DOMAIN syms :
              /\ DynIndex(syms[j]) \in DOMAIN dynsym'
              /\ dynsym'[DynIndex(syms[j])] =
                   [name |-> syms[j].name, size |-> syms[j].size,
                    section |-> Find(sections, <<syms[j].section, Suffix>>)]
<1>. DEFINE Of(sym) == [name |-> sym.name, size |-> sym.size,
                        section |-> Find(sections, <<sym.section, Suffix>>)]
            new == [p \in DOMAIN FirstOfKey |-> Of(syms[FirstOfKey[p]])]
<1>1. dynsym' = dynsym \o new
  BY DEF AddSymbols
<1>2. /\ IsSeq(FirstOfKey)
      /\ \A p \in DOMAIN FirstOfKey : FirstOfKey[p] \in DOMAIN syms
      /\ \A j \in DOMAIN syms : \E p \in DOMAIN FirstOfKey : Key(syms[FirstOfKey[p]]) = Key(syms[j])
  BY FirstIs
<1>3. DOMAIN FirstOfKey = 1 .. Len(FirstOfKey) /\ Len(FirstOfKey) \in Nat
  BY <1>2, SeqIs
<1>4. \A s, t : Key(s) = Key(t) => Of(s) = Of(t)
  <2>1. ASSUME NEW s, NEW t, Key(s) = Key(t)
        PROVE  Of(s) = Of(t)
    <3>1. s.section = t.section /\ s.name = t.name /\ s.size = t.size
      BY <2>1 DEF Key
    <3>. QED
      BY <3>1
  <2>. QED
    BY <2>1
<1>. HIDE DEF Of
<1>5. \A p \in DOMAIN FirstOfKey : new[p] = Of(syms[FirstOfKey[p]])
  OBVIOUS
<1>6. DOMAIN new = DOMAIN FirstOfKey
  OBVIOUS
<1>7. IsSeq(new) /\ Len(new) = Len(FirstOfKey)
  <2>1. new = [p \in 1 .. Len(FirstOfKey) |-> new[p]]
    BY <1>3
  <2>. HIDE DEF new
  <2>. QED
    BY <1>3, <2>1, SeqMade
<1>. HIDE DEF new
<1>8. /\ Len(dynsym) \in Nat /\ DOMAIN dynsym' = 1 .. Len(dynsym) + Len(new)
      /\ \A i \in 1 .. Len(new) : dynsym'[Len(dynsym) + i] = new[i]
  <2>1. /\ DOMAIN (dynsym \o new) = 1 .. Len(dynsym) + Len(new)
        /\ \A i \in 1 .. Len(new) : (dynsym \o new)[Len(dynsym) + i] = new[i]
    BY <1>7, Joined
  <2>2. Len(dynsym) \in Nat
    BY SeqIs
  <2>. QED
    BY <1>1, <2>1, <2>2
<1>9. Longer(dynsym, dynsym')
  BY <1>1, <1>7, LongerJoined
<1>10. ASSUME NEW j \in DOMAIN syms
       PROVE  /\ DynIndex(syms[j]) \in DOMAIN dynsym'
              /\ dynsym'[DynIndex(syms[j])] = Of(syms[j])
  <2>. DEFINE q == CHOOSE p \in DOMAIN FirstOfKey : Key(syms[FirstOfKey[p]]) = Key(syms[j])
  <2>1. q \in DOMAIN FirstOfKey /\ Key(syms[FirstOfKey[q]]) = Key(syms[j])
    BY <1>2
  <2>2. DynIndex(syms[j]) = Len(dynsym) + q
    BY DEF DynIndex
  <2>. HIDE DEF q
  <2>3. q \in 1 .. Len(new) /\ Len(new) \in Nat
    BY <1>3, <1>7, <2>1
  <2>4. Len(dynsym) + q \in DOMAIN dynsym' /\ dynsym'[Len(dynsym) + q] = new[q]
    BY <1>8, <2>3
  <2>5. new[q] = Of(syms[j])
    BY <1>4, <1>5, <2>1
  <2>. QED
    BY <2>2, <2>4, <2>5
<1>. QED
  BY <1>9, <1>10 DEF Of

(* The relocations of one call refer to entries for their symbols, and     *)
(* those to the sections of the task at hand.                              *)
LEMMA SymbolsResolved ==
  ASSUME PlanOK, LoopOK, SectionsOK, RelaOK, AddSymbols,
         NEW slot \in SlotsIn(plan, at, next), slot[1] = at,
         NEW j \in DOMAIN syms, syms[j] = SymbolAt(plan, slot),
         NEW relocation, relocation = [pos |-> syms[j].pos, symbol |-> DynIndex(syms[j])]
  PROVE  Resolved(plan, slot, relocation, dynsym', sections)
<1>. DEFINE sym == SymbolAt(plan, slot)
            name == <<sym.section, Suffix>>
            section == Find(sections, name)
            entry == dynsym'[DynIndex(sym)]
<1>1. /\ PlanOf(input, kernel_map, plan) /\ SectionsOf(plan, at, next, sections)
      /\ RelaOf(plan, at, next, rela, syms, dynsym, sections)
  BY DEF PlanOK, SectionsOK, RelaOK
<1>2. IsSeq(syms) /\ IsSeq(dynsym)
  BY <1>1 DEF RelaOf
<1>3. /\ DynIndex(sym) \in DOMAIN dynsym'
      /\ entry = [name |-> sym.name, size |-> sym.size, section |-> section]
  BY <1>2, EntriesAre
<1>4. relocation.pos = sym.pos /\ relocation.symbol = DynIndex(sym)
  OBVIOUS
<1>5. /\ busy /\ next = Len(plan[at].writers) /\ at \in Nat \ {0} /\ at <= Len(plan) /\ Len(plan) \in Nat
      /\ next \in Nat /\ index = Count(plan, at - 1)
  <2>1. busy /\ next = Len(Task.writers)
    BY DEF AddSymbols
  <2>. QED
    BY <2>1, FinishedIs DEF LoopOK, Task
<1>6. Suffix = SuffixOf(plan, at)
  BY <1>5 DEF Suffix, SuffixOf, Task
<1>7. PICK w \in DoneIn(plan, at, next, at) : \E k \in DOMAIN plan[at].writers[w].symbols : slot = <<at, w, k>>
  <2>1. PICK t \in 1 .. at : \E w \in DoneIn(plan, at, next, t) :
          \E k \in DOMAIN plan[t].writers[w].symbols : slot = <<t, w, k>>
    BY SlotIs
  <2>2. t = at
    BY <2>1
  <2>. QED
    BY <2>1, <2>2
<1>8. PICK k \in DOMAIN plan[at].writers[w].symbols : slot = <<at, w, k>>
  BY <1>7
<1>9. sym = plan[at].writers[w].symbols[k]
  BY <1>8 DEF SymbolAt
<1>10. /\ TaskOK(input, kernel_map, plan[at]) /\ WritersOK(plan[at].writers)
       /\ DOMAIN plan[at].writers = 1 .. Len(plan[at].writers)
  BY <1>5, TaskKnown
<1>11. w \in DOMAIN plan[at].writers /\ plan[at].writers[w].size > 0
  BY DEF DoneIn, WrittenIn
<1>. HIDE DEF sym, name, section, entry
<1>12. PICK v \in DOMAIN plan[at].writers :
         plan[at].writers[v].size > 0 /\ plan[at].writers[v].name = sym.section
  BY <1>9, <1>10, <1>11 DEF WritersOK
<1>13. v \in DoneIn(plan, at, next, at)
  BY <1>5, <1>10, <1>12 DEF DoneIn, WrittenIn
<1>14. plan[at].kind # "kernel"
  <2>1. plan[at].writers[w].symbols # <<>>
    BY <1>8, NoSeq
  <2>. QED
    BY <1>10, <1>11, <2>1 DEF TaskOK
<1>15. name = <<plan[at].writers[v].name, SuffixOf(plan, at)>>
  BY <1>6, <1>12 DEF name
<1>16. at \in 0 .. Len(plan) /\ at \in 1 .. at
  BY <1>5
<1>17. section \in DOMAIN sections /\ sections[section].of = <<at, v>>
  <2>1. Find(sections, name) \in DOMAIN sections /\ sections[Find(sections, name)].of = <<at, v>>
    BY <1>1, <1>5, <1>13, <1>14, <1>15, <1>16, FindIs
  <2>. QED
    BY <2>1 DEF section
<1>18. sections[section].of[1] = at /\ sections[section].of[2] = v
  BY <1>17
<1>19. entry = dynsym'[relocation.symbol] /\ relocation.symbol \in DOMAIN dynsym'
  BY <1>3, <1>4 DEF entry
<1>20. entry.section = section /\ entry.name = sym.name /\ entry.size = sym.size
  BY <1>3
<1>21. sym = SymbolAt(plan, slot)
  BY DEF sym
<1>. QED
  BY <1>4, <1>12, <1>17, <1>18, <1>19, <1>20, <1>21 DEF Resolved

LEMMA RelaAddSymbols ==
  ASSUME PlanOK, LoopOK, SectionsOK, RelaOK, AddSymbols
  PROVE  RelaOK'
<1>. DEFINE S == SlotsIn(plan, at, next)
            made(sym) == [pos |-> sym.pos, symbol |-> DynIndex(sym)]
            new == [k \in DOMAIN syms |-> made(syms[k])]
            r == Len(rela)
<1>1. /\ UNCHANGED <<plan, at, next, dynamic, stage>> /\ syms' = <<>> /\ syms # <<>>
      /\ rela' = rela \o new /\ stage = "write"
  BY DEF AddSymbols, loop
<1>2. /\ IsSeq(rela) /\ IsSeq(syms) /\ IsSeq(dynsym) /\ IsFiniteSet(S)
      /\ Cardinality(S) = Len(rela) + Len(syms)
      /\ \A slot \in S : SlotOK(plan, at, S, slot, rela, syms, dynsym, sections)
      /\ HasDynamic(sections) <=> rela # <<>>
  BY DEF RelaOK, RelaOf
<1>3. r \in Nat /\ Len(syms) \in Nat /\ DOMAIN syms = 1 .. Len(syms)
  BY <1>2, SeqIs
<1>4. IsSeq(new) /\ Len(new) = Len(syms)
  <2>1. new = [k \in 1 .. Len(syms) |-> new[k]]
    BY <1>3
  <2>. HIDE DEF new
  <2>. QED
    BY <1>3, <2>1, SeqMade
<1>5. \A k \in DOMAIN syms : new[k] = made(syms[k])
  OBVIOUS
<1>. HIDE DEF new, S
<1>6. /\ IsSeq(rela') /\ Len(rela') = r + Len(syms)
      /\ \A k \in 1 .. r : rela'[k] = rela[k]
      /\ \A k \in 1 .. Len(syms) : rela'[r + k] = new[k]
  <2>1. /\ IsSeq(rela \o new) /\ Len(rela \o new) = Len(rela) + Len(new)
        /\ \A k \in 1 .. Len(rela) : (rela \o new)[k] = rela[k]
        /\ \A k \in 1 .. Len(new) : (rela \o new)[Len(rela) + k] = new[k]
    BY <1>2, <1>4, Joined
  <2>. QED
    BY <1>1, <1>4, <2>1
<1>7. Longer(dynsym, dynsym')
  BY <1>2, EntriesAre
<1>8. Longer(sections, sections') /\ HasDynamic(sections')
  <2>1. IsSeq(sections)
    BY DEF SectionsOK, SectionsOf
  <2>2. CASE HasDynamic(sections)
    <3>1. sections' = sections
      BY <2>2 DEF AddSymbols
    <3>. QED
      BY <2>1, <2>2, <3>1, LongerSame
  <2>3. CASE ~ HasDynamic(sections)
    <3>. DEFINE x == [name |-> <<".dynstr", -1>>, of |-> <<0, 0>>]
                y == [name |-> <<".dynsym", -1>>, of |-> <<0, 0>>]
                z == [name |-> <<".rela.dyn", -1>>, of |-> <<0, 0>>]
                t == <<x, y, z>>
    <3>1. sections' = sections \o t
      BY <2>3 DEF AddSymbols
    <3>2. x.name[1] \in DynamicNames
      BY DEF DynamicNames
    <3>. HIDE DEF x, y, z
    <3>3. t \in Seq({x, y, z}) /\ t[1] = x /\ Len(t) = 3
      OBVIOUS
    <3>. HIDE DEF t
    <3>4. IsSeq(t)
      BY <3>3, SeqTyped
    <3>5. Longer(sections, sections \o t)
      BY <2>1, <3>4, LongerJoined
    <3>6. /\ DOMAIN (sections \o t) = 1 .. Len(sections) + Len(t) /\ Len(sections) \in Nat
          /\ \A i \in 1 .. Len(t) : (sections \o t)[Len(sections) + i] = t[i]
      BY <2>1, <3>4, Joined, SeqIs
    <3>7. Len(sections) + 1 \in DOMAIN sections' /\ sections'[Len(sections) + 1] = x
      BY <3>1, <3>3, <3>6
    <3>8. HasDynamic(sections')
      BY <3>2, <3>7 DEF HasDynamic
    <3>. QED
      BY <3>1, <3>5, <3>8
  <2>. QED
    BY <2>2, <2>3
<1>9. IsSeq(sections)
  BY DEF SectionsOK, SectionsOf
<1>10. ASSUME NEW slot \in S
       PROVE  SlotOK(plan, at, S, slot, rela', <<>>, dynsym', sections')
  <2>. DEFINE place == PlaceIn(S, slot)
              old == rela[place]
              relocation == rela'[place]
  <2>1. \/ place \in 1 .. r /\ Resolved(plan, slot, old, dynsym, sections)
        \/ place - r \in 1 .. Len(syms) /\ slot[1] = at /\ syms[place - r] = SymbolAt(plan, slot)
    BY <1>2 DEF SlotOK
  <2>2. relocation = rela'[PlaceIn(S, slot)] /\ relocation = rela'[place] /\ old = rela[place]
    OBVIOUS
  <2>. HIDE DEF old, relocation
  <2>3. place = PlaceIn(S, slot)
    OBVIOUS
  <2>. HIDE DEF place, r
  <2>4. CASE place \in 1 .. r /\ Resolved(plan, slot, old, dynsym, sections)
    <3>1. Resolved(plan, slot, old, dynsym', sections')
      BY <1>7, <1>8, <2>4, ResolvedKept
    <3>2. relocation = old /\ place \in 1 .. Len(rela')
      BY <1>3, <1>6, <2>2, <2>4
    <3>. QED
      BY <2>2, <2>3, <3>1, <3>2 DEF SlotOK
  <2>5. CASE place - r \in 1 .. Len(syms) /\ slot[1] = at /\ syms[place - r] = SymbolAt(plan, slot)
    <3>. DEFINE j == place - r
    <3>1. place \in Int
      <4>1. {s \in S : UpTo(s, slot)} \in SUBSET S
        OBVIOUS
      <4>2. IsFiniteSet({s \in S : UpTo(s, slot)})
        BY <1>2, <4>1, FS_Subset
      <4>. QED
        BY <4>2, FS_CardinalityType DEF PlaceIn, place
    <3>2. j \in 1 .. Len(syms) /\ r + j = place /\ place \in 1 .. Len(rela')
      BY <1>3, <1>6, <2>5, <3>1
    <3>3. syms[j] = SymbolAt(plan, slot)
      BY <2>5
    <3>. HIDE DEF j
    <3>4. rela'[r + j] = new[j] /\ new[j] = made(syms[j]) /\ j \in DOMAIN syms
      BY <1>3, <1>5, <1>6, <3>2
    <3>5. relocation = [pos |-> syms[j].pos, symbol |-> DynIndex(syms[j])]
      BY <2>2, <3>2, <3>4
    <3>6. Resolved(plan, slot, relocation, dynsym', sections)
      BY <2>5, <3>3, <3>4, <3>5, SymbolsResolved DEF S
    <3>7. Longer(dynsym', dynsym')
      BY <1>7 DEF Longer
    <3>8. Resolved(plan, slot, relocation, dynsym', sections')
      BY <1>8, <3>6, <3>7, ResolvedKept
    <3>. QED
      BY <2>2, <2>3, <3>2, <3>8 DEF SlotOK
  <2>. QED
    BY <2>1, <2>4, <2>5 DEF r
<1>11. rela' # <<>>
  <2>1. Len(syms) # 0
    <3>1. syms = [k \in 1 .. Len(syms) |-> syms[k]]
      BY <1>2 DEF IsSeq
    <3>2. Len(syms) = 0 => syms = <<>>
      BY <1>2 DEF IsSeq
    <3>. QED
      BY <1>1, <3>2
  <2>2. Len(rela') # 0
    BY <1>3, <1>6, <2>1
  <2>. QED
    BY <2>2, NoSeq
<1>12. RelaOf(plan, at, next, rela', <<>>, dynsym', sections')
  <2>1. Cardinality(S) = Len(rela') + Len(<<>>)
    BY <1>2, <1>3, <1>6, NoSeq
  <2>2. IsSeq(dynsym')
    BY <1>7 DEF Longer
  <2>. QED
    BY <1>2, <1>6, <1>8, <1>10, <1>11, <2>1, <2>2, NoSeq DEF RelaOf, S
<1>13. RelaOf(plan', at', next', rela', syms', dynsym', sections')
  BY <1>1, <1>12
<1>14. dynamic' = NotThere /\ stage' # "done"
  BY <1>1 DEF RelaOK
<1>. QED
  BY <1>13, <1>14 DEF RelaOK

LEMMA InitRela == Init => RelaOK
<1>. SUFFICES ASSUME Init PROVE RelaOK
  OBVIOUS
<1>. DEFINE x == [name |-> <<".shstrtab", -1>>, of |-> <<0, 0>>]
<1>1. /\ at = 0 /\ rela = <<>> /\ syms = <<>> /\ dynsym = <<>> /\ sections = <<x>>
      /\ stage = "read" /\ dynamic = NotThere
  BY DEF Init, Fresh
<1>2. x.name[1] \notin DynamicNames
  BY DEF DynamicNames
<1>. HIDE DEF x
<1>3. ~ HasDynamic(sections)
  BY <1>1, <1>2 DEF HasDynamic
<1>4. RelaOf(plan, 0, next, <<>>, <<>>, <<>>, sections)
  BY <1>3, EmptyRela
<1>. QED
  BY <1>1, <1>4 DEF RelaOK

LEMMA RelaAddSection ==
  ASSUME PlanOK, LoopOK, SectionsOK, RelaOK, AddSection
  PROVE  RelaOK'
<1>. DEFINE d == next + 1
            y == plan[at].writers[d].symbols
<1>1. /\ at \in Nat \ {0} /\ at <= Len(plan) /\ next \in Nat /\ d \in WrittenIn(plan, at)
      /\ at' = at /\ next' = d /\ plan' = plan
      /\ \A t \in 1 .. at : WrittenIn(plan, t) \subseteq Nat
  BY AddSectionIs
<1>2. /\ UNCHANGED <<rela, dynsym, dynamic, stage>> /\ syms' = syms \o y
  BY DEF AddSection, Writer, Task
<1>3. IsSeq(y)
  <2>1. at \in 1 .. Len(plan)
    BY <1>1, TaskKnown
  <2>2. WritersOK(plan[at].writers)
    BY <2>1, TaskKnown
  <2>3. d \in DOMAIN plan[at].writers
    BY <1>1 DEF WrittenIn
  <2>. HIDE DEF d
  <2>. QED
    BY <2>2, <2>3 DEF WritersOK
<1>4. Longer(sections, sections') /\ (HasDynamic(sections') <=> HasDynamic(sections))
  <2>1. ~ AddSymbols /\ [Next]_vars
    BY <1>1 DEF AddSection, AddSymbols, Next, Task
  <2>. QED
    BY <2>1, DynamicStep
<1>5. d \in Nat /\ d = next + 1
  BY <1>1
<1>6. plan[at].writers[d].symbols = y
  OBVIOUS
<1>. HIDE DEF d, y
<1>7. RelaOf(plan, at, next, rela, syms, dynsym, sections)
  BY DEF RelaOK
<1>8. RelaOf(plan, at, d, rela, syms \o y, dynsym, sections')
  BY <1>1, <1>3, <1>4, <1>5, <1>6, <1>7, RelaWriter
<1>9. RelaOf(plan', at', next', rela', syms', dynsym', sections')
  BY <1>1, <1>2, <1>8
<1>. QED
  BY <1>2, <1>9 DEF RelaOK

(* The steps that add no relocation and no symbol.                         *)
LEMMA RelaStays ==
  ASSUME PlanOK, LoopOK, SectionsOK, RelaOK, [Next]_vars, ~ AddSymbols,
         UNCHANGED <<rela, syms, dynsym>>,
         \/ plan' = plan /\ at' = at /\ next' = next
         \/ Start \/ PassOver
         \/ at = 0 /\ at' = 0
  PROVE  RelaOf(plan', at', next', rela', syms', dynsym', sections')
<1>1. RelaOf(plan, at, next, rela, syms, dynsym, sections)
  BY DEF RelaOK
<1>2. Longer(sections, sections') /\ (HasDynamic(sections') <=> HasDynamic(sections))
  BY DynamicStep
<1>3. RelaOf(plan, at, next, rela, syms, dynsym, sections')
  BY <1>1, <1>2, RelaKept
<1>4. CASE plan' = plan /\ at' = at /\ next' = next
  BY <1>3, <1>4
<1>5. CASE Start \/ PassOver
  <2>1. plan' = plan /\ (at' = at \/ syms = <<>>)
    BY <1>5 DEF Start, PassOver, loop, LoopOK
  <2>2. \A t : \A w : (t \in 1 .. at /\ w \in DoneIn(plan, at, next, t)) <=>
                        (t \in 1 .. at' /\ w \in DoneIn(plan, at', next', t))
    BY <1>5, StartDone, PassDone
  <2>3. SlotsIn(plan, at', next') = SlotsIn(plan, at, next)
    BY <2>2, SlotsSame
  <2>4. RelaOf(plan, at', next', rela, syms, dynsym, sections')
    BY <1>1, <1>2, <2>1, <2>3, RelaKept
  <2>. QED
    BY <2>1, <2>4
<1>6. CASE at = 0 /\ at' = 0
  <2>1. SlotsIn(plan, 0, next) = {} /\ SlotsIn(plan', 0, next') = {}
    BY NoSlots
  <2>2. RelaOf(plan', 0, next', rela, syms, dynsym, sections')
    BY <1>3, <1>6, <2>1 DEF RelaOf
  <2>. QED
    BY <1>6, <2>2
<1>. QED
  BY <1>4, <1>5, <1>6

LEMMA RelaInvariant ==
  ASSUME PlanOK, LoopOK, SectionsOK, RelaOK, [Next]_vars
  PROVE  RelaOK'
<1>1. CASE AddSection
  BY <1>1, RelaAddSection
<1>2. CASE AddSymbols
  BY <1>2, RelaAddSymbols
<1>3. ASSUME RelaOf(plan', at', next', rela', syms', dynsym', sections'),
             dynamic' = dynamic, rela' = rela, stage' = "done" <=> stage = "done"
      PROVE  RelaOK'
  BY <1>3 DEF RelaOK
<1>4. CASE EncodeKernel \/ EncodeInstance \/ EncodeCode
  <2>1. UNCHANGED <<at, rela, syms, dynsym, dynamic, stage>> /\ at = 0
    BY <1>4 DEF EncodeKernel, EncodeInstance, EncodeCode, Encoding, Encode, LoopOK, helper, elf
  <2>. QED
    BY <1>2, <1>3, <2>1, RelaStays
<1>5. CASE Start
  <2>1. UNCHANGED <<rela, syms, dynsym, dynamic, stage>>
    BY <1>5 DEF Start, LoopOK
  <2>. QED
    BY <1>2, <1>3, <1>5, <2>1, RelaStays
<1>6. CASE PassOver
  <2>1. UNCHANGED <<rela, syms, dynsym, dynamic, stage>>
    BY <1>6 DEF PassOver, elf
  <2>. QED
    BY <1>2, <1>3, <1>6, <2>1, RelaStays
<1>7. CASE ReadKernel \/ RejectPdis \/ EndOfConfig \/ EncodeNothing \/ RejectPartition \/ StartElf
  <2>1. UNCHANGED <<plan, at, next, rela, syms, dynsym, dynamic>> /\ stage' # "done" /\ stage # "done"
    BY <1>7 DEF ReadKernel, Reading, RejectPdis, EndOfConfig, EncodeNothing, RejectPartition, StartElf,
       Encoding, loop, helper, elf
  <2>. QED
    BY <1>2, <1>3, <2>1, RelaStays
<1>8. CASE AddGroup \/ EndOfCommon \/ Ended \/ UNCHANGED vars
  <2>1. UNCHANGED <<plan, at, next, rela, syms, dynsym, dynamic, stage>>
    BY <1>8 DEF AddGroup, EndOfCommon, Ended, vars, loop, helper, elf
  <2>. QED
    BY <1>2, <1>3, <2>1, RelaStays
<1>9. CASE Finalize
  <2>1. /\ UNCHANGED <<plan, at, next, rela, syms, dynsym>> /\ stage = "write" /\ stage' = "done"
        /\ dynamic' = IF HasDynamic(sections) THEN [relasz |-> Len(rela)] ELSE dynamic
    BY <1>9 DEF Finalize, AddDynamic, loop, helper
  <2>2. CASE ~ AddSymbols
    <3>1. RelaOf(plan', at', next', rela', syms', dynsym', sections')
      BY <2>1, <2>2, RelaStays
    <3>2. dynamic = NotThere /\ (HasDynamic(sections) <=> rela # <<>>)
      BY <2>1 DEF RelaOK, RelaOf
    <3>. QED
      BY <2>1, <3>1, <3>2 DEF RelaOK
  <2>. QED
    BY <1>2, <2>2
<1>. QED
  BY <1>1, <1>2, <1>4, <1>5, <1>6, <1>7, <1>8, <1>9 DEF Next

(***************************************************************************)
(* The invariant.                                                          *)
(***************************************************************************)
LEMMA ElfStep ==
  ASSUME ElfInv, [Next]_vars
  PROVE  ElfInv'
<1>1. ReadOK /\ PlanOK /\ LoopOK /\ SectionsOK /\ LoadsOK /\ SymtabOK /\ GroupsOK /\ RelaOK
  BY DEF ElfInv
<1>2. ReadOK' /\ PlanOK' /\ LoopOK' /\ SectionsOK'
  BY <1>1, ReadInvariant, PlanInvariant, LoopInvariant, SectionsInvariant
<1>3. LoadsOK' /\ SymtabOK' /\ GroupsOK' /\ RelaOK'
  BY <1>1, LoadsInvariant, SymtabInvariant, GroupsInvariant, RelaInvariant
<1>. QED
  BY <1>2, <1>3 DEF ElfInv

(* Everything above holds of the converter as it reads, encodes and writes.*)
THEOREM ElfInvariant == Spec => []ElfInv
<1>1. Init => ElfInv
  BY InitRead, InitPlan, InitLoop, InitSections, InitLoads, InitSymtab, InitGroups, InitRela DEF ElfInv
<1>2. ElfInv /\ [Next]_vars => ElfInv'
  BY ElfStep
<1>. QED
  BY <1>1, <1>2, PTL DEF Spec

(***************************************************************************)
(* The properties.                                                         *)
(***************************************************************************)
LEMMA LoadsThen ==
  ASSUME LoadsOK
  PROVE  LoadsOwnSection
<1>. SUFFICES ASSUME CommonDistinct
     PROVE  /\ {segments[k].section : k \in Loads} = CodeSections
            /\ \A j, k \in Loads : segments[j].section = segments[k].section => j = k
  BY DEF LoadsOwnSection
<1>1. Loads = LoadsOf(segments) /\ CodeSections = Code(sections)
  BY DEF Loads, LoadsOf, CodeSections, Code
<1>2. Distinct(kernel_map)
  BY DEF CommonDistinct, Distinct
<1>3. LoadsRight(sections, segments)
  BY <1>2 DEF LoadsOK
<1>. QED
  BY <1>1, <1>3 DEF LoadsRight

(* The n-th group is that of the n-th instance: it has been written, and   *)
(* its suffix is n - 1.                                                    *)
LEMMA GroupFor ==
  ASSUME PlanOK, LoopOK, GroupsOK, NEW n \in DOMAIN groups
  PROVE  LET t == Nth(InstanceTasks, n) IN
         /\ t \in InstanceTasks /\ t \in 1 .. Len(plan) /\ Count(plan, t) = n
         /\ GroupRight(sections, symtab, t, plan[t], groups[n])
<1>. DEFINE t == Nth(InstanceTasks, n)
<1>1. /\ at \in Nat /\ Finished \in Nat /\ Finished <= Len(plan) /\ Len(plan) \in Nat
      /\ DOMAIN plan = 1 .. Len(plan)
  BY FinishedIs, TaskKnown
<1>2. index = Count(plan, Finished) /\ IsSeq(groups) /\ Len(groups) = index
  BY DEF LoopOK, GroupsOK
<1>3. n \in 1 .. Count(plan, Finished)
  BY <1>2, SeqIs
<1>4. InstanceTasks = Instances(plan, Len(plan))
  BY <1>1 DEF InstanceTasks, Instances
<1>5. Numbers(InstanceTasks)
  <2>1. IsFiniteSet(InstanceTasks)
    BY <1>1, <1>4, CountIs
  <2>2. InstanceTasks \subseteq Nat
    BY <1>1 DEF InstanceTasks
  <2>. QED
    BY <2>1, <2>2 DEF Numbers
<1>6. Count(plan, Finished) \in Nat /\ Count(plan, Len(plan)) \in Nat
      /\ Count(plan, Finished) <= Count(plan, Len(plan))
  BY <1>1, CountIs, CountGrows
<1>7. n \in 1 .. Cardinality(InstanceTasks)
  BY <1>3, <1>4, <1>6 DEF Count
<1>8. t \in InstanceTasks /\ Rank(InstanceTasks, t) = n
  BY <1>5, <1>7, NthExists
<1>. HIDE DEF t
<1>9. t \in 1 .. Len(plan) /\ plan[t].kind = "instance"
  BY <1>1, <1>8 DEF InstanceTasks
<1>10. Count(plan, t) = n
  <2>1. {s \in InstanceTasks : s <= t} = Instances(plan, t)
    BY <1>1, <1>9 DEF InstanceTasks, Instances
  <2>. QED
    BY <1>8, <2>1 DEF Rank, Count
<1>11. t \in 1 .. Finished
  <2>1. CASE t > Finished
    <3>1. t - 1 \in Nat /\ Finished <= t - 1 /\ t \in Nat \ {0}
      BY <1>1, <1>9, <2>1
    <3>2. Count(plan, Finished) <= Count(plan, t - 1)
      BY <1>1, <3>1, CountGrows
    <3>3. SuffixOf(plan, t) + 1 = n /\ SuffixOf(plan, t) = Count(plan, t - 1) /\ SuffixOf(plan, t) \in Nat
      BY <1>9, <1>10, <3>1, SuffixIs DEF SuffixOf
    <3>. QED
      BY <1>3, <1>6, <3>2, <3>3
  <2>. QED
    BY <1>1, <1>9, <2>1
<1>12. SuffixOf(plan, t) + 1 = n
  BY <1>1, <1>9, <1>10, SuffixIs
<1>13. GroupRight(sections, symtab, t, plan[t], groups[n])
  BY <1>9, <1>11, <1>12 DEF GroupsOK
<1>. QED
  BY <1>8, <1>9, <1>10, <1>13 DEF t

LEMMA GroupsThen ==
  ASSUME PlanOK, LoopOK, GroupsOK
  PROVE  GroupsDivideSections
<1>. SUFFICES ASSUME NEW n \in DOMAIN groups
     PROVE  LET t == Nth(InstanceTasks, n) IN
            /\ ToSet(groups[n].members) = {k \in CodeSections : sections[k].of[1] = t}
            /\ IsInjective(groups[n].members)
            /\ symtab[groups[n].info].name = plan[t].id
            /\ symtab[symtab[groups[n].info].section].name = plan[t].kernel
  BY DEF GroupsDivideSections
<1>. DEFINE t == Nth(InstanceTasks, n)
<1>1. GroupRight(sections, symtab, t, plan[t], groups[n])
  BY GroupFor
<1>. HIDE DEF t
<1>2. MadeFor(sections, t) = {k \in CodeSections : sections[k].of[1] = t}
  BY DEF MadeFor, CodeSections
<1>3. /\ ToSet(groups[n].members) = {k \in CodeSections : sections[k].of[1] = t}
      /\ IsInjective(groups[n].members)
      /\ symtab[groups[n].info].name = plan[t].id
      /\ symtab[symtab[groups[n].info].section].name = plan[t].kernel
  BY <1>1, <1>2 DEF GroupRight, NamesTask
<1>. QED
  BY <1>3 DEF t

(* At the end all the writers are done.                                    *)
LEMMA AllDone ==
  ASSUME PlanOK, LoopOK, stage = "done"
  PROVE  /\ at = Len(plan) /\ DOMAIN plan = 1 .. at /\ at \in Nat
         /\ \A t \in 1 .. at : DoneIn(plan, at, next, t) = WrittenIn(plan, t)
<1>1. /\ at = Len(plan) /\ Len(plan) \in Nat /\ DOMAIN plan = 1 .. Len(plan)
      /\ at > 0 => next = Len(plan[at].writers)
  BY TaskKnown DEF LoopOK
<1>2. ASSUME NEW t \in 1 .. at
      PROVE  DoneIn(plan, at, next, t) = WrittenIn(plan, t)
  <2>1. DOMAIN plan[t].writers = 1 .. Len(plan[t].writers) /\ Len(plan[t].writers) \in Nat
    BY <1>1, TaskKnown
  <2>2. t = at => next = Len(plan[t].writers)
    BY <1>1
  <2>3. \A w \in DOMAIN plan[t].writers : t = at => w <= next
    BY <2>1, <2>2
  <2>. QED
    BY <2>3 DEF DoneIn, WrittenIn
<1>. QED
  BY <1>1, <1>2

LEMMA RelaThen ==
  ASSUME PlanOK, LoopOK, RelaOK
  PROVE  RelocationsResolve
<1>. SUFFICES ASSUME stage = "done"
     PROVE  /\ Len(rela) = Cardinality(Slots)
            /\ dynamic = IF rela = <<>> THEN NotThere ELSE [relasz |-> Len(rela)]
            /\ \A slot \in Slots :
                 LET sym == plan[slot[1]].writers[slot[2]].symbols[slot[3]]
                     relocation == rela[SlotPlace(slot)]
                     entry == dynsym[relocation.symbol]
                     section == sections[entry.section]
                 IN /\ relocation.pos = sym.pos
                    /\ entry.name = sym.name /\ entry.size = sym.size
                    /\ section.of[1] = slot[1]
                    /\ plan[slot[1]].writers[section.of[2]].name = sym.section
  BY DEF RelocationsResolve
<1>1. /\ at = Len(plan) /\ ~ busy /\ syms = <<>> /\ Len(plan) \in Nat /\ DOMAIN plan = 1 .. Len(plan)
      /\ at > 0 => next = Len(plan[at].writers)
  BY TaskKnown DEF LoopOK
<1>2. RelaOf(plan, at, next, rela, syms, dynsym, sections)
  BY DEF RelaOK
<1>3. \A t \in 1 .. at : DoneIn(plan, at, next, t) = Written(t)
  BY AllDone DEF WrittenIn, Written
<1>4. DOMAIN plan = 1 .. at
  BY <1>1
<1>. DEFINE S == SlotsIn(plan, at, next)
<1>5. Slots = S
  BY <1>3, <1>4 DEF Slots, SlotsIn
<1>6. /\ Cardinality(S) = Len(rela) + Len(syms) /\ IsSeq(rela)
      /\ \A slot \in S : SlotOK(plan, at, S, slot, rela, syms, dynsym, sections)
  BY <1>2 DEF RelaOf
<1>7. Len(syms) = 0 /\ Len(rela) \in Nat
  BY <1>1, <1>6, NoSeq, SeqIs
<1>. HIDE DEF S
<1>8. Len(rela) = Cardinality(Slots)
  BY <1>5, <1>6, <1>7
<1>9. dynamic = IF rela = <<>> THEN NotThere ELSE [relasz |-> Len(rela)]
  BY DEF RelaOK
<1>10. ASSUME NEW slot \in Slots
       PROVE  Resolved(plan, slot, rela[SlotPlace(slot)], dynsym, sections)
  <2>1. SlotPlace(slot) = PlaceIn(S, slot)
    BY <1>5 DEF SlotPlace, PlaceIn
  <2>2. SlotOK(plan, at, S, slot, rela, syms, dynsym, sections)
    BY <1>5, <1>6
  <2>3. Resolved(plan, slot, rela[PlaceIn(S, slot)], dynsym, sections)
    BY <1>7, <2>2 DEF SlotOK
  <2>. QED
    BY <2>1, <2>3
<1>11. \A slot \in Slots :
         LET sym == plan[slot[1]].writers[slot[2]].symbols[slot[3]]
             relocation == rela[SlotPlace(slot)]
             entry == dynsym[relocation.symbol]
             section == sections[entry.section]
         IN /\ relocation.pos = sym.pos
            /\ entry.name = sym.name /\ entry.size = sym.size
            /\ section.of[1] = slot[1]
            /\ plan[slot[1]].writers[section.of[2]].name = sym.section
  BY <1>10 DEF Resolved, SymbolAt
<1>. QED
  BY <1>8, <1>9, <1>11

(* Every relocation of the ELF is at its symbol's place, through an entry  *)
(* of .dynsym for its name and size, to the section made for its own       *)
(* instance (elf_writer::process_common_helper), however many kernels and  *)
(* instances share names.                                                  *)
THEOREM Relocations == Spec => []RelocationsResolve
<1>1. ElfInv => RelocationsResolve
  BY RelaThen DEF ElfInv
<1>. QED
  BY <1>1, ElfInvariant, PTL

(* Each section with code or data has one load segment and each load       *)
(* segment one section (elf_writer::add_text_data_section looks the        *)
(* section up by name), if no two kernels have a PDI of one number.        *)
THEOREM Segments == Spec => []LoadsOwnSection
<1>1. ElfInv => LoadsOwnSection
  BY LoadsThen DEF ElfInv
<1>. QED
  BY <1>1, ElfInvariant, PTL

(* The groups divide the sections of the instances, and each names its     *)
(* instance and kernel (elf_writer's loop over the kernels).               *)
THEOREM Groups == Spec => []GroupsDivideSections
<1>1. ElfInv => GroupsDivideSections
  BY GroupsThen DEF ElfInv
<1>. QED
  BY <1>1, ElfInvariant, PTL

(***************************************************************************)
(* Which instance of a name there is, and what its group holds.            *)
(***************************************************************************)
(* The instance in the map is that of the last entry read that has it, and *)
(* the last of the name there.                                             *)
LatestOf(i, r, m) ==
  \A n \in DOMAIN m : \A id \in DOMAIN m[n].instances :
    \E e \in 1 .. r :
      /\ InEntry(i.entries[e], n, id)
      /\ \A d \in e + 1 .. r : ~ InEntry(i.entries[d], n, id)
      /\ m[n].instances[id] = ById(i.entries[e].instances)[id]

LatestOK == LatestOf(input, read, kernel_map)

(* An instance is planned once, with the writers of the one in the map.    *)
PlannedRight(m, p) ==
  /\ \A t \in DOMAIN p : p[t].kind = "instance" =>
       p[t].writers = WritersOf(m[p[t].kernel].instances[p[t].id])
  /\ \A s \in DOMAIN p : \A t \in DOMAIN p :
       p[s].kind = "instance" /\ p[t].kind = "instance"
         /\ p[s].kernel = p[t].kernel /\ p[s].id = p[t].id => s = t

PlannedOK == PlannedRight(kernel_map, plan)

LEMMA OverFirst ==
  ASSUME NEW f, NEW g
  PROVE  /\ \A x \in DOMAIN f : Over(f, g)[x] = f[x]
         /\ \A x \in DOMAIN g : x \notin DOMAIN f => Over(f, g)[x] = g[x]
BY DEF Over

LEMMA WithEntryLatest ==
  ASSUME NEW entry, IsSeq(entry.instances)
  PROVE  \A n \in DOMAIN WithEntry(entry) : \A id \in DOMAIN WithEntry(entry)[n].instances :
           \/ /\ InEntry(entry, n, id)
              /\ WithEntry(entry)[n].instances[id] = ById(entry.instances)[id]
           \/ /\ ~ InEntry(entry, n, id)
              /\ n \in DOMAIN kernel_map /\ id \in DOMAIN kernel_map[n].instances
              /\ WithEntry(entry)[n].instances[id] = kernel_map[n].instances[id]
<1>. DEFINE m == WithEntry(entry)
            name == entry.name
            f == ById(entry.instances)
<1>1. \A id : id \in DOMAIN f <=> \E k \in DOMAIN entry.instances : entry.instances[k].id = id
  BY ByIdIs
<1>2. CASE entry.pdis = <<>> /\ entry.instances = <<>>
  <2>1. m = kernel_map
    BY <1>2 DEF WithEntry
  <2>2. \A n, id : ~ InEntry(entry, n, id)
    BY <1>2 DEF InEntry
  <2>. HIDE DEF m
  <2>. QED
    BY <2>1, <2>2 DEF m
<1>3. CASE ~ (entry.pdis = <<>> /\ entry.instances = <<>>)
  <2>. DEFINE old == KernelOf(name)
              g == old.instances
              new == [common |-> Over(ById(entry.pdis), old.common), instances |-> Over(f, g)]
  <2>1. m = With(kernel_map, name, new)
    BY <1>3 DEF WithEntry
  <2>2. new.instances = Over(f, g)
    OBVIOUS
  <2>3. /\ name \in DOMAIN kernel_map => g = kernel_map[name].instances
        /\ name \notin DOMAIN kernel_map => DOMAIN g = {}
    BY DEF KernelOf, NoKernel
  <2>. HIDE DEF m, new, f, g, old
  <2>4. /\ DOMAIN m = DOMAIN kernel_map \cup {name}
        /\ m[name] = new
        /\ \A n \in DOMAIN kernel_map : n # name => m[n] = kernel_map[n]
    <3>1. m = [x \in DOMAIN kernel_map \cup {name} |-> IF x = name THEN new ELSE kernel_map[x]]
      BY <2>1 DEF With
    <3>. QED
      BY <3>1
  <2>5. ASSUME NEW n \in DOMAIN m, NEW id \in DOMAIN m[n].instances
        PROVE  \/ InEntry(entry, n, id) /\ m[n].instances[id] = f[id]
               \/ /\ ~ InEntry(entry, n, id)
                  /\ n \in DOMAIN kernel_map /\ id \in DOMAIN kernel_map[n].instances
                  /\ m[n].instances[id] = kernel_map[n].instances[id]
    <3>1. CASE n # name
      <4>1. ~ InEntry(entry, n, id)
        BY <3>1 DEF InEntry
      <4>. QED
        BY <2>4, <3>1, <4>1
    <3>2. CASE n = name /\ id \in DOMAIN f
      <4>1. InEntry(entry, n, id)
        BY <1>1, <3>2 DEF InEntry
      <4>2. Over(f, g)[id] = f[id]
        BY <3>2, OverFirst
      <4>. QED
        BY <2>2, <2>4, <3>2, <4>1, <4>2
    <3>3. CASE n = name /\ id \notin DOMAIN f
      <4>1. ~ InEntry(entry, n, id)
        BY <1>1, <3>3 DEF InEntry
      <4>2. id \in DOMAIN Over(f, g)
        BY <2>2, <2>4, <3>3
      <4>3. id \in DOMAIN g
        BY <3>3, <4>2, OverIs
      <4>4. Over(f, g)[id] = g[id]
        BY <3>3, <4>3, OverFirst
      <4>5. name \in DOMAIN kernel_map /\ g = kernel_map[name].instances
        BY <2>3, <4>3
      <4>. QED
        BY <2>2, <2>4, <3>3, <4>1, <4>3, <4>4, <4>5
    <3>. QED
      BY <3>1, <3>2, <3>3
  <2>. QED
    BY <2>5 DEF m, f
<1>. QED
  BY <1>2, <1>3

LEMMA LatestRead ==
  ASSUME ReadOK, LatestOK, ReadKernel
  PROVE  LatestOK'
<1>1. /\ input' = input /\ kernel_map' = WithEntry(Entry) /\ read' = read + 1
      /\ stage = "read" /\ read < Len(input.entries)
  BY DEF ReadKernel, Reading
<1>2. /\ Len(input.entries) \in Nat /\ read \in Nat /\ read + 1 \in DOMAIN input.entries
      /\ IsSeq(Entry.instances) /\ Entry = input.entries[read + 1]
  BY <1>1, InputKnown DEF ReadOK, Entry, EntryOK
<1>3. \A n \in DOMAIN kernel_map' : \A id \in DOMAIN kernel_map'[n].instances :
        \/ /\ InEntry(Entry, n, id)
           /\ kernel_map'[n].instances[id] = ById(Entry.instances)[id]
        \/ /\ ~ InEntry(Entry, n, id)
           /\ n \in DOMAIN kernel_map /\ id \in DOMAIN kernel_map[n].instances
           /\ kernel_map'[n].instances[id] = kernel_map[n].instances[id]
  BY <1>1, <1>2, WithEntryLatest
<1>4. ASSUME NEW n \in DOMAIN kernel_map', NEW id \in DOMAIN kernel_map'[n].instances
      PROVE  \E e \in 1 .. read + 1 :
               /\ InEntry(input.entries[e], n, id)
               /\ \A d \in e + 1 .. read + 1 : ~ InEntry(input.entries[d], n, id)
               /\ kernel_map'[n].instances[id] = ById(input.entries[e].instances)[id]
  <2>1. CASE InEntry(Entry, n, id)
    <3>1. kernel_map'[n].instances[id] = ById(input.entries[read + 1].instances)[id]
      BY <1>2, <1>3, <2>1
    <3>2. (read + 1) + 1 .. read + 1 = {} /\ read + 1 \in 1 .. read + 1
      BY <1>2
    <3>. QED
      BY <1>2, <2>1, <3>1, <3>2
  <2>2. CASE ~ InEntry(Entry, n, id)
    <3>1. /\ n \in DOMAIN kernel_map /\ id \in DOMAIN kernel_map[n].instances
          /\ kernel_map'[n].instances[id] = kernel_map[n].instances[id]
      BY <1>3, <2>2
    <3>2. PICK e \in 1 .. read :
            /\ InEntry(input.entries[e], n, id)
            /\ \A d \in e + 1 .. read : ~ InEntry(input.entries[d], n, id)
            /\ kernel_map[n].instances[id] = ById(input.entries[e].instances)[id]
      BY <3>1 DEF LatestOK, LatestOf
    <3>3. ASSUME NEW d \in e + 1 .. read + 1
          PROVE  ~ InEntry(input.entries[d], n, id)
      <4>1. d \in e + 1 .. read \/ d = read + 1
        BY <1>2
      <4>. QED
        BY <1>2, <2>2, <3>2, <4>1
    <3>4. e \in 1 .. read + 1
      BY <1>2
    <3>. QED
      BY <3>1, <3>2, <3>3, <3>4
  <2>. QED
    BY <2>1, <2>2
<1>. QED
  BY <1>1, <1>4 DEF LatestOK, LatestOf

LEMMA LatestInvariant ==
  ASSUME ReadOK, LatestOK, [Next]_vars
  PROVE  LatestOK'
<1>1. CASE ReadKernel
  BY <1>1, LatestRead
<1>2. ASSUME UNCHANGED config
      PROVE  LatestOK'
  BY <1>2 DEF LatestOK, config
<1>3. CASE RejectPdis \/ EndOfConfig \/ EncodeNothing \/ EncodeKernel \/ EncodeInstance
             \/ RejectPartition \/ EncodeCode \/ StartElf
  BY <1>2, <1>3 DEF RejectPdis, EndOfConfig, EncodeNothing, EncodeKernel, EncodeInstance,
                    RejectPartition, EncodeCode, StartElf, Encode
<1>4. CASE Start \/ PassOver \/ AddSection \/ AddSymbols \/ AddGroup \/ EndOfCommon \/ Finalize
  BY <1>2, <1>4 DEF Start, PassOver, AddSection, AddSymbols, AddGroup, EndOfCommon, Finalize
<1>5. CASE Ended \/ UNCHANGED vars
  BY <1>2, <1>5 DEF Ended, vars
<1>. QED
  BY <1>1, <1>3, <1>4, <1>5 DEF Next

LEMMA PlannedGrows ==
  ASSUME NEW m, NEW p, IsSeq(p), PlannedRight(m, p), NEW task,
         task.kind = "instance" =>
           /\ task.writers = WritersOf(m[task.kernel].instances[task.id])
           /\ ~ PlannedIn(p, task.kernel, task.id)
  PROVE  PlannedRight(m, Append(p, task))
<1>. DEFINE q == Append(p, task)
            n == Len(p)
<1>1. n \in Nat /\ DOMAIN p = 1 .. n
  BY SeqIs
<1>2. /\ DOMAIN q = 1 .. n + 1
      /\ \A k \in 1 .. n : q[k] = p[k]
      /\ q[n + 1] = task
  BY Appended
<1>. HIDE DEF q, n
<1>3. \A t \in DOMAIN q : (t \in DOMAIN p /\ q[t] = p[t]) \/ (t = n + 1 /\ q[t] = task)
  BY <1>1, <1>2
<1>4. ASSUME NEW t \in DOMAIN q, q[t].kind = "instance"
      PROVE  q[t].writers = WritersOf(m[q[t].kernel].instances[q[t].id])
  BY <1>3, <1>4 DEF PlannedRight
<1>5. ASSUME NEW s \in DOMAIN q, NEW t \in DOMAIN q,
             q[s].kind = "instance", q[t].kind = "instance",
             q[s].kernel = q[t].kernel, q[s].id = q[t].id
      PROVE  s = t
  BY <1>3, <1>5 DEF PlannedRight, PlannedIn
<1>6. PlannedRight(m, q)
  BY <1>4, <1>5 DEF PlannedRight
<1>. QED
  BY <1>6 DEF q

LEMMA PlannedStep ==
  ASSUME PlanOK, PlannedOK, NEW task, Encode(task),
         task.kind = "instance" =>
           /\ task.writers = WritersOf(kernel_map[task.kernel].instances[task.id])
           /\ ~ PlannedIn(plan, task.kernel, task.id)
  PROVE  PlannedOK'
<1>1. plan' = Append(plan, task) /\ input' = input /\ kernel_map' = kernel_map
  BY DEF Encode, config
<1>2. IsSeq(plan)
  BY DEF PlanOK, PlanOf
<1>3. PlannedRight(kernel_map, Append(plan, task))
  BY <1>2, PlannedGrows DEF PlannedOK
<1>. QED
  BY <1>1, <1>3 DEF PlannedOK, PlannedRight, WritersOf

LEMMA PlannedInstance ==
  ASSUME ReadOK, PlanOK, PlannedOK, EncodeInstance
  PROVE  PlannedOK'
<1>. DEFINE id == Min(InstancesLeft)
            task == [kind |-> "instance", kernel |-> AtHand, id |-> id,
                     writers |-> WritersOf(NextInstance)]
<1>1. input.config /\ InstancesLeft # {} /\ Encode(task)
  BY DEF EncodeInstance, Encoding
<1>2. plan # <<>>
  BY <1>1 DEF InstancesLeft
<1>3. AtHand \in DOMAIN kernel_map
  BY <1>1, <1>2, AtHandKnown
<1>4. InstancesLeft \subseteq DOMAIN kernel_map[AtHand].instances
  BY DEF InstancesLeft
<1>5. DOMAIN kernel_map[AtHand].instances \subseteq Nat
  BY <1>3 DEF ReadOK, KernelsOf, KernelOK
<1>6. id \in InstancesLeft
  <2>1. InstancesLeft \subseteq Nat
    BY <1>4, <1>5
  <2>. QED
    BY <1>1, <2>1, MinIs
<1>7. ~ PlannedIn(plan, AtHand, id)
  BY <1>1, <1>2, <1>6 DEF InstancesLeft, PlannedIn
<1>8. /\ task.kernel = AtHand /\ task.id = id
      /\ task.writers = WritersOf(kernel_map[AtHand].instances[id])
  BY DEF NextInstance
<1>. HIDE DEF task, id
<1>. QED
  BY <1>1, <1>7, <1>8, PlannedStep

LEMMA PlannedInvariant ==
  ASSUME ReadOK, PlanOK, PlannedOK, [Next]_vars
  PROVE  PlannedOK'
<1>1. CASE ReadKernel
  <2>1. plan' = <<>>
    BY <1>1 DEF ReadKernel, Reading, PlanOK, loop
  <2>2. DOMAIN plan' = {}
    BY <2>1, NoSeq
  <2>. QED
    BY <2>2 DEF PlannedOK, PlannedRight
<1>2. CASE EncodeKernel
  <2>1. PICK task : Encode(task) /\ task.kind = "kernel"
    BY <1>2 DEF EncodeKernel
  <2>. QED
    BY <2>1, PlannedStep
<1>3. CASE EncodeCode
  <2>1. PICK task : Encode(task) /\ task.kind = "code"
    BY <1>3 DEF EncodeCode
  <2>. QED
    BY <2>1, PlannedStep
<1>4. ASSUME UNCHANGED <<config, plan>>
      PROVE  PlannedOK'
  BY <1>4 DEF PlannedOK, PlannedRight, WritersOf, config
<1>5. CASE RejectPdis \/ EndOfConfig \/ EncodeNothing \/ RejectPartition \/ StartElf
  <2>1. RejectPdis \/ EndOfConfig => UNCHANGED <<config, plan>>
    BY DEF RejectPdis, EndOfConfig, loop
  <2>2. EncodeNothing \/ RejectPartition \/ StartElf => UNCHANGED <<config, plan>>
    BY DEF EncodeNothing, RejectPartition, StartElf, loop
  <2>. QED
    BY <1>4, <1>5, <2>1, <2>2
<1>6. CASE Start \/ PassOver \/ AddSection \/ AddSymbols \/ AddGroup \/ EndOfCommon \/ Finalize
  BY <1>4, <1>6 DEF Start, PassOver, AddSection, AddSymbols, AddGroup, EndOfCommon, Finalize, loop
<1>7. CASE Ended \/ UNCHANGED vars
  BY <1>4, <1>7 DEF Ended, vars, loop
<1>. QED
  BY <1>1, <1>2, <1>3, <1>5, <1>6, <1>7, PlannedInstance DEF Next

(* Which instance of its name each task has, with all that ElfInv says.    *)
KeptInv == ElfInv /\ LatestOK /\ PlannedOK

THEOREM KeptInvariant == Spec => []KeptInv
<1>1. Init => KeptInv
  <2>. SUFFICES ASSUME Init PROVE KeptInv
    OBVIOUS
  <2>1. ElfInv
    BY InitRead, InitPlan, InitLoop, InitSections, InitLoads, InitSymtab, InitGroups, InitRela DEF ElfInv
  <2>2. DOMAIN kernel_map = {} /\ DOMAIN plan = {}
    BY NoSeq DEF Init, Fresh
  <2>. QED
    BY <2>1, <2>2 DEF KeptInv, LatestOK, LatestOf, PlannedOK, PlannedRight
<1>2. KeptInv /\ [Next]_vars => KeptInv'
  <2>. SUFFICES ASSUME KeptInv, [Next]_vars PROVE KeptInv'
    OBVIOUS
  <2>1. ReadOK /\ PlanOK /\ LoopOK /\ SectionsOK /\ LoadsOK /\ SymtabOK /\ GroupsOK /\ RelaOK
    BY DEF KeptInv, ElfInv
  <2>2. LatestOK' /\ PlannedOK'
    BY <2>1, LatestInvariant, PlannedInvariant DEF KeptInv
  <2>3. ElfInv'
    BY ElfStep DEF KeptInv
  <2>. QED
    BY <2>2, <2>3 DEF KeptInv
<1>. QED
  BY <1>1, <1>2, PTL DEF Spec

LEMMA MaxIs ==
  ASSUME NEW S, S \subseteq Nat, NEW e \in S, \A d \in S : d <= e
  PROVE  Max(S) = e
<1>1. e >= e /\ \A d \in S : e >= d
  OBVIOUS
<1>2. \A d \in S : d >= e => d = e
  OBVIOUS
<1>3. Max(S) \in S /\ \A d \in S : Max(S) >= d
  BY <1>1 DEF Max
<1>. QED
  BY <1>2, <1>3

(* When all is read, the instance in the map is the last of its name.      *)
LEMMA LatestIs ==
  ASSUME ReadOK, LatestOK, read = Len(input.entries),
         NEW n \in DOMAIN kernel_map, NEW id \in DOMAIN kernel_map[n].instances
  PROVE  kernel_map[n].instances[id] = LastNamed(n, id)
<1>1. /\ read \in Nat /\ DOMAIN input.entries = 1 .. read
      /\ \A e \in DOMAIN input.entries : EntryOK(input.flavor, input.entries[e])
  BY InputKnown DEF ReadOK
<1>2. PICK e \in 1 .. read :
        /\ InEntry(input.entries[e], n, id)
        /\ \A d \in e + 1 .. read : ~ InEntry(input.entries[d], n, id)
        /\ kernel_map[n].instances[id] = ById(input.entries[e].instances)[id]
  BY DEF LatestOK, LatestOf
<1>3. Having(n, id) = {d \in 1 .. read : InEntry(input.entries[d], n, id)}
  BY <1>1 DEF Having, InEntry
<1>4. e \in Having(n, id) /\ Having(n, id) \subseteq Nat
  BY <1>1, <1>2, <1>3
<1>5. ASSUME NEW d \in Having(n, id)
      PROVE  d <= e
  BY <1>1, <1>2, <1>3
<1>6. Max(Having(n, id)) = e
  BY <1>4, <1>5, MaxIs
<1>. DEFINE list == input.entries[e].instances
<1>7. id \in {list[k].id : k \in DOMAIN list}
  BY <1>2 DEF InEntry
<1>8. ById(list)[id] = list[Max({k \in DOMAIN list : list[k].id = id})]
  BY <1>7 DEF ById
<1>. QED
  BY <1>2, <1>6, <1>8 DEF LastNamed

(* What the group of a task holds at the end.                              *)
LEMMA ContentsAre ==
  ASSUME PlanOK, LoopOK, SectionsOK, stage = "done", NEW t \in 1 .. Len(plan),
         NEW group, ToSet(group.members) = MadeFor(sections, t)
  PROVE  Contents(group) = {writer \in ToSet(plan[t].writers) : writer.size > 0}
<1>1. /\ at = Len(plan) /\ DOMAIN plan = 1 .. at /\ at \in Nat
      /\ \A u \in 1 .. at : DoneIn(plan, at, next, u) = WrittenIn(plan, u)
  BY AllDone
<1>2. /\ \A k \in DOMAIN sections : Special(sections[k]) \/ FromWriter(plan, at, next, sections[k])
      /\ \A u \in 1 .. at : \A w \in DoneIn(plan, at, next, u) :
           \E k \in DOMAIN sections : sections[k].of = <<u, w>>
  BY DEF SectionsOK, SectionsOf
<1>3. {writer \in ToSet(plan[t].writers) : writer.size > 0}
        = {plan[t].writers[w] : w \in WrittenIn(plan, t)}
  BY DEF ToSet, WrittenIn
<1>4. ASSUME NEW k \in MadeFor(sections, t)
      PROVE  \E w \in WrittenIn(plan, t) : sections[k].of = <<t, w>>
  <2>1. k \in DOMAIN sections /\ sections[k].of # <<0, 0>> /\ sections[k].of[1] = t
    BY DEF MadeFor
  <2>2. FromWriter(plan, at, next, sections[k])
    BY <1>2, <2>1 DEF Special
  <2>3. PICK u \in 1 .. at : \E w \in DoneIn(plan, at, next, u) : sections[k].of = <<u, w>>
    BY <2>2 DEF FromWriter
  <2>4. PICK w \in DoneIn(plan, at, next, u) : sections[k].of = <<u, w>>
    BY <2>3
  <2>5. u = t
    BY <2>1, <2>4
  <2>. QED
    BY <1>1, <2>4, <2>5
<1>5. ASSUME NEW w \in WrittenIn(plan, t)
      PROVE  \E k \in MadeFor(sections, t) : sections[k].of = <<t, w>>
  <2>1. PICK k \in DOMAIN sections : sections[k].of = <<t, w>>
    BY <1>1, <1>2
  <2>2. t # 0
    BY <1>1
  <2>. QED
    BY <2>1, <2>2 DEF MadeFor
<1>6. Contents(group) = {plan[sections[k].of[1]].writers[sections[k].of[2]] : k \in MadeFor(sections, t)}
  BY DEF Contents
<1>. DEFINE of(k) == sections[k].of
            made == MadeFor(sections, t)
            written == WrittenIn(plan, t)
            ws == plan[t].writers
<1>7. \A k \in made : \E w \in written : of(k) = <<t, w>>
  BY <1>4
<1>8. \A w \in written : \E k \in made : of(k) = <<t, w>>
  BY <1>5
<1>9. \A k, w : of(k) = <<t, w>> => plan[of(k)[1]].writers[of(k)[2]] = ws[w]
  OBVIOUS
<1>. HIDE DEF of, made, written, ws
<1>10. {plan[of(k)[1]].writers[of(k)[2]] : k \in made} = {ws[w] : w \in written}
  BY <1>7, <1>8, <1>9
<1>. QED
  BY <1>3, <1>6, <1>10 DEF of, made, written, ws

LEMMA KeptThen ==
  ASSUME KeptInv
  PROVE  InstancesKept
<1>. SUFFICES ASSUME stage = "done", input.config
     PROVE  /\ {GroupName(groups[n]) : n \in DOMAIN groups} = Named
            /\ \A m, n \in DOMAIN groups : GroupName(groups[m]) = GroupName(groups[n]) => m = n
            /\ \A name \in Named, n \in DOMAIN groups : GroupName(groups[n]) = name =>
                 Contents(groups[n]) =
                   {writer \in ToSet(WritersOf(LastNamed(name[1], name[2]))) : writer.size > 0}
  BY DEF InstancesKept
<1>1. ReadOK /\ PlanOK /\ LoopOK /\ SectionsOK /\ GroupsOK /\ LatestOK /\ PlannedOK
  BY DEF KeptInv, ElfInv
<1>2. /\ Named = {<<plan[t].kernel, plan[t].id>> : t \in InstanceTasks}
      /\ read = Len(input.entries)
  BY <1>1, NamedAre DEF ReadOK
<1>3. /\ at = Len(plan) /\ DOMAIN plan = 1 .. Len(plan) /\ Len(plan) \in Nat /\ ~ busy
      /\ index = Count(plan, Len(plan)) /\ IsSeq(groups) /\ Len(groups) = index
      /\ Finished = Len(plan)
  BY <1>1, AllDone DEF LoopOK, GroupsOK, Finished
<1>4. ASSUME NEW n \in DOMAIN groups
      PROVE  \E t \in InstanceTasks :
               /\ Count(plan, t) = n
               /\ GroupName(groups[n]) = <<plan[t].kernel, plan[t].id>>
               /\ Contents(groups[n]) = {writer \in ToSet(plan[t].writers) : writer.size > 0}
  <2>1. PICK t \in InstanceTasks :
          /\ t \in 1 .. Len(plan) /\ Count(plan, t) = n
          /\ GroupRight(sections, symtab, t, plan[t], groups[n])
    BY <1>1, GroupFor
  <2>2. GroupName(groups[n]) = <<plan[t].kernel, plan[t].id>>
    BY <2>1 DEF GroupRight, NamesTask, GroupName
  <2>3. Contents(groups[n]) = {writer \in ToSet(plan[t].writers) : writer.size > 0}
    BY <1>1, <2>1, ContentsAre DEF GroupRight
  <2>. QED
    BY <2>1, <2>2, <2>3
<1>5. ASSUME NEW t \in InstanceTasks
      PROVE  \E n \in DOMAIN groups : GroupName(groups[n]) = <<plan[t].kernel, plan[t].id>>
  <2>1. t \in 1 .. Len(plan) /\ t \in Nat \ {0} /\ plan[t].kind = "instance"
    BY <1>3 DEF InstanceTasks
  <2>2. GroupRight(sections, symtab, t, plan[t], groups[SuffixOf(plan, t) + 1])
    BY <1>1, <1>3, <2>1 DEF GroupsOK
  <2>3. SuffixOf(plan, t) \in Nat /\ SuffixOf(plan, t) + 1 = Count(plan, t)
    BY <2>1, SuffixIs
  <2>4. Count(plan, t) <= Count(plan, Len(plan)) /\ Count(plan, Len(plan)) \in Nat
    BY <1>3, <2>1, CountGrows, CountIs
  <2>5. SuffixOf(plan, t) + 1 \in DOMAIN groups
    BY <1>3, <2>3, <2>4, SeqIs
  <2>6. GroupName(groups[SuffixOf(plan, t) + 1]) = <<plan[t].kernel, plan[t].id>>
    BY <2>2 DEF GroupRight, NamesTask, GroupName
  <2>. QED
    BY <2>5, <2>6
<1>6. {GroupName(groups[n]) : n \in DOMAIN groups} = Named
  <2>1. \A n \in DOMAIN groups : GroupName(groups[n]) \in Named
    BY <1>2, <1>4
  <2>2. \A name \in Named : \E n \in DOMAIN groups : GroupName(groups[n]) = name
    BY <1>2, <1>5
  <2>. QED
    BY <2>1, <2>2
<1>7. ASSUME NEW m \in DOMAIN groups, NEW n \in DOMAIN groups, GroupName(groups[m]) = GroupName(groups[n])
      PROVE  m = n
  <2>1. PICK s \in InstanceTasks :
          Count(plan, s) = m /\ GroupName(groups[m]) = <<plan[s].kernel, plan[s].id>>
    BY <1>4
  <2>2. PICK t \in InstanceTasks :
          Count(plan, t) = n /\ GroupName(groups[n]) = <<plan[t].kernel, plan[t].id>>
    BY <1>4
  <2>3. <<plan[s].kernel, plan[s].id>> = <<plan[t].kernel, plan[t].id>>
    BY <1>7, <2>1, <2>2
  <2>4. s = t
    BY <1>1, <2>3 DEF PlannedOK, PlannedRight, InstanceTasks
  <2>. QED
    BY <2>1, <2>2, <2>4
<1>8. ASSUME NEW name \in Named, NEW n \in DOMAIN groups, GroupName(groups[n]) = name
      PROVE  Contents(groups[n]) =
               {writer \in ToSet(WritersOf(LastNamed(name[1], name[2]))) : writer.size > 0}
  <2>1. PICK t \in InstanceTasks :
          /\ GroupName(groups[n]) = <<plan[t].kernel, plan[t].id>>
          /\ Contents(groups[n]) = {writer \in ToSet(plan[t].writers) : writer.size > 0}
    BY <1>4
  <2>2. t \in DOMAIN plan /\ plan[t].kind = "instance"
    BY DEF InstanceTasks
  <2>3. plan[t].writers = WritersOf(kernel_map[plan[t].kernel].instances[plan[t].id])
    BY <1>1, <2>2 DEF PlannedOK, PlannedRight
  <2>4. plan[t].kernel \in DOMAIN kernel_map /\ plan[t].id \in DOMAIN kernel_map[plan[t].kernel].instances
    BY <1>1, <2>2 DEF PlanOK, PlanOf, TaskOK
  <2>5. kernel_map[plan[t].kernel].instances[plan[t].id] = LastNamed(plan[t].kernel, plan[t].id)
    BY <1>1, <1>2, <2>4, LatestIs
  <2>6. name[1] = plan[t].kernel /\ name[2] = plan[t].id
    BY <1>8, <2>1
  <2>. QED
    BY <2>1, <2>3, <2>5, <2>6
<1>. QED
  BY <1>6, <1>7, <1>8

(* The finished ELF has a group for each instance the configuration names  *)
(* and no other, named for it in the symbol table; its sections hold what  *)
(* the last instance of that name gives (add_instance replaces an earlier  *)
(* one, the encoders' process and elf_writer go through all of them).      *)
THEOREM Kept == Spec => []InstancesKept
<1>1. KeptInv => InstancesKept
  BY KeptThen
<1>. QED
  BY <1>1, KeptInvariant, PTL

=============================================================================
