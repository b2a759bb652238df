--------------------------- MODULE PageWriterProofs ---------------------------
(***************************************************************************)
(* Theorems about the pages that are written, for columns of any jobs,     *)
(* labels, pages and pads.                                                 *)
(*                                                                         *)
(* Lengths are sums along lists that the program builds up one by one.     *)
(* A recursive function exists and is unique because a least length for    *)
(* which it did not would be one for which it does; with it, the sum of a  *)
(* list that is put together is the sum of the sums, however the pager     *)
(* groups and sorts it.                                                    *)
(***************************************************************************)
EXTENDS ControlCode, SequenceTheorems, WellFoundedInduction, TLAPS

-------------------------------------------------------------------------------
(* Lists, and recursive functions on their lengths.                        *)
Associative(S) == \A x, y, z \in Seq(S) : (x \o y) \o z = x \o (y \o z)

LEMMA Associates == ASSUME NEW S PROVE Associative(S)
BY ConcatAssociative DEF Associative

LEMMA SeqFrom ==
  ASSUME NEW T, NEW n \in Nat, NEW f \in [1 .. n -> T]
  PROVE  f \in Seq(T)
OBVIOUS

LEMMA Least ==
  ASSUME NEW S \in SUBSET Nat, S # {}
  PROVE  \E m \in S : \A k \in S : m <= k
<1>1. PICK m \in S : \A k \in S : ~ (<<k, m>> \in OpToRel(<, Nat))
  BY NatLessThanWellFounded, WFMin
<1>2. \A k \in S : ~ k < m
  BY <1>1 DEF OpToRel
<1>3. \A k \in S : m <= k
  BY <1>2
<1>4. QED
  BY <1>3

Recursive(n, S, a, G) ==
  {f \in [0 .. n -> S] : f[0] = a /\ \A k \in 1 .. n : f[k] = G[<<k, f[k - 1]>>]}

LEMMA Recursion ==
  ASSUME NEW n \in Nat, NEW S, NEW a \in S, NEW G \in [(1 .. n) \X S -> S]
  PROVE  Recursive(n, S, a, G) # {}
<1> DEFINE Good(m) == \E f \in [0 .. m -> S] :
                        f[0] = a /\ \A k \in 1 .. m : f[k] = G[<<k, f[k - 1]>>]
           Bad == {m \in 0 .. n : ~ Good(m)}
<1>1. CASE Bad = {}
  <2>1. n \in 0 .. n
    OBVIOUS
  <2>2. Good(n)
    BY <1>1, <2>1
  <2>3. QED
    BY <2>2 DEF Recursive
<1>2. CASE Bad # {}
  <2>1. Bad \in SUBSET Nat
    OBVIOUS
  <2>2. PICK m \in Bad : \A k \in Bad : m <= k
    <3> HIDE DEF Bad
    <3>1. QED
      BY <1>2, <2>1, Least
  <2>3. m \in 0 .. n /\ ~ Good(m)
    BY <2>2
  <2>4. m # 0
    <3>1. SUFFICES ASSUME m = 0 PROVE Good(m)
      BY <2>3
    <3> DEFINE f == [k \in 0 .. m |-> a]
    <3>2. f \in [0 .. m -> S] /\ f[0] = a /\ 1 .. m = {}
      BY <3>1
    <3>3. QED
      BY <3>2
  <2>5. Good(m - 1)
    <3>1. m - 1 \in 0 .. n /\ ~ (m <= m - 1)
      BY <2>3, <2>4
    <3> HIDE DEF Good
    <3>2. m - 1 \notin Bad
      <4> HIDE DEF Bad
      <4>1. QED
        BY <2>2, <3>1
    <3>3. QED
      BY <3>1, <3>2
  <2>6. PICK f \in [0 .. m - 1 -> S] : f[0] = a /\ \A k \in 1 .. m - 1 : f[k] = G[<<k, f[k - 1]>>]
    BY <2>5
  <2> DEFINE g == [k \in 0 .. m |-> IF k = m THEN G[<<m, f[m - 1]>>] ELSE f[k]]
  <2>7. f[m - 1] \in S /\ <<m, f[m - 1]>> \in (1 .. n) \X S
    BY <2>3, <2>4, <2>6
  <2>8. g \in [0 .. m -> S]
    BY <2>3, <2>4, <2>6, <2>7
  <2>9. g[0] = a
    BY <2>3, <2>4, <2>6
  <2>10. ASSUME NEW k \in 1 .. m PROVE g[k] = G[<<k, g[k - 1]>>]
    <3>1. CASE k = m
      <4>1. m - 1 \in 0 .. m /\ m - 1 # m /\ m \in 0 .. m
        BY <2>3, <2>4
      <4>2. g[m] = G[<<m, f[m - 1]>>] /\ g[m - 1] = f[m - 1]
        BY <4>1
      <4>3. QED
        BY <3>1, <4>2
    <3>2. CASE k # m
      <4>1. k \in 1 .. m - 1 /\ k - 1 # m /\ k \in 0 .. m /\ k - 1 \in 0 .. m
        BY <2>3, <2>4, <3>2
      <4>2. g[k] = f[k] /\ g[k - 1] = f[k - 1]
        BY <3>2, <4>1
      <4>3. QED
        BY <2>6, <4>1, <4>2
    <3>3. QED
      BY <3>1, <3>2
  <2>11. Good(m)
    <3> HIDE DEF g
    <3>1. QED
      BY <2>8, <2>9, <2>10
  <2>12. QED
    BY <2>3, <2>11
<1>3. QED
  BY <1>1, <1>2

(* Functions of equal steps are equal.                                     *)
Alike(n, f, g) == f[0] = g[0] /\ \A k \in 1 .. n : f[k - 1] = g[k - 1] => f[k] = g[k]
Agree(n, f, g) == \A k \in 0 .. n : f[k] = g[k]

LEMMA SameSteps ==
  ASSUME NEW n \in Nat, NEW f, NEW g, Alike(n, f, g)
  PROVE  Agree(n, f, g)
<1> DEFINE Bad == {k \in 0 .. n : f[k] # g[k]}
<1>1. SUFFICES ASSUME Bad # {} PROVE FALSE
  BY DEF Agree
<1>2. Bad \in SUBSET Nat
  OBVIOUS
<1>3. PICK m \in Bad : \A k \in Bad : m <= k
  <2> HIDE DEF Bad
  <2>1. QED
    BY <1>1, <1>2, Least
<1>4. m \in 0 .. n /\ f[m] # g[m] /\ m # 0
  BY <1>3 DEF Alike
<1>5. m - 1 \in 0 .. n /\ ~ (m <= m - 1)
  BY <1>4
<1>6. f[m - 1] = g[m - 1]
  BY <1>3, <1>5
<1>7. m \in 1 .. n
  BY <1>4
<1>8. QED
  BY <1>4, <1>6, <1>7 DEF Alike


-------------------------------------------------------------------------------
(* Total.                                                                  *)
Sums(s, f) ==
  /\ f \in [0 .. Len(s) -> Nat] /\ f[0] = 0
  /\ \A k \in 1 .. Len(s) : f[k] = f[k - 1] + s[k]

LEMMA TotalIs ==
  ASSUME NEW s \in Seq(Nat)
  PROVE  \E f : Sums(s, f) /\ Total(s) = f[Len(s)]
<1> DEFINE n == Len(s)
           G == [p \in (1 .. n) \X Nat |-> p[2] + s[p[1]]]
           F(f) == [k \in 0 .. n |-> IF k = 0 THEN 0 ELSE f[k - 1] + s[k]]
<1>1. n \in Nat /\ \A k \in 1 .. n : s[k] \in Nat
  OBVIOUS
<1>2. G \in [(1 .. n) \X Nat -> Nat]
  BY <1>1
<1>3. PICK f \in [0 .. n -> Nat] : f[0] = 0 /\ \A k \in 1 .. n : f[k] = G[<<k, f[k - 1]>>]
  <2> HIDE DEF n, G
  <2>1. Recursive(n, Nat, 0, G) # {}
    BY <1>1, <1>2, Recursion
  <2>2. QED
    BY <2>1 DEF Recursive
<1>4. \A k \in 1 .. n : f[k] = f[k - 1] + s[k]
  <2>1. TAKE k \in 1 .. n
  <2>2. f[k - 1] \in Nat
    <3> HIDE DEF n, G
    <3>1. QED
      BY <1>1, <1>3
  <2>3. <<k, f[k - 1]>> \in (1 .. n) \X Nat
    BY <2>2
  <2>4. QED
    BY <1>3, <2>3
<1>5. f = F(f)
  BY <1>1, <1>3, <1>4
<1> DEFINE t == CHOOSE g : g = F(g)
<1>6. Total(s) = t[n]
  BY DEF Total
<1>7. t = F(t)
  <2> HIDE DEF F
  <2>1. QED
    BY <1>5
<1> HIDE DEF t
<1>8. t[0] = 0 /\ \A k \in 1 .. n : t[k] = t[k - 1] + s[k]
  BY <1>1, <1>7
<1> HIDE DEF n, G, F
<1>9. Alike(n, f, t)
  BY <1>3, <1>4, <1>8 DEF Alike
<1>10. f[n] = t[n]
  BY <1>1, <1>9, SameSteps DEF Agree
<1>11. QED
  BY <1>3, <1>4, <1>6, <1>10 DEF Sums, n

LEMMA TotalOnly ==
  ASSUME NEW s \in Seq(Nat), NEW f, Sums(s, f)
  PROVE  Total(s) = f[Len(s)] /\ Total(s) \in Nat
<1>1. PICK g : Sums(s, g) /\ Total(s) = g[Len(s)]
  BY TotalIs
<1>2. Len(s) \in Nat /\ Alike(Len(s), f, g)
  BY <1>1 DEF Sums, Alike
<1>3. f[Len(s)] = g[Len(s)]
  BY <1>2, SameSteps DEF Agree
<1>4. QED
  BY <1>1, <1>2, <1>3 DEF Sums

LEMMA TotalNat == ASSUME NEW s \in Seq(Nat) PROVE Total(s) \in Nat
BY TotalIs, TotalOnly

LEMMA TotalEmpty == Total(<<>>) = 0
<1>1. <<>> \in Seq(Nat) /\ Len(<<>>) = 0
  OBVIOUS
<1>2. QED
  BY <1>1, TotalIs DEF Sums

(* The sum of lists put together is the sum of their sums.                 *)
LEMMA TotalConcat ==
  ASSUME NEW s \in Seq(Nat), NEW t \in Seq(Nat)
  PROVE  Total(s \o t) = Total(s) + Total(t)
<1>1. PICK f : Sums(s, f) /\ Total(s) = f[Len(s)]
  BY TotalIs
<1>2. PICK g : Sums(t, g) /\ Total(t) = g[Len(t)]
  BY TotalIs
<1> DEFINE a == Len(s)
           b == Len(t)
           h == [k \in 0 .. a + b |-> IF k <= a THEN f[k] ELSE f[a] + g[k - a]]
<1>3. /\ s \o t \in Seq(Nat) /\ Len(s \o t) = a + b /\ a \in Nat /\ b \in Nat
      /\ \A k \in 1 .. a + b : (s \o t)[k] = IF k <= a THEN s[k] ELSE t[k - a]
  BY ConcatProperties
<1>4. /\ f \in [0 .. a -> Nat] /\ f[0] = 0 /\ \A k \in 1 .. a : f[k] = f[k - 1] + s[k]
      /\ g \in [0 .. b -> Nat] /\ g[0] = 0 /\ \A k \in 1 .. b : g[k] = g[k - 1] + t[k]
  BY <1>1, <1>2 DEF Sums
<1> HIDE DEF a, b
<1>5. h \in [0 .. a + b -> Nat] /\ h[0] = 0
  <2>1. \A k \in 0 .. a + b : k <= a => k \in 0 .. a
    BY <1>3
  <2>2. \A k \in 0 .. a + b : ~ (k <= a) => k - a \in 0 .. b /\ a \in 0 .. a
    BY <1>3
  <2>3. \A k \in 0 .. a + b : h[k] \in Nat
    <3>1. TAKE k \in 0 .. a + b
    <3>2. CASE k <= a
      BY <1>4, <2>1, <3>2
    <3>3. CASE ~ (k <= a)
      <4>1. g[k - a] \in Nat /\ f[a] \in Nat
        BY <1>4, <2>2, <3>3
      <4>2. QED
        BY <3>3, <4>1
    <3>4. QED
      BY <3>2, <3>3
  <2>4. h[0] = 0
    BY <1>3, <1>4
  <2>5. QED
    BY <2>3, <2>4
<1>6. ASSUME NEW k \in 1 .. a + b PROVE h[k] = h[k - 1] + (s \o t)[k]
  <2>1. k \in 0 .. a + b /\ k - 1 \in 0 .. a + b
    BY <1>3
  <2>2. CASE k <= a
    <3>1. k \in 1 .. a /\ k - 1 <= a
      BY <1>3, <2>2
    <3>2. QED
      BY <1>3, <1>4, <2>1, <2>2, <3>1
  <2>3. CASE k = a + 1
    <3>1. k - a = 1 /\ 1 \in 1 .. b /\ k - 1 = a /\ ~ (k <= a) /\ a <= a
      BY <1>3, <2>3
    <3>2. g[1] = t[1] /\ t[1] \in Nat
      <4>1. g[1] = g[1 - 1] + t[1]
        BY <1>4, <3>1
      <4>2. t[1] \in Nat
        BY <3>1 DEF b
      <4>3. QED
        BY <1>4, <4>1, <4>2
    <3>3. QED
      BY <1>3, <1>4, <2>1, <3>1, <3>2
  <2>4. CASE a + 1 < k
    <3>1. k - a \in 1 .. b /\ ~ (k <= a) /\ ~ (k - 1 <= a) /\ (k - 1) - a = (k - a) - 1
      BY <1>3, <2>4
    <3>2. g[k - a] = g[(k - a) - 1] + t[k - a] /\ t[k - a] \in Nat
      BY <1>4, <3>1 DEF b
    <3>3. g[(k - a) - 1] \in Nat /\ f[a] \in Nat
      BY <1>3, <1>4, <3>1
    <3>4. h[k] = f[a] + g[k - a] /\ h[k - 1] = f[a] + g[(k - a) - 1] /\ (s \o t)[k] = t[k - a]
      BY <1>3, <2>1, <3>1
    <3>5. QED
      BY <3>2, <3>3, <3>4
  <2>5. QED
    BY <1>3, <2>2, <2>3, <2>4
<1>7. Sums(s \o t, h)
  <2> HIDE DEF h
  <2>1. QED
    BY <1>3, <1>5, <1>6 DEF Sums
<1>8. Total(s \o t) = h[a + b]
  BY <1>3, <1>7, TotalOnly
<1>9. QED
  <2>1. CASE b = 0
    BY <1>1, <1>2, <1>3, <1>4, <1>8, <2>1 DEF a, b
  <2>2. CASE b # 0
    <3>1. ~ (a + b <= a) /\ a + b \in 0 .. a + b /\ (a + b) - a = b
      BY <1>3, <2>2
    <3>2. QED
      BY <1>1, <1>2, <1>8, <3>1 DEF a, b
  <2>3. QED
    BY <2>1, <2>2

LEMMA TotalOne == ASSUME NEW x \in Nat PROVE Total(<<x>>) = x
<1>1. <<x>> \in Seq(Nat) /\ Len(<<x>>) = 1 /\ <<x>>[1] = x
  OBVIOUS
<1>2. PICK f : Sums(<<x>>, f) /\ Total(<<x>>) = f[1]
  BY <1>1, TotalIs
<1>3. f[1] = f[1 - 1] + x /\ f[0] = 0
  BY <1>1, <1>2 DEF Sums
<1>4. QED
  BY <1>2, <1>3

(* A sum of multiples is a multiple.                                       *)
LEMMA TotalMultiple ==
  ASSUME NEW s \in Seq(Nat), \A k \in 1 .. Len(s) : s[k] % 4 = 0
  PROVE  Total(s) % 4 = 0
<1>1. PICK f : Sums(s, f) /\ Total(s) = f[Len(s)]
  BY TotalIs
<1> DEFINE n == Len(s)
           Bad == {k \in 0 .. n : f[k] % 4 # 0}
<1>2. /\ n \in Nat /\ f \in [0 .. n -> Nat] /\ f[0] = 0
      /\ \A k \in 1 .. n : f[k] = f[k - 1] + s[k] /\ s[k] % 4 = 0 /\ s[k] \in Nat
  BY <1>1 DEF Sums
<1> HIDE DEF n
<1>3. SUFFICES ASSUME Bad # {} PROVE FALSE
  <2>1. n \in 0 .. n
    BY <1>2
  <2>2. Bad = {} => f[n] % 4 = 0
    BY <2>1
  <2>3. QED
    BY <1>1, <2>2 DEF n
<1>4. PICK m \in Bad : \A k \in Bad : m <= k
  <2>1. Bad \in SUBSET Nat
    BY <1>2
  <2> HIDE DEF Bad
  <2>2. QED
    BY <1>3, <2>1, Least
<1>5. m \in 0 .. n /\ f[m] % 4 # 0 /\ m # 0
  BY <1>2, <1>4
<1>6. m \in 1 .. n /\ m - 1 \in 0 .. n /\ ~ (m <= m - 1)
  BY <1>2, <1>5
<1>7. f[m - 1] % 4 = 0 /\ f[m - 1] \in Nat
  BY <1>2, <1>4, <1>6
<1>8. f[m] = f[m - 1] + s[m] /\ s[m] % 4 = 0 /\ s[m] \in Nat
  BY <1>2, <1>6
<1>9. \A a, b \in Nat : a % 4 = 0 /\ b % 4 = 0 => (a + b) % 4 = 0
  OBVIOUS
<1>10. QED
  BY <1>5, <1>7, <1>8, <1>9

-------------------------------------------------------------------------------
(* FlattenSeq.                                                             *)
Flats(S, s, f) ==
  /\ f \in [0 .. Len(s) -> Seq(S)] /\ f[0] = <<>>
  /\ \A k \in 1 .. Len(s) : f[k] = f[k - 1] \o s[k]

LEMMA FlatsExist == ASSUME NEW S, NEW s \in Seq(Seq(S)) PROVE \E f : Flats(S, s, f)
<1> DEFINE n == Len(s)
           G == [p \in (1 .. n) \X Seq(S) |-> p[2] \o s[p[1]]]
<1>1. n \in Nat /\ <<>> \in Seq(S) /\ \A k \in 1 .. n : s[k] \in Seq(S)
  OBVIOUS
<1>2. G \in [(1 .. n) \X Seq(S) -> Seq(S)]
  <2> HIDE DEF n
  <2>1. \A p \in (1 .. n) \X Seq(S) : p[2] \o s[p[1]] \in Seq(S)
    BY <1>1
  <2>2. QED
    BY <2>1
<1>3. PICK f \in [0 .. n -> Seq(S)] : f[0] = <<>> /\ \A k \in 1 .. n : f[k] = G[<<k, f[k - 1]>>]
  <2> HIDE DEF n, G
  <2>1. Recursive(n, Seq(S), <<>>, G) # {}
    BY <1>1, <1>2, Recursion
  <2>2. QED
    BY <2>1 DEF Recursive
<1>4. ASSUME NEW k \in 1 .. n PROVE f[k] = f[k - 1] \o s[k]
  <2>1. f[k - 1] \in Seq(S)
    <3> HIDE DEF n, G
    <3>1. QED
      BY <1>1, <1>3
  <2>2. <<k, f[k - 1]>> \in (1 .. n) \X Seq(S)
    BY <2>1
  <2>3. QED
    BY <1>3, <2>2
<1>5. QED
  BY <1>3, <1>4 DEF Flats

LEMMA FlattenIs ==
  ASSUME NEW S, NEW s \in Seq(Seq(S)), NEW f, Flats(S, s, f)
  PROVE  FlattenSeq(s) = f[Len(s)] /\ FlattenSeq(s) \in Seq(S)
<1> DEFINE n == Len(s)
           F(g) == [i \in 1 .. n |-> IF i = 1 THEN s[i] ELSE g[i - 1] \o s[i]]
           t == CHOOSE g : g = F(g)
           e == [k \in 0 .. n |-> IF k = 0 THEN <<>> ELSE t[k]]
<1>1. /\ n \in Nat /\ f \in [0 .. n -> Seq(S)] /\ f[0] = <<>>
      /\ \A k \in 1 .. n : f[k] = f[k - 1] \o s[k]
  <2>1. n \in Nat
    OBVIOUS
  <2>2. QED
    BY <2>1, Zenon DEF Flats
<1>2. f[n] \in Seq(S)
  <2> HIDE DEF n
  <2>1. QED
    BY <1>1
<1>3. CASE n = 0
  BY <1>1, <1>2, <1>3 DEF FlattenSeq
<1>4. CASE n # 0
  <2>1. FlattenSeq(s) = t[n]
    BY <1>4 DEF FlattenSeq
  <2>2. \A k \in 1 .. n : s[k] \in Seq(S)
    OBVIOUS
  <2>3. f[0] \o s[1] = s[1]
    <3>1. s[1] \in Seq(S)
      BY <1>1, <1>4, <2>2
    <3>2. QED
      BY <1>1, <3>1
  <2>4. t = F(t)
    <3> DEFINE g == [k \in 1 .. n |-> f[k]]
    <3>1. g = F(g)
      <4> HIDE DEF n
      <4>1. \A i \in 1 .. n : i # 1 => i - 1 \in 1 .. n
        BY <1>1
      <4>2. \A i \in 1 .. n : g[i] = IF i = 1 THEN s[i] ELSE g[i - 1] \o s[i]
        <5>1. TAKE i \in 1 .. n
        <5>2. g[i] = f[i] /\ f[i] = f[i - 1] \o s[i]
          BY <1>1
        <5>3. CASE i = 1
          <6>1. f[i - 1] = <<>>
            BY <1>1, <5>3
          <6>2. QED
            BY <1>1, <2>3, <5>2, <5>3, <6>1
        <5>4. CASE i # 1
          <6>1. g[i - 1] = f[i - 1]
            BY <4>1, <5>4
          <6>2. QED
            BY <5>2, <5>4, <6>1
        <5>5. QED
          BY <5>3, <5>4
      <4>3. QED
        BY <4>2
    <3> HIDE DEF F, g
    <3>2. QED
      BY <3>1
  <2> HIDE DEF t, n
  <2>5. e[0] = <<>> /\ \A k \in 1 .. n : e[k] = e[k - 1] \o s[k]
    <3>1. e[0] = <<>>
      BY <1>1
    <3>2. ASSUME NEW k \in 1 .. n PROVE e[k] = e[k - 1] \o s[k]
      <4>1. k \in 0 .. n /\ k - 1 \in 0 .. n /\ k # 0
        BY <1>1
      <4>2. CASE k = 1
        <5>1. e[k] = s[1] /\ e[k - 1] = <<>>
          BY <1>1, <2>4, <4>1, <4>2
        <5>2. QED
          BY <1>1, <2>3, <4>2, <5>1
      <4>3. CASE k # 1
        <5>1. t[k] = t[k - 1] \o s[k]
          BY <2>4, <4>3
        <5>2. e[k] = t[k]
          BY <4>1
        <5>3. e[k - 1] = t[k - 1]
          BY <4>1, <4>3
        <5>4. QED
          BY <5>1, <5>2, <5>3
      <4>4. QED
        BY <4>2, <4>3
    <3>3. QED
      BY <3>1, <3>2
  <2> HIDE DEF e, F
  <2>6. Alike(n, f, e)
    BY <1>1, <2>5 DEF Alike
  <2>7. f[n] = e[n]
    BY <1>1, <2>6, SameSteps DEF Agree
  <2>8. e[n] = t[n]
    BY <1>1, <1>4 DEF e
  <2>9. QED
    BY <1>2, <2>1, <2>7, <2>8 DEF n
<1>5. QED
  BY <1>3, <1>4

LEMMA FlattenType == ASSUME NEW S, NEW s \in Seq(Seq(S)) PROVE FlattenSeq(s) \in Seq(S)
BY FlatsExist, FlattenIs

LEMMA FlattenConcat ==
  ASSUME NEW S, NEW s \in Seq(Seq(S)), NEW t \in Seq(Seq(S))
  PROVE  FlattenSeq(s \o t) = FlattenSeq(s) \o FlattenSeq(t)
<1>1. PICK f : Flats(S, s, f)
  BY FlatsExist
<1>2. PICK g : Flats(S, t, g)
  BY FlatsExist
<1> DEFINE a == Len(s)
           b == Len(t)
           h == [k \in 0 .. a + b |-> IF k <= a THEN f[k] ELSE f[a] \o g[k - a]]
<1>3. /\ s \o t \in Seq(Seq(S)) /\ Len(s \o t) = a + b /\ a \in Nat /\ b \in Nat
      /\ \A k \in 1 .. a + b : (s \o t)[k] = IF k <= a THEN s[k] ELSE t[k - a]
  BY ConcatProperties
<1>4. /\ f \in [0 .. a -> Seq(S)] /\ f[0] = <<>> /\ \A k \in 1 .. a : f[k] = f[k - 1] \o s[k]
      /\ g \in [0 .. b -> Seq(S)] /\ g[0] = <<>> /\ \A k \in 1 .. b : g[k] = g[k - 1] \o t[k]
      /\ \A k \in 1 .. b : t[k] \in Seq(S)
  <2>1. \A k \in 1 .. b : t[k] \in Seq(S)
    OBVIOUS
  <2>2. QED
    BY <1>1, <1>2, <2>1, Zenon DEF Flats
<1> HIDE DEF a, b
<1>5. h \in [0 .. a + b -> Seq(S)] /\ h[0] = <<>>
  <2>1. \A k \in 0 .. a + b : k <= a => k \in 0 .. a
    BY <1>3
  <2>2. \A k \in 0 .. a + b : ~ (k <= a) => k - a \in 0 .. b /\ a \in 0 .. a
    BY <1>3
  <2>3. \A k \in 0 .. a + b : h[k] \in Seq(S)
    <3>1. TAKE k \in 0 .. a + b
    <3>2. CASE k <= a
      BY <1>4, <2>1, <3>2
    <3>3. CASE ~ (k <= a)
      <4>1. g[k - a] \in Seq(S) /\ f[a] \in Seq(S)
        BY <1>4, <2>2, <3>3
      <4>2. f[a] \o g[k - a] \in Seq(S)
        BY <4>1
      <4>3. QED
        BY <3>3, <4>2
    <3>4. QED
      BY <3>2, <3>3
  <2>4. h[0] = <<>>
    BY <1>3, <1>4
  <2>5. QED
    BY <2>3, <2>4
<1>6. ASSUME NEW k \in 1 .. a + b PROVE h[k] = h[k - 1] \o (s \o t)[k]
  <2>1. k \in 0 .. a + b /\ k - 1 \in 0 .. a + b
    BY <1>3
  <2>2. CASE k <= a
    <3>1. k \in 1 .. a /\ k - 1 <= a
      BY <1>3, <2>2
    <3>2. h[k] = f[k] /\ h[k - 1] = f[k - 1] /\ (s \o t)[k] = s[k]
      BY <1>3, <2>1, <2>2, <3>1
    <3>3. QED
      BY <1>4, <3>1, <3>2
  <2>3. CASE k = a + 1
    <3>1. k - a = 1 /\ 1 \in 1 .. b /\ k - 1 = a /\ ~ (k <= a) /\ a <= a
      BY <1>3, <2>3
    <3>2. g[1] = t[1]
      <4>1. g[1] = g[1 - 1] \o t[1] /\ t[1] \in Seq(S)
        BY <1>4, <3>1
      <4>2. g[1 - 1] = <<>>
        BY <1>4
      <4>3. QED
        BY <4>1, <4>2
    <3>3. h[k] = f[a] \o g[1] /\ h[k - 1] = f[a] /\ (s \o t)[k] = t[1]
      BY <1>3, <2>1, <3>1
    <3>4. QED
      BY <3>2, <3>3
  <2>4. CASE a + 1 < k
    <3>1. k - a \in 1 .. b /\ ~ (k <= a) /\ ~ (k - 1 <= a) /\ (k - 1) - a = (k - a) - 1
      BY <1>3, <2>4
    <3>2. g[k - a] = g[(k - a) - 1] \o t[k - a] /\ t[k - a] \in Seq(S)
      BY <1>4, <3>1
    <3>3. g[(k - a) - 1] \in Seq(S) /\ f[a] \in Seq(S)
      BY <1>3, <1>4, <3>1
    <3>4. h[k] = f[a] \o g[k - a] /\ h[k - 1] = f[a] \o g[(k - a) - 1] /\ (s \o t)[k] = t[k - a]
      BY <1>3, <2>1, <3>1
    <3>5. (f[a] \o g[(k - a) - 1]) \o t[k - a] = f[a] \o (g[(k - a) - 1] \o t[k - a])
      <4>1. Associative(S)
        BY Associates
      <4>2. QED
        BY <3>2, <3>3, <4>1, Zenon DEF Associative
    <3>6. QED
      BY <3>2, <3>4, <3>5
  <2>5. k <= a \/ k = a + 1 \/ a + 1 < k
    BY <1>3
  <2>6. QED
    BY <2>2, <2>3, <2>4, <2>5
<1>7. Flats(S, s \o t, h)
  <2> HIDE DEF h
  <2>1. QED
    BY <1>3, <1>5, <1>6 DEF Flats
<1>8. FlattenSeq(s \o t) = h[a + b] /\ FlattenSeq(s) = f[a] /\ FlattenSeq(t) = g[b]
  <2> HIDE DEF h
  <2>1. FlattenSeq(s \o t) = h[Len(s \o t)]
    BY <1>3, <1>7, FlattenIs
  <2>2. QED
    BY <1>1, <1>2, <1>3, <2>1, FlattenIs DEF a, b
<1>9. f[a] \in Seq(S)
  BY <1>3, <1>4
<1>10. CASE b = 0
  <2>1. h[a + b] = f[a] /\ g[b] = <<>>
    BY <1>3, <1>4, <1>10
  <2>2. QED
    BY <1>8, <1>9, <2>1
<1>11. CASE b # 0
  <2>1. ~ (a + b <= a) /\ a + b \in 0 .. a + b /\ (a + b) - a = b
    BY <1>3, <1>11
  <2>2. QED
    BY <1>8, <2>1
<1>12. QED
  BY <1>10, <1>11

LEMMA FlattenOne == ASSUME NEW S, NEW x \in Seq(S) PROVE FlattenSeq(<<x>>) = x
<1>1. <<x>> \in Seq(Seq(S)) /\ Len(<<x>>) = 1 /\ <<x>>[1] = x
  OBVIOUS
<1>2. PICK f : Flats(S, <<x>>, f)
  BY <1>1, FlatsExist
<1>3. f[1] = f[1 - 1] \o x /\ f[0] = <<>>
  <2>1. f[0] = <<>> /\ \A k \in 1 .. Len(<<x>>) : f[k] = f[k - 1] \o <<x>>[k]
    BY <1>2, Zenon DEF Flats
  <2>2. 1 \in 1 .. Len(<<x>>)
    BY <1>1
  <2>3. f[1] = f[1 - 1] \o <<x>>[1]
    BY <2>1, <2>2, Zenon
  <2>4. QED
    BY <1>1, <2>1, <2>3
<1>4. f[1] = x
  BY <1>3
<1>5. QED
  BY <1>1, <1>2, <1>4, FlattenIs

LEMMA FlattenEmpty == FlattenSeq(<<>>) = <<>>
BY DEF FlattenSeq

-------------------------------------------------------------------------------
(* OnPlaces.                                                               *)
Selects(S, list, places, f) ==
  /\ f \in [0 .. Len(list) -> Seq(S)] /\ f[0] = <<>>
  /\ \A k \in 1 .. Len(list) :
       f[k] = IF k \in places THEN Append(f[k - 1], list[k]) ELSE f[k - 1]

Selectable(S, list, places) ==
  Len(list) \in Nat /\ \A k \in 1 .. Len(list) : k \in places => list[k] \in S

LEMMA OnPlacesIs ==
  ASSUME NEW S, NEW list, NEW places, Selectable(S, list, places)
  PROVE  \E f : Selects(S, list, places, f) /\ OnPlaces(list, places) = f[Len(list)]
<1> DEFINE n == Len(list)
           G == [p \in (1 .. n) \X Seq(S) |->
                   IF p[1] \in places THEN Append(p[2], list[p[1]]) ELSE p[2]]
           F(g) == [k \in 0 .. n |->
                      IF k = 0 THEN <<>>
                      ELSE IF k \in places THEN Append(g[k - 1], list[k]) ELSE g[k - 1]]
           t == CHOOSE g : g = F(g)
<1>1. n \in Nat /\ <<>> \in Seq(S) /\ \A k \in 1 .. n : k \in places => list[k] \in S
  BY DEF Selectable
<1>2. G \in [(1 .. n) \X Seq(S) -> Seq(S)]
  <2> HIDE DEF n
  <2>1. ASSUME NEW p \in (1 .. n) \X Seq(S)
        PROVE  (IF p[1] \in places THEN Append(p[2], list[p[1]]) ELSE p[2]) \in Seq(S)
    BY <1>1
  <2>2. QED
    BY <2>1
<1>3. PICK f \in [0 .. n -> Seq(S)] : f[0] = <<>> /\ \A k \in 1 .. n : f[k] = G[<<k, f[k - 1]>>]
  <2> HIDE DEF n, G
  <2>1. Recursive(n, Seq(S), <<>>, G) # {}
    BY <1>1, <1>2, Recursion
  <2>2. QED
    BY <2>1 DEF Recursive
<1>4. ASSUME NEW k \in 1 .. n
      PROVE  f[k] = IF k \in places THEN Append(f[k - 1], list[k]) ELSE f[k - 1]
  <2>1. f[k - 1] \in Seq(S)
    <3> HIDE DEF n, G
    <3>1. QED
      BY <1>1, <1>3
  <2>2. <<k, f[k - 1]>> \in (1 .. n) \X Seq(S)
    BY <2>1
  <2>3. QED
    BY <1>3, <2>2
<1>5. OnPlaces(list, places) = t[n]
  BY DEF OnPlaces
<1>6. t = F(t)
  <2>1. f = F(f)
    <3> HIDE DEF n, G
    <3>1. ASSUME NEW k \in 0 .. n
          PROVE  f[k] = IF k = 0 THEN <<>>
                        ELSE IF k \in places THEN Append(f[k - 1], list[k]) ELSE f[k - 1]
      <4>1. CASE k = 0
        BY <1>3, <4>1
      <4>2. CASE k # 0
        <5>1. k \in 1 .. n
          BY <1>1, <4>2
        <5>2. QED
          BY <1>4, <4>2, <5>1
      <4>3. QED
        BY <4>1, <4>2
    <3>2. QED
      BY <1>3, <3>1
  <2> HIDE DEF F
  <2>2. QED
    BY <2>1
<1> HIDE DEF t, n, G
<1>7. t[0] = <<>> /\ \A k \in 1 .. n : t[k] = IF k \in places THEN Append(t[k - 1], list[k]) ELSE t[k - 1]
  <2>1. t[0] = <<>>
    BY <1>1, <1>6
  <2>2. ASSUME NEW k \in 1 .. n
        PROVE  t[k] = IF k \in places THEN Append(t[k - 1], list[k]) ELSE t[k - 1]
    <3>1. k \in 0 .. n /\ k # 0
      BY <1>1
    <3>2. t[k] = F(t)[k]
      BY <1>6
    <3>3. QED
      BY <3>1, <3>2
  <2>3. QED
    BY <2>1, <2>2
<1> HIDE DEF F
<1>8. Alike(n, f, t)
  <2>1. ASSUME NEW k \in 1 .. n, f[k - 1] = t[k - 1] PROVE f[k] = t[k]
    BY <1>4, <1>7, <2>1
  <2>2. QED
    BY <1>3, <1>7, <2>1 DEF Alike
<1>9. f[n] = t[n]
  BY <1>1, <1>8, SameSteps DEF Agree
<1>10. Selects(S, list, places, f)
  BY <1>3, <1>4, Zenon DEF Selects, n
<1>11. QED
  BY <1>5, <1>9, <1>10 DEF n

LEMMA OnPlacesType ==
  ASSUME NEW S, NEW list, NEW places, Selectable(S, list, places)
  PROVE  OnPlaces(list, places) \in Seq(S)
<1>1. PICK f : Selects(S, list, places, f) /\ OnPlaces(list, places) = f[Len(list)]
  BY OnPlacesIs
<1>2. f \in [0 .. Len(list) -> Seq(S)] /\ Len(list) \in 0 .. Len(list)
  BY <1>1 DEF Selects, Selectable
<1>3. QED
  BY <1>1, <1>2

(* A list put together from others.                                        *)
LEMMA UnionType ==
  ASSUME NEW S, NEW lists \in Seq(Seq(S))
  PROVE  UnionInOrder(lists) \in Seq(S)
<1> DEFINE all == FlattenSeq(lists)
           places == {n \in DOMAIN all : \A m \in 1 .. n - 1 : all[m] # all[n]}
<1>1. all \in Seq(S)
  BY FlattenType
<1> HIDE DEF all
<1>2. Selectable(S, all, places)
  BY <1>1 DEF Selectable
<1>3. OnPlaces(all, places) \in Seq(S)
  <2> HIDE DEF places
  <2>1. QED
    BY <1>2, OnPlacesType
<1>4. QED
  BY <1>3 DEF UnionInOrder, all

-------------------------------------------------------------------------------
(* Weights of the elements of a list.                                      *)
Weights(w, list) == [n \in DOMAIN list |-> w[list[n]]]
Weigh(w, list) == Total(Weights(w, list))

LEMMA WeightsType ==
  ASSUME NEW S, NEW w \in [S -> Nat], NEW list \in Seq(S)
  PROVE  Weights(w, list) \in Seq(Nat) /\ Len(Weights(w, list)) = Len(list)
<1>1. Len(list) \in Nat /\ DOMAIN list = 1 .. Len(list) /\ \A n \in 1 .. Len(list) : list[n] \in S
  OBVIOUS
<1>2. Weights(w, list) \in [1 .. Len(list) -> Nat]
  BY <1>1 DEF Weights
<1>3. QED
  BY <1>1, <1>2

LEMMA WeighConcat ==
  ASSUME NEW S, NEW w \in [S -> Nat], NEW s \in Seq(S), NEW t \in Seq(S)
  PROVE  Weigh(w, s \o t) = Weigh(w, s) + Weigh(w, t)
<1>1. /\ s \o t \in Seq(S) /\ Len(s \o t) = Len(s) + Len(t)
      /\ \A k \in 1 .. Len(s) + Len(t) : (s \o t)[k] = IF k <= Len(s) THEN s[k] ELSE t[k - Len(s)]
  BY ConcatProperties
<1> DEFINE a == Weights(w, s)
           b == Weights(w, t)
           c == Weights(w, s \o t)
<1>2. /\ a \in Seq(Nat) /\ Len(a) = Len(s) /\ b \in Seq(Nat) /\ Len(b) = Len(t)
      /\ c \in Seq(Nat) /\ Len(c) = Len(s) + Len(t)
  BY <1>1, WeightsType
<1>3. /\ a \o b \in Seq(Nat) /\ Len(a \o b) = Len(a) + Len(b)
      /\ \A k \in 1 .. Len(a) + Len(b) : (a \o b)[k] = IF k <= Len(a) THEN a[k] ELSE b[k - Len(a)]
  <2> HIDE DEF a, b, c
  <2>1. a \in Seq(Nat) /\ b \in Seq(Nat)
    BY <1>2
  <2>2. QED
    BY ONLY <2>1, ConcatProperties
<1>4. ASSUME NEW k \in 1 .. Len(s) + Len(t) PROVE c[k] = (a \o b)[k]
  <2>1. Len(s) \in Nat /\ Len(t) \in Nat /\ DOMAIN (s \o t) = 1 .. Len(s) + Len(t)
    BY <1>1
  <2>2. c[k] = w[(s \o t)[k]]
    BY <2>1 DEF Weights
  <2>3. CASE k <= Len(s)
    <3>1. k \in DOMAIN s
      BY <2>1, <2>3
    <3>2. a[k] = w[s[k]]
      BY <3>1 DEF Weights
    <3>3. (s \o t)[k] = s[k] /\ (a \o b)[k] = a[k]
      <4> HIDE DEF a, b, c
      <4>1. QED
        BY <1>1, <1>2, <1>3, <2>3
    <3>4. QED
      BY <2>2, <3>2, <3>3
  <2>4. CASE ~ (k <= Len(s))
    <3>1. k - Len(s) \in DOMAIN t
      BY <2>1, <2>4
    <3>2. b[k - Len(s)] = w[t[k - Len(s)]]
      BY <3>1 DEF Weights
    <3>3. (s \o t)[k] = t[k - Len(s)] /\ (a \o b)[k] = b[k - Len(s)]
      <4> HIDE DEF a, b, c
      <4>1. QED
        BY <1>1, <1>2, <1>3, <2>4
    <3>4. QED
      BY <2>2, <3>2, <3>3
  <2>5. QED
    BY <2>3, <2>4
<1>5. c = a \o b
  <2> HIDE DEF a, b, c
  <2>1. Len(c) = Len(a \o b) /\ \A k \in 1 .. Len(c) : c[k] = (a \o b)[k]
    BY <1>2, <1>3, <1>4
  <2>2. QED
    BY <1>2, <1>3, <2>1, SeqEqual
<1>6. Total(a \o b) = Total(a) + Total(b)
  <2> HIDE DEF a, b
  <2>1. QED
    BY <1>2, TotalConcat
<1>7. QED
  BY <1>5, <1>6 DEF Weigh

LEMMA WeighNat ==
  ASSUME NEW S, NEW w \in [S -> Nat], NEW list \in Seq(S)
  PROVE  Weigh(w, list) \in Nat
BY WeightsType, TotalNat DEF Weigh

LEMMA WeighEmpty == \A w : Weigh(w, <<>>) = 0
<1>1. \A w : Weights(w, <<>>) = <<>>
  BY DEF Weights
<1>2. QED
  BY <1>1, TotalEmpty DEF Weigh

LEMMA WeighAppend ==
  ASSUME NEW S, NEW w \in [S -> Nat], NEW list \in Seq(S), NEW x \in S
  PROVE  Weigh(w, Append(list, x)) = Weigh(w, list) + w[x]
<1>1. <<x>> \in Seq(S) /\ Append(list, x) = list \o <<x>>
  BY AppendIsConcat
<1>2. Weights(w, <<x>>) = <<w[x]>>
  BY DEF Weights
<1>3. Weigh(w, <<x>>) = w[x]
  BY <1>2, TotalOne DEF Weigh
<1>4. QED
  BY <1>1, <1>3, WeighConcat

(* What is taken from a list in two parts weighs as much as the list.      *)
Parted(list, A, B) == \A k \in 1 .. Len(list) : (k \in A) = (k \notin B)

LEMMA WeighParts ==
  ASSUME NEW S, NEW w \in [S -> Nat], NEW list \in Seq(S), NEW A, NEW B, Parted(list, A, B)
  PROVE  Weigh(w, OnPlaces(list, A)) + Weigh(w, OnPlaces(list, B)) = Weigh(w, list)
<1> DEFINE n == Len(list)
<1>1. n \in Nat /\ \A k \in 1 .. n : list[k] \in S
  OBVIOUS
<1>2. Selectable(S, list, A) /\ Selectable(S, list, B)
  BY <1>1 DEF Selectable
<1>3. PICK f : Selects(S, list, A, f) /\ OnPlaces(list, A) = f[n]
  BY <1>2, OnPlacesIs
<1>4. PICK g : Selects(S, list, B, g) /\ OnPlaces(list, B) = g[n]
  BY <1>2, OnPlacesIs
<1>5. Weights(w, list) \in Seq(Nat) /\ Len(Weights(w, list)) = n
  BY WeightsType
<1>6. PICK h : Sums(Weights(w, list), h) /\ Weigh(w, list) = h[n]
  BY <1>5, TotalIs DEF Weigh
<1>7. ASSUME NEW k \in 1 .. n PROVE h[k] = h[k - 1] + w[list[k]] /\ h[k - 1] \in Nat
  <2>1. h \in [0 .. n -> Nat] /\ h[k] = h[k - 1] + Weights(w, list)[k]
    BY <1>5, <1>6 DEF Sums
  <2>2. Weights(w, list)[k] = w[list[k]]
    BY DEF Weights
  <2> HIDE DEF n
  <2>3. k - 1 \in 0 .. n
    BY <1>1
  <2>4. QED
    BY <2>1, <2>2, <2>3
<1>8. /\ f \in [0 .. n -> Seq(S)] /\ f[0] = <<>>
      /\ \A k \in 1 .. n : f[k] = IF k \in A THEN Append(f[k - 1], list[k]) ELSE f[k - 1]
  BY <1>3, Zenon DEF Selects, n
<1>9. /\ g \in [0 .. n -> Seq(S)] /\ g[0] = <<>>
      /\ \A k \in 1 .. n : g[k] = IF k \in B THEN Append(g[k - 1], list[k]) ELSE g[k - 1]
  BY <1>4, Zenon DEF Selects, n
<1>10. h[0] = 0
  BY <1>6 DEF Sums
<1>11. \A k \in 1 .. n : (k \in A) = (k \notin B)
  BY DEF Parted
<1> DEFINE Same(k) == Weigh(w, f[k]) + Weigh(w, g[k]) = h[k]
           Bad == {k \in 0 .. n : ~ Same(k)}
<1> HIDE DEF n
<1>12. SUFFICES ASSUME Bad # {} PROVE FALSE
  <2>1. n \in 0 .. n
    BY <1>1
  <2>2. Bad = {} => Same(n)
    BY <2>1
  <2>3. QED
    BY <1>3, <1>4, <1>6, <2>2
<1>13. PICK m \in Bad : \A k \in Bad : m <= k
  <2>1. Bad \in SUBSET Nat
    BY <1>1
  <2> HIDE DEF Bad
  <2>2. QED
    BY <1>12, <2>1, Least
<1>14. Same(0)
  <2>1. Weigh(w, f[0]) = 0 /\ Weigh(w, g[0]) = 0
    BY <1>8, <1>9, WeighEmpty
  <2>2. QED
    BY <1>10, <2>1
<1>15. m \in 0 .. n /\ ~ Same(m) /\ m # 0
  BY <1>13, <1>14
<1>16. m \in 1 .. n /\ m - 1 \in 0 .. n /\ ~ (m <= m - 1)
  BY <1>1, <1>15
<1>17. Same(m - 1)
  BY <1>13, <1>16
<1>18. f[m - 1] \in Seq(S) /\ g[m - 1] \in Seq(S) /\ list[m] \in S /\ w[list[m]] \in Nat
  BY <1>1, <1>8, <1>9, <1>16
<1>19. Weigh(w, f[m - 1]) \in Nat /\ Weigh(w, g[m - 1]) \in Nat
  BY <1>18, WeighNat
<1>20. h[m] = h[m - 1] + w[list[m]] /\ h[m - 1] \in Nat
  BY <1>7, <1>16
<1>21. CASE m \in A
  <2>1. f[m] = Append(f[m - 1], list[m]) /\ g[m] = g[m - 1]
    BY <1>8, <1>9, <1>11, <1>16, <1>21
  <2>2. Weigh(w, f[m]) = Weigh(w, f[m - 1]) + w[list[m]]
    BY <1>18, <2>1, WeighAppend
  <2>3. QED
    BY <1>15, <1>17, <1>18, <1>19, <1>20, <2>1, <2>2
<1>22. CASE m \notin A
  <2>1. g[m] = Append(g[m - 1], list[m]) /\ f[m] = f[m - 1]
    BY <1>8, <1>9, <1>11, <1>16, <1>22
  <2>2. Weigh(w, g[m]) = Weigh(w, g[m - 1]) + w[list[m]]
    BY <1>18, <2>1, WeighAppend
  <2>3. QED
    BY <1>15, <1>17, <1>18, <1>19, <1>20, <2>1, <2>2
<1>23. QED
  BY <1>21, <1>22

-------------------------------------------------------------------------------
(* Lines and labels of the column.                                         *)
AllLabels == DOMAIN column.labels
AllLines == UNION {ToSet(column.jobs[j]) : j \in DOMAIN column.jobs}
LabelWords == [l \in AllLabels |-> WordsOf(l)]

Sized(T) == \A op \in T : op.size \in Nat
Sizes(T) == [op \in T |-> op.size]

LEMMA TextBytesIs ==
  ASSUME NEW T, Sized(T), NEW ops \in Seq(T)
  PROVE  TextBytes(ops) = Weigh(Sizes(T), ops) /\ TextBytes(ops) \in Nat /\ Sizes(T) \in [T -> Nat]
<1>1. Sizes(T) \in [T -> Nat]
  BY DEF Sized, Sizes
<1>2. DOMAIN ops = 1 .. Len(ops) /\ \A n \in 1 .. Len(ops) : ops[n] \in T
  OBVIOUS
<1>3. \A n \in DOMAIN ops : ops[n].size = Sizes(T)[ops[n]]
  BY <1>2 DEF Sizes
<1>4. [n \in DOMAIN ops |-> ops[n].size] = Weights(Sizes(T), ops)
  BY <1>3 DEF Weights
<1>5. TextBytes(ops) = Weigh(Sizes(T), ops)
  BY <1>4 DEF TextBytes, Weigh
<1>6. QED
  BY <1>1, <1>5, WeighNat

LEMMA TextBytesConcat ==
  ASSUME NEW T, Sized(T), NEW s \in Seq(T), NEW t \in Seq(T)
  PROVE  TextBytes(s \o t) = TextBytes(s) + TextBytes(t)
<1>1. s \o t \in Seq(T)
  BY ConcatProperties
<1>2. Sizes(T) \in [T -> Nat] /\ TextBytes(s \o t) = Weigh(Sizes(T), s \o t)
  BY <1>1, TextBytesIs
<1>3. TextBytes(s) = Weigh(Sizes(T), s) /\ TextBytes(t) = Weigh(Sizes(T), t)
  BY TextBytesIs
<1>4. Weigh(Sizes(T), s \o t) = Weigh(Sizes(T), s) + Weigh(Sizes(T), t)
  BY <1>2, WeighConcat
<1>5. QED
  BY <1>2, <1>3, <1>4

LEMMA TextBytesAppend ==
  ASSUME NEW T, Sized(T), NEW ops \in Seq(T), NEW x, x.size \in Nat
  PROVE  TextBytes(Append(ops, x)) = TextBytes(ops) + x.size
<1> DEFINE U == T \cup {x}
<1>1. Sized(U)
  BY DEF Sized
<1>2. ops \in Seq(U) /\ x \in U /\ Sizes(U)[x] = x.size
  BY DEF Sizes
<1> HIDE DEF U
<1>3. Append(ops, x) \in Seq(U)
  BY <1>2, AppendProperties
<1>4. Sizes(U) \in [U -> Nat]
  BY <1>1, <1>2, TextBytesIs
<1>5. Weigh(Sizes(U), Append(ops, x)) = Weigh(Sizes(U), ops) + x.size
  BY <1>2, <1>4, WeighAppend
<1>6. QED
  BY <1>1, <1>2, <1>3, <1>5, TextBytesIs

LEMMA LabelsAre ==
  ASSUME ColumnOK(column)
  PROVE  /\ Len(column.labels) \in Nat /\ AllLabels = 1 .. Len(column.labels)
         /\ LabelWords \in [AllLabels -> Nat]
         /\ \A l \in AllLabels :
              /\ Label(l).kind \in {"uc_dma_bd", ".long"}
              /\ Label(l).refs \in Seq(AllLabels) /\ Label(l).words \in Seq(Nat)
              /\ WordsOf(l) > 0 /\ WordsOf(l) \in Nat
              /\ Label(l).kind = "uc_dma_bd" => WordsOf(l) = 4 * Len(Label(l).refs)
<1>1. LabelsOK(column)
  BY DEF ColumnOK
<1>2. Len(column.labels) \in Nat /\ AllLabels = 1 .. Len(column.labels)
  BY <1>1 DEF LabelsOK, AllLabels
<1>3. ASSUME NEW l \in AllLabels
      PROVE  /\ Label(l).kind \in {"uc_dma_bd", ".long"}
             /\ Label(l).refs \in Seq(AllLabels) /\ Label(l).words \in Seq(Nat)
             /\ (IF Label(l).kind = "uc_dma_bd" THEN Label(l).refs ELSE Label(l).words) # <<>>
  BY <1>1 DEF LabelsOK, AllLabels, Label
<1>4. ASSUME NEW l \in AllLabels
      PROVE  /\ WordsOf(l) > 0 /\ WordsOf(l) \in Nat
             /\ Label(l).kind = "uc_dma_bd" => WordsOf(l) = 4 * Len(Label(l).refs)
  <2>1. \A S : \A s \in Seq(S) : s # <<>> => Len(s) \in Nat /\ Len(s) > 0
    OBVIOUS
  <2>2. CASE Label(l).kind = "uc_dma_bd"
    <3>1. Len(Label(l).refs) \in Nat /\ Len(Label(l).refs) > 0
      BY <1>3, <2>1, <2>2
    <3>2. QED
      BY <2>2, <3>1 DEF WordsOf
  <2>3. CASE Label(l).kind # "uc_dma_bd"
    <3>1. Len(Label(l).words) \in Nat /\ Len(Label(l).words) > 0
      BY <1>3, <2>1, <2>3
    <3>2. QED
      BY <2>3, <3>1 DEF WordsOf
  <2>4. QED
    BY <2>2, <2>3
<1>5. LabelWords \in [AllLabels -> Nat]
  BY <1>4 DEF LabelWords
<1>6. QED
  BY <1>2, <1>3, <1>4, <1>5

LEMMA BytesIs ==
  ASSUME ColumnOK(column), NEW list \in Seq(AllLabels)
  PROVE  Bytes(list) = 4 * Weigh(LabelWords, list) /\ Bytes(list) \in Nat
<1>1. DOMAIN list = 1 .. Len(list) /\ \A n \in 1 .. Len(list) : list[n] \in AllLabels
  OBVIOUS
<1>2. \A n \in DOMAIN list : WordsOf(list[n]) = LabelWords[list[n]]
  BY <1>1 DEF LabelWords
<1>3. [n \in DOMAIN list |-> WordsOf(list[n])] = Weights(LabelWords, list)
  BY <1>2 DEF Weights
<1>4. Weigh(LabelWords, list) \in Nat
  BY LabelsAre, WeighNat
<1>5. QED
  BY <1>3, <1>4 DEF Bytes, Weigh

LEMMA BytesConcat ==
  ASSUME ColumnOK(column), NEW s \in Seq(AllLabels), NEW t \in Seq(AllLabels)
  PROVE  Bytes(s \o t) = Bytes(s) + Bytes(t)
<1>1. s \o t \in Seq(AllLabels)
  BY ConcatProperties
<1>2. Weigh(LabelWords, s \o t) = Weigh(LabelWords, s) + Weigh(LabelWords, t)
  BY LabelsAre, WeighConcat
<1>3. Weigh(LabelWords, s) \in Nat /\ Weigh(LabelWords, t) \in Nat
  BY LabelsAre, WeighNat
<1>4. /\ Bytes(s \o t) = 4 * Weigh(LabelWords, s \o t)
      /\ Bytes(s) = 4 * Weigh(LabelWords, s) /\ Bytes(t) = 4 * Weigh(LabelWords, t)
  BY <1>1, BytesIs
<1>5. QED
  BY ONLY <1>2, <1>3, <1>4

LEMMA LinesAre ==
  ASSUME ColumnOK(column)
  PROVE  /\ Sized(AllLines) /\ \A op \in AllLines : OpOK(column, op)
         /\ \A j \in DOMAIN column.jobs : column.jobs[j] \in Seq(AllLines)
         /\ Lines \in Seq(AllLines)
<1>1. /\ column.jobs \in Seq(ToSet(column.jobs))
      /\ \A j \in DOMAIN column.jobs :
           /\ column.jobs[j] \in Seq(ToSet(column.jobs[j]))
           /\ \A n \in DOMAIN column.jobs[j] : OpOK(column, column.jobs[j][n])
  BY DEF ColumnOK
<1>2. \A op \in AllLines : OpOK(column, op)
  BY <1>1 DEF AllLines, ToSet
<1>3. ASSUME NEW j \in DOMAIN column.jobs PROVE column.jobs[j] \in Seq(AllLines)
  <2>1. ToSet(column.jobs[j]) \subseteq AllLines
    BY DEF AllLines
  <2>2. QED
    BY <1>1, <2>1, SeqMonotonic
<1>4. column.jobs \in Seq(Seq(AllLines))
  <2>1. \A job \in ToSet(column.jobs) : job \in Seq(AllLines)
    BY <1>3 DEF ToSet
  <2>2. QED
    BY <1>1, <2>1, SeqMonotonic
<1>5. Lines \in Seq(AllLines)
  BY <1>4, FlattenType DEF Lines
<1>6. QED
  BY <1>2, <1>3, <1>5 DEF Sized, OpOK

(* The lines of jobs.                                                      *)
LEMMA OpsAre ==
  ASSUME ColumnOK(column), NEW jobs \in Seq(DOMAIN column.jobs)
  PROVE  /\ [n \in DOMAIN jobs |-> Job(jobs[n])] \in Seq(Seq(AllLines))
         /\ OpsOf(jobs) \in Seq(AllLines)
<1> DEFINE lists == [n \in DOMAIN jobs |-> Job(jobs[n])]
<1>1. /\ Len(jobs) \in Nat /\ DOMAIN jobs = 1 .. Len(jobs)
      /\ \A n \in 1 .. Len(jobs) : jobs[n] \in DOMAIN column.jobs
  OBVIOUS
<1>2. lists \in [1 .. Len(jobs) -> Seq(AllLines)]
  BY <1>1, LinesAre DEF Job
<1>3. lists \in Seq(Seq(AllLines))
  <2> HIDE DEF lists
  <2>1. QED
    BY <1>1, <1>2, IsASeq
<1>4. FlattenSeq(lists) \in Seq(AllLines)
  <2> HIDE DEF lists
  <2>1. QED
    BY <1>3, FlattenType
<1>5. QED
  BY <1>3, <1>4 DEF OpsOf

LEMMA OpsConcat ==
  ASSUME ColumnOK(column), NEW s \in Seq(DOMAIN column.jobs), NEW t \in Seq(DOMAIN column.jobs)
  PROVE  OpsOf(s \o t) = OpsOf(s) \o OpsOf(t)
<1> DEFINE a == [n \in DOMAIN s |-> Job(s[n])]
           b == [n \in DOMAIN t |-> Job(t[n])]
           c == [n \in DOMAIN (s \o t) |-> Job((s \o t)[n])]
<1>1. /\ s \o t \in Seq(DOMAIN column.jobs) /\ Len(s \o t) = Len(s) + Len(t)
      /\ \A k \in 1 .. Len(s) + Len(t) : (s \o t)[k] = IF k <= Len(s) THEN s[k] ELSE t[k - Len(s)]
  BY ConcatProperties
<1>2. a \in Seq(Seq(AllLines)) /\ b \in Seq(Seq(AllLines)) /\ c \in Seq(Seq(AllLines))
  BY <1>1, OpsAre
<1>3. /\ Len(s) \in Nat /\ Len(t) \in Nat /\ DOMAIN s = 1 .. Len(s) /\ DOMAIN t = 1 .. Len(t)
      /\ DOMAIN (s \o t) = 1 .. Len(s) + Len(t)
  BY <1>1
<1>4. Len(a) = Len(s) /\ Len(b) = Len(t) /\ Len(c) = Len(s) + Len(t)
  <2>1. DOMAIN a = 1 .. Len(s) /\ DOMAIN b = 1 .. Len(t) /\ DOMAIN c = 1 .. Len(s) + Len(t)
    BY <1>3
  <2> HIDE DEF a, b, c
  <2>2. QED
    BY <1>2, <1>3, <2>1, LenProperties
<1>5. /\ a \o b \in Seq(Seq(AllLines)) /\ Len(a \o b) = Len(a) + Len(b)
      /\ \A k \in 1 .. Len(a) + Len(b) : (a \o b)[k] = IF k <= Len(a) THEN a[k] ELSE b[k - Len(a)]
  <2> HIDE DEF a, b, c
  <2>1. a \in Seq(Seq(AllLines)) /\ b \in Seq(Seq(AllLines))
    BY <1>2
  <2>2. QED
    BY ONLY <2>1, ConcatProperties
<1>6. ASSUME NEW k \in 1 .. Len(s) + Len(t) PROVE c[k] = (a \o b)[k]
  <2>1. c[k] = Job((s \o t)[k])
    BY <1>3
  <2>2. CASE k <= Len(s)
    <3>1. k \in DOMAIN s
      BY <1>3, <2>2
    <3>2. a[k] = Job(s[k])
      BY <3>1
    <3>3. (s \o t)[k] = s[k] /\ (a \o b)[k] = a[k]
      <4> HIDE DEF a, b, c
      <4>1. QED
        BY <1>1, <1>4, <1>5, <2>2
    <3>4. QED
      BY <2>1, <3>2, <3>3
  <2>3. CASE ~ (k <= Len(s))
    <3>1. k - Len(s) \in DOMAIN t
      BY <1>3, <2>3
    <3>2. b[k - Len(s)] = Job(t[k - Len(s)])
      BY <3>1
    <3>3. (s \o t)[k] = t[k - Len(s)] /\ (a \o b)[k] = b[k - Len(s)]
      <4> HIDE DEF a, b, c
      <4>1. QED
        BY <1>1, <1>4, <1>5, <2>3
    <3>4. QED
      BY <2>1, <3>2, <3>3
  <2>4. QED
    BY <2>2, <2>3
<1>7. c = a \o b
  <2> HIDE DEF a, b, c
  <2>1. Len(c) = Len(a \o b) /\ \A k \in 1 .. Len(c) : c[k] = (a \o b)[k]
    BY <1>4, <1>5, <1>6
  <2>2. c \in Seq(Seq(AllLines)) /\ a \o b \in Seq(Seq(AllLines))
    BY <1>2, <1>5
  <2>3. QED
    BY ONLY <2>1, <2>2, SeqEqual
<1>8. FlattenSeq(a \o b) = FlattenSeq(a) \o FlattenSeq(b)
  <2> HIDE DEF a, b
  <2>1. a \in Seq(Seq(AllLines)) /\ b \in Seq(Seq(AllLines))
    BY <1>2
  <2>2. QED
    BY ONLY <2>1, FlattenConcat
<1>9. QED
  BY <1>7, <1>8 DEF OpsOf

-------------------------------------------------------------------------------
(* Labels that a group of jobs names.                                      *)
LEMMA NamesAre ==
  ASSUME ColumnOK(column), NEW op \in AllLines
  PROVE  Names(op) \in Seq(AllLabels)
<1> DEFINE named == CASE op.op = "apply" -> <<op.table, op.pad>>
                      [] op.op = "use" -> <<op.name>>
                      [] OTHER -> <<>>
           places == {n \in DOMAIN named : ~ IsPad(named[n]) /\ named[n] # NoPad}
<1>1. OpOK(column, op)
  BY LinesAre
<1>2. Names(op) = OnPlaces(named, places)
  BY DEF Names
<1>3. Selectable(AllLabels, named, places)
  <2>1. CASE op.op = "apply"
    <3>1. /\ op.table \in AllLabels
          /\ op.pad \in AllLabels \cup DOMAIN column.pads \cup {NoPad}
      BY <1>1, <2>1 DEF OpOK, AllLabels
    <3>2. named = <<op.table, op.pad>>
      BY <2>1
    <3> HIDE DEF named
    <3>3. Len(named) = 2 /\ named[1] = op.table /\ named[2] = op.pad
      BY <3>2
    <3>4. 2 \in places => op.pad \in AllLabels
      BY <3>1, <3>3 DEF IsPad
    <3> HIDE DEF places
    <3>5. \A k \in 1 .. 2 : k = 1 \/ k = 2
      OBVIOUS
    <3>6. QED
      BY <3>1, <3>3, <3>4, <3>5 DEF Selectable
  <2>2. CASE op.op = "use"
    <3>1. op.name \in AllLabels \cup DOMAIN column.pads
      BY <1>1, <2>2 DEF OpOK, AllLabels
    <3>2. named = <<op.name>>
      BY <2>2
    <3> HIDE DEF named
    <3>3. Len(named) = 1 /\ named[1] = op.name
      BY <3>2
    <3>4. 1 \in places => op.name \in AllLabels
      BY <3>1, <3>3 DEF IsPad
    <3> HIDE DEF places
    <3>5. \A k \in 1 .. 1 : k = 1
      OBVIOUS
    <3>6. QED
      BY <3>3, <3>4, <3>5 DEF Selectable
  <2>3. CASE op.op # "apply" /\ op.op # "use"
    <3>1. named = <<>>
      BY <2>3
    <3> HIDE DEF named, places
    <3>2. QED
      BY <3>1 DEF Selectable
  <2>4. QED
    BY <2>1, <2>2, <2>3
<1>4. QED
  <2> HIDE DEF named, places
  <2>1. QED
    BY <1>2, <1>3, OnPlacesType

LEMMA GreatestPlace ==
  ASSUME NEW n \in Nat, NEW S \in SUBSET (1 .. n), S # {}
  PROVE  Max(S) \in S
<1> DEFINE R == {n - k : k \in S}
<1>1. R \in SUBSET Nat /\ R # {}
  <2>1. \A k \in S : n - k \in Nat
    OBVIOUS
  <2>2. PICK k \in S : TRUE
    OBVIOUS
  <2>3. n - k \in R
    OBVIOUS
  <2>4. QED
    BY <2>1, <2>3
<1>2. PICK m \in R : \A k \in R : m <= k
  <2> HIDE DEF R
  <2>1. QED
    BY <1>1, Least
<1>3. PICK x \in S : m = n - x
  OBVIOUS
<1>4. \A y \in S : x >= y
  <2>1. TAKE y \in S
  <2>2. n - y \in R /\ x \in 1 .. n /\ y \in 1 .. n
    OBVIOUS
  <2>3. m <= n - y
    BY <1>2, <2>2
  <2>4. QED
    BY <1>3, <2>2, <2>3
<1>5. QED
  BY <1>4 DEF Max

LEMMA EntriesAre ==
  ASSUME ColumnOK(column), NEW l \in AllLabels
  PROVE  EntriesOf(l) \in Nat /\ l + EntriesOf(l) - 1 <= Len(column.labels)
<1>1. Len(column.labels) \in Nat /\ l \in 1 .. Len(column.labels)
  BY LabelsAre
<1>2. CASE AppliesTo(l) = {}
  BY <1>1, <1>2 DEF EntriesOf
<1>3. CASE AppliesTo(l) # {}
  <2>1. Lines \in Seq(AllLines)
    BY LinesAre
  <2>2. Len(Lines) \in Nat /\ AppliesTo(l) \in SUBSET (1 .. Len(Lines))
    BY <2>1 DEF AppliesTo
  <2>3. Max(AppliesTo(l)) \in AppliesTo(l)
    BY <1>3, <2>2, GreatestPlace
  <2> DEFINE op == Lines[Max(AppliesTo(l))]
  <2>4. op \in AllLines /\ op.op = "apply" /\ op.table = l
    BY <2>1, <2>2, <2>3 DEF AppliesTo, IsApply
  <2>5. EntriesOf(l) = op.entries
    BY <1>3 DEF EntriesOf
  <2>6. OpOK(column, op)
    BY <2>4, LinesAre
  <2> HIDE DEF op
  <2>7. QED
    BY <2>4, <2>5, <2>6 DEF OpOK
<1>4. QED
  BY <1>2, <1>3

LEMMA DependentsAre ==
  ASSUME ColumnOK(column), NEW l \in AllLabels
  PROVE  Dependents(l) \in Seq(AllLabels)
<1>1. CASE EntriesOf(l) = 1
  BY <1>1 DEF Dependents
<1>2. CASE EntriesOf(l) # 1
  <2> DEFINE last == l + EntriesOf(l) - 1
  <2>1. /\ Len(column.labels) \in Nat /\ AllLabels = 1 .. Len(column.labels)
        /\ EntriesOf(l) \in Nat /\ last <= Len(column.labels)
    BY LabelsAre, EntriesAre
  <2>2. l \in Int /\ last \in Int
    BY <2>1
  <2>3. \A i \in l .. last : i \in AllLabels
    BY <2>1
  <2>4. \A i \in l .. last : LabelOrder[i] \in AllLabels
    BY <2>3 DEF LabelOrder, AllLabels
  <2>5. SubSeq(LabelOrder, l, last) \in Seq(AllLabels)
    <3> HIDE DEF last
    <3>1. QED
      BY <2>2, <2>4, SubSeqProperties
  <2>6. QED
    BY <1>2, <2>5 DEF Dependents
<1>3. QED
  BY <1>1, <1>2

(* What a label's extraction gathers when those of its references are f.   *)
Gathered(f, l) ==
  UnionInOrder(<<<<l>>, Dependents(l)>> \o [n \in DOMAIN Label(l).refs |-> f[Label(l).refs[n]]])

LEMMA GatheredAre ==
  ASSUME ColumnOK(column), NEW f \in [AllLabels -> Seq(AllLabels)], NEW l \in AllLabels
  PROVE  Gathered(f, l) \in Seq(AllLabels)
<1> DEFINE own == <<<<l>>, Dependents(l)>>
           theirs == [n \in DOMAIN Label(l).refs |-> f[Label(l).refs[n]]]
<1>1. own \in Seq(Seq(AllLabels))
  <2>1. <<l>> \in Seq(AllLabels) /\ Dependents(l) \in Seq(AllLabels)
    BY DependentsAre
  <2>2. QED
    BY <2>1
<1>2. theirs \in Seq(Seq(AllLabels))
  <2> DEFINE refs == Label(l).refs
  <2>1. refs \in Seq(AllLabels)
    BY LabelsAre
  <2>2. Len(refs) \in Nat /\ DOMAIN refs = 1 .. Len(refs) /\ \A n \in 1 .. Len(refs) : refs[n] \in AllLabels
    <3> HIDE DEF refs
    <3>1. QED
      BY <2>1
  <2>3. theirs \in [1 .. Len(refs) -> Seq(AllLabels)]
    BY <2>2
  <2>4. QED
    <3> HIDE DEF refs, theirs
    <3>1. QED
      BY <2>2, <2>3, SeqFrom
<1>3. own \o theirs \in Seq(Seq(AllLabels))
  <2> HIDE DEF own, theirs
  <2>1. own \in Seq(Seq(AllLabels)) /\ theirs \in Seq(Seq(AllLabels))
    BY <1>1, <1>2
  <2>2. QED
    BY ONLY <2>1, ConcatProperties
<1>4. UnionInOrder(own \o theirs) \in Seq(AllLabels)
  <2> HIDE DEF own, theirs
  <2>1. QED
    BY <1>3, UnionType
<1>5. QED
  BY <1>4 DEF Gathered

LEMMA LabelsFromAre ==
  ASSUME ColumnOK(column), NEW l \in AllLabels
  PROVE  LabelsFrom(l) \in Seq(AllLabels)
<1> DEFINE n == Len(column.labels)
           S == [AllLabels -> Seq(AllLabels)]
           a == [k \in AllLabels |-> <<>>]
           G == [p \in (1 .. n) \X S |-> [k \in AllLabels |-> Gathered(p[2], k)]]
           F(g) == [d \in 0 .. n |-> IF d = 0 THEN a ELSE [k \in AllLabels |-> Gathered(g[d - 1], k)]]
           t == CHOOSE g : g = F(g)
<1>1. n \in Nat /\ AllLabels = DOMAIN column.labels
  BY LabelsAre DEF AllLabels
<1>2. a \in S
  OBVIOUS
<1>3. G \in [(1 .. n) \X S -> S]
  <2>1. \A p \in (1 .. n) \X S : [k \in AllLabels |-> Gathered(p[2], k)] \in S
    <3>1. TAKE p \in (1 .. n) \X S
    <3>2. p[2] \in S
      OBVIOUS
    <3>3. QED
      BY <3>2, GatheredAre
  <2> HIDE DEF S
  <2>2. QED
    BY <2>1
<1>4. PICK f \in [0 .. n -> S] : f[0] = a /\ \A k \in 1 .. n : f[k] = G[<<k, f[k - 1]>>]
  <2> HIDE DEF n, G, S, a
  <2>1. Recursive(n, S, a, G) # {}
    BY <1>1, <1>2, <1>3, Recursion
  <2>2. QED
    BY <2>1 DEF Recursive
<1>5. ASSUME NEW d \in 1 .. n PROVE f[d] = [k \in AllLabels |-> Gathered(f[d - 1], k)]
  <2>1. f[d - 1] \in S
    <3> HIDE DEF n, G, S
    <3>1. QED
      BY <1>1, <1>4
  <2>2. <<d, f[d - 1]>> \in (1 .. n) \X S
    BY <2>1
  <2> HIDE DEF S, n
  <2>3. QED
    BY <1>4, <2>2
<1>6. LabelsFrom(l) = t[n][l]
  BY DEF LabelsFrom, Gathered, AllLabels
<1>7. t = F(t)
  <2>1. f = F(f)
    <3> HIDE DEF n, G, S, a
    <3>1. ASSUME NEW d \in 0 .. n
          PROVE  f[d] = IF d = 0 THEN a ELSE [k \in AllLabels |-> Gathered(f[d - 1], k)]
      <4>1. CASE d = 0
        BY <1>4, <4>1
      <4>2. CASE d # 0
        <5>1. d \in 1 .. n
          BY <1>1, <4>2
        <5>2. QED
          BY <1>5, <4>2, <5>1
      <4>3. QED
        BY <4>1, <4>2
    <3>2. QED
      BY <1>4, <3>1
  <2> HIDE DEF F
  <2>2. QED
    BY <2>1
<1> HIDE DEF t, n, G, a, S
<1>8. t[0] = a /\ \A d \in 1 .. n : t[d] = [k \in AllLabels |-> Gathered(t[d - 1], k)]
  <2>1. t[0] = a
    BY <1>1, <1>7
  <2>2. ASSUME NEW d \in 1 .. n PROVE t[d] = [k \in AllLabels |-> Gathered(t[d - 1], k)]
    <3>1. d \in 0 .. n /\ d # 0
      BY <1>1
    <3>2. t[d] = F(t)[d]
      BY <1>7
    <3>3. QED
      BY <3>1, <3>2
  <2>3. QED
    BY <2>1, <2>2
<1> HIDE DEF F
<1>9. Alike(n, f, t)
  <2>1. ASSUME NEW d \in 1 .. n, f[d - 1] = t[d - 1] PROVE f[d] = t[d]
    BY <1>5, <1>8, <2>1
  <2>2. QED
    BY <1>4, <1>8, <2>1 DEF Alike
<1>10. f[n] = t[n] /\ f[n] \in S
  BY <1>1, <1>4, <1>9, SameSteps DEF Agree
<1>11. QED
  BY <1>6, <1>10 DEF S

LEMMA LabelsOfGroupAre ==
  ASSUME ColumnOK(column), NEW group \in Seq(DOMAIN column.jobs)
  PROVE  LabelsOfGroup(group) \in Seq(AllLabels)
<1> DEFINE ops == OpsOf(group)
           named == [n \in DOMAIN ops |-> Names(ops[n])]
           names == FlattenSeq(named)
           lists == [n \in DOMAIN names |-> LabelsFrom(names[n])]
<1>1. ops \in Seq(AllLines)
  BY OpsAre
<1>2. named \in Seq(Seq(AllLabels))
  <2> HIDE DEF ops
  <2>1. Len(ops) \in Nat /\ DOMAIN ops = 1 .. Len(ops) /\ \A n \in 1 .. Len(ops) : ops[n] \in AllLines
    BY <1>1
  <2>2. named \in [1 .. Len(ops) -> Seq(AllLabels)]
    BY <2>1, NamesAre
  <2> HIDE DEF named
  <2>3. QED
    BY <2>1, <2>2
<1>3. names \in Seq(AllLabels)
  <2> HIDE DEF named
  <2>1. QED
    BY <1>2, FlattenType
<1>4. lists \in Seq(Seq(AllLabels))
  <2> HIDE DEF names
  <2>1. Len(names) \in Nat /\ DOMAIN names = 1 .. Len(names) /\ \A n \in 1 .. Len(names) : names[n] \in AllLabels
    BY <1>3
  <2>2. lists \in [1 .. Len(names) -> Seq(AllLabels)]
    BY <2>1, LabelsFromAre
  <2> HIDE DEF lists
  <2>3. QED
    BY <2>1, <2>2
<1>5. UnionInOrder(lists) \in Seq(AllLabels)
  <2> HIDE DEF lists
  <2>1. QED
    BY <1>4, UnionType
<1>6. QED
  BY <1>5 DEF LabelsOfGroup

-------------------------------------------------------------------------------
(* labelalignmentsorter: nothing is lost, and descriptors are in front.    *)
IsBd(l) == Label(l).kind = "uc_dma_bd"
BdsInFront(list) ==
  \A i, j \in 1 .. Len(list) : i < j /\ IsBd(list[j]) => IsBd(list[i])

LEMMA SorterIs ==
  ASSUME ColumnOK(column), NEW list \in Seq(AllLabels)
  PROVE  /\ labelalignmentsorter(list) \in Seq(AllLabels)
         /\ Bytes(labelalignmentsorter(list)) = Bytes(list)
         /\ BdsInFront(labelalignmentsorter(list))
<1> DEFINE A == OfKind(list, "uc_dma_bd")
           B == OfKind(list, ".long")
           front == OnPlaces(list, A)
           back == OnPlaces(list, B)
           Bds == {l \in AllLabels : IsBd(l)}
           Others == {l \in AllLabels : ~ IsBd(l)}
<1>1. /\ Len(list) \in Nat /\ DOMAIN list = 1 .. Len(list)
      /\ \A k \in 1 .. Len(list) : list[k] \in AllLabels
  OBVIOUS
<1>2. \A k \in 1 .. Len(list) : Label(list[k]).kind \in {"uc_dma_bd", ".long"}
  BY <1>1, LabelsAre
<1>3. Parted(list, A, B)
  BY <1>1, <1>2 DEF Parted, OfKind
<1>4. Selectable(Bds, list, A) /\ Selectable(Others, list, B)
  BY <1>1 DEF Selectable, OfKind, IsBd
<1>5. front \in Seq(Bds) /\ back \in Seq(Others)
  <2> HIDE DEF A, B, Bds, Others
  <2>1. QED
    BY <1>4, OnPlacesType
<1>6. front \in Seq(AllLabels) /\ back \in Seq(AllLabels)
  <2>1. Bds \subseteq AllLabels /\ Others \subseteq AllLabels
    OBVIOUS
  <2> HIDE DEF front, back, Bds, Others
  <2>2. QED
    BY <1>5, <2>1, SeqMonotonic
<1>7. Weigh(LabelWords, front) + Weigh(LabelWords, back) = Weigh(LabelWords, list)
  <2> HIDE DEF A, B
  <2>1. QED
    BY <1>3, LabelsAre, WeighParts
<1>8. labelalignmentsorter(list) = front \o back
  BY DEF labelalignmentsorter
<1> HIDE DEF front, back, A, B
<1>9. /\ front \o back \in Seq(AllLabels) /\ Len(front \o back) = Len(front) + Len(back)
      /\ \A k \in 1 .. Len(front) + Len(back) :
           (front \o back)[k] = IF k <= Len(front) THEN front[k] ELSE back[k - Len(front)]
  BY ONLY <1>6, ConcatProperties
<1>10. Bytes(front \o back) = Bytes(list)
  <2>1. Bytes(front \o back) = Bytes(front) + Bytes(back)
    BY <1>6, BytesConcat
  <2>2. /\ Bytes(front) = 4 * Weigh(LabelWords, front) /\ Bytes(back) = 4 * Weigh(LabelWords, back)
        /\ Bytes(list) = 4 * Weigh(LabelWords, list)
    BY <1>6, BytesIs
  <2>3. Weigh(LabelWords, front) \in Nat /\ Weigh(LabelWords, back) \in Nat
    BY <1>6, LabelsAre, WeighNat
  <2>4. QED
    BY ONLY <1>7, <2>1, <2>2, <2>3
<1>11. BdsInFront(front \o back)
  <2>1. SUFFICES ASSUME NEW i \in 1 .. Len(front \o back), NEW j \in 1 .. Len(front \o back),
                        i < j, IsBd((front \o back)[j])
                 PROVE  IsBd((front \o back)[i])
    BY DEF BdsInFront
  <2>2. /\ Len(front) \in Nat /\ Len(back) \in Nat
        /\ \A k \in 1 .. Len(front) : IsBd(front[k])
        /\ \A k \in 1 .. Len(back) : ~ IsBd(back[k])
    <3>1. \A k \in 1 .. Len(front) : front[k] \in Bds
      <4> HIDE DEF Bds, Others
      <4>1. QED
        BY <1>5
    <3>2. \A k \in 1 .. Len(back) : back[k] \in Others
      <4> HIDE DEF Bds, Others
      <4>1. QED
        BY <1>5
    <3>3. Len(front) \in Nat /\ Len(back) \in Nat
      BY <1>6
    <3>4. QED
      BY <3>1, <3>2, <3>3
  <2>3. j <= Len(front)
    <3>1. SUFFICES ASSUME ~ (j <= Len(front)) PROVE FALSE
      OBVIOUS
    <3>2. j - Len(front) \in 1 .. Len(back) /\ j \in 1 .. Len(front) + Len(back)
      BY <1>9, <2>2, <3>1
    <3>3. (front \o back)[j] = back[j - Len(front)]
      BY <1>9, <3>1, <3>2
    <3>4. QED
      BY <2>1, <2>2, <3>2, <3>3
  <2>4. i \in 1 .. Len(front) /\ i \in 1 .. Len(front) + Len(back) /\ i <= Len(front)
    BY <1>9, <2>1, <2>2, <2>3
  <2>5. (front \o back)[i] = front[i]
    BY <1>9, <2>4
  <2>6. QED
    BY <2>2, <2>4, <2>5
<1>12. QED
  BY <1>8, <1>9, <1>10, <1>11

-------------------------------------------------------------------------------
(* The text of a page.                                                     *)
PageLines == OpsOf(FlattenSeq(Groups))
Gap == IF Bytes(labels) > 0 THEN Aligner(TextBytes(PageLines)) ELSE 0
PageLength == RoundUp4(PAGE_HEADER_SIZE + TextBytes(PageLines) + EOF_SIZE + Gap + Bytes(labels))

OnPage == page \in Nat /\ page < Len(column.pages)

LEMMA GroupsAre ==
  ASSUME ColumnOK(column), OnPage
  PROVE  /\ Groups \in Seq(Seq(DOMAIN column.jobs))
         /\ PageLines \in Seq(AllLines) /\ TextBytes(PageLines) \in Nat
<1>1. column.pages \in Seq(Seq(Seq(DOMAIN column.jobs)))
  BY DEF ColumnOK
<1>2. Len(column.pages) \in Nat
  BY <1>1
<1>3. page + 1 \in 1 .. Len(column.pages)
  BY <1>2 DEF OnPage
<1>4. Groups \in Seq(Seq(DOMAIN column.jobs))
  BY <1>1, <1>3, ElementOfSeq DEF Groups
<1>5. FlattenSeq(Groups) \in Seq(DOMAIN column.jobs)
  BY <1>4, FlattenType
<1>6. PageLines \in Seq(AllLines)
  BY <1>5, OpsAre DEF PageLines
<1>7. QED
  BY <1>4, <1>6, LinesAre, TextBytesIs

LEMMA PageOpsBytes ==
  ASSUME ColumnOK(column), OnPage, labels \in Seq(AllLabels)
  PROVE  TextBytes(PageOps) = TextBytes(PageLines) + EOF_SIZE + Gap /\ Gap \in Nat
<1> DEFINE eof == [op |-> "eof", size |-> EOF_SIZE]
           base == Append(PageLines, eof)
           padding == [op |-> ".align", size |-> (-TextBytes(base)) % 16]
           T == TextBytes(PageLines)
<1>1. PageLines \in Seq(AllLines) /\ T \in Nat /\ Sized(AllLines)
  BY GroupsAre, LinesAre
<1>2. eof.size = 4 /\ EOF_SIZE = 4
  BY DEF EOF_SIZE
<1>3. TextBytes(base) = T + 4
  <2> HIDE DEF eof
  <2>1. eof.size \in Nat
    BY <1>2
  <2>2. QED
    BY <1>1, <1>2, <2>1, TextBytesAppend
<1>4. Bytes(labels) \in Nat
  BY BytesIs
<1>5. PageOps = IF Bytes(labels) > 0 /\ Aligner(TextBytes(base) - EOF_SIZE) > 0
                THEN Append(base, padding) ELSE base
  BY DEF PageOps, PageLines
<1>6. Aligner(TextBytes(base) - EOF_SIZE) = Aligner(T)
  <2>1. TextBytes(base) - EOF_SIZE = T
    BY <1>1, <1>2, <1>3
  <2>2. QED
    BY <2>1
<1>7. Aligner(T) = (-(T + 4)) % 16 /\ Aligner(T) \in Nat
  BY <1>1, <1>2 DEF Aligner
<1>8. TextBytes(Append(base, padding)) = T + 4 + Aligner(T)
  <2> DEFINE U == AllLines \cup {eof}
  <2>1. base \in Seq(U)
    <3>1. PageLines \in Seq(U) /\ eof \in U
      BY <1>1
    <3> HIDE DEF U, eof
    <3>2. QED
      BY <3>1
  <2>2. Sized(U)
    BY <1>1, <1>2 DEF Sized
  <2>3. padding.size = Aligner(T)
    BY <1>3, <1>7
  <2> HIDE DEF U, base, padding
  <2>4. TextBytes(Append(base, padding)) = TextBytes(base) + padding.size
    BY <1>7, <2>1, <2>2, <2>3, TextBytesAppend
  <2>5. QED
    BY <1>3, <2>3, <2>4
<1> HIDE DEF base, padding, T, eof
<1>9. Gap = IF Bytes(labels) > 0 THEN Aligner(T) ELSE 0
  BY DEF Gap, T
<1>10. CASE Bytes(labels) > 0 /\ Aligner(T) > 0
  <2>1. TextBytes(PageOps) = T + 4 + Aligner(T) /\ Gap = Aligner(T)
    BY <1>5, <1>6, <1>8, <1>9, <1>10
  <2>2. QED
    BY <1>1, <1>2, <1>7, <2>1 DEF T
<1>11. CASE ~ (Bytes(labels) > 0 /\ Aligner(T) > 0)
  <2>1. TextBytes(PageOps) = T + 4
    BY <1>3, <1>5, <1>6, <1>11
  <2>2. Gap = 0
    BY <1>4, <1>7, <1>9, <1>11
  <2>3. QED
    BY <1>1, <1>2, <2>1, <2>2 DEF T
<1>12. QED
  BY <1>10, <1>11

(* A descriptor is on 16 bytes: all in front of it are descriptors, which  *)
(* are 16 bytes long each, behind a text that is aligned for them.         *)
LEMMA DescriptorsAligned ==
  ASSUME ColumnOK(column), OnPage, labels \in Seq(AllLabels), BdsInFront(labels),
         NEW l \in ToSet(labels), IsBd(l)
  PROVE  (PAGE_HEADER_SIZE + PosOfLabel(l)) % 16 = 0
<1> DEFINE I == {i \in 1 .. Len(labels) : labels[i] = l}
           at0 == IndexOf(l)
           before == SubSeq(labels, 1, at0 - 1)
           rest == SubSeq(labels, at0 + 1, Len(labels))
<1>1. /\ Len(labels) \in Nat /\ DOMAIN labels = 1 .. Len(labels)
      /\ \A i \in 1 .. Len(labels) : labels[i] \in AllLabels
  OBVIOUS
<1>2. I \in SUBSET Nat /\ I # {}
  <2>1. PICK i \in DOMAIN labels : labels[i] = l
    BY DEF ToSet
  <2>2. QED
    BY <1>1, <2>1
<1>3. at0 = Min(I)
  BY <1>2 DEF IndexOf, SelectInSeq
<1>4. Min(I) \in I
  <2> HIDE DEF I
  <2>1. PICK m \in I : \A k \in I : m <= k
    BY <1>2, Least
  <2>2. QED
    BY <2>1 DEF Min
<1>5. at0 \in 1 .. Len(labels) /\ labels[at0] = l
  BY <1>3, <1>4
<1> HIDE DEF at0, I
<1>6. /\ before \in Seq(AllLabels) /\ Len(before) = at0 - 1
      /\ \A i \in 1 .. at0 - 1 : before[i] = labels[i]
  <2>1. 1 \in Int /\ at0 - 1 \in Int /\ \A i \in 1 .. at0 - 1 : labels[i] \in AllLabels
    BY <1>1, <1>5
  <2>2. /\ before \in Seq(AllLabels) /\ Len(before) = IF 1 <= at0 - 1 THEN (at0 - 1) - 1 + 1 ELSE 0
        /\ \A i \in 1 .. (at0 - 1) - 1 + 1 : before[i] = labels[1 + i - 1]
    BY <2>1, SubSeqProperties
  <2>3. at0 - 1 \in Nat /\ (at0 - 1) - 1 + 1 = at0 - 1 /\ \A i \in 1 .. at0 - 1 : 1 + i - 1 = i
    BY <1>5
  <2> HIDE DEF before
  <2>4. Len(before) = at0 - 1
    BY <2>2, <2>3
  <2>5. QED
    BY <2>2, <2>3, <2>4
<1>7. \A i \in 1 .. at0 - 1 : IsBd(labels[i])
  <2>1. TAKE i \in 1 .. at0 - 1
  <2>2. i \in 1 .. Len(labels) /\ i < at0
    BY <1>1, <1>5
  <2>3. QED
    BY <1>5, <2>2 DEF BdsInFront
<1>8. Weigh(LabelWords, before) % 4 = 0 /\ Weigh(LabelWords, before) \in Nat
  <2> DEFINE w == Weights(LabelWords, before)
  <2>1. w \in Seq(Nat) /\ Len(w) = Len(before)
    BY <1>6, LabelsAre, WeightsType
  <2>2. ASSUME NEW k \in 1 .. Len(w) PROVE w[k] % 4 = 0
    <3>1. k \in 1 .. at0 - 1 /\ before[k] = labels[k] /\ before[k] \in AllLabels /\ k \in DOMAIN before
      BY <1>1, <1>5, <1>6, <2>1
    <3>2. Label(before[k]).kind = "uc_dma_bd"
      BY <1>7, <3>1 DEF IsBd
    <3>3. WordsOf(before[k]) = 4 * Len(Label(before[k]).refs) /\ Label(before[k]).refs \in Seq(AllLabels)
      BY <3>1, <3>2, LabelsAre
    <3>4. w[k] = WordsOf(before[k])
      BY <3>1 DEF Weights, LabelWords
    <3>5. Len(Label(before[k]).refs) \in Nat
      BY <3>3
    <3>6. \A m \in Nat : (4 * m) % 4 = 0
      OBVIOUS
    <3>7. QED
      BY <3>3, <3>4, <3>5, <3>6
  <2> HIDE DEF w
  <2>3. Total(w) % 4 = 0 /\ Total(w) \in Nat
    BY <2>1, <2>2, TotalMultiple, TotalNat
  <2>4. QED
    BY <2>3 DEF Weigh, w
<1>9. Bytes(before) % 16 = 0 /\ Bytes(before) \in Nat
  <2>1. Bytes(before) = 4 * Weigh(LabelWords, before)
    BY <1>6, BytesIs
  <2>2. \A m \in Nat : m % 4 = 0 => (4 * m) % 16 = 0 /\ 4 * m \in Nat
    OBVIOUS
  <2>3. QED
    BY <1>8, <2>1, <2>2
<1>10. Bytes(labels) > 0
  <2>1. labels = SubSeq(labels, 1, at0) \o rest
    <3>1. 1 \in 1 .. Len(labels) + 1 /\ at0 \in 1 - 1 .. Len(labels) /\ Len(labels) \in at0 .. Len(labels)
      BY <1>1, <1>5
    <3>2. SubSeq(labels, 1, at0) \o rest = SubSeq(labels, 1, Len(labels))
      BY <3>1, ConcatAdjacentSubSeq
    <3>3. QED
      BY <3>2, SubSeqFull
  <2>2. SubSeq(labels, 1, at0) = before \o <<l>>
    <3>1. 1 \in 1 .. Len(labels) /\ at0 \in 1 .. Len(labels)
      BY <1>1, <1>5
    <3>2. QED
      BY <1>5, <3>1, SubSeqRecursiveSecond
  <2>3. rest \in Seq(AllLabels) /\ <<l>> \in Seq(AllLabels) /\ l \in AllLabels
    <3>1. at0 + 1 \in Int /\ Len(labels) \in Int /\ \A i \in at0 + 1 .. Len(labels) : labels[i] \in AllLabels
      BY <1>1, <1>5
    <3>2. rest \in Seq(AllLabels)
      BY <3>1, SubSeqProperties
    <3>3. l \in AllLabels
      BY <1>1, <1>5
    <3>4. QED
      BY <3>2, <3>3
  <2> HIDE DEF before, rest
  <2>4. before \o <<l>> \in Seq(AllLabels)
    BY <1>6, <2>3
  <2>5. Bytes(labels) = Bytes(before) + Bytes(<<l>>) + Bytes(rest)
    <3>1. Bytes(before \o <<l>>) = Bytes(before) + Bytes(<<l>>)
      BY <1>6, <2>3, BytesConcat
    <3>2. Bytes((before \o <<l>>) \o rest) = Bytes(before \o <<l>>) + Bytes(rest)
      BY <2>3, <2>4, BytesConcat
    <3>3. QED
      BY <2>1, <2>2, <3>1, <3>2
  <2>6. Bytes(<<l>>) = 4 * WordsOf(l) /\ WordsOf(l) > 0 /\ WordsOf(l) \in Nat
    <3>1. Weights(LabelWords, <<l>>) = <<WordsOf(l)>>
      BY <2>3 DEF Weights, LabelWords
    <3>2. WordsOf(l) > 0 /\ WordsOf(l) \in Nat
      BY <2>3, LabelsAre
    <3>3. Weigh(LabelWords, <<l>>) = WordsOf(l)
      BY <3>1, <3>2, TotalOne DEF Weigh
    <3>4. QED
      BY <2>3, <3>2, <3>3, BytesIs
  <2>7. Bytes(rest) \in Nat
    BY <2>3, BytesIs
  <2>8. QED
    BY <1>9, <2>5, <2>6, <2>7
<1>11. TextBytes(PageOps) = TextBytes(PageLines) + 4 + ((-(TextBytes(PageLines) + 4)) % 16)
  BY <1>10, PageOpsBytes DEF Gap, Aligner, EOF_SIZE
<1>12. TextBytes(PageLines) \in Nat
  BY GroupsAre
<1>13. PosOfLabel(l) = TextBytes(PageOps) + Bytes(before)
  BY DEF PosOfLabel, at0
<1>14. \A x, y \in Nat : y % 16 = 0 => (16 + ((x + 4 + ((-(x + 4)) % 16)) + y)) % 16 = 0
  OBVIOUS
<1> HIDE DEF before
<1>15. QED
  BY <1>9, <1>11, <1>12, <1>13, <1>14 DEF PAGE_HEADER_SIZE

-------------------------------------------------------------------------------
(* The invariant: while groups are taken, what is announced is the text    *)
(* and the data of those taken; once the labels are sorted it is the       *)
(* length of the whole page, and the data grows by label after label.      *)
TakenLines == OpsOf(FlattenSeq(SubSeq(Groups, 1, taken)))

Collected ==
  /\ data = <<>>
  /\ OnPage =>
       /\ taken \in 0 .. Len(Groups) /\ labels \in Seq(AllLabels)
       /\ announced = [text |-> TextBytes(TakenLines), data |-> Bytes(labels)]

LaidOut ==
  /\ OnPage /\ labels \in Seq(AllLabels) /\ BdsInFront(labels)
  /\ announced.len = PageLength

Listed(s) == s \in Seq(ToSet(s))
DataWritten(n) ==
  /\ n \in 0 .. Len(labels) /\ Listed(data)
  /\ 4 * Len(data) = Bytes(SubSeq(labels, 1, n))

WriterInv ==
  /\ page \in Nat
  /\ wstage # "written" => column \in ControlColumns
  /\ wstage = "collect" => Collected
  /\ wstage \in {"text", "data", "patch"} => LaidOut
  /\ wstage = "text" => data = <<>>
  /\ wstage = "data" => DataWritten(line)
  /\ wstage = "patch" => DataWritten(Len(labels))

LEMMA ColumnIs == column \in ControlColumns => ColumnOK(column)
BY ColumnsAssumption

LEMMA NothingWeighs == Bytes(<<>>) = 0 /\ TextBytes(<<>>) = 0
<1>1. [n \in DOMAIN <<>> |-> WordsOf(<<>>[n])] = <<>>
  OBVIOUS
<1>2. [n \in DOMAIN <<>> |-> <<>>[n].size] = <<>>
  OBVIOUS
<1>3. QED
  BY <1>1, <1>2, TotalEmpty DEF Bytes, TextBytes

LEMMA NothingTaken ==
  ASSUME ColumnOK(column), OnPage, taken = 0
  PROVE  TextBytes(TakenLines) = 0
<1>1. SubSeq(Groups, 1, 0) = <<>>
  BY GroupsAre, SubSeqEmpty
<1>2. [n \in DOMAIN <<>> |-> Job(<<>>[n])] = <<>>
  OBVIOUS
<1>3. OpsOf(<<>>) = <<>>
  BY <1>2, FlattenEmpty DEF OpsOf
<1>4. QED
  BY <1>1, <1>3, FlattenEmpty, NothingWeighs DEF TakenLines

(* A group's lines are behind those taken before.                          *)
LEMMA NextTaken ==
  ASSUME ColumnOK(column), OnPage, taken \in 0 .. Len(Groups), taken < Len(Groups)
  PROVE  /\ Groups[taken + 1] \in Seq(DOMAIN column.jobs)
         /\ TextBytes(OpsOf(FlattenSeq(SubSeq(Groups, 1, taken + 1))))
              = TextBytes(TakenLines) + TextBytes(OpsOf(Groups[taken + 1]))
<1> DEFINE J == DOMAIN column.jobs
           g == Groups[taken + 1]
           old == SubSeq(Groups, 1, taken)
<1>1. Groups \in Seq(Seq(J)) /\ Len(Groups) \in Nat
  BY GroupsAre
<1>2. taken + 1 \in 1 .. Len(Groups) /\ 1 \in 1 .. Len(Groups) /\ (taken + 1) - 1 = taken
  BY <1>1
<1>3. g \in Seq(J) /\ \A i \in 1 .. taken : Groups[i] \in Seq(J)
  <2>1. \A i \in 1 .. Len(Groups) : Groups[i] \in Seq(J)
    BY <1>1, ElementOfSeq
  <2>2. \A i \in 1 .. taken : i \in 1 .. Len(Groups)
    BY <1>1
  <2>3. QED
    BY <1>2, <2>1, <2>2
<1> HIDE DEF J
<1>4. old \in Seq(Seq(J))
  <2>1. 1 \in Int /\ taken \in Int
    OBVIOUS
  <2>2. \A i \in 1 .. taken : Groups[i] \in Seq(J)
    BY <1>3
  <2>3. QED
    BY <2>1, <2>2, SubSeqProperties
<1>5. SubSeq(Groups, 1, taken + 1) = old \o <<g>>
  BY <1>1, <1>2, SubSeqRecursiveSecond
<1> HIDE DEF g, old
<1>6. <<g>> \in Seq(Seq(J)) /\ FlattenSeq(<<g>>) = g
  <2>1. <<g>> \in Seq(Seq(J))
    BY <1>3
  <2>2. FlattenSeq(<<g>>) = g
    BY <1>3, FlattenOne
  <2>3. QED
    BY <2>1, <2>2
<1>7. FlattenSeq(old \o <<g>>) = FlattenSeq(old) \o g
  <2>1. FlattenSeq(old \o <<g>>) = FlattenSeq(old) \o FlattenSeq(<<g>>)
    BY <1>4, <1>6, FlattenConcat
  <2>2. QED
    BY <1>6, <2>1
<1>8. FlattenSeq(old) \in Seq(J)
  BY <1>4, FlattenType
<1> USE DEF J
<1>9. OpsOf(FlattenSeq(old) \o g) = OpsOf(FlattenSeq(old)) \o OpsOf(g)
  BY <1>3, <1>8, OpsConcat
<1>10. OpsOf(FlattenSeq(old)) \in Seq(AllLines) /\ OpsOf(g) \in Seq(AllLines)
  BY <1>3, <1>8, OpsAre
<1>11. TextBytes(OpsOf(FlattenSeq(old)) \o OpsOf(g)) = TextBytes(OpsOf(FlattenSeq(old))) + TextBytes(OpsOf(g))
  BY <1>10, LinesAre, TextBytesConcat
<1>12. QED
  BY <1>3, <1>5, <1>7, <1>9, <1>11 DEF TakenLines, g, old

-------------------------------------------------------------------------------
(* The steps.                                                              *)
LEMMA Begins == ControlInit => WriterInv
<1>1. CASE WInit
  <2>1. column \in ControlColumns /\ wstage = "collect" /\ page = 0 /\ taken = 0
        /\ labels = <<>> /\ announced = [text |-> 0, data |-> 0] /\ data = <<>>
    BY <1>1 DEF WInit, Blank
  <2>2. ColumnOK(column)
    BY <2>1, ColumnIs
  <2>3. OnPage => 0 \in 0 .. Len(Groups) /\ TextBytes(TakenLines) = 0
    <3>1. OnPage => Len(Groups) \in Nat
      BY <2>2, GroupsAre
    <3>2. QED
      BY <2>1, <2>2, <3>1, NothingTaken
  <2>4. labels \in Seq(AllLabels)
    BY <2>1
  <2>5. Collected
    BY <2>1, <2>3, <2>4, NothingWeighs DEF Collected
  <2>6. QED
    BY <2>1, <2>5 DEF WriterInv
<1>2. CASE wstage = "written" /\ Blank
  BY <1>2 DEF WriterInv, Blank
<1>3. QED
  BY <1>1, <1>2 DEF ControlInit

LEMMA Takes == ASSUME WriterInv, TakeGroup PROVE WriterInv'
<1> DEFINE group == Groups[taken + 1]
           list == LabelsOfGroup(group)
<1>1. /\ wstage = "collect" /\ page < Len(column.pages) /\ taken < Len(Groups)
      /\ labels' = labels \o list
      /\ announced' = [text |-> announced.text + TextBytes(OpsOf(group)), data |-> announced.data + Bytes(list)]
      /\ taken' = taken + 1
      /\ UNCHANGED <<column, wstage, page, data>>
  BY DEF TakeGroup
<1>2. /\ ColumnOK(column) /\ OnPage /\ taken \in 0 .. Len(Groups) /\ labels \in Seq(AllLabels)
      /\ announced = [text |-> TextBytes(TakenLines), data |-> Bytes(labels)] /\ data = <<>>
  BY <1>1, ColumnIs DEF WriterInv, Collected, OnPage
<1>3. group \in Seq(DOMAIN column.jobs)
  BY <1>1, <1>2, NextTaken
<1>4. list \in Seq(AllLabels)
  <2> HIDE DEF group
  <2>1. QED
    BY <1>2, <1>3, LabelsOfGroupAre
<1>5. labels' \in Seq(AllLabels) /\ Bytes(labels') = Bytes(labels) + Bytes(list)
  <2> HIDE DEF list
  <2>1. labels \o list \in Seq(AllLabels)
    BY <1>2, <1>4, ConcatProperties
  <2>2. QED
    BY <1>1, <1>2, <1>4, <2>1, BytesConcat
<1>6. TextBytes(OpsOf(FlattenSeq(SubSeq(Groups, 1, taken + 1)))) = TextBytes(TakenLines) + TextBytes(OpsOf(group))
  BY <1>1, <1>2, NextTaken
<1>7. AllLabels' = AllLabels /\ Groups' = Groups /\ Bytes(labels)' = Bytes(labels')
  BY <1>1 DEF AllLabels, Groups, Bytes, WordsOf, Label
<1>8. TextBytes(TakenLines)' = TextBytes(OpsOf(FlattenSeq(SubSeq(Groups, 1, taken + 1))))
  BY <1>1, <1>7 DEF TakenLines, OpsOf, Job, TextBytes
<1>9. taken' \in 0 .. Len(Groups)
  <2>1. Len(Groups) \in Nat
    BY <1>2, GroupsAre
  <2>2. QED
    BY <1>1, <1>2, <2>1
<1>10. announced' = [text |-> TextBytes(TakenLines)', data |-> Bytes(labels)']
  <2> HIDE DEF group, list
  <2>1. announced.text = TextBytes(TakenLines) /\ announced.data = Bytes(labels)
    BY <1>2
  <2>2. QED
    BY <1>1, <1>5, <1>6, <1>7, <1>8, <2>1
<1> HIDE DEF group, list
<1>11. Collected'
  BY <1>1, <1>2, <1>5, <1>7, <1>9, <1>10 DEF Collected
<1>12. QED
  BY <1>1, <1>11 DEF WriterInv

LEMMA Assigns == ASSUME WriterInv, Assign PROVE WriterInv'
<1>1. /\ wstage = "collect" /\ page < Len(column.pages) /\ taken = Len(Groups)
      /\ labels' = labelalignmentsorter(labels)
      /\ announced' = [len |-> RoundUp4(PAGE_HEADER_SIZE + announced.text + EOF_SIZE + announced.data
                                 + IF announced.data > 0 THEN Aligner(announced.text) ELSE 0)]
      /\ wstage' \in {"text", "failed"}
      /\ UNCHANGED <<column, page, data>>
  BY DEF Assign
<1>2. /\ column \in ControlColumns /\ ColumnOK(column) /\ OnPage /\ labels \in Seq(AllLabels)
      /\ announced = [text |-> TextBytes(TakenLines), data |-> Bytes(labels)] /\ data = <<>>
  BY <1>1, ColumnIs DEF WriterInv, Collected, OnPage
<1>3. TakenLines = PageLines
  <2>1. Groups \in Seq(Seq(DOMAIN column.jobs))
    BY <1>2, GroupsAre
  <2>2. SubSeq(Groups, 1, taken) = Groups
    BY <1>1, <2>1, SubSeqFull
  <2>3. QED
    BY <2>2 DEF TakenLines, PageLines
<1>4. labels' \in Seq(AllLabels) /\ Bytes(labels') = Bytes(labels) /\ BdsInFront(labels')
  BY <1>1, <1>2, SorterIs
<1>5. AllLabels' = AllLabels /\ Bytes(labels)' = Bytes(labels') /\ PageLines' = PageLines
  BY <1>1 DEF AllLabels, Groups, Bytes, WordsOf, Label, PageLines, OpsOf, Job
<1>6. BdsInFront(labels)' = BdsInFront(labels') /\ OnPage' = OnPage
  BY <1>1 DEF BdsInFront, IsBd, Label, OnPage
<1>7. TextBytes(PageLines)' = TextBytes(PageLines)
  BY <1>5 DEF TextBytes
<1> DEFINE T == TextBytes(PageLines)
           D == Bytes(labels)
<1>8. T \in Nat /\ D \in Nat
  BY <1>2, GroupsAre, BytesIs
<1>9. announced.text = T /\ announced.data = D
  BY <1>2, <1>3
<1>10. PageLength' = RoundUp4(PAGE_HEADER_SIZE + T + EOF_SIZE + (IF D > 0 THEN Aligner(T) ELSE 0) + D)
  <2>1. Gap' = IF D > 0 THEN Aligner(T) ELSE 0
    BY <1>4, <1>5, <1>7 DEF Gap, Aligner
  <2>2. QED
    BY <1>4, <1>5, <1>7, <2>1 DEF PageLength, RoundUp4
<1>11. (IF D > 0 THEN Aligner(T) ELSE 0) \in Int
  BY <1>8 DEF Aligner, EOF_SIZE
<1> HIDE DEF T, D
<1>12. announced'.len = PageLength'
  <2> DEFINE gap == IF D > 0 THEN Aligner(T) ELSE 0
  <2>1. announced'.len = RoundUp4(PAGE_HEADER_SIZE + T + EOF_SIZE + D + gap)
    BY <1>1, <1>9
  <2>2. PageLength' = RoundUp4(PAGE_HEADER_SIZE + T + EOF_SIZE + gap + D)
    BY <1>10
  <2>3. gap \in Int
    BY <1>11
  <2> HIDE DEF gap
  <2>4. PAGE_HEADER_SIZE + T + EOF_SIZE + D + gap = PAGE_HEADER_SIZE + T + EOF_SIZE + gap + D
    BY <1>8, <2>3 DEF PAGE_HEADER_SIZE, EOF_SIZE
  <2>5. QED
    BY <2>1, <2>2, <2>4
<1>13. LaidOut'
  BY <1>2, <1>4, <1>5, <1>6, <1>12 DEF LaidOut
<1>14. page' \in Nat
  BY <1>1 DEF WriterInv
<1>15. QED
  BY <1>1, <1>2, <1>13, <1>14 DEF WriterInv

(* What the layout of a page is about stays as it is.                      *)
PageKept == UNCHANGED <<column, page, labels, announced>>

LEMMA StaysLaidOut == ASSUME LaidOut, PageKept PROVE LaidOut'
<1>1. column' = column /\ page' = page /\ labels' = labels /\ announced' = announced
  BY DEF PageKept
<1>2. AllLabels' = AllLabels /\ OnPage' = OnPage /\ BdsInFront(labels)' = BdsInFront(labels)
  BY <1>1 DEF AllLabels, OnPage, BdsInFront, IsBd, Label
<1>3. PageLines' = PageLines /\ Bytes(labels)' = Bytes(labels)
  BY <1>1 DEF PageLines, OpsOf, Job, Groups, Bytes, WordsOf, Label
<1>4. PageLength' = PageLength
  BY <1>3 DEF PageLength, RoundUp4, Gap, Aligner, TextBytes
<1>5. QED
  BY <1>1, <1>2, <1>4 DEF LaidOut

LEMMA WritesText ==
  ASSUME WriterInv, WriteOp \/ WriteApply \/ RejectApply \/ EndOfText
  PROVE  WriterInv'
<1>1. /\ wstage = "text" /\ wstage' \in {"text", "data", "failed"} /\ PageKept /\ data' = data
      /\ wstage' = "data" => line' = 0
  BY DEF WriteOp, WriteApply, RejectApply, EndOfText, PageKept, pagevars
<1>2. /\ page \in Nat /\ column \in ControlColumns /\ LaidOut /\ data = <<>>
  BY <1>1 DEF WriterInv
<1>3. LaidOut'
  BY <1>1, <1>2, StaysLaidOut
<1>4. wstage' = "data" => DataWritten(line)'
  <2>1. SUFFICES ASSUME wstage' = "data" PROVE DataWritten(line)'
    OBVIOUS
  <2>2. labels' \in Seq(AllLabels') /\ line' = 0 /\ data' = <<>>
    BY <1>1, <1>2, <1>3, <2>1 DEF LaidOut
  <2>3. 0 \in 0 .. Len(labels')
    BY <2>2
  <2>4. SubSeq(labels', 1, 0) = <<>>
    BY <2>2, SubSeqEmpty
  <2>5. Bytes(<<>>)' = 0
    BY <1>1, NothingWeighs DEF PageKept, Bytes, WordsOf, Label
  <2>6. Bytes(SubSeq(labels, 1, line))' = 0
    BY <2>2, <2>4, <2>5 DEF Bytes, WordsOf, Label
  <2>7. Listed(<<>>)
    BY DEF Listed
  <2>8. QED
    BY <2>2, <2>3, <2>6, <2>7 DEF DataWritten, Listed
<1>5. QED
  BY <1>1, <1>2, <1>3, <1>4 DEF WriterInv, PageKept

(* Lists stay lists when one is put behind the other.                      *)
LEMMA ListedConcat ==
  ASSUME NEW s, NEW t, Listed(s), Listed(t)
  PROVE  Listed(s \o t) /\ Len(s \o t) = Len(s) + Len(t)
<1> DEFINE S == ToSet(s) \cup ToSet(t)
<1>1. s \in Seq(S) /\ t \in Seq(S)
  BY SeqMonotonic DEF Listed
<1> HIDE DEF S
<1>2. s \o t \in Seq(S) /\ Len(s \o t) = Len(s) + Len(t)
  BY <1>1, ConcatProperties
<1>3. s \o t \in Seq(ToSet(s \o t))
  <2> DEFINE u == s \o t
  <2>1. u \in Seq(S)
    BY <1>2
  <2> HIDE DEF u
  <2>2. u \in [1 .. Len(u) -> ToSet(u)] /\ Len(u) \in Nat
    BY <2>1 DEF ToSet
  <2>3. u \in Seq(ToSet(u))
    BY <2>2
  <2>4. QED
    BY <2>3 DEF u
<1>4. QED
  BY <1>2, <1>3 DEF Listed

LEMMA PartWritten ==
  ASSUME ColumnOK(column), NEW l \in AllLabels
  PROVE  LET w == IF Label(l).kind = "uc_dma_bd" THEN Descriptors(l) ELSE Label(l).words
         IN Listed(w) /\ Len(w) = WordsOf(l)
<1>1. CASE Label(l).kind = "uc_dma_bd"
  <2> DEFINE w == Descriptors(l)
             n == 4 * Len(Label(l).refs)
  <2>1. n \in Nat /\ WordsOf(l) = n
    BY <1>1, LabelsAre
  <2>2. DOMAIN w = 1 .. n /\ w = [k \in 1 .. n |-> w[k]]
    BY DEF Descriptors
  <2> HIDE DEF w, n
  <2>3. w \in [1 .. n -> ToSet(w)]
    BY <2>2 DEF ToSet
  <2>4. Listed(w) /\ Len(w) = n
    BY <2>1, <2>3 DEF Listed
  <2>5. QED
    BY <1>1, <2>1, <2>4 DEF w
<1>2. CASE Label(l).kind # "uc_dma_bd"
  <2>1. Label(l).words \in Seq(Nat)
    BY LabelsAre
  <2>2. Listed(Label(l).words)
    BY <2>1 DEF Listed, ToSet
  <2>3. QED
    BY <1>2, <2>2 DEF WordsOf
<1>3. QED
  BY <1>1, <1>2

LEMMA WritesLabel == ASSUME WriterInv, WriteLabel PROVE WriterInv'
<1> DEFINE l == labels[line + 1]
           w == IF Label(l).kind = "uc_dma_bd" THEN Descriptors(l) ELSE Label(l).words
<1>1. /\ wstage = "data" /\ line < Len(labels) /\ data' = data \o w /\ line' = line + 1
      /\ wstage' = wstage /\ PageKept
  BY DEF WriteLabel, PageKept
<1>2. page \in Nat /\ column \in ControlColumns /\ LaidOut /\ DataWritten(line)
  BY <1>1 DEF WriterInv
<1>3. ColumnOK(column) /\ labels \in Seq(AllLabels) /\ Len(labels) \in Nat
  BY <1>2, ColumnIs DEF LaidOut
<1>4. line + 1 \in 1 .. Len(labels) /\ line \in Nat /\ (line + 1) - 1 = line /\ 1 \in 1 .. Len(labels)
  BY <1>1, <1>2, <1>3 DEF DataWritten
<1>5. l \in AllLabels
  BY <1>3, <1>4
<1>6. Listed(w) /\ Len(w) = WordsOf(l)
  <2> HIDE DEF l
  <2>1. QED
    BY <1>3, <1>5, PartWritten
<1>7. Listed(data') /\ Len(data') = Len(data) + WordsOf(l)
  <2> HIDE DEF w, l
  <2>1. QED
    BY <1>1, <1>2, <1>6, ListedConcat DEF DataWritten
<1>8. Bytes(SubSeq(labels, 1, line + 1)) = Bytes(SubSeq(labels, 1, line)) + 4 * WordsOf(l)
  <2>1. SubSeq(labels, 1, line + 1) = SubSeq(labels, 1, line) \o <<l>>
    BY <1>3, <1>4, SubSeqRecursiveSecond
  <2>2. SubSeq(labels, 1, line) \in Seq(AllLabels) /\ <<l>> \in Seq(AllLabels)
    <3>1. \A i \in 1 .. line : labels[i] \in AllLabels
      BY <1>3, <1>4
    <3>2. SubSeq(labels, 1, line) \in Seq(AllLabels)
      BY <1>4, <3>1, SubSeqProperties
    <3> HIDE DEF l
    <3>3. QED
      BY <1>5, <3>2
  <2> HIDE DEF l, w
  <2>3. Bytes(SubSeq(labels, 1, line) \o <<l>>) = Bytes(SubSeq(labels, 1, line)) + Bytes(<<l>>)
    BY <1>3, <2>2, BytesConcat
  <2>4. Bytes(<<l>>) = 4 * WordsOf(l)
    <3>1. Weights(LabelWords, <<l>>) = <<WordsOf(l)>>
      BY <1>5 DEF Weights, LabelWords
    <3>2. WordsOf(l) \in Nat
      BY <1>3, <1>5, LabelsAre
    <3>3. Weigh(LabelWords, <<l>>) = WordsOf(l)
      BY <3>1, <3>2, TotalOne DEF Weigh
    <3>4. QED
      BY <1>3, <2>2, <3>3, BytesIs
  <2>5. QED
    BY <2>1, <2>3, <2>4
<1>9. Bytes(SubSeq(labels, 1, line))' = Bytes(SubSeq(labels, 1, line + 1))
  BY <1>1 DEF PageKept, Bytes, WordsOf, Label
<1>10. 4 * Len(data') = Bytes(SubSeq(labels, 1, line))'
  <2>1. 4 * Len(data) = Bytes(SubSeq(labels, 1, line)) /\ Len(data) \in Nat /\ WordsOf(l) \in Nat
    <3>1. Len(data) \in Nat
      BY <1>2 DEF DataWritten, Listed
    <3> HIDE DEF l, w
    <3>2. QED
      BY <1>2, <1>3, <1>5, <3>1, LabelsAre DEF DataWritten
  <2> HIDE DEF l, w
  <2>2. QED
    BY <1>7, <1>8, <1>9, <2>1
<1> HIDE DEF l, w
<1>11. DataWritten(line)'
  BY <1>1, <1>4, <1>7, <1>10 DEF DataWritten, Listed, PageKept
<1>12. LaidOut'
  BY <1>1, <1>2, StaysLaidOut
<1>13. QED
  BY <1>1, <1>2, <1>11, <1>12 DEF WriterInv, PageKept

LEMMA EndsData == ASSUME WriterInv, EndOfData PROVE WriterInv'
<1>1. /\ wstage = "data" /\ line = Len(labels) /\ wstage' = "patch" /\ data' = data /\ PageKept
  BY DEF EndOfData, PageKept
<1>2. page \in Nat /\ column \in ControlColumns /\ LaidOut /\ DataWritten(line)
  BY <1>1 DEF WriterInv
<1>3. LaidOut'
  BY <1>1, <1>2, StaysLaidOut
<1>4. DataWritten(Len(labels))'
  BY <1>1, <1>2 DEF DataWritten, Listed, PageKept, Bytes, WordsOf, Label
<1>5. QED
  BY <1>1, <1>2, <1>3, <1>4 DEF WriterInv, PageKept

LEMMA Patches == ASSUME WriterInv, Patch PROVE WriterInv'
<1>1. /\ wstage = "patch" /\ wstage' \in {"patch", "failed"} /\ PageKept
      /\ data' = data \/ \E first, address : data' = WithAddress(data, first, address)
  BY DEF Patch, PageKept
<1>2. page \in Nat /\ column \in ControlColumns /\ LaidOut /\ DataWritten(Len(labels))
  BY <1>1 DEF WriterInv
<1>3. LaidOut'
  BY <1>1, <1>2, StaysLaidOut
<1>4. Listed(data') /\ Len(data') = Len(data)
  <2>1. CASE data' = data
    BY <1>2, <2>1 DEF DataWritten
  <2>2. CASE \E first, address : data' = WithAddress(data, first, address)
    <3>1. DOMAIN data' = DOMAIN data /\ data' = [k \in DOMAIN data |-> data'[k]]
      BY <2>2 DEF WithAddress
    <3>2. Len(data) \in Nat /\ DOMAIN data = 1 .. Len(data)
      BY <1>2 DEF DataWritten, Listed
    <3>3. data' \in [1 .. Len(data) -> ToSet(data')]
      BY <3>1, <3>2 DEF ToSet
    <3>4. QED
      BY <3>2, <3>3 DEF Listed
  <2>3. QED
    BY <1>1, <2>1, <2>2
<1>5. DataWritten(Len(labels))'
  BY <1>1, <1>2, <1>4 DEF DataWritten, Listed, PageKept, Bytes, WordsOf, Label
<1>6. QED
  BY <1>1, <1>2, <1>3, <1>5 DEF WriterInv, PageKept

(* The place behind one of n - 1 places is one of n.                       *)
LEMMA NextPlace ==
  ASSUME NEW p \in Nat, NEW n \in Nat, p < n
  PROVE  p + 1 \in 1 .. n
  OBVIOUS

LEMMA EndsPage == ASSUME WriterInv, EndPage PROVE WriterInv'
<1>1. /\ wstage = "patch" /\ page' = page + 1 /\ wstage' \in {"failed", "collect", "pads"}
      /\ NewPage /\ column' = column
  BY DEF EndPage
<1>2. page \in Nat /\ column \in ControlColumns /\ ColumnOK(column)
  BY <1>1, ColumnIs DEF WriterInv
<1>3. taken' = 0 /\ labels' = <<>> /\ announced' = [text |-> 0, data |-> 0] /\ data' = <<>>
  BY <1>1 DEF NewPage
<1>4. ASSUME OnPage'
      PROVE  taken' \in 0 .. Len(Groups') /\ TextBytes(TakenLines)' = 0
  <2>1. ColumnOK(column')
    BY <1>1, <1>2
  <2>2. column'.pages \in Seq(Seq(Seq(DOMAIN column'.jobs))) /\ page' + 1 \in 1 .. Len(column'.pages)
    <3>1. column'.pages \in Seq(Seq(Seq(DOMAIN column'.jobs)))
      BY <2>1 DEF ColumnOK
    <3>2. page' \in Nat /\ page' < Len(column'.pages) /\ Len(column'.pages) \in Nat
      BY <1>4, <3>1 DEF OnPage
    <3>3. page' + 1 \in 1 .. Len(column'.pages)
      BY <3>2, NextPlace
    <3>4. QED
      BY <3>1, <3>3
  <2>3. Groups' \in Seq(Seq(DOMAIN column'.jobs))
    BY <2>2, ElementOfSeq DEF Groups
  <2>4. Len(Groups') \in Nat /\ SubSeq(Groups', 1, 0) = <<>>
    BY <2>3, SubSeqEmpty
  <2>5. TakenLines' = <<>>
    <3>1. [n \in DOMAIN <<>> |-> Job(<<>>[n])'] = <<>>
      OBVIOUS
    <3>2. OpsOf(<<>>)' = <<>>
      BY <3>1, FlattenEmpty DEF OpsOf
    <3>3. FlattenSeq(SubSeq(Groups', 1, taken')) = <<>>
      BY <1>3, <2>4, FlattenEmpty
    <3>4. QED
      BY <3>2, <3>3 DEF TakenLines, OpsOf
  <2>6. QED
    BY <1>3, <2>4, <2>5, NothingWeighs
<1>5. Bytes(labels)' = 0
  <2>1. Bytes(labels)' = Bytes(<<>>)
    BY <1>1, <1>3 DEF Bytes, WordsOf, Label
  <2>2. QED
    BY <2>1, NothingWeighs
<1>6. labels' \in Seq(AllLabels')
  BY <1>3
<1>7. Collected'
  BY <1>3, <1>4, <1>5, <1>6 DEF Collected
<1>8. page' \in Nat
  BY <1>1, <1>2
<1>9. QED
  BY <1>1, <1>2, <1>7, <1>8 DEF WriterInv

LEMMA WritesPads == ASSUME WriterInv, WritePads \/ RejectPacketPad PROVE WriterInv'
<1>1. wstage = "pads" /\ wstage' \in {"written", "failed"} /\ column' = column /\ page' = page
  BY DEF WritePads, RejectPacketPad
<1>2. QED
  BY <1>1 DEF WriterInv

LEMMA StaysAsIs == ASSUME WriterInv, UNCHANGED wvars PROVE WriterInv'
<1>1. UNCHANGED <<column, wstage, page, taken, labels, announced, line, data>>
  BY DEF wvars, pagevars
<1>2. /\ (wstage = "collect" => Collected)' = (wstage = "collect" => Collected)
      /\ (wstage = "text" => data = <<>>)' = (wstage = "text" => data = <<>>)
  BY <1>1 DEF Collected, OnPage, Groups, AllLabels, TextBytes, TakenLines, OpsOf, Job, Bytes, WordsOf, Label
<1>3. LaidOut => LaidOut'
  BY <1>1, StaysLaidOut DEF PageKept
<1>4. DataWritten(line)' = DataWritten(line) /\ DataWritten(Len(labels))' = DataWritten(Len(labels))
  BY <1>1 DEF DataWritten, Listed, Bytes, WordsOf, Label
<1>5. QED
  BY <1>1, <1>2, <1>3, <1>4 DEF WriterInv

LEMMA WriterSteps == ASSUME WriterInv, [ControlNext]_allvars PROVE WriterInv'
<1>1. CASE WriteColumn
  <2>1. WNext
    BY <1>1 DEF WriteColumn
  <2>2. QED
    BY <2>1, Takes, Assigns, WritesText, WritesLabel, EndsData, Patches, EndsPage, WritesPads DEF WNext
<1>2. CASE HandOver \/ WriteElf \/ Failed \/ UNCHANGED allvars
  <2>1. UNCHANGED wvars
    BY <1>2 DEF HandOver, WriteElf, Failed, allvars
  <2>2. QED
    BY <2>1, StaysAsIs
<1>3. QED
  BY <1>1, <1>2 DEF ControlNext

-------------------------------------------------------------------------------
(* Every page is as long as the pager said before its text and its data    *)
(* were written (assignpagenumber and page_writer), and the descriptors on *)
(* it are aligned for the DMA, for columns of any jobs, labels and pages.  *)
THEOREM WrittenAsAnnounced == ControlSpec => []PageAsAnnounced
<1>1. WriterInv => PageAsAnnounced
  <2>1. SUFFICES ASSUME WriterInv, PageOnEnd PROVE PageAsAnnounced
    BY DEF PageAsAnnounced
  <2>2. /\ ColumnOK(column) /\ OnPage /\ labels \in Seq(AllLabels) /\ BdsInFront(labels)
        /\ announced.len = PageLength /\ DataWritten(Len(labels))
    BY <2>1, ColumnIs DEF WriterInv, PageOnEnd, LaidOut
  <2>3. 4 * Len(data) = Bytes(labels)
    <3>1. SubSeq(labels, 1, Len(labels)) = labels
      BY <2>2, SubSeqFull
    <3>2. QED
      BY <2>2, <3>1 DEF DataWritten
  <2>4. TextLength = PAGE_HEADER_SIZE + TextBytes(PageLines) + EOF_SIZE + Gap
    <3>1. TextBytes(PageOps) = TextBytes(PageLines) + EOF_SIZE + Gap /\ Gap \in Nat
      BY <2>2, PageOpsBytes
    <3>2. TextBytes(PageLines) \in Nat
      BY <2>2, GroupsAre
    <3>3. QED
      BY <3>1, <3>2 DEF TextLength, PAGE_HEADER_SIZE, EOF_SIZE
  <2>5. announced.len = RoundUp4(TextLength + 4 * Len(data))
    BY <2>2, <2>3, <2>4 DEF PageLength
  <2>6. \A l \in ToSet(labels) :
          Label(l).kind = "uc_dma_bd" => (PAGE_HEADER_SIZE + PosOfLabel(l)) % 16 = 0
    BY <2>2, DescriptorsAligned DEF IsBd
  <2>7. QED
    BY <2>5, <2>6 DEF PageAsAnnounced
<1>2. WriterInv /\ [ControlNext]_allvars => WriterInv'
  BY WriterSteps
<1>3. QED
  BY <1>1, <1>2, Begins, PTL DEF ControlSpec

===============================================================================
