----------------------------- MODULE Aie2AsmProofs -----------------------------
(***************************************************************************)
(* Theorems about the assembler and the analyzer of AIE2 transactions.     *)
(***************************************************************************)
EXTENDS Aie2Asm, SequenceTheorems, FiniteSetTheorems, WellFoundedInduction, TLAPS

-------------------------------------------------------------------------------
(* Functions of the recursive definitions: every set of numbers has a      *)
(* least, so the least length without such a function would be one.        *)
LEMMA Least ==
  ASSUME NEW S \in SUBSET Nat, S # {}
  PROVE  \E m \in S : \A k \in S : m <= k
<1>1. PICK m \in S : \A k \in S : ~ (<<k, m>> \in OpToRel(<, Nat))
  BY NatLessThanWellFounded, WFMin
<1>2. \A k \in S : ~ k < m
  BY <1>1 DEF OpToRel
<1>3. \A k \in S : m <= k
  BY <1>2
<1>4. QED
  BY <1>3

Recursive(n, S, a, G) ==
  {f \in [0 .. n -> S] : f[0] = a /\ \A k \in 1 .. n : f[k] = G[<<k, f[k - 1]>>]}

LEMMA Recursion ==
  ASSUME NEW n \in Nat, NEW S, NEW a \in S, NEW G \in [(1 .. n) \X S -> S]
  PROVE  Recursive(n, S, a, G) # {}
<1> DEFINE Good(m) == \E f \in [0 .. m -> S] :
                        f[0] = a /\ \A k \in 1 .. m : f[k] = G[<<k, f[k - 1]>>]
           Bad == {m \in 0 .. n : ~ Good(m)}
<1>1. CASE Bad = {}
  <2>1. n \in 0 .. n
    OBVIOUS
  <2>2. Good(n)
    BY <1>1, <2>1
  <2>3. QED
    BY <2>2 DEF Recursive
<1>2. CASE Bad # {}
  <2>1. Bad \in SUBSET Nat
    OBVIOUS
  <2>2. PICK m \in Bad : \A k \in Bad : m <= k
    <3> HIDE DEF Bad
    <3>1. QED
      BY <1>2, <2>1, Least
  <2>3. m \in 0 .. n /\ ~ Good(m)
    BY <2>2
  <2>4. m # 0
    <3>1. SUFFICES ASSUME m = 0 PROVE Good(m)
      BY <2>3
    <3> DEFINE f == [k \in 0 .. m |-> a]
    <3>2. f \in [0 .. m -> S] /\ f[0] = a /\ 1 .. m = {}
      BY <3>1
    <3>3. QED
      BY <3>2
  <2>5. Good(m - 1)
    <3>1. m - 1 \in 0 .. n /\ ~ (m <= m - 1)
      BY <2>3, <2>4
    <3> HIDE DEF Good
    <3>2. m - 1 \notin Bad
      <4> HIDE DEF Bad
      <4>1. QED
        BY <2>2, <3>1
    <3>3. QED
      BY <3>1, <3>2
  <2>6. PICK f \in [0 .. m - 1 -> S] : f[0] = a /\ \A k \in 1 .. m - 1 : f[k] = G[<<k, f[k - 1]>>]
    BY <2>5
  <2> DEFINE g == [k \in 0 .. m |-> IF k = m THEN G[<<m, f[m - 1]>>] ELSE f[k]]
  <2>7. f[m - 1] \in S /\ <<m, f[m - 1]>> \in (1 .. n) \X S
    BY <2>3, <2>4, <2>6
  <2>8. g \in [0 .. m -> S]
    BY <2>3, <2>4, <2>6, <2>7
  <2>9. g[0] = a
    BY <2>3, <2>4, <2>6
  <2>10. ASSUME NEW k \in 1 .. m PROVE g[k] = G[<<k, g[k - 1]>>]
    <3>1. CASE k = m
      <4>1. m - 1 \in 0 .. m /\ m - 1 # m /\ m \in 0 .. m
        BY <2>3, <2>4
      <4>2. g[m] = G[<<m, f[m - 1]>>] /\ g[m - 1] = f[m - 1]
        BY <4>1
      <4>3. QED
        BY <3>1, <4>2
    <3>2. CASE k # m
      <4>1. k \in 1 .. m - 1 /\ k - 1 # m /\ k \in 0 .. m /\ k - 1 \in 0 .. m
        BY <2>3, <2>4, <3>2
      <4>2. g[k] = f[k] /\ g[k - 1] = f[k - 1]
        BY <3>2, <4>1
      <4>3. QED
        BY <2>6, <4>1, <4>2
    <3>3. QED
      BY <3>1, <3>2
  <2>11. Good(m)
    <3> HIDE DEF g
    <3>1. QED
      BY <2>8, <2>9, <2>10
  <2>12. QED
    BY <2>3, <2>11
<1>3. QED
  BY <1>1, <1>2

(* Functions of equal steps are equal.                                     *)
Alike(n, f, g) == f[0] = g[0] /\ \A k \in 1 .. n : f[k - 1] = g[k - 1] => f[k] = g[k]
Agree(n, f, g) == \A k \in 0 .. n : f[k] = g[k]

LEMMA SameSteps ==
  ASSUME NEW n \in Nat, NEW f, NEW g, Alike(n, f, g)
  PROVE  Agree(n, f, g)
<1> DEFINE Bad == {k \in 0 .. n : f[k] # g[k]}
<1>1. SUFFICES ASSUME Bad # {} PROVE FALSE
  BY DEF Agree
<1>2. Bad \in SUBSET Nat
  OBVIOUS
<1>3. PICK m \in Bad : \A k \in Bad : m <= k
  <2> HIDE DEF Bad
  <2>1. QED
    BY <1>1, <1>2, Least
<1>4. m \in 0 .. n /\ f[m] # g[m] /\ m # 0
  BY <1>3 DEF Alike
<1>5. m - 1 \in 0 .. n /\ ~ (m <= m - 1)
  BY <1>4
<1>6. f[m - 1] = g[m - 1]
  BY <1>3, <1>5
<1>7. m \in 1 .. n
  BY <1>4
<1>8. QED
  BY <1>4, <1>6, <1>7 DEF Alike

-------------------------------------------------------------------------------
(* Where operations begin and end.                                         *)
Measured(list) ==
  Len(list) \in Nat /\ \A k \in 1 .. Len(list) : list[k].bytes \in Nat \ {0}

LEMMA Totals ==
  ASSUME NEW list, Measured(list)
  PROVE  /\ Total(list)[0] = HeaderSize
         /\ \A k \in 1 .. Len(list) : Total(list)[k] = Total(list)[k - 1] + list[k].bytes
         /\ \A k \in 0 .. Len(list) : Total(list)[k] \in Nat
<1> DEFINE n == Len(list)
           G == [p \in (1 .. n) \X Nat |-> p[2] + list[p[1]].bytes]
           F(f) == [k \in 0 .. n |-> IF k = 0 THEN HeaderSize ELSE f[k - 1] + list[k].bytes]
<1>1. n \in Nat /\ HeaderSize \in Nat
  BY SizesAssumption DEF Measured
<1>2. G \in [(1 .. n) \X Nat -> Nat]
  BY DEF Measured
<1>3. PICK f \in [0 .. n -> Nat] : f[0] = HeaderSize /\ \A k \in 1 .. n : f[k] = G[<<k, f[k - 1]>>]
  <2> HIDE DEF n, G
  <2>1. Recursive(n, Nat, HeaderSize, G) # {}
    BY <1>1, <1>2, Recursion
  <2>2. QED
    BY <2>1 DEF Recursive
<1>4. \A k \in 1 .. n : f[k] = f[k - 1] + list[k].bytes
  <2>1. TAKE k \in 1 .. n
  <2>2. <<k, f[k - 1]>> \in (1 .. n) \X Nat
    BY <1>1, <1>3
  <2>3. QED
    BY <1>3, <2>2
<1>5. f = F(f)
  BY <1>1, <1>3, <1>4
<1>6. Total(list) = CHOOSE g : g = F(g)
  BY DEF Total
<1>7. Total(list) = F(Total(list))
  <2> HIDE DEF F
  <2>1. QED
    BY <1>5, <1>6
<1> DEFINE t == Total(list)
<1>8. /\ t[0] = HeaderSize
      /\ \A k \in 1 .. n : t[k] = t[k - 1] + list[k].bytes
  <2> HIDE DEF t
  <2>1. t = F(t)
    BY <1>7 DEF t
  <2>2. QED
    BY <1>1, <2>1
<1>9. \A k \in 0 .. n : f[k] = t[k]
  <2> HIDE DEF t, n
  <2>1. \A k \in 1 .. n : f[k - 1] = t[k - 1] => f[k] = t[k]
    BY <1>4, <1>8
  <2>2. Alike(n, f, t)
    BY <1>3, <1>8, <2>1 DEF Alike
  <2>3. Agree(n, f, t)
    BY <1>1, <2>2, SameSteps
  <2>4. QED
    BY <2>3 DEF Agree
<1>10. QED
  BY <1>3, <1>8, <1>9

(* Of operations of equal lengths the ends are the same.                   *)
LEMMA SameTotals ==
  ASSUME NEW one, NEW two, Measured(one), Measured(two), Len(one) = Len(two),
         \A k \in 1 .. Len(one) : one[k].bytes = two[k].bytes
  PROVE  \A k \in 0 .. Len(one) : Total(one)[k] = Total(two)[k]
<1> DEFINE f == Total(one)
           g == Total(two)
           n == Len(one)
<1>1. n \in Nat
  BY DEF Measured
<1>2. f[0] = HeaderSize /\ \A k \in 1 .. n : f[k] = f[k - 1] + one[k].bytes
  BY Totals
<1>3. g[0] = HeaderSize /\ \A k \in 1 .. n : g[k] = g[k - 1] + two[k].bytes
  <2>1. n = Len(two)
    OBVIOUS
  <2> HIDE DEF n
  <2>2. QED
    BY <2>1, Totals
<1>4. \A k \in 1 .. n : one[k].bytes = two[k].bytes
  OBVIOUS
<1> HIDE DEF f, g, n
<1>5. Alike(n, f, g)
  BY <1>2, <1>3, <1>4 DEF Alike
<1>6. Agree(n, f, g)
  BY <1>1, <1>5, SameSteps
<1>7. QED
  BY <1>6 DEF Agree, f, g, n

(* No two operations begin at one place.                                   *)
LEMMA TotalsGrow ==
  ASSUME NEW list, Measured(list), NEW i \in 0 .. Len(list), NEW j \in 0 .. Len(list), i < j
  PROVE  Total(list)[i] < Total(list)[j]
<1> DEFINE t == Total(list)
           n == Len(list)
           Bad == {k \in i + 1 .. n : ~ (t[i] < t[k])}
<1>1. /\ n \in Nat /\ i \in 0 .. n /\ j \in i + 1 .. n
      /\ \A k \in 1 .. n : t[k - 1] < t[k]
      /\ \A k \in 0 .. n : t[k] \in Nat
  <2>1. /\ n \in Nat /\ \A k \in 0 .. n : t[k] \in Nat
        /\ \A k \in 1 .. n : t[k] = t[k - 1] + list[k].bytes /\ list[k].bytes \in Nat \ {0}
    BY Totals DEF Measured
  <2>2. i \in 0 .. n /\ j \in i + 1 .. n
    BY <2>1
  <2> HIDE DEF n, t
  <2>3. ASSUME NEW k \in 1 .. n PROVE t[k - 1] < t[k]
    <3>1. k - 1 \in 0 .. n
      BY <2>1
    <3>2. t[k - 1] \in Nat /\ t[k] = t[k - 1] + list[k].bytes /\ list[k].bytes \in Nat \ {0}
      BY <2>1, <3>1
    <3>3. QED
      BY <3>2
  <2>4. QED
    BY <2>1, <2>2, <2>3
<1>2. SUFFICES ASSUME Bad # {} PROVE FALSE
  BY <1>1
<1>3. Bad \in SUBSET Nat
  BY <1>1
<1>4. PICK m \in Bad : \A k \in Bad : m <= k
  <2> HIDE DEF Bad
  <2>1. QED
    BY <1>2, <1>3, Least
<1> HIDE DEF t, n
<1>5. m \in i + 1 .. n /\ ~ (t[i] < t[m]) /\ m - 1 \in i .. n /\ ~ (m <= m - 1)
  BY <1>1, <1>4
<1>6. t[m - 1] < t[m] /\ t[m - 1] \in Nat /\ t[m] \in Nat /\ t[i] \in Nat
  BY <1>1, <1>5
<1>7. m - 1 = i \/ t[i] < t[m - 1]
  BY <1>1, <1>4, <1>5
<1>8. QED
  BY <1>5, <1>6, <1>7

-------------------------------------------------------------------------------
(* Lines and operations.                                                   *)
Printable == [name : Analyzed \cup {"label", "eof"}, args : Seq(Written)]
WordLine == [name : {"blockwrite_word"}, index : Nat, args : {a \in Seq(Written) : Len(a) = 1}]
AttachLine == [name : {"attach_to_group"}, col : Nat, args : {<<>>}]
LineSet == Lines \cup Printable \cup WordLine \cup AttachLine

OpRecord ==
  [op : Mnemonics, fields : Seq(Nat), bytes : Nat, size : Nat, words : Seq(Nat), outstanding : Nat]
OpOK(op) == LaidOut("0.1", op) /\ op.outstanding <= Len(op.words)

(* Types, with what the parser's columns are: lists of lines per label.    *)
AsmTypeOK ==
  /\ stage \in {"parse", "assemble", "count", "print", "done", "rejected", "unknown", "undefined"}
  /\ pass \in {1, 2}
  /\ stage \in {"count", "print"} => pass = 1
  /\ source \in Seq(LineSet) /\ text \in Seq(LineSet)
  /\ label \in Nat /\ pos \in Nat /\ num \in Nat
  /\ ops \in Seq(OpRecord)
  /\ \A k \in 1 .. Len(ops) : OpOK(ops[k])

(* A column that was left ends in an eof in one of its labels.             *)
EndsInEof(labels) ==
  \E l \in DOMAIN labels : labels[l] # <<>> /\ labels[l][Len(labels[l])] = Eof

ColsOK ==
  /\ col \in Nat \cup {-1} /\ IsFiniteSet(DOMAIN cols)
  /\ IF col = -1 THEN cols = <<>> ELSE col \in DOMAIN cols
  /\ \A c \in DOMAIN cols :
       /\ IsFiniteSet(DOMAIN cols[c])
       /\ \A l \in DOMAIN cols[c] : cols[c][l] \in Seq(LineSet)
       /\ c # col => EndsInEof(cols[c])

(* What was assembled is operations and words of them.                     *)
Begun == stage = "assemble" \/ (stage = "count" /\ source # <<>>)

BegunOK ==
  /\ stage = "parse" => pos = 0 /\ ops = <<>>
  /\ Begun =>
       /\ Last \in DOMAIN cols /\ Cardinality(DOMAIN cols[Last]) = 1
       /\ IF stage = "count" THEN pos = Len(Asm) ELSE pos <= Len(Asm)
       /\ \A k \in 1 .. pos : Asm[k].name \in Mnemonics \cup {"blockwrite_word"}

(* The walk stands behind the operations it counted.                       *)
Walked(t, op, n) == {k \in 1 .. n : t.ops[k].op = op}

WalkOK ==
  /\ stage \in {"parse", "assemble"} /\ pass = 1 =>
       num = 0 /\ text = <<>> /\ counts = [op \in Analyzed |-> 0]
  /\ stage \in {"count", "print"} =>
       /\ WellFormed(txn) /\ num <= txn.count /\ ptr = Total(txn.ops)[num]
       /\ counts \in [Analyzed -> Nat]
       /\ \A op \in Analyzed :
            counts[op] = Cardinality(Walked(txn, op, IF stage = "count" THEN num ELSE txn.count))

AsmInv == AsmTypeOK /\ ColsOK /\ BegunOK /\ WalkOK

-------------------------------------------------------------------------------
(* Operands, fields and lines.                                             *)
LEMMA Tuples ==
  ASSUME NEW S, NEW a \in S, NEW b \in S, NEW c \in S, NEW d \in S
  PROVE  <<a>> \in Seq(S) /\ <<a, b>> \in Seq(S) /\ <<a, b, c>> \in Seq(S) /\ <<a, b, c, d>> \in Seq(S)
<1>1. <<a>> \in Seq(S) /\ <<a, b>> \in Seq(S)
  OBVIOUS
<1>2. <<a, b, c>> \in Seq(S)
  OBVIOUS
<1>3. <<a, b, c, d>> \in Seq(S)
  OBVIOUS
<1>4. QED
  BY <1>1, <1>2, <1>3

LEMMA OperandForms ==
  \A o \in Mnemonics : Operands[o] \in Seq(Forms) /\ Len(Operands[o]) \in Nat
<1>1. /\ Operands.write = <<"reg", "num">> /\ Operands.blockwrite = <<"reg", "count">>
      /\ Operands.maskwrite = <<"reg", "mask", "num">>
      /\ Operands.maskpoll = <<"reg", "poll">> /\ Operands.maskpoll_busy = <<"reg", "poll">>
      /\ Operands.noop = <<>> /\ Operands.preempt = <<"level">>
      /\ Operands.loadpdi = <<"id", "num", "num">> /\ Operands.load_pm_start = <<"num", "id">>
      /\ Operands.tct = <<"row", "column", "direction", "num">>
      /\ Operands.merge_sync = <<"tokens">> /\ Operands.ddr_patch = <<"reg", "id", "plus">>
      /\ Operands.record_timer = <<"id">>
  BY DEF Operands
<1>2. <<>> \in Seq(Forms)
  BY EmptySeq
<1>3. /\ \A a \in Forms : <<a>> \in Seq(Forms)
      /\ \A a, b \in Forms : <<a, b>> \in Seq(Forms)
      /\ \A a, b, c \in Forms : <<a, b, c>> \in Seq(Forms)
      /\ \A a, b, c, d \in Forms : <<a, b, c, d>> \in Seq(Forms)
  BY Tuples
<1>4. /\ <<"reg", "num">> \in Seq(Forms) /\ <<"reg", "count">> \in Seq(Forms)
      /\ <<"reg", "poll">> \in Seq(Forms) /\ <<"level">> \in Seq(Forms) /\ <<"id">> \in Seq(Forms)
      /\ <<"num", "id">> \in Seq(Forms) /\ <<"tokens">> \in Seq(Forms)
  BY <1>3 DEF Forms
<1>5. /\ <<"reg", "mask", "num">> \in Seq(Forms) /\ <<"id", "num", "num">> \in Seq(Forms)
      /\ <<"reg", "id", "plus">> \in Seq(Forms)
      /\ <<"row", "column", "direction", "num">> \in Seq(Forms)
  BY <1>3 DEF Forms
<1>6. ASSUME NEW o \in Mnemonics PROVE Operands[o] \in Seq(Forms)
  <2>1. o \in {"write", "blockwrite", "maskwrite", "maskpoll", "maskpoll_busy", "noop", "preempt",
               "loadpdi", "load_pm_start", "tct", "merge_sync", "ddr_patch", "record_timer"}
    BY DEF Mnemonics, Operands
  <2>2. QED
    BY <1>1, <1>2, <1>4, <1>5, <2>1
<1>7. QED
  BY <1>6

LEMMA WrittenValue ==
  /\ \A o \in Written : o[2] \in Nat
  /\ \A f \in Forms, v \in Nat : <<f, v>> \in Written
BY DEF Written

(* Each operand is read into so many bytes and kept in no more.            *)
Widths(read, kept) ==
  /\ Len(read) = Len(kept)
  /\ \A k \in 1 .. Len(kept) : read[k] \in 1 .. 8 /\ kept[k] \in 1 .. 8 /\ kept[k] <= read[k]

LEMMA OperandBytes ==
  \A o \in Mnemonics :
    Len(StoredBytes[o]) = Len(Operands[o]) /\ Widths(ReadBytes[o], StoredBytes[o])
<1>1. /\ ReadBytes.write = <<8, 4>> /\ ReadBytes.blockwrite = <<8, 4>>
      /\ ReadBytes.maskwrite = <<8, 4, 4>>
      /\ ReadBytes.maskpoll = <<8, 4>> /\ ReadBytes.maskpoll_busy = <<8, 4>>
      /\ ReadBytes.noop = <<>> /\ ReadBytes.preempt = <<1>> /\ ReadBytes.loadpdi = <<2, 2, 8>>
      /\ ReadBytes.load_pm_start = <<4, 4>> /\ ReadBytes.tct = <<1, 1, 1, 4>>
      /\ ReadBytes.merge_sync = <<1>> /\ ReadBytes.ddr_patch = <<8, 8, 8>>
      /\ ReadBytes.record_timer = <<8>>
  BY DEF ReadBytes
<1>2. /\ StoredBytes.tct = <<1, 1, 1, 1>> /\ StoredBytes.load_pm_start = <<3, 4>>
      /\ StoredBytes.record_timer = <<4>>
      /\ \A o \in Mnemonics \ {"tct", "load_pm_start", "record_timer"} : StoredBytes[o] = ReadBytes[o]
  BY DEF StoredBytes, ReadBytes, Mnemonics, Operands
<1>3. /\ Widths(<<>>, <<>>) /\ Widths(<<1>>, <<1>>) /\ Widths(<<8>>, <<4>>)
      /\ Widths(<<8, 4>>, <<8, 4>>) /\ Widths(<<4, 4>>, <<3, 4>>)
  BY DEF Widths
<1>4. Widths(<<8, 4, 4>>, <<8, 4, 4>>) /\ Widths(<<2, 2, 8>>, <<2, 2, 8>>) /\ Widths(<<8, 8, 8>>, <<8, 8, 8>>)
  BY DEF Widths
<1>5. Widths(<<1, 1, 1, 4>>, <<1, 1, 1, 1>>)
  BY DEF Widths
<1>6. /\ Len(Operands.write) = 2 /\ Len(Operands.blockwrite) = 2 /\ Len(Operands.maskwrite) = 3
      /\ Len(Operands.maskpoll) = 2 /\ Len(Operands.maskpoll_busy) = 2
      /\ Len(Operands.noop) = 0 /\ Len(Operands.preempt) = 1 /\ Len(Operands.loadpdi) = 3
      /\ Len(Operands.load_pm_start) = 2 /\ Len(Operands.tct) = 4 /\ Len(Operands.merge_sync) = 1
      /\ Len(Operands.ddr_patch) = 3 /\ Len(Operands.record_timer) = 1
  BY DEF Operands
<1>7. ASSUME NEW o \in Mnemonics
      PROVE  Len(StoredBytes[o]) = Len(Operands[o]) /\ Widths(ReadBytes[o], StoredBytes[o])
  <2>1. o \in {"write", "blockwrite", "maskwrite", "maskpoll", "maskpoll_busy", "noop", "preempt",
               "loadpdi", "load_pm_start", "tct", "merge_sync", "ddr_patch", "record_timer"}
    BY DEF Mnemonics, Operands
  <2>2. o \notin {"tct", "load_pm_start", "record_timer"} => StoredBytes[o] = ReadBytes[o]
    BY <1>2
  <2>3. Widths(ReadBytes[o], StoredBytes[o])
    <3>1. CASE o \in {"tct", "load_pm_start", "record_timer"}
      <4>1. Widths(ReadBytes.tct, StoredBytes.tct)
        BY <1>1, <1>2, <1>5
      <4>2. Widths(ReadBytes.load_pm_start, StoredBytes.load_pm_start)
        BY <1>1, <1>2, <1>3
      <4>3. Widths(ReadBytes.record_timer, StoredBytes.record_timer)
        BY <1>1, <1>2, <1>3
      <4>4. QED
        BY <3>1, <4>1, <4>2, <4>3
    <3>2. CASE o \in {"write", "blockwrite", "maskpoll", "maskpoll_busy", "noop", "preempt", "merge_sync"}
      <4>1. ReadBytes[o] \in {<<>>, <<1>>, <<8, 4>>}
        BY <1>1, <3>2
      <4>2. Widths(ReadBytes[o], ReadBytes[o])
        BY <1>3, <4>1
      <4>3. QED
        BY <2>2, <3>2, <4>2
    <3>3. CASE o \in {"maskwrite", "loadpdi", "ddr_patch"}
      <4>1. ReadBytes[o] \in {<<8, 4, 4>>, <<2, 2, 8>>, <<8, 8, 8>>}
        BY <1>1, <3>3
      <4>2. Widths(ReadBytes[o], ReadBytes[o])
        BY <1>4, <4>1
      <4>3. QED
        BY <2>2, <3>3, <4>2
    <3>4. QED
      BY <2>1, <3>1, <3>2, <3>3
  <2>4. Len(StoredBytes[o]) = Len(Operands[o])
    <3>1. CASE o \in {"tct", "load_pm_start", "record_timer"}
      <4>1. Len(StoredBytes.tct) = 4 /\ Len(StoredBytes.load_pm_start) = 2 /\ Len(StoredBytes.record_timer) = 1
        BY <1>2
      <4>2. QED
        BY <1>6, <3>1, <4>1
    <3>2. CASE o \in {"write", "blockwrite", "maskpoll", "maskpoll_busy"}
      <4>1. ReadBytes[o] = <<8, 4>> /\ Len(Operands[o]) = 2
        BY <1>1, <1>6, <3>2
      <4>2. QED
        BY <2>2, <3>2, <4>1
    <3>3. CASE o \in {"noop", "preempt", "merge_sync"}
      <4>1. ReadBytes.noop = <<>> /\ ReadBytes.preempt = <<1>> /\ ReadBytes.merge_sync = <<1>>
        BY <1>1
      <4>2. Len(ReadBytes.noop) = 0 /\ Len(ReadBytes.preempt) = 1 /\ Len(ReadBytes.merge_sync) = 1
        BY <4>1
      <4>3. QED
        BY <1>6, <2>2, <3>3, <4>2
    <3>4. CASE o \in {"maskwrite", "loadpdi", "ddr_patch"}
      <4>1. ReadBytes[o] \in {<<8, 4, 4>>, <<2, 2, 8>>, <<8, 8, 8>>} /\ Len(Operands[o]) = 3
        BY <1>1, <1>6, <3>4
      <4>2. Len(ReadBytes[o]) = 3
        BY <4>1
      <4>3. QED
        BY <2>2, <3>4, <4>1, <4>2
    <3>5. QED
      BY <2>1, <3>1, <3>2, <3>3, <3>4
  <2>5. QED
    BY <2>3, <2>4
<1>8. QED
  BY <1>7

LEMMA NamesApart ==
  /\ {"attach_to_group", "label", "blockwrite_word", "word", "eof"} \cap Analyzed = {"label"} \cap Analyzed
  /\ "label" \notin Analyzed /\ "read_regs" \notin Mnemonics /\ Mnemonics \subseteq Analyzed
BY DEF Analyzed, Mnemonics, Operands

LEMMA LineSetOK ==
  ASSUME NEW line \in LineSet
  PROVE  LineOK(line)
<1>1. CASE line \in Lines
  BY <1>1, LinesAssumption
<1>2. CASE line \in Printable
  <2>1. line.name \notin {"attach_to_group", "blockwrite_word"} /\ line.args \in Seq(Written)
    BY <1>2, NamesApart DEF Printable
  <2>2. QED
    BY <2>1 DEF LineOK
<1>3. CASE line \in WordLine
  BY <1>3 DEF WordLine, LineOK
<1>4. CASE line \in AttachLine
  BY <1>4 DEF AttachLine, LineOK
<1>5. QED
  BY <1>1, <1>2, <1>3, <1>4 DEF LineSet

LEMMA EofIsLine == Eof \in LineSet
BY DEF Eof, LineSet, Printable

(* What a field holds of a value is one of its values, and the value if    *)
(* that is one.                                                            *)
LEMMA CutFits ==
  ASSUME NEW v \in Nat, NEW n \in 1 .. 8
  PROVE  /\ Cut(v, n) \in Nat /\ Cut(v, n) < Capacity[n]
         /\ v < Capacity[n] => Cut(v, n) = v
<1> DEFINE c == Capacity[n]
<1>1. c \in Nat \ {0}
  BY SizesAssumption
<1>2. Cut(v, n) = IF v < c THEN v ELSE v % c
  BY DEF Cut
<1> HIDE DEF c
<1>3. v % c \in 0 .. c - 1
  BY <1>1
<1> DEFINE w == v % c
<1> HIDE DEF w
<1>4. w \in 0 .. c - 1 /\ Cut(v, n) = IF v < c THEN v ELSE w
  BY <1>2, <1>3 DEF w
<1>5. Cut(v, n) \in Nat /\ Cut(v, n) < c /\ (v < c => Cut(v, n) = v)
  BY <1>1, <1>4
<1>6. QED
  BY <1>5 DEF c

LEMMA ValueIsRead ==
  ASSUME NEW form, NEW o \in Written
  PROVE  /\ ValueRead(form, o) \in Nat
         /\ form \notin Prefixed \/ o[1] # "dec" => ValueRead(form, o) = o[2]
<1>1. o[2] \in Nat
  BY WrittenValue
<1> DEFINE v == o[2]
<1> HIDE DEF v
<1>2. v \in Nat /\ v % 10 \in Nat
  BY <1>1 DEF v
<1>3. ValueRead(form, o) = IF form \in Prefixed /\ o[1] = "dec" THEN v % 10 ELSE v
  BY DEF ValueRead, v
<1>4. QED
  BY <1>2, <1>3 DEF v

(* What the fields of an accepted line hold.                               *)
LEMMA FieldsFit ==
  ASSUME NEW line \in LineSet, Assembles(line)
  PROVE  /\ Fields(line) \in Seq(Nat) /\ Len(Fields(line)) = Len(Operands[line.name])
         /\ \A k \in DOMAIN Fields(line) :
              /\ Fields(line)[k] < Capacity[StoredBytes[line.name][k]]
              /\ Intact(line, k) => Fields(line)[k] = line.args[k][2]
<1> DEFINE n == Len(Operands[line.name])
           V(k) == ValueRead(Operands[line.name][k], line.args[k])
           B(k) == StoredBytes[line.name][k]
<1>1. line.name \in Mnemonics /\ n <= Len(line.args)
  BY DEF Assembles
<1>2. n \in Nat /\ DOMAIN Operands[line.name] = 1 .. n
  BY <1>1, OperandForms
<1>3. line.args \in Seq(Written)
  <2>1. line.name \notin {"attach_to_group"}
    BY <1>1, NamesApart
  <2>2. QED
    BY <2>1, LineSetOK DEF LineOK
<1>4. \A k \in 1 .. n : line.args[k] \in Written
  BY <1>1, <1>2, <1>3
<1>5. \A k \in 1 .. n : B(k) \in 1 .. 8
  BY <1>1, OperandBytes DEF Widths
<1>6. Fields(line) = [k \in 1 .. n |-> Cut(V(k), B(k))]
  BY <1>2 DEF Fields
<1>7. ASSUME NEW k \in 1 .. n
      PROVE  /\ Fields(line)[k] \in Nat /\ Fields(line)[k] < Capacity[B(k)]
             /\ Intact(line, k) => Fields(line)[k] = line.args[k][2]
  <2>1. V(k) \in Nat /\ (Operands[line.name][k] \notin Prefixed \/ line.args[k][1] # "dec" => V(k) = line.args[k][2])
    BY <1>4, ValueIsRead
  <2>2. Fields(line)[k] = Cut(V(k), B(k)) /\ B(k) \in 1 .. 8
    BY <1>5, <1>6
  <2>3. Intact(line, k) => V(k) = line.args[k][2] /\ V(k) < Capacity[B(k)]
    BY <2>1 DEF Intact
  <2> HIDE DEF V, B
  <2>4. /\ Cut(V(k), B(k)) \in Nat /\ Cut(V(k), B(k)) < Capacity[B(k)]
        /\ V(k) < Capacity[B(k)] => Cut(V(k), B(k)) = V(k)
    BY <2>1, <2>2, CutFits
  <2>5. QED
    BY <2>2, <2>3, <2>4
<1>8. Fields(line) \in [1 .. n -> Nat] /\ DOMAIN Fields(line) = 1 .. n
  <2>1. DOMAIN Fields(line) = 1 .. n /\ Fields(line) = [k \in 1 .. n |-> Fields(line)[k]]
    BY <1>6
  <2>2. QED
    BY <1>7, <2>1
<1>9. Fields(line) \in Seq(Nat) /\ Len(Fields(line)) = n
  <2> HIDE DEF n
  <2>1. QED
    BY <1>2, <1>8, SeqDef, LenProperties
<1>10. QED
  BY <1>7, <1>8, <1>9

(* An operation is laid out as its structure is, and stays so when a word  *)
(* of it is filled in.                                                     *)
LEMMA OperationLaidOut ==
  ASSUME NEW line \in LineSet, Assembles(line)
  PROVE  Operation(line) \in OpRecord /\ OpOK(Operation(line))
<1> DEFINE fields == Fields(line)
           extra == IF line.name = "blockwrite" THEN fields[2] ELSE 0
           bytes == BaseSize[<<"0.1", line.name>>] + extra
           zeros == [k \in 1 .. extra |-> 0]
           op == Operation(line)
<1>1. line.name \in Mnemonics /\ line.name \in Analyzed
  BY NamesApart DEF Assembles
<1>2. extra \in Nat
  <2>1. CASE line.name = "blockwrite"
    <3>1. Len(Operands["blockwrite"]) = 2
      BY DEF Operands
    <3>2. fields \in Seq(Nat) /\ Len(fields) = 2
      BY <2>1, <3>1, FieldsFit
    <3>3. fields[2] \in Nat
      <4> HIDE DEF fields
      <4>1. QED
        BY <3>2
    <3>4. QED
      BY <2>1, <3>3
  <2>2. CASE line.name # "blockwrite"
    BY <2>2
  <2>3. QED
    BY <2>1, <2>2
<1>3. bytes \in Nat \ {0}
  <2>1. BaseSize[<<"0.1", line.name>>] \in Nat \ {0}
    BY <1>1, SizesAssumption
  <2> HIDE DEF extra
  <2>2. QED
    BY <1>2, <2>1
<1>4. zeros \in Seq(Nat) /\ Len(zeros) = extra
  <2> HIDE DEF extra
  <2>1. QED
    BY <1>2
<1>5. /\ op = [op |-> line.name, fields |-> fields, bytes |-> bytes, size |-> bytes,
               words |-> zeros, outstanding |-> extra]
  BY DEF Operation
<1>6. fields \in Seq(Nat)
  BY FieldsFit
<1>7. op \in OpRecord
  <2> HIDE DEF fields, extra, bytes, zeros, op
  <2>1. QED
    BY <1>1, <1>2, <1>3, <1>4, <1>5, <1>6 DEF OpRecord
<1>8. LaidOut("0.1", op)
  <2>1. /\ Len(fields) = Len(Operands[line.name])
        /\ \A k \in DOMAIN fields : fields[k] < Capacity[StoredBytes[line.name][k]]
    BY FieldsFit
  <2>2. extra = (IF line.name = "blockwrite" THEN fields[2] ELSE 0)
        /\ bytes = BaseSize[<<"0.1", line.name>>] + extra
    OBVIOUS
  <2>3. \A k \in DOMAIN zeros : zeros[k] < Capacity[WordBytes]
    <3>1. Capacity[WordBytes] \in Nat \ {0}
      BY SizesAssumption DEF WordBytes
    <3> HIDE DEF extra
    <3>2. \A k \in DOMAIN zeros : zeros[k] = 0
      OBVIOUS
    <3>3. QED
      BY <3>1, <3>2
  <2> HIDE DEF fields, extra, bytes, zeros, op
  <2>4. QED
    BY <1>1, <1>2, <1>3, <1>4, <1>5, <1>6, <2>1, <2>2, <2>3 DEF LaidOut
<1>9. op.outstanding <= Len(op.words)
  <2> HIDE DEF extra, zeros, op, fields, bytes
  <2>1. QED
    BY <1>2, <1>4, <1>5
<1>10. QED
  BY <1>7, <1>8, <1>9 DEF OpOK

Extension(op, v) == [op EXCEPT !.words[ExtensionIndex(op) + 1] = v, !.outstanding = @ - 1]
Extended(op, v, ext) ==
  /\ ext \in OpRecord /\ OpOK(ext)
  /\ ExtensionIndex(op) + 1 \in 1 .. Len(op.words)
  /\ ext.words = [op.words EXCEPT ![ExtensionIndex(op) + 1] = v]
  /\ Len(ext.words) = Len(op.words)
  /\ ext.op = op.op /\ ext.fields = op.fields /\ ext.outstanding = op.outstanding - 1

LEMMA ExtensionLaidOut ==
  ASSUME NEW op \in OpRecord, OpOK(op), op.outstanding > 0, NEW v \in Nat, v < Capacity[WordBytes]
  PROVE  Extended(op, v, Extension(op, v))
<1> DEFINE i == ExtensionIndex(op) + 1
           words == [op.words EXCEPT ![i] = v]
           ext == Extension(op, v)
<1>1. ext = [op |-> op.op, fields |-> op.fields, bytes |-> op.bytes, size |-> op.size,
             words |-> words, outstanding |-> op.outstanding - 1]
  <2>1. ext = [op EXCEPT !.words[i] = v, !.outstanding = op.outstanding - 1]
    BY DEF Extension
  <2>2. op = [op |-> op.op, fields |-> op.fields, bytes |-> op.bytes, size |-> op.size,
              words |-> op.words, outstanding |-> op.outstanding]
    BY DEF OpRecord
  <2> HIDE DEF i, ext
  <2>3. QED
    BY <2>1, <2>2
<1> HIDE DEF ext
<1>2. /\ op.words \in Seq(Nat) /\ op.outstanding \in Nat /\ Len(op.words) \in Nat
      /\ op.outstanding <= Len(op.words)
  BY DEF OpRecord, OpOK
<1>3. i \in 1 .. Len(op.words)
  BY <1>2 DEF ExtensionIndex
<1>4. words \in Seq(Nat) /\ Len(words) = Len(op.words)
  <2> HIDE DEF i
  <2>1. QED
    BY <1>2, <1>3, ExceptSeq
<1> HIDE DEF words
<1>5. /\ ext.op = op.op /\ ext.fields = op.fields /\ ext.bytes = op.bytes /\ ext.size = op.size
      /\ ext.words = words /\ ext.outstanding = op.outstanding - 1
  BY <1>1
<1>6. ext \in OpRecord
  BY <1>1, <1>2, <1>4 DEF OpRecord
<1>7. LaidOut("0.1", ext)
  <2>1. LaidOut("0.1", op)
    BY DEF OpOK
  <2>2. \A k \in DOMAIN words : words[k] < Capacity[WordBytes]
    <3>1. DOMAIN words = DOMAIN op.words /\ \A k \in DOMAIN op.words : words[k] \in {v, op.words[k]}
      BY DEF words
    <3>2. QED
      BY <2>1, <3>1 DEF LaidOut
  <2>3. QED
    BY <1>4, <1>5, <2>1, <2>2 DEF LaidOut
<1>8. OpOK(ext)
  BY <1>2, <1>4, <1>5, <1>7 DEF OpOK
<1>9. QED
  BY <1>3, <1>4, <1>5, <1>6, <1>8 DEF Extended, ext, words

(* Every line that is printed is a line the parser may meet.               *)
LEMMA PrintedLines ==
  ASSUME NEW version, NEW op, LaidOut(version, op), op.op \in Analyzed
  PROVE  Printed(op) \in Seq(LineSet)
<1>1. CASE op.op = "read_regs"
  <2>1. [name |-> "label", args |-> <<>>] \in LineSet
    BY EmptySeq DEF LineSet, Printable
  <2>2. Printed(op) = <<[name |-> "label", args |-> <<>>]>>
    BY <1>1 DEF Printed
  <2>3. QED
    BY <2>1, <2>2, Tuples
<1>2. CASE op.op = "loadpdi"
  <2> DEFINE args == <<<<"id", op.fields[1]>>, <<"joined", op.fields[2]>>>>
             line == [name |-> "loadpdi", args |-> args]
  <2>1. op.op \in Mnemonics /\ Len(Operands["loadpdi"]) = 3
    BY <1>2 DEF Mnemonics, Operands
  <2>2. op.fields \in Seq(Nat) /\ Len(op.fields) = 3
    BY <1>2, <2>1 DEF LaidOut
  <2>3. op.fields[1] \in Nat /\ op.fields[2] \in Nat
    BY <2>2
  <2>4. <<"id", op.fields[1]>> \in Written /\ <<"joined", op.fields[2]>> \in Written
    BY <2>3, WrittenValue DEF Forms
  <2>5. args \in Seq(Written)
    BY <2>4, Tuples
  <2>6. line \in LineSet
    <3> HIDE DEF args
    <3>1. "loadpdi" \in Analyzed
      BY <1>2
    <3>2. QED
      BY <2>5, <3>1 DEF LineSet, Printable
  <2>7. Printed(op) = <<line>>
    BY <1>2 DEF Printed
  <2>8. QED
    <3> HIDE DEF line
    <3>1. QED
      BY <2>6, <2>7, Tuples
<1>3. CASE op.op \notin {"read_regs", "loadpdi"}
  <2> DEFINE args == [k \in DOMAIN op.fields |-> <<Operands[op.op][k], op.fields[k]>>]
             line == [name |-> op.op, args |-> args]
             W(k) == [name |-> "blockwrite_word", index |-> k - 1, args |-> <<<<"num", op.words[k]>>>>]
             words == [k \in DOMAIN op.words |-> W(k)]
  <2>1. op.op \in Mnemonics
    BY <1>3 DEF Analyzed
  <2>2. op.fields \in Seq(Nat) /\ Len(op.fields) = Len(Operands[op.op])
    BY <2>1 DEF LaidOut
  <2>3. Operands[op.op] \in Seq(Forms)
    BY <2>1, OperandForms
  <2>4. args \in Seq(Written)
    <3>1. Len(op.fields) \in Nat /\ DOMAIN op.fields = 1 .. Len(op.fields)
      BY <2>2
    <3>2. \A k \in 1 .. Len(op.fields) : op.fields[k] \in Nat /\ Operands[op.op][k] \in Forms
      BY <2>2, <2>3
    <3>3. args \in [1 .. Len(op.fields) -> Written]
      BY <3>1, <3>2, WrittenValue
    <3>4. QED
      <4> HIDE DEF args
      <4>1. QED
        BY <3>1, <3>3, SeqDef
  <2>5. <<line>> \in Seq(LineSet)
    <3>1. line \in LineSet
      <4> HIDE DEF args
      <4>1. QED
        BY <2>4 DEF LineSet, Printable
    <3>2. QED
      <4> HIDE DEF line
      <4>1. QED
        BY <3>1, Tuples
  <2>6. words \in Seq(LineSet)
    <3>1. op.words \in Seq(Nat)
      BY DEF LaidOut
    <3>2. Len(op.words) \in Nat /\ DOMAIN op.words = 1 .. Len(op.words)
      BY <3>1
    <3>3. ASSUME NEW k \in 1 .. Len(op.words) PROVE W(k) \in LineSet
      <4>1. k - 1 \in Nat /\ <<"num", op.words[k]>> \in Written
        BY <3>1, <3>2, WrittenValue DEF Forms
      <4>2. <<<<"num", op.words[k]>>>> \in Seq(Written) /\ Len(<<<<"num", op.words[k]>>>>) = 1
        BY <4>1, Tuples
      <4> DEFINE a == <<<<"num", op.words[k]>>>>
      <4>3. QED
        <5> HIDE DEF a
        <5>1. a \in Seq(Written) /\ Len(a) = 1
          BY <4>2 DEF a
        <5>2. [name |-> "blockwrite_word", index |-> k - 1, args |-> a] \in WordLine
          BY <4>1, <5>1 DEF WordLine
        <5>3. QED
          BY <5>2 DEF LineSet, a
    <3>4. words \in [1 .. Len(op.words) -> LineSet]
      <4> HIDE DEF W
      <4>1. QED
        BY <3>2, <3>3
    <3>5. QED
      <4> HIDE DEF words
      <4>1. QED
        BY <3>2, <3>4, SeqDef
  <2>7. Printed(op) = <<line>> \o words
    BY <1>3 DEF Printed
  <2>8. QED
    <3> HIDE DEF line, words
    <3>1. QED
      BY <2>5, <2>6, <2>7, ConcatProperties
<1>4. QED
  BY <1>1, <1>2, <1>3

LEMMA AttachLinesOK ==
  ASSUME NEW n \in Nat
  PROVE  AttachLines(n) \in Seq(LineSet) /\ Len(AttachLines(n)) = n
<1> DEFINE W(k) == [name |-> "attach_to_group", col |-> k - 1, args |-> <<>>]
<1>1. ASSUME NEW k \in 1 .. n PROVE W(k) \in LineSet
  BY DEF LineSet, AttachLine
<1>2. AttachLines(n) = [k \in 1 .. n |-> W(k)]
  BY DEF AttachLines
<1>3. QED
  <2> HIDE DEF W
  <2>1. AttachLines(n) \in [1 .. n -> LineSet]
    BY <1>1, <1>2
  <2>2. QED
    BY <2>1, SeqDef, LenProperties

-------------------------------------------------------------------------------
(* The parser's columns.                                                   *)
LEMMA PutIs ==
  ASSUME NEW f, NEW x, NEW value
  PROVE  /\ DOMAIN Put(f, x, value) = {x} \cup DOMAIN f
         /\ Put(f, x, value)[x] = value
         /\ \A y \in DOMAIN f : y # x => Put(f, x, value)[y] = f[y]
BY DEF Put

LEMMA InsertedIs ==
  ASSUME ColsOK, label \in Nat, NEW line \in LineSet
  PROVE  /\ DOMAIN Inserted(line) = {Column} \cup DOMAIN cols /\ Column \in Nat
         /\ IsFiniteSet(DOMAIN Inserted(line))
         /\ \A d \in DOMAIN cols : d # Column => Inserted(line)[d] = cols[d]
         /\ IsFiniteSet(DOMAIN Inserted(line)[Column])
         /\ \A l \in DOMAIN Inserted(line)[Column] : Inserted(line)[Column][l] \in Seq(LineSet)
         /\ label \in DOMAIN Inserted(line)[Column]
         /\ LET new == Inserted(line)[Column][label] IN new # <<>> /\ new[Len(new)] = line
<1> DEFINE c == Column
           old == LabelsOf(c)
           lines == IF label \in DOMAIN old THEN old[label] ELSE <<>>
           new == Append(lines, line)
<1>1. Inserted(line) = Put(cols, c, Put(old, label, new))
  BY DEF Inserted
<1>2. c \in Nat
  BY DEF ColsOK, Column
<1>3. IsFiniteSet(DOMAIN old) /\ \A l \in DOMAIN old : old[l] \in Seq(LineSet)
  <2>1. CASE c \in DOMAIN cols
    BY <2>1 DEF ColsOK, LabelsOf
  <2>2. CASE c \notin DOMAIN cols
    <3>1. old = <<>>
      BY <2>2 DEF LabelsOf
    <3>2. DOMAIN <<>> = {}
      OBVIOUS
    <3>3. QED
      BY <3>1, <3>2, FS_EmptySet
  <2>3. QED
    BY <2>1, <2>2
<1>4. lines \in Seq(LineSet)
  BY <1>3, EmptySeq
<1>5. new \in Seq(LineSet) /\ new # <<>> /\ new[Len(new)] = line
  <2> HIDE DEF lines
  <2>1. QED
    BY <1>4
<1> HIDE DEF c, old, lines, new
<1>6. /\ DOMAIN Put(old, label, new) = {label} \cup DOMAIN old
      /\ Put(old, label, new)[label] = new
      /\ \A l \in DOMAIN old : l # label => Put(old, label, new)[l] = old[l]
  BY DEF Put
<1>7. /\ DOMAIN Inserted(line) = {c} \cup DOMAIN cols
      /\ Inserted(line)[c] = Put(old, label, new)
      /\ \A d \in DOMAIN cols : d # c => Inserted(line)[d] = cols[d]
  BY <1>1 DEF Put
<1>8. IsFiniteSet({label} \cup DOMAIN old) /\ IsFiniteSet({c} \cup DOMAIN cols)
  BY <1>3, FS_Singleton, FS_Union DEF ColsOK
<1>9. QED
  BY <1>2, <1>3, <1>5, <1>6, <1>7, <1>8 DEF c

(* The assembled lines are the only list of the last column.               *)
LEMMA AsmIs ==
  ASSUME ColsOK, Last \in DOMAIN cols, Cardinality(DOMAIN cols[Last]) = 1
  PROVE  /\ \E l : DOMAIN cols[Last] = {l} /\ Asm = cols[Last][l]
         /\ Asm \in Seq(LineSet) /\ Len(Asm) \in Nat
         /\ Last # col => Asm # <<>> /\ Asm[Len(Asm)] = Eof
<1>1. IsFiniteSet(DOMAIN cols[Last])
  BY DEF ColsOK
<1>2. PICK l : DOMAIN cols[Last] = {l}
  BY <1>1, FS_Singleton
<1>3. (CHOOSE k \in DOMAIN cols[Last] : TRUE) = l
  BY <1>2
<1>4. Asm = cols[Last][l]
  BY <1>3 DEF Asm
<1>5. Asm \in Seq(LineSet)
  BY <1>2, <1>4 DEF ColsOK
<1>6. Last # col => Asm # <<>> /\ Asm[Len(Asm)] = Eof
  BY <1>2, <1>4 DEF ColsOK, EndsInEof
<1>7. QED
  BY <1>2, <1>4, <1>5, <1>6

(* A line that is read is one the parser may meet.                         *)
LEMMA NextLineOK ==
  ASSUME AsmTypeOK, NEW line \in NextLine
  PROVE  line \in LineSet /\ LineOK(line)
<1>1. CASE pass = 2
  <2>1. line \in {text[k] : k \in DOMAIN text}
    BY <1>1 DEF NextLine
  <2>2. text \in Seq(LineSet)
    BY DEF AsmTypeOK
  <2>3. \A k \in DOMAIN text : text[k] \in LineSet
    BY <2>2
  <2>4. QED
    BY <2>1, <2>3, LineSetOK
<1>2. CASE pass # 2
  BY <1>2, LineSetOK DEF NextLine, LineSet
<1>3. QED
  BY <1>1, <1>2

LEMMA ColsNext ==
  ASSUME AsmTypeOK, ColsOK, [Next]_vars
  PROVE  ColsOK'
<1>1. CASE col' = col /\ cols' = cols
  BY <1>1 DEF ColsOK, EndsInEof
<1>2. ASSUME NEW line \in NextLine, ParseOperation(line)
      PROVE  ColsOK'
  <2> DEFINE c == Column
  <2>1. line \in LineSet /\ label \in Nat
    BY <1>2, NextLineOK DEF AsmTypeOK
  <2>2. cols' = Inserted(line) /\ col' = c
    BY <1>2 DEF ParseOperation
  <2>3. /\ DOMAIN Inserted(line) = {c} \cup DOMAIN cols /\ c \in Nat
        /\ IsFiniteSet(DOMAIN Inserted(line))
        /\ \A d \in DOMAIN cols : d # c => Inserted(line)[d] = cols[d]
        /\ IsFiniteSet(DOMAIN Inserted(line)[c])
        /\ \A l \in DOMAIN Inserted(line)[c] : Inserted(line)[c][l] \in Seq(LineSet)
    BY <2>1, InsertedIs
  <2>4. \A d \in DOMAIN cols : d # c => d # col
    BY DEF ColsOK, Column
  <2>5. \A d \in DOMAIN cols :
          /\ IsFiniteSet(DOMAIN cols[d])
          /\ \A l \in DOMAIN cols[d] : cols[d][l] \in Seq(LineSet)
          /\ d # col => EndsInEof(cols[d])
    BY DEF ColsOK
  <2> HIDE DEF c
  <2>6. ASSUME NEW d \in DOMAIN cols'
        PROVE  /\ IsFiniteSet(DOMAIN cols'[d])
               /\ \A l \in DOMAIN cols'[d] : cols'[d][l] \in Seq(LineSet)
               /\ d # col' => EndsInEof(cols'[d])
    <3>1. CASE d = c
      BY <2>2, <2>3, <3>1
    <3>2. CASE d # c
      <4>1. d \in DOMAIN cols /\ cols'[d] = cols[d] /\ d # col
        BY <2>2, <2>3, <2>4, <3>2
      <4>2. /\ IsFiniteSet(DOMAIN cols[d]) /\ EndsInEof(cols[d])
            /\ \A l \in DOMAIN cols[d] : cols[d][l] \in Seq(LineSet)
        BY <2>5, <4>1
      <4>3. QED
        BY <4>1, <4>2, Zenon
    <3>3. QED
      BY <3>1, <3>2
  <2>7. col' \in Nat /\ col' # -1 /\ col' \in DOMAIN cols' /\ IsFiniteSet(DOMAIN cols')
    BY <2>2, <2>3
  <2>8. QED
    BY <2>6, <2>7 DEF ColsOK, EndsInEof
<1>3. ASSUME NEW line \in NextLine, AttachToGroup(line)
      PROVE  ColsOK'
  <2> DEFINE c == Column
             e == Inserted(Eof)
             n == line.col
  <2>1. label \in Nat /\ n \in Nat
    BY <1>3, NextLineOK DEF AsmTypeOK, LineOK, AttachToGroup
  <2>2. cols' = Put(e, n, <<>>) /\ col' = n
    BY <1>3 DEF AttachToGroup
  <2>3. /\ DOMAIN e = {c} \cup DOMAIN cols /\ c \in Nat
        /\ IsFiniteSet(DOMAIN e)
        /\ \A d \in DOMAIN cols : d # c => e[d] = cols[d]
        /\ IsFiniteSet(DOMAIN e[c])
        /\ \A l \in DOMAIN e[c] : e[c][l] \in Seq(LineSet)
        /\ label \in DOMAIN e[c]
        /\ LET new == e[c][label] IN new # <<>> /\ new[Len(new)] = Eof
    BY <2>1, EofIsLine, InsertedIs
  <2>4. EndsInEof(e[c])
    BY <2>3 DEF EndsInEof
  <2>5. \A d \in DOMAIN cols : d # c => d # col
    BY DEF ColsOK, Column
  <2>6. \A d \in DOMAIN cols :
          /\ IsFiniteSet(DOMAIN cols[d])
          /\ \A l \in DOMAIN cols[d] : cols[d][l] \in Seq(LineSet)
          /\ d # col => EndsInEof(cols[d])
    BY DEF ColsOK
  <2> HIDE DEF c, e, n
  <2>7. /\ DOMAIN cols' = {n} \cup DOMAIN e /\ cols'[n] = <<>>
        /\ \A d \in DOMAIN e : d # n => cols'[d] = e[d]
    BY <2>2 DEF Put
  <2>8. ASSUME NEW d \in DOMAIN cols'
        PROVE  /\ IsFiniteSet(DOMAIN cols'[d])
               /\ \A l \in DOMAIN cols'[d] : cols'[d][l] \in Seq(LineSet)
               /\ d # col' => EndsInEof(cols'[d])
    <3>1. CASE d = n
      <4>1. DOMAIN <<>> = {}
        OBVIOUS
      <4>2. QED
        BY <2>2, <2>7, <3>1, <4>1, FS_EmptySet
    <3>2. CASE d # n /\ d = c
      <4>1. cols'[d] = e[c]
        BY <2>3, <2>7, <3>2
      <4>2. QED
        BY <2>3, <2>4, <4>1
    <3>3. CASE d # n /\ d # c
      <4>1. d \in DOMAIN cols /\ cols'[d] = cols[d] /\ d # col
        BY <2>3, <2>5, <2>7, <3>3
      <4>2. /\ IsFiniteSet(DOMAIN cols[d]) /\ EndsInEof(cols[d])
            /\ \A l \in DOMAIN cols[d] : cols[d][l] \in Seq(LineSet)
        BY <2>6, <4>1
      <4>3. QED
        BY <4>1, <4>2, Zenon
    <3>4. QED
      BY <3>1, <3>2, <3>3
  <2>9. col' \in Nat /\ col' # -1 /\ col' \in DOMAIN cols' /\ IsFiniteSet(DOMAIN cols')
    <3>1. IsFiniteSet({n} \cup DOMAIN e)
      BY <2>3, FS_Singleton, FS_Union
    <3>2. QED
      BY <2>1, <2>2, <2>7, <3>1
  <2>10. QED
    BY <2>8, <2>9 DEF ColsOK, EndsInEof
<1>4. CASE Reassemble
  <2>1. col' = -1 /\ cols' = <<>> /\ DOMAIN cols' = {}
    BY <1>4 DEF Reassemble
  <2>2. QED
    BY <2>1, FS_EmptySet DEF ColsOK
<1>5. ASSUME NEW line \in NextLine, ParseLabel(line)
      PROVE  col' = col /\ cols' = cols
  BY <1>5 DEF ParseLabel
<1>6. CASE EndOfSource \/ ExtendOperation \/ RejectExtension \/ AssembleOperation \/ RejectOperation
  BY <1>1, <1>6 DEF EndOfSource, ExtendOperation, RejectExtension, AssembleOperation, RejectOperation,
                    RejectLine, parser
<1>7. CASE ReadBeyondOperands \/ Encode \/ CountOperation \/ StartPrint \/ PrintOperation
  BY <1>1, <1>7 DEF ReadBeyondOperands, Encode, CountOperation, StartPrint, PrintOperation, parser
<1>8. CASE RejectUnknown \/ Ended \/ UNCHANGED vars
  BY <1>1, <1>8 DEF RejectUnknown, Ended, vars, parser
<1>9. QED
  BY <1>1, <1>2, <1>3, <1>4, <1>5, <1>6, <1>7, <1>8 DEF Next

-------------------------------------------------------------------------------
(* The line to assemble.                                                   *)
LEMMA LineIs ==
  ASSUME ColsOK, BegunOK, pos \in Nat, Assembling
  PROVE  /\ Asm \in Seq(LineSet) /\ pos + 1 \in 1 .. Len(Asm) /\ Len(Asm) \in Nat
         /\ Line \in LineSet /\ LineOK(Line) /\ Line = Asm[pos + 1]
<1>1. Last \in DOMAIN cols /\ Cardinality(DOMAIN cols[Last]) = 1 /\ pos < Len(Asm)
  BY DEF BegunOK, Begun, Assembling
<1>2. Asm \in Seq(LineSet) /\ Len(Asm) \in Nat
  BY <1>1, AsmIs
<1>3. pos + 1 \in 1 .. Len(Asm) /\ Line = Asm[pos + 1]
  BY <1>1, <1>2 DEF Line
<1>4. Line \in LineSet
  BY <1>2, <1>3
<1>5. QED
  BY <1>2, <1>3, <1>4, LineSetOK

(* An operation with words to come is the last of the list.                *)
LEMMA LastOpIs ==
  ASSUME AsmTypeOK, Outstanding > 0
  PROVE  /\ ops # <<>> /\ Len(ops) \in 1 .. Len(ops) /\ Len(ops) - 1 \in Nat /\ Len(ops) \in Nat
         /\ ops[Len(ops)] \in OpRecord /\ OpOK(ops[Len(ops)])
         /\ ops[Len(ops)].outstanding > 0 /\ Outstanding = ops[Len(ops)].outstanding
<1>1. ops \in Seq(OpRecord) /\ ops # <<>> /\ Outstanding = ops[Len(ops)].outstanding
  BY DEF AsmTypeOK, Outstanding
<1>2. Len(ops) \in Nat /\ Len(ops) # 0
  BY <1>1, EmptySeq, LenProperties
<1>3. Len(ops) \in 1 .. Len(ops)
  BY <1>2
<1>4. QED
  BY <1>1, <1>2, <1>3 DEF AsmTypeOK

(* The value of a word that is accepted.                                   *)
LEMMA WordIs ==
  ASSUME ColsOK, BegunOK, pos \in Nat, Assembling, NEW op, Extends(Line, op)
  PROVE  /\ Line.name = "blockwrite_word" /\ Line.index = ExtensionIndex(op)
         /\ Line.args[1][2] \in Nat /\ Line.args[1][2] < Capacity[WordBytes]
<1>1. Line.name = "blockwrite_word" /\ Fits("num", WordBytes, Line.args[1])
  BY DEF Extends
<1>2. Line.args \in Seq(Written) /\ Len(Line.args) = 1
  BY <1>1, LineIs DEF LineOK
<1>3. Line.args[1] \in Written
  BY <1>2
<1>4. ValueRead("num", Line.args[1]) = Line.args[1][2] /\ Line.args[1][2] \in Nat
  BY <1>3, ValueIsRead, WrittenValue DEF Prefixed
<1>5. QED
  BY <1>1, <1>4 DEF Extends, Fits

LEMMA BegunNext ==
  ASSUME AsmTypeOK, ColsOK, BegunOK, [Next]_vars
  PROVE  BegunOK'
<1>1. ASSUME NEW line \in NextLine, ParseOperation(line) \/ AttachToGroup(line) \/ ParseLabel(line)
      PROVE  BegunOK'
  <2>1. stage = "parse" /\ stage' = "parse" /\ pos' = pos /\ ops' = ops
    BY <1>1 DEF ParseOperation, AttachToGroup, ParseLabel, Read, encoder
  <2>2. QED
    BY <2>1 DEF BegunOK, Begun
<1>2. CASE EndOfSource
  <2>1. stage = "parse" /\ pos = 0 /\ ops = <<>> /\ cols' = cols /\ pos' = pos /\ ops' = ops /\ 1 .. 0 = {}
    BY <1>2 DEF EndOfSource, BegunOK, parser, encoder
  <2>2. CASE Last \in DOMAIN cols /\ Cardinality(DOMAIN cols[Last]) = 1
    <3>1. stage' = "assemble"
      BY <1>2, <2>2 DEF EndOfSource
    <3>2. Last' = Last /\ Asm' = Asm
      BY <2>1 DEF Last, Asm
    <3>3. Len(Asm) \in Nat
      BY <2>2, AsmIs
    <3>4. QED
      BY <2>1, <2>2, <3>1, <3>2, <3>3 DEF BegunOK, Begun
  <2>3. CASE ~ (Last \in DOMAIN cols /\ Cardinality(DOMAIN cols[Last]) = 1)
    <3>1. stage' = "rejected"
      BY <1>2, <2>3 DEF EndOfSource
    <3>2. QED
      BY <3>1 DEF BegunOK, Begun
  <2>4. QED
    BY <2>2, <2>3
<1>3. CASE ExtendOperation \/ AssembleOperation
  <2>1. Assembling /\ stage = "assemble" /\ stage' = stage /\ cols' = cols /\ pos' = pos + 1 /\ pos \in Nat
    BY <1>3 DEF ExtendOperation, AssembleOperation, Assembling, parser, AsmTypeOK
  <2>2. Last' = Last /\ Asm' = Asm
    BY <2>1 DEF Last, Asm
  <2>3. Line.name \in Mnemonics \cup {"blockwrite_word"}
    BY <1>3 DEF ExtendOperation, Extends, AssembleOperation, Assembles
  <2>4. pos + 1 \in 1 .. Len(Asm) /\ Line = Asm[pos + 1] /\ Len(Asm) \in Nat
    BY <2>1, LineIs
  <2>5. /\ Last \in DOMAIN cols /\ Cardinality(DOMAIN cols[Last]) = 1
        /\ \A k \in 1 .. pos : Asm[k].name \in Mnemonics \cup {"blockwrite_word"}
    BY <2>1 DEF BegunOK, Begun
  <2>6. \A k \in 1 .. pos + 1 : Asm[k].name \in Mnemonics \cup {"blockwrite_word"}
    <3>1. \A k \in 1 .. pos + 1 : k \in 1 .. pos \/ k = pos + 1
      BY <2>1
    <3>2. QED
      BY <2>3, <2>4, <2>5, <3>1
  <2>7. QED
    BY <2>1, <2>2, <2>4, <2>5, <2>6 DEF BegunOK, Begun
<1>4. CASE Encode
  <2>1. stage = "assemble" /\ pos = Len(Asm) /\ cols' = cols /\ pos' = pos /\ stage' \in {"count", "done"}
    BY <1>4 DEF Encode, parser, encoder
  <2>2. Last' = Last /\ Asm' = Asm
    BY <2>1 DEF Last, Asm
  <2>3. QED
    BY <2>1, <2>2 DEF BegunOK, Begun
<1>5. CASE RejectExtension \/ RejectOperation \/ ReadBeyondOperands \/ StartPrint \/ RejectUnknown
  <2>1. stage' \in {"rejected", "undefined", "print", "unknown"}
    BY <1>5 DEF RejectExtension, RejectOperation, RejectLine, ReadBeyondOperands, StartPrint, RejectUnknown
  <2>2. QED
    BY <2>1 DEF BegunOK, Begun
<1>6. CASE CountOperation \/ PrintOperation \/ Ended \/ UNCHANGED vars
  <2>1. stage' = stage /\ source' = source /\ cols' = cols /\ pos' = pos /\ ops' = ops
    BY <1>6 DEF CountOperation, PrintOperation, Ended, vars, parser, encoder
  <2>2. Last' = Last /\ Asm' = Asm
    BY <2>1 DEF Last, Asm
  <2>3. QED
    BY <2>1, <2>2 DEF BegunOK, Begun
<1>7. CASE Reassemble
  BY <1>7 DEF Reassemble, BegunOK, Begun
<1>8. QED
  BY <1>1, <1>2, <1>3, <1>4, <1>5, <1>6, <1>7 DEF Next

LEMMA TypeNext ==
  ASSUME AsmTypeOK, ColsOK, BegunOK, WalkOK, [Next]_vars
  PROVE  AsmTypeOK'
<1>1. ASSUME NEW line \in NextLine, ParseOperation(line) \/ AttachToGroup(line) \/ ParseLabel(line)
      PROVE  AsmTypeOK'
  <2>1. /\ stage' = stage /\ pass' = pass /\ source' = Append(source, line) /\ text' = text
        /\ label' \in {label, label + 1} /\ pos' = pos /\ num' = num /\ ops' = ops
    BY <1>1 DEF ParseOperation, AttachToGroup, ParseLabel, Read, encoder, analyzer
  <2>2. line \in LineSet /\ source \in Seq(LineSet)
    BY NextLineOK DEF AsmTypeOK
  <2>3. Append(source, line) \in Seq(LineSet)
    BY <2>2
  <2>4. label' \in Nat
    BY <2>1 DEF AsmTypeOK
  <2>5. QED
    BY <2>1, <2>3, <2>4 DEF AsmTypeOK
<1>2. CASE ExtendOperation
  <2> DEFINE n == Len(ops)
             op == ops[n]
             ext == Extension(op, Line.args[1][2])
  <2>1. /\ Outstanding > 0 /\ Assembling /\ ops' = [ops EXCEPT ![n] = ext] /\ pos' = pos + 1
        /\ Extends(Line, op)
        /\ UNCHANGED <<stage, pass, source, label, text, num>>
    BY <1>2 DEF ExtendOperation, Extension, parser, analyzer
  <2>2. pos \in Nat /\ ops \in Seq(OpRecord) /\ \A k \in 1 .. Len(ops) : OpOK(ops[k])
    BY DEF AsmTypeOK
  <2>4. Line.args[1][2] \in Nat /\ Line.args[1][2] < Capacity[WordBytes]
    <3> HIDE DEF op
    <3>1. QED
      BY <2>1, <2>2, WordIs
  <2>5. n \in 1 .. n /\ n \in Nat /\ op \in OpRecord /\ OpOK(op) /\ op.outstanding > 0
    BY <2>1, LastOpIs
  <2>6. ext \in OpRecord /\ OpOK(ext)
    <3> DEFINE v == Line.args[1][2]
    <3> HIDE DEF op, v, n
    <3>1. v \in Nat /\ v < Capacity[WordBytes]
      BY <2>4 DEF v
    <3>2. Extended(op, v, Extension(op, v))
      BY <2>5, <3>1, ExtensionLaidOut
    <3>3. QED
      BY <3>2 DEF Extended, v
  <2> HIDE DEF ext, op, n
  <2>7. ops' \in Seq(OpRecord) /\ Len(ops') = Len(ops)
    BY <2>1, <2>2, <2>5, <2>6, ExceptSeq DEF n
  <2>8. \A k \in 1 .. Len(ops') : OpOK(ops'[k])
    BY <2>1, <2>2, <2>6, <2>7
  <2>9. QED
    BY <2>1, <2>2, <2>7, <2>8 DEF AsmTypeOK
<1>3. CASE AssembleOperation
  <2> DEFINE new == Operation(Line)
  <2>1. /\ Assembling /\ ops' = Append(ops, new) /\ pos' = pos + 1 /\ Assembles(Line)
        /\ UNCHANGED <<stage, pass, source, label, text, num>>
    BY <1>3 DEF AssembleOperation, parser, analyzer
  <2>2. pos \in Nat /\ ops \in Seq(OpRecord) /\ \A k \in 1 .. Len(ops) : OpOK(ops[k])
    BY DEF AsmTypeOK
  <2>3. Line \in LineSet
    BY <2>1, <2>2, LineIs
  <2>4. new \in OpRecord /\ OpOK(new)
    BY <2>1, <2>3, OperationLaidOut
  <2> HIDE DEF new
  <2>5. ops' \in Seq(OpRecord) /\ \A k \in 1 .. Len(ops') : OpOK(ops'[k])
    BY <2>1, <2>2, <2>4
  <2>6. QED
    BY <2>1, <2>2, <2>5 DEF AsmTypeOK
<1>4. CASE EndOfSource \/ RejectExtension \/ RejectOperation \/ ReadBeyondOperands \/ RejectUnknown
  <2>1. /\ stage' \in {"assemble", "rejected", "undefined", "unknown"}
        /\ UNCHANGED <<pass, source, label, pos, ops, num, text>>
    BY <1>4 DEF EndOfSource, RejectExtension, RejectOperation, RejectLine, ReadBeyondOperands, RejectUnknown,
                parser, encoder, analyzer
  <2>2. QED
    BY <2>1 DEF AsmTypeOK
<1>5. CASE Encode
  <2>1. stage' \in {"count", "done"} /\ (stage' = "count" => pass = 1)
        /\ UNCHANGED <<pass, source, label, pos, ops, num, text>>
    BY <1>5 DEF Encode, parser, encoder, analyzer
  <2>2. QED
    BY <2>1 DEF AsmTypeOK
<1>6. CASE CountOperation
  <2>1. num' = num + 1 /\ UNCHANGED <<stage, pass, source, label, pos, ops, text>>
    BY <1>6 DEF CountOperation, StepOver, parser, encoder
  <2>2. QED
    BY <2>1 DEF AsmTypeOK
<1>7. CASE StartPrint
  <2>1. /\ stage' = "print" /\ stage = "count" /\ num' = 0 /\ text' = AttachLines(txn.cols)
        /\ UNCHANGED <<pass, source, label, pos, ops>>
    BY <1>7 DEF StartPrint, parser, encoder
  <2>2. txn.cols \in Nat
    BY <2>1 DEF WalkOK, WellFormed
  <2>3. QED
    BY <2>1, <2>2, AttachLinesOK DEF AsmTypeOK
<1>8. CASE PrintOperation
  <2>1. /\ stage = "print" /\ num' = num + 1 /\ text' = text \o Printed(Current) /\ AtPtr # {}
        /\ Current.op \in Analyzed
        /\ UNCHANGED <<stage, pass, source, label, pos, ops>>
    BY <1>8 DEF PrintOperation, Walking, StepOver, parser, encoder
  <2>2. \A k \in DOMAIN txn.ops : LaidOut(txn.version, txn.ops[k])
    BY <2>1 DEF WalkOK, WellFormed
  <2>3. LaidOut(txn.version, Current)
    BY <2>1, <2>2 DEF Current, AtPtr
  <2>4. Printed(Current) \in Seq(LineSet) /\ text \in Seq(LineSet) /\ num \in Nat
    BY <2>1, <2>3, PrintedLines DEF AsmTypeOK
  <2>5. text' \in Seq(LineSet)
    BY <2>1, <2>4, ConcatProperties
  <2>6. QED
    BY <2>1, <2>4, <2>5 DEF AsmTypeOK
<1>9. CASE Reassemble
  <2>1. /\ stage' = "parse" /\ pass' = 2 /\ source' = <<>> /\ label' = 0 /\ pos' = 0 /\ ops' = <<>>
        /\ num' = num /\ text' = text
    BY <1>9 DEF Reassemble, analyzer
  <2>2. source' \in Seq(LineSet) /\ ops' \in Seq(OpRecord) /\ 1 .. Len(ops') = {}
    BY <2>1, EmptySeq
  <2>3. QED
    BY <2>1, <2>2 DEF AsmTypeOK
<1>10. CASE Ended \/ UNCHANGED vars
  BY <1>10 DEF Ended, vars, parser, encoder, analyzer, AsmTypeOK
<1>11. QED
  BY <1>1, <1>2, <1>3, <1>4, <1>5, <1>6, <1>7, <1>8, <1>9, <1>10 DEF Next

-------------------------------------------------------------------------------
(* The walk of the analyzer.                                               *)
LEMMA WellFormedMeasured ==
  ASSUME NEW t, WellFormed(t)
  PROVE  Measured(t.ops) /\ t.count = Len(t.ops) /\ t.count \in Nat
<1>1. t.count = Len(t.ops) /\ t.count \in Nat /\ DOMAIN t.ops = 1 .. Len(t.ops)
  BY DEF WellFormed
<1>2. \A k \in DOMAIN t.ops : t.ops[k].bytes \in Nat \ {0}
  BY DEF WellFormed, LaidOut
<1>3. QED
  BY <1>1, <1>2 DEF Measured

(* It steps over an operation by the length it has.                        *)
LEMMA StepIsLength ==
  ASSUME WellFormed(txn), NEW op, LaidOut(txn.version, op), op.op \in Analyzed
  PROVE  StepOf(op) = op.bytes
<1>1. CASE \/ op.op = "blockwrite" \/ op.op \in CustomOps
           \/ txn.version = "0.1" /\ op.op \in {"write", "maskwrite", "maskpoll", "maskpoll_busy"}
  <2>1. Sized(txn.version, op.op)
    BY <1>1 DEF Sized
  <2>2. QED
    BY <1>1, <2>1 DEF LaidOut, StepOf
<1>2. CASE ~ (\/ op.op = "blockwrite" \/ op.op \in CustomOps
              \/ txn.version = "0.1" /\ op.op \in {"write", "maskwrite", "maskpoll", "maskpoll_busy"})
  <2>1. StepOf(op) = BaseSize[<<txn.version, op.op>>]
    BY <1>2 DEF StepOf
  <2>2. op.bytes = BaseSize[<<txn.version, op.op>>] + Len(op.words) /\ Len(op.words) = 0
    BY <1>2 DEF LaidOut
  <2>3. BaseSize[<<txn.version, op.op>>] \in Nat
    BY SizesAssumption DEF WellFormed
  <2>4. QED
    BY <2>1, <2>2, <2>3
<1>3. QED
  BY <1>1, <1>2

LEMMA WalkStands ==
  ASSUME WellFormed(txn), num \in Nat, num < txn.count, ptr = Total(txn.ops)[num]
  PROVE  /\ AtPtr = {num + 1} /\ Current = txn.ops[num + 1] /\ num + 1 \in DOMAIN txn.ops
         /\ num + 1 \in 1 .. txn.count
         /\ LaidOut(txn.version, Current)
         /\ Current.op \in Analyzed => ptr + StepOf(Current) = Total(txn.ops)[num + 1]
<1> DEFINE t == Total(txn.ops)
<1>1. /\ Measured(txn.ops) /\ txn.count = Len(txn.ops) /\ txn.count \in Nat
      /\ DOMAIN txn.ops = 1 .. txn.count
  BY WellFormedMeasured DEF WellFormed
<1>2. num \in 0 .. txn.count - 1 /\ num + 1 \in 1 .. txn.count
  BY <1>1
<1>3. ASSUME NEW k \in 1 .. txn.count, k # num + 1
      PROVE  t[k - 1] # t[num]
  <2>1. k - 1 \in 0 .. Len(txn.ops) /\ num \in 0 .. Len(txn.ops) /\ (k - 1 < num \/ num < k - 1)
    BY <1>1, <1>2, <1>3
  <2>2. t[k - 1] \in Nat /\ t[num] \in Nat
    BY <1>1, <2>1, Totals
  <2>3. ASSUME NEW i \in 0 .. Len(txn.ops), NEW j \in 0 .. Len(txn.ops), i < j
        PROVE  t[i] < t[j]
    BY <1>1, <2>3, TotalsGrow
  <2> HIDE DEF t
  <2>4. t[k - 1] < t[num] \/ t[num] < t[k - 1]
    BY <2>1, <2>3
  <2>5. QED
    BY <2>2, <2>4
<1>4. AtPtr = {num + 1}
  <2>1. \A k : Offset(k) = t[k - 1]
    BY DEF Offset
  <2>2. AtPtr = {k \in 1 .. txn.count : t[k - 1] = t[num]}
    BY <1>1, <2>1 DEF AtPtr
  <2>3. (num + 1) - 1 = num
    BY <1>2
  <2> HIDE DEF t
  <2>4. QED
    BY <1>2, <1>3, <2>2, <2>3
<1>5. Current = txn.ops[num + 1]
  BY <1>4 DEF Current
<1>6. LaidOut(txn.version, Current)
  BY <1>1, <1>2, <1>5 DEF WellFormed
<1>7. ASSUME Current.op \in Analyzed PROVE ptr + StepOf(Current) = t[num + 1]
  <2>1. StepOf(Current) = Current.bytes
    BY <1>6, <1>7, StepIsLength
  <2>2. t[num + 1] = t[num] + txn.ops[num + 1].bytes
    <3>1. \A k \in 1 .. Len(txn.ops) : t[k] = t[k - 1] + txn.ops[k].bytes
      BY <1>1, Totals
    <3>2. num + 1 \in 1 .. Len(txn.ops) /\ (num + 1) - 1 = num
      BY <1>1, <1>2
    <3> HIDE DEF t
    <3>3. QED
      BY <3>1, <3>2
  <2>3. QED
    BY <1>5, <2>1, <2>2
<1>8. QED
  BY <1>1, <1>2, <1>4, <1>5, <1>6, <1>7

(* What the encoder writes is laid out as the walk expects.                *)
LEMMA EncodedWellFormed ==
  ASSUME AsmTypeOK, ColsOK, Encode
  PROVE  WellFormed(txn') /\ txn'.ops = Body(ops) /\ txn'.count = Len(ops)
<1> DEFINE body == Body(ops)
           n == Len(ops)
<1>1. ops \in Seq(OpRecord) /\ n \in Nat /\ DOMAIN ops = 1 .. n
  BY DEF AsmTypeOK
<1>2. body = [k \in 1 .. n |-> [op |-> ops[k].op, fields |-> ops[k].fields, bytes |-> ops[k].bytes,
                                size |-> ops[k].size, words |-> ops[k].words]]
  BY <1>1 DEF Body
<1>3. DOMAIN body = 1 .. n /\ Len(body) = n
  <2> HIDE DEF n, body
  <2>1. QED
    BY <1>1, <1>2
<1>4. ASSUME NEW k \in 1 .. n
      PROVE  LaidOut("0.1", ops[k]) /\ LaidOut("0.1", body[k]) /\ body[k].bytes = ops[k].bytes
             /\ ops[k].bytes \in Nat \ {0}
  <2>1. LaidOut("0.1", ops[k])
    BY DEF AsmTypeOK, OpOK
  <2>2. /\ body[k].op = ops[k].op /\ body[k].fields = ops[k].fields /\ body[k].bytes = ops[k].bytes
        /\ body[k].size = ops[k].size /\ body[k].words = ops[k].words
    <3> HIDE DEF n, body
    <3>1. QED
      BY <1>2
  <2> HIDE DEF body
  <2>3. LaidOut("0.1", body[k])
    BY <2>1, <2>2 DEF LaidOut
  <2>4. QED
    BY <2>1, <2>2, <2>3 DEF LaidOut
<1>5. Measured(ops) /\ Measured(body)
  <2> HIDE DEF body
  <2>1. QED
    BY <1>1, <1>3, <1>4 DEF Measured
<1>6. Total(ops)[n] = Total(body)[Len(body)]
  <2>1. \A k \in 0 .. Len(ops) : Total(ops)[k] = Total(body)[k]
    <3> HIDE DEF body
    <3>1. QED
      BY <1>3, <1>4, <1>5, SameTotals
  <2>2. n \in 0 .. Len(ops)
    BY <1>1
  <2> HIDE DEF body
  <2>3. QED
    BY <1>3, <2>1, <2>2
<1>7. Cardinality(DOMAIN cols) \in Nat
  BY FS_CardinalityType DEF ColsOK
<1>8. txn' = [version |-> "0.1", cols |-> Cardinality(DOMAIN cols), size |-> Total(ops)[n],
              ops |-> body, count |-> n]
  BY DEF Encode
<1> HIDE DEF body, n
<1>9. /\ txn'.version = "0.1" /\ txn'.cols = Cardinality(DOMAIN cols) /\ txn'.size = Total(ops)[n]
      /\ txn'.ops = body /\ txn'.count = n
  BY <1>8
<1>10. WellFormed(txn')
  BY <1>1, <1>3, <1>4, <1>6, <1>7, <1>9 DEF WellFormed
<1>11. QED
  BY <1>9, <1>10 DEF body, n

(* Of one operation more, one more is counted.                             *)
LEMMA WalkedMore ==
  ASSUME NEW t, NEW n \in Nat, NEW op
  PROVE  /\ IsFiniteSet(Walked(t, op, n))
         /\ Cardinality(Walked(t, op, n + 1)) =
              IF t.ops[n + 1].op = op THEN Cardinality(Walked(t, op, n)) + 1 ELSE Cardinality(Walked(t, op, n))
<1>1. IsFiniteSet(Walked(t, op, n))
  <2>1. IsFiniteSet(1 .. n) /\ Walked(t, op, n) \subseteq 1 .. n
    BY FS_Interval DEF Walked
  <2>2. QED
    BY <2>1, FS_Subset
<1>2. CASE t.ops[n + 1].op = op
  <2>1. Walked(t, op, n + 1) = Walked(t, op, n) \cup {n + 1} /\ n + 1 \notin Walked(t, op, n)
    BY <1>2 DEF Walked
  <2>2. QED
    BY <1>1, <1>2, <2>1, FS_AddElement
<1>3. CASE t.ops[n + 1].op # op
  <2>1. Walked(t, op, n + 1) = Walked(t, op, n)
    BY <1>3 DEF Walked
  <2>2. QED
    BY <1>3, <2>1, <1>1
<1>4. QED
  BY <1>1, <1>2, <1>3

LEMMA WalkNext ==
  ASSUME AsmTypeOK, ColsOK, WalkOK, [Next]_vars
  PROVE  WalkOK'
<1>1. ASSUME stage' = "parse", stage = "parse", pass' = pass, num' = num, counts' = counts, text' = text
      PROVE  WalkOK'
  BY <1>1 DEF WalkOK
<1>2. ASSUME stage' \in {"rejected", "undefined", "unknown", "done"}
      PROVE  WalkOK'
  BY <1>2 DEF WalkOK
<1>3. ASSUME NEW line \in NextLine, ParseOperation(line) \/ AttachToGroup(line) \/ ParseLabel(line)
      PROVE  WalkOK'
  BY <1>1, <1>3 DEF ParseOperation, AttachToGroup, ParseLabel, Read, analyzer
<1>4. CASE EndOfSource \/ ExtendOperation \/ AssembleOperation
  <2>1. /\ stage \in {"parse", "assemble"} /\ stage' \in {"assemble", "rejected"} /\ pass' = pass
        /\ num' = num /\ counts' = counts /\ text' = text
    BY <1>4 DEF EndOfSource, ExtendOperation, AssembleOperation, Assembling, parser, encoder, analyzer
  <2>2. QED
    BY <2>1 DEF WalkOK
<1>5. CASE RejectExtension \/ RejectOperation \/ ReadBeyondOperands \/ RejectUnknown
  <2>1. stage' \in {"rejected", "undefined", "unknown"}
    BY <1>5 DEF RejectExtension, RejectOperation, RejectLine, ReadBeyondOperands, RejectUnknown
  <2>2. QED
    BY <1>2, <2>1
<1>6. CASE Encode
  <2>1. CASE pass = 2
    <3>1. stage' = "done"
      BY <1>6, <2>1 DEF Encode
    <3>2. QED
      BY <1>2, <3>1
  <2>2. CASE pass = 1
    <3>1. /\ stage' = "count" /\ num' = num /\ counts' = counts /\ ptr' = HeaderSize /\ stage = "assemble"
      BY <1>6, <2>2 DEF Encode
    <3>2. num = 0 /\ counts = [op \in Analyzed |-> 0]
      BY <2>2, <3>1 DEF WalkOK
    <3>3. WellFormed(txn')
      BY <1>6, EncodedWellFormed
    <3>4. Measured(txn'.ops) /\ txn'.count \in Nat
      BY <3>3, WellFormedMeasured
    <3>5. Total(txn'.ops)[0] = HeaderSize
      BY <3>4, Totals
    <3>6. \A op \in Analyzed : Walked(txn', op, 0) = {}
      BY DEF Walked
    <3>7. \A op \in Analyzed : counts'[op] = Cardinality(Walked(txn', op, 0))
      BY <3>1, <3>2, <3>6, FS_EmptySet
    <3>8. counts' \in [Analyzed -> Nat]
      BY <3>1, <3>2
    <3>9. QED
      BY <3>1, <3>2, <3>3, <3>4, <3>5, <3>7, <3>8 DEF WalkOK
  <2>3. QED
    BY <2>1, <2>2 DEF AsmTypeOK
<1>7. ASSUME stage \in {"count", "print"}
      PROVE  /\ WellFormed(txn) /\ num \in Nat /\ num <= txn.count /\ ptr = Total(txn.ops)[num]
             /\ Measured(txn.ops) /\ txn.count \in Nat /\ pass = 1
  BY <1>7, WellFormedMeasured DEF WalkOK, AsmTypeOK
<1>8. CASE CountOperation
  <2>1. /\ stage = "count" /\ stage' = "count" /\ num < txn.count /\ Current.op \in Analyzed
        /\ counts' = [counts EXCEPT ![Current.op] = @ + 1] /\ txn' = txn /\ pass' = pass
        /\ ptr' = ptr + StepOf(Current) /\ num' = num + 1
    BY <1>8 DEF CountOperation, Walking, StepOver
  <2>2. /\ Current = txn.ops[num + 1] /\ num + 1 \in 1 .. txn.count
        /\ ptr + StepOf(Current) = Total(txn.ops)[num + 1]
    BY <1>7, <2>1, WalkStands
  <2>3. counts \in [Analyzed -> Nat] /\ \A op \in Analyzed : counts[op] = Cardinality(Walked(txn, op, num))
    BY <2>1 DEF WalkOK
  <2>4. ASSUME NEW op \in Analyzed
        PROVE  counts'[op] = Cardinality(Walked(txn, op, num + 1))
    <3>1. num \in Nat
      BY <1>7, <2>1
    <3>2. Cardinality(Walked(txn, op, num + 1)) =
            IF txn.ops[num + 1].op = op THEN Cardinality(Walked(txn, op, num)) + 1 ELSE Cardinality(Walked(txn, op, num))
      BY <3>1, WalkedMore
    <3>3. counts'[op] = IF Current.op = op THEN counts[op] + 1 ELSE counts[op]
      BY <2>1, <2>3
    <3>4. QED
      BY <2>2, <2>3, <3>2, <3>3
  <2>5. counts' \in [Analyzed -> Nat]
    BY <2>1, <2>3
  <2>6. QED
    BY <1>7, <2>1, <2>2, <2>4, <2>5 DEF WalkOK
<1>9. CASE StartPrint
  <2>1. /\ stage = "count" /\ stage' = "print" /\ num = txn.count /\ txn' = txn /\ counts' = counts
        /\ ptr' = HeaderSize /\ num' = 0
    BY <1>9 DEF StartPrint
  <2>2. Total(txn.ops)[0] = HeaderSize
    BY <1>7, <2>1, Totals
  <2>3. counts \in [Analyzed -> Nat] /\ \A op \in Analyzed : counts[op] = Cardinality(Walked(txn, op, txn.count))
    BY <2>1 DEF WalkOK
  <2>4. QED
    BY <1>7, <2>1, <2>2, <2>3 DEF WalkOK
<1>10. CASE PrintOperation
  <2>1. /\ stage = "print" /\ stage' = "print" /\ num < txn.count /\ Current.op \in Analyzed
        /\ counts' = counts /\ txn' = txn
        /\ ptr' = ptr + StepOf(Current) /\ num' = num + 1
    BY <1>10 DEF PrintOperation, Walking, StepOver
  <2>2. /\ num + 1 \in 1 .. txn.count
        /\ ptr + StepOf(Current) = Total(txn.ops)[num + 1]
    BY <1>7, <2>1, WalkStands
  <2>3. counts \in [Analyzed -> Nat] /\ \A op \in Analyzed : counts[op] = Cardinality(Walked(txn, op, txn.count))
    BY <2>1 DEF WalkOK
  <2>4. QED
    BY <1>7, <2>1, <2>2, <2>3 DEF WalkOK
<1>11. CASE Reassemble
  <2>1. stage' = "parse" /\ pass' = 2
    BY <1>11 DEF Reassemble
  <2>2. QED
    BY <2>1 DEF WalkOK
<1>12. CASE Ended \/ UNCHANGED vars
  <2>1. /\ stage' = stage /\ pass' = pass /\ txn' = txn
        /\ num' = num /\ ptr' = ptr /\ counts' = counts /\ text' = text
    BY <1>12 DEF Ended, vars, analyzer
  <2>2. QED
    BY <2>1 DEF WalkOK
<1>13. QED
  BY <1>3, <1>4, <1>5, <1>6, <1>8, <1>9, <1>10, <1>11, <1>12 DEF Next

LEMMA AsmInit ==
  ASSUME Init
  PROVE  AsmInv
<1>1. /\ stage \in {"parse", "count"} /\ pass = 1 /\ source = <<>> /\ col = -1 /\ label = 0 /\ cols = <<>>
      /\ pos = 0 /\ ops = <<>> /\ ptr = HeaderSize /\ num = 0 /\ text = <<>>
      /\ counts = [op \in Analyzed |-> 0]
  BY DEF Init
<1>2. AsmTypeOK
  <2>1. source \in Seq(LineSet) /\ text \in Seq(LineSet) /\ ops \in Seq(OpRecord) /\ 1 .. Len(ops) = {}
    BY <1>1, EmptySeq
  <2>2. QED
    BY <1>1, <2>1 DEF AsmTypeOK
<1>3. ColsOK
  <2>1. DOMAIN cols = {}
    BY <1>1
  <2>2. QED
    BY <1>1, <2>1, FS_EmptySet DEF ColsOK
<1>4. BegunOK
  BY <1>1 DEF BegunOK, Begun
<1>5. WalkOK
  <2>1. CASE stage = "parse"
    BY <1>1, <2>1 DEF WalkOK
  <2>2. CASE stage = "count"
    <3>1. txn \in Transactions
      BY <2>2 DEF Init
    <3>2. WellFormed(txn)
      BY <3>1, TransactionsAssumption
    <3>3. Measured(txn.ops) /\ txn.count \in Nat
      BY <3>2, WellFormedMeasured
    <3>4. Total(txn.ops)[0] = HeaderSize
      BY <3>3, Totals
    <3>5. \A op \in Analyzed : Walked(txn, op, 0) = {}
      BY DEF Walked
    <3>6. counts \in [Analyzed -> Nat] /\ \A op \in Analyzed : counts[op] = Cardinality(Walked(txn, op, 0))
      BY <1>1, <3>5, FS_EmptySet
    <3>7. QED
      BY <1>1, <2>2, <3>2, <3>3, <3>4, <3>6 DEF WalkOK
  <2>3. QED
    BY <1>1, <2>1, <2>2
<1>6. QED
  BY <1>2, <1>3, <1>4, <1>5 DEF AsmInv

(* What the parser, the encoder and the analyzer hold agrees at every      *)
(* step.                                                                   *)
THEOREM AsmInvariant == Spec => []AsmInv
<1>1. Init => AsmInv
  BY AsmInit
<1>2. AsmInv /\ [Next]_vars => AsmInv'
  BY TypeNext, ColsNext, BegunNext, WalkNext DEF AsmInv
<1>3. QED
  BY <1>1, <1>2, PTL DEF Spec

(* A source that was in another column than the last at its end is         *)
(* rejected: the eof of a column that is left is no operation, and the     *)
(* encoder meets it.                                                       *)
THEOREM LastColumn == Spec => []LastColumnEncoded
<1>1. ASSUME AsmInv PROVE LastColumnEncoded
  <2>1. SUFFICES ASSUME stage = "count", source # <<>>, col # Last PROVE FALSE
    BY DEF LastColumnEncoded
  <2>2. /\ Last \in DOMAIN cols /\ Cardinality(DOMAIN cols[Last]) = 1 /\ pos = Len(Asm)
        /\ \A k \in 1 .. pos : Asm[k].name \in Mnemonics \cup {"blockwrite_word"}
    BY <1>1, <2>1 DEF AsmInv, BegunOK, Begun
  <2>3. Asm \in Seq(LineSet) /\ Len(Asm) \in Nat /\ Asm # <<>> /\ Asm[Len(Asm)] = Eof
    BY <1>1, <2>1, <2>2, AsmIs DEF AsmInv
  <2>4. Len(Asm) \in 1 .. Len(Asm)
    BY <2>3, EmptySeq, LenProperties
  <2>5. Eof.name = "eof" /\ "eof" \notin Mnemonics \cup {"blockwrite_word"}
    BY DEF Eof, Mnemonics, Operands
  <2>6. QED
    BY <2>2, <2>3, <2>4, <2>5
<1>2. QED
  BY <1>1, AsmInvariant, PTL

(* The walks step over every operation, never read where there is none and *)
(* end at the transaction's size; the counts are those of the operations.  *)
THEOREM WalksEnd == Spec => []WalkEndsAtSize
<1>1. ASSUME AsmInv PROVE WalkEndsAtSize
  <2>1. ASSUME stage \in {"count", "print"}
        PROVE  IF num = txn.count THEN ptr = txn.size ELSE AtPtr # {}
    <3>1. /\ WellFormed(txn) /\ num \in Nat /\ num <= txn.count /\ ptr = Total(txn.ops)[num]
      BY <1>1, <2>1 DEF AsmInv, WalkOK, AsmTypeOK
    <3>2. txn.size = Total(txn.ops)[txn.count] /\ txn.count \in Nat
      BY <3>1 DEF WellFormed
    <3>3. num < txn.count => AtPtr # {}
      BY <3>1, WalkStands
    <3>4. QED
      BY <3>1, <3>2, <3>3
  <2>2. ASSUME stage = "print", NEW op \in Analyzed
        PROVE  counts[op] = Cardinality({k \in DOMAIN txn.ops : txn.ops[k].op = op})
    <3>1. counts[op] = Cardinality(Walked(txn, op, txn.count)) /\ WellFormed(txn)
      BY <1>1, <2>2 DEF AsmInv, WalkOK
    <3>2. DOMAIN txn.ops = 1 .. txn.count
      BY <3>1 DEF WellFormed
    <3>3. QED
      BY <3>1, <3>2 DEF Walked
  <2>3. QED
    BY <2>1, <2>2 DEF WalkEndsAtSize
<1>2. QED
  BY <1>1, AsmInvariant, PTL

-------------------------------------------------------------------------------
(* What operations say: a line, and a line for each of their words.        *)
Sentences == (Mnemonics \X Seq(Nat)) \cup ({"word"} \X Nat \X Nat)
Speaks(op) == op.op \in Mnemonics /\ op.fields \in Seq(Nat) /\ op.words \in Seq(Nat)
Speaking(list) == Len(list) \in Nat /\ \A k \in 1 .. Len(list) : Speaks(list[k])

UpTo(list) ==
  CHOOSE f : f = [k \in 0 .. Len(list) |-> IF k = 0 THEN <<>> ELSE f[k - 1] \o Says(list[k])]

LEMMA SaysIs ==
  ASSUME NEW op, Speaks(op)
  PROVE  /\ Says(op) \in Seq(Sentences) /\ Len(Says(op)) = 1 + Len(op.words)
         /\ Says(op)[1] = <<op.op, op.fields>>
         /\ \A k \in 1 .. Len(op.words) : Says(op)[1 + k] = <<"word", k - 1, op.words[k]>>
<1> DEFINE n == Len(op.words)
           first == <<op.op, op.fields>>
           words == [k \in DOMAIN op.words |-> <<"word", k - 1, op.words[k]>>]
<1>1. n \in Nat /\ DOMAIN op.words = 1 .. n /\ \A k \in 1 .. n : op.words[k] \in Nat
  BY DEF Speaks
<1>2. first \in Sentences
  BY DEF Speaks, Sentences
<1>3. <<first>> \in Seq(Sentences) /\ Len(<<first>>) = 1 /\ <<first>>[1] = first
  <2> HIDE DEF first
  <2>1. QED
    BY <1>2, Tuples
<1>4. words = [k \in 1 .. n |-> <<"word", k - 1, op.words[k]>>]
  BY <1>1
<1>5. ASSUME NEW k \in 1 .. n PROVE <<"word", k - 1, op.words[k]>> \in Sentences
  BY <1>1 DEF Sentences
<1>6. words \in [1 .. n -> Sentences]
  <2> HIDE DEF words, n
  <2>1. QED
    BY <1>4, <1>5
<1>7. words \in Seq(Sentences) /\ Len(words) = n
  <2> HIDE DEF words, n
  <2>1. QED
    BY <1>1, <1>6, SeqDef, LenProperties
<1>8. Says(op) = <<first>> \o words
  BY DEF Says
<1>9. /\ Says(op) \in Seq(Sentences) /\ Len(Says(op)) = 1 + n
      /\ \A i \in 1 .. 1 + n : Says(op)[i] = IF i <= 1 THEN <<first>>[i] ELSE words[i - 1]
  <2> HIDE DEF first, words, n
  <2>1. QED
    BY <1>1, <1>3, <1>7, <1>8, ConcatProperties
<1>10. Says(op)[1] = first
  <2> HIDE DEF first, words, n
  <2>1. 1 \in 1 .. 1 + n
    BY <1>1
  <2>2. QED
    BY <1>3, <1>9, <2>1
<1>11. ASSUME NEW k \in 1 .. n PROVE Says(op)[1 + k] = <<"word", k - 1, op.words[k]>>
  <2>1. Says(op)[1 + k] = words[(1 + k) - 1] /\ (1 + k) - 1 = k
    <3> HIDE DEF words, n, first
    <3>1. QED
      BY <1>1, <1>9
  <2>2. words[k] = <<"word", k - 1, op.words[k]>>
    BY <1>4
  <2>3. QED
    BY <2>1, <2>2
<1>12. QED
  BY <1>9, <1>10, <1>11

LEMMA UpToIs ==
  ASSUME NEW list, Speaking(list)
  PROVE  /\ UpTo(list)[0] = <<>>
         /\ \A k \in 1 .. Len(list) : UpTo(list)[k] = UpTo(list)[k - 1] \o Says(list[k])
         /\ \A k \in 0 .. Len(list) : UpTo(list)[k] \in Seq(Sentences)
         /\ AllSaid(list) = UpTo(list)[Len(list)]
<1> DEFINE n == Len(list)
           S == Seq(Sentences)
           G == [p \in (1 .. n) \X S |-> p[2] \o Says(list[p[1]])]
           F(f) == [k \in 0 .. n |-> IF k = 0 THEN <<>> ELSE f[k - 1] \o Says(list[k])]
<1>1. n \in Nat /\ <<>> \in S
  BY EmptySeq DEF Speaking
<1>2. \A k \in 1 .. n : Says(list[k]) \in S
  BY SaysIs DEF Speaking
<1>3. G \in [(1 .. n) \X S -> S]
  <2>1. ASSUME NEW p \in (1 .. n) \X S PROVE p[2] \o Says(list[p[1]]) \in S
    BY <1>2, ConcatProperties
  <2> HIDE DEF S
  <2>2. QED
    BY <2>1
<1>4. PICK f \in [0 .. n -> S] : f[0] = <<>> /\ \A k \in 1 .. n : f[k] = G[<<k, f[k - 1]>>]
  <2> HIDE DEF n, G, S
  <2>1. Recursive(n, S, <<>>, G) # {}
    BY <1>1, <1>3, Recursion
  <2>2. QED
    BY <2>1 DEF Recursive
<1>5. \A k \in 1 .. n : f[k] = f[k - 1] \o Says(list[k])
  <2>1. TAKE k \in 1 .. n
  <2> HIDE DEF S
  <2>2. <<k, f[k - 1]>> \in (1 .. n) \X S
    BY <1>1, <1>4
  <2>3. QED
    BY <1>4, <2>2
<1>6. f = F(f)
  <2> HIDE DEF S
  <2>1. QED
    BY <1>1, <1>4, <1>5
<1>7. UpTo(list) = CHOOSE g : g = F(g)
  BY DEF UpTo
<1>8. UpTo(list) = F(UpTo(list))
  <2> HIDE DEF F
  <2>1. QED
    BY <1>6, <1>7
<1> DEFINE t == UpTo(list)
<1>9. /\ t[0] = <<>>
      /\ \A k \in 1 .. n : t[k] = t[k - 1] \o Says(list[k])
  <2> HIDE DEF t, n
  <2>1. t = [k \in 0 .. n |-> IF k = 0 THEN <<>> ELSE t[k - 1] \o Says(list[k])]
    BY <1>8 DEF t
  <2>2. 0 \in 0 .. n /\ \A k \in 1 .. n : k \in 0 .. n /\ k # 0
    BY <1>1
  <2>3. QED
    BY <2>1, <2>2, Zenon
<1>10. \A k \in 0 .. n : f[k] = t[k]
  <2> HIDE DEF t, n, S
  <2>1. \A k \in 1 .. n : f[k - 1] = t[k - 1] => f[k] = t[k]
    BY <1>5, <1>9
  <2>2. Alike(n, f, t)
    BY <1>4, <1>9, <2>1 DEF Alike
  <2>3. Agree(n, f, t)
    BY <1>1, <2>2, SameSteps
  <2>4. QED
    BY <2>3 DEF Agree
<1>11. AllSaid(list) = t[n]
  BY DEF AllSaid, UpTo
<1>12. QED
  BY <1>4, <1>9, <1>10, <1>11

(* An operation more says what it says behind the others.                  *)
LEMMA SaidAppended ==
  ASSUME NEW list, NEW more, NEW op, Speaking(list), Speaks(op),
         Len(more) = Len(list) + 1, more[Len(more)] = op,
         \A k \in 1 .. Len(list) : more[k] = list[k]
  PROVE  /\ AllSaid(more) = AllSaid(list) \o Says(op)
         /\ AllSaid(list) \in Seq(Sentences) /\ AllSaid(more) \in Seq(Sentences) /\ Speaking(more)
<1> DEFINE n == Len(list)
           f == UpTo(list)
           g == UpTo(more)
<1>1. n \in Nat /\ Len(more) = n + 1 /\ more[n + 1] = op /\ \A k \in 1 .. n : more[k] = list[k]
  BY DEF Speaking
<1>2. Speaking(more)
  <2>1. \A k \in 1 .. n + 1 : k \in 1 .. n \/ k = n + 1
    BY <1>1
  <2>2. QED
    BY <1>1, <2>1 DEF Speaking
<1>3. /\ f[0] = <<>> /\ AllSaid(list) = f[n] /\ \A k \in 0 .. n : f[k] \in Seq(Sentences)
      /\ \A k \in 1 .. n : f[k] = f[k - 1] \o Says(list[k])
  BY UpToIs
<1>4. /\ g[0] = <<>> /\ AllSaid(more) = g[n + 1] /\ \A k \in 0 .. n + 1 : g[k] \in Seq(Sentences)
      /\ \A k \in 1 .. n + 1 : g[k] = g[k - 1] \o Says(more[k])
  <2>1. Len(more) = n + 1
    BY <1>1
  <2>2. QED
    BY <1>2, <2>1, UpToIs
<1> HIDE DEF f, g, n
<1>5. Alike(n, f, g)
  <2>1. ASSUME NEW k \in 1 .. n, f[k - 1] = g[k - 1] PROVE f[k] = g[k]
    <3>1. k \in 1 .. n + 1 /\ more[k] = list[k]
      BY <1>1
    <3>2. g[k] = g[k - 1] \o Says(more[k]) /\ f[k] = f[k - 1] \o Says(list[k])
      BY <1>3, <1>4, <3>1
    <3>3. QED
      BY <2>1, <3>1, <3>2
  <2>2. QED
    BY <1>3, <1>4, <2>1 DEF Alike
<1>6. f[n] = g[n]
  <2>1. Agree(n, f, g)
    BY <1>1, <1>5, SameSteps
  <2>2. QED
    BY <1>1, <2>1 DEF Agree
<1>7. g[n + 1] = g[n] \o Says(op)
  <2>1. n + 1 \in 1 .. n + 1 /\ (n + 1) - 1 = n
    BY <1>1
  <2>2. QED
    BY <1>1, <1>4, <2>1
<1>8. n \in 0 .. n /\ n + 1 \in 0 .. n + 1
  BY <1>1
<1>9. QED
  BY <1>2, <1>3, <1>4, <1>6, <1>7, <1>8

LEMMA SaidOfNone == AllSaid(<<>>) = <<>>
<1>1. Speaking(<<>>) /\ Len(<<>>) = 0
  BY DEF Speaking
<1>2. QED
  BY <1>1, UpToIs

(* Lists of which each operation says the same say the same.               *)
LEMMA SameSaid ==
  ASSUME NEW one, NEW two, Speaking(one), Speaking(two), Len(one) = Len(two),
         \A k \in 1 .. Len(one) : Says(one[k]) = Says(two[k])
  PROVE  AllSaid(one) = AllSaid(two)
<1> DEFINE n == Len(one)
           f == UpTo(one)
           g == UpTo(two)
<1>1. n \in Nat
  BY DEF Speaking
<1>2. /\ f[0] = <<>> /\ AllSaid(one) = f[n]
      /\ \A k \in 1 .. n : f[k] = f[k - 1] \o Says(one[k])
  BY UpToIs
<1>3. /\ g[0] = <<>> /\ AllSaid(two) = g[n]
      /\ \A k \in 1 .. n : g[k] = g[k - 1] \o Says(two[k])
  BY UpToIs
<1>4. \A k \in 1 .. n : Says(one[k]) = Says(two[k])
  OBVIOUS
<1> HIDE DEF f, g, n
<1>5. Alike(n, f, g)
  BY <1>2, <1>3, <1>4 DEF Alike
<1>6. Agree(n, f, g)
  BY <1>1, <1>5, SameSteps
<1>7. QED
  BY <1>1, <1>2, <1>3, <1>6 DEF Agree

(* The sentences of a list that are not words.                             *)
Heads(said) == {k \in 1 .. Len(said) : said[k][1] # "word"}

(* What a line becomes: its name and fields, or its word.                  *)
Said(line) ==
  IF line.name = "blockwrite_word" THEN <<"word", line.index, line.args[1][2]>>
  ELSE <<line.name, Fields(line)>>

(* So far the operations say what the lines said, and zeros for the words  *)
(* to come.                                                                *)
SaidSoFar(said, lines, read, missing, count) ==
  /\ Len(said) = read + missing
  /\ \A k \in 1 .. read : said[k] = Said(lines[k])
  /\ \A k \in read + 1 .. Len(said) : said[k][1] = "word" /\ said[k][3] = 0
  /\ IsFiniteSet(Heads(said)) /\ Cardinality(Heads(said)) = count

SaidOK ==
  /\ stage = "assemble" =>
       /\ SaidSoFar(AllSaid(ops), Asm, pos, Outstanding, Len(ops))
       /\ \A k \in 1 .. pos : Asm[k].name # "blockwrite_word" => Assembles(Asm[k])
  /\ EncodedAsWritten

(* A line of its own is said, with its words to come.                      *)
LEMMA SaysMore ==
  ASSUME NEW said \in Seq(Sentences), NEW lines, NEW read \in Nat, NEW count \in Nat,
         SaidSoFar(said, lines, read, 0, count),
         NEW op, Speaks(op), \A k \in 1 .. Len(op.words) : op.words[k] = 0,
         Said(lines[read + 1]) = <<op.op, op.fields>>
  PROVE  SaidSoFar(said \o Says(op), lines, read + 1, Len(op.words), count + 1)
<1> DEFINE s == Says(op)
           n == Len(op.words)
           more == said \o s
<1>1. /\ n \in Nat /\ s \in Seq(Sentences) /\ Len(s) = 1 + n /\ s[1] = <<op.op, op.fields>>
      /\ \A k \in 1 .. n : s[1 + k] = <<"word", k - 1, op.words[k]>>
  <2>1. n \in Nat
    BY DEF Speaks
  <2>2. QED
    BY <2>1, SaysIs
<1>2. /\ Len(said) = read /\ \A k \in 1 .. read : said[k] = Said(lines[k])
      /\ IsFiniteSet(Heads(said)) /\ Cardinality(Heads(said)) = count
  BY DEF SaidSoFar
<1>3. op.op \in Mnemonics /\ "word" \notin Mnemonics
  BY DEF Speaks, Mnemonics, Operands
<1>4. \A k \in 1 .. n : op.words[k] = 0
  OBVIOUS
<1> HIDE DEF n, s
<1>5. /\ Len(more) = read + 1 + n
      /\ \A k \in 1 .. read + 1 + n : more[k] = IF k <= read THEN said[k] ELSE s[k - read]
  BY <1>1, <1>2, ConcatProperties
<1> HIDE DEF more
<1>6. \A k \in 1 .. read : more[k] = said[k]
  BY <1>5, <1>1
<1>7. more[read + 1] = s[1]
  BY <1>1, <1>5
<1>8. ASSUME NEW k \in read + 2 .. read + 1 + n PROVE more[k][1] = "word" /\ more[k][3] = 0
  <2>1. more[k] = s[k - read] /\ k - read - 1 \in 1 .. n /\ k - read = 1 + (k - read - 1)
    BY <1>1, <1>5
  <2>2. s[1 + (k - read - 1)] = <<"word", (k - read - 1) - 1, 0>>
    BY <1>1, <1>4, <2>1
  <2>3. more[k] = <<"word", (k - read - 1) - 1, 0>>
    BY <2>1, <2>2
  <2>4. QED
    BY <2>3
<1>9. \A k \in 1 .. read + 1 : more[k] = Said(lines[k])
  <2>1. \A k \in 1 .. read + 1 : k \in 1 .. read \/ k = read + 1
    OBVIOUS
  <2>2. more[read + 1] = Said(lines[read + 1])
    BY <1>1, <1>7
  <2>3. QED
    BY <1>2, <1>6, <2>1, <2>2
<1>10. Heads(more) = Heads(said) \cup {read + 1} /\ read + 1 \notin Heads(said)
  <2>1. more[read + 1][1] = op.op
    BY <1>1, <1>7
  <2>2. \A k \in 1 .. Len(more) : k \in 1 .. read \/ k = read + 1 \/ k \in read + 2 .. read + 1 + n
    BY <1>1, <1>5
  <2>3. \A k \in 1 .. Len(said) : k \in 1 .. Len(more) /\ k \in 1 .. read
    BY <1>1, <1>2, <1>5
  <2>4. read + 1 \in 1 .. Len(more) /\ read + 1 \notin 1 .. Len(said)
    BY <1>1, <1>2, <1>5
  <2>5. \A k \in 1 .. read : k \in 1 .. Len(said)
    BY <1>2
  <2>6. QED
    BY <1>3, <1>6, <1>8, <2>1, <2>2, <2>3, <2>4, <2>5 DEF Heads
<1>11. IsFiniteSet(Heads(more)) /\ Cardinality(Heads(more)) = count + 1
  <2> DEFINE h == Heads(said)
             x == read + 1
  <2>1. IsFiniteSet(h) /\ x \notin h /\ Cardinality(h) = count /\ Heads(more) = h \cup {x}
    BY <1>2, <1>10
  <2> HIDE DEF h, x
  <2>2. IsFiniteSet(h \cup {x}) /\ Cardinality(h \cup {x}) = Cardinality(h) + 1
    BY <2>1, FS_AddElement
  <2>3. QED
    BY <2>1, <2>2
<1>12. \A k \in read + 1 + 1 .. Len(more) : k \in read + 2 .. read + 1 + n
  BY <1>1, <1>5
<1>13. QED
  BY <1>1, <1>5, <1>8, <1>9, <1>11, <1>12 DEF SaidSoFar, more, s, n

(* Sentences that differ at one place, operations that differ in one word. *)
Replaced(said, more, at, sentence) ==
  /\ Len(more) = Len(said) /\ more[at] = sentence
  /\ \A k \in 1 .. Len(said) : k # at => more[k] = said[k]

OneWord(op, ext, i) ==
  /\ ext.op = op.op /\ ext.fields = op.fields /\ Len(ext.words) = Len(op.words)
  /\ \A k \in 1 .. Len(op.words) : k # i => ext.words[k] = op.words[k]

(* The next word that was missing, said where a zero stood for it.         *)
LEMMA Filled ==
  ASSUME NEW said, NEW more, NEW lines, NEW read \in Nat, NEW missing \in Nat, missing # 0,
         NEW count, SaidSoFar(said, lines, read, missing, count),
         Replaced(said, more, read + 1, Said(lines[read + 1])), Said(lines[read + 1])[1] = "word"
  PROVE  SaidSoFar(more, lines, read + 1, missing - 1, count)
<1>1. /\ Len(said) = read + missing
      /\ \A k \in 1 .. read : said[k] = Said(lines[k])
      /\ \A k \in read + 1 .. Len(said) : said[k][1] = "word" /\ said[k][3] = 0
      /\ IsFiniteSet(Heads(said)) /\ Cardinality(Heads(said)) = count
  BY DEF SaidSoFar
<1>2. /\ Len(more) = Len(said) /\ more[read + 1] = Said(lines[read + 1]) /\ more[read + 1][1] = "word"
      /\ \A k \in 1 .. Len(said) : k # read + 1 => more[k] = said[k]
  BY DEF Replaced
<1>3. read + 1 \in 1 .. Len(said) /\ said[read + 1][1] = "word"
  BY <1>1
<1>4. \A k \in 1 .. Len(said) : more[k][1] = said[k][1]
  BY <1>2, <1>3
<1>5. Heads(more) = Heads(said)
  BY <1>2, <1>4 DEF Heads
<1>6. \A k \in 1 .. read + 1 : more[k] = Said(lines[k])
  <2>1. \A k \in 1 .. read + 1 : k = read + 1 \/ (k \in 1 .. read /\ k # read + 1 /\ k \in 1 .. Len(said))
    BY <1>3
  <2>2. QED
    BY <1>2, <1>1, <2>1
<1>7. \A k \in (read + 1) + 1 .. Len(more) : more[k][1] = "word" /\ more[k][3] = 0
  <2>1. \A k \in (read + 1) + 1 .. Len(more) :
          k \in read + 1 .. Len(said) /\ k # read + 1 /\ k \in 1 .. Len(said)
    BY <1>2, <1>1
  <2>2. QED
    BY <1>2, <1>1, <2>1
<1>8. Len(more) = (read + 1) + (missing - 1)
  BY <1>2, <1>1
<1>9. QED
  BY <1>1, <1>5, <1>6, <1>7, <1>8 DEF SaidSoFar

(* A sequence behind another.                                              *)
LEMMA Joined ==
  ASSUME NEW S, NEW one \in Seq(S), NEW two \in Seq(S), NEW m, Len(two) = m
  PROVE  /\ Len(one \o two) = Len(one) + m
         /\ \A k \in 1 .. Len(one) + m :
              (one \o two)[k] = IF k <= Len(one) THEN one[k] ELSE two[k - Len(one)]
  BY ConcatProperties

(* Behind the same sentences, operations that differ in one word.          *)
LEMMA OneWordSaid ==
  ASSUME NEW base \in Seq(Sentences), NEW op, NEW ext, Speaks(op), Speaks(ext),
         NEW i \in 1 .. Len(op.words), OneWord(op, ext, i)
  PROVE  /\ Replaced(base \o Says(op), base \o Says(ext), Len(base) + 1 + i,
                     <<"word", i - 1, ext.words[i]>>)
         /\ Len(base \o Says(op)) = Len(base) + 1 + Len(op.words)
<1> DEFINE n == Len(op.words)
           b == Len(base)
           s == Says(op)
           t == Says(ext)
           said == base \o s
           more == base \o t
<1>1. n \in Nat /\ i \in 1 .. n
  BY DEF Speaks
<1>2. b \in Nat
  OBVIOUS
<1>3. /\ ext.op = op.op /\ ext.fields = op.fields /\ Len(ext.words) = n
      /\ \A k \in 1 .. n : k # i => ext.words[k] = op.words[k]
  BY DEF OneWord
<1>4. /\ s \in Seq(Sentences) /\ Len(s) = 1 + n /\ s[1] = <<op.op, op.fields>>
      /\ \A k \in 1 .. n : s[1 + k] = <<"word", k - 1, op.words[k]>>
  BY SaysIs
<1>5. /\ t \in Seq(Sentences) /\ Len(t) = 1 + n /\ t[1] = <<op.op, op.fields>>
      /\ \A k \in 1 .. n : t[1 + k] = <<"word", k - 1, ext.words[k]>>
  BY <1>3, SaysIs
<1>6. \A k \in 1 .. n : k # i => s[1 + k] = t[1 + k]
  BY <1>3, <1>4, <1>5
<1>7. t[1 + i] = <<"word", i - 1, ext.words[i]>>
  BY <1>1, <1>5
<1>8. s[1] = t[1]
  BY <1>3, <1>4, <1>5
<1> HIDE DEF n, b, s, t
<1>9. /\ Len(said) = b + (1 + n)
      /\ \A k \in 1 .. b + (1 + n) : said[k] = IF k <= b THEN base[k] ELSE s[k - b]
  BY <1>4, Joined DEF b
<1>10. /\ Len(more) = b + (1 + n)
      /\ \A k \in 1 .. b + (1 + n) : more[k] = IF k <= b THEN base[k] ELSE t[k - b]
  BY <1>5, Joined DEF b
<1> HIDE DEF said, more
<1>11. more[b + 1 + i] = <<"word", i - 1, ext.words[i]>>
  <2>1. b + 1 + i \in 1 .. b + (1 + n) /\ ~ (b + 1 + i <= b) /\ (b + 1 + i) - b = 1 + i
    BY <1>1, <1>2
  <2>2. QED
    BY <1>7, <1>10, <2>1
<1>12. ASSUME NEW k \in 1 .. b + (1 + n), k # b + 1 + i PROVE more[k] = said[k]
  <2>1. CASE k <= b
    BY <1>9, <1>10, <2>1
  <2>2. CASE k = b + 1
    <3>1. ~ (k <= b) /\ k - b = 1
      BY <1>2, <2>2
    <3>2. QED
      BY <1>8, <1>9, <1>10, <3>1
  <2>3. CASE k > b + 1
    <3>1. ~ (k <= b) /\ k - b - 1 \in 1 .. n /\ k - b - 1 # i /\ k - b = 1 + (k - b - 1)
      BY <1>1, <1>2, <1>12, <2>3
    <3>2. t[1 + (k - b - 1)] = s[1 + (k - b - 1)]
      BY <1>6, <3>1
    <3>3. QED
      BY <1>9, <1>10, <3>1, <3>2
  <2>4. QED
    BY <1>2, <2>1, <2>2, <2>3
<1>13. b + (1 + n) = b + 1 + n
  BY <1>1, <1>2
<1>14. QED
  BY <1>9, <1>10, <1>11, <1>12, <1>13 DEF Replaced, said, more, b, n, s, t

(* What is assembled speaks.                                               *)
LEMMA OpsSpeak ==
  ASSUME AsmTypeOK
  PROVE  Speaking(ops) /\ ops \in Seq(OpRecord)
<1>1. ops \in Seq(OpRecord)
  BY DEF AsmTypeOK
<1>2. \A op \in OpRecord : Speaks(op)
  BY DEF OpRecord, Speaks
<1>3. \A k \in 1 .. Len(ops) : ops[k] \in OpRecord
  BY <1>1
<1>4. QED
  BY <1>1, <1>2, <1>3 DEF Speaking

(* An operation is assembled.                                              *)
LEMMA SaidAssembled ==
  ASSUME AsmTypeOK, ColsOK, BegunOK, SaidOK, AssembleOperation
  PROVE  SaidSoFar(AllSaid(ops'), Asm, pos + 1, Outstanding', Len(ops'))
<1> DEFINE new == Operation(Line)
           n == Len(ops)
           said == AllSaid(ops)
<1>1. /\ Assembling /\ stage = "assemble" /\ Outstanding = 0 /\ Assembles(Line)
      /\ ops' = Append(ops, new)
  BY DEF AssembleOperation, Assembling
<1>2. Speaking(ops) /\ ops \in Seq(OpRecord) /\ n \in Nat /\ pos \in Nat
  BY OpsSpeak DEF AsmTypeOK
<1>3. Line \in LineSet /\ Line = Asm[pos + 1]
  BY <1>1, <1>2, LineIs
<1>4. new \in OpRecord /\ OpOK(new)
  BY <1>1, <1>3, OperationLaidOut
<1>5. Speaks(new)
  BY <1>4 DEF OpRecord, Speaks
<1>6. Said(Line) = <<new.op, new.fields>>
  <2>1. Line.name # "blockwrite_word"
    BY <1>1 DEF Assembles, Mnemonics, Operands
  <2>2. new.op = Line.name /\ new.fields = Fields(Line)
    BY DEF Operation
  <2>3. QED
    BY <2>1, <2>2 DEF Said
<1>7. new.outstanding = Len(new.words) /\ \A k \in 1 .. Len(new.words) : new.words[k] = 0
  <2> DEFINE extra == IF Line.name = "blockwrite" THEN Fields(Line)[2] ELSE 0
  <2>1. new.outstanding = extra /\ new.words = [k \in 1 .. extra |-> 0]
    BY DEF Operation
  <2>2. extra \in Nat
    <3>1. new.outstanding \in Nat
      BY <1>4 DEF OpRecord
    <3>2. QED
      BY <2>1, <3>1
  <2> HIDE DEF extra, new
  <2>3. QED
    BY <2>1, <2>2
<1> HIDE DEF new
<1>8. Len(ops') = n + 1 /\ ops'[Len(ops')] = new /\ (\A k \in 1 .. n : ops'[k] = ops[k]) /\ ops' # <<>>
  BY <1>1, <1>2, <1>4
<1>9. AllSaid(ops') = said \o Says(new) /\ said \in Seq(Sentences)
  BY <1>2, <1>5, <1>8, SaidAppended
<1>10. SaidSoFar(said, Asm, pos, 0, n)
  BY <1>1 DEF SaidOK
<1> HIDE DEF said, n
<1>11. SaidSoFar(said \o Says(new), Asm, pos + 1, Len(new.words), n + 1)
  <2>1. Said(Asm[pos + 1]) = <<new.op, new.fields>>
    BY <1>3, <1>6
  <2>2. n \in Nat /\ pos \in Nat
    BY <1>2
  <2>3. QED
    BY <1>5, <1>7, <1>9, <1>10, <2>1, <2>2, SaysMore
<1>12. Outstanding' = Len(new.words)
  BY <1>7, <1>8 DEF Outstanding
<1>13. QED
  BY <1>8, <1>9, <1>11, <1>12

(* A word is put into the last operation.                                  *)
LEMMA SaidExtended ==
  ASSUME AsmTypeOK, ColsOK, BegunOK, SaidOK, ExtendOperation
  PROVE  SaidSoFar(AllSaid(ops'), Asm, pos + 1, Outstanding', Len(ops'))
<1> DEFINE n == Len(ops)
           op == ops[n]
           v == Line.args[1][2]
           i == ExtensionIndex(op) + 1
           ext == Extension(op, v)
           front == [k \in 1 .. n - 1 |-> ops[k]]
<1>1. /\ Outstanding > 0 /\ Assembling /\ stage = "assemble" /\ ops' = [ops EXCEPT ![n] = ext]
      /\ Extends(Line, op)
  BY DEF ExtendOperation, Extension, Assembling
<1>2. Speaking(ops) /\ ops \in Seq(OpRecord) /\ pos \in Nat
  BY OpsSpeak DEF AsmTypeOK
<1>3. LineOK(Line) /\ Line = Asm[pos + 1]
  BY <1>1, <1>2, LineIs
<1>4. /\ v \in Nat /\ v < Capacity[WordBytes]
      /\ Line.name = "blockwrite_word" /\ Line.index = ExtensionIndex(op)
  <2> HIDE DEF op
  <2>1. QED
    BY <1>1, <1>2, WordIs
<1>5. /\ n \in 1 .. n /\ n \in Nat /\ n - 1 \in Nat /\ op \in OpRecord /\ OpOK(op)
      /\ op.outstanding > 0 /\ Outstanding = op.outstanding
  BY <1>1, LastOpIs
<1>6. /\ ext \in OpRecord /\ OpOK(ext) /\ i \in 1 .. Len(op.words)
      /\ ext.words = [op.words EXCEPT ![i] = v] /\ Len(ext.words) = Len(op.words)
      /\ ext.op = op.op /\ ext.fields = op.fields /\ ext.outstanding = op.outstanding - 1
  <2> HIDE DEF op, v, n
  <2>1. Extended(op, v, ext)
    BY <1>4, <1>5, ExtensionLaidOut
  <2> HIDE DEF ext
  <2>2. QED
    BY <2>1 DEF Extended
<1>7. Said(Line) = <<"word", i - 1, v>>
  <2>1. ExtensionIndex(op) \in Int
    BY <1>5 DEF ExtensionIndex, OpRecord
  <2>2. QED
    BY <1>4, <2>1 DEF Said
<1> HIDE DEF ext, v
<1>8. Speaks(op) /\ Speaks(ext)
  BY <1>5, <1>6 DEF OpRecord, Speaks
<1>9. ext.words[i] = v /\ \A k \in 1 .. Len(op.words) : k # i => ext.words[k] = op.words[k]
  <2>1. op.words \in Seq(Nat)
    BY <1>8 DEF Speaks
  <2> HIDE DEF i, op
  <2>2. QED
    BY <1>6, <2>1
<1>10. i + op.outstanding = Len(op.words) + 1 /\ op.outstanding \in Nat /\ i \in Nat /\ Len(op.words) \in Nat
  <2>1. op.outstanding \in Nat /\ Len(op.words) \in Nat
    BY <1>5 DEF OpRecord
  <2>2. QED
    BY <2>1, <1>6 DEF ExtensionIndex
<1> HIDE DEF i, op
<1>11. /\ Len(front) = n - 1 /\ \A k \in 1 .. n - 1 : front[k] = ops[k]
  <2> DEFINE m == n - 1
  <2>1. m \in Nat
    BY <1>5
  <2> HIDE DEF n, m
  <2>2. front = [k \in 1 .. m |-> ops[k]]
    BY DEF m
  <2> HIDE DEF front
  <2>3. Len(front) = m /\ \A k \in 1 .. m : front[k] = ops[k]
    BY <2>1, <2>2
  <2>4. QED
    BY <2>3 DEF m
<1>12. Speaking(front)
  <2> HIDE DEF front, n
  <2>1. \A k \in 1 .. n - 1 : Speaks(ops[k])
    BY <1>2, <1>5 DEF Speaking, n
  <2>2. QED
    BY <1>5, <1>11, <2>1 DEF Speaking
<1>13. /\ Len(ops') = n /\ ops'[n] = ext /\ \A k \in 1 .. n - 1 : ops'[k] = ops[k]
  <2>1. Len(ops') = Len(ops) /\ ops' \in Seq(OpRecord)
    BY <1>1, <1>2, <1>5, <1>6, ExceptSeq
  <2>2. DOMAIN ops = 1 .. n
    BY <1>2
  <2>3. n \in 1 .. n /\ \A k \in 1 .. n - 1 : k \in 1 .. n /\ k # n
    BY <1>5
  <2> HIDE DEF op, n
  <2>4. ops'[n] = ext /\ \A k \in 1 .. n - 1 : ops'[k] = ops[k]
    BY <1>1, <2>2, <2>3
  <2>5. QED
    BY <2>1, <2>4 DEF n
<1>14. n = (n - 1) + 1
  BY <1>5
<1> DEFINE base == AllSaid(front)
<1>15. AllSaid(ops) = base \o Says(op) /\ base \in Seq(Sentences)
  <2> HIDE DEF front
  <2>1. Len(ops) = Len(front) + 1 /\ ops[Len(ops)] = op /\ \A k \in 1 .. Len(front) : ops[k] = front[k]
    BY <1>11, <1>14 DEF op
  <2>2. QED
    BY <1>8, <1>12, <2>1, SaidAppended
<1>16. AllSaid(ops') = base \o Says(ext)
  <2> HIDE DEF front, n
  <2>1. Len(ops') = Len(front) + 1 /\ ops'[Len(ops')] = ext /\ \A k \in 1 .. Len(front) : ops'[k] = front[k]
    BY <1>11, <1>13, <1>14
  <2> DEFINE m == ops'
  <2> HIDE DEF m
  <2>2. Len(m) = Len(front) + 1 /\ m[Len(m)] = ext /\ \A k \in 1 .. Len(front) : m[k] = front[k]
    BY <2>1 DEF m
  <2>3. AllSaid(m) = base \o Says(ext)
    BY <1>8, <1>12, <2>2, SaidAppended
  <2>4. QED
    BY <2>3 DEF m
<1>17. SaidSoFar(base \o Says(op), Asm, pos, op.outstanding, n)
  BY <1>1, <1>5, <1>15 DEF SaidOK
<1> HIDE DEF base, n
<1> DEFINE said == base \o Says(op)
           more == base \o Says(ext)
           b == Len(base)
<1>18. Replaced(said, more, b + 1 + i, <<"word", i - 1, v>>) /\ Len(said) = b + 1 + Len(op.words)
  <2>1. OneWord(op, ext, i)
    BY <1>6, <1>9 DEF OneWord
  <2>2. ext.words[i] = v /\ i \in 1 .. Len(op.words)
    BY <1>6, <1>9
  <2>3. /\ Replaced(base \o Says(op), base \o Says(ext), Len(base) + 1 + i, <<"word", i - 1, ext.words[i]>>)
        /\ Len(base \o Says(op)) = Len(base) + 1 + Len(op.words)
    BY <1>8, <1>15, <2>1, <2>2, OneWordSaid
  <2>4. QED
    BY <2>2, <2>3
<1>19. b \in Nat
  BY <1>15
<1> HIDE DEF said, more, b
<1>20. Len(said) = pos + op.outstanding
  BY <1>17 DEF SaidSoFar, said
<1>21. pos + 1 = b + 1 + i
  <2> DEFINE w == Len(op.words)
             o == op.outstanding
  <2>1. /\ pos \in Nat /\ i \in Nat /\ w \in Nat /\ o \in Nat /\ b \in Nat
        /\ pos + o = b + 1 + w /\ i + o = w + 1
    BY <1>2, <1>10, <1>18, <1>19, <1>20
  <2> HIDE DEF w, o
  <2>2. QED
    BY <2>1
<1>22. SaidSoFar(more, Asm, pos + 1, op.outstanding - 1, n)
  <2>1. Said(Asm[pos + 1]) = <<"word", i - 1, v>> /\ Replaced(said, more, pos + 1, Said(Asm[pos + 1]))
    BY <1>3, <1>7, <1>18, <1>21
  <2>2. op.outstanding # 0 /\ op.outstanding \in Nat
    BY <1>5, <1>10
  <2>3. SaidSoFar(said, Asm, pos, op.outstanding, n)
    BY <1>17 DEF said
  <2>4. Said(Asm[pos + 1])[1] = "word"
    BY <2>1
  <2>5. QED
    BY <1>2, <2>1, <2>2, <2>3, <2>4, Filled
<1>23. Outstanding' = op.outstanding - 1
  <2>1. ops' # <<>>
    BY <1>5, <1>13
  <2>2. QED
    BY <1>6, <1>13, <2>1 DEF Outstanding
<1>24. QED
  BY <1>13, <1>16, <1>22, <1>23 DEF more

(* What was encoded is what was assembled.                                 *)
LEMMA SaidEncoded ==
  ASSUME AsmTypeOK, ColsOK, BegunOK, SaidOK, Encode
  PROVE  EncodedAsWritten'
<1> DEFINE n == Len(ops)
           body == Body(ops)
           said == AllSaid(ops)
<1>1. /\ stage = "assemble" /\ pos = Len(Asm) /\ cols' = cols
      /\ txn' = [version |-> "0.1", cols |-> Cardinality(DOMAIN cols),
                 size |-> Total(ops)[Len(ops)], ops |-> Body(ops), count |-> Len(ops)]
  BY DEF Encode, parser
<1>2. txn'.ops = body /\ txn'.count = n
  <2> HIDE DEF body, n
  <2>1. txn' = [version |-> "0.1", cols |-> Cardinality(DOMAIN cols),
                size |-> Total(ops)[Len(ops)], ops |-> body, count |-> n]
    BY <1>1 DEF body, n
  <2>2. QED
    BY <2>1
<1>3. Speaking(ops) /\ ops \in Seq(OpRecord) /\ n \in Nat /\ DOMAIN ops = 1 .. n /\ pos \in Nat
  BY OpsSpeak DEF AsmTypeOK
<1>4. Last' = Last /\ Asm' = Asm
  BY <1>1 DEF Last, Asm
<1>5. Asm \in Seq(LineSet)
  BY <1>1, AsmIs DEF BegunOK, Begun
<1>6. SaidSoFar(said, Asm, pos, Outstanding, n)
  BY <1>1 DEF SaidOK
<1>7. AllSaid(body) = said
  <2>1. body = [k \in 1 .. n |-> [op |-> ops[k].op, fields |-> ops[k].fields, bytes |-> ops[k].bytes,
                                  size |-> ops[k].size, words |-> ops[k].words]]
    BY <1>3 DEF Body
  <2> HIDE DEF body, n
  <2>2. Len(body) = n
    BY <1>3, <2>1
  <2>3. \A k \in 1 .. n : /\ body[k].op = ops[k].op /\ body[k].fields = ops[k].fields
                          /\ body[k].words = ops[k].words
    BY <2>1
  <2>4. \A k \in 1 .. n : Says(body[k]) = Says(ops[k])
    BY <2>3 DEF Says
  <2>5. \A k \in 1 .. n : Speaks(ops[k])
    BY <1>3 DEF Speaking, n
  <2>6. Speaking(body)
    BY <1>3, <2>2, <2>3, <2>5 DEF Speaking, Speaks
  <2>7. Len(ops) = Len(body) /\ \A k \in 1 .. Len(ops) : Says(ops[k]) = Says(body[k])
    BY <2>2, <2>4 DEF n
  <2>8. QED
    BY <1>3, <2>6, <2>7, SameSaid
<1>8. said \in Seq(Sentences)
  <2>1. n \in 0 .. n
    BY <1>3
  <2>2. QED
    BY <1>3, <2>1, UpToIs
<1> HIDE DEF said, body, n
<1>9. /\ Len(said) = pos + Outstanding
      /\ \A k \in 1 .. pos : said[k] = Said(Asm[k])
      /\ \A k \in pos + 1 .. Len(said) : said[k][1] = "word" /\ said[k][3] = 0
      /\ Cardinality(Heads(said)) = n
  BY <1>6 DEF SaidSoFar
<1>10. DOMAIN Asm = 1 .. pos
  BY <1>1, <1>5
<1>11. ASSUME NEW k \in DOMAIN Asm PROVE SaysSo(said[k], Asm[k])
  <2> DEFINE line == Asm[k]
  <2>1. said[k] = Said(line)
    BY <1>9, <1>10
  <2>2. line \in LineSet
    BY <1>5
  <2>3. line.name # "blockwrite_word" => Assembles(line)
    BY <1>1, <1>10 DEF SaidOK
  <2> HIDE DEF line
  <2>4. CASE line.name = "blockwrite_word"
    <3>1. SaysSo(said[k], line)
      BY <2>1, <2>4 DEF Said, SaysSo
    <3>2. QED
      BY <3>1 DEF line
  <2>5. CASE line.name # "blockwrite_word"
    <3> DEFINE fields == Fields(line)
    <3>1. fields \in Seq(Nat) /\ Len(fields) = Len(Operands[line.name])
          /\ \A j \in DOMAIN fields : Intact(line, j) => fields[j] = line.args[j][2]
      BY <2>2, <2>3, <2>5, FieldsFit
    <3>2. said[k] = <<line.name, fields>>
      BY <2>1, <2>5 DEF Said
    <3> HIDE DEF fields
    <3>3. SaysSo(said[k], line)
      BY <2>5, <3>1, <3>2 DEF SaysSo
    <3>4. QED
      BY <3>3 DEF line
  <2>6. QED
    BY <2>4, <2>5
<1>12. pos <= Len(said)
  <2>1. Outstanding \in Nat
    <3>1. CASE ops = <<>>
      BY <3>1 DEF Outstanding
    <3>2. CASE ops # <<>>
      <4>1. Len(ops) \in 1 .. Len(ops)
        BY <1>3, <3>2, EmptySeq
      <4>2. ops[Len(ops)] \in OpRecord
        BY <1>3, <4>1
      <4>3. QED
        BY <3>2, <4>2 DEF Outstanding, OpRecord
    <3>3. QED
      BY <3>1, <3>2
  <2>2. QED
    BY <1>3, <1>9, <2>1
<1>13. {k \in DOMAIN said : said[k][1] # "word"} = Heads(said)
  BY <1>8 DEF Heads
<1>14. (EncodedAsWritten)' =
         ((stage' = "count" /\ source' # <<>>) =>
            LET s == AllSaid(txn'.ops) IN
            /\ Len(Asm') <= Len(s)
            /\ \A k \in DOMAIN Asm' : SaysSo(s[k], Asm'[k])
            /\ \A k \in Len(Asm') + 1 .. Len(s) : s[k][1] = "word" /\ s[k][3] = 0
            /\ txn'.count = Cardinality({k \in DOMAIN s : s[k][1] # "word"}))
  BY DEF EncodedAsWritten, AllSaid, Says, SaysSo, Intact
<1>15. AllSaid(txn'.ops) = said
  BY <1>2, <1>7
<1>16. QED
  BY <1>1, <1>2, <1>4, <1>9, <1>11, <1>12, <1>13, <1>14, <1>15

(* Every step keeps what the operations say.                               *)
LEMMA SaidNext ==
  ASSUME AsmTypeOK, ColsOK, BegunOK, SaidOK, [Next]_vars
  PROVE  SaidOK'
<1>1. ASSUME NEW line \in NextLine, ParseOperation(line) \/ AttachToGroup(line) \/ ParseLabel(line)
      PROVE  SaidOK'
  <2>1. stage' = "parse"
    BY <1>1 DEF ParseOperation, AttachToGroup, ParseLabel, Read
  <2>2. QED
    BY <2>1 DEF SaidOK, EncodedAsWritten
<1>2. CASE EndOfSource
  <2>1. stage' \in {"assemble", "rejected"}
    BY <1>2 DEF EndOfSource
  <2>2. pos' = 0 /\ ops' = <<>>
    BY <1>2 DEF EndOfSource, BegunOK, encoder
  <2>3. EncodedAsWritten'
    BY <2>1 DEF EncodedAsWritten
  <2>4. AllSaid(ops') = <<>> /\ Outstanding' = 0 /\ Len(ops') = 0
    BY <2>2, SaidOfNone DEF Outstanding
  <2>5. Heads(<<>>) = {} /\ IsFiniteSet({}) /\ Cardinality({}) = 0
    BY FS_EmptySet DEF Heads
  <2>6. \A lines : SaidSoFar(<<>>, lines, 0, 0, 0)
    <3>1. TAKE lines
    <3> DEFINE s == <<>>
    <3>2. Len(s) = 0 + 0 /\ (\A k \in 1 .. 0 : FALSE) /\ \A k \in 0 + 1 .. Len(s) : FALSE
      OBVIOUS
    <3>3. IsFiniteSet(Heads(s)) /\ Cardinality(Heads(s)) = 0
      BY <2>5
    <3> HIDE DEF s
    <3>4. SaidSoFar(s, lines, 0, 0, 0)
      BY <3>2, <3>3, Zenon DEF SaidSoFar
    <3>5. QED
      BY <3>4 DEF s
  <2>7. SaidSoFar(AllSaid(ops'), Asm', pos', Outstanding', Len(ops'))
    BY <2>2, <2>4, <2>6
  <2>8. \A k \in 1 .. pos' : FALSE
    BY <2>2
  <2>9. QED
    BY <2>3, <2>7, <2>8 DEF SaidOK
<1>3. CASE ExtendOperation \/ AssembleOperation
  <2>1. SaidSoFar(AllSaid(ops'), Asm, pos + 1, Outstanding', Len(ops'))
    BY <1>3, SaidExtended, SaidAssembled
  <2>2. stage' = "assemble" /\ cols' = cols /\ pos' = pos + 1
    BY <1>3 DEF ExtendOperation, AssembleOperation, Assembling, parser
  <2>3. Asm' = Asm
    BY <2>2 DEF Last, Asm
  <2>4. EncodedAsWritten'
    BY <2>2 DEF EncodedAsWritten
  <2>5. ASSUME NEW k \in 1 .. pos + 1, Asm[k].name # "blockwrite_word"
        PROVE  Assembles(Asm[k])
    <3>1. Assembling /\ stage = "assemble" /\ pos \in Nat /\ Line = Asm[pos + 1]
      BY <1>3, LineIs DEF ExtendOperation, AssembleOperation, Assembling, AsmTypeOK
    <3>2. CASE k = pos + 1
      BY <1>3, <2>5, <3>1, <3>2 DEF ExtendOperation, Extends, AssembleOperation
    <3>3. CASE k # pos + 1
      <4>1. k \in 1 .. pos
        BY <3>1, <3>3
      <4>2. QED
        BY <2>5, <3>1, <4>1 DEF SaidOK
    <3>4. QED
      BY <3>2, <3>3
  <2>6. QED
    BY <2>1, <2>2, <2>3, <2>4, <2>5 DEF SaidOK, Assembles
<1>4. CASE Encode
  <2>1. stage' # "assemble"
    BY <1>4 DEF Encode
  <2>2. EncodedAsWritten'
    BY <1>4, SaidEncoded
  <2>3. QED
    BY <2>1, <2>2 DEF SaidOK
<1>5. CASE RejectExtension \/ RejectOperation \/ ReadBeyondOperands \/ StartPrint \/ RejectUnknown
           \/ PrintOperation \/ Reassemble
  <2>1. stage' \notin {"assemble", "count"}
    BY <1>5 DEF RejectExtension, RejectOperation, RejectLine, ReadBeyondOperands, StartPrint,
                RejectUnknown, PrintOperation, Walking, Reassemble
  <2>2. QED
    BY <2>1 DEF SaidOK, EncodedAsWritten
<1>6. CASE CountOperation \/ Ended \/ UNCHANGED vars
  <2>1. stage' = stage /\ source' = source /\ cols' = cols /\ pos' = pos /\ ops' = ops /\ txn' = txn
    BY <1>6 DEF CountOperation, Ended, vars, parser, encoder
  <2>2. Last' = Last /\ Asm' = Asm /\ Outstanding' = Outstanding
    BY <2>1 DEF Last, Asm, Outstanding
  <2>3. EncodedAsWritten' <=> EncodedAsWritten
    BY <2>1, <2>2 DEF EncodedAsWritten, SaysSo, Intact
  <2>4. QED
    BY <2>1, <2>2, <2>3 DEF SaidOK
<1>7. QED
  BY <1>1, <1>2, <1>3, <1>4, <1>5, <1>6 DEF Next

(* EncodedAsWritten, of every source and every width of the fields: the    *)
(* transaction says what the lines of the last column say, one by one,     *)
(* with zeros for missing words only, and its header counts its operations;*)
(* an operand that fits its field and loses no digit is in it unchanged.   *)
THEOREM SaidAsWritten == Spec => []EncodedAsWritten
<1>1. Init => SaidOK
  BY DEF Init, SaidOK, EncodedAsWritten
<1>2. AsmInv /\ SaidOK /\ [Next]_vars => SaidOK'
  BY SaidNext DEF AsmInv
<1>3. SaidOK => EncodedAsWritten
  BY DEF SaidOK
<1>4. QED
  BY <1>1, <1>2, <1>3, AsmInvariant, PTL DEF Spec

-------------------------------------------------------------------------------
(* Printed and assembled again.  An operation is a line and a line for     *)
(* each of its words; where the lines of each operation end is counted as  *)
(* the lengths of operations are.                                          *)
LineCounts(list) == [k \in 1 .. Len(list) |-> [bytes |-> 1 + Len(list[k].words)]]
LinesTo(list, k) == Total(LineCounts(list))[k] - HeaderSize

(* The lines from one on, of the first operations of a list.               *)
Behind(lines, from, list, n) ==
  \A k \in 1 .. n : \A j \in 0 .. Len(list[k].words) :
    lines[from + LinesTo(list, k - 1) + 1 + j] = Printed(list[k])[1 + j]

From(lines, from, list, n) ==
  \A k \in from + 1 .. Len(lines) : \E i \in 1 .. n : \E j \in 0 .. Len(list[i].words) :
    lines[k] = Printed(list[i])[1 + j]

(* The text of the first operations of a transaction, all of them known.   *)
Known(t, n) == WellFormed(t) /\ n <= t.count /\ \A k \in 1 .. n : t.ops[k].op \in Analyzed

PrintedTo(lines, t, n) ==
  /\ Known(t, n)
  /\ Len(lines) = t.cols + LinesTo(t.ops, n)
  /\ \A k \in 1 .. t.cols : lines[k] = AttachLines(t.cols)[k]
  /\ Behind(lines, t.cols, t.ops, n) /\ From(lines, t.cols, t.ops, n)

PrintOK ==
  /\ stage = "count" => Known(txn, num)
  /\ stage = "print" => PrintedTo(text, txn, num)
  /\ pass = 2 => PrintedTo(text, given, given.count)

(* The parser's columns after some of the lines: one column for each       *)
(* group, the lines of the operations in the last one.                     *)
LastOf(n) == IF n = 0 THEN 0 ELSE n - 1
HandedOn(n, s) ==
  /\ s <= Len(text) /\ label = 0
  /\ IF s <= n THEN col = s - 1 ELSE col = LastOf(n)
  /\ DOMAIN cols = 0 .. col
  /\ 0 < s /\ s <= n => cols[col] = <<>>
  /\ n < s => /\ DOMAIN cols[col] = {0} /\ Len(cols[col][0]) = s - n
              /\ \A k \in 1 .. s - n : cols[col][0][k] = text[n + k]

(* An operation is what it was, up to the words still to come.             *)
Copies(op, old) ==
  /\ op.op = old.op /\ op.fields = old.fields /\ Len(op.words) = Len(old.words)
  /\ \A j \in 1 .. Len(old.words) - op.outstanding : op.words[j] = old.words[j]

CopiedTo(list) ==
  /\ Len(ops) <= Len(list)
  /\ \A k \in 1 .. Len(ops) : Copies(ops[k], list[k]) /\ (k < Len(ops) => ops[k].outstanding = 0)
  /\ pos = LinesTo(list, Len(ops)) - Outstanding

AgainOK ==
  pass = 2 /\ Readable(given) =>
    /\ stage \in {"parse", "assemble", "done"}
    /\ stage = "parse" => HandedOn(given.cols, Len(source))
    /\ stage = "assemble" => HandedOn(given.cols, Len(text)) /\ CopiedTo(given.ops)
    /\ Reassembles

LEMMA LinesToIs ==
  ASSUME NEW list, Len(list) \in Nat, \A k \in 1 .. Len(list) : list[k].words \in Seq(Nat)
  PROVE  /\ LinesTo(list, 0) = 0
         /\ \A k \in 1 .. Len(list) : LinesTo(list, k) = LinesTo(list, k - 1) + 1 + Len(list[k].words)
         /\ \A k \in 0 .. Len(list) : LinesTo(list, k) \in Nat
         /\ \A i, j \in 0 .. Len(list) : i < j => LinesTo(list, i) < LinesTo(list, j)
<1> DEFINE n == Len(list)
           c == LineCounts(list)
           t == Total(c)
<1>1. n \in Nat /\ HeaderSize \in Nat /\ \A k \in 1 .. n : Len(list[k].words) \in Nat
  <2>1. HeaderSize \in Nat
    BY SizesAssumption
  <2>2. QED
    BY <2>1
<1>2. Len(c) = n /\ \A k \in 1 .. n : c[k].bytes = 1 + Len(list[k].words)
  <2>1. c = [k \in 1 .. n |-> [bytes |-> 1 + Len(list[k].words)]]
    BY DEF LineCounts
  <2> HIDE DEF c, n
  <2>2. QED
    BY <1>1, <2>1
<1>3. Measured(c)
  <2> HIDE DEF c, n
  <2>1. QED
    BY <1>1, <1>2 DEF Measured
<1>4. /\ t[0] = HeaderSize
      /\ \A k \in 1 .. n : t[k] = t[k - 1] + c[k].bytes
      /\ \A k \in 0 .. n : t[k] \in Nat
  <2> HIDE DEF c
  <2>1. QED
    BY <1>2, <1>3, Totals
<1>5. ASSUME NEW i \in 0 .. n, NEW j \in 0 .. n, i < j PROVE t[i] < t[j]
  <2> HIDE DEF c
  <2>1. QED
    BY <1>2, <1>3, <1>5, TotalsGrow
<1>6. \A k : LinesTo(list, k) = t[k] - HeaderSize
  BY DEF LinesTo
<1> HIDE DEF t, c, n
<1>7. LinesTo(list, 0) = 0
  BY <1>1, <1>4, <1>6
<1>8. ASSUME NEW i \in 0 .. n, NEW j \in 0 .. n, i < j PROVE LinesTo(list, i) < LinesTo(list, j)
  <2>1. t[i] < t[j] /\ t[i] \in Nat /\ t[j] \in Nat
    BY <1>4, <1>5, <1>8
  <2>2. QED
    BY <1>1, <1>6, <2>1
<1>9. ASSUME NEW k \in 0 .. n PROVE LinesTo(list, k) \in Nat
  <2>1. t[k] \in Nat /\ (k = 0 \/ t[0] < t[k])
    <3>1. 0 \in 0 .. n /\ (k = 0 \/ 0 < k)
      BY <1>1
    <3>2. QED
      BY <1>4, <1>5, <3>1
  <2>2. QED
    BY <1>1, <1>4, <1>6, <2>1
<1>10. ASSUME NEW k \in 1 .. n
       PROVE  LinesTo(list, k) = LinesTo(list, k - 1) + 1 + Len(list[k].words)
  <2>1. t[k] = t[k - 1] + (1 + Len(list[k].words)) /\ t[k - 1] \in Nat /\ Len(list[k].words) \in Nat
    <3>1. k - 1 \in 0 .. n
      BY <1>1
    <3>2. QED
      BY <1>1, <1>2, <1>4, <3>1
  <2>2. LinesTo(list, k) = t[k] - HeaderSize /\ LinesTo(list, k - 1) = t[k - 1] - HeaderSize
    BY <1>6
  <2> DEFINE w == Len(list[k].words)
             a == t[k - 1]
             b == t[k]
  <2>3. b = a + (1 + w) /\ a \in Nat /\ w \in Nat /\ HeaderSize \in Nat
    BY <1>1, <2>1
  <2> HIDE DEF w, a, b
  <2>4. b - HeaderSize = (a - HeaderSize) + 1 + w
    BY <2>3
  <2>5. QED
    BY <2>2, <2>4 DEF w, a, b
<1>11. QED
  BY <1>7, <1>8, <1>9, <1>10 DEF n

LEMMA WellFormedWorded ==
  ASSUME NEW t, WellFormed(t)
  PROVE  /\ t.cols \in Nat /\ t.count \in Nat /\ Len(t.ops) = t.count /\ Len(t.ops) \in Nat
         /\ DOMAIN t.ops = 1 .. t.count
         /\ \A k \in 1 .. t.count : LaidOut(t.version, t.ops[k]) /\ t.ops[k].words \in Seq(Nat)
         /\ \A k \in 1 .. Len(t.ops) : t.ops[k].words \in Seq(Nat)
BY DEF WellFormed, LaidOut

(* The lines of an operation: its own, and one for each word.              *)
HeadLine(op) ==
  [name |-> op.op, args |-> [k \in DOMAIN op.fields |-> <<Operands[op.op][k], op.fields[k]>>]]
WordOf(op, j) == [name |-> "blockwrite_word", index |-> j - 1, args |-> <<<<"num", op.words[j]>>>>]

LEMMA PrintedIs ==
  ASSUME NEW version, NEW op, LaidOut(version, op), op.op \in Analyzed
  PROVE  /\ Printed(op) \in Seq(LineSet) /\ Len(Printed(op)) = 1 + Len(op.words)
         /\ op.op \notin {"read_regs", "loadpdi"} =>
              /\ Printed(op)[1] = HeadLine(op) /\ HeadLine(op).name = op.op
              /\ \A j \in 1 .. Len(op.words) :
                   Printed(op)[1 + j] = WordOf(op, j) /\ WordOf(op, j).name = "blockwrite_word"
<1>1. Printed(op) \in Seq(LineSet)
  BY PrintedLines
<1>2. op.words \in Seq(Nat) /\ Len(op.words) \in Nat /\ DOMAIN op.words = 1 .. Len(op.words)
  BY DEF LaidOut
<1>3. CASE op.op \in {"read_regs", "loadpdi"}
  <2>1. Len(op.words) = 0
    BY <1>3 DEF LaidOut
  <2>2. Len(Printed(op)) = 1
    BY <1>3 DEF Printed
  <2>3. QED
    BY <1>1, <1>3, <2>1, <2>2
<1>4. CASE op.op \notin {"read_regs", "loadpdi"}
  <2> DEFINE line == [name |-> op.op,
                      args |-> [k \in DOMAIN op.fields |-> <<Operands[op.op][k], op.fields[k]>>]]
             W(k) == [name |-> "blockwrite_word", index |-> k - 1, args |-> <<<<"num", op.words[k]>>>>]
             words == [k \in 1 .. Len(op.words) |-> W(k)]
             S == {line} \cup {W(k) : k \in 1 .. Len(op.words)}
             n == Len(op.words)
  <2>1. Printed(op) = <<line>> \o words
    BY <1>2, <1>4 DEF Printed
  <2>2. n \in Nat
    BY <1>2
  <2> HIDE DEF line, W, n
  <2>3. <<line>> \in Seq(S) /\ Len(<<line>>) = 1 /\ <<line>>[1] = line
    OBVIOUS
  <2>4. words \in [1 .. n -> S]
    BY DEF n
  <2>5. words = [k \in 1 .. n |-> W(k)]
    BY DEF n
  <2> HIDE DEF words, S
  <2>6. words \in Seq(S) /\ Len(words) = n
    BY <2>2, <2>4, SeqDef, LenProperties
  <2>7. /\ Len(<<line>> \o words) = 1 + n
        /\ \A k \in 1 .. 1 + n : (<<line>> \o words)[k] = IF k <= 1 THEN <<line>>[k] ELSE words[k - 1]
    BY <2>3, <2>6, Joined
  <2>8. Printed(op)[1] = line
    <3>1. 1 \in 1 .. 1 + n
      BY <2>2
    <3>2. QED
      BY <2>1, <2>3, <2>7, <3>1
  <2>9. ASSUME NEW j \in 1 .. n PROVE Printed(op)[1 + j] = W(j)
    <3>1. 1 + j \in 1 .. 1 + n /\ ~ (1 + j <= 1) /\ (1 + j) - 1 = j
      BY <2>2
    <3>2. Printed(op)[1 + j] = words[j]
      BY <2>1, <2>7, <3>1
    <3>3. QED
      BY <2>5, <3>2
  <2>10. QED
    <3>1. line = HeadLine(op) /\ \A j : W(j) = WordOf(op, j)
      BY DEF line, W, HeadLine, WordOf
    <3>2. HeadLine(op).name = op.op /\ \A j : WordOf(op, j).name = "blockwrite_word"
      BY DEF HeadLine, WordOf
    <3>3. QED
      BY <1>1, <1>4, <2>1, <2>7, <2>8, <2>9, <3>1, <3>2 DEF n
<1>5. QED
  BY <1>3, <1>4

LEMMA PrintedMore ==
  ASSUME NEW lines \in Seq(LineSet), NEW t, NEW n \in Nat, PrintedTo(lines, t, n), n < t.count,
         t.ops[n + 1].op \in Analyzed
  PROVE  PrintedTo(lines \o Printed(t.ops[n + 1]), t, n + 1)
<1> DEFINE list == t.ops
           c == t.cols
           new == Printed(list[n + 1])
           w == Len(list[n + 1].words)
           more == lines \o new
           T(k) == LinesTo(list, k)
<1>1. /\ WellFormed(t) /\ (\A k \in 1 .. n : t.ops[k].op \in Analyzed)
      /\ Len(lines) = c + T(n) /\ (\A k \in 1 .. c : lines[k] = AttachLines(c)[k])
      /\ \A k \in 1 .. n : \A j \in 0 .. Len(list[k].words) :
           lines[c + T(k - 1) + 1 + j] = Printed(list[k])[1 + j]
      /\ \A k \in c + 1 .. Len(lines) : \E i \in 1 .. n : \E j \in 0 .. Len(list[i].words) :
           lines[k] = Printed(list[i])[1 + j]
  BY DEF PrintedTo, Known, Behind, From
<1>2. /\ c \in Nat /\ t.count \in Nat /\ Len(list) = t.count
      /\ \A k \in 1 .. Len(list) : LaidOut(t.version, list[k]) /\ list[k].words \in Seq(Nat)
  BY <1>1, WellFormedWorded
<1>3. n + 1 \in 1 .. Len(list) /\ (n + 1) - 1 = n /\ n \in 0 .. Len(list)
  BY <1>2
<1>4. /\ \A k \in 1 .. Len(list) : T(k) = T(k - 1) + 1 + Len(list[k].words)
      /\ \A k \in 0 .. Len(list) : T(k) \in Nat
      /\ \A i, j \in 0 .. Len(list) : i < j => T(i) < T(j)
  BY <1>2, LinesToIs
<1>5. new \in Seq(LineSet) /\ Len(new) = 1 + w /\ w \in Nat
  <2>1. LaidOut(t.version, list[n + 1]) /\ list[n + 1].op \in Analyzed /\ list[n + 1].words \in Seq(Nat)
    BY <1>2, <1>3
  <2>2. w \in Nat
    BY <2>1
  <2> HIDE DEF list
  <2>3. QED
    BY <2>1, <2>2, PrintedIs
<1> HIDE DEF T, new, list, c, w
<1>6. T(n + 1) = T(n) + 1 + w /\ T(n) \in Nat
  BY <1>3, <1>4 DEF w
<1>7. /\ Len(more) = Len(lines) + (1 + w)
      /\ \A k \in 1 .. Len(lines) + (1 + w) :
           more[k] = IF k <= Len(lines) THEN lines[k] ELSE new[k - Len(lines)]
  BY <1>5, Joined
<1> HIDE DEF more
<1> DEFINE l == Len(lines)
<1>8. l = c + T(n) /\ l \in Nat
  BY <1>1, <1>2, <1>6
<1> HIDE DEF l
<1>9. Len(more) = c + T(n + 1)
  BY <1>2, <1>5, <1>6, <1>7, <1>8 DEF l
<1>10. ASSUME NEW k \in 1 .. c PROVE more[k] = AttachLines(c)[k]
  <2>1. k \in 1 .. l + (1 + w) /\ k <= l
    BY <1>2, <1>5, <1>6, <1>8
  <2>2. QED
    BY <1>1, <1>7, <2>1 DEF l
<1>11. ASSUME NEW k \in 1 .. n, NEW j \in 0 .. Len(list[k].words)
       PROVE  more[c + T(k - 1) + 1 + j] = Printed(list[k])[1 + j]
  <2> DEFINE x == c + T(k - 1) + 1 + j
             y == Len(list[k].words)
  <2>1. k \in 1 .. Len(list) /\ k - 1 \in 0 .. Len(list) /\ k \in 0 .. Len(list) /\ (k = n \/ k < n)
    BY <1>2, <1>3
  <2>2. T(k) = T(k - 1) + 1 + y /\ T(k - 1) \in Nat /\ T(k) \in Nat /\ T(k) <= T(n) /\ y \in Nat
    <3>1. T(k) <= T(n)
      BY <1>3, <1>4, <1>6, <2>1
    <3>2. y \in Nat
      BY <1>2, <2>1
    <3>3. QED
      BY <1>4, <2>1, <3>1, <3>2
  <2>3. x \in 1 .. l + (1 + w) /\ x <= l
    <3> HIDE DEF y
    <3> DEFINE a == T(k - 1)
               b == T(n)
    <3>1. j \in 0 .. y /\ x = c + a + 1 + j /\ a \in Nat /\ b \in Nat /\ y \in Nat /\ a + 1 + y <= b
      BY <1>6, <2>2 DEF y
    <3>2. l = c + b /\ c \in Nat /\ w \in Nat /\ l \in Nat
      BY <1>2, <1>5, <1>8
    <3> HIDE DEF a, b, x
    <3>3. QED
      BY <3>1, <3>2
  <2>4. more[x] = lines[x]
    <3> HIDE DEF x
    <3>1. QED
      BY <1>7, <2>3 DEF l
  <2>5. QED
    BY <1>1, <2>4
<1>12. ASSUME NEW j \in 0 .. Len(list[n + 1].words)
       PROVE  more[c + T((n + 1) - 1) + 1 + j] = Printed(list[n + 1])[1 + j]
  <2> DEFINE x == l + 1 + j
  <2>1. j \in 0 .. w
    BY DEF w
  <2>2. x \in 1 .. l + (1 + w) /\ ~ (x <= l) /\ x - l = 1 + j /\ x = c + T((n + 1) - 1) + 1 + j
    <3> DEFINE b == T(n)
    <3>1. l = c + b /\ b = T((n + 1) - 1) /\ b \in Nat /\ c \in Nat /\ l \in Nat /\ w \in Nat
      BY <1>2, <1>3, <1>5, <1>6, <1>8
    <3> HIDE DEF b
    <3>2. x \in 1 .. l + (1 + w) /\ ~ (x <= l) /\ x - l = 1 + j /\ x = c + b + 1 + j
      BY <2>1, <3>1
    <3>3. QED
      BY <3>1, <3>2
  <2>3. more[x] = new[1 + j]
    <3> HIDE DEF x
    <3>1. QED
      BY <1>7, <2>2 DEF l
  <2>4. QED
    BY <2>2, <2>3 DEF new
<1>13. Behind(more, c, list, n + 1)
  <2>1. \A k \in 1 .. n + 1 : k \in 1 .. n \/ k = n + 1
    OBVIOUS
  <2>2. QED
    BY <1>11, <1>12, <2>1 DEF Behind, T
<1>14. Known(t, n + 1)
  <2>1. \A k \in 1 .. n + 1 : k \in 1 .. n \/ k = n + 1
    OBVIOUS
  <2>2. n + 1 <= t.count
    BY <1>2
  <2>3. QED
    BY <1>1, <2>1, <2>2 DEF Known
<1>15. ASSUME NEW k \in c + 1 .. Len(more)
       PROVE  \E i \in 1 .. n + 1 : \E j \in 0 .. Len(list[i].words) : more[k] = Printed(list[i])[1 + j]
  <2>1. k \in 1 .. l + (1 + w) /\ l = Len(lines)
    BY <1>2, <1>5, <1>7, <1>8 DEF l
  <2>2. CASE k <= l
    <3>1. k \in c + 1 .. Len(lines) /\ more[k] = lines[k]
      BY <1>2, <1>7, <2>1, <2>2
    <3>2. PICK i \in 1 .. n : \E j \in 0 .. Len(list[i].words) : lines[k] = Printed(list[i])[1 + j]
      BY <1>1, <3>1
    <3>3. i \in 1 .. n + 1
      OBVIOUS
    <3>4. QED
      BY <3>1, <3>2, <3>3
  <2>3. CASE ~ (k <= l)
    <3> DEFINE j == k - l - 1
    <3>1. j \in 0 .. w /\ k - l = 1 + j /\ n + 1 \in 1 .. n + 1
      BY <1>5, <1>8, <2>1, <2>3
    <3>2. more[k] = new[1 + j]
      <4> HIDE DEF j
      <4>1. QED
        BY <1>7, <2>1, <2>3, <3>1
    <3>3. j \in 0 .. Len(list[n + 1].words) /\ more[k] = Printed(list[n + 1])[1 + j]
      BY <3>1, <3>2 DEF w, new
    <3> HIDE DEF j
    <3>4. QED
      BY <3>1, <3>3
  <2>4. QED
    BY <2>2, <2>3
<1>16. From(more, c, list, n + 1)
  BY <1>15 DEF From
<1>17. QED
  BY <1>9, <1>10, <1>13, <1>14, <1>16 DEF PrintedTo, more, new, list, c, T

(* Before its operations a text is the lines of its columns.               *)
LEMMA PrintedNone ==
  ASSUME NEW t, WellFormed(t)
  PROVE  PrintedTo(AttachLines(t.cols), t, 0)
<1>1. t.cols \in Nat /\ t.count \in Nat /\ Len(t.ops) = t.count
      /\ \A k \in 1 .. Len(t.ops) : t.ops[k].words \in Seq(Nat)
  BY WellFormedWorded
<1>2. LinesTo(t.ops, 0) = 0
  BY <1>1, LinesToIs
<1>3. Len(AttachLines(t.cols)) = t.cols
  BY <1>1, AttachLinesOK
<1>4. QED
  BY <1>1, <1>2, <1>3 DEF PrintedTo, Known, Behind, From

LEMMA PrintNext ==
  ASSUME AsmTypeOK, ColsOK, WalkOK, PrintOK, [Next]_vars
  PROVE  PrintOK'
<1> USE DEF PrintOK
<1>1. CASE UNCHANGED <<text, given>> /\ pass' = pass /\ stage' \notin {"count", "print"}
  BY <1>1
<1>2. ASSUME NEW line \in NextLine, ParseOperation(line) \/ AttachToGroup(line) \/ ParseLabel(line)
      PROVE  PrintOK'
  <2>1. UNCHANGED <<text, given>> /\ pass' = pass /\ stage' = "parse"
    BY <1>2 DEF ParseOperation, AttachToGroup, ParseLabel, Read, analyzer
  <2>2. QED
    BY <1>1, <2>1
<1>3. CASE EndOfSource \/ ExtendOperation \/ AssembleOperation \/ RejectExtension \/ RejectOperation
           \/ ReadBeyondOperands \/ RejectUnknown
  <2>1. UNCHANGED <<text, given>> /\ pass' = pass /\ stage' \notin {"count", "print"}
    BY <1>3 DEF EndOfSource, ExtendOperation, AssembleOperation, Assembling, RejectExtension,
                RejectOperation, RejectLine, ReadBeyondOperands, RejectUnknown, parser, encoder, analyzer
  <2>2. QED
    BY <1>1, <2>1
<1>4. CASE Encode
  <2>1. UNCHANGED <<text, given>> /\ pass' = pass /\ num' = num /\ stage = "assemble"
        /\ stage' = (IF pass = 1 THEN "count" ELSE "done")
    BY <1>4 DEF Encode
  <2>2. WellFormed(txn')
    BY <1>4, EncodedWellFormed
  <2>3. txn'.count \in Nat
    BY <2>2 DEF WellFormed
  <2>4. pass = 1 => num = 0
    BY <2>1 DEF WalkOK
  <2>5. pass = 1 => Known(txn', 0)
    BY <2>2, <2>3 DEF Known
  <2>6. QED
    BY <2>1, <2>4, <2>5
<1>5. CASE CountOperation
  <2>1. /\ stage = "count" /\ stage' = "count" /\ num < txn.count /\ Current.op \in Analyzed
        /\ UNCHANGED <<txn, text, given, pass>> /\ num' = num + 1
    BY <1>5 DEF CountOperation, Walking, StepOver
  <2>2. WellFormed(txn) /\ num \in Nat /\ ptr = Total(txn.ops)[num] /\ txn.count \in Nat
    BY <2>1, WellFormedMeasured DEF WalkOK, AsmTypeOK
  <2>3. Current = txn.ops[num + 1]
    BY <2>1, <2>2, WalkStands
  <2>4. Known(txn, num + 1)
    <3>1. \A k \in 1 .. num + 1 : k \in 1 .. num \/ k = num + 1
      BY <2>2
    <3>2. QED
      BY <2>1, <2>2, <2>3, <3>1 DEF Known
  <2>5. QED
    BY <2>1, <2>4
<1>6. CASE StartPrint
  <2>1. /\ stage = "count" /\ stage' = "print" /\ text' = AttachLines(txn.cols) /\ num' = 0
        /\ UNCHANGED <<txn, given, pass>> /\ pass = 1
    BY <1>6 DEF StartPrint, AsmTypeOK
  <2>2. PrintedTo(AttachLines(txn.cols), txn, 0)
    BY <2>1, PrintedNone DEF Known
  <2>3. QED
    BY <2>1, <2>2
<1>7. CASE PrintOperation
  <2>1. /\ stage = "print" /\ stage' = "print" /\ num < txn.count /\ Current.op \in Analyzed
        /\ UNCHANGED <<txn, given, pass>> /\ num' = num + 1 /\ text' = text \o Printed(Current) /\ pass = 1
    BY <1>7 DEF PrintOperation, Walking, StepOver, AsmTypeOK
  <2>2. WellFormed(txn) /\ num \in Nat /\ ptr = Total(txn.ops)[num] /\ text \in Seq(LineSet)
    BY <2>1 DEF WalkOK, AsmTypeOK
  <2>3. Current = txn.ops[num + 1]
    BY <2>1, <2>2, WalkStands
  <2>4. PrintedTo(text \o Printed(txn.ops[num + 1]), txn, num + 1)
    BY <2>1, <2>2, <2>3, PrintedMore
  <2>5. QED
    BY <2>1, <2>3, <2>4
<1>8. CASE Reassemble
  <2>1. /\ stage = "print" /\ num = txn.count /\ stage' = "parse" /\ given' = txn /\ text' = text
    BY <1>8 DEF Reassemble, analyzer
  <2>2. QED
    BY <2>1
<1>9. CASE Ended \/ UNCHANGED vars
  <2>1. UNCHANGED <<stage, pass, txn, given, num, text>>
    BY <1>9 DEF Ended, vars, analyzer
  <2>2. QED
    BY <2>1
<1>10. QED
  BY <1>2, <1>3, <1>4, <1>5, <1>6, <1>7, <1>8, <1>9 DEF Next

(* What an operation of a readable transaction prints.                     *)
Clear(op) == op.op \notin {"loadpdi", "read_regs"}

LEMMA ReadableIs ==
  ASSUME NEW t, Known(t, t.count), Readable(t), NEW k \in 1 .. t.count
  PROVE  LaidOut(t.version, t.ops[k]) /\ t.ops[k].op \in Mnemonics /\ Clear(t.ops[k])
<1>1. WellFormed(t) /\ t.ops[k].op \in Analyzed
  BY DEF Known
<1>2. LaidOut(t.version, t.ops[k]) /\ DOMAIN t.ops = 1 .. t.count
  BY <1>1, WellFormedWorded
<1>3. Clear(t.ops[k])
  BY <1>2 DEF Readable, Clear
<1>4. QED
  BY <1>1, <1>2, <1>3 DEF Analyzed, Clear

LEMMA LinesAgain ==
  ASSUME AsmTypeOK, PrintOK, pass = 2, Readable(given), NEW line \in NextLine
  PROVE  /\ given.cols \in Nat /\ Len(source) \in Nat /\ Len(text) \in Nat
         /\ Len(source) + 1 \in 1 .. Len(text) /\ line = text[Len(source) + 1]
         /\ Len(source) + 1 <= given.cols =>
              line.name = "attach_to_group" /\ line.col = Len(source)
         /\ Len(source) + 1 > given.cols => line.name \notin {"attach_to_group", "label"}
<1> DEFINE n == given.cols
           s == Len(source)
<1>1. s \in Nat /\ text \in Seq(LineSet) /\ Len(text) \in Nat /\ DOMAIN text = 1 .. Len(text)
  BY DEF AsmTypeOK
<1>2. s + 1 \in 1 .. Len(text) /\ line = text[s + 1]
  BY <1>1 DEF NextLine
<1>3. /\ Known(given, given.count) /\ From(text, n, given.ops, given.count)
      /\ \A k \in 1 .. n : text[k] = AttachLines(n)[k]
  BY DEF PrintOK, PrintedTo
<1>4. n \in Nat
  BY <1>3, WellFormedWorded DEF Known
<1>5. ASSUME s + 1 <= n
      PROVE  line.name = "attach_to_group" /\ line.col = s
  <2>1. s + 1 \in 1 .. n /\ (s + 1) - 1 = s
    BY <1>1, <1>4, <1>5
  <2>2. AttachLines(n)[s + 1] = [name |-> "attach_to_group", col |-> (s + 1) - 1, args |-> <<>>]
    <3> HIDE DEF n, s
    <3>1. QED
      BY <2>1 DEF AttachLines
  <2>3. line = [name |-> "attach_to_group", col |-> s, args |-> <<>>]
    BY <1>2, <1>3, <2>1, <2>2
  <2>4. QED
    BY <2>3
<1>6. ASSUME s + 1 > n
      PROVE  line.name \notin {"attach_to_group", "label"}
  <2>1. s + 1 \in n + 1 .. Len(text)
    BY <1>1, <1>2, <1>4, <1>6
  <2>2. PICK i \in 1 .. given.count : \E j \in 0 .. Len(given.ops[i].words) :
          text[s + 1] = Printed(given.ops[i])[1 + j]
    <3> HIDE DEF s, n
    <3>1. QED
      BY <1>3, <2>1 DEF From
  <2> DEFINE op == given.ops[i]
  <2>3. PICK j \in 0 .. Len(op.words) : text[s + 1] = Printed(op)[1 + j]
    BY <2>2
  <2>4. LaidOut(given.version, op) /\ op.op \in Mnemonics /\ Clear(op) /\ op.op \in Analyzed
    BY <1>3, ReadableIs, NamesApart
  <2> HIDE DEF op, n, s
  <2>5. /\ Printed(op)[1].name = op.op
        /\ \A k \in 1 .. Len(op.words) : Printed(op)[1 + k].name = "blockwrite_word"
    BY <2>4, PrintedIs DEF Clear
  <2>6. Len(op.words) \in Nat /\ 1 + 0 = 1
    BY <2>4 DEF LaidOut
  <2>7. line.name \in Mnemonics \cup {"blockwrite_word"}
    <3>1. CASE j = 0
      BY <1>2, <2>3, <2>4, <2>5, <2>6, <3>1
    <3>2. CASE j # 0
      <4>1. j \in 1 .. Len(op.words)
        BY <2>6, <3>2
      <4>2. QED
        BY <1>2, <2>3, <2>5, <4>1
    <3>3. QED
      BY <3>1, <3>2
  <2>8. QED
    BY <2>7, NamesApart
<1>7. QED
  BY <1>1, <1>2, <1>4, <1>5, <1>6

(* A group more, or a line more in the last column.                        *)
LEMMA AttachedMore ==
  ASSUME ColsOK, label \in Nat, NEW n \in Nat, NEW s \in Nat, HandedOn(n, s), s + 1 <= n
  PROVE  /\ DOMAIN Put(Inserted(Eof), s, <<>>) = 0 .. s
         /\ Put(Inserted(Eof), s, <<>>)[s] = <<>>
<1>1. col = s - 1 /\ DOMAIN cols = 0 .. col
  BY DEF HandedOn
<1>2. DOMAIN Inserted(Eof) = {Column} \cup DOMAIN cols
  BY EofIsLine, InsertedIs
<1>3. Column = IF s = 0 THEN 0 ELSE s - 1
  BY <1>1 DEF Column
<1>4. {s} \cup ({Column} \cup DOMAIN cols) = 0 .. s
  BY <1>1, <1>3
<1>5. QED
  BY <1>2, <1>4 DEF Put

LEMMA OperationMore ==
  ASSUME ColsOK, text \in Seq(LineSet), NEW n \in Nat, NEW s \in Nat, HandedOn(n, s), s >= n,
         NEW line \in LineSet, line = text[s + 1]
  PROVE  /\ Column = LastOf(n) /\ DOMAIN Inserted(line) = 0 .. LastOf(n)
         /\ DOMAIN Inserted(line)[LastOf(n)] = {0}
         /\ Len(Inserted(line)[LastOf(n)][0]) = s + 1 - n
         /\ \A k \in 1 .. s + 1 - n : Inserted(line)[LastOf(n)][0][k] = text[n + k]
<1> DEFINE c == LastOf(n)
           old == LabelsOf(c)
           lines == IF 0 \in DOMAIN old THEN old[0] ELSE <<>>
           new == Append(lines, line)
<1>1. label = 0 /\ c \in Nat
  BY DEF HandedOn, LastOf
<1>2. Column = c
  <2>1. CASE n = 0
    BY <2>1 DEF HandedOn, Column, LastOf
  <2>2. CASE n # 0
    BY <2>2 DEF HandedOn, Column, LastOf
  <2>3. QED
    BY <2>1, <2>2
<1>3. Inserted(line) = Put(cols, c, Put(old, 0, new))
  BY <1>1, <1>2 DEF Inserted
<1>4. DOMAIN Inserted(line) = {c} \cup DOMAIN cols /\ Inserted(line)[c] = Put(old, 0, new)
  <2> HIDE DEF c, old, new
  <2>1. QED
    BY <1>3 DEF Put
<1>5. DOMAIN Put(old, 0, new) = {0} \cup DOMAIN old /\ Put(old, 0, new)[0] = new
  <2> HIDE DEF old, new
  <2>1. QED
    BY DEF Put
<1>6. {c} \cup DOMAIN cols = 0 .. c
  <2>1. CASE n = 0 /\ s = 0
    BY <2>1 DEF HandedOn, LastOf
  <2>2. CASE ~ (n = 0 /\ s = 0)
    BY <2>2 DEF HandedOn, LastOf
  <2>3. QED
    BY <2>1, <2>2
<1>7. /\ DOMAIN old \subseteq {0} /\ Len(lines) = s - n /\ lines \in Seq(LineSet)
      /\ \A k \in 1 .. s - n : lines[k] = text[n + k]
  <2>1. CASE s = n
    <3>1. old = <<>>
      <4>1. CASE n = 0
        <5>1. DOMAIN cols = {}
          BY <2>1, <4>1 DEF HandedOn
        <5>2. QED
          BY <5>1 DEF LabelsOf
      <4>2. CASE n # 0
        <5>1. col = c /\ cols[col] = <<>>
          BY <2>1, <4>2 DEF HandedOn, LastOf
        <5>2. QED
          BY <5>1 DEF LabelsOf
      <4>3. QED
        BY <4>1, <4>2
    <3>2. DOMAIN old = {}
      BY <3>1
    <3>3. lines = <<>> /\ Len(<<>>) = 0
      BY <3>2
    <3> HIDE DEF old, lines
    <3>4. QED
      BY <2>1, <3>2, <3>3, EmptySeq
  <2>2. CASE s # n
    <3>1. /\ col = c /\ DOMAIN cols[c] = {0} /\ c \in DOMAIN cols
          /\ Len(cols[c][0]) = s - n /\ \A k \in 1 .. s - n : cols[c][0][k] = text[n + k]
      BY <1>1, <2>2 DEF HandedOn, LastOf
    <3>2. old = cols[c]
      BY <3>1 DEF LabelsOf
    <3>3. lines = cols[c][0]
      BY <3>1, <3>2
    <3>4. lines \in Seq(LineSet)
      BY <3>1, <3>3 DEF ColsOK
    <3> HIDE DEF old, lines
    <3>5. QED
      BY <3>1, <3>2, <3>3, <3>4
  <2>3. QED
    BY <2>1, <2>2
<1> HIDE DEF c, old, lines
<1>8. Len(new) = s + 1 - n /\ \A k \in 1 .. s + 1 - n : new[k] = text[n + k]
  <2> DEFINE m == s - n
  <2>1. m \in Nat /\ m + 1 = s + 1 - n /\ n + (m + 1) = s + 1
    OBVIOUS
  <2> HIDE DEF m
  <2>2. Len(lines) = m /\ \A k \in 1 .. m : lines[k] = text[n + k]
    BY <1>7 DEF m
  <2>3. Len(new) = m + 1 /\ new[m + 1] = line /\ \A k \in 1 .. m : new[k] = lines[k]
    BY <1>7, <2>1, <2>2
  <2>4. \A k \in 1 .. m + 1 : k \in 1 .. m \/ k = m + 1
    BY <2>1
  <2>5. QED
    BY <2>1, <2>2, <2>3, <2>4
<1> HIDE DEF new
<1>9. QED
  BY <1>2, <1>4, <1>5, <1>6, <1>7, <1>8 DEF c

LEMMA HandedNext ==
  ASSUME AsmTypeOK, ColsOK, PrintOK, pass = 2, Readable(given), HandedOn(given.cols, Len(source)),
         NEW line \in NextLine, ParseOperation(line) \/ AttachToGroup(line) \/ ParseLabel(line)
  PROVE  HandedOn(given.cols, Len(source))'
<1> DEFINE n == given.cols
           s == Len(source)
<1>1. /\ n \in Nat /\ s \in Nat /\ s + 1 <= Len(text) /\ line = text[s + 1]
      /\ s + 1 <= n => line.name = "attach_to_group" /\ line.col = s
      /\ s + 1 > n => line.name \notin {"attach_to_group", "label"}
  BY LinesAgain
<1>2. /\ source' = Append(source, line) /\ given' = given /\ text' = text
      /\ source \in Seq(LineSet) /\ line \in LineSet /\ text \in Seq(LineSet) /\ label \in Nat
  BY NextLineOK DEF ParseOperation, AttachToGroup, ParseLabel, Read, analyzer, AsmTypeOK
<1>3. Len(source)' = s + 1 /\ given.cols' = n
  BY <1>2
<1>4. label = 0
  BY DEF HandedOn
<1>5. CASE s + 1 <= n
  <2>1. AttachToGroup(line) /\ line.col = s
    BY <1>1, <1>5 DEF ParseOperation, ParseLabel
  <2>2. cols' = Put(Inserted(Eof), s, <<>>) /\ col' = s /\ label' = label
    BY <2>1 DEF AttachToGroup
  <2> HIDE DEF n, s
  <2>3. DOMAIN cols' = 0 .. s /\ cols'[s] = <<>>
    <3>1. HandedOn(n, s)
      BY DEF n, s
    <3>2. QED
      BY <1>1, <1>2, <1>5, <2>2, <3>1, AttachedMore
  <2>4. s = (s + 1) - 1 /\ ~ (n < s + 1)
    BY <1>1, <1>5
  <2>5. QED
    BY <1>1, <1>2, <1>3, <1>4, <1>5, <2>2, <2>3, <2>4 DEF HandedOn
<1>6. CASE s + 1 > n
  <2>1. ParseOperation(line)
    BY <1>1, <1>6 DEF AttachToGroup, ParseLabel
  <2>2. cols' = Inserted(line) /\ col' = Column /\ label' = label
    BY <2>1 DEF ParseOperation
  <2> HIDE DEF n, s
  <2>3. /\ Column = LastOf(n) /\ DOMAIN Inserted(line) = 0 .. LastOf(n)
        /\ DOMAIN Inserted(line)[LastOf(n)] = {0}
        /\ Len(Inserted(line)[LastOf(n)][0]) = s + 1 - n
        /\ \A k \in 1 .. s + 1 - n : Inserted(line)[LastOf(n)][0][k] = text[n + k]
    <3>1. HandedOn(n, s)
      BY DEF n, s
    <3>2. s >= n
      BY <1>1, <1>6
    <3>3. QED
      BY <1>1, <1>2, <3>1, <3>2, OperationMore
  <2>4. ~ (s + 1 <= n) /\ n < s + 1
    BY <1>1, <1>6
  <2>5. QED
    BY <1>1, <1>2, <1>3, <1>4, <2>2, <2>3, <2>4 DEF HandedOn
<1>7. QED
  BY <1>1, <1>5, <1>6

(* What the assembler is handed: the lines of the operations.              *)
LEMMA AsmAgain ==
  ASSUME AsmTypeOK, ColsOK, PrintOK, pass = 2, Readable(given), HandedOn(given.cols, Len(text))
  PROVE  /\ Last = LastOf(given.cols) /\ Last \in DOMAIN cols /\ Cardinality(DOMAIN cols[Last]) = 1
         /\ Cardinality(DOMAIN cols) = LastOf(given.cols) + 1
         /\ Len(Asm) = LinesTo(given.ops, given.count) /\ Behind(Asm, 0, given.ops, given.count)
<1> DEFINE n == given.cols
           c == LastOf(n)
           list == given.ops
           m == given.count
           L(k) == LinesTo(list, k)
<1>1. Known(given, m) /\ Len(text) = n + L(m) /\ Behind(text, n, list, m)
  BY DEF PrintOK, PrintedTo
<1>2. /\ n \in Nat /\ m \in Nat /\ Len(list) = m
      /\ \A k \in 1 .. Len(list) : list[k].words \in Seq(Nat)
  BY <1>1, WellFormedWorded DEF Known
<1>3. /\ L(0) = 0 /\ \A k \in 1 .. m : L(k) = L(k - 1) + 1 + Len(list[k].words)
      /\ \A k \in 0 .. m : L(k) \in Nat
      /\ \A i, j \in 0 .. m : i < j => L(i) < L(j)
  <2>1. Len(list) \in Nat
    BY <1>2
  <2> HIDE DEF list
  <2>2. QED
    BY <1>2, <2>1, LinesToIs
<1>4. m > 0 /\ L(m) \in Nat /\ L(m) > 0
  <2>1. m > 0
    BY DEF Readable
  <2>2. 0 \in 0 .. m /\ m \in 0 .. m
    BY <1>2
  <2> HIDE DEF L, m
  <2>3. QED
    BY <1>3, <2>1, <2>2
<1> HIDE DEF L, list, m
<1>5. c \in Nat
  BY <1>2 DEF LastOf
<1>6. /\ DOMAIN cols = 0 .. c /\ DOMAIN cols[c] = {0} /\ Len(cols[c][0]) = L(m)
      /\ \A k \in 1 .. L(m) : cols[c][0][k] = text[n + k]
  <2>1. n < Len(text) /\ Len(text) - n = L(m) /\ ~ (Len(text) <= n)
    BY <1>1, <1>2, <1>4
  <2>2. col = c
    BY <2>1 DEF HandedOn
  <2>3. QED
    BY <2>1, <2>2 DEF HandedOn
<1> HIDE DEF c, n
<1>7. Cardinality(0 .. c) = c + 1
  BY <1>5, FS_Interval
<1>8. Last = c
  BY <1>5, <1>6, <1>7 DEF Last
<1>9. Last \in DOMAIN cols /\ Cardinality(DOMAIN cols[Last]) = 1 /\ c \in DOMAIN cols
  <2>1. Cardinality({0}) = 1
    BY FS_Singleton
  <2>2. c \in 0 .. c
    BY <1>5
  <2>3. QED
    BY <1>6, <1>8, <2>1, <2>2
<1>10. Asm = cols[c][0]
  BY <1>6, <1>8, <1>9, AsmIs
<1>11. ASSUME NEW k \in 1 .. m, NEW j \in 0 .. Len(list[k].words)
       PROVE  Asm[0 + L(k - 1) + 1 + j] = Printed(list[k])[1 + j]
  <2> DEFINE a == L(k - 1)
             b == L(k)
             w == Len(list[k].words)
  <2>1. k - 1 \in 0 .. m /\ k \in 0 .. m /\ m \in 0 .. m /\ (k = m \/ k < m)
    BY <1>2
  <2>2. b = a + 1 + w /\ a \in Nat /\ b \in Nat /\ b <= L(m) /\ w \in Nat
    <3>1. w \in Nat
      BY <1>2
    <3>2. QED
      BY <1>3, <1>4, <2>1, <3>1
  <2>3. j \in 0 .. w
    OBVIOUS
  <2>4. text[n + a + 1 + j] = Printed(list[k])[1 + j]
    BY <1>1 DEF Behind, L
  <2> HIDE DEF a, b, w
  <2>5. 0 + a + 1 + j \in 1 .. L(m) /\ n + (0 + a + 1 + j) = n + a + 1 + j
    BY <1>2, <1>4, <2>2, <2>3
  <2>6. Asm[0 + a + 1 + j] = Printed(list[k])[1 + j]
    BY <1>6, <1>10, <2>4, <2>5
  <2>7. QED
    BY <2>6 DEF a
<1>12. Behind(Asm, 0, list, m)
  BY <1>11 DEF Behind, L
<1>13. QED
  BY <1>6, <1>7, <1>8, <1>9, <1>10, <1>12 DEF c, L, list, m, n

(* The line of an operation is accepted and its fields are read whole.     *)
LEMMA HeadAssembles ==
  ASSUME NEW version, NEW op, LaidOut(version, op), op.op \in Mnemonics
  PROVE  /\ Assembles(HeadLine(op)) /\ ~ ReadsBeyondOperands(HeadLine(op))
         /\ Fields(HeadLine(op)) = op.fields /\ HeadLine(op).name = op.op
<1> DEFINE n == Len(op.fields)
           line == HeadLine(op)
           forms == Operands[op.op]
           args == [k \in DOMAIN op.fields |-> <<forms[k], op.fields[k]>>]
<1>1. /\ op.fields \in Seq(Nat) /\ n = Len(forms)
      /\ \A k \in DOMAIN op.fields : op.fields[k] < Capacity[StoredBytes[op.op][k]]
  BY DEF LaidOut
<1>2. n \in Nat /\ DOMAIN op.fields = 1 .. n /\ forms \in Seq(Forms) /\ DOMAIN forms = 1 .. n
  <2>1. forms \in Seq(Forms)
    BY OperandForms
  <2> HIDE DEF forms
  <2>2. QED
    BY <1>1, <2>1
<1>3. line = [name |-> op.op, args |-> args]
  BY DEF HeadLine
<1>4. Len(args) = n /\ \A k \in 1 .. n : args[k] = <<forms[k], op.fields[k]>>
  <2> HIDE DEF n, forms
  <2>1. args = [k \in 1 .. n |-> <<forms[k], op.fields[k]>>]
    BY <1>2
  <2> HIDE DEF args
  <2>2. QED
    BY <1>2, <2>1
<1> HIDE DEF args, line, n
<1>5. line.name = op.op /\ line.args = args
  BY <1>3
<1>6. ASSUME NEW k \in 1 .. n
      PROVE  /\ Fits(forms[k], ReadBytes[op.op][k], args[k])
             /\ ValueRead(forms[k], args[k]) = op.fields[k]
             /\ op.fields[k] \in Nat /\ StoredBytes[op.op][k] \in 1 .. 8
             /\ op.fields[k] < Capacity[StoredBytes[op.op][k]]
  <2> DEFINE v == op.fields[k]
             form == forms[k]
             read == ReadBytes[op.op][k]
             kept == StoredBytes[op.op][k]
  <2>1. form \in Forms /\ v \in Nat /\ args[k] = <<form, v>> /\ v < Capacity[kept]
    BY <1>1, <1>2, <1>4
  <2>2. read \in 1 .. 8 /\ kept \in 1 .. 8 /\ kept <= read
    BY <1>1, OperandBytes DEF Widths
  <2> HIDE DEF v, form, read, kept
  <2>3. form # "dec" /\ args[k] \in Written /\ args[k][1] = form /\ args[k][2] = v
    BY <2>1, WrittenValue DEF Forms
  <2>4. ValueRead(form, args[k]) = v
    BY <2>3, ValueIsRead
  <2>5. Capacity[kept] <= Capacity[read] /\ Capacity[kept] \in Nat /\ Capacity[read] \in Nat
    BY <2>2, SizesAssumption
  <2>6. v < Capacity[read]
    BY <2>1, <2>5
  <2>7. Accepts(form, args[k])
    BY <2>3 DEF Accepts, Prefixed, Numeric
  <2>8. Fits(form, read, args[k])
    BY <2>4, <2>6, <2>7 DEF Fits
  <2>9. QED
    BY <2>1, <2>2, <2>4, <2>8 DEF v, form, read, kept
<1>7. Operands[line.name] = forms
  BY <1>5
<1> HIDE DEF forms
<1>8. Assembles(line)
  BY <1>1, <1>2, <1>4, <1>5, <1>6, <1>7 DEF Assembles
<1>9. ~ ReadsBeyondOperands(line)
  BY <1>1, <1>2, <1>4, <1>5, <1>7 DEF ReadsBeyondOperands
<1>10. Fields(line) = op.fields
  <2>1. Fields(line) = [k \in 1 .. n |-> Cut(ValueRead(forms[k], args[k]), StoredBytes[op.op][k])]
    BY <1>2, <1>5, <1>7 DEF Fields
  <2>2. \A k \in 1 .. n : Cut(op.fields[k], StoredBytes[op.op][k]) = op.fields[k]
    BY <1>6, CutFits
  <2>3. \A k \in 1 .. n : Cut(ValueRead(forms[k], args[k]), StoredBytes[op.op][k]) = op.fields[k]
    BY <1>6, <2>2
  <2>4. Fields(line) = [k \in 1 .. n |-> op.fields[k]]
    BY <2>1, <2>3
  <2>5. op.fields = [k \in 1 .. n |-> op.fields[k]]
    BY <1>1, <1>2
  <2>6. QED
    BY <2>4, <2>5
<1>11. QED
  BY <1>5, <1>8, <1>9, <1>10 DEF line

(* The operation that is made of it, before and while its words are read.  *)
LEMMA CopyMade ==
  ASSUME NEW version, NEW old, LaidOut(version, old), old.op \in Mnemonics
  PROVE  /\ Copies(Operation(HeadLine(old)), old)
         /\ Operation(HeadLine(old)).outstanding = Len(old.words)
<1> DEFINE line == HeadLine(old)
           op == Operation(line)
           extra == IF line.name = "blockwrite" THEN Fields(line)[2] ELSE 0
<1>1. Fields(line) = old.fields /\ line.name = old.op
  BY HeadAssembles
<1>2. extra = Len(old.words) /\ Len(old.words) \in Nat
  BY <1>1 DEF LaidOut
<1>3. /\ op.op = line.name /\ op.fields = Fields(line) /\ op.outstanding = extra
      /\ op.words = [k \in 1 .. extra |-> 0]
  BY DEF Operation
<1>4. Len(op.words) = Len(old.words)
  <2> HIDE DEF extra, op
  <2>1. QED
    BY <1>2, <1>3
<1> HIDE DEF extra, op, line
<1>5. \A j \in 1 .. Len(old.words) - op.outstanding : FALSE
  BY <1>2, <1>3
<1>6. QED
  BY <1>1, <1>2, <1>3, <1>4, <1>5 DEF Copies, op, line

LEMMA CopyExtended ==
  ASSUME NEW op \in OpRecord, OpOK(op), op.outstanding > 0, NEW old, old.words \in Seq(Nat), Copies(op, old),
         NEW v \in Nat, v < Capacity[WordBytes], v = old.words[ExtensionIndex(op) + 1]
  PROVE  /\ Copies(Extension(op, v), old) /\ Extension(op, v).outstanding = op.outstanding - 1
         /\ ExtensionIndex(op) + 1 \in 1 .. Len(op.words)
<1> DEFINE ext == Extension(op, v)
           i == ExtensionIndex(op) + 1
<1>1. Extended(op, v, ext)
  BY ExtensionLaidOut
<1> HIDE DEF ext
<1>2. /\ i \in 1 .. Len(op.words) /\ ext.words = [op.words EXCEPT ![i] = v]
      /\ Len(ext.words) = Len(op.words) /\ ext.op = op.op /\ ext.fields = op.fields
      /\ ext.outstanding = op.outstanding - 1
  BY <1>1 DEF Extended
<1>3. /\ op.op = old.op /\ op.fields = old.fields /\ Len(op.words) = Len(old.words)
      /\ \A j \in 1 .. Len(old.words) - op.outstanding : op.words[j] = old.words[j]
  BY DEF Copies
<1>4. op.outstanding \in Nat /\ op.words \in Seq(Nat) /\ Len(op.words) \in Nat
  BY DEF OpRecord
<1>5. i = Len(op.words) - op.outstanding + 1
  BY DEF ExtensionIndex
<1>6. v = old.words[i]
  OBVIOUS
<1> HIDE DEF i
<1>7. ASSUME NEW j \in 1 .. Len(old.words) - ext.outstanding PROVE ext.words[j] = old.words[j]
  <2>1. j = i \/ (j \in 1 .. Len(old.words) - op.outstanding /\ j # i)
    BY <1>2, <1>3, <1>4, <1>5
  <2>2. j \in 1 .. Len(op.words) /\ DOMAIN op.words = 1 .. Len(op.words)
    <3>1. i \in 1 .. Len(op.words)
      BY <1>2
    <3>2. j \in 1 .. Len(op.words)
      BY <1>3, <1>4, <1>5, <2>1, <3>1
    <3>3. QED
      BY <1>4, <3>2
  <2>3. ext.words[j] = IF j = i THEN v ELSE op.words[j]
    BY <1>2, <2>2
  <2>4. QED
    BY <1>3, <1>6, <2>1, <2>3
<1>8. QED
  BY <1>2, <1>3, <1>7 DEF Copies, ext, i

(* The line that comes next is that of the next operation or of the next   *)
(* word of the last one.                                                   *)
Again ==
  /\ AsmTypeOK /\ ColsOK /\ BegunOK /\ PrintOK
  /\ pass = 2 /\ Readable(given) /\ stage = "assemble"
  /\ HandedOn(given.cols, Len(text)) /\ CopiedTo(given.ops)

LEMMA OutstandingIs ==
  ASSUME AsmTypeOK
  PROVE  Outstanding \in Nat /\ (ops = <<>> <=> Len(ops) = 0) /\ Len(ops) \in Nat
<1>1. ops \in Seq(OpRecord) /\ Len(ops) \in Nat /\ (ops = <<>> <=> Len(ops) = 0)
  BY EmptySeq DEF AsmTypeOK
<1>2. CASE ops # <<>>
  <2>1. Len(ops) \in 1 .. Len(ops)
    BY <1>1, <1>2
  <2>2. ops[Len(ops)] \in OpRecord
    BY <1>1, <2>1
  <2>3. QED
    BY <1>1, <1>2, <2>2 DEF Outstanding, OpRecord
<1>3. QED
  BY <1>1, <1>2 DEF Outstanding

LEMMA AgainLine ==
  ASSUME Again, Assembling
  PROVE  /\ Outstanding = 0 =>
              /\ Len(ops) + 1 \in 1 .. given.count
              /\ Line = HeadLine(given.ops[Len(ops) + 1])
         /\ Outstanding > 0 =>
              /\ Len(ops) \in 1 .. given.count
              /\ ExtensionIndex(ops[Len(ops)]) + 1 \in 1 .. Len(given.ops[Len(ops)].words)
              /\ Line = WordOf(given.ops[Len(ops)], ExtensionIndex(ops[Len(ops)]) + 1)
<1> DEFINE list == given.ops
           count == given.count
           m == Len(ops)
           out == Outstanding
           L(k) == LinesTo(list, k)
<1>1. /\ AsmTypeOK /\ ColsOK /\ BegunOK /\ PrintOK /\ pass = 2 /\ Readable(given)
      /\ HandedOn(given.cols, Len(text)) /\ CopiedTo(list)
  BY DEF Again
<1>2. Known(given, count) /\ WellFormed(given)
  BY <1>1 DEF PrintOK, PrintedTo, Known
<1>3. count \in Nat /\ Len(list) = count /\ \A k \in 1 .. count : list[k].words \in Seq(Nat)
  BY <1>2, WellFormedWorded
<1>4. /\ \A k \in 1 .. count : L(k) = L(k - 1) + 1 + Len(list[k].words)
      /\ \A k \in 0 .. count : L(k) \in Nat
  <2> HIDE DEF list
  <2>1. Len(list) \in Nat /\ \A k \in 1 .. Len(list) : list[k].words \in Seq(Nat)
    BY <1>3
  <2>2. QED
    BY <1>3, <2>1, LinesToIs
<1>5. Len(Asm) = L(count) /\ Behind(Asm, 0, list, count)
  BY <1>1, AsmAgain
<1>6. m \in Nat /\ out \in Nat /\ (ops = <<>> <=> m = 0) /\ pos \in Nat
  BY <1>1, OutstandingIs DEF AsmTypeOK
<1>7. /\ m <= count /\ pos = L(m) - out
      /\ \A k \in 1 .. m : Copies(ops[k], list[k])
  BY <1>1, <1>3 DEF CopiedTo
<1>8. pos < Len(Asm) /\ Line = Asm[pos + 1]
  BY DEF Assembling, Line
<1>9. \A k \in 1 .. count :
        /\ LaidOut(given.version, list[k]) /\ list[k].op \in Analyzed
        /\ list[k].op \notin {"read_regs", "loadpdi"}
  BY <1>1, <1>2, ReadableIs, NamesApart DEF Clear
<1>10. \A k \in 1 .. count : \A j \in 0 .. Len(list[k].words) :
         Asm[0 + L(k - 1) + 1 + j] = Printed(list[k])[1 + j]
  BY <1>5 DEF Behind
<1> HIDE DEF L, list, count
<1>11. ASSUME out = 0
       PROVE  m + 1 \in 1 .. count /\ Line = HeadLine(list[m + 1])
  <2>1. m \in 0 .. count /\ L(m) \in Nat /\ pos = L(m) /\ m # count
    BY <1>3, <1>4, <1>5, <1>6, <1>7, <1>8, <1>11
  <2>2. m + 1 \in 1 .. count /\ (m + 1) - 1 = m
    BY <1>3, <1>6, <1>7, <2>1
  <2>3. 0 \in 0 .. Len(list[m + 1].words)
    <3>1. Len(list[m + 1].words) \in Nat
      BY <1>3, <2>2
    <3>2. QED
      BY <3>1
  <2>4. 0 + L(m) + 1 + 0 = pos + 1 /\ 1 + 0 = 1
    BY <1>6, <2>1
  <2>5. Asm[pos + 1] = Printed(list[m + 1])[1]
    BY <1>10, <2>2, <2>3, <2>4
  <2>6. Printed(list[m + 1])[1] = HeadLine(list[m + 1])
    BY <1>9, <2>2, PrintedIs
  <2>7. QED
    BY <1>8, <2>2, <2>5, <2>6
<1>12. ASSUME out > 0
       PROVE  /\ m \in 1 .. count /\ ExtensionIndex(ops[m]) + 1 \in 1 .. Len(list[m].words)
              /\ Line = WordOf(list[m], ExtensionIndex(ops[m]) + 1)
  <2> DEFINE op == ops[m]
             w == Len(list[m].words)
             j == ExtensionIndex(op) + 1
  <2>1. /\ m \in 1 .. m /\ op \in OpRecord /\ OpOK(op) /\ op.outstanding = out
    BY <1>1, <1>12, LastOpIs
  <2>2. m \in 1 .. count /\ m - 1 \in 0 .. count /\ m \in 0 .. count
    BY <1>3, <1>6, <1>7, <2>1
  <2>3. Len(op.words) = w /\ w \in Nat /\ out <= w
    <3>1. Copies(op, list[m])
      BY <1>7, <2>1
    <3>2. QED
      BY <1>3, <2>1, <2>2, <3>1 DEF Copies, OpOK
  <2>4. j = w - out + 1
    BY <2>1, <2>3 DEF ExtensionIndex
  <2> DEFINE a == L(m - 1)
             b == L(m)
  <2>5. a \in Nat /\ b = a + 1 + w /\ pos = b - out
    BY <1>4, <1>7, <2>2
  <2> HIDE DEF op, w, j, a, b, out, m
  <2>6. j \in 1 .. w /\ j \in 0 .. w /\ 0 + a + 1 + j = pos + 1
    BY <1>6, <1>12, <2>3, <2>4, <2>5
  <2>7. Asm[0 + a + 1 + j] = Printed(list[m])[1 + j]
    BY <1>10, <2>2, <2>6 DEF a, w
  <2>8. Printed(list[m])[1 + j] = WordOf(list[m], j)
    BY <1>9, <2>2, <2>6, PrintedIs DEF w
  <2>9. QED
    BY <1>8, <2>2, <2>6, <2>7, <2>8 DEF j, w, op, m
<1>13. QED
  BY <1>11, <1>12 DEF list, count

(* Nothing that was printed is rejected.                                   *)
LEMMA NotRejected ==
  ASSUME Again
  PROVE  ~ RejectExtension /\ ~ RejectOperation /\ ~ ReadBeyondOperands
<1>1. AsmTypeOK /\ pass = 2 /\ Readable(given) /\ Known(given, given.count)
  BY DEF Again, PrintOK, PrintedTo
<1>2. ASSUME RejectExtension PROVE FALSE
  <2>1. Assembling /\ Outstanding > 0
    BY <1>2 DEF RejectExtension
  <2> DEFINE op == ops[Len(ops)]
             old == given.ops[Len(ops)]
             i == ExtensionIndex(op)
  <2>2. Line = WordOf(old, i + 1) /\ op \in OpRecord
    BY <1>1, <2>1, AgainLine, LastOpIs
  <2>3. i \in Int
    BY <2>2 DEF ExtensionIndex, OpRecord
  <2>4. /\ WordOf(old, i + 1).name = "blockwrite_word" /\ WordOf(old, i + 1).index = i
        /\ WordOf(old, i + 1).args[1] = <<"num", old.words[i + 1]>>
    <3> HIDE DEF i, old
    <3>1. QED
      BY <2>3 DEF WordOf
  <2>5. Fits("num", WordBytes, <<"num", old.words[i + 1]>>)
    <3>1. Len(ops) \in 1 .. given.count /\ i + 1 \in 1 .. Len(old.words)
      BY <1>1, <2>1, AgainLine
    <3>2. LaidOut(given.version, old)
      BY <1>1, <3>1, WellFormedWorded DEF Known
    <3> HIDE DEF i, old
    <3>3. old.words[i + 1] \in Nat /\ old.words[i + 1] < Capacity[WordBytes]
      BY <3>1, <3>2 DEF LaidOut
    <3>4. QED
      BY <3>3 DEF Fits, Accepts, ValueRead, Prefixed, Numeric
  <2>6. QED
    BY <1>2, <2>2, <2>4, <2>5 DEF RejectExtension, Extends
<1>3. ASSUME RejectOperation \/ ReadBeyondOperands PROVE FALSE
  <2>1. Assembling /\ Outstanding = 0
    BY <1>3 DEF RejectOperation, ReadBeyondOperands
  <2> DEFINE k == Len(ops) + 1
  <2>2. k \in 1 .. given.count /\ Line = HeadLine(given.ops[k])
    BY <2>1, AgainLine
  <2>3. LaidOut(given.version, given.ops[k]) /\ given.ops[k].op \in Mnemonics
    BY <1>1, <2>2, ReadableIs
  <2>4. Assembles(Line) /\ ~ ReadsBeyondOperands(Line)
    BY <2>2, <2>3, HeadAssembles
  <2>5. QED
    BY <1>3, <2>4 DEF RejectOperation, ReadBeyondOperands
<1>4. QED
  BY <1>2, <1>3

LEMMA CopiedAssembled ==
  ASSUME Again, AssembleOperation
  PROVE  CopiedTo(given.ops)'
<1> DEFINE list == given.ops
           m == Len(ops)
           old == list[m + 1]
           new == Operation(Line)
           L(k) == LinesTo(list, k)
<1>1. /\ AsmTypeOK /\ PrintOK /\ pass = 2 /\ Readable(given) /\ CopiedTo(list)
      /\ Known(given, given.count) /\ WellFormed(given)
  BY DEF Again, PrintOK, PrintedTo, Known
<1>2. Assembling /\ Outstanding = 0 /\ ops' = Append(ops, new) /\ pos' = pos + 1 /\ given' = given
  BY DEF AssembleOperation
<1>3. m + 1 \in 1 .. given.count /\ Line = HeadLine(old)
  BY <1>2, AgainLine
<1>4. LaidOut(given.version, old) /\ old.op \in Mnemonics
  BY <1>1, <1>3, ReadableIs
<1>5. Copies(new, old) /\ new.outstanding = Len(old.words)
  BY <1>3, <1>4, CopyMade
<1>6. Len(list) = given.count /\ given.count \in Nat /\ \A k \in 1 .. Len(list) : list[k].words \in Seq(Nat)
  BY <1>1, WellFormedWorded
<1>7. m \in Nat /\ ops \in Seq(OpRecord) /\ (ops = <<>> <=> m = 0) /\ pos \in Nat
  BY <1>1, OutstandingIs DEF AsmTypeOK
<1>8. /\ pos = L(m) /\ \A k \in 1 .. m : Copies(ops[k], list[k])
      /\ \A k \in 1 .. m : ops[k].outstanding = 0
  <2>1. L(m) \in Nat
    <3>1. \A k \in 0 .. Len(list) : L(k) \in Nat
      <4> HIDE DEF list
      <4>1. Len(list) \in Nat
        BY <1>6
      <4>2. QED
        BY <1>6, <4>1, LinesToIs
    <3>2. m \in 0 .. Len(list)
      BY <1>3, <1>6, <1>7
    <3>3. QED
      BY <3>1, <3>2
  <2>2. /\ \A k \in 1 .. m : Copies(ops[k], list[k]) /\ (k < m => ops[k].outstanding = 0)
        /\ pos = L(m) - Outstanding
    BY <1>1 DEF CopiedTo
  <2>3. ASSUME NEW k \in 1 .. m PROVE ops[k].outstanding = 0
    <3>1. k < m \/ k = m
      BY <1>7
    <3>2. m # 0 => ops[m].outstanding = 0
      BY <1>2, <1>7 DEF Outstanding
    <3>3. QED
      BY <1>7, <2>2, <3>1, <3>2
  <2> HIDE DEF L, m
  <2>4. QED
    BY <1>2, <2>1, <2>2, <2>3
<1>9. L(m + 1) = L(m) + 1 + Len(old.words) /\ L(m) \in Nat /\ Len(old.words) \in Nat
  <2>1. Len(list) \in Nat /\ m + 1 \in 1 .. Len(list) /\ (m + 1) - 1 = m /\ m \in 0 .. Len(list)
    BY <1>3, <1>6, <1>7
  <2> HIDE DEF list, m
  <2>2. /\ \A k \in 1 .. Len(list) : L(k) = L(k - 1) + 1 + Len(list[k].words)
        /\ \A k \in 0 .. Len(list) : L(k) \in Nat
    BY <1>6, <2>1, LinesToIs
  <2>3. list[m + 1].words \in Seq(Nat)
    BY <1>6, <2>1
  <2> HIDE DEF L
  <2>4. QED
    BY <2>1, <2>2, <2>3
<1>10. new \in OpRecord
  <2>1. Line \in LineSet /\ Assembles(Line)
    BY <1>2, LineIs DEF Again, AsmTypeOK, AssembleOperation
  <2>2. QED
    BY <2>1, OperationLaidOut
<1> HIDE DEF new, L, old
<1>11. Len(ops') = m + 1 /\ ops'[m + 1] = new /\ (\A k \in 1 .. m : ops'[k] = ops[k]) /\ ops' # <<>>
  BY <1>2, <1>7, <1>10
<1>12. Outstanding' = Len(old.words)
  BY <1>5, <1>11 DEF Outstanding
<1> HIDE DEF m, list
<1>13. pos' = L(m + 1) - Outstanding'
  BY <1>2, <1>7, <1>8, <1>9, <1>12
<1>14. ASSUME NEW k \in 1 .. m + 1
       PROVE  Copies(ops'[k], list[k]) /\ (k < m + 1 => ops'[k].outstanding = 0)
  <2>1. k \in 1 .. m \/ k = m + 1
    BY <1>7
  <2>2. CASE k \in 1 .. m
    BY <1>8, <1>11, <2>2
  <2>3. CASE k = m + 1
    BY <1>5, <1>7, <1>11, <2>3 DEF old
  <2>4. QED
    BY <2>1, <2>2, <2>3
<1>15. m + 1 <= Len(list)
  BY <1>3, <1>6, <1>7
<1>16. given.ops' = list
  BY <1>2 DEF list
<1>17. QED
  BY <1>11, <1>13, <1>14, <1>15, <1>16 DEF CopiedTo, L

LEMMA CopiedExtended ==
  ASSUME Again, ExtendOperation
  PROVE  CopiedTo(given.ops)'
<1> DEFINE list == given.ops
           m == Len(ops)
           op == ops[m]
           old == list[m]
           i == ExtensionIndex(op) + 1
           v == Line.args[1][2]
           ext == Extension(op, v)
           L(k) == LinesTo(list, k)
<1>1. /\ AsmTypeOK /\ PrintOK /\ pass = 2 /\ Readable(given) /\ CopiedTo(list)
      /\ Known(given, given.count) /\ WellFormed(given)
  BY DEF Again, PrintOK, PrintedTo, Known
<1>2. /\ Assembling /\ Outstanding > 0 /\ ops' = [ops EXCEPT ![m] = ext] /\ pos' = pos + 1
      /\ given' = given
  BY DEF ExtendOperation, Extension
<1>3. m \in 1 .. given.count /\ i \in 1 .. Len(old.words) /\ Line = WordOf(old, i)
  BY <1>2, AgainLine
<1>4. Len(list) = given.count /\ given.count \in Nat /\ \A k \in 1 .. Len(list) : list[k].words \in Seq(Nat)
  BY <1>1, WellFormedWorded
<1>5. old.words \in Seq(Nat)
  BY <1>3, <1>4
<1>6. v = old.words[i] /\ v \in Nat /\ v < Capacity[WordBytes]
  <2>0. LaidOut(given.version, old)
    BY <1>1, <1>3, WellFormedWorded
  <2> HIDE DEF old, i
  <2>1. Line.args = <<<<"num", old.words[i]>>>>
    BY <1>3 DEF WordOf
  <2>2. v = old.words[i]
    BY <2>1
  <2> HIDE DEF v
  <2>3. QED
    BY <1>3, <1>5, <2>0, <2>2 DEF LaidOut
<1>7. /\ ops \in Seq(OpRecord) /\ m \in Nat /\ pos \in Nat /\ op \in OpRecord /\ OpOK(op)
      /\ op.outstanding > 0 /\ Outstanding = op.outstanding /\ op.outstanding \in Nat
  BY <1>1, <1>2, LastOpIs DEF AsmTypeOK, OpRecord
<1>8. /\ pos = L(m) - Outstanding /\ m <= Len(list)
      /\ \A k \in 1 .. m : Copies(ops[k], list[k]) /\ (k < m => ops[k].outstanding = 0)
  BY <1>1 DEF CopiedTo
<1>9. Copies(ext, old) /\ ext.outstanding = op.outstanding - 1
  <2>1. Copies(op, old)
    BY <1>3, <1>7, <1>8
  <2> HIDE DEF op, old, v
  <2>2. QED
    BY <1>5, <1>6, <1>7, <2>1, CopyExtended
<1>10. L(m) \in Nat
  <2>1. Len(list) \in Nat /\ m \in 0 .. Len(list)
    BY <1>3, <1>4, <1>7
  <2> HIDE DEF list, m
  <2>2. QED
    BY <1>4, <2>1, LinesToIs
<1> HIDE DEF ext, L, op, old, v, i
<1>11. Len(ops') = m /\ ops'[m] = ext /\ (\A k \in 1 .. m : k # m => ops'[k] = ops[k]) /\ ops' # <<>>
  <2>1. m \in 1 .. m /\ DOMAIN ops = 1 .. m
    BY <1>3, <1>7
  <2>2. ops'[m] = ext /\ \A k \in 1 .. m : k # m => ops'[k] = ops[k]
    BY <1>2, <2>1
  <2>3. DOMAIN ops' = 1 .. m
    BY <1>2, <2>1
  <2>4. Len(ops') = m
    <3>1. ops' = [k \in 1 .. m |-> ops'[k]]
      BY <1>2, <2>1
    <3> HIDE DEF m
    <3>2. QED
      BY <1>7, <3>1
  <2>5. ops' # <<>>
    BY <2>1, <2>3
  <2>6. QED
    BY <2>2, <2>4, <2>5
<1>12. Outstanding' = op.outstanding - 1
  BY <1>9, <1>11 DEF Outstanding
<1> HIDE DEF m, list
<1>13. pos' = L(m) - Outstanding'
  BY <1>2, <1>7, <1>8, <1>10, <1>12
<1>14. ASSUME NEW k \in 1 .. m
       PROVE  Copies(ops'[k], list[k]) /\ (k < m => ops'[k].outstanding = 0)
  <2>1. CASE k = m
    BY <1>7, <1>9, <1>11, <2>1 DEF old
  <2>2. CASE k # m
    BY <1>8, <1>11, <2>2
  <2>3. QED
    BY <2>1, <2>2
<1>15. given.ops' = list
  BY <1>2 DEF list
<1>16. QED
  BY <1>8, <1>11, <1>13, <1>14, <1>15 DEF CopiedTo, L

(* All lines assembled are all operations, whole.                          *)
LEMMA CopiedAll ==
  ASSUME Again, pos = Len(Asm)
  PROVE  /\ Len(ops) = given.count
         /\ \A k \in 1 .. given.count :
              /\ ops[k].op = given.ops[k].op /\ ops[k].fields = given.ops[k].fields
              /\ ops[k].words = given.ops[k].words
<1> DEFINE list == given.ops
           count == given.count
           m == Len(ops)
           out == Outstanding
           L(k) == LinesTo(list, k)
<1>1. /\ AsmTypeOK /\ ColsOK /\ PrintOK /\ pass = 2 /\ Readable(given) /\ CopiedTo(list)
      /\ HandedOn(given.cols, Len(text)) /\ WellFormed(given)
  BY DEF Again, PrintOK, PrintedTo, Known
<1>2. Len(list) = count /\ count \in Nat /\ \A k \in 1 .. Len(list) : list[k].words \in Seq(Nat)
  BY <1>1, WellFormedWorded
<1>3. /\ \A k \in 0 .. count : L(k) \in Nat
      /\ \A i, j \in 0 .. count : i < j => L(i) < L(j)
  <2> HIDE DEF list, count
  <2>1. Len(list) \in Nat
    BY <1>2
  <2>2. QED
    BY <1>2, <2>1, LinesToIs
<1>4. Len(Asm) = L(count)
  BY <1>1, AsmAgain
<1>5. m \in Nat /\ out \in Nat /\ (ops = <<>> <=> m = 0) /\ ops \in Seq(OpRecord)
  BY <1>1, OutstandingIs DEF AsmTypeOK
<1>6. /\ m <= count /\ pos = L(m) - out
      /\ \A k \in 1 .. m : Copies(ops[k], list[k]) /\ (k < m => ops[k].outstanding = 0)
  BY <1>1, <1>2 DEF CopiedTo
<1> HIDE DEF L, list, count
<1>7. m = count /\ out = 0
  <2>1. m \in 0 .. count /\ count \in 0 .. count
    BY <1>2, <1>5, <1>6
  <2>2. L(m) \in Nat /\ L(count) \in Nat /\ (m < count => L(m) < L(count)) /\ L(count) = L(m) - out
    BY <1>3, <1>4, <1>6, <2>1
  <2>3. ~ (m < count)
    BY <1>5, <2>2
  <2>4. m = count
    BY <1>2, <1>5, <1>6, <2>3
  <2>5. QED
    BY <1>5, <2>2, <2>4
<1>8. ASSUME NEW k \in 1 .. count
      PROVE  /\ ops[k].op = list[k].op /\ ops[k].fields = list[k].fields
             /\ ops[k].words = list[k].words
  <2> DEFINE op == ops[k]
             old == list[k]
  <2>1. op \in OpRecord /\ Copies(op, old) /\ old.words \in Seq(Nat) /\ op.words \in Seq(Nat)
    <3>1. k \in 1 .. m /\ k \in 1 .. Len(list)
      BY <1>2, <1>7
    <3>2. op \in OpRecord
      <4>1. k \in 1 .. Len(ops)
        BY <3>1 DEF m
      <4>2. QED
        BY <1>5, <4>1
    <3>3. Copies(op, old) /\ old.words \in Seq(Nat)
      BY <1>2, <1>6, <3>1
    <3>4. QED
      BY <3>2, <3>3 DEF OpRecord
  <2>2. op.outstanding = 0
    <3>1. k < m \/ k = m
      BY <1>5, <1>7
    <3>2. ops # <<>> => Outstanding = ops[m].outstanding
      BY DEF Outstanding
    <3>3. QED
      BY <1>5, <1>6, <1>7, <3>1, <3>2
  <2> HIDE DEF op, old
  <2>3. /\ op.op = old.op /\ op.fields = old.fields /\ Len(op.words) = Len(old.words)
        /\ \A j \in 1 .. Len(old.words) - 0 : op.words[j] = old.words[j]
    BY <2>1, <2>2 DEF Copies
  <2> DEFINE one == op.words
             two == old.words
  <2>4. /\ one \in Seq(Nat) /\ two \in Seq(Nat) /\ Len(one) = Len(two) /\ Len(two) \in Nat
        /\ \A j \in 1 .. Len(two) - 0 : one[j] = two[j]
    BY <2>1, <2>3
  <2> HIDE DEF one, two
  <2>5. \A j \in 1 .. Len(one) : one[j] = two[j]
    BY <2>4
  <2>6. one = two
    BY <2>4, <2>5, SeqEqual
  <2>7. QED
    BY <2>3, <2>6 DEF one, two, op, old
<1>9. QED
  BY <1>7, <1>8 DEF count, list

LEMMA AgainEncoded ==
  ASSUME Again, Encode
  PROVE  Reassembles'
<1> DEFINE m == given.count
<1>1. /\ AsmTypeOK /\ ColsOK /\ PrintOK /\ pass = 2 /\ Readable(given)
      /\ HandedOn(given.cols, Len(text)) /\ WellFormed(given)
  BY DEF Again, PrintOK, PrintedTo, Known
<1>2. pos = Len(Asm) /\ stage' = "done" /\ given' = given
      /\ txn' = [version |-> "0.1", cols |-> Cardinality(DOMAIN cols),
                 size |-> Total(ops)[Len(ops)], ops |-> Body(ops), count |-> Len(ops)]
  BY <1>1 DEF Encode
<1>3. /\ Len(ops) = m
      /\ \A k \in 1 .. m :
           /\ ops[k].op = given.ops[k].op /\ ops[k].fields = given.ops[k].fields
           /\ ops[k].words = given.ops[k].words
  BY <1>2, CopiedAll
<1>4. DOMAIN given.ops = 1 .. m /\ given.cols \in Nat
  BY <1>1, WellFormedWorded
<1>5. DOMAIN ops = 1 .. m
  BY <1>1, <1>3 DEF AsmTypeOK
<1>6. Cardinality(DOMAIN cols) = IF given.cols = 0 THEN 1 ELSE given.cols
  <2>1. Cardinality(DOMAIN cols) = LastOf(given.cols) + 1
    BY <1>1, AsmAgain
  <2>2. QED
    BY <1>4, <2>1 DEF LastOf
<1>7. txn'.ops = Body(ops) /\ txn'.cols = Cardinality(DOMAIN cols)
  <2> DEFINE body == Body(ops)
             size == Total(ops)[Len(ops)]
             c == Cardinality(DOMAIN cols)
             n == Len(ops)
  <2>1. txn' = [version |-> "0.1", cols |-> c, size |-> size, ops |-> body, count |-> n]
    BY <1>2
  <2> HIDE DEF body, size, c, n
  <2>2. txn'.ops = body /\ txn'.cols = c
    BY <2>1
  <2>3. QED
    BY <2>2 DEF body, c
<1>8. ASSUME NEW t, t.ops = Body(ops) PROVE Essence(t) = Essence(given)
  <2> DEFINE body == Body(ops)
  <2>1. body = [k \in 1 .. m |-> [op |-> ops[k].op, fields |-> ops[k].fields, bytes |-> ops[k].bytes,
                                  size |-> ops[k].size, words |-> ops[k].words]]
    BY <1>5 DEF Body
  <2> HIDE DEF body, m
  <2>2. DOMAIN body = 1 .. m
    BY <2>1
  <2>3. \A k \in 1 .. m : /\ body[k].op = ops[k].op /\ body[k].fields = ops[k].fields
                          /\ body[k].words = ops[k].words
    BY <2>1
  <2>4. \A k \in 1 .. m : Says(body[k]) = Says(given.ops[k])
    BY <1>3, <2>3 DEF Says
  <2>5. Essence(t) = [k \in 1 .. m |-> Says(body[k])]
    BY <1>8, <2>2 DEF Essence, body
  <2>6. Essence(given) = [k \in 1 .. m |-> Says(given.ops[k])]
    BY <1>4 DEF Essence, m
  <2>7. QED
    BY <2>4, <2>5, <2>6
<1>9. Essence(txn)' = Essence(given)
  <2>1. Essence(txn)' = Essence(txn')
    BY DEF Essence, Says
  <2>2. QED
    BY <1>7, <1>8, <2>1
<1>10. Essence(given)' = Essence(given)
  BY <1>2 DEF Essence, Says
<1>11. QED
  BY <1>2, <1>6, <1>7, <1>9, <1>10 DEF Reassembles

LEMMA AgainNext ==
  ASSUME AsmTypeOK, ColsOK, BegunOK, PrintOK, AgainOK, [Next]_vars
  PROVE  AgainOK'
<1>1. ASSUME pass' = 2 /\ Readable(given)', ~ Reassemble
      PROVE  /\ stage \in {"parse", "assemble", "done"} => given' = given /\ text' = text
             /\ pass = 2
  <2>1. pass' = pass
    BY <1>1 DEF Next, ParseOperation, AttachToGroup, ParseLabel, EndOfSource, ExtendOperation,
                RejectExtension, RejectLine, AssembleOperation, RejectOperation, ReadBeyondOperands,
                Encode, CountOperation, StartPrint, PrintOperation, RejectUnknown, Ended, vars
  <2>2. stage \in {"parse", "assemble", "done"} => given' = given /\ text' = text
    BY <1>1 DEF Next, ParseOperation, AttachToGroup, ParseLabel, EndOfSource, ExtendOperation,
                RejectExtension, RejectLine, AssembleOperation, RejectOperation, ReadBeyondOperands,
                Encode, CountOperation, StartPrint, PrintOperation, Walking, RejectUnknown, Ended,
                vars, analyzer
  <2>3. QED
    BY <1>1, <2>1, <2>2
<1>2. CASE Reassemble
  <2>1. /\ stage' = "parse" /\ source' = <<>> /\ col' = -1 /\ label' = 0 /\ cols' = <<>>
        /\ given' = txn /\ text' = text /\ stage = "print" /\ num = txn.count
    BY <1>2 DEF Reassemble, analyzer
  <2>2. txn.cols \in Nat /\ Len(text) \in Nat
    BY <2>1, WellFormedWorded DEF PrintOK, PrintedTo, Known, AsmTypeOK
  <2>3. Len(source') = 0 /\ DOMAIN cols' = {} /\ 0 .. -1 = {} /\ 0 <= Len(text) /\ 0 - 1 = -1
        /\ 0 <= txn.cols /\ ~ (txn.cols < 0)
    BY <2>1, <2>2
  <2>4. HandedOn(given.cols, Len(source))'
    BY <2>1, <2>3 DEF HandedOn
  <2>5. QED
    BY <2>1, <2>4 DEF AgainOK, Reassembles
<1>3. SUFFICES ASSUME pass = 2, pass' = 2, Readable(given)', ~ Reassemble,
                      stage \in {"parse", "assemble", "done"} => given' = given /\ text' = text
               PROVE  AgainOK'
  BY <1>1, <1>2 DEF AgainOK
<1>4. stage \in {"count", "print"} => FALSE
  BY <1>3 DEF AsmTypeOK
<1>5. CASE stage \notin {"parse", "assemble", "done"}
  <2>1. given' = given
    BY <1>3, <1>4, <1>5 DEF Next, ParseOperation, AttachToGroup, ParseLabel, Read, EndOfSource,
      ExtendOperation, Assembling, RejectExtension, RejectLine, AssembleOperation, RejectOperation,
      ReadBeyondOperands, Encode, CountOperation, StartPrint, PrintOperation, Walking, RejectUnknown,
      Ended, vars
  <2>2. Readable(given)
    BY <1>3, <2>1 DEF Readable
  <2>3. QED
    BY <1>3, <1>5, <2>2 DEF AgainOK
<1>6. CASE stage \in {"parse", "assemble", "done"}
  <2>1. given' = given /\ text' = text
    BY <1>3, <1>6
  <2>2. Readable(given)
    BY <1>3, <2>1 DEF Readable
  <2>3. CASE stage = "parse"
    <3>1. HandedOn(given.cols, Len(source))
      BY <1>3, <2>2, <2>3 DEF AgainOK
    <3>2. ASSUME NEW line \in NextLine, ParseOperation(line) \/ AttachToGroup(line) \/ ParseLabel(line)
          PROVE  AgainOK'
      <4>1. HandedOn(given.cols, Len(source))'
        BY <1>3, <2>2, <3>1, <3>2, HandedNext
      <4>2. stage' = "parse"
        BY <3>2 DEF ParseOperation, AttachToGroup, ParseLabel, Read
      <4>3. QED
        BY <4>1, <4>2 DEF AgainOK, Reassembles
    <3>3. CASE EndOfSource
      <4>1. Len(source) = Len(text)
        <5>1. /\ Len(source) \in Nat /\ Len(text) \in Nat /\ DOMAIN text = 1 .. Len(text)
              /\ Len(source) <= Len(text)
          BY <3>1 DEF AsmTypeOK, HandedOn
        <5>2. NextLine = {}
          BY <1>3, <3>3 DEF EndOfSource
        <5>3. Len(source) + 1 \notin DOMAIN text
          <6>1. SUFFICES ASSUME Len(source) + 1 \in DOMAIN text PROVE FALSE
            OBVIOUS
          <6>2. text[Len(source) + 1] \in NextLine
            BY <1>3, <6>1 DEF NextLine
          <6>3. QED
            BY <5>2, <6>2
        <5>4. QED
          BY <5>1, <5>3
      <4>2. HandedOn(given.cols, Len(text))
        BY <3>1, <4>1
      <4>3. Last \in DOMAIN cols /\ Cardinality(DOMAIN cols[Last]) = 1
        BY <1>3, <2>2, <4>2, AsmAgain
      <4>4. /\ stage' = "assemble" /\ pos' = pos /\ ops' = ops
            /\ UNCHANGED <<label, col, cols, source>>
        BY <3>3, <4>3 DEF EndOfSource, parser, encoder
      <4>5. pos = 0 /\ ops = <<>> /\ Len(ops) = 0 /\ 1 .. 0 = {} /\ Outstanding = 0
        BY <2>3 DEF BegunOK, Outstanding
      <4>6. /\ Len(given.ops) \in Nat /\ \A k \in 1 .. Len(given.ops) : given.ops[k].words \in Seq(Nat)
        BY <1>3, WellFormedWorded DEF PrintOK, PrintedTo, Known
      <4>7. LinesTo(given.ops, 0) = 0 /\ 0 <= Len(given.ops)
        BY <4>6, LinesToIs
      <4>8. CopiedTo(given.ops)
        BY <4>5, <4>7 DEF CopiedTo
      <4>9. CopiedTo(given.ops)' /\ HandedOn(given.cols, Len(text))'
        BY <2>1, <4>2, <4>4, <4>8 DEF CopiedTo, HandedOn, Outstanding, Column
      <4>10. QED
        BY <4>4, <4>9 DEF AgainOK, Reassembles
    <3>4. CASE UNCHANGED vars
      <4>1. stage' = stage /\ UNCHANGED <<label, col, cols, source>>
        BY <3>4 DEF vars, parser
      <4>2. HandedOn(given.cols, Len(source))'
        BY <2>1, <3>1, <4>1 DEF HandedOn
      <4>3. QED
        BY <2>3, <4>1, <4>2 DEF AgainOK, Reassembles
    <3>5. QED
      BY <1>3, <2>3, <3>2, <3>3, <3>4 DEF Next, ExtendOperation, Assembling, RejectExtension,
        AssembleOperation, RejectOperation, ReadBeyondOperands, Encode, CountOperation, StartPrint,
        PrintOperation, Walking, RejectUnknown, Ended
  <2>4. CASE stage = "assemble"
    <3>1. Again
      BY <1>3, <2>2, <2>4 DEF AgainOK, Again
    <3>2. HandedOn(given.cols, Len(text)) /\ CopiedTo(given.ops)
      BY <3>1 DEF Again
    <3>3. CASE ExtendOperation \/ AssembleOperation
      <4>1. CopiedTo(given.ops)'
        BY <3>1, <3>3, CopiedExtended, CopiedAssembled
      <4>2. stage' = stage /\ UNCHANGED <<label, col, cols>>
        BY <3>3 DEF ExtendOperation, AssembleOperation, parser
      <4>3. HandedOn(given.cols, Len(text))'
        BY <2>1, <3>2, <4>2 DEF HandedOn
      <4>4. QED
        BY <2>4, <4>1, <4>2, <4>3 DEF AgainOK, Reassembles
    <3>4. CASE Encode
      <4>1. Reassembles'
        BY <3>1, <3>4, AgainEncoded
      <4>2. stage' = "done"
        BY <1>3, <3>4 DEF Encode
      <4>3. QED
        BY <4>1, <4>2 DEF AgainOK
    <3>5. CASE UNCHANGED vars
      <4>1. stage' = stage /\ UNCHANGED <<label, col, cols, pos, ops>>
        BY <3>5 DEF vars, parser, encoder
      <4>2. HandedOn(given.cols, Len(text))' /\ CopiedTo(given.ops)'
        BY <2>1, <3>2, <4>1 DEF HandedOn, CopiedTo, Outstanding
      <4>3. QED
        BY <2>4, <4>1, <4>2 DEF AgainOK, Reassembles
    <3>6. ~ RejectExtension /\ ~ RejectOperation /\ ~ ReadBeyondOperands
      BY <3>1, NotRejected
    <3>7. QED
      BY <1>3, <2>4, <3>3, <3>4, <3>5, <3>6 DEF Next, ParseOperation, AttachToGroup, ParseLabel, Read,
        EndOfSource, CountOperation, StartPrint, PrintOperation, Walking, RejectUnknown, Ended
  <2>5. CASE stage = "done"
    <3>1. Reassembles
      BY <1>3, <2>2 DEF AgainOK
    <3>2. UNCHANGED vars
      BY <1>3, <2>5 DEF Next, ParseOperation, AttachToGroup, ParseLabel, Read, EndOfSource,
        ExtendOperation, Assembling, RejectExtension, AssembleOperation, RejectOperation,
        ReadBeyondOperands, Encode, CountOperation, StartPrint, PrintOperation, Walking, RejectUnknown,
        Ended
    <3>3. stage' = "done" /\ txn' = txn /\ pass' = pass
      BY <2>5, <3>2 DEF vars
    <3>4. Reassembles'
      <4>1. Essence(txn)' = Essence(txn) /\ Essence(given)' = Essence(given)
        BY <2>1, <3>3 DEF Essence, Says
      <4>2. Readable(given)' <=> Readable(given)
        BY <2>1 DEF Readable
      <4>3. QED
        BY <2>1, <2>5, <3>1, <3>3, <4>1, <4>2 DEF Reassembles
    <3>5. QED
      BY <3>3, <3>4 DEF AgainOK
  <2>6. QED
    BY <1>6, <2>3, <2>4, <2>5
<1>7. QED
  BY <1>5, <1>6

(* Reassembles, of every transaction: what was printed is parsed into the  *)
(* same columns and assembled into the same operations, no line of it      *)
(* rejected.                                                               *)
THEOREM AssemblesAgain == Spec => []Reassembles
<1>1. Init => PrintOK /\ AgainOK
  <2>1. SUFFICES ASSUME Init PROVE PrintOK /\ AgainOK
    OBVIOUS
  <2>2. pass = 1 /\ num = 0 /\ stage \in {"parse", "count"} /\ (stage = "count" => txn \in Transactions)
    BY <2>1 DEF Init
  <2>3. stage = "count" => WellFormed(txn) /\ txn.count \in Nat
    BY <2>2, TransactionsAssumption DEF WellFormed
  <2>4. stage = "count" => Known(txn, 0)
    BY <2>3 DEF Known
  <2>5. QED
    BY <2>2, <2>4 DEF PrintOK, AgainOK
<1>2. AsmInv /\ PrintOK /\ [Next]_vars => PrintOK'
  BY PrintNext DEF AsmInv
<1>3. AsmInv /\ PrintOK /\ AgainOK /\ [Next]_vars => AgainOK'
  BY AgainNext DEF AsmInv
<1>4. AgainOK => Reassembles
  BY DEF AgainOK, Reassembles
<1>5. QED
  BY <1>1, <1>2, <1>3, <1>4, AsmInvariant, PTL DEF Spec

===============================================================================
