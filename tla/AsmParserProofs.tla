-------------------------- MODULE AsmParserProofs --------------------------
(***************************************************************************)
(* Theorems about AsmParser, for sources of any length, with any lines,    *)
(* and includes of any depth.                                              *)
(***************************************************************************)
EXTENDS AsmParser, FiniteSetTheorems, SequenceTheorems, TLAPS

(* What keeps the stack of data states above the number of open files.     *)
StatesInv ==
  /\ depth \in Nat
  /\ states \in Seq(BOOLEAN)
  /\ StatesCoverFiles

(* Every push keeps it.                                                    *)
LEMMA PushKeeps ==
  ASSUME StatesInv, NEW state \in BOOLEAN, PushState(state), depth' = depth
  PROVE  StatesInv'
BY DEF StatesInv, StatesCoverFiles, PushState

(* The pop at the end of an included file leaves as many states as files.  *)
LEMMA PopKeeps ==
  ASSUME StatesInv, depth > 0, states' = PoppedStates, depth' = depth - 1
  PROVE  StatesInv'
<1>1. Len(states) \in Nat /\ Len(states) > depth /\ depth \in Nat
  BY DEF StatesInv, StatesCoverFiles
<1>2. states' \in Seq(BOOLEAN) /\ Len(states') = Len(states) - 1
  BY <1>1 DEF StatesInv, PoppedStates
<1>3. QED
  BY <1>1, <1>2 DEF StatesInv, StatesCoverFiles

(* No line of any kind brings the stack down to the open files.            *)
LEMMA LineKeeps ==
  ASSUME StatesInv, NEW line \in Lines, parse_lines(line)
  PROVE  StatesInv'
<1>1. CASE UNCHANGED <<depth, states>>
  BY <1>1 DEF StatesInv, StatesCoverFiles
<1>2. CASE EndOfText(line)
  BY <1>2, PushKeeps DEF EndOfText
<1>3. CASE Attach(line)
  BY <1>3, PushKeeps DEF Attach
<1>4. CASE Section(line)
  BY <1>4, PushKeeps, LinesAssumption DEF Section
<1>5. CASE SetPadFromFile(line)
  BY <1>5, PushKeeps DEF SetPadFromFile
<1>6. CASE Include(line)
  <2>1. states' = Append(states, FALSE) /\ depth' = depth + 1
    BY <1>6 DEF Include, PushState
  <2>2. QED
    BY <2>1 DEF StatesInv, StatesCoverFiles
<1>7. CASE EndInclude(line)
  BY <1>7, PopKeeps DEF EndInclude
<1>8. CASE Operation(line)
  BY <1>1, <1>8 DEF Operation
<1>9. CASE OpenLabel(line) \/ DataLabel(line)
  BY <1>1, <1>9 DEF OpenLabel, DataLabel
<1>10. CASE CloseLabel(line)
  BY <1>1, <1>10 DEF CloseLabel
<1>11. CASE Annotate(line)
  BY <1>1, <1>11 DEF Annotate
<1>12. CASE SetPad(line) \/ Partition(line) \/ Finish(line)
  BY <1>1, <1>12 DEF SetPad, Partition, Finish
<1>13. CASE RejectEndl(line) \/ RejectAnnotation(line) \/ RejectFile(line) \/ RejectPartition(line)
  BY <1>1, <1>13 DEF RejectEndl, RejectAnnotation, RejectFile, RejectPartition, Reject
<1>14. QED
  BY <1>2, <1>3, <1>4, <1>5, <1>6, <1>7, <1>8, <1>9, <1>10, <1>11, <1>12, <1>13
  DEF parse_lines

LEMMA StatesInvariant == Spec => []StatesInv
<1>1. Init => StatesInv
  BY DEF Init, StatesInv, StatesCoverFiles
<1>2. StatesInv /\ [Next]_vars => StatesInv'
  <2> SUFFICES ASSUME StatesInv, [Next]_vars PROVE StatesInv'
    OBVIOUS
  <2>1. CASE \E line \in Lines : parse_lines(line)
    BY <2>1, LineKeeps
  <2>2. CASE UNCHANGED vars
    BY <2>2 DEF vars, StatesInv, StatesCoverFiles
  <2>3. QED
    BY <2>1, <2>2 DEF Next, Ended
<1>3. QED
  BY <1>1, <1>2, PTL DEF Spec

(* pop_data_state never empties the stack, and the state the source began  *)
(* with is never popped, whatever the included files push.                 *)
THEOREM StatesCovered == Spec => []StatesCoverFiles
<1>1. StatesInv => StatesCoverFiles
  BY DEF StatesInv
<1>2. QED
  BY <1>1, StatesInvariant, PTL

-----------------------------------------------------------------------------
(***************************************************************************)
(* The label groups that are open: the notions of the properties, for any  *)
(* lines ls and a line n behind or among them.                             *)
(***************************************************************************)
Opening(ls, n) == ls[n].line.kind = "label" /\ ~ ls[n].data

OpensIn(ls, m, n) == {i \in m + 1 .. n - 1 : Opening(ls, i)}

EndsIn(ls, m, n) == {k \in m + 1 .. n - 1 : ls[k].line.kind = "endl"}

EndedIn(ls, m, n) ==
  \E k \in EndsIn(ls, m, n) : Cardinality(EndsIn(ls, m, k + 1)) > Cardinality(OpensIn(ls, m, k))

Inside(ls, n) == {m \in OpensIn(ls, 0, n) : ~ EndedIn(ls, m, n)}

(* The sequence os has the open groups from the outside in, and behind     *)
(* each as many labels more than ends as there are groups in it.           *)
Stack(ls, n, os) ==
  /\ os \in Seq(Nat)
  /\ \A i, j \in DOMAIN os : i < j => os[i] < os[j]
  /\ {os[i] : i \in DOMAIN os} = Inside(ls, n)
  /\ \A i \in DOMAIN os :
       Cardinality(OpensIn(ls, os[i], n)) = Cardinality(EndsIn(ls, os[i], n)) + (Len(os) - i)

NamesOf(ls, os) == <<Default>> \o [i \in 1 .. Len(os) |-> ls[os[i]].line.name]

LEMMA Counted ==
  ASSUME NEW ls, NEW m \in Nat, NEW n \in Nat
  PROVE  /\ IsFiniteSet(OpensIn(ls, m, n)) /\ Cardinality(OpensIn(ls, m, n)) \in Nat
         /\ IsFiniteSet(EndsIn(ls, m, n)) /\ Cardinality(EndsIn(ls, m, n)) \in Nat
<1>1. IsFiniteSet(m + 1 .. n - 1)
  BY FS_Interval
<1>2. OpensIn(ls, m, n) \in SUBSET (m + 1 .. n - 1) /\ EndsIn(ls, m, n) \in SUBSET (m + 1 .. n - 1)
  BY DEF OpensIn, EndsIn
<1>. QED
  BY <1>1, <1>2, FS_Subset, FS_CardinalityType

(* One line more.                                                          *)
LEMMA OpensGrow ==
  ASSUME NEW ls, NEW n \in Nat, NEW m \in 0 .. n - 1
  PROVE  /\ Opening(ls, n) => /\ OpensIn(ls, m, n + 1) = OpensIn(ls, m, n) \cup {n}
                              /\ Cardinality(OpensIn(ls, m, n + 1)) = Cardinality(OpensIn(ls, m, n)) + 1
         /\ ~ Opening(ls, n) => OpensIn(ls, m, n + 1) = OpensIn(ls, m, n)
<1>1. n \notin OpensIn(ls, m, n)
  BY DEF OpensIn
<1>2. OpensIn(ls, m, n + 1) = IF Opening(ls, n) THEN OpensIn(ls, m, n) \cup {n} ELSE OpensIn(ls, m, n)
  BY DEF OpensIn
<1>. QED
  BY <1>1, <1>2, Counted, FS_AddElement

LEMMA EndsGrow ==
  ASSUME NEW ls, NEW n \in Nat, NEW m \in 0 .. n - 1
  PROVE  /\ ls[n].line.kind = "endl" =>
               /\ EndsIn(ls, m, n + 1) = EndsIn(ls, m, n) \cup {n}
               /\ Cardinality(EndsIn(ls, m, n + 1)) = Cardinality(EndsIn(ls, m, n)) + 1
         /\ ls[n].line.kind # "endl" => EndsIn(ls, m, n + 1) = EndsIn(ls, m, n)
<1>1. n \notin EndsIn(ls, m, n)
  BY DEF EndsIn
<1>2. EndsIn(ls, m, n + 1) =
        IF ls[n].line.kind = "endl" THEN EndsIn(ls, m, n) \cup {n} ELSE EndsIn(ls, m, n)
  BY DEF EndsIn
<1>. QED
  BY <1>1, <1>2, Counted, FS_AddElement

LEMMA EndedGrows ==
  ASSUME NEW ls, NEW n \in Nat, NEW m \in 0 .. n - 1
  PROVE  EndedIn(ls, m, n + 1) <=>
           \/ EndedIn(ls, m, n)
           \/ /\ ls[n].line.kind = "endl"
              /\ Cardinality(EndsIn(ls, m, n)) + 1 > Cardinality(OpensIn(ls, m, n))
<1>1. CASE ls[n].line.kind = "endl"
  <2>1. /\ EndsIn(ls, m, n + 1) = EndsIn(ls, m, n) \cup {n}
        /\ Cardinality(EndsIn(ls, m, n + 1)) = Cardinality(EndsIn(ls, m, n)) + 1
    BY <1>1, EndsGrow
  <2>. QED
    BY <1>1, <2>1 DEF EndedIn
<1>2. CASE ls[n].line.kind # "endl"
  BY <1>2, EndsGrow DEF EndedIn
<1>. QED
  BY <1>1, <1>2

(* A line that is no label and no end.                                     *)
LEMMA StackStays ==
  ASSUME NEW ls, NEW n \in Nat \ {0}, NEW os, Stack(ls, n, os),
         ~ Opening(ls, n), ls[n].line.kind # "endl"
  PROVE  Stack(ls, n + 1, os)
<1>1. \A m \in 0 .. n - 1 : /\ OpensIn(ls, m, n + 1) = OpensIn(ls, m, n)
                            /\ EndsIn(ls, m, n + 1) = EndsIn(ls, m, n)
                            /\ EndedIn(ls, m, n + 1) <=> EndedIn(ls, m, n)
  BY OpensGrow, EndsGrow, EndedGrows
<1>2. Inside(ls, n + 1) = Inside(ls, n)
  <2>1. OpensIn(ls, 0, n + 1) = OpensIn(ls, 0, n)
    BY <1>1
  <2>2. \A m \in OpensIn(ls, 0, n) : m \in 0 .. n - 1
    BY DEF OpensIn
  <2>. QED
    BY <1>1, <2>1, <2>2 DEF Inside
<1>3. \A i \in DOMAIN os : os[i] \in 0 .. n - 1
  <2>1. \A i \in DOMAIN os : os[i] \in OpensIn(ls, 0, n)
    BY DEF Stack, Inside
  <2>. QED
    BY <2>1 DEF OpensIn
<1>. QED
  BY <1>1, <1>2, <1>3 DEF Stack

(* A label in the text.                                                    *)
LEMMA StackOpens ==
  ASSUME NEW ls, NEW n \in Nat \ {0}, NEW os, Stack(ls, n, os), Opening(ls, n)
  PROVE  Stack(ls, n + 1, Append(os, n))
<1>. DEFINE new == Append(os, n)
<1>1. ls[n].line.kind # "endl"
  BY DEF Opening
<1>2. \A m \in 0 .. n - 1 :
        /\ OpensIn(ls, m, n + 1) = OpensIn(ls, m, n) \cup {n}
        /\ Cardinality(OpensIn(ls, m, n + 1)) = Cardinality(OpensIn(ls, m, n)) + 1
        /\ EndsIn(ls, m, n + 1) = EndsIn(ls, m, n)
        /\ EndedIn(ls, m, n + 1) <=> EndedIn(ls, m, n)
  BY <1>1, OpensGrow, EndsGrow, EndedGrows
<1>3. OpensIn(ls, n, n + 1) = {} /\ EndsIn(ls, n, n + 1) = {} /\ ~ EndedIn(ls, n, n + 1)
  <2>1. n + 1 .. n + 1 - 1 = {}
    OBVIOUS
  <2>2. OpensIn(ls, n, n + 1) = {} /\ EndsIn(ls, n, n + 1) = {}
    BY <2>1 DEF OpensIn, EndsIn
  <2>. QED
    BY <2>2 DEF EndedIn
<1>4. \A m \in OpensIn(ls, 0, n) : m \in 0 .. n - 1
  BY DEF OpensIn
<1>5. Inside(ls, n + 1) = Inside(ls, n) \cup {n}
  <2>1. OpensIn(ls, 0, n + 1) = OpensIn(ls, 0, n) \cup {n}
    BY <1>2
  <2>. QED
    BY <1>2, <1>3, <1>4, <2>1 DEF Inside
<1>6. \A i \in DOMAIN os : os[i] \in 0 .. n - 1
  <2>1. \A i \in DOMAIN os : os[i] \in OpensIn(ls, 0, n)
    BY DEF Stack, Inside
  <2>. QED
    BY <2>1, <1>4
<1>7. os \in Seq(Nat) /\ Len(os) \in Nat /\ DOMAIN os = 1 .. Len(os)
  BY DEF Stack
<1>8. /\ new \in Seq(Nat) /\ Len(new) = Len(os) + 1 /\ DOMAIN new = 1 .. Len(os) + 1
      /\ new[Len(os) + 1] = n /\ \A i \in DOMAIN os : new[i] = os[i]
  BY <1>7
<1>. HIDE DEF new
<1>9. \A i, j \in DOMAIN new : i < j => new[i] < new[j]
  <2>. TAKE i, j \in DOMAIN new
  <2>1. i \in DOMAIN os => os[i] < n
    BY <1>6
  <2>2. i \in DOMAIN os /\ j \in DOMAIN os /\ i < j => os[i] < os[j]
    BY DEF Stack
  <2>3. i < j => i \in DOMAIN os /\ (j \in DOMAIN os \/ j = Len(os) + 1)
    BY <1>7, <1>8
  <2>. QED
    BY <1>8, <2>1, <2>2, <2>3
<1>10. {new[i] : i \in DOMAIN new} = Inside(ls, n + 1)
  <2>1. {new[i] : i \in DOMAIN new} = {os[i] : i \in DOMAIN os} \cup {n}
    BY <1>7, <1>8
  <2>. QED
    BY <1>5, <2>1 DEF Stack
<1>11. \A i \in DOMAIN new :
         Cardinality(OpensIn(ls, new[i], n + 1)) =
           Cardinality(EndsIn(ls, new[i], n + 1)) + (Len(new) - i)
  <2>. TAKE i \in DOMAIN new
  <2>1. CASE i = Len(os) + 1
    <3>1. new[i] = n /\ Len(new) - i = 0 /\ Cardinality({}) = 0
      BY <1>7, <1>8, <2>1, FS_EmptySet
    <3>2. OpensIn(ls, new[i], n + 1) = {} /\ EndsIn(ls, new[i], n + 1) = {}
      BY <1>3, <3>1
    <3>3. Cardinality(OpensIn(ls, new[i], n + 1)) = 0 /\ Cardinality(EndsIn(ls, new[i], n + 1)) = 0
      BY <3>1, <3>2
    <3>. QED
      BY <3>1, <3>3
  <2>2. CASE i \in DOMAIN os
    <3>1. Cardinality(OpensIn(ls, os[i], n)) = Cardinality(EndsIn(ls, os[i], n)) + (Len(os) - i)
      BY <2>2 DEF Stack
    <3>2. /\ Cardinality(OpensIn(ls, os[i], n + 1)) = Cardinality(OpensIn(ls, os[i], n)) + 1
          /\ EndsIn(ls, os[i], n + 1) = EndsIn(ls, os[i], n)
      BY <1>2, <1>6, <2>2
    <3>3. os[i] \in Nat /\ Cardinality(EndsIn(ls, os[i], n)) \in Nat
      BY <1>6, <2>2, Counted
    <3>. QED
      BY <1>7, <1>8, <2>2, <3>1, <3>2, <3>3
  <2>. QED
    BY <1>7, <1>8, <2>1, <2>2
<1>. QED
  BY <1>8, <1>9, <1>10, <1>11 DEF Stack, new

(* An .endl.                                                               *)
LEMMA StackCloses ==
  ASSUME NEW ls, NEW n \in Nat \ {0}, NEW os, Stack(ls, n, os), ls[n].line.kind = "endl"
  PROVE  Stack(ls, n + 1, IF os = <<>> THEN os ELSE SubSeq(os, 1, Len(os) - 1))
<1>. DEFINE new == IF os = <<>> THEN os ELSE SubSeq(os, 1, Len(os) - 1)
            left == IF os = <<>> THEN 0 ELSE Len(os) - 1
<1>1. ~ Opening(ls, n)
  BY DEF Opening
<1>2. os \in Seq(Nat) /\ Len(os) \in Nat /\ DOMAIN os = 1 .. Len(os) /\ (os = <<>> <=> Len(os) = 0)
  BY DEF Stack
<1>3. /\ new \in Seq(Nat) /\ left \in Nat /\ Len(new) = left /\ DOMAIN new = 1 .. left
      /\ DOMAIN new \subseteq DOMAIN os /\ \A i \in DOMAIN new : new[i] = os[i]
      /\ \A i \in DOMAIN os : i \notin DOMAIN new => i = Len(os)
      /\ Len(os) \notin DOMAIN new
  BY <1>2
<1>. HIDE DEF new
<1>4. \A m \in OpensIn(ls, 0, n) : m \in 0 .. n - 1
  BY DEF OpensIn
<1>5. \A i \in DOMAIN os : os[i] \in 0 .. n - 1 /\ os[i] \in Inside(ls, n)
  <2>1. \A i \in DOMAIN os : os[i] \in Inside(ls, n)
    BY DEF Stack
  <2>. QED
    BY <2>1, <1>4 DEF Inside
<1>6. \A i \in DOMAIN os :
        /\ Cardinality(OpensIn(ls, os[i], n)) = Cardinality(EndsIn(ls, os[i], n)) + (Len(os) - i)
        /\ Cardinality(EndsIn(ls, os[i], n)) \in Nat
  <2>1. \A i \in DOMAIN os : os[i] \in Nat
    BY <1>5
  <2>. QED
    BY <2>1, Counted DEF Stack
<1>7. \A i \in DOMAIN os : EndedIn(ls, os[i], n + 1) <=> i = Len(os)
  <2>. TAKE i \in DOMAIN os
  <2>1. ~ EndedIn(ls, os[i], n)
    BY <1>5 DEF Inside
  <2>2. EndedIn(ls, os[i], n + 1) <=>
          Cardinality(EndsIn(ls, os[i], n)) + 1 > Cardinality(OpensIn(ls, os[i], n))
    BY <1>5, <2>1, EndedGrows
  <2>. QED
    BY <1>2, <1>6, <2>2
<1>8. OpensIn(ls, 0, n + 1) = OpensIn(ls, 0, n)
  BY <1>1, OpensGrow
<1>9. {new[i] : i \in DOMAIN new} = Inside(ls, n + 1)
  <2>1. ASSUME NEW i \in DOMAIN new PROVE new[i] \in Inside(ls, n + 1)
    <3>1. i \in DOMAIN os /\ new[i] = os[i] /\ i # Len(os)
      BY <1>3
    <3>. QED
      BY <1>5, <1>7, <1>8, <3>1 DEF Inside
  <2>2. ASSUME NEW m \in Inside(ls, n + 1) PROVE m \in {new[i] : i \in DOMAIN new}
    <3>1. m \in OpensIn(ls, 0, n) /\ ~ EndedIn(ls, m, n + 1) /\ m \in 0 .. n - 1
      BY <1>4, <1>8 DEF Inside
    <3>2. ~ EndedIn(ls, m, n)
      BY <3>1, EndedGrows
    <3>3. PICK i \in DOMAIN os : os[i] = m
      BY <3>1, <3>2 DEF Stack, Inside
    <3>4. i # Len(os)
      BY <1>7, <3>1, <3>3
    <3>. QED
      BY <1>3, <3>3, <3>4
  <2>. QED
    BY <2>1, <2>2
<1>10. \A i, j \in DOMAIN new : i < j => new[i] < new[j]
  BY <1>3 DEF Stack
<1>11. ASSUME NEW i \in DOMAIN new
       PROVE  Cardinality(OpensIn(ls, new[i], n + 1)) =
                Cardinality(EndsIn(ls, new[i], n + 1)) + (Len(new) - i)
  <2>0. os # <<>>
    <3>1. i \in 1 .. left /\ left \in Nat
      BY <1>3
    <3>. QED
      BY <3>1
  <2>1. i \in DOMAIN os /\ new[i] = os[i] /\ Len(new) = Len(os) - 1
    BY <1>2, <1>3, <2>0
  <2>2. /\ OpensIn(ls, os[i], n + 1) = OpensIn(ls, os[i], n)
        /\ Cardinality(EndsIn(ls, os[i], n + 1)) = Cardinality(EndsIn(ls, os[i], n)) + 1
    BY <1>1, <1>5, <2>1, OpensGrow, EndsGrow
  <2>. QED
    BY <1>2, <1>6, <2>1, <2>2
<1>12. Stack(ls, n + 1, new)
  BY <1>3, <1>9, <1>10, <1>11 DEF Stack
<1>. QED
  BY <1>12 DEF new

(* The names of the groups on the stack are those of Nesting.              *)
LEMMA RankOnStack ==
  ASSUME NEW ls, NEW n, NEW os, Stack(ls, n, os)
  PROVE  /\ Cardinality(Inside(ls, n)) = Len(os)
         /\ \A i \in DOMAIN os : Cardinality({k \in Inside(ls, n) : k <= os[i]}) = i
<1>1. os \in Seq(Nat) /\ Len(os) \in Nat /\ DOMAIN os = 1 .. Len(os)
  BY DEF Stack
<1>2. ASSUME NEW i \in 0 .. Len(os), NEW S, S = {os[j] : j \in 1 .. i}
      PROVE  Cardinality(S) = i
  <2>. DEFINE f == [j \in 1 .. i |-> os[j]]
  <2>1. f \in Bijection(1 .. i, S)
    <3>1. f \in [1 .. i -> S] /\ \A t \in S : \E s \in 1 .. i : f[s] = t
      BY <1>2
    <3>2. \A a, b \in 1 .. i : f[a] = f[b] => a = b
      <4>. TAKE a, b \in 1 .. i
      <4>1. a \in DOMAIN os /\ b \in DOMAIN os /\ os[a] \in Nat /\ os[b] \in Nat
        BY <1>1
      <4>2. (a < b => os[a] < os[b]) /\ (b < a => os[b] < os[a])
        BY <4>1 DEF Stack
      <4>. QED
        BY <4>1, <4>2
    <3>. QED
      BY <3>1, <3>2 DEF Bijection, Injection, Surjection, IsInjective
  <2>. QED
    BY <2>1, FS_CountingElements DEF ExistsBijection
<1>3. Inside(ls, n) = {os[j] : j \in 1 .. Len(os)}
  BY <1>1 DEF Stack
<1>4. ASSUME NEW i \in DOMAIN os
      PROVE  {k \in Inside(ls, n) : k <= os[i]} = {os[j] : j \in 1 .. i}
  <2>1. \A j \in DOMAIN os : os[j] <= os[i] <=> j <= i
    <3>. TAKE j \in DOMAIN os
    <3>1. os[i] \in Nat /\ os[j] \in Nat /\ (i < j => os[i] < os[j]) /\ (j < i => os[j] < os[i])
      BY <1>1 DEF Stack
    <3>. QED
      BY <1>1, <3>1
  <2>. QED
    BY <1>1, <1>3, <2>1
<1>5. Cardinality(Inside(ls, n)) = Len(os)
  BY <1>1, <1>2, <1>3
<1>6. ASSUME NEW i \in DOMAIN os PROVE Cardinality({k \in Inside(ls, n) : k <= os[i]}) = i
  <2>. DEFINE S == {k \in Inside(ls, n) : k <= os[i]}
  <2>1. i \in 0 .. Len(os) /\ S = {os[j] : j \in 1 .. i}
    BY <1>1, <1>4
  <2>. HIDE DEF S
  <2>2. Cardinality(S) = i
    BY <1>2, <2>1
  <2>. QED
    BY <2>2 DEF S
<1>. QED
  BY <1>5, <1>6

NestingIn(ls, n) ==
  LET inside == Inside(ls, n)
      nth[i \in 1 .. Cardinality(inside)] ==
        ls[CHOOSE m \in inside : Cardinality({k \in inside : k <= m}) = i].line.name
  IN  <<Default>> \o nth

LEMMA StackNests ==
  ASSUME NEW ls, NEW n, NEW os, Stack(ls, n, os)
  PROVE  NestingIn(ls, n) = NamesOf(ls, os)
<1>1. os \in Seq(Nat) /\ Len(os) \in Nat /\ DOMAIN os = 1 .. Len(os)
      /\ Inside(ls, n) = {os[i] : i \in DOMAIN os}
  BY DEF Stack
<1>2. ASSUME NEW i \in 1 .. Len(os)
      PROVE  (CHOOSE m \in Inside(ls, n) : Cardinality({k \in Inside(ls, n) : k <= m}) = i) = os[i]
  <2>1. os[i] \in Inside(ls, n) /\ Cardinality({k \in Inside(ls, n) : k <= os[i]}) = i
    BY <1>1, RankOnStack
  <2>2. ASSUME NEW m \in Inside(ls, n), Cardinality({k \in Inside(ls, n) : k <= m}) = i
        PROVE  m = os[i]
    <3>1. PICK j \in DOMAIN os : os[j] = m
      BY <1>1
    <3>2. j = i
      BY <2>2, <3>1, RankOnStack
    <3>. QED
      BY <3>1, <3>2
  <2>. QED
    BY <2>1, <2>2
<1>3. Cardinality(Inside(ls, n)) = Len(os)
  BY RankOnStack
<1>. DEFINE Nth(i) == CHOOSE m \in Inside(ls, n) : Cardinality({k \in Inside(ls, n) : k <= m}) = i
<1>4. NestingIn(ls, n) = <<Default>> \o [i \in 1 .. Cardinality(Inside(ls, n)) |-> ls[Nth(i)].line.name]
  BY DEF NestingIn
<1>5. \A i \in 1 .. Len(os) : Nth(i) = os[i]
  BY <1>2
<1>. HIDE DEF Nth
<1>6. [i \in 1 .. Len(os) |-> ls[Nth(i)].line.name] = [i \in 1 .. Len(os) |-> ls[os[i]].line.name]
  BY <1>5
<1>. QED
  BY <1>3, <1>4, <1>6 DEF NamesOf

-----------------------------------------------------------------------------
(***************************************************************************)
(* The column and the lists a line belongs to, for any lines ls.           *)
(***************************************************************************)
Before(ls, n) == {m \in 1 .. n - 1 : ls[m].line.kind = "attach"}

LastOf(S) == CHOOSE m \in S : \A k \in S : k <= m

ColumnIn(ls, n) == IF Before(ls, n) = {} THEN 0 ELSE ls[LastOf(Before(ls, n))].line.col

(* There is a stack of open groups, and a last .attach_to_group.           *)
Regular(ls, n) ==
  /\ \E os : Stack(ls, n, os)
  /\ Before(ls, n) # {} => \E m \in Before(ls, n) : \A k \in Before(ls, n) : k <= m

LEMMA LastIs ==
  ASSUME NEW S \in SUBSET Nat, NEW m \in S, \A k \in S : k <= m
  PROVE  LastOf(S) = m
<1>1. \A l \in S : (\A k \in S : k <= l) => l = m
  <2>. TAKE l \in S
  <2>. HAVE \A k \in S : k <= l
  <2>1. m <= l /\ l <= m /\ m \in Nat /\ l \in Nat
    OBVIOUS
  <2>. QED
    BY <2>1
<1>. QED
  BY <1>1 DEF LastOf

(* Lines that agree up to line n are alike there.                          *)
LEMMA AgreeHere ==
  ASSUME NEW ls, NEW ks, NEW n \in Nat, \A k \in 1 .. n - 1 : ls[k] = ks[k], Regular(ls, n)
  PROVE  /\ Regular(ks, n) /\ ColumnIn(ks, n) = ColumnIn(ls, n)
         /\ NestingIn(ks, n) = NestingIn(ls, n)
<1>1. \A m \in Nat, k \in 0 .. n : /\ OpensIn(ks, m, k) = OpensIn(ls, m, k)
                                   /\ EndsIn(ks, m, k) = EndsIn(ls, m, k)
  BY DEF OpensIn, EndsIn, Opening
<1>2. \A m \in Nat : EndedIn(ks, m, n) <=> EndedIn(ls, m, n)
  <2>. TAKE m \in Nat
  <2>1. EndsIn(ks, m, n) = EndsIn(ls, m, n)
    BY <1>1
  <2>2. \A k \in EndsIn(ls, m, n) : k \in 0 .. n /\ k + 1 \in 0 .. n
    BY DEF EndsIn
  <2>. QED
    BY <1>1, <2>1, <2>2 DEF EndedIn
<1>3. Inside(ks, n) = Inside(ls, n)
  <2>1. OpensIn(ks, 0, n) = OpensIn(ls, 0, n) /\ OpensIn(ls, 0, n) \subseteq Nat
    BY <1>1 DEF OpensIn
  <2>. QED
    BY <1>2, <2>1 DEF Inside
<1>4. PICK os : Stack(ls, n, os)
  BY DEF Regular
<1>5. os \in Seq(Nat) /\ DOMAIN os = 1 .. Len(os) /\ \A i \in DOMAIN os : os[i] \in Nat
  BY <1>4 DEF Stack
<1>6. Stack(ks, n, os)
  BY <1>1, <1>3, <1>4, <1>5 DEF Stack
<1>7. NamesOf(ks, os) = NamesOf(ls, os)
  <2>1. \A i \in 1 .. Len(os) : os[i] \in 1 .. n - 1
    BY <1>4, <1>5 DEF Stack, Inside, OpensIn
  <2>2. \A i \in 1 .. Len(os) : ks[os[i]] = ls[os[i]]
    BY <2>1
  <2>. QED
    BY <2>2 DEF NamesOf
<1>8. NestingIn(ks, n) = NestingIn(ls, n)
  BY <1>4, <1>6, <1>7, StackNests
<1>9. Before(ks, n) = Before(ls, n)
  BY DEF Before
<1>10. ColumnIn(ks, n) = ColumnIn(ls, n)
  <2>1. CASE Before(ls, n) # {}
    <3>1. PICK m \in Before(ls, n) : \A k \in Before(ls, n) : k <= m
      BY <2>1 DEF Regular
    <3>2. LastOf(Before(ls, n)) = m /\ m \in 1 .. n - 1
      BY <3>1, LastIs DEF Before
    <3>. QED
      BY <1>9, <2>1, <3>2 DEF ColumnIn
  <2>. QED
    BY <1>9, <2>1 DEF ColumnIn
<1>. QED
  BY <1>6, <1>8, <1>9, <1>10 DEF Regular

LEMMA FrontOf ==
  ASSUME NEW d, NEW n \in Nat \ {0}, NEW f, f = [i \in 1 .. n |-> f[i]]
  PROVE  SubSeq(<<d>> \o f, 1, n) = <<d>> \o [i \in 1 .. n - 1 |-> f[i]]
<1>. DEFINE S == {d} \cup {f[i] : i \in 1 .. n}
            g == [i \in 1 .. n - 1 |-> f[i]]
            a == SubSeq(<<d>> \o f, 1, n)
            b == <<d>> \o g
<1>1. f \in [1 .. n -> S] /\ g \in [1 .. n - 1 -> S] /\ n - 1 \in Nat /\ d \in S
  OBVIOUS
<1>2. f \in Seq(S) /\ Len(f) = n /\ g \in Seq(S) /\ Len(g) = n - 1 /\ \A i \in 1 .. n - 1 : g[i] = f[i]
  <2>1. f \in Seq(S) /\ Len(f) = n
    BY <1>1
  <2>2. g \in Seq(S) /\ Len(g) = n - 1
    <3>1. g \in [1 .. n - 1 -> S] /\ n - 1 \in Nat
      BY <1>1
    <3>. HIDE DEF g, S
    <3>. QED
      BY <3>1
  <2>. QED
    BY <2>1, <2>2
<1>. HIDE DEF S, g
<1>3. /\ <<d>> \o f \in Seq(S) /\ Len(<<d>> \o f) = n + 1
      /\ \A i \in 1 .. n + 1 : (<<d>> \o f)[i] = IF i = 1 THEN d ELSE f[i - 1]
  BY <1>1, <1>2
<1>4. /\ b \in Seq(S) /\ Len(b) = n
      /\ \A i \in 1 .. n : b[i] = IF i = 1 THEN d ELSE f[i - 1]
  BY <1>1, <1>2
<1>5. a \in Seq(S) /\ Len(a) = n /\ \A i \in 1 .. n : a[i] = IF i = 1 THEN d ELSE f[i - 1]
  BY <1>1, <1>3
<1>. HIDE DEF a, b
<1>. DEFINE at(i) == IF i = 1 THEN d ELSE f[i - 1]
<1>6. a = b
  <2>1. (\A i \in 1 .. n : a[i] = at(i)) /\ \A i \in 1 .. n : b[i] = at(i)
    BY <1>4, <1>5
  <2>. HIDE DEF at
  <2>2. \A i \in 1 .. Len(a) : a[i] = b[i]
    BY <1>5, <2>1
  <2>3. a \in Seq(S) /\ b \in Seq(S) /\ Len(a) = Len(b)
    BY <1>4, <1>5
  <2>. QED
    BY <2>2, <2>3, SeqEqual
<1>. QED
  BY <1>6 DEF a, b, g

(* What the next line does to the open groups.                             *)
Outside(names) == IF Len(names) > 1 THEN SubSeq(names, 1, Len(names) - 1) ELSE names

LEMMA NestingNext ==
  ASSUME NEW ls, NEW n \in Nat \ {0}, Regular(ls, n)
  PROVE  /\ \E os : Stack(ls, n + 1, os)
         /\ NestingIn(ls, n + 1) =
              IF Opening(ls, n) THEN Append(NestingIn(ls, n), ls[n].line.name)
              ELSE IF ls[n].line.kind = "endl" THEN Outside(NestingIn(ls, n))
              ELSE NestingIn(ls, n)
<1>1. PICK os : Stack(ls, n, os)
  BY DEF Regular
<1>2. NestingIn(ls, n) = NamesOf(ls, os)
  BY <1>1, StackNests
<1>3. os \in Seq(Nat) /\ Len(os) \in Nat /\ DOMAIN os = 1 .. Len(os)
  BY <1>1 DEF Stack
<1>4. CASE Opening(ls, n)
  <2>1. Stack(ls, n + 1, Append(os, n))
    BY <1>1, <1>4, StackOpens
  <2>2. NestingIn(ls, n + 1) = NamesOf(ls, Append(os, n))
    BY <2>1, StackNests
  <2>3. NamesOf(ls, Append(os, n)) = Append(NamesOf(ls, os), ls[n].line.name)
    BY <1>3 DEF NamesOf
  <2>. QED
    BY <1>2, <1>4, <2>1, <2>2, <2>3
<1>5. CASE ls[n].line.kind = "endl"
  <2>. DEFINE new == IF os = <<>> THEN os ELSE SubSeq(os, 1, Len(os) - 1)
  <2>1. Stack(ls, n + 1, new)
    BY <1>1, <1>5, StackCloses
  <2>2. NestingIn(ls, n + 1) = NamesOf(ls, new)
    BY <2>1, StackNests
  <2>3. NamesOf(ls, new) = Outside(NamesOf(ls, os))
    <3>. DEFINE names == [i \in 1 .. Len(os) |-> ls[os[i]].line.name]
    <3>1. Len(NamesOf(ls, os)) = Len(os) + 1 /\ NamesOf(ls, os) = <<Default>> \o names
      BY <1>3 DEF NamesOf
    <3>2. CASE os = <<>>
      BY <3>1, <3>2 DEF Outside
    <3>3. CASE os # <<>>
      <4>0. Len(os) # 0
        BY <1>3, <3>3
      <4>1. Len(os) - 1 \in Nat /\ new = SubSeq(os, 1, Len(os) - 1) /\ Len(new) = Len(os) - 1
            /\ \A i \in 1 .. Len(os) - 1 : new[i] = os[i]
        BY <1>3, <3>3
      <4>2. NamesOf(ls, new) = <<Default>> \o [i \in 1 .. Len(os) - 1 |-> names[i]]
        <5>1. [i \in 1 .. Len(new) |-> ls[new[i]].line.name] = [i \in 1 .. Len(os) - 1 |-> names[i]]
          <6>1. \A i \in 1 .. Len(os) - 1 : names[i] = ls[os[i]].line.name
            BY <1>3
          <6>2. Len(new) = Len(os) - 1
            BY <4>1
          <6>. HIDE DEF new, names
          <6>3. \A i \in 1 .. Len(os) - 1 : ls[new[i]].line.name = names[i]
            BY <4>1, <6>1 DEF new
          <6>. QED
            BY <6>2, <6>3
        <5>. QED
          BY <5>1 DEF NamesOf
      <4>3. SubSeq(<<Default>> \o names, 1, Len(os)) = <<Default>> \o [i \in 1 .. Len(os) - 1 |-> names[i]]
        <5>1. Len(os) \in Nat \ {0}
          BY <1>3, <4>0
        <5>2. names = [i \in 1 .. Len(os) |-> names[i]]
          OBVIOUS
        <5>. HIDE DEF names
        <5>. QED
          BY <5>1, <5>2, FrontOf
      <4>. DEFINE all == NamesOf(ls, os)
      <4>4. Len(all) > 1 /\ Len(all) - 1 = Len(os) /\ all = <<Default>> \o names
        BY <1>3, <3>1, <4>0
      <4>. HIDE DEF all, names, new
      <4>5. Outside(all) = SubSeq(all, 1, Len(os))
        BY <4>4 DEF Outside
      <4>. QED
        BY <4>2, <4>3, <4>4, <4>5 DEF all
    <3>. QED
      BY <3>2, <3>3
  <2>4. ~ Opening(ls, n)
    BY <1>5 DEF Opening
  <2>. QED
    BY <1>2, <1>5, <2>1, <2>2, <2>3, <2>4
<1>6. CASE ~ Opening(ls, n) /\ ls[n].line.kind # "endl"
  <2>1. Stack(ls, n + 1, os)
    BY <1>1, <1>6, StackStays
  <2>. QED
    BY <1>2, <1>6, <2>1, StackNests
<1>. QED
  BY <1>4, <1>5, <1>6

(* And to the column.                                                      *)
LEMMA ColumnNext ==
  ASSUME NEW ls, NEW n \in Nat \ {0}, Regular(ls, n)
  PROVE  /\ Regular(ls, n + 1)
         /\ ColumnIn(ls, n + 1) = IF ls[n].line.kind = "attach" THEN ls[n].line.col
                                  ELSE ColumnIn(ls, n)
<1>1. \E os : Stack(ls, n + 1, os)
  BY NestingNext
<1>2. CASE ls[n].line.kind = "attach"
  <2>1. n \in Before(ls, n + 1) /\ \A k \in Before(ls, n + 1) : k <= n
    BY <1>2 DEF Before
  <2>2. LastOf(Before(ls, n + 1)) = n
    <3>1. Before(ls, n + 1) \in SUBSET Nat
      BY DEF Before
    <3>. QED
      BY <2>1, <3>1, LastIs
  <2>. QED
    BY <1>1, <1>2, <2>1, <2>2 DEF ColumnIn, Regular
<1>3. CASE ls[n].line.kind # "attach"
  <2>1. Before(ls, n + 1) = Before(ls, n)
    BY <1>3 DEF Before
  <2>. QED
    BY <1>1, <1>3, <2>1 DEF ColumnIn, Regular
<1>. QED
  BY <1>2, <1>3

-----------------------------------------------------------------------------
(***************************************************************************)
(* The lists.                                                              *)
(***************************************************************************)
Names == {"text", "data"}

ListsOK(gs, last) ==
  /\ gs = [key \in DOMAIN gs |-> gs[key]]
  /\ \A key \in DOMAIN gs :
       /\ key = <<key[1], key[2]>>
       /\ gs[key] \in [text : Seq(1 .. last), data : Seq(1 .. last)]

HoldingIn(gs, n) ==
  {h \in (DOMAIN gs) \X Names : \E i \in DOMAIN gs[h[1]][h[2]] : gs[h[1]][h[2]][i] = n}

HasLine(list, n) == \E i \in DOMAIN list : list[i] = n

LEMMA HoldingIs ==
  ASSUME NEW gs, NEW n, NEW key, NEW list
  PROVE  <<key, list>> \in HoldingIn(gs, n) <=>
           key \in DOMAIN gs /\ list \in Names /\ HasLine(gs[key][list], n)
BY DEF HoldingIn, HasLine

LEMMA HoldingPairs ==
  ASSUME NEW gs, NEW n
  PROVE  \A h \in HoldingIn(gs, n) : h = <<h[1], h[2]>>
BY DEF HoldingIn

LEMMA PairsSame ==
  ASSUME NEW A, NEW B, \A h \in A : h = <<h[1], h[2]>>, \A h \in B : h = <<h[1], h[2]>>,
         \A x, y : <<x, y>> \in A <=> <<x, y>> \in B
  PROVE  A = B
<1>1. ASSUME NEW h \in A PROVE h \in B
  <2>1. <<h[1], h[2]>> \in B
    OBVIOUS
  <2>2. h = <<h[1], h[2]>>
    OBVIOUS
  <2>. QED
    BY <2>1, <2>2
<1>2. ASSUME NEW h \in B PROVE h \in A
  <2>1. <<h[1], h[2]>> \in A
    OBVIOUS
  <2>2. h = <<h[1], h[2]>>
    OBVIOUS
  <2>. QED
    BY <2>1, <2>2
<1>. QED
  BY <1>1, <1>2

LEMMA ListsGrow ==
  ASSUME NEW gs, NEW last \in Nat, ListsOK(gs, last)
  PROVE  ListsOK(gs, last + 1)
<1>1. 1 .. last \subseteq 1 .. last + 1
  OBVIOUS
<1>2. \A s \in Seq(1 .. last) : s \in Seq(1 .. last + 1)
  BY <1>1
<1>. QED
  BY <1>2 DEF ListsOK

(* A line is appended to a list.                                           *)
ListsAt(gs, key) == IF key \in DOMAIN gs THEN gs[key] ELSE NoLines

WithLine(gs, c, l, list, n) ==
  With(gs, <<c, l>>, [ListsAt(gs, <<c, l>>) EXCEPT ![list] = Append(@, n)])

LEMMA LinesAdded ==
  ASSUME NEW gs, NEW last \in Nat, ListsOK(gs, last), NEW c, NEW l, NEW list \in Names,
         NEW hs, hs = WithLine(gs, c, l, list, last + 1)
  PROVE  /\ ListsOK(hs, last + 1)
         /\ HoldingIn(hs, last + 1) = {<<<<c, l>>, list>>}
         /\ \A n \in 1 .. last : HoldingIn(hs, n) = HoldingIn(gs, n)
<1>. DEFINE key == <<c, l>>
            old == ListsAt(gs, key)
            more == [old EXCEPT ![list] = Append(@, last + 1)]
<1>0. ListsOK(gs, last + 1)
  BY ListsGrow
<1>1. /\ hs = [k \in DOMAIN gs \cup {key} |-> IF k = key THEN more ELSE gs[k]]
      /\ DOMAIN hs = DOMAIN gs \cup {key}
      /\ hs[key] = more /\ \A k \in DOMAIN gs : k # key => hs[k] = gs[k]
  BY DEF With, WithLine
<1>2. /\ old \in [text : Seq(1 .. last), data : Seq(1 .. last)]
      /\ old \in [text : Seq(1 .. last + 1), data : Seq(1 .. last + 1)]
      /\ key \notin DOMAIN gs => old.text = <<>> /\ old.data = <<>>
      /\ key \in DOMAIN gs => old = gs[key]
  BY <1>0 DEF ListsOK, NoLines, ListsAt
<1>3. /\ more \in [text : Seq(1 .. last + 1), data : Seq(1 .. last + 1)]
      /\ list = "text" => more.text = Append(old.text, last + 1) /\ more.data = old.data
      /\ list = "data" => more.data = Append(old.data, last + 1) /\ more.text = old.text
  <2>1. \A s \in Seq(1 .. last + 1) : Append(s, last + 1) \in Seq(1 .. last + 1)
    OBVIOUS
  <2>2. CASE list = "text"
    BY <1>2, <2>1, <2>2
  <2>3. CASE list = "data"
    BY <1>2, <2>1, <2>3
  <2>. QED
    BY <2>2, <2>3 DEF Names
<1>. HIDE DEF key, more, old
<1>4. ListsOK(hs, last + 1)
  <2>1. key = <<key[1], key[2]>>
    BY DEF key
  <2>. QED
    BY <1>0, <1>1, <1>3, <2>1 DEF ListsOK
<1>5. ASSUME NEW s \in Seq(1 .. last), NEW n \in 1 .. last + 1
      PROVE  /\ HasLine(Append(s, last + 1), n) <=> HasLine(s, n) \/ n = last + 1
             /\ n = last + 1 => ~ HasLine(s, n)
  <2>. DEFINE a == Append(s, last + 1)
  <2>1. /\ Len(s) \in Nat /\ DOMAIN s = 1 .. Len(s) /\ DOMAIN a = 1 .. Len(s) + 1
        /\ a[Len(s) + 1] = last + 1 /\ \A i \in DOMAIN s : a[i] = s[i]
    OBVIOUS
  <2>2. \A i \in DOMAIN s : s[i] \in 1 .. last
    BY <2>1
  <2>. HIDE DEF a
  <2>3. HasLine(a, n) <=> HasLine(s, n) \/ n = last + 1
    <3>1. n = last + 1 => HasLine(a, n)
      <4>1. Len(s) + 1 \in DOMAIN a
        BY <2>1
      <4>. QED
        BY <2>1, <4>1 DEF HasLine
    <3>2. HasLine(s, n) => HasLine(a, n)
      <4>1. \A i \in DOMAIN s : i \in DOMAIN a
        BY <2>1
      <4>. QED
        BY <2>1, <4>1 DEF HasLine
    <3>3. HasLine(a, n) => HasLine(s, n) \/ n = last + 1
      <4>1. \A i \in DOMAIN a : i \in DOMAIN s \/ i = Len(s) + 1
        BY <2>1
      <4>. QED
        BY <2>1, <4>1 DEF HasLine
    <3>. QED
      BY <3>1, <3>2, <3>3
  <2>4. n = last + 1 => ~ HasLine(s, n)
    BY <2>2 DEF HasLine
  <2>. QED
    BY <2>3, <2>4 DEF a
<1>6. ASSUME NEW n \in 1 .. last + 1
      PROVE  /\ n # last + 1 => \A k, o : <<k, o>> \in HoldingIn(hs, n) <=> <<k, o>> \in HoldingIn(gs, n)
             /\ n = last + 1 => \A k, o : <<k, o>> \in HoldingIn(hs, n) <=> k = key /\ o = list
  <2>1. ASSUME NEW k, NEW o, k # key
        PROVE  /\ n # last + 1 => (<<k, o>> \in HoldingIn(hs, n) <=> <<k, o>> \in HoldingIn(gs, n))
               /\ n = last + 1 => <<k, o>> \notin HoldingIn(hs, n)
    <3>1. ASSUME k \in DOMAIN gs, o \in Names
          PROVE  hs[k][o] = gs[k][o] /\ gs[k][o] \in Seq(1 .. last)
      BY <1>1, <2>1, <3>1 DEF ListsOK, Names
    <3>2. <<k, o>> \in HoldingIn(hs, n) <=> k \in DOMAIN gs /\ o \in Names /\ HasLine(gs[k][o], n)
      BY <1>1, <2>1, <3>1, HoldingIs
    <3>3. <<k, o>> \in HoldingIn(gs, n) <=> k \in DOMAIN gs /\ o \in Names /\ HasLine(gs[k][o], n)
      BY HoldingIs
    <3>4. n = last + 1 /\ k \in DOMAIN gs /\ o \in Names => ~ HasLine(gs[k][o], n)
      BY <1>5, <3>1
    <3>. QED
      BY <3>2, <3>3, <3>4
  <2>2. ASSUME NEW o
        PROVE  /\ n # last + 1 => (<<key, o>> \in HoldingIn(hs, n) <=> <<key, o>> \in HoldingIn(gs, n))
               /\ n = last + 1 => (<<key, o>> \in HoldingIn(hs, n) <=> o = list)
    <3>1. \A o1 \in Names : old[o1] \in Seq(1 .. last)
      BY <1>2 DEF Names
    <3>2. \A o1 \in Names : hs[key][o1] = IF o1 = list THEN Append(old[o1], last + 1) ELSE old[o1]
      BY <1>1, <1>3 DEF Names
    <3>3. <<key, o>> \in HoldingIn(gs, n) <=> o \in Names /\ HasLine(old[o], n)
      <4>1. CASE key \in DOMAIN gs
        BY <1>2, <4>1, HoldingIs
      <4>2. CASE key \notin DOMAIN gs
        <5>1. \A o1 \in Names : old[o1] = <<>>
          BY <1>2, <4>2 DEF Names
        <5>. QED
          BY <4>2, <5>1, HoldingIs DEF HasLine
      <4>. QED
        BY <4>1, <4>2
    <3>4. <<key, o>> \in HoldingIn(hs, n) <=> o \in Names /\ HasLine(hs[key][o], n)
      BY <1>1, HoldingIs
    <3>5. o \in Names => /\ n = last + 1 => ~ HasLine(old[o], n)
                         /\ HasLine(Append(old[o], last + 1), n) <=> HasLine(old[o], n) \/ n = last + 1
      BY <1>5, <3>1
    <3>6. o \in Names => (HasLine(hs[key][o], n) <=> HasLine(old[o], n) \/ (n = last + 1 /\ o = list))
      BY <3>2, <3>5
    <3>. QED
      BY <3>3, <3>4, <3>5, <3>6
  <2>3. ASSUME n # last + 1, NEW k, NEW o
        PROVE  <<k, o>> \in HoldingIn(hs, n) <=> <<k, o>> \in HoldingIn(gs, n)
    BY <2>1, <2>2, <2>3
  <2>4. ASSUME n = last + 1, NEW k, NEW o
        PROVE  <<k, o>> \in HoldingIn(hs, n) <=> k = key /\ o = list
    BY <2>1, <2>2, <2>4
  <2>. QED
    BY <2>3, <2>4
<1>7. HoldingIn(hs, last + 1) = {<<key, list>>}
  <2>. DEFINE H == HoldingIn(hs, last + 1)
  <2>1. \A h \in H : h = <<h[1], h[2]>>
    BY DEF HoldingIn
  <2>2. last + 1 \in 1 .. last + 1
    OBVIOUS
  <2>3. \A k, o : <<k, o>> \in H <=> k = key /\ o = list
    BY <1>6, <2>2
  <2>. HIDE DEF H
  <2>4. \A h \in H : h[1] = key /\ h[2] = list
    <3>. TAKE h \in H
    <3>1. <<h[1], h[2]>> \in H
      BY <2>1
    <3>. QED
      BY <2>3, <3>1
  <2>5. \A h \in H : h = <<key, list>>
    BY <2>1, <2>4
  <2>6. <<key, list>> \in H
    BY <2>3
  <2>7. H = {<<key, list>>}
    BY <2>5, <2>6
  <2>. QED
    BY <2>7 DEF H
<1>8. ASSUME NEW n \in 1 .. last PROVE HoldingIn(hs, n) = HoldingIn(gs, n)
  <2>1. n \in 1 .. last + 1 /\ n # last + 1
    OBVIOUS
  <2>2. \A k, o : <<k, o>> \in HoldingIn(hs, n) <=> <<k, o>> \in HoldingIn(gs, n)
    BY <1>6, <2>1
  <2>. DEFINE A == HoldingIn(hs, n)
              B == HoldingIn(gs, n)
  <2>3. (\A h \in A : h = <<h[1], h[2]>>) /\ \A h \in B : h = <<h[1], h[2]>>
    BY HoldingPairs
  <2>4. \A x, y : <<x, y>> \in A <=> <<x, y>> \in B
    BY <2>2
  <2>. HIDE DEF A, B
  <2>5. A = B
    BY <2>3, <2>4, PairsSame
  <2>. QED
    BY <2>5 DEF A, B
<1>. QED
  BY <1>4, <1>7, <1>8 DEF key

(* A column begins anew.                                                   *)
OfOthers(H, c) == {h \in H : h[1][1] # c}

LEMMA LinesDropped ==
  ASSUME NEW gs, NEW last \in Nat, ListsOK(gs, last), NEW c, NEW n
  PROVE  /\ ListsOK(Without(gs, c), last)
         /\ HoldingIn(Without(gs, c), n) = OfOthers(HoldingIn(gs, n), c)
<1>1. /\ DOMAIN Without(gs, c) = {k \in DOMAIN gs : k[1] # c}
      /\ \A k \in DOMAIN Without(gs, c) : Without(gs, c)[k] = gs[k]
      /\ Without(gs, c) = [k \in DOMAIN Without(gs, c) |-> Without(gs, c)[k]]
  BY DEF Without
<1>2. ListsOK(Without(gs, c), last)
  BY <1>1 DEF ListsOK
<1>3. HoldingIn(Without(gs, c), n) = OfOthers(HoldingIn(gs, n), c)
  BY <1>1 DEF HoldingIn, OfOthers
<1>. QED
  BY <1>2, <1>3

(* An annotation enters the list of its group, if there is none.           *)
LEMMA LinesNamed ==
  ASSUME NEW gs, NEW last \in Nat, ListsOK(gs, last), NEW c, NEW l, NEW n,
         NEW old, old = IF <<c, l>> \in DOMAIN gs THEN gs[<<c, l>>] ELSE NoLines,
         NEW hs, hs = With(gs, <<c, l>>, old)
  PROVE  ListsOK(hs, last) /\ HoldingIn(hs, n) = HoldingIn(gs, n)
<1>. DEFINE key == <<c, l>>
<1>1. /\ hs = [k \in DOMAIN hs |-> hs[k]]
      /\ DOMAIN hs = DOMAIN gs \cup {key}
      /\ hs[key] = old /\ \A k \in DOMAIN gs : hs[k] = gs[k]
  BY DEF With
<1>2. old \in [text : Seq(1 .. last), data : Seq(1 .. last)]
  BY DEF ListsOK, NoLines
<1>3. ListsOK(hs, last)
  <2>1. key = <<key[1], key[2]>>
    OBVIOUS
  <2>. QED
    BY <1>1, <1>2, <2>1 DEF ListsOK
<1>4. ASSUME NEW k, NEW o
      PROVE  <<k, o>> \in HoldingIn(hs, n) <=> <<k, o>> \in HoldingIn(gs, n)
  <2>1. CASE k \in DOMAIN gs
    BY <1>1, <2>1, HoldingIs
  <2>2. CASE k \notin DOMAIN gs
    <3>1. k = key => \A o1 \in Names : hs[k][o1] = <<>>
      BY <1>1, <2>2 DEF NoLines, Names
    <3>. QED
      BY <1>1, <2>2, <3>1, HoldingIs DEF HasLine
  <2>. QED
    BY <2>1, <2>2
<1>5. HoldingIn(hs, n) = HoldingIn(gs, n)
  BY <1>4, HoldingPairs, PairsSame
<1>. QED
  BY <1>3, <1>5

-----------------------------------------------------------------------------
(***************************************************************************)
(* Where the lines are.                                                    *)
(***************************************************************************)
Inserted(ls, n) ==
  ls[n].line.kind \in Inserting \/ (ls[n].line.kind = "label" /\ ls[n].data)

ClearedIn(ls, n) ==
  \E m \in n .. Len(ls) : ls[m].line.kind = "attach" /\ ls[m].line.col = ColumnIn(ls, n)

PlaceIn(ls, n) ==
  <<<<ColumnIn(ls, n), NestingIn(ls, n)>>, IF ls[n].data THEN "data" ELSE "text">>

PlacedAt(ls, gs, n) ==
  Inserted(ls, n) => HoldingIn(gs, n) = IF ClearedIn(ls, n) THEN {} ELSE {PlaceIn(ls, n)}

PlacedIn(ls, gs) == \A n \in 1 .. Len(ls) : PlacedAt(ls, gs, n)

LineType == [line : Lines, data : BOOLEAN]

RegularIn(ls) == \A n \in 1 .. Len(ls) + 1 : Regular(ls, n)

LEMMA NewLine ==
  ASSUME NEW ls \in Seq(LineType), RegularIn(ls), NEW x \in LineType
  PROVE  LET new == Append(ls, x)
             N == Len(ls) + 1
         IN  /\ new \in Seq(LineType) /\ Len(new) = N /\ N \in Nat \ {0} /\ RegularIn(new)
             /\ new[N] = x /\ \A n \in 1 .. Len(ls) : new[n] = ls[n]
             /\ \A n \in 1 .. N : ColumnIn(new, n) = ColumnIn(ls, n) /\ NestingIn(new, n) = NestingIn(ls, n)
             /\ NestingIn(new, N + 1) =
                  IF x.line.kind = "label" /\ ~ x.data THEN Append(NestingIn(ls, N), x.line.name)
                  ELSE IF x.line.kind = "endl" THEN Outside(NestingIn(ls, N))
                  ELSE NestingIn(ls, N)
             /\ ColumnIn(new, N + 1) = IF x.line.kind = "attach" THEN x.line.col ELSE ColumnIn(ls, N)
<1>. DEFINE new == Append(ls, x)
            N == Len(ls) + 1
<1>1. /\ new \in Seq(LineType) /\ Len(new) = N /\ N \in Nat \ {0}
      /\ new[N] = x /\ \A n \in 1 .. Len(ls) : new[n] = ls[n]
  OBVIOUS
<1>. HIDE DEF new
<1>2. ASSUME NEW n \in 1 .. N
      PROVE  Regular(new, n) /\ ColumnIn(new, n) = ColumnIn(ls, n) /\ NestingIn(new, n) = NestingIn(ls, n)
  <2>1. n \in Nat
    BY <1>1
  <2>2. Regular(ls, n)
    BY DEF RegularIn
  <2>3. \A k \in 1 .. n - 1 : ls[k] = new[k]
    BY <1>1
  <2>4. ASSUME NEW ks, \A k \in 1 .. n - 1 : ls[k] = ks[k]
        PROVE  Regular(ks, n) /\ ColumnIn(ks, n) = ColumnIn(ls, n) /\ NestingIn(ks, n) = NestingIn(ls, n)
    BY <2>1, <2>2, <2>4, AgreeHere
  <2>. QED
    BY <2>3, <2>4
<1>3. Regular(new, N) /\ ColumnIn(new, N) = ColumnIn(ls, N) /\ NestingIn(new, N) = NestingIn(ls, N)
  BY <1>1, <1>2
<1>4. NestingIn(new, N + 1) =
        IF x.line.kind = "label" /\ ~ x.data THEN Append(NestingIn(ls, N), x.line.name)
        ELSE IF x.line.kind = "endl" THEN Outside(NestingIn(ls, N))
        ELSE NestingIn(ls, N)
  BY <1>1, <1>3, NestingNext DEF Opening
<1>5. /\ Regular(new, N + 1)
      /\ ColumnIn(new, N + 1) = IF x.line.kind = "attach" THEN x.line.col ELSE ColumnIn(ls, N)
  BY <1>1, <1>3, ColumnNext
<1>6. RegularIn(new)
  BY <1>1, <1>2, <1>5 DEF RegularIn
<1>. QED
  BY <1>1, <1>2, <1>4, <1>5, <1>6 DEF new

LEMMA ClearedNext ==
  ASSUME NEW ls \in Seq(LineType), RegularIn(ls), NEW x \in LineType
  PROVE  LET new == Append(ls, x)
             attached(n) == x.line.kind = "attach" /\ x.line.col = ColumnIn(ls, n)
         IN  /\ \A n \in 1 .. Len(ls) : ClearedIn(new, n) <=> ClearedIn(ls, n) \/ attached(n)
             /\ ClearedIn(new, Len(ls) + 1) <=> attached(Len(ls) + 1)
<1>. DEFINE new == Append(ls, x)
            N == Len(ls) + 1
<1>1. /\ Len(new) = N /\ N \in Nat
      /\ new[N] = x /\ \A n \in 1 .. Len(ls) : new[n] = ls[n]
      /\ \A n \in 1 .. N : ColumnIn(new, n) = ColumnIn(ls, n)
  BY NewLine
<1>. HIDE DEF new
<1>2. ASSUME NEW n \in 1 .. Len(ls)
      PROVE  ClearedIn(new, n) <=>
               ClearedIn(ls, n) \/ (x.line.kind = "attach" /\ x.line.col = ColumnIn(ls, n))
  <2>1. \A m \in n .. N : m \in n .. Len(ls) \/ m = N
    OBVIOUS
  <2>2. \A m \in n .. Len(ls) : m \in n .. N /\ new[m] = ls[m]
    BY <1>1
  <2>3. N \in n .. N /\ n \in 1 .. N
    BY <1>1
  <2>. QED
    BY <1>1, <2>1, <2>2, <2>3 DEF ClearedIn
<1>3. ClearedIn(new, N) <=> x.line.kind = "attach" /\ x.line.col = ColumnIn(ls, N)
  <2>1. N .. Len(new) = {N} /\ N \in 1 .. N
    BY <1>1
  <2>. QED
    BY <1>1, <2>1 DEF ClearedIn
<1>. QED
  BY <1>2, <1>3 DEF new

(* A line that goes to no list, or to the one it belongs to.               *)
LEMMA PlacedStay ==
  ASSUME NEW ls \in Seq(LineType), RegularIn(ls), NEW x \in LineType, NEW gs, NEW hs,
         PlacedIn(ls, gs), x.line.kind # "attach",
         \A n \in 1 .. Len(ls) : HoldingIn(hs, n) = HoldingIn(gs, n),
         Inserted(Append(ls, x), Len(ls) + 1) =>
           HoldingIn(hs, Len(ls) + 1) = {PlaceIn(Append(ls, x), Len(ls) + 1)}
  PROVE  PlacedIn(Append(ls, x), hs)
<1>. DEFINE new == Append(ls, x)
            N == Len(ls) + 1
<1>1. /\ Len(new) = N /\ N \in Nat
      /\ new[N] = x /\ \A n \in 1 .. Len(ls) : new[n] = ls[n]
      /\ \A n \in 1 .. N : ColumnIn(new, n) = ColumnIn(ls, n) /\ NestingIn(new, n) = NestingIn(ls, n)
  BY NewLine
<1>2. /\ \A n \in 1 .. Len(ls) : ClearedIn(new, n) <=> ClearedIn(ls, n)
      /\ ~ ClearedIn(new, N)
  BY ClearedNext
<1>. HIDE DEF new
<1>3. ASSUME NEW n \in 1 .. Len(ls) PROVE PlacedAt(new, hs, n)
  <2>1. n \in 1 .. N /\ new[n] = ls[n] /\ PlacedAt(ls, gs, n)
    BY <1>1 DEF PlacedIn
  <2>2. PlaceIn(new, n) = PlaceIn(ls, n) /\ (Inserted(new, n) <=> Inserted(ls, n))
    BY <1>1, <2>1 DEF PlaceIn, Inserted
  <2>. QED
    BY <1>2, <2>1, <2>2 DEF PlacedAt
<1>4. PlacedAt(new, hs, N)
  BY <1>2 DEF PlacedAt, new
<1>. QED
  BY <1>1, <1>3, <1>4 DEF PlacedIn, new

(* An .attach_to_group: the lists of the column it goes to are dropped.    *)
LEMMA PlacedAnew ==
  ASSUME NEW ls \in Seq(LineType), RegularIn(ls), NEW x \in LineType, NEW gs, NEW hs,
         PlacedIn(ls, gs), x.line.kind = "attach",
         \A n \in 1 .. Len(ls) : HoldingIn(hs, n) = OfOthers(HoldingIn(gs, n), x.line.col),
         HoldingIn(hs, Len(ls) + 1) =
           OfOthers({PlaceIn(Append(ls, x), Len(ls) + 1)}, x.line.col)
  PROVE  PlacedIn(Append(ls, x), hs)
<1>. DEFINE new == Append(ls, x)
            N == Len(ls) + 1
<1>1. /\ Len(new) = N /\ N \in Nat
      /\ new[N] = x /\ \A n \in 1 .. Len(ls) : new[n] = ls[n]
      /\ \A n \in 1 .. N : ColumnIn(new, n) = ColumnIn(ls, n) /\ NestingIn(new, n) = NestingIn(ls, n)
  BY NewLine
<1>2. /\ \A n \in 1 .. Len(ls) :
           ClearedIn(new, n) <=> ClearedIn(ls, n) \/ x.line.col = ColumnIn(ls, n)
      /\ ClearedIn(new, N) <=> x.line.col = ColumnIn(ls, N)
  BY ClearedNext
<1>3. HoldingIn(hs, N) = OfOthers({PlaceIn(new, N)}, x.line.col)
  OBVIOUS
<1>. HIDE DEF new
<1>4. ASSUME NEW n \in 1 .. Len(ls) PROVE PlacedAt(new, hs, n)
  <2>1. n \in 1 .. N /\ new[n] = ls[n] /\ PlacedAt(ls, gs, n)
    BY <1>1 DEF PlacedIn
  <2>2. PlaceIn(new, n) = PlaceIn(ls, n) /\ (Inserted(new, n) <=> Inserted(ls, n))
    BY <1>1, <2>1 DEF PlaceIn, Inserted
  <2>3. PlaceIn(ls, n)[1][1] = ColumnIn(ls, n)
    BY DEF PlaceIn
  <2>4. CASE ClearedIn(ls, n)
    BY <1>2, <2>1, <2>2, <2>4 DEF PlacedAt, OfOthers
  <2>5. CASE ~ ClearedIn(ls, n)
    <3>1. Inserted(new, n) => HoldingIn(hs, n) = OfOthers({PlaceIn(ls, n)}, x.line.col)
      BY <2>1, <2>2, <2>5 DEF PlacedAt
    <3>2. OfOthers({PlaceIn(ls, n)}, x.line.col) =
            IF x.line.col = ColumnIn(ls, n) THEN {} ELSE {PlaceIn(ls, n)}
      BY <2>3 DEF OfOthers
    <3>. QED
      BY <1>2, <2>2, <2>5, <3>1, <3>2 DEF PlacedAt
  <2>. QED
    BY <2>4, <2>5
<1>5. PlacedAt(new, hs, N)
  <2>1. PlaceIn(new, N)[1][1] = ColumnIn(ls, N)
    BY <1>1 DEF PlaceIn
  <2>2. OfOthers({PlaceIn(new, N)}, x.line.col) =
          IF x.line.col = ColumnIn(ls, N) THEN {} ELSE {PlaceIn(new, N)}
    BY <2>1 DEF OfOthers
  <2>. QED
    BY <1>2, <1>3, <2>2 DEF PlacedAt
<1>. QED
  BY <1>1, <1>4, <1>5 DEF PlacedIn, new

-----------------------------------------------------------------------------
(***************************************************************************)
(* The parser: the label it keeps is the groups that are open, the column  *)
(* the one attached to last, and the lists hold what they are to hold.     *)
(***************************************************************************)
Tracked ==
  /\ label = NestingIn(lines, Len(lines) + 1)
  /\ Here = ColumnIn(lines, Len(lines) + 1)
  /\ ListsOK(groups, Len(lines)) /\ PlacedIn(lines, groups)

ParserInv ==
  /\ StatesInv
  /\ lines \in Seq(LineType) /\ RegularIn(lines)
  /\ stage # "error" => Tracked

LEMMA StateKnown == StatesInv => DataState \in BOOLEAN
<1>. SUFFICES ASSUME StatesInv PROVE DataState \in BOOLEAN
  OBVIOUS
<1>1. states \in Seq(BOOLEAN) /\ Len(states) \in Nat /\ depth \in Nat /\ Len(states) > depth
  BY DEF StatesInv, StatesCoverFiles
<1>2. Len(states) \in 1 .. Len(states)
  BY <1>1
<1>. QED
  BY <1>1, <1>2 DEF DataState

(* The line read, and what it is a step of.                                *)
LEMMA LineRead ==
  ASSUME ParserInv, NEW line \in Lines, Read(line)
  PROVE  LET x == [line |-> line, data |-> DataState]
             N == Len(lines) + 1
         IN  /\ x \in LineType /\ x.line = line /\ x.data = DataState
             /\ lines' = Append(lines, x) /\ stage = "parsing" /\ Tracked
             /\ lines' \in Seq(LineType) /\ RegularIn(lines')
             /\ Len(lines') = N /\ N \in Nat \ {0} /\ lines'[N] = x
             /\ NestingIn(lines', N) = label /\ ColumnIn(lines', N) = Here
             /\ NestingIn(lines', N + 1) =
                  IF line.kind = "label" /\ ~ DataState THEN Append(label, line.name)
                  ELSE IF line.kind = "endl" THEN Outside(label) ELSE label
             /\ ColumnIn(lines', N + 1) = IF line.kind = "attach" THEN line.col ELSE Here
<1>. DEFINE x == [line |-> line, data |-> DataState]
            N == Len(lines) + 1
<1>1. x \in LineType /\ x.line = line /\ x.data = DataState
  BY StateKnown DEF ParserInv, LineType
<1>2. lines' = Append(lines, x) /\ stage = "parsing"
  BY DEF Read, Parsing
<1>3. lines \in Seq(LineType) /\ RegularIn(lines) /\ Tracked
  BY <1>2 DEF ParserInv
<1>4. N \in 1 .. N /\ label = NestingIn(lines, N) /\ Here = ColumnIn(lines, N)
  BY <1>3 DEF Tracked
<1>. HIDE DEF x
<1>5. /\ Append(lines, x) \in Seq(LineType) /\ Len(Append(lines, x)) = N /\ N \in Nat \ {0}
      /\ RegularIn(Append(lines, x)) /\ Append(lines, x)[N] = x
      /\ \A n \in 1 .. N : /\ ColumnIn(Append(lines, x), n) = ColumnIn(lines, n)
                           /\ NestingIn(Append(lines, x), n) = NestingIn(lines, n)
      /\ NestingIn(Append(lines, x), N + 1) =
           IF x.line.kind = "label" /\ ~ x.data THEN Append(NestingIn(lines, N), x.line.name)
           ELSE IF x.line.kind = "endl" THEN Outside(NestingIn(lines, N))
           ELSE NestingIn(lines, N)
      /\ ColumnIn(Append(lines, x), N + 1) =
           IF x.line.kind = "attach" THEN x.line.col ELSE ColumnIn(lines, N)
  BY <1>1, <1>3, NewLine
<1>6. NestingIn(lines', N) = label /\ ColumnIn(lines', N) = Here
  BY <1>2, <1>4, <1>5
<1>7. /\ NestingIn(lines', N + 1) =
           IF line.kind = "label" /\ ~ DataState THEN Append(label, line.name)
           ELSE IF line.kind = "endl" THEN Outside(label) ELSE label
      /\ ColumnIn(lines', N + 1) = IF line.kind = "attach" THEN line.col ELSE Here
  BY <1>1, <1>2, <1>4, <1>5
<1>8. lines' \in Seq(LineType) /\ RegularIn(lines') /\ Len(lines') = N /\ N \in Nat \ {0} /\ lines'[N] = x
  BY <1>2, <1>5
<1>. QED
  BY <1>1, <1>2, <1>3, <1>6, <1>7, <1>8 DEF x

(* A line that only changes states, pads or notes.                         *)
LEMMA TracksOthers ==
  ASSUME ParserInv, NEW line \in Lines, Read(line), groups' = groups,
         ~ (line.kind \in Inserting \/ (line.kind = "label" /\ DataState)),
         col' \in {col, Here},
         label' = IF line.kind = "label" /\ ~ DataState THEN Append(label, line.name)
                  ELSE IF line.kind = "endl" THEN Outside(label) ELSE label
  PROVE  Tracked'
<1>. DEFINE x == [line |-> line, data |-> DataState]
            N == Len(lines) + 1
<1>1. /\ x \in LineType /\ x.line = line /\ x.data = DataState
      /\ lines' = Append(lines, x) /\ Tracked
      /\ Len(lines') = N /\ N \in Nat \ {0} /\ lines'[N] = x
      /\ NestingIn(lines', N + 1) =
           IF line.kind = "label" /\ ~ DataState THEN Append(label, line.name)
           ELSE IF line.kind = "endl" THEN Outside(label) ELSE label
      /\ ColumnIn(lines', N + 1) = IF line.kind = "attach" THEN line.col ELSE Here
  BY LineRead
<1>2. line.kind # "attach"
  BY DEF Inserting
<1>3. Here' = Here
  BY DEF Here, NoCol
<1>4. lines \in Seq(LineType) /\ RegularIn(lines) /\ ListsOK(groups, Len(lines)) /\ PlacedIn(lines, groups)
      /\ Len(lines) \in Nat
  BY <1>1 DEF ParserInv, Tracked
<1>. HIDE DEF x
<1>5. ListsOK(groups', N)
  BY <1>4, ListsGrow
<1>6. ~ Inserted(Append(lines, x), N)
  BY <1>1 DEF Inserted
<1>7. PlacedIn(lines', groups')
  BY <1>1, <1>2, <1>4, <1>6, PlacedStay
<1>. QED
  BY <1>1, <1>2, <1>3, <1>5, <1>7 DEF Tracked

(* What insert_col_asmdata adds.                                           *)
LEMMA AddedHolds ==
  ASSUME ParserInv, Tracked, NEW line \in Lines, Read(line)
  PROVE  LET N == Len(lines) + 1
         IN  /\ ListsOK(Added, N)
             /\ HoldingIn(Added, N) = {PlaceIn(lines', N)}
             /\ \A n \in 1 .. Len(lines) : HoldingIn(Added, n) = HoldingIn(groups, n)
<1>. DEFINE N == Len(lines) + 1
            list == IF DataState THEN "data" ELSE "text"
<1>1. lines'[N].data = DataState /\ NestingIn(lines', N) = label /\ ColumnIn(lines', N) = Here
  BY LineRead
<1>2. PlaceIn(lines', N) = <<<<Here, label>>, list>>
  BY <1>1 DEF PlaceIn
<1>3. Added = WithLine(groups, Here, label, list, N)
  BY DEF Added, WithLine, ListsAt, At, Number
<1>4. list \in Names /\ ListsOK(groups, Len(lines)) /\ Len(lines) \in Nat
  BY DEF Names, Tracked, ParserInv
<1>. HIDE DEF list
<1>6. /\ ListsOK(Added, N)
      /\ HoldingIn(Added, N) = {<<<<Here, label>>, list>>}
      /\ \A n \in 1 .. Len(lines) : HoldingIn(Added, n) = HoldingIn(groups, n)
  BY <1>3, <1>4, LinesAdded
<1>. QED
  BY <1>2, <1>6

LEMMA TracksInsert ==
  ASSUME ParserInv, NEW line \in Lines, Read(line), Insert, label' = label,
         line.kind \in {"op", "eop", "EOF"} \/ (line.kind = "label" /\ DataState)
  PROVE  Tracked'
<1>. DEFINE x == [line |-> line, data |-> DataState]
            N == Len(lines) + 1
<1>1. /\ x \in LineType /\ x.line = line /\ x.data = DataState
      /\ lines' = Append(lines, x) /\ Tracked
      /\ Len(lines') = N /\ N \in Nat \ {0} /\ lines'[N] = x
      /\ NestingIn(lines', N + 1) =
           IF line.kind = "label" /\ ~ DataState THEN Append(label, line.name)
           ELSE IF line.kind = "endl" THEN Outside(label) ELSE label
      /\ ColumnIn(lines', N + 1) = IF line.kind = "attach" THEN line.col ELSE Here
  BY LineRead
<1>2. Here' = Here
  BY DEF Insert, Here, NoCol
<1>3. /\ ListsOK(groups', N)
      /\ HoldingIn(groups', N) = {PlaceIn(lines', N)}
      /\ \A n \in 1 .. Len(lines) : HoldingIn(groups', n) = HoldingIn(groups, n)
  BY <1>1, AddedHolds DEF Insert
<1>4. lines \in Seq(LineType) /\ RegularIn(lines) /\ PlacedIn(lines, groups)
  BY <1>1 DEF ParserInv, Tracked
<1>. HIDE DEF x
<1>5. PlacedIn(lines', groups')
  BY <1>1, <1>3, <1>4, PlacedStay
<1>. QED
  BY <1>1, <1>2, <1>3, <1>5 DEF Tracked

LEMMA TracksAttach ==
  ASSUME ParserInv, NEW line \in Lines, Attach(line)
  PROVE  Tracked'
<1>. DEFINE x == [line |-> line, data |-> DataState]
            N == Len(lines) + 1
<1>0. Read(line) /\ line.kind = "attach" /\ label' = label /\ col' = line.col
      /\ groups' = Without(Added, line.col)
  BY DEF Attach
<1>1. /\ x \in LineType /\ x.line = line /\ x.data = DataState
      /\ lines' = Append(lines, x) /\ Tracked
      /\ Len(lines') = N /\ N \in Nat \ {0} /\ lines'[N] = x
      /\ NestingIn(lines', N + 1) =
           IF line.kind = "label" /\ ~ DataState THEN Append(label, line.name)
           ELSE IF line.kind = "endl" THEN Outside(label) ELSE label
      /\ ColumnIn(lines', N + 1) = IF line.kind = "attach" THEN line.col ELSE Here
  BY <1>0, LineRead
<1>2. Here' = line.col
  BY <1>0, ColsAssumption DEF Here
<1>3. /\ ListsOK(Added, N)
      /\ HoldingIn(Added, N) = {PlaceIn(lines', N)}
      /\ \A n \in 1 .. Len(lines) : HoldingIn(Added, n) = HoldingIn(groups, n)
  BY <1>0, <1>1, AddedHolds
<1>4. /\ ListsOK(groups', N)
      /\ \A n : HoldingIn(groups', n) = OfOthers(HoldingIn(Added, n), line.col)
  <2>. DEFINE a == Added
  <2>1. ListsOK(a, N) /\ N \in Nat /\ groups' = Without(a, line.col)
    BY <1>0, <1>1, <1>3
  <2>. HIDE DEF a
  <2>2. ListsOK(groups', N) /\ \A n : HoldingIn(groups', n) = OfOthers(HoldingIn(a, n), line.col)
    BY <2>1, LinesDropped
  <2>. QED
    BY <2>2 DEF a
<1>5. lines \in Seq(LineType) /\ RegularIn(lines) /\ PlacedIn(lines, groups)
  BY <1>1 DEF ParserInv, Tracked
<1>. HIDE DEF x
<1>6. /\ \A n \in 1 .. Len(lines) :
           HoldingIn(groups', n) = OfOthers(HoldingIn(groups, n), x.line.col)
      /\ HoldingIn(groups', N) = OfOthers({PlaceIn(Append(lines, x), N)}, x.line.col)
  BY <1>1, <1>3, <1>4
<1>7. PlacedIn(lines', groups')
  BY <1>0, <1>1, <1>5, <1>6, PlacedAnew
<1>. QED
  BY <1>0, <1>1, <1>2, <1>4, <1>7 DEF Tracked

LEMMA TracksAnnotation ==
  ASSUME ParserInv, NEW line \in Lines, Annotate(line)
  PROVE  Tracked'
<1>. DEFINE x == [line |-> line, data |-> DataState]
            N == Len(lines) + 1
<1>0. Read(line) /\ line.kind = "annotation" /\ label' = label /\ col' = col
      /\ groups' = With(groups, <<col, label>>, At(<<col, label>>))
  BY DEF Annotate
<1>1. /\ x \in LineType /\ x.line = line /\ x.data = DataState
      /\ lines' = Append(lines, x) /\ Tracked
      /\ Len(lines') = N /\ N \in Nat \ {0} /\ lines'[N] = x
      /\ NestingIn(lines', N + 1) =
           IF line.kind = "label" /\ ~ DataState THEN Append(label, line.name)
           ELSE IF line.kind = "endl" THEN Outside(label) ELSE label
      /\ ColumnIn(lines', N + 1) = IF line.kind = "attach" THEN line.col ELSE Here
  BY <1>0, LineRead
<1>2. Here' = Here
  BY <1>0 DEF Here
<1>3. lines \in Seq(LineType) /\ RegularIn(lines) /\ ListsOK(groups, Len(lines)) /\ PlacedIn(lines, groups)
      /\ Len(lines) \in Nat
  BY <1>1 DEF ParserInv, Tracked
<1>4. ListsOK(groups', Len(lines)) /\ \A n : HoldingIn(groups', n) = HoldingIn(groups, n)
  <2>. DEFINE old == At(<<col, label>>)
  <2>1. old = IF <<col, label>> \in DOMAIN groups THEN groups[<<col, label>>] ELSE NoLines
    BY DEF At
  <2>. HIDE DEF old
  <2>. QED
    BY <1>0, <1>3, <2>1, LinesNamed DEF old
<1>. HIDE DEF x
<1>5. ListsOK(groups', N)
  BY <1>3, <1>4, ListsGrow
<1>6. ~ Inserted(Append(lines, x), N)
  BY <1>0, <1>1 DEF Inserted, Inserting
<1>7. PlacedIn(lines', groups')
  BY <1>0, <1>1, <1>3, <1>4, <1>6, PlacedStay
<1>. QED
  BY <1>0, <1>1, <1>2, <1>5, <1>7 DEF Tracked

LEMMA LineTracked ==
  ASSUME ParserInv, NEW line \in Lines, parse_lines(line), stage' # "error"
  PROVE  Tracked'
<1>. USE DEF Inserting
<1>1. CASE Operation(line) \/ EndOfText(line) \/ DataLabel(line)
  BY <1>1, TracksInsert DEF Operation, EndOfText, DataLabel
<1>2. CASE Attach(line)
  BY <1>2, TracksAttach
<1>3. CASE Annotate(line)
  BY <1>3, TracksAnnotation
<1>4. CASE OpenLabel(line)
  BY <1>4, TracksOthers DEF OpenLabel, tables
<1>5. CASE CloseLabel(line)
  <2>1. label' = Outside(label)
    BY <1>5 DEF CloseLabel, Outer, Outside
  <2>. QED
    BY <1>5, <2>1, TracksOthers DEF CloseLabel, tables
<1>6. CASE Section(line) \/ Partition(line)
  BY <1>6, TracksOthers DEF Section, Partition, tables
<1>7. CASE Include(line) \/ EndInclude(line) \/ Finish(line)
  BY <1>7, TracksOthers DEF Include, EndInclude, Finish, tables
<1>8. CASE SetPad(line) \/ SetPadFromFile(line)
  BY <1>8, TracksOthers DEF SetPad, SetPadFromFile, AddPad
<1>9. CASE RejectEndl(line) \/ RejectAnnotation(line) \/ RejectFile(line) \/ RejectPartition(line)
  BY <1>9 DEF RejectEndl, RejectAnnotation, RejectFile, RejectPartition, Reject
<1>. QED
  BY <1>1, <1>2, <1>3, <1>4, <1>5, <1>6, <1>7, <1>8, <1>9 DEF parse_lines

LEMMA EveryLineRead ==
  ASSUME NEW line \in Lines, parse_lines(line)
  PROVE  Read(line)
BY DEF parse_lines, Operation, EndOfText, OpenLabel, DataLabel, CloseLabel, RejectEndl, Attach, Section,
       Annotate, RejectAnnotation, Include, EndInclude, Finish, RejectFile, SetPad, SetPadFromFile,
       Partition, RejectPartition

LEMMA ParserInvariant == Spec => []ParserInv
<1>1. Init => ParserInv
  <2>. SUFFICES ASSUME Init PROVE ParserInv
    OBVIOUS
  <2>1. lines = <<>> /\ label = <<Default>> /\ col = NoCol /\ groups = <<>> /\ StatesInv
    BY DEF Init, StatesInv, StatesCoverFiles
  <2>2. Stack(lines, 1, <<>>) /\ Before(lines, 1) = {}
    <3>1. 0 + 1 .. 1 - 1 = {} /\ 1 .. 1 - 1 = {}
      OBVIOUS
    <3>2. Inside(lines, 1) = {} /\ Before(lines, 1) = {}
      BY <3>1 DEF Inside, OpensIn, Before
    <3>. QED
      BY <3>2 DEF Stack
  <2>3. Regular(lines, 1) /\ NestingIn(lines, 1) = NamesOf(lines, <<>>) /\ ColumnIn(lines, 1) = 0
    BY <2>2, StackNests DEF Regular, ColumnIn
  <2>4. Len(lines) = 0 /\ lines \in Seq(LineType) /\ NamesOf(lines, <<>>) = <<Default>>
    BY <2>1 DEF NamesOf
  <2>5. RegularIn(lines)
    BY <2>3, <2>4 DEF RegularIn
  <2>6. Here = 0
    BY <2>1 DEF Here
  <2>7. ListsOK(groups, 0) /\ PlacedIn(lines, groups)
    BY <2>1, <2>4 DEF ListsOK, PlacedIn
  <2>8. Len(lines) + 1 = 1
    BY <2>4
  <2>9. Tracked
    BY <2>1, <2>3, <2>4, <2>6, <2>7, <2>8 DEF Tracked
  <2>. QED
    BY <2>1, <2>4, <2>5, <2>9 DEF ParserInv
<1>2. ParserInv /\ [Next]_vars => ParserInv'
  <2>. SUFFICES ASSUME ParserInv, [Next]_vars PROVE ParserInv'
    OBVIOUS
  <2>1. ASSUME NEW line \in Lines, parse_lines(line) PROVE ParserInv'
    <3>1. StatesInv'
      BY <2>1, LineKeeps DEF ParserInv
    <3>2. lines' \in Seq(LineType) /\ RegularIn(lines')
      BY <2>1, EveryLineRead, LineRead
    <3>. QED
      BY <2>1, <3>1, <3>2, LineTracked DEF ParserInv
  <2>2. CASE UNCHANGED vars
    BY <2>2 DEF vars, tables, ParserInv, StatesInv, StatesCoverFiles, Tracked, Here
  <2>. QED
    BY <2>1, <2>2 DEF Next, Ended
<1>. QED
  BY <1>1, <1>2, PTL DEF Spec

(* The notions of the properties are those above, for the lines met.       *)
LEMMA NestingHere ==
  ASSUME lines \in Seq(LineType), NEW n \in DOMAIN lines
  PROVE  Nesting(n) = NestingIn(lines, n)
<1>1. DOMAIN lines = 1 .. Len(lines) /\ Len(lines) \in Nat
  OBVIOUS
<1>2. \A k \in 1 .. n : Opens(k) = OpensIn(lines, 0, k)
  BY <1>1 DEF Opens, OpensIn, Opening, Kind
<1>3. ASSUME NEW m \in 1 .. n - 1 PROVE EndedBy(m, n) <=> EndedIn(lines, m, n)
  <2>1. \A k \in Nat : Ends(m, k) = EndsIn(lines, m, k)
    BY DEF Ends, EndsIn, Kind
  <2>2. \A k \in m + 1 .. n - 1 : {i \in Opens(k) : i > m} = OpensIn(lines, m, k)
    <3>. TAKE k \in m + 1 .. n - 1
    <3>1. k \in 1 .. n /\ m \in Nat /\ k \in Nat
      BY <1>1
    <3>2. Opens(k) = OpensIn(lines, 0, k)
      BY <1>2, <3>1
    <3>. QED
      BY <3>1, <3>2 DEF OpensIn
  <2>3. \A k \in EndsIn(lines, m, n) : k \in m + 1 .. n - 1 /\ k \in Nat /\ k + 1 \in Nat
    BY <1>1 DEF EndsIn
  <2>4. Ends(m, n) = EndsIn(lines, m, n)
    BY <1>1, <2>1
  <2>. QED
    BY <2>1, <2>2, <2>3, <2>4 DEF EndedBy, EndedIn
<1>4. {m \in Opens(n) : ~ EndedBy(m, n)} = Inside(lines, n)
  <2>1. Opens(n) = OpensIn(lines, 0, n) /\ \A m \in Opens(n) : m \in 1 .. n - 1
    BY <1>1, <1>2 DEF Opens
  <2>. QED
    BY <1>3, <2>1 DEF Inside
<1>. DEFINE Of(S) == <<Default>> \o [i \in 1 .. Cardinality(S) |->
                       lines[CHOOSE m \in S : Cardinality({k \in S : k <= m}) = i].line.name]
<1>5. Nesting(n) = Of({m \in Opens(n) : ~ EndedBy(m, n)})
  BY DEF Nesting
<1>6. NestingIn(lines, n) = Of(Inside(lines, n))
  BY DEF NestingIn
<1>. HIDE DEF Of
<1>. QED
  BY <1>4, <1>5, <1>6

(* Every line of text and data of the source, with those of its includes,  *)
(* is in the one list insert_col_asmdata is to put it in: of the column    *)
(* attached to last, of the labels open at the line, of text or data as    *)
(* the data state says.  Only an .attach_to_group for the same column      *)
(* drops lines.                                                            *)
THEOREM EveryLinePlaced == Spec => []LinesPlaced
<1>1. ParserInv => LinesPlaced
  <2>. SUFFICES ASSUME ParserInv, stage # "error", NEW n \in DOMAIN lines,
                       Kind(n) \in Inserting \/ (Kind(n) = "label" /\ lines[n].data)
                PROVE  Holding(n) = IF Cleared(n) THEN {}
                                    ELSE {<<<<ColumnOf(n), Nesting(n)>>, ListOf(n)>>}
    BY DEF LinesPlaced
  <2>1. lines \in Seq(LineType) /\ DOMAIN lines = 1 .. Len(lines) /\ Len(lines) \in Nat
        /\ PlacedIn(lines, groups)
    BY DEF ParserInv, Tracked
  <2>2. Holding(n) = HoldingIn(groups, n)
    BY DEF Holding, HoldingIn, Names
  <2>3. Nesting(n) = NestingIn(lines, n)
    BY <2>1, NestingHere
  <2>4. ColumnOf(n) = ColumnIn(lines, n)
    <3>1. {m \in Attaches : m < n} = Before(lines, n)
      BY <2>1 DEF Attaches, Before, Kind
    <3>2. ColumnOf(n) = LET before == {m \in Attaches : m < n}
                        IN  IF before = {} THEN 0 ELSE lines[LastOf(before)].line.col
      BY DEF ColumnOf, LastOf
    <3>. QED
      BY <3>1, <3>2 DEF ColumnIn
  <2>5. Cleared(n) <=> ClearedIn(lines, n)
    BY <2>1, <2>4 DEF Cleared, ClearedIn, Attaches, Kind
  <2>6. PlacedAt(lines, groups, n) /\ Inserted(lines, n)
    BY <2>1 DEF PlacedIn, Inserted, Kind
  <2>. QED
    BY <2>2, <2>3, <2>4, <2>5, <2>6 DEF PlacedAt, PlaceIn, ListOf
<1>. QED
  BY <1>1, ParserInvariant, PTL

-----------------------------------------------------------------------------
(***************************************************************************)
(* The files that are open: how many lines of a kind there are from line a *)
(* to line b.                                                              *)
(***************************************************************************)
Of(ls, kind, a, b) == {k \in a .. b : ls[k].line.kind = kind}

Num(ls, kind, a, b) == Cardinality(Of(ls, kind, a, b))

LEMMA NumIs ==
  ASSUME NEW ls, NEW kind, NEW a \in Nat, NEW b \in Int
  PROVE  /\ IsFiniteSet(Of(ls, kind, a, b)) /\ Num(ls, kind, a, b) \in Nat
         /\ b < a => Num(ls, kind, a, b) = 0
<1>1. IsFiniteSet(a .. b) /\ Of(ls, kind, a, b) \in SUBSET (a .. b)
  BY FS_Interval DEF Of
<1>2. IsFiniteSet(Of(ls, kind, a, b)) /\ Num(ls, kind, a, b) \in Nat
  BY <1>1, FS_Subset, FS_CardinalityType DEF Num
<1>3. ASSUME b < a PROVE Num(ls, kind, a, b) = 0
  <2>1. Of(ls, kind, a, b) = {}
    BY <1>3 DEF Of
  <2>. QED
    BY <2>1, FS_EmptySet DEF Num
<1>. QED
  BY <1>2, <1>3

(* Two stretches of lines, one behind the other.                           *)
LEMMA NumSplits ==
  ASSUME NEW ls, NEW kind, NEW a \in Nat, NEW b \in Nat, NEW c \in Nat, a <= b + 1, b <= c
  PROVE  Num(ls, kind, a, c) = Num(ls, kind, a, b) + Num(ls, kind, b + 1, c)
<1>1. /\ IsFiniteSet(Of(ls, kind, a, b)) /\ IsFiniteSet(Of(ls, kind, b + 1, c))
      /\ Num(ls, kind, a, b) \in Nat /\ Num(ls, kind, b + 1, c) \in Nat
  BY NumIs
<1>2. Of(ls, kind, a, b) \cap Of(ls, kind, b + 1, c) = {}
  BY DEF Of
<1>3. Of(ls, kind, a, b) \cup Of(ls, kind, b + 1, c) = Of(ls, kind, a, c)
  BY DEF Of
<1>4. Cardinality(Of(ls, kind, a, c)) =
        Cardinality(Of(ls, kind, a, b)) + Cardinality(Of(ls, kind, b + 1, c)) - Cardinality({})
  BY <1>1, <1>2, <1>3, FS_Union
<1>. QED
  BY <1>1, <1>4, FS_EmptySet DEF Num

LEMMA NumOne ==
  ASSUME NEW ls, NEW kind, NEW a \in Nat
  PROVE  Num(ls, kind, a, a) = IF ls[a].line.kind = kind THEN 1 ELSE 0
<1>1. CASE ls[a].line.kind = kind
  <2>1. Of(ls, kind, a, a) = {a}
    BY <1>1 DEF Of
  <2>. QED
    BY <1>1, <2>1, FS_Singleton DEF Num
<1>2. CASE ls[a].line.kind # kind
  <2>1. Of(ls, kind, a, a) = {}
    BY <1>2 DEF Of
  <2>. QED
    BY <1>2, <2>1, FS_EmptySet DEF Num
<1>. QED
  BY <1>1, <1>2

(* One line more, in front and behind.                                     *)
LEMMA NumFirst ==
  ASSUME NEW ls, NEW kind, NEW a \in Nat, NEW c \in Nat, a <= c
  PROVE  Num(ls, kind, a, c) = (IF ls[a].line.kind = kind THEN 1 ELSE 0) + Num(ls, kind, a + 1, c)
BY NumSplits, NumOne

LEMMA NumNext ==
  ASSUME NEW ls, NEW kind, NEW a \in Nat, NEW c \in Nat, a <= c + 1
  PROVE  Num(ls, kind, a, c + 1) =
           Num(ls, kind, a, c) + (IF ls[c + 1].line.kind = kind THEN 1 ELSE 0)
<1>1. c + 1 \in Nat /\ c <= c + 1
  OBVIOUS
<1>2. Num(ls, kind, a, c + 1) = Num(ls, kind, a, c) + Num(ls, kind, c + 1, c + 1)
  BY <1>1, NumSplits
<1>. QED
  BY <1>1, <1>2, NumOne

(* Lines that agree have as many of each kind.                             *)
LEMMA NumAgrees ==
  ASSUME NEW ls, NEW ks, NEW kind, NEW a \in Nat, NEW b \in Int, \A k \in a .. b : ls[k] = ks[k]
  PROVE  Num(ks, kind, a, b) = Num(ls, kind, a, b)
BY DEF Num, Of

(* Line m includes the file whose end is line n.                           *)
BeganAt(ls, m, n) ==
  /\ m \in 1 .. n - 1
  /\ ls[m].line.kind = "include"
  /\ Num(ls, "include", m + 1, n - 1) = Num(ls, "end", m + 1, n - 1)
  /\ \A k \in m + 1 .. n - 1 : Num(ls, "include", m, k) > Num(ls, "end", m, k)

(* It is one line only.                                                    *)
LEMMA BeganOnce ==
  ASSUME NEW ls, NEW n \in Nat, NEW m, NEW l, BeganAt(ls, m, n), BeganAt(ls, l, n)
  PROVE  m = l
<1>1. ASSUME NEW i, NEW j, BeganAt(ls, i, n), BeganAt(ls, j, n), i < j PROVE FALSE
  <2>1. i \in Nat /\ j \in Nat /\ n - 1 \in Nat /\ i <= j - 1 /\ j <= n - 1 /\ j - 1 \in Nat
    BY <1>1 DEF BeganAt
  <2>2. /\ Num(ls, "include", j, n - 1) = 1 + Num(ls, "include", j + 1, n - 1)
        /\ Num(ls, "end", j, n - 1) = 0 + Num(ls, "end", j + 1, n - 1)
        /\ Num(ls, "include", i, n - 1) = 1 + Num(ls, "include", i + 1, n - 1)
        /\ Num(ls, "end", i, n - 1) = 0 + Num(ls, "end", i + 1, n - 1)
    <3>1. i <= n - 1 /\ ls[i].line.kind = "include" /\ ls[j].line.kind = "include"
      BY <1>1, <2>1 DEF BeganAt
    <3>2. \A kind : /\ Num(ls, kind, j, n - 1) = (IF ls[j].line.kind = kind THEN 1 ELSE 0) + Num(ls, kind, j + 1, n - 1)
                    /\ Num(ls, kind, i, n - 1) = (IF ls[i].line.kind = kind THEN 1 ELSE 0) + Num(ls, kind, i + 1, n - 1)
      BY <2>1, <3>1, NumFirst
    <3>. QED
      BY <3>1, <3>2
  <2>3. Num(ls, "include", i, j - 1) > Num(ls, "end", i, j - 1)
    <3>1. CASE j - 1 = i
      <4>1. ls[i].line.kind = "include" /\ i \in Nat
        BY <1>1, <2>1 DEF BeganAt
      <4>2. Num(ls, "include", i, i) = 1 /\ Num(ls, "end", i, i) = 0
        BY <4>1, NumOne
      <4>. QED
        BY <3>1, <4>2
    <3>2. CASE j - 1 # i
      <4>1. j - 1 \in i + 1 .. n - 1
        BY <1>1, <2>1, <3>2
      <4>. QED
        BY <1>1, <4>1 DEF BeganAt
    <3>. QED
      BY <3>1, <3>2
  <2>4. \A kind : Num(ls, kind, i, n - 1) = Num(ls, kind, i, j - 1) + Num(ls, kind, j, n - 1)
    <3>1. (j - 1) + 1 = j /\ i <= (j - 1) + 1
      BY <1>1, <2>1
    <3>2. ASSUME NEW b \in Nat, NEW c \in Nat, i <= b + 1, b <= c, NEW kind
          PROVE  Num(ls, kind, i, c) = Num(ls, kind, i, b) + Num(ls, kind, b + 1, c)
      BY <2>1, <3>2, NumSplits
    <3>3. \A kind : Num(ls, kind, i, n - 1) = Num(ls, kind, i, j - 1) + Num(ls, kind, (j - 1) + 1, n - 1)
      BY <2>1, <3>1, <3>2
    <3>. QED
      BY <3>1, <3>3
  <2>5. /\ Num(ls, "include", i + 1, n - 1) = Num(ls, "end", i + 1, n - 1)
        /\ Num(ls, "include", j + 1, n - 1) = Num(ls, "end", j + 1, n - 1)
    BY <1>1 DEF BeganAt
  <2>6. \A a \in Nat : \A kind : Num(ls, kind, a, n - 1) \in Nat /\ Num(ls, kind, a, j - 1) \in Nat
    BY <2>1, NumIs
  <2>7. i + 1 \in Nat /\ j + 1 \in Nat
    BY <2>1
  <2>8. /\ Num(ls, "include", j + 1, n - 1) \in Nat /\ Num(ls, "include", i + 1, n - 1) \in Nat
        /\ Num(ls, "include", i, j - 1) \in Nat /\ Num(ls, "end", i, j - 1) \in Nat
    BY <2>1, <2>6, <2>7
  <2>9. /\ Num(ls, "include", i, n - 1) = Num(ls, "include", i, j - 1) + Num(ls, "include", j, n - 1)
        /\ Num(ls, "end", i, n - 1) = Num(ls, "end", i, j - 1) + Num(ls, "end", j, n - 1)
    BY <2>4
  <2>. QED
    BY <2>2, <2>3, <2>5, <2>8, <2>9
<1>2. m \in Int /\ l \in Int
  BY DEF BeganAt
<1>. QED
  BY <1>1, <1>2

LEMMA BeganAgrees ==
  ASSUME NEW ls, NEW ks, NEW n \in Nat, NEW m, \A k \in 1 .. n - 1 : ls[k] = ks[k]
  PROVE  BeganAt(ks, m, n) <=> BeganAt(ls, m, n)
<1>1. ASSUME m \in 1 .. n - 1
      PROVE  /\ ls[m] = ks[m] /\ m \in Nat /\ m + 1 \in Nat /\ n - 1 \in Int
             /\ \A k \in m + 1 .. n - 1 : \A kind : Num(ks, kind, m, k) = Num(ls, kind, m, k)
             /\ \A kind : Num(ks, kind, m + 1, n - 1) = Num(ls, kind, m + 1, n - 1)
  <2>1. ls[m] = ks[m] /\ m \in Nat /\ m + 1 \in Nat /\ n - 1 \in Int
    BY <1>1
  <2>2. \A k \in m + 1 .. n - 1 : \A kind : Num(ks, kind, m, k) = Num(ls, kind, m, k)
    <3>. TAKE k \in m + 1 .. n - 1
    <3>. TAKE kind
    <3>1. k \in Int /\ \A i \in m .. k : ls[i] = ks[i]
      BY <1>1
    <3>. QED
      BY <2>1, <3>1, NumAgrees
  <2>3. \A i \in m + 1 .. n - 1 : ls[i] = ks[i]
    BY <1>1
  <2>. QED
    BY <2>1, <2>2, <2>3, NumAgrees
<1>. QED
  BY <1>1 DEF BeganAt

(* The file included at line m is open behind line n, with d files open    *)
(* within it.                                                              *)
OpenAt(ls, m, n, d) ==
  /\ m \in 1 .. n
  /\ ls[m].line.kind = "include"
  /\ Num(ls, "include", m + 1, n) = Num(ls, "end", m + 1, n) + d
  /\ \A k \in m .. n : Num(ls, "include", m, k) > Num(ls, "end", m, k)

LEMMA OpenNext ==
  ASSUME NEW ls, NEW ks, NEW n \in Nat, \A k \in 1 .. n : ls[k] = ks[k],
         NEW m, NEW d \in Nat, OpenAt(ls, m, n, d),
         NEW e \in Nat,
         e = IF ks[n + 1].line.kind = "include" THEN d + 1
             ELSE IF ks[n + 1].line.kind = "end" THEN d - 1 ELSE d
  PROVE  OpenAt(ks, m, n + 1, e)
<1>1. m \in Nat /\ m + 1 \in Nat /\ m <= n /\ m \in 1 .. n + 1 /\ ls[m] = ks[m]
  BY DEF OpenAt
<1>2. \A kind : Num(ks, kind, m + 1, n) = Num(ls, kind, m + 1, n)
  BY <1>1, NumAgrees
<1>3. \A k \in m .. n : \A kind : Num(ks, kind, m, k) = Num(ls, kind, m, k)
  <2>. TAKE k \in m .. n
  <2>. TAKE kind
  <2>1. k \in Int /\ \A i \in m .. k : ls[i] = ks[i]
    BY <1>1
  <2>. QED
    BY <1>1, <2>1, NumAgrees
<1>4. \A kind : Num(ks, kind, m + 1, n + 1) =
                  Num(ks, kind, m + 1, n) + (IF ks[n + 1].line.kind = kind THEN 1 ELSE 0)
  BY <1>1, NumNext
<1>5. \A kind : /\ Num(ks, kind, m + 1, n) \in Nat /\ Num(ks, kind, m + 1, n + 1) \in Nat
                /\ Num(ks, kind, m, n + 1) = (IF ks[m].line.kind = kind THEN 1 ELSE 0)
                                               + Num(ks, kind, m + 1, n + 1)
  BY <1>1, NumIs, NumFirst
<1>6. Num(ks, "include", m + 1, n + 1) = Num(ks, "end", m + 1, n + 1) + e
  <2>1. Num(ks, "include", m + 1, n) = Num(ks, "end", m + 1, n) + d
    BY <1>2 DEF OpenAt
  <2>2. /\ Num(ks, "include", m + 1, n) \in Nat /\ Num(ks, "end", m + 1, n) \in Nat
        /\ Num(ks, "include", m + 1, n + 1) =
             Num(ks, "include", m + 1, n) + (IF ks[n + 1].line.kind = "include" THEN 1 ELSE 0)
        /\ Num(ks, "end", m + 1, n + 1) =
             Num(ks, "end", m + 1, n) + (IF ks[n + 1].line.kind = "end" THEN 1 ELSE 0)
    BY <1>4, <1>5
  <2>3. CASE ks[n + 1].line.kind = "include"
    BY <2>1, <2>2, <2>3
  <2>4. CASE ks[n + 1].line.kind = "end"
    BY <2>1, <2>2, <2>4
  <2>5. CASE ks[n + 1].line.kind \notin {"include", "end"}
    BY <2>1, <2>2, <2>5
  <2>. QED
    BY <2>3, <2>4, <2>5
<1>7. \A k \in m .. n + 1 : Num(ks, "include", m, k) > Num(ks, "end", m, k)
  <2>. TAKE k \in m .. n + 1
  <2>1. CASE k = n + 1
    <3>1. ks[m].line.kind = "include"
      BY <1>1 DEF OpenAt
    <3>2. Num(ks, "include", m, n + 1) = 1 + Num(ks, "include", m + 1, n + 1)
          /\ Num(ks, "end", m, n + 1) = 0 + Num(ks, "end", m + 1, n + 1)
          /\ Num(ks, "include", m + 1, n + 1) \in Nat /\ Num(ks, "end", m + 1, n + 1) \in Nat
      BY <1>5, <3>1
    <3>. QED
      BY <1>6, <2>1, <3>2
  <2>2. CASE k # n + 1
    <3>1. k \in m .. n
      BY <1>1, <2>2
    <3>. QED
      BY <1>3, <3>1 DEF OpenAt
  <2>. QED
    BY <2>1, <2>2
<1>. QED
  BY <1>1, <1>6, <1>7 DEF OpenAt

LEMMA OpenAnew ==
  ASSUME NEW ks, NEW n \in Nat, ks[n + 1].line.kind = "include"
  PROVE  OpenAt(ks, n + 1, n + 1, 0)
<1>1. n + 1 \in Nat /\ (n + 1) + 1 \in Nat /\ n + 1 < (n + 1) + 1
  OBVIOUS
<1>2. \A kind : Num(ks, kind, (n + 1) + 1, n + 1) = 0
  BY <1>1, NumIs
<1>3. Num(ks, "include", n + 1, n + 1) = 1 /\ Num(ks, "end", n + 1, n + 1) = 0
  BY <1>1, NumOne
<1>4. \A k \in n + 1 .. n + 1 : k = n + 1
  OBVIOUS
<1>. QED
  BY <1>1, <1>2, <1>3, <1>4 DEF OpenAt

(* An open file without open files in it ends at the next "end".           *)
LEMMA OpenEnds ==
  ASSUME NEW ls, NEW n \in Nat, NEW m, OpenAt(ls, m, n, 0)
  PROVE  BeganAt(ls, m, n + 1)
<1>1. m \in Nat /\ (n + 1) - 1 = n /\ m + 1 .. n \subseteq m .. n
  BY DEF OpenAt
<1>2. Num(ls, "end", m + 1, n) \in Nat
  BY <1>1, NumIs
<1>. QED
  BY <1>1, <1>2 DEF OpenAt, BeganAt

(***************************************************************************)
(* The switches of the data state in a file itself.                        *)
(***************************************************************************)
Switching == {"EOF", "section", "attach", "padfile"}

SwitchesIn(ls, m, n) ==
  {k \in m + 1 .. n : /\ ls[k].line.kind \in Switching
                      /\ Num(ls, "include", m + 1, k - 1) = Num(ls, "end", m + 1, k - 1)}

Few(ls, m, n) == Cardinality(SwitchesIn(ls, m, n)) <= 1

None(ls, m, n) == SwitchesIn(ls, m, n) = {}

LEMMA SwitchesAgree ==
  ASSUME NEW ls, NEW ks, NEW n \in Nat, \A k \in 1 .. n : ls[k] = ks[k], NEW m \in Nat
  PROVE  SwitchesIn(ks, m, n) = SwitchesIn(ls, m, n)
<1>1. ASSUME NEW k \in m + 1 .. n
      PROVE  /\ ls[k] = ks[k]
             /\ \A kind : Num(ks, kind, m + 1, k - 1) = Num(ls, kind, m + 1, k - 1)
  <2>1. ls[k] = ks[k] /\ m + 1 \in Nat /\ k - 1 \in Int /\ \A i \in m + 1 .. k - 1 : ls[i] = ks[i]
    BY <1>1
  <2>. QED
    BY <2>1, NumAgrees
<1>. QED
  BY <1>1 DEF SwitchesIn

LEMMA SwitchesNext ==
  ASSUME NEW ls, NEW ks, NEW n \in Nat, \A k \in 1 .. n : ls[k] = ks[k],
         NEW m, NEW d \in Nat, OpenAt(ls, m, n, d)
  PROVE  /\ Few(ks, m, n + 1) => Few(ls, m, n)
         /\ None(ks, m, n + 1) => None(ls, m, n)
         /\ d = 0 /\ ks[n + 1].line.kind \in Switching =>
              /\ Few(ks, m, n + 1) => None(ls, m, n)
              /\ ~ None(ks, m, n + 1)
<1>. DEFINE S == SwitchesIn(ls, m, n)
            T == SwitchesIn(ks, m, n + 1)
<1>1. m \in Nat /\ m + 1 \in Nat /\ m <= n
  BY DEF OpenAt
<1>2. SwitchesIn(ks, m, n) = S
  BY <1>1, SwitchesAgree
<1>3. S \subseteq T /\ n + 1 \notin S
  BY <1>1, <1>2 DEF SwitchesIn
<1>4. IsFiniteSet(T)
  <2>1. T \in SUBSET (m + 1 .. n + 1) /\ IsFiniteSet(m + 1 .. n + 1)
    BY <1>1, FS_Interval DEF SwitchesIn
  <2>. QED
    BY <2>1, FS_Subset
<1>5. IsFiniteSet(S) /\ Cardinality(S) \in Nat /\ Cardinality(T) \in Nat /\ Cardinality(S) <= Cardinality(T)
  BY <1>3, <1>4, FS_Subset, FS_CardinalityType
<1>6. ASSUME d = 0, ks[n + 1].line.kind \in Switching
      PROVE  (Few(ks, m, n + 1) => None(ls, m, n)) /\ ~ None(ks, m, n + 1)
  <2>1. \A kind : Num(ks, kind, m + 1, n) = Num(ls, kind, m + 1, n)
    BY <1>1, NumAgrees
  <2>2. Num(ls, "end", m + 1, n) \in Nat
    BY <1>1, NumIs
  <2>3. Num(ks, "include", m + 1, n) = Num(ks, "end", m + 1, n)
    BY <1>6, <2>1, <2>2 DEF OpenAt
  <2>4. n + 1 \in m + 1 .. n + 1 /\ (n + 1) - 1 = n
    BY <1>1
  <2>5. n + 1 \in T
    BY <1>6, <2>3, <2>4 DEF SwitchesIn
  <2>6. ASSUME S # {} PROVE ~ Few(ks, m, n + 1)
    <3>1. PICK s \in S : TRUE
      BY <2>6
    <3>2. s # n + 1 /\ {s, n + 1} \subseteq T
      BY <1>3, <2>5
    <3>3. Cardinality({s, n + 1}) = 2
      <4>1. IsFiniteSet({s}) /\ Cardinality({s}) = 1 /\ n + 1 \notin {s}
        BY <3>2, FS_Singleton
      <4>2. Cardinality({s} \cup {n + 1}) = Cardinality({s}) + 1
        BY <4>1, FS_AddElement
      <4>3. {s} \cup {n + 1} = {s, n + 1}
        OBVIOUS
      <4>. QED
        BY <4>1, <4>2, <4>3
    <3>4. Cardinality({s, n + 1}) <= Cardinality(T)
      BY <1>4, <3>2, FS_Subset
    <3>. QED
      BY <1>5, <3>3, <3>4 DEF Few
  <2>. QED
    BY <2>5, <2>6 DEF None
<1>7. Few(ks, m, n + 1) => Few(ls, m, n)
  BY <1>5 DEF Few
<1>8. None(ks, m, n + 1) => None(ls, m, n)
  BY <1>3 DEF None
<1>. QED
  BY <1>6, <1>7, <1>8

LEMMA NoSwitchesYet ==
  ASSUME NEW ls, NEW n \in Nat
  PROVE  None(ls, n, n)
BY DEF None, SwitchesIn

(* The file whose end is line n is a plain one, and so are all that end    *)
(* with it or before.                                                      *)
PlainAt(ls, n) == \A m : BeganAt(ls, m, n) => Few(ls, m, n - 1) /\ ls[m].data = FALSE

PlainUpTo(ls, n) == \A k \in 1 .. n : ls[k].line.kind = "end" => PlainAt(ls, k)

LEMMA PlainAgrees ==
  ASSUME NEW ls, NEW ks, NEW n \in Nat, \A k \in 1 .. n : ls[k] = ks[k]
  PROVE  PlainUpTo(ks, n) <=> PlainUpTo(ls, n)
<1>1. ASSUME NEW k \in 1 .. n
      PROVE  ls[k] = ks[k] /\ (PlainAt(ks, k) <=> PlainAt(ls, k))
  <2>1. ls[k] = ks[k] /\ k \in Nat /\ k - 1 \in Nat /\ \A i \in 1 .. k - 1 : ls[i] = ks[i]
    BY <1>1
  <2>2. \A m : BeganAt(ks, m, k) <=> BeganAt(ls, m, k)
    BY <2>1, BeganAgrees
  <2>3. ASSUME NEW m, BeganAt(ls, m, k) PROVE ls[m] = ks[m] /\ SwitchesIn(ks, m, k - 1) = SwitchesIn(ls, m, k - 1)
    <3>1. m \in Nat /\ m \in 1 .. k - 1
      BY <2>1, <2>3 DEF BeganAt
    <3>. QED
      BY <2>1, <3>1, SwitchesAgree
  <2>. QED
    BY <2>1, <2>2, <2>3 DEF PlainAt, Few
<1>. QED
  BY <1>1 DEF PlainUpTo

(***************************************************************************)
(* The data states of the open files: fs are the lines that included them, *)
(* from the outside in, and hs how many states there were at each.         *)
(***************************************************************************)
OpenFiles(ls, fs) == \A i \in DOMAIN fs : OpenAt(ls, fs[i], Len(ls), Len(fs) - i)

TopOf(sts, hs, i) == IF i < Len(hs) THEN hs[i + 1] ELSE Len(sts)

Heights(ls, sts, fs, hs) ==
  \A i \in DOMAIN hs :
    /\ 1 <= hs[i] /\ hs[i] < Len(sts)
    /\ sts[hs[i]] = ls[fs[i]].data
    /\ \A j \in DOMAIN hs : i < j => hs[i] < hs[j]

(* Its own states are all text, but for the last one behind a switch.      *)
Text(ls, sts, m, low, top) ==
  /\ Few(ls, m, Len(ls)) => \A p \in low + 1 .. top - 1 : sts[p] = FALSE
  /\ None(ls, m, Len(ls)) => sts[top] = FALSE

TextStates(ls, sts, fs, hs) ==
  PlainUpTo(ls, Len(ls)) => \A i \in DOMAIN hs : Text(ls, sts, fs[i], hs[i], TopOf(sts, hs, i))

Reading(ls, sts, fs, hs) ==
  /\ fs \in Seq(Nat) /\ hs \in Seq(Nat) /\ Len(hs) = Len(fs)
  /\ OpenFiles(ls, fs) /\ Heights(ls, sts, fs, hs) /\ TextStates(ls, sts, fs, hs)

LEMMA ReadingIs ==
  ASSUME NEW ls \in Seq(LineType), NEW sts \in Seq(BOOLEAN), NEW fs, NEW hs, Reading(ls, sts, fs, hs)
  PROVE  /\ fs \in Seq(Nat) /\ hs \in Seq(Nat) /\ Len(hs) = Len(fs) /\ Len(fs) \in Nat
         /\ DOMAIN fs = 1 .. Len(fs) /\ DOMAIN hs = 1 .. Len(fs)
         /\ \A i \in 1 .. Len(fs) :
              /\ hs[i] \in 1 .. Len(sts) /\ hs[i] \in Nat /\ hs[i] < Len(sts) /\ Len(fs) - i \in Nat
              /\ fs[i] \in 1 .. Len(ls) /\ OpenAt(ls, fs[i], Len(ls), Len(fs) - i)
              /\ sts[hs[i]] = ls[fs[i]].data
              /\ \A j \in 1 .. Len(fs) : i < j => hs[i] < hs[j]
         /\ PlainUpTo(ls, Len(ls)) =>
              \A i \in 1 .. Len(fs) : Text(ls, sts, fs[i], hs[i], TopOf(sts, hs, i))
<1>1. fs \in Seq(Nat) /\ hs \in Seq(Nat) /\ Len(hs) = Len(fs)
  BY DEF Reading
<1>2. Len(fs) \in Nat /\ DOMAIN fs = 1 .. Len(fs) /\ DOMAIN hs = 1 .. Len(fs)
  BY <1>1
<1>3. \A i \in 1 .. Len(fs) : OpenAt(ls, fs[i], Len(ls), Len(fs) - i)
  BY <1>2 DEF Reading, OpenFiles
<1>4. \A i \in 1 .. Len(fs) : /\ 1 <= hs[i] /\ hs[i] < Len(sts) /\ sts[hs[i]] = ls[fs[i]].data
                              /\ \A j \in 1 .. Len(fs) : i < j => hs[i] < hs[j]
  BY <1>2 DEF Reading, Heights
<1>5. \A i \in 1 .. Len(fs) : hs[i] \in Nat /\ Len(fs) - i \in Nat /\ fs[i] \in 1 .. Len(ls)
  BY <1>1, <1>2, <1>3 DEF OpenAt
<1>6. Len(sts) \in Nat
  OBVIOUS
<1>7. PlainUpTo(ls, Len(ls)) =>
        \A i \in 1 .. Len(fs) : Text(ls, sts, fs[i], hs[i], TopOf(sts, hs, i))
  BY <1>2 DEF Reading, TextStates
<1>. QED
  BY <1>1, <1>2, <1>3, <1>4, <1>5, <1>6, <1>7

LEMMA TopIs ==
  ASSUME NEW ls \in Seq(LineType), NEW sts \in Seq(BOOLEAN), NEW fs, NEW hs, Reading(ls, sts, fs, hs),
         NEW i \in 1 .. Len(fs)
  PROVE  /\ i < Len(fs) => i + 1 \in 1 .. Len(fs) /\ TopOf(sts, hs, i) = hs[i + 1]
         /\ i = Len(fs) => TopOf(sts, hs, i) = Len(sts)
         /\ TopOf(sts, hs, i) \in Nat /\ hs[i] < TopOf(sts, hs, i) /\ TopOf(sts, hs, i) <= Len(sts)
<1>0. /\ Len(hs) = Len(fs) /\ Len(fs) \in Nat
      /\ \A k \in 1 .. Len(fs) : /\ hs[k] \in Nat /\ hs[k] < Len(sts)
                                /\ \A j \in 1 .. Len(fs) : k < j => hs[k] < hs[j]
  <2>1. fs \in Seq(Nat) /\ hs \in Seq(Nat) /\ Len(hs) = Len(fs) /\ Heights(ls, sts, fs, hs)
    BY DEF Reading
  <2>2. Len(fs) \in Nat /\ DOMAIN hs = 1 .. Len(fs) /\ \A k \in 1 .. Len(fs) : hs[k] \in Nat
    BY <2>1
  <2>. QED
    BY <2>1, <2>2 DEF Heights
<1>1. Len(fs) \in Nat /\ Len(hs) = Len(fs) /\ hs[i] < Len(sts) /\ Len(sts) \in Nat
  BY <1>0
<1>2. CASE i < Len(fs)
  <2>1. i + 1 \in 1 .. Len(fs) /\ i < i + 1
    BY <1>1, <1>2
  <2>2. hs[i + 1] \in Nat /\ hs[i] < hs[i + 1] /\ hs[i + 1] < Len(sts)
    BY <1>0, <2>1
  <2>. QED
    BY <1>1, <1>2, <2>1, <2>2 DEF TopOf
<1>3. CASE i = Len(fs)
  BY <1>1, <1>3 DEF TopOf
<1>. QED
  BY <1>1, <1>2, <1>3

(* Lines that are neither an include nor an end, without and with a switch. *)
LEMMA ReadingStays ==
  ASSUME NEW ls \in Seq(LineType), NEW sts \in Seq(BOOLEAN), NEW fs, NEW hs, Reading(ls, sts, fs, hs),
         NEW x \in LineType, x.line.kind \notin {"include", "end"},
         NEW now \in Seq(BOOLEAN),
         \/ now = sts
         \/ x.line.kind \in Switching /\ \E s \in BOOLEAN : now = Append(sts, s)
  PROVE  Reading(Append(ls, x), now, fs, hs)
<1>. DEFINE ks == Append(ls, x)
            n == Len(ls)
<1>1. /\ ks \in Seq(LineType) /\ Len(ks) = n + 1 /\ n \in Nat
      /\ ks[n + 1] = x /\ \A k \in 1 .. n : ls[k] = ks[k]
  OBVIOUS
<1>. HIDE DEF ks
<1>2. /\ fs \in Seq(Nat) /\ hs \in Seq(Nat) /\ Len(hs) = Len(fs) /\ Len(fs) \in Nat
      /\ DOMAIN fs = 1 .. Len(fs) /\ DOMAIN hs = 1 .. Len(fs)
      /\ \A i \in 1 .. Len(fs) : hs[i] \in Nat /\ Len(fs) - i \in Nat
      /\ \A i \in 1 .. Len(fs) : OpenAt(ls, fs[i], n, Len(fs) - i)
  BY ReadingIs
<1>3. OpenFiles(ks, fs)
  <2>1. ASSUME NEW i \in 1 .. Len(fs) PROVE OpenAt(ks, fs[i], n + 1, Len(fs) - i)
    <3>1. Len(fs) - i = IF ks[n + 1].line.kind = "include" THEN (Len(fs) - i) + 1
                        ELSE IF ks[n + 1].line.kind = "end" THEN (Len(fs) - i) - 1 ELSE Len(fs) - i
      BY <1>1
    <3>. QED
      BY <1>1, <1>2, <3>1, OpenNext
  <2>. QED
    BY <1>1, <1>2, <2>1 DEF OpenFiles
<1>4. /\ Len(sts) \in Nat /\ Len(now) \in Nat /\ Len(sts) <= Len(now)
      /\ \A p \in 1 .. Len(sts) : now[p] = sts[p]
  OBVIOUS
<1>5. \A i \in 1 .. Len(fs) : /\ 1 <= hs[i] /\ hs[i] < Len(sts) /\ sts[hs[i]] = ls[fs[i]].data
                              /\ \A j \in 1 .. Len(fs) : i < j => hs[i] < hs[j]
                              /\ fs[i] \in 1 .. n /\ hs[i] \in 1 .. Len(sts)
  BY ReadingIs
<1>6. Heights(ks, now, fs, hs)
  <2>1. \A i \in 1 .. Len(fs) : /\ hs[i] < Len(now)
                                /\ now[hs[i]] = sts[hs[i]] /\ ks[fs[i]] = ls[fs[i]]
    BY <1>1, <1>2, <1>4, <1>5
  <2>. QED
    BY <1>2, <1>5, <2>1 DEF Heights
<1>7. ASSUME PlainUpTo(ks, n + 1), NEW i \in 1 .. Len(fs)
      PROVE  Text(ks, now, fs[i], hs[i], TopOf(now, hs, i))
  <2>1. PlainUpTo(ls, n)
    <3>1. PlainUpTo(ks, n)
      BY <1>1, <1>7 DEF PlainUpTo
    <3>. QED
      BY <1>1, <3>1, PlainAgrees
  <2>2. Text(ls, sts, fs[i], hs[i], TopOf(sts, hs, i))
    <3>1. TextStates(ls, sts, fs, hs) /\ i \in DOMAIN hs /\ Len(ls) = n
      BY <1>1, <1>2, <1>7 DEF Reading
    <3>. QED
      BY <2>1, <3>1 DEF TextStates
  <2>3. /\ Few(ks, fs[i], n + 1) => Few(ls, fs[i], n)
        /\ None(ks, fs[i], n + 1) => None(ls, fs[i], n)
        /\ Len(fs) - i = 0 /\ ks[n + 1].line.kind \in Switching =>
              /\ Few(ks, fs[i], n + 1) => None(ls, fs[i], n)
              /\ ~ None(ks, fs[i], n + 1)
    BY <1>1, <1>2, SwitchesNext
  <2>4. None(ls, fs[i], n) => Few(ls, fs[i], n)
    BY FS_EmptySet DEF None, Few
  <2>5. CASE i < Len(fs)
    <3>1. TopOf(now, hs, i) = hs[i + 1] /\ TopOf(sts, hs, i) = hs[i + 1] /\ hs[i + 1] \in 1 .. Len(sts)
      BY <1>2, <1>5, <2>5 DEF TopOf
    <3>2. \A p \in hs[i] + 1 .. hs[i + 1] : now[p] = sts[p]
      BY <1>2, <1>4, <1>5, <3>1
    <3>3. now[hs[i + 1]] = sts[hs[i + 1]] /\ \A p \in hs[i] + 1 .. hs[i + 1] - 1 : now[p] = sts[p]
      <4>1. hs[i] \in Nat /\ hs[i + 1] \in Nat
        BY <1>2, <3>1
      <4>2. hs[i + 1] - 1 < hs[i + 1]
        BY <4>1
      <4>3. \A p \in hs[i] + 1 .. hs[i + 1] - 1 : p \in hs[i] + 1 .. hs[i + 1]
        BY <4>1
      <4>. QED
        BY <1>4, <3>1, <3>2, <4>3
    <3>4. Few(ls, fs[i], n) => \A p \in hs[i] + 1 .. hs[i + 1] - 1 : sts[p] = FALSE
      BY <2>2, <3>1 DEF Text
    <3>5. None(ls, fs[i], n) => sts[hs[i + 1]] = FALSE
      BY <2>2, <3>1 DEF Text
    <3>6. Len(ks) = n + 1
      BY <1>1
    <3>7. Text(ks, now, fs[i], hs[i], hs[i + 1])
      BY <2>3, <3>3, <3>4, <3>5, <3>6 DEF Text
    <3>. QED
      BY <3>1, <3>7
  <2>6. CASE i = Len(fs) /\ now = sts
    <3>1. TopOf(now, hs, i) = TopOf(sts, hs, i)
      BY <1>2, <2>6 DEF TopOf
    <3>. QED
      BY <1>1, <2>2, <2>3, <2>6, <3>1 DEF Text
  <2>7. CASE i = Len(fs) /\ now # sts
    <3>1. PICK s \in BOOLEAN : now = Append(sts, s)
      BY <2>7
    <3>2. TopOf(now, hs, i) = Len(sts) + 1 /\ TopOf(sts, hs, i) = Len(sts)
      BY <1>2, <2>7, <3>1 DEF TopOf
    <3>3. Len(fs) - i = 0 /\ ks[n + 1].line.kind \in Switching
      BY <1>1, <1>2, <2>7
    <3>4. ASSUME Few(ks, fs[i], n + 1), NEW p \in hs[i] + 1 .. (Len(sts) + 1) - 1
          PROVE  now[p] = FALSE
      <4>1. None(ls, fs[i], n)
        BY <2>3, <3>3, <3>4
      <4>2. \A q \in hs[i] + 1 .. Len(sts) - 1 : sts[q] = FALSE
        BY <1>1, <2>2, <2>4, <3>2, <4>1 DEF Text
      <4>3. sts[Len(sts)] = FALSE
        BY <1>1, <2>2, <3>2, <4>1 DEF Text
      <4>4. p \in 1 .. Len(sts) /\ (p = Len(sts) \/ p \in hs[i] + 1 .. Len(sts) - 1)
        BY <1>2, <1>4, <1>5
      <4>. QED
        BY <1>4, <4>2, <4>3, <4>4
    <3>. QED
      BY <1>1, <2>3, <3>2, <3>3, <3>4 DEF Text
  <2>8. i \in 1 .. Len(fs) /\ Len(fs) \in Nat
    BY <1>2
  <2>. QED
    BY <2>5, <2>6, <2>7, <2>8
<1>8. TextStates(ks, now, fs, hs)
  BY <1>1, <1>2, <1>7 DEF TextStates
<1>. QED
  BY <1>1, <1>2, <1>3, <1>6, <1>8 DEF Reading, ks

LEMMA TextKept ==
  ASSUME NEW ls \in Seq(LineType), NEW ks \in Seq(LineType), NEW sts, NEW now,
         NEW m, NEW low \in Nat, NEW top \in Nat, low < top,
         Text(ls, sts, m, low, top),
         \A p \in low + 1 .. top : now[p] = sts[p],
         Few(ks, m, Len(ks)) => Few(ls, m, Len(ls)),
         None(ks, m, Len(ks)) => None(ls, m, Len(ls))
  PROVE  Text(ks, now, m, low, top)
<1>1. \A p \in low + 1 .. top - 1 : p \in low + 1 .. top
  OBVIOUS
<1>2. top \in low + 1 .. top
  OBVIOUS
<1>3. ASSUME Few(ks, m, Len(ks)), NEW p \in low + 1 .. top - 1 PROVE now[p] = FALSE
  <2>1. sts[p] = FALSE
    BY <1>3 DEF Text
  <2>. QED
    BY <1>1, <2>1
<1>4. ASSUME None(ks, m, Len(ks)) PROVE now[top] = FALSE
  BY <1>2, <1>4 DEF Text
<1>. QED
  BY <1>3, <1>4 DEF Text

(* A file is included.                                                     *)
LEMMA ReadingIncludes ==
  ASSUME NEW ls \in Seq(LineType), NEW sts \in Seq(BOOLEAN), NEW fs, NEW hs, Reading(ls, sts, fs, hs),
         NEW x \in LineType, x.line.kind = "include", Len(sts) >= 1, x.data = sts[Len(sts)]
  PROVE  Reading(Append(ls, x), Append(sts, FALSE), Append(fs, Len(ls) + 1), Append(hs, Len(sts)))
<1>. DEFINE ks == Append(ls, x)
            now == Append(sts, FALSE)
            n == Len(ls)
            d == Len(fs)
            gs == Append(fs, Len(ls) + 1)
            is == Append(hs, Len(sts))
<1>1. /\ ks \in Seq(LineType) /\ Len(ks) = n + 1 /\ n \in Nat
      /\ ks[n + 1] = x /\ \A k \in 1 .. n : ls[k] = ks[k]
  OBVIOUS
<1>2. /\ Len(sts) \in Nat /\ Len(now) = Len(sts) + 1 /\ now[Len(sts) + 1] = FALSE
      /\ \A p \in 1 .. Len(sts) : now[p] = sts[p]
  OBVIOUS
<1>3. /\ d \in Nat /\ Len(hs) = d /\ fs \in Seq(Nat) /\ hs \in Seq(Nat)
      /\ \A i \in 1 .. d :
           /\ hs[i] \in 1 .. Len(sts) /\ hs[i] \in Nat /\ hs[i] < Len(sts) /\ d - i \in Nat
           /\ fs[i] \in 1 .. n /\ OpenAt(ls, fs[i], n, d - i)
           /\ sts[hs[i]] = ls[fs[i]].data
           /\ \A j \in 1 .. d : i < j => hs[i] < hs[j]
      /\ PlainUpTo(ls, n) =>
           \A i \in 1 .. d : Text(ls, sts, fs[i], hs[i], TopOf(sts, hs, i))
  BY ReadingIs
<1>4. /\ gs \in Seq(Nat) /\ is \in Seq(Nat) /\ Len(gs) = d + 1 /\ Len(is) = d + 1
      /\ DOMAIN gs = 1 .. d + 1 /\ DOMAIN is = 1 .. d + 1
      /\ gs[d + 1] = n + 1 /\ is[d + 1] = Len(sts)
      /\ \A i \in 1 .. d : gs[i] = fs[i] /\ is[i] = hs[i]
  BY <1>1, <1>2, <1>3
<1>5. \A i \in 1 .. d + 1 : i \in 1 .. d \/ i = d + 1
  BY <1>3
<1>. HIDE DEF ks, now, gs, is
<1>6. OpenFiles(ks, gs)
  <2>1. ASSUME NEW i \in 1 .. d PROVE OpenAt(ks, fs[i], n + 1, (d + 1) - i)
    <3>1. d - i \in Nat /\ (d + 1) - i \in Nat /\ (d + 1) - i = (d - i) + 1 /\ OpenAt(ls, fs[i], n, d - i)
      BY <1>3
    <3>2. (d + 1) - i = IF ks[n + 1].line.kind = "include" THEN (d - i) + 1
                        ELSE IF ks[n + 1].line.kind = "end" THEN (d - i) - 1 ELSE d - i
      BY <1>1, <3>1
    <3>. QED
      BY <1>1, <3>1, <3>2, OpenNext
  <2>2. OpenAt(ks, n + 1, n + 1, 0) /\ (d + 1) - (d + 1) = 0
    BY <1>1, <1>3, OpenAnew
  <2>. QED
    BY <1>1, <1>4, <1>5, <2>1, <2>2 DEF OpenFiles
<1>7. Heights(ks, now, gs, is)
  <2>1. \A i \in 1 .. d : /\ 1 <= hs[i] /\ hs[i] < Len(now)
                          /\ now[hs[i]] = sts[hs[i]] /\ ks[fs[i]] = ls[fs[i]]
    BY <1>1, <1>2, <1>3
  <2>2. now[Len(sts)] = ks[n + 1].data /\ Len(sts) < Len(now)
    BY <1>1, <1>2
  <2>3. \A i \in 1 .. d + 1 : /\ 1 <= is[i] /\ is[i] < Len(now)
                              /\ now[is[i]] = ks[gs[i]].data
    <3>. TAKE i \in 1 .. d + 1
    <3>1. CASE i = d + 1
      BY <1>4, <2>2, <3>1
    <3>2. CASE i \in 1 .. d
      <4>1. gs[i] = fs[i] /\ is[i] = hs[i] /\ sts[hs[i]] = ls[fs[i]].data
        BY <1>3, <1>4, <3>2
      <4>. QED
        BY <2>1, <3>2, <4>1
    <3>. QED
      BY <1>5, <3>1, <3>2
  <2>4. ASSUME NEW i \in 1 .. d + 1, NEW j \in 1 .. d + 1, i < j PROVE is[i] < is[j]
    <3>1. i \in 1 .. d
      BY <1>3, <2>4
    <3>2. CASE j = d + 1
      BY <1>3, <1>4, <3>1, <3>2
    <3>3. CASE j \in 1 .. d
      BY <1>3, <1>4, <2>4, <3>1, <3>3
    <3>. QED
      BY <1>5, <3>2, <3>3
  <2>. QED
    BY <1>4, <2>3, <2>4 DEF Heights
<1>8. ASSUME PlainUpTo(ks, n + 1), NEW i \in 1 .. d + 1
      PROVE  Text(ks, now, gs[i], is[i], TopOf(now, is, i))
  <2>1. PlainUpTo(ls, n)
    <3>1. PlainUpTo(ks, n)
      BY <1>1, <1>8 DEF PlainUpTo
    <3>. QED
      BY <1>1, <3>1, PlainAgrees
  <2>2. CASE i = d + 1
    <3>1. TopOf(now, is, i) = Len(sts) + 1
      BY <1>2, <1>3, <1>4, <2>2 DEF TopOf
    <3>2. Len(sts) + 1 .. (Len(sts) + 1) - 1 = {}
      BY <1>2
    <3>3. Text(ks, now, n + 1, Len(sts), Len(sts) + 1)
      BY <1>2, <3>2 DEF Text
    <3>. QED
      BY <1>4, <2>2, <3>1, <3>3
  <2>3. CASE i \in 1 .. d
    <3>1. Text(ls, sts, fs[i], hs[i], TopOf(sts, hs, i)) /\ hs[i] \in Nat
      BY <1>3, <2>1, <2>3
    <3>2. /\ Few(ks, fs[i], n + 1) => Few(ls, fs[i], n)
          /\ None(ks, fs[i], n + 1) => None(ls, fs[i], n)
      <4>1. d - i \in Nat /\ OpenAt(ls, fs[i], n, d - i)
        BY <1>3, <2>3
      <4>. QED
        BY <1>1, <4>1, SwitchesNext
    <3>3. TopOf(now, is, i) = TopOf(sts, hs, i)
      <4>1. i < d + 1 /\ TopOf(now, is, i) = is[i + 1]
        BY <1>3, <1>4, <2>3 DEF TopOf
      <4>2. CASE i = d
        <5>1. TopOf(sts, hs, i) = Len(sts)
          BY <2>3, <4>2, TopIs
        <5>. QED
          BY <1>4, <4>1, <4>2, <5>1
      <4>3. CASE i < d
        <5>1. i + 1 \in 1 .. d /\ TopOf(sts, hs, i) = hs[i + 1]
          BY <2>3, <4>3, TopIs
        <5>. QED
          BY <1>4, <4>1, <5>1
      <4>. QED
        BY <1>3, <2>3, <4>2, <4>3
    <3>4. TopOf(sts, hs, i) \in Nat /\ hs[i] < TopOf(sts, hs, i) /\ TopOf(sts, hs, i) <= Len(sts)
      BY <2>3, TopIs
    <3>5. \A p \in hs[i] + 1 .. TopOf(sts, hs, i) : now[p] = sts[p]
      <4>1. \A p \in hs[i] + 1 .. TopOf(sts, hs, i) : p \in 1 .. Len(sts)
        BY <1>2, <3>1, <3>4
      <4>. QED
        BY <1>2, <4>1
    <3>6. Text(ks, now, fs[i], hs[i], TopOf(sts, hs, i))
      BY <1>1, <3>1, <3>2, <3>4, <3>5, TextKept
    <3>. QED
      BY <1>4, <2>3, <3>3, <3>6
  <2>. QED
    BY <1>5, <2>2, <2>3
<1>9. TextStates(ks, now, gs, is)
  BY <1>1, <1>4, <1>8 DEF TextStates
<1>10. Reading(ks, now, gs, is)
  BY <1>4, <1>6, <1>7, <1>9 DEF Reading
<1>. QED
  BY <1>10 DEF ks, now, gs, is

LEMMA FrontSeq ==
  ASSUME NEW S, NEW s \in Seq(S), Len(s) > 0
  PROVE  LET f == SubSeq(s, 1, Len(s) - 1)
         IN  /\ f \in Seq(S) /\ Len(f) = Len(s) - 1 /\ Len(s) - 1 \in Nat
             /\ DOMAIN f = 1 .. Len(s) - 1
             /\ \A i \in 1 .. Len(s) - 1 : f[i] = s[i]
<1>1. Len(s) \in Nat /\ Len(s) - 1 \in Nat /\ 1 \in 1 .. Len(s) + 1 /\ Len(s) - 1 \in 0 .. Len(s)
  OBVIOUS
<1>2. SubSeq(s, 1, Len(s) - 1) = [i \in 1 .. Len(s) - 1 |-> s[i]]
  <2>1. \A i \in 1 .. (Len(s) - 1) - 1 + 1 : i + 1 - 1 = i
    OBVIOUS
  <2>. QED
    BY <1>1, <2>1
<1>3. SubSeq(s, 1, Len(s) - 1) \in Seq(S)
  <2>1. \A i \in 1 .. Len(s) - 1 : s[i] \in S
    BY <1>1
  <2>. QED
    BY <1>1, <1>2, <2>1
<1>4. Len(SubSeq(s, 1, Len(s) - 1)) = Len(s) - 1
  <2>1. Len(s) - 1 \in 1 - 1 .. Len(s)
    BY <1>1
  <2>2. Len(SubSeq(s, 1, Len(s) - 1)) = IF 1 <= Len(s) - 1 THEN (Len(s) - 1) - 1 + 1 ELSE 0
    BY <1>1, <2>1, SubSeqProperties
  <2>. QED
    BY <1>1, <2>2
<1>. QED
  BY <1>1, <1>2, <1>3, <1>4

(* An included file ends: the states it leaves are text, if it and those   *)
(* before it are plain.                                                    *)
LEMMA ReadingEnds ==
  ASSUME NEW ls \in Seq(LineType), NEW sts \in Seq(BOOLEAN), NEW fs, NEW hs, Reading(ls, sts, fs, hs),
         NEW x \in LineType, x.line.kind = "end", Len(fs) > 0
  PROVE  LET ks == Append(ls, x)
             now == SubSeq(sts, 1, Len(sts) - 1)
         IN  /\ Reading(ks, now, SubSeq(fs, 1, Len(fs) - 1), SubSeq(hs, 1, Len(fs) - 1))
             /\ BeganAt(ks, fs[Len(fs)], Len(ls) + 1)
             /\ PlainUpTo(ks, Len(ls) + 1) => now[Len(now)] = FALSE
<1>. DEFINE ks == Append(ls, x)
            now == SubSeq(sts, 1, Len(sts) - 1)
            n == Len(ls)
            d == Len(fs)
            gs == SubSeq(fs, 1, Len(fs) - 1)
            is == SubSeq(hs, 1, Len(fs) - 1)
<1>1. /\ ks \in Seq(LineType) /\ Len(ks) = n + 1 /\ n \in Nat
      /\ ks[n + 1] = x /\ \A k \in 1 .. n : ls[k] = ks[k]
  OBVIOUS
<1>2. /\ d \in Nat /\ d \in 1 .. d /\ Len(hs) = d /\ fs \in Seq(Nat) /\ hs \in Seq(Nat)
      /\ \A i \in 1 .. d :
           /\ hs[i] \in 1 .. Len(sts) /\ hs[i] \in Nat /\ hs[i] < Len(sts) /\ d - i \in Nat
           /\ fs[i] \in 1 .. n /\ OpenAt(ls, fs[i], n, d - i)
           /\ sts[hs[i]] = ls[fs[i]].data
           /\ \A j \in 1 .. d : i < j => hs[i] < hs[j]
      /\ PlainUpTo(ls, n) =>
           \A i \in 1 .. d : Text(ls, sts, fs[i], hs[i], TopOf(sts, hs, i))
  <2>1. d \in Nat /\ d \in 1 .. d
    OBVIOUS
  <2>. QED
    BY <2>1, ReadingIs
<1>3. /\ Len(sts) \in Nat /\ Len(sts) - 1 \in Nat /\ Len(now) = Len(sts) - 1
      /\ \A p \in 1 .. Len(sts) - 1 : now[p] = sts[p]
  <2>1. Len(sts) \in Nat /\ 1 <= hs[d] /\ hs[d] < Len(sts) /\ hs[d] \in Nat
    BY <1>2
  <2>. QED
    BY <2>1
<1>4. /\ gs \in Seq(Nat) /\ is \in Seq(Nat) /\ Len(gs) = d - 1 /\ Len(is) = d - 1 /\ d - 1 \in Nat
      /\ DOMAIN gs = 1 .. d - 1 /\ DOMAIN is = 1 .. d - 1
      /\ \A i \in 1 .. d - 1 : gs[i] = fs[i] /\ is[i] = hs[i]
  <2>1. /\ gs \in Seq(Nat) /\ Len(gs) = d - 1 /\ d - 1 \in Nat /\ DOMAIN gs = 1 .. d - 1
        /\ \A i \in 1 .. d - 1 : gs[i] = fs[i]
    BY <1>2, FrontSeq
  <2>2. is = SubSeq(hs, 1, Len(hs) - 1) /\ Len(hs) > 0 /\ hs \in Seq(Nat)
    BY <1>2
  <2>3. /\ is \in Seq(Nat) /\ Len(is) = Len(hs) - 1 /\ DOMAIN is = 1 .. Len(hs) - 1
        /\ \A i \in 1 .. Len(hs) - 1 : is[i] = hs[i]
    BY <2>2, FrontSeq
  <2>. QED
    BY <1>2, <2>1, <2>3
<1>5. \A i \in 1 .. d - 1 : i \in 1 .. d /\ i < d /\ (d - 1) - i \in Nat /\ (d - 1) - i = (d - i) - 1
  BY <1>2
<1>. HIDE DEF ks, now, gs, is
<1>6. OpenFiles(ks, gs)
  <2>1. ASSUME NEW i \in 1 .. d - 1 PROVE OpenAt(ks, fs[i], n + 1, (d - 1) - i)
    <3>1. d - i \in Nat /\ OpenAt(ls, fs[i], n, d - i)
      BY <1>2, <1>5
    <3>2. (d - 1) - i = IF ks[n + 1].line.kind = "include" THEN (d - i) + 1
                        ELSE IF ks[n + 1].line.kind = "end" THEN (d - i) - 1 ELSE d - i
      BY <1>1, <1>5
    <3>. QED
      BY <1>1, <1>5, <3>1, <3>2, OpenNext
  <2>. QED
    BY <1>1, <1>4, <2>1 DEF OpenFiles
<1>7. Heights(ks, now, gs, is)
  <2>1. ASSUME NEW i \in 1 .. d - 1
        PROVE  /\ 1 <= hs[i] /\ hs[i] < Len(now) /\ now[hs[i]] = ks[fs[i]].data
               /\ \A j \in 1 .. d - 1 : i < j => hs[i] < hs[j]
    <3>1. /\ hs[i] \in Nat /\ 1 <= hs[i] /\ hs[i] < hs[d] /\ hs[d] \in Nat /\ hs[d] < Len(sts)
          /\ sts[hs[i]] = ls[fs[i]].data /\ fs[i] \in 1 .. n
      <4>1. i \in 1 .. d /\ i < d
        BY <1>5
      <4>2. d \in 1 .. d
        BY <1>2
      <4>3. hs[i] \in 1 .. Len(sts) /\ hs[i] \in Nat /\ sts[hs[i]] = ls[fs[i]].data /\ fs[i] \in 1 .. n
        BY <1>2, <4>1
      <4>4. hs[d] \in Nat /\ hs[d] < Len(sts) /\ hs[i] < hs[d]
        BY <1>2, <4>1, <4>2
      <4>. QED
        BY <4>3, <4>4
    <3>2. hs[i] \in 1 .. Len(sts) - 1 /\ hs[i] < Len(sts) - 1
      BY <1>3, <3>1
    <3>3. \A j \in 1 .. d - 1 : i < j => hs[i] < hs[j]
      BY <1>2, <1>5
    <3>. QED
      BY <1>1, <1>3, <3>1, <3>2, <3>3
  <2>. QED
    BY <1>4, <2>1 DEF Heights
<1>8. BeganAt(ks, fs[d], n + 1)
  <2>1. OpenAt(ls, fs[d], n, 0)
    <3>1. OpenAt(ls, fs[d], n, d - d) /\ d - d = 0
      BY <1>2
    <3>. QED
      BY <3>1
  <2>2. BeganAt(ls, fs[d], n + 1)
    BY <1>1, <2>1, OpenEnds
  <2>3. (n + 1) - 1 = n /\ n + 1 \in Nat
    BY <1>1
  <2>. QED
    BY <1>1, <2>2, <2>3, BeganAgrees
<1>9. ASSUME PlainUpTo(ks, n + 1)
      PROVE  /\ PlainUpTo(ls, n)
             /\ hs[d] \in Nat /\ 1 <= hs[d] /\ hs[d] <= Len(sts) - 1
             /\ \A p \in hs[d] .. Len(sts) - 1 : sts[p] = FALSE
  <2>1. PlainUpTo(ls, n)
    <3>1. PlainUpTo(ks, n)
      BY <1>1, <1>9 DEF PlainUpTo
    <3>. QED
      BY <1>1, <3>1, PlainAgrees
  <2>2. Few(ks, fs[d], n) /\ ks[fs[d]].data = FALSE
    <3>1. PlainAt(ks, n + 1) /\ (n + 1) - 1 = n
      BY <1>1, <1>9 DEF PlainUpTo
    <3>. QED
      BY <1>8, <3>1 DEF PlainAt
  <2>3. fs[d] \in 1 .. n /\ fs[d] \in Nat /\ hs[d] \in Nat /\ 1 <= hs[d] /\ hs[d] < Len(sts)
    BY <1>2
  <2>4. Few(ls, fs[d], n) /\ sts[hs[d]] = FALSE
    <3>1. SwitchesIn(ks, fs[d], n) = SwitchesIn(ls, fs[d], n)
      BY <1>1, <2>3, SwitchesAgree
    <3>2. ks[fs[d]] = ls[fs[d]] /\ sts[hs[d]] = ls[fs[d]].data
      BY <1>1, <1>2, <2>3
    <3>. QED
      BY <2>2, <3>1, <3>2 DEF Few
  <2>5. TopOf(sts, hs, d) = Len(sts)
    BY <1>2, TopIs
  <2>6. \A p \in hs[d] + 1 .. Len(sts) - 1 : sts[p] = FALSE
    <3>1. Text(ls, sts, fs[d], hs[d], Len(sts))
      BY <1>2, <2>1, <2>5
    <3>. QED
      BY <2>4, <3>1 DEF Text
  <2>7. \A p \in hs[d] .. Len(sts) - 1 : p = hs[d] \/ p \in hs[d] + 1 .. Len(sts) - 1
    BY <1>3, <2>3
  <2>. QED
    BY <1>3, <2>1, <2>3, <2>4, <2>6, <2>7
<1>10. ASSUME PlainUpTo(ks, n + 1) PROVE now[Len(now)] = FALSE
  <2>1. Len(sts) - 1 \in hs[d] .. Len(sts) - 1 /\ Len(sts) - 1 \in 1 .. Len(sts) - 1
    BY <1>3, <1>9, <1>10
  <2>. QED
    BY <1>3, <1>9, <1>10, <2>1
<1>11. ASSUME PlainUpTo(ks, n + 1), NEW i \in 1 .. d - 1
       PROVE  Text(ks, now, gs[i], is[i], TopOf(now, is, i))
  <2>1. Text(ls, sts, fs[i], hs[i], TopOf(sts, hs, i)) /\ hs[i] \in Nat
    BY <1>2, <1>5, <1>9, <1>11
  <2>2. /\ Few(ks, fs[i], n + 1) => Few(ls, fs[i], n)
        /\ None(ks, fs[i], n + 1) => None(ls, fs[i], n)
    <3>1. d - i \in Nat /\ OpenAt(ls, fs[i], n, d - i)
      BY <1>2, <1>5
    <3>. QED
      BY <1>1, <3>1, SwitchesNext
  <2>3. /\ i + 1 \in 1 .. d /\ TopOf(sts, hs, i) = hs[i + 1] /\ hs[i + 1] \in Nat /\ hs[i] < hs[i + 1]
        /\ hs[i + 1] < Len(sts)
    <3>1. i \in 1 .. d /\ i < d /\ i + 1 \in 1 .. d /\ i < i + 1
      <4>1. i \in 1 .. d /\ i < d
        BY <1>5
      <4>2. i + 1 \in 1 .. d /\ i < i + 1
        BY <4>1
      <4>. QED
        BY <4>1, <4>2
    <3>2. TopOf(sts, hs, i) = hs[i + 1]
      BY <3>1, TopIs
    <3>. QED
      BY <1>2, <3>1, <3>2
  <2>4. CASE i < d - 1
    <3>1. TopOf(now, is, i) = hs[i + 1]
      <4>1. i + 1 \in 1 .. d - 1
        BY <1>4, <2>4
      <4>. QED
        BY <1>4, <2>4, <4>1 DEF TopOf
    <3>2. \A p \in hs[i] + 1 .. hs[i + 1] : p \in 1 .. Len(sts) - 1
      BY <1>3, <2>1, <2>3
    <3>3. \A p \in hs[i] + 1 .. hs[i + 1] : now[p] = sts[p]
      BY <1>3, <3>2
    <3>4. Text(ls, sts, fs[i], hs[i], hs[i + 1])
      BY <2>1, <2>3
    <3>5. /\ Few(ks, fs[i], Len(ks)) => Few(ls, fs[i], Len(ls))
          /\ None(ks, fs[i], Len(ks)) => None(ls, fs[i], Len(ls))
      BY <1>1, <2>2
    <3>6. Text(ks, now, fs[i], hs[i], hs[i + 1])
      BY <1>1, <2>1, <2>3, <3>3, <3>4, <3>5, TextKept
    <3>. QED
      BY <1>4, <3>1, <3>6
  <2>5. CASE i = d - 1
    <3>1. TopOf(now, is, i) = Len(sts) - 1 /\ i + 1 = d
      BY <1>2, <1>3, <1>4, <2>5 DEF TopOf
    <3>2. now[Len(sts) - 1] = FALSE
      BY <1>3, <1>10, <1>11
    <3>3. ASSUME Few(ks, fs[i], n + 1), NEW p \in hs[i] + 1 .. (Len(sts) - 1) - 1 PROVE now[p] = FALSE
      <4>1. p \in 1 .. Len(sts) - 1 /\ (p \in hs[i] + 1 .. hs[d] - 1 \/ p \in hs[d] .. Len(sts) - 1)
        BY <1>3, <2>1, <2>3, <3>1
      <4>2. Few(ls, fs[i], n) /\ Text(ls, sts, fs[i], hs[i], hs[d])
        BY <2>1, <2>2, <2>3, <3>1, <3>3
      <4>3. \A q \in hs[i] + 1 .. hs[d] - 1 : sts[q] = FALSE
        BY <4>2 DEF Text
      <4>4. \A q \in hs[d] .. Len(sts) - 1 : sts[q] = FALSE
        BY <1>9, <1>11
      <4>. QED
        BY <1>3, <4>1, <4>3, <4>4
    <3>4. Text(ks, now, fs[i], hs[i], Len(sts) - 1)
      BY <1>1, <3>2, <3>3 DEF Text
    <3>. QED
      BY <1>4, <3>1, <3>4
  <2>6. i < d - 1 \/ i = d - 1
    BY <1>2
  <2>. QED
    BY <2>4, <2>5, <2>6
<1>12. TextStates(ks, now, gs, is)
  BY <1>1, <1>4, <1>11 DEF TextStates
<1>13. Reading(ks, now, gs, is)
  BY <1>4, <1>6, <1>7, <1>12 DEF Reading
<1>. QED
  BY <1>8, <1>10, <1>13 DEF ks, now, gs, is

(***************************************************************************)
(* The parser: where an included file began is found again at its end, and *)
(* behind plain files the text goes on.                                    *)
(***************************************************************************)
FilesInv ==
  /\ StatesInv /\ lines \in Seq(LineType) /\ stage \in {"parsing", "done", "error"}
  /\ stage = "parsing" => \E fs, hs : Len(fs) = depth /\ Reading(lines, states, fs, hs)
  /\ \A n \in FileEnds : /\ \E m : BeganAt(lines, m, n)
                         /\ PlainUpTo(lines, n) => StateBefore(n + 1) = FALSE

(* What a line does to the open files.                                     *)
LEMMA FilesRead ==
  ASSUME FilesInv, NEW line \in Lines, parse_lines(line), stage' = "parsing"
  PROVE  /\ \E fs, hs : Len(fs) = depth' /\ Reading(lines', states', fs, hs)
         /\ line.kind = "end" =>
              /\ \E m : BeganAt(lines', m, Len(lines'))
              /\ PlainUpTo(lines', Len(lines')) => DataState' = FALSE
<1>. DEFINE x == [line |-> line, data |-> DataState]
<1>1. Read(line)
  BY EveryLineRead
<1>2. /\ stage = "parsing" /\ lines' = Append(lines, x) /\ lines \in Seq(LineType)
      /\ states \in Seq(BOOLEAN) /\ Len(states) \in Nat /\ depth \in Nat /\ Len(states) > depth
  BY <1>1 DEF Read, Parsing, FilesInv, StatesInv, StatesCoverFiles
<1>3. x \in LineType /\ x.line = line /\ x.data = states[Len(states)]
  BY StateKnown DEF LineType, FilesInv, DataState
<1>4. PICK fs, hs : Len(fs) = depth /\ Reading(lines, states, fs, hs)
  BY <1>2 DEF FilesInv
<1>. HIDE DEF x
<1>5. ASSUME line.kind \notin {"include", "end"}, depth' = depth,
             \/ states' = states
             \/ line.kind \in Switching /\ \E s \in BOOLEAN : PushState(s)
      PROVE  Reading(lines', states', fs, hs) /\ Len(fs) = depth'
  <2>1. states' \in Seq(BOOLEAN)
    <3>1. \A s \in BOOLEAN : Append(states, s) \in Seq(BOOLEAN)
      BY <1>2
    <3>2. CASE \E s \in BOOLEAN : PushState(s)
      BY <3>1, <3>2 DEF PushState
    <3>. QED
      BY <1>2, <1>5, <3>2
  <2>2. \/ states' = states
        \/ x.line.kind \in Switching /\ \E s \in BOOLEAN : states' = Append(states, s)
    BY <1>3, <1>5 DEF PushState
  <2>3. ASSUME NEW now \in Seq(BOOLEAN),
               \/ now = states
               \/ x.line.kind \in Switching /\ \E s \in BOOLEAN : now = Append(states, s)
        PROVE  Reading(Append(lines, x), now, fs, hs)
    BY <1>2, <1>3, <1>4, <1>5, <2>3, ReadingStays
  <2>. QED
    BY <1>2, <1>4, <1>5, <2>1, <2>2, <2>3
<1>6. CASE Include(line)
  <2>1. line.kind = "include" /\ states' = Append(states, FALSE) /\ depth' = depth + 1
    BY <1>6 DEF Include, PushState
  <2>2. Reading(Append(lines, x), Append(states, FALSE), Append(fs, Len(lines) + 1), Append(hs, Len(states)))
    <3>1. x.line.kind = "include" /\ Len(states) >= 1
      BY <1>2, <1>3, <2>1
    <3>. QED
      BY <1>2, <1>3, <1>4, <3>1, ReadingIncludes
  <2>3. Len(Append(fs, Len(lines) + 1)) = depth + 1
    <3>1. fs \in Seq(Nat)
      BY <1>4 DEF Reading
    <3>. QED
      BY <1>4, <3>1
  <2>4. line.kind # "end"
    BY <2>1
  <2>. QED
    BY <1>2, <2>1, <2>2, <2>3, <2>4
<1>7. CASE EndInclude(line)
  <2>1. line.kind = "end" /\ states' = SubSeq(states, 1, Len(states) - 1) /\ depth' = depth - 1 /\ depth > 0
    BY <1>7 DEF EndInclude, PoppedStates
  <2>2. /\ Reading(lines', states', SubSeq(fs, 1, Len(fs) - 1), SubSeq(hs, 1, Len(fs) - 1))
        /\ BeganAt(lines', fs[Len(fs)], Len(lines) + 1)
        /\ PlainUpTo(lines', Len(lines) + 1) => states'[Len(states')] = FALSE
    BY <1>2, <1>3, <1>4, <2>1, ReadingEnds
  <2>3. Len(lines') = Len(lines) + 1
    BY <1>2
  <2>4. Len(SubSeq(fs, 1, Len(fs) - 1)) = depth - 1
    <3>1. fs \in Seq(Nat) /\ Len(fs) > 0
      BY <1>4, <2>1 DEF Reading
    <3>. QED
      BY <1>4, <3>1, FrontSeq
  <2>. QED
    BY <2>1, <2>2, <2>3, <2>4 DEF DataState
<1>8. CASE Operation(line) \/ OpenLabel(line) \/ DataLabel(line) \/ CloseLabel(line)
           \/ Annotate(line) \/ SetPad(line) \/ Partition(line)
  <2>1. line.kind \notin {"include", "end"} /\ depth' = depth /\ states' = states
    BY <1>8 DEF Operation, OpenLabel, DataLabel, CloseLabel, Annotate, SetPad, Partition
  <2>. QED
    BY <1>5, <2>1
<1>9. CASE EndOfText(line) \/ Attach(line) \/ Section(line) \/ SetPadFromFile(line)
  <2>1. line.kind \in Switching /\ line.kind \notin {"include", "end"} /\ depth' = depth
    BY <1>9 DEF EndOfText, Attach, Section, SetPadFromFile, Switching
  <2>2. \E s \in BOOLEAN : PushState(s)
    BY <1>9, LinesAssumption DEF EndOfText, Attach, Section, SetPadFromFile
  <2>. QED
    BY <1>5, <2>1, <2>2
<1>10. ~ (Finish(line) \/ RejectEndl(line) \/ RejectAnnotation(line) \/ RejectFile(line) \/ RejectPartition(line))
  BY DEF Finish, RejectEndl, RejectAnnotation, RejectFile, RejectPartition, Reject
<1>. QED
  BY <1>6, <1>7, <1>8, <1>9, <1>10 DEF parse_lines

LEMMA FilesStay ==
  ASSUME FilesInv, NEW line \in Lines, parse_lines(line), NEW n \in FileEnds', n <= Len(lines)
  PROVE  /\ \E m : BeganAt(lines', m, n)
         /\ PlainUpTo(lines', n) => StateBefore(n + 1)' = FALSE
<1>. DEFINE x == [line |-> line, data |-> DataState]
<1>1. Read(line)
  BY EveryLineRead
<1>2. stage = "parsing" /\ lines' = Append(lines, x) /\ lines \in Seq(LineType)
  BY <1>1 DEF Read, Parsing, FilesInv
<1>3. /\ n \in Nat /\ n \in 1 .. Len(lines) /\ Len(lines) \in Nat /\ Len(lines') = Len(lines) + 1
      /\ \A k \in 1 .. Len(lines) : lines'[k] = lines[k]
      /\ lines'[Len(lines) + 1] = x /\ x.data = DataState
  BY <1>2 DEF FileEnds
<1>4. n \in FileEnds
  BY <1>2, <1>3 DEF FileEnds, Kind
<1>5. \A k \in 1 .. n : lines[k] = lines'[k]
  BY <1>3
<1>6. \E m : BeganAt(lines', m, n)
  <2>1. PICK m : BeganAt(lines, m, n)
    BY <1>4 DEF FilesInv
  <2>2. \A k \in 1 .. n - 1 : lines[k] = lines'[k]
    BY <1>3
  <2>3. ASSUME NEW ks, \A k \in 1 .. n - 1 : lines[k] = ks[k] PROVE BeganAt(ks, m, n)
    BY <1>3, <2>1, <2>3, BeganAgrees
  <2>. QED
    BY <2>2, <2>3
<1>7. ASSUME PlainUpTo(lines', n) PROVE StateBefore(n + 1)' = FALSE
  <2>1. ASSUME NEW ks, \A k \in 1 .. n : lines[k] = ks[k], PlainUpTo(ks, n) PROVE PlainUpTo(lines, n)
    BY <1>3, <2>1, PlainAgrees
  <2>2. StateBefore(n + 1) = FALSE
    BY <1>4, <1>5, <1>7, <2>1 DEF FilesInv
  <2>3. StateBefore(n + 1)' = lines'[n + 1].data
    BY <1>3 DEF StateBefore
  <2>4. CASE n = Len(lines)
    BY <1>3, <2>2, <2>3, <2>4 DEF StateBefore
  <2>5. CASE n < Len(lines)
    BY <1>3, <2>2, <2>3, <2>5 DEF StateBefore
  <2>6. n = Len(lines) \/ n < Len(lines)
    BY <1>3
  <2>. QED
    BY <2>4, <2>5, <2>6
<1>. QED
  BY <1>6, <1>7

LEMMA FilesInvariant == Spec => []FilesInv
<1>1. Init => FilesInv
  <2>. SUFFICES ASSUME Init PROVE FilesInv
    OBVIOUS
  <2>1. /\ lines = <<>> /\ depth = 0 /\ states = <<FALSE>> /\ stage = "parsing"
        /\ StatesInv /\ lines \in Seq(LineType)
    BY DEF Init, StatesInv, StatesCoverFiles
  <2>2. Reading(lines, states, <<>>, <<>>) /\ Len(<<>>) = 0
    BY DEF Reading, OpenFiles, Heights, TextStates
  <2>3. FileEnds = {}
    BY <2>1 DEF FileEnds
  <2>. QED
    BY <2>1, <2>2, <2>3 DEF FilesInv
<1>2. FilesInv /\ [Next]_vars => FilesInv'
  <2>. SUFFICES ASSUME FilesInv, [Next]_vars PROVE FilesInv'
    OBVIOUS
  <2>1. ASSUME NEW line \in Lines, parse_lines(line) PROVE FilesInv'
    <3>1. StatesInv' /\ Read(line)
      BY <2>1, LineKeeps, EveryLineRead DEF FilesInv
    <3>2. [line |-> line, data |-> DataState] \in LineType
      BY StateKnown DEF LineType, FilesInv
    <3>3. lines' \in Seq(LineType) /\ stage = "parsing" /\ Len(lines') = Len(lines) + 1 /\ Len(lines) \in Nat
      BY <3>1, <3>2 DEF Read, Parsing, FilesInv
    <3>4. stage' \in {"parsing", "done", "error"}
      BY <2>1, <3>3 DEF parse_lines, Operation, EndOfText, OpenLabel, DataLabel, CloseLabel, RejectEndl, Attach,
         Section, Annotate, RejectAnnotation, Include, EndInclude, Finish, RejectFile, SetPad, SetPadFromFile,
         Partition, RejectPartition, Reject
    <3>5. stage' = "parsing" => \E fs, hs : Len(fs) = depth' /\ Reading(lines', states', fs, hs)
      BY <2>1, FilesRead
    <3>6. ASSUME NEW n \in FileEnds'
          PROVE  /\ \E m : BeganAt(lines', m, n)
                 /\ PlainUpTo(lines', n) => StateBefore(n + 1)' = FALSE
      <4>1. CASE n <= Len(lines)
        BY <2>1, <4>1, FilesStay
      <4>2. CASE n = Len(lines) + 1
        <5>1. line.kind = "end" /\ stage' # "done"
          BY <3>1, <3>3, <4>2 DEF FileEnds, Kind, Read, FilesInv
        <5>2. stage' = "parsing"
          BY <2>1, <3>3, <5>1 DEF parse_lines, Operation, EndOfText, OpenLabel, DataLabel, CloseLabel, RejectEndl,
             Attach, Section, Annotate, RejectAnnotation, Include, EndInclude, Finish, RejectFile, SetPad,
             SetPadFromFile, Partition, RejectPartition
        <5>3. /\ \E m : BeganAt(lines', m, Len(lines'))
              /\ PlainUpTo(lines', Len(lines')) => DataState' = FALSE
          BY <2>1, <5>1, <5>2, FilesRead
        <5>4. StateBefore(n + 1)' = DataState' /\ n = Len(lines')
          BY <3>3, <4>2 DEF StateBefore
        <5>. QED
          BY <5>3, <5>4
      <4>3. n <= Len(lines) \/ n = Len(lines) + 1
        <5>1. n \in 1 .. Len(lines) + 1
          BY <3>3 DEF FileEnds
        <5>. QED
          BY <3>3, <5>1
      <4>. QED
        BY <4>1, <4>2, <4>3
    <3>. QED
      BY <3>1, <3>3, <3>4, <3>5, <3>6 DEF FilesInv
  <2>2. CASE UNCHANGED vars
    BY <2>2 DEF vars, FilesInv, StatesInv, StatesCoverFiles, FileEnds, Kind, StateBefore, DataState
  <2>. QED
    BY <2>1, <2>2 DEF Next, Ended
<1>. QED
  BY <1>1, <1>2, PTL DEF Spec

(* The notions of the property are those above.                            *)
LEMMA BeganHere ==
  ASSUME NEW n \in Nat, NEW m, BeganAt(lines, m, n)
  PROVE  Began(n) = m
<1>. DEFINE P(l) ==
       /\ Kind(l) = "include"
       /\ LET inner(kind) == Cardinality({k \in l + 1 .. n - 1 : Kind(k) = kind})
          IN  inner("include") = inner("end")
       /\ \A k \in l + 1 .. n - 1 :
            Cardinality({i \in l .. k : Kind(i) = "include"}) >
              Cardinality({i \in l .. k : Kind(i) = "end"})
<1>1. \A l \in 1 .. n - 1 : P(l) <=> BeganAt(lines, l, n)
  BY DEF BeganAt, Num, Of, Kind
<1>2. \A l \in 1 .. n - 1 : P(l) => l = m
  BY <1>1, BeganOnce
<1>3. m \in 1 .. n - 1 /\ P(m)
  BY <1>1 DEF BeganAt
<1>4. Began(n) = CHOOSE l \in 1 .. n - 1 : P(l)
  BY DEF Began
<1>. HIDE DEF P
<1>. QED
  BY <1>2, <1>3, <1>4

LEMMA PlainHere ==
  ASSUME NEW n \in Nat, NEW m, BeganAt(lines, m, n), PlainFile(n)
  PROVE  PlainAt(lines, n)
<1>1. Began(n) = m
  BY BeganHere
<1>2. Switches(m, n) = SwitchesIn(lines, m, n - 1)
  <2>1. \A k \in m + 1 .. n - 1 : k - 1 \in Int /\ (Within(k, m, n) <=>
          Num(lines, "include", m + 1, k - 1) = Num(lines, "end", m + 1, k - 1))
    BY DEF Within, Num, Of, Kind
  <2>. QED
    BY <2>1 DEF Switches, SwitchesIn, Switching, Kind
<1>3. Few(lines, m, n - 1) /\ ~ lines[m].data
  BY <1>1, <1>2 DEF PlainFile, Few
<1>. QED
  BY <1>3, BeganOnce DEF PlainAt

(* Behind an included file the text goes on, if that file, those in it and *)
(* those before it are included from the text and switch the data state    *)
(* once at most: what they leave on the stack of read_include_file's       *)
(* states is text.                                                         *)
THEOREM TextGoesOn == Spec => []TextAfterInclude
<1>1. FilesInv => TextAfterInclude
  <2>. SUFFICES ASSUME FilesInv, NEW n \in FileEnds, \A k \in FileEnds : k <= n => PlainFile(k)
                PROVE  ~ StateBefore(n + 1)
    BY DEF TextAfterInclude
  <2>1. n \in 1 .. Len(lines) /\ lines \in Seq(LineType) /\ (n < Len(lines) \/ stage # "done")
    BY DEF FileEnds, FilesInv
  <2>2. ASSUME NEW k \in 1 .. n, lines[k].line.kind = "end" PROVE PlainAt(lines, k)
    <3>1. k \in FileEnds /\ k \in Nat /\ k <= n
      BY <2>1, <2>2 DEF FileEnds, Kind
    <3>2. PICK m : BeganAt(lines, m, k)
      BY <3>1 DEF FilesInv
    <3>. QED
      BY <3>1, <3>2, PlainHere
  <2>3. PlainUpTo(lines, n)
    BY <2>2 DEF PlainUpTo
  <2>. QED
    BY <2>3 DEF FilesInv
<1>. QED
  BY <1>1, FilesInvariant, PTL


=============================================================================
