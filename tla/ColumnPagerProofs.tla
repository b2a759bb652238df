------------------------- MODULE ColumnPagerProofs -------------------------
(***************************************************************************)
(* The pages of the control code, for every set of programs and columns    *)
(* and every page size.                                                    *)
(*                                                                         *)
(* The first half speaks of the pager alone: types, what a page holds and  *)
(* how long it is, that no job is placed twice where the programs allow    *)
(* it, that the last page is marked, and that the pager implements         *)
(* PageStream.                                                             *)
(*                                                                         *)
(* The second half is about columns: their pages are numbered through,     *)
(* every label group has a stretch of them that holds all its jobs and is  *)
(* chained within itself, branches go to the page with the first job of    *)
(* their group, and the encoder accepts what the pager emits for           *)
(* unambiguous programs.  It first has the pager work on one group behind  *)
(* the rel pages of the groups before it (Here); when it is done its pages *)
(* are GroupOn.  Then it follows the column: where the stretches begin,    *)
(* and that nothing that comes later disturbs them.                        *)
(***************************************************************************)
EXTENDS ColumnPager, WellFoundedInduction, TLAPS


-----------------------------------------------------------------------------
(* What the closures of JobGraph return, for every program.                *)

(* Reach contains its start, is closed, and is least: the three facts the  *)
(* worklist loops of extractjobs and extractlabels are to establish.       *)
LEMMA ReachStart ==
  ASSUME NEW D, NEW R \in [D -> SUBSET D], NEW S \in SUBSET D
  PROVE  S \subseteq Reach(R, S) /\ Reach(R, S) \subseteq D
BY DEF Reach

LEMMA ReachClosed ==
  ASSUME NEW D, NEW R \in [D -> SUBSET D], NEW S \in SUBSET D
  PROVE  ClosedUnder(R, Reach(R, S))
<1>1. SUFFICES ASSUME NEW x \in Reach(R, S), NEW y \in R[x]
               PROVE  y \in Reach(R, S)
  BY DEF ClosedUnder
<1>2. x \in D /\ y \in D
  BY DEF Reach
<1>3. ASSUME NEW C \in SUBSET D, S \subseteq C, ClosedUnder(R, C)
      PROVE  y \in C
  <2>1. x \in C
    BY <1>3 DEF Reach
  <2>2. QED
    BY <2>1, <1>3 DEF ClosedUnder
<1>4. QED
  BY <1>2, <1>3 DEF Reach

LEMMA ReachLeast ==
  ASSUME NEW D, NEW R \in [D -> SUBSET D], NEW S \in SUBSET D,
         NEW C \in SUBSET D, S \subseteq C, ClosedUnder(R, C)
  PROVE  Reach(R, S) \subseteq C
BY DEF Reach

-----------------------------------------------------------------------------
LEMMA PeersType ==
  ASSUME NEW p \in ProgramType
  PROVE  BarrierPeers(p) \in [Job -> SUBSET Job]
BY DEF BarrierPeers, Defined

LEMMA LaunchTreeType ==
  ASSUME NEW p \in ProgramType, NEW j \in Job
  PROVE  LaunchTree(p, j) \subseteq Job /\ j \in LaunchTree(p, j)
<1>1. p.launch \in [Job -> SUBSET Job]
  BY DEF ProgramType
<1>2. QED
  BY <1>1, ReachStart DEF LaunchTree

(* extractjobs returns the job itself among jobs of the program text.      *)
LEMMA ExtractJobsType ==
  ASSUME NEW p \in ProgramType, NEW j \in Job
  PROVE  ExtractJobs(p, j) \subseteq Job /\ j \in ExtractJobs(p, j)
<1>1. ASSUME NEW k \in Job
      PROVE  BarrierGroup(p, k) \subseteq Job /\ k \in BarrierGroup(p, k)
  BY PeersType, ReachStart DEF BarrierGroup
<1>2. QED
  BY <1>1, LaunchTreeType DEF ExtractJobs

(* What extractjobs returns is closed under sharing a local barrier, for   *)
(* the job itself and for all the jobs its launches pull in.               *)
LEMMA ExtractJobsClosed ==
  ASSUME NEW p \in ProgramType, NEW j \in Job,
         NEW x \in ExtractJobs(p, j), NEW y \in Defined(p),
         p.lbs[x] \cap p.lbs[y] # {}
  PROVE  y \in ExtractJobs(p, j)
<1>1. PICK k \in LaunchTree(p, j) : x \in BarrierGroup(p, k)
  BY DEF ExtractJobs
<1>2. k \in Job
  BY LaunchTreeType
<1>3. ClosedUnder(BarrierPeers(p), BarrierGroup(p, k))
  BY <1>2, PeersType, ReachClosed DEF BarrierGroup
<1>4. x \in Job
  BY ExtractJobsType
<1>5. y \in BarrierPeers(p)[x]
  BY <1>4 DEF BarrierPeers
<1>6. y \in BarrierGroup(p, k)
  BY <1>1, <1>3, <1>5 DEF ClosedUnder
<1>7. QED
  BY <1>1, <1>6 DEF ExtractJobs

LEMMA ExtractLabelsType ==
  ASSUME NEW p \in ProgramType, NEW J \in SUBSET Job
  PROVE  ExtractLabels(p, J) \subseteq Label
<1>1. /\ p.refs \in [Job -> SUBSET Label]
      /\ p.lrefs \in [Label -> SUBSET Label]
      /\ p.entries \in [Label -> SUBSET Label]
  BY DEF ProgramType
<1>2. UNION {p.refs[j] : j \in J} \subseteq Label
  BY <1>1
<1>3. NamedLabels(p, J) \subseteq Label
  BY <1>1, <1>2, ReachStart DEF NamedLabels
<1>4. QED
  BY <1>1, <1>3 DEF ExtractLabels

LEMMA GroupHasType ==
  ASSUME NEW p \in ProgramType, NEW j \in Job
  PROVE  /\ Group(p, j) \in GroupType
         /\ Group(p, j).jobs = ExtractJobs(p, j)
<1>1. ExtractJobs(p, j) \in SUBSET Job
  BY ExtractJobsType
<1>2. ExtractLabels(p, ExtractJobs(p, j)) \in SUBSET Label
  BY <1>1, ExtractLabelsType
<1>3. ExtractExternal(p, ExtractJobs(p, j)) \in SUBSET PageLabel
  BY <1>1 DEF ExtractExternal, ProgramType
<1>4. QED
  BY <1>1, <1>2, <1>3 DEF Group, GroupType

-----------------------------------------------------------------------------
(* The arithmetic of a page.                                               *)
LEMMA AlignerRange ==
  ASSUME NEW n \in Nat
  PROVE  datasectionaligner(n) \in 0 .. 15
BY DEF datasectionaligner, EOF_SIZE, DATA_SECTION_ALIGNMENT

(* The length assignpagenumber records, rounded up to words, is within a   *)
(* page whenever the check of the loop let the contents in.                *)
LEMMA LengthWithinFootprint ==
  ASSUME NEW t \in Nat, NEW d \in Nat, Footprint(t, d) <= PageSize
  PROVE  PageLength(t, d) \in Nat /\ PageLength(t, d) <= PageSize
<1> DEFINE a == datasectionaligner(t)
           b == IF d # 0 THEN a ELSE 0
<1>1. a \in Nat /\ b \in Nat /\ b <= a
  BY AlignerRange
<1>2. 20 + t + a + d <= PageSize
  BY <1>1 DEF Footprint, PAGE_HEADER_SIZE, EOF_SIZE
<1>3. PageLength(t, d) = ((20 + t + b + d + 3) \div 4) * 4
  BY <1>1 DEF PageLength, PAGE_HEADER_SIZE, EOF_SIZE
<1> HIDE DEF a, b
<1>4. QED
  BY <1>1, <1>2, <1>3, PageSizeAssumption

LEMMA LengthIsNat ==
  ASSUME NEW t \in Nat, NEW d \in Nat
  PROVE  PageLength(t, d) \in Nat
<1>1. datasectionaligner(t) \in Nat
  BY AlignerRange
<1>2. QED
  BY <1>1 DEF PageLength, PAGE_HEADER_SIZE, EOF_SIZE

LEMMA SizesAreNat ==
  ASSUME NEW p \in ProgramType, NEW g \in GroupType
  PROVE  p.text[g.jobs] \in Nat /\ p.data[g.labels] \in Nat
BY DEF ProgramType, GroupType

-----------------------------------------------------------------------------
LEMMA UpdateInSeq ==
  ASSUME NEW S, NEW s \in Seq(S), NEW n \in Int, NEW v, n \in 1 .. Len(s) => v \in S
  PROVE  /\ [s EXCEPT ![n] = v] \in Seq(S)
         /\ Len([s EXCEPT ![n] = v]) = Len(s)
         /\ \A i \in 1 .. Len(s) : [s EXCEPT ![n] = v][i] = IF i = n THEN v ELSE s[i]
<1>1. CASE n \in 1 .. Len(s)
  BY <1>1
<1>2. CASE n \notin 1 .. Len(s)
  <2>1. [s EXCEPT ![n] = v] = s
    BY <1>2
  <2>2. QED
    BY <1>2, <2>1
<1>3. QED
  BY <1>1, <1>2

LEMMA PageUpdates ==
  ASSUME NEW page \in PageType, NEW len \in Nat
  PROVE  /\ Announce(page, len) \in PageType /\ AsLast(page) \in PageType
         /\ Announce(page, len).groups = page.groups /\ Announce(page, len).len = page.len
         /\ AsLast(page).groups = page.groups /\ AsLast(page).len = page.len
BY DEF Announce, AsLast, PageType

-----------------------------------------------------------------------------
(* What the operations do, stated so that later proofs need not open them. *)
LEMMA ConcludeEffect ==
  ASSUME TypeOK, NEW last \in BOOLEAN, Conclude(last), open # <<>>
  PROVE  /\ pages' \in Seq(PageType)
         /\ Len(pages') = Len(pages) + 1
         /\ \A i \in 1 .. Len(pages) :
              pages'[i] = IF i = Len(pages) /\ i - 1 >= rel
                          THEN Announce(pages[i], PageLength(tsize, dsize)) ELSE pages[i]
         /\ pages'[Len(pages) + 1] =
              [num |-> pageIndex, groups |-> open, last |-> last,
               len |-> PageLength(tsize, dsize), inorder |-> 0]
         /\ pageOf' = [j \in Job |-> IF j \in JobsOf(open) THEN pageIndex ELSE pageOf[j]]
         /\ pageOf' \in [Job -> Nat \cup {NoPage}]
         /\ pageIndex' = pageIndex + 1
         /\ HasEof
<1> DEFINE len  == PageLength(tsize, dsize)
           page == [num |-> pageIndex, groups |-> open, last |-> last,
                    len |-> len, inorder |-> 0]
           n    == Len(pages)
           upd  == [pages EXCEPT ![n] = Announce(pages[n], len)]
           chained == IF n > 0 /\ n - 1 >= rel THEN upd ELSE pages
<1>1. len \in Nat
  BY LengthIsNat DEF TypeOK
<1>2. page \in PageType
  BY <1>1 DEF TypeOK, PageType
<1>3. pages \in Seq(PageType) /\ n \in Nat /\ rel \in Nat
  BY DEF TypeOK
<1>4. /\ pageOf' = [j \in Job |-> IF j \in JobsOf(open) THEN pageIndex ELSE pageOf[j]]
      /\ pages' = Append(chained, page)
      /\ pageIndex' = pageIndex + 1
      /\ HasEof
  BY DEF Conclude, Chained, NumberJobs
<1> HIDE DEF page, len
<1>5. n \in 1 .. Len(pages) => Announce(pages[n], len) \in PageType
  <2>1. SUFFICES ASSUME n \in 1 .. Len(pages)
                 PROVE  Announce(pages[n], len) \in PageType
    OBVIOUS
  <2>2. pages[n] \in PageType
    BY <2>1, <1>3
  <2>3. QED
    BY <2>2, <1>1, PageUpdates
<1>6. /\ upd \in Seq(PageType) /\ Len(upd) = n
      /\ \A i \in 1 .. n : upd[i] = IF i = n THEN Announce(pages[n], len) ELSE pages[i]
  BY <1>3, <1>5, UpdateInSeq
<1> HIDE DEF upd
<1>7. /\ chained \in Seq(PageType)
      /\ Len(chained) = n
      /\ \A i \in 1 .. n : chained[i] = IF i = n /\ i - 1 >= rel
                                      THEN Announce(pages[i], len) ELSE pages[i]
  BY <1>3, <1>6
<1> HIDE DEF chained
<1>8. /\ pages' \in Seq(PageType)
      /\ Len(pages') = n + 1
      /\ \A i \in 1 .. n : pages'[i] = chained[i]
      /\ pages'[n + 1] = page
  BY <1>2, <1>3, <1>4, <1>7
<1>9. pageOf' \in [Job -> Nat \cup {NoPage}]
  BY <1>4 DEF TypeOK
<1>10. QED
  BY <1>4, <1>7, <1>8, <1>9 DEF page, len

LEMMA ConcludeTypes ==
  ASSUME TypeOK, NEW last \in BOOLEAN, Conclude(last)
  PROVE  /\ pageOf' \in [Job -> Nat \cup {NoPage}]
         /\ pageIndex' \in Nat
         /\ pages' \in Seq(PageType)
<1>1. CASE open = <<>>
  BY <1>1 DEF Conclude, KeepPages, TypeOK
<1>2. CASE open # <<>>
  <2>1. pageIndex \in Nat
    BY DEF TypeOK
  <2>2. /\ pageOf' \in [Job -> Nat \cup {NoPage}]
        /\ pageIndex' = pageIndex + 1
        /\ pages' \in Seq(PageType)
    BY <1>2, ConcludeEffect
  <2>3. QED
    BY <2>1, <2>2
<1>3. QED
  BY <1>1, <1>2

(* The group of a job the loop handles: what the checks compare and what   *)
(* AddToPage and StartNextPage put on a page.                              *)
LEMMA NewGroup ==
  ASSUME TypeOK, NewJob
  PROVE  /\ Current \in Job
         /\ Group(prog, Current) \in GroupType
         /\ Group(prog, Current).jobs = ExtractJobs(prog, Current)
         /\ TextSize(Group(prog, Current)) \in Nat
         /\ DataSize(Group(prog, Current)) \in Nat
<1>1. Current \in Job /\ prog \in ProgramType
  BY DEF NewJob, TypeOK
<1>2. Group(prog, Current) \in GroupType
      /\ Group(prog, Current).jobs = ExtractJobs(prog, Current)
  BY <1>1, GroupHasType
<1>3. QED
  BY <1>1, <1>2, SizesAreNat DEF TextSize, DataSize

LEMMA AddEffect ==
  ASSUME TypeOK, AddToPage, NEW g, g = Group(prog, Current)
  PROVE  /\ NewJob /\ KeepPages /\ Advance
         /\ open' = Append(open, g)
         /\ tsize' = tsize + TextSize(g) /\ dsize' = dsize + DataSize(g)
         /\ FitsAlone(g) /\ FitsOpen(g)
BY DEF AddToPage, Refill

LEMMA StartEffect ==
  ASSUME TypeOK, StartNextPage, NEW g, g = Group(prog, Current)
  PROVE  /\ NewJob /\ Conclude(FALSE) /\ Advance
         /\ open' = <<g>>
         /\ tsize' = TextSize(g) /\ dsize' = DataSize(g)
         /\ FitsAlone(g) /\ ~ FitsOpen(g)
BY DEF StartNextPage, Refill

LEMMA StopEffect ==
  ASSUME RejectJob \/ CrashOnJob \/ RejectNoEof
  PROVE  /\ status' \in {"error", "crashed"}
         /\ UNCHANGED <<prog, rel, cursor, open, tsize, dsize, pageOf, pages, pageIndex>>
BY DEF RejectJob, CrashOnJob, RejectNoEof, Stop, KeepPages

-----------------------------------------------------------------------------
(* Type correctness.                                                       *)
LEMMA TypeInitially == Init => TypeOK
<1> SUFFICES ASSUME NEW p \in Programs, Begin(p, 0), pages = <<>>
             PROVE  TypeOK
  BY DEF Init
<1>1. p \in ProgramType /\ p.ids \in Seq(Job \cup {Eop, Eof})
  BY ProgramsAssumption DEF ProgramType
<1>2. 1 \in 1 .. Len(p.ids) + 1
  BY <1>1
<1>3. QED
  BY <1>1, <1>2 DEF Begin, TypeOK, NoPage

LEMMA TypeKept ==
  ASSUME TypeOK, [Next]_pvars
  PROVE  TypeOK'
<1> DEFINE g == Group(prog, Current)
           Outcomes == {"paging", "done", "error", "crashed"}
<1>1. prog.ids \in Seq(Job \cup {Eop, Eof})
  BY DEF TypeOK, ProgramType
<1>2. ASSUME Looping, Advance
      PROVE  /\ prog' \in ProgramType /\ rel' \in Nat
             /\ cursor' \in 1 .. Len(prog'.ids) + 1 /\ status' \in Outcomes
  BY <1>1, <1>2 DEF Looping, Advance, TypeOK
<1>3. ASSUME KeepPages
      PROVE  pageOf' \in [Job -> Nat \cup {NoPage}] /\ pageIndex' \in Nat
             /\ pages' \in Seq(PageType)
  BY <1>3 DEF KeepPages, TypeOK
<1>4. CASE SkipJob
  BY <1>2, <1>3, <1>4 DEF SkipJob, TypeOK
<1>5. CASE SkipEop
  BY <1>2, <1>3, <1>5 DEF SkipEop, TypeOK
<1>6. CASE ConcludeAtEop
  <2>1. Looping /\ Advance /\ Conclude(FALSE) /\ open' = <<>> /\ tsize' = 0 /\ dsize' = 0
    BY <1>6 DEF ConcludeAtEop, Refill
  <2>2. pageOf' \in [Job -> Nat \cup {NoPage}] /\ pageIndex' \in Nat
        /\ pages' \in Seq(PageType)
    BY <2>1, ConcludeTypes
  <2>3. open' \in Seq(GroupType) /\ tsize' \in Nat /\ dsize' \in Nat
    BY <2>1
  <2>4. QED
    BY <1>2, <2>1, <2>2, <2>3 DEF TypeOK
<1>7. CASE AddToPage
  <2>1. /\ NewJob /\ KeepPages /\ Advance /\ open' = Append(open, g)
        /\ tsize' = tsize + TextSize(g) /\ dsize' = dsize + DataSize(g)
    BY <1>7, AddEffect
  <2>2. g \in GroupType /\ TextSize(g) \in Nat /\ DataSize(g) \in Nat
    BY <2>1, NewGroup
  <2> HIDE DEF g
  <2>3. open' \in Seq(GroupType) /\ tsize' \in Nat /\ dsize' \in Nat
    BY <2>1, <2>2 DEF TypeOK
  <2>4. QED
    BY <1>2, <1>3, <2>1, <2>3 DEF NewJob, TypeOK
<1>8. CASE StartNextPage
  <2>1. /\ NewJob /\ Conclude(FALSE) /\ Advance /\ open' = <<g>>
        /\ tsize' = TextSize(g) /\ dsize' = DataSize(g)
    BY <1>8, StartEffect
  <2>2. g \in GroupType /\ TextSize(g) \in Nat /\ DataSize(g) \in Nat
    BY <2>1, NewGroup
  <2> HIDE DEF g
  <2>3. open' \in Seq(GroupType) /\ tsize' \in Nat /\ dsize' \in Nat
    BY <2>1, <2>2
  <2>4. QED
    BY <1>2, <2>1, <2>3, ConcludeTypes DEF NewJob, TypeOK
<1>9. CASE RejectJob \/ CrashOnJob \/ RejectNoEof
  BY <1>9, StopEffect DEF TypeOK
<1>10. CASE ConcludeLast
  <2>1. /\ Conclude(TRUE) /\ open' = <<>> /\ tsize' = 0 /\ dsize' = 0
        /\ status' = "done" /\ UNCHANGED <<prog, rel, cursor>>
    BY <1>10 DEF ConcludeLast, Refill
  <2>2. pageOf' \in [Job -> Nat \cup {NoPage}] /\ pageIndex' \in Nat
        /\ pages' \in Seq(PageType)
    BY <2>1, ConcludeTypes
  <2>3. open' \in Seq(GroupType) /\ tsize' \in Nat /\ dsize' \in Nat
    BY <2>1
  <2>4. QED
    BY <2>1, <2>2, <2>3 DEF TypeOK
<1>11. CASE MarkLast
  <2> DEFINE n == pageIndex - rel
  <2>1. pages \in Seq(PageType) /\ n \in Int
    BY DEF TypeOK
  <2>2. pages' = IF n > 0 THEN [pages EXCEPT ![n] = AsLast(pages[n])] ELSE pages
    BY <1>11 DEF MarkLast
  <2> HIDE DEF n
  <2>3. n \in 1 .. Len(pages) => AsLast(pages[n]) \in PageType
    <3>1. SUFFICES ASSUME n \in 1 .. Len(pages)
                   PROVE  AsLast(pages[n]) \in PageType
      OBVIOUS
    <3>2. pages[n] \in PageType
      BY <2>1, <3>1
    <3>3. QED
      BY <3>2, PageUpdates
  <2>4. [pages EXCEPT ![n] = AsLast(pages[n])] \in Seq(PageType)
    BY <2>1, <2>3, UpdateInSeq
  <2>5. pages' \in Seq(PageType)
    BY <2>1, <2>2, <2>4
  <2>6. QED
    BY <1>11, <2>5 DEF MarkLast, TypeOK
<1>12. CASE UNCHANGED pvars
  BY <1>12 DEF pvars, TypeOK
<1>13. QED
  BY <1>4, <1>5, <1>6, <1>7, <1>8, <1>9, <1>10, <1>11, <1>12 DEF Next, Pagify, Ended

(* The variables keep their types, whatever the program.                   *)
THEOREM TypeCorrect == Spec => []TypeOK
BY TypeInitially, TypeKept, PTL DEF Spec

-----------------------------------------------------------------------------
(***************************************************************************)
(* Safety.  The invariant that makes the three properties inductive says   *)
(* of the page being filled what they say of a concluded one, and what the *)
(* loop has done with the jobs before the cursor.                          *)
(***************************************************************************)
OpenFits ==
  IF open = <<>> THEN tsize = 0 /\ dsize = 0 ELSE Footprint(tsize, dsize) <= PageSize

BarrierClosed(gs) ==
  \A a \in DOMAIN gs : \A j \in gs[a].jobs : \A k \in Defined(prog) :
    prog.lbs[j] \cap prog.lbs[k] # {} => k \in gs[a].jobs

AllClosed == BarrierClosed(open) /\ \A i \in DOMAIN pages : BarrierClosed(pages[i].groups)

Handled == \A i \in 1 .. cursor - 1 : prog.ids[i] \in Job => Taken(prog.ids[i])

Recorded == \A j \in Job : pageOf[j] # NoPage => \E i \in DOMAIN pages : OnPage(j, i)

Finished == status = "done" => cursor = Len(prog.ids) + 1 /\ open = <<>>

-----------------------------------------------------------------------------
(* The contents of the pages after a page was concluded or marked.         *)
LEMMA ConcludedContents ==
  ASSUME TypeOK, NEW last \in BOOLEAN, Conclude(last), open # <<>>
  PROVE  /\ DOMAIN pages = 1 .. Len(pages)
         /\ DOMAIN pages' = 1 .. Len(pages) + 1
         /\ Len(pages) \in Nat
         /\ \A i \in 1 .. Len(pages) : /\ pages'[i].groups = pages[i].groups
                                      /\ pages'[i].len = pages[i].len
         /\ pages'[Len(pages) + 1].groups = open
         /\ pages'[Len(pages) + 1].len = PageLength(tsize, dsize)
<1>1. /\ pages' \in Seq(PageType)
      /\ Len(pages') = Len(pages) + 1
      /\ \A i \in 1 .. Len(pages) :
           pages'[i] = IF i = Len(pages) /\ i - 1 >= rel
                       THEN Announce(pages[i], PageLength(tsize, dsize)) ELSE pages[i]
      /\ pages'[Len(pages) + 1] =
           [num |-> pageIndex, groups |-> open, last |-> last,
            len |-> PageLength(tsize, dsize), inorder |-> 0]
  BY ConcludeEffect
<1>2. pages \in Seq(PageType) /\ tsize \in Nat /\ dsize \in Nat
  BY DEF TypeOK
<1>3. PageLength(tsize, dsize) \in Nat
  BY <1>2, LengthIsNat
<1>4. ASSUME NEW i \in 1 .. Len(pages)
      PROVE  pages'[i].groups = pages[i].groups /\ pages'[i].len = pages[i].len
  <2>1. pages[i] \in PageType
    BY <1>2
  <2>2. /\ Announce(pages[i], PageLength(tsize, dsize)).groups = pages[i].groups
        /\ Announce(pages[i], PageLength(tsize, dsize)).len = pages[i].len
    BY <2>1, <1>3, PageUpdates
  <2>3. QED
    BY <1>1, <2>2
<1>5. QED
  BY <1>1, <1>2, <1>4

LEMMA MarkedContents ==
  ASSUME TypeOK, MarkLast
  PROVE  /\ DOMAIN pages' = DOMAIN pages
         /\ \A i \in DOMAIN pages : /\ pages'[i].groups = pages[i].groups
                                    /\ pages'[i].len = pages[i].len
<1> DEFINE n == pageIndex - rel
<1>1. pages \in Seq(PageType) /\ n \in Int
  BY DEF TypeOK
<1>2. pages' = IF n > 0 THEN [pages EXCEPT ![n] = AsLast(pages[n])] ELSE pages
  BY DEF MarkLast
<1> HIDE DEF n
<1>3. ASSUME NEW i \in DOMAIN pages
      PROVE  pages'[i].groups = pages[i].groups /\ pages'[i].len = pages[i].len
  <2>1. pages[i] \in PageType
    BY <1>1
  <2>2. AsLast(pages[i]).groups = pages[i].groups /\ AsLast(pages[i]).len = pages[i].len
    BY <2>1, PageUpdates, 0 \in Nat
  <2>3. pages'[i] = pages[i] \/ pages'[i] = AsLast(pages[i])
    BY <1>2
  <2>4. QED
    BY <2>2, <2>3
<1>4. DOMAIN pages' = DOMAIN pages
  BY <1>2
<1>5. QED
  BY <1>3, <1>4

(* The steps that change neither the page being filled nor the pages.      *)
Idle == UNCHANGED <<prog, open, tsize, dsize, pageOf, pages>>

LEMMA Steps ==
  ASSUME TypeOK, [Next]_pvars
  PROVE  Idle \/ ConcludeAtEop \/ AddToPage \/ StartNextPage \/ ConcludeLast \/ MarkLast
<1>1. SkipJob \/ SkipEop => Idle
  BY DEF SkipJob, SkipEop, Advance, KeepPages, Idle
<1>2. RejectJob \/ CrashOnJob \/ RejectNoEof => Idle
  BY StopEffect DEF Idle
<1>3. UNCHANGED pvars => Idle
  BY DEF pvars, Idle
<1>4. QED
  BY <1>1, <1>2, <1>3 DEF Next, Pagify, Ended

LEMMA ProgramFixed ==
  ASSUME TypeOK, [Next]_pvars
  PROVE  prog' = prog
<1>1. ConcludeAtEop => prog' = prog
  BY DEF ConcludeAtEop, Advance
<1>2. AddToPage => prog' = prog
  BY DEF AddToPage, Advance
<1>3. StartNextPage => prog' = prog
  BY DEF StartNextPage, Advance
<1>4. ConcludeLast \/ MarkLast => prog' = prog
  BY DEF ConcludeLast, MarkLast
<1>5. QED
  BY <1>1, <1>2, <1>3, <1>4, Steps DEF Idle

-----------------------------------------------------------------------------
LEMMA FitsKept ==
  ASSUME TypeOK, OpenFits, PageFits, [Next]_pvars
  PROVE  OpenFits' /\ PageFits'
<1> DEFINE g == Group(prog, Current)
<1>1. tsize \in Nat /\ dsize \in Nat /\ open \in Seq(GroupType)
  BY DEF TypeOK
<1>2. ASSUME NEW last \in BOOLEAN, Conclude(last), open # <<>>
      PROVE  PageFits'
  <2>1. PageLength(tsize, dsize) <= PageSize
    BY <1>1, <1>2, LengthWithinFootprint DEF OpenFits
  <2>2. QED
    BY <1>2, <2>1, ConcludedContents DEF PageFits
<1>3. CASE Idle
  BY <1>3 DEF Idle, OpenFits, PageFits
<1>4. CASE ConcludeAtEop
  <2>1. Conclude(FALSE) /\ open # <<>> /\ open' = <<>> /\ tsize' = 0 /\ dsize' = 0
    BY <1>4 DEF ConcludeAtEop, Refill
  <2>2. QED
    BY <1>2, <2>1 DEF OpenFits
<1>5. CASE AddToPage
  <2>1. /\ KeepPages /\ open' = Append(open, g) /\ FitsOpen(g)
        /\ tsize' = tsize + TextSize(g) /\ dsize' = dsize + DataSize(g)
    BY <1>5, AddEffect
  <2>2. Footprint(tsize', dsize') <= PageSize
    BY <2>1 DEF FitsOpen
  <2>3. open' # <<>>
    BY <1>1, <2>1
  <2>4. PageFits'
    BY <2>1 DEF KeepPages, PageFits
  <2>5. QED
    BY <2>2, <2>3, <2>4 DEF OpenFits
<1>6. CASE StartNextPage
  <2>1. /\ Conclude(FALSE) /\ open' = <<g>> /\ FitsAlone(g) /\ ~ FitsOpen(g)
        /\ tsize' = TextSize(g) /\ dsize' = DataSize(g)
    BY <1>6, StartEffect
  <2>2. TextSize(g) \in Nat /\ DataSize(g) \in Nat
    BY <1>6, NewGroup DEF StartNextPage
  <2>3. open # <<>>
    BY <2>1, <2>2 DEF OpenFits, FitsAlone, FitsOpen
  <2>4. OpenFits'
    BY <2>1 DEF OpenFits, FitsAlone
  <2>5. QED
    BY <1>2, <2>1, <2>3, <2>4
<1>7. CASE ConcludeLast
  <2>1. Conclude(TRUE) /\ open # <<>> /\ open' = <<>> /\ tsize' = 0 /\ dsize' = 0
    BY <1>7 DEF ConcludeLast, Refill
  <2>2. QED
    BY <1>2, <2>1 DEF OpenFits
<1>8. CASE MarkLast
  <2>1. UNCHANGED <<open, tsize, dsize>>
    BY <1>8 DEF MarkLast
  <2>2. PageFits'
    BY <1>8, MarkedContents DEF PageFits
  <2>3. QED
    BY <2>1, <2>2 DEF OpenFits
<1>9. QED
  BY <1>3, <1>4, <1>5, <1>6, <1>7, <1>8, Steps

-----------------------------------------------------------------------------
(* A group extractjobs returns is closed under shared barriers.            *)
LEMMA NewGroupClosed ==
  ASSUME TypeOK, NewJob, NEW j \in Group(prog, Current).jobs, NEW k \in Defined(prog),
         prog.lbs[j] \cap prog.lbs[k] # {}
  PROVE  k \in Group(prog, Current).jobs
<1>1. prog \in ProgramType
  BY DEF TypeOK
<1>2. Current \in Job /\ Group(prog, Current).jobs = ExtractJobs(prog, Current)
  BY NewGroup
<1>3. QED
  BY <1>1, <1>2, ExtractJobsClosed

LEMMA ClosedKept ==
  ASSUME TypeOK, AllClosed, [Next]_pvars
  PROVE  AllClosed'
<1> DEFINE g == Group(prog, Current)
<1>1. open \in Seq(GroupType) /\ prog' = prog
  BY ProgramFixed DEF TypeOK
<1>2. BarrierClosed(open) /\ \A i \in DOMAIN pages : BarrierClosed(pages[i].groups)
  BY DEF AllClosed
<1>3. BarrierClosed(<<>>)'
  BY DEF BarrierClosed
<1>4. ASSUME NEW last \in BOOLEAN, Conclude(last), open # <<>>
      PROVE  (\A i \in DOMAIN pages : BarrierClosed(pages[i].groups))'
  <2>1. SUFFICES ASSUME NEW i \in DOMAIN pages'
                 PROVE  BarrierClosed(pages[i].groups)'
    OBVIOUS
  <2>2. \/ i \in DOMAIN pages /\ pages'[i].groups = pages[i].groups
        \/ pages'[i].groups = open
    BY <1>4, ConcludedContents
  <2>3. QED
    BY <1>1, <1>2, <2>2 DEF BarrierClosed
<1>5. ASSUME NewJob
      PROVE  \A j \in g.jobs : \A k \in Defined(prog) :
               prog.lbs[j] \cap prog.lbs[k] # {} => k \in g.jobs
  BY <1>5, NewGroupClosed
<1>6. CASE Idle
  BY <1>2, <1>6 DEF Idle, AllClosed, BarrierClosed
<1>7. CASE ConcludeAtEop
  <2>1. Conclude(FALSE) /\ open # <<>> /\ open' = <<>>
    BY <1>7 DEF ConcludeAtEop, Refill
  <2>2. QED
    BY <1>3, <1>4, <2>1 DEF AllClosed
<1>8. CASE AddToPage
  <2>1. NewJob /\ KeepPages /\ open' = Append(open, g)
    BY <1>8, AddEffect
  <2>2. \A j \in g.jobs : \A k \in Defined(prog) :
          prog.lbs[j] \cap prog.lbs[k] # {} => k \in g.jobs
    BY <1>5, <2>1
  <2>3. g \in GroupType
    BY <2>1, NewGroup
  <2> HIDE DEF g
  <2>4. /\ DOMAIN open' = 1 .. Len(open) + 1
        /\ open'[Len(open) + 1] = g
        /\ \A a \in 1 .. Len(open) : open'[a] = open[a]
    BY <1>1, <2>1, <2>3
  <2>5. BarrierClosed(open)'
    BY <1>1, <1>2, <2>2, <2>4 DEF BarrierClosed
  <2>6. (\A i \in DOMAIN pages : BarrierClosed(pages[i].groups))'
    BY <1>1, <1>2, <2>1 DEF KeepPages, BarrierClosed
  <2>7. QED
    BY <2>5, <2>6 DEF AllClosed
<1>9. CASE StartNextPage
  <2>1. NewJob /\ Conclude(FALSE) /\ open' = <<g>>
    BY <1>9, StartEffect
  <2>2. \A j \in g.jobs : \A k \in Defined(prog) :
          prog.lbs[j] \cap prog.lbs[k] # {} => k \in g.jobs
    BY <1>5, <2>1
  <2> HIDE DEF g
  <2>3. BarrierClosed(open)'
    BY <1>1, <2>1, <2>2 DEF BarrierClosed
  <2>4. CASE open = <<>>
    <3>1. pages' = pages
      BY <2>1, <2>4 DEF Conclude, KeepPages
    <3>2. QED
      BY <1>1, <1>2, <2>3, <3>1 DEF AllClosed, BarrierClosed
  <2>5. CASE open # <<>>
    BY <1>4, <2>1, <2>3, <2>5 DEF AllClosed
  <2>6. QED
    BY <2>4, <2>5
<1>10. CASE ConcludeLast
  <2>1. Conclude(TRUE) /\ open # <<>> /\ open' = <<>>
    BY <1>10 DEF ConcludeLast, Refill
  <2>2. QED
    BY <1>3, <1>4, <2>1 DEF AllClosed
<1>11. CASE MarkLast
  <2>1. open' = open
    BY <1>11 DEF MarkLast
  <2>2. DOMAIN pages' = DOMAIN pages
        /\ \A i \in DOMAIN pages : pages'[i].groups = pages[i].groups
    BY <1>11, MarkedContents
  <2>3. QED
    BY <1>1, <1>2, <2>1, <2>2 DEF AllClosed, BarrierClosed
<1>12. QED
  BY <1>6, <1>7, <1>8, <1>9, <1>10, <1>11, Steps

-----------------------------------------------------------------------------
(* Every job on a page, on the page being filled or ahead of the cursor.   *)
LEMMA ConcludedRecorded ==
  ASSUME TypeOK, Recorded, NEW last \in BOOLEAN, Conclude(last), open # <<>>
  PROVE  /\ Recorded'
         /\ \A j \in Job : Taken(j) => pageOf'[j] # NoPage
<1>1. pageOf' = [j \in Job |-> IF j \in JobsOf(open) THEN pageIndex ELSE pageOf[j]]
  BY ConcludeEffect
<1>2. pageIndex \in Nat
  BY DEF TypeOK
<1>3. \A j \in Job : Taken(j) => pageOf'[j] # NoPage
  BY <1>1, <1>2 DEF Taken, NoPage
<1>4. ASSUME NEW j \in Job, pageOf'[j] # NoPage
      PROVE  \E i \in DOMAIN pages' : j \in JobsOf(pages'[i].groups)
  <2>1. CASE j \in JobsOf(open)
    <3>1. Len(pages) + 1 \in DOMAIN pages' /\ pages'[Len(pages) + 1].groups = open
      BY ConcludedContents
    <3>2. QED
      BY <2>1, <3>1
  <2>2. CASE j \notin JobsOf(open)
    <3>1. PICK i \in DOMAIN pages : OnPage(j, i)
      BY <1>1, <1>4, <2>2 DEF Recorded
    <3>2. i \in DOMAIN pages' /\ pages'[i].groups = pages[i].groups
      BY ConcludedContents
    <3>3. QED
      BY <3>1, <3>2 DEF OnPage
  <2>3. QED
    BY <2>1, <2>2
<1>5. QED
  BY <1>3, <1>4 DEF Recorded, OnPage

LEMMA HandledKept ==
  ASSUME TypeOK, Handled, Recorded, Finished, [Next]_pvars
  PROVE  Handled' /\ Recorded' /\ Finished'
<1> DEFINE g == Group(prog, Current)
           StaysTaken(j) == pageOf'[j] # NoPage \/ j \in JobsOf(open')
<1>1. /\ prog' = prog /\ cursor \in 1 .. Len(prog.ids) + 1
      /\ open \in Seq(GroupType) /\ Len(prog.ids) \in Nat
      /\ prog.ids \in Seq(Job \cup {Eop, Eof})
  BY ProgramFixed DEF TypeOK, ProgramType
<1>2. ASSUME NEW last \in BOOLEAN, Conclude(last), open # <<>>
      PROVE  /\ Recorded'
             /\ \A i \in 1 .. cursor - 1 : prog.ids[i] \in Job => StaysTaken(prog.ids[i])
  <2>1. Recorded' /\ \A j \in Job : Taken(j) => pageOf'[j] # NoPage
    BY <1>2, ConcludedRecorded
  <2>2. QED
    BY <2>1 DEF Handled
<1>3. ASSUME Looping, Advance
      PROVE  /\ Finished'
             /\ cursor' = cursor + 1 /\ prog' = prog
  BY <1>3 DEF Looping, Advance, Finished
<1>4. CASE SkipJob
  <2>1. /\ Looping /\ Advance /\ KeepPages /\ open' = open
        /\ Current = Eof \/ Taken(Current)
    BY <1>4 DEF SkipJob
  <2>2. Eof \notin Job
    BY PseudoJobs
  <2>3. Handled'
    BY <1>1, <1>3, <2>1, <2>2 DEF Handled, Taken, KeepPages, Current
  <2>4. Recorded'
    BY <2>1 DEF KeepPages, Recorded, OnPage
  <2>5. QED
    BY <1>3, <2>1, <2>3, <2>4
<1>5. CASE SkipEop
  <2>1. Looping /\ Advance /\ KeepPages /\ open' = open /\ Current = Eop
    BY <1>5 DEF SkipEop
  <2>2. Eop \notin Job
    BY PseudoJobs
  <2>3. Handled'
    BY <1>1, <1>3, <2>1, <2>2 DEF Handled, Taken, KeepPages, Current
  <2>4. Recorded'
    BY <2>1 DEF KeepPages, Recorded, OnPage
  <2>5. QED
    BY <1>3, <2>1, <2>3, <2>4
<1>6. CASE ConcludeAtEop
  <2>1. Looping /\ Advance /\ Conclude(FALSE) /\ open # <<>> /\ Current = Eop
    BY <1>6 DEF ConcludeAtEop
  <2>2. Eop \notin Job
    BY PseudoJobs
  <2>3. /\ Recorded'
        /\ \A i \in 1 .. cursor - 1 : prog.ids[i] \in Job => StaysTaken(prog.ids[i])
    BY <1>2, <2>1
  <2>4. Handled'
    BY <1>1, <1>3, <2>1, <2>2, <2>3 DEF Handled, Taken, Current
  <2>5. QED
    BY <1>3, <2>1, <2>3, <2>4
<1>7. CASE AddToPage
  <2>1. Looping /\ Advance /\ NewJob /\ KeepPages /\ open' = Append(open, g)
    BY <1>7, AddEffect DEF NewJob
  <2>2. Current \in g.jobs /\ g \in GroupType
    BY <2>1, NewGroup, ExtractJobsType DEF TypeOK
  <2> HIDE DEF g
  <2>3. JobsOf(open') = JobsOf(open) \cup g.jobs
    BY <1>1, <2>1, <2>2 DEF JobsOf
  <2>4. Handled'
    BY <1>1, <1>3, <2>1, <2>2, <2>3 DEF Handled, Taken, KeepPages, Current
  <2>5. Recorded'
    BY <2>1 DEF KeepPages, Recorded, OnPage
  <2>6. QED
    BY <1>3, <2>1, <2>4, <2>5
<1>8. CASE StartNextPage
  <2>1. Looping /\ Advance /\ NewJob /\ Conclude(FALSE) /\ open' = <<g>>
    BY <1>8, StartEffect DEF NewJob
  <2>2. Current \in g.jobs
    BY <2>1, NewGroup, ExtractJobsType DEF TypeOK
  <2> HIDE DEF g
  <2>4. Current \in JobsOf(open') /\ Current \in Job
    BY <2>1, <2>2 DEF JobsOf, NewJob
  <2>5. /\ Recorded'
        /\ \A i \in 1 .. cursor - 1 : prog.ids[i] \in Job => StaysTaken(prog.ids[i])
    <3>1. CASE open = <<>>
      <4>1. KeepPages
        BY <2>1, <3>1 DEF Conclude
      <4>2. JobsOf(open) = {}
        BY <3>1 DEF JobsOf
      <4>3. Recorded'
        BY <4>1 DEF KeepPages, Recorded, OnPage
      <4>4. QED
        BY <4>1, <4>2, <4>3 DEF KeepPages, Handled, Taken
    <3>2. CASE open # <<>>
      BY <1>2, <2>1, <3>2
    <3>3. QED
      BY <3>1, <3>2
  <2>6. Handled'
    BY <1>1, <1>3, <2>1, <2>4, <2>5 DEF Handled, Taken, Current
  <2>7. QED
    BY <1>3, <2>1, <2>5, <2>6
<1>9. CASE RejectJob \/ CrashOnJob \/ RejectNoEof
  BY <1>9, StopEffect DEF Handled, Taken, Recorded, OnPage, Finished
<1>10. CASE ConcludeLast
  <2>1. /\ Conclude(TRUE) /\ open # <<>> /\ open' = <<>> /\ NothingLeft
        /\ cursor' = cursor /\ prog' = prog
    BY <1>10 DEF ConcludeLast, Refill
  <2>2. Finished'
    BY <1>1, <2>1 DEF Finished, NothingLeft
  <2>3. QED
    BY <1>2, <2>1, <2>2 DEF Handled, Taken
<1>11. CASE MarkLast
  <2>1. /\ NothingLeft /\ open = <<>> /\ UNCHANGED <<prog, cursor, open, pageOf>>
    BY <1>11 DEF MarkLast
  <2>2. DOMAIN pages' = DOMAIN pages
        /\ \A i \in DOMAIN pages : pages'[i].groups = pages[i].groups
    BY <1>11, MarkedContents
  <2>3. Recorded'
    BY <2>1, <2>2 DEF Recorded, OnPage
  <2>4. QED
    BY <1>1, <2>1, <2>3 DEF Handled, Taken, Finished, NothingLeft
<1>12. CASE UNCHANGED pvars
  BY <1>12 DEF pvars, Handled, Taken, Recorded, OnPage, Finished
<1>13. QED
  BY <1>4, <1>5, <1>6, <1>7, <1>8, <1>9, <1>10, <1>11, <1>12 DEF Next, Pagify, Ended

-----------------------------------------------------------------------------
PagerInv ==
  /\ TypeOK
  /\ OpenFits /\ PageFits
  /\ AllClosed
  /\ Handled /\ Recorded /\ Finished

LEMMA PagerInvInitially == Init => PagerInv
<1>1. SUFFICES ASSUME Init
               PROVE  PagerInv
  OBVIOUS
<1>2. TypeOK
  BY <1>1, TypeInitially
<1>3. /\ open = <<>> /\ pages = <<>> /\ tsize = 0 /\ dsize = 0 /\ cursor = 1
      /\ \A j \in Job : pageOf[j] = NoPage
      /\ status = "paging"
  BY <1>1 DEF Init, Begin
<1>4. OpenFits /\ PageFits /\ AllClosed
  BY <1>3 DEF OpenFits, PageFits, AllClosed, BarrierClosed
<1>5. Handled /\ Recorded /\ Finished
  BY <1>3 DEF Handled, Recorded, Finished
<1>6. QED
  BY <1>2, <1>4, <1>5 DEF PagerInv

LEMMA PagerInvKept ==
  ASSUME PagerInv, [Next]_pvars
  PROVE  PagerInv'
<1>1. TypeOK'
  BY TypeKept DEF PagerInv
<1>2. OpenFits' /\ PageFits'
  BY FitsKept DEF PagerInv
<1>3. AllClosed'
  BY ClosedKept DEF PagerInv
<1>4. Handled' /\ Recorded' /\ Finished'
  BY HandledKept DEF PagerInv
<1>5. QED
  BY <1>1, <1>2, <1>3, <1>4 DEF PagerInv

LEMMA PagerInvariant == Spec => []PagerInv
BY PagerInvInitially, PagerInvKept, PTL DEF Spec

(* No page is longer than PageSize, whatever the program.                  *)
THEOREM PagesFit == Spec => []PageFits
<1>1. PagerInv => PageFits
  BY DEF PagerInv
<1>2. QED
  BY <1>1, PagerInvariant, PTL

(* Jobs that share a barrier are on one page, whatever the program.        *)
THEOREM BarriersNeverSplit == Spec => []BarriersStayOnPage
<1>1. PagerInv => BarriersStayOnPage
  <2>1. SUFFICES ASSUME PagerInv, NEW i \in DOMAIN pages,
                        NEW j \in Defined(prog), NEW k \in Defined(prog),
                        OnPage(j, i), prog.lbs[j] \cap prog.lbs[k] # {}
                 PROVE  OnPage(k, i)
    BY DEF BarriersStayOnPage
  <2>2. BarrierClosed(pages[i].groups)
    BY <2>1 DEF PagerInv, AllClosed
  <2>3. PICK a \in DOMAIN pages[i].groups : j \in pages[i].groups[a].jobs
    BY <2>1 DEF OnPage, JobsOf
  <2>4. k \in pages[i].groups[a].jobs
    BY <2>1, <2>2, <2>3 DEF BarrierClosed
  <2>5. QED
    BY <2>4 DEF OnPage, JobsOf
<1>2. QED
  BY <1>1, PagerInvariant, PTL

(* When pagify returns every job of the source is on a page: the loop has  *)
(* handled it, nothing is left on the page being filled, and what is       *)
(* recorded as placed is on a page.                                        *)
THEOREM NothingLost == Spec => []EveryJobPlaced
<1>1. PagerInv => EveryJobPlaced
  <2>1. SUFFICES ASSUME PagerInv, status = "done", NEW j \in Defined(prog)
                 PROVE  \E i \in DOMAIN pages : OnPage(j, i)
    BY DEF EveryJobPlaced
  <2>2. PICK n \in DOMAIN prog.ids : prog.ids[n] = j
    BY DEF Defined
  <2>3. j \in Job
    BY DEF Defined
  <2>4. cursor = Len(prog.ids) + 1 /\ open = <<>> /\ prog.ids \in Seq(Job \cup {Eop, Eof})
    BY <2>1 DEF PagerInv, Finished, TypeOK, ProgramType
  <2>5. Taken(j)
    BY <2>1, <2>2, <2>3, <2>4 DEF PagerInv, Handled
  <2>6. JobsOf(open) = {}
    BY <2>4 DEF JobsOf
  <2>7. pageOf[j] # NoPage
    BY <2>5, <2>6 DEF Taken
  <2>8. QED
    BY <2>1, <2>3, <2>7 DEF PagerInv, Recorded
<1>2. QED
  BY <1>1, PagerInvariant, PTL


-----------------------------------------------------------------------------
(* The four things a step does to the page being filled and to the pages.  *)
SameContents ==
  /\ open' = open /\ pageOf' = pageOf
  /\ DOMAIN pages' = DOMAIN pages
  /\ \A i \in DOMAIN pages : pages'[i].groups = pages[i].groups

Adds ==
  /\ NewJob /\ Extractable(Current) /\ KeepPages /\ Advance
  /\ open' = Append(open, Group(prog, Current))

Ships(last) == Conclude(last) /\ open # <<>> /\ open' = <<>>

ShipsAndStarts ==
  /\ NewJob /\ Extractable(Current) /\ Advance
  /\ Conclude(FALSE) /\ open # <<>> /\ open' = <<Group(prog, Current)>>

(* A group that fits a page by itself fits an empty one.                   *)
LEMMA StartsBehindAPage ==
  ASSUME TypeOK, OpenFits, StartNextPage
  PROVE  ShipsAndStarts
<1> DEFINE g == Group(prog, Current)
<1>1. /\ NewJob /\ Conclude(FALSE) /\ Advance /\ open' = <<g>>
      /\ FitsAlone(g) /\ ~ FitsOpen(g)
  BY StartEffect
<1>2. TextSize(g) \in Nat /\ DataSize(g) \in Nat
  BY <1>1, NewGroup
<1>3. open # <<>>
  BY <1>1, <1>2 DEF OpenFits, FitsAlone, FitsOpen
<1>4. Extractable(Current)
  BY DEF StartNextPage
<1>5. QED
  BY <1>1, <1>3, <1>4 DEF ShipsAndStarts

LEMMA AddsToPage ==
  ASSUME TypeOK, AddToPage
  PROVE  Adds
BY AddEffect DEF Adds, AddToPage

LEMMA MarkLastKeeps ==
  ASSUME TypeOK, MarkLast
  PROVE  SameContents
<1>1. UNCHANGED <<open, pageOf>>
  BY DEF MarkLast
<1>2. QED
  BY <1>1, MarkedContents DEF SameContents

LEMMA Kinds ==
  ASSUME TypeOK, OpenFits, [Next]_pvars
  PROVE  SameContents \/ Adds \/ ShipsAndStarts \/ \E last \in BOOLEAN : Ships(last)
<1>1. Idle => SameContents
  BY DEF Idle, SameContents
<1>2. ConcludeAtEop => Ships(FALSE)
  BY DEF ConcludeAtEop, Refill, Ships
<1>3. ConcludeLast => Ships(TRUE)
  BY DEF ConcludeLast, Refill, Ships
<1>4. QED
  BY <1>1, <1>2, <1>3, Steps, AddsToPage, StartsBehindAPage, MarkLastKeeps

LEMMA CursorGrows ==
  ASSUME TypeOK, [Next]_pvars
  PROVE  cursor' \in Nat /\ cursor <= cursor'
<1>1. cursor \in Nat
  BY DEF TypeOK
<1>2. Advance => cursor' = cursor + 1
  BY DEF Advance
<1>3. ConcludeLast \/ MarkLast \/ UNCHANGED pvars => cursor' = cursor
  BY DEF ConcludeLast, MarkLast, pvars
<1>4. RejectJob \/ CrashOnJob \/ RejectNoEof => cursor' = cursor
  BY StopEffect
<1>5. SkipJob \/ SkipEop \/ ConcludeAtEop \/ AddToPage \/ StartNextPage => Advance
  BY DEF SkipJob, SkipEop, ConcludeAtEop, AddToPage, StartNextPage
<1>6. QED
  BY <1>1, <1>2, <1>3, <1>4, <1>5 DEF Next, Pagify, Ended

-----------------------------------------------------------------------------
(***************************************************************************)
(* Where a group comes from: the loop met a job, and extractjobs found     *)
(* what goes with it; and who is on a page has its number.                 *)
(***************************************************************************)
Sourced(gs) ==
  \A a \in DOMAIN gs : \E n \in 1 .. cursor - 1 :
    prog.ids[n] \in Job /\ gs[a] = Group(prog, prog.ids[n])

AllSourced == Sourced(open) /\ \A i \in DOMAIN pages : Sourced(pages[i].groups)

Numbered == \A i \in DOMAIN pages : \A j \in JobsOf(pages[i].groups) : pageOf[j] # NoPage

LEMMA NewGroupSourced ==
  ASSUME TypeOK, NewJob, Advance, prog' = prog
  PROVE  \E n \in 1 .. cursor' - 1 :
           /\ prog'.ids[n] \in Job
           /\ Group(prog, Current) = Group(prog', prog'.ids[n])
<1>1. cursor \in Nat /\ cursor >= 1 /\ cursor' = cursor + 1
  BY DEF TypeOK, Advance
<1>2. Current \in Job
  BY NewGroup
<1>3. cursor \in 1 .. cursor' - 1 /\ prog'.ids[cursor] = Current
  BY <1>1 DEF Current
<1>4. QED
  BY <1>2, <1>3

LEMMA ConcludedPage ==
  ASSUME TypeOK, NEW last \in BOOLEAN, Conclude(last), open # <<>>, NEW i \in DOMAIN pages'
  PROVE  \/ i \in DOMAIN pages /\ pages'[i].groups = pages[i].groups
         \/ i = Len(pages) + 1 /\ pages'[i].groups = open
BY ConcludedContents

LEMMA AppendedGroup ==
  ASSUME TypeOK, NewJob, open' = Append(open, Group(prog, Current))
  PROVE  /\ DOMAIN open = 1 .. Len(open) /\ Len(open) \in Nat
         /\ DOMAIN open' = 1 .. Len(open) + 1
         /\ open'[Len(open) + 1] = Group(prog, Current)
         /\ \A a \in 1 .. Len(open) : open'[a] = open[a]
         /\ JobsOf(open') = JobsOf(open) \cup Group(prog, Current).jobs
<1> DEFINE g == Group(prog, Current)
<1>1. g \in GroupType /\ open \in Seq(GroupType)
  BY NewGroup DEF TypeOK
<1> HIDE DEF g
<1>2. open' = Append(open, g)
  BY DEF g
<1>3. /\ DOMAIN open = 1 .. Len(open) /\ Len(open) \in Nat
      /\ DOMAIN open' = 1 .. Len(open) + 1
      /\ open'[Len(open) + 1] = g
      /\ \A a \in 1 .. Len(open) : open'[a] = open[a]
  BY <1>1, <1>2
<1>4. JobsOf(open') = JobsOf(open) \cup g.jobs
  BY <1>3 DEF JobsOf
<1>5. QED
  BY <1>3, <1>4 DEF g

LEMMA LongerRange ==
  ASSUME NEW m \in Nat, NEW n \in Nat, m <= n
  PROVE  1 .. m - 1 \subseteq 1 .. n - 1
OBVIOUS

LEMMA SourcedKept ==
  ASSUME TypeOK, OpenFits, AllSourced, [Next]_pvars
  PROVE  AllSourced'
<1> DEFINE g == Group(prog, Current)
           FromSource(h) == \E n \in 1 .. cursor' - 1 :
                              prog'.ids[n] \in Job /\ h = Group(prog', prog'.ids[n])
<1>1. prog' = prog /\ cursor \in Nat /\ cursor' \in Nat /\ cursor <= cursor'
  BY ProgramFixed, CursorGrows DEF TypeOK
<1>2. /\ \A a \in DOMAIN open : FromSource(open[a])
      /\ \A i \in DOMAIN pages : \A a \in DOMAIN pages[i].groups :
           FromSource(pages[i].groups[a])
  <2>1. ASSUME NEW gs, Sourced(gs), NEW a \in DOMAIN gs
        PROVE  FromSource(gs[a])
    <3>1. PICK k \in 1 .. cursor - 1 :
            prog.ids[k] \in Job /\ gs[a] = Group(prog, prog.ids[k])
      BY <2>1 DEF Sourced
    <3>2. k \in 1 .. cursor' - 1
      BY <1>1, LongerRange
    <3>3. prog'.ids[k] \in Job /\ gs[a] = Group(prog', prog'.ids[k])
      BY <1>1, <3>1
    <3>4. QED
      BY <3>2, <3>3
  <2>2. Sourced(open) /\ \A i \in DOMAIN pages : Sourced(pages[i].groups)
    BY DEF AllSourced
  <2> HIDE DEF FromSource
  <2>3. QED
    BY <2>1, <2>2
<1>3. SUFFICES /\ \A a \in DOMAIN open' : FromSource(open'[a])
               /\ \A i \in DOMAIN pages' : \A a \in DOMAIN pages'[i].groups :
                    FromSource(pages'[i].groups[a])
  BY DEF AllSourced, Sourced
<1>4. ASSUME NewJob, Advance
      PROVE  FromSource(g)
  BY <1>1, <1>4, NewGroupSourced
<1>5. ASSUME NEW last \in BOOLEAN, Conclude(last), open # <<>>, NEW i \in DOMAIN pages',
             NEW a \in DOMAIN pages'[i].groups
      PROVE  FromSource(pages'[i].groups[a])
  <2>1. \/ i \in DOMAIN pages /\ pages'[i].groups = pages[i].groups
        \/ pages'[i].groups = open
    BY <1>5, ConcludedContents
  <2> HIDE DEF FromSource
  <2>2. QED
    BY <1>2, <1>5, <2>1
<1> HIDE DEF FromSource, g
<1>6. CASE SameContents
  BY <1>2, <1>6 DEF SameContents
<1>7. CASE Adds
  <2>1. NewJob /\ Advance /\ pages' = pages
    BY <1>7 DEF Adds, KeepPages
  <2>2. /\ DOMAIN open = 1 .. Len(open) /\ Len(open) \in Nat
        /\ DOMAIN open' = 1 .. Len(open) + 1
        /\ open'[Len(open) + 1] = g
        /\ \A a \in 1 .. Len(open) : open'[a] = open[a]
    BY <1>7, AppendedGroup DEF Adds, g
  <2>3. FromSource(g)
    BY <1>4, <2>1
  <2>4. QED
    BY <1>2, <2>1, <2>2, <2>3
<1>8. CASE ShipsAndStarts
  <2>1. NewJob /\ Advance /\ Conclude(FALSE) /\ open # <<>> /\ open' = <<g>>
    BY <1>8 DEF ShipsAndStarts, g
  <2>2. FromSource(g)
    BY <1>4, <2>1
  <2>3. \A a \in DOMAIN open' : FromSource(open'[a])
    BY <2>1, <2>2
  <2>4. \A i \in DOMAIN pages' : \A a \in DOMAIN pages'[i].groups :
          FromSource(pages'[i].groups[a])
    BY <1>5, <2>1
  <2>5. QED
    BY <2>3, <2>4
<1>9. ASSUME NEW last \in BOOLEAN, Ships(last)
      PROVE  /\ \A a \in DOMAIN open' : FromSource(open'[a])
             /\ \A i \in DOMAIN pages' : \A a \in DOMAIN pages'[i].groups :
                  FromSource(pages'[i].groups[a])
  BY <1>5, <1>9 DEF Ships
<1>10. QED
  BY <1>6, <1>7, <1>8, <1>9, Kinds

LEMMA ConcludedNumbered ==
  ASSUME TypeOK, Numbered, NEW last \in BOOLEAN, Conclude(last), open # <<>>
  PROVE  Numbered'
<1>1. /\ pageOf' = [j \in Job |-> IF j \in JobsOf(open) THEN pageIndex ELSE pageOf[j]]
      /\ pages \in Seq(PageType) /\ open \in Seq(GroupType) /\ pageIndex \in Nat
  BY ConcludeEffect DEF TypeOK
<1>2. SUFFICES ASSUME NEW i \in DOMAIN pages', NEW j \in JobsOf(pages'[i].groups)
               PROVE  pageOf'[j] # NoPage
  BY DEF Numbered
<1>3. CASE pages'[i].groups = open
  <2>1. j \in Job
    <3>1. PICK a \in DOMAIN open : j \in open[a].jobs
      BY <1>2, <1>3 DEF JobsOf
    <3>2. open[a] \in GroupType
      BY <1>1, <3>1
    <3>3. QED
      BY <3>1, <3>2 DEF GroupType
  <2>2. QED
    BY <1>1, <1>2, <1>3, <2>1 DEF NoPage
<1>4. CASE i \in DOMAIN pages /\ pages'[i].groups = pages[i].groups
  <2>1. pages[i] \in PageType
    BY <1>1, <1>4
  <2>2. j \in Job
    <3>1. PICK a \in DOMAIN pages[i].groups : j \in pages[i].groups[a].jobs
      BY <1>2, <1>4 DEF JobsOf
    <3>2. pages[i].groups \in Seq(GroupType)
      BY <2>1 DEF PageType
    <3>3. pages[i].groups[a] \in GroupType
      BY <3>1, <3>2
    <3>4. QED
      BY <3>1, <3>3 DEF GroupType
  <2>3. pageOf[j] # NoPage
    BY <1>2, <1>4 DEF Numbered
  <2>4. QED
    BY <1>1, <2>2, <2>3 DEF NoPage
<1>5. QED
  BY <1>3, <1>4, ConcludedContents

LEMMA NumberedKept ==
  ASSUME TypeOK, OpenFits, Numbered, [Next]_pvars
  PROVE  Numbered'
<1>1. CASE SameContents
  BY <1>1 DEF SameContents, Numbered, JobsOf
<1>2. CASE Adds
  BY <1>2 DEF Adds, KeepPages, Numbered, JobsOf
<1>3. CASE ShipsAndStarts
  BY <1>3, ConcludedNumbered DEF ShipsAndStarts
<1>4. ASSUME NEW last \in BOOLEAN, Ships(last)
      PROVE  Numbered'
  BY <1>4, ConcludedNumbered DEF Ships
<1>5. QED
  BY <1>1, <1>2, <1>3, <1>4, Kinds

-----------------------------------------------------------------------------
(***************************************************************************)
(* In a program where later closures are new or were all taken with an     *)
(* earlier one, what the loop puts on a page is new: the job at hand is on *)
(* no page, so its closure meets none of the groups before.                *)
(***************************************************************************)
GroupsApart(gs) == \A a, b \in DOMAIN gs : a # b => gs[a].jobs \cap gs[b].jobs = {}

Apart ==
  /\ GroupsApart(open)
  /\ \A i \in DOMAIN pages : GroupsApart(pages[i].groups)
  /\ \A i \in DOMAIN pages : JobsOf(pages[i].groups) \cap JobsOf(open) = {}
  /\ \A i, m \in DOMAIN pages :
       i # m => JobsOf(pages[i].groups) \cap JobsOf(pages[m].groups) = {}

LEMMA NewGroupApart ==
  ASSUME TypeOK, NewJob, Nested(prog), NEW gs, Sourced(gs), Current \notin JobsOf(gs)
  PROVE  Group(prog, Current).jobs \cap JobsOf(gs) = {}
<1>1. SUFFICES ASSUME NEW a \in DOMAIN gs
               PROVE  Group(prog, Current).jobs \cap gs[a].jobs = {}
  BY DEF JobsOf
<1>2. /\ Current \in Job /\ Group(prog, Current).jobs = ExtractJobs(prog, Current)
      /\ prog \in ProgramType /\ prog.ids \in Seq(Job \cup {Eop, Eof})
  BY NewGroup DEF TypeOK, ProgramType
<1>3. PICK n \in 1 .. cursor - 1 : prog.ids[n] \in Job /\ gs[a] = Group(prog, prog.ids[n])
  BY <1>1 DEF Sourced
<1>4. gs[a].jobs = ExtractJobs(prog, prog.ids[n])
  BY <1>2, <1>3, GroupHasType
<1>5. cursor \in 1 .. Len(prog.ids) /\ n \in DOMAIN prog.ids /\ n < cursor
  BY <1>2, <1>3 DEF NewJob, Looping, TypeOK
<1>6. Current = prog.ids[cursor] /\ cursor \in DOMAIN prog.ids
  BY <1>2, <1>5 DEF Current
<1>7. \/ ExtractJobs(prog, prog.ids[n]) \cap ExtractJobs(prog, Current) = {}
      \/ ExtractJobs(prog, Current) \subseteq ExtractJobs(prog, prog.ids[n])
  BY <1>2, <1>3, <1>5, <1>6 DEF Nested
<1>8. Current \in ExtractJobs(prog, Current)
  BY <1>2, ExtractJobsType
<1>9. Current \notin gs[a].jobs
  BY <1>1 DEF JobsOf
<1>10. QED
  BY <1>2, <1>4, <1>7, <1>8, <1>9

LEMMA ConcludedApart ==
  ASSUME TypeOK, Apart, NEW last \in BOOLEAN, Conclude(last), open # <<>>
  PROVE  /\ \A i \in DOMAIN pages' : GroupsApart(pages'[i].groups)
         /\ \A i, m \in DOMAIN pages' :
              i # m => JobsOf(pages'[i].groups) \cap JobsOf(pages'[m].groups) = {}
<1>1. /\ DOMAIN pages = 1 .. Len(pages) /\ DOMAIN pages' = 1 .. Len(pages) + 1
      /\ Len(pages) \in Nat
      /\ \A i \in 1 .. Len(pages) : pages'[i].groups = pages[i].groups
      /\ pages'[Len(pages) + 1].groups = open
  BY ConcludedContents
<1>2. \A i \in DOMAIN pages' :
        \/ i \in DOMAIN pages /\ pages'[i].groups = pages[i].groups
        \/ i = Len(pages) + 1 /\ pages'[i].groups = open
  BY <1>1
<1>3. QED
  BY <1>2 DEF Apart

LEMMA ApartPrimed ==
  ASSUME GroupsApart(open'),
         \A i \in DOMAIN pages' : GroupsApart(pages'[i].groups),
         \A i \in DOMAIN pages' : JobsOf(pages'[i].groups) \cap JobsOf(open') = {},
         \A i, m \in DOMAIN pages' :
           i # m => JobsOf(pages'[i].groups) \cap JobsOf(pages'[m].groups) = {}
  PROVE  Apart'
BY DEF Apart, GroupsApart, JobsOf

LEMMA ApartKept ==
  ASSUME TypeOK, OpenFits, AllSourced, Numbered, Nested(prog), Apart, [Next]_pvars
  PROVE  Apart'
<1> DEFINE g == Group(prog, Current)
<1>1. ASSUME NewJob
      PROVE  /\ g.jobs \cap JobsOf(open) = {}
             /\ \A i \in DOMAIN pages : g.jobs \cap JobsOf(pages[i].groups) = {}
  <2>1. Current \in Job /\ Current \notin JobsOf(open)
        /\ \A i \in DOMAIN pages : Current \notin JobsOf(pages[i].groups)
    BY <1>1 DEF NewJob, Taken, Numbered
  <2>2. QED
    BY <1>1, <2>1, NewGroupApart DEF AllSourced
<1> HIDE DEF g
<1>2. CASE SameContents
  BY <1>2, ApartPrimed DEF SameContents, Apart
<1>3. CASE Adds
  <2>1. NewJob /\ pages' = pages /\ open' = Append(open, g)
    BY <1>3 DEF Adds, KeepPages, g
  <2>2. /\ DOMAIN open = 1 .. Len(open) /\ Len(open) \in Nat
        /\ DOMAIN open' = 1 .. Len(open) + 1
        /\ open'[Len(open) + 1] = g
        /\ \A a \in 1 .. Len(open) : open'[a] = open[a]
        /\ JobsOf(open') = JobsOf(open) \cup g.jobs
    BY <2>1, AppendedGroup DEF g
  <2>3. \A a \in DOMAIN open : g.jobs \cap open[a].jobs = {}
    BY <1>1, <2>1 DEF JobsOf
  <2>4. GroupsApart(open')
    <3>1. SUFFICES ASSUME NEW a \in DOMAIN open', NEW b \in DOMAIN open', a # b
                   PROVE  open'[a].jobs \cap open'[b].jobs = {}
      BY DEF GroupsApart
    <3>2. \A c \in DOMAIN open' :
            \/ c \in DOMAIN open /\ open'[c] = open[c]
            \/ c = Len(open) + 1 /\ open'[c] = g
      BY <2>2
    <3>3. \A c, d \in DOMAIN open : c # d => open[c].jobs \cap open[d].jobs = {}
      BY DEF Apart, GroupsApart
    <3>4. QED
      BY <2>3, <3>1, <3>2, <3>3
  <2>5. \A i \in DOMAIN pages : JobsOf(pages[i].groups) \cap JobsOf(open') = {}
    BY <1>1, <2>1, <2>2 DEF Apart
  <2>6. /\ \A i \in DOMAIN pages : GroupsApart(pages[i].groups)
        /\ \A i, m \in DOMAIN pages :
             i # m => JobsOf(pages[i].groups) \cap JobsOf(pages[m].groups) = {}
    BY DEF Apart
  <2>7. QED
    BY <2>1, <2>4, <2>5, <2>6, ApartPrimed
<1>4. CASE ShipsAndStarts
  <2>1. NewJob /\ Conclude(FALSE) /\ open # <<>> /\ open' = <<g>>
    BY <1>4 DEF ShipsAndStarts, g
  <2>2. /\ \A i \in DOMAIN pages' : GroupsApart(pages'[i].groups)
        /\ \A i, m \in DOMAIN pages' :
             i # m => JobsOf(pages'[i].groups) \cap JobsOf(pages'[m].groups) = {}
    BY <2>1, ConcludedApart
  <2>3. GroupsApart(open') /\ JobsOf(open') = g.jobs
    BY <2>1 DEF GroupsApart, JobsOf
  <2>4. \A i \in DOMAIN pages' : JobsOf(pages'[i].groups) \cap JobsOf(open') = {}
    <3>1. SUFFICES ASSUME NEW i \in DOMAIN pages'
                   PROVE  JobsOf(pages'[i].groups) \cap g.jobs = {}
      BY <2>3
    <3>2. \/ i \in DOMAIN pages /\ pages'[i].groups = pages[i].groups
          \/ pages'[i].groups = open
      BY <2>1, ConcludedPage
    <3>3. QED
      BY <1>1, <2>1, <3>2
  <2>5. QED
    BY <2>2, <2>3, <2>4, ApartPrimed
<1>5. ASSUME NEW last \in BOOLEAN, Ships(last)
      PROVE  Apart'
  <2>1. Conclude(last) /\ open # <<>> /\ open' = <<>>
    BY <1>5 DEF Ships
  <2>2. /\ \A i \in DOMAIN pages' : GroupsApart(pages'[i].groups)
        /\ \A i, m \in DOMAIN pages' :
             i # m => JobsOf(pages'[i].groups) \cap JobsOf(pages'[m].groups) = {}
    BY <2>1, ConcludedApart
  <2>3. GroupsApart(open') /\ JobsOf(open') = {}
    BY <2>1 DEF GroupsApart, JobsOf
  <2>4. QED
    BY <2>2, <2>3, ApartPrimed
<1>6. QED
  BY <1>2, <1>3, <1>4, <1>5, Kinds

-----------------------------------------------------------------------------
StreamInv == PagerInv /\ AllSourced /\ Numbered /\ (Nested(prog) => Apart)

LEMMA StreamInvariant == Spec => []StreamInv
<1>1. Init => StreamInv
  <2>1. SUFFICES ASSUME Init
                 PROVE  AllSourced /\ Numbered /\ Apart
    BY PagerInvInitially DEF StreamInv
  <2>2. open = <<>> /\ pages = <<>>
    BY <2>1 DEF Init, Begin
  <2>3. QED
    BY <2>2 DEF AllSourced, Sourced, Numbered, Apart, GroupsApart
<1>2. StreamInv /\ [Next]_pvars => StreamInv'
  <2>1. SUFFICES ASSUME StreamInv, [Next]_pvars
                 PROVE  StreamInv'
    OBVIOUS
  <2>2. TypeOK /\ OpenFits /\ AllSourced /\ Numbered /\ (Nested(prog) => Apart)
    BY <2>1 DEF StreamInv, PagerInv
  <2>3. PagerInv'
    BY <2>1, PagerInvKept DEF StreamInv
  <2>4. AllSourced' /\ Numbered'
    BY <2>1, <2>2, SourcedKept, NumberedKept
  <2>5. Nested(prog)' => Apart'
    <3>1. prog' = prog
      BY <2>1, <2>2, ProgramFixed
    <3>2. Nested(prog)' => Nested(prog)
      BY <3>1
    <3>3. QED
      BY <2>1, <2>2, <3>2, ApartKept
  <2>6. QED
    BY <2>3, <2>4, <2>5 DEF StreamInv
<1>3. QED
  BY <1>1, <1>2, PTL DEF Spec

(* In programs whose closures are nested no job is placed twice.           *)
THEOREM NothingTwice == Spec => []PlacedOnce
<1>1. StreamInv => PlacedOnce
  BY DEF StreamInv, PlacedOnce, Apart, GroupsApart
<1>2. QED
  BY <1>1, StreamInvariant, PTL

-----------------------------------------------------------------------------
(***************************************************************************)
(* The labels of a group are those its jobs name, directly and through     *)
(* other labels: the closure of what all its jobs name holds the closure   *)
(* of what one of them names.                                              *)
(***************************************************************************)
LEMMA NamedOfOne ==
  ASSUME NEW p \in ProgramType, NEW J \in SUBSET Job, NEW j \in J
  PROVE  /\ p.refs[j] \subseteq NamedLabels(p, J)
         /\ NamedLabels(p, {j}) \subseteq NamedLabels(p, J)
         /\ \A l \in NamedLabels(p, J) : p.lrefs[l] \subseteq NamedLabels(p, J)
<1> DEFINE all == UNION {p.refs[k] : k \in J}
<1>1. p.refs \in [Job -> SUBSET Label] /\ p.lrefs \in [Label -> SUBSET Label]
  BY DEF ProgramType
<1>2. all \in SUBSET Label /\ p.refs[j] \subseteq all /\ p.refs[j] \in SUBSET Label
  BY <1>1
<1>3. NamedLabels(p, J) = Reach(p.lrefs, all)
  BY DEF NamedLabels
<1>4. NamedLabels(p, {j}) = Reach(p.lrefs, p.refs[j])
  BY DEF NamedLabels
<1> HIDE DEF all
<1>5. all \subseteq Reach(p.lrefs, all) /\ Reach(p.lrefs, all) \in SUBSET Label
  BY <1>1, <1>2, ReachStart
<1>6. ClosedUnder(p.lrefs, Reach(p.lrefs, all))
  BY <1>1, <1>2, ReachClosed
<1>7. Reach(p.lrefs, p.refs[j]) \subseteq Reach(p.lrefs, all)
  BY <1>1, <1>2, <1>5, <1>6, ReachLeast
<1>8. QED
  BY <1>2, <1>3, <1>4, <1>5, <1>6, <1>7 DEF ClosedUnder

LEMMA GroupHoldsData ==
  ASSUME NEW p \in ProgramType, NEW k \in Job, NEW j \in Group(p, k).jobs
  PROVE  /\ p.refs[j] \subseteq Group(p, k).labels
         /\ \A l \in NamedLabels(p, {j}) :
              p.lrefs[l] \cup p.entries[l] \subseteq Group(p, k).labels
<1> DEFINE J == ExtractJobs(p, k)
<1>1. J \in SUBSET Job /\ j \in J /\ Group(p, k).labels = ExtractLabels(p, J)
  BY ExtractJobsType DEF Group
<1> HIDE DEF J
<1>2. /\ p.refs[j] \subseteq NamedLabels(p, J)
      /\ NamedLabels(p, {j}) \subseteq NamedLabels(p, J)
      /\ \A l \in NamedLabels(p, J) : p.lrefs[l] \subseteq NamedLabels(p, J)
  BY <1>1, NamedOfOne
<1>3. /\ NamedLabels(p, J) \subseteq ExtractLabels(p, J)
      /\ \A l \in NamedLabels(p, J) : p.entries[l] \subseteq ExtractLabels(p, J)
  BY DEF ExtractLabels
<1>4. QED
  BY <1>1, <1>2, <1>3

(* The data a job names is on the page of the job, with the data that one  *)
(* names and with the patch tables, for every program and page size.       *)
THEOREM DataComesAlong == Spec => []DataWithJobs
<1>1. StreamInv => DataWithJobs
  <2>1. SUFFICES ASSUME StreamInv, NEW i \in DOMAIN pages, NEW j \in JobsOf(pages[i].groups)
                 PROVE  /\ prog.refs[j] \subseteq LabelsOf(pages[i].groups)
                        /\ \A l \in NamedLabels(prog, {j}) :
                             prog.lrefs[l] \cup prog.entries[l]
                               \subseteq LabelsOf(pages[i].groups)
    BY DEF DataWithJobs
  <2>2. prog \in ProgramType /\ Sourced(pages[i].groups)
    BY <2>1 DEF StreamInv, PagerInv, TypeOK, AllSourced
  <2>3. PICK a \in DOMAIN pages[i].groups : j \in pages[i].groups[a].jobs
    BY DEF JobsOf
  <2>4. PICK n \in 1 .. cursor - 1 :
          prog.ids[n] \in Job /\ pages[i].groups[a] = Group(prog, prog.ids[n])
    BY <2>2, <2>3 DEF Sourced
  <2>5. /\ prog.refs[j] \subseteq pages[i].groups[a].labels
        /\ \A l \in NamedLabels(prog, {j}) :
             prog.lrefs[l] \cup prog.entries[l] \subseteq pages[i].groups[a].labels
    BY <2>2, <2>3, <2>4, GroupHoldsData
  <2>6. pages[i].groups[a].labels \subseteq LabelsOf(pages[i].groups)
    BY <2>3 DEF LabelsOf
  <2>7. QED
    BY <2>5, <2>6
<1>2. QED
  BY <1>1, StreamInvariant, PTL

-----------------------------------------------------------------------------
(***************************************************************************)
(* The mark of the last page is set when pagify returns and not before; in *)
(* the first label group page_index is the number of pages, which is why   *)
(* the index relative to the group finds the last one.                     *)
(***************************************************************************)
Marked ==
  /\ rel = 0 => pageIndex = Len(pages)
  /\ status # "done" => \A i \in DOMAIN pages : ~ pages[i].last
  /\ LastPageMarked

LEMMA LastUpdates ==
  ASSUME NEW page \in PageType, NEW len \in Nat
  PROVE  Announce(page, len).last = page.last /\ AsLast(page).last = TRUE
BY DEF Announce, AsLast, PageType

LEMMA ConcludedMarks ==
  ASSUME TypeOK, NEW last \in BOOLEAN, Conclude(last), open # <<>>
  PROVE  /\ DOMAIN pages' = 1 .. Len(pages) + 1 /\ Len(pages') = Len(pages) + 1
         /\ DOMAIN pages = 1 .. Len(pages) /\ Len(pages) \in Nat
         /\ \A i \in DOMAIN pages : pages'[i].last = pages[i].last
         /\ pages'[Len(pages) + 1].last = last
         /\ pageIndex' = pageIndex + 1
<1>1. /\ Len(pages') = Len(pages) + 1
      /\ \A i \in 1 .. Len(pages) :
           pages'[i] = IF i = Len(pages) /\ i - 1 >= rel
                       THEN Announce(pages[i], PageLength(tsize, dsize)) ELSE pages[i]
      /\ pages'[Len(pages) + 1] =
           [num |-> pageIndex, groups |-> open, last |-> last,
            len |-> PageLength(tsize, dsize), inorder |-> 0]
      /\ pageIndex' = pageIndex + 1
  BY ConcludeEffect
<1>2. DOMAIN pages = 1 .. Len(pages) /\ DOMAIN pages' = 1 .. Len(pages) + 1 /\ Len(pages) \in Nat
  BY ConcludedContents
<1>3. pages \in Seq(PageType) /\ PageLength(tsize, dsize) \in Nat
  BY LengthIsNat DEF TypeOK
<1>4. ASSUME NEW i \in DOMAIN pages
      PROVE  pages'[i].last = pages[i].last
  <2>1. pages[i] \in PageType
    BY <1>3
  <2>2. Announce(pages[i], PageLength(tsize, dsize)).last = pages[i].last
    BY <1>3, <2>1, LastUpdates
  <2>3. QED
    BY <1>1, <1>2, <2>2
<1>5. pages'[Len(pages) + 1].last = last
  <2> DEFINE n == Len(pages) + 1
  <2>1. pages'[n] = [num |-> pageIndex, groups |-> open, last |-> last,
                     len |-> PageLength(tsize, dsize), inorder |-> 0]
    BY <1>1
  <2> HIDE DEF n
  <2>2. pages'[n].last = last
    BY <2>1
  <2>3. QED
    BY <2>2 DEF n
<1>6. \A i \in DOMAIN pages : pages'[i].last = pages[i].last
  BY <1>4
<1>7. Len(pages') = Len(pages) + 1 /\ pageIndex' = pageIndex + 1
  BY <1>1
<1> HIDE DEF Conclude
<1>8. QED
  BY <1>2, <1>5, <1>6, <1>7

LEMMA MarkedKept ==
  ASSUME TypeOK, OpenFits, Marked, [Next]_pvars
  PROVE  Marked'
<1>1. pages \in Seq(PageType) /\ Len(pages) \in Nat /\ DOMAIN pages = 1 .. Len(pages)
  BY DEF TypeOK
<1>2. ASSUME KeepPages, rel' = rel, status # "done", status' # "done"
      PROVE  Marked'
  BY <1>2 DEF KeepPages, Marked, LastPageMarked
<1>3. ASSUME Conclude(FALSE), open # <<>>, rel' = rel, status # "done", status' # "done"
      PROVE  Marked'
  <2>1. /\ DOMAIN pages' = 1 .. Len(pages) + 1 /\ Len(pages') = Len(pages) + 1
        /\ \A i \in DOMAIN pages : pages'[i].last = pages[i].last
        /\ pages'[Len(pages) + 1].last = FALSE
        /\ pageIndex' = pageIndex + 1
    BY <1>3, ConcludedMarks
  <2>2. \A i \in DOMAIN pages' : ~ pages'[i].last
    BY <1>1, <1>3, <2>1 DEF Marked
  <2>3. QED
    BY <1>1, <1>3, <2>1, <2>2 DEF Marked, LastPageMarked
<1>4. Looping \/ NothingLeft => status # "done"
  BY DEF Looping, NothingLeft
<1>5. CASE SkipJob \/ SkipEop \/ AddToPage
  BY <1>2, <1>4, <1>5 DEF SkipJob, SkipEop, AddToPage, NewJob, Advance
<1>6. CASE ConcludeAtEop
  BY <1>3, <1>4, <1>6 DEF ConcludeAtEop, Advance
<1>7. CASE StartNextPage
  <2>1. Conclude(FALSE) /\ open # <<>> /\ Advance /\ Looping
    BY <1>7, StartsBehindAPage DEF ShipsAndStarts, NewJob
  <2>2. QED
    BY <1>3, <1>4, <2>1 DEF Advance
<1>8. CASE RejectJob \/ CrashOnJob \/ RejectNoEof
  <2>1. status' # "done" /\ KeepPages /\ rel' = rel
    BY <1>8, StopEffect DEF KeepPages
  <2>2. status # "done"
    BY <1>4, <1>8 DEF RejectJob, CrashOnJob, RejectNoEof, NewJob
  <2>3. QED
    BY <1>2, <2>1, <2>2
<1>9. CASE ConcludeLast
  <2>1. Conclude(TRUE) /\ open # <<>> /\ status # "done" /\ status' = "done" /\ rel' = rel
    BY <1>4, <1>9 DEF ConcludeLast
  <2>2. /\ DOMAIN pages' = 1 .. Len(pages) + 1 /\ Len(pages') = Len(pages) + 1
        /\ \A i \in DOMAIN pages : pages'[i].last = pages[i].last
        /\ pages'[Len(pages) + 1].last = TRUE
        /\ pageIndex' = pageIndex + 1
    BY <2>1, ConcludedMarks
  <2>3. ASSUME NEW i \in DOMAIN pages'
        PROVE  pages'[i].last = (i = Len(pages'))
    <3>1. CASE i \in DOMAIN pages
      <4>1. pages[i] \in PageType /\ ~ pages[i].last
        BY <1>1, <2>1, <3>1 DEF Marked
      <4>2. pages'[i].last = FALSE
        BY <2>2, <3>1, <4>1 DEF PageType
      <4>3. i # Len(pages')
        BY <1>1, <2>2, <3>1
      <4>4. QED
        BY <4>2, <4>3
    <3>2. CASE i \notin DOMAIN pages
      <4>1. i = Len(pages) + 1
        BY <1>1, <2>2, <3>2
      <4>2. pages'[i].last = TRUE /\ i = Len(pages')
        BY <2>2, <4>1
      <4>3. QED
        BY <4>2
    <3>3. QED
      BY <3>1, <3>2
  <2>4. QED
    BY <1>1, <2>1, <2>2, <2>3 DEF Marked, LastPageMarked
<1>10. CASE MarkLast
  <2> DEFINE n == pageIndex - rel
  <2>1. /\ status # "done" /\ status' = "done" /\ rel' = rel /\ pageIndex' = pageIndex
        /\ pages' = IF n > 0 THEN [pages EXCEPT ![n] = AsLast(pages[n])] ELSE pages
    BY <1>4, <1>10 DEF MarkLast
  <2>2. n \in Int /\ rel \in Nat
    BY DEF TypeOK
  <2>3. rel = 0 => n = Len(pages)
    BY <1>1 DEF Marked
  <2> HIDE DEF n
  <2>4. n \in 1 .. Len(pages) => AsLast(pages[n]) \in PageType /\ AsLast(pages[n]).last = TRUE
    <3>1. SUFFICES ASSUME n \in 1 .. Len(pages)
                   PROVE  AsLast(pages[n]) \in PageType /\ AsLast(pages[n]).last = TRUE
      OBVIOUS
    <3>2. pages[n] \in PageType
      BY <1>1, <3>1
    <3>3. QED
      BY <3>2, PageUpdates, LastUpdates, 0 \in Nat
  <2> DEFINE marked == [pages EXCEPT ![n] = AsLast(pages[n])]
  <2>5. /\ Len(marked) = Len(pages)
        /\ \A i \in 1 .. Len(pages) : marked[i] = IF i = n THEN AsLast(pages[n]) ELSE pages[i]
    BY <1>1, <2>2, <2>4, UpdateInSeq
  <2>6. DOMAIN marked = DOMAIN pages
    OBVIOUS
  <2> HIDE DEF marked
  <2>7. pages' = IF n > 0 THEN marked ELSE pages
    BY <2>1 DEF marked
  <2>8. Len(pages') = Len(pages) /\ DOMAIN pages' = DOMAIN pages
    BY <2>5, <2>6, <2>7
  <2>9. ASSUME rel = 0, NEW i \in DOMAIN pages'
        PROVE  pages'[i].last = (i = Len(pages'))
    <3>1. n = Len(pages) /\ i \in 1 .. Len(pages) /\ n > 0
      BY <1>1, <2>3, <2>8, <2>9
    <3>2. pages'[i] = IF i = n THEN AsLast(pages[n]) ELSE pages[i]
      BY <2>5, <2>7, <3>1
    <3>3. pages[i] \in PageType /\ ~ pages[i].last
      BY <1>1, <2>1, <3>1 DEF Marked
    <3>4. CASE i = n
      BY <2>4, <2>8, <3>1, <3>2, <3>4
    <3>5. CASE i # n
      BY <2>8, <3>1, <3>2, <3>3, <3>5 DEF PageType
    <3>6. QED
      BY <3>4, <3>5
  <2>10. QED
    BY <2>1, <2>8, <2>9 DEF Marked, LastPageMarked
<1>11. CASE UNCHANGED pvars
  BY <1>11 DEF pvars, Marked, LastPageMarked
<1>12. QED
  BY <1>5, <1>6, <1>7, <1>8, <1>9, <1>10, <1>11 DEF Next, Pagify, Ended

(* When pagify returns, exactly the final page of the first label group    *)
(* is marked as the last one, whoever concluded it.                        *)
THEOREM LastMarkedOnce == Spec => []LastPageMarked
<1>1. Init => Marked
  <2>1. SUFFICES ASSUME Init
                 PROVE  Marked
    OBVIOUS
  <2>2. pages = <<>> /\ pageIndex = 0 /\ status = "paging"
    BY <2>1 DEF Init, Begin
  <2>3. QED
    BY <2>2 DEF Marked, LastPageMarked
<1>2. PagerInv /\ Marked /\ [Next]_pvars => Marked'
  BY MarkedKept DEF PagerInv
<1>3. Marked => LastPageMarked
  BY DEF Marked
<1>4. QED
  BY <1>1, <1>2, <1>3, PagerInvariant, PTL DEF Spec

-----------------------------------------------------------------------------
(***************************************************************************)
(* Where .eop directives are passed: a group has the jobs of one number of *)
(* .eop directives in front of them, for extractjobs throws for a peer     *)
(* with another number; the page being filled has those of the number      *)
(* passed so far.  assembler_state takes no job twice.                     *)
(***************************************************************************)
DefinedOnce(p) == \A a, b \in DOMAIN p.ids : p.ids[a] \in Job /\ p.ids[a] = p.ids[b] => a = b

LaunchesWithin(p) ==
  \A j \in Defined(p) : \A k \in p.launch[j] \cap Defined(p) : EopNum(p, j) = EopNum(p, k)

EopsUpTo(p, n) == {i \in 1 .. n : p.ids[i] = Eop}

HaveNumber(gs, n) == \A j \in JobsOf(gs) : EopNum(prog, j) = n

EopsPassed ==
  DefinedOnce(prog) /\ LaunchesWithin(prog) =>
    /\ HaveNumber(open, Cardinality(EopsUpTo(prog, cursor - 1)))
    /\ \A i \in DOMAIN pages : \E n : HaveNumber(pages[i].groups, n)

LEMMA EopNumIs ==
  ASSUME NEW p, DefinedOnce(p), NEW n \in DOMAIN p.ids, p.ids[n] \in Job
  PROVE  EopNum(p, p.ids[n]) = Cardinality(EopsUpTo(p, n))
<1> DEFINE at == CHOOSE i \in DOMAIN p.ids : p.ids[i] = p.ids[n]
<1>1. at \in DOMAIN p.ids /\ p.ids[at] = p.ids[n]
  OBVIOUS
<1>2. at = n
  BY <1>1 DEF DefinedOnce
<1>3. EopNum(p, p.ids[n]) = Cardinality({i \in 1 .. at : p.ids[i] = Eop})
  BY DEF EopNum
<1>4. QED
  BY <1>2, <1>3 DEF EopsUpTo

(* Along the launches the number stays, and with it among their peers.     *)
LEMMA GroupHasNumber ==
  ASSUME NEW p \in ProgramType, LaunchesWithin(p), NEW j \in Job,
         ~ LaunchesMissing(p, j), ~ SplitByEop(p, j)
  PROVE  \A m \in ExtractJobs(p, j) : EopNum(p, m) = EopNum(p, j)
<1> DEFINE tree == LaunchTree(p, j)
           same == {k \in tree : EopNum(p, k) = EopNum(p, j)}
<1>1. p.launch \in [Job -> SUBSET Job]
  BY DEF ProgramType
<1>2. tree \subseteq Job /\ j \in tree /\ tree \subseteq Defined(p)
  BY LaunchTreeType DEF LaunchesMissing
<1>3. ClosedUnder(p.launch, tree)
  BY <1>1, ReachClosed DEF LaunchTree
<1>4. ClosedUnder(p.launch, same)
  <2>1. ASSUME NEW k \in same, NEW m \in p.launch[k]
        PROVE  m \in same
    <3>1. m \in tree
      BY <1>3, <2>1 DEF ClosedUnder
    <3>2. EopNum(p, k) = EopNum(p, m)
      BY <1>2, <2>1, <3>1 DEF LaunchesWithin
    <3>3. QED
      BY <2>1, <3>1, <3>2
  <2>2. QED
    BY <2>1 DEF ClosedUnder
<1>5. same \in SUBSET Job /\ {j} \subseteq same
  BY <1>2
<1>6. tree \subseteq same
  <2> HIDE DEF same
  <2>1. QED
    BY <1>1, <1>4, <1>5, ReachLeast DEF LaunchTree
<1>7. ASSUME NEW m \in ExtractJobs(p, j)
      PROVE  EopNum(p, m) = EopNum(p, j)
  <2>1. PICK k \in tree : m \in BarrierGroup(p, k)
    BY <1>7 DEF ExtractJobs
  <2>2. EopNum(p, m) = EopNum(p, k)
    BY <1>2, <2>1 DEF SplitByEop
  <2>3. QED
    BY <1>6, <2>1, <2>2
<1>8. QED
  BY <1>7

(* A step that passes an .eop leaves no page behind that is being filled.  *)
LEMMA PassesEop ==
  ASSUME TypeOK, [Next]_pvars
  PROVE  \/ cursor' = cursor
         \/ /\ cursor' = cursor + 1 /\ cursor \in DOMAIN prog.ids
            /\ Current = Eop => open' = <<>>
<1>1. prog.ids \in Seq(Job \cup {Eop, Eof}) /\ cursor \in Nat /\ cursor >= 1
  BY DEF TypeOK, ProgramType
<1>2. Looping => cursor \in DOMAIN prog.ids
  BY <1>1 DEF Looping
<1>3. CASE SkipJob
  BY <1>2, <1>3 DEF SkipJob, Advance
<1>4. CASE SkipEop
  BY <1>2, <1>4 DEF SkipEop, Advance
<1>5. CASE ConcludeAtEop
  BY <1>2, <1>5 DEF ConcludeAtEop, Advance, Refill
<1>6. CASE AddToPage
  BY <1>2, <1>6, PseudoJobs DEF AddToPage, Advance, NewJob
<1>7. CASE StartNextPage
  BY <1>2, <1>7, PseudoJobs DEF StartNextPage, Advance, NewJob
<1>8. CASE RejectJob \/ CrashOnJob \/ RejectNoEof
  BY <1>8, StopEffect
<1>9. CASE ConcludeLast \/ MarkLast \/ UNCHANGED pvars
  BY <1>9 DEF ConcludeLast, MarkLast, pvars
<1>10. QED
  BY <1>3, <1>4, <1>5, <1>6, <1>7, <1>8, <1>9 DEF Next, Pagify, Ended

LEMMA NewGroupHasNumber ==
  ASSUME TypeOK, NewJob, Extractable(Current), DefinedOnce(prog), LaunchesWithin(prog)
  PROVE  \A m \in Group(prog, Current).jobs :
           EopNum(prog, m) = Cardinality(EopsUpTo(prog, cursor - 1))
<1>1. /\ Current \in Job /\ Group(prog, Current).jobs = ExtractJobs(prog, Current)
      /\ prog \in ProgramType
  BY NewGroup DEF TypeOK
<1>2. ~ LaunchesMissing(prog, Current) /\ ~ SplitByEop(prog, Current)
  BY DEF Extractable, JobsExtracted
<1>3. \A m \in Group(prog, Current).jobs : EopNum(prog, m) = EopNum(prog, Current)
  BY <1>1, <1>2, GroupHasNumber
<1>4. prog.ids \in Seq(Job \cup {Eop, Eof}) /\ cursor \in Nat /\ cursor \in DOMAIN prog.ids
  BY DEF TypeOK, ProgramType, NewJob, Looping
<1>5. EopNum(prog, Current) = Cardinality(EopsUpTo(prog, cursor))
  BY <1>1, <1>4, EopNumIs DEF Current
<1>6. EopsUpTo(prog, cursor) = EopsUpTo(prog, cursor - 1)
  <2>1. prog.ids[cursor] # Eop
    BY <1>1, PseudoJobs DEF Current
  <2>2. \A i \in 1 .. cursor : i = cursor \/ i \in 1 .. cursor - 1
    BY <1>4
  <2>3. \A i \in 1 .. cursor - 1 : i \in 1 .. cursor
    BY <1>4
  <2>4. QED
    BY <2>1, <2>2, <2>3 DEF EopsUpTo
<1>7. QED
  BY <1>3, <1>5, <1>6

LEMMA EopsPassedKept ==
  ASSUME TypeOK, OpenFits, EopsPassed, [Next]_pvars
  PROVE  EopsPassed'
<1>1. prog' = prog
  BY ProgramFixed
<1> SUFFICES ASSUME DefinedOnce(prog), LaunchesWithin(prog)
             PROVE  /\ HaveNumber(open', Cardinality(EopsUpTo(prog, cursor' - 1)))
                    /\ \A i \in DOMAIN pages' : \E n : HaveNumber(pages'[i].groups, n)
  BY <1>1 DEF EopsPassed, HaveNumber
<1> DEFINE passed == Cardinality(EopsUpTo(prog, cursor - 1))
           passed2 == Cardinality(EopsUpTo(prog, cursor' - 1))
<1>2. HaveNumber(open, passed) /\ \A i \in DOMAIN pages : \E n : HaveNumber(pages[i].groups, n)
  BY DEF EopsPassed
<1>3. passed2 = passed \/ open' = <<>>
  <2>1. cursor \in Nat /\ cursor >= 1
    BY DEF TypeOK
  <2>2. CASE cursor' = cursor
    BY <2>2
  <2>3. CASE cursor' = cursor + 1 /\ Current # Eop
    <3>1. \A i \in 1 .. cursor : i = cursor \/ i \in 1 .. cursor - 1
      BY <2>1
    <3>2. \A i \in 1 .. cursor - 1 : i \in 1 .. cursor
      BY <2>1
    <3>3. EopsUpTo(prog, cursor) = EopsUpTo(prog, cursor - 1)
      BY <2>3, <3>1, <3>2 DEF EopsUpTo, Current
    <3>4. cursor' - 1 = cursor
      BY <2>1, <2>3
    <3>5. QED
      BY <3>3, <3>4
  <2>4. QED
    BY <2>2, <2>3, PassesEop
<1> HIDE DEF passed, passed2
<1>4. ASSUME NEW last \in BOOLEAN, Conclude(last), open # <<>>, NEW i \in DOMAIN pages'
      PROVE  \E n : HaveNumber(pages'[i].groups, n)
  BY <1>2, <1>4, ConcludedPage DEF HaveNumber
<1>5. HaveNumber(<<>>, passed2)
  BY DEF HaveNumber, JobsOf
<1>6. CASE SameContents
  <2>1. HaveNumber(open', passed2)
    BY <1>2, <1>3, <1>5, <1>6 DEF SameContents
  <2>2. QED
    BY <1>2, <1>6, <2>1 DEF SameContents, passed2
<1>7. CASE Adds
  <2>1. /\ NewJob /\ Extractable(Current) /\ pages' = pages
        /\ open' = Append(open, Group(prog, Current))
    BY <1>7 DEF Adds, KeepPages
  <2>2. JobsOf(open') = JobsOf(open) \cup Group(prog, Current).jobs
    BY <2>1, AppendedGroup
  <2>3. HaveNumber(open', passed)
    BY <1>2, <2>1, <2>2, NewGroupHasNumber DEF HaveNumber, passed
  <2>4. HaveNumber(open', passed2)
    BY <1>3, <1>5, <2>3
  <2>5. QED
    BY <1>2, <2>1, <2>4 DEF passed2
<1>8. CASE ShipsAndStarts
  <2>1. /\ NewJob /\ Extractable(Current) /\ Conclude(FALSE) /\ open # <<>>
        /\ open' = <<Group(prog, Current)>>
    BY <1>8 DEF ShipsAndStarts
  <2>2. JobsOf(open') = Group(prog, Current).jobs
    BY <2>1 DEF JobsOf
  <2>3. HaveNumber(open', passed)
    BY <2>1, <2>2, NewGroupHasNumber DEF HaveNumber, passed
  <2>4. HaveNumber(open', passed2)
    BY <1>3, <1>5, <2>3
  <2>5. QED
    BY <1>4, <2>1, <2>4 DEF passed2
<1>9. ASSUME NEW last \in BOOLEAN, Ships(last)
      PROVE  /\ HaveNumber(open', passed2)
             /\ \A i \in DOMAIN pages' : \E n : HaveNumber(pages'[i].groups, n)
  BY <1>4, <1>5, <1>9 DEF Ships
<1>10. QED
  BY <1>6, <1>7, <1>8, <1>9, Kinds DEF passed2

(* .eop ends the page, whatever barriers, labels and sizes there are: the  *)
(* jobs of a page stand between two .eop directives, in every program that *)
(* defines no job twice and launches none across an .eop.                  *)
THEOREM EopsEndPages == Spec => [](DefinedOnce(prog) => EopEndsPage)
<1>1. Init => EopsPassed
  <2>1. Init => open = <<>> /\ pages = <<>>
    BY DEF Init, Begin
  <2>2. QED
    BY <2>1 DEF EopsPassed, HaveNumber, JobsOf
<1>2. PagerInv /\ EopsPassed /\ [Next]_pvars => EopsPassed'
  BY EopsPassedKept DEF PagerInv
<1>3. EopsPassed => (DefinedOnce(prog) => EopEndsPage)
  <2> SUFFICES ASSUME EopsPassed, DefinedOnce(prog)
               PROVE  EopEndsPage
    OBVIOUS
  <2>1. CASE LaunchesWithin(prog)
    <3>1. ASSUME NEW i \in DOMAIN pages, NEW j, NEW k, OnPage(j, i), OnPage(k, i)
          PROVE  EopNum(prog, j) = EopNum(prog, k)
      <4>1. PICK n : HaveNumber(pages[i].groups, n)
        BY <2>1 DEF EopsPassed
      <4>2. QED
        BY <3>1, <4>1 DEF HaveNumber, OnPage
    <3>2. QED
      BY <3>1 DEF EopEndsPage
  <2>2. CASE ~ LaunchesWithin(prog)
    BY <2>2 DEF LaunchesWithin, EopEndsPage
  <2>3. QED
    BY <2>1, <2>2
<1>4. QED
  BY <1>1, <1>2, <1>3, PagerInvariant, PTL DEF Spec

-----------------------------------------------------------------------------
(***************************************************************************)
(* The pager keeps the promise of PageStream, for every set of programs    *)
(* and every page size: initial states map to initial states, every step   *)
(* to a step of the stream or to a stutter.                                *)
(***************************************************************************)
(* What the mapping of Pager shows of the pages: the jobs of every one.    *)
Contents == [i \in DOMAIN pages |-> JobsOf(pages[i].groups)]

OnPages == UNION {Contents[i] : i \in DOMAIN Contents}

-----------------------------------------------------------------------------
(* Groups bring jobs, and a page being filled with a group on it is not    *)
(* empty for the stream.                                                   *)
LEMMA OpenNotEmpty ==
  ASSUME TypeOK, AllSourced, open # <<>>
  PROVE  JobsOf(open) # {}
<1>1. open \in Seq(GroupType) /\ prog \in ProgramType
  BY DEF TypeOK
<1>2. 1 \in DOMAIN open
  BY <1>1
<1>3. PICK n \in 1 .. cursor - 1 : prog.ids[n] \in Job /\ open[1] = Group(prog, prog.ids[n])
  BY <1>2 DEF AllSourced, Sourced
<1>4. prog.ids[n] \in open[1].jobs
  BY <1>1, <1>3, GroupHasType, ExtractJobsType
<1>5. QED
  BY <1>2, <1>4 DEF JobsOf

LEMMA ContentsType ==
  ASSUME TypeOK
  PROVE  /\ Contents \in Seq(SUBSET Job) /\ Len(Contents) = Len(pages)
         /\ DOMAIN Contents = DOMAIN pages /\ JobsOf(open) \in SUBSET Job
<1>1. ASSUME NEW gs \in Seq(GroupType)
      PROVE  JobsOf(gs) \in SUBSET Job
  <2>1. \A a \in DOMAIN gs : gs[a] \in GroupType
    BY <1>1
  <2>2. QED
    BY <2>1 DEF JobsOf, GroupType
<1>2. pages \in Seq(PageType) /\ open \in Seq(GroupType)
  BY DEF TypeOK
<1>3. ASSUME NEW i \in DOMAIN pages
      PROVE  JobsOf(pages[i].groups) \in SUBSET Job
  <2>1. pages[i] \in PageType
    BY <1>2
  <2>2. pages[i].groups \in Seq(GroupType)
    BY <2>1 DEF PageType
  <2>3. QED
    BY <1>1, <2>2
<1>4. DOMAIN pages = 1 .. Len(pages) /\ Len(pages) \in Nat
  BY <1>2
<1>5. Contents \in [1 .. Len(pages) -> SUBSET Job]
  BY <1>3, <1>4 DEF Contents
<1>6. QED
  BY <1>1, <1>2, <1>4, <1>5

LEMMA ContentsSame ==
  ASSUME TypeOK, SameContents
  PROVE  Contents' = Contents /\ JobsOf(open)' = JobsOf(open)
<1>1. /\ open' = open /\ DOMAIN pages' = DOMAIN pages
      /\ \A i \in DOMAIN pages : pages'[i].groups = pages[i].groups
  BY DEF SameContents
<1>2. QED
  BY <1>1 DEF Contents, JobsOf

LEMMA ContentsShipped ==
  ASSUME TypeOK, NEW last \in BOOLEAN, Conclude(last), open # <<>>
  PROVE  Contents' = Append(Contents, JobsOf(open))
<1>1. /\ DOMAIN pages = 1 .. Len(pages) /\ DOMAIN pages' = 1 .. Len(pages) + 1
      /\ Len(pages) \in Nat
      /\ \A i \in 1 .. Len(pages) : pages'[i].groups = pages[i].groups
      /\ pages'[Len(pages) + 1].groups = open
  BY ConcludedContents
<1>2. Contents \in Seq(SUBSET Job) /\ Len(Contents) = Len(pages) /\ JobsOf(open) \in SUBSET Job
  BY ContentsType
<1> DEFINE longer == Append(Contents, JobsOf(open))
<1>3. /\ longer = [i \in 1 .. Len(pages) + 1 |-> longer[i]]
      /\ \A i \in 1 .. Len(pages) : longer[i] = Contents[i]
      /\ longer[Len(pages) + 1] = JobsOf(open)
  <2>1. ASSUME NEW c \in Seq(SUBSET Job), NEW J \in SUBSET Job
        PROVE  /\ Append(c, J) \in Seq(SUBSET Job)
               /\ Len(Append(c, J)) = Len(c) + 1
               /\ \A i \in 1 .. Len(c) : Append(c, J)[i] = c[i]
               /\ Append(c, J)[Len(c) + 1] = J
    OBVIOUS
  <2>2. longer \in Seq(SUBSET Job) /\ Len(longer) = Len(pages) + 1
    BY <1>2, <2>1
  <2>3. longer = [i \in 1 .. Len(longer) |-> longer[i]]
    <3> HIDE DEF longer
    <3>1. QED
      BY <2>2
  <2>4. QED
    BY <1>2, <2>1, <2>2, <2>3
<1>4. Contents' = [i \in 1 .. Len(pages) + 1 |-> JobsOf(pages'[i].groups)]
  BY <1>1 DEF Contents, JobsOf
<1>5. ASSUME NEW i \in 1 .. Len(pages) + 1
      PROVE  longer[i] = JobsOf(pages'[i].groups)
  <2>1. CASE i = Len(pages) + 1
    BY <1>1, <1>3, <2>1
  <2>2. CASE i # Len(pages) + 1
    <3>1. i \in 1 .. Len(pages)
      BY <1>1, <1>5, <2>2
    <3>2. QED
      BY <1>1, <1>3, <3>1 DEF Contents
  <2>3. QED
    BY <2>1, <2>2
<1> HIDE DEF longer
<1>6. Contents' = longer
  BY <1>3, <1>4, <1>5
<1>7. QED
  BY <1>6 DEF longer

-----------------------------------------------------------------------------
(* What the loop extracts for a job it has not placed yet is a group the   *)
(* stream takes: with all barrier peers, and with the job itself as new.   *)
LEMMA NewGroupPlaceable ==
  ASSUME TypeOK, Numbered, NewJob
  PROVE  /\ Group(prog, Current).jobs \in SUBSET Job
         /\ Stream!Placeable(Group(prog, Current).jobs)
<1> DEFINE S == Group(prog, Current).jobs
<1>1. /\ Current \in Job /\ prog \in ProgramType
      /\ S = ExtractJobs(prog, Current) /\ Group(prog, Current) \in GroupType
  BY NewGroup DEF TypeOK
<1>2. S \in SUBSET Job /\ Current \in S
  BY <1>1, ExtractJobsType
<1>3. \A j \in S : \A k \in Defined(prog) : prog.lbs[j] \cap prog.lbs[k] # {} => k \in S
  BY NewGroupClosed
<1> HIDE DEF S
<1>4. \A j \in S : BarrierPeers(prog)[j] \subseteq S
  BY <1>2, <1>3 DEF BarrierPeers
<1>5. Current \notin JobsOf(open) /\ \A i \in DOMAIN pages : Current \notin JobsOf(pages[i].groups)
  BY <1>1 DEF NewJob, Taken, Numbered
<1>6. Current \notin OnPages
  BY <1>5 DEF Contents, OnPages
<1>7. ~ S \subseteq OnPages \cup JobsOf(open)
  BY <1>2, <1>5, <1>6
<1>8. Stream!Placeable(S)
  BY <1>4, <1>7 DEF Stream!Placeable, Stream!Whole, Stream!Shipped, OnPages, Contents
<1>9. QED
  BY <1>2, <1>8 DEF S

(* When the loop has come to its end, every job of the source is on a page *)
(* or on the one being filled.                                             *)
LEMMA AllWantedPlaced ==
  ASSUME TypeOK, Handled, Recorded, NothingLeft
  PROVE  Defined(prog) \subseteq OnPages \cup JobsOf(open)
<1>1. SUFFICES ASSUME NEW j \in Defined(prog)
               PROVE  j \in OnPages \cup JobsOf(open)
  OBVIOUS
<1>2. PICK n \in DOMAIN prog.ids : prog.ids[n] = j
  BY DEF Defined
<1>3. j \in Job
  BY DEF Defined
<1>4. n \in 1 .. cursor - 1
  BY <1>2 DEF TypeOK, ProgramType, NothingLeft
<1>5. Taken(j)
  BY <1>2, <1>3, <1>4 DEF Handled
<1>6. CASE j \in JobsOf(open)
  BY <1>6
<1>7. CASE pageOf[j] # NoPage
  <2>1. PICK i \in DOMAIN pages : j \in JobsOf(pages[i].groups)
    BY <1>3, <1>7 DEF Recorded, OnPage
  <2>2. i \in DOMAIN Contents /\ j \in Contents[i]
    BY <2>1 DEF Contents
  <2>3. QED
    BY <2>2 DEF OnPages
<1>8. QED
  BY <1>5, <1>6, <1>7 DEF Taken

-----------------------------------------------------------------------------
LEMMA InitRefines == Init => Stream!Init
<1>1. SUFFICES ASSUME NEW p \in Programs, Begin(p, 0), pages = <<>>
               PROVE  Stream!Init
  BY DEF Init
<1>2. prog \in ProgramType /\ open = <<>> /\ status = "paging"
  BY <1>1, ProgramsAssumption DEF Begin
<1>3. Defined(prog) \in SUBSET Job /\ BarrierPeers(prog) \in [Job -> SUBSET Job]
  BY <1>2, PeersType DEF Defined
<1>4. [i \in DOMAIN pages |-> JobsOf(pages[i].groups)] = <<>>
  BY <1>1
<1>5. JobsOf(open) = {}
  BY <1>2 DEF JobsOf
<1>6. QED
  BY <1>2, <1>3, <1>4, <1>5 DEF Stream!Init

(* The steps of the stream, in terms of the mapped state.                  *)
LEMMA Stutters ==
  ASSUME prog' = prog, Contents' = Contents, JobsOf(open)' = JobsOf(open), status' = status
  PROVE  UNCHANGED Stream!svars
BY DEF Stream!svars, Contents

LEMMA PlacesAt ==
  ASSUME NEW S \in SUBSET Job, Stream!Placeable(S), status = "paging", status' = status,
         prog' = prog, Contents' = Contents, JobsOf(open)' = JobsOf(open) \cup S
  PROVE  Stream!Next
<1>1. Stream!Place(S)
  BY DEF Stream!Place, Stream!Streaming, Contents
<1>2. QED
  BY <1>1 DEF Stream!Next

LEMMA ShipsIt ==
  ASSUME status = "paging", status' = status, prog' = prog, JobsOf(open) # {},
         Contents' = Append(Contents, JobsOf(open)), JobsOf(open)' = {}
  PROVE  Stream!Next
<1>1. Stream!Ship
  BY DEF Stream!Ship, Stream!Streaming, Contents
<1>2. QED
  BY <1>1 DEF Stream!Next

LEMMA ShipsAndPlaces ==
  ASSUME NEW S \in SUBSET Job, Stream!Placeable(S), status = "paging", status' = status,
         prog' = prog, JobsOf(open) # {},
         Contents' = Append(Contents, JobsOf(open)), JobsOf(open)' = S
  PROVE  Stream!Next
<1>1. Stream!ShipAndPlace(S)
  BY DEF Stream!ShipAndPlace, Stream!Streaming, Contents
<1>2. QED
  BY <1>1 DEF Stream!Next

LEMMA Completes ==
  ASSUME status = "paging", status' = "done", prog' = prog,
         Defined(prog) \subseteq OnPages \cup JobsOf(open),
         Contents' = IF JobsOf(open) = {} THEN Contents ELSE Append(Contents, JobsOf(open)),
         JobsOf(open)' = {}
  PROVE  Stream!Next
<1>1. Stream!Complete
  BY DEF Stream!Complete, Stream!Streaming, Stream!Shipped, OnPages, Contents
<1>2. QED
  BY <1>1 DEF Stream!Next

LEMMA Fails ==
  ASSUME status = "paging", status' \in {"error", "crashed"}, prog' = prog,
         Contents' = Contents, JobsOf(open)' = JobsOf(open)
  PROVE  Stream!Next
<1>1. Stream!Fail
  BY DEF Stream!Fail, Stream!Streaming, Contents
<1>2. QED
  BY <1>1 DEF Stream!Next

-----------------------------------------------------------------------------
LEMMA StepRefines ==
  ASSUME TypeOK, OpenFits, AllSourced, Numbered, Handled, Recorded, [Next]_pvars
  PROVE  [Stream!Next]_(Stream!svars)
<1> DEFINE S == Group(prog, Current).jobs
<1>1. prog' = prog
  BY ProgramFixed
<1>2. Looping \/ NothingLeft => status = "paging"
  BY DEF Looping, NothingLeft
<1>3. UNCHANGED <<open, pageOf, pages>> => SameContents
  BY DEF SameContents
<1>4. CASE SkipJob \/ SkipEop \/ UNCHANGED pvars
  <2>1. SameContents /\ status' = status
    BY <1>3, <1>4 DEF SkipJob, SkipEop, Advance, KeepPages, pvars
  <2>2. QED
    BY <1>1, <2>1, ContentsSame, Stutters
<1>5. CASE RejectJob \/ CrashOnJob \/ RejectNoEof
  <2>1. SameContents /\ status' \in {"error", "crashed"}
    BY <1>3, <1>5, StopEffect
  <2>2. status = "paging"
    BY <1>2, <1>5 DEF RejectJob, CrashOnJob, RejectNoEof, NewJob
  <2>3. QED
    BY <1>1, <2>1, <2>2, ContentsSame, Fails
<1>6. CASE AddToPage
  <2>1. Adds
    BY <1>6, AddsToPage
  <2>2. NewJob /\ pages' = pages /\ status = "paging" /\ status' = status
        /\ open' = Append(open, Group(prog, Current))
    BY <1>2, <2>1 DEF Adds, KeepPages, Advance, NewJob
  <2>3. JobsOf(open') = JobsOf(open) \cup S
    BY <2>2, AppendedGroup
  <2>4. Contents' = Contents
    BY <2>2 DEF Contents, JobsOf
  <2>5. S \in SUBSET Job /\ Stream!Placeable(S)
    BY <2>2, NewGroupPlaceable
  <2> HIDE DEF S
  <2>6. JobsOf(open)' = JobsOf(open) \cup S
    BY <2>3 DEF JobsOf
  <2>7. QED
    BY <1>1, <2>2, <2>4, <2>5, <2>6, PlacesAt
<1>7. CASE StartNextPage
  <2>1. ShipsAndStarts
    BY <1>7, StartsBehindAPage
  <2>2. /\ NewJob /\ Conclude(FALSE) /\ open # <<>> /\ status = "paging" /\ status' = status
        /\ open' = <<Group(prog, Current)>>
    BY <1>2, <2>1 DEF ShipsAndStarts, Advance, NewJob
  <2>3. JobsOf(open)' = S
    BY <2>2 DEF JobsOf
  <2>4. Contents' = Append(Contents, JobsOf(open)) /\ JobsOf(open) # {}
    BY <2>2, ContentsShipped, OpenNotEmpty
  <2>5. S \in SUBSET Job /\ Stream!Placeable(S)
    BY <2>2, NewGroupPlaceable
  <2> HIDE DEF S
  <2>6. QED
    BY <1>1, <2>2, <2>3, <2>4, <2>5, ShipsAndPlaces
<1>8. CASE ConcludeAtEop
  <2>1. /\ Conclude(FALSE) /\ open # <<>> /\ open' = <<>>
        /\ status = "paging" /\ status' = status
    BY <1>2, <1>8 DEF ConcludeAtEop, Refill, Advance
  <2>2. JobsOf(open)' = {}
    BY <2>1 DEF JobsOf
  <2>3. Contents' = Append(Contents, JobsOf(open)) /\ JobsOf(open) # {}
    BY <2>1, ContentsShipped, OpenNotEmpty
  <2>4. QED
    BY <1>1, <2>1, <2>2, <2>3, ShipsIt
<1>9. CASE ConcludeLast
  <2>1. /\ NothingLeft /\ Conclude(TRUE) /\ open # <<>> /\ open' = <<>>
        /\ status = "paging" /\ status' = "done"
    BY <1>2, <1>9 DEF ConcludeLast, Refill
  <2>2. JobsOf(open)' = {}
    BY <2>1 DEF JobsOf
  <2>3. Contents' = Append(Contents, JobsOf(open)) /\ JobsOf(open) # {}
    BY <2>1, ContentsShipped, OpenNotEmpty
  <2>4. QED
    BY <1>1, <2>1, <2>2, <2>3, AllWantedPlaced, Completes
<1>10. CASE MarkLast
  <2>1. NothingLeft /\ open = <<>> /\ status = "paging" /\ status' = "done"
    BY <1>2, <1>10 DEF MarkLast
  <2>2. Contents' = Contents /\ JobsOf(open)' = JobsOf(open)
    BY <1>10, MarkLastKeeps, ContentsSame
  <2>3. JobsOf(open) = {}
    BY <2>1 DEF JobsOf
  <2>4. QED
    BY <1>1, <2>1, <2>2, <2>3, AllWantedPlaced, Completes
<1>11. QED
  BY <1>4, <1>5, <1>6, <1>7, <1>8, <1>9, <1>10 DEF Next, Pagify, Ended

(* Whatever the programs and the page size, what pagify does is a page     *)
(* stream: concluded pages never change, every group brings a new job and  *)
(* all its barrier peers, and it ends as complete only with every job of   *)
(* the source on a page.                                                   *)
THEOREM PagerIsStream == Spec => ImplementsStream
<1>1. StreamInv /\ [Next]_pvars => [Stream!Next]_(Stream!svars)
  BY StepRefines DEF StreamInv, PagerInv
<1>2. QED
  BY <1>1, InitRefines, StreamInvariant, PTL DEF Spec, ImplementsStream, Stream!Spec

-----------------------------------------------------------------------------
(* One label group behind the pages of the groups before it.              *)

(* The group g is what one of the first c - 1 entries of p pulls in, all   *)
(* of it defined, and no job before that entry is in it.                   *)
PulledIn(p, g, c) ==
  \E n \in 1 .. c - 1 :
    /\ p.ids[n] \in Job /\ g = Group(p, p.ids[n])
    /\ ~ LaunchesMissing(p, p.ids[n])
    /\ Nested(p) => \A m \in 1 .. n - 1 : p.ids[m] \in Job => p.ids[m] \notin g.jobs

Drawn(p, gs, c) ==
  /\ \A a \in DOMAIN gs : PulledIn(p, gs[a], c)
  /\ Nested(p) => GroupsApart(gs)

FirstAt(p, n) ==
  n \in DOMAIN p.ids /\ p.ids[n] \in Job /\ \A m \in 1 .. n - 1 : p.ids[m] \notin Job

Mine == rel + 1 .. Len(pages)

NumbersHere ==
  /\ pageIndex = Len(pages) /\ rel <= Len(pages)
  /\ \A i \in DOMAIN pages : pages[i].num = i - 1

ChainHere ==
  \A i \in Mine : pages[i].inorder = IF i < Len(pages) THEN pages[i + 1].len ELSE 0

DrawnHere ==
  Drawn(prog, open, cursor) /\ \A i \in Mine : Drawn(prog, pages[i].groups, cursor)

TrackedHere ==
  /\ \A i \in Mine : \A j \in JobsOf(pages[i].groups) : pageOf[j] # NoPage
  /\ \A j \in Job : pageOf[j] # NoPage => \E i \in Mine : OnPage(j, i)

FirstHere ==
  \A n \in DOMAIN prog.ids : FirstAt(prog, n) =>
    IF cursor <= n THEN open = <<>> /\ Len(pages) = rel
    ELSE IF Len(pages) = rel THEN prog.ids[n] \in JobsOf(open)
    ELSE OnPage(prog.ids[n], rel + 1)

Here ==
  /\ NumbersHere /\ ChainHere /\ DrawnHere /\ TrackedHere /\ FirstHere
  /\ Handled /\ Finished

GroupOn(p, lo, hi) ==
  /\ \A i \in lo + 1 .. hi : Drawn(p, pages[i].groups, Len(p.ids) + 1)
  /\ \A i \in lo + 1 .. hi : pages[i].inorder = IF i < hi THEN pages[i + 1].len ELSE 0
  /\ \A j \in Defined(p) : \E i \in lo + 1 .. hi : OnPage(j, i)
  /\ HasJobs(p) => lo < hi /\ OnPage(FirstJob(p), lo + 1)

-----------------------------------------------------------------------------
(* What a step of the pager does to the pages, with all that the column    *)
(* looks at; a mark on a last page is no part of it.                       *)
SamePage(i) ==
  /\ pages'[i].num = pages[i].num /\ pages'[i].groups = pages[i].groups
  /\ pages'[i].len = pages[i].len

Keeps ==
  /\ open' = open /\ pageOf' = pageOf /\ pageIndex' = pageIndex
  /\ Len(pages') = Len(pages)
  /\ \A i \in 1 .. Len(pages) : SamePage(i) /\ pages'[i].inorder = pages[i].inorder
  /\ cursor' = cursor \/ (cursor' = cursor + 1 /\ (Current \notin Job \/ Taken(Current)))

LEMMA PagesIndexed ==
  ASSUME TypeOK
  PROVE  /\ DOMAIN pages = 1 .. Len(pages) /\ Len(pages) \in Nat /\ rel \in Nat
         /\ cursor \in Nat /\ cursor >= 1 /\ pageIndex \in Nat
         /\ prog \in ProgramType /\ prog.ids \in Seq(Job \cup {Eop, Eof})
         /\ DOMAIN prog.ids = 1 .. Len(prog.ids) /\ Len(prog.ids) \in Nat
         /\ cursor <= Len(prog.ids) + 1
<1>1. pages \in Seq(PageType) /\ prog.ids \in Seq(Job \cup {Eop, Eof})
  BY DEF TypeOK, ProgramType
<1>2. QED
  BY <1>1 DEF TypeOK

LEMMA MarksOnly ==
  ASSUME TypeOK, NEW n \in Int, NEW i \in DOMAIN pages
  PROVE  LET p == [pages EXCEPT ![n] = AsLast(@)][i]
         IN  /\ p.num = pages[i].num /\ p.groups = pages[i].groups
             /\ p.len = pages[i].len /\ p.inorder = pages[i].inorder
<1>1. pages \in Seq(PageType) /\ pages[i] \in PageType
  BY DEF TypeOK
<1>2. /\ AsLast(pages[i]).num = pages[i].num /\ AsLast(pages[i]).groups = pages[i].groups
      /\ AsLast(pages[i]).len = pages[i].len /\ AsLast(pages[i]).inorder = pages[i].inorder
  BY <1>1 DEF AsLast, PageType
<1>3. [pages EXCEPT ![n] = AsLast(@)][i] = IF i = n THEN AsLast(pages[i]) ELSE pages[i]
  BY <1>1
<1>4. QED
  BY <1>2, <1>3

LEMMA MarkKeeps ==
  ASSUME TypeOK, MarkLast
  PROVE  Keeps
<1>1. /\ UNCHANGED <<open, pageOf, pageIndex, cursor>>
      /\ pages' = IF pageIndex - rel > 0
                  THEN [pages EXCEPT ![pageIndex - rel] = AsLast(@)] ELSE pages
  BY DEF MarkLast
<1>2. pages \in Seq(PageType) /\ pageIndex - rel \in Int
  BY DEF TypeOK
<1>3. Len(pages') = Len(pages)
  BY <1>1, <1>2
<1>4. ASSUME NEW i \in 1 .. Len(pages)
      PROVE  SamePage(i) /\ pages'[i].inorder = pages[i].inorder
  <2>1. CASE pageIndex - rel > 0
    BY <1>1, <1>2, <2>1, MarksOnly, PagesIndexed DEF SamePage
  <2>2. CASE ~ pageIndex - rel > 0
    BY <1>1, <2>2 DEF SamePage
  <2>3. QED
    BY <2>1, <2>2
<1>5. QED
  BY <1>1, <1>3, <1>4 DEF Keeps

LEMMA PagerKinds ==
  ASSUME TypeOK, OpenFits, [Next]_pvars
  PROVE  Keeps \/ Adds \/ ShipsAndStarts \/ \E last \in BOOLEAN : Ships(last)
<1>1. SkipJob \/ SkipEop => Keeps
  BY PseudoJobs DEF SkipJob, SkipEop, KeepPages, Advance, Keeps, SamePage
<1>2. UNCHANGED pvars => Keeps
  BY DEF pvars, Keeps, SamePage
<1>3. RejectJob \/ CrashOnJob \/ RejectNoEof => Keeps
  BY StopEffect DEF Keeps, SamePage
<1>4. ConcludeAtEop => Ships(FALSE)
  BY DEF ConcludeAtEop, Refill, Ships
<1>5. ConcludeLast => Ships(TRUE)
  BY DEF ConcludeLast, Refill, Ships
<1>6. QED
  BY <1>1, <1>2, <1>3, <1>4, <1>5, MarkKeeps, AddsToPage, StartsBehindAPage
     DEF Next, Pagify, Ended

LEMMA RelFixed ==
  ASSUME TypeOK, [Next]_pvars
  PROVE  rel' = rel
<1>1. RejectJob \/ CrashOnJob \/ RejectNoEof => rel' = rel
  BY StopEffect
<1>2. ConcludeLast \/ MarkLast \/ UNCHANGED pvars => rel' = rel
  BY DEF ConcludeLast, MarkLast, pvars
<1>3. SkipJob \/ SkipEop \/ ConcludeAtEop \/ AddToPage \/ StartNextPage => rel' = rel
  BY DEF SkipJob, SkipEop, ConcludeAtEop, AddToPage, StartNextPage, Advance
<1>4. QED
  BY <1>1, <1>2, <1>3 DEF Next, Pagify, Ended

(* A concluded page: what is new, and what the page before it learns.      *)
LEMMA PageConcluded ==
  ASSUME TypeOK, NEW last \in BOOLEAN, Conclude(last), open # <<>>
  PROVE  /\ Len(pages') = Len(pages) + 1 /\ pageIndex' = pageIndex + 1
         /\ \A i \in 1 .. Len(pages) :
              /\ SamePage(i)
              /\ pages'[i].inorder = IF i = Len(pages) /\ i > rel
                                     THEN pages'[Len(pages) + 1].len ELSE pages[i].inorder
         /\ pages'[Len(pages) + 1].num = pageIndex
         /\ pages'[Len(pages) + 1].groups = open
         /\ pages'[Len(pages) + 1].inorder = 0
         /\ pageOf' = [j \in Job |-> IF j \in JobsOf(open) THEN pageIndex ELSE pageOf[j]]
<1> DEFINE len == PageLength(tsize, dsize)
           k == Len(pages) + 1
<1>1. /\ pages' \in Seq(PageType)
      /\ Len(pages') = Len(pages) + 1
      /\ \A i \in 1 .. Len(pages) :
           pages'[i] = IF i = Len(pages) /\ i - 1 >= rel
                       THEN Announce(pages[i], len) ELSE pages[i]
      /\ pages'[k] = [num |-> pageIndex, groups |-> open, last |-> last,
                      len |-> len, inorder |-> 0]
      /\ pageOf' = [j \in Job |-> IF j \in JobsOf(open) THEN pageIndex ELSE pageOf[j]]
      /\ pageIndex' = pageIndex + 1
  BY ConcludeEffect
<1>2. pages \in Seq(PageType) /\ Len(pages) \in Nat /\ rel \in Nat
  BY DEF TypeOK
<1>6. len \in Nat
  BY LengthIsNat DEF TypeOK
<1> HIDE DEF len, k
<1>3. /\ pages'[k].num = pageIndex /\ pages'[k].groups = open
      /\ pages'[k].inorder = 0 /\ pages'[k].len = len
  BY <1>1
<1>4. ASSUME NEW i \in 1 .. Len(pages)
      PROVE  /\ SamePage(i)
             /\ pages'[i].inorder = IF i = Len(pages) /\ i > rel THEN len ELSE pages[i].inorder
  <2>1. pages[i] \in PageType
    BY <1>2
  <2> DEFINE a == Announce(pages[i], len)
  <2>2. /\ a.num = pages[i].num /\ a.groups = pages[i].groups
        /\ a.len = pages[i].len /\ a.inorder = len
    BY <2>1, <1>6 DEF Announce, PageType
  <2> HIDE DEF a
  <2>3. pages'[i] = IF i = Len(pages) /\ i - 1 >= rel THEN a ELSE pages[i]
    BY <1>1 DEF a
  <2>4. i - 1 >= rel <=> i > rel
    BY <1>2
  <2>5. QED
    BY <2>2, <2>3, <2>4 DEF SamePage
<1>5. QED
  BY <1>1, <1>3, <1>4 DEF k

LEMMA JobsAreJobs ==
  ASSUME NEW gs \in Seq(GroupType)
  PROVE  JobsOf(gs) \subseteq Job
<1>1. \A a \in DOMAIN gs : gs[a] \in GroupType
  OBVIOUS
<1>2. QED
  BY <1>1 DEF JobsOf, GroupType

LEMMA OpenJobs == TypeOK => JobsOf(open) \subseteq Job
BY JobsAreJobs DEF TypeOK

LEMMA PageJobs ==
  ASSUME TypeOK, NEW i \in 1 .. Len(pages)
  PROVE  JobsOf(pages[i].groups) \subseteq Job
<1>1. pages[i] \in PageType
  BY DEF TypeOK
<1>2. pages[i].groups \in Seq(GroupType)
  BY <1>1 DEF PageType
<1>3. QED
  BY <1>2, JobsAreJobs

(* Either the pages stay as they are, or the page being filled becomes the *)
(* last one of them.                                                       *)
LEMMA PagerPages ==
  ASSUME TypeOK, OpenFits, [Next]_pvars
  PROVE  \/ /\ Len(pages') = Len(pages) /\ pageIndex' = pageIndex
            /\ \A i \in 1 .. Len(pages) : SamePage(i) /\ pages'[i].inorder = pages[i].inorder
         \/ \E last \in BOOLEAN : Conclude(last) /\ open # <<>>
<1>1. Keeps \/ Adds \/ ShipsAndStarts \/ \E last \in BOOLEAN : Ships(last)
  BY PagerKinds
<1>2. Adds => UNCHANGED <<pages, pageIndex>>
  BY DEF Adds, KeepPages
<1>3. QED
  BY <1>1, <1>2 DEF Keeps, ShipsAndStarts, Ships, SamePage

LEMMA NumbersKept ==
  ASSUME TypeOK, OpenFits, NumbersHere, [Next]_pvars
  PROVE  NumbersHere'
<1>1. /\ DOMAIN pages = 1 .. Len(pages) /\ Len(pages) \in Nat /\ rel \in Nat
      /\ DOMAIN pages' = 1 .. Len(pages') /\ rel' = rel
  BY PagesIndexed, TypeKept, RelFixed DEF TypeOK
<1>2. CASE /\ Len(pages') = Len(pages) /\ pageIndex' = pageIndex
           /\ \A i \in 1 .. Len(pages) : SamePage(i) /\ pages'[i].inorder = pages[i].inorder
  BY <1>1, <1>2 DEF NumbersHere, SamePage
<1>3. ASSUME NEW last \in BOOLEAN, Conclude(last), open # <<>>
      PROVE  NumbersHere'
  <2>1. /\ Len(pages') = Len(pages) + 1 /\ pageIndex' = pageIndex + 1
        /\ \A i \in 1 .. Len(pages) : SamePage(i)
        /\ pages'[Len(pages) + 1].num = pageIndex
    BY <1>3, PageConcluded
  <2>2. QED
    BY <1>1, <2>1 DEF NumbersHere, SamePage
<1>4. QED
  BY <1>2, <1>3, PagerPages

LEMMA ChainKept ==
  ASSUME TypeOK, OpenFits, NumbersHere, ChainHere, [Next]_pvars
  PROVE  ChainHere'
<1>1. /\ Len(pages) \in Nat /\ rel \in Nat /\ rel' = rel /\ rel <= Len(pages)
  BY PagesIndexed, RelFixed DEF NumbersHere
<1>2. CASE /\ Len(pages') = Len(pages) /\ pageIndex' = pageIndex
           /\ \A i \in 1 .. Len(pages) : SamePage(i) /\ pages'[i].inorder = pages[i].inorder
  BY <1>1, <1>2 DEF ChainHere, Mine, SamePage
<1>3. ASSUME NEW last \in BOOLEAN, Conclude(last), open # <<>>
      PROVE  ChainHere'
  <2>1. /\ Len(pages') = Len(pages) + 1
        /\ \A i \in 1 .. Len(pages) :
             /\ SamePage(i)
             /\ pages'[i].inorder = IF i = Len(pages) /\ i > rel
                                    THEN pages'[Len(pages) + 1].len ELSE pages[i].inorder
        /\ pages'[Len(pages) + 1].inorder = 0
    BY <1>3, PageConcluded
  <2>2. SUFFICES ASSUME NEW i \in rel + 1 .. Len(pages) + 1
                 PROVE  pages'[i].inorder = IF i < Len(pages) + 1 THEN pages'[i + 1].len ELSE 0
    BY <1>1, <2>1 DEF ChainHere, Mine
  <2>3. CASE i = Len(pages) + 1
    BY <2>1, <2>3
  <2>4. CASE i = Len(pages)
    BY <1>1, <2>1, <2>2, <2>4
  <2>5. CASE i < Len(pages)
    <3>1. i \in Mine /\ i \in 1 .. Len(pages) /\ i + 1 \in 1 .. Len(pages)
      BY <1>1, <2>2, <2>5 DEF Mine
    <3>2. pages[i].inorder = pages[i + 1].len
      BY <2>5, <3>1 DEF ChainHere
    <3>3. pages'[i + 1].len = pages[i + 1].len /\ pages'[i].inorder = pages[i].inorder
      BY <1>1, <2>1, <2>5, <3>1 DEF SamePage
    <3>4. QED
      BY <1>1, <2>5, <3>2, <3>3
  <2>6. QED
    BY <1>1, <2>2, <2>3, <2>4, <2>5
<1>4. QED
  BY <1>2, <1>3, PagerPages

-----------------------------------------------------------------------------
(* Who is on a page of the group has its number, and the other way round.  *)
LEMMA TrackedKept ==
  ASSUME TypeOK, OpenFits, NumbersHere, TrackedHere, [Next]_pvars
  PROVE  TrackedHere'
<1>1. /\ Len(pages) \in Nat /\ rel \in Nat /\ rel' = rel /\ rel <= Len(pages)
      /\ pageIndex \in Nat
  BY PagesIndexed, RelFixed DEF NumbersHere
<1>2. CASE Keeps
  BY <1>1, <1>2 DEF Keeps, SamePage, TrackedHere, Mine, OnPage
<1>3. CASE Adds
  BY <1>1, <1>3 DEF Adds, KeepPages, TrackedHere, Mine, OnPage
<1>4. ASSUME NEW last \in BOOLEAN, Conclude(last), open # <<>>
      PROVE  TrackedHere'
  <2>1. /\ Len(pages') = Len(pages) + 1
        /\ \A i \in 1 .. Len(pages) : pages'[i].groups = pages[i].groups
        /\ pages'[Len(pages) + 1].groups = open
        /\ pageOf' = [j \in Job |-> IF j \in JobsOf(open) THEN pageIndex ELSE pageOf[j]]
    BY <1>4, PageConcluded DEF SamePage
  <2>2. pageIndex # NoPage
    BY <1>1 DEF NoPage
  <2>3. JobsOf(open) \subseteq Job
    BY OpenJobs
  <2>4. ASSUME NEW i \in rel + 1 .. Len(pages) + 1, NEW j \in JobsOf(pages'[i].groups)
        PROVE  pageOf'[j] # NoPage
    <3>1. CASE i = Len(pages) + 1
      BY <2>1, <2>2, <2>3, <2>4, <3>1
    <3>2. CASE i # Len(pages) + 1
      <4>1. i \in Mine /\ j \in JobsOf(pages[i].groups)
        BY <1>1, <2>1, <2>4, <3>2 DEF Mine
      <4>2. pageOf[j] # NoPage /\ j \in Job
        BY <1>1, <4>1, PageJobs DEF TrackedHere, Mine
      <4>3. QED
        BY <2>1, <2>2, <4>2
    <3>3. QED
      BY <3>1, <3>2
  <2>5. ASSUME NEW j \in Job, pageOf'[j] # NoPage
        PROVE  \E i \in rel + 1 .. Len(pages) + 1 : j \in JobsOf(pages'[i].groups)
    <3>1. CASE j \in JobsOf(open)
      BY <1>1, <2>1, <3>1
    <3>2. CASE j \notin JobsOf(open)
      <4>1. PICK i \in Mine : OnPage(j, i)
        BY <2>1, <2>5, <3>2 DEF TrackedHere
      <4>2. QED
        BY <1>1, <2>1, <4>1 DEF Mine, OnPage
    <3>3. QED
      BY <3>1, <3>2
  <2>6. QED
    BY <1>1, <2>1, <2>4, <2>5 DEF TrackedHere, Mine, OnPage
<1>5. QED
  BY <1>2, <1>3, <1>4, PagerKinds DEF ShipsAndStarts, Ships

-----------------------------------------------------------------------------
(* Where the groups of the page being filled, and of the pages of this     *)
(* label group, come from.                                                 *)
LEMMA DrawnLonger ==
  ASSUME NEW p, NEW gs, NEW c \in Nat, NEW d \in Nat, c <= d, Drawn(p, gs, c)
  PROVE  Drawn(p, gs, d)
<1>1. 1 .. c - 1 \subseteq 1 .. d - 1
  BY LongerRange
<1>2. QED
  BY <1>1 DEF Drawn, PulledIn

LEMMA DrawnSourced ==
  ASSUME NEW gs, Drawn(prog, gs, cursor)
  PROVE  Sourced(gs)
BY DEF Drawn, PulledIn, Sourced

(* Where what two jobs pull in is nested, a job the loop meets for the     *)
(* first time brings a group of its own: nothing in it is on a page, or    *)
(* stands before it in the source.                                         *)
LEMMA NewGroupFresh ==
  ASSUME TypeOK, NewJob, Handled, TrackedHere, DrawnHere, Nested(prog)
  PROVE  /\ Group(prog, Current).jobs \cap JobsOf(open) = {}
         /\ \A m \in 1 .. cursor - 1 :
              prog.ids[m] \in Job => prog.ids[m] \notin Group(prog, Current).jobs
<1>1. Current \in Job /\ ~ Taken(Current)
  BY NewGroup DEF NewJob
<1>2. Group(prog, Current).jobs \cap JobsOf(open) = {}
  <2>1. Current \notin JobsOf(open) /\ Sourced(open)
    BY <1>1, DrawnSourced DEF Taken, DrawnHere
  <2>2. QED
    BY <2>1, NewGroupApart
<1>3. ASSUME NEW i \in Mine
      PROVE  Group(prog, Current).jobs \cap JobsOf(pages[i].groups) = {}
  <2>1. Sourced(pages[i].groups)
    BY <1>3, DrawnSourced DEF DrawnHere
  <2>2. Current \notin JobsOf(pages[i].groups)
    BY <1>1, <1>3 DEF Taken, TrackedHere
  <2>3. QED
    BY <2>1, <2>2, NewGroupApart
<1>4. ASSUME NEW m \in 1 .. cursor - 1, prog.ids[m] \in Job
      PROVE  prog.ids[m] \notin Group(prog, Current).jobs
  <2>1. Taken(prog.ids[m])
    BY <1>4 DEF Handled
  <2>2. CASE prog.ids[m] \in JobsOf(open)
    BY <1>2, <2>2
  <2>3. CASE pageOf[prog.ids[m]] # NoPage
    <3>1. PICK i \in Mine : OnPage(prog.ids[m], i)
      BY <1>4, <2>3 DEF TrackedHere
    <3>2. QED
      BY <1>3, <3>1 DEF OnPage
  <2>4. QED
    BY <2>1, <2>2, <2>3 DEF Taken
<1>5. QED
  BY <1>2, <1>4

LEMMA NewGroupDrawn ==
  ASSUME TypeOK, NewJob, Extractable(Current), Handled, TrackedHere, DrawnHere
  PROVE  PulledIn(prog, Group(prog, Current), cursor + 1)
<1>1. cursor \in 1 .. cursor + 1 - 1
  BY PagesIndexed
<1>2. Current = prog.ids[cursor] /\ Current \in Job
  BY NewGroup DEF Current
<1>3. Nested(prog) => \A m \in 1 .. cursor - 1 :
        prog.ids[m] \in Job => prog.ids[m] \notin Group(prog, Current).jobs
  BY NewGroupFresh
<1>4. ~ LaunchesMissing(prog, Current)
  BY DEF Extractable, JobsExtracted
<1>5. QED
  BY <1>1, <1>2, <1>3, <1>4 DEF PulledIn

LEMMA OneGroupDrawn ==
  ASSUME TypeOK, NewJob, Extractable(Current), Handled, TrackedHere, DrawnHere
  PROVE  Drawn(prog, <<Group(prog, Current)>>, cursor + 1)
<1> DEFINE g == Group(prog, Current)
<1>1. PulledIn(prog, g, cursor + 1)
  BY NewGroupDrawn
<1> HIDE DEF g
<1>2. ASSUME NEW a \in DOMAIN <<g>> PROVE a = 1 /\ <<g>>[a] = g
  BY <1>2
<1>3. GroupsApart(<<g>>)
  BY <1>2 DEF GroupsApart
<1>4. \A a \in DOMAIN <<g>> : PulledIn(prog, <<g>>[a], cursor + 1)
  BY <1>1, <1>2
<1>5. QED
  BY <1>3, <1>4 DEF Drawn, g

LEMMA MoreGroupsDrawn ==
  ASSUME TypeOK, Adds, Handled, TrackedHere, DrawnHere
  PROVE  Drawn(prog, open', cursor + 1)
<1> DEFINE g == Group(prog, Current)
<1>1. NewJob /\ Extractable(Current) /\ open' = Append(open, g)
  BY DEF Adds
<1>2. PulledIn(prog, g, cursor + 1)
  BY <1>1, NewGroupDrawn
<1>3. /\ DOMAIN open = 1 .. Len(open) /\ Len(open) \in Nat
      /\ DOMAIN open' = 1 .. Len(open) + 1
      /\ open'[Len(open) + 1] = g
      /\ \A a \in 1 .. Len(open) : open'[a] = open[a]
  BY <1>1, AppendedGroup
<1>4. cursor \in Nat
  BY PagesIndexed
<1>5. Drawn(prog, open, cursor + 1)
  BY <1>4, DrawnLonger DEF DrawnHere
<1>6. Nested(prog) => g.jobs \cap JobsOf(open) = {}
  BY <1>1, NewGroupFresh
<1> HIDE DEF g
<1>7. ASSUME NEW a \in DOMAIN open'
      PROVE  PulledIn(prog, open'[a], cursor + 1)
  <2>1. CASE a = Len(open) + 1
    <3>1. open'[a] = g
      BY <1>3, <2>1
    <3>2. QED
      BY <1>2, <3>1
  <2>2. CASE a \in 1 .. Len(open)
    <3>1. open'[a] = open[a] /\ a \in DOMAIN open
      BY <1>3, <2>2
    <3>2. QED
      BY <1>5, <3>1 DEF Drawn
  <2>3. QED
    BY <1>3, <2>1, <2>2
<1>8. ASSUME Nested(prog), NEW a \in DOMAIN open', NEW b \in DOMAIN open', a # b
      PROVE  open'[a].jobs \cap open'[b].jobs = {}
  <2>1. GroupsApart(open)
    BY <1>5, <1>8 DEF Drawn
  <2>2. \A c \in DOMAIN open : open[c].jobs \subseteq JobsOf(open)
    BY DEF JobsOf
  <2>3. CASE a = Len(open) + 1
    <3>1. b \in 1 .. Len(open) /\ open'[a] = g
      BY <1>3, <1>8, <2>3
    <3>2. b \in DOMAIN open /\ open'[b] = open[b]
      BY <1>3, <3>1
    <3>3. QED
      BY <1>6, <1>8, <2>2, <3>1, <3>2
  <2>4. CASE b = Len(open) + 1
    <3>1. a \in 1 .. Len(open) /\ open'[b] = g
      BY <1>3, <1>8, <2>4
    <3>2. a \in DOMAIN open /\ open'[a] = open[a]
      BY <1>3, <3>1
    <3>3. QED
      BY <1>6, <1>8, <2>2, <3>1, <3>2
  <2>5. CASE a \in 1 .. Len(open) /\ b \in 1 .. Len(open)
    BY <1>3, <1>8, <2>1, <2>5 DEF GroupsApart
  <2>6. QED
    BY <1>3, <2>3, <2>4, <2>5
<1>9. Nested(prog) => GroupsApart(open')
  BY <1>8 DEF GroupsApart
<1>10. QED
  BY <1>7, <1>9 DEF Drawn

LEMMA NothingDrawn ==
  ASSUME NEW p, NEW c
  PROVE  Drawn(p, <<>>, c)
BY DEF Drawn, GroupsApart

LEMMA DrawnPrimed ==
  ASSUME prog' = prog, Drawn(prog, open', cursor'),
         \A i \in rel' + 1 .. Len(pages') : Drawn(prog, pages'[i].groups, cursor')
  PROVE  DrawnHere'
<1>1. ASSUME NEW gs, Drawn(prog, gs, cursor')
      PROVE  Drawn(prog', gs, cursor')
  BY <1>1
<1>2. QED
  BY <1>1 DEF DrawnHere, Mine

LEMMA DrawnKept ==
  ASSUME TypeOK, OpenFits, NumbersHere, Handled, TrackedHere, DrawnHere, [Next]_pvars
  PROVE  DrawnHere'
<1>1. /\ Len(pages) \in Nat /\ rel \in Nat /\ rel' = rel /\ rel <= Len(pages)
      /\ prog' = prog /\ cursor \in Nat /\ cursor' \in Nat /\ cursor <= cursor'
  BY PagesIndexed, RelFixed, ProgramFixed, CursorGrows DEF NumbersHere
<1>2. \A gs : Drawn(prog, gs, cursor) => Drawn(prog, gs, cursor')
  BY <1>1, DrawnLonger
<1>3. \A i \in Mine : Drawn(prog, pages[i].groups, cursor')
  BY <1>2 DEF DrawnHere
<1>4. Drawn(prog, open, cursor')
  BY <1>2 DEF DrawnHere
<1>5. CASE Keeps
  <2>1. /\ open' = open /\ Len(pages') = Len(pages)
        /\ \A i \in 1 .. Len(pages) : pages'[i].groups = pages[i].groups
    BY <1>5 DEF Keeps, SamePage
  <2>2. \A i \in rel' + 1 .. Len(pages') : Drawn(prog, pages'[i].groups, cursor')
    BY <1>1, <1>3, <2>1 DEF Mine
  <2>3. QED
    BY <1>1, <1>4, <2>1, <2>2, DrawnPrimed
<1>6. CASE Adds
  <2>1. pages' = pages /\ cursor' = cursor + 1
    BY <1>6 DEF Adds, KeepPages, Advance
  <2>2. Drawn(prog, open', cursor')
    BY <1>6, <2>1, MoreGroupsDrawn
  <2>3. \A i \in rel' + 1 .. Len(pages') : Drawn(prog, pages'[i].groups, cursor')
    BY <1>1, <1>3, <2>1 DEF Mine
  <2>4. QED
    BY <1>1, <2>2, <2>3, DrawnPrimed
<1>7. ASSUME NEW last \in BOOLEAN, Conclude(last), open # <<>>
      PROVE  \A i \in rel' + 1 .. Len(pages') : Drawn(prog, pages'[i].groups, cursor')
  <2>1. /\ Len(pages') = Len(pages) + 1
        /\ \A i \in 1 .. Len(pages) : pages'[i].groups = pages[i].groups
        /\ pages'[Len(pages) + 1].groups = open
    BY <1>7, PageConcluded DEF SamePage
  <2>2. ASSUME NEW i \in rel' + 1 .. Len(pages')
        PROVE  (i \in Mine /\ pages'[i].groups = pages[i].groups) \/ pages'[i].groups = open
    BY <1>1, <2>1 DEF Mine
  <2>3. QED
    BY <1>3, <1>4, <2>2
<1>8. CASE ShipsAndStarts
  <2>1. /\ NewJob /\ cursor' = cursor + 1 /\ open' = <<Group(prog, Current)>>
        /\ Extractable(Current) /\ Conclude(FALSE) /\ open # <<>>
    BY <1>8 DEF ShipsAndStarts, Advance
  <2>2. Drawn(prog, open', cursor')
    BY <2>1, OneGroupDrawn
  <2>3. \A i \in rel' + 1 .. Len(pages') : Drawn(prog, pages'[i].groups, cursor')
    BY <1>7, <2>1
  <2>4. QED
    BY <1>1, <2>2, <2>3, DrawnPrimed
<1>9. ASSUME NEW last \in BOOLEAN, Ships(last)
      PROVE  DrawnHere'
  <2>1. Conclude(last) /\ open # <<>> /\ open' = <<>>
    BY <1>9 DEF Ships
  <2>2. Drawn(prog, open', cursor')
    BY <2>1, NothingDrawn
  <2>3. QED
    BY <1>1, <1>7, <2>1, <2>2, DrawnPrimed
<1>10. QED
  BY <1>5, <1>6, <1>8, <1>9, PagerKinds

LEMMA LeastPlace ==
  ASSUME NEW S \in SUBSET Nat, S # {}
  PROVE  \E n \in S : \A m \in S : n <= m
<1>1. PICK x \in S : \A y \in S : ~ (<<y, x>> \in OpToRel(<, Nat))
  BY NatLessThanWellFounded, WFMin
<1>2. \A y \in S : ~ y < x
  BY <1>1 DEF OpToRel
<1>3. \A y \in S : y \in Nat /\ x \in Nat
  OBVIOUS
<1>4. \A y \in S : x <= y
  BY <1>2, <1>3
<1>5. QED
  BY <1>4

-----------------------------------------------------------------------------
(* The first job of the group: before it nothing is placed, from then on   *)
(* it is on the first page of the group, or on the one being filled.       *)
LEMMA FirstPrimed ==
  ASSUME prog' = prog,
         \A n \in DOMAIN prog.ids : FirstAt(prog, n) =>
           IF cursor' <= n THEN open' = <<>> /\ Len(pages') = rel'
           ELSE IF Len(pages') = rel' THEN prog.ids[n] \in JobsOf(open')
           ELSE prog.ids[n] \in JobsOf(pages'[rel' + 1].groups)
  PROVE  FirstHere'
BY DEF FirstHere, FirstAt, OnPage

LEMMA FirstKept ==
  ASSUME TypeOK, OpenFits, NumbersHere, TrackedHere, FirstHere, [Next]_pvars
  PROVE  FirstHere'
<1>1. /\ Len(pages) \in Nat /\ rel \in Nat /\ rel' = rel /\ rel <= Len(pages)
      /\ prog' = prog /\ cursor \in Nat /\ cursor' \in Nat /\ cursor <= cursor'
      /\ DOMAIN prog.ids = 1 .. Len(prog.ids) /\ Len(prog.ids) \in Nat
  BY PagesIndexed, RelFixed, ProgramFixed, CursorGrows DEF NumbersHere
<1>2. SUFFICES ASSUME NEW n \in DOMAIN prog.ids, FirstAt(prog, n)
               PROVE  IF cursor' <= n THEN open' = <<>> /\ Len(pages') = rel
                      ELSE IF Len(pages') = rel THEN prog.ids[n] \in JobsOf(open')
                      ELSE prog.ids[n] \in JobsOf(pages'[rel + 1].groups)
  BY <1>1, FirstPrimed
<1>3. n \in Nat /\ prog.ids[n] \in Job /\ \A m \in 1 .. n - 1 : prog.ids[m] \notin Job
  BY <1>1, <1>2 DEF FirstAt
<1>4. /\ cursor <= n => open = <<>> /\ Len(pages) = rel
      /\ cursor > n /\ Len(pages) = rel => prog.ids[n] \in JobsOf(open)
      /\ cursor > n /\ Len(pages) # rel => prog.ids[n] \in JobsOf(pages[rel + 1].groups)
  BY <1>1, <1>2, <1>3 DEF FirstHere, OnPage
<1>5. ASSUME cursor <= n, Current \in Job
      PROVE  cursor = n /\ ~ Taken(Current)
  <2>1. cursor = n
    BY <1>1, <1>3, <1>5, PagesIndexed DEF Current
  <2>2. JobsOf(open) = {}
    BY <1>4, <1>5 DEF JobsOf
  <2>3. Mine = {}
    BY <1>1, <1>4, <1>5 DEF Mine
  <2>4. QED
    BY <1>5, <2>1, <2>2, <2>3 DEF Taken, TrackedHere
<1>6. CASE Keeps
  <2>1. /\ open' = open /\ Len(pages') = Len(pages)
        /\ \A i \in 1 .. Len(pages) : pages'[i].groups = pages[i].groups
        /\ cursor' = cursor \/ (cursor' = cursor + 1 /\ (Current \notin Job \/ Taken(Current)))
    BY <1>6 DEF Keeps, SamePage
  <2>2. CASE cursor > n
    BY <1>1, <1>3, <1>4, <2>1, <2>2
  <2>3. CASE cursor <= n
    <3>1. cursor' = cursor + 1 => cursor # n
      BY <1>3, <1>5, <2>1, <2>3 DEF Current
    <3>2. cursor' <= n
      BY <1>1, <1>3, <2>1, <2>3, <3>1
    <3>3. QED
      BY <1>4, <2>1, <2>3, <3>2
  <2>4. QED
    BY <1>1, <1>3, <2>2, <2>3
<1>7. CASE Adds
  <2> DEFINE g == Group(prog, Current)
  <2>1. /\ NewJob /\ pages' = pages /\ cursor' = cursor + 1 /\ open' = Append(open, g)
    BY <1>7 DEF Adds, KeepPages, Advance
  <2>2. JobsOf(open') = JobsOf(open) \cup g.jobs /\ Current \in Job
    BY <2>1, AppendedGroup, NewGroup
  <2>3. Current \in g.jobs
    BY <2>1, NewGroup, ExtractJobsType DEF TypeOK
  <2> HIDE DEF g
  <2>4. CASE cursor > n
    BY <1>1, <1>3, <1>4, <2>1, <2>2, <2>4
  <2>5. CASE cursor <= n
    <3>1. cursor = n /\ Len(pages) = rel
      BY <1>4, <1>5, <2>2, <2>5
    <3>2. prog.ids[n] \in JobsOf(open')
      BY <2>2, <2>3, <3>1 DEF Current
    <3>3. QED
      BY <1>1, <1>3, <2>1, <3>1, <3>2
  <2>6. QED
    BY <1>1, <1>3, <2>4, <2>5
<1>8. ASSUME NEW last \in BOOLEAN, Conclude(last), open # <<>>
      PROVE  IF cursor' <= n THEN open' = <<>> /\ Len(pages') = rel
             ELSE IF Len(pages') = rel THEN prog.ids[n] \in JobsOf(open')
             ELSE prog.ids[n] \in JobsOf(pages'[rel + 1].groups)
  <2>1. /\ Len(pages') = Len(pages) + 1
        /\ \A i \in 1 .. Len(pages) : pages'[i].groups = pages[i].groups
        /\ pages'[Len(pages) + 1].groups = open
    BY <1>8, PageConcluded DEF SamePage
  <2>2. cursor > n /\ cursor' > n /\ Len(pages') # rel
    BY <1>1, <1>3, <1>4, <1>8, <2>1
  <2>3. CASE Len(pages) = rel
    BY <1>1, <1>3, <1>4, <2>1, <2>2, <2>3
  <2>4. CASE Len(pages) # rel
    <3>1. rel + 1 \in 1 .. Len(pages)
      BY <1>1, <2>4
    <3>2. QED
      BY <1>1, <1>3, <1>4, <2>1, <2>2, <2>4, <3>1
  <2>5. QED
    BY <2>3, <2>4
<1>9. QED
  BY <1>6, <1>7, <1>8, PagerKinds DEF ShipsAndStarts, Ships

-----------------------------------------------------------------------------
LEMMA TrackedRecorded ==
  ASSUME TypeOK, TrackedHere
  PROVE  Recorded
BY PagesIndexed DEF TrackedHere, Mine, Recorded

LEMMA HereKept ==
  ASSUME TypeOK, OpenFits, Here, [Next]_pvars
  PROVE  Here'
<1>1. NumbersHere /\ ChainHere /\ DrawnHere /\ TrackedHere /\ FirstHere /\ Handled /\ Finished
  BY DEF Here
<1>2. Handled' /\ Finished'
  BY <1>1, TrackedRecorded, HandledKept
<1>3. NumbersHere' /\ ChainHere' /\ TrackedHere'
  BY <1>1, NumbersKept, ChainKept, TrackedKept
<1>4. DrawnHere' /\ FirstHere'
  BY <1>1, DrawnKept, FirstKept
<1>5. QED
  BY <1>2, <1>3, <1>4 DEF Here

LEMMA FirstUnique ==
  ASSUME NEW p \in ProgramType, HasJobs(p)
  PROVE  \E n \in DOMAIN p.ids : FirstAt(p, n) /\ FirstJob(p) = p.ids[n]
<1> DEFINE IsFirst(n) == p.ids[n] \in Job /\ \A m \in 1 .. n - 1 : p.ids[m] \notin Job
           Places == {n \in DOMAIN p.ids : p.ids[n] \in Job}
<1>1. p.ids \in Seq(Job \cup {Eop, Eof}) /\ DOMAIN p.ids = 1 .. Len(p.ids) /\ Len(p.ids) \in Nat
  BY DEF ProgramType
<1>2. Places # {} /\ Places \subseteq Nat
  BY <1>1 DEF HasJobs, Defined
<1>3. PICK n \in Places : \A m \in Places : n <= m
  BY <1>2, LeastPlace
<1>4. n \in DOMAIN p.ids /\ IsFirst(n)
  BY <1>1, <1>3
<1>5. \E k \in DOMAIN p.ids : IsFirst(k)
  BY <1>4
<1> DEFINE f == CHOOSE k \in DOMAIN p.ids : IsFirst(k)
<1>6. f \in DOMAIN p.ids /\ IsFirst(f)
  BY <1>5
<1>7. FirstJob(p) = p.ids[f]
  BY DEF FirstJob
<1>8. QED
  BY <1>6, <1>7 DEF FirstAt

(* When the pager is done with a group, its pages hold it.                 *)
LEMMA GroupDone ==
  ASSUME TypeOK, Here, status = "done"
  PROVE  GroupOn(prog, rel, Len(pages))
<1>1. /\ Len(pages) \in Nat /\ rel \in Nat /\ rel <= Len(pages)
      /\ prog \in ProgramType
      /\ DOMAIN prog.ids = 1 .. Len(prog.ids) /\ Len(prog.ids) \in Nat
  BY PagesIndexed DEF Here, NumbersHere
<1>2. cursor = Len(prog.ids) + 1 /\ open = <<>>
  BY DEF Here, Finished
<1>3. JobsOf(open) = {}
  BY <1>2 DEF JobsOf
<1>4. \A i \in rel + 1 .. Len(pages) : Drawn(prog, pages[i].groups, Len(prog.ids) + 1)
  BY <1>2 DEF Here, DrawnHere, Mine
<1>5. \A i \in rel + 1 .. Len(pages) :
        pages[i].inorder = IF i < Len(pages) THEN pages[i + 1].len ELSE 0
  BY DEF Here, ChainHere, Mine
<1>6. ASSUME NEW j \in Defined(prog)
      PROVE  \E i \in rel + 1 .. Len(pages) : OnPage(j, i)
  <2>1. PICK n \in DOMAIN prog.ids : prog.ids[n] = j /\ j \in Job
    BY DEF Defined
  <2>2. n \in 1 .. cursor - 1
    BY <1>1, <1>2
  <2>3. Taken(j)
    BY <2>1, <2>2 DEF Here, Handled
  <2>4. QED
    BY <1>3, <2>1, <2>3 DEF Taken, Here, TrackedHere, Mine
<1>7. ASSUME HasJobs(prog)
      PROVE  rel < Len(pages) /\ OnPage(FirstJob(prog), rel + 1)
  <2>1. PICK n \in DOMAIN prog.ids : FirstAt(prog, n) /\ FirstJob(prog) = prog.ids[n]
    BY <1>1, <1>7, FirstUnique
  <2>2. ~ cursor <= n
    BY <1>1, <1>2
  <2>3. Len(pages) # rel
    BY <1>3, <2>1, <2>2 DEF Here, FirstHere
  <2>4. OnPage(FirstJob(prog), rel + 1)
    BY <2>1, <2>2, <2>3 DEF Here, FirstHere
  <2>5. QED
    BY <1>1, <2>3, <2>4
<1>8. QED
  BY <1>4, <1>5, <1>6, <1>7 DEF GroupOn

-----------------------------------------------------------------------------
(***************************************************************************)
(* The column.  Group g begins behind Began(g) pages and ends where the    *)
(* next one begins; while it is being paged its beginning is rel, later    *)
(* it is the page index recorded for its label.                            *)
(***************************************************************************)
Settled == stage # "groups" /\ status = "done"

Began(g) == IF g = group /\ ~ Settled THEN rel ELSE labelPage[column.labels[g]]

Behind(g) == IF g < group THEN Began(g + 1) ELSE Len(pages)

PagesBy(g) == Began(g) + 1 .. Behind(g)

Paged(g) == g < group \/ Settled

Divided ==
  /\ \A g \in 1 .. group : Began(g) \in Nat /\ Began(g) <= Len(pages)
  /\ \A g, h \in 1 .. group : g <= h => Began(g) <= Began(h)
  /\ \A i \in DOMAIN pages : \E g \in 1 .. group : i \in PagesBy(g)

Grouped == \A g \in 1 .. group : Paged(g) => GroupOn(column.progs[g], Began(g), Behind(g))

(* The branches resolved so far announce the first pages of their groups.  *)
BranchesHere ==
  /\ ooo # <<>> => Settled
  /\ \A i \in DOMAIN ooo : \A l \in DOMAIN ooo[i] :
       /\ l \in DOMAIN labelPage
       /\ labelPage[l] < Len(pages) => ooo[i][l] = pages[labelPage[l] + 1].len

Stages == {"groups", "pads", "branches", "encoding", "filling", "done", "error", "crashed"}

ColumnTypeOK ==
  /\ TypeOK
  /\ column \in Columns /\ group \in 1 .. Len(column.progs)
  /\ labelPage \in [{column.labels[g] : g \in Groups} -> Nat]
  /\ padOffset \in Seq(Nat) /\ Len(padOffset) <= Len(column.pads) /\ padSize \in Nat
  /\ ooo \in Seq(UNION {[S -> Nat \cup Garbage] : S \in SUBSET PageLabel})
  /\ Len(ooo) <= Len(pages)
  /\ encoded \in 0 .. Len(pages)
  /\ filled \in Seq(Nat) /\ Len(filled) <= Len(column.pads)
  /\ stage \in Stages

ColumnInv ==
  /\ ColumnTypeOK /\ OpenFits /\ PageFits
  /\ ~ Settled => prog = column.progs[group] /\ Here
  /\ Settled => group = Len(column.progs)
  /\ AllPaged => Settled
  /\ PageNumbers /\ Divided /\ Grouped /\ BranchesHere

-----------------------------------------------------------------------------
(* The column is well formed, and its variables have their types.          *)
LEMMA ColumnFacts ==
  ASSUME column \in Columns
  PROVE  /\ column.progs \in Seq(ProgramType) /\ Len(column.progs) \in Nat
         /\ DOMAIN column.progs = 1 .. Len(column.progs) /\ Len(column.progs) >= 1
         /\ Groups = 1 .. Len(column.progs)
         /\ \A g \in 1 .. Len(column.progs) : column.progs[g] \in ProgramType
         /\ column.labels \in Seq(PageLabel)
         /\ DOMAIN column.labels = 1 .. Len(column.progs)
         /\ \A g, h \in 1 .. Len(column.progs) : g # h => column.labels[g] # column.labels[h]
         /\ column.pads \in Seq(Nat)
<1>1. /\ column.progs \in Seq(ProgramType) /\ column.progs # <<>>
      /\ column.labels \in Seq(PageLabel) /\ Len(column.labels) = Len(column.progs)
      /\ column.pads \in Seq(Nat)
      /\ \A g, h \in DOMAIN column.labels : g # h => column.labels[g] # column.labels[h]
  BY ColumnsAssumption
<1>2. /\ DOMAIN column.progs = 1 .. Len(column.progs) /\ Len(column.progs) \in Nat
      /\ DOMAIN column.labels = 1 .. Len(column.labels)
      /\ Len(column.progs) >= 1
      /\ \A g \in 1 .. Len(column.progs) : column.progs[g] \in ProgramType
  BY <1>1
<1>3. QED
  BY <1>1, <1>2 DEF Groups

LEMMA PagerStep ==
  ASSUME PageGroup
  PROVE  [Next]_pvars /\ UNCHANGED cvars /\ stage = "groups"
BY DEF PageGroup, Next

LEMMA BegunType ==
  ASSUME NEW p \in ProgramType, NEW n \in Nat, Restart(p, n)
  PROVE  /\ prog' \in ProgramType /\ rel' \in Nat
         /\ cursor' \in 1 .. Len(prog'.ids) + 1
         /\ open' \in Seq(GroupType)
         /\ tsize' \in Nat /\ dsize' \in Nat
         /\ pageOf' \in [Job -> Nat \cup {NoPage}]
         /\ pageIndex' \in Nat
         /\ status' \in {"paging", "done", "error", "crashed"}
<1>1. p.ids \in Seq(Job \cup {Eop, Eof})
  BY DEF ProgramType
<1>2. 1 \in 1 .. Len(p.ids) + 1
  BY <1>1
<1>3. QED
  BY <1>2 DEF Restart

LEMMA RoundUpNat ==
  ASSUME NEW n \in Nat
  PROVE  RoundUp(n) \in Nat
BY DEF RoundUp, WORD_SIZE

(* The labels a page names as targets are labels of groups.                *)
LEMMA TargetsAreLabels ==
  ASSUME TypeOK, NEW i \in 1 .. Len(pages)
  PROVE  Targets(pages[i]) \subseteq PageLabel
<1>1. pages[i] \in PageType
  BY DEF TypeOK
<1>2. pages[i].groups \in Seq(GroupType)
  BY <1>1 DEF PageType
<1>3. \A a \in DOMAIN pages[i].groups : pages[i].groups[a] \in GroupType
  BY <1>2
<1>4. QED
  BY <1>3 DEF Targets, GroupType

LEMMA AppendType ==
  ASSUME NEW S, NEW s \in Seq(S), NEW v \in S
  PROVE  /\ Append(s, v) \in Seq(S) /\ Len(Append(s, v)) = Len(s) + 1
         /\ DOMAIN Append(s, v) = 1 .. Len(s) + 1 /\ Len(s) \in Nat
         /\ \A i \in 1 .. Len(s) : Append(s, v)[i] = s[i]
         /\ Append(s, v)[Len(s) + 1] = v
OBVIOUS

LEMMA Appended ==
  ASSUME NEW S, NEW s \in Seq(S), NEW v
  PROVE  /\ DOMAIN s = 1 .. Len(s) /\ Len(s) \in Nat
         /\ DOMAIN Append(s, v) = 1 .. Len(s) + 1
         /\ \A i \in 1 .. Len(s) : Append(s, v)[i] = s[i]
         /\ Append(s, v)[Len(s) + 1] = v
OBVIOUS

LEMMA LengthsOnPages ==
  ASSUME TypeOK, NEW n \in Nat, n < Len(pages)
  PROVE  pages[n + 1].len \in Nat
<1>1. n + 1 \in DOMAIN pages
  BY PagesIndexed
<1>2. pages[n + 1] \in PageType
  BY <1>1 DEF TypeOK
<1>3. QED
  BY <1>2 DEF PageType

LEMMA LabelPageUpdated ==
  ASSUME ColumnTypeOK
  PROVE  LET lp == [labelPage EXCEPT ![column.labels[group]] = rel]
         IN  /\ lp \in [{column.labels[g] : g \in Groups} -> Nat]
             /\ lp[column.labels[group]] = rel
             /\ \A g \in Groups : g # group => lp[column.labels[g]] = labelPage[column.labels[g]]
<1> DEFINE L == {column.labels[g] : g \in Groups}
           l == column.labels[group]
<1>1. /\ labelPage \in [L -> Nat] /\ rel \in Nat /\ column \in Columns
      /\ group \in 1 .. Len(column.progs)
  BY DEF ColumnTypeOK, TypeOK
<1>2. /\ Groups = 1 .. Len(column.progs)
      /\ \A g, h \in 1 .. Len(column.progs) : g # h => column.labels[g] # column.labels[h]
  BY <1>1, ColumnFacts
<1>3. l \in L /\ \A g \in Groups : column.labels[g] \in L
  BY <1>1, <1>2
<1>4. \A g \in Groups : g # group => column.labels[g] # l
  BY <1>1, <1>2
<1> HIDE DEF L, l
<1>5. [labelPage EXCEPT ![l] = rel] \in [L -> Nat]
  BY <1>1, <1>3
<1>6. \A m \in L : [labelPage EXCEPT ![l] = rel][m] = IF m = l THEN rel ELSE labelPage[m]
  BY <1>1
<1>7. QED
  BY <1>3, <1>4, <1>5, <1>6 DEF L, l

-----------------------------------------------------------------------------
(* Steps other than those that page a group leave pages and groups alone.  *)
Aside ==
  /\ UNCHANGED <<pvars, column, group, labelPage>>
  /\ Settled' <=> Settled

LayOut == PlacePad \/ PadsPlaced

Branch == ResolveBranches \/ RejectBranches \/ CrashOnBranch \/ BranchesResolved

Encode == EncodePage \/ RejectPage \/ PagesEncoded

Fill == FillPad \/ PadsFilled

LEMMA ColumnSteps ==
  ASSUME [ColumnNext]_vars
  PROVE  \/ PageGroup \/ NextGroup \/ LastGroup \/ GroupFails
         \/ LayOut \/ Branch \/ Encode \/ Fill \/ UNCHANGED vars
BY DEF ColumnNext, Assemble, Assembled, LayOut, Branch, Encode, Fill

LEMMA AsideSteps ==
  ASSUME GroupFails \/ LayOut \/ Branch \/ Encode \/ Fill \/ UNCHANGED vars
  PROVE  /\ Aside
         /\ AllPaged' => AllPaged
<1>1. CASE GroupFails
  <2>1. UNCHANGED <<pvars, column, group, labelPage>>
    BY <1>1 DEF GroupFails
  <2>2. ~ Settled /\ ~ Settled' /\ ~ AllPaged'
    BY <1>1, <2>1 DEF GroupFails, Settled, AllPaged, pvars
  <2>3. QED
    BY <2>1, <2>2 DEF Aside
<1>2. CASE LayOut
  BY <1>2 DEF LayOut, PlacePad, PadsPlaced, Aside, Settled, AllPaged, pvars
<1>3. CASE Branch
  <2>1. UNCHANGED <<pvars, column, group, labelPage>> /\ stage = "branches" /\ stage' # "groups"
    BY <1>3 DEF Branch, ResolveBranches, RejectBranches, CrashOnBranch, BranchesResolved,
                Branching
  <2>2. QED
    BY <2>1 DEF Aside, Settled, AllPaged, pvars
<1>4. CASE Encode
  <2>1. UNCHANGED <<pvars, column, group, labelPage>> /\ stage = "encoding" /\ stage' # "groups"
    BY <1>4 DEF Encode, EncodePage, RejectPage, PagesEncoded, Encoding
  <2>2. QED
    BY <2>1 DEF Aside, Settled, AllPaged, pvars
<1>5. CASE Fill
  <2>1. UNCHANGED <<pvars, column, group, labelPage>> /\ stage = "filling" /\ stage' # "groups"
    BY <1>5 DEF Fill, FillPad, PadsFilled
  <2>2. QED
    BY <2>1 DEF Aside, Settled, AllPaged, pvars
<1>6. CASE UNCHANGED vars
  BY <1>6 DEF vars, cvars, Aside, Settled, AllPaged, pvars
<1>7. QED
  BY <1>1, <1>2, <1>3, <1>4, <1>5, <1>6

LEMMA AsideTypes ==
  ASSUME TypeOK, UNCHANGED pvars
  PROVE  TypeOK'
BY DEF TypeOK, pvars

LEMMA ColumnTypePrimed ==
  ASSUME TypeOK', ColumnTypeOK, column' = column,
         group' \in 1 .. Len(column.progs),
         labelPage' \in [{column.labels[g] : g \in Groups} -> Nat],
         UNCHANGED <<padOffset, padSize, ooo, encoded, filled>>,
         Len(pages) <= Len(pages'), stage' \in Stages
  PROVE  ColumnTypeOK'
<1> DEFINE T == UNION {[S -> Nat \cup Garbage] : S \in SUBSET PageLabel}
<1>1. pages \in Seq(PageType) /\ pages' \in Seq(PageType) /\ ooo \in Seq(T)
  BY DEF ColumnTypeOK, TypeOK
<1> HIDE DEF T
<1>4. Len(pages) \in Nat /\ Len(pages') \in Nat /\ Len(ooo) \in Nat
  BY <1>1
<1>2. Len(ooo) <= Len(pages') /\ encoded \in 0 .. Len(pages')
  BY <1>4 DEF ColumnTypeOK
<1>3. QED
  BY <1>2 DEF ColumnTypeOK, Groups

LEMMA ColumnTypeInitially == ColumnInit => ColumnTypeOK
<1>1. SUFFICES ASSUME ColumnInit PROVE ColumnTypeOK
  OBVIOUS
<1>2. column \in Columns
  BY <1>1 DEF ColumnInit
<1>3. /\ Groups = 1 .. Len(column.progs) /\ Len(column.progs) \in Nat
      /\ 1 \in 1 .. Len(column.progs)
      /\ column.progs[1] \in ProgramType
      /\ column.pads \in Seq(Nat)
  BY <1>2, ColumnFacts
<1>4. /\ prog = column.progs[1] /\ rel = 0 /\ cursor = 1 /\ open = <<>>
      /\ tsize = 0 /\ dsize = 0 /\ pageOf = [j \in Job |-> NoPage]
      /\ pageIndex = 0 /\ status = "paging" /\ pages = <<>>
  BY <1>1 DEF ColumnInit, Begin
<1>5. prog.ids \in Seq(Job \cup {Eop, Eof})
  BY <1>3, <1>4 DEF ProgramType
<1>6. 1 \in 1 .. Len(prog.ids) + 1
  BY <1>5
<1>7. TypeOK
  BY <1>3, <1>4, <1>6 DEF TypeOK
<1>8. labelPage \in [{column.labels[g] : g \in Groups} -> Nat]
  BY <1>1 DEF ColumnInit
<1>9. /\ padOffset = <<>> /\ padSize = 0 /\ ooo = <<>> /\ encoded = 0 /\ filled = <<>>
      /\ stage = "groups" /\ group = 1
  BY <1>1 DEF ColumnInit
<1>10. padOffset \in Seq(Nat) /\ filled \in Seq(Nat)
       /\ ooo \in Seq(UNION {[S -> Nat \cup Garbage] : S \in SUBSET PageLabel})
  BY <1>9
<1>11. QED
  BY <1>2, <1>3, <1>4, <1>7, <1>8, <1>9, <1>10 DEF ColumnTypeOK, Stages

LEMMA ColumnTypeKept ==
  ASSUME ColumnTypeOK, OpenFits, [ColumnNext]_vars
  PROVE  ColumnTypeOK'
<1>1. /\ TypeOK /\ column \in Columns /\ group \in 1 .. Len(column.progs) /\ rel \in Nat
      /\ Len(pages) \in Nat
      /\ labelPage \in [{column.labels[g] : g \in Groups} -> Nat]
  BY DEF ColumnTypeOK, TypeOK
<1>2. /\ Groups = 1 .. Len(column.progs) /\ Len(column.progs) \in Nat
      /\ \A g \in 1 .. Len(column.progs) : column.progs[g] \in ProgramType
      /\ column.pads \in Seq(Nat)
  BY <1>1, ColumnFacts
<1>3. CASE PageGroup
  <2>1. [Next]_pvars /\ UNCHANGED cvars
    BY <1>3, PagerStep
  <2>2. TypeOK'
    BY <1>1, <2>1, TypeKept
  <2>3. Len(pages) <= Len(pages')
    BY <1>1, <2>1, PagerPages, PageConcluded
  <2>4. QED
    BY <1>1, <2>1, <2>2, <2>3, ColumnTypePrimed DEF cvars, ColumnTypeOK
<1>4. ASSUME labelPage' = [labelPage EXCEPT ![column.labels[group]] = rel]
      PROVE  labelPage' \in [{column.labels[g] : g \in Groups} -> Nat]
  BY <1>4, LabelPageUpdated
<1>5. CASE NextGroup
  <2>1. /\ group < Len(column.progs) /\ group' = group + 1
        /\ Restart(column.progs[group + 1], Len(pages))
        /\ labelPage' = [labelPage EXCEPT ![column.labels[group]] = rel]
        /\ UNCHANGED <<pages, column, padOffset, padSize, ooo, encoded, filled, stage>>
    BY <1>5 DEF NextGroup
  <2>2. group + 1 \in 1 .. Len(column.progs)
    BY <1>1, <1>2, <2>1
  <2>3. TypeOK'
    BY <1>1, <1>2, <2>1, <2>2, BegunType DEF TypeOK
  <2>4. /\ labelPage' \in [{column.labels[g] : g \in Groups} -> Nat]
        /\ group' \in 1 .. Len(column.progs) /\ Len(pages) <= Len(pages')
    BY <1>1, <1>4, <2>1, <2>2
  <2>5. stage' \in Stages
    BY <2>1 DEF ColumnTypeOK
  <2>6. QED
    BY <2>1, <2>3, <2>4, <2>5, ColumnTypePrimed
<1>6. CASE LastGroup
  <2>1. /\ labelPage' = [labelPage EXCEPT ![column.labels[group]] = rel]
        /\ rel' = Len(pages) /\ stage' = "pads"
        /\ UNCHANGED <<prog, cursor, open, tsize, dsize, pageOf, pageIndex, pages, status>>
        /\ UNCHANGED <<column, group, padOffset, padSize, ooo, encoded, filled>>
    BY <1>6 DEF LastGroup
  <2>2. TypeOK'
    BY <1>1, <2>1 DEF TypeOK
  <2>3. QED
    BY <1>1, <1>4, <2>1, <2>2, ColumnTypePrimed DEF Stages
<1>7. ASSUME GroupFails \/ LayOut \/ Branch \/ Encode \/ Fill \/ UNCHANGED vars
      PROVE  TypeOK' /\ UNCHANGED <<pages, column, group, labelPage>>
  BY <1>1, <1>7, AsideSteps, AsideTypes DEF Aside, pvars
<1>8. CASE GroupFails
  <2>1. stage' \in Stages /\ UNCHANGED <<padOffset, padSize, ooo, encoded, filled>>
    BY <1>8 DEF GroupFails, Stages
  <2>2. QED
    BY <1>1, <1>7, <1>8, <2>1, ColumnTypePrimed
<1>9. CASE LayOut
  <2>1. CASE PlacePad
    <3>1. /\ Len(padOffset) < Len(column.pads) /\ stage' = stage
          /\ padOffset' = Append(padOffset, RoundUp(padSize))
          /\ padSize' = RoundUp(padSize) + column.pads[Len(padOffset) + 1]
          /\ UNCHANGED <<ooo, encoded, filled>>
      BY <2>1 DEF PlacePad
    <3>2. RoundUp(padSize) \in Nat /\ padOffset \in Seq(Nat)
      BY RoundUpNat DEF ColumnTypeOK
    <3>3. column.pads[Len(padOffset) + 1] \in Nat
      BY <1>2, <3>1, <3>2
    <3>4. padOffset' \in Seq(Nat) /\ Len(padOffset') = Len(padOffset) + 1
          /\ Len(padOffset) \in Nat
      BY <3>1, <3>2, AppendType
    <3>5. padSize' \in Nat /\ Len(padOffset') <= Len(column.pads)
      BY <1>2, <3>1, <3>2, <3>3, <3>4
    <3>6. QED
      BY <1>7, <1>9, <3>1, <3>4, <3>5 DEF ColumnTypeOK, Groups
  <2>2. CASE PadsPlaced
    BY <1>1, <1>7, <1>9, <2>2, ColumnTypePrimed DEF PadsPlaced, Stages
  <2>3. QED
    BY <1>9, <2>1, <2>2 DEF LayOut
<1>10. CASE Branch
  <2>1. CASE ResolveBranches
    <3> DEFINE n == Len(ooo)
               T == Targets(pages[n + 1])
    <3>1. PICK garbage \in Garbage : ooo' = Append(ooo, [l \in T |->
            IF labelPage[l] < Len(pages) THEN pages[labelPage[l] + 1].len ELSE garbage])
      BY <2>1 DEF ResolveBranches, BranchPage
    <3>2. /\ n < Len(pages) /\ T \subseteq DOMAIN labelPage /\ n \in Nat
          /\ ooo \in Seq(UNION {[S -> Nat \cup Garbage] : S \in SUBSET PageLabel})
      BY <2>1 DEF ResolveBranches, Branching, BranchesValid, BranchPage, ColumnTypeOK
    <3>3. n + 1 \in 1 .. Len(pages)
      BY <1>1, <3>2
    <3>4. T \in SUBSET PageLabel
      BY <1>1, <3>3, TargetsAreLabels
    <3>5. \A l \in T : labelPage[l] \in Nat
      BY <1>1, <3>2
    <3> HIDE DEF T
    <3>6. \A l \in T : labelPage[l] < Len(pages) => pages[labelPage[l] + 1].len \in Nat
      BY <1>1, <3>5, LengthsOnPages
    <3> DEFINE f == [l \in T |->
                       IF labelPage[l] < Len(pages) THEN pages[labelPage[l] + 1].len ELSE garbage]
    <3>7. f \in [T -> Nat \cup Garbage]
      BY <3>1, <3>6
    <3>8. f \in UNION {[S -> Nat \cup Garbage] : S \in SUBSET PageLabel}
      BY <3>4, <3>7
    <3> HIDE DEF f
    <3>9. ooo' = Append(ooo, f)
      BY <3>1 DEF f
    <3>10. /\ ooo' \in Seq(UNION {[S -> Nat \cup Garbage] : S \in SUBSET PageLabel})
           /\ Len(ooo') = n + 1
      BY <3>2, <3>8, <3>9, AppendType
    <3>11. n + 1 <= Len(pages)
      BY <1>1, <3>3
    <3>12. UNCHANGED <<padOffset, padSize, encoded, filled, stage>>
      BY <2>1 DEF ResolveBranches
    <3>13. QED
      BY <1>7, <1>10, <3>10, <3>11, <3>12 DEF ColumnTypeOK, Groups
  <2>2. CASE RejectBranches \/ CrashOnBranch \/ BranchesResolved
    <3>1. stage' \in Stages /\ UNCHANGED <<padOffset, padSize, ooo, encoded, filled>>
      BY <2>2 DEF RejectBranches, CrashOnBranch, BranchesResolved, Stages
    <3>2. QED
      BY <1>1, <1>7, <1>10, <3>1, ColumnTypePrimed
  <2>3. QED
    BY <1>10, <2>1, <2>2 DEF Branch
<1>11. CASE Encode
  <2>1. CASE EncodePage
    <3>1. encoded' = encoded + 1 /\ encoded < Len(pages)
          /\ UNCHANGED <<padOffset, padSize, ooo, filled, stage>>
      BY <2>1 DEF EncodePage, Encoding
    <3>2. encoded' \in 0 .. Len(pages)
      BY <1>1, <3>1 DEF ColumnTypeOK
    <3>3. QED
      BY <1>7, <1>11, <3>1, <3>2 DEF ColumnTypeOK, Groups
  <2>2. CASE RejectPage \/ PagesEncoded
    <3>1. stage' \in Stages /\ UNCHANGED <<padOffset, padSize, ooo, encoded, filled>>
      BY <2>2 DEF RejectPage, PagesEncoded, Stages
    <3>2. QED
      BY <1>1, <1>7, <1>11, <3>1, ColumnTypePrimed
  <2>3. QED
    BY <1>11, <2>1, <2>2 DEF Encode
<1>12. CASE Fill
  <2>1. CASE FillPad
    <3>1. /\ Len(filled) < Len(column.pads) /\ filled' = Append(filled, Written)
          /\ UNCHANGED <<padOffset, padSize, ooo, encoded, stage>>
      BY <2>1 DEF FillPad
    <3>2. filled \in Seq(Nat)
      BY DEF ColumnTypeOK
    <3>3. Written \in Nat
      <4>1. CASE filled = <<>>
        BY <4>1 DEF Written
      <4>2. CASE filled # <<>>
        <5>1. Len(filled) \in 1 .. Len(column.pads) /\ filled[Len(filled)] \in Nat
          BY <1>2, <3>1, <3>2, <4>2
        <5>2. column.pads[Len(filled)] \in Nat
          BY <1>2, <5>1
        <5>3. QED
          BY <4>2, <5>1, <5>2 DEF Written
      <4>3. QED
        BY <4>1, <4>2
    <3>4. filled' \in Seq(Nat) /\ Len(filled') = Len(filled) + 1 /\ Len(filled) \in Nat
      BY <3>1, <3>2, <3>3, AppendType
    <3>5. Len(filled') <= Len(column.pads)
      BY <1>2, <3>1, <3>4
    <3>6. QED
      BY <1>7, <1>12, <3>1, <3>4, <3>5 DEF ColumnTypeOK, Groups
  <2>2. CASE PadsFilled
    BY <1>1, <1>7, <1>12, <2>2, ColumnTypePrimed DEF PadsFilled, Stages
  <2>3. QED
    BY <1>12, <2>1, <2>2 DEF Fill
<1>13. CASE UNCHANGED vars
  <2>1. stage' \in Stages /\ UNCHANGED <<padOffset, padSize, ooo, encoded, filled>>
    BY <1>13 DEF vars, cvars, ColumnTypeOK
  <2>2. QED
    BY <1>1, <1>7, <1>13, <2>1, ColumnTypePrimed
<1>14. QED
  BY <1>3, <1>5, <1>6, <1>8, <1>9, <1>10, <1>11, <1>12, <1>13, ColumnSteps

-----------------------------------------------------------------------------
(* The pages of a group stay what they are while later ones are added.     *)
StaysPage(i) == SamePage(i) /\ pages'[i].inorder = pages[i].inorder

LEMMA GroupOnStays ==
  ASSUME NEW p, NEW lo \in Nat, NEW hi \in Nat, GroupOn(p, lo, hi),
         \A i \in 1 .. hi : StaysPage(i)
  PROVE  GroupOn(p, lo, hi)'
<1>1. ASSUME NEW i \in lo + 1 .. hi
      PROVE  /\ pages'[i].groups = pages[i].groups /\ pages'[i].inorder = pages[i].inorder
             /\ i < hi => pages'[i + 1].len = pages[i + 1].len
  BY <1>1 DEF StaysPage, SamePage
<1>2. \A i \in lo + 1 .. hi : Drawn(p, pages'[i].groups, Len(p.ids) + 1)
  BY <1>1 DEF GroupOn
<1>3. \A i \in lo + 1 .. hi : pages'[i].inorder = IF i < hi THEN pages'[i + 1].len ELSE 0
  BY <1>1 DEF GroupOn
<1>4. \A j \in Defined(p) : \E i \in lo + 1 .. hi : j \in JobsOf(pages'[i].groups)
  BY <1>1 DEF GroupOn, OnPage
<1>5. HasJobs(p) => lo < hi /\ FirstJob(p) \in JobsOf(pages'[lo + 1].groups)
  <2>1. lo < hi => lo + 1 \in lo + 1 .. hi
    OBVIOUS
  <2>2. QED
    BY <1>1, <2>1 DEF GroupOn, OnPage
<1>6. QED
  BY <1>2, <1>3, <1>4, <1>5 DEF GroupOn, OnPage

(* A step of the pager leaves the pages of the groups before alone.        *)
LEMMA EarlierStay ==
  ASSUME TypeOK, OpenFits, NumbersHere, [Next]_pvars
  PROVE  /\ \A i \in 1 .. rel : StaysPage(i)
         /\ Len(pages') \in Nat /\ Len(pages) <= Len(pages')
<1>1. Len(pages) \in Nat /\ rel \in Nat /\ rel <= Len(pages)
  BY PagesIndexed DEF NumbersHere
<1>2. CASE /\ Len(pages') = Len(pages) /\ pageIndex' = pageIndex
           /\ \A i \in 1 .. Len(pages) : SamePage(i) /\ pages'[i].inorder = pages[i].inorder
  BY <1>1, <1>2 DEF StaysPage
<1>3. ASSUME NEW last \in BOOLEAN, Conclude(last), open # <<>>
      PROVE  /\ \A i \in 1 .. rel : StaysPage(i)
             /\ Len(pages') \in Nat /\ Len(pages) <= Len(pages')
  <2>1. /\ Len(pages') = Len(pages) + 1
        /\ \A i \in 1 .. Len(pages) :
             /\ SamePage(i)
             /\ pages'[i].inorder = IF i = Len(pages) /\ i > rel
                                    THEN pages'[Len(pages) + 1].len ELSE pages[i].inorder
    BY <1>3, PageConcluded
  <2>2. \A i \in 1 .. rel : i \in 1 .. Len(pages) /\ ~ i > rel
    BY <1>1
  <2>3. QED
    BY <1>1, <2>1, <2>2 DEF StaysPage
<1>4. QED
  BY <1>2, <1>3, PagerPages

(* Pages come behind those there are, and belong to the current group.     *)
LEMMA DividedKept ==
  ASSUME Divided, ColumnTypeOK, group' = group,
         \A g \in 1 .. group : Began(g)' = Began(g),
         DOMAIN pages = 1 .. Len(pages), DOMAIN pages' = 1 .. Len(pages'),
         Len(pages) \in Nat, Len(pages') \in Nat, Len(pages) <= Len(pages')
  PROVE  Divided'
<1>1. group \in Nat /\ group >= 1
  BY ColumnFacts DEF ColumnTypeOK
<1>2. \A g \in 1 .. group : Began(g) \in Nat /\ Began(g) <= Len(pages)
  BY DEF Divided
<1> DEFINE began(g) == Began(g)'
<1>3. \A g \in 1 .. group : began(g) = Began(g)
  OBVIOUS
<1> HIDE DEF began
<1>4. \A g \in 1 .. group : began(g) \in Nat /\ began(g) <= Len(pages')
  BY <1>2, <1>3
<1>5. \A g, h \in 1 .. group : g <= h => began(g) <= began(h)
  BY <1>3 DEF Divided
<1>6. ASSUME NEW i \in 1 .. Len(pages')
      PROVE  \E g \in 1 .. group :
               i \in began(g) + 1 .. (IF g < group THEN began(g + 1) ELSE Len(pages'))
  <2>1. CASE i \in 1 .. Len(pages)
    <3>1. PICK g \in 1 .. group : i \in PagesBy(g)
      BY <2>1 DEF Divided
    <3>2. g < group => g + 1 \in 1 .. group
      BY <1>1
    <3>3. i > Began(g) /\ i <= (IF g < group THEN Began(g + 1) ELSE Len(pages)) /\ i \in Nat
      BY <1>2, <2>1, <3>1, <3>2 DEF PagesBy, Behind
    <3>4. QED
      BY <1>2, <1>3, <3>2, <3>3
  <2>2. CASE i > Len(pages)
    <3>1. group \in 1 .. group /\ ~ group < group
      BY <1>1
    <3>2. began(group) <= Len(pages) /\ began(group) \in Nat
      BY <1>2, <1>3, <3>1
    <3>3. i \in began(group) + 1 .. Len(pages')
      BY <2>2, <3>2
    <3>4. QED
      BY <3>1, <3>3
  <2>3. QED
    BY <2>1, <2>2
<1>7. QED
  BY <1>4, <1>5, <1>6 DEF Divided, PagesBy, Behind, began

LEMMA BehindRange ==
  ASSUME Divided, ColumnTypeOK, NEW g \in 1 .. group
  PROVE  /\ Began(g) \in Nat /\ Behind(g) \in Nat /\ Behind(g) <= Len(pages)
         /\ g < group => Behind(g) <= Began(group)
<1>1. group \in Nat /\ group >= 1 /\ Len(pages) \in Nat
  BY ColumnFacts DEF ColumnTypeOK, TypeOK
<1>2. group \in 1 .. group /\ (g < group => g + 1 \in 1 .. group)
  BY <1>1
<1>3. \A k \in 1 .. group : Began(k) \in Nat /\ Began(k) <= Len(pages)
  BY DEF Divided
<1>4. \A k, h \in 1 .. group : k <= h => Began(k) <= Began(h)
  BY DEF Divided
<1>5. CASE g < group
  <2>1. Behind(g) = Began(g + 1) /\ g + 1 \in 1 .. group /\ g + 1 <= group
    BY <1>1, <1>2, <1>5 DEF Behind
  <2>2. QED
    BY <1>2, <1>3, <1>4, <2>1
<1>6. CASE ~ g < group
  BY <1>1, <1>3, <1>6 DEF Behind
<1>7. QED
  BY <1>5, <1>6

(* A step after which every group begins where it began and no group more  *)
(* is paged; the pages of the groups that are paged stay.                  *)
LEMMA GroupedKept ==
  ASSUME Divided, ColumnTypeOK, Grouped, column' = column, group' = group,
         Settled' <=> Settled,
         \A g \in 1 .. group : Began(g)' = Began(g),
         Settled => Len(pages') = Len(pages),
         \A g \in 1 .. group : Paged(g) => \A i \in 1 .. Behind(g) : StaysPage(i)
  PROVE  Grouped'
<1>1. group \in Nat /\ group >= 1
  BY ColumnFacts DEF ColumnTypeOK
<1>2. ASSUME NEW g \in 1 .. group, Paged(g)
      PROVE  /\ Behind(g)' = Behind(g)
             /\ GroupOn(column.progs[g], Began(g), Behind(g))'
  <2>1. /\ Began(g) \in Nat /\ Behind(g) \in Nat
        /\ GroupOn(column.progs[g], Began(g), Behind(g))
    BY <1>2, BehindRange DEF Grouped
  <2>2. Behind(g)' = Behind(g)
    <3>1. CASE g < group
      <4>1. g + 1 \in 1 .. group
        BY <1>1, <3>1
      <4>2. QED
        BY <3>1, <4>1 DEF Behind
    <3>2. CASE ~ g < group
      BY <1>2, <3>2 DEF Behind, Paged
    <3>3. QED
      BY <3>1, <3>2
  <2> DEFINE p == column.progs[g]
             lo == Began(g)
             hi == Behind(g)
  <2>3. \E q, l, h : q = p /\ l = lo /\ h = hi
    OBVIOUS
  <2>4. PICK q, l, h : q = p /\ l = lo /\ h = hi
    BY <2>3
  <2>5. GroupOn(q, l, h)'
    BY <1>2, <2>1, <2>4, GroupOnStays
  <2>6. q = p' /\ l = lo' /\ h = hi'
    BY <1>2, <2>2, <2>4
  <2>7. QED
    BY <2>2, <2>5, <2>6
<1>3. QED
  BY <1>2 DEF Grouped, Paged

-----------------------------------------------------------------------------
(* A fresh assembler_state: nothing of the group is anywhere yet.          *)
Fresh ==
  /\ cursor = 1 /\ open = <<>> /\ pageOf = [j \in Job |-> NoPage]
  /\ pageIndex = rel /\ rel = Len(pages) /\ status = "paging"

LEMMA HereFresh == TypeOK /\ Fresh /\ PageNumbers => Here
<1> SUFFICES ASSUME TypeOK, Fresh, PageNumbers
             PROVE  Here
  OBVIOUS
<1> USE DEF Fresh
<1>1. /\ Len(pages) \in Nat /\ DOMAIN pages = 1 .. Len(pages) /\ prog \in ProgramType
      /\ DOMAIN prog.ids = 1 .. Len(prog.ids) /\ Len(prog.ids) \in Nat
  BY PagesIndexed
<1>2. Mine = {}
  BY <1>1 DEF Mine
<1>3. NumbersHere /\ ChainHere
  BY <1>1, <1>2 DEF NumbersHere, ChainHere, PageNumbers
<1>4. DrawnHere
  BY <1>2, NothingDrawn DEF DrawnHere
<1>5. TrackedHere
  BY <1>2 DEF TrackedHere
<1>6. FirstHere
  BY <1>1 DEF FirstHere
<1>7. Handled /\ Finished
  BY DEF Handled, Finished
<1>8. QED
  BY <1>3, <1>4, <1>5, <1>6, <1>7 DEF Here

LEMMA HereFreshNext == TypeOK' /\ Fresh' /\ PageNumbers' => Here'
BY HereFresh, PTL

LEMMA HereSame ==
  ASSUME Here, UNCHANGED pvars
  PROVE  Here'
<1>1. Mine' = Mine /\ Current' = Current
  BY DEF Mine, Current, pvars
<1>2. NumbersHere' /\ ChainHere' /\ TrackedHere'
  BY <1>1 DEF Here, NumbersHere, ChainHere, TrackedHere, OnPage, pvars
<1>3. DrawnHere'
  BY <1>1 DEF Here, DrawnHere, pvars
<1>4. FirstHere' /\ Handled' /\ Finished'
  BY DEF Here, FirstHere, FirstAt, OnPage, Handled, Taken, Finished, pvars
<1>5. QED
  BY <1>2, <1>3, <1>4 DEF Here

-----------------------------------------------------------------------------
LEMMA ColumnInvInitially == ColumnInit => ColumnInv
<1> SUFFICES ASSUME ColumnInit PROVE ColumnInv
  OBVIOUS
<1>1. ColumnTypeOK
  BY ColumnTypeInitially
<1>2. /\ prog = column.progs[1] /\ rel = 0 /\ pages = <<>> /\ ooo = <<>> /\ group = 1
      /\ tsize = 0 /\ dsize = 0 /\ stage = "groups" /\ Fresh
  BY DEF ColumnInit, Begin, Fresh
<1>3. ~ Settled /\ ~ AllPaged
  BY <1>2 DEF Settled, AllPaged
<1>4. OpenFits /\ PageFits /\ PageNumbers
  BY <1>2 DEF OpenFits, PageFits, PageNumbers, Fresh
<1>5. Here
  BY <1>1, <1>2, <1>4, HereFresh DEF ColumnTypeOK
<1>6. Began(1) = 0
  BY <1>2, <1>3 DEF Began
<1>7. Divided
  <2>1. \A g \in 1 .. group : g = 1 /\ Began(g) = 0
    BY <1>2, <1>6
  <2>2. Len(pages) = 0 /\ DOMAIN pages = {}
    BY <1>2
  <2>3. QED
    BY <2>1, <2>2 DEF Divided
<1>8. Grouped
  BY <1>2, <1>3 DEF Grouped, Paged
<1>9. BranchesHere
  BY <1>2 DEF BranchesHere
<1>10. QED
  BY <1>1, <1>2, <1>3, <1>4, <1>5, <1>7, <1>8, <1>9 DEF ColumnInv

(* The branches resolved, and what they announce, once all is paged.       *)
LEMMA BranchesStay ==
  ASSUME BranchesHere, UNCHANGED <<pages, labelPage, ooo>>, Settled' <=> Settled
  PROVE  BranchesHere'
BY DEF BranchesHere

LEMMA NoBranches ==
  ASSUME BranchesHere, ~ Settled
  PROVE  ooo = <<>>
BY DEF BranchesHere

LEMMA NoBranchesNext ==
  ASSUME ooo' = <<>>
  PROVE  BranchesHere'
BY DEF BranchesHere

LEMMA BranchesGrow ==
  ASSUME ColumnInv, ResolveBranches
  PROVE  BranchesHere'
<1> DEFINE T == Targets(BranchPage)
           R == UNION {[S -> Nat \cup Garbage] : S \in SUBSET PageLabel}
<1>1. PICK garbage \in Garbage : ooo' = Append(ooo, [l \in T |->
        IF labelPage[l] < Len(pages) THEN pages[labelPage[l] + 1].len ELSE garbage])
  BY DEF ResolveBranches
<1>2. /\ T \subseteq DOMAIN labelPage /\ stage = "branches"
      /\ UNCHANGED <<pages, labelPage>>
  BY DEF ResolveBranches, Branching, BranchesValid, pvars
<1>3. Settled /\ Settled'
  <2>1. Aside
    BY AsideSteps DEF Branch
  <2>2. QED
    BY <1>2, <2>1 DEF Aside, ColumnInv, AllPaged
<1>4. ooo \in Seq(R)
  BY DEF ColumnInv, ColumnTypeOK
<1> HIDE DEF T, R
<1> DEFINE f == [l \in T |->
                   IF labelPage[l] < Len(pages) THEN pages[labelPage[l] + 1].len ELSE garbage]
<1>5. /\ DOMAIN f = T
      /\ \A l \in T : labelPage[l] < Len(pages) => f[l] = pages[labelPage[l] + 1].len
  OBVIOUS
<1> HIDE DEF f
<1>6. ooo' = Append(ooo, f)
  BY <1>1 DEF f
<1>7. /\ DOMAIN ooo = 1 .. Len(ooo) /\ Len(ooo) \in Nat
      /\ DOMAIN ooo' = 1 .. Len(ooo) + 1
      /\ \A i \in 1 .. Len(ooo) : ooo'[i] = ooo[i]
      /\ ooo'[Len(ooo) + 1] = f
  BY <1>4, <1>6, Appended
<1>8. ASSUME NEW i \in DOMAIN ooo', NEW l \in DOMAIN ooo'[i]
      PROVE  /\ l \in DOMAIN labelPage
             /\ labelPage[l] < Len(pages) => ooo'[i][l] = pages[labelPage[l] + 1].len
  <2>1. CASE i \in 1 .. Len(ooo)
    BY <1>7, <1>8, <2>1 DEF ColumnInv, BranchesHere
  <2>2. CASE i = Len(ooo) + 1
    BY <1>2, <1>5, <1>7, <1>8, <2>2
  <2>3. QED
    BY <1>7, <1>8, <2>1, <2>2
<1>9. QED
  BY <1>2, <1>3, <1>8 DEF BranchesHere

LEMMA InvAside ==
  ASSUME ColumnInv, ColumnTypeOK',
         GroupFails \/ LayOut \/ Branch \/ Encode \/ Fill \/ UNCHANGED vars
  PROVE  ColumnInv'
<1>1. UNCHANGED <<pvars, column, group, labelPage>> /\ (Settled' <=> Settled)
      /\ (AllPaged' => AllPaged)
  BY AsideSteps DEF Aside
<1>2. UNCHANGED <<prog, rel, cursor, open, tsize, dsize, pageOf, pageIndex, pages, status>>
  BY <1>1 DEF pvars
<1>3. /\ ColumnTypeOK /\ Divided /\ Grouped /\ BranchesHere /\ PageNumbers
      /\ OpenFits /\ PageFits
  BY DEF ColumnInv
<1>4. OpenFits' /\ PageFits' /\ PageNumbers'
  BY <1>2, <1>3 DEF OpenFits, PageFits, PageNumbers
<1>5. \A g \in 1 .. group : Began(g)' = Began(g)
  BY <1>1, <1>2 DEF Began
<1>6. /\ DOMAIN pages = 1 .. Len(pages) /\ Len(pages) \in Nat
      /\ DOMAIN pages' = 1 .. Len(pages') /\ Len(pages') = Len(pages)
      /\ \A i : StaysPage(i)
  BY <1>2, <1>3, PagesIndexed DEF ColumnTypeOK, StaysPage, SamePage
<1>7. Divided'
  BY <1>1, <1>3, <1>5, <1>6, DividedKept
<1>8. Grouped'
  BY <1>1, <1>3, <1>5, <1>6, GroupedKept
<1>9. BranchesHere'
  <2>1. CASE ResolveBranches
    BY <2>1, BranchesGrow
  <2>2. CASE ~ ResolveBranches
    <3>1. ooo' = ooo
      BY <2>2 DEF GroupFails, LayOut, PlacePad, PadsPlaced, Branch, RejectBranches, CrashOnBranch,
         BranchesResolved, Encode, EncodePage, RejectPage, PagesEncoded, Fill, FillPad, PadsFilled,
         vars, cvars
    <3>2. QED
      BY <1>1, <1>2, <1>3, <3>1, BranchesStay
  <2>3. QED
    BY <2>1, <2>2
<1>10. ~ Settled' => prog' = column'.progs[group'] /\ Here'
  BY <1>1, <1>2, HereSame DEF ColumnInv
<1>11. QED
  BY <1>1, <1>4, <1>7, <1>8, <1>9, <1>10 DEF ColumnInv

LEMMA InvPaging ==
  ASSUME ColumnInv, ColumnTypeOK', PageGroup
  PROVE  ColumnInv'
<1>1. [Next]_pvars /\ UNCHANGED cvars /\ stage = "groups"
  BY PagerStep
<1>2. UNCHANGED <<column, group, labelPage, ooo, stage>> /\ ~ Settled /\ ~ Settled' /\ ~ AllPaged'
  BY <1>1 DEF cvars, Settled, AllPaged
<1>3. /\ ColumnTypeOK /\ TypeOK /\ Divided /\ Grouped /\ BranchesHere /\ PageNumbers
      /\ OpenFits /\ PageFits /\ Here /\ NumbersHere /\ prog = column.progs[group]
  BY <1>2 DEF ColumnInv, ColumnTypeOK, Here
<1>4. OpenFits' /\ PageFits'
  BY <1>1, <1>3, FitsKept
<1>5. Here' /\ prog' = prog /\ rel' = rel
  BY <1>1, <1>3, HereKept, ProgramFixed, RelFixed
<1>6. PageNumbers'
  BY <1>5 DEF Here, NumbersHere, PageNumbers
<1>7. \A g \in 1 .. group : Began(g)' = Began(g)
  BY <1>2, <1>5 DEF Began
<1>8. /\ \A i \in 1 .. rel : StaysPage(i)
      /\ Len(pages') \in Nat /\ Len(pages) <= Len(pages')
  BY <1>1, <1>3, EarlierStay
<1>9. pages' \in Seq(PageType)
  BY DEF ColumnTypeOK, TypeOK
<1>10. /\ DOMAIN pages = 1 .. Len(pages) /\ Len(pages) \in Nat
      /\ DOMAIN pages' = 1 .. Len(pages') /\ rel \in Nat
  BY <1>3, <1>9, PagesIndexed
<1>11. Divided'
  BY <1>2, <1>3, <1>7, <1>8, <1>10, DividedKept
<1>12. ASSUME NEW g \in 1 .. group, Paged(g)
       PROVE  \A i \in 1 .. Behind(g) : StaysPage(i)
  <2>1. g < group /\ Behind(g) \in Nat
    BY <1>2, <1>3, <1>12, BehindRange DEF Paged
  <2>2. Behind(g) <= Began(group) /\ Began(group) = rel
    BY <1>2, <1>3, <1>12, <2>1, BehindRange DEF Began
  <2>3. QED
    BY <1>8, <1>10, <2>1, <2>2
<1>13. Grouped'
  BY <1>2, <1>3, <1>7, <1>12, GroupedKept
<1>14. BranchesHere'
  BY <1>2, <1>3, NoBranches, NoBranchesNext
<1>15. QED
  BY <1>2, <1>3, <1>4, <1>5, <1>6, <1>11, <1>13, <1>14 DEF ColumnInv

(* The group that is paged now has its place for good.                     *)
LEMMA CurrentGroupOn ==
  ASSUME ColumnInv, GroupPaged
  PROVE  /\ GroupOn(column.progs[group], Began(group), Len(pages))
         /\ ~ Settled /\ Began(group) = rel /\ Here
<1>1. ~ Settled /\ status = "done"
  BY DEF GroupPaged, Settled
<1>2. prog = column.progs[group] /\ Here /\ TypeOK
  BY <1>1 DEF ColumnInv, ColumnTypeOK
<1>3. Began(group) = rel
  BY <1>1 DEF Began
<1>4. QED
  BY <1>1, <1>2, <1>3, GroupDone

LEMMA BeganRecorded ==
  ASSUME ColumnTypeOK, ~ Settled,
         labelPage' = [labelPage EXCEPT ![column.labels[group]] = rel]
  PROVE  \A g \in 1 .. group : labelPage'[column.labels[g]] = Began(g)
<1>1. \A g \in 1 .. group : g \in Groups
  BY ColumnFacts DEF ColumnTypeOK
<1>2. QED
  BY <1>1, LabelPageUpdated DEF Began

LEMMA GroupOnSame ==
  ASSUME NEW p, NEW lo, NEW hi, GroupOn(p, lo, hi), pages' = pages
  PROVE  GroupOn(p, lo, hi)'
BY DEF GroupOn, OnPage

(* The groups there were, and the one just paged, are paged.               *)
LEMMA GroupedMore ==
  ASSUME ColumnInv, GroupPaged, pages' = pages, column' = column,
         group' \in {group, group + 1},
         \A g \in 1 .. group : Began(g)' = Began(g),
         group' = group + 1 => ~ Settled',
         \A g \in Nat : g = group + 1 /\ g = group' => Began(g)' = Len(pages)
  PROVE  Grouped'
<1>1. group \in Nat /\ group >= 1 /\ Divided /\ Grouped /\ ColumnTypeOK
  BY ColumnFacts DEF ColumnTypeOK, ColumnInv
<1>2. GroupOn(column.progs[group], Began(group), Len(pages)) /\ ~ Settled
  BY CurrentGroupOn
<1>3. ASSUME NEW g \in 1 .. group
      PROVE  GroupOn(column.progs[g], Began(g), Behind(g))
  <2>1. CASE g = group
    BY <1>1, <1>2, <2>1 DEF Behind
  <2>2. CASE g # group
    <3>1. g < group
      BY <1>1, <1>3, <2>2
    <3>2. QED
      BY <1>1, <3>1 DEF Grouped, Paged
  <2>3. QED
    BY <2>1, <2>2
<1>4. ASSUME NEW g \in 1 .. group
      PROVE  Behind(g)' = Behind(g)
  <2>1. CASE g < group
    <3>1. g + 1 \in 1 .. group /\ g < group'
      BY <1>1, <2>1
    <3>2. QED
      BY <2>1, <3>1 DEF Behind
  <2>2. CASE g = group
    <3>1. ~ g < group
      BY <1>1, <2>2
    <3>2. Behind(g) = Len(pages)
      BY <3>1 DEF Behind
    <3>3. CASE group' = group + 1
      <4>1. g < group' /\ g + 1 \in Nat /\ g + 1 = group + 1
        BY <1>1, <2>2, <3>3
      <4>2. Began(g + 1)' = Len(pages)
        BY <3>3, <4>1
      <4>3. QED
        BY <3>2, <4>1, <4>2 DEF Behind
    <3>4. CASE group' = group
      <4>1. ~ g < group'
        BY <3>1, <3>4
      <4>2. QED
        BY <3>2, <4>1 DEF Behind
    <3>5. QED
      BY <3>3, <3>4
  <2>3. QED
    BY <1>1, <1>4, <2>1, <2>2
<1>5. ASSUME NEW g \in 1 .. group
      PROVE  GroupOn(column.progs[g], Began(g), Behind(g))'
  <2> DEFINE p == column.progs[g]
             lo == Began(g)
             hi == Behind(g)
  <2>1. \E q, l, h : q = p /\ l = lo /\ h = hi
    OBVIOUS
  <2>2. PICK q, l, h : q = p /\ l = lo /\ h = hi
    BY <2>1
  <2>3. GroupOn(q, l, h)'
    BY <1>3, <2>2, GroupOnSame
  <2>4. q = p' /\ l = lo' /\ h = hi'
    BY <1>4, <2>2
  <2>5. QED
    BY <2>3, <2>4
<1>6. ASSUME NEW g \in 1 .. group', Paged(g)'
      PROVE  g \in 1 .. group
  BY <1>1, <1>6 DEF Paged
<1>7. QED
  BY <1>5, <1>6 DEF Grouped

LEMMA InvNextGroup ==
  ASSUME ColumnInv, ColumnTypeOK', NextGroup
  PROVE  ColumnInv'
<1>1. /\ GroupPaged /\ group < Len(column.progs) /\ group' = group + 1
      /\ Restart(column.progs[group + 1], Len(pages))
      /\ labelPage' = [labelPage EXCEPT ![column.labels[group]] = rel]
      /\ UNCHANGED <<pages, column, ooo, stage>>
  BY DEF NextGroup
<1>2. /\ stage = "groups" /\ ~ Settled /\ ~ Settled' /\ ~ AllPaged'
      /\ prog' = column.progs[group + 1] /\ rel' = Len(pages)
  BY <1>1 DEF GroupPaged, Settled, AllPaged, Restart
<1>3. /\ ColumnTypeOK /\ Divided /\ Grouped /\ BranchesHere /\ PageNumbers
      /\ PageFits /\ TypeOK /\ TypeOK' /\ group \in Nat /\ group >= 1
  <2>1. ColumnTypeOK /\ Divided /\ Grouped /\ BranchesHere /\ PageNumbers /\ PageFits
    BY DEF ColumnInv
  <2>2. TypeOK /\ TypeOK'
    BY <2>1 DEF ColumnTypeOK
  <2>3. group \in Nat /\ group >= 1
    BY <2>1, ColumnFacts DEF ColumnTypeOK
  <2>4. QED
    BY <2>1, <2>2, <2>3
<1>4. OpenFits' /\ PageFits' /\ PageNumbers'
  BY <1>1, <1>3 DEF OpenFits, PageFits, PageNumbers, Restart
<1>5. Fresh'
  BY <1>1 DEF Fresh, Restart
<1>6. Here'
  BY <1>3, <1>4, <1>5, HereFreshNext
<1>7. \A g \in 1 .. group : Began(g)' = Began(g)
  <2>1. \A g \in 1 .. group : labelPage'[column.labels[g]] = Began(g)
    BY <1>1, <1>2, <1>3, BeganRecorded
  <2>2. \A g \in 1 .. group : g # group'
    BY <1>1, <1>3
  <2>3. QED
    BY <1>1, <2>1, <2>2 DEF Began
<1>8. PICK next \in Nat : next = group + 1
  BY <1>3
<1>9. Began(next)' = Len(pages)
  BY <1>1, <1>2, <1>8 DEF Began
<1>10. Grouped'
  <2>1. \A g \in Nat : g = group + 1 /\ g = group' => Began(g)' = Len(pages)
    BY <1>8, <1>9
  <2>2. group' = group + 1 /\ ~ Settled' /\ GroupPaged /\ pages' = pages /\ column' = column
    BY <1>1, <1>2
  <2>3. QED
    BY <1>7, <2>1, <2>2, GroupedMore
<1>11. Divided'
  <2> DEFINE began(g) == Began(g)'
  <2>1. /\ \A g \in 1 .. group : began(g) = Began(g)
        /\ began(next) = Len(pages)
    BY <1>7, <1>9
  <2> HIDE DEF began
  <2>2. /\ \A g \in 1 .. group : Began(g) \in Nat /\ Began(g) <= Len(pages)
        /\ \A g, h \in 1 .. group : g <= h => Began(g) <= Began(h)
        /\ Len(pages) \in Nat /\ DOMAIN pages = 1 .. Len(pages)
    BY <1>3, PagesIndexed DEF Divided
  <2>3. \A g \in 1 .. next : g \in 1 .. group \/ g = next
    BY <1>3, <1>8
  <2>4. \A g \in 1 .. next : began(g) \in Nat /\ began(g) <= Len(pages)
    BY <2>1, <2>2, <2>3
  <2>5. \A g, h \in 1 .. next : g <= h => began(g) <= began(h)
    <3>1. SUFFICES ASSUME NEW g \in 1 .. next, NEW h \in 1 .. next, g <= h
                   PROVE  began(g) <= began(h)
      OBVIOUS
    <3>2. CASE h = next
      BY <2>1, <2>4, <3>2
    <3>3. CASE h # next
      <4>1. g \in 1 .. group /\ h \in 1 .. group
        BY <1>3, <1>8, <3>1, <3>3
      <4>2. QED
        BY <2>1, <2>2, <3>1, <4>1
    <3>4. QED
      BY <3>2, <3>3
  <2>6. ASSUME NEW i \in 1 .. Len(pages)
        PROVE  \E g \in 1 .. next :
                 i \in began(g) + 1 .. (IF g < next THEN began(g + 1) ELSE Len(pages))
    <3>1. PICK g \in 1 .. group : i \in PagesBy(g)
      BY <1>3, <2>2 DEF Divided
    <3>2. g \in 1 .. next /\ g < next /\ began(g) = Began(g)
      BY <1>3, <1>8, <2>1
    <3>3. Behind(g) = began(g + 1)
      <4>1. CASE g < group
        <5>1. g + 1 \in 1 .. group
          BY <1>3, <4>1
        <5>2. QED
          BY <2>1, <4>1, <5>1 DEF Behind
      <4>2. CASE ~ g < group
        <5>1. g = group
          BY <1>3, <4>2
        <5>2. QED
          BY <1>8, <2>1, <4>2, <5>1 DEF Behind
      <4>3. QED
        BY <4>1, <4>2
    <3>4. QED
      BY <3>1, <3>2, <3>3 DEF PagesBy
  <2>7. Divided'
    BY <1>1, <1>8, <2>2, <2>4, <2>5, <2>6 DEF Divided, PagesBy, Behind, began
  <2>8. QED
    BY <2>7
<1>12. BranchesHere'
  BY <1>1, <1>2, <1>3, NoBranches, NoBranchesNext
<1>13. QED
  BY <1>1, <1>2, <1>4, <1>6, <1>10, <1>11, <1>12 DEF ColumnInv

LEMMA InvLastGroup ==
  ASSUME ColumnInv, ColumnTypeOK', LastGroup
  PROVE  ColumnInv'
<1>1. /\ GroupPaged /\ group = Len(column.progs)
      /\ labelPage' = [labelPage EXCEPT ![column.labels[group]] = rel]
      /\ stage' = "pads"
      /\ UNCHANGED <<open, tsize, dsize, pages, status, column, group, ooo>>
  BY DEF LastGroup
<1>2. status = "done" /\ ~ Settled /\ Settled'
  BY <1>1 DEF GroupPaged, Settled
<1>3. /\ ColumnTypeOK /\ Divided /\ BranchesHere /\ PageNumbers /\ OpenFits
      /\ PageFits /\ TypeOK
  BY DEF ColumnInv, ColumnTypeOK
<1>4. OpenFits' /\ PageFits' /\ PageNumbers'
  BY <1>1, <1>3 DEF OpenFits, PageFits, PageNumbers
<1>5. \A g \in 1 .. group : Began(g)' = Began(g)
  BY <1>1, <1>2, <1>3, BeganRecorded DEF Began
<1>6. Divided'
  BY <1>1, <1>3, <1>5, PagesIndexed, DividedKept
<1>7. Grouped'
  <2>1. group \in Nat /\ group # group + 1
    BY <1>3, ColumnFacts DEF ColumnTypeOK
  <2>2. group' = group /\ pages' = pages /\ column' = column
    BY <1>1
  <2>3. QED
    BY <1>1, <1>5, <2>1, <2>2, GroupedMore
<1>8. BranchesHere'
  BY <1>1, <1>2, <1>3, NoBranches, NoBranchesNext
<1>9. QED
  BY <1>1, <1>2, <1>4, <1>6, <1>7, <1>8 DEF ColumnInv

LEMMA ColumnInvKept ==
  ASSUME ColumnInv, [ColumnNext]_vars
  PROVE  ColumnInv'
<1>1. ColumnTypeOK'
  BY ColumnTypeKept DEF ColumnInv
<1>2. QED
  BY <1>1, ColumnSteps, InvPaging, InvNextGroup, InvLastGroup, InvAside

LEMMA ColumnInvariant == ColumnSpec => []ColumnInv
BY ColumnInvInitially, ColumnInvKept, PTL DEF ColumnSpec

-----------------------------------------------------------------------------
(***************************************************************************)
(* The theorems.                                                           *)
(***************************************************************************)
(* In every column the variables of the preprocessor have their types.     *)
THEOREM ColumnTypeCorrect == ColumnSpec => []ColumnTypeOK
<1>1. ColumnInv => ColumnTypeOK
  BY DEF ColumnInv
<1>2. QED
  BY <1>1, ColumnInvariant, PTL

(* No page of a column is larger than a page, whatever its label groups.   *)
THEOREM ColumnPagesFit == ColumnSpec => []PageFits
<1>1. ColumnInv => PageFits
  BY DEF ColumnInv
<1>2. QED
  BY <1>1, ColumnInvariant, PTL

(* The pages of a column are numbered through all its label groups in the  *)
(* order in which they are emitted, at every moment.                       *)
THEOREM PagesNumbered == ColumnSpec => []PageNumbers
<1>1. ColumnInv => PageNumbers
  BY DEF ColumnInv
<1>2. QED
  BY <1>1, ColumnInvariant, PTL

(* Once the column is settled its groups have disjoint stretches of pages, *)
(* and label_page_index tells in which of them a page is.                  *)
LEMMA SettledGroups ==
  ASSUME ColumnInv, Settled
  PROVE  /\ Groups = 1 .. group /\ group \in Nat /\ group >= 1
         /\ Len(pages) \in Nat /\ DOMAIN pages = 1 .. Len(pages)
         /\ \A g \in Groups :
              /\ labelPage[column.labels[g]] = Began(g)
              /\ Began(g) \in Nat /\ Behind(g) \in Nat /\ Behind(g) <= Len(pages)
              /\ GroupOn(column.progs[g], Began(g), Behind(g))
         /\ \A g, h \in Groups : g < h => Behind(g) <= Began(h)
         /\ \A i \in DOMAIN pages : \E g \in Groups : i \in PagesBy(g)
<1>1. ColumnTypeOK /\ Divided /\ Grouped /\ group = Len(column.progs)
  BY DEF ColumnInv
<1>2. Groups = 1 .. group /\ group \in Nat /\ group >= 1
  BY <1>1, ColumnFacts DEF ColumnTypeOK
<1>3. Len(pages) \in Nat /\ DOMAIN pages = 1 .. Len(pages)
  BY <1>1, PagesIndexed DEF ColumnTypeOK
<1>4. \A g \in Groups : labelPage[column.labels[g]] = Began(g)
  BY DEF Began
<1>5. \A g \in Groups : Began(g) \in Nat /\ Behind(g) \in Nat /\ Behind(g) <= Len(pages)
  BY <1>1, <1>2, BehindRange
<1>6. \A g \in Groups : GroupOn(column.progs[g], Began(g), Behind(g))
  BY <1>1, <1>2 DEF Grouped, Paged
<1>7. ASSUME NEW g \in Groups, NEW h \in Groups, g < h
      PROVE  Behind(g) <= Began(h)
  <2>1. g < group /\ g + 1 \in 1 .. group /\ g + 1 <= h
    BY <1>2, <1>7
  <2>2. Behind(g) = Began(g + 1)
    BY <2>1 DEF Behind
  <2>3. QED
    BY <1>1, <1>2, <2>1, <2>2 DEF Divided
<1>8. \A i \in DOMAIN pages : \E g \in Groups : i \in PagesBy(g)
  BY <1>1, <1>2 DEF Divided
<1>9. QED
  BY <1>2, <1>3, <1>4, <1>5, <1>6, <1>7, <1>8

LEMMA GroupOfPage ==
  ASSUME ColumnInv, Settled, NEW g \in Groups, NEW i \in PagesBy(g)
  PROVE  GroupOf(i) = g /\ i \in DOMAIN pages
<1>1. Began(g) \in Nat /\ Behind(g) \in Nat /\ Behind(g) <= Len(pages)
      /\ Len(pages) \in Nat /\ DOMAIN pages = 1 .. Len(pages)
  BY SettledGroups
<1>2. i \in Nat /\ Began(g) < i /\ i <= Behind(g)
  BY <1>1 DEF PagesBy
<1>3. \A h \in Groups : labelPage[column.labels[h]] = Began(h) /\ Began(h) \in Nat /\ h \in Nat
  BY SettledGroups
<1>4. \A h \in Groups : g < h => Behind(g) <= Began(h)
  BY SettledGroups
<1>5. \A h \in Groups : labelPage[column.labels[h]] < i => h <= g
  BY <1>1, <1>2, <1>3, <1>4
<1>6. labelPage[column.labels[g]] < i
  BY <1>2, <1>3
<1>7. ASSUME NEW h \in Groups, labelPage[column.labels[h]] < i,
             \A k \in Groups : labelPage[column.labels[k]] < i => k <= h
      PROVE  h = g
  BY <1>3, <1>5, <1>6, <1>7
<1>8. GroupOf(i) = g
  BY <1>5, <1>6, <1>7 DEF GroupOf
<1>9. QED
  BY <1>1, <1>2, <1>8

(* The in-order page a header announces is the next page of the same label *)
(* group and the last page of a group announces none, in every column.     *)
THEOREM ChainedWithinGroups == ColumnSpec => []ChainWithinGroups
<1>1. ASSUME ColumnInv
      PROVE  ChainWithinGroups
  <2>1. SUFFICES ASSUME AllPaged, NEW i \in DOMAIN pages
                 PROVE  pages[i].inorder =
                          IF i < Len(pages) /\ GroupOf(i) = GroupOf(i + 1)
                          THEN pages[i + 1].len ELSE 0
    BY DEF ChainWithinGroups
  <2>2. Settled
    BY <1>1, <2>1 DEF ColumnInv
  <2>3. PICK g \in Groups : i \in PagesBy(g)
    BY <1>1, <2>2, SettledGroups
  <2>4. /\ Began(g) \in Nat /\ Behind(g) \in Nat /\ Behind(g) <= Len(pages)
        /\ Len(pages) \in Nat /\ DOMAIN pages = 1 .. Len(pages)
    BY <1>1, <2>2, SettledGroups
  <2>5. GroupOn(column.progs[g], Began(g), Behind(g))
    BY <1>1, <2>2, SettledGroups
  <2>6. pages[i].inorder = IF i < Behind(g) THEN pages[i + 1].len ELSE 0
    BY <2>3, <2>5 DEF GroupOn, PagesBy
  <2>7. i \in Nat /\ Began(g) < i /\ i <= Behind(g)
    BY <2>3, <2>4 DEF PagesBy
  <2>8. GroupOf(i) = g
    BY <1>1, <2>2, <2>3, GroupOfPage
  <2>9. CASE i < Behind(g)
    <3>1. i + 1 \in PagesBy(g) /\ i < Len(pages)
      BY <2>4, <2>7, <2>9 DEF PagesBy
    <3>2. GroupOf(i + 1) = g
      BY <1>1, <2>2, <3>1, GroupOfPage
    <3>3. QED
      BY <2>6, <2>8, <2>9, <3>1, <3>2
  <2>10. CASE ~ i < Behind(g) /\ i < Len(pages)
    <3>1. i + 1 \in DOMAIN pages /\ i + 1 > Behind(g)
      BY <2>4, <2>7, <2>10
    <3>2. PICK h \in Groups : i + 1 \in PagesBy(h)
      BY <1>1, <2>2, <3>1, SettledGroups
    <3>3. GroupOf(i + 1) = h
      BY <1>1, <2>2, <3>2, GroupOfPage
    <3>4. h # g
      BY <2>4, <2>7, <3>1, <3>2 DEF PagesBy
    <3>5. QED
      BY <2>6, <2>8, <2>10, <3>3, <3>4
  <2>11. CASE ~ i < Behind(g) /\ ~ i < Len(pages)
    BY <2>6, <2>11
  <2>12. QED
    BY <2>4, <2>7, <2>9, <2>10, <2>11
<1>2. QED
  BY <1>1, ColumnInvariant, PTL

(* When all label groups are paged, every job of every group is on a page  *)
(* of its own group, in every column.                                      *)
THEOREM ColumnNothingLost == ColumnSpec => []ColumnComplete
<1>1. ASSUME ColumnInv
      PROVE  ColumnComplete
  <2>1. SUFFICES ASSUME AllPaged, NEW g \in Groups, NEW j \in Defined(column.progs[g])
                 PROVE  \E i \in PagesOf(g) : OnPage(j, i)
    BY DEF ColumnComplete
  <2>2. Settled
    BY <1>1, <2>1 DEF ColumnInv
  <2>3. GroupOn(column.progs[g], Began(g), Behind(g))
    BY <1>1, <2>2, SettledGroups
  <2>4. PICK i \in PagesBy(g) : OnPage(j, i)
    BY <2>3 DEF GroupOn, PagesBy
  <2>5. i \in PagesOf(g)
    BY <1>1, <2>2, GroupOfPage DEF PagesOf
  <2>6. QED
    BY <2>4, <2>5
<1>2. QED
  BY <1>1, ColumnInvariant, PTL

(* An out-of-order branch to a label group announces the length of the     *)
(* page that holds the group's first job, in every column.                 *)
THEOREM BranchesArrive == ColumnSpec => []BranchTargets
<1>1. ASSUME ColumnInv
      PROVE  BranchTargets
  <2>1. SUFFICES ASSUME NEW i \in DOMAIN ooo, NEW l \in DOMAIN ooo[i], NEW g \in Groups,
                        column.labels[g] = l, HasJobs(column.progs[g])
                 PROVE  /\ labelPage[l] < Len(pages)
                        /\ OnPage(FirstJob(column.progs[g]), labelPage[l] + 1)
                        /\ ooo[i][l] = pages[labelPage[l] + 1].len
    BY DEF BranchTargets
  <2>2. BranchesHere
    BY <1>1 DEF ColumnInv
  <2>3. Settled
    BY <2>1, <2>2 DEF BranchesHere
  <2>4. /\ labelPage[l] = Began(g)
        /\ Began(g) \in Nat /\ Behind(g) \in Nat /\ Behind(g) <= Len(pages)
        /\ Len(pages) \in Nat
    BY <1>1, <2>1, <2>3, SettledGroups
  <2>5. GroupOn(column.progs[g], Began(g), Behind(g))
    BY <1>1, <2>3, SettledGroups
  <2>6. Began(g) < Behind(g) /\ OnPage(FirstJob(column.progs[g]), Began(g) + 1)
    BY <2>1, <2>5 DEF GroupOn
  <2>7. labelPage[l] < Len(pages)
    BY <2>4, <2>6
  <2>8. ooo[i][l] = pages[labelPage[l] + 1].len
    BY <2>2, <2>7 DEF BranchesHere
  <2>9. QED
    BY <2>4, <2>6, <2>7, <2>8
<1>2. QED
  BY <1>1, ColumnInvariant, PTL

-----------------------------------------------------------------------------
(***************************************************************************)
(* What the encoder reads.                                                 *)
(***************************************************************************)
(* The labels of a set of jobs are those of its jobs, one by one.          *)
LEMMA LabelsOneByOne ==
  ASSUME NEW p \in ProgramType, NEW J \in SUBSET Job
  PROVE  \A l \in ExtractLabels(p, J) : \E j \in J : l \in ExtractLabels(p, {j})
<1> DEFINE all == UNION {p.refs[k] : k \in J}
           each == UNION {NamedLabels(p, {j}) : j \in J}
<1>1. p.refs \in [Job -> SUBSET Label] /\ p.lrefs \in [Label -> SUBSET Label]
  BY DEF ProgramType
<1>2. \A j \in J : /\ p.refs[j] \subseteq NamedLabels(p, {j})
                   /\ \A l \in NamedLabels(p, {j}) : p.lrefs[l] \subseteq NamedLabels(p, {j})
  <2>1. ASSUME NEW j \in J
        PROVE  /\ p.refs[j] \subseteq NamedLabels(p, {j})
               /\ \A l \in NamedLabels(p, {j}) : p.lrefs[l] \subseteq NamedLabels(p, {j})
    <3>1. {j} \in SUBSET Job /\ j \in {j}
      OBVIOUS
    <3>2. QED
      BY <3>1, NamedOfOne
  <2>2. QED
    BY <2>1
<1>3. \A j \in J : NamedLabels(p, {j}) \subseteq Label
  <2>1. ASSUME NEW j \in J
        PROVE  NamedLabels(p, {j}) \subseteq Label
    <3>1. UNION {p.refs[k] : k \in {j}} \in SUBSET Label
      BY <1>1
    <3>2. QED
      BY <1>1, <3>1, ReachStart DEF NamedLabels
  <2>2. QED
    BY <2>1
<1>4. all \in SUBSET Label /\ all \subseteq each
  BY <1>1, <1>2
<1>5. each \in SUBSET Label
  BY <1>3
<1>6. ClosedUnder(p.lrefs, each)
  BY <1>2 DEF ClosedUnder
<1>7. NamedLabels(p, J) = Reach(p.lrefs, all)
  BY DEF NamedLabels
<1> HIDE DEF all
<1>8. NamedLabels(p, J) \subseteq each
  <2> HIDE DEF each
  <2>1. QED
    BY <1>1, <1>4, <1>5, <1>6, <1>7, ReachLeast
<1>9. \A l \in NamedLabels(p, J) : \E j \in J : l \in NamedLabels(p, {j})
  BY <1>8
<1> HIDE DEF each
<1>10. ASSUME NEW l \in ExtractLabels(p, J)
       PROVE  \E j \in J : l \in ExtractLabels(p, {j})
  <2>1. CASE l \in NamedLabels(p, J)
    BY <1>9, <2>1 DEF ExtractLabels
  <2>2. CASE \E m \in NamedLabels(p, J) : l \in p.entries[m]
    BY <1>9, <2>2 DEF ExtractLabels
  <2>3. QED
    BY <1>10, <2>1, <2>2 DEF ExtractLabels
<1>11. QED
  BY <1>10

LEMMA PulledInDefined ==
  ASSUME NEW p \in ProgramType, NEW j \in Job, ~ LaunchesMissing(p, j)
  PROVE  ExtractJobs(p, j) \subseteq Defined(p)
<1>1. SUFFICES ASSUME NEW k \in LaunchTree(p, j)
               PROVE  BarrierGroup(p, k) \subseteq Defined(p)
  BY DEF ExtractJobs
<1>2. k \in Defined(p) /\ {k} \in SUBSET Job /\ Defined(p) \in SUBSET Job
  BY DEF LaunchesMissing, Defined
<1>3. ClosedUnder(BarrierPeers(p), Defined(p))
  BY DEF ClosedUnder, BarrierPeers, Defined
<1>4. BarrierPeers(p) \in [Job -> SUBSET Job]
  BY PeersType
<1>5. QED
  BY <1>2, <1>3, <1>4, ReachLeast DEF BarrierGroup

(* What a job of a group pulls in is in the group, where what two jobs     *)
(* pull in is nested.                                                      *)
LEMMA GroupPullsIn ==
  ASSUME NEW p \in ProgramType, NEW g, PulledIn(p, g, Len(p.ids) + 1), Nested(p),
         NEW k \in g.jobs
  PROVE  k \in Defined(p) /\ ExtractJobs(p, k) \subseteq g.jobs
<1>1. p.ids \in Seq(Job \cup {Eop, Eof})
  BY DEF ProgramType
<1>2. DOMAIN p.ids = 1 .. Len(p.ids) /\ Len(p.ids) \in Nat
  BY <1>1
<1>3. PICK n \in 1 .. Len(p.ids) + 1 - 1 :
        /\ p.ids[n] \in Job /\ g = Group(p, p.ids[n])
        /\ ~ LaunchesMissing(p, p.ids[n])
        /\ Nested(p) => \A m \in 1 .. n - 1 : p.ids[m] \in Job => p.ids[m] \notin g.jobs
  BY DEF PulledIn
<1>4. g.jobs = ExtractJobs(p, p.ids[n])
  BY <1>3, GroupHasType
<1>5. k \in Defined(p)
  BY <1>3, <1>4, PulledInDefined
<1>6. PICK m \in DOMAIN p.ids : p.ids[m] = k
  BY <1>5 DEF Defined
<1>7. k \in Job /\ k \in ExtractJobs(p, k)
  BY <1>5, ExtractJobsType DEF Defined
<1>8. n \in DOMAIN p.ids
  BY <1>2, <1>3
<1>9. ~ m < n
  <2>1. m < n => m \in 1 .. n - 1
    BY <1>2, <1>6, <1>8
  <2>2. QED
    BY <1>3, <1>6, <1>7, <2>1
<1>10. CASE m = n
  BY <1>4, <1>5, <1>6, <1>10
<1>11. CASE m # n
  <2>1. n < m
    BY <1>2, <1>6, <1>8, <1>9, <1>11
  <2>2. \/ ExtractJobs(p, p.ids[n]) \cap ExtractJobs(p, k) = {}
        \/ ExtractJobs(p, k) \subseteq ExtractJobs(p, p.ids[n])
    BY <1>3, <1>6, <1>7, <1>8, <2>1 DEF Nested
  <2>3. QED
    BY <1>4, <1>5, <1>7, <2>2
<1>12. QED
  BY <1>10, <1>11

(* What a group of a page is: a set of jobs that pull in each other, with  *)
(* the labels of all of them.                                              *)
LEMMA DrawnGroup ==
  ASSUME NEW p \in ProgramType, NEW g, PulledIn(p, g, Len(p.ids) + 1)
  PROVE  \E j \in Job :
           /\ g.jobs = ExtractJobs(p, j) /\ j \in g.jobs /\ g.jobs \in SUBSET Job
           /\ g.labels = ExtractLabels(p, g.jobs) /\ g.labels \in SUBSET Label
           /\ g = Group(p, j)
<1>1. PICK n \in 1 .. Len(p.ids) + 1 - 1 : p.ids[n] \in Job /\ g = Group(p, p.ids[n])
  BY DEF PulledIn
<1>2. /\ g.jobs = ExtractJobs(p, p.ids[n]) /\ g \in GroupType
  BY <1>1, GroupHasType
<1>3. p.ids[n] \in g.jobs
  BY <1>1, <1>2, ExtractJobsType
<1>4. g.labels = ExtractLabels(p, g.jobs)
  BY <1>1, <1>2 DEF Group
<1>5. QED
  BY <1>1, <1>2, <1>3, <1>4 DEF GroupType

LEMMA LabelsApart ==
  ASSUME NEW p \in ProgramType, Unambiguous(p), NEW gs, Drawn(p, gs, Len(p.ids) + 1),
         NEW a \in DOMAIN gs, NEW b \in DOMAIN gs, a # b
  PROVE  gs[a].labels \cap gs[b].labels = {}
<1>1. Nested(p) /\ PulledIn(p, gs[a], Len(p.ids) + 1) /\ PulledIn(p, gs[b], Len(p.ids) + 1)
  BY DEF Unambiguous, Drawn
<1>2. gs[a].jobs \cap gs[b].jobs = {}
  BY <1>1 DEF Drawn, GroupsApart
<1>3. /\ gs[a].labels = ExtractLabels(p, gs[a].jobs) /\ gs[a].jobs \in SUBSET Job
      /\ gs[b].labels = ExtractLabels(p, gs[b].jobs) /\ gs[b].jobs \in SUBSET Job
  BY <1>1, DrawnGroup
<1>4. SUFFICES ASSUME NEW l \in gs[a].labels, l \in gs[b].labels
               PROVE  FALSE
  OBVIOUS
<1>5. PICK j \in gs[a].jobs : l \in ExtractLabels(p, {j})
  BY <1>3, <1>4, LabelsOneByOne
<1>6. PICK k \in gs[b].jobs : l \in ExtractLabels(p, {k})
  BY <1>3, <1>4, LabelsOneByOne
<1>7. /\ j \in Defined(p) /\ ExtractJobs(p, j) \subseteq gs[a].jobs
      /\ k \in Defined(p) /\ ExtractJobs(p, k) \subseteq gs[b].jobs
  BY <1>1, GroupPullsIn
<1>8. j \in ExtractJobs(p, k) \/ k \in ExtractJobs(p, j)
  BY <1>5, <1>6, <1>7 DEF Unambiguous
<1>9. QED
  BY <1>2, <1>7, <1>8

LEMMA DrawnDistinct ==
  ASSUME NEW p \in ProgramType, Unambiguous(p), OneFile, NEW page,
         Drawn(p, page.groups, Len(p.ids) + 1)
  PROVE  NamesDistinct(page)
<1>1. Nested(p) /\ GroupsApart(page.groups)
  BY DEF Unambiguous, Drawn
<1>2. ASSUME NEW a \in DOMAIN page.groups
      PROVE  page.groups[a].jobs \in SUBSET Job /\ page.groups[a].labels \in SUBSET Label
  <2>1. PulledIn(p, page.groups[a], Len(p.ids) + 1)
    BY DEF Drawn
  <2>2. QED
    BY <2>1, DrawnGroup
<1>3. ASSUME NEW a \in DOMAIN page.groups, NEW b \in DOMAIN page.groups,
             NEW j \in page.groups[a].jobs, NEW k \in page.groups[b].jobs,
             <<a, j>> # <<b, k>>
      PROVE  JobName[j] # JobName[k]
  <2>1. j # k
    <3>1. CASE a = b
      BY <1>3, <3>1
    <3>2. CASE a # b
      BY <1>1, <3>2 DEF GroupsApart
    <3>3. QED
      BY <3>1, <3>2
  <2>2. QED
    BY <1>2, <2>1 DEF OneFile
<1>4. ASSUME NEW a \in DOMAIN page.groups, NEW b \in DOMAIN page.groups,
             NEW l \in page.groups[a].labels, NEW m \in page.groups[b].labels,
             <<a, l>> # <<b, m>>
      PROVE  LabelName[l] # LabelName[m]
  <2>1. l # m
    <3>1. CASE a = b
      BY <1>4, <3>1
    <3>2. CASE a # b
      BY <3>2, LabelsApart
    <3>3. QED
      BY <3>1, <3>2
  <2>2. QED
    BY <1>2, <2>1 DEF OneFile
<1>5. QED
  BY <1>3, <1>4 DEF NamesDistinct

(* The labels a group names, in its text and in its data, are in the group.*)
LEMMA DrawnResolved ==
  ASSUME NEW p \in ProgramType, Unambiguous(p), NEW g, PulledIn(p, g, Len(p.ids) + 1)
  PROVE  /\ \A j \in g.jobs : p.refs[j] \subseteq g.labels
         /\ \A l \in g.labels : p.lrefs[l] \subseteq g.labels
<1>1. PICK j \in Job :
        /\ g.jobs = ExtractJobs(p, j) /\ j \in g.jobs /\ g.jobs \in SUBSET Job
        /\ g.labels = ExtractLabels(p, g.jobs) /\ g.labels \in SUBSET Label
        /\ g = Group(p, j)
  BY DrawnGroup
<1>2. \A k \in g.jobs : p.refs[k] \subseteq g.labels
  BY <1>1, GroupHoldsData
<1>3. \A l \in NamedLabels(p, g.jobs) : p.lrefs[l] \subseteq NamedLabels(p, g.jobs)
  BY <1>1, NamedOfOne
<1>4. \A l, m \in Label : m \in p.entries[l] => p.lrefs[m] = {}
  BY DEF Unambiguous
<1>5. NamedLabels(p, g.jobs) \subseteq g.labels
  BY <1>1 DEF ExtractLabels
<1>6. ASSUME NEW l \in g.labels
      PROVE  p.lrefs[l] \subseteq g.labels
  <2>1. CASE l \in NamedLabels(p, g.jobs)
    BY <1>3, <1>5, <2>1
  <2>2. CASE l \notin NamedLabels(p, g.jobs)
    <3>1. PICK m \in NamedLabels(p, g.jobs) : l \in p.entries[m]
      BY <1>1, <2>2 DEF ExtractLabels
    <3>2. p.lrefs[l] = {}
      BY <1>1, <1>4, <1>5, <3>1
    <3>3. QED
      BY <3>2
  <2>3. QED
    BY <2>1, <2>2
<1>7. QED
  BY <1>2, <1>6

(* A page the pager emitted for an unambiguous program of one file is      *)
(* accepted when it is encoded: it holds no name twice and every label its *)
(* text and its data name, in every column.                                *)
THEOREM EncoderAccepts == ColumnSpec => []EncoderAcceptsPages
<1>1. ASSUME ColumnInv
      PROVE  EncoderAcceptsPages
  <2>1. SUFFICES ASSUME stage = "encoding", OneFile, NEW i \in DOMAIN pages,
                        Unambiguous(column.progs[GroupOf(i)])
                 PROVE  NamesDistinct(pages[i]) /\ NamesResolved(i)
    BY DEF EncoderAcceptsPages
  <2>2. Settled
    BY <1>1, <2>1 DEF ColumnInv, AllPaged
  <2>3. PICK g \in Groups : i \in PagesBy(g)
    BY <1>1, <2>2, SettledGroups
  <2>4. GroupOf(i) = g
    BY <1>1, <2>2, <2>3, GroupOfPage
  <2> DEFINE p == column.progs[g]
             gs == pages[i].groups
  <2>5. Drawn(p, gs, Len(p.ids) + 1)
    BY <1>1, <2>2, <2>3, SettledGroups DEF GroupOn, PagesBy
  <2>6. p \in ProgramType
    BY <1>1, ColumnFacts DEF ColumnInv, ColumnTypeOK
  <2>7. Unambiguous(p) /\ p = column.progs[GroupOf(i)]
    BY <2>1, <2>4
  <2> HIDE DEF p
  <2>8. NamesDistinct(pages[i])
    BY <2>1, <2>5, <2>6, <2>7, DrawnDistinct
  <2>9. ASSUME NEW a \in DOMAIN gs
        PROVE  /\ \A j \in gs[a].jobs : p.refs[j] \subseteq LabelsOf(gs)
               /\ \A l \in gs[a].labels : p.lrefs[l] \subseteq LabelsOf(gs)
    <3>1. PulledIn(p, gs[a], Len(p.ids) + 1)
      BY <2>5 DEF Drawn
    <3>2. /\ \A j \in gs[a].jobs : p.refs[j] \subseteq gs[a].labels
          /\ \A l \in gs[a].labels : p.lrefs[l] \subseteq gs[a].labels
      BY <2>6, <2>7, <3>1, DrawnResolved
    <3>3. gs[a].labels \subseteq LabelsOf(gs)
      BY DEF LabelsOf
    <3>4. QED
      BY <3>2, <3>3
  <2>10. \A j \in JobsOf(gs) : p.refs[j] \subseteq LabelsOf(gs)
    BY <2>9 DEF JobsOf
  <2>11. \A l \in LabelsOf(gs) : p.lrefs[l] \subseteq LabelsOf(gs)
    BY <2>9 DEF LabelsOf
  <2>12. NamesResolved(i)
    <3>1. ASSUME NEW l \in (UNION {p.refs[j] : j \in JobsOf(gs)})
                             \cup (UNION {p.lrefs[m] : m \in LabelsOf(gs)})
          PROVE  LabelName[l] \in {LabelName[m] : m \in LabelsOf(gs)}
      <4>1. l \in LabelsOf(gs)
        BY <2>10, <2>11, <3>1
      <4>2. QED
        BY <4>1
    <3>2. QED
      BY <2>7, <3>1 DEF NamesResolved
  <2>13. QED
    BY <2>8, <2>12
<1>2. QED
  BY <1>1, ColumnInvariant, PTL
=============================================================================
