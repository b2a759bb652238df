------------------------------- MODULE Pager -------------------------------
(***************************************************************************)
(* pager::pagify: one pass over m_jobids that packs the jobs of a label    *)
(* group, with everything extractjobsandlabels finds for them, into pages  *)
(* of PageSize bytes.  Each disjunct of Pagify is one way through the loop *)
(* body; assignpagenumber, called from three places, is Conclude.          *)
(*                                                                         *)
(* The pages vector belongs to the caller and already holds the pages of   *)
(* the label groups before this one: rel (relative_page_index) of them.    *)
(***************************************************************************)
EXTENDS JobGraph

CONSTANTS
  PageSize,   (* m_page_size, 8192 bytes in the program                    *)
  Programs    (* the programs the pager may be given                       *)

ASSUME PageSizeAssumption == PageSize \in Nat /\ PageSize % 4 = 0
ASSUME ProgramsAssumption == Programs \subseteq ProgramType

NoPage == -1

(* The sizes of pager.h: page header, eof token, alignment of the data.    *)
PAGE_HEADER_SIZE == 16
EOF_SIZE == 4
DATA_SECTION_ALIGNMENT == 16

VARIABLES
  prog,       (* the program; never changes                                *)
  rel,        (* relative_page_index: pages of earlier label groups        *)
  cursor,     (* the position of the loop in m_jobids                      *)
  open,       (* the groups on the page being filled (page_jobs, ...)      *)
  tsize,      (* page_tsize                                                *)
  dsize,      (* page_dsize                                                *)
  pageOf,     (* job::m_pagenum                                            *)
  pageIndex,  (* page_index                                                *)
  pages,      (* the concluded pages                                       *)
  status      (* "paging", "done", or how pagify ended: "error" for a      *)
              (* thrown error, "crashed" for a null or an endless recursion*)

pvars == <<prog, rel, cursor, open, tsize, dsize, pageOf, pageIndex, pages, status>>

-----------------------------------------------------------------------------
(* The padding that aligns the data after `size' bytes of text and an eof. *)
datasectionaligner(size) ==
  LET over == (size + EOF_SIZE) % DATA_SECTION_ALIGNMENT
  IN  IF over > 0 THEN DATA_SECTION_ALIGNMENT - over ELSE 0

(* The bytes of a page with `t' bytes of text and `d' bytes of data, as    *)
(* the two checks of the loop compute it.                                  *)
Footprint(t, d) == PAGE_HEADER_SIZE + t + EOF_SIZE + datasectionaligner(t) + d

(* The same as assignpagenumber records it: the padding only in front of   *)
(* data, and rounded up to a multiple of 4.                                *)
PageLength(t, d) ==
  LET aligner == IF d # 0 THEN datasectionaligner(t) ELSE 0
  IN  ((PAGE_HEADER_SIZE + t + EOF_SIZE + aligner + d + 3) \div 4) * 4

JobsOf(gs) == UNION {gs[i].jobs : i \in DOMAIN gs}

PageType ==
  [num : Nat, groups : Seq(GroupType), last : BOOLEAN, len : Nat, inorder : Nat]

Current == prog.ids[cursor]

TextSize(g) == prog.text[g.jobs]
DataSize(g) == prog.data[g.labels]

-----------------------------------------------------------------------------
(***************************************************************************)
(* assignpagenumber: conclude the page being filled.  Its length becomes   *)
(* the in-order length of the page before it in the same label group.      *)
(***************************************************************************)
HasEof == \E i \in DOMAIN prog.ids : prog.ids[i] = Eof

KeepPages == UNCHANGED <<pageOf, pages, pageIndex>>

Announce(page, len) == [page EXCEPT !.inorder = len]

AsLast(page) == [page EXCEPT !.last = TRUE]

(* Mutation: the last page of a label group is told the length of the      *)
(* first page of the next group.                                           *)
ChainedAcross(len) ==
  IF Len(pages) > 0 THEN [pages EXCEPT ![Len(pages)] = Announce(@, len)] ELSE pages

Chained(len) ==
  LET n == Len(pages)
  IN  IF n > 0 /\ n - 1 >= rel THEN [pages EXCEPT ![n] = Announce(@, len)] ELSE pages

NumberJobs == [j \in Job |-> IF j \in JobsOf(open) THEN pageIndex ELSE pageOf[j]]

Conclude(last) ==
  IF open = <<>> THEN KeepPages
  ELSE LET len == PageLength(tsize, dsize)
       IN  /\ HasEof
           /\ pageOf' = NumberJobs
           /\ pages' = Append(Chained(len), [num |-> pageIndex, groups |-> open, last |-> last,
                                             len |-> len, inorder |-> 0])
           /\ pageIndex' = pageIndex + 1

Refill(gs, t, d) == open' = gs /\ tsize' = t /\ dsize' = d

(* Mutation: the loop skips every other entry.                             *)
AdvanceTwice ==
  /\ cursor' = cursor + 2
  /\ UNCHANGED <<prog, rel, status>>

Advance ==
  /\ cursor' = cursor + 1
  /\ UNCHANGED <<prog, rel, status>>

-----------------------------------------------------------------------------
Looping == status = "paging" /\ cursor <= Len(prog.ids)

(* Mutation: jobs on the page being filled are not looked up.              *)
TakenBefore(j) == j \in Job /\ pageOf[j] # NoPage

Taken(j) == j \in Job /\ (pageOf[j] # NoPage \/ j \in JobsOf(open))

(* The job is on a page already, on the page being filled, or is the eof.  *)
SkipJob ==
  /\ Looping
  /\ Current # Eop
  /\ Current = Eof \/ Taken(Current)
  /\ Advance
  /\ KeepPages
  /\ UNCHANGED <<open, tsize, dsize>>

(* An .eop with nothing on the page being filled.                          *)
SkipEop ==
  /\ Looping
  /\ Current = Eop
  /\ open = <<>>
  /\ Advance
  /\ KeepPages
  /\ UNCHANGED <<open, tsize, dsize>>

(* Mutation: .eop clears the page being filled without concluding it.      *)
DropAtEop ==
  /\ Looping
  /\ Current = Eop
  /\ open # <<>>
  /\ KeepPages
  /\ Refill(<<>>, 0, 0)
  /\ Advance

ConcludeAtEop ==
  /\ Looping
  /\ Current = Eop
  /\ open # <<>>
  /\ Conclude(FALSE)
  /\ Refill(<<>>, 0, 0)
  /\ Advance

NewJob == Looping /\ Current \in Job /\ ~ Taken(Current)

JobsExtracted(j) ==
  ~ LaunchesItself(prog, j) /\ ~ LaunchesMissing(prog, j) /\ ~ SplitByEop(prog, j)

Extractable(j) ==
  /\ JobsExtracted(j)
  /\ LET J == ExtractJobs(prog, j)
     IN  ~ LabelNotFound(prog, J) /\ ~ LabelsLoop(prog, J) /\ ~ LabelUntyped(prog, J)

FitsAlone(g) == Footprint(TextSize(g), DataSize(g)) <= PageSize

(* Mutation: the padding in front of the data is forgotten.                *)
FitsUnaligned(g) ==
  PAGE_HEADER_SIZE + tsize + TextSize(g) + EOF_SIZE + dsize + DataSize(g) <= PageSize

FitsOpen(g) == Footprint(tsize + TextSize(g), dsize + DataSize(g)) <= PageSize

(* The job and its group join the page being filled.                       *)
AddToPage ==
  /\ NewJob
  /\ Extractable(Current)
  /\ LET g == Group(prog, Current)
     IN  /\ FitsAlone(g) /\ FitsOpen(g)
         /\ Refill(Append(open, g), tsize + TextSize(g), dsize + DataSize(g))
  /\ KeepPages
  /\ Advance

(* Mutation: the job whose group did not fit is forgotten.                 *)
StartEmptyPage ==
  /\ NewJob
  /\ Extractable(Current)
  /\ LET g == Group(prog, Current) IN FitsAlone(g) /\ ~ FitsOpen(g)
  /\ Refill(<<>>, 0, 0)
  /\ Conclude(FALSE)
  /\ Advance

(* The group no longer fits: conclude the page and start one with it.      *)
StartNextPage ==
  /\ NewJob
  /\ Extractable(Current)
  /\ LET g == Group(prog, Current)
     IN  /\ FitsAlone(g) /\ ~ FitsOpen(g)
         /\ Refill(<<g>>, TextSize(g), DataSize(g))
  /\ Conclude(FALSE)
  /\ Advance

Stop(outcome) ==
  /\ status' = outcome
  /\ UNCHANGED <<prog, rel, cursor, open, tsize, dsize>>
  /\ KeepPages

(* The errors thrown for a job: a peer behind an .eop, a label that is     *)
(* missing or has no alignment, a group larger than a page.                *)
RejectJob ==
  /\ NewJob
  /\ LET J == ExtractJobs(prog, Current)
     IN  \/ SplitByEop(prog, Current)
         \/ JobsExtracted(Current) /\ LabelNotFound(prog, J)
         \/ /\ JobsExtracted(Current)
            /\ ~ LabelNotFound(prog, J) /\ ~ LabelsLoop(prog, J) /\ LabelUntyped(prog, J)
         \/ Extractable(Current) /\ ~ FitsAlone(Group(prog, Current))
  /\ Stop("error")

(* A launched job that does not exist, or a cycle of launches or labels.   *)
(* Where a crash and an error are both on the way, the order in which the  *)
(* code walks its lists decides; either may come first here.               *)
CrashOnJob ==
  /\ NewJob
  /\ \/ LaunchesMissing(prog, Current)
     \/ LaunchesItself(prog, Current)
     \/ JobsExtracted(Current) /\ LabelsLoop(prog, ExtractJobs(prog, Current))
  /\ Stop("crashed")

NothingLeft == status = "paging" /\ cursor > Len(prog.ids)

(* A page is to be concluded but the source has no eof.                    *)
RejectNoEof ==
  /\ ~ HasEof
  /\ \/ Looping /\ Current = Eop /\ open # <<>>
     \/ /\ open # <<>> /\ NewJob /\ Extractable(Current)
        /\ FitsAlone(Group(prog, Current)) /\ ~ FitsOpen(Group(prog, Current))
     \/ NothingLeft /\ open # <<>>
  /\ Stop("error")

ConcludeLast ==
  /\ NothingLeft
  /\ open # <<>>
  /\ Conclude(TRUE)
  /\ Refill(<<>>, 0, 0)
  /\ status' = "done"
  /\ UNCHANGED <<prog, rel, cursor>>

(* Mutation: a page concluded by an .eop is never marked as the last one.  *)
MarkNothing ==
  /\ NothingLeft
  /\ open = <<>>
  /\ status' = "done"
  /\ UNCHANGED <<prog, rel, cursor, open, tsize, dsize, pageOf, pageIndex, pages>>

(* The page was concluded by an .eop: mark it as last afterwards.  The     *)
(* index counts from the first page of the label group, the vector from    *)
(* the first page of the column.                                           *)
MarkLast ==
  /\ NothingLeft
  /\ open = <<>>
  /\ pages' = IF pageIndex - rel > 0
              THEN [pages EXCEPT ![pageIndex - rel] = AsLast(@)] ELSE pages
  /\ status' = "done"
  /\ UNCHANGED <<prog, rel, cursor, open, tsize, dsize, pageOf, pageIndex>>

Pagify ==
  \/ SkipJob \/ SkipEop \/ ConcludeAtEop
  \/ AddToPage \/ StartNextPage
  \/ RejectJob \/ CrashOnJob \/ RejectNoEof
  \/ ConcludeLast \/ MarkLast

Begin(p, n) ==
  /\ prog = p
  /\ rel = n
  /\ cursor = 1
  /\ open = <<>>
  /\ tsize = 0 /\ dsize = 0
  /\ pageOf = [j \in Job |-> NoPage]
  /\ pageIndex = n
  /\ status = "paging"

Init == /\ \E p \in Programs : Begin(p, 0)
        /\ pages = <<>>

Ended == status # "paging" /\ UNCHANGED pvars

Next == Pagify \/ Ended

Spec == Init /\ [][Next]_pvars

-----------------------------------------------------------------------------
TypeOK ==
  /\ prog \in ProgramType
  /\ rel \in Nat
  /\ cursor \in 1 .. Len(prog.ids) + 1
  /\ open \in Seq(GroupType)
  /\ tsize \in Nat /\ dsize \in Nat
  /\ pageOf \in [Job -> Nat \cup {NoPage}]
  /\ pageIndex \in Nat
  /\ pages \in Seq(PageType)
  /\ status \in {"paging", "done", "error", "crashed"}

-----------------------------------------------------------------------------
(***************************************************************************)
(* The promise of PageStream.  Jobs that share a barrier are peers; the    *)
(* jobs of the groups on a page are its contents.                          *)
(***************************************************************************)
Stream ==
  INSTANCE PageStream WITH
    wanted   <- Defined(prog),
    peers    <- BarrierPeers(prog),
    shipped  <- [i \in DOMAIN pages |-> JobsOf(pages[i].groups)],
    building <- JobsOf(open),
    phase    <- CASE status = "paging" -> "streaming"
                  [] status = "done"   -> "complete"
                  [] OTHER             -> "failed"

-----------------------------------------------------------------------------
(***************************************************************************)
(* Properties.                                                             *)
(***************************************************************************)
OnPage(j, i) == j \in JobsOf(pages[i].groups)

(* A page is loaded into PageSize bytes: header, text, eof, padding and    *)
(* data of everything put on it never exceed them, whatever joined the     *)
(* page after the first group (the two size checks of pagify).             *)
PageFits == \A i \in DOMAIN pages : pages[i].len <= PageSize

(* isa-spec: a page has no barrier dependency on a following page.  Jobs   *)
(* that share a barrier, directly or through others, are on one page.      *)
BarriersStayOnPage ==
  \A i \in DOMAIN pages : \A j, k \in Defined(prog) :
    (OnPage(j, i) /\ prog.lbs[j] \cap prog.lbs[k] # {}) => OnPage(k, i)

(* Nothing is lost: when pagify returns, every job of the source is on a   *)
(* page, whether the loop met it or another job pulled it in.              *)
EveryJobPlaced ==
  status = "done" => \A j \in Defined(prog) : \E i \in DOMAIN pages : OnPage(j, i)

(* For two jobs, what the later one pulls in is new or was all pulled in   *)
(* with the earlier one.                                                   *)
Nested(p) ==
  \A a, b \in DOMAIN p.ids :
    (a < b /\ p.ids[a] \in Job /\ p.ids[b] \in Job) =>
      \/ ExtractJobs(p, p.ids[a]) \cap ExtractJobs(p, p.ids[b]) = {}
      \/ ExtractJobs(p, p.ids[b]) \subseteq ExtractJobs(p, p.ids[a])

(* In such programs, above all in those without launches, no job is put    *)
(* twice on a page or on two pages.                                        *)
PlacedOnce ==
  \/ /\ \A i, m \in DOMAIN pages :
          i # m => JobsOf(pages[i].groups) \cap JobsOf(pages[m].groups) = {}
     /\ \A i \in DOMAIN pages : \A a, b \in DOMAIN pages[i].groups :
          a # b => pages[i].groups[a].jobs \cap pages[i].groups[b].jobs = {}
  \/ ~ Nested(prog)

(* .eop ends the page: as long as no job launches another one across an    *)
(* .eop, the jobs of a page come from between two .eop directives.         *)
EopEndsPage ==
  \/ \A i \in DOMAIN pages : \A j, k \in Defined(prog) :
       (OnPage(j, i) /\ OnPage(k, i)) => EopNum(prog, j) = EopNum(prog, k)
  \/ \E j \in Defined(prog) : \E k \in prog.launch[j] \cap Defined(prog) :
       EopNum(prog, j) # EopNum(prog, k)

(* When pagify returns, exactly the final page is marked as the last one,  *)
(* also when an .eop concluded it; checked for the first label group.      *)
LastPageMarked ==
  (status = "done" /\ rel = 0) =>
    \A i \in DOMAIN pages : pages[i].last = (i = Len(pages))

(* The data goes with the text: a page holds the labels its jobs name, and *)
(* the labels named by the data of these labels, with the other entries of *)
(* their patch tables; the encoder resolves label names page by page.      *)
LabelsOf(gs) == UNION {gs[a].labels : a \in DOMAIN gs}

DataWithJobs ==
  \A i \in DOMAIN pages :
    LET here == LabelsOf(pages[i].groups)
    IN  \A j \in JobsOf(pages[i].groups) :
          /\ prog.refs[j] \subseteq here
          /\ \A l \in NamedLabels(prog, {j}) :
               prog.lrefs[l] \cup prog.entries[l] \subseteq here

(* The pages are a page stream: a concluded page never changes, every      *)
(* group brings a new job and all its barrier peers, and the stream is     *)
(* complete only when every job of the source is on a page.                *)
ImplementsStream == Stream!Spec

(* pager.cpp: jobs and labels that are on the page already are not put     *)
(* there a second time, even if several jobs depend on them.               *)
NothingTwiceOnPage ==
  \A i \in DOMAIN pages : \A a, b \in DOMAIN pages[i].groups :
    a # b => /\ pages[i].groups[a].jobs \cap pages[i].groups[b].jobs = {}
             /\ pages[i].groups[a].labels \cap pages[i].groups[b].labels = {}

=============================================================================
