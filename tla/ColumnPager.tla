---------------------------- MODULE ColumnPager ----------------------------
(***************************************************************************)
(* One column of the control code: aie2ps_preprocessor::process_internal   *)
(* pages the label groups of the column one after the other into one       *)
(* vector of pages (Pager does each of them), lays out the scratch pads    *)
(* behind the pages, and resolves the out-of-order branches of the pages;  *)
(* then aie2ps_encoder::process encodes the pages one by one, each with    *)
(* an assembler_state of its own, and fills the scratch pads.              *)
(*                                                                         *)
(* A column is a record: labels, the label groups in the order of the map  *)
(* (their page labels); progs, the program of each group; pads, the sizes  *)
(* of the scratch pads in the order of the map.  A job is named by its     *)
(* file and its number, a label by its file and its name; JobName and      *)
(* LabelName drop the file, as gen_job_name and gen_label_name do when the *)
(* encoder reads a page.                                                   *)
(***************************************************************************)
EXTENDS Pager

CONSTANTS Columns, JobName, LabelName,
  Garbage     (* what reading a length beyond the pages vector may give    *)

(* A column of the map without a label group has no pages: left out.       *)
ASSUME ColumnsAssumption ==
  \A c \in Columns :
    /\ c.progs \in Seq(ProgramType) /\ c.progs # <<>>
    /\ c.labels \in Seq(PageLabel) /\ Len(c.labels) = Len(c.progs)
    /\ c.pads \in Seq(Nat)
    /\ \A g, h \in DOMAIN c.labels : g # h => c.labels[g] # c.labels[h]

WORD_SIZE == 4

VARIABLES
  column,     (* the column; never changes                                 *)
  group,      (* the label group being paged                               *)
  labelPage,  (* label_page_index of the groups of the column              *)
  padOffset,  (* the offsets of the pads laid out, in order                *)
  padSize,    (* pad_size                                                  *)
  ooo,        (* for the pages done, the lengths of the pages branched to  *)
  encoded,    (* pages encoded                                             *)
  filled,     (* the positions at which the pads' contents were written    *)
  stage       (* "groups", "pads", "branches", "encoding", "filling",      *)
              (* "done", "error" or "crashed"                              *)

cvars == <<column, group, labelPage, padOffset, padSize, ooo, encoded, filled, stage>>
vars == <<pvars, cvars>>

-----------------------------------------------------------------------------
Groups == DOMAIN column.progs

(* One step of the pager for the current label group.                      *)
PageGroup ==
  /\ stage = "groups"
  /\ Pagify
  /\ UNCHANGED cvars

(* Mutation: pages are numbered from 0 in every label group.               *)
RestartNumbers(p, n) ==
  /\ prog' = p /\ rel' = n
  /\ cursor' = 1
  /\ open' = <<>> /\ tsize' = 0 /\ dsize' = 0
  /\ pageOf' = [j \in Job |-> NoPage]
  /\ pageIndex' = 0
  /\ status' = "paging"

(* The pager begins again, with a fresh assembler_state for program p and  *)
(* n pages before it.                                                      *)
Restart(p, n) ==
  /\ prog' = p
  /\ rel' = n
  /\ cursor' = 1
  /\ open' = <<>>
  /\ tsize' = 0 /\ dsize' = 0
  /\ pageOf' = [j \in Job |-> NoPage]
  /\ pageIndex' = n
  /\ status' = "paging"

GroupPaged == stage = "groups" /\ status = "done"

(* Mutation: the base of the next group is not moved behind the pages.     *)
NextGroupSameBase ==
  /\ GroupPaged
  /\ group < Len(column.progs)
  /\ labelPage' = [labelPage EXCEPT ![column.labels[group]] = rel]
  /\ group' = group + 1
  /\ Restart(column.progs[group + 1], rel)
  /\ UNCHANGED <<pages, column, padOffset, padSize, ooo, encoded, filled, stage>>

(* Mutation: the base is moved before it is recorded for the group.        *)
NextGroupLateBase ==
  /\ GroupPaged
  /\ group < Len(column.progs)
  /\ labelPage' = [labelPage EXCEPT ![column.labels[group]] = Len(pages)]
  /\ group' = group + 1
  /\ Restart(column.progs[group + 1], Len(pages))
  /\ UNCHANGED <<pages, column, padOffset, padSize, ooo, encoded, filled, stage>>

(* The group starts at the page where it began; the next one begins behind *)
(* the pages there are now, with a fresh assembler_state.                  *)
NextGroup ==
  /\ GroupPaged
  /\ group < Len(column.progs)
  /\ labelPage' = [labelPage EXCEPT ![column.labels[group]] = rel]
  /\ group' = group + 1
  /\ Restart(column.progs[group + 1], Len(pages))
  /\ UNCHANGED <<pages, column, padOffset, padSize, ooo, encoded, filled, stage>>

LastGroup ==
  /\ GroupPaged
  /\ group = Len(column.progs)
  /\ labelPage' = [labelPage EXCEPT ![column.labels[group]] = rel]
  /\ rel' = Len(pages)
  /\ stage' = "pads"
  /\ UNCHANGED <<prog, cursor, open, tsize, dsize, pageOf, pageIndex, pages, status>>
  /\ UNCHANGED <<column, group, padOffset, padSize, ooo, encoded, filled>>

GroupFails ==
  /\ stage = "groups"
  /\ status \in {"error", "crashed"}
  /\ stage' = status
  /\ UNCHANGED <<pvars, column, group, labelPage, padOffset, padSize, ooo, encoded, filled>>

-----------------------------------------------------------------------------
RoundUp(n) == ((n + WORD_SIZE - 1) \div WORD_SIZE) * WORD_SIZE

(* The base of every pad, PAGE_SIZE times the number of pages, is the same *)
(* and left out: an offset counts from it.                                 *)
PlacePad ==
  /\ stage = "pads"
  /\ Len(padOffset) < Len(column.pads)
  /\ padOffset' = Append(padOffset, RoundUp(padSize))
  /\ padSize' = RoundUp(padSize) + column.pads[Len(padOffset) + 1]
  /\ UNCHANGED <<pvars, column, group, labelPage, ooo, encoded, filled, stage>>

PadsPlaced ==
  /\ stage = "pads"
  /\ Len(padOffset) = Len(column.pads)
  /\ stage' = "branches"
  /\ UNCHANGED <<pvars, column, group, labelPage, padOffset, padSize, ooo, encoded, filled>>

-----------------------------------------------------------------------------
(* The list of page labels on a page (m_externallabels): those of one      *)
(* group are distinct, those of two groups are simply put one after the    *)
(* other, so a target may be listed twice.                                 *)
Targets(page) == UNION {page.groups[a].ooo : a \in DOMAIN page.groups}

TargetCount(page) ==
  LET upto[a \in 0 .. Len(page.groups)] ==
        IF a = 0 THEN 0 ELSE upto[a - 1] + Cardinality(page.groups[a].ooo)
  IN  upto[Len(page.groups)]

Branching == stage = "branches" /\ Len(ooo) < Len(pages)

BranchPage == pages[Len(ooo) + 1]

BranchesValid ==
  /\ TargetCount(BranchPage) <= 2
  /\ Targets(BranchPage) \subseteq DOMAIN labelPage

(* The header tells the length of the first page of every target, read at  *)
(* label_page_index; behind the last page this reads beyond the vector.    *)
ResolveBranches ==
  /\ Branching
  /\ BranchesValid
  /\ \E garbage \in Garbage :
       ooo' = Append(ooo, [l \in Targets(BranchPage) |->
                IF labelPage[l] < Len(pages) THEN pages[labelPage[l] + 1].len ELSE garbage])
  /\ UNCHANGED <<pvars, column, group, labelPage, padOffset, padSize, encoded, filled, stage>>

(* More than two targets, or a label that is not in this column.           *)
RejectBranches ==
  /\ Branching
  /\ ~ BranchesValid
  /\ stage' = "error"
  /\ UNCHANGED <<pvars, column, group, labelPage, padOffset, padSize, ooo, encoded, filled>>

CrashOnBranch ==
  /\ Branching
  /\ BranchesValid
  /\ \E l \in Targets(BranchPage) : labelPage[l] >= Len(pages)
  /\ stage' = "crashed"
  /\ UNCHANGED <<pvars, column, group, labelPage, padOffset, padSize, ooo, encoded, filled>>

BranchesResolved ==
  /\ stage = "branches"
  /\ Len(ooo) = Len(pages)
  /\ stage' = "encoding"
  /\ UNCHANGED <<pvars, column, group, labelPage, padOffset, padSize, ooo, encoded, filled>>

-----------------------------------------------------------------------------
(* page_writer: the assembler_state of the page throws when a job or a     *)
(* label, now without its file, is there twice; the serializers throw when *)
(* a label of the page's text or data is not on the page.                  *)
GroupOf(i) ==
  CHOOSE g \in Groups :
    /\ labelPage[column.labels[g]] < i
    /\ \A h \in Groups : labelPage[column.labels[h]] < i => h <= g

(* Every entry of the list names something else.                           *)
NamesDistinct(page) ==
  /\ \A a, b \in DOMAIN page.groups :
       /\ \A j \in page.groups[a].jobs, k \in page.groups[b].jobs :
            <<a, j>> # <<b, k>> => JobName[j] # JobName[k]
       /\ \A l \in page.groups[a].labels, m \in page.groups[b].labels :
            <<a, l>> # <<b, m>> => LabelName[l] # LabelName[m]

NamesResolved(i) ==
  LET p == column.progs[GroupOf(i)]
      here == LabelsOf(pages[i].groups)
      names == {LabelName[l] : l \in here}
      used == (UNION {p.refs[j] : j \in JobsOf(pages[i].groups)})
                \cup (UNION {p.lrefs[l] : l \in here})
  IN  \A l \in used : LabelName[l] \in names

Encoding == stage = "encoding" /\ encoded < Len(pages)

EncodePage ==
  /\ Encoding
  /\ NamesDistinct(pages[encoded + 1])
  /\ NamesResolved(encoded + 1)
  /\ encoded' = encoded + 1
  /\ UNCHANGED <<pvars, column, group, labelPage, padOffset, padSize, ooo, filled, stage>>

RejectPage ==
  /\ Encoding
  /\ ~ (NamesDistinct(pages[encoded + 1]) /\ NamesResolved(encoded + 1))
  /\ stage' = "error"
  /\ UNCHANGED <<pvars, column, group, labelPage, padOffset, padSize, ooo, encoded, filled>>

PagesEncoded ==
  /\ stage = "encoding"
  /\ encoded = Len(pages)
  /\ stage' = "filling"
  /\ UNCHANGED <<pvars, column, group, labelPage, padOffset, padSize, ooo, encoded, filled>>

(* fill_scratchpad writes the pads of the section one behind the other.    *)
Written ==
  IF filled = <<>> THEN 0 ELSE filled[Len(filled)] + column.pads[Len(filled)]

FillPad ==
  /\ stage = "filling"
  /\ Len(filled) < Len(column.pads)
  /\ filled' = Append(filled, Written)
  /\ UNCHANGED <<pvars, column, group, labelPage, padOffset, padSize, ooo, encoded, stage>>

PadsFilled ==
  /\ stage = "filling"
  /\ Len(filled) = Len(column.pads)
  /\ stage' = "done"
  /\ UNCHANGED <<pvars, column, group, labelPage, padOffset, padSize, ooo, encoded, filled>>

-----------------------------------------------------------------------------
Assemble ==
  \/ PageGroup \/ NextGroup \/ LastGroup \/ GroupFails
  \/ PlacePad \/ PadsPlaced
  \/ ResolveBranches \/ RejectBranches \/ CrashOnBranch \/ BranchesResolved
  \/ EncodePage \/ RejectPage \/ PagesEncoded
  \/ FillPad \/ PadsFilled

(* The parser has entered every label group with page index 0.             *)
ColumnInit ==
  /\ column \in Columns
  /\ group = 1
  /\ Begin(column.progs[1], 0)
  /\ pages = <<>>
  /\ labelPage = [l \in {column.labels[g] : g \in Groups} |-> 0]
  /\ padOffset = <<>> /\ padSize = 0
  /\ ooo = <<>>
  /\ encoded = 0
  /\ filled = <<>>
  /\ stage = "groups"

Assembled == stage \in {"done", "error", "crashed"} /\ UNCHANGED vars

ColumnNext == Assemble \/ Assembled

ColumnSpec == ColumnInit /\ [][ColumnNext]_vars

-----------------------------------------------------------------------------
(***************************************************************************)
(* Properties.                                                             *)
(***************************************************************************)
AllPaged == stage \in {"pads", "branches", "encoding", "filling", "done"}

(* The pages of a group, once all groups are paged.                        *)
PagesOf(g) == {i \in DOMAIN pages : GroupOf(i) = g}

(* Pages are numbered through the whole column, in the order in which they *)
(* are emitted: the number names the sections of a page and is where       *)
(* load_pdi and preempt branch to.                                         *)
PageNumbers == \A i \in DOMAIN pages : pages[i].num = i - 1

(* Every job of every label group is on a page of that group.              *)
ColumnComplete ==
  AllPaged => \A g \in Groups : \A j \in Defined(column.progs[g]) :
                \E i \in PagesOf(g) : OnPage(j, i)

(* The next page a header announces is in the same label group; the last   *)
(* page of a group announces none, though pages of other groups follow.    *)
ChainWithinGroups ==
  AllPaged => \A i \in DOMAIN pages :
    pages[i].inorder = IF i < Len(pages) /\ GroupOf(i) = GroupOf(i + 1)
                       THEN pages[i + 1].len ELSE 0

HasJobs(p) == Defined(p) # {}

FirstJob(p) ==
  p.ids[CHOOSE n \in DOMAIN p.ids :
          p.ids[n] \in Job /\ \A m \in 1 .. n - 1 : p.ids[m] \notin Job]

(* An out-of-order branch goes to the page on which its label group starts *)
(* with the group's first job, and announces the length of that page.      *)
BranchTargets ==
  \A i \in DOMAIN ooo : \A l \in DOMAIN ooo[i] : \A g \in Groups :
    (column.labels[g] = l /\ HasJobs(column.progs[g])) =>
      /\ labelPage[l] < Len(pages)
      /\ OnPage(FirstJob(column.progs[g]), labelPage[l] + 1)
      /\ ooo[i][l] = pages[labelPage[l] + 1].len

(* A program of one file, in which what a job pulls in and the labels it   *)
(* names are its own (or came with an earlier job), and the further        *)
(* entries of patch tables name no labels.                                 *)
Unambiguous(p) ==
  /\ Nested(p)
  /\ \A j, k \in Defined(p) :
       \/ j \in ExtractJobs(p, k) \/ k \in ExtractJobs(p, j)
       \/ ExtractLabels(p, {j}) \cap ExtractLabels(p, {k}) = {}
  /\ \A l, m \in Label : m \in p.entries[l] => p.lrefs[m] = {}

OneFile ==
  /\ \A j, k \in Job : j # k => JobName[j] # JobName[k]
  /\ \A l, m \in Label : l # m => LabelName[l] # LabelName[m]

(* What the pager emits for such programs the encoder accepts: no page     *)
(* holds a name twice or names a label that is on another page.            *)
EncoderAcceptsPages ==
  (stage = "encoding" /\ OneFile) =>
    \A i \in DOMAIN pages :
      Unambiguous(column.progs[GroupOf(i)]) => NamesDistinct(pages[i]) /\ NamesResolved(i)

(* The contents of a pad are written where the code expects the pad.       *)
PadsFilledInPlace == \A a \in DOMAIN filled : filled[a] = padOffset[a]

=============================================================================
