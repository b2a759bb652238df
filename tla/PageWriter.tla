------------------------------ MODULE PageWriter ------------------------------
(***************************************************************************)
(* aie2ps_encoder for one column: the pages the pager has decided on are   *)
(* laid out (assignpagenumber), their text and data written by the         *)
(* serializers of ops.cpp, the shim DMA descriptors that take a scratch    *)
(* pad's address patched, and the pads written.  The section writers it    *)
(* leaves are what ElfWriter takes.                                        *)
(*                                                                         *)
(* Which jobs make up a page is given (Pager), and where the pads are      *)
(* (ColumnPager); the ORDER of the labels on a page, which those modules   *)
(* leave out, decides here what APPLY_OFFSET_57 patches.  Data are words:  *)
(* a descriptor's address is spread over the low bits of some of them, the *)
(* others and the upper bits are not to be touched.                        *)
(***************************************************************************)
EXTENDS Integers, Sequences, FiniteSets, SequencesExt

CONSTANTS
  ControlColumns, (* columns: [col, arch, jobs, labels, pages, pads,       *)
                  (*   packetIndex, packetSyms]; labels are numbered in    *)
                  (*   the order of the source, pads from there on         *)
  PAGE_SIZE,
  Field           (* number of values of an address field: "word1" is of   *)
                  (* 32 bits, "word2" 16, "word8" 9, "word0" 25            *)

ASSUMPTION WriterAssumption ==
  /\ PAGE_SIZE \in Nat /\ PAGE_SIZE % 4 = 0
  /\ \A word \in DOMAIN Field : Field[word] \in Nat \ {0}

VARIABLES
  column,      (* the input                                                *)
  wstage,      (* "collect", "text", "data", "patch", "pads", "written" or *)
               (* "failed"                                                 *)
  page,        (* number of pages written                                  *)
  taken,       (* groups of jobs on the page                               *)
  labels,      (* m_data: the labels of the page, in order                 *)
  announced,   (* cur_page_len: [text, data], then the length              *)
  line,        (* text lines or labels written                             *)
  text,        (* what was written to the page's text: [at, value] of ops  *)
  data,        (* words of the page's data                                 *)
  tsym,        (* symbols of the text                                      *)
  m_patch,     (* labels to patch, with the pad                            *)
  packetPad,   (* m_controlpacket_padname: of this page, of the column     *)
  twriter      (* the section writers                                      *)

pagevars == <<taken, labels, announced, line, text, data, tsym, m_patch>>
wvars == <<column, wstage, page, pagevars, packetPad, twriter>>

NoPad == 0
PAGE_HEADER_SIZE == 16
EOF_SIZE == 4

-------------------------------------------------------------------------------
(* The labels of jobs.                                                     *)
Job(j) == column.jobs[j]
Label(l) == column.labels[l]
LabelOrder == [n \in DOMAIN column.labels |-> n]

IsApply(op) == op.op = "apply"
Lines == FlattenSeq(column.jobs)
AppliesTo(table) == {n \in DOMAIN Lines : IsApply(Lines[n]) /\ Lines[n].table = table}

(* apply_label_map: of two lines for one table, the later says how many    *)
(* entries it has.                                                         *)
EntriesOf(table) == IF AppliesTo(table) = {} THEN 1 ELSE Lines[Max(AppliesTo(table))].entries

(* m_dependent_labelmap: the labels of a table of several entries.         *)
Dependents(l) == IF EntriesOf(l) = 1 THEN <<>> ELSE SubSeq(LabelOrder, l, l + EntriesOf(l) - 1)

(* What is on the given places of a list, in its order.                    *)
OnPlaces(list, places) ==
  LET upto[n \in 0 .. Len(list)] ==
        IF n = 0 THEN <<>>
        ELSE IF n \in places THEN Append(upto[n - 1], list[n]) ELSE upto[n - 1]
  IN upto[Len(list)]

(* union_of_lists_inorder, of the lists that make up one.                  *)
UnionInOrder(lists) ==
  LET all == FlattenSeq(lists)
  IN OnPlaces(all, {n \in DOMAIN all : \A m \in 1 .. n - 1 : all[m] # all[n]})

(* extractlabels: a label, its dependents, and what its own lines name;    *)
(* no path is longer than there are labels.                                *)
LabelsFrom(l) ==
  LET within[depth \in 0 .. Len(column.labels)] ==
        IF depth = 0 THEN [k \in DOMAIN column.labels |-> <<>>]
        ELSE [k \in DOMAIN column.labels |->
                UnionInOrder(<<<<k>>, Dependents(k)>>
                  \o [n \in DOMAIN Label(k).refs |-> within[depth - 1][Label(k).refs[n]]])]
  IN within[Len(column.labels)][l]

IsPad(name) == name \in DOMAIN column.pads
Names(op) ==
  LET named == CASE op.op = "apply" -> <<op.table, op.pad>> [] op.op = "use" -> <<op.name>> [] OTHER -> <<>>
  IN OnPlaces(named, {n \in DOMAIN named : ~ IsPad(named[n]) /\ named[n] # NoPad})

OpsOf(jobs) == FlattenSeq([n \in DOMAIN jobs |-> Job(jobs[n])])

(* extractjobsandlabels: the labels of a group of jobs.                    *)
LabelsOfGroup(group) ==
  LET ops == OpsOf(group)
      names == FlattenSeq([n \in DOMAIN ops |-> Names(ops[n])])
  IN UnionInOrder([n \in DOMAIN names |-> LabelsFrom(names[n])])

Total(sizes) ==
  LET upto[n \in 0 .. Len(sizes)] == IF n = 0 THEN 0 ELSE upto[n - 1] + sizes[n]
  IN upto[Len(sizes)]

WordsOf(l) == IF Label(l).kind = "uc_dma_bd" THEN 4 * Len(Label(l).refs) ELSE Len(Label(l).words)
Bytes(list) == 4 * Total([n \in DOMAIN list |-> WordsOf(list[n])])
TextBytes(ops) == Total([n \in DOMAIN ops |-> ops[n].size])

(* A column that was paged: getdatasectionsize and labelalignmentsorter    *)
(* have found each label it names before a descriptor or a word, and       *)
(* extractlabels has come back from it.                                    *)
LabelsOK(c) ==
  LET all == DOMAIN c.labels IN
  /\ c.labels \in Seq(ToSet(c.labels))
  /\ \A l \in all :
       LET label == c.labels[l] IN
       /\ label.kind \in {"uc_dma_bd", ".long"}
       /\ label.refs \in Seq(all) /\ label.words \in Seq(Nat)
       /\ (IF label.kind = "uc_dma_bd" THEN label.refs ELSE label.words) # <<>>
  /\ \A S \in SUBSET all : S # {} => \E l \in S : ToSet(c.labels[l].refs) \cap S = {}

OpOK(c, op) ==
  /\ op.size \in Nat
  /\ op.op = "use" => op.name \in DOMAIN c.labels \cup DOMAIN c.pads
  /\ op.op = "apply" =>
       /\ op.table \in DOMAIN c.labels /\ op.pad \in DOMAIN c.labels \cup DOMAIN c.pads \cup {NoPad}
       /\ op.entries \in Nat /\ op.table + op.entries - 1 <= Len(c.labels)

ColumnOK(c) ==
  /\ LabelsOK(c)
  /\ c.jobs \in Seq(ToSet(c.jobs))
  /\ \A j \in DOMAIN c.jobs :
       /\ c.jobs[j] \in Seq(ToSet(c.jobs[j]))
       /\ \A n \in DOMAIN c.jobs[j] : OpOK(c, c.jobs[j][n])
  /\ c.pages \in Seq(Seq(Seq(DOMAIN c.jobs)))

ASSUME ColumnsAssumption == \A c \in ControlColumns : ColumnOK(c)

Groups == column.pages[page + 1]

(* pagify: a group joins the page.                                         *)
TakeGroup ==
  /\ wstage = "collect" /\ page < Len(column.pages) /\ taken < Len(Groups)
  /\ LET group == Groups[taken + 1]
         list == LabelsOfGroup(group)
     IN /\ labels' = labels \o list
        /\ announced' = [text |-> announced.text + TextBytes(OpsOf(group)),
                         data |-> announced.data + Bytes(list)]
  /\ taken' = taken + 1
  /\ UNCHANGED <<column, wstage, page, line, text, data, tsym, m_patch, packetPad, twriter>>

(* Mutation: the labels are sorted by their place in the source.           *)
labelalignmentsorterBySource(list) == SortSeq(list, <)

(* Descriptors of the processor's own DMA first, they are aligned to 16.   *)
OfKind(list, kind) == {n \in DOMAIN list : Label(list[n]).kind = kind}
labelalignmentsorter(list) ==
  OnPlaces(list, OfKind(list, "uc_dma_bd")) \o OnPlaces(list, OfKind(list, ".long"))

Aligner(bytes) == (-(bytes + EOF_SIZE)) % 16
RoundUp4(n) == 4 * ((n + 3) \div 4)

(* assignpagenumber, and the assembler_state of the page, which rejects a  *)
(* label that is there twice.                                              *)
Assign ==
  /\ wstage = "collect" /\ page < Len(column.pages) /\ taken = Len(Groups)
  /\ labels' = labelalignmentsorter(labels)
  /\ announced' = [len |-> RoundUp4(PAGE_HEADER_SIZE + announced.text + EOF_SIZE + announced.data
                             + IF announced.data > 0 THEN Aligner(announced.text) ELSE 0)]
  /\ wstage' = IF IsInjective(labels) THEN "text" ELSE "failed"
  /\ UNCHANGED <<column, page, taken, line, text, data, tsym, m_patch, packetPad, twriter>>

-------------------------------------------------------------------------------
(* page_writer, text.                                                      *)
PageOps ==
  LET ops == Append(OpsOf(FlattenSeq(Groups)), [op |-> "eof", size |-> EOF_SIZE])
  IN IF Bytes(labels) > 0 /\ Aligner(TextBytes(ops) - EOF_SIZE) > 0
     THEN Append(ops, [op |-> ".align", size |-> (-TextBytes(ops)) % 16])
     ELSE ops

(* m_pos of line n, and m_labelmap[l]->m_pos.                              *)
PosOfLine(n) == TextBytes(SubSeq(PageOps, 1, n - 1))
IndexOf(l) == SelectInSeq(labels, LAMBDA other : other = l)
PosOfLabel(l) == TextBytes(PageOps) + Bytes(SubSeq(labels, 1, IndexOf(l) - 1))
Place(pad) == column.pads[pad].place

Op == PageOps[line + 1]
Section(kind) == kind \o "." \o ToString(column.col) \o "." \o ToString(page)
Symbol(name, pos, section) == [name |-> name, section |-> section, size |-> 0, pos |-> pos]

(* All that is not apply_offset_57: a name is written as where it is.      *)
WriteOp ==
  /\ wstage = "text" /\ line < Len(PageOps) /\ Op.op # "apply"
  /\ text' = Append(text, [at |-> PosOfLine(line + 1),
                           value |-> CASE Op.op # "use" -> 0
                                       [] IsPad(Op.name) -> Place(Op.name)
                                       [] OTHER -> PosOfLabel(Op.name)])
  /\ line' = line + 1
  /\ UNCHANGED <<column, wstage, page, taken, labels, announced, data, tsym, m_patch, packetPad, twriter>>

(* An offset that is no number becomes a symbol, and val is still that of  *)
(* the operand before it, num_entries.                                     *)
Val == IF Op.named THEN Op.entries ELSE Op.arg
IsPacket == Val = column.packetIndex
ArgName ==
  IF IsPacket \/ Val = 65535 THEN "control-code-" \o ToString(column.col)
  ELSE IF Op.named THEN "symbol" ELSE ToString(Val)
OffsetWritten == IF IsPacket THEN 65535 ELSE IF Val # 65535 THEN (Val * 2) % 65536 ELSE Val

(* get_label_at counts on from the table's label on the page.              *)
FirstEntry == IndexOf(Op.table)
TableOnPage == SubSeq(labels, FirstEntry, FirstEntry + Op.entries - 1)

WriteApply ==
  /\ wstage = "text" /\ line < Len(PageOps) /\ Op.op = "apply"
  /\ FirstEntry + Op.entries - 1 <= Len(labels)
  /\ tsym' = tsym
       \o (IF Op.named THEN <<Symbol("symbol", PosOfLine(line + 1) + 6, Section(".ctrltext"))>> ELSE <<>>)
       \o [n \in DOMAIN TableOnPage |->
             Symbol(ArgName, PosOfLabel(TableOnPage[n]), Section(".ctrltext"))]
  /\ m_patch' = IF ~ IsPad(Op.pad) THEN m_patch
                ELSE m_patch \o [n \in DOMAIN TableOnPage |-> [label |-> TableOnPage[n], pad |-> Op.pad]]
  /\ packetPad' = IF IsPacket /\ Op.pad # NoPad THEN [packetPad EXCEPT !.ofPage = Op.pad] ELSE packetPad
  /\ text' = Append(text, [at |-> PosOfLine(line + 1), value |-> OffsetWritten])
  /\ line' = line + 1
  /\ UNCHANGED <<column, wstage, page, taken, labels, announced, data, twriter>>

(* The table runs out of the page's labels: vector::at throws.             *)
RejectApply ==
  /\ wstage = "text" /\ line < Len(PageOps) /\ Op.op = "apply"
  /\ FirstEntry + Op.entries - 1 > Len(labels)
  /\ wstage' = "failed"
  /\ UNCHANGED <<column, page, pagevars, packetPad, twriter>>

EndOfText ==
  /\ wstage = "text" /\ line = Len(PageOps)
  /\ wstage' = "data" /\ line' = 0
  /\ UNCHANGED <<column, page, taken, labels, announced, text, data, tsym, m_patch, packetPad, twriter>>

-------------------------------------------------------------------------------
(* page_writer, data.                                                      *)

(* uc_dma_bd: the local pointer is relative to the descriptor.             *)
Descriptors(l) ==
  [w \in 1 .. 4 * Len(Label(l).refs) |->
     IF w % 4 = 2
     THEN PosOfLabel(Label(l).refs[(w + 2) \div 4]) - (PosOfLabel(l) + 16 * ((w - 1) \div 4))
     ELSE 0]

WriteLabel ==
  /\ wstage = "data" /\ line < Len(labels)
  /\ LET l == labels[line + 1]
     IN data' = data \o IF Label(l).kind = "uc_dma_bd" THEN Descriptors(l) ELSE Label(l).words
  /\ line' = line + 1
  /\ UNCHANGED <<column, wstage, page, taken, labels, announced, text, tsym, m_patch, packetPad, twriter>>

EndOfData ==
  /\ wstage = "data" /\ line = Len(labels)
  /\ wstage' = "patch" /\ line' = 0
  /\ UNCHANGED <<column, page, taken, labels, announced, text, data, tsym, m_patch, packetPad, twriter>>

-------------------------------------------------------------------------------
(* patch57: the words of a descriptor that hold its address, lowest first. *)
AddressWords(arch) ==
  IF arch = "aie2ps" THEN <<[word |-> 1, values |-> Field["word1"]], [word |-> 2, values |-> Field["word2"]],
                            [word |-> 8, values |-> Field["word8"]]>>
  ELSE <<[word |-> 1, values |-> Field["word1"]], [word |-> 0, values |-> Field["word0"]]>>

Parts == AddressWords(column.arch)
Weight(n) == FoldLeft(LAMBDA product, part : product * part.values, 1, SubSeq(Parts, 1, n - 1))

(* The address in the descriptor whose first word is words[first].         *)
Address(words, first) ==
  FoldLeft(LAMBDA sum, n : sum + (words[first + Parts[n].word] % Parts[n].values) * Weight(n),
           0, [n \in DOMAIN Parts |-> n])

(* Mutation: the bits above the address are lost.                          *)
WithPartAlone(word, n, address) == (address \div Weight(n)) % Parts[n].values

WithPart(word, n, address) ==
  (word - (word % Parts[n].values)) + ((address \div Weight(n)) % Parts[n].values)

WithAddress(words, first, address) ==
  [w \in DOMAIN words |->
     IF \E n \in DOMAIN Parts : w = first + Parts[n].word
     THEN WithPart(words[w], CHOOSE n \in DOMAIN Parts : w = first + Parts[n].word, address)
     ELSE words[w]]

FirstWord(l) == ((PosOfLabel(l) - TextBytes(PageOps)) \div 4) + 1

Patch ==
  /\ wstage = "patch" /\ line < Len(m_patch)
  /\ LET first == FirstWord(m_patch[line + 1].label)
     IN IF \E n \in DOMAIN Parts : first + Parts[n].word > Len(data)
        THEN wstage' = "failed" /\ UNCHANGED data
        ELSE /\ data' = WithAddress(data, first, Address(data, first) + Place(m_patch[line + 1].pad))
             /\ UNCHANGED wstage
  /\ line' = line + 1
  /\ UNCHANGED <<column, page, taken, labels, announced, text, tsym, m_patch, packetPad, twriter>>

(* datawriter->padding, which throws beyond the page; the writers of the   *)
(* page, and the name of the pad with the control packet, if this page has *)
(* one.                                                                    *)
TextLength == PAGE_HEADER_SIZE + TextBytes(PageOps)
NewPage ==
  /\ taken' = 0 /\ labels' = <<>> /\ announced' = [text |-> 0, data |-> 0]
  /\ line' = 0 /\ text' = <<>> /\ data' = <<>> /\ tsym' = <<>> /\ m_patch' = <<>>

EndPage ==
  /\ wstage = "patch" /\ line = Len(m_patch)
  /\ twriter' = twriter \o
       <<[name |-> Section(".ctrltext"), size |-> TextLength, symbols |-> tsym],
         [name |-> Section(".ctrldata"), size |-> PAGE_SIZE - TextLength, symbols |-> <<>>]>>
  /\ packetPad' = [ofPage |-> NoPad,
                   ofColumn |-> IF packetPad.ofPage = NoPad THEN packetPad.ofColumn ELSE packetPad.ofPage]
  /\ page' = page + 1
  /\ wstage' = CASE TextLength + 4 * Len(data) > PAGE_SIZE -> "failed"
                 [] page + 1 < Len(column.pages) -> "collect"
                 [] OTHER -> "pads"
  /\ NewPage
  /\ UNCHANGED column

-------------------------------------------------------------------------------
(* process: the pads of the column, with the symbols of the control packet *)
(* in the one it was found to be in, which must be a pad.                  *)
PadSymbols ==
  LET ofColumn == SelectSeq(column.packetSyms, LAMBDA sym : sym.col = column.col)
  IN IF packetPad.ofColumn = NoPad THEN <<>>
     ELSE [n \in DOMAIN ofColumn |->
             Symbol(ofColumn[n].name, ofColumn[n].pos + column.pads[packetPad.ofColumn].offset,
                    ".pad." \o ToString(column.col))]

RejectPacketPad ==
  /\ wstage = "pads" /\ column.pads # <<>>
  /\ packetPad.ofColumn # NoPad /\ ~ IsPad(packetPad.ofColumn)
  /\ wstage' = "failed"
  /\ UNCHANGED <<column, page, pagevars, packetPad, twriter>>

(* The debug section that may follow (.dump) is not kept: it has no        *)
(* symbols, and nothing refers to it.                                      *)
WritePads ==
  /\ wstage = "pads"
  /\ column.pads # <<>> => (packetPad.ofColumn = NoPad \/ IsPad(packetPad.ofColumn))
  /\ twriter' = IF column.pads = <<>> THEN twriter
                ELSE Append(twriter, [name |-> ".pad." \o ToString(column.col),
                                      size |-> FoldFunction(LAMBDA pad, sum : sum + pad.size, 0, column.pads),
                                      symbols |-> PadSymbols])
  /\ wstage' = "written"
  /\ UNCHANGED <<column, page, pagevars, packetPad>>

Blank ==
  /\ page = 0
  /\ taken = 0 /\ labels = <<>> /\ announced = [text |-> 0, data |-> 0]
  /\ line = 0 /\ text = <<>> /\ data = <<>> /\ tsym = <<>> /\ m_patch = <<>>
  /\ packetPad = [ofPage |-> NoPad, ofColumn |-> NoPad] /\ twriter = <<>>

WInit == column \in ControlColumns /\ wstage = "collect" /\ Blank

WNext ==
  \/ TakeGroup \/ Assign
  \/ WriteOp \/ WriteApply \/ RejectApply \/ EndOfText
  \/ WriteLabel \/ EndOfData \/ Patch \/ EndPage
  \/ WritePads \/ RejectPacketPad

-------------------------------------------------------------------------------
(* Properties.                                                             *)
PageOnEnd == wstage = "patch" /\ line = Len(m_patch)

(* The job runner fetches as many bytes as the page before announced, and  *)
(* the processor's DMA wants descriptors on 16 bytes: what is written of a *)
(* page is as long as the pager said, and the descriptors are aligned      *)
(* whatever the lengths of the text and of the tables.                     *)
PageAsAnnounced ==
  PageOnEnd =>
    /\ announced.len = RoundUp4(TextLength + 4 * Len(data))
    /\ \A l \in ToSet(labels) :
         Label(l).kind = "uc_dma_bd" => (PAGE_HEADER_SIZE + PosOfLabel(l)) % 16 = 0

(* isa-spec.md, APPLY_OFFSET_57: an entry of a table is a set of words that *)
(* make a shim descriptor; several sets follow one another at table_ptr,   *)
(* counted in the words of the source, all labels one behind the other.    *)
SET_WORDS == 9
FirstGiven(l) == Bytes(SubSeq(LabelOrder, 1, l - 1)) \div 4
Holder(w) ==
  CHOOSE l \in DOMAIN column.labels : FirstGiven(l) <= w /\ w < FirstGiven(l) + WordsOf(l)
SetsGivenBy(op) == {FirstGiven(op.table) + SET_WORDS * n : n \in 0 .. op.entries - 1}

(* Where on the page they are, if the labels that hold them are there.     *)
Holders(op) == {Holder(w) : w \in SetsGivenBy(op)}
SetsOf(op) ==
  {PosOfLabel(Holder(w)) + 4 * (w - FirstGiven(Holder(w))) : w \in SetsGivenBy(op)}

PageApplies == SelectSeq(PageOps, IsApply)
AllSets == UNION {SetsOf(op) : op \in ToSet(PageApplies)}

(* The pads whose address a set takes, by the source.                      *)
PadsFor(set) == SelectSeq(PageApplies, LAMBDA op : set \in SetsOf(op) /\ IsPad(op.pad))
Added(set) == FoldLeft(LAMBDA sum, op : sum + Place(op.pad), 0, PadsFor(set))
PatchedSets == {set \in AllSets : PadsFor(set) # <<>>}

WordAt(pos) == ((pos - TextBytes(PageOps)) \div 4) + 1
WordsAt(l) == WordAt(PosOfLabel(l)) .. WordAt(PosOfLabel(l)) + WordsOf(l) - 1
AddressWordsOf(set) == {WordAt(set) + part.word : part \in ToSet(Parts)}

(* The words of the source; those of uc_dma_bd are left open.              *)
Given ==
  FlattenSeq([n \in DOMAIN labels |->
    IF Label(labels[n]).kind = "uc_dma_bd" THEN [w \in 1 .. WordsOf(labels[n]) |-> 0]
    ELSE Label(labels[n]).words])

AllValues == Weight(Len(Parts)) * Parts[Len(Parts)].values

(* The pads' addresses are added to the one in the set, also where they    *)
(* carry over, and the bits above it stay.                                 *)
PatchedFrom(set) ==
  LET first == WordAt(set) IN
  /\ Address(data, first) = (Address(Given, first) + Added(set)) % AllValues
  /\ \A part \in ToSet(Parts) :
       data[first + part.word] \div part.values = Given[first + part.word] \div part.values

(* The sets of every apply are on its page; the host is told of these and  *)
(* of no other place, those with pads take their addresses, every other    *)
(* word is as given, and the processor's own descriptors find the labels   *)
(* they point to.                                                          *)
SourceDone ==
  /\ \A op \in ToSet(PageApplies) : Holders(op) \subseteq ToSet(labels)
  /\ {sym.pos : sym \in {sym \in ToSet(tsym) : sym.pos >= TextBytes(PageOps)}} = AllSets
  /\ \A set \in PatchedSets : PatchedFrom(set)
  /\ \A l \in ToSet(labels) :
       IF Label(l).kind = "uc_dma_bd"
       THEN \A n \in DOMAIN Label(l).refs :
              LET bd == PosOfLabel(l) + 16 * (n - 1)
              IN bd + data[WordAt(bd) + 1] = PosOfLabel(Label(l).refs[n])
       ELSE \A w \in WordsAt(l) \ UNION {AddressWordsOf(set) : set \in PatchedSets} :
              data[w] = Given[w]

(* The sets of an apply have a label each, one behind the other in the     *)
(* source, and the pager keeps these together: no line of the column names *)
(* one of them but the first, and no other table has one.                  *)
LabelsBehind(op) == {op.table + n : n \in 0 .. op.entries - 1}
Mentions == {op \in ToSet(Lines) : Names(op) # <<>>}
SetsLabelled(op) ==
  /\ \A l \in LabelsBehind(op) :
       /\ Label(l).kind = ".long" /\ \A part \in ToSet(Parts) : part.word < WordsOf(l)
       /\ op.entries > 1 => WordsOf(l) = SET_WORDS
  /\ \A other \in Mentions :
       /\ \A l \in ToSet(Names(other)) \cap LabelsBehind(op) : l = op.table
       /\ IsApply(other) /\ other.table # op.table =>
            LabelsBehind(other) \cap LabelsBehind(op) = {}
  /\ \A l \in DOMAIN column.labels :
       ToSet(Label(l).refs) \cap LabelsBehind(op) \subseteq {op.table}

(* All applies of the column on one table say how many sets it has.        *)
CountsAgree(op) ==
  \A other \in ToSet(Lines) :
    IsApply(other) /\ other.table = op.table => other.entries = op.entries

(* APPLY_OFFSET_57 does what the source says, whatever else is on the page *)
(* and however its labels were found and sorted, if each set of its table  *)
(* has a label and all applies agree on their number.                      *)
TablesPatched ==
  (PageOnEnd /\ \A op \in ToSet(PageApplies) : SetsLabelled(op) /\ CountsAgree(op)) => SourceDone

(* isa-spec.md: the sets are contiguous at table_ptr, as in its example    *)
(* all under the table's label.                                            *)
SetsGiven(op) ==
  Label(op.table).kind = ".long" /\ WordsOf(op.table) >= SET_WORDS * op.entries
SetsPatched ==
  (PageOnEnd /\ \A op \in ToSet(PageApplies) : SetsGiven(op)) => SourceDone

===============================================================================
