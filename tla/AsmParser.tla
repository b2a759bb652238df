----------------------------- MODULE AsmParser -----------------------------
(***************************************************************************)
(* asm_parser::parse_lines: assembly text, line by line and through its    *)
(* includes, is sorted into columns and label groups, each with a list of  *)
(* text lines and a list of data lines.  Which list a line goes to is the  *)
(* top of a stack of data states; the directives push and pop it.          *)
(*                                                                         *)
(* The source is chosen one line at a time; "end" is the end of the file   *)
(* being read.  Lines that are blank, comments, or match no pattern leave  *)
(* no trace and are not lines here.  A line is known by its number n in    *)
(* `lines'; the number of an .attach_to_group line also stands for the eof *)
(* it inserts.                                                             *)
(***************************************************************************)
EXTENDS Integers, Sequences, FiniteSets

CONSTANTS
  Lines,      (* the lines a source may have, as records with a kind       *)
  MaxLines,   (* bound: lines of a source                                  *)
  MaxDepth    (* bound: includes within includes                           *)

ASSUME BoundsAssumption == MaxLines \in Nat /\ MaxDepth \in Nat

(* A .section of another name than text, data or annotation leaves no trace. *)
ASSUME LinesAssumption == \A line \in Lines : line.kind = "section" => line.data \in BOOLEAN

NoCol == -1

(* Attaching to the group -1 would count as having attached to none.       *)
ASSUME ColsAssumption == \A line \in Lines : line.kind = "attach" => line.col # NoCol

Default == "default"

VARIABLES
  lines,      (* the lines met, each with the data state it met            *)
  depth,      (* number of includes being read                             *)
  states,     (* isdatastack, the top last                                 *)
  label,      (* m_current_label, as the sequence of its components        *)
  col,        (* m_current_col                                             *)
  cols,       (* the columns in m_col                                      *)
  groups,     (* their m_label_data: text and data of <<column, label>>    *)
  pageLabels, (* their m_labelpageindex: <<column, page label>>            *)
  pads,       (* their m_scratchpads: the line of <<column, name>>         *)
  noted,      (* m_annotation_index of the lines that have one             *)
  notes,      (* the length of m_annotation_list                           *)
  partition,  (* what .partition has set                                   *)
  stage       (* "parsing", "done" or "error"                              *)

tables == <<cols, groups, pageLabels>>
vars == <<lines, depth, states, label, col, tables, pads, noted, notes, partition, stage>>

-----------------------------------------------------------------------------
DataState == states[Len(states)]

PushState(state) == states' = Append(states, state)

PoppedStates == SubSeq(states, 1, Len(states) - 1)

(* The column of what is inserted now: the first one if none is attached.  *)
Here == IF col = NoCol THEN 0 ELSE col

NoLines == [text |-> <<>>, data |-> <<>>]

At(key) == IF key \in DOMAIN groups THEN groups[key] ELSE NoLines

With(f, key, value) == [k \in DOMAIN f \cup {key} |-> IF k = key THEN value ELSE f[k]]

Without(f, c) == [k \in {k \in DOMAIN f : k[1] # c} |-> f[k]]

(* The number of the line being read.                                      *)
Number == Len(lines) + 1

(* insert_col_asmdata of that line.                                        *)
Added ==
  LET list == IF DataState THEN "data" ELSE "text"
  IN  With(groups, <<Here, label>>, [At(<<Here, label>>) EXCEPT ![list] = Append(@, Number)])

AddedPageLabels == pageLabels \cup {<<Here, label[Len(label)]>>}

Insert ==
  /\ groups' = Added
  /\ pageLabels' = AddedPageLabels
  /\ cols' = cols \cup {Here}
  /\ col' = Here

-----------------------------------------------------------------------------
Parsing == stage = "parsing" /\ Len(lines) < MaxLines

Read(line) ==
  /\ Parsing
  /\ lines' = Append(lines, [line |-> line, data |-> DataState])

Reject ==
  /\ stage' = "error"
  /\ UNCHANGED <<depth, states, label, col, tables, pads, noted, notes, partition>>

Operation(line) ==
  /\ line.kind \in {"op", "eop"}
  /\ Read(line)
  /\ Insert
  /\ UNCHANGED <<depth, states, label, pads, noted, notes, partition, stage>>

(* The EOF of the text: what follows is data.                              *)
EndOfText(line) ==
  /\ line.kind = "EOF"
  /\ Read(line)
  /\ Insert
  /\ PushState(TRUE)
  /\ UNCHANGED <<depth, label, pads, noted, notes, partition, stage>>

(* A label in the text begins a label group inside the current one.        *)
OpenLabel(line) ==
  /\ line.kind = "label" /\ ~ DataState
  /\ Read(line)
  /\ label' = Append(label, line.name)
  /\ UNCHANGED <<depth, states, col, tables, pads, noted, notes, partition, stage>>

(* A label in the data is a line of the data.                              *)
DataLabel(line) ==
  /\ line.kind = "label" /\ DataState
  /\ Read(line)
  /\ Insert
  /\ UNCHANGED <<depth, states, label, pads, noted, notes, partition, stage>>

Outer == IF Len(label) > 1 THEN SubSeq(label, 1, Len(label) - 1) ELSE label

(* Mutation: .endl closes all labels.                                      *)
CloseLabels(line) ==
  /\ line.kind = "endl"
  /\ line.name = label[Len(label)]
  /\ Read(line)
  /\ label' = <<Default>>
  /\ UNCHANGED <<depth, states, col, tables, pads, noted, notes, partition, stage>>

(* .endl: of the group that was begun last.                                *)
CloseLabel(line) ==
  /\ line.kind = "endl"
  /\ line.name = label[Len(label)]
  /\ Read(line)
  /\ label' = Outer
  /\ UNCHANGED <<depth, states, col, tables, pads, noted, notes, partition, stage>>

RejectEndl(line) ==
  /\ line.kind = "endl"
  /\ line.name # label[Len(label)]
  /\ Read(line)
  /\ Reject

(* .attach_to_group: an eof for the column being left, then a fresh        *)
(* col_data for the new one, whatever it held.  The label stays.           *)
Attach(line) ==
  /\ line.kind = "attach"
  /\ Read(line)
  /\ groups' = Without(Added, line.col)
  /\ pageLabels' = {k \in AddedPageLabels : k[1] # line.col}
  /\ pads' = Without(pads, line.col)
  /\ cols' = cols \cup {Here, line.col}
  /\ col' = line.col
  /\ PushState(FALSE)
  /\ UNCHANGED <<depth, label, noted, notes, partition, stage>>

Section(line) ==
  /\ line.kind = "section"
  /\ Read(line)
  /\ PushState(line.data)
  /\ UNCHANGED <<depth, label, col, tables, pads, noted, notes, partition, stage>>

(* The line an annotation belongs to: the last line of the group's text    *)
(* that is no .eop.                                                        *)
Annotated ==
  LET text == At(<<col, label>>).text
      candidates == {i \in DOMAIN text : lines[text[i]].line.kind # "eop"}
  IN  {text[i] : i \in {i \in candidates : \A j \in candidates : j <= i}}

(* An annotation section and the three lines of its fields.                *)
Annotate(line) ==
  /\ line.kind = "annotation" /\ line.ok
  /\ col \in cols
  /\ Read(line)
  /\ groups' = With(groups, <<col, label>>, At(<<col, label>>))
  /\ noted' = [n \in DOMAIN noted \cup Annotated |-> IF n \in Annotated THEN notes ELSE noted[n]]
  /\ notes' = notes + 1
  /\ UNCHANGED <<depth, states, label, col, cols, pageLabels, pads, partition, stage>>

RejectAnnotation(line) ==
  /\ line.kind = "annotation"
  /\ ~ line.ok \/ col \notin cols
  /\ Read(line)
  /\ Reject

(* Mutation: the state of the file around is not kept.                     *)
IncludeUnsaved(line) ==
  /\ line.kind = "include" /\ line.found
  /\ depth < MaxDepth
  /\ Read(line)
  /\ depth' = depth + 1
  /\ states' = [states EXCEPT ![Len(states)] = FALSE]
  /\ UNCHANGED <<label, col, tables, pads, noted, notes, partition, stage>>

Include(line) ==
  /\ line.kind = "include" /\ line.found
  /\ depth < MaxDepth
  /\ Read(line)
  /\ depth' = depth + 1
  /\ PushState(FALSE)
  /\ UNCHANGED <<label, col, tables, pads, noted, notes, partition, stage>>

(* Mutation: the state of the included file stays.                         *)
KeepIncluded(line) ==
  /\ line.kind = "end" /\ depth > 0
  /\ Read(line)
  /\ depth' = depth - 1
  /\ UNCHANGED <<states, label, col, tables, pads, noted, notes, partition, stage>>

(* The end of an included file: one state is popped.                       *)
EndInclude(line) ==
  /\ line.kind = "end" /\ depth > 0
  /\ Read(line)
  /\ depth' = depth - 1
  /\ states' = PoppedStates
  /\ UNCHANGED <<label, col, tables, pads, noted, notes, partition, stage>>

Finish(line) ==
  /\ line.kind = "end" /\ depth = 0
  /\ Read(line)
  /\ stage' = "done"
  /\ UNCHANGED <<depth, states, label, col, tables, pads, noted, notes, partition>>

RejectFile(line) ==
  /\ line.kind \in {"include", "padfile"} /\ ~ line.found
  /\ Read(line)
  /\ Reject

AddPad(line) ==
  /\ pads' = With(pads, <<Here, line.name>>, Number)
  /\ cols' = cols \cup {Here}
  /\ col' = Here

(* .setpad with a size.                                                    *)
SetPad(line) ==
  /\ line.kind = "pad"
  /\ Read(line)
  /\ AddPad(line)
  /\ UNCHANGED <<depth, states, label, groups, pageLabels, noted, notes, partition, stage>>

(* .setpad with a file: its contents are read, and a state is pushed that  *)
(* nothing pops.                                                           *)
SetPadFromFile(line) ==
  /\ line.kind = "padfile" /\ line.found
  /\ Read(line)
  /\ AddPad(line)
  /\ PushState(FALSE)
  /\ UNCHANGED <<depth, label, groups, pageLabels, noted, notes, partition, stage>>

Partition(line) ==
  /\ line.kind = "partition" /\ line.ok
  /\ Read(line)
  /\ partition' = partition \cup {line.sets}
  /\ UNCHANGED <<depth, states, label, col, tables, pads, noted, notes, stage>>

RejectPartition(line) ==
  /\ line.kind = "partition" /\ ~ line.ok
  /\ Read(line)
  /\ Reject

parse_lines(line) ==
  \/ Operation(line) \/ EndOfText(line)
  \/ OpenLabel(line) \/ DataLabel(line) \/ CloseLabel(line) \/ RejectEndl(line)
  \/ Attach(line) \/ Section(line)
  \/ Annotate(line) \/ RejectAnnotation(line)
  \/ Include(line) \/ EndInclude(line) \/ Finish(line) \/ RejectFile(line)
  \/ SetPad(line) \/ SetPadFromFile(line)
  \/ Partition(line) \/ RejectPartition(line)

Init ==
  /\ lines = <<>>
  /\ depth = 0
  /\ states = <<FALSE>>
  /\ label = <<Default>>
  /\ col = NoCol
  /\ cols = {} /\ groups = <<>> /\ pageLabels = {} /\ pads = <<>>
  /\ noted = <<>> /\ notes = 0
  /\ partition = {}
  /\ stage = "parsing"

Ended == (stage # "parsing" \/ Len(lines) = MaxLines) /\ UNCHANGED vars

Next == (\E line \in Lines : parse_lines(line)) \/ Ended

Spec == Init /\ [][Next]_vars

-----------------------------------------------------------------------------
Inserting == {"op", "eop", "EOF", "attach"}

(***************************************************************************)
(* Properties.  They look back at the lines met.                           *)
(***************************************************************************)
Kind(n) == lines[n].line.kind

Attaches == {n \in DOMAIN lines : Kind(n) = "attach"}

(* The column that line n is written for.                                  *)
ColumnOf(n) ==
  LET before == {m \in Attaches : m < n}
  IN  IF before = {} THEN 0
      ELSE lines[CHOOSE m \in before : \A k \in before : k <= m].line.col

(* The label lines before line n that begin a label group.                 *)
Opens(n) == {m \in 1 .. n - 1 : Kind(m) = "label" /\ ~ lines[m].data}

Ends(m, n) == {k \in m + 1 .. n - 1 : Kind(k) = "endl"}

(* Group m is ended before line n: some stretch behind m has more .endl    *)
(* lines than labels.                                                      *)
EndedBy(m, n) ==
  \E k \in Ends(m, n) :
    Cardinality(Ends(m, k + 1)) > Cardinality({i \in Opens(k) : i > m})

(* The groups line n is in, from the outside in.                           *)
Nesting(n) ==
  LET inside == {m \in Opens(n) : ~ EndedBy(m, n)}
      nth[i \in 1 .. Cardinality(inside)] ==
        lines[CHOOSE m \in inside : Cardinality({k \in inside : k <= m}) = i].line.name
  IN  <<Default>> \o nth

ListOf(n) == IF lines[n].data THEN "data" ELSE "text"

(* The lists that hold line n.                                             *)
Holding(n) ==
  {h \in (DOMAIN groups) \X {"text", "data"} :
     \E i \in DOMAIN groups[h[1]][h[2]] : groups[h[1]][h[2]][i] = n}

(* Column c has not been attached to (again) since line n.                 *)
Cleared(n) == \E m \in Attaches : n <= m /\ lines[m].line.col = ColumnOf(n)

(* Every operation and every line of data, from whatever file, is in one   *)
(* list: that of the column attached to last and of the labels that are    *)
(* open at the line.  Only an .attach_to_group for the same column loses   *)
(* lines.                                                                  *)
LinesPlaced ==
  stage # "error" =>
    \A n \in DOMAIN lines :
      (Kind(n) \in Inserting \/ (Kind(n) = "label" /\ lines[n].data)) =>
        Holding(n) = IF Cleared(n) THEN {}
                     ELSE {<<<<ColumnOf(n), Nesting(n)>>, ListOf(n)>>}

(* The line that began the file whose end is line n.                       *)
Began(n) ==
  CHOOSE m \in 1 .. n - 1 :
    /\ Kind(m) = "include"
    /\ LET inner(kind) == Cardinality({k \in m + 1 .. n - 1 : Kind(k) = kind})
       IN  inner("include") = inner("end")
    /\ \A k \in m + 1 .. n - 1 :
         Cardinality({i \in m .. k : Kind(i) = "include"}) >
           Cardinality({i \in m .. k : Kind(i) = "end"})

FileEnds == {n \in DOMAIN lines : Kind(n) = "end" /\ (n < Len(lines) \/ stage # "done")}

StateBefore(n) == IF n <= Len(lines) THEN lines[n].data ELSE DataState

(* Line k is in the included file m .. n itself, not in one it includes.   *)
Within(k, m, n) ==
  /\ k \in m + 1 .. n - 1
  /\ Cardinality({i \in m + 1 .. k - 1 : Kind(i) = "include"}) =
       Cardinality({i \in m + 1 .. k - 1 : Kind(i) = "end"})

Switches(m, n) ==
  {k \in m + 1 .. n - 1 : Kind(k) \in {"EOF", "section", "attach", "padfile"} /\ Within(k, m, n)}

(* Files as they are included from text, with one EOF or .section at most. *)
PlainFile(n) == Cardinality(Switches(Began(n), n)) <= 1 /\ ~ lines[Began(n)].data

(* The stack of data states has one of its own for every open file, so     *)
(* that what is below is not popped and the top is never missing.          *)
StatesCoverFiles == Len(states) > depth

(* Behind an include the text goes on, if it and the files before it and   *)
(* in it are plain ones: an EOF at the end of an included file does not    *)
(* turn the lines behind the .include into data.                           *)
TextAfterInclude ==
  \A n \in FileEnds :
    (\A k \in FileEnds : k <= n => PlainFile(k)) => ~ StateBefore(n + 1)

=============================================================================
