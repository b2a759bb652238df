--------------------------- MODULE AssemblerState ---------------------------
(***************************************************************************)
(* assembler_state::process: one pass over the lines of a label group      *)
(* records the jobs, barriers, launches, labels and patch tables that the  *)
(* pager works on; JobGraph takes the record as given, here it is made.    *)
(*                                                                         *)
(* The lines are chosen one at a time, the text first or not: the parser   *)
(* puts labels behind the text, but the data may hold jobs as well.  The   *)
(* names are those made unique by their file.  A line has a kind, the      *)
(* bytes of its operation, and the labels its arguments name.              *)
(***************************************************************************)
EXTENDS JobGraph, FiniteSetsExt, SequencesExt

CONSTANTS
  Lines,     (* the lines a label group may have                           *)
  MaxLines,  (* bound: lines of a label group                              *)
  NoJob,     (* an id no job has: "" and, behind an eof, (char) -1         *)
  NoLabel    (* the empty label name                                       *)

ASSUME LinesBound == MaxLines \in Nat

ASSUME NothingAssumption == NoJob \notin Job \cup {Eop, Eof} /\ NoLabel \notin Label

(* The name of a job holds its file and a colon, that of an .eop does not. *)
ASSUME EopAssumption == \A n \in 0 .. MaxLines : <<Eop, n>> \notin Job \cup {Eof}

(* What the operation of a line of each kind has; a label has no arguments *)
(* and no bytes.                                                           *)
WellFormed(line) ==
  /\ line.kind \in {"label", "start", "end", "eof", "eop", "align", "unknown",
                    "op", "data", "barrier", "launch", "apply"}
  /\ line.kind \notin {"align", "unknown"} => line.size \in Nat
  /\ line.kind = "align" => line.to \in Nat \ {0}
  /\ line.kind = "label" =>
       line.name \in Label /\ line.size = 0 /\ "refs" \notin DOMAIN line
  /\ line.kind \in {"start", "launch"} => line.job \in Job
  /\ line.kind = "barrier" => line.barrier \in Barrier
  /\ line.kind = "apply" => line.table \in Label /\ line.entries \in Nat
  /\ "refs" \in DOMAIN line => line.refs \subseteq Label

ASSUME LinesAssumption == \A line \in Lines : WellFormed(line)

VARIABLES
  lines,       (* the lines passed, with the sizes they were given         *)
  pos,         (* m_pos                                                    *)
  eopnum,      (* .eop lines so far                                        *)
  ids,         (* m_jobids                                                 *)
  jobmap,      (* m_jobmap                                                 *)
  barriermap,  (* m_localbarriermap                                        *)
  launchmap,   (* m_joblaunchmap                                           *)
  labelmap,    (* m_labelmap                                               *)
  labellist,   (* m_labellist                                              *)
  tables,      (* apply_label_map                                          *)
  dependents,  (* m_dependent_labelmap                                     *)
  cjob,        (* cjob_id                                                  *)
  clabel,      (* clabelname                                               *)
  stage        (* "reading", "done", "error" or "crashed"                  *)

jobvars == <<eopnum, ids, jobmap, barriermap, launchmap, cjob>>
labelvars == <<labellist, tables, clabel>>
vars == <<lines, pos, jobvars, labelvars, labelmap, dependents, stage>>

-----------------------------------------------------------------------------
With(f, key, value) == [k \in DOMAIN f \cup {key} |-> IF k = key THEN value ELSE f[k]]

(* A list in a map that enters an empty list for what is not there.        *)
Listed(f, key, value) ==
  With(f, key, Append(IF key \in DOMAIN f THEN f[key] ELSE <<>>, value))

(* The index of the line at hand.                                          *)
index == Len(lines)

(* An .align fills up to a multiple, from where the label group begins.    *)
Size(line) ==
  IF line.kind = "align" THEN (line.to - (pos % line.to)) % line.to ELSE line.size

EopId(n) == <<Eop, n>>

JobAt(size) ==
  [start |-> pos, end |-> pos + size, first |-> index, last |-> index,
   eopnum |-> eopnum, lbs |-> <<>>, launch |-> <<>>]

(* A counted line: one more for the current label.                         *)
Counted(size) ==
  IF clabel = NoLabel THEN labelmap
  ELSE [labelmap EXCEPT ![clabel].count = @ + 1, ![clabel].size = @ + size]

Pass(line) ==
  /\ stage = "reading" /\ Len(lines) < MaxLines
  /\ lines' = Append(lines, [line |-> line, size |-> Size(line)])
  /\ pos' = pos + Size(line)
  /\ UNCHANGED dependents

Stop(line, why) ==
  /\ stage = "reading" /\ Len(lines) < MaxLines
  /\ lines' = Append(lines, [line |-> line, size |-> 0])
  /\ stage' = why
  /\ UNCHANGED <<pos, jobvars, labelvars, labelmap, dependents>>

-----------------------------------------------------------------------------
(* A label; its own line makes its count 0.                                *)
BeginLabel(line) ==
  /\ line.kind = "label" /\ line.name \notin DOMAIN labelmap
  /\ Pass(line)
  /\ labelmap' = With(labelmap, line.name, [pos |-> pos, index |-> index, count |-> 0, size |-> 0])
  /\ labellist' = Append(labellist, line.name)
  /\ clabel' = line.name
  /\ UNCHANGED <<jobvars, tables, stage>>

(* start_job, start_job_deferred.  Until its end_job the job's end is its  *)
(* start.                                                                  *)
StartJob(line) ==
  /\ line.kind = "start" /\ line.job \notin DOMAIN jobmap
  /\ Pass(line)
  /\ jobmap' = With(jobmap, line.job, JobAt(0))
  /\ ids' = Append(ids, line.job)
  /\ cjob' = line.job /\ clabel' = NoLabel
  /\ UNCHANGED <<eopnum, barriermap, launchmap, labelmap, labellist, tables, stage>>

RejectDuplicate(line) ==
  /\ \/ line.kind = "label" /\ line.name \in DOMAIN labelmap
     \/ line.kind = "start" /\ line.job \in DOMAIN jobmap
  /\ Stop(line, "error")

(* An operation without a record of its own; data is .long and uc_dma_bd.  *)
Code(line) ==
  /\ line.kind \in {"op", "data"}
  /\ Pass(line)
  /\ labelmap' = Counted(line.size)
  /\ UNCHANGED <<jobvars, labelvars, stage>>

(* .align has a size but is not counted.                                   *)
Align(line) ==
  /\ line.kind = "align"
  /\ Pass(line)
  /\ UNCHANGED <<jobvars, labelvars, labelmap, stage>>

(* Mutation: the eof does not end the job.                                 *)
EndInJob(line) ==
  /\ line.kind = "eof"
  /\ Pass(line)
  /\ jobmap' = With(jobmap, Eof, JobAt(line.size))
  /\ ids' = Append(ids, Eof)
  /\ UNCHANGED <<eopnum, barriermap, launchmap, cjob, labelvars, labelmap, stage>>

(* eof: a pseudo job of its own; it is not counted for the label.          *)
EndOfFile(line) ==
  /\ line.kind = "eof"
  /\ Pass(line)
  /\ jobmap' = With(jobmap, Eof, JobAt(line.size))
  /\ ids' = Append(ids, Eof)
  /\ cjob' = NoJob
  /\ UNCHANGED <<eopnum, barriermap, launchmap, labelvars, labelmap, stage>>

EndOfPage(line) ==
  /\ line.kind = "eop"
  /\ Pass(line)
  /\ jobmap' = With(jobmap, EopId(eopnum), JobAt(0))
  /\ ids' = Append(ids, EopId(eopnum))
  /\ eopnum' = eopnum + 1
  /\ UNCHANGED <<barriermap, launchmap, cjob, labelvars, labelmap, stage>>

RejectUnknown(line) == line.kind = "unknown" /\ Stop(line, "error")

LocalBarrier(line) ==
  /\ line.kind = "barrier" /\ cjob # NoJob
  /\ Pass(line)
  /\ jobmap' = [jobmap EXCEPT ![cjob].lbs = Append(@, line.barrier)]
  /\ barriermap' = Listed(barriermap, line.barrier, cjob)
  /\ labelmap' = Counted(line.size)
  /\ UNCHANGED <<eopnum, ids, launchmap, cjob, labelvars, stage>>

LaunchJob(line) ==
  /\ line.kind = "launch" /\ cjob # NoJob
  /\ Pass(line)
  /\ jobmap' = [jobmap EXCEPT ![cjob].launch = Append(@, line.job)]
  /\ launchmap' = Listed(launchmap, line.job, cjob)
  /\ labelmap' = Counted(line.size)
  /\ UNCHANGED <<eopnum, ids, barriermap, cjob, labelvars, stage>>

(* Mutation: the end of the job is where its end_job begins.               *)
EndJobEarly(line) ==
  /\ line.kind = "end" /\ cjob # NoJob
  /\ Pass(line)
  /\ jobmap' = [jobmap EXCEPT ![cjob].end = pos, ![cjob].last = index]
  /\ cjob' = NoJob
  /\ labelmap' = Counted(line.size)
  /\ UNCHANGED <<eopnum, ids, barriermap, launchmap, labelvars, stage>>

EndJob(line) ==
  /\ line.kind = "end" /\ cjob # NoJob
  /\ Pass(line)
  /\ jobmap' = [jobmap EXCEPT ![cjob].end = pos + line.size, ![cjob].last = index]
  /\ cjob' = NoJob
  /\ labelmap' = Counted(line.size)
  /\ UNCHANGED <<eopnum, ids, barriermap, launchmap, labelvars, stage>>

(* Outside a job the three follow the null pointer m_jobmap has entered.   *)
CrashOutside(line) ==
  /\ line.kind \in {"barrier", "launch", "end"} /\ cjob = NoJob
  /\ Stop(line, "crashed")

(* apply_offset_57: the table's entries, the last time it is applied.      *)
ApplyOffset(line) ==
  /\ line.kind = "apply"
  /\ Pass(line)
  /\ tables' = With(tables, line.table, line.entries)
  /\ labelmap' = Counted(line.size)
  /\ UNCHANGED <<jobvars, labellist, clabel, stage>>

-----------------------------------------------------------------------------
(* Behind the lines the tables are resolved: the label and those behind it *)
(* in the order of the source.                                             *)
Resolved == {l \in DOMAIN tables : tables[l] # 1}

At(l) == CHOOSE i \in DOMAIN labellist : labellist[i] = l

TableBroken ==
  \E l \in Resolved : l \in Range(labellist) => At(l) + tables[l] - 1 > Len(labellist)

Entries(l) == SubSeq(labellist, At(l), At(l) + tables[l] - 1)

Resolve ==
  /\ stage = "reading" /\ ~ TableBroken
  /\ dependents' = [l \in {l \in Resolved : tables[l] > 0} |-> Entries(l)]
  /\ stage' = "done"
  /\ UNCHANGED <<lines, pos, jobvars, labelvars, labelmap>>

RejectTable ==
  /\ stage = "reading" /\ TableBroken
  /\ stage' = "error"
  /\ UNCHANGED <<lines, pos, jobvars, labelvars, labelmap, dependents>>

process(line) ==
  \/ BeginLabel(line) \/ StartJob(line) \/ RejectDuplicate(line)
  \/ Code(line) \/ Align(line) \/ EndOfFile(line) \/ EndOfPage(line) \/ RejectUnknown(line)
  \/ LocalBarrier(line) \/ LaunchJob(line) \/ EndJob(line) \/ CrashOutside(line)
  \/ ApplyOffset(line)

Init ==
  /\ lines = <<>> /\ pos = 0
  /\ eopnum = 0 /\ ids = <<>> /\ jobmap = <<>> /\ barriermap = <<>> /\ launchmap = <<>>
  /\ labelmap = <<>> /\ labellist = <<>> /\ tables = <<>> /\ dependents = <<>>
  /\ cjob = NoJob /\ clabel = NoLabel
  /\ stage = "reading"

Ended == stage # "reading" /\ UNCHANGED vars

Next == (\E line \in Lines : process(line)) \/ Resolve \/ RejectTable \/ Ended

Spec == Init /\ [][Next]_vars

-----------------------------------------------------------------------------
(***************************************************************************)
(* The record as the pager reads it: lines first .. last of a job, and the *)
(* lines from a label's index, count more than its own.                    *)
(***************************************************************************)
JobLines(j) == jobmap[j].first + 1 .. jobmap[j].last + 1

LabelLines(l) == labelmap[l].index + 1 .. labelmap[l].index + labelmap[l].count + 1

Named(N) == UNION {lines[n].line.refs : n \in {n \in N : "refs" \in DOMAIN lines[n].line}}

(* The first line of data; the code reads it whatever the label's count.   *)
Aligned(l) ==
  /\ labelmap[l].index + 2 <= Len(lines)
  /\ lines[labelmap[l].index + 2].line.kind = "data"

JobBytes(J) == MapThenSumSet(LAMBDA j : jobmap[j].end - jobmap[j].start, J)

LabelBytes(L) == MapThenSumSet(LAMBDA l : labelmap[l].size, L)

Program ==
  LET jobs == Job \cap DOMAIN jobmap
      labels == DOMAIN labelmap
  IN  [ids |-> [i \in DOMAIN ids |-> IF ids[i] \in Job \cup {Eof} THEN ids[i] ELSE Eop],
       text |-> [S \in SUBSET Job |-> JobBytes(S \cap jobs)],
       lbs |-> [j \in Job |-> IF j \in jobs THEN Range(jobmap[j].lbs) ELSE {}],
       launch |-> [j \in Job |-> IF j \in jobs THEN Range(jobmap[j].launch) ELSE {}],
       refs |-> [j \in Job |-> IF j \in jobs THEN Named(JobLines(j)) ELSE {}],
       lrefs |-> [l \in Label |-> IF l \in labels THEN Named(LabelLines(l)) ELSE {}],
       entries |-> [l \in Label |->
                      IF l \in DOMAIN dependents THEN Range(dependents[l]) ELSE {}],
       data |-> [S \in SUBSET Label |-> LabelBytes(S \cap labels)],
       kind |-> [l \in Label |-> IF l \notin labels THEN "undefined"
                                 ELSE IF Aligned(l) THEN "data" ELSE "untyped"],
       ooo |-> [j \in Job |-> {}]]

(***************************************************************************)
(* Properties.  They look back at the lines passed.                        *)
(***************************************************************************)
Kind(n) == lines[n].line.kind

OfKind(kind) == {n \in DOMAIN lines : Kind(n) = kind}

Bytes(N) == MapThenSumSet(LAMBDA n : lines[n].size, N)

Turns == OfKind("start") \cup OfKind("end") \cup OfKind("eof")

(* The job that line n stands in.                                          *)
OpenJob(n) ==
  LET before == {m \in Turns : m < n}
  IN  IF before = {} THEN NoJob
      ELSE LET last == CHOOSE m \in before : \A k \in before : k <= m
           IN  IF Kind(last) = "start" THEN lines[last].line.job ELSE NoJob

(* From the START_JOB at line n to its END_JOB.                            *)
Body(n) == {n} \cup {m \in n + 1 .. Len(lines) : \A k \in n + 1 .. m - 1 : k \notin Turns}

EndsWithEndJob(n) == OfKind("end") \cap Body(n) # {}

(* A job with an END_JOB has the lines and bytes from the one directive to *)
(* the other, the launches and labels of these lines, and the number of    *)
(* .eop directives in front of it.                                         *)
JobsRecorded ==
  stage = "done" =>
    \A n \in OfKind("start") :
      LET j == lines[n].line.job
      IN  EndsWithEndJob(n) =>
            /\ JobLines(j) = Body(n)
            /\ Program.text[{j}] = Bytes(Body(n))
            /\ Program.launch[j] = {lines[m].line.job : m \in Body(n) \cap OfKind("launch")}
            /\ Program.refs[j] = Named(Body(n))
            /\ jobmap[j].eopnum = EopNum(Program, j)

(* The pager goes from a job to its barriers in one map and from a barrier *)
(* to its jobs in another: both say which job a LOCAL_BARRIER stands in.   *)
BarriersRecorded ==
  stage # "crashed" =>
    \A j \in Job, b \in Barrier :
      LET joins == \E n \in OfKind("barrier") : lines[n].line.barrier = b /\ OpenJob(n) = j
      IN  /\ joins <=> b \in Program.lbs[j]
          /\ joins <=> (b \in DOMAIN barriermap /\ j \in Range(barriermap[b]))

(* The lines behind label line n, up to the next label or job, without the *)
(* directives at their end.                                                *)
DataOf(n) ==
  LET behind == {m \in n + 1 .. Len(lines) :
                   \A k \in n + 1 .. m : k \notin OfKind("label") \cup OfKind("start")}
  IN  {m \in behind : \E k \in behind : m <= k /\ Kind(k) \notin {"align", "eop", "eof"}}

(* A label has its line and its data, and their bytes, as long as no       *)
(* directive stands inside the data.                                       *)
LabelsRecorded ==
  stage = "done" =>
    \A n \in OfKind("label") :
      LET l == lines[n].line.name
      IN  (\A m \in DataOf(n) : Kind(m) \notin {"align", "eop", "eof"}) =>
            /\ LabelLines(l) = {n} \cup DataOf(n)
            /\ Program.data[{l}] = Bytes(DataOf(n))
            /\ Program.lrefs[l] = Named(DataOf(n))

(* isa-spec: the entries of a table "have to be contiguous".  A table has  *)
(* its label and the labels behind it, as many as APPLY_OFFSET_57 says; of *)
(* two for one table the second one counts.                                *)
TablesRecorded ==
  stage = "done" =>
    \A n \in OfKind("apply") :
      LET apply == lines[n].line
          later == {m \in OfKind("apply") : m > n /\ lines[m].line.table = apply.table}
          from == {m \in OfKind("label") :
                     \E k \in OfKind("label") : k <= m /\ lines[k].line.name = apply.table}
          entries == {m \in from : Cardinality({k \in from : k <= m}) <= apply.entries}
      IN  (later = {} /\ apply.entries > 1) =>
            /\ Program.entries[apply.table] = {lines[m].line.name : m \in entries}
            /\ Cardinality(entries) = apply.entries

(* The record the pager goes through is the one the lines spell out.       *)
ProgramRecorded ==
  /\ stage = "done" => Program \in ProgramType
  /\ JobsRecorded /\ BarriersRecorded /\ LabelsRecorded /\ TablesRecorded

(* The null pointer is followed exactly when a LOCAL_BARRIER, LAUNCH_JOB   *)
(* or END_JOB stands outside a job: also behind the END_JOB or the EOF     *)
(* that has ended one.                                                     *)
CrashesOutsideJobs ==
  (stage = "crashed") =
    \E n \in DOMAIN lines : Kind(n) \in {"barrier", "launch", "end"} /\ OpenJob(n) = NoJob

=============================================================================
