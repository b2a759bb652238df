------------------------ MODULE AssemblerStateProofs ------------------------
(***************************************************************************)
(* Theorems about AssemblerState, for label groups of any length, with any *)
(* lines, jobs, barriers and labels.                                       *)
(***************************************************************************)
EXTENDS AssemblerState, FiniteSetTheorems, WellFoundedInduction, TLAPS

(***************************************************************************)
(* Types.                                                                  *)
(***************************************************************************)
JobRecord ==
  [start : Nat, end : Nat, first : Nat, last : Nat, eopnum : Nat,
   lbs : Seq(Barrier), launch : Seq(Job)]

LabelRecord == [pos : Nat, index : Nat, count : Nat, size : Nat]

Stages == {"reading", "done", "error", "crashed"}

LinesOK ==
  /\ lines \in Seq([line : Lines, size : Nat])
  /\ pos \in Nat
  /\ stage \in Stages

JobsOK ==
  /\ jobmap \in [DOMAIN jobmap -> JobRecord]
  /\ barriermap \in [DOMAIN barriermap -> Seq(Job)] /\ DOMAIN barriermap \subseteq Barrier
  /\ launchmap \in [DOMAIN launchmap -> Seq(Job)] /\ DOMAIN launchmap \subseteq Job
  /\ cjob \in (Job \cap DOMAIN jobmap) \cup {NoJob}

(* The .eop lines do not get the names of jobs.                            *)
EopsOK == eopnum \in Nat /\ eopnum <= Len(lines) /\ Len(lines) <= MaxLines

LabelsOK ==
  /\ labellist \in Seq(Label)
  /\ labelmap \in [DOMAIN labelmap -> LabelRecord]
  /\ clabel \in DOMAIN labelmap \cup {NoLabel}

StateTypeOK == LinesOK /\ EopsOK /\ JobsOK /\ LabelsOK

LEMMA EmptyFunction == \A S : <<>> \in [DOMAIN <<>> -> S] /\ DOMAIN <<>> = {}
  OBVIOUS

LEMMA InitTypeOK == Init => StateTypeOK
<1>. SUFFICES ASSUME Init PROVE StateTypeOK
  OBVIOUS
<1>1. LinesOK
  BY DEF Init, LinesOK, Stages
<1>2. EopsOK
  BY LinesBound DEF Init, EopsOK
<1>3. JobsOK
  BY EmptyFunction DEF Init, JobsOK
<1>4. LabelsOK
  BY EmptyFunction DEF Init, LabelsOK
<1>. QED
  BY <1>1, <1>2, <1>3, <1>4 DEF StateTypeOK

LEMMA AppendRange ==
  ASSUME NEW T, NEW s \in Seq(T), NEW value \in T
  PROVE  /\ Append(s, value) \in Seq(T)
         /\ Range(Append(s, value)) = Range(s) \cup {value}
<1>1. /\ Append(s, value) \in Seq(T)
      /\ DOMAIN Append(s, value) = 1 .. Len(s) + 1
      /\ \A i \in 1 .. Len(s) : Append(s, value)[i] = s[i]
      /\ Append(s, value)[Len(s) + 1] = value
      /\ DOMAIN s = 1 .. Len(s) /\ Len(s) \in Nat
  OBVIOUS
<1>2. Range(Append(s, value)) \subseteq Range(s) \cup {value}
  BY <1>1 DEF Range
<1>3. Range(s) \subseteq Range(Append(s, value))
  BY <1>1 DEF Range
<1>4. value \in Range(Append(s, value))
  BY <1>1 DEF Range
<1>. QED
  BY <1>1, <1>2, <1>3, <1>4

(* The map g has one value more in its list of key than f.                 *)
OneMoreListed(f, g, key, value) ==
  /\ g \in [DOMAIN f \cup {key} -> Seq(Job)]
  /\ DOMAIN g = DOMAIN f \cup {key}
  /\ Range(g[key]) = (IF key \in DOMAIN f THEN Range(f[key]) ELSE {}) \cup {value}
  /\ \A k \in DOMAIN f \ {key} : g[k] = f[k]

LEMMA ListedType ==
  ASSUME NEW f, f \in [DOMAIN f -> Seq(Job)], NEW key, NEW value \in Job
  PROVE  OneMoreListed(f, Listed(f, key, value), key, value)
<1>. DEFINE old == IF key \in DOMAIN f THEN f[key] ELSE <<>>
<1>1. old \in Seq(Job)
  OBVIOUS
<1>2. Append(old, value) \in Seq(Job) /\ Range(Append(old, value)) = Range(old) \cup {value}
  BY <1>1, AppendRange
<1>3. Range(old) = IF key \in DOMAIN f THEN Range(f[key]) ELSE {}
  BY DEF Range
<1>4. Listed(f, key, value) = With(f, key, Append(old, value))
  BY DEF Listed
<1>5. f \in [DOMAIN f -> Seq(Job)]
  OBVIOUS
<1>. HIDE DEF old
<1>6. /\ With(f, key, Append(old, value)) \in [DOMAIN f \cup {key} -> Seq(Job)]
      /\ DOMAIN With(f, key, Append(old, value)) = DOMAIN f \cup {key}
      /\ With(f, key, Append(old, value))[key] = Append(old, value)
      /\ \A k \in DOMAIN f \ {key} : With(f, key, Append(old, value))[k] = f[k]
  BY <1>2, <1>5 DEF With
<1>. QED
  BY <1>2, <1>3, <1>4, <1>6 DEF OneMoreListed

(* A line passed has a size, and the lines and bytes grow by it.           *)
LEMMA SizeIsNat ==
  ASSUME LinesOK, NEW line \in Lines, line.kind # "unknown"
  PROVE  Size(line) \in Nat
<1>1. WellFormed(line)
  BY LinesAssumption
<1>2. CASE line.kind = "align"
  <2>1. line.to \in Nat /\ line.to > 0 /\ pos \in Nat
    BY <1>1, <1>2 DEF WellFormed, LinesOK
  <2>2. (line.to - (pos % line.to)) % line.to \in Nat
    BY <2>1
  <2>. QED
    BY <1>2, <2>2 DEF Size
<1>3. CASE line.kind # "align"
  BY <1>1, <1>3 DEF WellFormed, Size
<1>. QED
  BY <1>2, <1>3

LEMMA PassOK ==
  ASSUME LinesOK, EopsOK, NEW line \in Lines, line.kind # "unknown", Pass(line),
         stage' \in Stages
  PROVE  /\ LinesOK'
         /\ Len(lines') = Len(lines) + 1 /\ Len(lines') <= MaxLines
         /\ lines' = Append(lines, [line |-> line, size |-> Size(line)])
         /\ [line |-> line, size |-> Size(line)] \in [line : Lines, size : Nat]
<1>1. Size(line) \in Nat
  BY SizeIsNat
<1>2. [line |-> line, size |-> Size(line)] \in [line : Lines, size : Nat]
  BY <1>1
<1>. DEFINE entry == [line |-> line, size |-> Size(line)]
<1>3. lines' = Append(lines, entry) /\ pos' = pos + Size(line) /\ Len(lines) < MaxLines
  BY DEF Pass
<1>. HIDE DEF entry
<1>4. entry \in [line : Lines, size : Nat]
  BY <1>2 DEF entry
<1>5. lines' \in Seq([line : Lines, size : Nat]) /\ Len(lines') = Len(lines) + 1
  BY <1>3, <1>4 DEF LinesOK
<1>6. pos' \in Nat
  BY <1>1, <1>3 DEF LinesOK
<1>. QED
  BY <1>1, <1>2, <1>3, <1>4, <1>5, <1>6, LinesBound DEF LinesOK, EopsOK, entry

LEMMA StopOK ==
  ASSUME LinesOK, EopsOK, NEW line \in Lines, NEW why \in Stages, Stop(line, why)
  PROVE  /\ LinesOK'
         /\ Len(lines') = Len(lines) + 1 /\ Len(lines') <= MaxLines
         /\ lines' = Append(lines, [line |-> line, size |-> 0])
         /\ [line |-> line, size |-> 0] \in [line : Lines, size : Nat]
<1>. DEFINE entry == [line |-> line, size |-> 0]
<1>1. lines' = Append(lines, entry) /\ pos' = pos /\ Len(lines) < MaxLines /\ stage' = why
  BY DEF Stop
<1>2. entry \in [line : Lines, size : Nat]
  OBVIOUS
<1>. HIDE DEF entry
<1>3. lines' \in Seq([line : Lines, size : Nat]) /\ Len(lines') = Len(lines) + 1
  BY <1>1, <1>2 DEF LinesOK
<1>. QED
  BY <1>1, <1>2, <1>3, LinesBound DEF LinesOK, EopsOK, entry

LEMMA CountAndSize ==
  ASSUME NEW r \in LabelRecord, NEW c \in Nat, NEW z \in Nat
  PROVE  [r EXCEPT !.count = c, !.size = z] \in LabelRecord
<1>. DEFINE s == [r EXCEPT !.count = c]
<1>1. s \in LabelRecord
  BY DEF LabelRecord
<1>2. [r EXCEPT !.count = c, !.size = z] = [s EXCEPT !.size = z]
  BY DEF LabelRecord
<1>. HIDE DEF s
<1>3. [s EXCEPT !.size = z] \in LabelRecord
  BY <1>1 DEF LabelRecord
<1>. QED
  BY <1>2, <1>3

(* A line that is counted keeps the labels' records.                       *)
LEMMA CountedOK ==
  ASSUME LabelsOK, NEW size \in Nat
  PROVE  /\ DOMAIN Counted(size) = DOMAIN labelmap
         /\ Counted(size) \in [DOMAIN labelmap -> LabelRecord]
<1>1. CASE clabel = NoLabel
  BY <1>1 DEF Counted, LabelsOK
<1>2. CASE clabel # NoLabel
  <2>1. clabel \in DOMAIN labelmap /\ labelmap[clabel] \in LabelRecord
    BY <1>2 DEF LabelsOK
  <2>2. /\ labelmap[clabel].count \in Nat /\ labelmap[clabel].size \in Nat
        /\ labelmap[clabel].pos \in Nat /\ labelmap[clabel].index \in Nat
    BY <2>1 DEF LabelRecord
  <2>. DEFINE more == [labelmap[clabel] EXCEPT !.count = @ + 1, !.size = @ + size]
  <2>3. more \in LabelRecord
    <3>1. labelmap[clabel].count + 1 \in Nat /\ labelmap[clabel].size + size \in Nat
      BY <2>2
    <3>. QED
      BY <2>1, <3>1, CountAndSize
  <2>4. Counted(size) = [labelmap EXCEPT ![clabel] = more]
    BY <1>2, <2>1, <2>2, Zenon DEF Counted, LabelRecord, LabelsOK
  <2>. HIDE DEF more
  <2>. QED
    BY <2>3, <2>4 DEF LabelsOK
<1>. QED
  BY <1>1, <1>2

LEMMA PassTypes ==
  ASSUME LinesOK, EopsOK, NEW line \in Lines, line.kind # "unknown", Pass(line),
         stage' = stage, eopnum' \in {eopnum, eopnum + 1}
  PROVE  LinesOK' /\ EopsOK'
<1>1. stage' \in Stages
  BY DEF LinesOK
<1>2. LinesOK' /\ Len(lines') = Len(lines) + 1 /\ Len(lines') <= MaxLines
  BY <1>1, PassOK
<1>3. Len(lines) \in Nat
  BY DEF LinesOK
<1>4. EopsOK'
  BY <1>2, <1>3 DEF EopsOK
<1>. QED
  BY <1>2, <1>4

LEMMA StopTypes ==
  ASSUME LinesOK, EopsOK, NEW line \in Lines, NEW why \in {"error", "crashed"}, Stop(line, why)
  PROVE  LinesOK' /\ EopsOK'
<1>1. why \in Stages
  BY DEF Stages
<1>2. LinesOK' /\ Len(lines') = Len(lines) + 1 /\ Len(lines') <= MaxLines
  BY <1>1, StopOK
<1>3. Len(lines) \in Nat
  BY DEF LinesOK
<1>4. eopnum' = eopnum
  BY DEF Stop, jobvars
<1>5. EopsOK'
  BY <1>2, <1>3, <1>4 DEF EopsOK
<1>. QED
  BY <1>2, <1>5

(* What the lines of a job do to its record.                               *)
LEMMA JoinedOK ==
  ASSUME NEW r \in JobRecord, NEW b \in Barrier
  PROVE  /\ [r EXCEPT !.lbs = Append(@, b)] \in JobRecord
         /\ [r EXCEPT !.lbs = Append(@, b)].lbs = Append(r.lbs, b)
<1>1. r.lbs \in Seq(Barrier)
  BY DEF JobRecord
<1>2. Append(r.lbs, b) \in Seq(Barrier)
  BY <1>1
<1>. QED
  BY <1>2 DEF JobRecord

LEMMA LaunchingOK ==
  ASSUME NEW r \in JobRecord, NEW j \in Job
  PROVE  /\ [r EXCEPT !.launch = Append(@, j)] \in JobRecord
         /\ [r EXCEPT !.launch = Append(@, j)].lbs = r.lbs
<1>1. r.launch \in Seq(Job)
  BY DEF JobRecord
<1>2. Append(r.launch, j) \in Seq(Job)
  BY <1>1
<1>. QED
  BY <1>2 DEF JobRecord

LEMMA EndingOK ==
  ASSUME NEW r \in JobRecord, NEW e \in Nat, NEW n \in Nat
  PROVE  /\ [r EXCEPT !.end = e, !.last = n] \in JobRecord
         /\ [r EXCEPT !.end = e, !.last = n].lbs = r.lbs
<1>. DEFINE s == [r EXCEPT !.end = e]
<1>1. s \in JobRecord /\ s.lbs = r.lbs
  BY DEF JobRecord
<1>2. [r EXCEPT !.end = e, !.last = n] = [s EXCEPT !.last = n]
  BY DEF JobRecord
<1>. HIDE DEF s
<1>3. [s EXCEPT !.last = n] \in JobRecord /\ [s EXCEPT !.last = n].lbs = s.lbs
  BY <1>1 DEF JobRecord
<1>. QED
  BY <1>1, <1>2, <1>3

LEMMA JobAtOK ==
  ASSUME LinesOK, EopsOK, NEW size \in Nat
  PROVE  JobAt(size) \in JobRecord /\ JobAt(size).lbs = <<>>
<1>1. /\ pos \in Nat /\ pos + size \in Nat /\ index \in Nat /\ eopnum \in Nat
      /\ <<>> \in Seq(Barrier) /\ <<>> \in Seq(Job)
  BY DEF LinesOK, EopsOK, index
<1>. QED
  BY <1>1 DEF JobAt, JobRecord

(* The record of one job is changed, or one is entered.                    *)
LEMMA ChangedJob ==
  ASSUME JobsOK, NEW j \in DOMAIN jobmap, NEW r \in JobRecord,
         jobmap' = [jobmap EXCEPT ![j] = r]
  PROVE  /\ jobmap' \in [DOMAIN jobmap' -> JobRecord] /\ DOMAIN jobmap' = DOMAIN jobmap
         /\ jobmap'[j] = r
         /\ \A k \in DOMAIN jobmap \ {j} : jobmap'[k] = jobmap[k]
BY DEF JobsOK

LEMMA EnteredJob ==
  ASSUME JobsOK, NEW j, NEW r \in JobRecord, jobmap' = With(jobmap, j, r)
  PROVE  /\ jobmap' \in [DOMAIN jobmap' -> JobRecord] /\ DOMAIN jobmap' = DOMAIN jobmap \cup {j}
         /\ jobmap'[j] = r
         /\ \A k \in DOMAIN jobmap \ {j} : jobmap'[k] = jobmap[k]
BY DEF JobsOK, With

LEMMA EopIsNoJob ==
  ASSUME EopsOK
  PROVE  EopId(eopnum) \notin Job /\ Eof \notin Job /\ NoJob \notin Job
<1>1. eopnum \in 0 .. MaxLines
  BY LinesBound DEF EopsOK
<1>. QED
  BY <1>1, EopAssumption, PseudoJobs, NothingAssumption DEF EopId

LEMMA TypeKept ==
  ASSUME StateTypeOK, NEW line \in Lines, process(line)
  PROVE  StateTypeOK'
<1>. USE DEF StateTypeOK
<1>. WellFormed(line)
  BY LinesAssumption
<1>. stage' = stage => stage' \in Stages
  BY DEF LinesOK
<1>1. CASE BeginLabel(line)
  <2>1. /\ Pass(line) /\ line.kind = "label" /\ stage' = stage /\ UNCHANGED jobvars
        /\ labelmap' = With(labelmap, line.name,
                            [pos |-> pos, index |-> index, count |-> 0, size |-> 0])
        /\ labellist' = Append(labellist, line.name) /\ clabel' = line.name
    BY <1>1 DEF BeginLabel
  <2>2. LinesOK' /\ EopsOK'
    <3>1. line.kind # "unknown" /\ eopnum' \in {eopnum, eopnum + 1}
      BY <2>1 DEF jobvars
    <3>. QED
      BY <2>1, <3>1, PassTypes
  <2>3. JobsOK'
    BY <2>1 DEF JobsOK, jobvars
  <2>4. [pos |-> pos, index |-> index, count |-> 0, size |-> 0] \in LabelRecord
    BY DEF LinesOK, EopsOK, LabelRecord, index
  <2>5. line.name \in Label
    BY <2>1 DEF WellFormed
  <2>6. /\ labelmap' \in [DOMAIN labelmap' -> LabelRecord]
        /\ DOMAIN labelmap' = DOMAIN labelmap \cup {line.name}
    <3>1. labelmap \in [DOMAIN labelmap -> LabelRecord]
      BY DEF LabelsOK
    <3>. QED
      BY <2>1, <2>4, <3>1 DEF With
  <2>7. LabelsOK'
    BY <2>1, <2>5, <2>6 DEF LabelsOK
  <2>. QED
    BY <2>2, <2>3, <2>7
<1>2. CASE StartJob(line)
  <2>1. /\ Pass(line) /\ line.kind = "start" /\ stage' = stage
        /\ jobmap' = With(jobmap, line.job, JobAt(0))
        /\ cjob' = line.job /\ clabel' = NoLabel
        /\ UNCHANGED <<eopnum, barriermap, launchmap, labelmap, labellist>>
    BY <1>2 DEF StartJob
  <2>2. LinesOK' /\ EopsOK'
    <3>1. line.kind # "unknown" /\ eopnum' \in {eopnum, eopnum + 1}
      BY <2>1 DEF jobvars
    <3>. QED
      BY <2>1, <3>1, PassTypes
  <2>3. line.job \in Job /\ JobAt(0) \in JobRecord
    BY <2>1, JobAtOK DEF WellFormed
  <2>4. jobmap' \in [DOMAIN jobmap' -> JobRecord] /\ DOMAIN jobmap' = DOMAIN jobmap \cup {line.job}
    BY <2>1, <2>3, EnteredJob
  <2>5. JobsOK'
    BY <2>1, <2>3, <2>4 DEF JobsOK
  <2>6. LabelsOK'
    BY <2>1 DEF LabelsOK
  <2>. QED
    BY <2>2, <2>5, <2>6
<1>3. CASE \E why \in {"error", "crashed"} : Stop(line, why)
  <2>1. PICK why \in {"error", "crashed"} : Stop(line, why)
    BY <1>3
  <2>2. LinesOK' /\ EopsOK'
    BY <2>1, StopTypes
  <2>3. JobsOK'
    BY <2>1 DEF Stop, JobsOK, jobvars
  <2>4. LabelsOK'
    BY <2>1 DEF Stop, LabelsOK, labelvars
  <2>. QED
    BY <2>2, <2>3, <2>4
<1>4. CASE Code(line) \/ Align(line) \/ ApplyOffset(line)
  <2>1. /\ Pass(line) /\ line.kind # "unknown" /\ stage' = stage /\ UNCHANGED jobvars
        /\ labelmap' = Counted(line.size) \/ labelmap' = labelmap
        /\ line.kind # "align" => line.size \in Nat
        /\ line.kind = "align" => labelmap' = labelmap
        /\ UNCHANGED <<labellist, clabel>>
    BY <1>4 DEF Code, Align, ApplyOffset, labelvars, WellFormed
  <2>2. LinesOK' /\ EopsOK'
    <3>1. line.kind # "unknown" /\ eopnum' \in {eopnum, eopnum + 1}
      BY <2>1 DEF jobvars
    <3>. QED
      BY <2>1, <3>1, PassTypes
  <2>3. JobsOK'
    BY <2>1 DEF JobsOK, jobvars
  <2>4. /\ labelmap' \in [DOMAIN labelmap' -> LabelRecord]
        /\ DOMAIN labelmap' = DOMAIN labelmap
    BY <2>1, CountedOK DEF LabelsOK
  <2>5. LabelsOK'
    BY <2>1, <2>4 DEF LabelsOK
  <2>. QED
    BY <2>2, <2>3, <2>5
<1>5. CASE EndOfFile(line)
  <2>1. /\ Pass(line) /\ line.kind = "eof" /\ stage' = stage
        /\ jobmap' = With(jobmap, Eof, JobAt(line.size)) /\ cjob' = NoJob
        /\ UNCHANGED <<eopnum, barriermap, launchmap, labelmap, labellist, clabel>>
    BY <1>5 DEF EndOfFile, labelvars
  <2>2. LinesOK' /\ EopsOK'
    <3>1. line.kind # "unknown" /\ eopnum' \in {eopnum, eopnum + 1}
      BY <2>1 DEF jobvars
    <3>. QED
      BY <2>1, <3>1, PassTypes
  <2>3. JobAt(line.size) \in JobRecord
    BY <2>1, JobAtOK DEF WellFormed
  <2>4. jobmap' \in [DOMAIN jobmap' -> JobRecord] /\ DOMAIN jobmap' = DOMAIN jobmap \cup {Eof}
    BY <2>1, <2>3, EnteredJob
  <2>5. JobsOK'
    BY <2>1, <2>3, <2>4 DEF JobsOK
  <2>6. LabelsOK'
    BY <2>1 DEF LabelsOK
  <2>. QED
    BY <2>2, <2>5, <2>6
<1>6. CASE EndOfPage(line)
  <2>1. /\ Pass(line) /\ line.kind = "eop" /\ stage' = stage /\ eopnum' = eopnum + 1
        /\ jobmap' = With(jobmap, EopId(eopnum), JobAt(0))
        /\ UNCHANGED <<barriermap, launchmap, cjob, labelmap, labellist, clabel>>
    BY <1>6 DEF EndOfPage, labelvars
  <2>2. LinesOK' /\ EopsOK'
    <3>1. line.kind # "unknown" /\ eopnum' \in {eopnum, eopnum + 1}
      BY <2>1 DEF jobvars
    <3>. QED
      BY <2>1, <3>1, PassTypes
  <2>3. JobAt(0) \in JobRecord
    BY JobAtOK
  <2>4. jobmap' \in [DOMAIN jobmap' -> JobRecord]
        /\ DOMAIN jobmap' = DOMAIN jobmap \cup {EopId(eopnum)}
    BY <2>1, <2>3, EnteredJob
  <2>5. JobsOK'
    BY <2>1, <2>3, <2>4 DEF JobsOK
  <2>6. LabelsOK'
    BY <2>1 DEF LabelsOK
  <2>. QED
    BY <2>2, <2>5, <2>6
<1>7. CASE LocalBarrier(line) \/ LaunchJob(line) \/ EndJob(line)
  <2>1. /\ Pass(line) /\ line.kind \in {"barrier", "launch", "end"} /\ stage' = stage
        /\ cjob # NoJob /\ labelmap' = Counted(line.size)
        /\ line.kind = "barrier" => line.barrier \in Barrier
        /\ line.kind = "launch" => line.job \in Job
        /\ line.size \in Nat
        /\ UNCHANGED <<eopnum, labellist, clabel>>
    BY <1>7 DEF LocalBarrier, LaunchJob, EndJob, labelvars, WellFormed
  <2>2. LinesOK' /\ EopsOK'
    <3>1. line.kind # "unknown" /\ eopnum' \in {eopnum, eopnum + 1}
      BY <2>1 DEF jobvars
    <3>. QED
      BY <2>1, <3>1, PassTypes
  <2>3. LabelsOK'
    BY <2>1, CountedOK DEF LabelsOK
  <2>4. cjob \in Job /\ cjob \in DOMAIN jobmap /\ jobmap[cjob] \in JobRecord
    BY <2>1 DEF JobsOK
  <2>5. CASE LocalBarrier(line)
    <3>. DEFINE r == [jobmap[cjob] EXCEPT !.lbs = Append(@, line.barrier)]
    <3>1. /\ jobmap' = [jobmap EXCEPT ![cjob] = r] /\ UNCHANGED <<launchmap, cjob>>
          /\ barriermap' = Listed(barriermap, line.barrier, cjob) /\ line.barrier \in Barrier
      BY <2>1, <2>5 DEF LocalBarrier
    <3>2. r \in JobRecord
      BY <2>4, <3>1, JoinedOK
    <3>. HIDE DEF r
    <3>3. jobmap' \in [DOMAIN jobmap' -> JobRecord] /\ DOMAIN jobmap' = DOMAIN jobmap
      BY <2>4, <3>1, <3>2, ChangedJob
    <3>4. barriermap' \in [DOMAIN barriermap' -> Seq(Job)] /\ DOMAIN barriermap' \subseteq Barrier
      <4>1. barriermap \in [DOMAIN barriermap -> Seq(Job)] /\ DOMAIN barriermap \subseteq Barrier
        BY DEF JobsOK
      <4>2. /\ Listed(barriermap, line.barrier, cjob) \in [DOMAIN barriermap \cup {line.barrier} -> Seq(Job)]
            /\ DOMAIN Listed(barriermap, line.barrier, cjob) = DOMAIN barriermap \cup {line.barrier}
        BY <2>4, <4>1, ListedType DEF OneMoreListed
      <4>. QED
        BY <3>1, <4>1, <4>2
    <3>. QED
      BY <2>2, <2>3, <3>1, <3>3, <3>4 DEF JobsOK
  <2>6. CASE LaunchJob(line)
    <3>. DEFINE r == [jobmap[cjob] EXCEPT !.launch = Append(@, line.job)]
    <3>1. /\ jobmap' = [jobmap EXCEPT ![cjob] = r] /\ UNCHANGED <<barriermap, cjob>>
          /\ launchmap' = Listed(launchmap, line.job, cjob) /\ line.job \in Job
      BY <2>1, <2>6 DEF LaunchJob
    <3>2. r \in JobRecord
      BY <2>4, <3>1, LaunchingOK
    <3>. HIDE DEF r
    <3>3. jobmap' \in [DOMAIN jobmap' -> JobRecord] /\ DOMAIN jobmap' = DOMAIN jobmap
      BY <2>4, <3>1, <3>2, ChangedJob
    <3>4. launchmap' \in [DOMAIN launchmap' -> Seq(Job)] /\ DOMAIN launchmap' \subseteq Job
      <4>1. launchmap \in [DOMAIN launchmap -> Seq(Job)] /\ DOMAIN launchmap \subseteq Job
        BY DEF JobsOK
      <4>2. /\ Listed(launchmap, line.job, cjob) \in [DOMAIN launchmap \cup {line.job} -> Seq(Job)]
            /\ DOMAIN Listed(launchmap, line.job, cjob) = DOMAIN launchmap \cup {line.job}
        BY <2>4, <4>1, ListedType DEF OneMoreListed
      <4>. QED
        BY <3>1, <4>1, <4>2
    <3>. QED
      BY <2>2, <2>3, <3>1, <3>3, <3>4 DEF JobsOK
  <2>7. CASE EndJob(line)
    <3>. DEFINE r == [jobmap[cjob] EXCEPT !.end = pos + line.size, !.last = index]
    <3>1. jobmap' = [jobmap EXCEPT ![cjob] = r] /\ UNCHANGED <<barriermap, launchmap>> /\ cjob' = NoJob
      BY <2>7 DEF EndJob
    <3>2. pos + line.size \in Nat /\ index \in Nat
      BY <2>1 DEF LinesOK, index
    <3>3. r \in JobRecord
      BY <2>4, <3>2, EndingOK
    <3>. HIDE DEF r
    <3>4. jobmap' \in [DOMAIN jobmap' -> JobRecord] /\ DOMAIN jobmap' = DOMAIN jobmap
      BY <2>4, <3>1, <3>3, ChangedJob
    <3>. QED
      BY <2>2, <2>3, <3>1, <3>4 DEF JobsOK
  <2>. QED
    BY <1>7, <2>5, <2>6, <2>7
<1>. QED
  BY <1>1, <1>2, <1>3, <1>4, <1>5, <1>6, <1>7
     DEF process, RejectDuplicate, RejectUnknown, CrashOutside

-----------------------------------------------------------------------------
(***************************************************************************)
(* The job a line stands in, for any sequence s of lines.                  *)
(***************************************************************************)
TurnsIn(s) == {m \in DOMAIN s : s[m].line.kind \in {"start", "end", "eof"}}

OpenIn(s, n) ==
  LET before == {m \in TurnsIn(s) : m < n}
  IN  IF before = {} THEN NoJob
      ELSE LET last == CHOOSE m \in before : \A k \in before : k <= m
           IN  IF s[last].line.kind = "start" THEN s[last].line.job ELSE NoJob

LEMMA OpenJobIs == Turns = TurnsIn(lines) /\ \A n : OpenJob(n) = OpenIn(lines, n)
<1>1. Turns = TurnsIn(lines)
  BY DEF Turns, TurnsIn, OfKind, Kind
<1>. QED
  BY <1>1 DEF OpenJob, OpenIn, Kind

LEMMA Greatest ==
  ASSUME NEW k \in Nat, NEW S \in SUBSET (1 .. k), S # {}
  PROVE  \E n \in S : \A m \in S : m <= n
<1>. DEFINE T == {k - n : n \in S}
<1>1. T \subseteq Nat /\ T # {}
  <2>1. \A n \in S : k - n \in Nat
    OBVIOUS
  <2>. QED
    BY <2>1
<1>2. PICK x \in T : \A y \in T : ~ (<<y, x>> \in OpToRel(<, Nat))
  BY <1>1, NatLessThanWellFounded, WFMin
<1>3. \A y \in T : ~ y < x
  BY <1>1, <1>2 DEF OpToRel
<1>4. PICK n \in S : x = k - n
  OBVIOUS
<1>5. ASSUME NEW m \in S PROVE m <= n
  <2>1. ~ k - m < k - n
    BY <1>3, <1>4
  <2>. QED
    BY <2>1
<1>. QED
  BY <1>5

LEMMA OpenNone ==
  ASSUME NEW s, NEW n, \A m \in TurnsIn(s) : ~ m < n
  PROVE  OpenIn(s, n) = NoJob
BY DEF OpenIn

LEMMA OpenIs ==
  ASSUME NEW T, NEW s \in Seq(T), NEW n \in Nat, NEW m \in TurnsIn(s), m < n,
         \A k \in TurnsIn(s) : k < n => k <= m
  PROVE  OpenIn(s, n) = IF s[m].line.kind = "start" THEN s[m].line.job ELSE NoJob
<1>. DEFINE before == {k \in TurnsIn(s) : k < n}
            last == CHOOSE k \in before : \A x \in before : x <= k
<1>1. m \in before /\ \A x \in before : x <= m
  OBVIOUS
<1>2. last \in before /\ \A x \in before : x <= last
  BY <1>1
<1>3. \A x \in before : x \in Nat
  BY DEF TurnsIn
<1>4. last = m
  <2>1. last <= m /\ m <= last /\ last \in Nat /\ m \in Nat
    BY <1>1, <1>2, <1>3
  <2>. QED
    BY <2>1
<1>5. before # {}
  BY <1>1
<1>6. OpenIn(s, n) = IF before = {} THEN NoJob
                     ELSE IF s[last].line.kind = "start" THEN s[last].line.job ELSE NoJob
  BY DEF OpenIn
<1>. QED
  BY <1>4, <1>5, <1>6

(* A line more does not change where the lines before it stand.            *)
LEMMA OpenAppend ==
  ASSUME NEW T, NEW s \in Seq(T), NEW e \in T
  PROVE  /\ \A n \in 1 .. Len(s) + 1 : OpenIn(Append(s, e), n) = OpenIn(s, n)
         /\ OpenIn(Append(s, e), Len(s) + 2) =
              IF e.line.kind = "start" THEN e.line.job
              ELSE IF e.line.kind \in {"end", "eof"} THEN NoJob
              ELSE OpenIn(s, Len(s) + 1)
<1>. DEFINE t == Append(s, e)
<1>1. /\ t \in Seq(T) /\ DOMAIN t = 1 .. Len(s) + 1 /\ DOMAIN s = 1 .. Len(s) /\ Len(s) \in Nat
      /\ \A i \in 1 .. Len(s) : t[i] = s[i]
      /\ t[Len(s) + 1] = e
  OBVIOUS
<1>. HIDE DEF t
<1>2. \A m \in 1 .. Len(s) : m \in TurnsIn(t) <=> m \in TurnsIn(s)
  BY <1>1 DEF TurnsIn
<1>3. /\ \A m \in TurnsIn(s) : m \in 1 .. Len(s)
      /\ \A m \in TurnsIn(t) : m \in 1 .. Len(s) + 1
  BY <1>1 DEF TurnsIn
<1>4. Len(s) + 1 \in TurnsIn(t) <=> e.line.kind \in {"start", "end", "eof"}
  BY <1>1 DEF TurnsIn
<1>5. ASSUME NEW n \in Nat, NEW m \in Nat,
             n <= m, n <= Len(s) + 1,
             \A k \in TurnsIn(t) : k < m => k < n
      PROVE  OpenIn(t, m) = OpenIn(s, n)
  <2>1. CASE \A k \in TurnsIn(s) : ~ k < n
    <3>1. \A k \in TurnsIn(t) : ~ k < m
      BY <1>1, <1>2, <1>3, <1>5, <2>1
    <3>. QED
      BY <2>1, <3>1, OpenNone
  <2>2. CASE \E k \in TurnsIn(s) : k < n
    <3>. DEFINE S == {k \in TurnsIn(s) : k < n}
    <3>1. S \subseteq 1 .. Len(s) /\ S # {}
      BY <1>3, <2>2
    <3>2. PICK k \in S : \A x \in S : x <= k
      BY <1>1, <3>1, Greatest
    <3>3. k \in TurnsIn(s) /\ k < n /\ \A x \in TurnsIn(s) : x < n => x <= k
      BY <3>2
    <3>4. k \in 1 .. Len(s) /\ k \in TurnsIn(t) /\ t[k] = s[k]
      BY <1>1, <1>2, <1>3, <3>3
    <3>5. k < m
      BY <1>1, <1>5, <3>3, <3>4
    <3>6. \A x \in TurnsIn(t) : x < m => x <= k
      BY <1>1, <1>2, <1>3, <1>5, <3>3
    <3>7. OpenIn(s, n) = IF s[k].line.kind = "start" THEN s[k].line.job ELSE NoJob
      BY <3>3, OpenIs
    <3>8. OpenIn(t, m) = IF t[k].line.kind = "start" THEN t[k].line.job ELSE NoJob
      BY <1>1, <3>4, <3>5, <3>6, OpenIs
    <3>. QED
      BY <3>4, <3>7, <3>8
  <2>. QED
    BY <2>1, <2>2
<1>6. \A n \in 1 .. Len(s) + 1 : OpenIn(t, n) = OpenIn(s, n)
  BY <1>1, <1>5
<1>7. CASE e.line.kind \in {"start", "end", "eof"}
  <2>1. OpenIn(t, Len(s) + 2) =
          IF t[Len(s) + 1].line.kind = "start" THEN t[Len(s) + 1].line.job ELSE NoJob
    <3>1. /\ Len(s) + 1 \in TurnsIn(t) /\ Len(s) + 1 < Len(s) + 2 /\ Len(s) + 2 \in Nat
          /\ \A k \in TurnsIn(t) : k < Len(s) + 2 => k <= Len(s) + 1
      BY <1>1, <1>3, <1>4, <1>7
    <3>. QED
      BY <1>1, <3>1, OpenIs
  <2>. QED
    BY <1>1, <1>6, <1>7, <2>1 DEF t
<1>8. CASE e.line.kind \notin {"start", "end", "eof"}
  <2>1. OpenIn(t, Len(s) + 2) = OpenIn(s, Len(s) + 1)
    <3>1. /\ \A k \in TurnsIn(t) : k < Len(s) + 2 => k < Len(s) + 1
          /\ Len(s) + 1 \in Nat /\ Len(s) + 2 \in Nat /\ Len(s) + 1 <= Len(s) + 2
      BY <1>1, <1>3, <1>4, <1>8
    <3>. QED
      BY <1>5, <3>1
  <2>. QED
    BY <1>6, <1>8, <2>1 DEF t
<1>. QED
  BY <1>7, <1>8

-----------------------------------------------------------------------------
(***************************************************************************)
(* The job at hand, and the crashes.                                       *)
(***************************************************************************)
Entry == [line : Lines, size : Nat]

Crossed(s) ==
  \E n \in DOMAIN s :
    s[n].line.kind \in {"barrier", "launch", "end"} /\ OpenIn(s, n) = NoJob

(* cjob_id is the job that the next line will stand in, and no line so far *)
(* has stood outside a job that may not.                                   *)
JobAtHand ==
  /\ stage \in {"reading", "done"} => cjob = OpenIn(lines, Len(lines) + 1)
  /\ stage = "crashed" <=> Crossed(lines)

LEMMA OneMoreLine ==
  ASSUME StateTypeOK, NEW line \in Lines, process(line)
  PROVE  /\ stage = "reading"
         /\ \E e \in Entry : e.line = line /\ lines' = Append(lines, e)
<1>1. CASE Pass(line) /\ line.kind # "unknown"
  <2>1. Size(line) \in Nat
    BY <1>1, SizeIsNat DEF StateTypeOK
  <2>. DEFINE e == [line |-> line, size |-> Size(line)]
  <2>2. e \in Entry /\ e.line = line /\ lines' = Append(lines, e) /\ stage = "reading"
    BY <1>1, <2>1 DEF Pass, Entry
  <2>. QED
    BY <2>2
<1>2. CASE \E why \in {"error", "crashed"} : Stop(line, why)
  <2>. DEFINE e == [line |-> line, size |-> 0]
  <2>1. e \in Entry /\ e.line = line /\ lines' = Append(lines, e) /\ stage = "reading"
    BY <1>2 DEF Stop, Entry
  <2>. QED
    BY <2>1
<1>. QED
  BY <1>1, <1>2
     DEF process, BeginLabel, StartJob, RejectDuplicate, Code, Align, EndOfFile, EndOfPage,
         RejectUnknown, LocalBarrier, LaunchJob, EndJob, CrashOutside, ApplyOffset

LEMMA CrossedAppend ==
  ASSUME NEW s \in Seq(Entry), NEW e \in Entry
  PROVE  Crossed(Append(s, e)) <=>
           \/ Crossed(s)
           \/ e.line.kind \in {"barrier", "launch", "end"} /\ OpenIn(s, Len(s) + 1) = NoJob
<1>. DEFINE t == Append(s, e)
<1>1. /\ DOMAIN t = 1 .. Len(s) + 1 /\ DOMAIN s = 1 .. Len(s) /\ Len(s) \in Nat
      /\ \A i \in 1 .. Len(s) : t[i] = s[i]
      /\ t[Len(s) + 1] = e
  OBVIOUS
<1>2. \A n \in 1 .. Len(s) + 1 : OpenIn(t, n) = OpenIn(s, n)
  BY OpenAppend
<1>. HIDE DEF t
<1>3. Crossed(t) <=> \/ Crossed(s)
                     \/ e.line.kind \in {"barrier", "launch", "end"} /\ OpenIn(s, Len(s) + 1) = NoJob
  BY <1>1, <1>2 DEF Crossed
<1>. QED
  BY <1>3 DEF t

LEMMA JobAtHandKept ==
  ASSUME StateTypeOK, JobAtHand, NEW line \in Lines, process(line)
  PROVE  JobAtHand'
<1>1. stage = "reading"
  BY OneMoreLine
<1>2. PICK e \in Entry : e.line = line /\ lines' = Append(lines, e)
  BY OneMoreLine
<1>3. lines \in Seq(Entry)
  BY DEF StateTypeOK, LinesOK, Entry
<1>4. /\ cjob = OpenIn(lines, Len(lines) + 1)
      /\ ~ Crossed(lines)
  BY <1>1 DEF JobAtHand
<1>5. Len(lines') = Len(lines) + 1 /\ Len(lines) \in Nat
  BY <1>2, <1>3
<1>6. OpenIn(lines', Len(lines') + 1) =
        IF line.kind = "start" THEN line.job
        ELSE IF line.kind \in {"end", "eof"} THEN NoJob ELSE cjob
  <2>1. OpenIn(Append(lines, e), Len(lines) + 2) =
          IF e.line.kind = "start" THEN e.line.job
          ELSE IF e.line.kind \in {"end", "eof"} THEN NoJob ELSE OpenIn(lines, Len(lines) + 1)
    BY <1>3, OpenAppend
  <2>2. Len(lines') + 1 = Len(lines) + 2
    BY <1>5
  <2>. QED
    BY <1>2, <1>4, <2>1, <2>2
<1>7. Crossed(lines') <=> line.kind \in {"barrier", "launch", "end"} /\ cjob = NoJob
  BY <1>2, <1>3, <1>4, CrossedAppend
<1>8. CASE CrashOutside(line)
  <2>1. stage' = "crashed" /\ Crossed(lines')
    BY <1>7, <1>8 DEF CrashOutside, Stop
  <2>. QED
    BY <2>1 DEF JobAtHand
<1>9. CASE RejectDuplicate(line) \/ RejectUnknown(line)
  <2>1. stage' = "error" /\ ~ Crossed(lines')
    BY <1>7, <1>9 DEF RejectDuplicate, RejectUnknown, Stop
  <2>. QED
    BY <2>1 DEF JobAtHand
<1>10. CASE StartJob(line)
  <2>1. stage' = "reading" /\ line.kind = "start" /\ cjob' = line.job
    BY <1>1, <1>10 DEF StartJob
  <2>. QED
    BY <1>6, <1>7, <2>1 DEF JobAtHand
<1>11. CASE EndOfFile(line) \/ EndJob(line)
  <2>1. stage' = "reading" /\ line.kind \in {"end", "eof"} /\ cjob' = NoJob
        /\ (line.kind = "end" => cjob # NoJob)
    BY <1>1, <1>11 DEF EndOfFile, EndJob
  <2>. QED
    BY <1>6, <1>7, <2>1 DEF JobAtHand
<1>12. CASE \/ BeginLabel(line) \/ Code(line) \/ Align(line) \/ EndOfPage(line)
            \/ LocalBarrier(line) \/ LaunchJob(line) \/ ApplyOffset(line)
  <2>1. /\ stage' = "reading" /\ cjob' = cjob
        /\ line.kind \notin {"start", "end", "eof"}
        /\ line.kind \in {"barrier", "launch"} => cjob # NoJob
    BY <1>1, <1>12 DEF BeginLabel, Code, Align, EndOfPage, LocalBarrier, LaunchJob, ApplyOffset, jobvars
  <2>. QED
    BY <1>6, <1>7, <2>1 DEF JobAtHand
<1>. QED
  BY <1>8, <1>9, <1>10, <1>11, <1>12 DEF process

-----------------------------------------------------------------------------
(***************************************************************************)
(* Barriers.                                                               *)
(***************************************************************************)
JoinsIn(s, j, b) ==
  \E n \in DOMAIN s : s[n].line.kind = "barrier" /\ s[n].line.barrier = b /\ OpenIn(s, n) = j

InJob(j, b) == j \in DOMAIN jobmap /\ b \in Range(jobmap[j].lbs)

InMap(j, b) == b \in DOMAIN barriermap /\ j \in Range(barriermap[b])

(* Both maps have the barriers of the lines so far.                        *)
BarriersAtHand ==
  stage # "crashed" =>
    \A j \in Job, b \in Barrier :
      (JoinsIn(lines, j, b) <=> InJob(j, b)) /\ (JoinsIn(lines, j, b) <=> InMap(j, b))

LEMMA JoinsAppend ==
  ASSUME NEW s \in Seq(Entry), NEW e \in Entry, NEW j, NEW b
  PROVE  JoinsIn(Append(s, e), j, b) <=>
           \/ JoinsIn(s, j, b)
           \/ e.line.kind = "barrier" /\ e.line.barrier = b /\ OpenIn(s, Len(s) + 1) = j
<1>. DEFINE t == Append(s, e)
<1>1. /\ DOMAIN t = 1 .. Len(s) + 1 /\ DOMAIN s = 1 .. Len(s) /\ Len(s) \in Nat
      /\ \A i \in 1 .. Len(s) : t[i] = s[i]
      /\ t[Len(s) + 1] = e
  OBVIOUS
<1>2. \A n \in 1 .. Len(s) + 1 : OpenIn(t, n) = OpenIn(s, n)
  BY OpenAppend
<1>. HIDE DEF t
<1>3. JoinsIn(t, j, b) <=>
        \/ JoinsIn(s, j, b)
        \/ e.line.kind = "barrier" /\ e.line.barrier = b /\ OpenIn(s, Len(s) + 1) = j
  BY <1>1, <1>2 DEF JoinsIn
<1>. QED
  BY <1>3 DEF t

(* A job that is not recorded yet has no barriers, so that its record      *)
(* begins right; the pseudo jobs are no jobs.                              *)
LEMMA BarriersKept ==
  ASSUME StateTypeOK, JobAtHand, BarriersAtHand, NEW line \in Lines, process(line)
  PROVE  BarriersAtHand'
<1>1. stage = "reading"
  BY OneMoreLine
<1>2. PICK e \in Entry : e.line = line /\ lines' = Append(lines, e)
  BY OneMoreLine
<1>3. lines \in Seq(Entry)
  BY DEF StateTypeOK, LinesOK, Entry
<1>4. cjob = OpenIn(lines, Len(lines) + 1)
  BY <1>1 DEF JobAtHand
<1>5. \A j \in Job, b \in Barrier :
        JoinsIn(lines', j, b) <=>
          JoinsIn(lines, j, b) \/ (line.kind = "barrier" /\ line.barrier = b /\ cjob = j)
  BY <1>2, <1>3, <1>4, JoinsAppend
<1>6. \A j \in Job, b \in Barrier :
        (JoinsIn(lines, j, b) <=> InJob(j, b)) /\ (JoinsIn(lines, j, b) <=> InMap(j, b))
  BY <1>1 DEF BarriersAtHand
<1>7. CASE CrashOutside(line)
  BY <1>7 DEF CrashOutside, Stop, BarriersAtHand
<1>8. CASE RejectDuplicate(line) \/ RejectUnknown(line)
  <2>1. line.kind # "barrier" /\ UNCHANGED <<jobmap, barriermap>>
    BY <1>8 DEF RejectDuplicate, RejectUnknown, Stop, jobvars
  <2>2. \A j \in Job, b \in Barrier : (InJob(j, b)' <=> InJob(j, b)) /\ (InMap(j, b)' <=> InMap(j, b))
    BY <2>1 DEF InJob, InMap
  <2>. QED
    BY <1>5, <1>6, <2>1, <2>2 DEF BarriersAtHand
<1>9. CASE StartJob(line) \/ EndOfFile(line) \/ EndOfPage(line)
  <2>. DEFINE Enters(j0, size) ==
                /\ jobmap' = With(jobmap, j0, JobAt(size)) /\ barriermap' = barriermap
                /\ line.kind # "barrier"
                /\ j0 \notin DOMAIN jobmap \/ j0 \notin Job
  <2>0. \E j0 : \E size \in Nat : Enters(j0, size)
    <3>1. CASE StartJob(line)
      <4>1. Enters(line.job, 0)
        BY <3>1 DEF StartJob
      <4>. QED
        BY <4>1
    <3>2. CASE EndOfFile(line)
      <4>1. line.size \in Nat
        BY <3>2, LinesAssumption DEF EndOfFile, WellFormed
      <4>2. Enters(Eof, line.size)
        BY <3>2, PseudoJobs DEF EndOfFile
      <4>. QED
        BY <4>1, <4>2
    <3>3. CASE EndOfPage(line)
      <4>1. EopId(eopnum) \notin Job
        BY EopIsNoJob DEF StateTypeOK
      <4>2. Enters(EopId(eopnum), 0)
        BY <3>3, <4>1 DEF EndOfPage
      <4>. QED
        BY <4>2
    <3>. QED
      BY <1>9, <3>1, <3>2, <3>3
  <2>1. PICK j0 : \E size \in Nat : Enters(j0, size)
    BY <2>0
  <2>3x. PICK size \in Nat : Enters(j0, size)
    BY <2>1
  <2>2. JobAt(size) \in JobRecord /\ JobAt(size).lbs = <<>>
    BY JobAtOK DEF StateTypeOK
  <2>3. /\ DOMAIN jobmap' = DOMAIN jobmap \cup {j0} /\ jobmap'[j0] = JobAt(size)
        /\ \A k \in DOMAIN jobmap \ {j0} : jobmap'[k] = jobmap[k]
    BY <2>3x, <2>2, EnteredJob DEF StateTypeOK
  <2>4. Range(<<>>) = {}
    BY DEF Range
  <2>5. \A j \in Job, b \in Barrier : InJob(j, b)' <=> InJob(j, b)
    BY <2>3x, <2>2, <2>3, <2>4 DEF InJob
  <2>6. \A j \in Job, b \in Barrier : InMap(j, b)' <=> InMap(j, b)
    BY <2>3x DEF InMap
  <2>. QED
    BY <1>5, <1>6, <2>3x, <2>5, <2>6 DEF BarriersAtHand
<1>10. CASE BeginLabel(line) \/ Code(line) \/ Align(line) \/ ApplyOffset(line)
  <2>1. line.kind # "barrier" /\ UNCHANGED <<jobmap, barriermap>>
    BY <1>10 DEF BeginLabel, Code, Align, ApplyOffset, jobvars
  <2>2. \A j \in Job, b \in Barrier : (InJob(j, b)' <=> InJob(j, b)) /\ (InMap(j, b)' <=> InMap(j, b))
    BY <2>1 DEF InJob, InMap
  <2>. QED
    BY <1>5, <1>6, <2>1, <2>2 DEF BarriersAtHand
<1>11. CASE LaunchJob(line) \/ EndJob(line)
  <2>1. line.kind # "barrier" /\ barriermap' = barriermap /\ cjob # NoJob
    BY <1>11 DEF LaunchJob, EndJob
  <2>2. cjob \in DOMAIN jobmap /\ jobmap[cjob] \in JobRecord
    BY <2>1 DEF StateTypeOK, JobsOK
  <2>3. \E r \in JobRecord : jobmap' = [jobmap EXCEPT ![cjob] = r] /\ r.lbs = jobmap[cjob].lbs
    <3>1. CASE LaunchJob(line)
      <4>1. line.job \in Job
        BY <3>1, LinesAssumption DEF LaunchJob, WellFormed
      <4>. DEFINE r == [jobmap[cjob] EXCEPT !.launch = Append(@, line.job)]
      <4>2. r \in JobRecord /\ r.lbs = jobmap[cjob].lbs
        BY <2>2, <4>1, LaunchingOK
      <4>3. jobmap' = [jobmap EXCEPT ![cjob] = r]
        BY <3>1 DEF LaunchJob
      <4>. QED
        BY <4>2, <4>3
    <3>2. CASE EndJob(line)
      <4>1. line.size \in Nat
        BY <3>2, LinesAssumption DEF EndJob, WellFormed
      <4>2. pos + line.size \in Nat /\ index \in Nat
        BY <4>1 DEF StateTypeOK, LinesOK, index
      <4>. DEFINE r == [jobmap[cjob] EXCEPT !.end = pos + line.size, !.last = index]
      <4>3. r \in JobRecord /\ r.lbs = jobmap[cjob].lbs
        BY <2>2, <4>2, EndingOK
      <4>4. jobmap' = [jobmap EXCEPT ![cjob] = r]
        BY <3>2 DEF EndJob
      <4>. QED
        BY <4>3, <4>4
    <3>. QED
      BY <1>11, <3>1, <3>2
  <2>4. PICK r \in JobRecord : jobmap' = [jobmap EXCEPT ![cjob] = r] /\ r.lbs = jobmap[cjob].lbs
    BY <2>3
  <2>5. /\ DOMAIN jobmap' = DOMAIN jobmap /\ jobmap'[cjob] = r
        /\ \A k \in DOMAIN jobmap \ {cjob} : jobmap'[k] = jobmap[k]
    BY <2>2, <2>4, ChangedJob DEF StateTypeOK
  <2>6. \A j \in Job, b \in Barrier : InJob(j, b)' <=> InJob(j, b)
    BY <2>4, <2>5 DEF InJob
  <2>7. \A j \in Job, b \in Barrier : InMap(j, b)' <=> InMap(j, b)
    BY <2>1 DEF InMap
  <2>. QED
    BY <1>5, <1>6, <2>1, <2>6, <2>7 DEF BarriersAtHand
<1>12. CASE LocalBarrier(line)
  <2>1. /\ line.kind = "barrier" /\ line.barrier \in Barrier /\ cjob # NoJob
        /\ jobmap' = [jobmap EXCEPT ![cjob].lbs = Append(@, line.barrier)]
        /\ barriermap' = Listed(barriermap, line.barrier, cjob)
    BY <1>12, LinesAssumption DEF LocalBarrier, WellFormed
  <2>2. cjob \in Job /\ cjob \in DOMAIN jobmap /\ jobmap[cjob] \in JobRecord
    BY <2>1 DEF StateTypeOK, JobsOK
  <2>. DEFINE r == [jobmap[cjob] EXCEPT !.lbs = Append(@, line.barrier)]
  <2>3. r \in JobRecord /\ r.lbs = Append(jobmap[cjob].lbs, line.barrier)
    BY <2>1, <2>2, JoinedOK
  <2>4. jobmap' = [jobmap EXCEPT ![cjob] = r]
    BY <2>1
  <2>. HIDE DEF r
  <2>5. /\ DOMAIN jobmap' = DOMAIN jobmap /\ jobmap'[cjob] = r
        /\ \A k \in DOMAIN jobmap \ {cjob} : jobmap'[k] = jobmap[k]
    BY <2>2, <2>3, <2>4, ChangedJob DEF StateTypeOK
  <2>6. jobmap[cjob].lbs \in Seq(Barrier)
    BY <2>2 DEF JobRecord
  <2>7. Range(r.lbs) = Range(jobmap[cjob].lbs) \cup {line.barrier}
    BY <2>1, <2>3, <2>6, AppendRange
  <2>8. \A j \in Job, b \in Barrier :
          InJob(j, b)' <=> InJob(j, b) \/ (j = cjob /\ b = line.barrier)
    BY <2>2, <2>5, <2>7 DEF InJob
  <2>9. barriermap \in [DOMAIN barriermap -> Seq(Job)]
    BY DEF StateTypeOK, JobsOK
  <2>10. /\ DOMAIN barriermap' = DOMAIN barriermap \cup {line.barrier}
         /\ Range(barriermap'[line.barrier]) =
              (IF line.barrier \in DOMAIN barriermap THEN Range(barriermap[line.barrier]) ELSE {})
              \cup {cjob}
         /\ \A k \in DOMAIN barriermap \ {line.barrier} : barriermap'[k] = barriermap[k]
    <3>1. OneMoreListed(barriermap, barriermap', line.barrier, cjob)
      BY <2>1, <2>2, <2>9, ListedType
    <3>. QED
      BY <3>1 DEF OneMoreListed
  <2>11. \A j \in Job, b \in Barrier :
          InMap(j, b)' <=> InMap(j, b) \/ (j = cjob /\ b = line.barrier)
    BY <2>10 DEF InMap
  <2>. QED
    BY <1>5, <1>6, <2>1, <2>8, <2>11 DEF BarriersAtHand
<1>. QED
  BY <1>7, <1>8, <1>9, <1>10, <1>11, <1>12 DEF process

-----------------------------------------------------------------------------
(***************************************************************************)
(* What a job and a label have of the lines, for any sequence s of lines.  *)
(***************************************************************************)
Directives == {"align", "eop", "eof"}

JobTurns == {"start", "end", "eof"}

LabelTurns == {"label", "start"}

(* No line behind line n is of one of these kinds.                         *)
OpenFrom(s, n, kinds) == \A k \in n + 1 .. Len(s) : s[k].line.kind \notin kinds

BodyIn(s, n) ==
  {n} \cup {m \in n + 1 .. Len(s) : \A k \in n + 1 .. m - 1 : s[k].line.kind \notin JobTurns}

BehindIn(s, n) ==
  {m \in n + 1 .. Len(s) : \A k \in n + 1 .. m : s[k].line.kind \notin LabelTurns}

DataIn(s, n) ==
  {m \in BehindIn(s, n) : \E k \in BehindIn(s, n) : m <= k /\ s[k].line.kind \notin Directives}

BytesIn(s, N) == MapThenSumSet(LAMBDA n : s[n].size, N)

LaunchedIn(s, N) == {s[m].line.job : m \in {m \in N : s[m].line.kind = "launch"}}

LaunchOf(e) == IF e.line.kind = "launch" THEN {e.line.job} ELSE {}

EndsIn(s, N) == \E m \in N : s[m].line.kind = "end"

(* The lines from a job's start_job, and its record: its launches, and once *)
(* it has ended its lines and bytes.                                       *)
JobFrom(s, n, r) ==
  /\ r.first + 1 = n /\ r.first <= r.last /\ r.last < Len(s)
  /\ r.start <= r.end
  /\ Range(r.launch) = LaunchedIn(s, BodyIn(s, n))
  /\ EndsIn(s, BodyIn(s, n)) =>
       /\ r.first + 1 .. r.last + 1 = BodyIn(s, n)
       /\ r.end = r.start + BytesIn(s, BodyIn(s, n))

(* The lines behind a label's, and its record, as long as no directive     *)
(* stands inside them.                                                     *)
LabelFrom(s, n, r) ==
  /\ r.index + 1 = n /\ n + r.count <= Len(s)
  /\ (\A m \in DataIn(s, n) : s[m].line.kind \notin Directives) =>
       /\ DataIn(s, n) = n + 1 .. n + r.count
       /\ r.size = BytesIn(s, n + 1 .. n + r.count)

(* What the record of job j, the job at hand and the position say.         *)
JobSays(s, j, r, current, p) ==
  LET n == r.first + 1
  IN  /\ n \in 1 .. Len(s) /\ s[n].line.kind = "start" /\ s[n].line.job = j
      /\ JobFrom(s, n, r)
      /\ current = j <=> OpenFrom(s, n, JobTurns)
      /\ current = j => p = r.start + BytesIn(s, n .. Len(s))

(* What the record of label l and the label at hand say.                   *)
LabelSays(s, l, r, current) ==
  LET n == r.index + 1
  IN  /\ n \in 1 .. Len(s) /\ s[n].line.kind = "label" /\ s[n].line.name = l
      /\ LabelFrom(s, n, r)
      /\ current = l <=> OpenFrom(s, n, LabelTurns)

JobsOfLines ==
  /\ IsFiniteSet(DOMAIN jobmap)
  /\ \A j \in Job \cap DOMAIN jobmap : JobSays(lines, j, jobmap[j], cjob, pos)
  /\ \A n \in DOMAIN lines :
       lines[n].line.kind = "start" =>
         lines[n].line.job \in DOMAIN jobmap /\ jobmap[lines[n].line.job].first + 1 = n

LabelsOfLines ==
  /\ IsFiniteSet(DOMAIN labelmap) /\ DOMAIN labelmap \subseteq Label
  /\ \A l \in DOMAIN labelmap : LabelSays(lines, l, labelmap[l], clabel)
  /\ \A n \in DOMAIN lines :
       lines[n].line.kind = "label" =>
         lines[n].line.name \in DOMAIN labelmap /\ labelmap[lines[n].line.name].index + 1 = n

Ids == Job \cup {Eof} \cup {EopId(n) : n \in Nat}

PseudosTo(u, i) == {x \in 1 .. i : u[x] \notin Job \cup {Eof}}

(* Job j stands once in the sequence u, behind that many .eop.             *)
OnceBehind(u, j, eops) ==
  \E i \in DOMAIN u :
    /\ u[i] = j /\ \A x \in DOMAIN u : u[x] = j => x = i
    /\ eops = Cardinality(PseudosTo(u, i))

(* m_jobids has every job once, behind as many .eop as were counted.       *)
IdsOfJobs ==
  /\ ids \in Seq(Ids)
  /\ eopnum = Cardinality(PseudosTo(ids, Len(ids)))
  /\ \A i \in DOMAIN ids : ids[i] \in DOMAIN jobmap
  /\ \A j \in Job \cap DOMAIN jobmap : OnceBehind(ids, j, jobmap[j].eopnum)

(* m_labellist has the labels in the order of their lines.                 *)
ListInOrder ==
  /\ Range(labellist) = DOMAIN labelmap
  /\ \A i, k \in DOMAIN labellist :
       i < k => labelmap[labellist[i]].index < labelmap[labellist[k]].index

(* No apply_offset_57 of this table behind line n.                         *)
LastApply(s, n) ==
  /\ s[n].line.kind = "apply"
  /\ \A m \in n + 1 .. Len(s) :
       s[m].line.kind = "apply" => s[m].line.table # s[n].line.table

(* apply_label_map has what the last apply_offset_57 of a table says.      *)
TablesOfLines ==
  /\ tables \in [DOMAIN tables -> Nat] /\ DOMAIN tables \subseteq Label
  /\ \A n \in DOMAIN lines :
       LastApply(lines, n) =>
         /\ lines[n].line.table \in DOMAIN tables
         /\ tables[lines[n].line.table] = lines[n].line.entries

Going == stage \in {"reading", "done"}

ResolvedWhenDone ==
  stage = "done" =>
    /\ ~ TableBroken
    /\ dependents = [l \in {l \in Resolved : tables[l] > 0} |-> Entries(l)]

RecordOK ==
  /\ Going => JobsOfLines /\ LabelsOfLines /\ IdsOfJobs /\ ListInOrder /\ TablesOfLines
  /\ ResolvedWhenDone

-----------------------------------------------------------------------------
(***************************************************************************)
(* Sums over finite sets, in whatever order they are taken.                *)
(***************************************************************************)
LEMMA Least ==
  ASSUME NEW S \in SUBSET Nat, S # {}
  PROVE  \E m \in S : \A k \in S : m <= k
<1>1. PICK m \in S : \A k \in S : ~ (<<k, m>> \in OpToRel(<, Nat))
  BY NatLessThanWellFounded, WFMin
<1>2. \A k \in S : ~ k < m
  BY <1>1 DEF OpToRel
<1>. QED
  BY <1>2

First(s) == CHOOSE x \in s : TRUE

(* One element after the other, as MapThenSumSet takes them.               *)
Taken(f, S, g) == [s \in SUBSET S |-> IF s = {} THEN 0 ELSE f[First(s)] + g[s \ {First(s)}]]

(* What is taken in any order.                                             *)
Summed(f, S, g) ==
  /\ g \in [SUBSET S -> Nat] /\ g[{}] = 0
  /\ \A s \in SUBSET S : \A x \in s : g[s] = f[x] + g[s \ {x}]

SumOf(f, S) == (CHOOSE g : g = Taken(f, S, g))[S]

LEMMA FirstIn == \A s : s # {} => First(s) \in s
BY DEF First

(* A subset of smaller cardinality for every element less.                 *)
LEMMA OneLess ==
  ASSUME NEW S, IsFiniteSet(S), NEW s \in SUBSET S, NEW x \in s
  PROVE  /\ s \ {x} \in SUBSET S
         /\ Cardinality(s) \in Nat /\ Cardinality(s) # 0
         /\ Cardinality(s \ {x}) = Cardinality(s) - 1
<1>1. IsFiniteSet(s)
  BY FS_Subset
<1>2. Cardinality(s) \in Nat /\ Cardinality(s) # 0
  BY <1>1, FS_CardinalityType, FS_EmptySet
<1>3. Cardinality(s \ {x}) = Cardinality(s) - 1
  BY <1>1, FS_RemoveElement
<1>. QED
  BY <1>2, <1>3

(* No set of subsets that some member of every nonempty part of goes on    *)
(* from smaller ones.                                                      *)
LEMMA Smallest ==
  ASSUME NEW S, IsFiniteSet(S), NEW B \in SUBSET SUBSET S, B # {}
  PROVE  \E s \in B : \A x \in s : s \ {x} \notin B
<1>. DEFINE C == {Cardinality(s) : s \in B}
<1>1. C \subseteq Nat /\ C # {}
  <2>1. \A s \in B : Cardinality(s) \in Nat
    BY FS_Subset, FS_CardinalityType
  <2>. QED
    BY <2>1
<1>2. PICK c \in C : \A d \in C : c <= d
  <2>. HIDE DEF C
  <2>. QED
    BY <1>1, Least
<1>3. PICK s \in B : Cardinality(s) = c
  OBVIOUS
<1>4. ASSUME NEW x \in s, s \ {x} \in B PROVE FALSE
  <2>1. Cardinality(s \ {x}) = c - 1 /\ c \in Nat
    BY <1>3, OneLess
  <2>2. Cardinality(s \ {x}) \in C
    BY <1>4
  <2>. QED
    BY <1>2, <2>1, <2>2
<1>. QED
  BY <1>4

(* The first n iterates of a function G on S.                              *)
Iterates(G, a, n, S) ==
  {h \in [0 .. n -> S] : h[0] = a /\ \A k \in 1 .. n : h[k] = G[h[k - 1]]}

LEMMA Iterated ==
  ASSUME NEW S, NEW G \in [S -> S], NEW a \in S, NEW n \in Nat
  PROVE  Iterates(G, a, n, S) # {}
<1>. DEFINE Bad == {k \in Nat : Iterates(G, a, k, S) = {}}
<1>1. SUFFICES ASSUME Bad # {} PROVE FALSE
  OBVIOUS
<1>2. PICK m \in Bad : \A k \in Bad : m <= k
  <2>1. Bad \in SUBSET Nat
    OBVIOUS
  <2>. HIDE DEF Bad
  <2>. QED
    BY <1>1, <2>1, Least
<1>3. m \in Nat /\ Iterates(G, a, m, S) = {}
  BY <1>2
<1>4. CASE m = 0
  <2>. DEFINE h == [k \in 0 .. m |-> a]
  <2>1. h \in [0 .. m -> S] /\ h[0] = a /\ 1 .. m = {}
    BY <1>4
  <2>. HIDE DEF h
  <2>2. h \in Iterates(G, a, m, S)
    BY <2>1 DEF Iterates
  <2>. QED
    BY <1>3, <2>2
<1>5. CASE m # 0
  <2>1. m - 1 \in Nat /\ ~ (m <= m - 1)
    BY <1>3, <1>5
  <2>2. Iterates(G, a, m - 1, S) # {}
    BY <1>2, <2>1
  <2>3. PICK f \in [0 .. m - 1 -> S] : f[0] = a /\ \A k \in 1 .. m - 1 : f[k] = G[f[k - 1]]
    BY <2>2 DEF Iterates
  <2>. DEFINE h == [k \in 0 .. m |-> IF k = m THEN G[f[m - 1]] ELSE f[k]]
  <2>4. f[m - 1] \in S /\ G[f[m - 1]] \in S
    BY <2>1, <2>3
  <2>5. h \in [0 .. m -> S] /\ h[0] = a
    BY <1>3, <1>5, <2>3, <2>4
  <2>6. ASSUME NEW k \in 1 .. m PROVE h[k] = G[h[k - 1]]
    <3>1. k - 1 \in 0 .. m /\ k \in 0 .. m /\ k - 1 # m /\ (k # m => k \in 1 .. m - 1)
      BY <1>3
    <3>2. h[k - 1] = f[k - 1]
      BY <3>1
    <3>3. CASE k = m
      BY <3>1, <3>2, <3>3
    <3>4. CASE k # m
      BY <2>3, <3>1, <3>2, <3>4
    <3>. QED
      BY <3>3, <3>4
  <2>. HIDE DEF h
  <2>7. h \in Iterates(G, a, m, S)
    BY <2>5, <2>6 DEF Iterates
  <2>. QED
    BY <1>3, <2>7
<1>. QED
  BY <1>4, <1>5

LEMMA TakenExists ==
  ASSUME NEW S, IsFiniteSet(S), NEW f \in [S -> Nat]
  PROVE  \E g : g = Taken(f, S, g)
<1>. DEFINE T == [SUBSET S -> Nat]
            G == [g \in T |-> Taken(f, S, g)]
            zero == [s \in SUBSET S |-> 0]
            n == Cardinality(S)
<1>1. n \in Nat /\ \A s \in SUBSET S : Cardinality(s) \in 0 .. n
  BY FS_Subset, FS_CardinalityType
<1>2. ASSUME NEW s \in SUBSET S, s # {}
      PROVE  First(s) \in s /\ First(s) \in S /\ s \ {First(s)} \in SUBSET S
  BY <1>2, FirstIn
<1>3. ASSUME NEW g \in T PROVE Taken(f, S, g) \in T
  <2>1. ASSUME NEW s \in SUBSET S
        PROVE  (IF s = {} THEN 0 ELSE f[First(s)] + g[s \ {First(s)}]) \in Nat
    BY <1>2
  <2>. QED
    BY <2>1 DEF Taken
<1>4. G \in [T -> T] /\ zero \in T
  BY <1>3
<1>5. PICK h \in [0 .. n -> T] : h[0] = zero /\ \A k \in 1 .. n : h[k] = G[h[k - 1]]
  <2>. HIDE DEF T, G, zero, n
  <2>1. Iterates(G, zero, n, T) # {}
    BY <1>1, <1>4, Iterated
  <2>. QED
    BY <2>1 DEF Iterates
<1>6. \A k \in 1 .. n : h[k - 1] \in T /\ h[k] = Taken(f, S, h[k - 1])
  <2>1. \A k \in 1 .. n : k - 1 \in 0 .. n
    BY <1>1
  <2>. HIDE DEF T, n
  <2>. QED
    BY <1>5, <2>1
<1>. DEFINE g == [s \in SUBSET S |-> h[Cardinality(s)][s]]
<1>7. ASSUME NEW s \in SUBSET S
      PROVE  g[s] = IF s = {} THEN 0 ELSE f[First(s)] + g[s \ {First(s)}]
  <2>1. CASE s = {}
    BY <1>5, <2>1, FS_EmptySet
  <2>2. CASE s # {}
    <3>1. First(s) \in s /\ s \ {First(s)} \in SUBSET S
      BY <1>2, <2>2
    <3>2. /\ Cardinality(s) \in 1 .. n
          /\ Cardinality(s \ {First(s)}) = Cardinality(s) - 1
      BY <1>1, <3>1, OneLess
    <3>3. h[Cardinality(s)] = Taken(f, S, h[Cardinality(s) - 1])
      BY <1>6, <3>2
    <3>4. h[Cardinality(s)][s] = f[First(s)] + h[Cardinality(s) - 1][s \ {First(s)}]
      BY <2>2, <3>3 DEF Taken
    <3>. QED
      BY <2>2, <3>1, <3>2, <3>4
  <2>. QED
    BY <2>1, <2>2
<1>8. g = [s \in SUBSET S |-> g[s]]
  OBVIOUS
<1>. HIDE DEF g
<1>9. g = Taken(f, S, g)
  BY <1>7, <1>8 DEF Taken
<1>. QED
  BY <1>9

(* Two elements can be taken in either order.                              *)
LEMMA TakenSums ==
  ASSUME NEW S, IsFiniteSet(S), NEW f \in [S -> Nat], NEW g, g = Taken(f, S, g)
  PROVE  Summed(f, S, g)
<1>1. /\ DOMAIN g = SUBSET S /\ g[{}] = 0
      /\ \A s \in SUBSET S : s # {} => g[s] = f[First(s)] + g[s \ {First(s)}]
  BY DEF Taken
<1>2. g = [s \in SUBSET S |-> g[s]]
  BY <1>1 DEF Taken
<1>3. ASSUME NEW s \in SUBSET S, s # {}
      PROVE  First(s) \in s /\ First(s) \in S /\ s \ {First(s)} \in SUBSET S
  BY <1>3, FirstIn
<1>4. \A s \in SUBSET S : g[s] \in Nat
  <2>. DEFINE B == {s \in SUBSET S : g[s] \notin Nat}
  <2>1. SUFFICES ASSUME B # {} PROVE FALSE
    OBVIOUS
  <2>2. B \in SUBSET SUBSET S
    OBVIOUS
  <2>3. PICK s \in B : \A x \in s : s \ {x} \notin B
    <3>. HIDE DEF B
    <3>. QED
      BY <2>1, <2>2, Smallest
  <2>4. s # {}
    <3>1. g[s] \notin Nat
      OBVIOUS
    <3>2. g[{}] = 0 /\ 0 \in Nat
      BY <1>1
    <3>. QED
      BY <3>1, <3>2, Zenon
  <2>5. g[s \ {First(s)}] \in Nat /\ f[First(s)] \in Nat
    BY <1>3, <2>3, <2>4
  <2>. QED
    BY <1>1, <2>4, <2>5
<1>5. \A s \in SUBSET S : \A x \in s : g[s] = f[x] + g[s \ {x}]
  <2>. DEFINE B == {s \in SUBSET S : ~ \A x \in s : g[s] = f[x] + g[s \ {x}]}
  <2>1. SUFFICES ASSUME B # {} PROVE FALSE
    OBVIOUS
  <2>2. B \in SUBSET SUBSET S
    OBVIOUS
  <2>3. PICK s \in B : \A x \in s : s \ {x} \notin B
    <3>. HIDE DEF B
    <3>. QED
      BY <2>1, <2>2, Smallest
  <2>4. PICK x \in s : g[s] # f[x] + g[s \ {x}]
    OBVIOUS
  <2>. DEFINE y == First(s)
              both == (s \ {x}) \ {y}
  <2>5. y \in s /\ y \in S /\ x \in S /\ g[s] = f[y] + g[s \ {y}]
    BY <1>1, <1>3
  <2>6. x # y
    BY <2>4, <2>5
  <2>7. s \ {x} \in SUBSET S /\ s \ {y} \in SUBSET S
    OBVIOUS
  <2>8. g[s \ {y}] = f[x] + g[(s \ {y}) \ {x}]
    BY <2>3, <2>5, <2>6, <2>7
  <2>9. g[s \ {x}] = f[y] + g[(s \ {x}) \ {y}]
    BY <2>3, <2>5, <2>6, <2>7
  <2>10. (s \ {y}) \ {x} = (s \ {x}) \ {y} /\ both \in SUBSET S
    OBVIOUS
  <2>11. f[x] \in Nat /\ f[y] \in Nat /\ g[both] \in Nat
    BY <1>4, <2>5, <2>10
  <2>. HIDE DEF y, both
  <2>12. g[s \ {x}] = f[y] + g[both] /\ g[s \ {y}] = f[x] + g[both]
    BY <2>8, <2>9, <2>10 DEF both
  <2>13. f[y] + (f[x] + g[both]) = f[x] + (f[y] + g[both])
    BY <2>11
  <2>. QED
    BY <2>4, <2>5, <2>12, <2>13
<1>. QED
  BY <1>1, <1>2, <1>4, <1>5 DEF Summed

(* The sum does not depend on the set the function was made for.           *)
LEMMA SummedAlike ==
  ASSUME NEW S, NEW T, IsFiniteSet(S), NEW f, NEW g, NEW e, NEW h,
         Summed(f, S, g), Summed(e, T, h),
         S \subseteq T, \A x \in S : f[x] = e[x]
  PROVE  g[S] = h[S]
<1>. DEFINE B == {s \in SUBSET S : g[s] # h[s]}
<1>1. SUFFICES ASSUME B # {} PROVE FALSE
  OBVIOUS
<1>2. B \in SUBSET SUBSET S
  OBVIOUS
<1>3. PICK s \in B : \A x \in s : s \ {x} \notin B
  <2>. HIDE DEF B
  <2>. QED
    BY <1>1, <1>2, Smallest
<1>4. s # {}
  BY DEF Summed
<1>5. PICK x \in s : TRUE
  BY <1>4
<1>6. /\ g[s] = f[x] + g[s \ {x}] /\ h[s] = e[x] + h[s \ {x}]
      /\ g[s \ {x}] = h[s \ {x}]
  BY <1>3 DEF Summed
<1>. QED
  BY <1>3, <1>6

LEMMA SumIs ==
  ASSUME NEW S, IsFiniteSet(S), NEW f \in [S -> Nat]
  PROVE  \E g : Summed(f, S, g) /\ SumOf(f, S) = g[S]
<1>1. PICK k : k = Taken(f, S, k)
  BY TakenExists
<1>. DEFINE g == CHOOSE g : g = Taken(f, S, g)
<1>2. g = Taken(f, S, g)
  BY <1>1
<1>. HIDE DEF g
<1>3. Summed(f, S, g)
  BY <1>2, TakenSums
<1>4. SumOf(f, S) = g[S]
  BY DEF SumOf, g
<1>. QED
  BY <1>3, <1>4

LEMMA Sums ==
  ASSUME NEW S, IsFiniteSet(S), NEW f \in [S -> Nat]
  PROVE  /\ SumOf(f, S) \in Nat
         /\ S = {} => SumOf(f, S) = 0
         /\ \A x \in S : \A e \in [S \ {x} -> Nat] :
              (\A y \in S \ {x} : e[y] = f[y]) => SumOf(f, S) = f[x] + SumOf(e, S \ {x})
<1>1. PICK g : Summed(f, S, g) /\ SumOf(f, S) = g[S]
  BY SumIs
<1>2. g \in [SUBSET S -> Nat] /\ S \in SUBSET S /\ g[{}] = 0
  BY <1>1 DEF Summed
<1>3. ASSUME NEW x \in S, NEW e \in [S \ {x} -> Nat], \A y \in S \ {x} : e[y] = f[y]
      PROVE  SumOf(f, S) = f[x] + SumOf(e, S \ {x})
  <2>1. IsFiniteSet(S \ {x}) /\ S \ {x} \subseteq S
    BY FS_RemoveElement
  <2>2. PICK h : Summed(e, S \ {x}, h) /\ SumOf(e, S \ {x}) = h[S \ {x}]
    BY <2>1, SumIs
  <2>3. h[S \ {x}] = g[S \ {x}]
    BY <1>1, <1>3, <2>1, <2>2, SummedAlike
  <2>4. g[S] = f[x] + g[S \ {x}]
    BY <1>1, <1>2 DEF Summed
  <2>. QED
    BY <1>1, <2>2, <2>3, <2>4
<1>. QED
  BY <1>1, <1>2, <1>3

LEMMA SumTaken ==
  ASSUME NEW S, IsFiniteSet(S), NEW f \in [S -> Nat], NEW g, g = Taken(f, S, g)
  PROVE  SumOf(f, S) = g[S]
<1>1. Summed(f, S, g)
  BY TakenSums
<1>2. PICK h : Summed(f, S, h) /\ SumOf(f, S) = h[S]
  BY SumIs
<1>3. g[S] = h[S]
  BY <1>1, <1>2, SummedAlike
<1>. QED
  BY <1>2, <1>3

(* The sums of the model.                                                  *)
LEMMA BytesAre ==
  ASSUME NEW s, NEW N, IsFiniteSet(N), \A n \in N : s[n].size \in Nat
  PROVE  BytesIn(s, N) = SumOf([n \in N |-> s[n].size], N)
<1>. DEFINE f == [n \in N |-> s[n].size]
            Step(g) == [S \in SUBSET N |->
                          IF S = {} THEN 0 ELSE s[CHOOSE x \in S : TRUE].size + g[S \ {CHOOSE x \in S : TRUE}]]
            c == CHOOSE g : g = Step(g)
<1>1. f \in [N -> Nat]
  OBVIOUS
<1>2. \A g : Taken(f, N, g) = Step(g)
  <2>1. \A S \in SUBSET N : S # {} => f[First(S)] = s[CHOOSE x \in S : TRUE].size
    BY FirstIn DEF First
  <2>. HIDE DEF f
  <2>. QED
    BY <2>1 DEF Taken, First
<1>3. BytesIn(s, N) = c[N]
  BY DEF BytesIn, MapThenSumSet, MapThenFoldSet
<1>. HIDE DEF f, Step, c
<1>4. \E g : g = Step(g)
  BY <1>1, <1>2, TakenExists
<1>5. c = Step(c)
  BY <1>4 DEF c
<1>6. SumOf(f, N) = c[N]
  BY <1>1, <1>2, <1>5, SumTaken
<1>. QED
  BY <1>3, <1>6 DEF f

LEMMA JobBytesAre ==
  ASSUME NEW J, IsFiniteSet(J), \A j \in J : jobmap[j].end - jobmap[j].start \in Nat
  PROVE  JobBytes(J) = SumOf([j \in J |-> jobmap[j].end - jobmap[j].start], J)
<1>. DEFINE f == [j \in J |-> jobmap[j].end - jobmap[j].start]
            Step(g) == [S \in SUBSET J |->
                          IF S = {} THEN 0 ELSE (jobmap[CHOOSE x \in S : TRUE].end - jobmap[CHOOSE x \in S : TRUE].start) + g[S \ {CHOOSE x \in S : TRUE}]]
            c == CHOOSE g : g = Step(g)
<1>1. f \in [J -> Nat]
  OBVIOUS
<1>2. \A g : Taken(f, J, g) = Step(g)
  <2>1. \A S \in SUBSET J : S # {} => f[First(S)] = (jobmap[CHOOSE x \in S : TRUE].end - jobmap[CHOOSE x \in S : TRUE].start)
    BY FirstIn DEF First
  <2>. HIDE DEF f
  <2>. QED
    BY <2>1 DEF Taken, First
<1>3. JobBytes(J) = c[J]
  BY DEF JobBytes, MapThenSumSet, MapThenFoldSet
<1>. HIDE DEF f, Step, c
<1>4. \E g : g = Step(g)
  BY <1>1, <1>2, TakenExists
<1>5. c = Step(c)
  BY <1>4 DEF c
<1>6. SumOf(f, J) = c[J]
  BY <1>1, <1>2, <1>5, SumTaken
<1>. QED
  BY <1>3, <1>6 DEF f

LEMMA LabelBytesAre ==
  ASSUME NEW L, IsFiniteSet(L), \A l \in L : labelmap[l].size \in Nat
  PROVE  LabelBytes(L) = SumOf([l \in L |-> labelmap[l].size], L)
<1>. DEFINE f == [l \in L |-> labelmap[l].size]
            Step(g) == [S \in SUBSET L |->
                          IF S = {} THEN 0 ELSE labelmap[CHOOSE x \in S : TRUE].size + g[S \ {CHOOSE x \in S : TRUE}]]
            c == CHOOSE g : g = Step(g)
<1>1. f \in [L -> Nat]
  OBVIOUS
<1>2. \A g : Taken(f, L, g) = Step(g)
  <2>1. \A S \in SUBSET L : S # {} => f[First(S)] = labelmap[CHOOSE x \in S : TRUE].size
    BY FirstIn DEF First
  <2>. HIDE DEF f
  <2>. QED
    BY <2>1 DEF Taken, First
<1>3. LabelBytes(L) = c[L]
  BY DEF LabelBytes, MapThenSumSet, MapThenFoldSet
<1>. HIDE DEF f, Step, c
<1>4. \E g : g = Step(g)
  BY <1>1, <1>2, TakenExists
<1>5. c = Step(c)
  BY <1>4 DEF c
<1>6. SumOf(f, L) = c[L]
  BY <1>1, <1>2, <1>5, SumTaken
<1>. QED
  BY <1>3, <1>6 DEF f

LEMMA BytesAdd ==
  ASSUME NEW s, NEW N, IsFiniteSet(N), \A n \in N : s[n].size \in Nat
  PROVE  /\ BytesIn(s, N) \in Nat
         /\ N = {} => BytesIn(s, N) = 0
         /\ \A x \in N : BytesIn(s, N) = BytesIn(s, N \ {x}) + s[x].size
<1>. DEFINE f == [n \in N |-> s[n].size]
<1>1. f \in [N -> Nat] /\ BytesIn(s, N) = SumOf(f, N)
  BY BytesAre
<1>2. ASSUME NEW x \in N PROVE BytesIn(s, N) = BytesIn(s, N \ {x}) + s[x].size
  <2>. DEFINE e == [n \in N \ {x} |-> s[n].size]
  <2>1. e \in [N \ {x} -> Nat] /\ \A n \in N \ {x} : e[n] = f[n]
    OBVIOUS
  <2>2. IsFiniteSet(N \ {x}) /\ \A n \in N \ {x} : s[n].size \in Nat
    BY FS_RemoveElement
  <2>3. BytesIn(s, N \ {x}) = SumOf(e, N \ {x}) /\ SumOf(e, N \ {x}) \in Nat
    <3>1. BytesIn(s, N \ {x}) = SumOf(e, N \ {x})
      BY <2>2, BytesAre
    <3>. HIDE DEF e
    <3>. QED
      BY <2>1, <2>2, <3>1, Sums
  <2>4. f[x] = s[x].size /\ f[x] \in Nat
    OBVIOUS
  <2>. HIDE DEF e, f
  <2>5. SumOf(f, N) = f[x] + SumOf(e, N \ {x})
    BY <1>1, <2>1, Sums
  <2>. QED
    BY <1>1, <2>3, <2>4, <2>5
<1>. HIDE DEF f
<1>. QED
  BY <1>1, <1>2, Sums

LEMMA BytesSame ==
  ASSUME NEW s, NEW t, NEW N, IsFiniteSet(N), \A n \in N : s[n].size \in Nat,
         \A n \in N : t[n] = s[n]
  PROVE  BytesIn(t, N) = BytesIn(s, N)
<1>1. \A n \in N : t[n].size = s[n].size
  OBVIOUS
<1>2. [n \in N |-> t[n].size] = [n \in N |-> s[n].size]
  BY <1>1
<1>3. \A n \in N : t[n].size \in Nat
  BY <1>1
<1>. QED
  BY <1>2, <1>3, BytesAre

LEMMA JobBytesAdd ==
  ASSUME NEW J, IsFiniteSet(J), \A j \in J : jobmap[j].end - jobmap[j].start \in Nat
  PROVE  /\ JobBytes(J) \in Nat
         /\ \A j : J = {j} => JobBytes(J) = jobmap[j].end - jobmap[j].start
<1>. DEFINE f == [j \in J |-> jobmap[j].end - jobmap[j].start]
<1>1. f \in [J -> Nat] /\ JobBytes(J) = SumOf(f, J)
  BY JobBytesAre
<1>2. ASSUME NEW j, J = {j} PROVE JobBytes(J) = jobmap[j].end - jobmap[j].start
  <2>1. f[j] = jobmap[j].end - jobmap[j].start /\ f[j] \in Nat /\ j \in J
    BY <1>2
  <2>2. J \ {j} = {} /\ <<>> \in [J \ {j} -> Nat]
    BY <1>2
  <2>. HIDE DEF f
  <2>3. SumOf(f, J) = f[j] + SumOf(<<>>, J \ {j})
    BY <1>1, <2>1, <2>2, Sums
  <2>4. SumOf(<<>>, J \ {j}) = 0
    BY <2>2, Sums, FS_EmptySet
  <2>. QED
    BY <1>1, <2>1, <2>3, <2>4
<1>. HIDE DEF f
<1>. QED
  BY <1>1, <1>2, Sums

LEMMA LabelBytesAdd ==
  ASSUME NEW L, IsFiniteSet(L), \A l \in L : labelmap[l].size \in Nat
  PROVE  /\ LabelBytes(L) \in Nat
         /\ \A l : L = {l} => LabelBytes(L) = labelmap[l].size
<1>. DEFINE f == [l \in L |-> labelmap[l].size]
<1>1. f \in [L -> Nat] /\ LabelBytes(L) = SumOf(f, L)
  BY LabelBytesAre
<1>2. ASSUME NEW l, L = {l} PROVE LabelBytes(L) = labelmap[l].size
  <2>1. f[l] = labelmap[l].size /\ f[l] \in Nat /\ l \in L
    BY <1>2
  <2>2. L \ {l} = {} /\ <<>> \in [L \ {l} -> Nat]
    BY <1>2
  <2>. HIDE DEF f
  <2>3. SumOf(f, L) = f[l] + SumOf(<<>>, L \ {l})
    BY <1>1, <2>1, <2>2, Sums
  <2>4. SumOf(<<>>, L \ {l}) = 0
    BY <2>2, Sums, FS_EmptySet
  <2>. QED
    BY <1>1, <2>1, <2>3, <2>4
<1>. HIDE DEF f
<1>. QED
  BY <1>1, <1>2, Sums

-----------------------------------------------------------------------------
(***************************************************************************)
(* One line more.                                                          *)
(***************************************************************************)
LEMMA Appended ==
  ASSUME NEW s \in Seq(Entry), NEW e \in Entry
  PROVE  /\ Append(s, e) \in Seq(Entry) /\ Len(Append(s, e)) = Len(s) + 1
         /\ DOMAIN Append(s, e) = 1 .. Len(s) + 1 /\ DOMAIN s = 1 .. Len(s) /\ Len(s) \in Nat
         /\ \A i \in 1 .. Len(s) : Append(s, e)[i] = s[i] /\ s[i] \in Entry
         /\ Append(s, e)[Len(s) + 1] = e
  OBVIOUS

LEMMA OpenFromAppend ==
  ASSUME NEW s \in Seq(Entry), NEW e \in Entry, NEW kinds
  PROVE  /\ \A n \in 1 .. Len(s) :
              OpenFrom(Append(s, e), n, kinds) <=> OpenFrom(s, n, kinds) /\ e.line.kind \notin kinds
         /\ OpenFrom(Append(s, e), Len(s) + 1, kinds)
<1>. DEFINE t == Append(s, e)
<1>1. /\ Len(t) = Len(s) + 1 /\ Len(s) \in Nat
      /\ \A i \in 1 .. Len(s) : t[i] = s[i]
      /\ t[Len(s) + 1] = e
  BY Appended
<1>. HIDE DEF t
<1>2. ASSUME NEW n \in 1 .. Len(s)
      PROVE  OpenFrom(t, n, kinds) <=> OpenFrom(s, n, kinds) /\ e.line.kind \notin kinds
  <2>1. n + 1 .. Len(t) = (n + 1 .. Len(s)) \cup {Len(s) + 1}
    BY <1>1
  <2>2. \A k \in n + 1 .. Len(s) : t[k] = s[k]
    BY <1>1
  <2>. QED
    BY <1>1, <2>1, <2>2 DEF OpenFrom
<1>3. OpenFrom(t, Len(s) + 1, kinds)
  BY <1>1 DEF OpenFrom
<1>. QED
  BY <1>2, <1>3 DEF t

(* The lines of a job grow until one that turns to another, with it.       *)
LEMMA BodyAppend ==
  ASSUME NEW s \in Seq(Entry), NEW e \in Entry
  PROVE  /\ \A n \in 1 .. Len(s) :
              BodyIn(Append(s, e), n) =
                BodyIn(s, n) \cup (IF OpenFrom(s, n, JobTurns) THEN {Len(s) + 1} ELSE {})
         /\ BodyIn(Append(s, e), Len(s) + 1) = {Len(s) + 1}
<1>. DEFINE t == Append(s, e)
<1>1. /\ Len(t) = Len(s) + 1 /\ Len(s) \in Nat
      /\ \A i \in 1 .. Len(s) : t[i] = s[i]
  BY Appended
<1>. HIDE DEF t
<1>2. ASSUME NEW n \in 1 .. Len(s)
      PROVE  BodyIn(t, n) = BodyIn(s, n) \cup (IF OpenFrom(s, n, JobTurns) THEN {Len(s) + 1} ELSE {})
  <2>1. n + 1 .. Len(t) = (n + 1 .. Len(s)) \cup {Len(s) + 1}
    BY <1>1
  <2>2. ASSUME NEW m \in n + 1 .. Len(t)
        PROVE  (\A k \in n + 1 .. m - 1 : t[k].line.kind \notin JobTurns) <=>
                 \A k \in n + 1 .. m - 1 : s[k].line.kind \notin JobTurns
    <3>1. \A k \in n + 1 .. m - 1 : t[k] = s[k]
      BY <1>1
    <3>. QED
      BY <3>1
  <2>3. n + 1 .. (Len(s) + 1) - 1 = n + 1 .. Len(s)
    BY <1>1
  <2>4. OpenFrom(s, n, JobTurns) <=> \A k \in n + 1 .. (Len(s) + 1) - 1 : s[k].line.kind \notin JobTurns
    BY <2>3 DEF OpenFrom
  <2>. HIDE DEF JobTurns
  <2>5. ASSUME NEW m
        PROVE  m \in BodyIn(t, n) <=>
                 m \in BodyIn(s, n) \/ (OpenFrom(s, n, JobTurns) /\ m = Len(s) + 1)
    <3>1. CASE m \in n + 1 .. Len(s)
      <4>1. m \in n + 1 .. Len(t) /\ m # Len(s) + 1
        BY <1>1, <2>1, <3>1
      <4>. QED
        BY <2>2, <3>1, <4>1 DEF BodyIn
    <3>2. CASE m = Len(s) + 1
      <4>1. m \in n + 1 .. Len(t) /\ m \notin n + 1 .. Len(s) /\ m # n
        BY <1>1, <2>1, <3>2
      <4>. QED
        BY <2>2, <2>4, <3>2, <4>1 DEF BodyIn
    <3>3. CASE m \notin n + 1 .. Len(t)
      BY <2>1, <3>3 DEF BodyIn
    <3>. QED
      BY <2>1, <3>1, <3>2, <3>3
  <2>. QED
    BY <2>5
<1>3. BodyIn(t, Len(s) + 1) = {Len(s) + 1}
  BY <1>1 DEF BodyIn
<1>. QED
  BY <1>2, <1>3 DEF t

LEMMA BodyParts ==
  ASSUME NEW s \in Seq(Entry), NEW n \in 1 .. Len(s)
  PROVE  /\ BodyIn(s, n) \subseteq n .. Len(s) /\ n \in BodyIn(s, n)
         /\ OpenFrom(s, n, JobTurns) => BodyIn(s, n) = n .. Len(s)
<1>1. BodyIn(s, n) \subseteq n .. Len(s) /\ n \in BodyIn(s, n)
  BY DEF BodyIn
<1>2. ASSUME OpenFrom(s, n, JobTurns) PROVE n .. Len(s) \subseteq BodyIn(s, n)
  <2>1. ASSUME NEW m \in n .. Len(s) PROVE m \in BodyIn(s, n)
    <3>1. m = n \/ m \in n + 1 .. Len(s)
      OBVIOUS
    <3>2. \A k \in n + 1 .. m - 1 : k \in n + 1 .. Len(s)
      OBVIOUS
    <3>. QED
      BY <1>2, <3>1, <3>2 DEF BodyIn, OpenFrom
  <2>. QED
    BY <2>1
<1>. QED
  BY <1>1, <1>2

LEMMA BehindAppend ==
  ASSUME NEW s \in Seq(Entry), NEW e \in Entry
  PROVE  /\ \A n \in 1 .. Len(s) :
              BehindIn(Append(s, e), n) =
                BehindIn(s, n) \cup (IF OpenFrom(s, n, LabelTurns) /\ e.line.kind \notin LabelTurns
                                     THEN {Len(s) + 1} ELSE {})
         /\ BehindIn(Append(s, e), Len(s) + 1) = {}
<1>. DEFINE t == Append(s, e)
<1>1. /\ Len(t) = Len(s) + 1 /\ Len(s) \in Nat
      /\ \A i \in 1 .. Len(s) : t[i] = s[i]
      /\ t[Len(s) + 1] = e
  BY Appended
<1>. HIDE DEF t
<1>. DEFINE more(n) == OpenFrom(s, n, LabelTurns) /\ e.line.kind \notin LabelTurns
<1>2. ASSUME NEW n \in 1 .. Len(s)
      PROVE  BehindIn(t, n) = BehindIn(s, n) \cup (IF more(n) THEN {Len(s) + 1} ELSE {})
  <2>1. n + 1 .. Len(t) = (n + 1 .. Len(s)) \cup {Len(s) + 1}
    BY <1>1
  <2>2. ASSUME NEW m \in n + 1 .. Len(s)
        PROVE  (\A k \in n + 1 .. m : t[k].line.kind \notin LabelTurns) <=>
                 \A k \in n + 1 .. m : s[k].line.kind \notin LabelTurns
    <3>1. \A k \in n + 1 .. m : t[k] = s[k]
      BY <1>1
    <3>. QED
      BY <3>1
  <2>3. more(n) <=> \A k \in n + 1 .. Len(s) + 1 : t[k].line.kind \notin LabelTurns
    <3>1. more(n) <=> OpenFrom(t, n, LabelTurns)
      BY OpenFromAppend DEF t
    <3>. QED
      BY <1>1, <3>1 DEF OpenFrom
  <2>. HIDE DEF more, LabelTurns
  <2>5. ASSUME NEW m
        PROVE  m \in BehindIn(t, n) <=> m \in BehindIn(s, n) \/ (more(n) /\ m = Len(s) + 1)
    <3>1. CASE m \in n + 1 .. Len(s)
      <4>1. m \in n + 1 .. Len(t) /\ m # Len(s) + 1
        BY <1>1, <2>1, <3>1
      <4>. QED
        BY <2>2, <3>1, <4>1 DEF BehindIn
    <3>2. CASE m = Len(s) + 1
      <4>1. m \in n + 1 .. Len(t) /\ m \notin n + 1 .. Len(s)
        BY <1>1, <2>1, <3>2
      <4>. QED
        BY <2>3, <3>2, <4>1 DEF BehindIn
    <3>3. CASE m \notin n + 1 .. Len(t)
      BY <2>1, <3>3 DEF BehindIn
    <3>. QED
      BY <2>1, <3>1, <3>2, <3>3
  <2>. QED
    BY <2>5
<1>3. BehindIn(t, Len(s) + 1) = {}
  BY <1>1 DEF BehindIn
<1>. QED
  BY <1>2, <1>3 DEF t

LEMMA BehindParts ==
  ASSUME NEW s \in Seq(Entry), NEW n \in 1 .. Len(s)
  PROVE  /\ BehindIn(s, n) \subseteq n + 1 .. Len(s)
         /\ DataIn(s, n) \subseteq BehindIn(s, n)
         /\ OpenFrom(s, n, LabelTurns) => BehindIn(s, n) = n + 1 .. Len(s)
<1>1. BehindIn(s, n) \subseteq n + 1 .. Len(s) /\ DataIn(s, n) \subseteq BehindIn(s, n)
  BY DEF BehindIn, DataIn
<1>2. ASSUME OpenFrom(s, n, LabelTurns), NEW m \in n + 1 .. Len(s) PROVE m \in BehindIn(s, n)
  <2>1. \A k \in n + 1 .. m : k \in n + 1 .. Len(s)
    OBVIOUS
  <2>. QED
    BY <1>2, <2>1 DEF BehindIn, OpenFrom
<1>. QED
  BY <1>1, <1>2

(* The data of a label grow by a line that is no directive, and by the     *)
(* directives in front of it.                                              *)
LEMMA DataAppend ==
  ASSUME NEW s \in Seq(Entry), NEW e \in Entry
  PROVE  /\ \A n \in 1 .. Len(s) :
              DataIn(Append(s, e), n) =
                IF OpenFrom(s, n, LabelTurns) /\ e.line.kind \notin LabelTurns \cup Directives
                THEN n + 1 .. Len(s) + 1 ELSE DataIn(s, n)
         /\ DataIn(Append(s, e), Len(s) + 1) = {}
<1>. DEFINE t == Append(s, e)
<1>1. /\ Len(t) = Len(s) + 1 /\ Len(s) \in Nat
      /\ \A i \in 1 .. Len(s) : t[i] = s[i]
      /\ t[Len(s) + 1] = e
  BY Appended
<1>2. /\ \A n \in 1 .. Len(s) :
           BehindIn(t, n) =
             BehindIn(s, n) \cup (IF OpenFrom(s, n, LabelTurns) /\ e.line.kind \notin LabelTurns
                                  THEN {Len(s) + 1} ELSE {})
      /\ BehindIn(t, Len(s) + 1) = {}
  BY BehindAppend
<1>. HIDE DEF t
<1>3. ASSUME NEW n \in 1 .. Len(s)
      PROVE  DataIn(t, n) =
               IF OpenFrom(s, n, LabelTurns) /\ e.line.kind \notin LabelTurns \cup Directives
               THEN n + 1 .. Len(s) + 1 ELSE DataIn(s, n)
  <2>1. BehindIn(s, n) \subseteq n + 1 .. Len(s) /\ \A k \in BehindIn(s, n) : t[k] = s[k]
    BY <1>1, BehindParts
  <2>. HIDE DEF LabelTurns, Directives
  <2>2. CASE OpenFrom(s, n, LabelTurns) /\ e.line.kind \notin LabelTurns \cup Directives
    <3>1. BehindIn(s, n) = n + 1 .. Len(s)
      BY <2>2, BehindParts
    <3>2. BehindIn(t, n) = n + 1 .. Len(s) + 1
      <4>1. BehindIn(t, n) = (n + 1 .. Len(s)) \cup {Len(s) + 1}
        BY <1>2, <2>2, <3>1
      <4>2. n + 1 .. Len(s) + 1 = (n + 1 .. Len(s)) \cup {Len(s) + 1}
        BY <1>1
      <4>. QED
        BY <4>1, <4>2
    <3>3. \A m \in n + 1 .. Len(s) + 1 : m <= Len(s) + 1
      OBVIOUS
    <3>4. Len(s) + 1 \in BehindIn(t, n) /\ t[Len(s) + 1].line.kind \notin Directives
      BY <1>1, <2>2, <3>2
    <3>5. DataIn(t, n) = n + 1 .. Len(s) + 1
      BY <3>2, <3>3, <3>4 DEF DataIn
    <3>. QED
      BY <2>2, <3>5
  <2>3. CASE ~ (OpenFrom(s, n, LabelTurns) /\ e.line.kind \notin LabelTurns)
    <3>1. BehindIn(t, n) = BehindIn(s, n)
      BY <1>2, <2>3
    <3>2. DataIn(t, n) = DataIn(s, n)
      BY <2>1, <3>1 DEF DataIn
    <3>. QED
      BY <2>3, <3>2
  <2>4. CASE OpenFrom(s, n, LabelTurns) /\ e.line.kind \notin LabelTurns /\ e.line.kind \in Directives
    <3>1. BehindIn(t, n) = BehindIn(s, n) \cup {Len(s) + 1}
      BY <1>2, <2>4
    <3>2. t[Len(s) + 1].line.kind \in Directives
      BY <1>1, <2>4
    <3>3. \A k \in BehindIn(s, n) : k < Len(s) + 1
      BY <2>1
    <3>4. ASSUME NEW m \in BehindIn(t, n)
          PROVE  (\E k \in BehindIn(t, n) : m <= k /\ t[k].line.kind \notin Directives) <=>
                   m \in BehindIn(s, n) /\ \E k \in BehindIn(s, n) : m <= k /\ s[k].line.kind \notin Directives
      <4>1. m = Len(s) + 1 \/ m \in BehindIn(s, n)
        BY <3>1
      <4>2. \A k \in BehindIn(s, n) : m = Len(s) + 1 => ~ m <= k
        BY <1>1, <2>1
      <4>. QED
        BY <2>1, <3>1, <3>2, <4>1, <4>2
    <3>5. DataIn(t, n) = DataIn(s, n)
      BY <3>1, <3>4 DEF DataIn
    <3>. QED
      BY <2>4, <3>5
  <2>. QED
    BY <2>2, <2>3, <2>4
<1>4. DataIn(t, Len(s) + 1) = {}
  BY <1>2 DEF DataIn
<1>. QED
  BY <1>3, <1>4 DEF t

LEMMA BytesAppend ==
  ASSUME NEW s \in Seq(Entry), NEW e \in Entry
  PROVE  /\ \A N \in SUBSET (1 .. Len(s)) :
              /\ IsFiniteSet(N)
              /\ BytesIn(s, N) \in Nat /\ BytesIn(Append(s, e), N) = BytesIn(s, N)
         /\ \A n \in 1 .. Len(s) + 1 :
              BytesIn(Append(s, e), n .. Len(s) + 1) = BytesIn(s, n .. Len(s)) + e.size
<1>. DEFINE t == Append(s, e)
<1>1. /\ Len(t) = Len(s) + 1 /\ Len(s) \in Nat
      /\ \A i \in 1 .. Len(s) : t[i] = s[i] /\ s[i] \in Entry
      /\ t[Len(s) + 1] = e
  BY Appended
<1>. HIDE DEF t
<1>2. e.size \in Nat /\ \A i \in 1 .. Len(s) : s[i].size \in Nat
  BY <1>1 DEF Entry
<1>3. ASSUME NEW N \in SUBSET (1 .. Len(s))
      PROVE  IsFiniteSet(N) /\ BytesIn(s, N) \in Nat /\ BytesIn(t, N) = BytesIn(s, N)
  <2>1. IsFiniteSet(N)
    <3>1. 1 \in Int /\ Len(s) \in Int
      BY <1>1
    <3>2. IsFiniteSet(1 .. Len(s))
      BY <3>1, FS_Interval
    <3>. QED
      BY <3>2, FS_Subset
  <2>2. \A n \in N : s[n].size \in Nat /\ t[n] = s[n]
    BY <1>1, <1>2
  <2>. QED
    BY <2>1, <2>2, BytesAdd, BytesSame
<1>4. ASSUME NEW n \in 1 .. Len(s) + 1
      PROVE  BytesIn(t, n .. Len(s) + 1) = BytesIn(s, n .. Len(s)) + e.size
  <2>. DEFINE N == n .. Len(s) + 1
  <2>1. IsFiniteSet(N) /\ Len(s) + 1 \in N /\ N \ {Len(s) + 1} = n .. Len(s)
    <3>1. n \in Int /\ Len(s) + 1 \in Int
      BY <1>1
    <3>2. IsFiniteSet(N)
      BY <3>1, FS_Interval
    <3>3. Len(s) + 1 \in N /\ N \ {Len(s) + 1} = n .. Len(s)
      BY <1>1
    <3>. QED
      BY <3>2, <3>3
  <2>2. \A k \in N : t[k].size \in Nat
    <3>1. \A k \in N : k = Len(s) + 1 \/ k \in 1 .. Len(s)
      BY <1>1
    <3>. QED
      BY <1>1, <1>2, <3>1
  <2>3. BytesIn(t, n .. Len(s)) = BytesIn(s, n .. Len(s))
    <3>1. n .. Len(s) \in SUBSET (1 .. Len(s))
      BY <1>1
    <3>. QED
      BY <1>3, <3>1
  <2>4. BytesIn(t, N) = BytesIn(t, N \ {Len(s) + 1}) + t[Len(s) + 1].size
    <3>. HIDE DEF N
    <3>. QED
      BY <2>1, <2>2, BytesAdd
  <2>. QED
    BY <1>1, <2>1, <2>3, <2>4
<1>. QED
  BY <1>3, <1>4 DEF t

(* The lines to here have nothing of what a line has that is not among     *)
(* them.                                                                   *)
LEMMA LaunchedAppend ==
  ASSUME NEW s \in Seq(Entry), NEW e \in Entry, NEW N \in SUBSET (1 .. Len(s))
  PROVE  /\ LaunchedIn(Append(s, e), N) = LaunchedIn(s, N)
         /\ LaunchedIn(Append(s, e), N \cup {Len(s) + 1}) =
              LaunchedIn(s, N) \cup LaunchOf(e)
         /\ EndsIn(Append(s, e), N) <=> EndsIn(s, N)
         /\ EndsIn(Append(s, e), N \cup {Len(s) + 1}) <=> EndsIn(s, N) \/ e.line.kind = "end"
<1>. DEFINE t == Append(s, e)
<1>1. (\A i \in N : t[i] = s[i]) /\ t[Len(s) + 1] = e
  BY Appended
<1>. HIDE DEF t
<1>2. LaunchedIn(t, N) = LaunchedIn(s, N)
  BY <1>1 DEF LaunchedIn
<1>3. LaunchedIn(t, N \cup {Len(s) + 1}) =
        LaunchedIn(s, N) \cup LaunchOf(e)
  BY <1>1 DEF LaunchedIn, LaunchOf
<1>4. EndsIn(t, N) <=> EndsIn(s, N)
  BY <1>1 DEF EndsIn
<1>5. EndsIn(t, N \cup {Len(s) + 1}) <=> EndsIn(s, N) \/ e.line.kind = "end"
  BY <1>1 DEF EndsIn
<1>. QED
  BY <1>2, <1>3, <1>4, <1>5 DEF t

(* What a line more does to the record of a job.                           *)
LEMMA JobKept ==
  ASSUME NEW s \in Seq(Entry), NEW e \in Entry, NEW n \in 1 .. Len(s), NEW r \in JobRecord,
         JobFrom(s, n, r), s[n].line.kind = "start",
         OpenFrom(s, n, JobTurns) => e.line.kind \notin {"launch", "end"}
  PROVE  JobFrom(Append(s, e), n, r)
<1>. DEFINE t == Append(s, e)
            B == BodyIn(s, n)
            C == BodyIn(t, n)
<1>1. Len(t) = Len(s) + 1 /\ Len(s) \in Nat
  BY Appended
<1>2. C = B \cup (IF OpenFrom(s, n, JobTurns) THEN {Len(s) + 1} ELSE {})
  BY BodyAppend
<1>3. B \in SUBSET (1 .. Len(s))
  BY BodyParts
<1>4. /\ LaunchedIn(t, C) = LaunchedIn(s, B) /\ (EndsIn(t, C) <=> EndsIn(s, B))
  <2>1. CASE OpenFrom(s, n, JobTurns)
    <3>1. C = B \cup {Len(s) + 1}
      BY <1>2, <2>1
    <3>2. LaunchOf(e) = {} /\ e.line.kind # "end"
      BY <2>1 DEF LaunchOf
    <3>. HIDE DEF B, C
    <3>3. /\ LaunchedIn(t, B \cup {Len(s) + 1}) =
               LaunchedIn(s, B) \cup LaunchOf(e)
          /\ EndsIn(t, B \cup {Len(s) + 1}) <=> EndsIn(s, B) \/ e.line.kind = "end"
      BY <1>3, LaunchedAppend
    <3>. HIDE DEF t
    <3>. QED
      BY <3>1, <3>2, <3>3
  <2>2. CASE ~ OpenFrom(s, n, JobTurns)
    <3>1. C = B
      BY <1>2, <2>2
    <3>. HIDE DEF B, C
    <3>. QED
      BY <1>3, <3>1, LaunchedAppend
  <2>. QED
    BY <2>1, <2>2
<1>5. ASSUME EndsIn(s, B) PROVE C = B /\ BytesIn(t, C) = BytesIn(s, B)
  <2>1. ~ OpenFrom(s, n, JobTurns)
    <3>1. PICK m \in B : s[m].line.kind = "end"
      BY <1>5 DEF EndsIn
    <3>2. m \in n + 1 .. Len(s)
      BY <1>3, <3>1 DEF BodyIn
    <3>. QED
      BY <3>1, <3>2 DEF OpenFrom, JobTurns
  <2>2. C = B
    BY <1>2, <2>1
  <2>. HIDE DEF B, C
  <2>. QED
    BY <1>3, <2>2, BytesAppend
<1>6. /\ r.first + 1 = n /\ r.first <= r.last /\ r.last < Len(t)
      /\ r.start <= r.end
  BY <1>1 DEF JobFrom, JobRecord
<1>7. /\ Range(r.launch) = LaunchedIn(s, B)
      /\ EndsIn(s, B) => /\ r.first + 1 .. r.last + 1 = B
                         /\ r.end = r.start + BytesIn(s, B)
  BY DEF JobFrom
<1>. HIDE DEF t, B, C
<1>8. /\ Range(r.launch) = LaunchedIn(t, C)
      /\ EndsIn(t, C) => /\ r.first + 1 .. r.last + 1 = C
                         /\ r.end = r.start + BytesIn(t, C)
  BY <1>4, <1>5, <1>7
<1>. QED
  BY <1>6, <1>8 DEF JobFrom, C, t

LEMMA JobLaunches ==
  ASSUME NEW s \in Seq(Entry), NEW e \in Entry, NEW n \in 1 .. Len(s),
         NEW r \in JobRecord, NEW q \in JobRecord,
         JobFrom(s, n, r), s[n].line.kind = "start",
         OpenFrom(s, n, JobTurns), e.line.kind = "launch",
         q.start = r.start, q.end = r.end, q.first = r.first, q.last = r.last,
         Range(q.launch) = Range(r.launch) \cup {e.line.job}
  PROVE  JobFrom(Append(s, e), n, q)
<1>. DEFINE t == Append(s, e)
            B == BodyIn(s, n)
            C == BodyIn(t, n)
<1>1. Len(t) = Len(s) + 1 /\ Len(s) \in Nat
  BY Appended
<1>2. C = B \cup {Len(s) + 1}
  BY BodyAppend
<1>3. B \in SUBSET (1 .. Len(s))
  BY BodyParts
<1>4. /\ LaunchedIn(t, C) = LaunchedIn(s, B) \cup {e.line.job} /\ (EndsIn(t, C) <=> EndsIn(s, B))
  <2>1. LaunchOf(e) = {e.line.job}
    BY DEF LaunchOf
  <2>. HIDE DEF B, C
  <2>2. /\ LaunchedIn(t, B \cup {Len(s) + 1}) = LaunchedIn(s, B) \cup LaunchOf(e)
        /\ EndsIn(t, B \cup {Len(s) + 1}) <=> EndsIn(s, B) \/ e.line.kind = "end"
    BY <1>3, LaunchedAppend
  <2>. HIDE DEF t
  <2>. QED
    BY <1>2, <2>1, <2>2
<1>5. ~ EndsIn(s, B)
  <2>1. ASSUME NEW m \in B, s[m].line.kind = "end" PROVE FALSE
    <3>1. m \in n + 1 .. Len(s)
      BY <1>3, <2>1 DEF BodyIn
    <3>. QED
      BY <2>1, <3>1 DEF OpenFrom, JobTurns
  <2>. QED
    BY <2>1 DEF EndsIn
<1>6. /\ q.first + 1 = n /\ q.first <= q.last /\ q.last < Len(t)
      /\ q.start <= q.end
  BY <1>1 DEF JobFrom, JobRecord
<1>7. Range(r.launch) = LaunchedIn(s, B)
  BY DEF JobFrom
<1>. HIDE DEF t, B, C
<1>. QED
  BY <1>4, <1>5, <1>6, <1>7 DEF JobFrom, C, t

LEMMA JobEnds ==
  ASSUME NEW s \in Seq(Entry), NEW e \in Entry, NEW n \in 1 .. Len(s),
         NEW r \in JobRecord, NEW q \in JobRecord,
         JobFrom(s, n, r), s[n].line.kind = "start",
         OpenFrom(s, n, JobTurns), e.line.kind = "end",
         q.start = r.start, q.first = r.first, q.launch = r.launch, q.last = Len(s),
         q.end = r.start + BytesIn(s, n .. Len(s)) + e.size
  PROVE  JobFrom(Append(s, e), n, q)
<1>. DEFINE t == Append(s, e)
            B == BodyIn(s, n)
            C == BodyIn(t, n)
<1>1. Len(t) = Len(s) + 1 /\ Len(s) \in Nat
  BY Appended
<1>2. C = B \cup {Len(s) + 1} /\ B = n .. Len(s)
  BY BodyAppend, BodyParts
<1>3. B \in SUBSET (1 .. Len(s)) /\ C = n .. Len(s) + 1
  <2>. HIDE DEF B, C
  <2>. QED
    BY <1>1, <1>2
<1>4. LaunchedIn(t, C) = LaunchedIn(s, B)
  <2>. HIDE DEF B, C
  <2>1. LaunchedIn(t, B \cup {Len(s) + 1}) =
          LaunchedIn(s, B) \cup LaunchOf(e)
    BY <1>3, LaunchedAppend
  <2>2. LaunchOf(e) = {}
    BY DEF LaunchOf
  <2>. HIDE DEF t
  <2>. QED
    BY <1>2, <2>1, <2>2
<1>5. BytesIn(t, C) = BytesIn(s, n .. Len(s)) + e.size /\ BytesIn(s, n .. Len(s)) \in Nat
  <2>1. n \in 1 .. Len(s) + 1 /\ n .. Len(s) \in SUBSET (1 .. Len(s))
    BY <1>1
  <2>. HIDE DEF B, C
  <2>. QED
    BY <1>3, <2>1, BytesAppend
<1>6. e.size \in Nat
  BY DEF Entry
<1>7. /\ q.first + 1 = n /\ q.first <= q.last /\ q.last < Len(t)
      /\ q.start <= q.end /\ q.end = q.start + BytesIn(t, C)
  <2>1. r.start \in Nat /\ r.first + 1 = n /\ r.first \in Nat
    BY DEF JobFrom, JobRecord
  <2>. HIDE DEF t, B, C
  <2>. QED
    BY <1>1, <1>5, <1>6, <2>1
<1>8. Range(r.launch) = LaunchedIn(s, B)
  BY DEF JobFrom
<1>9. q.first + 1 .. q.last + 1 = C
  BY <1>3, <1>7
<1>. HIDE DEF t, B, C
<1>. QED
  BY <1>4, <1>7, <1>8, <1>9 DEF JobFrom, C, t

LEMMA JobBegins ==
  ASSUME NEW s \in Seq(Entry), NEW e \in Entry, NEW r \in JobRecord,
         e.line.kind = "start", r.first = Len(s), r.last = Len(s),
         r.start = r.end, r.launch = <<>>
  PROVE  JobFrom(Append(s, e), Len(s) + 1, r)
<1>. DEFINE t == Append(s, e)
            C == BodyIn(t, Len(s) + 1)
<1>1. Len(t) = Len(s) + 1 /\ Len(s) \in Nat /\ t[Len(s) + 1] = e
  BY Appended
<1>2. C = {Len(s) + 1}
  BY BodyAppend
<1>3. Range(r.launch) = {}
  BY DEF Range
<1>4. LaunchedIn(t, C) = {} /\ ~ EndsIn(t, C)
  <2>. HIDE DEF t, C
  <2>. QED
    BY <1>1, <1>2 DEF LaunchedIn, EndsIn
<1>5. r.start \in Nat
  BY DEF JobRecord
<1>. HIDE DEF t, C
<1>. QED
  BY <1>1, <1>3, <1>4, <1>5 DEF JobFrom, C, t

(* What a line more does to the record of a label.                         *)
LEMMA LabelKept ==
  ASSUME NEW s \in Seq(Entry), NEW e \in Entry, NEW n \in 1 .. Len(s), NEW r \in LabelRecord,
         LabelFrom(s, n, r),
         OpenFrom(s, n, LabelTurns) => e.line.kind \in LabelTurns \cup Directives
  PROVE  LabelFrom(Append(s, e), n, r)
<1>. DEFINE t == Append(s, e)
<1>1. /\ Len(t) = Len(s) + 1 /\ Len(s) \in Nat
      /\ \A i \in 1 .. Len(s) : t[i] = s[i]
  BY Appended
<1>2. DataIn(t, n) = DataIn(s, n)
  <2>. HIDE DEF LabelTurns, Directives
  <2>. QED
    BY DataAppend
<1>3. DataIn(s, n) \subseteq 1 .. Len(s)
  BY BehindParts
<1>. HIDE DEF t
<1>4. \A m \in DataIn(t, n) : t[m] = s[m]
  BY <1>1, <1>2, <1>3
<1>5. r.index + 1 = n /\ n + r.count <= Len(s) /\ r.count \in Nat
  BY DEF LabelFrom, LabelRecord
<1>6. BytesIn(t, n + 1 .. n + r.count) = BytesIn(s, n + 1 .. n + r.count)
  <2>1. n + 1 .. n + r.count \in SUBSET (1 .. Len(s))
    BY <1>1, <1>5
  <2>. QED
    BY <2>1, BytesAppend DEF t
<1>7. n + r.count <= Len(t)
  BY <1>1, <1>5
<1>8. (\A m \in DataIn(t, n) : t[m].line.kind \notin Directives) =>
        /\ DataIn(t, n) = n + 1 .. n + r.count
        /\ r.size = BytesIn(t, n + 1 .. n + r.count)
  <2>. HIDE DEF Directives
  <2>. QED
    BY <1>2, <1>4, <1>6 DEF LabelFrom
<1>. QED
  BY <1>5, <1>7, <1>8 DEF LabelFrom, t

LEMMA LabelCounts ==
  ASSUME NEW s \in Seq(Entry), NEW e \in Entry, NEW n \in 1 .. Len(s),
         NEW r \in LabelRecord, NEW q \in LabelRecord,
         LabelFrom(s, n, r), OpenFrom(s, n, LabelTurns),
         e.line.kind \notin LabelTurns \cup Directives,
         q.index = r.index, q.count = r.count + 1, q.size = r.size + e.size
  PROVE  LabelFrom(Append(s, e), n, q)
<1>. DEFINE t == Append(s, e)
<1>1. /\ Len(t) = Len(s) + 1 /\ Len(s) \in Nat
      /\ \A i \in 1 .. Len(s) : t[i] = s[i]
  BY Appended
<1>2. DataIn(t, n) = n + 1 .. Len(s) + 1
  <2>. HIDE DEF LabelTurns, Directives
  <2>. QED
    BY DataAppend
<1>. HIDE DEF t
<1>3. r.index + 1 = n /\ n + r.count <= Len(s) /\ r.count \in Nat
  BY DEF LabelFrom, LabelRecord
<1>4. q.index + 1 = n /\ n + q.count <= Len(t)
  BY <1>1, <1>3
<1>5. ASSUME \A m \in DataIn(t, n) : t[m].line.kind \notin Directives
      PROVE  DataIn(t, n) = n + 1 .. n + q.count /\ q.size = BytesIn(t, n + 1 .. n + q.count)
  <2>1. BehindIn(s, n) = n + 1 .. Len(s)
    BY BehindParts
  <2>2. \A m \in n + 1 .. Len(s) : s[m].line.kind \notin Directives /\ m <= m
    <3>1. \A m \in n + 1 .. Len(s) : m \in n + 1 .. Len(s) + 1 /\ t[m] = s[m]
      BY <1>1
    <3>. HIDE DEF Directives
    <3>. QED
      BY <1>2, <1>5, <3>1
  <2>3. DataIn(s, n) = n + 1 .. Len(s)
    <3>. HIDE DEF Directives
    <3>. QED
      BY <2>1, <2>2 DEF DataIn
  <2>4. n + 1 .. Len(s) = n + 1 .. n + r.count /\ r.size = BytesIn(s, n + 1 .. n + r.count)
    <3>. HIDE DEF Directives
    <3>. QED
      BY <2>2, <2>3 DEF LabelFrom
  <2>5. n + r.count = Len(s)
    <3>1. CASE n = Len(s)
      BY <1>1, <1>3, <3>1
    <3>2. CASE n # Len(s)
      <4>1. Len(s) \in n + 1 .. Len(s)
        BY <1>1, <3>2
      <4>2. Len(s) \in n + 1 .. n + r.count
        BY <2>4, <4>1
      <4>. QED
        BY <1>1, <1>3, <4>2
    <3>. QED
      BY <3>1, <3>2
  <2>6. n + q.count = Len(s) + 1
    <3>1. n + (r.count + 1) = (n + r.count) + 1
      BY <1>3
    <3>2. q.count = r.count + 1
      OBVIOUS
    <3>. QED
      BY <2>5, <3>1, <3>2
  <2>7. BytesIn(t, n + 1 .. Len(s) + 1) = BytesIn(s, n + 1 .. Len(s)) + e.size
    <3>1. n + 1 \in 1 .. Len(s) + 1
      BY <1>1
    <3>. QED
      BY <3>1, BytesAppend DEF t
  <2>. QED
    BY <1>2, <2>4, <2>5, <2>6, <2>7
<1>. HIDE DEF Directives
<1>. QED
  BY <1>4, <1>5 DEF LabelFrom, t

LEMMA LabelBegins ==
  ASSUME NEW s \in Seq(Entry), NEW e \in Entry, NEW r \in LabelRecord,
         r.index = Len(s), r.count = 0, r.size = 0
  PROVE  LabelFrom(Append(s, e), Len(s) + 1, r)
<1>. DEFINE t == Append(s, e)
<1>1. Len(t) = Len(s) + 1 /\ Len(s) \in Nat
  BY Appended
<1>2. DataIn(t, Len(s) + 1) = {}
  BY DataAppend
<1>. HIDE DEF t
<1>3. (Len(s) + 1) + 1 .. (Len(s) + 1) + r.count = {}
  BY <1>1
<1>4. BytesIn(t, {}) = 0
  BY BytesAdd, FS_EmptySet
<1>5. r.index + 1 = Len(s) + 1 /\ (Len(s) + 1) + r.count <= Len(t)
  BY <1>1
<1>. QED
  BY <1>2, <1>3, <1>4, <1>5 DEF LabelFrom, t

(* The records of a job that a line leaves alone, launches from, ends and  *)
(* begins.                                                                 *)
LEMMA JobSaysKept ==
  ASSUME NEW s \in Seq(Entry), NEW e \in Entry, NEW j, NEW r \in JobRecord, NEW q \in JobRecord,
         NEW c, NEW d, NEW p \in Nat, JobSays(s, j, r, c, p),
         q.start = r.start, q.end = r.end, q.first = r.first, q.last = r.last, q.launch = r.launch,
         c = j => e.line.kind \notin {"launch", "end"},
         d = j <=> c = j /\ e.line.kind \notin JobTurns
  PROVE  JobSays(Append(s, e), j, q, d, p + e.size)
<1>. DEFINE t == Append(s, e)
            n == r.first + 1
<1>1. /\ Len(t) = Len(s) + 1 /\ Len(s) \in Nat /\ DOMAIN t = 1 .. Len(t)
      /\ \A i \in 1 .. Len(s) : t[i] = s[i]
  BY Appended
<1>2. /\ n \in 1 .. Len(s) /\ s[n].line.kind = "start" /\ s[n].line.job = j
      /\ JobFrom(s, n, r)
      /\ c = j <=> OpenFrom(s, n, JobTurns)
      /\ c = j => p = r.start + BytesIn(s, n .. Len(s))
  BY DEF JobSays
<1>. HIDE DEF n
<1>3. JobFrom(t, n, r)
  BY <1>2, JobKept
<1>4. JobFrom(t, n, q)
  BY <1>3 DEF JobFrom
<1>5. d = j <=> OpenFrom(t, n, JobTurns)
  <2>. HIDE DEF JobTurns
  <2>. QED
    BY <1>2, OpenFromAppend
<1>6. ASSUME d = j PROVE p + e.size = q.start + BytesIn(t, n .. Len(t))
  <2>1. c = j
    BY <1>6
  <2>2. n \in 1 .. Len(s) + 1 /\ n .. Len(s) \in SUBSET (1 .. Len(s))
    BY <1>1, <1>2
  <2>3. BytesIn(t, n .. Len(s) + 1) = BytesIn(s, n .. Len(s)) + e.size
    BY <2>2, BytesAppend
  <2>4. BytesIn(s, n .. Len(s)) \in Nat /\ r.start \in Nat /\ e.size \in Nat
    BY <2>2, BytesAppend DEF JobRecord, Entry
  <2>5. p = r.start + BytesIn(s, n .. Len(s)) /\ Len(t) = Len(s) + 1 /\ q.start = r.start
    BY <1>1, <1>2, <2>1
  <2>. HIDE DEF t
  <2>. QED
    BY <2>3, <2>4, <2>5
<1>7. n \in 1 .. Len(t) /\ t[n].line.kind = "start" /\ t[n].line.job = j
  BY <1>1, <1>2
<1>. HIDE DEF t
<1>. QED
  BY <1>4, <1>5, <1>6, <1>7 DEF JobSays, n, t

LEMMA JobSaysLaunch ==
  ASSUME NEW s \in Seq(Entry), NEW e \in Entry, NEW j, NEW r \in JobRecord, NEW q \in JobRecord,
         NEW p \in Nat, JobSays(s, j, r, j, p),
         e.line.kind = "launch",
         q.start = r.start, q.end = r.end, q.first = r.first, q.last = r.last,
         Range(q.launch) = Range(r.launch) \cup {e.line.job}
  PROVE  JobSays(Append(s, e), j, q, j, p + e.size)
<1>. DEFINE t == Append(s, e)
            n == r.first + 1
<1>1. /\ Len(t) = Len(s) + 1 /\ Len(s) \in Nat /\ DOMAIN t = 1 .. Len(t)
      /\ \A i \in 1 .. Len(s) : t[i] = s[i]
  BY Appended
<1>2. /\ n \in 1 .. Len(s) /\ s[n].line.kind = "start" /\ s[n].line.job = j
      /\ JobFrom(s, n, r)
      /\ OpenFrom(s, n, JobTurns)
      /\ p = r.start + BytesIn(s, n .. Len(s))
  BY DEF JobSays
<1>. HIDE DEF n
<1>3. JobFrom(t, n, q)
  BY <1>2, JobLaunches
<1>4. OpenFrom(t, n, JobTurns)
  <2>1. e.line.kind \notin JobTurns
    BY DEF JobTurns
  <2>. QED
    BY <1>2, <2>1, OpenFromAppend
<1>5. p + e.size = q.start + BytesIn(t, n .. Len(t))
  <2>2. n \in 1 .. Len(s) + 1 /\ n .. Len(s) \in SUBSET (1 .. Len(s))
    BY <1>1, <1>2
  <2>3. BytesIn(t, n .. Len(s) + 1) = BytesIn(s, n .. Len(s)) + e.size
    BY <2>2, BytesAppend
  <2>4. BytesIn(s, n .. Len(s)) \in Nat /\ r.start \in Nat /\ e.size \in Nat
    BY <2>2, BytesAppend DEF JobRecord, Entry
  <2>. HIDE DEF t
  <2>. QED
    BY <1>1, <1>2, <2>3, <2>4
<1>6. n \in 1 .. Len(t) /\ t[n].line.kind = "start" /\ t[n].line.job = j
  BY <1>1, <1>2
<1>. HIDE DEF t
<1>. QED
  BY <1>3, <1>4, <1>5, <1>6 DEF JobSays, n, t

LEMMA JobSaysEnd ==
  ASSUME NEW s \in Seq(Entry), NEW e \in Entry, NEW j, NEW r \in JobRecord, NEW q \in JobRecord,
         NEW p \in Nat, NEW d, d # j, JobSays(s, j, r, j, p),
         e.line.kind = "end",
         q.start = r.start, q.end = p + e.size, q.first = r.first, q.last = Len(s),
         q.launch = r.launch
  PROVE  JobSays(Append(s, e), j, q, d, p + e.size)
<1>. DEFINE t == Append(s, e)
            n == r.first + 1
<1>1. /\ Len(t) = Len(s) + 1 /\ Len(s) \in Nat /\ DOMAIN t = 1 .. Len(t)
      /\ \A i \in 1 .. Len(s) : t[i] = s[i]
  BY Appended
<1>2. /\ n \in 1 .. Len(s) /\ s[n].line.kind = "start" /\ s[n].line.job = j
      /\ JobFrom(s, n, r)
      /\ OpenFrom(s, n, JobTurns)
      /\ p = r.start + BytesIn(s, n .. Len(s))
  BY DEF JobSays
<1>. HIDE DEF n
<1>3. JobFrom(t, n, q)
  BY <1>2, JobEnds
<1>4. ~ OpenFrom(t, n, JobTurns)
  <2>1. e.line.kind \in JobTurns
    BY DEF JobTurns
  <2>. QED
    BY <1>2, <2>1, OpenFromAppend
<1>5. n \in 1 .. Len(t) /\ t[n].line.kind = "start" /\ t[n].line.job = j
  BY <1>1, <1>2
<1>. HIDE DEF t
<1>. QED
  BY <1>3, <1>4, <1>5 DEF JobSays, n, t

LEMMA JobSaysStart ==
  ASSUME NEW s \in Seq(Entry), NEW e \in Entry, NEW j, NEW r \in JobRecord, NEW p \in Nat,
         e.line.kind = "start", e.line.job = j,
         r.first = Len(s), r.last = Len(s), r.start = p, r.end = p, r.launch = <<>>
  PROVE  JobSays(Append(s, e), j, r, j, p + e.size)
<1>. DEFINE t == Append(s, e)
            n == Len(s) + 1
<1>1. /\ Len(t) = n /\ Len(s) \in Nat /\ n \in 1 .. n /\ t[n] = e
  BY Appended
<1>2. JobFrom(t, n, r)
  BY JobBegins
<1>3. OpenFrom(t, n, JobTurns)
  BY OpenFromAppend
<1>4. BytesIn(t, n .. n) = e.size
  <2>1. BytesIn(t, n .. Len(s) + 1) = BytesIn(s, n .. Len(s)) + e.size
    BY <1>1, BytesAppend
  <2>2. n .. Len(s) = {}
    BY <1>1
  <2>3. BytesIn(s, {}) = 0 /\ e.size \in Nat
    BY BytesAdd, FS_EmptySet DEF Entry
  <2>. QED
    BY <2>1, <2>2, <2>3
<1>. HIDE DEF t
<1>5. n = r.first + 1
  OBVIOUS
<1>. HIDE DEF n
<1>. QED
  BY <1>1, <1>2, <1>3, <1>4, <1>5 DEF JobSays, t

(* The same for labels.                                                    *)
LEMMA LabelSaysKept ==
  ASSUME NEW s \in Seq(Entry), NEW e \in Entry, NEW l, NEW r \in LabelRecord, NEW c, NEW d,
         LabelSays(s, l, r, c),
         c = l => e.line.kind \in LabelTurns \cup Directives,
         d = l <=> c = l /\ e.line.kind \notin LabelTurns
  PROVE  LabelSays(Append(s, e), l, r, d)
<1>. DEFINE t == Append(s, e)
            n == r.index + 1
<1>1. /\ Len(t) = Len(s) + 1 /\ Len(s) \in Nat
      /\ \A i \in 1 .. Len(s) : t[i] = s[i]
  BY Appended
<1>2. /\ n \in 1 .. Len(s) /\ s[n].line.kind = "label" /\ s[n].line.name = l
      /\ LabelFrom(s, n, r) /\ (c = l <=> OpenFrom(s, n, LabelTurns))
  BY DEF LabelSays
<1>. HIDE DEF n, LabelTurns, Directives
<1>3. LabelFrom(t, n, r)
  BY <1>2, LabelKept
<1>4. d = l <=> OpenFrom(t, n, LabelTurns)
  BY <1>2, OpenFromAppend
<1>5. n \in 1 .. Len(t) /\ t[n].line.kind = "label" /\ t[n].line.name = l
  BY <1>1, <1>2
<1>. HIDE DEF t
<1>. QED
  BY <1>3, <1>4, <1>5 DEF LabelSays, n, t

LEMMA LabelSaysCounted ==
  ASSUME NEW s \in Seq(Entry), NEW e \in Entry, NEW l,
         NEW r \in LabelRecord, NEW q \in LabelRecord,
         LabelSays(s, l, r, l), e.line.kind \notin LabelTurns \cup Directives,
         q.index = r.index, q.count = r.count + 1, q.size = r.size + e.size
  PROVE  LabelSays(Append(s, e), l, q, l)
<1>. DEFINE t == Append(s, e)
            n == r.index + 1
<1>1. /\ Len(t) = Len(s) + 1 /\ Len(s) \in Nat
      /\ \A i \in 1 .. Len(s) : t[i] = s[i]
  BY Appended
<1>2. /\ n \in 1 .. Len(s) /\ s[n].line.kind = "label" /\ s[n].line.name = l
      /\ LabelFrom(s, n, r) /\ OpenFrom(s, n, LabelTurns)
  BY DEF LabelSays
<1>. HIDE DEF n, LabelTurns, Directives
<1>3. LabelFrom(t, n, q)
  BY <1>2, LabelCounts
<1>4. OpenFrom(t, n, LabelTurns)
  BY <1>2, OpenFromAppend
<1>5. n \in 1 .. Len(t) /\ t[n].line.kind = "label" /\ t[n].line.name = l
  BY <1>1, <1>2
<1>. HIDE DEF t
<1>. QED
  BY <1>3, <1>4, <1>5 DEF LabelSays, n, t

LEMMA LabelSaysBegins ==
  ASSUME NEW s \in Seq(Entry), NEW e \in Entry, NEW l, NEW r \in LabelRecord,
         e.line.kind = "label", e.line.name = l,
         r.index = Len(s), r.count = 0, r.size = 0
  PROVE  LabelSays(Append(s, e), l, r, l)
<1>. DEFINE t == Append(s, e)
            n == Len(s) + 1
<1>1. /\ Len(t) = n /\ Len(s) \in Nat /\ n \in 1 .. n /\ t[n] = e
  BY Appended
<1>2. LabelFrom(t, n, r)
  BY LabelBegins
<1>3. OpenFrom(t, n, LabelTurns)
  BY OpenFromAppend
<1>4. n = r.index + 1
  OBVIOUS
<1>. HIDE DEF t, n
<1>. QED
  BY <1>1, <1>2, <1>3, <1>4 DEF LabelSays, t

-----------------------------------------------------------------------------
(***************************************************************************)
(* The record through the lines that are not rejected.                     *)
(***************************************************************************)
Passed(line) == [line |-> line, size |-> Size(line)]

LEMMA PassedIs ==
  ASSUME StateTypeOK, NEW line \in Lines, process(line), stage' = "reading"
  PROVE  /\ Passed(line) \in Entry /\ Passed(line).line = line
         /\ lines' = Append(lines, Passed(line)) /\ pos' = pos + Passed(line).size
         /\ line.kind \notin {"align", "unknown"} =>
              line.size \in Nat /\ Passed(line).size = line.size
         /\ WellFormed(line) /\ lines \in Seq(Entry)
<1>1. Pass(line) /\ line.kind # "unknown"
  BY DEF process, Stop, BeginLabel, StartJob, RejectDuplicate, Code, Align, EndOfFile, EndOfPage,
         RejectUnknown, LocalBarrier, LaunchJob, EndJob, CrashOutside, ApplyOffset
<1>2. Size(line) \in Nat
  BY <1>1, SizeIsNat DEF StateTypeOK
<1>3. WellFormed(line)
  BY LinesAssumption
<1>4. line.kind # "align" => line.size \in Nat /\ Size(line) = line.size
  BY <1>1, <1>3 DEF WellFormed, Size
<1>5. lines \in Seq(Entry)
  BY DEF StateTypeOK, LinesOK, Entry
<1>. QED
  BY <1>1, <1>2, <1>3, <1>4, <1>5 DEF Pass, Passed, Entry

LEMMA JobsStay ==
  ASSUME StateTypeOK, JobsOfLines, NEW e \in Entry, lines' = Append(lines, e),
         IsFiniteSet(DOMAIN jobmap'), DOMAIN jobmap \subseteq DOMAIN jobmap',
         \A j \in Job \cap DOMAIN jobmap : jobmap'[j].first = jobmap[j].first,
         e.line.kind = "start" =>
           e.line.job \in DOMAIN jobmap' /\ jobmap'[e.line.job].first = Len(lines),
         \A j \in Job \cap DOMAIN jobmap' : JobSays(lines', j, jobmap'[j], cjob', pos')
  PROVE  JobsOfLines'
<1>1. lines \in Seq(Entry)
  BY DEF StateTypeOK, LinesOK, Entry
<1>2. /\ DOMAIN lines' = 1 .. Len(lines) + 1 /\ DOMAIN lines = 1 .. Len(lines) /\ Len(lines) \in Nat
      /\ \A i \in 1 .. Len(lines) : lines'[i] = lines[i] /\ lines[i] \in Entry
      /\ lines'[Len(lines) + 1] = e
  BY <1>1, Appended
<1>3. ASSUME NEW n \in DOMAIN lines', lines'[n].line.kind = "start"
      PROVE  lines'[n].line.job \in DOMAIN jobmap' /\ jobmap'[lines'[n].line.job].first + 1 = n
  <2>1. CASE n = Len(lines) + 1
    BY <1>2, <1>3, <2>1
  <2>2. CASE n \in 1 .. Len(lines)
    <3>1. lines'[n] = lines[n] /\ lines[n].line \in Lines
      BY <1>2, <2>2 DEF Entry
    <3>2. lines[n].line.job \in Job
      BY <1>3, <3>1, LinesAssumption DEF WellFormed
    <3>3. lines[n].line.job \in DOMAIN jobmap /\ jobmap[lines[n].line.job].first + 1 = n
      BY <1>2, <1>3, <2>2, <3>1 DEF JobsOfLines
    <3>. QED
      BY <3>1, <3>2, <3>3
  <2>. QED
    BY <1>2, <2>1, <2>2
<1>. QED
  BY <1>3 DEF JobsOfLines

LEMMA JobsNext ==
  ASSUME StateTypeOK, JobsOfLines, NEW line \in Lines, process(line), stage' = "reading"
  PROVE  JobsOfLines'
<1>. DEFINE e == Passed(line)
<1>1. /\ e \in Entry /\ e.line = line
      /\ lines' = Append(lines, e) /\ pos' = pos + e.size
      /\ line.kind \notin {"align", "unknown"} => line.size \in Nat /\ e.size = line.size
      /\ WellFormed(line) /\ lines \in Seq(Entry)
  BY PassedIs
<1>. HIDE DEF e
<1>2. /\ pos \in Nat /\ index = Len(lines) /\ Len(lines) \in Nat
      /\ jobmap \in [DOMAIN jobmap -> JobRecord]
      /\ cjob \in (Job \cap DOMAIN jobmap) \cup {NoJob} /\ NoJob \notin Job
  BY NothingAssumption DEF StateTypeOK, LinesOK, JobsOK, index
<1>3. /\ IsFiniteSet(DOMAIN jobmap)
      /\ \A j \in Job \cap DOMAIN jobmap :
           JobSays(lines, j, jobmap[j], cjob, pos) /\ jobmap[j] \in JobRecord
  BY <1>2 DEF JobsOfLines
<1>4. ASSUME NEW j0, NEW size \in Nat, jobmap' = With(jobmap, j0, JobAt(size)),
             j0 \notin Job, line.kind \in {"eof", "eop"},
             cjob' = IF line.kind = "eof" THEN NoJob ELSE cjob
      PROVE  JobsOfLines'
  <2>1. DOMAIN jobmap' = DOMAIN jobmap \cup {j0} /\ \A k \in DOMAIN jobmap \ {j0} : jobmap'[k] = jobmap[k]
    BY <1>4 DEF With
  <2>2. IsFiniteSet(DOMAIN jobmap')
    BY <1>3, <2>1, FS_AddElement
  <2>3. ASSUME NEW j \in Job \cap DOMAIN jobmap'
        PROVE  JobSays(lines', j, jobmap'[j], cjob', pos') /\ jobmap'[j] = jobmap[j]
    <3>1. j \in Job \cap DOMAIN jobmap /\ jobmap'[j] = jobmap[j] /\ j # NoJob
      BY <1>2, <1>4, <2>1
    <3>2. cjob' = j <=> cjob = j /\ e.line.kind \notin JobTurns
      BY <1>1, <1>4, <3>1 DEF JobTurns
    <3>3. JobSays(lines, j, jobmap[j], cjob, pos) /\ jobmap[j] \in JobRecord
      BY <1>3, <3>1
    <3>4. e.line.kind \notin {"launch", "end"}
      BY <1>1, <1>4
    <3>5. JobSays(Append(lines, e), j, jobmap[j], cjob', pos + e.size)
      BY <1>1, <1>2, <3>2, <3>3, <3>4, JobSaysKept
    <3>. QED
      BY <1>1, <3>1, <3>5
  <2>4. \A j \in Job \cap DOMAIN jobmap : j \in DOMAIN jobmap'
    BY <2>1
  <2>. QED
    BY <1>1, <1>4, <2>1, <2>2, <2>3, <2>4, JobsStay
<1>5. CASE StartJob(line)
  <2>1. /\ line.kind = "start" /\ line.job \in Job /\ line.job \notin DOMAIN jobmap
        /\ jobmap' = With(jobmap, line.job, JobAt(0)) /\ cjob' = line.job
    BY <1>1, <1>5 DEF StartJob, WellFormed
  <2>. DEFINE j0 == line.job
              r == JobAt(0)
  <2>2. /\ r \in JobRecord /\ r.first = Len(lines) /\ r.last = Len(lines)
        /\ r.start = pos /\ r.end = pos /\ r.launch = <<>>
    <3>1. r \in JobRecord
      BY JobAtOK DEF StateTypeOK
    <3>. QED
      BY <1>2, <3>1 DEF JobAt
  <2>. HIDE DEF r
  <2>3. /\ DOMAIN jobmap' = DOMAIN jobmap \cup {j0} /\ jobmap'[j0] = r
        /\ \A k \in DOMAIN jobmap : jobmap'[k] = jobmap[k]
    BY <2>1 DEF With, r
  <2>4. IsFiniteSet(DOMAIN jobmap')
    BY <1>3, <2>3, FS_AddElement
  <2>5. JobSays(lines', j0, jobmap'[j0], cjob', pos')
    <3>1. JobSays(Append(lines, e), j0, r, j0, pos + e.size)
      BY <1>1, <1>2, <2>1, <2>2, JobSaysStart
    <3>. QED
      BY <1>1, <2>1, <2>3, <3>1
  <2>6. ASSUME NEW j \in Job \cap DOMAIN jobmap PROVE JobSays(lines', j, jobmap'[j], cjob', pos')
    <3>2. cjob' = j <=> cjob = j /\ e.line.kind \notin JobTurns
      BY <1>1, <2>1 DEF JobTurns
    <3>3. JobSays(lines, j, jobmap[j], cjob, pos) /\ jobmap[j] \in JobRecord
      BY <1>3
    <3>4. e.line.kind \notin {"launch", "end"}
      BY <1>1, <2>1
    <3>5. JobSays(Append(lines, e), j, jobmap[j], cjob', pos + e.size)
      BY <1>1, <1>2, <3>2, <3>3, <3>4, JobSaysKept
    <3>. QED
      BY <1>1, <2>3, <3>5
  <2>7. \A j \in Job \cap DOMAIN jobmap' : JobSays(lines', j, jobmap'[j], cjob', pos')
    BY <2>3, <2>5, <2>6
  <2>. QED
    BY <1>1, <2>2, <2>3, <2>4, <2>7, JobsStay
<1>6. CASE EndOfFile(line)
  <2>1. line.kind = "eof" /\ jobmap' = With(jobmap, Eof, JobAt(line.size)) /\ cjob' = NoJob
    BY <1>6 DEF EndOfFile
  <2>2. Eof \notin Job /\ line.size \in Nat
    BY <1>1, <2>1, PseudoJobs
  <2>. QED
    BY <1>4, <2>1, <2>2
<1>7. CASE EndOfPage(line)
  <2>1. line.kind = "eop" /\ jobmap' = With(jobmap, EopId(eopnum), JobAt(0)) /\ cjob' = cjob
    BY <1>7 DEF EndOfPage
  <2>2. EopId(eopnum) \notin Job /\ 0 \in Nat
    BY EopIsNoJob DEF StateTypeOK
  <2>. QED
    BY <1>4, <2>1, <2>2
<1>8. ASSUME cjob # NoJob, NEW q \in JobRecord, jobmap' = [jobmap EXCEPT ![cjob] = q],
             q.first = jobmap[cjob].first, line.kind \in {"barrier", "launch", "end"},
             cjob' = (IF line.kind = "end" THEN NoJob ELSE cjob),
             JobSays(lines', cjob, q, cjob', pos')
      PROVE  JobsOfLines'
  <2>1. cjob \in Job \cap DOMAIN jobmap
    BY <1>2, <1>8
  <2>2. /\ DOMAIN jobmap' = DOMAIN jobmap /\ jobmap'[cjob] = q
        /\ \A k \in DOMAIN jobmap \ {cjob} : jobmap'[k] = jobmap[k]
    BY <1>8, <2>1
  <2>3. ASSUME NEW j \in Job \cap DOMAIN jobmap, j # cjob
        PROVE  JobSays(lines', j, jobmap'[j], cjob', pos')
    <3>2. cjob' = j <=> cjob = j /\ e.line.kind \notin JobTurns
      BY <1>2, <1>8, <2>3
    <3>3. JobSays(lines, j, jobmap[j], cjob, pos) /\ jobmap[j] \in JobRecord
      BY <1>3
    <3>5. JobSays(Append(lines, e), j, jobmap[j], cjob', pos + e.size)
      BY <1>1, <1>2, <2>3, <3>2, <3>3, JobSaysKept
    <3>. QED
      BY <1>1, <2>2, <2>3, <3>5
  <2>4. \A j \in Job \cap DOMAIN jobmap' : JobSays(lines', j, jobmap'[j], cjob', pos')
    BY <1>8, <2>2, <2>3
  <2>5. \A j \in Job \cap DOMAIN jobmap : jobmap'[j].first = jobmap[j].first
    BY <1>8, <2>2
  <2>6. e.line.kind # "start"
    BY <1>1, <1>8
  <2>. QED
    BY <1>1, <1>3, <2>2, <2>4, <2>5, <2>6, JobsStay
<1>9. ASSUME cjob # NoJob
      PROVE  /\ cjob \in Job /\ jobmap[cjob] \in JobRecord
             /\ JobSays(lines, cjob, jobmap[cjob], cjob, pos)
  BY <1>2, <1>3, <1>9
<1>10. CASE LocalBarrier(line)
  <2>1. /\ line.kind = "barrier" /\ line.barrier \in Barrier /\ cjob # NoJob /\ cjob' = cjob
        /\ jobmap' = [jobmap EXCEPT ![cjob].lbs = Append(@, line.barrier)]
    BY <1>1, <1>10 DEF LocalBarrier, WellFormed
  <2>. DEFINE r == jobmap[cjob]
              q == [r EXCEPT !.lbs = Append(@, line.barrier)]
  <2>2. q \in JobRecord
    BY <1>9, <2>1, JoinedOK
  <2>3. /\ q.start = r.start /\ q.end = r.end /\ q.first = r.first /\ q.last = r.last
        /\ q.launch = r.launch
    BY <1>9, <2>1 DEF JobRecord
  <2>4. jobmap' = [jobmap EXCEPT ![cjob] = q]
    BY <2>1
  <2>. HIDE DEF q
  <2>5. JobSays(lines', cjob, q, cjob', pos')
    <3>1. e.line.kind \notin {"launch", "end"} /\ e.line.kind \notin JobTurns
      BY <1>1, <2>1 DEF JobTurns
    <3>2. JobSays(Append(lines, e), cjob, q, cjob, pos + e.size)
      BY <1>1, <1>2, <1>9, <2>1, <2>2, <2>3, <3>1, JobSaysKept
    <3>. QED
      BY <1>1, <2>1, <3>2
  <2>. QED
    BY <1>8, <2>1, <2>2, <2>3, <2>4, <2>5
<1>11. CASE LaunchJob(line)
  <2>1. /\ line.kind = "launch" /\ line.job \in Job /\ cjob # NoJob /\ cjob' = cjob
        /\ jobmap' = [jobmap EXCEPT ![cjob].launch = Append(@, line.job)]
    BY <1>1, <1>11 DEF LaunchJob, WellFormed
  <2>. DEFINE r == jobmap[cjob]
              q == [r EXCEPT !.launch = Append(@, line.job)]
  <2>2. q \in JobRecord
    BY <1>9, <2>1, LaunchingOK
  <2>3. /\ q.start = r.start /\ q.end = r.end /\ q.first = r.first /\ q.last = r.last
        /\ q.launch = Append(r.launch, line.job) /\ r.launch \in Seq(Job)
    BY <1>9, <2>1 DEF JobRecord
  <2>4. jobmap' = [jobmap EXCEPT ![cjob] = q]
    BY <2>1
  <2>. HIDE DEF q
  <2>5. Range(q.launch) = Range(r.launch) \cup {line.job}
    BY <2>1, <2>3, AppendRange
  <2>6. JobSays(lines', cjob, q, cjob', pos')
    <3>2. JobSays(Append(lines, e), cjob, q, cjob, pos + e.size)
      BY <1>1, <1>2, <1>9, <2>1, <2>2, <2>3, <2>5, JobSaysLaunch
    <3>. QED
      BY <1>1, <2>1, <3>2
  <2>. QED
    BY <1>8, <2>1, <2>2, <2>3, <2>4, <2>6
<1>12. CASE EndJob(line)
  <2>1. /\ line.kind = "end" /\ line.size \in Nat /\ cjob # NoJob /\ cjob' = NoJob
        /\ jobmap' = [jobmap EXCEPT ![cjob].end = pos + line.size, ![cjob].last = index]
    BY <1>1, <1>12 DEF EndJob
  <2>. DEFINE r == jobmap[cjob]
              q == [r EXCEPT !.end = pos + line.size, !.last = index]
  <2>2. q \in JobRecord
    <3>1. pos + line.size \in Nat /\ index \in Nat
      BY <1>2, <2>1
    <3>. QED
      BY <1>9, <2>1, <3>1, EndingOK
  <2>3. /\ q.start = r.start /\ q.end = pos + line.size /\ q.first = r.first /\ q.last = Len(lines)
        /\ q.launch = r.launch
    BY <1>2, <1>9, <2>1 DEF JobRecord
  <2>4. jobmap' = [jobmap EXCEPT ![cjob] = q]
    BY <2>1
  <2>. HIDE DEF q
  <2>5. JobSays(lines', cjob, q, cjob', pos')
    <3>1. e.size = line.size /\ NoJob # cjob
      BY <1>1, <2>1
    <3>2. JobSays(Append(lines, e), cjob, q, NoJob, pos + e.size)
      BY <1>1, <1>2, <1>9, <2>1, <2>2, <2>3, <3>1, JobSaysEnd
    <3>. QED
      BY <1>1, <2>1, <3>2
  <2>. QED
    BY <1>8, <2>1, <2>2, <2>3, <2>4, <2>5
<1>13. CASE BeginLabel(line) \/ Code(line) \/ Align(line) \/ ApplyOffset(line)
  <2>1. /\ line.kind \in {"label", "op", "data", "align", "apply"} /\ jobmap' = jobmap /\ cjob' = cjob
    BY <1>13 DEF BeginLabel, Code, Align, ApplyOffset, jobvars
  <2>2. ASSUME NEW j \in Job \cap DOMAIN jobmap
        PROVE  JobSays(lines', j, jobmap'[j], cjob', pos')
    <3>1. e.line.kind \notin {"launch", "end"} /\ e.line.kind \notin JobTurns
      BY <1>1, <2>1 DEF JobTurns
    <3>2. JobSays(Append(lines, e), j, jobmap[j], cjob, pos + e.size)
      BY <1>1, <1>2, <1>3, <3>1, JobSaysKept
    <3>. QED
      BY <1>1, <2>1, <3>2
  <2>3. e.line.kind # "start"
    BY <1>1, <2>1
  <2>. QED
    BY <1>1, <1>3, <2>1, <2>2, <2>3, JobsStay
<1>. QED
  BY <1>5, <1>6, <1>7, <1>10, <1>11, <1>12, <1>13
     DEF process, RejectDuplicate, RejectUnknown, CrashOutside, Stop

LEMMA LabelsStay ==
  ASSUME StateTypeOK, LabelsOfLines, NEW e \in Entry, lines' = Append(lines, e),
         IsFiniteSet(DOMAIN labelmap'), DOMAIN labelmap \subseteq DOMAIN labelmap',
         DOMAIN labelmap' \subseteq Label,
         \A l \in DOMAIN labelmap : labelmap'[l].index = labelmap[l].index,
         e.line.kind = "label" =>
           e.line.name \in DOMAIN labelmap' /\ labelmap'[e.line.name].index = Len(lines),
         \A l \in DOMAIN labelmap' : LabelSays(lines', l, labelmap'[l], clabel')
  PROVE  LabelsOfLines'
<1>1. lines \in Seq(Entry)
  BY DEF StateTypeOK, LinesOK, Entry
<1>2. /\ DOMAIN lines' = 1 .. Len(lines) + 1 /\ DOMAIN lines = 1 .. Len(lines) /\ Len(lines) \in Nat
      /\ \A i \in 1 .. Len(lines) : lines'[i] = lines[i] /\ lines[i] \in Entry
      /\ lines'[Len(lines) + 1] = e
  BY <1>1, Appended
<1>3. ASSUME NEW n \in DOMAIN lines', lines'[n].line.kind = "label"
      PROVE  lines'[n].line.name \in DOMAIN labelmap' /\ labelmap'[lines'[n].line.name].index + 1 = n
  <2>1. CASE n = Len(lines) + 1
    BY <1>2, <1>3, <2>1
  <2>2. CASE n \in 1 .. Len(lines)
    <3>1. lines'[n] = lines[n]
      BY <1>2, <2>2
    <3>2. lines[n].line.name \in DOMAIN labelmap /\ labelmap[lines[n].line.name].index + 1 = n
      BY <1>2, <1>3, <2>2, <3>1 DEF LabelsOfLines
    <3>. QED
      BY <3>1, <3>2
  <2>. QED
    BY <1>2, <2>1, <2>2
<1>. QED
  BY <1>3 DEF LabelsOfLines

LEMMA CountedIs ==
  ASSUME LabelsOK, NEW size \in Nat, clabel # NoLabel
  PROVE  /\ Counted(size)[clabel].index = labelmap[clabel].index
         /\ Counted(size)[clabel].count = labelmap[clabel].count + 1
         /\ Counted(size)[clabel].size = labelmap[clabel].size + size
         /\ \A l \in DOMAIN labelmap \ {clabel} : Counted(size)[l] = labelmap[l]
<1>1. clabel \in DOMAIN labelmap /\ labelmap[clabel] \in LabelRecord
  BY DEF LabelsOK
<1>. DEFINE r == labelmap[clabel]
            more == [r EXCEPT !.count = @ + 1, !.size = @ + size]
<1>2. r.count + 1 \in Nat /\ r.size + size \in Nat
  BY <1>1 DEF LabelRecord
<1>3. more.index = r.index /\ more.count = r.count + 1 /\ more.size = r.size + size
  <2>. DEFINE s == [r EXCEPT !.count = r.count + 1]
  <2>1. s \in LabelRecord /\ s.index = r.index /\ s.count = r.count + 1 /\ s.size = r.size
    BY <1>1, <1>2 DEF LabelRecord
  <2>2. more = [s EXCEPT !.size = r.size + size]
    BY <1>1, <1>2 DEF LabelRecord
  <2>. HIDE DEF s
  <2>3. [s EXCEPT !.size = r.size + size].index = s.index
        /\ [s EXCEPT !.size = r.size + size].count = s.count
        /\ [s EXCEPT !.size = r.size + size].size = r.size + size
    BY <2>1 DEF LabelRecord
  <2>. QED
    BY <2>1, <2>2, <2>3
<1>4. Counted(size) = [labelmap EXCEPT ![clabel] = more]
  BY <1>1, <1>2, Zenon DEF Counted, LabelRecord, LabelsOK
<1>. HIDE DEF more
<1>. QED
  BY <1>1, <1>3, <1>4

LEMMA LabelsNext ==
  ASSUME StateTypeOK, LabelsOfLines, ListInOrder, NEW line \in Lines, process(line),
         stage' = "reading"
  PROVE  LabelsOfLines' /\ ListInOrder'
<1>. DEFINE e == Passed(line)
<1>1. /\ e \in Entry /\ e.line = line /\ lines' = Append(lines, e)
      /\ line.kind \notin {"align", "unknown"} => line.size \in Nat /\ e.size = line.size
      /\ WellFormed(line) /\ lines \in Seq(Entry)
  BY PassedIs
<1>. HIDE DEF e
<1>2. /\ index = Len(lines) /\ Len(lines) \in Nat
      /\ labelmap \in [DOMAIN labelmap -> LabelRecord] /\ labellist \in Seq(Label)
      /\ clabel \in DOMAIN labelmap \cup {NoLabel}
      /\ DOMAIN labelmap \subseteq Label /\ NoLabel \notin Label
      /\ LabelsOK
  BY NothingAssumption DEF StateTypeOK, LinesOK, LabelsOK, LabelsOfLines, index
<1>3. /\ IsFiniteSet(DOMAIN labelmap)
      /\ \A l \in DOMAIN labelmap :
           LabelSays(lines, l, labelmap[l], clabel) /\ labelmap[l] \in LabelRecord
  BY <1>2 DEF LabelsOfLines
<1>4. ASSUME labellist' = labellist, DOMAIN labelmap' = DOMAIN labelmap,
             \A l \in DOMAIN labelmap : labelmap'[l].index = labelmap[l].index
      PROVE  ListInOrder'
  <2>1. \A i \in DOMAIN labellist : labellist[i] \in DOMAIN labelmap
    BY DEF ListInOrder, Range
  <2>. QED
    BY <1>4, <2>1 DEF ListInOrder
<1>5. ASSUME labelmap' = labelmap, labellist' = labellist,
             clabel' = (IF line.kind = "start" THEN NoLabel ELSE clabel),
             line.kind \in {"start", "align", "eof", "eop"}
      PROVE  LabelsOfLines' /\ ListInOrder'
  <2>1. ASSUME NEW l \in DOMAIN labelmap' PROVE LabelSays(lines', l, labelmap'[l], clabel')
    <3>1. e.line.kind \in LabelTurns \cup Directives
      BY <1>1, <1>5 DEF LabelTurns, Directives
    <3>2. clabel' = l <=> clabel = l /\ e.line.kind \notin LabelTurns
      BY <1>1, <1>2, <1>5 DEF LabelTurns
    <3>3. LabelSays(lines, l, labelmap[l], clabel) /\ labelmap[l] \in LabelRecord
      BY <1>3, <1>5
    <3>4. LabelSays(Append(lines, e), l, labelmap[l], clabel')
      BY <1>1, <3>1, <3>2, <3>3, LabelSaysKept
    <3>. QED
      BY <1>1, <1>5, <3>4
  <2>2. e.line.kind # "label"
    BY <1>1, <1>5
  <2>3. LabelsOfLines'
    BY <1>1, <1>2, <1>3, <1>5, <2>1, <2>2, LabelsStay
  <2>. QED
    BY <1>4, <1>5, <2>3
<1>6. CASE BeginLabel(line)
  <2>. DEFINE l0 == line.name
              r == [pos |-> pos, index |-> index, count |-> 0, size |-> 0]
  <2>1. /\ line.kind = "label" /\ l0 \in Label /\ l0 \notin DOMAIN labelmap
        /\ labelmap' = With(labelmap, l0, r) /\ labellist' = Append(labellist, l0) /\ clabel' = l0
    BY <1>1, <1>6 DEF BeginLabel, WellFormed
  <2>2. r \in LabelRecord /\ r.index = Len(lines) /\ r.count = 0 /\ r.size = 0
    BY <1>2 DEF StateTypeOK, LinesOK, LabelRecord
  <2>. HIDE DEF r
  <2>3. /\ DOMAIN labelmap' = DOMAIN labelmap \cup {l0} /\ labelmap'[l0] = r
        /\ \A l \in DOMAIN labelmap : labelmap'[l] = labelmap[l]
    BY <2>1 DEF With
  <2>4. IsFiniteSet(DOMAIN labelmap')
    BY <1>3, <2>3, FS_AddElement
  <2>5. LabelSays(lines', l0, labelmap'[l0], clabel')
    <3>1. LabelSays(Append(lines, e), l0, r, l0)
      BY <1>1, <2>1, <2>2, LabelSaysBegins
    <3>. QED
      BY <1>1, <2>1, <2>3, <3>1
  <2>6. ASSUME NEW l \in DOMAIN labelmap PROVE LabelSays(lines', l, labelmap'[l], clabel')
    <3>1. e.line.kind \in LabelTurns \cup Directives
      BY <1>1, <2>1 DEF LabelTurns, Directives
    <3>2. clabel' = l <=> clabel = l /\ e.line.kind \notin LabelTurns
      BY <1>1, <2>1 DEF LabelTurns
    <3>3. LabelSays(lines, l, labelmap[l], clabel) /\ labelmap[l] \in LabelRecord
      BY <1>3
    <3>4. LabelSays(Append(lines, e), l, labelmap[l], clabel')
      BY <1>1, <3>1, <3>2, <3>3, LabelSaysKept
    <3>. QED
      BY <1>1, <2>3, <3>4
  <2>7. \A l \in DOMAIN labelmap' : LabelSays(lines', l, labelmap'[l], clabel')
    BY <2>3, <2>5, <2>6
  <2>8. LabelsOfLines'
    BY <1>1, <1>2, <2>1, <2>2, <2>3, <2>4, <2>7, LabelsStay
  <2>9. ListInOrder'
    <3>1. Range(labellist') = Range(labellist) \cup {l0}
      BY <1>2, <2>1, AppendRange
    <3>2. Range(labellist') = DOMAIN labelmap'
      BY <2>3, <3>1 DEF ListInOrder
    <3>3. \A l \in DOMAIN labelmap : labelmap[l].index < Len(lines)
      <4>1. \A l \in DOMAIN labelmap : labelmap[l].index + 1 \in 1 .. Len(lines) /\ labelmap[l].index \in Nat
        BY <1>3 DEF LabelSays, LabelRecord
      <4>. QED
        BY <1>2, <4>1
    <3>4. /\ DOMAIN labellist' = 1 .. Len(labellist) + 1 /\ DOMAIN labellist = 1 .. Len(labellist)
          /\ Len(labellist) \in Nat
          /\ \A i \in 1 .. Len(labellist) : labellist'[i] = labellist[i]
          /\ labellist'[Len(labellist) + 1] = l0
      BY <1>2, <2>1
    <3>5. \A i \in 1 .. Len(labellist) : labellist[i] \in DOMAIN labelmap
      BY <3>4 DEF ListInOrder, Range
    <3>6. ASSUME NEW i \in DOMAIN labellist', NEW k \in DOMAIN labellist', i < k
          PROVE  labelmap'[labellist'[i]].index < labelmap'[labellist'[k]].index
      <4>1. i \in 1 .. Len(labellist) /\ labellist'[i] = labellist[i]
            /\ labelmap'[labellist'[i]] = labelmap[labellist[i]]
        BY <2>3, <3>4, <3>5, <3>6
      <4>2. CASE k = Len(labellist) + 1
        BY <2>2, <2>3, <3>3, <3>4, <3>5, <4>1, <4>2
      <4>3. CASE k \in 1 .. Len(labellist)
        <5>1. labelmap'[labellist'[k]] = labelmap[labellist[k]]
          BY <2>3, <3>4, <3>5, <4>3
        <5>2. labelmap[labellist[i]].index < labelmap[labellist[k]].index
          BY <3>4, <3>6, <4>1, <4>3 DEF ListInOrder
        <5>. QED
          BY <4>1, <5>1, <5>2
      <4>. QED
        BY <3>4, <4>2, <4>3
    <3>. QED
      BY <3>2, <3>6 DEF ListInOrder
  <2>. QED
    BY <2>8, <2>9
<1>7. ASSUME labelmap' = Counted(line.size), labellist' = labellist, clabel' = clabel,
             line.kind \notin {"label", "start", "align", "eof", "eop", "unknown"}
      PROVE  LabelsOfLines' /\ ListInOrder'
  <2>1. line.size \in Nat /\ e.size = line.size
    BY <1>1, <1>7
  <2>2. DOMAIN labelmap' = DOMAIN labelmap /\ labelmap' \in [DOMAIN labelmap -> LabelRecord]
    BY <1>2, <1>7, <2>1, CountedOK
  <2>3. e.line.kind \notin LabelTurns \cup Directives /\ e.line.kind \notin LabelTurns
    BY <1>1, <1>7 DEF LabelTurns, Directives
  <2>4. ASSUME NEW l \in DOMAIN labelmap, l # clabel
        PROVE  labelmap'[l] = labelmap[l] /\ LabelSays(lines', l, labelmap'[l], clabel')
    <3>1. labelmap'[l] = labelmap[l]
      <4>1. CASE clabel = NoLabel
        BY <1>7, <4>1 DEF Counted
      <4>2. CASE clabel # NoLabel
        BY <1>2, <1>7, <2>1, <2>4, <4>2, CountedIs
      <4>. QED
        BY <4>1, <4>2
    <3>2. LabelSays(Append(lines, e), l, labelmap[l], clabel)
      BY <1>1, <1>3, <2>4, LabelSaysKept
    <3>. QED
      BY <1>1, <1>7, <3>1, <3>2
  <2>5. ASSUME clabel \in DOMAIN labelmap
        PROVE  /\ labelmap'[clabel].index = labelmap[clabel].index
               /\ LabelSays(lines', clabel, labelmap'[clabel], clabel')
    <3>1. clabel # NoLabel
      BY <1>2, <2>5
    <3>2. /\ labelmap'[clabel].index = labelmap[clabel].index
          /\ labelmap'[clabel].count = labelmap[clabel].count + 1
          /\ labelmap'[clabel].size = labelmap[clabel].size + e.size
      BY <1>2, <1>7, <2>1, <3>1, CountedIs
    <3>3. /\ labelmap[clabel] \in LabelRecord /\ labelmap'[clabel] \in LabelRecord
          /\ LabelSays(lines, clabel, labelmap[clabel], clabel)
      BY <1>3, <2>2, <2>5
    <3>4. LabelSays(Append(lines, e), clabel, labelmap'[clabel], clabel)
      BY <1>1, <2>3, <3>2, <3>3, LabelSaysCounted
    <3>. QED
      BY <1>1, <1>7, <3>2, <3>4
  <2>6. \A l \in DOMAIN labelmap' :
           LabelSays(lines', l, labelmap'[l], clabel') /\ labelmap'[l].index = labelmap[l].index
    BY <2>2, <2>4, <2>5
  <2>7. e.line.kind # "label"
    BY <1>1, <1>7
  <2>8. LabelsOfLines'
    BY <1>1, <1>2, <1>3, <2>2, <2>6, <2>7, LabelsStay
  <2>. QED
    BY <1>4, <1>7, <2>2, <2>6, <2>8
<1>8. CASE StartJob(line)
  <2>1. /\ line.kind = "start" /\ clabel' = NoLabel /\ UNCHANGED <<labelmap, labellist>>
    BY <1>8 DEF StartJob
  <2>. QED
    BY <1>5, <2>1
<1>9. CASE Align(line) \/ EndOfFile(line) \/ EndOfPage(line)
  <2>1. line.kind \in {"align", "eof", "eop"} /\ UNCHANGED <<labelmap, labellist, clabel>>
    BY <1>9 DEF Align, EndOfFile, EndOfPage, labelvars
  <2>. QED
    BY <1>5, <2>1
<1>10. CASE Code(line) \/ LocalBarrier(line) \/ LaunchJob(line) \/ EndJob(line) \/ ApplyOffset(line)
  <2>1. /\ line.kind \in {"op", "data", "barrier", "launch", "end", "apply"}
        /\ labelmap' = Counted(line.size) /\ UNCHANGED <<labellist, clabel>>
    BY <1>10 DEF Code, LocalBarrier, LaunchJob, EndJob, ApplyOffset, labelvars
  <2>. QED
    BY <1>7, <2>1
<1>. QED
  BY <1>6, <1>8, <1>9, <1>10
     DEF process, RejectDuplicate, RejectUnknown, CrashOutside, Stop

-----------------------------------------------------------------------------
(***************************************************************************)
(* m_jobids.                                                               *)
(***************************************************************************)
LEMMA PseudosAppend ==
  ASSUME NEW T, NEW u \in Seq(T), NEW x
  PROVE  /\ \A i \in 1 .. Len(u) : PseudosTo(Append(u, x), i) = PseudosTo(u, i)
         /\ Cardinality(PseudosTo(Append(u, x), Len(u) + 1)) =
              Cardinality(PseudosTo(u, Len(u))) + (IF x \in Job \cup {Eof} THEN 0 ELSE 1)
<1>. DEFINE v == Append(u, x)
<1>1. /\ Len(u) \in Nat /\ DOMAIN v = 1 .. Len(u) + 1
      /\ \A i \in 1 .. Len(u) : v[i] = u[i]
      /\ v[Len(u) + 1] = x
  OBVIOUS
<1>. HIDE DEF v
<1>2. ASSUME NEW i \in 1 .. Len(u) PROVE PseudosTo(v, i) = PseudosTo(u, i)
  <2>1. \A k \in 1 .. i : v[k] = u[k]
    BY <1>1, <1>2
  <2>. QED
    BY <2>1 DEF PseudosTo
<1>3. PseudosTo(v, Len(u) + 1) =
        PseudosTo(u, Len(u)) \cup (IF x \in Job \cup {Eof} THEN {} ELSE {Len(u) + 1})
  <2>1. 1 .. Len(u) + 1 = 1 .. Len(u) \cup {Len(u) + 1}
    BY <1>1
  <2>. QED
    BY <1>1, <2>1 DEF PseudosTo
<1>4. IsFiniteSet(PseudosTo(u, Len(u))) /\ Cardinality(PseudosTo(u, Len(u))) \in Nat
  <2>1. 1 \in Int /\ Len(u) \in Int
    BY <1>1
  <2>2. IsFiniteSet(1 .. Len(u))
    BY <2>1, FS_Interval
  <2>3. PseudosTo(u, Len(u)) \subseteq 1 .. Len(u)
    BY DEF PseudosTo
  <2>4. IsFiniteSet(PseudosTo(u, Len(u)))
    BY <2>2, <2>3, FS_Subset
  <2>. QED
    BY <2>4, FS_CardinalityType
<1>5. Len(u) + 1 \notin PseudosTo(u, Len(u))
  BY <1>1 DEF PseudosTo
<1>6. Cardinality(PseudosTo(v, Len(u) + 1)) =
        Cardinality(PseudosTo(u, Len(u))) + (IF x \in Job \cup {Eof} THEN 0 ELSE 1)
  <2>1. CASE x \in Job \cup {Eof}
    <3>1. PseudosTo(v, Len(u) + 1) = PseudosTo(u, Len(u))
      BY <1>3, <2>1
    <3>2. Cardinality(PseudosTo(u, Len(u))) = Cardinality(PseudosTo(u, Len(u))) + 0
      BY <1>4
    <3>. QED
      BY <2>1, <3>1, <3>2
  <2>2. CASE x \notin Job \cup {Eof}
    <3>1. PseudosTo(v, Len(u) + 1) = PseudosTo(u, Len(u)) \cup {Len(u) + 1}
      BY <1>3, <2>2
    <3>2. Cardinality(PseudosTo(u, Len(u)) \cup {Len(u) + 1}) = Cardinality(PseudosTo(u, Len(u))) + 1
      BY <1>4, <1>5, FS_AddElement
    <3>. QED
      BY <2>2, <3>1, <3>2
  <2>. QED
    BY <2>1, <2>2
<1>. QED
  BY <1>2, <1>6 DEF v

LEMMA OnceAppend ==
  ASSUME NEW T, NEW u \in Seq(T), NEW x, NEW j, NEW eops
  PROVE  /\ OnceBehind(u, j, eops) /\ x # j => OnceBehind(Append(u, x), j, eops)
         /\ (\A i \in DOMAIN u : u[i] # j) /\ x = j /\ j \in Job
              /\ eops = Cardinality(PseudosTo(u, Len(u)))
              => OnceBehind(Append(u, x), j, eops)
<1>. DEFINE v == Append(u, x)
<1>1. /\ Len(u) \in Nat /\ DOMAIN v = 1 .. Len(u) + 1 /\ DOMAIN u = 1 .. Len(u)
      /\ \A i \in 1 .. Len(u) : v[i] = u[i]
      /\ v[Len(u) + 1] = x
  OBVIOUS
<1>2. /\ \A i \in 1 .. Len(u) : PseudosTo(v, i) = PseudosTo(u, i)
      /\ x \in Job =>
           Cardinality(PseudosTo(v, Len(u) + 1)) = Cardinality(PseudosTo(u, Len(u))) + 0
  BY PseudosAppend
<1>. HIDE DEF v
<1>3. ASSUME OnceBehind(u, j, eops), x # j PROVE OnceBehind(v, j, eops)
  <2>1. PICK i \in DOMAIN u :
          /\ u[i] = j /\ \A y \in DOMAIN u : u[y] = j => y = i
          /\ eops = Cardinality(PseudosTo(u, i))
    BY <1>3 DEF OnceBehind
  <2>2. i \in DOMAIN v /\ v[i] = j /\ PseudosTo(v, i) = PseudosTo(u, i)
    BY <1>1, <1>2, <2>1
  <2>3. \A y \in DOMAIN v : v[y] = j => y = i
    BY <1>1, <1>3, <2>1
  <2>. QED
    BY <2>1, <2>2, <2>3 DEF OnceBehind
<1>4. ASSUME \A i \in DOMAIN u : u[i] # j, x = j, j \in Job,
             eops = Cardinality(PseudosTo(u, Len(u)))
      PROVE  OnceBehind(v, j, eops)
  <2>1. Len(u) + 1 \in DOMAIN v /\ v[Len(u) + 1] = j
    BY <1>1, <1>4
  <2>2. \A y \in DOMAIN v : v[y] = j => y = Len(u) + 1
    BY <1>1, <1>4
  <2>3. eops = Cardinality(PseudosTo(v, Len(u) + 1))
    <3>1. Cardinality(PseudosTo(u, Len(u))) \in Nat
      <4>1. 1 \in Int /\ Len(u) \in Int
        BY <1>1
      <4>2. IsFiniteSet(1 .. Len(u))
        BY <4>1, FS_Interval
      <4>3. PseudosTo(u, Len(u)) \subseteq 1 .. Len(u)
        BY DEF PseudosTo
      <4>4. IsFiniteSet(PseudosTo(u, Len(u)))
        BY <4>2, <4>3, FS_Subset
      <4>. QED
        BY <4>4, FS_CardinalityType
    <3>. QED
      BY <1>2, <1>4, <3>1
  <2>. QED
    BY <2>1, <2>2, <2>3 DEF OnceBehind
<1>. QED
  BY <1>3, <1>4 DEF v

(* A record is entered for one more id.                                    *)
LEMMA IdsGrow ==
  ASSUME StateTypeOK, IdsOfJobs, NEW x \in Ids, NEW r \in JobRecord,
         jobmap' = With(jobmap, x, r), ids' = Append(ids, x),
         x \in Job => x \notin DOMAIN jobmap /\ r.eopnum = eopnum,
         eopnum' = eopnum + (IF x \in Job \cup {Eof} THEN 0 ELSE 1)
  PROVE  IdsOfJobs'
<1>1. /\ ids \in Seq(Ids) /\ eopnum = Cardinality(PseudosTo(ids, Len(ids)))
      /\ \A i \in DOMAIN ids : ids[i] \in DOMAIN jobmap
      /\ \A j \in Job \cap DOMAIN jobmap : OnceBehind(ids, j, jobmap[j].eopnum)
  BY DEF IdsOfJobs
<1>2. /\ DOMAIN jobmap' = DOMAIN jobmap \cup {x} /\ jobmap'[x] = r
      /\ \A k \in DOMAIN jobmap \ {x} : jobmap'[k] = jobmap[k]
  BY EnteredJob DEF StateTypeOK
<1>3. /\ ids' \in Seq(Ids) /\ Len(ids') = Len(ids) + 1 /\ Len(ids) \in Nat
      /\ DOMAIN ids' = 1 .. Len(ids) + 1 /\ DOMAIN ids = 1 .. Len(ids)
      /\ \A i \in 1 .. Len(ids) : ids'[i] = ids[i]
      /\ ids'[Len(ids) + 1] = x
  BY <1>1
<1>4. eopnum' = Cardinality(PseudosTo(ids', Len(ids')))
  BY <1>1, <1>3, PseudosAppend
<1>5. \A i \in DOMAIN ids' : ids'[i] \in DOMAIN jobmap'
  BY <1>1, <1>2, <1>3
<1>6. ASSUME NEW j \in Job \cap DOMAIN jobmap' PROVE OnceBehind(ids', j, jobmap'[j].eopnum)
  <2>1. CASE j = x
    <3>1. jobmap'[j].eopnum = eopnum /\ \A i \in DOMAIN ids : ids[i] # j
      BY <1>1, <1>2, <1>6, <2>1
    <3>. QED
      BY <1>1, <1>6, <2>1, <3>1, OnceAppend
  <2>2. CASE j # x
    <3>1. j \in Job \cap DOMAIN jobmap /\ jobmap'[j] = jobmap[j]
      BY <1>2, <1>6, <2>2
    <3>2. OnceBehind(ids, j, jobmap'[j].eopnum)
      BY <1>1, <3>1
    <3>. QED
      BY <1>1, <2>2, <3>2, OnceAppend
  <2>. QED
    BY <2>1, <2>2
<1>. QED
  BY <1>3, <1>4, <1>5, <1>6 DEF IdsOfJobs

LEMMA IdsNext ==
  ASSUME StateTypeOK, IdsOfJobs, NEW line \in Lines, process(line), stage' = "reading"
  PROVE  IdsOfJobs'
<1>1. WellFormed(line) /\ eopnum \in Nat
  BY LinesAssumption DEF StateTypeOK, EopsOK
<1>2. CASE StartJob(line)
  <2>1. /\ line.job \in Job /\ line.job \notin DOMAIN jobmap
        /\ jobmap' = With(jobmap, line.job, JobAt(0)) /\ ids' = Append(ids, line.job)
        /\ eopnum' = eopnum
    BY <1>1, <1>2 DEF StartJob, WellFormed
  <2>2. JobAt(0) \in JobRecord /\ JobAt(0).eopnum = eopnum
    <3>1. JobAt(0) \in JobRecord
      BY JobAtOK DEF StateTypeOK
    <3>. QED
      BY <3>1 DEF JobAt
  <2>3. line.job \in Ids
    BY <2>1 DEF Ids
  <2>4. eopnum' = eopnum + (IF line.job \in Job \cup {Eof} THEN 0 ELSE 1)
    BY <1>1, <2>1
  <2>. QED
    BY <2>1, <2>2, <2>3, <2>4, IdsGrow
<1>3. CASE EndOfFile(line)
  <2>1. /\ line.size \in Nat /\ Eof \notin Job
        /\ jobmap' = With(jobmap, Eof, JobAt(line.size)) /\ ids' = Append(ids, Eof)
        /\ eopnum' = eopnum
    BY <1>1, <1>3, PseudoJobs DEF EndOfFile, WellFormed
  <2>2. JobAt(line.size) \in JobRecord
    BY <2>1, JobAtOK DEF StateTypeOK
  <2>3. Eof \in Ids
    BY DEF Ids
  <2>4. eopnum' = eopnum + (IF Eof \in Job \cup {Eof} THEN 0 ELSE 1)
    BY <1>1, <2>1
  <2>. QED
    BY <2>1, <2>2, <2>3, <2>4, IdsGrow
<1>4. CASE EndOfPage(line)
  <2>. DEFINE x == EopId(eopnum)
  <2>1. /\ jobmap' = With(jobmap, x, JobAt(0)) /\ ids' = Append(ids, x)
        /\ eopnum' = eopnum + 1
    BY <1>4 DEF EndOfPage
  <2>2. JobAt(0) \in JobRecord
    BY JobAtOK DEF StateTypeOK
  <2>3. x \in Ids
    BY <1>1 DEF Ids
  <2>4. x \notin Job \cup {Eof}
    <3>1. eopnum \in 0 .. MaxLines
      BY LinesBound DEF StateTypeOK, EopsOK
    <3>. QED
      BY <3>1, EopAssumption DEF EopId
  <2>. HIDE DEF x
  <2>. QED
    BY <2>1, <2>2, <2>3, <2>4, IdsGrow
<1>5. ASSUME ids' = ids, eopnum' = eopnum, DOMAIN jobmap' = DOMAIN jobmap,
             \A j \in DOMAIN jobmap : jobmap'[j].eopnum = jobmap[j].eopnum
      PROVE  IdsOfJobs'
  BY <1>5 DEF IdsOfJobs
<1>6. CASE LocalBarrier(line) \/ LaunchJob(line) \/ EndJob(line)
  <2>1. /\ ids' = ids /\ eopnum' = eopnum /\ cjob # NoJob
    BY <1>6 DEF LocalBarrier, LaunchJob, EndJob
  <2>2. cjob \in DOMAIN jobmap /\ jobmap[cjob] \in JobRecord
    BY <2>1 DEF StateTypeOK, JobsOK
  <2>3. \E q : jobmap' = [jobmap EXCEPT ![cjob] = q] /\ q.eopnum = jobmap[cjob].eopnum
    <3>1. CASE LocalBarrier(line)
      <4>. DEFINE q == [jobmap[cjob] EXCEPT !.lbs = Append(@, line.barrier)]
      <4>1. jobmap' = [jobmap EXCEPT ![cjob] = q]
        BY <3>1 DEF LocalBarrier
      <4>2. q.eopnum = jobmap[cjob].eopnum
        BY <2>2 DEF JobRecord
      <4>. QED
        BY <4>1, <4>2
    <3>2. CASE LaunchJob(line)
      <4>. DEFINE q == [jobmap[cjob] EXCEPT !.launch = Append(@, line.job)]
      <4>1. jobmap' = [jobmap EXCEPT ![cjob] = q]
        BY <3>2 DEF LaunchJob
      <4>2. q.eopnum = jobmap[cjob].eopnum
        BY <2>2 DEF JobRecord
      <4>. QED
        BY <4>1, <4>2
    <3>3. CASE EndJob(line)
      <4>. DEFINE q == [jobmap[cjob] EXCEPT !.end = pos + line.size, !.last = index]
      <4>1. jobmap' = [jobmap EXCEPT ![cjob] = q]
        BY <3>3 DEF EndJob
      <4>2. q.eopnum = jobmap[cjob].eopnum
        BY <2>2 DEF JobRecord
      <4>. QED
        BY <4>1, <4>2
    <3>. QED
      BY <1>6, <3>1, <3>2, <3>3
  <2>4. PICK q : jobmap' = [jobmap EXCEPT ![cjob] = q] /\ q.eopnum = jobmap[cjob].eopnum
    BY <2>3
  <2>5. /\ DOMAIN jobmap' = DOMAIN jobmap
        /\ \A j \in DOMAIN jobmap : jobmap'[j].eopnum = jobmap[j].eopnum
    BY <2>4
  <2>. QED
    BY <1>5, <2>1, <2>5
<1>7. CASE BeginLabel(line) \/ Code(line) \/ Align(line) \/ ApplyOffset(line)
  <2>1. UNCHANGED <<ids, eopnum, jobmap>>
    BY <1>7 DEF BeginLabel, Code, Align, ApplyOffset, jobvars
  <2>. QED
    BY <1>5, <2>1
<1>. QED
  BY <1>2, <1>3, <1>4, <1>6, <1>7 DEF process, RejectDuplicate, RejectUnknown, CrashOutside, Stop

-----------------------------------------------------------------------------
(***************************************************************************)
(* apply_label_map.                                                        *)
(***************************************************************************)
LEMMA LastApplyAppend ==
  ASSUME NEW s \in Seq(Entry), NEW e \in Entry
  PROVE  /\ \A n \in 1 .. Len(s) :
              LastApply(Append(s, e), n) <=>
                LastApply(s, n) /\ (e.line.kind = "apply" => e.line.table # s[n].line.table)
         /\ LastApply(Append(s, e), Len(s) + 1) => e.line.kind = "apply"
<1>. DEFINE t == Append(s, e)
<1>1. /\ DOMAIN t = 1 .. Len(s) + 1 /\ Len(s) \in Nat /\ Len(t) = Len(s) + 1
      /\ \A i \in 1 .. Len(s) : t[i] = s[i]
      /\ t[Len(s) + 1] = e
  BY Appended
<1>. HIDE DEF t
<1>2. ASSUME NEW n \in 1 .. Len(s)
      PROVE  LastApply(t, n) <=>
               LastApply(s, n) /\ (e.line.kind = "apply" => e.line.table # s[n].line.table)
  <2>1. n + 1 .. Len(s) + 1 = (n + 1 .. Len(s)) \cup {Len(s) + 1}
    BY <1>1, <1>2
  <2>2. t[n] = s[n] /\ \A m \in n + 1 .. Len(s) : t[m] = s[m]
    BY <1>1, <1>2
  <2>. QED
    BY <1>1, <2>1, <2>2 DEF LastApply
<1>3. LastApply(t, Len(s) + 1) => e.line.kind = "apply"
  BY <1>1 DEF LastApply
<1>. QED
  BY <1>2, <1>3 DEF t

LEMMA TablesNext ==
  ASSUME StateTypeOK, TablesOfLines, NEW line \in Lines, process(line), stage' = "reading"
  PROVE  TablesOfLines'
<1>. DEFINE e == Passed(line)
<1>1. /\ e \in Entry /\ e.line = line /\ lines' = Append(lines, e)
      /\ WellFormed(line) /\ lines \in Seq(Entry)
  BY PassedIs
<1>. HIDE DEF e
<1>2. /\ DOMAIN lines' = 1 .. Len(lines) + 1 /\ DOMAIN lines = 1 .. Len(lines)
      /\ \A i \in 1 .. Len(lines) : lines'[i] = lines[i]
      /\ lines'[Len(lines) + 1] = e
  BY <1>1, Appended
<1>3. /\ tables \in [DOMAIN tables -> Nat] /\ DOMAIN tables \subseteq Label
      /\ \A n \in 1 .. Len(lines) :
           LastApply(lines, n) =>
             /\ lines[n].line.table \in DOMAIN tables
             /\ tables[lines[n].line.table] = lines[n].line.entries
  BY <1>2 DEF TablesOfLines
<1>4. /\ \A n \in 1 .. Len(lines) :
           LastApply(lines', n) <=>
             LastApply(lines, n) /\ (line.kind = "apply" => line.table # lines[n].line.table)
      /\ LastApply(lines', Len(lines) + 1) => line.kind = "apply"
  BY <1>1, LastApplyAppend
<1>5. CASE ApplyOffset(line)
  <2>1. /\ line.kind = "apply" /\ line.table \in Label /\ line.entries \in Nat
        /\ tables' = With(tables, line.table, line.entries)
    BY <1>1, <1>5 DEF ApplyOffset, WellFormed
  <2>2. /\ tables' \in [DOMAIN tables \cup {line.table} -> Nat]
        /\ DOMAIN tables' = DOMAIN tables \cup {line.table}
        /\ tables'[line.table] = line.entries
        /\ \A k \in DOMAIN tables \ {line.table} : tables'[k] = tables[k]
    BY <1>3, <2>1 DEF With
  <2>3. ASSUME NEW n \in DOMAIN lines', LastApply(lines', n)
        PROVE  /\ lines'[n].line.table \in DOMAIN tables'
               /\ tables'[lines'[n].line.table] = lines'[n].line.entries
    <3>1. CASE n = Len(lines) + 1
      BY <1>1, <1>2, <2>2, <3>1
    <3>2. CASE n \in 1 .. Len(lines)
      <4>1. LastApply(lines, n) /\ line.table # lines[n].line.table /\ lines'[n] = lines[n]
        BY <1>2, <1>4, <2>1, <2>3, <3>2
      <4>. QED
        BY <1>3, <2>2, <3>2, <4>1
    <3>. QED
      BY <1>2, <2>3, <3>1, <3>2
  <2>. QED
    BY <1>3, <2>1, <2>2, <2>3 DEF TablesOfLines
<1>6. CASE tables' = tables /\ line.kind # "apply"
  <2>1. ASSUME NEW n \in DOMAIN lines', LastApply(lines', n)
        PROVE  /\ lines'[n].line.table \in DOMAIN tables'
               /\ tables'[lines'[n].line.table] = lines'[n].line.entries
    <3>1. n \in 1 .. Len(lines) /\ LastApply(lines, n) /\ lines'[n] = lines[n]
      <4>1. n # Len(lines) + 1
        BY <1>4, <1>6, <2>1
      <4>2. n \in 1 .. Len(lines)
        BY <1>1, <1>2, <2>1, <4>1
      <4>. QED
        BY <1>2, <1>4, <2>1, <4>2
    <3>. QED
      BY <1>3, <1>6, <3>1
  <2>. QED
    BY <1>3, <1>6, <2>1 DEF TablesOfLines
<1>7. CASE StartJob(line) \/ BeginLabel(line) \/ Code(line) \/ Align(line) \/ EndOfFile(line)
           \/ EndOfPage(line) \/ LocalBarrier(line) \/ LaunchJob(line) \/ EndJob(line)
  <2>1. tables' = tables /\ line.kind # "apply"
    BY <1>7 DEF StartJob, BeginLabel, Code, Align, EndOfFile, EndOfPage, LocalBarrier, LaunchJob,
                EndJob, labelvars
  <2>. QED
    BY <1>6, <2>1
<1>. QED
  BY <1>5, <1>7 DEF process, RejectDuplicate, RejectUnknown, CrashOutside, Stop

-----------------------------------------------------------------------------
(***************************************************************************)
(* The record, through every step.                                         *)
(***************************************************************************)
LEMMA InitRecord == Init => RecordOK
<1>. SUFFICES ASSUME Init PROVE RecordOK
  OBVIOUS
<1>1. /\ lines = <<>> /\ eopnum = 0 /\ ids = <<>> /\ jobmap = <<>>
      /\ labelmap = <<>> /\ labellist = <<>> /\ tables = <<>> /\ stage = "reading"
  BY DEF Init
<1>2. /\ DOMAIN jobmap = {} /\ DOMAIN labelmap = {} /\ DOMAIN tables = {} /\ DOMAIN lines = {}
      /\ DOMAIN labellist = {} /\ DOMAIN ids = {} /\ Len(ids) = 0
      /\ tables \in [DOMAIN tables -> Nat] /\ ids \in Seq(Ids)
  BY <1>1, EmptyFunction
<1>3. JobsOfLines
  BY <1>2, FS_EmptySet DEF JobsOfLines
<1>4. LabelsOfLines
  BY <1>2, FS_EmptySet DEF LabelsOfLines
<1>5. IdsOfJobs
  <2>1. PseudosTo(ids, 0) = {}
    BY DEF PseudosTo
  <2>2. eopnum = Cardinality(PseudosTo(ids, Len(ids)))
    BY <1>1, <1>2, <2>1, FS_EmptySet
  <2>. QED
    BY <1>2, <2>2 DEF IdsOfJobs
<1>6. ListInOrder
  BY <1>2 DEF ListInOrder, Range
<1>7. TablesOfLines
  BY <1>2 DEF TablesOfLines
<1>8. ResolvedWhenDone
  BY <1>1 DEF ResolvedWhenDone
<1>. QED
  BY <1>3, <1>4, <1>5, <1>6, <1>7, <1>8 DEF RecordOK

LEMMA NextRecord == StateTypeOK /\ RecordOK /\ [Next]_vars => RecordOK'
<1>. SUFFICES ASSUME StateTypeOK, RecordOK, [Next]_vars PROVE RecordOK'
  OBVIOUS
<1>1. ASSUME NEW line \in Lines, process(line) PROVE RecordOK'
  <2>1. stage = "reading" /\ stage' \in {"reading", "error", "crashed"}
    BY <1>1 DEF process, Stop, Pass, BeginLabel, StartJob, RejectDuplicate, Code, Align, EndOfFile,
                EndOfPage, RejectUnknown, LocalBarrier, LaunchJob, EndJob, CrashOutside, ApplyOffset,
                labelvars
  <2>2. JobsOfLines /\ LabelsOfLines /\ IdsOfJobs /\ ListInOrder /\ TablesOfLines
    BY <2>1 DEF RecordOK, Going
  <2>3. ResolvedWhenDone'
    BY <2>1 DEF ResolvedWhenDone
  <2>4. CASE stage' = "reading"
    <3>1. JobsOfLines'
      BY <1>1, <2>2, <2>4, JobsNext
    <3>2. LabelsOfLines' /\ ListInOrder'
      BY <1>1, <2>2, <2>4, LabelsNext
    <3>3. IdsOfJobs'
      BY <1>1, <2>2, <2>4, IdsNext
    <3>4. TablesOfLines'
      BY <1>1, <2>2, <2>4, TablesNext
    <3>. QED
      BY <2>3, <3>1, <3>2, <3>3, <3>4 DEF RecordOK
  <2>5. CASE stage' # "reading"
    BY <2>1, <2>3, <2>5 DEF RecordOK, Going
  <2>. QED
    BY <2>4, <2>5
<1>2. ASSUME UNCHANGED <<lines, pos, jobvars, labelvars, labelmap>>, ResolvedWhenDone',
             Going' => Going
      PROVE  RecordOK'
  <2>1. UNCHANGED <<lines, pos, eopnum, ids, jobmap, cjob, labellist, tables, clabel, labelmap>>
    BY <1>2 DEF jobvars, labelvars
  <2>2. JobsOfLines' = JobsOfLines /\ LabelsOfLines' = LabelsOfLines
    BY <2>1 DEF JobsOfLines, LabelsOfLines
  <2>3. IdsOfJobs' = IdsOfJobs /\ ListInOrder' = ListInOrder /\ TablesOfLines' = TablesOfLines
    BY <2>1 DEF IdsOfJobs, ListInOrder, TablesOfLines
  <2>. QED
    BY <1>2, <2>2, <2>3 DEF RecordOK
<1>3. CASE Resolve
  <2>1. /\ stage = "reading" /\ stage' = "done" /\ ~ TableBroken
        /\ dependents' = [l \in {l \in Resolved : tables[l] > 0} |-> Entries(l)]
        /\ UNCHANGED <<lines, pos, jobvars, labelvars, labelmap>>
    BY <1>3 DEF Resolve
  <2>2. UNCHANGED <<tables, labellist>>
    BY <2>1 DEF labelvars
  <2>3. ResolvedWhenDone'
    BY <2>1, <2>2 DEF ResolvedWhenDone, TableBroken, Resolved, Entries, At
  <2>. QED
    BY <1>2, <2>1, <2>3 DEF Going
<1>4. CASE RejectTable
  <2>1. /\ stage' = "error" /\ UNCHANGED <<lines, pos, jobvars, labelvars, labelmap>>
    BY <1>4 DEF RejectTable
  <2>. QED
    BY <1>2, <2>1 DEF Going, ResolvedWhenDone
<1>5. CASE UNCHANGED vars
  <2>1. /\ UNCHANGED <<lines, pos, jobvars, labelvars, labelmap, stage, dependents, tables, labellist>>
    BY <1>5 DEF vars, labelvars
  <2>2. ResolvedWhenDone'
    BY <2>1 DEF RecordOK, ResolvedWhenDone, TableBroken, Resolved, Entries, At
  <2>. QED
    BY <1>2, <2>1, <2>2 DEF Going
<1>. QED
  BY <1>1, <1>3, <1>4, <1>5 DEF Next, Ended

-----------------------------------------------------------------------------
(***************************************************************************)
(* What the pager reads of the record.                                     *)
(***************************************************************************)
JobsOfRecord == Job \cap DOMAIN jobmap

LEMMA ProgramIs ==
  /\ DOMAIN Program.ids = DOMAIN ids
  /\ \A i \in DOMAIN ids :
       Program.ids[i] = IF ids[i] \in Job \cup {Eof} THEN ids[i] ELSE Eop
  /\ \A S \in SUBSET Job : Program.text[S] = JobBytes(S \cap JobsOfRecord)
  /\ \A j \in JobsOfRecord :
       Program.launch[j] = Range(jobmap[j].launch) /\ Program.refs[j] = Named(JobLines(j))
  /\ \A S \in SUBSET Label : Program.data[S] = LabelBytes(S \cap DOMAIN labelmap)
  /\ \A l \in Label \cap DOMAIN labelmap : Program.lrefs[l] = Named(LabelLines(l))
  /\ \A l \in Label :
       Program.entries[l] = IF l \in DOMAIN dependents THEN Range(dependents[l]) ELSE {}
<1>1. /\ Program.ids = [i \in DOMAIN ids |-> IF ids[i] \in Job \cup {Eof} THEN ids[i] ELSE Eop]
      /\ Program.text = [S \in SUBSET Job |-> JobBytes(S \cap JobsOfRecord)]
      /\ Program.launch = [j \in Job |-> IF j \in JobsOfRecord THEN Range(jobmap[j].launch) ELSE {}]
      /\ Program.refs = [j \in Job |-> IF j \in JobsOfRecord THEN Named(JobLines(j)) ELSE {}]
  BY DEF Program, JobsOfRecord
<1>2. /\ Program.data = [S \in SUBSET Label |-> LabelBytes(S \cap DOMAIN labelmap)]
      /\ Program.lrefs = [l \in Label |-> IF l \in DOMAIN labelmap THEN Named(LabelLines(l)) ELSE {}]
      /\ Program.entries = [l \in Label |->
                              IF l \in DOMAIN dependents THEN Range(dependents[l]) ELSE {}]
  BY DEF Program
<1>. QED
  BY <1>1, <1>2 DEF JobsOfRecord

LEMMA LinesAre ==
  ASSUME StateTypeOK
  PROVE  /\ lines \in Seq(Entry) /\ Len(lines) \in Nat /\ DOMAIN lines = 1 .. Len(lines)
         /\ \A n \in DOMAIN lines : WellFormed(lines[n].line) /\ lines[n].size \in Nat
<1>1. lines \in Seq(Entry)
  BY DEF StateTypeOK, LinesOK, Entry
<1>2. \A n \in 1 .. Len(lines) : lines[n] \in Entry
  BY <1>1
<1>. QED
  BY <1>1, <1>2, LinesAssumption DEF Entry

LEMMA BodyIs ==
  ASSUME StateTypeOK, NEW n \in DOMAIN lines
  PROVE  Body(n) = BodyIn(lines, n) /\ Body(n) \subseteq DOMAIN lines
<1>1. DOMAIN lines = 1 .. Len(lines) /\ Len(lines) \in Nat
  BY LinesAre
<1>2. \A k \in n + 1 .. Len(lines) : k \in Turns <=> lines[k].line.kind \in JobTurns
  BY <1>1 DEF Turns, OfKind, Kind, JobTurns
<1>3. ASSUME NEW m \in n + 1 .. Len(lines)
      PROVE  (\A k \in n + 1 .. m - 1 : k \notin Turns)
               <=> \A k \in n + 1 .. m - 1 : lines[k].line.kind \notin JobTurns
  <2>1. n + 1 .. m - 1 \subseteq n + 1 .. Len(lines)
    BY <1>1, <1>3
  <2>. QED
    BY <1>2, <2>1
<1>. QED
  BY <1>1, <1>3 DEF Body, BodyIn

LEMMA BytesOfLines == \A N : Bytes(N) = BytesIn(lines, N)
BY DEF Bytes, BytesIn

(* The .eop in front of a job, in m_jobids and as the pager counts them.   *)
LEMMA EopsInFront ==
  ASSUME NEW j \in Job, NEW eops, ids \in Seq(Ids), OnceBehind(ids, j, eops)
  PROVE  EopNum(Program, j) = eops
<1>1. PICK i \in DOMAIN ids :
        /\ ids[i] = j /\ \A x \in DOMAIN ids : ids[x] = j => x = i
        /\ eops = Cardinality(PseudosTo(ids, i))
  BY DEF OnceBehind
<1>2. /\ DOMAIN Program.ids = DOMAIN ids
      /\ \A x \in DOMAIN ids :
           Program.ids[x] = IF ids[x] \in Job \cup {Eof} THEN ids[x] ELSE Eop
  BY ProgramIs
<1>3. \A x \in DOMAIN ids : (Program.ids[x] = j <=> ids[x] = j)
                              /\ (Program.ids[x] = Eop <=> ids[x] \notin Job \cup {Eof})
  BY <1>2, PseudoJobs
<1>. DEFINE at == CHOOSE x \in DOMAIN Program.ids : Program.ids[x] = j
<1>4. at = i
  BY <1>1, <1>2, <1>3
<1>5. 1 .. i \subseteq DOMAIN ids
  <2>1. DOMAIN ids = 1 .. Len(ids) /\ Len(ids) \in Nat
    OBVIOUS
  <2>. QED
    BY <2>1
<1>6. {x \in 1 .. i : Program.ids[x] = Eop} = PseudosTo(ids, i)
  BY <1>3, <1>5 DEF PseudosTo
<1>7. EopNum(Program, j) = Cardinality({x \in 1 .. at : Program.ids[x] = Eop})
  BY DEF EopNum
<1>. HIDE DEF at
<1>. QED
  BY <1>1, <1>4, <1>6, <1>7

LEMMA JobsAreRecorded ==
  ASSUME StateTypeOK, JobsOfLines, IdsOfJobs PROVE JobsRecorded
<1>. SUFFICES ASSUME NEW n \in OfKind("start"), EndsWithEndJob(n)
     PROVE  LET j == lines[n].line.job
            IN  /\ JobLines(j) = Body(n)
                /\ Program.text[{j}] = Bytes(Body(n))
                /\ Program.launch[j] = {lines[m].line.job : m \in Body(n) \cap OfKind("launch")}
                /\ Program.refs[j] = Named(Body(n))
                /\ jobmap[j].eopnum = EopNum(Program, j)
  BY DEF JobsRecorded
<1>. DEFINE j == lines[n].line.job
            r == jobmap[j]
<1>1. n \in DOMAIN lines /\ lines[n].line.kind = "start" /\ j \in Job
  BY LinesAre DEF OfKind, Kind, WellFormed
<1>2. j \in JobsOfRecord /\ r.first + 1 = n /\ r \in JobRecord
  BY <1>1 DEF JobsOfLines, JobsOfRecord, StateTypeOK, JobsOK
<1>3. JobFrom(lines, n, r)
  BY <1>2 DEF JobsOfLines, JobsOfRecord, JobSays
<1>4. Body(n) = BodyIn(lines, n) /\ Body(n) \subseteq DOMAIN lines
  BY <1>1, BodyIs
<1>5. EndsIn(lines, Body(n))
  BY DEF EndsWithEndJob, EndsIn, OfKind, Kind
<1>6. /\ r.first + 1 .. r.last + 1 = Body(n) /\ r.start <= r.end
      /\ r.end = r.start + BytesIn(lines, Body(n))
      /\ Range(r.launch) = LaunchedIn(lines, Body(n))
  BY <1>3, <1>4, <1>5 DEF JobFrom
<1>7. JobLines(j) = Body(n)
  BY <1>6 DEF JobLines
<1>8. Program.text[{j}] = Bytes(Body(n))
  <2>1. {j} \cap JobsOfRecord = {j} /\ {j} \in SUBSET Job
    BY <1>1, <1>2
  <2>2. Program.text[{j}] = JobBytes({j})
    BY <2>1, ProgramIs
  <2>3. r.end - r.start \in Nat
    BY <1>2, <1>6 DEF JobRecord
  <2>4. JobBytes({j}) = r.end - r.start
    <3>1. IsFiniteSet({j})
      BY FS_Singleton
    <3>2. \A k \in {j} : jobmap[k].end - jobmap[k].start \in Nat
      BY <2>3
    <3>. HIDE DEF j
    <3>. QED
      BY <3>1, <3>2, JobBytesAdd
  <2>5. BytesIn(lines, Body(n)) \in Nat
    <3>0. r.last \in Nat /\ r.first \in Nat
      BY <1>2 DEF JobRecord
    <3>1. r.last + 1 \in Int /\ r.first + 1 \in Int
      BY <3>0
    <3>2. IsFiniteSet(r.first + 1 .. r.last + 1)
      BY <3>1, FS_Interval
    <3>3. IsFiniteSet(Body(n)) /\ \A m \in Body(n) : lines[m].size \in Nat
      BY <1>4, <1>6, <3>2, LinesAre
    <3>. QED
      BY <3>3, BytesAdd
  <2>6. r.end - r.start = BytesIn(lines, Body(n))
    BY <1>2, <1>6, <2>5 DEF JobRecord
  <2>. QED
    BY <2>2, <2>4, <2>6, BytesOfLines
<1>9. Program.launch[j] = {lines[m].line.job : m \in Body(n) \cap OfKind("launch")}
  <2>1. {m \in Body(n) : lines[m].line.kind = "launch"} = Body(n) \cap OfKind("launch")
    BY <1>4 DEF OfKind, Kind
  <2>2. LaunchedIn(lines, Body(n)) = {lines[m].line.job : m \in Body(n) \cap OfKind("launch")}
    BY <2>1 DEF LaunchedIn
  <2>. QED
    BY <1>2, <1>6, <2>2, ProgramIs
<1>10. Program.refs[j] = Named(Body(n))
  BY <1>2, <1>7, ProgramIs
<1>11. r.eopnum = EopNum(Program, j)
  <2>1. OnceBehind(ids, j, r.eopnum) /\ ids \in Seq(Ids)
    BY <1>2 DEF IdsOfJobs, JobsOfRecord
  <2>. QED
    BY <1>1, <2>1, EopsInFront
<1>. QED
  BY <1>7, <1>8, <1>9, <1>10, <1>11

LEMMA DataOfIs ==
  ASSUME StateTypeOK, NEW n \in DOMAIN lines
  PROVE  DataOf(n) = DataIn(lines, n)
<1>1. DOMAIN lines = 1 .. Len(lines) /\ Len(lines) \in Nat
  BY LinesAre
<1>2. \A k \in n + 1 .. Len(lines) :
        k \in OfKind("label") \cup OfKind("start") <=> lines[k].line.kind \in LabelTurns
  BY <1>1 DEF OfKind, Kind, LabelTurns
<1>3. ASSUME NEW m \in n + 1 .. Len(lines)
      PROVE  (\A k \in n + 1 .. m : k \notin OfKind("label") \cup OfKind("start"))
               <=> \A k \in n + 1 .. m : lines[k].line.kind \notin LabelTurns
  <2>1. n + 1 .. m \subseteq n + 1 .. Len(lines)
    BY <1>1, <1>3
  <2>. QED
    BY <1>2, <2>1
<1>. DEFINE behind == {m \in n + 1 .. Len(lines) :
                         \A k \in n + 1 .. m : k \notin OfKind("label") \cup OfKind("start")}
<1>4. behind = BehindIn(lines, n)
  BY <1>3 DEF BehindIn
<1>5. DataOf(n) = {m \in behind : \E k \in behind : m <= k /\ Kind(k) \notin {"align", "eop", "eof"}}
  BY DEF DataOf
<1>. HIDE DEF behind
<1>. QED
  BY <1>4, <1>5 DEF DataIn, Kind, Directives

LEMMA LabelsAreRecorded ==
  ASSUME StateTypeOK, LabelsOfLines PROVE LabelsRecorded
<1>. SUFFICES ASSUME NEW n \in OfKind("label"),
                     \A m \in DataOf(n) : Kind(m) \notin {"align", "eop", "eof"}
     PROVE  LET l == lines[n].line.name
            IN  /\ LabelLines(l) = {n} \cup DataOf(n)
                /\ Program.data[{l}] = Bytes(DataOf(n))
                /\ Program.lrefs[l] = Named(DataOf(n))
  BY DEF LabelsRecorded
<1>. DEFINE l == lines[n].line.name
            r == labelmap[l]
<1>1. /\ n \in DOMAIN lines /\ lines[n].line.kind = "label" /\ l \in Label
      /\ "refs" \notin DOMAIN lines[n].line
  BY LinesAre DEF OfKind, Kind, WellFormed
<1>2. l \in DOMAIN labelmap /\ r.index + 1 = n /\ r \in LabelRecord
  BY <1>1 DEF LabelsOfLines, StateTypeOK, LabelsOK
<1>3. LabelFrom(lines, n, r)
  BY <1>2 DEF LabelsOfLines, LabelSays
<1>4. DataOf(n) = DataIn(lines, n)
  BY <1>1, DataOfIs
<1>5. DataOf(n) = n + 1 .. n + r.count /\ r.size = BytesIn(lines, DataOf(n))
  BY <1>3, <1>4 DEF LabelFrom, Kind, Directives
<1>6. LabelLines(l) = {n} \cup DataOf(n)
  <2>1. /\ n \in Int /\ r.count \in Nat /\ r.index \in Nat
    BY <1>2 DEF LabelRecord
  <2>2. r.index + 1 .. r.index + r.count + 1 = {n} \cup (n + 1 .. n + r.count)
    BY <1>2, <2>1
  <2>. QED
    BY <1>5, <2>2 DEF LabelLines
<1>7. Program.data[{l}] = Bytes(DataOf(n))
  <2>1. {l} \cap DOMAIN labelmap = {l} /\ {l} \in SUBSET Label
    BY <1>1, <1>2
  <2>2. Program.data[{l}] = LabelBytes({l})
    BY <2>1, ProgramIs
  <2>3. LabelBytes({l}) = r.size
    <3>1. IsFiniteSet({l})
      BY FS_Singleton
    <3>2. \A k \in {l} : labelmap[k].size \in Nat
      BY <1>2 DEF LabelRecord
    <3>. HIDE DEF l
    <3>. QED
      BY <3>1, <3>2, LabelBytesAdd
  <2>. QED
    BY <1>5, <2>2, <2>3, BytesOfLines
<1>8. Program.lrefs[l] = Named(DataOf(n))
  <2>1. {m \in {n} \cup DataOf(n) : "refs" \in DOMAIN lines[m].line} =
          {m \in DataOf(n) : "refs" \in DOMAIN lines[m].line}
    BY <1>1
  <2>2. Named({n} \cup DataOf(n)) = Named(DataOf(n))
    BY <2>1 DEF Named
  <2>. QED
    BY <1>1, <1>2, <1>6, <2>2, ProgramIs
<1>. QED
  BY <1>6, <1>7, <1>8

Increasing(f, N) == f \in [1 .. N -> Nat] /\ \A i, k \in 1 .. N : i < k => f[i] < f[k]

Values(f, a, b) == {f[q] : q \in a .. b}

LEMMA ImageCount ==
  ASSUME NEW N \in Nat, NEW f, Increasing(f, N),
         NEW a \in 1 .. N, NEW b \in a .. N
  PROVE  Cardinality(Values(f, a, b)) = b - a + 1
<1>. DEFINE T == {f[q] : q \in a .. b}
            g == [q \in a .. b |-> f[q]]
<1>. USE DEF Increasing
<1>1. a .. b \subseteq 1 .. N
  OBVIOUS
<1>2. g \in [a .. b -> T] /\ \A q \in a .. b : g[q] = f[q]
  OBVIOUS
<1>3. \A p, q \in a .. b : f[p] = f[q] => p = q
  <2>1. \A p, q \in a .. b : p \in 1 .. N /\ q \in 1 .. N /\ f[p] \in Nat /\ f[q] \in Nat
    BY <1>1
  <2>2. ASSUME NEW p \in a .. b, NEW q \in a .. b, f[p] = f[q] PROVE p = q
    <3>1. ~ p < q /\ ~ q < p
      BY <2>1, <2>2
    <3>. QED
      BY <2>1, <3>1
  <2>. QED
    BY <2>2
<1>. HIDE DEF g
<1>4. g \in Bijection(a .. b, T)
  <2>1. g \in Injection(a .. b, T)
    BY <1>2, <1>3 DEF Injection, IsInjective
  <2>2. g \in Surjection(a .. b, T)
    BY <1>2 DEF Surjection
  <2>. QED
    BY <2>1, <2>2 DEF Bijection
<1>. HIDE DEF T
<1>5. ExistsBijection(a .. b, T)
  BY <1>4 DEF ExistsBijection
<1>6. a \in Int /\ b \in Int /\ ~ a > b
  OBVIOUS
<1>7. IsFiniteSet(a .. b) /\ Cardinality(a .. b) = b - a + 1
  BY <1>6, FS_Interval
<1>8. Cardinality(T) = Cardinality(a .. b)
  BY <1>5, <1>7, FS_Bijection
<1>. QED
  BY <1>7, <1>8 DEF T, Values

FirstsOf(from, x) == {m \in from : Cardinality({k \in from : k <= m}) <= x}

(* The first x of an increasing sequence from its a-th on.                 *)
LEMMA FirstOfThem ==
  ASSUME NEW N \in Nat, NEW f, Increasing(f, N),
         NEW a \in 1 .. N, NEW b \in a .. N, NEW x \in Nat, b = a + x - 1,
         NEW from, from = Values(f, a, N)
  PROVE  /\ FirstsOf(from, x) = Values(f, a, b)
         /\ Cardinality(FirstsOf(from, x)) = x
<1>. DEFINE entries == FirstsOf(from, x)
<1>. f \in [1 .. N -> Nat] /\ \A i, k \in 1 .. N : i < k => f[i] < f[k]
  BY DEF Increasing
<1>0. from = {f[q] : q \in a .. N}
  BY DEF Values
<1>1. ASSUME NEW q \in a .. N
      PROVE  Cardinality({k \in from : k <= f[q]}) = q - a + 1
  <2>1. {k \in from : k <= f[q]} = {f[p] : p \in a .. q}
    <3>1. \A p \in a .. N : f[p] <= f[q] <=> p <= q
      <4>1. ASSUME NEW p \in a .. N PROVE f[p] <= f[q] <=> p <= q
        <5>1. p \in 1 .. N /\ q \in 1 .. N /\ f[p] \in Nat /\ f[q] \in Nat
          OBVIOUS
        <5>2. (p < q => f[p] < f[q]) /\ (q < p => f[q] < f[p])
          BY <5>1
        <5>3. CASE p = q
          BY <5>1, <5>3
        <5>4. CASE p < q
          BY <5>1, <5>2, <5>4
        <5>5. CASE q < p
          BY <5>1, <5>2, <5>5
        <5>. QED
          BY <5>1, <5>3, <5>4, <5>5
      <4>. QED
        BY <4>1
    <3>2. \A p \in a .. N : p <= q <=> p \in a .. q
      OBVIOUS
    <3>3. a .. q \subseteq a .. N
      OBVIOUS
    <3>. QED
      BY <1>0, <3>1, <3>2, <3>3
  <2>2. Cardinality(Values(f, a, q)) = q - a + 1
    BY <1>1, ImageCount
  <2>. QED
    BY <2>1, <2>2 DEF Values
<1>2. \A q \in a .. N : q - a + 1 <= x <=> q \in a .. b
  OBVIOUS
<1>3. a .. b \subseteq a .. N
  OBVIOUS
<1>4. entries = {f[q] : q \in a .. b}
  <2>1. \A q \in a .. N : f[q] \in entries <=> q \in a .. b
    BY <1>0, <1>1, <1>2 DEF FirstsOf
  <2>2. entries \subseteq {f[q] : q \in a .. N}
    BY <1>0 DEF FirstsOf
  <2>. HIDE DEF entries
  <2>. QED
    BY <1>3, <2>1, <2>2
<1>5. Cardinality(Values(f, a, b)) = x
  <2>1. Cardinality(Values(f, a, b)) = b - a + 1
    BY ImageCount
  <2>2. b - a + 1 = x
    OBVIOUS
  <2>. QED
    BY <2>1, <2>2
<1>. HIDE DEF entries
<1>. QED
  BY <1>4, <1>5 DEF entries, Values

(* The line of the k-th label.                                             *)
LineOf(k) == labelmap[labellist[k]].index + 1

LEMMA LinesOfLabels ==
  ASSUME StateTypeOK, LabelsOfLines, ListInOrder
  PROVE  /\ Len(labellist) \in Nat /\ DOMAIN labellist = 1 .. Len(labellist)
         /\ \A k \in 1 .. Len(labellist) :
              LineOf(k) \in OfKind("label") /\ lines[LineOf(k)].line.name = labellist[k]
         /\ \A k, m \in 1 .. Len(labellist) : k < m => LineOf(k) < LineOf(m)
         /\ OfKind("label") = {LineOf(k) : k \in 1 .. Len(labellist)}
         /\ OfKind("label") \subseteq Nat
         /\ \A k, m \in 1 .. Len(labellist) : labellist[k] = labellist[m] => k = m
<1>1. /\ labellist \in Seq(Label) /\ Len(labellist) \in Nat
      /\ DOMAIN labellist = 1 .. Len(labellist)
      /\ labelmap \in [DOMAIN labelmap -> LabelRecord]
  BY DEF StateTypeOK, LabelsOK
<1>2. DOMAIN lines = 1 .. Len(lines) /\ Len(lines) \in Nat
  BY LinesAre
<1>3. ASSUME NEW k \in 1 .. Len(labellist)
      PROVE  /\ labellist[k] \in DOMAIN labelmap /\ labelmap[labellist[k]].index \in Nat
             /\ LineOf(k) \in OfKind("label") /\ lines[LineOf(k)].line.name = labellist[k]
  <2>1. labellist[k] \in DOMAIN labelmap
    BY <1>1 DEF ListInOrder, Range
  <2>2. labelmap[labellist[k]] \in LabelRecord
    BY <1>1, <2>1
  <2>3. LabelSays(lines, labellist[k], labelmap[labellist[k]], clabel)
    BY <2>1 DEF LabelsOfLines
  <2>. QED
    BY <1>2, <2>1, <2>2, <2>3 DEF LabelRecord, LabelSays, LineOf, OfKind, Kind
<1>4. \A k, m \in 1 .. Len(labellist) : k < m => LineOf(k) < LineOf(m)
  <2>1. \A k, m \in 1 .. Len(labellist) :
          k < m => labelmap[labellist[k]].index < labelmap[labellist[m]].index
    BY <1>1 DEF ListInOrder
  <2>. QED
    BY <1>3, <2>1 DEF LineOf
<1>5. ASSUME NEW m \in OfKind("label") PROVE \E k \in 1 .. Len(labellist) : m = LineOf(k)
  <2>1. m \in DOMAIN lines /\ lines[m].line.kind = "label"
    BY DEF OfKind, Kind
  <2>2. lines[m].line.name \in Range(labellist) /\ labelmap[lines[m].line.name].index + 1 = m
    BY <2>1 DEF LabelsOfLines, ListInOrder
  <2>3. PICK k \in 1 .. Len(labellist) : labellist[k] = lines[m].line.name
    BY <1>1, <2>2 DEF Range
  <2>. QED
    BY <2>2, <2>3 DEF LineOf
<1>6. OfKind("label") = {LineOf(k) : k \in 1 .. Len(labellist)}
  BY <1>3, <1>5
<1>7. OfKind("label") \subseteq Nat
  BY <1>2 DEF OfKind
<1>8. ASSUME NEW k \in 1 .. Len(labellist), NEW m \in 1 .. Len(labellist), labellist[k] = labellist[m]
      PROVE  k = m
  <2>1. LineOf(k) = LineOf(m) /\ LineOf(k) \in Nat
    BY <1>3, <1>7, <1>8 DEF LineOf
  <2>2. ~ k < m /\ ~ m < k
    BY <1>4, <2>1
  <2>. QED
    BY <1>1, <2>2
<1>. QED
  BY <1>1, <1>3, <1>4, <1>6, <1>7, <1>8

LEMMA TablesAreRecorded ==
  ASSUME StateTypeOK, LabelsOfLines, ListInOrder, TablesOfLines, ResolvedWhenDone, stage = "done"
  PROVE  TablesRecorded
<1>. SUFFICES ASSUME NEW n \in OfKind("apply")
     PROVE  LET apply == lines[n].line
                later == {m \in OfKind("apply") : m > n /\ lines[m].line.table = apply.table}
                from == {m \in OfKind("label") :
                           \E k \in OfKind("label") : k <= m /\ lines[k].line.name = apply.table}
                entries == {m \in from : Cardinality({k \in from : k <= m}) <= apply.entries}
            IN  (later = {} /\ apply.entries > 1) =>
                  /\ Program.entries[apply.table] = {lines[m].line.name : m \in entries}
                  /\ Cardinality(entries) = apply.entries
  BY DEF TablesRecorded
<1>. DEFINE table == lines[n].line.table
            x == lines[n].line.entries
            later == {m \in OfKind("apply") : m > n /\ lines[m].line.table = table}
            from == {m \in OfKind("label") :
                       \E k \in OfKind("label") : k <= m /\ lines[k].line.name = table}
            entries == {m \in from : Cardinality({k \in from : k <= m}) <= x}
<1>. SUFFICES ASSUME later = {}, x > 1
     PROVE  /\ Program.entries[table] = {lines[m].line.name : m \in entries}
            /\ Cardinality(entries) = x
  OBVIOUS
<1>1. /\ n \in DOMAIN lines /\ lines[n].line.kind = "apply" /\ table \in Label /\ x \in Nat
      /\ DOMAIN lines = 1 .. Len(lines) /\ Len(lines) \in Nat
  BY LinesAre DEF OfKind, Kind, WellFormed
<1>2. LastApply(lines, n)
  <2>1. \A m \in n + 1 .. Len(lines) : m \in DOMAIN lines /\ m > n
    BY <1>1
  <2>. QED
    BY <1>1, <2>1 DEF LastApply, OfKind, Kind
<1>3. table \in DOMAIN tables /\ tables[table] = x
  BY <1>1, <1>2 DEF TablesOfLines
<1>4. table \in Resolved /\ tables[table] > 0
  BY <1>1, <1>3 DEF Resolved
<1>. DEFINE a == At(table)
            N == Len(labellist)
            f == [k \in 1 .. N |-> LineOf(k)]
<1>5. /\ N \in Nat /\ DOMAIN labellist = 1 .. N /\ labellist \in Seq(Label)
      /\ \A k \in 1 .. N : LineOf(k) \in OfKind("label") /\ lines[LineOf(k)].line.name = labellist[k]
      /\ \A k, m \in 1 .. N : k < m => LineOf(k) < LineOf(m)
      /\ OfKind("label") = {LineOf(k) : k \in 1 .. N}
      /\ OfKind("label") \subseteq Nat
      /\ \A k, m \in 1 .. N : labellist[k] = labellist[m] => k = m
  BY LinesOfLabels DEF StateTypeOK, LabelsOK
<1>6. a \in 1 .. N /\ labellist[a] = table /\ a + x - 1 <= N
  <2>1. table \in Range(labellist) /\ ~ At(table) + x - 1 > N
    BY <1>3, <1>4 DEF ResolvedWhenDone, TableBroken
  <2>2. \E i \in DOMAIN labellist : labellist[i] = table
    BY <2>1 DEF Range
  <2>3. a \in DOMAIN labellist /\ labellist[a] = table
    BY <2>2 DEF At
  <2>. QED
    BY <1>1, <1>5, <2>1, <2>3
<1>7. Program.entries[table] = {labellist[q] : q \in a .. a + x - 1}
  <2>1. table \in DOMAIN dependents /\ dependents[table] = Entries(table)
    BY <1>4 DEF ResolvedWhenDone
  <2>2. Program.entries[table] = Range(Entries(table))
    BY <1>1, <2>1, ProgramIs
  <2>3. Entries(table) = SubSeq(labellist, a, a + x - 1)
    BY <1>3 DEF Entries
  <2>. HIDE DEF a
  <2>4. /\ DOMAIN SubSeq(labellist, a, a + x - 1) = 1 .. x
        /\ \A i \in 1 .. x : SubSeq(labellist, a, a + x - 1)[i] = labellist[a + i - 1]
    BY <1>1, <1>5, <1>6
  <2>5. Range(SubSeq(labellist, a, a + x - 1)) = {labellist[a + i - 1] : i \in 1 .. x}
    <3>. DEFINE s == SubSeq(labellist, a, a + x - 1)
    <3>1. DOMAIN s = 1 .. x /\ \A i \in 1 .. x : s[i] = labellist[a + i - 1]
      BY <2>4
    <3>. HIDE DEF s
    <3>2. Range(s) = {s[i] : i \in DOMAIN s}
      BY Zenon DEF Range
    <3>3. {s[i] : i \in DOMAIN s} = {labellist[a + i - 1] : i \in 1 .. x}
      BY <3>1
    <3>. QED
      BY <3>2, <3>3 DEF s
  <2>6. {labellist[a + i - 1] : i \in 1 .. x} = {labellist[q] : q \in a .. a + x - 1}
    <3>1. \A i \in 1 .. x : a + i - 1 \in a .. a + x - 1
      BY <1>1, <1>6
    <3>2. \A q \in a .. a + x - 1 : q - a + 1 \in 1 .. x /\ a + (q - a + 1) - 1 = q
      BY <1>1, <1>6
    <3>3. {labellist[a + i - 1] : i \in 1 .. x} \subseteq {labellist[q] : q \in a .. a + x - 1}
      BY <3>1
    <3>4. ASSUME NEW q \in a .. a + x - 1 PROVE labellist[q] \in {labellist[a + i - 1] : i \in 1 .. x}
      <4>1. q - a + 1 \in 1 .. x /\ labellist[q] = labellist[a + (q - a + 1) - 1]
        BY <3>2
      <4>. QED
        BY <4>1
    <3>. QED
      BY <3>3, <3>4
  <2>. QED
    BY <2>2, <2>3, <2>5, <2>6
<1>8. /\ f \in [1 .. N -> Nat] /\ \A i, k \in 1 .. N : i < k => f[i] < f[k]
      /\ \A k \in 1 .. N : f[k] = LineOf(k)
  BY <1>5
<1>. HIDE DEF a, f, N, table, x
<1>9. from = {f[q] : q \in a .. N}
  <2>1. \A k \in 1 .. N : lines[f[k]].line.name = table => k = a
    BY <1>5, <1>6, <1>8
  <2>2. f[a] \in OfKind("label") /\ lines[f[a]].line.name = table
    BY <1>5, <1>6, <1>8
  <2>3. ASSUME NEW q \in 1 .. N PROVE f[q] \in from <=> q \in a .. N
    <3>1. f[q] \in OfKind("label")
      BY <1>5, <1>8
    <3>2. f[a] <= f[q] <=> q \in a .. N
      <4>1. a \in 1 .. N /\ f[a] \in Nat /\ f[q] \in Nat
        BY <1>6, <1>8
      <4>2. (a < q => f[a] < f[q]) /\ (q < a => f[q] < f[a])
        BY <1>6, <1>8
      <4>3. CASE a = q
        BY <1>5, <4>1, <4>3
      <4>4. CASE a < q
        BY <1>5, <4>1, <4>2, <4>4
      <4>5. CASE q < a
        BY <1>5, <4>1, <4>2, <4>5
      <4>. QED
        BY <1>5, <4>1, <4>3, <4>4, <4>5
    <3>3. (\E k \in OfKind("label") : k <= f[q] /\ lines[k].line.name = table) <=> f[a] <= f[q]
      <4>1. ASSUME NEW k \in OfKind("label"), k <= f[q], lines[k].line.name = table PROVE f[a] <= f[q]
        <5>1. PICK m \in 1 .. N : k = f[m]
          BY <1>5, <1>8, <4>1
        <5>. QED
          BY <2>1, <4>1, <5>1
      <4>. QED
        BY <2>2, <4>1
    <3>. QED
      BY <3>1, <3>2, <3>3
  <2>4. from \subseteq {f[q] : q \in 1 .. N}
    BY <1>5, <1>8
  <2>5. a .. N \subseteq 1 .. N
    BY <1>5, <1>6
  <2>. HIDE DEF from
  <2>. QED
    BY <2>3, <2>4, <2>5
<1>. HIDE DEF from
<1>10. entries = {f[q] : q \in a .. a + x - 1} /\ Cardinality(entries) = x
  <2>1. x \in Nat /\ x >= 1
    BY <1>1
  <2>2. entries = FirstsOf(from, x)
    BY DEF FirstsOf
  <2>. DEFINE b == a + x - 1
  <2>3. b \in a .. N
    BY <1>5, <1>6, <2>1
  <2>4. b = a + x - 1
    OBVIOUS
  <2>. HIDE DEF entries, b
  <2>5. from = Values(f, a, N)
    BY <1>9 DEF Values
  <2>6. N \in Nat /\ a \in 1 .. N /\ x \in Nat
    BY <1>5, <1>6, <2>1
  <2>7. Increasing(f, N)
    BY <1>8 DEF Increasing
  <2>8. FirstsOf(from, x) = Values(f, a, b) /\ Cardinality(FirstsOf(from, x)) = x
    BY <2>3, <2>4, <2>5, <2>6, <2>7, FirstOfThem
  <2>. QED
    BY <2>2, <2>4, <2>8 DEF Values
<1>. HIDE DEF entries
<1>11. {lines[m].line.name : m \in entries} = {labellist[q] : q \in a .. a + x - 1}
  <2>1. a .. a + x - 1 \subseteq 1 .. N
    BY <1>1, <1>5, <1>6
  <2>2. \A q \in a .. a + x - 1 : lines[f[q]].line.name = labellist[q]
    BY <1>5, <1>8, <2>1
  <2>. QED
    BY <1>10, <2>2
<1>. QED
  BY <1>7, <1>10, <1>11

(* What the pager needs of every program.                                  *)
LEMMA NamedAreLabels ==
  ASSUME StateTypeOK, NEW N, \A n \in N : n \in DOMAIN lines
  PROVE  Named(N) \subseteq Label
<1>1. \A n \in N : "refs" \in DOMAIN lines[n].line => lines[n].line.refs \subseteq Label
  BY LinesAre DEF WellFormed
<1>. QED
  BY <1>1 DEF Named

LEMMA ProgramTyped ==
  ASSUME StateTypeOK, JobsOfLines, LabelsOfLines, IdsOfJobs, TablesOfLines, ResolvedWhenDone,
         stage = "done"
  PROVE  Program \in ProgramType
<1>. DEFINE jobs == Job \cap DOMAIN jobmap
            labels == DOMAIN labelmap
<1>0. DOMAIN lines = 1 .. Len(lines) /\ Len(lines) \in Nat
  BY LinesAre
<1>1. /\ \A j \in jobs : /\ jobmap[j] \in JobRecord /\ JobSays(lines, j, jobmap[j], cjob, pos)
      /\ IsFiniteSet(DOMAIN jobmap)
  BY DEF JobsOfLines, StateTypeOK, JobsOK
<1>2. /\ \A l \in labels : labelmap[l] \in LabelRecord /\ LabelSays(lines, l, labelmap[l], clabel)
      /\ IsFiniteSet(labels) /\ labels \subseteq Label
  BY DEF LabelsOfLines, StateTypeOK, LabelsOK
<1>3. [i \in DOMAIN ids |-> IF ids[i] \in Job \cup {Eof} THEN ids[i] ELSE Eop]
        \in Seq(Job \cup {Eop, Eof})
  <2>1. DOMAIN ids = 1 .. Len(ids) /\ Len(ids) \in Nat
    BY DEF IdsOfJobs
  <2>2. \A i \in DOMAIN ids :
          (IF ids[i] \in Job \cup {Eof} THEN ids[i] ELSE Eop) \in Job \cup {Eop, Eof}
    OBVIOUS
  <2>. DEFINE u == [i \in DOMAIN ids |-> IF ids[i] \in Job \cup {Eof} THEN ids[i] ELSE Eop]
  <2>3. u \in [1 .. Len(ids) -> Job \cup {Eop, Eof}]
    BY <2>1, <2>2
  <2>. HIDE DEF u
  <2>4. u \in Seq(Job \cup {Eop, Eof})
    BY <2>1, <2>3
  <2>. QED
    BY <2>4 DEF u
<1>4. [S \in SUBSET Job |-> JobBytes(S \cap jobs)] \in [SUBSET Job -> Nat]
  <2>1. ASSUME NEW S \in SUBSET Job PROVE JobBytes(S \cap jobs) \in Nat
    <3>1. IsFiniteSet(S \cap jobs)
      <4>1. S \cap jobs \subseteq DOMAIN jobmap
        OBVIOUS
      <4>. QED
        BY <1>1, <4>1, FS_Subset
    <3>2. \A j \in S \cap jobs : jobmap[j].end - jobmap[j].start \in Nat
      <4>1. \A j \in jobs : /\ jobmap[j].end \in Nat /\ jobmap[j].start \in Nat
                            /\ jobmap[j].start <= jobmap[j].end
        BY <1>1 DEF JobRecord, JobSays, JobFrom
      <4>2. \A j \in jobs : jobmap[j].end - jobmap[j].start \in Nat
        BY <4>1
      <4>. QED
        BY <4>2
    <3>. QED
      BY <3>1, <3>2, JobBytesAdd
  <2>. QED
    BY <2>1
<1>5. [j \in Job |-> IF j \in jobs THEN Range(jobmap[j].lbs) ELSE {}] \in [Job -> SUBSET Barrier]
  <2>1. \A j \in jobs : Range(jobmap[j].lbs) \subseteq Barrier
    <3>1. \A j \in jobs : jobmap[j].lbs \in Seq(Barrier)
      BY <1>1 DEF JobRecord
    <3>. QED
      BY <3>1 DEF Range
  <2>. QED
    BY <2>1
<1>6. [j \in Job |-> IF j \in jobs THEN Range(jobmap[j].launch) ELSE {}] \in [Job -> SUBSET Job]
  <2>1. \A j \in jobs : Range(jobmap[j].launch) \subseteq Job
    <3>1. \A j \in jobs : jobmap[j].launch \in Seq(Job)
      BY <1>1 DEF JobRecord
    <3>. QED
      BY <3>1 DEF Range
  <2>. QED
    BY <2>1
<1>7. [j \in Job |-> IF j \in jobs THEN Named(JobLines(j)) ELSE {}] \in [Job -> SUBSET Label]
  <2>1. ASSUME NEW j \in jobs PROVE Named(JobLines(j)) \subseteq Label
    <3>1. /\ jobmap[j].first \in Nat /\ jobmap[j].last \in Nat /\ jobmap[j].last < Len(lines)
      BY <1>1 DEF JobRecord, JobSays, JobFrom
    <3>2. \A n \in JobLines(j) : n \in DOMAIN lines
      BY <1>0, <3>1 DEF JobLines
    <3>. QED
      BY <3>2, NamedAreLabels
  <2>. QED
    BY <2>1
<1>8. [l \in Label |-> IF l \in labels THEN Named(LabelLines(l)) ELSE {}] \in [Label -> SUBSET Label]
  <2>1. ASSUME NEW l \in labels PROVE Named(LabelLines(l)) \subseteq Label
    <3>1. /\ labelmap[l].index \in Nat /\ labelmap[l].count \in Nat
          /\ labelmap[l].index + 1 + labelmap[l].count <= Len(lines)
      BY <1>2 DEF LabelRecord, LabelSays, LabelFrom
    <3>2. \A n \in LabelLines(l) : n \in DOMAIN lines
      BY <1>0, <3>1 DEF LabelLines
    <3>. QED
      BY <3>2, NamedAreLabels
  <2>. QED
    BY <2>1
<1>9. [l \in Label |-> IF l \in DOMAIN dependents THEN Range(dependents[l]) ELSE {}]
        \in [Label -> SUBSET Label]
  <2>1. ASSUME NEW l \in DOMAIN dependents PROVE Range(dependents[l]) \subseteq Label
    <3>1. l \in Resolved /\ tables[l] > 0 /\ dependents[l] = Entries(l)
      BY <2>1 DEF ResolvedWhenDone
    <3>2. l \in Range(labellist) /\ ~ At(l) + tables[l] - 1 > Len(labellist) /\ tables[l] \in Nat
      BY <3>1 DEF ResolvedWhenDone, TableBroken, TablesOfLines, Resolved
    <3>3. labellist \in Seq(Label) /\ Len(labellist) \in Nat /\ DOMAIN labellist = 1 .. Len(labellist)
      BY DEF StateTypeOK, LabelsOK
    <3>4. At(l) \in 1 .. Len(labellist)
      <4>1. \E i \in DOMAIN labellist : labellist[i] = l
        BY <3>2 DEF Range
      <4>. QED
        BY <3>3, <4>1 DEF At
    <3>5. Entries(l) \in Seq(Label)
      <4>. DEFINE a == At(l)
                  x == tables[l]
      <4>1. a \in 1 .. Len(labellist) /\ a + x - 1 <= Len(labellist) /\ x \in Nat /\ x > 0
        BY <3>1, <3>2, <3>3, <3>4
      <4>2. Entries(l) = SubSeq(labellist, a, a + x - 1)
        BY DEF Entries
      <4>. HIDE DEF a, x
      <4>3. SubSeq(labellist, a, a + x - 1) \in Seq(Label)
        BY <3>3, <4>1
      <4>. QED
        BY <4>2, <4>3
    <3>. QED
      BY <3>1, <3>5 DEF Range
  <2>. QED
    BY <2>1
<1>10. [S \in SUBSET Label |-> LabelBytes(S \cap labels)] \in [SUBSET Label -> Nat]
  <2>1. ASSUME NEW S \in SUBSET Label PROVE LabelBytes(S \cap labels) \in Nat
    <3>1. IsFiniteSet(S \cap labels)
      <4>1. S \cap labels \subseteq labels
        OBVIOUS
      <4>. QED
        BY <1>2, <4>1, FS_Subset
    <3>2. \A l \in S \cap labels : labelmap[l].size \in Nat
      BY <1>2 DEF LabelRecord
    <3>. QED
      BY <3>1, <3>2, LabelBytesAdd
  <2>. QED
    BY <2>1
<1>11. [l \in Label |-> IF l \notin labels THEN "undefined"
                        ELSE IF Aligned(l) THEN "data" ELSE "untyped"]
         \in [Label -> {"data", "untyped", "undefined"}]
  OBVIOUS
<1>12. [j \in Job |-> {}] \in [Job -> SUBSET PageLabel]
  OBVIOUS
<1>. QED
  BY <1>3, <1>4, <1>5, <1>6, <1>7, <1>8, <1>9, <1>10, <1>11, <1>12 DEF Program, ProgramType

-----------------------------------------------------------------------------
(***************************************************************************)
(* The theorems.                                                           *)
(***************************************************************************)
StateInv == StateTypeOK /\ JobAtHand /\ BarriersAtHand

LEMMA InitStateInv == Init => StateInv
<1>. SUFFICES ASSUME Init PROVE StateInv
  OBVIOUS
<1>1. /\ lines = <<>> /\ stage = "reading" /\ cjob = NoJob
      /\ jobmap = <<>> /\ barriermap = <<>>
  BY DEF Init
<1>2. JobAtHand
  <2>1. OpenIn(lines, Len(lines) + 1) = NoJob /\ ~ Crossed(lines)
    BY <1>1, OpenNone DEF TurnsIn, Crossed
  <2>. QED
    BY <1>1, <2>1 DEF JobAtHand
<1>3. BarriersAtHand
  BY <1>1, EmptyFunction DEF BarriersAtHand, JoinsIn, InJob, InMap
<1>. QED
  BY <1>2, <1>3, InitTypeOK DEF StateInv

LEMMA NextStateInv == StateInv /\ [Next]_vars => StateInv'
<1>. SUFFICES ASSUME StateInv, [Next]_vars PROVE StateInv'
  OBVIOUS
<1>1. CASE \E line \in Lines : process(line)
  BY <1>1, TypeKept, JobAtHandKept, BarriersKept DEF StateInv
<1>2. CASE Resolve \/ RejectTable \/ UNCHANGED vars
  <2>1. /\ UNCHANGED <<lines, pos, eopnum, jobmap, barriermap, launchmap, cjob, clabel,
                       labellist, labelmap>>
        /\ stage' = stage \/ (stage = "reading" /\ stage' \in {"done", "error"})
    BY <1>2 DEF Resolve, RejectTable, vars, jobvars, labelvars
  <2>2. StateTypeOK'
    BY <2>1 DEF StateInv, StateTypeOK, LinesOK, EopsOK, JobsOK, LabelsOK, Stages
  <2>3. JobAtHand'
    BY <2>1 DEF StateInv, JobAtHand
  <2>4. BarriersAtHand'
    BY <2>1 DEF StateInv, BarriersAtHand, InJob, InMap
  <2>. QED
    BY <2>2, <2>3, <2>4 DEF StateInv
<1>. QED
  BY <1>1, <1>2 DEF Next, Ended

LEMMA StateInvariant == Spec => []StateInv
<1>. QED
  BY InitStateInv, NextStateInv, PTL DEF Spec

(* The maps of assembler_state hold records of jobs and labels, under the  *)
(* keys they were entered with, and cjob_id and clabelname name entries    *)
(* of them or nothing.                                                     *)
THEOREM StateTypeCorrect == Spec => []StateTypeOK
<1>. QED
  BY StateInvariant, PTL DEF StateInv

(* process follows the null pointer that m_jobmap[cjob_id] enters exactly  *)
(* when a LOCAL_BARRIER, LAUNCH_JOB or END_JOB stands outside a job.       *)
THEOREM CrashesOutside == Spec => []CrashesOutsideJobs
<1>1. StateInv => CrashesOutsideJobs
  <2>. SUFFICES ASSUME StateInv PROVE CrashesOutsideJobs
    OBVIOUS
  <2>1. stage = "crashed" <=> Crossed(lines)
    BY DEF StateInv, JobAtHand
  <2>2. Crossed(lines) <=>
          \E n \in DOMAIN lines :
            Kind(n) \in {"barrier", "launch", "end"} /\ OpenJob(n) = NoJob
    BY OpenJobIs DEF Crossed, Kind
  <2>. QED
    BY <2>1, <2>2 DEF CrashesOutsideJobs
<1>. QED
  BY <1>1, StateInvariant, PTL

LEMMA BarriersAreRecorded == StateInv => BarriersRecorded
<1>. SUFFICES ASSUME StateInv, stage # "crashed", NEW j \in Job, NEW b \in Barrier
     PROVE  LET joins == \E n \in OfKind("barrier") : lines[n].line.barrier = b /\ OpenJob(n) = j
            IN  /\ joins <=> b \in Program.lbs[j]
                /\ joins <=> (b \in DOMAIN barriermap /\ j \in Range(barriermap[b]))
  BY DEF BarriersRecorded
<1>1. JoinsIn(lines, j, b) <=> \E n \in OfKind("barrier") : lines[n].line.barrier = b /\ OpenJob(n) = j
  BY OpenJobIs DEF JoinsIn, OfKind, Kind
<1>2. (JoinsIn(lines, j, b) <=> InJob(j, b)) /\ (JoinsIn(lines, j, b) <=> InMap(j, b))
  BY DEF StateInv, BarriersAtHand
<1>3. Program.lbs[j] = IF j \in Job \cap DOMAIN jobmap THEN Range(jobmap[j].lbs) ELSE {}
  BY DEF Program
<1>4. InJob(j, b) <=> b \in Program.lbs[j]
  BY <1>3 DEF InJob
<1>. QED
  BY <1>1, <1>2, <1>4 DEF InMap

(* The pager goes from a job to its barriers in m_barrierids and from a    *)
(* barrier to its jobs in m_localbarriermap: both have the LOCAL_BARRIERs  *)
(* of the lines, each in the job it stands in.                             *)
THEOREM BarriersBothWays == Spec => []BarriersRecorded
<1>. QED
  BY BarriersAreRecorded, StateInvariant, PTL

RecordInv == StateInv /\ RecordOK

LEMMA RecordInvariant == Spec => []RecordInv
<1>1. Init => RecordInv
  BY InitStateInv, InitRecord DEF RecordInv
<1>2. RecordInv /\ [Next]_vars => RecordInv'
  BY NextStateInv, NextRecord DEF RecordInv, StateInv
<1>. QED
  BY <1>1, <1>2, PTL DEF Spec

(* What process has recorded when it is done is a program the pager can    *)
(* work on, and the one the lines spell out: the lines, bytes, launches,   *)
(* labels and .eop of a job from its START_JOB to its END_JOB, the lines   *)
(* and bytes behind a label, the barriers, and the entries of a table.     *)
THEOREM RecordIsOfTheLines == Spec => []ProgramRecorded
<1>1. RecordInv => ProgramRecorded
  <2>. SUFFICES ASSUME RecordInv PROVE ProgramRecorded
    OBVIOUS
  <2>1. StateTypeOK /\ BarriersRecorded
    BY BarriersAreRecorded DEF RecordInv, StateInv
  <2>2. CASE stage = "done"
    <3>1. /\ JobsOfLines /\ LabelsOfLines /\ IdsOfJobs /\ ListInOrder /\ TablesOfLines
          /\ ResolvedWhenDone
      BY <2>2 DEF RecordInv, RecordOK, Going
    <3>2. Program \in ProgramType
      BY <2>1, <2>2, <3>1, ProgramTyped
    <3>3. JobsRecorded
      BY <2>1, <3>1, JobsAreRecorded
    <3>4. LabelsRecorded
      BY <2>1, <3>1, LabelsAreRecorded
    <3>5. TablesRecorded
      BY <2>1, <2>2, <3>1, TablesAreRecorded
    <3>. QED
      BY <2>1, <3>2, <3>3, <3>4, <3>5 DEF ProgramRecorded
  <2>3. CASE stage # "done"
    BY <2>1, <2>3 DEF ProgramRecorded, JobsRecorded, LabelsRecorded, TablesRecorded
  <2>. QED
    BY <2>2, <2>3
<1>. QED
  BY <1>1, RecordInvariant, PTL

=============================================================================
