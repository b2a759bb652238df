------------------------------ MODULE JobGraph ------------------------------
(***************************************************************************)
(* The program the pager works on: what assembler_state has recorded about *)
(* the jobs and labels of one label group of one column, and the closures  *)
(* pager::extractjobs, extractlabels and extractjobsandlabels compute over *)
(* it.  A "program" is a record:                                           *)
(*                                                                         *)
(*   ids     the sequence m_jobids: jobs in source order, with the pseudo  *)
(*           jobs Eop (one per .eop) and Eof (one per eof) among them      *)
(*   text    bytes of code of a set of jobs (sum of end - start)           *)
(*   lbs     the local barriers a job takes part in (job::m_barrierids)    *)
(*   launch  the jobs a job launches (job::m_dependentjobs)                *)
(*   refs    the data labels the tokens of a job name                      *)
(*   lrefs   the data labels the data of a label names                     *)
(*   entries the further labels of a patch table (m_dependent_labelmap)    *)
(*   data    bytes of data of a set of labels                              *)
(*   kind    "data" for a label whose first token has a known alignment,   *)
(*           "untyped" for any other, "undefined" for a missing label      *)
(*   ooo     the page labels a job branches to (load_pdi, preempt)         *)
(*                                                                         *)
(* Lists that the code keeps free of repetitions in one extraction         *)
(* (union_of_lists_inorder) are sets here.                                 *)
(***************************************************************************)
EXTENDS Integers, FiniteSets, Sequences

CONSTANTS
  Job,        (* names of jobs, also of jobs that are launched but missing *)
  Barrier,    (* local barriers                                            *)
  Label,      (* data labels                                               *)
  PageLabel,  (* labels of label groups, targets of out-of-order branches  *)
  Eop, Eof    (* the pseudo jobs of .eop and eof in m_jobids               *)

ASSUME PseudoJobs == Eop \notin Job /\ Eof \notin Job /\ Eop # Eof

ProgramType ==
  [ids : Seq(Job \cup {Eop, Eof}), text : [SUBSET Job -> Nat],
   lbs : [Job -> SUBSET Barrier], launch : [Job -> SUBSET Job],
   refs : [Job -> SUBSET Label], lrefs : [Label -> SUBSET Label],
   entries : [Label -> SUBSET Label], data : [SUBSET Label -> Nat],
   kind : [Label -> {"data", "untyped", "undefined"}],
   ooo : [Job -> SUBSET PageLabel]]

Defined(p) == {j \in Job : \E i \in DOMAIN p.ids : p.ids[i] = j}

(***************************************************************************)
(* The nodes reachable from S in the graph R, S included.                  *)
(***************************************************************************)
ClosedUnder(R, C) == \A x \in C : R[x] \subseteq C

Reach(R, S) ==
  {x \in DOMAIN R : \A C \in SUBSET DOMAIN R :
                       (S \subseteq C /\ ClosedUnder(R, C)) => x \in C}

-----------------------------------------------------------------------------
(***************************************************************************)
(* extractjobs: the jobs that share a barrier with j, directly or through  *)
(* other jobs, and the same for every job launched from j.  The recursion  *)
(* follows the launches of j and of the launched jobs only, never those of *)
(* their barrier peers.                                                    *)
(***************************************************************************)
BarrierPeers(p) == [j \in Job |-> {k \in Defined(p) : p.lbs[j] \cap p.lbs[k] # {}}]

(* Mutation: only the jobs that share a barrier with j directly.           *)
DirectPeers(p, j) == {j} \cup BarrierPeers(p)[j]

BarrierGroup(p, j) == Reach(BarrierPeers(p), {j})

LaunchTree(p, j) == Reach(p.launch, {j})

ExtractJobs(p, j) == UNION {BarrierGroup(p, k) : k \in LaunchTree(p, j)}

EopNum(p, j) ==
  LET at(k) == CHOOSE i \in DOMAIN p.ids : p.ids[i] = k
  IN  Cardinality({i \in 1 .. at(j) : p.ids[i] = Eop})

(* Mutation: the check of the .eop numbers is missing.                     *)
NeverSplit(p, j) == FALSE

(* A barrier peer on the other side of an .eop: extractjobs throws.        *)
SplitByEop(p, j) ==
  \E k \in LaunchTree(p, j) \cap Defined(p) :
    \E m \in BarrierGroup(p, k) : EopNum(p, m) # EopNum(p, k)

(* A launched job without a START_JOB: extractjobs follows a null pointer. *)
LaunchesMissing(p, j) == ~ LaunchTree(p, j) \subseteq Defined(p)

(* A job that launches itself in the end: extractjobs never returns.       *)
LaunchesItself(p, j) ==
  \E k \in LaunchTree(p, j) : \E m \in p.launch[k] : k \in LaunchTree(p, m)

-----------------------------------------------------------------------------
(***************************************************************************)
(* extractlabels over all tokens of the jobs in J: the labels they name,   *)
(* through the data of these labels, with the other entries of their patch *)
(* tables; the data of those other entries is not searched.                *)
(***************************************************************************)
(* Mutation: the data of the labels is not searched.                       *)
LabelsInText(p, J) == UNION {p.refs[j] : j \in J}

NamedLabels(p, J) == Reach(p.lrefs, UNION {p.refs[j] : j \in J})

ExtractLabels(p, J) ==
  NamedLabels(p, J) \cup UNION {p.entries[l] : l \in NamedLabels(p, J)}

LabelNotFound(p, J) == \E l \in NamedLabels(p, J) : p.kind[l] = "undefined"

(* Labels that name each other: extractlabels never returns.               *)
LabelsLoop(p, J) ==
  \E l \in NamedLabels(p, J) : \E m \in p.lrefs[l] : l \in Reach(p.lrefs, {m})

(* getdatasectionsize knows no alignment for the label: it throws.         *)
LabelUntyped(p, J) == \E l \in ExtractLabels(p, J) : p.kind[l] # "data"

ExtractExternal(p, J) == UNION {p.ooo[j] : j \in J}

(* extractjobsandlabels: what is laid out together with job j.             *)
Group(p, j) ==
  LET J == ExtractJobs(p, j)
  IN  [jobs |-> J, labels |-> ExtractLabels(p, J), ooo |-> ExtractExternal(p, J)]

GroupType == [jobs : SUBSET Job, labels : SUBSET Label, ooo : SUBSET PageLabel]

=============================================================================
