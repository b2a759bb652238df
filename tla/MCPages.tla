------------------------------ MODULE MCPages ------------------------------
(***************************************************************************)
(* Families of programs for the pager: jobs 1 to 3 and labels 1 to 3; job  *)
(* 4 is never defined.                                                     *)
(***************************************************************************)
EXTENDS MCPager

OneBarrier == {CHOOSE b \in Barrier : TRUE}

ForJobs(F) == {f \in F : f[4] = {}}

Sizes(S) == {Total(size) : size \in {f \in [Job -> S] : f[4] = 12}}

Even == Total([j \in Job |-> 32])

(* Data that is no multiple of the alignment, and larger data.             *)
OddData == Total([l \in Label |-> IF l = 1 THEN 20 ELSE 16])
LargeData == Total([l \in Label |-> 28])

(* Label l has a second table entry, label m.                              *)
Entry(l, m) == [NoLinks EXCEPT ![l] = {m}]

(* Packing: three jobs of two sizes, one barrier, two labels (one with a   *)
(* second table entry), .eop anywhere.                                     *)
PackingPrograms ==
  [ids : {Ids(3, eops, TRUE) : eops \in SUBSET (1 .. 3) \cup {{0}, {0, 2}}},
   text : Sizes({12, 44}), lbs : ForJobs([Job -> {{}, OneBarrier}]),
   launch : {NoLaunch}, refs : ForJobs([Job -> {{}, {1}, {2}}]), lrefs : {NoLinks},
   entries : {Entry(2, 1)}, data : {OddData}, kind : {Plain}, ooo : {NoOoo}]

(* The same without barriers and labels, and without an eof.               *)
EofMissingPrograms ==
  [ids : {Ids(3, eops, FALSE) : eops \in SUBSET (1 .. 3)},
   text : Sizes({12, 24, 44}), lbs : {NoBarriers}, launch : {NoLaunch}, refs : {NoRefs},
   lrefs : {NoLinks}, entries : {NoLinks}, data : {OddData}, kind : {Plain}, ooo : {NoOoo}]

(* Dependencies: jobs of which two fit on a page, two barriers (the first  *)
(* job's up to renaming), each job launches at most one job: itself,       *)
(* another one, or the missing one.                                        *)
LaunchPrograms ==
  [ids : {Ids(3, eops, TRUE) : eops \in {{}, {1}, {2}}}, text : {Even},
   lbs : {f \in ForJobs([Job -> SUBSET Barrier]) : f[1] \in {{}, OneBarrier, Barrier}},
   launch : {f \in ForJobs([Job -> AtMostOne(Job)]) : 4 \notin f[2] \cup f[3]},
   refs : {NoRefs}, lrefs : {NoLinks}, entries : {NoLinks}, data : {DataTotal},
   kind : {Plain}, ooo : {NoOoo}]

(* Labels: two jobs and three labels; each label names at most one other   *)
(* label, or itself; at most one label is missing or has no alignment; a   *)
(* page holds a job with two labels.                                       *)
Kinds == {Plain} \cup {[Plain EXCEPT ![l] = k] : l \in Label, k \in {"untyped", "undefined"}}

LabelPrograms ==
  [ids : {Ids(2, eops, TRUE) : eops \in {{}, {1}}}, text : {Text12}, lbs : {NoBarriers},
   launch : {NoLaunch},
   refs : {f \in ForJobs([Job -> AtMostOne(Label)]) : f[2] \subseteq {1} /\ f[3] = {}},
   lrefs : [Label -> AtMostOne(Label)], entries : {Entry(1, 2)}, data : {LargeData},
   kind : Kinds, ooo : {NoOoo}]

PagePrograms == PackingPrograms \cup EofMissingPrograms \cup LaunchPrograms \cup LabelPrograms

=============================================================================
