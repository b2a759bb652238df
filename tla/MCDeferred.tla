----------------------------- MODULE MCDeferred -----------------------------
(***************************************************************************)
(* Deferred jobs: three jobs, one barrier; two jobs on a page.  They are   *)
(* used as isa-spec.md allows: a job is launched by one job at most, and   *)
(* no job comes to launch itself.                                          *)
(***************************************************************************)
EXTENDS MCPager

LaunchesAllowed ==
  {launch \in [Job -> AtMostOne(Job)] :
     /\ \A j, k \in Job : j # k => launch[j] \cap launch[k] = {}
     /\ \A j \in Job : j \notin UNION {Reach(launch, {k}) : k \in launch[j]}}

DeferredPrograms ==
  [ids : {Ids(3, eops, TRUE) : eops \in {{}, {1}}}, text : {Text20},
   lbs : [Job -> SUBSET Barrier], launch : LaunchesAllowed, refs : {NoRefs}, lrefs : {NoLinks},
   entries : {NoLinks}, data : {DataTotal}, kind : {Plain}, ooo : {NoOoo}]

=============================================================================
