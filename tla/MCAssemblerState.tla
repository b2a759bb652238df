-------------------------- MODULE MCAssemblerState --------------------------
(***************************************************************************)
(* Label groups of a few lines: two jobs, a barrier, two labels.  Sizes    *)
(* are such that no two sums of them are equal by chance.                  *)
(***************************************************************************)
EXTENDS AssemblerState, TLC

Sized(kind, size) == [kind |-> kind, size |-> size]

GroupLines ==
  {Sized("end", 4), Sized("eof", 4), Sized("eop", 0), [kind |-> "align", to |-> 16],
   [kind |-> "unknown"]}
    \cup [kind : {"start"}, size : {8}, job : Job]
    \cup [kind : {"barrier"}, size : {4}, barrier : Barrier]
    \cup [kind : {"launch"}, size : {4}, job : Job]
    \cup [kind : {"label"}, size : {0}, name : Label]
    \cup [kind : {"op"}, size : {12}, refs : {{l} : l \in Label}]
    \cup [kind : {"data"}, size : {16}, refs : {{}}]
    \cup {[kind |-> "apply", size |-> 8, table |-> l, entries |-> n, refs |-> {l}] :
             l \in Label, n \in {1, 2}}

Interchangeable == Permutations(Job) \cup Permutations(Label)

=============================================================================
