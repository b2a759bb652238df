------------------------------ MODULE MCPager ------------------------------
(***************************************************************************)
(* Small programs for the pager.  Jobs are numbers, in source order; a     *)
(* program is the jobs with an eof at the end and .eop directives between  *)
(* them.                                                                   *)
(***************************************************************************)
EXTENDS Pager, FiniteSetsExt, TLC

(* A total over a set of the bytes of its members.                         *)
Total(size) == [S \in SUBSET DOMAIN size |-> MapThenSumSet(LAMBDA x : size[x], S)]

(* Jobs 1 .. n, an .eop after each job of `eops' (0 for one in front), an   *)
(* eof if `eof' holds.                                                     *)
Ids(n, eops, eof) ==
  LET end(i) == IF i \in eops THEN <<Eop>> ELSE <<>>
      upto[i \in 0 .. n] == IF i = 0 THEN end(0) ELSE upto[i - 1] \o <<i>> \o end(i)
  IN  upto[n] \o (IF eof THEN <<Eof>> ELSE <<>>)

NoLaunch == [j \in Job |-> {}]
NoRefs == [j \in Job |-> {}]
NoBarriers == [j \in Job |-> {}]
NoOoo == [j \in Job |-> {}]
Plain == [l \in Label |-> "data"]
NoLinks == [l \in Label |-> {}]

AtMostOne(S) == {{}} \cup {{x} : x \in S}

DataTotal == Total([l \in Label |-> 16])

Text12 == Total([j \in Job |-> 12])
Text20 == Total([j \in Job |-> 20])

=============================================================================
