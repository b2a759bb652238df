----------------------------- MODULE PageStream -----------------------------
(***************************************************************************)
(* What the pager promises, without sizes, labels and the order of jobs:   *)
(* a stream of pages.  Jobs come to the page being built in groups, each   *)
(* whole with respect to `peers' (jobs that have to be on one page); a     *)
(* page is shipped as it stands and never changes again; the stream is     *)
(* complete only when every wanted job has been shipped.  It may fail at   *)
(* any time, which says what is on the pages shipped until then.           *)
(***************************************************************************)
EXTENDS Integers, Sequences

CONSTANT Job

VARIABLES
  wanted,    (* the jobs to ship                                           *)
  peers,     (* for every job, the jobs that have to be on its page        *)
  shipped,   (* the pages, as sets of jobs                                 *)
  building,  (* the jobs on the page being built                           *)
  phase      (* "streaming", "complete" or "failed"                        *)

svars == <<wanted, peers, shipped, building, phase>>

Whole(S) == \A j \in S : peers[j] \subseteq S

Shipped == UNION {shipped[i] : i \in DOMAIN shipped}

(* A group worth placing: whole, and with a job not placed before.         *)
Placeable(S) == Whole(S) /\ ~ S \subseteq Shipped \cup building

Init ==
  /\ wanted \in SUBSET Job
  /\ peers \in [Job -> SUBSET Job]
  /\ shipped = <<>>
  /\ building = {}
  /\ phase = "streaming"

Streaming == phase = "streaming" /\ UNCHANGED <<wanted, peers>>

Place(S) ==
  /\ building' = building \cup S
  /\ Placeable(S)
  /\ Streaming
  /\ UNCHANGED <<shipped, phase>>

Ship ==
  /\ Streaming
  /\ building # {}
  /\ shipped' = Append(shipped, building)
  /\ building' = {}
  /\ UNCHANGED phase

(* The group does not fit any more: it begins the next page.               *)
ShipAndPlace(S) ==
  /\ building # {}
  /\ building' = S
  /\ Placeable(S)
  /\ Streaming
  /\ shipped' = Append(shipped, building)
  /\ UNCHANGED phase

(* The stream is complete; what is still being built is the last page.     *)
Complete ==
  /\ Streaming
  /\ wanted \subseteq Shipped \cup building
  /\ shipped' = IF building = {} THEN shipped ELSE Append(shipped, building)
  /\ building' = {}
  /\ phase' = "complete"

Fail ==
  /\ Streaming
  /\ phase' = "failed"
  /\ UNCHANGED <<shipped, building>>

Next ==
  \/ \E S \in SUBSET Job : Place(S) \/ ShipAndPlace(S)
  \/ Ship \/ Complete \/ Fail

Spec == Init /\ [][Next]_svars

=============================================================================
