----------------------------- MODULE MCPreemption ------------------------------
(* The generated transactions on one partition of two columns: a context   *)
(* that is saved and restored, or a copy.                                  *)
EXTENDS GenPreemption, GenCopy

(* Host: both kernel arguments are patched with the scratch pad, see       *)
(* add_preemption_code in aie2_blob_preprocessor_input.cpp.                *)
ScratchPadOnly == [a \in {0, 1} |-> "scratch-pad-mem"]

MCTransactions == Generated @@ Copies
MCResets == (1 :> BOOLEAN) @@ (2 :> {TRUE})
Rounds == (1 :> 2) @@ (2 :> 1)

CopyRounds == (1 :> 0)
CopyResets == (1 :> {})

GenVars == <<vars, copy>>

GenInit ==
  \/ Init /\ copy = "none"
  \/ CopyInit /\ ncol = 1 /\ phase = "idle" /\ round = 0

CopyNext == CopyStep /\ UNCHANGED <<ncol, phase, round, copy>>
CopyEnded == Copying /\ Finished /\ UNCHANGED GenVars

GenNext == (copy = "none" /\ Next /\ UNCHANGED copy) \/ CopyNext \/ CopyEnded

GenSpec == GenInit /\ [][GenNext]_GenVars /\ WF_GenVars(GenNext)
===============================================================================
