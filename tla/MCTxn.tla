------------------------------- MODULE MCTxn -------------------------------
(***************************************************************************)
(* Operations and inputs for the instances of TxnPreprocessor.  Words 0    *)
(* and 8 begin shim descriptors, word 16 one of a memory tile.             *)
(***************************************************************************)
EXTENDS TxnPreprocessor

BlockWriteOp(tile, word, lens) == [op |-> "blockwrite", tile |-> tile, word |-> word, lens |-> lens]

PatchOp(tile, word, arg, plus) ==
  [op |-> "patch", tile |-> tile, word |-> word, arg |-> arg, plus |-> plus]

LoadPmOp(id, count) == [op |-> "loadpm", id |-> id, count |-> count]

Input(flows, versions, jsons, columns) ==
  [flow : flows, version : versions, json : jsons, cols : columns]

(* Image 2 is smaller than what some block writes fetch.                   *)
ImageSizes == [id \in {1, 2} |-> IF id = 1 THEN 32 ELSE 16]

-----------------------------------------------------------------------------
(***************************************************************************)
(* Devices of four columns: control code of up to five operations on       *)
(* descriptors of two tiles.                                               *)
(***************************************************************************)
(* A sequence of one or two; an image that is too small for one of the     *)
(* block writes; an image that was not provided; an empty sequence.        *)
LoadOps == {LoadPmOp(1, 1), LoadPmOp(1, 2), LoadPmOp(2, 1), LoadPmOp(9, 2), LoadPmOp(1, 0)}

WriteOps ==
  {BlockWriteOp("t0", 0, <<20, 24>>), BlockWriteOp("t0", 8, <<12>>),
   BlockWriteOp("t1", 0, <<12>>), BlockWriteOp("t1", 16, <<12>>)}

PatchOps ==
  {PatchOp("t0", 1, 0, 4), PatchOp("t0", 9, 0, 4), PatchOp("t1", 0, 0, 4), PatchOp("t1", 17, 0, 4)}

WalkOps == LoadOps \cup WriteOps \cup PatchOps \cup {[op |-> "other"], [op |-> "unknown"]}

-----------------------------------------------------------------------------
(***************************************************************************)
(* Devices of one to three columns: JSON files of up to two buffers or     *)
(* patches, and control code of up to three operations that patches their  *)
(* arguments, loads PDIs and asks for preemption.  MAX_ARG_INDEX is 512,   *)
(* so argument 513 is one too many; 255 is the largest addend.             *)
(***************************************************************************)
Part(offset, patches) == [offset |-> offset, patches |-> patches]

Buffer(xrt, ctrl, coalesced, parts) ==
  [xrt |-> xrt, ctrl |-> ctrl, coalesced |-> coalesced, size |-> 32, parts |-> parts]

JsonBuffers ==
  {Buffer(0, FALSE, FALSE, {Part(0, {8})}),
   Buffer(0, FALSE, TRUE, {Part(0, {16}), Part(32, {24})}),
   Buffer(0, TRUE, FALSE, {Part(0, {})}),
   Buffer(1, TRUE, FALSE, {Part(0, {})}),
   Buffer(1, FALSE, FALSE, {Part(4, {48})}),
   Buffer(1, FALSE, TRUE, {Part(33, {8})}),
   Buffer(1, FALSE, FALSE, {Part(0, {49})})}

JsonPatches ==
  {[offset |-> 8, arg |-> 0, addend |-> 0], [offset |-> 16, arg |-> 1, addend |-> 4],
   [offset |-> 24, arg |-> 5, addend |-> 0], [offset |-> 49, arg |-> 1, addend |-> 0],
   [offset |-> 8, arg |-> 513, addend |-> 0]}

(***************************************************************************)
(* Save and restore code like the prebuilt one: block writes of shim       *)
(* descriptors of the columns, and a patch for the second word of each     *)
(* with its place in the scratch pad.  There is code for 1, 2, 4 and 8     *)
(* columns; here for 1 and 2.                                              *)
(***************************************************************************)
Saving(tile, offset) ==
  <<BlockWriteOp(tile, 0, <<16, 8>>), PatchOp(tile, 1, 0, offset), PatchOp(tile, 9, 0, offset + 16)>>

PrebuiltCode ==
  [columns \in {1, 2} |->
     IF columns = 1 THEN [save |-> Saving("t0", 0), restore |-> Saving("t0", 0)]
     ELSE [save |-> Saving("t0", 0) \o <<[op |-> "other"]>> \o Saving("t1", 24),
           restore |-> Saving("t1", 24) \o Saving("t0", 0)]]

ArgOps ==
  {BlockWriteOp("t0", 0, <<12, 20>>), PatchOp("t0", 1, 513, 0), PatchOp("t0", 1, 0, 256),
   PatchOp("t0", 1, 0, 200)}
    \cup {PatchOp("t0", word, arg, 0) : word \in {0, 1, 9}, arg \in {0, 1, 4, 5}}
    \cup {[op |-> "preempt"], [op |-> "unknown"], [op |-> "scratch", size |-> 64],
          [op |-> "loadpdi", id |-> 0], [op |-> "loadpdi", id |-> 1], LoadPmOp(9, 1)}

(* The "dma" JSON only with the argument offset it was made for.           *)
ArgInputs ==
  Input({"direct"}, {"plain", "opt"}, {"none", "dma"}, {2})
    \cup Input({"direct", "legacy", "config"}, {"plain"}, {"external"}, {1})
    \cup Input({"direct", "config"}, {"plain", "opt"}, {"none"}, {1, 3})

-----------------------------------------------------------------------------
TxnOps == [columns \in 1 .. 4 |-> IF columns = 4 THEN WalkOps ELSE ArgOps]

TxnBounds == [columns \in 1 .. 4 |-> IF columns = 4 THEN 5 ELSE 3]

TxnInputs == Input({"direct"}, {"plain"}, {"none"}, {4}) \cup ArgInputs

(* Header version 1.0: a sequence of one, and a patch of what was written  *)
(* before it.                                                              *)
OptOps ==
  [columns \in {4} |->
     {LoadPmOp(1, 1), BlockWriteOp("t0", 0, <<20>>), PatchOp("t0", 1, 0, 4), [op |-> "other"]}]

OptInput == Input({"direct"}, {"opt"}, {"none"}, {4})

(* The images of a kernel in a config JSON.                                *)
ConfigInput == Input({"config"}, {"plain"}, {"none"}, {4})

=============================================================================
