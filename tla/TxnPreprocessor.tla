-------------------------- MODULE TxnPreprocessor --------------------------
(***************************************************************************)
(* The AIE2 transaction preprocessor: set_args reads the JSON that comes   *)
(* with a transaction, walks the transaction operation by operation        *)
(* (process_txn, or process_txn_opt for header version 1.0), walks the     *)
(* prebuilt save and restore code if a preempt operation was met, and      *)
(* sizes the scratch pads.  The result are symbols: places the runtime     *)
(* patches with the address of an argument.                                *)
(*                                                                         *)
(* Operations are records with a field op:                                 *)
(*   "blockwrite"  tile, word and lens: writes Len(lens) buffer            *)
(*                 descriptors from that address on, each of BD_WORDS      *)
(*                 words with the given length in its first word           *)
(*   "patch"       tile, word, arg, plus: patches the descriptor written   *)
(*                 to that address with argument arg                       *)
(*   "loadpm"      id, count: the next count operations load a PM image    *)
(*   "loadpdi" id, "scratch" size, "preempt", "other" (nothing to patch)   *)
(*   and "unknown"                                                         *)
(* An address is a tile and a word number; GET_REG drops the tile.         *)
(*                                                                         *)
(* Three flows lead here: "direct", from the command line, "legacy", the   *)
(* same with the flag legacydpuxclbin, and "config", from a config JSON,   *)
(* where PM images and PDIs belong to the kernel and not to the instance.  *)
(***************************************************************************)
EXTENDS Integers, Sequences, FiniteSets

CONSTANTS
  Ops,        (* the operations of a transaction, by number of columns     *)
  MaxOps,     (* bound: operations of a transaction, by number of columns  *)
  MaxBuffers, (* bound: external buffers or patches of a JSON              *)
  Inputs,     (* flow, version ("plain" or "opt", header 1.0), json        *)
              (* ("none", "external", "dma") and cols, the columns         *)
  Buffers,    (* the external buffers a JSON may list                      *)
  Patches,    (* the control packet patches a "dma" JSON may list          *)
  DmaIndices, (* values of ctrl_pkt_xrt_arg_idx                            *)
  PmSize,     (* sizes of the PM images provided, by id                    *)
  Pdis,       (* the PDIs provided in the "config" flow                    *)
  Prebuilt,   (* save and restore code by number of columns                *)
  ShimBDs, MemBDs, (* first words of shim and memory tile descriptors      *)
  PacketSize, (* size of the control packet                                *)
  Range32     (* RANGE_32BIT, reduced                                      *)

BD_WORDS == 8
MAX_ARG_INDEX == 512

(* The fields of an operation are unsigned; a block write has a payload.   *)
WellFormed(op) ==
  /\ op.op = "blockwrite" => op.word \in Nat /\ op.lens \in Seq(Nat) /\ op.lens # <<>>
  /\ op.op = "patch" => op.word \in Nat /\ op.arg \in Nat /\ op.plus \in Nat
  /\ op.op = "loadpm" => op.count \in Nat
  /\ op.op = "scratch" => op.size \in Nat

Entries(code) == {code[n] : n \in DOMAIN code}

PrebuiltOps == UNION {Entries(Prebuilt[c].save) \cup Entries(Prebuilt[c].restore) : c \in DOMAIN Prebuilt}

(* The prebuilt code loads no PM images.                                   *)
ASSUME TxnAssumption ==
  /\ \A i \in Inputs : i.cols \in DOMAIN Ops /\ MaxOps[i.cols] \in Nat
  /\ MaxBuffers \in Nat
  /\ ShimBDs \subseteq Nat /\ MemBDs \subseteq Nat /\ ShimBDs \cap MemBDs = {}
  /\ \A b \in ShimBDs \cup MemBDs : b % BD_WORDS = 0
  /\ \A c \in DOMAIN Ops : \A op \in Ops[c] : WellFormed(op)
  /\ DOMAIN Prebuilt \subseteq Nat
  /\ \A op \in PrebuiltOps : WellFormed(op) /\ op.op # "loadpm"

Sections == {"ctrltext", "preempt_save", "preempt_restore"}

VARIABLES
  flow, version, json, cols,  (* the input; never changes                  *)
  dmaIndex,   (* ctrl_pkt_xrt_arg_idx of a "dma" JSON, 4 when absent       *)
  listed,     (* what was read of the JSON: buffers or patches             *)
  xrtMap,     (* xrt_id_map                                                *)
  stage,      (* "json", the section being walked, "done", or the error    *)
  ops,        (* for every section, the operations met; the one an error   *)
              (* was thrown for is the last one                            *)
  regs,       (* blockWriteRegOffsetMap                                    *)
  loadseq,    (* loadsequence                                              *)
  pm,         (* pm_exist and pm_id                                        *)
  haspreempt,
  packetSyms, (* symbols of the control packet                             *)
  syms        (* symbols of the sections walked                            *)

input == <<flow, version, json, cols, dmaIndex>>
walk == <<ops, regs, loadseq, pm>>
vars == <<input, listed, xrtMap, stage, walk, haspreempt, packetSyms, syms>>

arg_offset == CASE flow = "direct" -> 3 [] flow = "legacy" -> 1 [] flow = "config" -> 0

Arg(n) == <<"arg", n>>
ControlPacket == <<"control-packet">>
ScratchPad == <<"scratch-pad-mem">>

Errors == {"bad_json", "pm_too_small", "zero_loadsequence", "no_pdi", "patch_in_sequence",
           "no_blockwrite", "bad_argument", "bad_opcode", "no_preempt_code"}

-----------------------------------------------------------------------------
(***************************************************************************)
(* readmetajson.                                                           *)
(***************************************************************************)
PACKET_HEADER == 8

Known(map, n) == n \in DOMAIN map

(* std::map::insert: an entry that is there stays.                         *)
Inserted(map, n, name) ==
  IF Known(map, n) THEN map ELSE [m \in DOMAIN map \cup {n} |-> IF m = n THEN name ELSE map[m]]

(* Control packet symbols point at the packet header, 8 bytes in front.    *)
PacketSym(arg, offset, addend) ==
  [name |-> Arg(arg + arg_offset), at |-> (offset - PACKET_HEADER) % (Range32 + 1),
   addend |-> addend, arg |-> arg]

ValidJson(offset, size, arg) == offset <= size /\ arg <= MAX_ARG_INDEX

PartValid(buffer, part) ==
  /\ buffer.coalesced => ValidJson(part.offset, buffer.size, buffer.xrt)
  /\ \A offset \in part.patches : PacketSize > 0 /\ ValidJson(offset, PacketSize, buffer.xrt)

PacketSyms(buffer) ==
  UNION {{PacketSym(buffer.xrt, offset, part.offset) : offset \in part.patches} :
           part \in buffer.parts}

RejectJson ==
  /\ stage' = "bad_json"
  /\ UNCHANGED <<input, listed, xrtMap, walk, haspreempt, packetSyms, syms>>

(* One external buffer: its name, and the places in the control packet     *)
(* that hold its address or the address of one of its parts.               *)
ReadBuffer(buffer) ==
  /\ stage = "json" /\ json = "external"
  /\ Len(listed) < MaxBuffers
  /\ \A part \in buffer.parts : PartValid(buffer, part)
  /\ listed' = Append(listed, buffer)
  /\ xrtMap' = Inserted(xrtMap, buffer.xrt,
                        IF buffer.ctrl THEN ControlPacket ELSE Arg(buffer.xrt + arg_offset))
  /\ packetSyms' = packetSyms \cup PacketSyms(buffer)
  /\ UNCHANGED <<input, stage, walk, haspreempt, syms>>

RejectBuffer(buffer) ==
  /\ stage = "json" /\ json = "external"
  /\ Len(listed) < MaxBuffers
  /\ \E part \in buffer.parts : ~ PartValid(buffer, part)
  /\ RejectJson

(* The names a "dma" JSON gives the arguments.                             *)
DmaNames(index) ==
  [n \in (0 .. 4) \cup {index} |-> IF n = index THEN ControlPacket ELSE Arg(n + 3)]

ReadPatch(patch) ==
  /\ stage = "json" /\ json = "dma"
  /\ Len(listed) < MaxBuffers
  /\ ValidJson(patch.offset, PacketSize, patch.arg)
  /\ listed' = Append(listed, patch)
  /\ packetSyms' = packetSyms \cup {PacketSym(patch.arg, patch.offset, patch.addend)}
  /\ UNCHANGED <<input, xrtMap, stage, walk, haspreempt, syms>>

RejectJsonPatch(patch) ==
  /\ stage = "json" /\ json = "dma"
  /\ Len(listed) < MaxBuffers
  /\ ~ ValidJson(patch.offset, PacketSize, patch.arg)
  /\ RejectJson

Enter(section) ==
  /\ stage' = section
  /\ regs' = <<>>
  /\ loadseq' = 0
  /\ pm' = [exist |-> FALSE, id |-> 0]

StartWalk ==
  /\ stage = "json"
  /\ Enter("ctrltext")
  /\ UNCHANGED <<input, listed, xrtMap, ops, haspreempt, packetSyms, syms>>

-----------------------------------------------------------------------------
(***************************************************************************)
(* process_txn and process_txn_opt, one operation at a time.  They differ  *)
(* in the layout of the operations and in that process_txn counts the      *)
(* operations of a load sequence down.  The prebuilt code has header       *)
(* version 1.0.                                                            *)
(***************************************************************************)
Walking == stage \in Sections

Optimized == stage = "ctrltext" => version = "opt"

LibCode == IF stage = "preempt_save" THEN Prebuilt[cols].save ELSE Prebuilt[cols].restore

NextOps ==
  IF stage = "ctrltext"
  THEN IF Len(ops.ctrltext) < MaxOps[cols] THEN Ops[cols] ELSE {}
  ELSE {LibCode[n] : n \in {Len(ops[stage]) + 1} \cap DOMAIN LibCode}

(* Mutation: the load sequence is not counted down in process_txn either.  *)
NeverCounted(n) == n

Counted(n) == IF ~ Optimized /\ n > 0 THEN n - 1 ELSE n

InLoadSequence == loadseq > 0 /\ pm.exist

Here == Len(ops[stage]) + 1

(* The walk moves behind op.                                               *)
Walked(op) ==
  /\ ops' = [ops EXCEPT ![stage] = Append(@, op)]
  /\ UNCHANGED <<input, listed, xrtMap, stage, packetSyms>>

Reject(op, error) ==
  /\ ops' = [ops EXCEPT ![stage] = Append(@, op)]
  /\ stage' = error
  /\ UNCHANGED <<input, listed, xrtMap, regs, loadseq, pm, haspreempt, packetSyms, syms>>

Skip(op) ==
  /\ op.op = "other"
  /\ Walked(op)
  /\ loadseq' = Counted(loadseq)
  /\ UNCHANGED <<regs, pm, haspreempt, syms>>

Preempt(op) ==
  /\ op.op = "preempt"
  /\ Walked(op)
  /\ haspreempt' = TRUE
  /\ loadseq' = Counted(loadseq)
  /\ UNCHANGED <<regs, pm, syms>>

Sym(name, word, addend, size, schema) ==
  [section |-> stage, name |-> name, at |-> <<Here, word>>, by |-> Here,
   addend |-> addend, size |-> size, schema |-> schema]

PdisHere == IF flow = "config" THEN Pdis ELSE {}

LoadPdi(op) ==
  /\ op.op = "loadpdi"
  /\ op.id \in PdisHere
  /\ Walked(op)
  /\ syms' = syms \cup {Sym(<<"pdi", op.id>>, 0, 0, 0, "address_64")}
  /\ loadseq' = Counted(loadseq)
  /\ UNCHANGED <<regs, pm, haspreempt>>

RejectPdi(op) ==
  op.op = "loadpdi" /\ op.id \notin PdisHere /\ Reject(op, "no_pdi")

CreateScratchpad(op) ==
  /\ op.op = "scratch"
  /\ Walked(op)
  /\ syms' = syms \cup {Sym(<<"scratch-pad-ctrl">>, 0, 0, op.size, "address_64")}
  /\ loadseq' = Counted(loadseq)
  /\ UNCHANGED <<regs, pm, haspreempt>>

(* Mutation: the operation itself is counted as one of its sequence.       *)
LoadPmShort(op) ==
  /\ op.op = "loadpm" /\ op.count > 0
  /\ Walked(op)
  /\ loadseq' = Counted(op.count)
  /\ pm' = [exist |-> op.id \in DOMAIN PmSize, id |-> op.id]
  /\ UNCHANGED <<regs, haspreempt, syms>>

LoadPm(op) ==
  /\ op.op = "loadpm" /\ op.count > 0
  /\ Walked(op)
  /\ loadseq' = Counted(op.count + 1)
  /\ pm' = [exist |-> op.id \in DOMAIN PmSize, id |-> op.id]
  /\ UNCHANGED <<regs, haspreempt, syms>>

RejectLoadPm(op) ==
  op.op = "loadpm" /\ op.count = 0 /\ Reject(op, "zero_loadsequence")

RejectUnknown(op) == op.op = "unknown" /\ Reject(op, "bad_opcode")

-----------------------------------------------------------------------------
(***************************************************************************)
(* patch_helper: what there is to patch is decided by the word of a        *)
(* descriptor, `word', and written at the descriptor, `at'.  The symbol    *)
(* stands for the address bits of the descriptor, too, that are cleared    *)
(* for the schema shim_dma_48.  `arg' is the operation's argument index    *)
(* without the offset, `given' the name the caller insists on, or <<>>.    *)
(***************************************************************************)
SCALER_MASK == 0  (* a scaler_32 symbol has a mask in place of the size    *)

(* Mutation: the map of the JSON is not looked at.                         *)
ShimNameByIndex(given, arg) == IF given # <<>> THEN given ELSE Arg(arg + arg_offset)

ShimName(given, arg) ==
  IF given # <<>> THEN given
  ELSE IF Known(xrtMap, arg) THEN xrtMap[arg] ELSE Arg(arg + arg_offset)

PatchSyms(given, word, arg, at, addend, size) ==
  LET scaler(w) == [section |-> stage, name |-> Arg(arg + arg_offset), at |-> <<at[1], at[2] + w>>,
                    by |-> Here, addend |-> addend, size |-> SCALER_MASK, schema |-> "scaler_32"]
      dma == [section |-> stage, name |-> ShimName(given, arg), at |-> at,
              by |-> Here, addend |-> addend, size |-> size, schema |-> "shim_dma_48"]
  IN  CASE word \in MemBDs      -> {scaler(0)}
        [] word - 1 \in MemBDs  -> {scaler(1)}
        [] word \in ShimBDs     -> {scaler(0)}
        [] word - 1 \in ShimBDs -> {dma}
        [] OTHER                -> {}

(* The PM images of the config flow are data of the kernel: the instance   *)
(* finds an empty section where it looks for their size.                   *)
PmSizeHere == IF flow = "config" THEN 0 ELSE PmSize[pm.id]

(* A block write of a load sequence: its first descriptor fetches the PM   *)
(* image.                                                                  *)
PatchPm(op) ==
  /\ op.op = "blockwrite"
  /\ InLoadSequence
  /\ PmSizeHere >= op.lens[1]
  /\ Walked(op)
  /\ syms' = syms \cup
       PatchSyms(<<"pm", pm.id>>, op.word + 1, -arg_offset, <<Here, 0>>, 0, op.lens[1])
  /\ loadseq' = Counted(loadseq)
  /\ UNCHANGED <<regs, pm, haspreempt>>

RejectPm(op) ==
  /\ op.op = "blockwrite"
  /\ InLoadSequence
  /\ PmSizeHere < op.lens[1]
  /\ Reject(op, "pm_too_small")

(* The descriptors a block write covers, with where they are written.      *)
Written(op) ==
  [a \in {<<op.tile, op.word + BD_WORDS * (n - 1)>> : n \in DOMAIN op.lens} |->
     [at |-> <<Here, a[2] - op.word>>, len |-> op.lens[(a[2] - op.word) \div BD_WORDS + 1]]]

(* Mutation: a descriptor written before keeps its entry.                  *)
RecordedOnce(op) ==
  [a \in DOMAIN regs \cup DOMAIN Written(op) |->
     IF a \in DOMAIN regs THEN regs[a] ELSE Written(op)[a]]

Recorded(op) ==
  [a \in DOMAIN regs \cup DOMAIN Written(op) |->
     IF a \in DOMAIN Written(op) THEN Written(op)[a] ELSE regs[a]]

BlockWrite(op) ==
  /\ op.op = "blockwrite"
  /\ ~ InLoadSequence
  /\ Walked(op)
  /\ regs' = Recorded(op)
  /\ loadseq' = Counted(loadseq)
  /\ UNCHANGED <<pm, haspreempt, syms>>

(* The register address without its lower four bits.                       *)
Descriptor(op) == <<op.tile, op.word - (op.word % 4)>>

ArgumentValid(op) == op.plus <= Range32 /\ op.arg <= MAX_ARG_INDEX

ArgName == IF stage = "ctrltext" THEN <<>> ELSE ScratchPad

Patch(op) ==
  /\ op.op = "patch"
  /\ ~ InLoadSequence
  /\ Descriptor(op) \in DOMAIN regs
  /\ ArgumentValid(op)
  /\ Walked(op)
  /\ LET bd == regs[Descriptor(op)]
     IN  syms' = syms \cup PatchSyms(ArgName, op.word, op.arg, bd.at, op.plus, bd.len)
  /\ loadseq' = Counted(loadseq)
  /\ UNCHANGED <<regs, pm, haspreempt>>

RejectPatch(op) ==
  /\ op.op = "patch"
  /\ \/ InLoadSequence /\ Reject(op, "patch_in_sequence")
     \/ ~ InLoadSequence /\ Descriptor(op) \notin DOMAIN regs /\ Reject(op, "no_blockwrite")
     \/ /\ ~ InLoadSequence /\ Descriptor(op) \in DOMAIN regs /\ ~ ArgumentValid(op)
        /\ Reject(op, "bad_argument")

WalkOp ==
  Walking /\ \E op \in NextOps :
    \/ Skip(op) \/ Preempt(op) \/ LoadPdi(op) \/ RejectPdi(op) \/ CreateScratchpad(op)
    \/ LoadPm(op) \/ RejectLoadPm(op) \/ RejectUnknown(op)
    \/ PatchPm(op) \/ RejectPm(op) \/ BlockWrite(op) \/ Patch(op) \/ RejectPatch(op)

-----------------------------------------------------------------------------
(***************************************************************************)
(* add_preemption_code and resize_scratchpad.                              *)
(***************************************************************************)
LibSections == {"preempt_save", "preempt_restore"}

FinishUnpreempted ==
  /\ stage = "ctrltext" /\ ops.ctrltext # <<>>
  /\ ~ haspreempt
  /\ stage' = "done"
  /\ UNCHANGED <<input, listed, xrtMap, walk, haspreempt, packetSyms, syms>>

AddPreemptionCode ==
  /\ stage = "ctrltext"
  /\ haspreempt
  /\ cols \in DOMAIN Prebuilt
  /\ Enter("preempt_save")
  /\ UNCHANGED <<input, listed, xrtMap, ops, haspreempt, packetSyms, syms>>

RejectPreempt ==
  /\ stage = "ctrltext"
  /\ haspreempt
  /\ cols \notin DOMAIN Prebuilt
  /\ stage' = "no_preempt_code"
  /\ UNCHANGED <<input, listed, xrtMap, walk, haspreempt, packetSyms, syms>>

Restore ==
  /\ stage = "preempt_save"
  /\ NextOps = {}
  /\ Enter("preempt_restore")
  /\ UNCHANGED <<input, listed, xrtMap, ops, haspreempt, packetSyms, syms>>

SymsOf(section) == {s \in syms : s.section = section}

(* Mutation: what lies in front of a part of the pad is not counted.       *)
NeededWithoutAddend(section) == {0} \cup {s.size : s \in SymsOf(section)}

Needed(section) == {0} \cup {s.size + s.addend : s \in SymsOf(section)}

Largest(S) == CHOOSE n \in S : \A m \in S : m <= n

(* resize_scratchpad: every symbol of the section gets the size that the   *)
(* one that reaches farthest needs.                                        *)
Resized ==
  {IF s.section \in LibSections THEN [s EXCEPT !.size = Largest(Needed(s.section))] ELSE s :
     s \in syms}

Resize ==
  /\ stage = "preempt_restore"
  /\ NextOps = {}
  /\ syms' = Resized
  /\ stage' = "done"
  /\ UNCHANGED <<input, listed, xrtMap, walk, haspreempt, packetSyms>>

-----------------------------------------------------------------------------
set_args ==
  \/ \E buffer \in Buffers : ReadBuffer(buffer) \/ RejectBuffer(buffer)
  \/ \E patch \in Patches : ReadPatch(patch) \/ RejectJsonPatch(patch)
  \/ StartWalk
  \/ WalkOp
  \/ FinishUnpreempted \/ AddPreemptionCode \/ RejectPreempt \/ Restore \/ Resize

(* The "dma" JSON gives its names before any patch is read.                *)
Init ==
  /\ \E i \in Inputs :
       flow = i.flow /\ version = i.version /\ json = i.json /\ cols = i.cols
  /\ dmaIndex \in IF json = "dma" THEN DmaIndices ELSE {4}
  /\ listed = <<>>
  /\ xrtMap = IF json = "dma" THEN DmaNames(dmaIndex) ELSE <<>>
  /\ stage = "json"
  /\ ops = [section \in Sections |-> <<>>]
  /\ regs = <<>>
  /\ loadseq = 0
  /\ pm = [exist |-> FALSE, id |-> 0]
  /\ haspreempt = FALSE
  /\ packetSyms = {} /\ syms = {}

Failed == stage \in Errors

Ended == (stage = "done" \/ Failed) /\ UNCHANGED vars

Next == set_args \/ Ended

Spec == Init /\ [][Next]_vars

-----------------------------------------------------------------------------
(***************************************************************************)
(* Properties.  They look back at the operations met, and use neither the  *)
(* counter nor the map of the walk.                                        *)
(***************************************************************************)
LastLoad(k, n) ==
  /\ ops.ctrltext[k].op = "loadpm"
  /\ \A m \in k + 1 .. n - 1 : ops.ctrltext[m].op # "loadpm"

(* Operation n of the control code is one of those that a LOAD_PM with an  *)
(* image at hand announced as its sequence.                                *)
InSequence(n) ==
  \E k \in 1 .. n - 1 :
    LastLoad(k, n) /\ ops.ctrltext[k].id \in DOMAIN PmSize /\ n <= k + ops.ctrltext[k].count

Covers(op, address) ==
  /\ op.op = "blockwrite"
  /\ \E d \in DOMAIN op.lens : address = <<op.tile, op.word + BD_WORDS * (d - 1)>>

(* Operation m writes the descriptor, for a later patch to refer to.       *)
Writes(section, m, address) ==
  /\ Covers(ops[section][m], address)
  /\ section = "ctrltext" => ~ InSequence(m)

Patchable(word) == {word, word - 1} \cap (ShimBDs \cup MemBDs) # {}

SymsBy(section, n) == {s \in SymsOf(section) : s.by = n}

(* Every patch operation on one of the first two words of a descriptor     *)
(* becomes one symbol, in the payload of the last block write, outside of  *)
(* load sequences, that wrote that descriptor of that tile.                *)
PatchPlaced ==
  ~ Failed =>
    \A section \in Sections : \A n \in DOMAIN ops[section] :
      LET op == ops[section][n]
      IN  (op.op = "patch" /\ Patchable(op.word)) =>
            \E m \in 1 .. n - 1 :
              LET first == Descriptor(op)[2] - ops[section][m].word
              IN  /\ Writes(section, m, Descriptor(op))
                  /\ \A k \in m + 1 .. n - 1 : ~ Writes(section, k, Descriptor(op))
                  /\ Cardinality(SymsBy(section, n)) = 1
                  /\ \A s \in SymsBy(section, n) :
                       s.at[1] = m /\ s.at[2] \in first .. first + 1

(* A PM image is put into exactly the block writes to shim descriptors in  *)
(* its own load sequence.                                                  *)
PmPlaced ==
  ~ Failed =>
    \A n \in DOMAIN ops.ctrltext :
      LET op == ops.ctrltext[n]
          images == {s \in SymsBy("ctrltext", n) : s.name[1] = "pm"}
      IN  (op.op = "blockwrite" /\ op.word \in ShimBDs) =>
            /\ (images # {}) = InSequence(n)
            /\ \A s \in images :
                 \E k \in 1 .. n - 1 : LastLoad(k, n) /\ s.name = <<"pm", ops.ctrltext[k].id>>

(* "Patch opcode found in PM Load Sequence!!!" is said of patches in a     *)
(* load sequence only.                                                     *)
RejectedInSequence == stage = "patch_in_sequence" => InSequence(Len(ops.ctrltext))

(* The runtime allocates one scratch pad for a section: its symbols agree  *)
(* on a size, and it covers every part that a descriptor of the section    *)
(* reaches; descriptors of the control code keep their own length.         *)
ScratchSized ==
  stage = "done" =>
    \A s \in syms :
      (ops[s.section][s.by].op = "patch" /\ s.schema = "shim_dma_48") =>
        LET len == ops[s.section][s.at[1]].lens[s.at[2] \div BD_WORDS + 1]
        IN  IF s.section \in LibSections
            THEN s.addend + len <= s.size /\ \A t \in SymsOf(s.section) : t.size = s.size
            ELSE s.size = len

ByPatch(s) == s.section = "ctrltext" /\ ops.ctrltext[s.by].op = "patch"

(* A buffer address in the control code is that of the control packet      *)
(* exactly when the JSON calls its argument the control packet: by the     *)
(* first buffer with that index, or by ctrl_pkt_xrt_arg_idx.               *)
ControlPacketNamed ==
  \A s \in syms :
    (ByPatch(s) /\ s.schema = "shim_dma_48") =>
      LET arg == ops.ctrltext[s.by].arg
      IN  (s.name = ControlPacket) <=>
            \/ json = "dma" /\ arg = dmaIndex
            \/ /\ json = "external"
               /\ \E n \in DOMAIN listed :
                    /\ listed[n].xrt = arg /\ listed[n].ctrl
                    /\ \A m \in 1 .. n - 1 : listed[m].xrt # arg

(* "to match with kernel argument index in xclbin": the control packet and *)
(* the control code name the same kernel argument alike.                   *)
ArgNamesAgree ==
  \A s \in syms, t \in packetSyms :
    (ByPatch(s) /\ ops.ctrltext[s.by].arg = t.arg /\ s.name # ControlPacket) => s.name = t.name

(* What the runtime is told of a buffer is what the JSON says of it, in    *)
(* the control code as in the control packet.                              *)
ArgumentsNamed == ControlPacketNamed /\ ArgNamesAgree

=============================================================================
