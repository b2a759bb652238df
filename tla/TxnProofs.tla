------------------------------ MODULE TxnProofs ------------------------------
(***************************************************************************)
(* The symbols of a transaction, for every set of operations, images,      *)
(* descriptors and JSON files: where they are put, what they are called    *)
(* and how large they say the buffer is.                                   *)
(*                                                                         *)
(* The walk keeps a counter and a map; the properties look back at the     *)
(* operations met instead.  The invariant says what the counter and the    *)
(* map know of them: the counter is what is left of the sequence of the    *)
(* last LOAD_PM (CountsDown), the map holds the last block write of every  *)
(* descriptor (LastWritten).                                               *)
(***************************************************************************)
EXTENDS TxnPreprocessor, FiniteSetTheorems, WellFoundedInduction, TLAPS

(***************************************************************************)
(* The notions of the properties for any sequence os of operations.        *)
(***************************************************************************)
LastLoadIn(os, k, n) ==
  os[k].op = "loadpm" /\ \A m \in k + 1 .. n - 1 : os[m].op # "loadpm"

Announced(os, n) ==
  \E k \in 1 .. n - 1 :
    LastLoadIn(os, k, n) /\ os[k].id \in DOMAIN PmSize /\ n <= k + os[k].count

WritesIn(section, os, m, a) ==
  Covers(os[m], a) /\ (section = "ctrltext" => ~ Announced(os, m))

LastWriter(section, os, m, n, a) ==
  /\ m \in 1 .. n - 1 /\ WritesIn(section, os, m, a)
  /\ \A k \in m + 1 .. n - 1 : ~ WritesIn(section, os, k, a)

By(ss, section, n) == {s \in ss : s.section = section /\ s.by = n}

(* Operation n and the symbols ss: a patch of a descriptor is one symbol   *)
(* at its last writer.                                                     *)
PlacedIn(section, os, ss, n) ==
  (os[n].op = "patch" /\ Patchable(os[n].word)) =>
    \E m \in 1 .. n - 1 :
      /\ LastWriter(section, os, m, n, Descriptor(os[n]))
      /\ \E s : By(ss, section, n) = {s}
      /\ \A s \in By(ss, section, n) :
           /\ s.at[1] = m
           /\ s.at[2] \in Descriptor(os[n])[2] - os[m].word .. Descriptor(os[n])[2] - os[m].word + 1

Images(ss, n) == {s \in By(ss, "ctrltext", n) : s.name[1] = "pm"}

ImageIn(os, ss, n) ==
  (os[n].op = "blockwrite" /\ os[n].word \in ShimBDs) =>
    /\ Images(ss, n) # {} <=> Announced(os, n)
    /\ \A s \in Images(ss, n) :
         \E k \in 1 .. n - 1 : LastLoadIn(os, k, n) /\ s.name = <<"pm", os[k].id>>

-----------------------------------------------------------------------------
(***************************************************************************)
(* The invariant.                                                          *)
(***************************************************************************)
AllOps == (UNION {Ops[c] : c \in DOMAIN Ops}) \cup PrebuiltOps

IsSym(s) ==
  /\ s = [section |-> s.section, name |-> s.name, at |-> s.at, by |-> s.by,
          addend |-> s.addend, size |-> s.size, schema |-> s.schema]
  /\ s.section \in Sections /\ s.addend \in Nat /\ s.size \in Nat
  /\ s.by \in DOMAIN ops[s.section]

TxnTypeOK ==
  /\ stage \in Sections \cup Errors \cup {"json", "done"}
  /\ cols \in DOMAIN Ops /\ (stage \in LibSections => cols \in DOMAIN Prebuilt)
  /\ ops \in [Sections -> Seq(AllOps)]
  /\ loadseq \in Nat
  /\ \A s \in syms : IsSym(s)
  /\ \E bound \in Nat : \A s \in syms : s.size + s.addend <= bound

(* What is entered later has not been walked.                              *)
InOrder ==
  /\ stage = "json" => ops.ctrltext = <<>> /\ syms = {}
  /\ stage \in {"json", "ctrltext"} => ops.preempt_save = <<>> /\ ops.preempt_restore = <<>>
  /\ stage = "preempt_save" => ops.preempt_restore = <<>>
  /\ \A n \in DOMAIN ops.preempt_save : ops.preempt_save[n].op # "loadpm"
  /\ \A n \in DOMAIN ops.preempt_restore : ops.preempt_restore[n].op # "loadpm"

CountsTo(os, c, p) ==
  \/ c = 0 /\ \A m \in DOMAIN os : os[m].op # "loadpm"
  \/ \E k \in DOMAIN os :
       /\ LastLoadIn(os, k, Len(os) + 1)
       /\ p.id = os[k].id /\ (p.exist <=> os[k].id \in DOMAIN PmSize)
       /\ c > 0 => c = k + os[k].count - Len(os)
       /\ c = 0 => k + os[k].count <= Len(os)

CountsDown ==
  /\ stage = "ctrltext" /\ version = "plain" => CountsTo(ops.ctrltext, loadseq, pm)
  /\ stage \in LibSections => loadseq = 0

(* An entry of the map is the place of a descriptor and its length, as the *)
(* block write m has them.                                                 *)
EntryOf(os, m, a) ==
  [at |-> <<m, a[2] - os[m].word>>, len |-> os[m].lens[(a[2] - os[m].word) \div BD_WORDS + 1]]

FromWrites ==
  stage \in Sections =>
    \A a \in DOMAIN regs :
      \E m \in DOMAIN ops[stage] : Covers(ops[stage][m], a) /\ regs[a] = EntryOf(ops[stage], m, a)

Counts(section) == section = "ctrltext" => version = "plain"

LastWritten ==
  (stage \in Sections /\ Counts(stage)) =>
    \A a \in DOMAIN regs :
      \E m \in DOMAIN ops[stage] :
        /\ LastWriter(stage, ops[stage], m, Len(ops[stage]) + 1, a)
        /\ regs[a] = EntryOf(ops[stage], m, a)

AllPlaced ==
  ~ Failed => \A section \in Sections : Counts(section) =>
                \A n \in DOMAIN ops[section] : PlacedIn(section, ops[section], syms, n)

ImagesPlaced ==
  ~ Failed /\ version = "plain" =>
    \A n \in DOMAIN ops.ctrltext : ImageIn(ops.ctrltext, syms, n)

Sequenced ==
  stage = "patch_in_sequence" /\ version = "plain" =>
    Announced(ops.ctrltext, Len(ops.ctrltext))

LengthAt(s) == ops[s.section][s.at[1]].lens[s.at[2] \div BD_WORDS + 1]

ForBuffer(s) == ops[s.section][s.by].op = "patch" /\ s.schema = "shim_dma_48"

Measured ==
  /\ ~ Failed => \A s \in syms : ForBuffer(s) => s.at[1] \in DOMAIN ops[s.section]
  /\ stage \in Sections => \A s \in syms : ForBuffer(s) => s.size = LengthAt(s)
  /\ ScratchSized

NameOf(buffer) == IF buffer.ctrl THEN ControlPacket ELSE Arg(buffer.xrt + arg_offset)

FirstListed(n) == \A m \in 1 .. n - 1 : listed[m].xrt # listed[n].xrt

MapRight ==
  /\ listed \in Seq(Buffers \cup Patches)
  /\ json = "dma" => xrtMap = DmaNames(dmaIndex)
  /\ json = "external" =>
       /\ DOMAIN xrtMap = {listed[n].xrt : n \in DOMAIN listed}
       /\ \A n \in DOMAIN listed : FirstListed(n) => xrtMap[listed[n].xrt] = NameOf(listed[n])
  /\ json \notin {"dma", "external"} => DOMAIN xrtMap = {}
  /\ \A t \in packetSyms : t.name = Arg(t.arg + arg_offset)

Named ==
  \A s \in syms : ByPatch(s) =>
    LET arg == ops.ctrltext[s.by].arg
    IN  s.name = IF s.schema = "shim_dma_48" THEN ShimName(<<>>, arg) ELSE Arg(arg + arg_offset)

TxnInv ==
  /\ TxnTypeOK /\ InOrder /\ CountsDown /\ FromWrites /\ LastWritten
  /\ AllPlaced /\ ImagesPlaced /\ Sequenced /\ Measured /\ MapRight /\ Named

-----------------------------------------------------------------------------
(***************************************************************************)
(* One operation more: nothing changes for those before it.                *)
(***************************************************************************)
LEMMA OneMore ==
  ASSUME NEW S, NEW os \in Seq(S), NEW op \in S
  PROVE  /\ Append(os, op) \in Seq(S)
         /\ Len(os) \in Nat /\ DOMAIN os = 1 .. Len(os)
         /\ Len(Append(os, op)) = Len(os) + 1
         /\ DOMAIN Append(os, op) = 1 .. Len(os) + 1
         /\ \A n \in 1 .. Len(os) : Append(os, op)[n] = os[n]
         /\ Append(os, op)[Len(os) + 1] = op
OBVIOUS

LEMMA LastLoadAppend ==
  ASSUME NEW S, NEW os \in Seq(S), NEW op \in S,
         NEW n \in 1 .. Len(os) + 1, NEW k \in 1 .. n - 1
  PROVE  /\ Append(os, op)[k] = os[k]
         /\ LastLoadIn(Append(os, op), k, n) <=> LastLoadIn(os, k, n)
<1>1. k \in 1 .. Len(os) /\ \A m \in k + 1 .. n - 1 : m \in 1 .. Len(os)
  BY OneMore
<1>2. Append(os, op)[k] = os[k] /\ \A m \in k + 1 .. n - 1 : Append(os, op)[m] = os[m]
  BY <1>1, OneMore
<1>3. QED
  BY <1>2 DEF LastLoadIn

LEMMA AnnouncedAppend ==
  ASSUME NEW S, NEW os \in Seq(S), NEW op \in S, NEW n \in 1 .. Len(os) + 1
  PROVE  Announced(Append(os, op), n) <=> Announced(os, n)
BY LastLoadAppend DEF Announced

LEMMA WritesAppend ==
  ASSUME NEW S, NEW os \in Seq(S), NEW op \in S, NEW section, NEW a,
         NEW m \in 1 .. Len(os)
  PROVE  WritesIn(section, Append(os, op), m, a) <=> WritesIn(section, os, m, a)
<1>1. Append(os, op)[m] = os[m] /\ m \in 1 .. Len(os) + 1
  BY OneMore
<1>2. QED
  BY <1>1, AnnouncedAppend DEF WritesIn

LEMMA WritesNew ==
  ASSUME NEW S, NEW os \in Seq(S), NEW op \in S, NEW section, NEW a
  PROVE  WritesIn(section, Append(os, op), Len(os) + 1, a) <=>
           (Covers(op, a) /\ (section = "ctrltext" => ~ Announced(os, Len(os) + 1)))
<1>1. Append(os, op)[Len(os) + 1] = op /\ Len(os) + 1 \in 1 .. Len(os) + 1
  BY OneMore
<1>2. QED
  BY <1>1, AnnouncedAppend DEF WritesIn

LEMMA LastWriterAppend ==
  ASSUME NEW S, NEW os \in Seq(S), NEW op \in S, NEW section, NEW a,
         NEW n \in 1 .. Len(os) + 1, NEW m \in 1 .. n - 1
  PROVE  LastWriter(section, Append(os, op), m, n, a) <=> LastWriter(section, os, m, n, a)
<1>1. m \in 1 .. Len(os) /\ \A k \in m + 1 .. n - 1 : k \in 1 .. Len(os)
  BY OneMore
<1>2. QED
  BY <1>1, WritesAppend DEF LastWriter

LEMMA PlacedAppend ==
  ASSUME NEW S, NEW os \in Seq(S), NEW op \in S, NEW section, NEW ss, NEW tt,
         NEW n \in 1 .. Len(os), By(tt, section, n) = By(ss, section, n),
         PlacedIn(section, os, ss, n)
  PROVE  PlacedIn(section, Append(os, op), tt, n)
<1>1. Append(os, op)[n] = os[n] /\ n \in 1 .. Len(os) + 1
  BY OneMore
<1>2. \A m \in 1 .. n - 1 : Append(os, op)[m] = os[m]
  BY OneMore
<1>3. \A m \in 1 .. n - 1 :
        LastWriter(section, os, m, n, Descriptor(os[n])) =>
          LastWriter(section, Append(os, op), m, n, Descriptor(os[n]))
  BY <1>1, LastWriterAppend
<1>4. QED
  BY <1>1, <1>2, <1>3 DEF PlacedIn

LEMMA ImageAppend ==
  ASSUME NEW S, NEW os \in Seq(S), NEW op \in S, NEW ss, NEW tt,
         NEW n \in 1 .. Len(os), By(tt, "ctrltext", n) = By(ss, "ctrltext", n),
         ImageIn(os, ss, n)
  PROVE  ImageIn(Append(os, op), tt, n)
<1>1. Append(os, op)[n] = os[n] /\ n \in 1 .. Len(os) + 1
  BY OneMore
<1>2. \A k \in 1 .. n - 1 :
        /\ Append(os, op)[k] = os[k]
        /\ LastLoadIn(Append(os, op), k, n) <=> LastLoadIn(os, k, n)
  BY <1>1, LastLoadAppend
<1>3. Announced(Append(os, op), n) <=> Announced(os, n)
  BY <1>1, AnnouncedAppend
<1>4. Images(tt, n) = Images(ss, n)
  BY DEF Images
<1>5. QED
  BY <1>1, <1>2, <1>3, <1>4 DEF ImageIn

-----------------------------------------------------------------------------
(***************************************************************************)
(* The counter.                                                            *)
(***************************************************************************)
(* What the counter says of the next operation.                            *)
LEMMA CounterTells ==
  ASSUME NEW os \in Seq(AllOps), NEW c \in Nat, NEW p, CountsTo(os, c, p),
         \A op \in AllOps : WellFormed(op)
  PROVE  /\ (c > 0 /\ p.exist) <=> Announced(os, Len(os) + 1)
         /\ c > 0 => \E k \in 1 .. Len(os) : LastLoadIn(os, k, Len(os) + 1) /\ p.id = os[k].id
<1>1. Len(os) \in Nat /\ DOMAIN os = 1 .. Len(os) /\ Len(os) + 1 - 1 = Len(os)
  OBVIOUS
<1>2. CASE c = 0 /\ \A m \in DOMAIN os : os[m].op # "loadpm"
  <2>1. ~ Announced(os, Len(os) + 1)
    BY <1>1, <1>2 DEF Announced, LastLoadIn
  <2>2. QED
    BY <1>2, <2>1
<1>3. ASSUME NEW k \in DOMAIN os, LastLoadIn(os, k, Len(os) + 1),
             p.id = os[k].id, p.exist <=> os[k].id \in DOMAIN PmSize,
             c > 0 => c = k + os[k].count - Len(os),
             c = 0 => k + os[k].count <= Len(os)
      PROVE  /\ (c > 0 /\ p.exist) <=> Announced(os, Len(os) + 1)
             /\ c > 0 => \E l \in 1 .. Len(os) :
                           LastLoadIn(os, l, Len(os) + 1) /\ p.id = os[l].id
  <2>1. os[k].count \in Nat /\ k \in 1 .. Len(os)
    BY <1>1, <1>3 DEF LastLoadIn, WellFormed
  <2>2. ASSUME NEW l \in 1 .. Len(os), LastLoadIn(os, l, Len(os) + 1)
        PROVE  l = k
    <3>1. ~ l < k
      <4>1. l < k => k \in l + 1 .. Len(os)
        BY <1>1, <2>1
      <4>2. QED
        BY <1>1, <1>3, <2>2, <4>1 DEF LastLoadIn
    <3>2. ~ k < l
      <4>1. k < l => l \in k + 1 .. Len(os)
        BY <1>1, <2>1
      <4>2. QED
        BY <1>1, <1>3, <2>2, <4>1 DEF LastLoadIn
    <3>3. QED
      BY <1>1, <2>1, <3>1, <3>2
  <2>3. c > 0 <=> Len(os) + 1 <= k + os[k].count
    BY <1>1, <1>3, <2>1
  <2>4. Announced(os, Len(os) + 1) <=>
          (os[k].id \in DOMAIN PmSize /\ Len(os) + 1 <= k + os[k].count)
    BY <1>1, <1>3, <2>1, <2>2 DEF Announced
  <2>5. (c > 0 /\ p.exist) <=> Announced(os, Len(os) + 1)
    BY <1>3, <2>3, <2>4
  <2>6. QED
    BY <1>3, <2>1, <2>5
<1>4. QED
  BY <1>2, <1>3 DEF CountsTo

(* An operation that is no LOAD_PM is counted.                             *)
LEMMA CountedOn ==
  ASSUME NEW os \in Seq(AllOps), NEW op \in AllOps, NEW c \in Nat, NEW p,
         CountsTo(os, c, p), op.op # "loadpm", \A x \in AllOps : WellFormed(x),
         NEW d, d = IF c > 0 THEN c - 1 ELSE c
  PROVE  CountsTo(Append(os, op), d, p)
<1> DEFINE ps == Append(os, op)
<1>1. /\ Len(os) \in Nat /\ DOMAIN os = 1 .. Len(os) /\ Len(ps) = Len(os) + 1
      /\ DOMAIN ps = 1 .. Len(os) + 1 /\ ps[Len(os) + 1] = op
      /\ \A n \in 1 .. Len(os) : ps[n] = os[n]
  BY OneMore
<1> HIDE DEF ps
<1>2. \A m \in 1 .. Len(os) + 1 : m \in 1 .. Len(os) \/ m = Len(os) + 1
  BY <1>1
<1>3. CASE c = 0 /\ \A m \in DOMAIN os : os[m].op # "loadpm"
  <2>1. \A m \in DOMAIN ps : ps[m].op # "loadpm"
    BY <1>1, <1>2, <1>3
  <2>2. QED
    BY <1>3, <2>1 DEF CountsTo, ps
<1>4. ASSUME NEW k \in DOMAIN os, LastLoadIn(os, k, Len(os) + 1),
             p.id = os[k].id, p.exist <=> os[k].id \in DOMAIN PmSize,
             c > 0 => c = k + os[k].count - Len(os),
             c = 0 => k + os[k].count <= Len(os)
      PROVE  CountsTo(ps, d, p)
  <2>1. ps[k] = os[k] /\ k \in DOMAIN ps /\ os[k].count \in Nat
    BY <1>1, <1>4 DEF LastLoadIn, WellFormed
  <2>2. LastLoadIn(ps, k, Len(ps) + 1)
    <3>1. \A m \in k + 1 .. Len(ps) + 1 - 1 : m \in k + 1 .. Len(os) + 1 - 1 \/ m = Len(os) + 1
      BY <1>1, <2>1
    <3>2. \A m \in k + 1 .. Len(os) + 1 - 1 : ps[m] = os[m]
      BY <1>1, <1>4
    <3>3. QED
      BY <1>1, <1>4, <2>1, <3>1, <3>2 DEF LastLoadIn
  <2>3. d > 0 => d = k + os[k].count - Len(ps)
    BY <1>1, <1>4, <2>1
  <2>4. d = 0 => k + os[k].count <= Len(ps)
    BY <1>1, <1>4, <2>1
  <2>5. QED
    BY <1>4, <2>1, <2>2, <2>3, <2>4 DEF CountsTo
<1>5. QED
  BY <1>3, <1>4 DEF CountsTo, ps

(* A LOAD_PM begins a sequence of its own.                                 *)
LEMMA CountStarts ==
  ASSUME NEW os \in Seq(AllOps), NEW op \in AllOps, op.op = "loadpm",
         op.count \in Nat, NEW p, p.id = op.id, p.exist <=> op.id \in DOMAIN PmSize
  PROVE  CountsTo(Append(os, op), op.count, p)
<1> DEFINE ps == Append(os, op)
<1>1. /\ Len(os) \in Nat /\ Len(ps) = Len(os) + 1
      /\ DOMAIN ps = 1 .. Len(os) + 1 /\ ps[Len(os) + 1] = op
  BY OneMore
<1> HIDE DEF ps
<1>2. Len(ps) \in DOMAIN ps /\ ps[Len(ps)] = op
  BY <1>1
<1>3. LastLoadIn(ps, Len(ps), Len(ps) + 1)
  <2>1. \A m \in Len(ps) + 1 .. Len(ps) + 1 - 1 : FALSE
    BY <1>1
  <2>2. QED
    BY <1>2, <2>1 DEF LastLoadIn
<1>4. op.count = Len(ps) + op.count - Len(ps) /\ (op.count = 0 => Len(ps) + op.count <= Len(ps))
  BY <1>1
<1>5. CountsTo(ps, op.count, p)
  BY <1>2, <1>3, <1>4 DEF CountsTo
<1>6. QED
  BY <1>5 DEF ps

-----------------------------------------------------------------------------
(***************************************************************************)
(* The symbols of one operation.                                           *)
(***************************************************************************)
FreshSym(s) ==
  /\ s = [section |-> s.section, name |-> s.name, at |-> s.at, by |-> s.by,
          addend |-> s.addend, size |-> s.size, schema |-> s.schema]
  /\ s.section = stage /\ s.by = Here /\ s.addend \in Nat /\ s.size \in Nat

ScalerSym(arg, at, addend, w) ==
  [section |-> stage, name |-> Arg(arg + arg_offset), at |-> <<at[1], at[2] + w>>,
   by |-> Here, addend |-> addend, size |-> SCALER_MASK, schema |-> "scaler_32"]

DmaSym(given, arg, at, addend, size) ==
  [section |-> stage, name |-> ShimName(given, arg), at |-> at,
   by |-> Here, addend |-> addend, size |-> size, schema |-> "shim_dma_48"]

(* patch_helper makes one symbol for a word it patches, and none otherwise.*)
LEMMA PatchSymsAre ==
  ASSUME NEW given, NEW word \in Nat, NEW arg, NEW at, NEW addend, NEW size
  PROVE  LET new == PatchSyms(given, word, arg, at, addend, size)
         IN  /\ \/ new = {}
                \/ \E w \in {0, 1} : new = {ScalerSym(arg, at, addend, w)}
                \/ new = {DmaSym(given, arg, at, addend, size)}
             /\ Patchable(word) => new # {}
             /\ word - 1 \in ShimBDs => new = {DmaSym(given, arg, at, addend, size)}
<1> DEFINE new == PatchSyms(given, word, arg, at, addend, size)
           scaler(w) == ScalerSym(arg, at, addend, w)
           dma == DmaSym(given, arg, at, addend, size)
<1>1. new = CASE word \in MemBDs      -> {scaler(0)}
              [] word - 1 \in MemBDs  -> {scaler(1)}
              [] word \in ShimBDs     -> {scaler(0)}
              [] word - 1 \in ShimBDs -> {dma}
              [] OTHER                -> {}
  BY DEF PatchSyms, ScalerSym, DmaSym
<1>2. /\ word - 1 \in ShimBDs => word \notin MemBDs /\ word - 1 \notin MemBDs /\ word \notin ShimBDs
      /\ word - 1 \in MemBDs => word \notin MemBDs /\ word \notin ShimBDs /\ word - 1 \notin ShimBDs
      /\ word \in MemBDs => word \notin ShimBDs /\ word - 1 \notin ShimBDs /\ word - 1 \notin MemBDs
      /\ word \in ShimBDs => word \notin MemBDs /\ word - 1 \notin ShimBDs /\ word - 1 \notin MemBDs
  <2>1. \A b \in ShimBDs \cup MemBDs : b \in Nat /\ b % 8 = 0
    BY TxnAssumption DEF BD_WORDS
  <2>2. ~ (word % 8 = 0 /\ (word - 1) % 8 = 0)
    OBVIOUS
  <2>3. ShimBDs \cap MemBDs = {}
    BY TxnAssumption
  <2>4. QED
    BY <2>1, <2>2, <2>3
<1>3. Patchable(word) => \/ word \in MemBDs \/ word - 1 \in MemBDs
                         \/ word \in ShimBDs \/ word - 1 \in ShimBDs
  BY DEF Patchable
<1> HIDE DEF new, scaler, dma
<1>4. CASE word \in MemBDs
  <2>1. new = {scaler(0)}
    BY <1>1, <1>2, <1>4
  <2>2. QED
    BY <1>2, <1>4, <2>1 DEF new, scaler
<1>5. CASE word - 1 \in MemBDs
  <2>1. new = {scaler(1)}
    BY <1>1, <1>2, <1>5
  <2>2. QED
    BY <1>2, <1>5, <2>1 DEF new, scaler
<1>6. CASE word \in ShimBDs
  <2>1. new = {scaler(0)}
    BY <1>1, <1>2, <1>6
  <2>2. QED
    BY <1>2, <1>6, <2>1 DEF new, scaler
<1>7. CASE word - 1 \in ShimBDs
  <2>1. new = {dma}
    BY <1>1, <1>2, <1>7
  <2>2. QED
    BY <1>2, <1>7, <2>1 DEF new, dma
<1>8. CASE word \notin MemBDs /\ word - 1 \notin MemBDs /\ word \notin ShimBDs /\ word - 1 \notin ShimBDs
  <2>1. new = {}
    BY <1>1, <1>8
  <2>2. QED
    BY <1>3, <1>8, <2>1 DEF new
<1>9. QED
  BY <1>4, <1>5, <1>6, <1>7, <1>8

LEMMA PatchSymsOne ==
  ASSUME NEW given, NEW word \in Nat, NEW arg, NEW at, NEW addend, NEW size
  PROVE  \E s : PatchSyms(given, word, arg, at, addend, size) \subseteq {s}
<1> DEFINE new == PatchSyms(given, word, arg, at, addend, size)
<1>1. \/ new = {}
      \/ \E w \in {0, 1} : new = {ScalerSym(arg, at, addend, w)}
      \/ new = {DmaSym(given, arg, at, addend, size)}
  BY PatchSymsAre
<1> HIDE DEF new
<1>2. \E s : new \subseteq {s}
  BY <1>1
<1>3. QED
  BY <1>2 DEF new

LEMMA PatchSymsFresh ==
  ASSUME NEW given, NEW word \in Nat, NEW arg, NEW at, NEW addend \in Nat, NEW size \in Nat
  PROVE  \A s \in PatchSyms(given, word, arg, at, addend, size) : FreshSym(s)
<1>1. ASSUME NEW w \in {0, 1}
      PROVE  FreshSym(ScalerSym(arg, at, addend, w))
  BY DEF FreshSym, ScalerSym, SCALER_MASK
<1>2. FreshSym(DmaSym(given, arg, at, addend, size))
  BY DEF FreshSym, DmaSym
<1>3. QED
  BY <1>1, <1>2, PatchSymsAre

-----------------------------------------------------------------------------
(***************************************************************************)
(* What a step of the walk does with operation op and its new symbols.     *)
(***************************************************************************)
Grows(op, new) ==
  /\ ops' = [ops EXCEPT ![stage] = Append(@, op)]
  /\ UNCHANGED <<input, listed, xrtMap, stage, packetSyms>>
  /\ syms' = syms \cup new
  /\ (\A s \in new : FreshSym(s)) /\ \E s : new \subseteq {s}

PassesBy(op) ==
  /\ op.op \notin {"blockwrite", "patch", "loadpm"}
  /\ loadseq' = Counted(loadseq) /\ regs' = regs /\ pm' = pm

Loads(op, new) ==
  /\ op.op = "loadpm" /\ new = {} /\ regs' = regs
  /\ loadseq' = Counted(op.count + 1)
  /\ pm' = [exist |-> op.id \in DOMAIN PmSize, id |-> op.id]

Fetches(op, new) ==
  /\ op.op = "blockwrite" /\ InLoadSequence
  /\ new = PatchSyms(<<"pm", pm.id>>, op.word + 1, -arg_offset, <<Here, 0>>, 0, op.lens[1])
  /\ loadseq' = Counted(loadseq) /\ regs' = regs /\ pm' = pm

Records(op, new) ==
  /\ op.op = "blockwrite" /\ ~ InLoadSequence /\ new = {}
  /\ regs' = Recorded(op)
  /\ loadseq' = Counted(loadseq) /\ pm' = pm

Resolves(op, new) ==
  /\ op.op = "patch" /\ ~ InLoadSequence /\ Descriptor(op) \in DOMAIN regs
  /\ new = PatchSyms(ArgName, op.word, op.arg, regs[Descriptor(op)].at,
                     op.plus, regs[Descriptor(op)].len)
  /\ loadseq' = Counted(loadseq) /\ regs' = regs /\ pm' = pm

Walks(op, new) ==
  /\ Grows(op, new)
  /\ PassesBy(op) \/ Loads(op, new) \/ Fetches(op, new) \/ Records(op, new) \/ Resolves(op, new)

Rejects(op) ==
  /\ ops' = [ops EXCEPT ![stage] = Append(@, op)]
  /\ stage' \in Errors
  /\ stage' = "patch_in_sequence" => InLoadSequence
  /\ UNCHANGED <<input, listed, xrtMap, regs, loadseq, pm, haspreempt, packetSyms, syms>>

LEMMA OpsWellFormed ==
  /\ \A op \in AllOps : WellFormed(op)
  /\ \A op \in PrebuiltOps : op \in AllOps /\ op.op # "loadpm"
BY TxnAssumption DEF AllOps

(* Which descriptor of a block write an address is, and its length.        *)
LEMMA CoversOne ==
  ASSUME NEW op \in AllOps, NEW a, Covers(op, a)
  PROVE  /\ a[2] - op.word \in Nat
         /\ (a[2] - op.word) \div BD_WORDS + 1 \in DOMAIN op.lens
         /\ op.lens[(a[2] - op.word) \div BD_WORDS + 1] \in Nat
<1>1. op.word \in Nat /\ op.lens \in Seq(Nat) /\ DOMAIN op.lens = 1 .. Len(op.lens)
  BY OpsWellFormed DEF Covers, WellFormed
<1>2. PICK d \in DOMAIN op.lens : a = <<op.tile, op.word + BD_WORDS * (d - 1)>>
  BY DEF Covers
<1>3. a[2] = op.word + 8 * (d - 1)
  BY <1>2 DEF BD_WORDS
<1>4. d \in Nat /\ d >= 1 /\ op.lens[d] \in Nat
  BY <1>1, <1>2
<1>5. a[2] - op.word = 8 * (d - 1)
  BY <1>1, <1>3, <1>4
<1>6. (8 * (d - 1)) \div 8 + 1 = d
  BY <1>4
<1>7. QED
  BY <1>2, <1>4, <1>5, <1>6 DEF BD_WORDS

LEMMA NextOpsKnown ==
  ASSUME TxnTypeOK, stage \in Sections, NEW op \in NextOps
  PROVE  op \in AllOps /\ (stage \in LibSections => op.op # "loadpm")
<1>1. CASE stage = "ctrltext"
  <2>1. op \in Ops[cols] /\ cols \in DOMAIN Ops
    BY <1>1 DEF NextOps, TxnTypeOK
  <2>2. QED
    BY <1>1, <2>1 DEF AllOps, LibSections
<1>2. CASE stage # "ctrltext"
  <2>1. stage \in LibSections /\ cols \in DOMAIN Prebuilt
    BY <1>2 DEF Sections, LibSections, TxnTypeOK
  <2>2. PICK n \in DOMAIN LibCode : op = LibCode[n]
    BY <1>2 DEF NextOps
  <2>3. LibCode \in {Prebuilt[cols].save, Prebuilt[cols].restore}
    BY DEF LibCode
  <2>4. op \in Entries(Prebuilt[cols].save) \cup Entries(Prebuilt[cols].restore)
    BY <2>2, <2>3 DEF Entries
  <2>5. op \in PrebuiltOps
    BY <2>1, <2>4 DEF PrebuiltOps
  <2>6. QED
    BY <2>5, OpsWellFormed
<1>3. QED
  BY <1>1, <1>2

LEMMA SymIsFresh ==
  ASSUME NEW name, NEW word, NEW addend \in Nat, NEW size \in Nat, NEW schema
  PROVE  FreshSym(Sym(name, word, addend, size, schema))
BY DEF FreshSym, Sym

LEMMA WalkKinds ==
  ASSUME TxnTypeOK, FromWrites, WalkOp
  PROVE  /\ stage \in Sections
         /\ \E op \in AllOps :
              /\ stage \in LibSections => op.op # "loadpm"
              /\ Rejects(op) \/ \E new : Walks(op, new)
<1>1. stage \in Sections
  BY DEF WalkOp, Walking
<1>2. PICK op \in NextOps :
        \/ Skip(op) \/ Preempt(op) \/ LoadPdi(op) \/ RejectPdi(op) \/ CreateScratchpad(op)
        \/ LoadPm(op) \/ RejectLoadPm(op) \/ RejectUnknown(op)
        \/ PatchPm(op) \/ RejectPm(op) \/ BlockWrite(op) \/ Patch(op) \/ RejectPatch(op)
  BY DEF WalkOp
<1>3. op \in AllOps /\ (stage \in LibSections => op.op # "loadpm") /\ WellFormed(op)
  BY <1>1, NextOpsKnown, OpsWellFormed
<1>4. CASE RejectPdi(op) \/ RejectLoadPm(op) \/ RejectUnknown(op) \/ RejectPm(op) \/ RejectPatch(op)
  <2>1. Rejects(op)
    BY <1>4 DEF RejectPdi, RejectLoadPm, RejectUnknown, RejectPm, RejectPatch, Reject, Rejects, Errors
  <2>2. QED
    BY <1>1, <1>3, <2>1
<1>5. CASE Skip(op) \/ Preempt(op)
  <2>1. Grows(op, {}) /\ PassesBy(op)
    BY <1>5 DEF Skip, Preempt, Walked, Grows, PassesBy
  <2>2. QED
    BY <1>1, <1>3, <2>1 DEF Walks
<1>6. CASE LoadPdi(op)
  <2> DEFINE new == {Sym(<<"pdi", op.id>>, 0, 0, 0, "address_64")}
  <2>1. \A s \in new : FreshSym(s)
    BY SymIsFresh
  <2>2. Grows(op, new) /\ PassesBy(op)
    BY <1>6, <2>1 DEF LoadPdi, Walked, Grows, PassesBy
  <2>3. QED
    BY <1>1, <1>3, <2>2 DEF Walks
<1>7. CASE CreateScratchpad(op)
  <2> DEFINE new == {Sym(<<"scratch-pad-ctrl">>, 0, 0, op.size, "address_64")}
  <2>1. op.size \in Nat
    BY <1>3, <1>7 DEF CreateScratchpad, WellFormed
  <2>2. \A s \in new : FreshSym(s)
    BY <2>1, SymIsFresh
  <2>3. Grows(op, new) /\ PassesBy(op)
    BY <1>7, <2>2 DEF CreateScratchpad, Walked, Grows, PassesBy
  <2>4. QED
    BY <1>1, <1>3, <2>3 DEF Walks
<1>8. CASE LoadPm(op)
  <2>1. Grows(op, {}) /\ Loads(op, {})
    BY <1>8 DEF LoadPm, Walked, Grows, Loads
  <2>2. QED
    BY <1>1, <1>3, <2>1 DEF Walks
<1>9. CASE PatchPm(op)
  <2> DEFINE new == PatchSyms(<<"pm", pm.id>>, op.word + 1, -arg_offset, <<Here, 0>>, 0, op.lens[1])
  <2>1. op.word + 1 \in Nat /\ op.lens[1] \in Nat
    BY <1>3, <1>9 DEF PatchPm, WellFormed
  <2>2. (\A s \in new : FreshSym(s)) /\ \E s : new \subseteq {s}
    BY <2>1, PatchSymsFresh, PatchSymsOne
  <2>3. Grows(op, new) /\ Fetches(op, new)
    BY <1>9, <2>2 DEF PatchPm, Walked, Grows, Fetches
  <2>4. QED
    BY <1>1, <1>3, <2>3 DEF Walks
<1>10. CASE BlockWrite(op)
  <2>1. Grows(op, {}) /\ Records(op, {})
    BY <1>10 DEF BlockWrite, Walked, Grows, Records
  <2>2. QED
    BY <1>1, <1>3, <2>1 DEF Walks
<1>11. CASE Patch(op)
  <2> DEFINE bd == regs[Descriptor(op)]
             new == PatchSyms(ArgName, op.word, op.arg, bd.at, op.plus, bd.len)
  <2>1. op.word \in Nat /\ op.plus \in Nat
    BY <1>3, <1>11 DEF Patch, WellFormed
  <2>2. bd.len \in Nat
    <3>1. PICK m \in DOMAIN ops[stage] :
            Covers(ops[stage][m], Descriptor(op)) /\ bd = EntryOf(ops[stage], m, Descriptor(op))
      BY <1>1, <1>11 DEF Patch, FromWrites
    <3>2. ops[stage][m] \in AllOps
      BY <1>1 DEF TxnTypeOK
    <3>3. QED
      BY <3>1, <3>2, CoversOne DEF EntryOf
  <2>3. (\A s \in new : FreshSym(s)) /\ \E s : new \subseteq {s}
    BY <2>1, <2>2, PatchSymsFresh, PatchSymsOne
  <2>4. Grows(op, new) /\ Resolves(op, new)
    BY <1>11, <2>3 DEF Patch, Walked, Grows, Resolves
  <2>5. QED
    BY <1>1, <1>3, <2>4 DEF Walks
<1>12. QED
  BY <1>2, <1>4, <1>5, <1>6, <1>7, <1>8, <1>9, <1>10, <1>11

-----------------------------------------------------------------------------
(***************************************************************************)
(* The walk keeps the invariant, part by part.                             *)
(***************************************************************************)
LEMMA GrowFacts ==
  ASSUME TxnTypeOK, stage \in Sections, NEW op \in AllOps, NEW new, Grows(op, new)
  PROVE  /\ stage' = stage /\ ~ Failed /\ ~ Failed' /\ stage \notin {"json", "done"}
         /\ ops[stage] \in Seq(AllOps) /\ ops' \in [Sections -> Seq(AllOps)]
         /\ ops'[stage] = Append(ops[stage], op)
         /\ Here = Len(ops[stage]) + 1 /\ Here \in DOMAIN ops'[stage]
         /\ \A section \in Sections : section # stage => ops'[section] = ops[section]
         /\ \A section \in Sections : \A n \in DOMAIN ops[section] :
              /\ n \in DOMAIN ops'[section] /\ ops'[section][n] = ops[section][n]
              /\ By(syms', section, n) = By(syms, section, n)
         /\ By(syms', stage, Here) = new
<1>1. /\ ops \in [Sections -> Seq(AllOps)] /\ ops[stage] \in Seq(AllOps)
      /\ \A s \in syms : IsSym(s)
  BY DEF TxnTypeOK
<1>2. stage' = stage /\ ops' = [ops EXCEPT ![stage] = Append(ops[stage], op)] /\ syms' = syms \cup new
  BY DEF Grows
<1>3. /\ ops'[stage] = Append(ops[stage], op)
      /\ \A section \in Sections : section # stage => ops'[section] = ops[section]
  BY <1>1, <1>2
<1>4. ops' \in [Sections -> Seq(AllOps)]
  BY <1>1, <1>2
<1>5. Here = Len(ops[stage]) + 1 /\ DOMAIN ops'[stage] = 1 .. Len(ops[stage]) + 1
      /\ DOMAIN ops[stage] = 1 .. Len(ops[stage]) /\ Len(ops[stage]) \in Nat
  BY <1>1, <1>3, OneMore DEF Here
<1>6. Here \in DOMAIN ops'[stage] /\ Here \notin DOMAIN ops[stage]
  BY <1>5
<1>7. ASSUME NEW section \in Sections, NEW n \in DOMAIN ops[section]
      PROVE  /\ n \in DOMAIN ops'[section] /\ ops'[section][n] = ops[section][n]
             /\ By(syms', section, n) = By(syms, section, n)
  <2>1. n \in DOMAIN ops'[section] /\ ops'[section][n] = ops[section][n]
    <3>1. CASE section = stage
      BY <1>1, <1>3, <1>5, <1>7, <3>1, OneMore
    <3>2. CASE section # stage
      BY <1>3, <1>7, <3>2
    <3>3. QED
      BY <3>1, <3>2
  <2>2. \A s \in new : ~ (s.section = section /\ s.by = n)
    BY <1>6, <1>7 DEF Grows, FreshSym
  <2>3. By(syms', section, n) = By(syms, section, n)
    BY <1>2, <2>2 DEF By
  <2>4. QED
    BY <2>1, <2>3
<1>8. By(syms', stage, Here) = new
  <2>1. \A s \in syms : s.section = stage => s.by # Here
    BY <1>1, <1>6 DEF IsSym
  <2>2. \A s \in new : s.section = stage /\ s.by = Here
    BY DEF Grows, FreshSym
  <2>3. QED
    BY <1>2, <2>1, <2>2 DEF By
<1>9. ~ Failed /\ ~ Failed' /\ stage \notin {"json", "done"}
  BY <1>2 DEF Failed, Errors, Sections
<1>10. QED
  BY <1>1, <1>2, <1>3, <1>4, <1>5, <1>6, <1>7, <1>8, <1>9

LEMMA CountedNat ==
  ASSUME NEW n \in Nat
  PROVE  Counted(n) \in Nat /\ Counted(0) = 0
BY DEF Counted

LEMMA WalkTypes ==
  ASSUME TxnTypeOK, stage \in Sections, NEW op \in AllOps, NEW new, Walks(op, new)
  PROVE  TxnTypeOK'
<1>1. Grows(op, new)
  BY DEF Walks
<1>2. /\ stage' = stage /\ ops' \in [Sections -> Seq(AllOps)]
      /\ Here \in DOMAIN ops'[stage] /\ stage \notin {"json", "done"}
      /\ \A section \in Sections : \A n \in DOMAIN ops[section] : n \in DOMAIN ops'[section]
  BY <1>1, GrowFacts
<1>3. loadseq' \in Nat
  <2>1. loadseq \in Nat /\ WellFormed(op)
    BY OpsWellFormed DEF TxnTypeOK
  <2>2. op.op = "loadpm" => op.count + 1 \in Nat
    BY <2>1 DEF WellFormed
  <2>3. QED
    BY <2>1, <2>2, CountedNat DEF Walks, PassesBy, Loads, Fetches, Records, Resolves
<1>4. ASSUME NEW s \in syms'
      PROVE  IsSym(s)'
  <2>1. CASE s \in syms
    BY <1>2, <2>1 DEF TxnTypeOK, IsSym
  <2>2. CASE s \in new
    BY <1>1, <1>2, <2>2 DEF Grows, FreshSym, IsSym
  <2>3. QED
    BY <1>1, <1>4, <2>1, <2>2 DEF Grows
<1>5. \E bound \in Nat : \A s \in syms' : s.size + s.addend <= bound
  <2>1. PICK b \in Nat : \A s \in syms : s.size + s.addend <= b
    BY DEF TxnTypeOK
  <2>2. \A s \in syms : s.size + s.addend \in Nat
    BY DEF TxnTypeOK, IsSym
  <2>3. \A s \in new : s.size + s.addend \in Nat
    BY <1>1 DEF Grows, FreshSym
  <2>4. PICK one : new \subseteq {one}
    BY <1>1 DEF Grows
  <2>5. CASE new = {}
    BY <1>1, <2>1, <2>5 DEF Grows
  <2>6. CASE new # {}
    <3>1. one \in new /\ one.size + one.addend \in Nat
      BY <2>3, <2>4, <2>6
    <3>2. PICK c \in Nat : c = one.size + one.addend
      BY <3>1
    <3>3. b + c \in Nat
      OBVIOUS
    <3>4. \A s \in syms' : s.size + s.addend <= b + c
      <4>1. ASSUME NEW s \in syms'
            PROVE  s.size + s.addend <= b + c
        <5>1. CASE s \in syms
          <6>1. s.size + s.addend <= b /\ s.size + s.addend \in Nat
            BY <2>1, <2>2, <5>1
          <6>2. QED
            BY <6>1
        <5>2. CASE s \in new
          <6>1. s.size + s.addend = c
            BY <2>4, <3>2, <5>2
          <6>2. QED
            BY <6>1
        <5>3. QED
          BY <1>1, <4>1, <5>1, <5>2 DEF Grows
      <4>2. QED
        BY <4>1
    <3>5. QED
      BY <3>3, <3>4
  <2>7. QED
    BY <2>5, <2>6
<1>6. cols' = cols
  BY <1>1 DEF Grows, input
<1>7. QED
  BY <1>2, <1>3, <1>4, <1>5, <1>6 DEF TxnTypeOK

LEMMA WalkInOrder ==
  ASSUME TxnTypeOK, InOrder, stage \in Sections, NEW op \in AllOps, NEW new, Walks(op, new),
         stage \in LibSections => op.op # "loadpm"
  PROVE  InOrder'
<1>1. Grows(op, new)
  BY DEF Walks
<1>2. /\ stage' = stage /\ stage \notin {"json", "done"}
      /\ ops'[stage] = Append(ops[stage], op) /\ ops[stage] \in Seq(AllOps)
      /\ \A section \in Sections : section # stage => ops'[section] = ops[section]
  BY <1>1, GrowFacts
<1>3. stage = "ctrltext" => ops'.preempt_save = <<>> /\ ops'.preempt_restore = <<>>
  BY <1>2 DEF InOrder, Sections
<1>4. stage = "preempt_save" => ops'.preempt_restore = <<>>
  BY <1>2 DEF InOrder, Sections
<1>5. ASSUME NEW section \in LibSections,
             \A n \in DOMAIN ops[section] : ops[section][n].op # "loadpm"
      PROVE  \A n \in DOMAIN ops'[section] : ops'[section][n].op # "loadpm"
  <2>1. CASE section = stage
    <3>1. /\ DOMAIN ops[stage] = 1 .. Len(ops[stage])
          /\ DOMAIN ops'[stage] = 1 .. Len(ops[stage]) + 1 /\ Len(ops[stage]) \in Nat
          /\ \A n \in 1 .. Len(ops[stage]) : ops'[stage][n] = ops[stage][n]
          /\ ops'[stage][Len(ops[stage]) + 1] = op
      BY <1>2, OneMore
    <3>2. \A n \in 1 .. Len(ops[stage]) + 1 : n \in 1 .. Len(ops[stage]) \/ n = Len(ops[stage]) + 1
      BY <3>1
    <3>3. QED
      BY <1>5, <2>1, <3>1, <3>2
  <2>2. CASE section # stage
    BY <1>2, <1>5, <2>2 DEF LibSections, Sections
  <2>3. QED
    BY <2>1, <2>2
<1>6. /\ \A n \in DOMAIN ops'.preempt_save : ops'.preempt_save[n].op # "loadpm"
      /\ \A n \in DOMAIN ops'.preempt_restore : ops'.preempt_restore[n].op # "loadpm"
  BY <1>5 DEF InOrder, LibSections
<1>7. QED
  BY <1>2, <1>3, <1>4, <1>6 DEF InOrder

LEMMA WalkCounts ==
  ASSUME TxnTypeOK, CountsDown, stage \in Sections, NEW op \in AllOps, NEW new, Walks(op, new),
         stage \in LibSections => op.op # "loadpm"
  PROVE  CountsDown'
<1>1. Grows(op, new)
  BY DEF Walks
<1>2. /\ stage' = stage /\ version' = version
      /\ ops'[stage] = Append(ops[stage], op) /\ ops[stage] \in Seq(AllOps)
  BY <1>1, GrowFacts DEF Grows, input
<1>3. loadseq \in Nat /\ (\A x \in AllOps : WellFormed(x))
  BY OpsWellFormed DEF TxnTypeOK
<1>4. CASE stage \in LibSections
  <2>1. loadseq = 0 /\ loadseq' = Counted(loadseq)
    BY <1>4 DEF CountsDown, Walks, PassesBy, Loads, Fetches, Records, Resolves
  <2>2. stage' # "ctrltext" /\ loadseq' = 0
    BY <1>2, <1>3, <1>4, <2>1, CountedNat DEF LibSections
  <2>3. QED
    BY <2>2 DEF CountsDown
<1>5. CASE stage = "ctrltext" /\ version = "plain"
  <2>1. CountsTo(ops.ctrltext, loadseq, pm)
    BY <1>5 DEF CountsDown
  <2>2. /\ \A n \in Nat : Counted(n) = IF n > 0 THEN n - 1 ELSE n
        /\ stage' \notin LibSections
    BY <1>2, <1>5 DEF Counted, Optimized, LibSections
  <2>3. CASE op.op = "loadpm"
    <3>1. op.count \in Nat
      BY <1>3, <2>3 DEF WellFormed
    <3>2. /\ loadseq' = Counted(op.count + 1)
          /\ pm' = [exist |-> op.id \in DOMAIN PmSize, id |-> op.id]
      BY <2>3 DEF Walks, PassesBy, Loads, Fetches, Records, Resolves
    <3>3. loadseq' = op.count
      BY <2>2, <3>1, <3>2
    <3>4. pm'.id = op.id /\ (pm'.exist <=> op.id \in DOMAIN PmSize)
      BY <3>2
    <3>5. CountsTo(Append(ops.ctrltext, op), op.count, pm')
      BY <1>2, <1>5, <2>3, <3>1, <3>4, CountStarts
    <3>6. QED
      BY <1>2, <1>5, <2>2, <3>3, <3>5 DEF CountsDown
  <2>4. CASE op.op # "loadpm"
    <3>1. loadseq' = Counted(loadseq) /\ pm' = pm
      BY <2>4 DEF Walks, PassesBy, Loads, Fetches, Records, Resolves
    <3>2. loadseq' = IF loadseq > 0 THEN loadseq - 1 ELSE loadseq
      BY <1>3, <2>2, <3>1
    <3>3. CountsTo(Append(ops.ctrltext, op), loadseq', pm)
      BY <1>2, <1>3, <1>5, <2>1, <2>4, <3>2, CountedOn
    <3>4. QED
      BY <1>2, <1>5, <2>2, <3>1, <3>3 DEF CountsDown
  <2>5. QED
    BY <2>3, <2>4
<1>6. CASE stage = "ctrltext" /\ version # "plain"
  BY <1>2, <1>6 DEF CountsDown, LibSections
<1>7. QED
  BY <1>4, <1>5, <1>6 DEF Sections, LibSections

(* The walk is in a load sequence exactly at the operations announced.     *)
LEMMA InSequenceHere ==
  ASSUME TxnTypeOK, CountsDown, stage \in Sections, Counts(stage)
  PROVE  /\ stage = "ctrltext" => (InLoadSequence <=> Announced(ops[stage], Here))
         /\ stage # "ctrltext" => ~ InLoadSequence
         /\ InLoadSequence => \E k \in 1 .. Here - 1 :
              LastLoadIn(ops[stage], k, Here) /\ pm.id = ops[stage][k].id
<1>1. ops[stage] \in Seq(AllOps) /\ loadseq \in Nat /\ Here - 1 = Len(ops[stage])
  BY DEF TxnTypeOK, Here
<1>2. CASE stage = "ctrltext"
  <2>1. CountsTo(ops[stage], loadseq, pm)
    BY <1>2 DEF CountsDown, Counts
  <2>2. /\ (loadseq > 0 /\ pm.exist) <=> Announced(ops[stage], Len(ops[stage]) + 1)
        /\ loadseq > 0 => \E k \in 1 .. Len(ops[stage]) :
             LastLoadIn(ops[stage], k, Len(ops[stage]) + 1) /\ pm.id = ops[stage][k].id
    BY <1>1, <2>1, CounterTells, OpsWellFormed
  <2>3. QED
    BY <1>1, <1>2, <2>2 DEF InLoadSequence, Here
<1>3. CASE stage # "ctrltext"
  <2>1. loadseq = 0
    BY <1>3 DEF CountsDown, Sections, LibSections
  <2>2. QED
    BY <1>3, <2>1 DEF InLoadSequence
<1>4. QED
  BY <1>2, <1>3

LEMMA RecordedIs ==
  ASSUME TxnTypeOK, stage \in Sections, NEW op \in AllOps, NEW a, NEW os, os[Here] = op
  PROVE  /\ a \in DOMAIN Recorded(op) <=> (a \in DOMAIN regs \/ a \in DOMAIN Written(op))
         /\ a \in DOMAIN Written(op) => Recorded(op)[a] = EntryOf(os, Here, a)
         /\ a \in DOMAIN Recorded(op) /\ a \notin DOMAIN Written(op) => Recorded(op)[a] = regs[a]
         /\ op.op = "blockwrite" => (a \in DOMAIN Written(op) <=> Covers(op, a))
<1>1. DOMAIN Recorded(op) = DOMAIN regs \cup DOMAIN Written(op)
  BY DEF Recorded
<1>2. \A b \in DOMAIN Recorded(op) :
        Recorded(op)[b] = IF b \in DOMAIN Written(op) THEN Written(op)[b] ELSE regs[b]
  BY DEF Recorded
<1>3. \A b \in DOMAIN Written(op) : Written(op)[b] = EntryOf(os, Here, b)
  BY DEF Written, EntryOf
<1>4. op.op = "blockwrite" => (a \in DOMAIN Written(op) <=> Covers(op, a))
  BY DEF Written, Covers
<1>5. QED
  BY <1>1, <1>2, <1>3, <1>4

LEMMA WalkFrom ==
  ASSUME TxnTypeOK, FromWrites, stage \in Sections, NEW op \in AllOps, NEW new, Walks(op, new)
  PROVE  FromWrites'
<1>1. Grows(op, new)
  BY DEF Walks
<1>2. /\ stage' = stage /\ Here \in DOMAIN ops'[stage]
      /\ ops'[stage] = Append(ops[stage], op) /\ ops[stage] \in Seq(AllOps)
      /\ Here = Len(ops[stage]) + 1
      /\ \A n \in DOMAIN ops[stage] : n \in DOMAIN ops'[stage] /\ ops'[stage][n] = ops[stage][n]
  BY <1>1, GrowFacts
<1>3. ops'[stage][Here] = op
  BY <1>2, OneMore
<1>4. ASSUME NEW a \in DOMAIN regs
      PROVE  \E m \in DOMAIN ops'[stage] :
               Covers(ops'[stage][m], a) /\ regs[a] = EntryOf(ops'[stage], m, a)
  <2>1. PICK m \in DOMAIN ops[stage] :
          Covers(ops[stage][m], a) /\ regs[a] = EntryOf(ops[stage], m, a)
    BY DEF FromWrites
  <2>2. QED
    BY <1>2, <2>1 DEF EntryOf
<1>5. CASE Records(op, new)
  <2>1. regs' = Recorded(op) /\ op.op = "blockwrite"
    BY <1>5 DEF Records
  <2>2. ASSUME NEW a \in DOMAIN regs'
        PROVE  \E m \in DOMAIN ops'[stage] :
                 Covers(ops'[stage][m], a) /\ regs'[a] = EntryOf(ops'[stage], m, a)
    <3>1. CASE a \in DOMAIN Written(op)
      <4>1. Covers(op, a) /\ regs'[a] = EntryOf(ops'[stage], Here, a)
        BY <1>3, <2>1, <3>1, RecordedIs
      <4>2. QED
        BY <1>2, <1>3, <4>1
    <3>2. CASE a \notin DOMAIN Written(op)
      <4>1. a \in DOMAIN regs /\ regs'[a] = regs[a]
        BY <1>3, <2>1, <2>2, <3>2, RecordedIs
      <4>2. QED
        BY <1>4, <4>1
    <3>3. QED
      BY <3>1, <3>2
  <2>3. QED
    BY <1>2, <2>2 DEF FromWrites
<1>6. CASE regs' = regs
  BY <1>2, <1>4, <1>6 DEF FromWrites
<1>7. QED
  BY <1>5, <1>6 DEF Walks, PassesBy, Loads, Fetches, Resolves

LEMMA LastStays ==
  ASSUME NEW S, NEW os \in Seq(S), NEW op \in S, NEW section, NEW a, NEW m,
         LastWriter(section, os, m, Len(os) + 1, a),
         ~ WritesIn(section, Append(os, op), Len(os) + 1, a)
  PROVE  LastWriter(section, Append(os, op), m, Len(Append(os, op)) + 1, a)
<1>1. /\ Len(os) \in Nat /\ Len(Append(os, op)) = Len(os) + 1 /\ m \in 1 .. Len(os) + 1 - 1
      /\ Len(os) + 1 \in 1 .. Len(os) + 1
  BY OneMore DEF LastWriter
<1>2. LastWriter(section, Append(os, op), m, Len(os) + 1, a)
  BY <1>1, LastWriterAppend
<1>3. \A k \in m + 1 .. Len(os) + 1 : k \in m + 1 .. Len(os) + 1 - 1 \/ k = Len(os) + 1
  BY <1>1
<1>4. m \in 1 .. Len(os) + 1 /\ Len(os) + 1 + 1 - 1 = Len(os) + 1
  BY <1>1
<1>5. QED
  BY <1>1, <1>2, <1>3, <1>4 DEF LastWriter

LEMMA LastNew ==
  ASSUME NEW S, NEW os \in Seq(S), NEW op \in S, NEW section, NEW a,
         WritesIn(section, Append(os, op), Len(os) + 1, a)
  PROVE  LastWriter(section, Append(os, op), Len(os) + 1, Len(Append(os, op)) + 1, a)
<1>1. Len(os) \in Nat /\ Len(Append(os, op)) = Len(os) + 1
  BY OneMore
<1>2. Len(os) + 1 \in 1 .. Len(os) + 1 + 1 - 1 /\ \A k \in Len(os) + 1 + 1 .. Len(os) + 1 + 1 - 1 : FALSE
  BY <1>1
<1>3. QED
  BY <1>1, <1>2 DEF LastWriter

LEMMA WalkLast ==
  ASSUME TxnTypeOK, CountsDown, LastWritten, stage \in Sections,
         NEW op \in AllOps, NEW new, Walks(op, new)
  PROVE  LastWritten'
<1>1. Grows(op, new)
  BY DEF Walks
<1>2. /\ stage' = stage /\ version' = version
      /\ ops'[stage] = Append(ops[stage], op) /\ ops[stage] \in Seq(AllOps)
      /\ Here = Len(ops[stage]) + 1 /\ Here \in DOMAIN ops'[stage]
      /\ \A n \in DOMAIN ops[stage] : n \in DOMAIN ops'[stage] /\ ops'[stage][n] = ops[stage][n]
  BY <1>1, GrowFacts DEF Grows, input
<1>3. SUFFICES ASSUME Counts(stage), NEW a \in DOMAIN regs'
               PROVE  \E m \in DOMAIN ops'[stage] :
                        /\ LastWriter(stage, ops'[stage], m, Len(ops'[stage]) + 1, a)
                        /\ regs'[a] = EntryOf(ops'[stage], m, a)
  BY <1>2 DEF LastWritten, Counts
<1>4. ops'[stage][Here] = op
  BY <1>2, OneMore
<1>5. WritesIn(stage, ops'[stage], Here, a) <=>
        (Covers(op, a) /\ (stage = "ctrltext" => ~ Announced(ops[stage], Here)))
  BY <1>2, WritesNew
<1>6. ASSUME a \in DOMAIN regs, regs'[a] = regs[a], ~ WritesIn(stage, ops'[stage], Here, a)
      PROVE  \E m \in DOMAIN ops'[stage] :
               /\ LastWriter(stage, ops'[stage], m, Len(ops'[stage]) + 1, a)
               /\ regs'[a] = EntryOf(ops'[stage], m, a)
  <2>1. PICK m \in DOMAIN ops[stage] :
          /\ LastWriter(stage, ops[stage], m, Len(ops[stage]) + 1, a)
          /\ regs[a] = EntryOf(ops[stage], m, a)
    BY <1>3, <1>6 DEF LastWritten
  <2>2. LastWriter(stage, ops'[stage], m, Len(ops'[stage]) + 1, a)
    BY <1>2, <1>6, <2>1, LastStays
  <2>3. QED
    BY <1>2, <1>6, <2>1, <2>2 DEF EntryOf
<1>7. CASE Records(op, new)
  <2>1. regs' = Recorded(op) /\ op.op = "blockwrite" /\ ~ InLoadSequence
    BY <1>7 DEF Records
  <2>2. CASE Covers(op, a)
    <3>1. regs'[a] = EntryOf(ops'[stage], Here, a)
      BY <1>4, <2>1, <2>2, RecordedIs
    <3>2. WritesIn(stage, ops'[stage], Here, a)
      BY <1>3, <1>5, <2>1, <2>2, InSequenceHere
    <3>3. LastWriter(stage, ops'[stage], Here, Len(ops'[stage]) + 1, a)
      BY <1>2, <3>2, LastNew
    <3>4. QED
      BY <1>2, <3>1, <3>3
  <2>3. CASE ~ Covers(op, a)
    <3>1. a \in DOMAIN regs /\ regs'[a] = regs[a]
      BY <1>3, <1>4, <2>1, <2>3, RecordedIs
    <3>2. ~ WritesIn(stage, ops'[stage], Here, a)
      BY <1>5, <2>3
    <3>3. QED
      BY <1>6, <3>1, <3>2
  <2>4. QED
    BY <2>2, <2>3
<1>8. CASE Fetches(op, new)
  <2>1. regs' = regs /\ InLoadSequence
    BY <1>8 DEF Fetches
  <2>2. ~ WritesIn(stage, ops'[stage], Here, a)
    BY <1>3, <1>5, <2>1, InSequenceHere
  <2>3. QED
    BY <1>3, <1>6, <2>1, <2>2
<1>9. CASE PassesBy(op) \/ Loads(op, new) \/ Resolves(op, new)
  <2>1. regs' = regs /\ ~ Covers(op, a)
    BY <1>9 DEF PassesBy, Loads, Resolves, Covers
  <2>2. QED
    BY <1>3, <1>5, <1>6, <2>1
<1>10. QED
  BY <1>7, <1>8, <1>9 DEF Walks

(* The symbols of a patch stand at the entry it found.                     *)
LEMMA ResolvedSyms ==
  ASSUME TxnTypeOK, stage \in Sections, NEW op \in AllOps, NEW new, Resolves(op, new)
  PROVE  LET bd == regs[Descriptor(op)]
         IN  /\ Patchable(op.word) => \E s : new = {s}
             /\ \A s \in new :
                  \/ s = DmaSym(ArgName, op.arg, bd.at, op.plus, bd.len)
                  \/ \E w \in {0, 1} : s = ScalerSym(op.arg, bd.at, op.plus, w)
<1> DEFINE bd == regs[Descriptor(op)]
<1>1. new = PatchSyms(ArgName, op.word, op.arg, bd.at, op.plus, bd.len) /\ op.word \in Nat
  BY OpsWellFormed DEF Resolves, WellFormed
<1>2. /\ \/ new = {}
         \/ \E w \in {0, 1} : new = {ScalerSym(op.arg, bd.at, op.plus, w)}
         \/ new = {DmaSym(ArgName, op.arg, bd.at, op.plus, bd.len)}
      /\ Patchable(op.word) => new # {}
  BY <1>1, PatchSymsAre
<1> HIDE DEF bd
<1>3. QED
  BY <1>2 DEF bd

LEMMA PlacedNew ==
  ASSUME TxnTypeOK, LastWritten, stage \in Sections, Counts(stage),
         NEW op \in AllOps, NEW new, Grows(op, new), Resolves(op, new)
  PROVE  PlacedIn(stage, ops'[stage], syms', Here)
<1> DEFINE a == Descriptor(op)
           os == ops[stage]
           ps == ops'[stage]
<1>1. /\ ps = Append(os, op) /\ os \in Seq(AllOps) /\ Here = Len(os) + 1
      /\ By(syms', stage, Here) = new
  BY GrowFacts
<1>2. ps[Here] = op /\ Here - 1 = Len(os) /\ Len(os) \in Nat /\ DOMAIN os = 1 .. Len(os)
      /\ \A n \in 1 .. Len(os) : ps[n] = os[n]
  BY <1>1, OneMore
<1>3. PICK m \in DOMAIN os : LastWriter(stage, os, m, Len(os) + 1, a) /\ regs[a] = EntryOf(os, m, a)
  BY DEF LastWritten, Resolves
<1>4. LastWriter(stage, ps, m, Here, a) /\ m \in 1 .. Here - 1
  <2>1. m \in 1 .. Len(os) + 1 - 1 /\ Len(os) + 1 \in 1 .. Len(os) + 1
    BY <1>2
  <2>2. QED
    BY <1>1, <1>2, <1>3, <2>1, LastWriterAppend
<1>5. a[2] - os[m].word \in Nat /\ ps[m] = os[m]
  <2>1. Covers(os[m], a) /\ os[m] \in AllOps
    BY <1>1, <1>3 DEF LastWriter, WritesIn
  <2>2. QED
    BY <1>2, <2>1, CoversOne
<1>6. regs[a].at = <<m, a[2] - os[m].word>>
  BY <1>3 DEF EntryOf
<1>7. /\ Patchable(op.word) => \E s : new = {s}
      /\ \A s \in new :
           \/ s = DmaSym(ArgName, op.arg, regs[a].at, op.plus, regs[a].len)
           \/ \E w \in {0, 1} : s = ScalerSym(op.arg, regs[a].at, op.plus, w)
  BY ResolvedSyms
<1> HIDE DEF a, os, ps
<1>8. ASSUME NEW s \in new
      PROVE  s.at[1] = m /\ s.at[2] \in a[2] - ps[m].word .. a[2] - ps[m].word + 1
  <2>1. CASE s = DmaSym(ArgName, op.arg, regs[a].at, op.plus, regs[a].len)
    <3>1. s.at = <<m, a[2] - os[m].word>>
      BY <1>6, <2>1 DEF DmaSym
    <3>2. QED
      BY <1>5, <3>1
  <2>2. ASSUME NEW w \in {0, 1}, s = ScalerSym(op.arg, regs[a].at, op.plus, w)
        PROVE  s.at[1] = m /\ s.at[2] \in a[2] - ps[m].word .. a[2] - ps[m].word + 1
    <3>1. s.at = <<m, a[2] - os[m].word + w>>
      BY <1>6, <2>2 DEF ScalerSym
    <3>2. QED
      BY <1>5, <3>1
  <2>3. QED
    BY <1>7, <2>1, <2>2
<1>9. PlacedIn(stage, ps, syms', Here)
  BY <1>1, <1>2, <1>4, <1>7, <1>8 DEF PlacedIn, a
<1>10. QED
  BY <1>9 DEF ps

LEMMA WalkPlaced ==
  ASSUME TxnTypeOK, LastWritten, AllPlaced, stage \in Sections,
         NEW op \in AllOps, NEW new, Walks(op, new)
  PROVE  AllPlaced'
<1>1. Grows(op, new)
  BY DEF Walks
<1>2. /\ stage' = stage /\ version' = version /\ ~ Failed
      /\ ops'[stage] = Append(ops[stage], op) /\ ops[stage] \in Seq(AllOps)
      /\ Here = Len(ops[stage]) + 1
      /\ \A section \in Sections : section # stage => ops'[section] = ops[section]
      /\ \A section \in Sections : \A n \in DOMAIN ops[section] :
           By(syms', section, n) = By(syms, section, n)
  BY <1>1, GrowFacts DEF Grows, input
<1>3. ASSUME NEW section \in Sections, Counts(section), NEW n \in DOMAIN ops'[section]
      PROVE  PlacedIn(section, ops'[section], syms', n)
  <2>1. \A k \in DOMAIN ops[section] : PlacedIn(section, ops[section], syms, k)
    BY <1>2, <1>3 DEF AllPlaced
  <2>2. CASE section # stage
    <3>1. n \in DOMAIN ops[section] /\ ops'[section] = ops[section]
      BY <1>2, <1>3, <2>2
    <3>2. QED
      BY <1>2, <2>1, <3>1 DEF PlacedIn
  <2>3. CASE section = stage /\ n \in DOMAIN ops[stage]
    <3>1. n \in 1 .. Len(ops[stage]) /\ By(syms', stage, n) = By(syms, stage, n)
      BY <1>2, <2>3
    <3>2. PlacedIn(stage, ops[stage], syms, n)
      BY <2>1, <2>3
    <3>3. PlacedIn(stage, Append(ops[stage], op), syms', n)
      BY <1>2, <3>1, <3>2, PlacedAppend
    <3>4. QED
      BY <1>2, <2>3, <3>3
  <2>4. CASE section = stage /\ n \notin DOMAIN ops[stage]
    <3>1. n = Here /\ ops'[stage][n] = op
      BY <1>2, <1>3, <2>4, OneMore
    <3>2. CASE op.op = "patch"
      <4>1. Resolves(op, new)
        BY <3>2 DEF Walks, PassesBy, Loads, Fetches, Records
      <4>2. QED
        BY <1>1, <1>3, <2>4, <3>1, <4>1, PlacedNew
    <3>3. CASE op.op # "patch"
      BY <2>4, <3>1, <3>3 DEF PlacedIn
    <3>4. QED
      BY <3>2, <3>3
  <2>5. QED
    BY <2>2, <2>3, <2>4
<1>4. QED
  BY <1>2, <1>3 DEF AllPlaced, Counts

(* The block writes of a load sequence, and no others, get the image.      *)
LEMMA ImageNew ==
  ASSUME TxnTypeOK, CountsDown, stage = "ctrltext", version = "plain",
         NEW op \in AllOps, NEW new, Walks(op, new)
  PROVE  ImageIn(ops'[stage], syms', Here)
<1> DEFINE os == ops[stage]
           ps == ops'[stage]
<1>1. Grows(op, new) /\ stage \in Sections /\ Counts(stage)
  BY DEF Walks, Sections, Counts
<1>2. /\ ps = Append(os, op) /\ os \in Seq(AllOps) /\ Here = Len(os) + 1
      /\ By(syms', stage, Here) = new
  BY <1>1, GrowFacts
<1>3. ps[Here] = op /\ Here \in 1 .. Len(os) + 1
  BY <1>2, OneMore
<1>4. Announced(ps, Here) <=> InLoadSequence
  BY <1>1, <1>2, <1>3, AnnouncedAppend, InSequenceHere
<1>5. Images(syms', Here) = {s \in new : s.name[1] = "pm"}
  BY <1>2 DEF Images
<1> SUFFICES ASSUME op.op = "blockwrite", op.word \in ShimBDs
             PROVE  /\ Images(syms', Here) # {} <=> Announced(ps, Here)
                    /\ \A s \in Images(syms', Here) :
                         \E k \in 1 .. Here - 1 : LastLoadIn(ps, k, Here) /\ s.name = <<"pm", ps[k].id>>
  BY <1>3 DEF ImageIn
<1>6. CASE InLoadSequence
  <2> DEFINE dma == DmaSym(<<"pm", pm.id>>, -arg_offset, <<Here, 0>>, 0, op.lens[1])
  <2>1. new = PatchSyms(<<"pm", pm.id>>, op.word + 1, -arg_offset, <<Here, 0>>, 0, op.lens[1])
    BY <1>6 DEF Walks, PassesBy, Loads, Fetches, Records, Resolves
  <2>2. op.word \in Nat /\ op.word + 1 \in Nat /\ op.word + 1 - 1 = op.word
    BY OpsWellFormed DEF WellFormed
  <2>3. new = {dma}
    BY <2>1, <2>2, PatchSymsAre
  <2>4. dma.name = <<"pm", pm.id>>
    BY DEF DmaSym, ShimName
  <2> HIDE DEF dma
  <2>5. Images(syms', Here) = {dma}
    BY <1>5, <2>3, <2>4
  <2>6. PICK k \in 1 .. Here - 1 : LastLoadIn(os, k, Here) /\ pm.id = os[k].id
    BY <1>1, <1>6, InSequenceHere
  <2>7. LastLoadIn(ps, k, Here) /\ ps[k].id = pm.id
    BY <1>2, <1>3, <2>6, LastLoadAppend
  <2>8. QED
    BY <1>4, <1>6, <2>4, <2>5, <2>6, <2>7
<1>7. CASE ~ InLoadSequence
  <2>1. new = {}
    BY <1>7 DEF Walks, PassesBy, Loads, Fetches, Records, Resolves
  <2>2. QED
    BY <1>4, <1>5, <1>7, <2>1
<1>8. QED
  BY <1>6, <1>7

LEMMA WalkImages ==
  ASSUME TxnTypeOK, CountsDown, ImagesPlaced, stage \in Sections,
         NEW op \in AllOps, NEW new, Walks(op, new)
  PROVE  ImagesPlaced'
<1>1. Grows(op, new)
  BY DEF Walks
<1>2. /\ stage' = stage /\ version' = version /\ ~ Failed
      /\ ops'[stage] = Append(ops[stage], op) /\ ops[stage] \in Seq(AllOps)
      /\ Here = Len(ops[stage]) + 1
      /\ \A section \in Sections : section # stage => ops'[section] = ops[section]
      /\ \A section \in Sections : \A n \in DOMAIN ops[section] :
           By(syms', section, n) = By(syms, section, n)
  BY <1>1, GrowFacts DEF Grows, input
<1>3. ASSUME version = "plain", NEW n \in DOMAIN ops'.ctrltext
      PROVE  ImageIn(ops'.ctrltext, syms', n)
  <2>1. \A k \in DOMAIN ops.ctrltext : ImageIn(ops.ctrltext, syms, k)
    BY <1>2, <1>3 DEF ImagesPlaced
  <2>2. CASE stage # "ctrltext"
    <3>1. n \in DOMAIN ops.ctrltext /\ ops'.ctrltext = ops.ctrltext
      BY <1>2, <1>3, <2>2 DEF Sections
    <3>2. By(syms', "ctrltext", n) = By(syms, "ctrltext", n)
      BY <1>2, <3>1 DEF Sections
    <3>3. Images(syms', n) = Images(syms, n)
      BY <3>2 DEF Images
    <3>4. QED
      BY <2>1, <3>1, <3>3 DEF ImageIn
  <2>3. CASE stage = "ctrltext" /\ n \in DOMAIN ops.ctrltext
    <3>1. n \in 1 .. Len(ops.ctrltext) /\ By(syms', "ctrltext", n) = By(syms, "ctrltext", n)
      BY <1>2, <2>3 DEF Sections
    <3>2. ops.ctrltext \in Seq(AllOps) /\ ops'.ctrltext = Append(ops.ctrltext, op)
      BY <1>2, <2>3
    <3>3. ImageIn(ops.ctrltext, syms, n)
      BY <2>1, <2>3
    <3>4. ImageIn(Append(ops.ctrltext, op), syms', n)
      BY <3>1, <3>2, <3>3, ImageAppend
    <3>5. QED
      BY <3>2, <3>4
  <2>4. CASE stage = "ctrltext" /\ n \notin DOMAIN ops.ctrltext
    <3>1. n = Here
      BY <1>2, <1>3, <2>4, OneMore
    <3>2. QED
      BY <1>3, <2>4, <3>1, ImageNew
  <2>5. QED
    BY <2>2, <2>3, <2>4
<1>4. QED
  BY <1>2, <1>3 DEF ImagesPlaced

(* A buffer symbol says the length its descriptor was written with.        *)
LEMMA WalkMeasured ==
  ASSUME TxnTypeOK, FromWrites, Measured, stage \in Sections,
         NEW op \in AllOps, NEW new, Walks(op, new)
  PROVE  Measured'
<1>1. Grows(op, new)
  BY DEF Walks
<1>2. /\ stage' = stage /\ ~ Failed /\ stage \notin {"json", "done"}
      /\ ops'[stage] = Append(ops[stage], op) /\ ops[stage] \in Seq(AllOps)
      /\ Here = Len(ops[stage]) + 1
      /\ \A section \in Sections : \A n \in DOMAIN ops[section] :
           n \in DOMAIN ops'[section] /\ ops'[section][n] = ops[section][n]
  BY <1>1, GrowFacts
<1>3. ops'[stage][Here] = op
  BY <1>2, OneMore
<1>4. ASSUME NEW s \in syms, ForBuffer(s)'
      PROVE  s.at[1] \in DOMAIN ops'[s.section] /\ s.size = LengthAt(s)'
  <2>1. s.section \in Sections /\ s.by \in DOMAIN ops[s.section]
    BY DEF TxnTypeOK, IsSym
  <2>2. ForBuffer(s)
    BY <1>2, <1>4, <2>1 DEF ForBuffer
  <2>3. s.at[1] \in DOMAIN ops[s.section] /\ s.size = LengthAt(s)
    BY <1>2, <2>2 DEF Measured
  <2>4. QED
    BY <1>2, <2>1, <2>3 DEF LengthAt
<1>5. ASSUME NEW s \in new, ForBuffer(s)'
      PROVE  s.at[1] \in DOMAIN ops'[s.section] /\ s.size = LengthAt(s)'
  <2> DEFINE a == Descriptor(op)
             os == ops[stage]
  <2>1. s.section = stage /\ s.by = Here /\ s.schema = "shim_dma_48"
    BY <1>1, <1>5 DEF Grows, FreshSym, ForBuffer
  <2>2. op.op = "patch"
    BY <1>3, <1>5, <2>1 DEF ForBuffer
  <2>3. Resolves(op, new)
    BY <2>2 DEF Walks, PassesBy, Loads, Fetches, Records
  <2>4. s = DmaSym(ArgName, op.arg, regs[a].at, op.plus, regs[a].len)
    BY <1>5, <2>1, <2>3, ResolvedSyms DEF ScalerSym
  <2>5. a \in DOMAIN regs
    BY <2>3 DEF Resolves
  <2>6. PICK m \in DOMAIN os : Covers(os[m], a) /\ regs[a] = EntryOf(os, m, a)
    BY <2>5 DEF FromWrites
  <2>7. /\ s.at = <<m, a[2] - os[m].word>>
        /\ s.size = os[m].lens[(a[2] - os[m].word) \div BD_WORDS + 1]
    BY <2>4, <2>6 DEF DmaSym, EntryOf
  <2>8. s.at[1] = m /\ s.at[2] = a[2] - os[m].word
    BY <2>7
  <2>9. m \in DOMAIN ops'[stage] /\ ops'[stage][m] = os[m]
    BY <1>2, <2>6
  <2>10. QED
    BY <2>1, <2>7, <2>8, <2>9 DEF LengthAt
<1>6. ASSUME NEW s \in syms', ForBuffer(s)'
      PROVE  s.at[1] \in DOMAIN ops'[s.section] /\ s.size = LengthAt(s)'
  BY <1>1, <1>4, <1>5, <1>6 DEF Grows
<1>7. ScratchSized'
  BY <1>2 DEF ScratchSized
<1>8. QED
  BY <1>6, <1>7 DEF Measured

LEMMA WalkNamed ==
  ASSUME TxnTypeOK, Named, stage \in Sections, NEW op \in AllOps, NEW new, Walks(op, new)
  PROVE  Named'
<1>1. Grows(op, new)
  BY DEF Walks
<1>2. /\ stage' = stage /\ flow' = flow /\ xrtMap' = xrtMap
      /\ ops'[stage] = Append(ops[stage], op) /\ ops[stage] \in Seq(AllOps)
      /\ Here = Len(ops[stage]) + 1
      /\ \A section \in Sections : \A n \in DOMAIN ops[section] :
           n \in DOMAIN ops'[section] /\ ops'[section][n] = ops[section][n]
  BY <1>1, GrowFacts DEF Grows, input
<1>3. ops'[stage][Here] = op
  BY <1>2, OneMore
<1>4. arg_offset' = arg_offset /\ \A arg : ShimName(<<>>, arg)' = ShimName(<<>>, arg)
  BY <1>2 DEF arg_offset, ShimName, Known
<1>5. ASSUME NEW s \in syms, ByPatch(s)'
      PROVE  LET arg == ops'.ctrltext[s.by].arg
             IN  s.name = IF s.schema = "shim_dma_48" THEN ShimName(<<>>, arg)
                          ELSE Arg(arg + arg_offset)
  <2>1. s.section = "ctrltext" /\ s.by \in DOMAIN ops.ctrltext
    BY <1>5 DEF TxnTypeOK, IsSym, ByPatch
  <2>2. ops'.ctrltext[s.by] = ops.ctrltext[s.by]
    BY <1>2, <2>1 DEF Sections
  <2>3. ByPatch(s)
    BY <1>5, <2>1, <2>2 DEF ByPatch
  <2>4. QED
    BY <2>2, <2>3 DEF Named
<1>6. ASSUME NEW s \in new, ByPatch(s)'
      PROVE  LET arg == ops'.ctrltext[s.by].arg
             IN  s.name = IF s.schema = "shim_dma_48" THEN ShimName(<<>>, arg)
                          ELSE Arg(arg + arg_offset)
  <2>1. stage = "ctrltext" /\ s.by = Here
    BY <1>1, <1>6 DEF Grows, FreshSym, ByPatch
  <2>2. ops'.ctrltext[s.by] = op /\ op.op = "patch"
    BY <1>3, <1>6, <2>1 DEF ByPatch
  <2>3. Resolves(op, new)
    BY <2>2 DEF Walks, PassesBy, Loads, Fetches, Records
  <2>4. ArgName = <<>>
    BY <2>1 DEF ArgName
  <2>5. LET bd == regs[Descriptor(op)]
        IN  \/ s = DmaSym(<<>>, op.arg, bd.at, op.plus, bd.len)
            \/ \E w \in {0, 1} : s = ScalerSym(op.arg, bd.at, op.plus, w)
    BY <1>6, <2>3, <2>4, ResolvedSyms
  <2>6. \/ s.schema = "shim_dma_48" /\ s.name = ShimName(<<>>, op.arg)
        \/ s.schema = "scaler_32" /\ s.name = Arg(op.arg + arg_offset)
    BY <2>5 DEF DmaSym, ScalerSym
  <2>7. QED
    BY <2>2, <2>6
<1>7. QED
  BY <1>1, <1>4, <1>5, <1>6 DEF Grows, Named

LEMMA WalkSequenced ==
  ASSUME TxnTypeOK, stage \in Sections, NEW op \in AllOps, NEW new, Walks(op, new)
  PROVE  Sequenced'
<1>1. stage' \in Sections
  BY GrowFacts DEF Walks
<1>2. QED
  BY <1>1 DEF Sequenced, Sections

LEMMA WalkMap ==
  ASSUME MapRight, NEW op, NEW new, Walks(op, new)
  PROVE  MapRight'
<1>1. UNCHANGED <<input, listed, xrtMap, packetSyms>>
  BY DEF Walks, Grows
<1>2. QED
  BY <1>1 DEF MapRight, input, arg_offset, FirstListed, NameOf

LEMMA WalkStep ==
  ASSUME TxnInv, stage \in Sections, NEW op \in AllOps, NEW new, Walks(op, new),
         stage \in LibSections => op.op # "loadpm"
  PROVE  TxnInv'
BY WalkTypes, WalkInOrder, WalkCounts, WalkFrom, WalkLast, WalkPlaced, WalkImages,
   WalkSequenced, WalkMeasured, WalkMap, WalkNamed DEF TxnInv

-----------------------------------------------------------------------------
(***************************************************************************)
(* An operation that ends the walk with an error.                          *)
(***************************************************************************)
LEMMA RejectStep ==
  ASSUME TxnInv, stage \in Sections, NEW op \in AllOps, Rejects(op),
         stage \in LibSections => op.op # "loadpm"
  PROVE  TxnInv'
<1> USE DEF TxnInv
<1>1. /\ ops' = [ops EXCEPT ![stage] = Append(ops[stage], op)] /\ stage' \in Errors
      /\ syms' = syms /\ loadseq' = loadseq /\ cols' = cols /\ version' = version
      /\ flow' = flow /\ xrtMap' = xrtMap
  BY DEF Rejects, input
<1>2. /\ Failed' /\ stage' \notin Sections /\ stage' \notin LibSections
      /\ stage' \notin {"json", "ctrltext", "preempt_save", "done"}
  BY <1>1 DEF Failed, Errors, Sections, LibSections
<1>3. ops \in [Sections -> Seq(AllOps)] /\ ops[stage] \in Seq(AllOps)
  BY DEF TxnTypeOK
<1>4. /\ ops' \in [Sections -> Seq(AllOps)] /\ ops'[stage] = Append(ops[stage], op)
      /\ \A section \in Sections : section # stage => ops'[section] = ops[section]
  BY <1>1, <1>3
<1>5. /\ DOMAIN ops[stage] = 1 .. Len(ops[stage]) /\ Len(ops[stage]) \in Nat
      /\ DOMAIN ops'[stage] = 1 .. Len(ops[stage]) + 1
      /\ \A n \in 1 .. Len(ops[stage]) : ops'[stage][n] = ops[stage][n]
      /\ ops'[stage][Len(ops[stage]) + 1] = op
      /\ Len(ops'[stage]) = Len(ops[stage]) + 1
  BY <1>3, <1>4, OneMore
<1>6. \A section \in Sections : \A n \in DOMAIN ops[section] :
        n \in DOMAIN ops'[section] /\ ops'[section][n] = ops[section][n]
  <2>1. ASSUME NEW section \in Sections, NEW n \in DOMAIN ops[section]
        PROVE  n \in DOMAIN ops'[section] /\ ops'[section][n] = ops[section][n]
    <3>1. CASE section = stage
      BY <1>5, <2>1, <3>1
    <3>2. CASE section # stage
      BY <1>4, <2>1, <3>2
    <3>3. QED
      BY <3>1, <3>2
  <2>2. QED
    BY <2>1
<1>7. TxnTypeOK'
  <2>1. \A s \in syms' : IsSym(s)'
    BY <1>1, <1>6 DEF TxnTypeOK, IsSym
  <2>2. QED
    BY <1>1, <1>2, <1>4, <2>1 DEF TxnTypeOK
<1>8. InOrder'
  <2>1. ASSUME NEW section \in LibSections,
               \A n \in DOMAIN ops[section] : ops[section][n].op # "loadpm"
        PROVE  \A n \in DOMAIN ops'[section] : ops'[section][n].op # "loadpm"
    <3>1. CASE section = stage
      <4>1. \A n \in 1 .. Len(ops[stage]) + 1 : n \in 1 .. Len(ops[stage]) \/ n = Len(ops[stage]) + 1
        BY <1>5
      <4>2. QED
        BY <1>5, <2>1, <3>1, <4>1
    <3>2. CASE section # stage
      BY <1>4, <2>1, <3>2 DEF LibSections, Sections
    <3>3. QED
      BY <3>1, <3>2
  <2>2. QED
    BY <1>2, <2>1 DEF InOrder, LibSections
<1>9. CountsDown' /\ FromWrites' /\ LastWritten' /\ AllPlaced' /\ ImagesPlaced'
  BY <1>2 DEF CountsDown, FromWrites, LastWritten, AllPlaced, ImagesPlaced
<1>10. Sequenced'
  <2> SUFFICES ASSUME stage' = "patch_in_sequence", version = "plain"
               PROVE  Announced(ops'.ctrltext, Len(ops'.ctrltext))
    BY <1>1 DEF Sequenced
  <2>1. InLoadSequence /\ Counts(stage)
    BY DEF Rejects, Counts
  <2>2. stage = "ctrltext" /\ Announced(ops[stage], Here)
    BY <2>1, InSequenceHere
  <2>3. Here = Len(ops[stage]) + 1 /\ Here \in 1 .. Len(ops[stage]) + 1
    BY <1>5 DEF Here
  <2>4. Announced(Append(ops[stage], op), Here)
    BY <1>3, <2>2, <2>3, AnnouncedAppend
  <2>5. QED
    BY <1>4, <1>5, <2>2, <2>3, <2>4
<1>11. Measured'
  BY <1>2 DEF Measured, ScratchSized
<1>12. MapRight'
  BY DEF Rejects, MapRight, input, arg_offset, FirstListed, NameOf
<1>13. Named'
  <2>1. arg_offset' = arg_offset /\ \A arg : ShimName(<<>>, arg)' = ShimName(<<>>, arg)
    BY <1>1 DEF arg_offset, ShimName, Known
  <2>2. ASSUME NEW s \in syms, ByPatch(s)'
        PROVE  ByPatch(s) /\ ops'.ctrltext[s.by] = ops.ctrltext[s.by]
    <3>1. s.section = "ctrltext" /\ s.by \in DOMAIN ops.ctrltext
      BY <2>2 DEF TxnTypeOK, IsSym, ByPatch
    <3>2. ops'.ctrltext[s.by] = ops.ctrltext[s.by]
      BY <1>6, <3>1 DEF Sections
    <3>3. QED
      BY <2>2, <3>1, <3>2 DEF ByPatch
  <2>3. QED
    BY <1>1, <2>1, <2>2 DEF Named
<1>14. QED
  BY <1>7, <1>8, <1>9, <1>10, <1>11, <1>12, <1>13

-----------------------------------------------------------------------------
(***************************************************************************)
(* The JSON.                                                               *)
(***************************************************************************)
(* A step that ends in an error and changes nothing else.                  *)
LEMMA FailStep ==
  ASSUME TxnInv, stage' \in Errors, stage' # "patch_in_sequence",
         UNCHANGED <<input, listed, xrtMap, walk, haspreempt, packetSyms, syms>>
  PROVE  TxnInv'
<1>1. /\ UNCHANGED <<flow, version, json, cols, dmaIndex, listed, xrtMap>>
      /\ UNCHANGED <<ops, regs, loadseq, pm, packetSyms, syms>>
  BY DEF input, walk
<1>2. /\ Failed' /\ stage' \notin Sections /\ stage' \notin LibSections
      /\ stage' \notin {"json", "ctrltext", "preempt_save", "done"}
  BY DEF Failed, Errors, Sections, LibSections
<1>3. TxnTypeOK'
  BY <1>1, <1>2 DEF TxnInv, TxnTypeOK, IsSym
<1>4. InOrder' /\ CountsDown' /\ FromWrites' /\ LastWritten' /\ AllPlaced' /\ ImagesPlaced'
  BY <1>1, <1>2 DEF TxnInv, InOrder, CountsDown, FromWrites, LastWritten, AllPlaced, ImagesPlaced
<1>5. Sequenced' /\ Measured'
  BY <1>2 DEF Sequenced, Measured, ScratchSized
<1>6. MapRight'
  BY <1>1 DEF TxnInv, MapRight, arg_offset, FirstListed, NameOf
<1>7. Named'
  BY <1>1 DEF TxnInv, Named, ByPatch, ShimName, Known, arg_offset
<1>8. QED
  BY <1>3, <1>4, <1>5, <1>6, <1>7 DEF TxnInv

(* While the JSON is read there are no symbols of sections.                *)
LEMMA JsonStep ==
  ASSUME TxnInv, stage = "json", MapRight',
         UNCHANGED <<input, stage, walk, haspreempt, syms>>
  PROVE  TxnInv'
<1>1. /\ UNCHANGED <<flow, version, json, cols, dmaIndex, stage>>
      /\ UNCHANGED <<ops, regs, loadseq, pm, syms>>
  BY DEF input, walk
<1>2. syms = {} /\ syms' = {}
  BY <1>1 DEF TxnInv, InOrder
<1>3. TxnTypeOK'
  BY <1>1 DEF TxnInv, TxnTypeOK, IsSym
<1>4. InOrder' /\ CountsDown'
  BY <1>1 DEF TxnInv, InOrder, CountsDown
<1>5. FromWrites' /\ LastWritten' /\ Sequenced'
  BY <1>1 DEF Sections, FromWrites, LastWritten, Sequenced
<1>6. AllPlaced'
  BY <1>1 DEF TxnInv, AllPlaced, Failed, Counts
<1>7. ImagesPlaced'
  BY <1>1 DEF TxnInv, ImagesPlaced, Failed
<1>8. Measured' /\ Named'
  BY <1>1, <1>2 DEF Measured, ScratchSized, Named
<1>9. QED
  BY <1>3, <1>4, <1>5, <1>6, <1>7, <1>8 DEF TxnInv

LEMMA ReadBufferStep ==
  ASSUME TxnInv, NEW buffer \in Buffers, ReadBuffer(buffer)
  PROVE  TxnInv'
<1> DEFINE name == NameOf(buffer)
<1>1. /\ json = "external" /\ stage = "json"
      /\ listed' = Append(listed, buffer)
      /\ xrtMap' = Inserted(xrtMap, buffer.xrt, name)
      /\ packetSyms' = packetSyms \cup PacketSyms(buffer)
      /\ json' = json /\ flow' = flow /\ dmaIndex' = dmaIndex
  BY DEF ReadBuffer, input, NameOf
<1>2. arg_offset' = arg_offset /\ \A b : NameOf(b)' = NameOf(b)
  BY <1>1 DEF arg_offset, NameOf
<1>3. /\ listed \in Seq(Buffers \cup Patches)
      /\ DOMAIN xrtMap = {listed[n].xrt : n \in DOMAIN listed}
      /\ \A n \in DOMAIN listed : FirstListed(n) => xrtMap[listed[n].xrt] = NameOf(listed[n])
      /\ \A t \in packetSyms : t.name = Arg(t.arg + arg_offset)
  BY <1>1 DEF TxnInv, MapRight
<1>4. /\ listed' \in Seq(Buffers \cup Patches)
      /\ Len(listed) \in Nat /\ DOMAIN listed = 1 .. Len(listed)
      /\ DOMAIN listed' = 1 .. Len(listed) + 1
      /\ \A n \in 1 .. Len(listed) : listed'[n] = listed[n]
      /\ listed'[Len(listed) + 1] = buffer
  BY <1>1, <1>3, OneMore
<1>5. /\ DOMAIN xrtMap' = DOMAIN xrtMap \cup {buffer.xrt}
      /\ \A m \in DOMAIN xrtMap : xrtMap'[m] = xrtMap[m]
      /\ buffer.xrt \notin DOMAIN xrtMap => xrtMap'[buffer.xrt] = name
  BY <1>1 DEF Inserted, Known
<1> HIDE DEF name
<1>6. \A n \in 1 .. Len(listed) + 1 : n \in 1 .. Len(listed) \/ n = Len(listed) + 1
  BY <1>4
<1>7. DOMAIN xrtMap' = {listed'[n].xrt : n \in DOMAIN listed'}
  <2>1. \A x \in DOMAIN xrtMap' : \E n \in DOMAIN listed' : x = listed'[n].xrt
    <3>1. Len(listed) + 1 \in DOMAIN listed'
      BY <1>4
    <3>2. \A n \in 1 .. Len(listed) : n \in DOMAIN listed'
      BY <1>4
    <3>3. QED
      BY <1>3, <1>4, <1>5, <3>1, <3>2
  <2>2. \A n \in DOMAIN listed' : listed'[n].xrt \in DOMAIN xrtMap'
    BY <1>3, <1>4, <1>5, <1>6
  <2>3. QED
    BY <2>1, <2>2
<1>8. ASSUME NEW n \in DOMAIN listed', FirstListed(n)'
      PROVE  xrtMap'[listed'[n].xrt] = NameOf(listed'[n])
  <2>1. CASE n \in 1 .. Len(listed)
    <3>1. \A m \in 1 .. n - 1 : m \in 1 .. Len(listed)
      BY <1>4, <2>1
    <3>2. FirstListed(n)
      BY <1>4, <1>8, <2>1, <3>1 DEF FirstListed
    <3>3. listed'[n] = listed[n] /\ listed[n].xrt \in DOMAIN xrtMap
      BY <1>3, <1>4, <2>1
    <3>4. QED
      BY <1>3, <1>4, <1>5, <2>1, <3>2, <3>3
  <2>2. CASE n = Len(listed) + 1
    <3>1. \A m \in 1 .. Len(listed) : m \in 1 .. n - 1
      BY <1>4, <2>2
    <3>2. \A m \in DOMAIN listed : listed[m].xrt # buffer.xrt
      BY <1>4, <1>8, <2>2, <3>1 DEF FirstListed
    <3>3. buffer.xrt \notin DOMAIN xrtMap
      BY <1>3, <3>2
    <3>4. QED
      BY <1>4, <1>5, <2>2, <3>3 DEF name
  <2>3. QED
    BY <1>4, <1>6, <1>8, <2>1, <2>2
<1>9. \A t \in packetSyms' : t.name = Arg(t.arg + arg_offset)
  <2>1. \A t \in PacketSyms(buffer) : t.name = Arg(t.arg + arg_offset)
    BY DEF PacketSyms, PacketSym
  <2>2. QED
    BY <1>1, <1>3, <2>1
<1>10. MapRight'
  BY <1>1, <1>2, <1>4, <1>7, <1>8, <1>9 DEF MapRight
<1>11. UNCHANGED <<input, stage, walk, haspreempt, syms>>
  BY DEF ReadBuffer
<1>12. QED
  BY <1>1, <1>10, <1>11, JsonStep

LEMMA ReadPatchStep ==
  ASSUME TxnInv, NEW patch \in Patches, ReadPatch(patch)
  PROVE  TxnInv'
<1>1. /\ json = "dma" /\ stage = "json"
      /\ listed' = Append(listed, patch) /\ xrtMap' = xrtMap
      /\ packetSyms' = packetSyms \cup {PacketSym(patch.arg, patch.offset, patch.addend)}
      /\ json' = json /\ flow' = flow /\ dmaIndex' = dmaIndex
  BY DEF ReadPatch, input
<1>2. arg_offset' = arg_offset
  BY <1>1 DEF arg_offset
<1>3. listed \in Seq(Buffers \cup Patches) /\ xrtMap = DmaNames(dmaIndex)
      /\ \A t \in packetSyms : t.name = Arg(t.arg + arg_offset)
  BY <1>1 DEF TxnInv, MapRight
<1>4. listed' \in Seq(Buffers \cup Patches)
  BY <1>1, <1>3
<1>5. \A t \in packetSyms' : t.name = Arg(t.arg + arg_offset)
  BY <1>1, <1>3 DEF PacketSym
<1>6. DmaNames(dmaIndex)' = DmaNames(dmaIndex)
  BY <1>1 DEF DmaNames
<1>7. MapRight'
  BY <1>1, <1>2, <1>3, <1>4, <1>5, <1>6 DEF MapRight
<1>8. UNCHANGED <<input, stage, walk, haspreempt, syms>>
  BY DEF ReadPatch
<1>9. QED
  BY <1>1, <1>7, <1>8, JsonStep

-----------------------------------------------------------------------------
(***************************************************************************)
(* From section to section.                                                *)
(***************************************************************************)
LEMMA EnterStep ==
  ASSUME TxnInv, NEW section \in Sections, Enter(section),
         UNCHANGED <<input, listed, xrtMap, ops, haspreempt, packetSyms, syms>>,
         section = "ctrltext" => stage = "json",
         section = "preempt_save" => stage = "ctrltext",
         section = "preempt_restore" => stage = "preempt_save",
         section \in LibSections => cols \in DOMAIN Prebuilt
  PROVE  TxnInv'
<1>1. /\ UNCHANGED <<flow, version, json, cols, dmaIndex, listed, xrtMap>>
      /\ UNCHANGED <<ops, packetSyms, syms>>
      /\ stage' = section /\ regs' = <<>> /\ loadseq' = 0
  BY DEF input, Enter
<1>2. /\ ~ Failed /\ ~ Failed' /\ stage' \notin {"json", "done", "patch_in_sequence"}
      /\ stage \in Sections \/ stage = "json"
  BY <1>1 DEF Failed, Errors, Sections
<1>3. TxnTypeOK'
  BY <1>1 DEF TxnInv, TxnTypeOK, IsSym, LibSections
<1>4. InOrder'
  BY <1>1 DEF TxnInv, InOrder, Sections
<1>5. CountsDown'
  <2>1. stage' = "ctrltext" => CountsTo(ops'.ctrltext, loadseq', pm')
    <3>1. stage' = "ctrltext" => \A m \in DOMAIN ops'.ctrltext : ops'.ctrltext[m].op # "loadpm"
      BY <1>1 DEF TxnInv, InOrder
    <3>2. QED
      BY <1>1, <3>1 DEF CountsTo
  <2>2. QED
    BY <1>1, <2>1 DEF CountsDown
<1>6. DOMAIN regs' = {}
  BY <1>1
<1>7. FromWrites' /\ LastWritten'
  BY <1>6 DEF FromWrites, LastWritten
<1>8. AllPlaced'
  BY <1>1, <1>2 DEF TxnInv, AllPlaced, Counts
<1>9. ImagesPlaced' /\ Sequenced'
  BY <1>1, <1>2 DEF TxnInv, ImagesPlaced, Sequenced
<1>10. Measured'
  <2>1. stage = "json" => syms = {}
    BY DEF TxnInv, InOrder
  <2>2. ASSUME NEW s \in syms, ForBuffer(s)'
        PROVE  s.at[1] \in DOMAIN ops'[s.section] /\ s.size = LengthAt(s)'
    <3>1. ForBuffer(s)
      BY <1>1, <2>2 DEF ForBuffer
    <3>2. s.at[1] \in DOMAIN ops[s.section] /\ s.size = LengthAt(s)
      BY <1>2, <2>1, <2>2, <3>1 DEF TxnInv, Measured
    <3>3. QED
      BY <1>1, <3>2 DEF LengthAt
  <2>3. QED
    BY <1>1, <1>2, <2>2 DEF Measured, ScratchSized
<1>11. MapRight'
  BY <1>1 DEF TxnInv, MapRight, arg_offset, FirstListed, NameOf
<1>12. Named'
  BY <1>1 DEF TxnInv, Named, ByPatch, ShimName, Known, arg_offset
<1>13. QED
  BY <1>3, <1>4, <1>5, <1>7, <1>8, <1>9, <1>10, <1>11, <1>12 DEF TxnInv

(* Without a preempt operation there are no symbols of prebuilt code.      *)
LEMMA FinishStep ==
  ASSUME TxnInv, FinishUnpreempted
  PROVE  TxnInv'
<1>1. /\ UNCHANGED <<flow, version, json, cols, dmaIndex, listed, xrtMap>>
      /\ UNCHANGED <<ops, regs, loadseq, pm, packetSyms, syms>>
      /\ stage = "ctrltext" /\ stage' = "done"
  BY DEF FinishUnpreempted, input, walk
<1>2. ~ Failed /\ ~ Failed' /\ stage' \notin Sections /\ stage' \notin LibSections /\ stage \in Sections
  BY <1>1 DEF Failed, Errors, Sections, LibSections
<1>3. TxnTypeOK'
  BY <1>1, <1>2 DEF TxnInv, TxnTypeOK, IsSym
<1>4. InOrder' /\ CountsDown' /\ FromWrites' /\ LastWritten' /\ Sequenced'
  BY <1>1, <1>2 DEF TxnInv, InOrder, CountsDown, FromWrites, LastWritten, Sequenced
<1>5. AllPlaced'
  BY <1>1, <1>2 DEF TxnInv, AllPlaced, Counts
<1>6. ImagesPlaced'
  BY <1>1, <1>2 DEF TxnInv, ImagesPlaced
<1>7. \A s \in syms : s.section \notin LibSections
  <2>1. ops.preempt_save = <<>> /\ ops.preempt_restore = <<>>
    BY <1>1 DEF TxnInv, InOrder
  <2>2. \A s \in syms : s.by \in DOMAIN ops[s.section]
    BY DEF TxnInv, TxnTypeOK, IsSym
  <2>3. \A section \in LibSections : DOMAIN ops[section] = {}
    BY <2>1 DEF LibSections
  <2>4. QED
    BY <2>2, <2>3
<1>8. ASSUME NEW s \in syms, ForBuffer(s)'
      PROVE  s.at[1] \in DOMAIN ops'[s.section] /\ s.size = LengthAt(s)'
  <2>1. ForBuffer(s)
    BY <1>1, <1>8 DEF ForBuffer
  <2>2. s.at[1] \in DOMAIN ops[s.section] /\ s.size = LengthAt(s)
    BY <1>2, <2>1 DEF TxnInv, Measured
  <2>3. QED
    BY <1>1, <2>2 DEF LengthAt
<1>9. ScratchSized'
  BY <1>1, <1>7, <1>8 DEF ScratchSized, ForBuffer, LengthAt
<1>10. Measured'
  BY <1>1, <1>2, <1>8, <1>9 DEF Measured
<1>11. MapRight'
  BY <1>1 DEF TxnInv, MapRight, arg_offset, FirstListed, NameOf
<1>12. Named'
  BY <1>1 DEF TxnInv, Named, ByPatch, ShimName, Known, arg_offset
<1>13. QED
  BY <1>3, <1>4, <1>5, <1>6, <1>10, <1>11, <1>12 DEF TxnInv

-----------------------------------------------------------------------------
(***************************************************************************)
(* resize_scratchpad.                                                      *)
(***************************************************************************)
LEMMA LeastNumber ==
  ASSUME NEW S \in SUBSET Nat, S # {}
  PROVE  \E n \in S : \A m \in S : n <= m
<1>1. PICK x \in S : \A y \in S : ~ (<<y, x>> \in OpToRel(<, Nat))
  BY NatLessThanWellFounded, WFMin
<1>2. \A y \in S : ~ y < x
  BY <1>1 DEF OpToRel
<1>3. \A y \in S : y \in Nat /\ x \in Nat
  OBVIOUS
<1>4. \A y \in S : x <= y
  BY <1>2, <1>3
<1>5. QED
  BY <1>4

LEMMA LargestIs ==
  ASSUME NEW S \in SUBSET Nat, S # {}, NEW bound \in Nat, \A n \in S : n <= bound
  PROVE  Largest(S) \in S /\ \A m \in S : m <= Largest(S)
<1> DEFINE T == {bound - n : n \in S}
<1>1. T \in SUBSET Nat /\ T # {}
  <2>1. \A n \in S : bound - n \in Nat
    OBVIOUS
  <2>2. QED
    BY <2>1
<1>2. PICK t \in T : \A u \in T : t <= u
  BY <1>1, LeastNumber
<1>3. PICK n \in S : t = bound - n
  OBVIOUS
<1>4. \A m \in S : bound - n <= bound - m
  BY <1>2, <1>3
<1>5. \A m \in S : m <= n
  BY <1>4
<1>6. QED
  BY <1>5 DEF Largest

(* A symbol of a section of prebuilt code gets the size the section needs. *)
SizedTo(s) ==
  IF s.section \in LibSections THEN [s EXCEPT !.size = Largest(Needed(s.section))] ELSE s

LEMMA NeededIs ==
  ASSUME TxnTypeOK, NEW section, NEW bound \in Nat, \A s \in syms : s.size + s.addend <= bound
  PROVE  /\ Largest(Needed(section)) \in Nat /\ Largest(Needed(section)) <= bound
         /\ \A s \in syms : s.section = section => s.size + s.addend <= Largest(Needed(section))
<1>1. \A s \in syms : s.size + s.addend \in Nat
  BY DEF TxnTypeOK, IsSym
<1>2. Needed(section) \in SUBSET Nat /\ Needed(section) # {}
  BY <1>1 DEF Needed, SymsOf
<1>3. \A n \in Needed(section) : n <= bound
  BY DEF Needed, SymsOf
<1>4. Largest(Needed(section)) \in Needed(section)
      /\ \A m \in Needed(section) : m <= Largest(Needed(section))
  BY <1>2, <1>3, LargestIs
<1>5. \A s \in syms : s.section = section => s.size + s.addend \in Needed(section)
  BY DEF Needed, SymsOf
<1>6. QED
  BY <1>2, <1>3, <1>4, <1>5

LEMMA SizedToIs ==
  ASSUME TxnTypeOK, NEW s \in syms, NEW t, t = SizedTo(s)
  PROVE  /\ t = [section |-> t.section, name |-> t.name, at |-> t.at, by |-> t.by,
                 addend |-> t.addend, size |-> t.size, schema |-> t.schema]
         /\ t.section = s.section /\ t.name = s.name /\ t.at = s.at
         /\ t.by = s.by /\ t.addend = s.addend /\ t.schema = s.schema
         /\ s.section \in LibSections => t.size = Largest(Needed(s.section))
         /\ s.section \notin LibSections => t = s
<1>1. s = [section |-> s.section, name |-> s.name, at |-> s.at, by |-> s.by,
           addend |-> s.addend, size |-> s.size, schema |-> s.schema]
  BY DEF TxnTypeOK, IsSym
<1>2. CASE s.section \in LibSections
  <2>1. t = [s EXCEPT !.size = Largest(Needed(s.section))]
    BY <1>2 DEF SizedTo
  <2>2. t = [section |-> s.section, name |-> s.name, at |-> s.at, by |-> s.by,
             addend |-> s.addend, size |-> Largest(Needed(s.section)), schema |-> s.schema]
    BY <1>1, <2>1
  <2>3. QED
    BY <1>2, <2>2
<1>3. CASE s.section \notin LibSections
  <2>1. t = s
    BY <1>3 DEF SizedTo
  <2>2. QED
    BY <1>1, <1>3, <2>1
<1>4. QED
  BY <1>2, <1>3

LEMMA ResizeStep ==
  ASSUME TxnInv, Resize
  PROVE  TxnInv'
<1>1. /\ UNCHANGED <<flow, version, json, cols, dmaIndex, listed, xrtMap>>
      /\ UNCHANGED <<ops, regs, loadseq, pm, packetSyms>>
      /\ stage = "preempt_restore" /\ stage' = "done"
      /\ syms' = {SizedTo(s) : s \in syms}
  BY DEF Resize, Resized, SizedTo, input, walk
<1>2. ~ Failed /\ ~ Failed' /\ stage' \notin Sections /\ stage' \notin LibSections /\ stage \in Sections
  BY <1>1 DEF Failed, Errors, Sections, LibSections
<1>3. TxnTypeOK
  BY DEF TxnInv
<1>4. PICK bound \in Nat : \A s \in syms : s.size + s.addend <= bound
  BY <1>3 DEF TxnTypeOK
<1>5. \A section : Largest(Needed(section)) \in Nat /\ Largest(Needed(section)) <= bound
  BY <1>3, <1>4, NeededIs
<1>6. \A s \in syms : /\ s.section \in Sections /\ s.addend \in Nat /\ s.size \in Nat
                      /\ s.by \in DOMAIN ops[s.section]
  BY <1>3 DEF TxnTypeOK, IsSym
<1>7. ASSUME NEW t \in syms'
      PROVE  \E s \in syms : t = SizedTo(s)
  BY <1>1
<1>8. TxnTypeOK'
  <2>1. ASSUME NEW t \in syms'
        PROVE  IsSym(t)' /\ t.size + t.addend <= bound + bound
    <3>1. PICK s \in syms : t = SizedTo(s)
      BY <1>7
    <3>2. t.section = s.section /\ t.by = s.by /\ t.addend = s.addend
      BY <1>3, <3>1, SizedToIs
    <3>3. t.size \in Nat /\ t.size <= bound
      <4>1. CASE s.section \in LibSections
        <5>1. t.size = Largest(Needed(s.section))
          BY <1>3, <3>1, <4>1, SizedToIs
        <5>2. QED
          BY <1>5, <5>1
      <4>2. CASE s.section \notin LibSections
        <5>1. t = s /\ s.size \in Nat /\ s.addend \in Nat /\ s.size + s.addend <= bound
          BY <1>3, <1>4, <1>6, <3>1, <4>2, SizedToIs
        <5>2. QED
          BY <5>1
      <4>3. QED
        BY <4>1, <4>2
    <3>4. IsSym(t)'
      <4>1. t = [section |-> t.section, name |-> t.name, at |-> t.at, by |-> t.by,
                 addend |-> t.addend, size |-> t.size, schema |-> t.schema]
        BY <1>3, <3>1, SizedToIs
      <4>2. t.section \in Sections /\ t.addend \in Nat /\ t.by \in DOMAIN ops[t.section]
        BY <1>6, <3>2
      <4>3. QED
        BY <1>1, <3>3, <4>1, <4>2 DEF IsSym
    <3>5. t.addend \in Nat /\ t.addend <= bound
      <4>1. s.size \in Nat /\ s.addend \in Nat /\ s.size + s.addend <= bound
        BY <1>4, <1>6
      <4>2. QED
        BY <3>2, <4>1
    <3>6. QED
      BY <3>3, <3>4, <3>5
  <2>2. bound + bound \in Nat
    OBVIOUS
  <2>3. \E b \in Nat : \A t \in syms' : t.size + t.addend <= b
    BY <2>1, <2>2
  <2>4. QED
    BY <1>1, <1>2, <1>3, <2>1, <2>3 DEF TxnTypeOK
<1>9. InOrder' /\ CountsDown' /\ FromWrites' /\ LastWritten' /\ Sequenced'
  BY <1>1, <1>2 DEF TxnInv, InOrder, CountsDown, FromWrites, LastWritten, Sequenced
<1>10. ASSUME NEW section, NEW n, NEW t
       PROVE  t \in By(syms', section, n) <=> \E s \in By(syms, section, n) : t = SizedTo(s)
  <2>1. t \in By(syms', section, n) => \E s \in By(syms, section, n) : t = SizedTo(s)
    BY <1>3, <1>7, SizedToIs DEF By
  <2>2. ASSUME NEW s \in By(syms, section, n), t = SizedTo(s)
        PROVE  t \in By(syms', section, n)
    <3>1. s \in syms /\ s.section = section /\ s.by = n
      BY DEF By
    <3>2. t \in syms'
      BY <1>1, <2>2, <3>1
    <3>3. t.section = section /\ t.by = n
      BY <1>3, <2>2, <3>1, SizedToIs
    <3>4. QED
      BY <3>2, <3>3 DEF By
  <2>3. QED
    BY <2>1, <2>2
<1>11. AllPlaced'
  <2>1. ASSUME NEW section \in Sections, Counts(section), NEW n \in DOMAIN ops[section]
        PROVE  PlacedIn(section, ops[section], syms', n)
    <3>1. PlacedIn(section, ops[section], syms, n)
      BY <1>2, <2>1 DEF TxnInv, AllPlaced
    <3>2. ASSUME NEW x, By(syms, section, n) = {x}
          PROVE  \E s : By(syms', section, n) = {s}
      <4>1. PICK y : y = SizedTo(x)
        OBVIOUS
      <4>2. By(syms', section, n) = {y}
        BY <1>10, <3>2, <4>1
      <4>3. QED
        BY <4>2
    <3>3. \A t \in By(syms', section, n) : \E s \in By(syms, section, n) : t.at = s.at
      <4>1. \A s \in By(syms, section, n) : s \in syms
        BY DEF By
      <4>2. QED
        BY <1>3, <1>10, <4>1, SizedToIs
    <3> SUFFICES ASSUME ops[section][n].op = "patch", Patchable(ops[section][n].word)
                 PROVE  PlacedIn(section, ops[section], syms', n)
      BY DEF PlacedIn
    <3> DEFINE a == Descriptor(ops[section][n])
               near(m, s) == /\ s.at[1] = m
                             /\ s.at[2] \in a[2] - ops[section][m].word ..
                                            a[2] - ops[section][m].word + 1
    <3>4. PICK m \in 1 .. n - 1 :
            /\ LastWriter(section, ops[section], m, n, a)
            /\ \E s : By(syms, section, n) = {s}
            /\ \A s \in By(syms, section, n) : near(m, s)
      BY <3>1 DEF PlacedIn
    <3>5. \A t \in By(syms', section, n) : near(m, t)
      BY <3>3, <3>4
    <3>6. \E s : By(syms', section, n) = {s}
      BY <3>2, <3>4
    <3>7. QED
      BY <3>4, <3>5, <3>6 DEF PlacedIn
  <2>2. QED
    BY <1>1, <2>1 DEF AllPlaced, Counts
<1>12. ASSUME NEW n
       PROVE  By(syms', "ctrltext", n) = By(syms, "ctrltext", n)
  <2>1. \A s \in By(syms, "ctrltext", n) : SizedTo(s) = s
    BY <1>3, SizedToIs DEF By, LibSections
  <2>2. \A t : t \in By(syms', "ctrltext", n) <=> t \in By(syms, "ctrltext", n)
    BY <1>10, <2>1
  <2>3. \A t \in By(syms', "ctrltext", n) : t \in By(syms, "ctrltext", n)
    BY <2>2
  <2>4. QED
    BY <2>2
<1>13. ImagesPlaced'
  <2>1. \A n : Images(syms', n) = Images(syms, n)
    BY <1>12 DEF Images
  <2>2. \A n : ImageIn(ops.ctrltext, syms', n) <=> ImageIn(ops.ctrltext, syms, n)
    BY <2>1 DEF ImageIn
  <2>3. QED
    BY <1>1, <1>2, <2>2 DEF TxnInv, ImagesPlaced
<1>14. ASSUME NEW s \in syms, NEW t, t = SizedTo(s), ForBuffer(t)'
       PROVE  /\ t.at[1] \in DOMAIN ops'[t.section]
              /\ s.size = LengthAt(s) /\ LengthAt(t)' = LengthAt(s)
  <2>1. t.section = s.section /\ t.at = s.at /\ t.by = s.by /\ t.schema = s.schema
    BY <1>3, <1>14, SizedToIs
  <2>2. ForBuffer(s)
    BY <1>1, <1>14, <2>1 DEF ForBuffer
  <2>3. s.at[1] \in DOMAIN ops[s.section] /\ s.size = LengthAt(s)
    BY <1>2, <2>2 DEF TxnInv, Measured
  <2>4. QED
    BY <1>1, <2>1, <2>3 DEF LengthAt
<1>15. ASSUME NEW t \in syms', ForBuffer(t)'
       PROVE  IF t.section \in LibSections
              THEN /\ t.addend + LengthAt(t)' <= t.size
                   /\ \A u \in syms' : u.section = t.section => u.size = t.size
              ELSE t.size = LengthAt(t)'
  <2>1. PICK s \in syms : t = SizedTo(s)
    BY <1>7
  <2>2. s.size = LengthAt(s) /\ LengthAt(t)' = LengthAt(s)
    BY <1>14, <1>15, <2>1
  <2>3. t.section = s.section /\ t.addend = s.addend
    BY <1>3, <2>1, SizedToIs
  <2>4. CASE s.section \in LibSections
    <3>1. t.size = Largest(Needed(s.section))
      BY <1>3, <2>1, <2>4, SizedToIs
    <3>2. s.size + s.addend <= Largest(Needed(s.section))
      BY <1>3, <1>4, NeededIs
    <3>3. s.addend + s.size = s.size + s.addend
      BY <1>6
    <3>4. ASSUME NEW u \in syms', u.section = t.section
          PROVE  u.size = t.size
      <4>1. PICK v \in syms : u = SizedTo(v)
        BY <1>7
      <4>2. v.section = s.section
        BY <1>3, <2>3, <3>4, <4>1, SizedToIs
      <4>3. u.size = Largest(Needed(s.section))
        BY <1>3, <2>4, <4>1, <4>2, SizedToIs
      <4>4. QED
        BY <3>1, <4>3
    <3>5. t.addend + LengthAt(t)' <= t.size
      BY <2>2, <2>3, <3>1, <3>2, <3>3
    <3>6. QED
      BY <2>3, <2>4, <3>4, <3>5
  <2>5. CASE s.section \notin LibSections
    <3>1. t = s
      BY <1>3, <2>1, <2>5, SizedToIs
    <3>2. QED
      BY <2>2, <2>5, <3>1
  <2>6. QED
    BY <2>4, <2>5
<1>16. ScratchSized'
  BY <1>15 DEF ScratchSized, ForBuffer, LengthAt, SymsOf
<1>17. Measured'
  <2>1. \A t \in syms' : ForBuffer(t)' => t.at[1] \in DOMAIN ops'[t.section]
    BY <1>7, <1>14
  <2>2. QED
    BY <1>2, <1>16, <2>1 DEF Measured
<1>18. MapRight'
  BY <1>1 DEF TxnInv, MapRight, arg_offset, FirstListed, NameOf
<1>19. Named'
  <2>1. ASSUME NEW t \in syms', ByPatch(t)'
        PROVE  t \in syms /\ ByPatch(t)
    <3>1. t.section = "ctrltext"
      BY <2>1 DEF ByPatch
    <3>2. PICK s \in syms : t = SizedTo(s)
      BY <1>7
    <3>3. s.section = "ctrltext"
      BY <1>3, <3>1, <3>2, SizedToIs
    <3>4. t = s
      BY <1>3, <3>2, <3>3, SizedToIs DEF LibSections
    <3>5. QED
      BY <1>1, <2>1, <3>4 DEF ByPatch
  <2>2. QED
    BY <1>1, <2>1 DEF TxnInv, Named, ShimName, Known, arg_offset
<1>20. QED
  BY <1>8, <1>9, <1>11, <1>13, <1>17, <1>18, <1>19 DEF TxnInv

-----------------------------------------------------------------------------
(***************************************************************************)
(* The invariant.                                                          *)
(***************************************************************************)
LEMMA TxnInitially ==
  ASSUME Init
  PROVE  TxnInv
<1>1. /\ stage = "json" /\ syms = {} /\ packetSyms = {} /\ listed = <<>> /\ loadseq = 0
      /\ ops = [section \in Sections |-> <<>>]
      /\ xrtMap = IF json = "dma" THEN DmaNames(dmaIndex) ELSE <<>>
  BY DEF Init
<1>2. \A section \in Sections : ops[section] = <<>>
  BY <1>1
<1>3. cols \in DOMAIN Ops
  BY TxnAssumption DEF Init
<1>4. ops.ctrltext = <<>> /\ ops.preempt_save = <<>> /\ ops.preempt_restore = <<>>
  BY <1>2 DEF Sections
<1>5. ~ Failed /\ stage \notin Sections /\ stage \notin LibSections
  BY <1>1 DEF Failed, Errors, Sections, LibSections
<1>6. TxnTypeOK
  <2>1. ops \in [Sections -> Seq(AllOps)]
    BY <1>1
  <2>2. \E bound \in Nat : \A s \in syms : s.size + s.addend <= bound
    BY <1>1
  <2>3. QED
    BY <1>1, <1>3, <1>5, <2>1, <2>2 DEF TxnTypeOK
<1>7. InOrder /\ CountsDown /\ FromWrites /\ LastWritten
  BY <1>1, <1>4, <1>5 DEF InOrder, CountsDown, FromWrites, LastWritten
<1>8. AllPlaced /\ ImagesPlaced
  BY <1>2, <1>4 DEF AllPlaced, ImagesPlaced
<1>9. Sequenced /\ Measured /\ Named
  BY <1>1, <1>5 DEF Sequenced, Measured, ScratchSized, Named
<1>10. MapRight
  <2>1. json = "external" => DOMAIN xrtMap = {listed[n].xrt : n \in DOMAIN listed}
    BY <1>1
  <2>2. json \notin {"dma", "external"} => DOMAIN xrtMap = {}
    BY <1>1
  <2>3. listed \in Seq(Buffers \cup Patches) /\ DOMAIN listed = {}
    BY <1>1
  <2>4. QED
    BY <1>1, <2>1, <2>2, <2>3 DEF MapRight
<1>11. QED
  BY <1>6, <1>7, <1>8, <1>9, <1>10 DEF TxnInv

LEMMA TxnStep ==
  ASSUME TxnInv, [Next]_vars
  PROVE  TxnInv'
<1>1. ASSUME NEW buffer \in Buffers, ReadBuffer(buffer)
      PROVE  TxnInv'
  BY <1>1, ReadBufferStep
<1>2. ASSUME NEW buffer \in Buffers, RejectBuffer(buffer)
      PROVE  TxnInv'
  BY <1>2, FailStep DEF RejectBuffer, RejectJson, Errors
<1>3. ASSUME NEW patch \in Patches, ReadPatch(patch)
      PROVE  TxnInv'
  BY <1>3, ReadPatchStep
<1>4. ASSUME NEW patch \in Patches, RejectJsonPatch(patch)
      PROVE  TxnInv'
  BY <1>4, FailStep DEF RejectJsonPatch, RejectJson, Errors
<1>5. CASE StartWalk
  <2>1. "ctrltext" \in Sections /\ "ctrltext" \notin LibSections
    BY DEF Sections, LibSections
  <2>2. /\ stage = "json" /\ Enter("ctrltext")
        /\ UNCHANGED <<input, listed, xrtMap, ops, haspreempt, packetSyms, syms>>
    BY <1>5 DEF StartWalk
  <2>3. QED
    BY <2>1, <2>2, EnterStep
<1>6. CASE WalkOp
  <2>1. TxnTypeOK /\ FromWrites
    BY DEF TxnInv
  <2>2. stage \in Sections
    BY <1>6, <2>1, WalkKinds
  <2>3. PICK op \in AllOps :
          /\ stage \in LibSections => op.op # "loadpm"
          /\ Rejects(op) \/ \E new : Walks(op, new)
    BY <1>6, <2>1, WalkKinds
  <2>4. CASE Rejects(op)
    BY <2>2, <2>3, <2>4, RejectStep
  <2>5. ASSUME NEW new, Walks(op, new)
        PROVE  TxnInv'
    BY <2>2, <2>3, <2>5, WalkStep
  <2>6. QED
    BY <2>3, <2>4, <2>5
<1>7. CASE FinishUnpreempted
  BY <1>7, FinishStep
<1>8. CASE AddPreemptionCode
  <2>1. "preempt_save" \in Sections
    BY DEF Sections
  <2>2. /\ stage = "ctrltext" /\ Enter("preempt_save") /\ cols \in DOMAIN Prebuilt
        /\ UNCHANGED <<input, listed, xrtMap, ops, haspreempt, packetSyms, syms>>
    BY <1>8 DEF AddPreemptionCode
  <2>3. QED
    BY <2>1, <2>2, EnterStep
<1>9. CASE RejectPreempt
  BY <1>9, FailStep DEF RejectPreempt, Errors
<1>10. CASE Restore
  <2>1. "preempt_restore" \in Sections /\ "preempt_save" \in LibSections
    BY DEF Sections, LibSections
  <2>2. /\ stage = "preempt_save" /\ Enter("preempt_restore")
        /\ UNCHANGED <<input, listed, xrtMap, ops, haspreempt, packetSyms, syms>>
    BY <1>10 DEF Restore
  <2>3. cols \in DOMAIN Prebuilt
    BY <2>1, <2>2 DEF TxnInv, TxnTypeOK
  <2>4. QED
    BY <2>1, <2>2, <2>3, EnterStep
<1>11. CASE Resize
  BY <1>11, ResizeStep
<1>12. CASE UNCHANGED vars
  <2>1. /\ UNCHANGED <<flow, version, json, cols, dmaIndex, listed, xrtMap, stage>>
        /\ UNCHANGED <<ops, regs, loadseq, pm, packetSyms, syms>>
    BY <1>12 DEF vars, input, walk
  <2>2. TxnTypeOK' /\ InOrder' /\ CountsDown' /\ FromWrites' /\ LastWritten'
    BY <2>1 DEF TxnInv, TxnTypeOK, IsSym, InOrder, CountsDown, FromWrites, LastWritten, Counts
  <2>3. AllPlaced' /\ ImagesPlaced' /\ Sequenced'
    BY <2>1 DEF TxnInv, AllPlaced, ImagesPlaced, Sequenced, Failed, Counts
  <2>4. Measured'
    BY <2>1 DEF TxnInv, Measured, Failed, ForBuffer, LengthAt, ScratchSized, SymsOf
  <2>5. MapRight'
    BY <2>1 DEF TxnInv, MapRight, arg_offset, FirstListed, NameOf
  <2>6. Named'
    BY <2>1 DEF TxnInv, Named, ByPatch, ShimName, Known, arg_offset
  <2>7. QED
    BY <2>2, <2>3, <2>4, <2>5, <2>6 DEF TxnInv
<1>13. QED
  BY <1>1, <1>2, <1>3, <1>4, <1>5, <1>6, <1>7, <1>8, <1>9, <1>10, <1>11, <1>12
     DEF Next, set_args, Ended

LEMMA TxnAlways == Spec => []TxnInv
<1>1. Init => TxnInv
  BY TxnInitially
<1>2. TxnInv /\ [Next]_vars => TxnInv'
  BY TxnStep
<1>3. QED
  BY <1>1, <1>2, PTL DEF Spec

-----------------------------------------------------------------------------
(***************************************************************************)
(* The properties.                                                         *)
(***************************************************************************)
LEMMA InSequenceIs ==
  /\ \A k, n : LastLoad(k, n) <=> LastLoadIn(ops.ctrltext, k, n)
  /\ \A n : InSequence(n) <=> Announced(ops.ctrltext, n)
  /\ \A section, m, a : Writes(section, m, a) <=> WritesIn(section, ops[section], m, a)
<1>1. \A k, n : LastLoad(k, n) <=> LastLoadIn(ops.ctrltext, k, n)
  BY DEF LastLoad, LastLoadIn
<1>2. \A n : InSequence(n) <=> Announced(ops.ctrltext, n)
  BY <1>1 DEF InSequence, Announced
<1>3. \A section, m, a : Writes(section, m, a) <=> WritesIn(section, ops[section], m, a)
  BY <1>2 DEF Writes, WritesIn
<1>4. QED
  BY <1>1, <1>2, <1>3

LEMMA PlacedThen ==
  ASSUME TxnInv, version = "plain"
  PROVE  PatchPlaced
<1> SUFFICES ASSUME ~ Failed, NEW section \in Sections, NEW n \in DOMAIN ops[section],
                    ops[section][n].op = "patch", Patchable(ops[section][n].word)
             PROVE  \E m \in 1 .. n - 1 :
                      LET first == Descriptor(ops[section][n])[2] - ops[section][m].word
                      IN  /\ Writes(section, m, Descriptor(ops[section][n]))
                          /\ \A k \in m + 1 .. n - 1 : ~ Writes(section, k, Descriptor(ops[section][n]))
                          /\ Cardinality(SymsBy(section, n)) = 1
                          /\ \A s \in SymsBy(section, n) :
                               s.at[1] = m /\ s.at[2] \in first .. first + 1
  BY DEF PatchPlaced
<1>1. PlacedIn(section, ops[section], syms, n)
  BY DEF TxnInv, AllPlaced, Counts
<1>2. SymsBy(section, n) = By(syms, section, n)
  BY DEF SymsBy, SymsOf, By
<1> DEFINE a == Descriptor(ops[section][n])
           near(m, s) == /\ s.at[1] = m
                         /\ s.at[2] \in a[2] - ops[section][m].word .. a[2] - ops[section][m].word + 1
<1>3. PICK m \in 1 .. n - 1 :
        /\ LastWriter(section, ops[section], m, n, a)
        /\ \E s : By(syms, section, n) = {s}
        /\ \A s \in By(syms, section, n) : near(m, s)
  BY <1>1 DEF PlacedIn
<1>4. Writes(section, m, a) /\ \A k \in m + 1 .. n - 1 : ~ Writes(section, k, a)
  BY <1>3, InSequenceIs DEF LastWriter
<1>5. Cardinality(SymsBy(section, n)) = 1
  <2>1. PICK s : By(syms, section, n) = {s}
    BY <1>3
  <2>2. Cardinality({s}) = 1
    BY FS_Singleton
  <2>3. QED
    BY <1>2, <2>1, <2>2
<1>6. QED
  BY <1>2, <1>3, <1>4, <1>5

LEMMA ImagesThen ==
  ASSUME TxnInv, version = "plain"
  PROVE  PmPlaced
<1> SUFFICES ASSUME ~ Failed, NEW n \in DOMAIN ops.ctrltext,
                    ops.ctrltext[n].op = "blockwrite", ops.ctrltext[n].word \in ShimBDs
             PROVE  LET images == {s \in SymsBy("ctrltext", n) : s.name[1] = "pm"}
                    IN  /\ (images # {}) = InSequence(n)
                        /\ \A s \in images :
                             \E k \in 1 .. n - 1 : LastLoad(k, n) /\ s.name = <<"pm", ops.ctrltext[k].id>>
  BY DEF PmPlaced
<1>1. ImageIn(ops.ctrltext, syms, n)
  BY DEF TxnInv, ImagesPlaced
<1>2. {s \in SymsBy("ctrltext", n) : s.name[1] = "pm"} = Images(syms, n)
  BY DEF Images, SymsBy, SymsOf, By
<1>3. /\ Images(syms, n) # {} <=> Announced(ops.ctrltext, n)
      /\ \A s \in Images(syms, n) :
           \E k \in 1 .. n - 1 : LastLoadIn(ops.ctrltext, k, n) /\ s.name = <<"pm", ops.ctrltext[k].id>>
  BY <1>1 DEF ImageIn
<1>4. (Images(syms, n) # {}) = InSequence(n)
  <2>1. InSequence(n) \in BOOLEAN /\ (Images(syms, n) # {}) \in BOOLEAN
    BY DEF InSequence
  <2>2. Images(syms, n) # {} <=> InSequence(n)
    BY <1>3, InSequenceIs
  <2>3. QED
    BY <2>1, <2>2
<1>5. QED
  BY <1>2, <1>3, <1>4, InSequenceIs

LEMMA NamesDiffer == \A n : Arg(n) # ControlPacket
<1>1. \A n : Arg(n)[1] = "arg"
  BY DEF Arg
<1>2. ControlPacket[1] = "control-packet"
  BY DEF ControlPacket
<1>3. QED
  BY <1>1, <1>2

(* An index the map knows was listed, and the first listing names it.      *)
LEMMA FirstListing ==
  ASSUME MapRight, json = "external", NEW arg \in DOMAIN xrtMap
  PROVE  \E n \in DOMAIN listed :
           listed[n].xrt = arg /\ FirstListed(n) /\ xrtMap[arg] = NameOf(listed[n])
<1>1. listed \in Seq(Buffers \cup Patches) /\ DOMAIN listed = 1 .. Len(listed) /\ Len(listed) \in Nat
  BY DEF MapRight
<1> DEFINE S == {n \in DOMAIN listed : listed[n].xrt = arg}
<1>2. S \in SUBSET Nat /\ S # {}
  BY <1>1 DEF MapRight
<1>3. PICK n \in S : \A m \in S : n <= m
  <2> HIDE DEF S
  <2>1. QED
    BY <1>2, LeastNumber
<1>4. FirstListed(n)
  <2>1. ASSUME NEW m \in 1 .. n - 1, listed[m].xrt = listed[n].xrt
        PROVE  FALSE
    <3>1. n \in 1 .. Len(listed) /\ m \in 1 .. Len(listed) /\ m < n
      BY <1>1
    <3>2. m \in S
      BY <1>1, <2>1, <3>1
    <3>3. n <= m
      BY <1>3, <3>2
    <3>4. QED
      BY <3>1, <3>3
  <2>2. QED
    BY <2>1 DEF FirstListed
<1>5. QED
  BY <1>4 DEF MapRight

LEMMA PacketNamedThen ==
  ASSUME TxnInv
  PROVE  ControlPacketNamed
<1> SUFFICES ASSUME NEW s \in syms, ByPatch(s), s.schema = "shim_dma_48"
             PROVE  LET arg == ops.ctrltext[s.by].arg
                    IN  (s.name = ControlPacket) <=>
                          \/ json = "dma" /\ arg = dmaIndex
                          \/ /\ json = "external"
                             /\ \E n \in DOMAIN listed :
                                  /\ listed[n].xrt = arg /\ listed[n].ctrl
                                  /\ \A m \in 1 .. n - 1 : listed[m].xrt # arg
  BY DEF ControlPacketNamed
<1> DEFINE arg == ops.ctrltext[s.by].arg
<1>1. s.name = ShimName(<<>>, arg) /\ MapRight
  BY DEF TxnInv, Named
<1> HIDE DEF arg
<1>2. s.name = IF arg \in DOMAIN xrtMap THEN xrtMap[arg] ELSE Arg(arg + arg_offset)
  BY <1>1 DEF ShimName, Known
<1>3. CASE json = "dma"
  <2>1. xrtMap = DmaNames(dmaIndex)
    BY <1>1, <1>3 DEF MapRight
  <2>2. dmaIndex \in DOMAIN xrtMap
    BY <2>1 DEF DmaNames
  <2>3. arg \in DOMAIN xrtMap => xrtMap[arg] = IF arg = dmaIndex THEN ControlPacket ELSE Arg(arg + 3)
    BY <2>1 DEF DmaNames
  <2>4. (s.name = ControlPacket) <=> arg = dmaIndex
    BY <1>2, <2>2, <2>3, NamesDiffer
  <2>5. QED
    BY <1>3, <2>4 DEF arg
<1>4. CASE json = "external"
  <2>1. ASSUME NEW n \in DOMAIN listed, listed[n].xrt = arg, \A m \in 1 .. n - 1 : listed[m].xrt # arg
        PROVE  s.name = NameOf(listed[n])
    <3>1. arg \in DOMAIN xrtMap /\ FirstListed(n)
      BY <1>1, <1>4, <2>1 DEF MapRight, FirstListed
    <3>2. QED
      BY <1>1, <1>2, <1>4, <2>1, <3>1 DEF MapRight
  <2>2. ASSUME s.name = ControlPacket
        PROVE  \E n \in DOMAIN listed :
                 /\ listed[n].xrt = arg /\ listed[n].ctrl
                 /\ \A m \in 1 .. n - 1 : listed[m].xrt # arg
    <3>1. arg \in DOMAIN xrtMap /\ xrtMap[arg] = ControlPacket
      BY <1>2, <2>2, NamesDiffer
    <3>2. PICK n \in DOMAIN listed :
            listed[n].xrt = arg /\ FirstListed(n) /\ xrtMap[arg] = NameOf(listed[n])
      BY <1>1, <1>4, <3>1, FirstListing
    <3>3. listed[n].ctrl
      BY <3>1, <3>2, NamesDiffer DEF NameOf
    <3>4. QED
      BY <3>2, <3>3 DEF FirstListed
  <2>3. ASSUME NEW n \in DOMAIN listed, listed[n].xrt = arg, listed[n].ctrl,
               \A m \in 1 .. n - 1 : listed[m].xrt # arg
        PROVE  s.name = ControlPacket
    BY <2>1, <2>3 DEF NameOf
  <2>4. QED
    BY <1>4, <2>2, <2>3 DEF arg
<1>5. CASE json \notin {"dma", "external"}
  <2>1. s.name # ControlPacket
    BY <1>1, <1>2, <1>5, NamesDiffer DEF MapRight
  <2>2. QED
    BY <1>5, <2>1
<1>6. QED
  BY <1>3, <1>4, <1>5

LEMMA NamesAgreeThen ==
  ASSUME TxnInv, json = "dma" => flow = "direct"
  PROVE  ArgNamesAgree
<1> SUFFICES ASSUME NEW s \in syms, NEW t \in packetSyms,
                    ByPatch(s), ops.ctrltext[s.by].arg = t.arg, s.name # ControlPacket
             PROVE  s.name = t.name
  BY DEF ArgNamesAgree
<1>1. MapRight /\ t.name = Arg(t.arg + arg_offset)
  BY DEF TxnInv, MapRight
<1>2. s.name = IF s.schema = "shim_dma_48" THEN ShimName(<<>>, t.arg) ELSE Arg(t.arg + arg_offset)
  BY DEF TxnInv, Named
<1>3. CASE s.schema = "shim_dma_48" /\ t.arg \in DOMAIN xrtMap
  <2>1. s.name = xrtMap[t.arg]
    BY <1>2, <1>3 DEF ShimName, Known
  <2>2. CASE json = "dma"
    <3>1. arg_offset = 3
      BY <2>2 DEF arg_offset
    <3>2. s.name = IF t.arg = dmaIndex THEN ControlPacket ELSE Arg(t.arg + 3)
      BY <1>1, <1>3, <2>1, <2>2 DEF MapRight, DmaNames
    <3>3. QED
      BY <1>1, <3>1, <3>2
  <2>3. CASE json = "external"
    <3>1. PICK n \in DOMAIN listed :
            listed[n].xrt = t.arg /\ FirstListed(n) /\ xrtMap[t.arg] = NameOf(listed[n])
      BY <1>1, <1>3, <2>3, FirstListing
    <3>2. QED
      BY <1>1, <2>1, <3>1 DEF NameOf
  <2>4. QED
    BY <1>1, <1>3, <2>2, <2>3 DEF MapRight
<1>4. CASE ~ (s.schema = "shim_dma_48" /\ t.arg \in DOMAIN xrtMap)
  BY <1>1, <1>2, <1>4 DEF ShimName, Known
<1>5. QED
  BY <1>3, <1>4

(* Every operation met, symbol and section is one the transaction knows.   *)
THEOREM TxnTypeCorrect == Spec => []TxnTypeOK
<1>1. TxnInv => TxnTypeOK
  BY DEF TxnInv
<1>2. QED
  BY <1>1, TxnAlways, PTL

(* process_txn and the walk of the prebuilt code put what is to be patched *)
(* into the last block write of the descriptor; in a load sequence of the  *)
(* control code there is none, for the sequence is counted down.           *)
THEOREM PatchesPlaced == Spec => [](version = "plain" => PatchPlaced)
<1>1. TxnInv => (version = "plain" => PatchPlaced)
  BY PlacedThen
<1>2. QED
  BY <1>1, TxnAlways, PTL

(* process_txn gives a PM image to the block writes of its load sequence   *)
(* that go to a shim descriptor, and to no others.                         *)
THEOREM ImagesInSequence == Spec => [](version = "plain" => PmPlaced)
<1>1. TxnInv => (version = "plain" => PmPlaced)
  BY ImagesThen
<1>2. QED
  BY <1>1, TxnAlways, PTL

(* process_txn refuses a patch as part of a load sequence only when one    *)
(* was announced that the patch belongs to.                                *)
THEOREM RejectedRightly == Spec => [](version = "plain" => RejectedInSequence)
<1>1. TxnInv => (version = "plain" => RejectedInSequence)
  BY InSequenceIs DEF TxnInv, Sequenced, RejectedInSequence
<1>2. QED
  BY <1>1, TxnAlways, PTL

(* resize_scratchpad leaves every symbol of a section with a size that     *)
(* covers all of them; the symbols of the control code keep their own.     *)
THEOREM ScratchCovers == Spec => []ScratchSized
<1>1. TxnInv => ScratchSized
  BY DEF TxnInv, Measured
<1>2. QED
  BY <1>1, TxnAlways, PTL

(* patch_shimbd and readmetajson: an address is that of the control packet *)
(* exactly when the JSON says so, in every flow.                           *)
THEOREM PacketNamed == Spec => []ControlPacketNamed
<1>1. TxnInv => ControlPacketNamed
  BY PacketNamedThen
<1>2. QED
  BY <1>1, TxnAlways, PTL

(* The control code and the control packet call an argument by one name,   *)
(* if a "dma" JSON comes from the command line: its names have the offset  *)
(* of that flow built in.                                                  *)
THEOREM NamedAlike == Spec => []((json = "dma" => flow = "direct") => ArgumentsNamed)
<1>1. TxnInv => ((json = "dma" => flow = "direct") => ArgumentsNamed)
  BY PacketNamedThen, NamesAgreeThen DEF ArgumentsNamed
<1>2. QED
  BY <1>1, TxnAlways, PTL
=============================================================================
