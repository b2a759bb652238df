# A formal model of the aiebu assembler

aiebu turns control code for AMD AI engines into ELF files.  It has two
pipelines behind one interface (`aiebu_assembler.cpp`):

* **AIE2PS / AIE4**: an assembly text is parsed into columns and label groups,
  every label group is cut into pages of 8 KB that the job runner of a column
  loads one after the other, the pages are encoded, and an ELF writer puts them
  into sections with relocations.
* **AIE2**: a transaction buffer, a DPU sequence, a config JSON or a small
  assembly text is walked through operation by operation, the places the
  runtime has to patch become symbols, and an ELF writer emits them.

The assembler is sequential.  What is hard in it are not interleavings but long
sequences: one pass over a list decides, job by job, what goes on which page;
each decision depends on closures over barriers, launches and labels, on sizes
accumulated over many jobs, and on indices kept relative to two different
origins; and later phases (the column preprocessor, the encoder) rely on what
the earlier ones left behind.  The models are therefore state machines whose
steps are the iterations of these loops, over *all* programs of a small size.
What it *emits* is concurrent: the prebuilt save and restore code runs on tiles
whose DMA channels move words on their own, so the generators of that code are
checked by executing what they generate with every interleaving.

## Inventory

| component | state | operations | hard behaviour | what makes it correct |
|---|---|---|---|---|
| pager (`preprocessor/asm/pager.cpp`) | page being filled, its sizes, page number of every job, pages vector | `pagify`, `assignpagenumber`, `extractjobs`, `extractlabels`, `getdatasectionsize` | closures, padding, concluding a page in the middle of a job, `.eop`, last page | pages fit; barrier peers together; nothing lost; nothing twice; lengths chained |
| column preprocessor (`aie2ps_preprocessor.h`) | pages of all label groups, base of the current group, page index map, scratch pad offsets | `process_internal` | two index origins; branches to groups without pages; rounding | page numbers; branch targets; pads apart |
| encoder (`aie2ps_encoder.cpp`, `aie4_encoder.h`) | sections, symbols | `process`, `page_writer`, `fill_scratchpad`, `patch57` | names lose their file on a page | accepts what the pager emits; pads filled where the code expects them |
| assembler state (`assembler_state.cpp`) | maps of jobs, labels, barriers, launches; current job and label | `process`, `parse_num_arg` | directives outside a job, data counted line by line | the program record is the source |
| assembly parser (`asm_parser.cpp`) | columns, current column and label, section and data-state stacks | directives `.attach_to_group`, `.section`, `.include`, `.setpad`, `.partition`, `.endl`, ... | nested labels and includes | every line lands in its group |
| operations (`ops/ops.cpp`) | none of their own; the page's state | sizes and bytes of instructions, descriptors, words; `apply_offset_57` | tables are found by counting on in the page's list of labels | the size counted is the size written; the tables named are patched |
| AIE2 transaction preprocessor (`aie2_blob_preprocessor_input.cpp`) | position, block-write map, load sequence, symbols | `process_txn`, `process_txn_opt`, `patch_helper`, JSON readers, DPU walk | two walks that should agree; patches that refer to earlier block writes | each patch names its own block write |
| AIE2 assembly (`aie2_asm_preprocessor_input.cpp`) | buffer being encoded, words a block write still takes | `encode`, extension operations | block writes span lines, only one column is assembled | the buffer decodes to the source |
| prebuilt code (`src/lib/src/gen-preemption.cpp`, `gen-copy.cpp`) | the transaction being recorded; on the device descriptors, queues, routes, tokens | `MEM_Tile_Save_Context`, `MEM_Tile_Restore_Context`, `generate_tran`, the two copies | channels of several tiles run at once; save and restore reuse descriptors; another context in between | memory restored, syncs passed only when all has arrived |
| configuration (`controlcode_config_preprocessor_input`) | kernel map | kernels, PDIs, instances of a JSON | kernels named by several entries | nothing lost |
| ELF writers (`elf/`) | sections, string and symbol tables, relocations, groups | `process`, `process_common_helper`, `add_dynamic_section_segment`, ... | everything is found by name; indices across sections and instances | relocations name the symbol of their argument; groups divide the sections |
| transaction analyzer and reporter (`analyzer/`) | position, counters | `count_txn_ops`, `stringify_txn` | the same walk as the preprocessor, two versions | ends where the transaction ends; what is printed can be assembled |
| debug map and report (`encoder/aie2ps/report.*`) | functions, lines | `generate_report` | | |
| C and C++ API, CLIs (`assembler/`, `utils/`) | none | dispatch on the buffer type | | |
| Python assembler (`src/python`) | as the C++ one | an older implementation of the AIE2PS pipeline | the two pagers differ | |

How they interact: the parser calls nothing back and hands `asm_data` lists,
grouped by column and label, to the preprocessor; for each group the
preprocessor makes an assembler state and a pager, which appends pages to a
vector shared by the column's groups; the encoder reads the pages and makes an
assembler state of its own for each of them; writers read the encoder's
sections and symbols.  All are plain calls; the shared state is the pages
vector, the page index map and the scratch pad map of a column.

`PROJECT.json` lists every component with its status, and every hazard with its
line.

## Modules

| module | models | extends |
|---|---|---|
| `JobGraph` | the recorded program and the closures over it: `extractjobs`, `extractlabels`, `extractjobsandlabels` | |
| `Pager` | `pagify` and `assignpagenumber` | `JobGraph` |
| `PageStream` | abstract specification: groups of peers placed on pages that are shipped in order | |
| `ColumnPager` | `process_internal` for one column, then the encoder's acceptance of the pages and the filling of the pads | `Pager` |
| `TxnPreprocessor` | `aie2_blob_preprocessor_input::set_args`: the readers of the two kinds of JSON, the walk over a transaction (`process_txn`, `process_txn_opt`, `patch_helper`), the preemption code, `resize_scratchpad` | |
| `AsmParser` | `asm_parser::parse_lines` with all directives and includes | |
| `AssemblerState` | `assembler_state::process` | `JobGraph` |
| `PageWriter` | the encoder for one column: layout of a page with its ordered labels, text, data, `apply_offset_57`, `patch57`, pads, control packet | |
| `ElfWriter` | config JSON to kernels and instances, the encoder's writers of each, then `elf_writer` of the AIE2 and the assembly flows | |
| `ControlCode` | the encoder's writers of a column handed to the ELF writer | `ElfWriter`, `PageWriter` |
| `Aie2Asm` | the AIE2 assembler (`encode`), the analyzer's counting and printing walks, and assembling what was printed | |
| `DmaMachine` | *external*: tiles, streams, descriptors, channels, tokens, the control processor, as far as the generated code uses them | |
| `GenPreemption` | the generators of save and restore, with a context that is preempted, replaced and resumed | `DmaMachine` |
| `GenCopy` | the generators of the two copies | `DmaMachine` |
| `ColumnPagerProofs` | theorems about the closures and the pager, that it implements `PageStream`, and about a column | `ColumnPager` |
| `PageWriterProofs` | a theorem about the pages that are written | `ControlCode` |
| `TxnProofs`, `AssemblerStateProofs`, `AsmParserProofs`, `ElfWriterProofs`, `Aie2AsmProofs`, `GenPreemptionProofs` | theorems | the module of the name |
| `MCPager` with `MCPages`, `MCDeferred`; `MCColumnPager`; `MCTxn`; `MCAsmParser`; `MCAssemblerState`; `MCAie2Asm`; `MCPreemption`; `MCElfWriter` | small instances | |

How the state and the actions correspond to the code:

**`JobGraph`.** A program is what `assembler_state` has recorded of a label
group: `ids` is `m_jobids` with its `.eop` and `EOF` entries, `lbs` and
`launch` are the barriers and launches of the jobs, `refs` the labels a job
names, `lrefs` the labels named by the data of a label, `entries` the further
labels of its patch table, `kind` whether a label is defined and has an
alignment, `ooo` the branches to other label groups.  Sizes are functions from
*sets* of jobs or labels to bytes, so that what the code accumulates line by
line need not be summed in the model.  The code's closures are worklists and
recursions; the model states their results as the least set closed under one
step (`Reach`), and states their errors and their endless recursions as
predicates.

**`Pager`.** One step is one iteration of the loop of `pagify`, and each way
through its body is an action: `SkipJob`, `SkipEop`, `ConcludeAtEop`,
`AddToPage`, `StartNextPage`, `RejectJob`, `CrashOnJob`, `RejectNoEof`, and
behind the loop `ConcludeLast` or `MarkLast`.  `Conclude` is
`assignpagenumber`, with the length of the page, the chaining into the page
before, the page numbers of the jobs and the missing `EOF`.

**`ColumnPager`.** `rel` and `Len(pages)` are the code's `relative_page_index`
and `pages.size()`.  The stages follow `process_internal` (groups, pads,
branches) and then the encoder (encoding, filling).  Names drop their file
through `JobName` and `LabelName`, as they do when the encoder reads a page
with `makeunique = false`.

**`TxnPreprocessor`.** The operations are chosen one at a time and kept in
`ops`; `regs` is `blockWriteRegOffsetMap`, `loadseq` and `pm` the counter and
the id of a PM load sequence, `xrtMap` `xrt_id_map`, `packetSyms` and `syms`
the symbols of the control packet and of the sections of code.  Register
addresses are a tile and a word; the two walks are one with `Optimized` where
they differ.

**`AsmParser`.** One step is one line; an "end" line is the end of the file
being read, at the depth of its include.  `states` is `isdatastack`, `label`
the components of `m_current_label`, `col` is `m_current_col` (`NoCol` for -1),
and `cols`, `groups`, `pageLabels`, `pads` are what `m_col` holds.  Lines are
known by their number, and every line keeps the data state it met, so that the
properties can look back.  The eof that `.attach_to_group` inserts, and the
fresh `col_data` it leaves behind whatever the column held, are parts of
`Attach`.

**`AssemblerState`.** One step is one iteration of the loop of `process`, and
`Resolve` what follows it.  The maps keep their names.  The end of a job is its
start until an `END_JOB` sets it, a label counts every line but `.align`, `.eop`
and `eof`, and directives outside a job are `CrashOutside`.  `Program` is the
record as the pager reads it, in the form `JobGraph` takes: the text and labels
of a job from its first to its last line, the data of a label by its count.
`ProgramRecorded` compares it with a definition that looks only at the lines;
with it, what `Pager` assumes of its programs is what the scan makes.

**`PageWriter`.** The pages and their groups of jobs are given (they are what
`Pager` makes); a group's labels are collected anew, as lists, because their
order is what `apply_offset_57` depends on.  `TakeGroup` is a round of `pagify`
seen from the labels, `Assign` is `assignpagenumber` with
`labelalignmentsorter`; labels that data name are followed to the depth there are
labels (`LabelsFrom`), which is all of them where `extractlabels` comes back; `WriteOp` and `WriteApply` are one round of
`isa_op_serializer::serialize` each (`RejectApply` the label that is not there),
`WriteLabel` the data, `Patch` one call of `patch57`, `EndPage` the end of
`page_writer`, `WritePads` the section of the pads with the symbols of the
control packet.  Data are words; an address is spread over the words of
`AddressWords`, and `Field` says how many values each takes, so two values stand
for the 9 and 16 bits and a carry from one to the next happens.  What the source says
of a table is defined without the code's lists: `SetsGivenBy` counts sets of nine words from
`table_ptr` on through the words of the source, whatever labels they are under, and `SourceDone`
asks that these places, and no others, are named and patched.  `TablesPatched` and `SetsPatched` claim
`SourceDone` for different sources.

**`ElfWriter`.** Three phases.  Reading: `ReadKernel` is one entry of the JSON
with its PDIs and instances, `RejectPdis` and `EndOfConfig` what may follow the
last.  Encoding: `EncodeKernel`, `EncodeInstance` and `EncodeCode` append a task
with its section writers to `plan`, in the order of the encoder's loops;
`RejectPartition` is `check_partition_info`, `EncodeNothing` the configuration
without a first instance.  Writing: `StartElf` makes the tables, `Start` begins a
`process_common_helper` call for a kernel or an instance, `PassOver` leaves out a
writer without bytes, `AddSection` adds one with its load segment, `AddSymbols` the
relocations of one instance through the map of first keys, `AddGroup` its group,
`EndOfCommon` ends the common data of a kernel, `Finalize` adds the dynamic
section.  Sections remember (`of`) the task and the writer they were made for,
which the code does not; the properties compare with that.

**`Aie2Asm`.** `stage` is "parse", "assemble", "count", "print" and back to
"parse" for what was printed.  One step is one line or one operation.
`outstanding` is how many words a block write still takes;
`Accepts` and `Fits` are what the operand parsers let through, `ReadBytes` the types they read
into and `StoredBytes` the fields of the structures, where the two differ `Cut` drops
the upper bytes; `ptr` and `num` are the
analyzer's position and count.

**`DmaMachine`, `GenPreemption`, `GenCopy`.** The generators are operators that
give the list of operations as the code records them, in its order, for each
column and channel; `MCTransactions` gives these lists to the machine and the
assumption `TransactionsAssumption` says that they are the generators'.  The
machine executes an operation at a time (`pc`) while every channel moves words on
its own.  What it assumes of the hardware: a descriptor is read when a task is
started, not when it is queued; a token is sent only if the start asks for one
and goes to the controller whose id the channel was given; words wait in a stream
of `FIFO_DEPTH` until something is routed to take them; a reset of the partition
clears routes, descriptors, channels and tokens and leaves the memories.
`Preempt`, `Switch` and `Resume` are the host: the context's memory is filled
with new words, saved, overwritten by another context with or without a reset,
and restored.

**`ControlCode`.** `HandOver` is `assembler::process` between encoder and ELF
writer: the writers of one column become the single instance of a code without
kernel.  A configuration starts with `ElfWriter`.

## What is checked

Every run explores *all* behaviours of its instance.

| run | what it asks | instance |
|---|---|---|
| `pager` | pages fit, the last one is marked, barrier peers stay together, nothing is lost, nothing placed twice, `.eop` ends a page, data stay with their text; the pager implements `PageStream` | all programs of four families, 36 184 of them |
| `column_groups` | page numbers, completeness, the chain within a group, branch targets, and the encoder's acceptance | three label groups, one possibly empty or last, with branches between them and three pads |
| `txn` | every patch lands in the descriptor it names, every PM image in its sequence; the sequence error is only given for what it says; arguments and scratch pads | up to five operations of fifteen, on two tiles; and up to three of twenty-two behind up to two buffers or patches of a JSON of each kind |
| `parser` | every line is in the one list it was written for; the stack of data states covers the open files | every source of five lines of twenty, includes two deep |
| `state` | the record is the one the lines say; what crashes | every label group of five lines of eighteen kinds, up to exchanging jobs or labels |
| `preempt` | a resumed context finds its memory; syncs are passed exactly when all is done; descriptors are not rewritten under a task; contexts resume and copies arrive | one column preempted twice with or without a reset, two columns once with a reset, both copies; two words of memory, streams of one |
| `asm_txn` | the buffer says what the source says, operand by operand; only the last column; the analyzer's walk ends with the transaction; what it prints assembles to the same | every source of four lines of eighteen; every transaction of two operations out of sixteen in two versions |
| `elf` | pages as long as announced with descriptors aligned; tables whose sets have labels named and patched as the source says; every relocation, segment and group is the one it was made for; an instance's group, found through the symbol table, has the sections of the last instance of its name | configurations of two entries with one kernel or two, up to two instances and PDIs each, of both flows; columns of two jobs with any two of 29 lines on three layouts of pages and labels, both devices |
| `pager_twice`, `column_pads`, `txn_opt`, `elf_sets` | what the source says and the code does not do (see below) | |

**Why these bounds.** The pager's page is 96 bytes: a header of 16, an eof of 4
and padding to 16 leave room for two or three small jobs and their data, so
with three jobs a page is concluded by size, by `.eop`, and by the end of the
source, in every order; sizes 12, 24, 44 and data of 16, 20 and 28 bytes reach
every remainder the padding distinguishes.  Three jobs are what a barrier
closure needs to be indirect (two barriers, the middle job in both); a job that
launches itself, one that is missing, and a launch cycle are among the
relations.  A column of three groups has a group in front, one in the middle
and one at the end, which is all the two index origins can tell apart.  Five
transaction operations are a load of a PM image with a sequence of two, a
block write and a patch behind it; two operations on the same descriptor and
one patch need three.  `Range32` (255) stands for 2^32 - 1 and bounds the
addend; `MAX_ARG_INDEX` is the code's 512.  Five lines of a source are two
nested labels, their ends and a line behind them, an include in an include with
a switch of the state in it, or a column left and attached to again.  Five lines
of a label group are two jobs that share a barrier, a job with its end and a
label behind it, or a table applied before its two labels.  The two jobs, and
the two labels, of `state` are used alike by all lines, which makes the symmetry
sound (no liveness is checked there).

Two words in a memory tile are one for each of its two channels, which is how
the generators divide it, and a stream of one word makes a sender wait for its
receiver.  One context saved twice meets the descriptors of its own earlier save
and restore; two columns meet each other's tokens.  Four lines of an AIE2 source
are a column, a block write that announces two words, and the words or
something else behind it; two operations of a transaction are a wrong step and
what it lands on.  The number of values that *n* bytes hold is a parameter
(`Capacity`, 256^n in the program); with 4^n an operand of every width is below, at and
beyond its limit.  Two kernels of two instances are the smallest configuration
in which suffixes run on over kernels; names of arguments are shared between
instances.  A page of 192 bytes holds two jobs with a table each; three labels
are a table, what may come between it and its next entry, and that entry; the
two places of the pads make every address field of the small tables carry.

**Fairness.** The run `preempt` assumes only that something happens while anything can (`WF` of the
whole next-state relation): what the channels and the host can do in a row is
bounded by the words of the transaction and the number of rounds, so no fairness
of a single channel is needed.  The assembler itself is a sequence of loops that nothing holds up; that they end is no
claim of a property.  The two recursions of the pager that do not end are the action
`CrashOnJob`, whose guard is that there is such a cycle.
Where a run stops (`done`, `error`, `crashed`) the specification stutters
through `Ended`.

## Findings

Each is a run in which a property taken from the source fails.

* **`pager_twice`** `extractjobsandlabels` does not know what is on the page
  already.  A job that stands before a job that launches it is put on the page
  twice, although the comment above the call says that jobs and labels on the
  page are not returned a second time; the encoder then refuses the page
  ("Job present multiple time in asm").  The same holds for a label that two
  independent jobs name, which `column_groups` reaches as `RejectPage`; the
  property `EncoderAcceptsPages` therefore claims acceptance only for pages
  without either.
* **`column_pads`** The preprocessor rounds pads to words, `fill_scratchpad`
  writes them back to back.
* **`txn_opt`** For header version 1.0 the counter of a load sequence is never
  counted down, so a patch anywhere behind it is refused.
* **`elf_sets`** isa-spec.md:408-410 and its example put all `num_entries` sets
  of a table one behind the other at `table_ptr`, under one label; the code takes the
  next *labels* of the page (ops.cpp:99-109).  Of such a table the second set is never
  patched, and the host is told of the label behind it; with no label behind it the
  source is rejected (`get_label_at`).  The tests use one entry.

### Observed, not run

Met while modelling, and left out of the properties' claims.

*Pager and encoder.*  Launches are followed from the job at hand only, not from
its barrier peers, so a launched job may end up on another page; a launch across
an `.eop` gets no error and pulls the job in front of the directive (`EopEndsPage`
excludes it).  Two files of one label group that both have a job 1 meet on a page
when both fit, which the encoder refuses (assembler_state.cpp:27-30 expects
names to be unique on a page).

*`APPLY_OFFSET_57`.*  When a line names an entry of a table by itself, or the data of
a label or another table does, another label may come between the table and its entry,
and that one is patched.  `TablesPatched` claims the tables whose sets have a label
each, of which no line names any but the first (`SetsLabelled`), and which all lines apply
with one count (`CountsAgree`).  Two applies with different counts share an entry of
`apply_label_map`, the later count stays (assembler_state.cpp:121); if that is the smaller one,
the pager leaves the further labels of the table behind, and the line with the larger one
patches whatever label comes next on its page.  A table that two applies on a page name is patched
for both.  An offset that is no number becomes a symbol, and `val` is still
`num_entries` when the offset is compared with the control packet's index and
written (ops.cpp:74-81).

*AIE2 transactions.*  In the flow from a config JSON the size of a PM image is
looked up in the instance and never found, so every image is too small.  The
names of a dma compiler JSON have the offset 3 built in, so with another argument
offset they differ from those of the control packet (`txn` gives such a JSON only
the flow it was made for); `validate_json` accepts an offset that equals the size
of the control packet.  A `DDR_PATCH` line without its last operand reads behind
the operands (aie2_asm_preprocessor_input.cpp:477).
`to_uinteger` rejects what does not fit its type (utils.h:193-195), but three operands are
read into a wider type than the field they are put in: the channel of a `TCT`
(aie2_asm_preprocessor_input.cpp:419; channel 256 becomes 0), the count of a
`LOAD_PM_START` (24 bits, :376-379) and the id of a `RECORD_TIMER` (:507).  The first
character of a register, an id or an addend is dropped, whatever it is (`substr(1)`,
:152, :380, :507): where the line has a decimal number without the prefix, its first digit is
lost without an error.  The model has both, and `EncodedAsWritten` leaves the value of such
operands open (`Intact`).  The analyzer indexes `op_count` with
an operation code it has not checked (transaction.cpp:125); it prints `LOADPDI`
without a separator (transaction.cpp:313-315) and `READ_REGS` as a word that reads as
a label (460-462), so neither can be assembled again (`Reassembles` excludes
them).

*Parser.*  `.attach_to_group -1` is taken for a column that was never attached to
(asm_parser.cpp:203 reads any integer; `ColsAssumption` excludes it).  An include
pushes one data state and pops one, but every `EOF`,
`.section`, `.attach_to_group` and `.setpad` with a file inside it pushes one
more: when a source includes, from its data, a file that ends in data, the lines
behind the `.include` are text.  A `.setpad` with a file makes text of what follows
it; an `.attach_to_group` drops what its column held, pads included; only `EOF` in
capitals begins the data; a `.align` inside the data of a label leaves as many of
its last lines unlaid, and a job without `END_JOB` has only its first line,
counted as 0 bytes (`ProgramRecorded` excludes both); lines outside every job and
label are never laid out.

*Prebuilt code.*  The copies wait for channel 1 of the shim's S2MM, which has
no task (gen-copy.cpp:121): they end before the words have arrived.  `CopyArrives`
therefore claims only that the words arrive.

*ELF.*  A section writer without bytes is passed over with its symbols, and all
symbols of an AIE2 instance hang on its first section by name; where that is an
empty `.ctrldata`, entered by `operator[]` at
aie2_blob_preprocessor_input.cpp:312, the instance has no relocations.  Two
kernels with a PDI of one number share a section name and both segments load the
first (`LoadsOwnSection` excludes it).  A first kernel without instances is
dereferenced (aie2_blob_encoder.h:51).  Of two instances of a name in a kernel the
last stays, and is what `InstancesKept` asks for.

## What is proved

Every theorem holds for all values of the constants: all programs, sources,
configurations or transactions of any length, not the small ones of the runs.

| module | theorem | statement |
|---|---|---|
| `ColumnPagerProofs` | `TypeCorrect` | `Spec => []TypeOK` |
| | `PagesFit` | `Spec => []PageFits`: no page exceeds the page size |
| | `BarriersNeverSplit` | `Spec => []BarriersStayOnPage` |
| | `NothingLost` | `Spec => []EveryJobPlaced` |
| | `NothingTwice` | `Spec => []PlacedOnce`: where closures are nested or apart, no job is placed twice |
| | `DataComesAlong` | `Spec => []DataWithJobs`: a page holds the labels its jobs need |
| | `LastMarkedOnce` | `Spec => []LastPageMarked` |
| | `EopsEndPages` | `Spec => [](DefinedOnce(prog) => EopEndsPage)` |
| | `PagerIsStream` | `Spec => ImplementsStream`: initial states and steps map to those of `PageStream` |
| | `ColumnTypeCorrect`, `ColumnPagesFit` | types; `PageFits` through all label groups |
| | `PagesNumbered` | `ColumnSpec => []PageNumbers` |
| | `ChainedWithinGroups` | `ColumnSpec => []ChainWithinGroups` |
| | `ColumnNothingLost` | `ColumnSpec => []ColumnComplete` |
| | `BranchesArrive` | `ColumnSpec => []BranchTargets` |
| | `EncoderAccepts` | `ColumnSpec => []EncoderAcceptsPages` |
| `TxnProofs` | `TxnTypeCorrect` | types, and a bound on the sizes of the symbols |
| | `PatchesPlaced` | `Spec => [](version = "plain" => PatchPlaced)` |
| | `ImagesInSequence` | `Spec => [](version = "plain" => PmPlaced)` |
| | `RejectedRightly` | `Spec => [](version = "plain" => RejectedInSequence)` |
| | `ScratchCovers` | `Spec => []ScratchSized` |
| | `PacketNamed` | `Spec => []ControlPacketNamed` |
| | `NamedAlike` | `Spec => []((json = "dma" => flow = "direct") => ArgumentsNamed)` |
| `AssemblerStateProofs` | `StateTypeCorrect` | types |
| | `CrashesOutside` | `Spec => []CrashesOutsideJobs` |
| | `BarriersBothWays` | `Spec => []BarriersRecorded`: both maps have the barriers of the lines |
| | `RecordIsOfTheLines` | `Spec => []ProgramRecorded` |
| `AsmParserProofs` | `StatesCovered` | `Spec => []StatesCoverFiles` |
| | `EveryLinePlaced` | `Spec => []LinesPlaced` |
| | `TextGoesOn` | `Spec => []TextAfterInclude` |
| `ElfWriterProofs` | `ElfInvariant` | `Spec => []ElfInv` |
| | `Relocations` | `Spec => []RelocationsResolve` |
| | `Segments` | `Spec => []LoadsOwnSection` |
| | `Groups` | `Spec => []GroupsDivideSections` |
| | `Kept` | `Spec => []InstancesKept`: a group for each instance named, with the sections of the last one of its name |
| `PageWriterProofs` | `WrittenAsAnnounced` | `ControlSpec => []PageAsAnnounced`: a page is as long as the pager said |
| `Aie2AsmProofs` | `AsmInvariant` | `Spec => []AsmInv` |
| | `LastColumn` | `Spec => []LastColumnEncoded` |
| | `WalksEnd` | `Spec => []WalkEndsAtSize` |
| | `SaidAsWritten` | `Spec => []EncodedAsWritten`: names, words, and the operands that fit their fields are those of the lines |
| | `AssemblesAgain` | `Spec => []Reassembles`: a printed transaction assembles to the same operations |
| `GenPreemptionProofs` | `GenInvariant` | `Spec => []GenInv` |
| | `MemoryIsRestored` | `Spec => []MemoryRestored` |
| | `SyncIsAfterData` | `Spec => []SyncAfterData` |
| | `DescriptorsAreStable` | `Spec => DescriptorsStable` (an action property) |

**Hypotheses.**  `version = "plain"` leaves out the header version 1.0, for which
`RejectedInSequence` is false (`txn_opt`) and where a sequence that never ends
takes patches and images beyond it.  `DefinedOnce(prog)`: two files of a group may
both define a job, and `ProgramsAssumption` does not exclude it.  A DMA JSON with a
configuration has names with the wrong offset (see above).

**Assumptions.**  They are those of the modules, and TLC evaluates each on the
runs: `PageSizeAssumption` (a multiple of 4; 8192 in the program),
`ProgramsAssumption` and `ColumnsAssumption` (well-typed, not well-formed),
`PseudoJobs` (`.eop` and `EOF` are no jobs), `TxnAssumption` (fields are
unsigned, a block write has a payload, the descriptors of shim and memory tiles lie
apart, the prebuilt code loads no PM images), `LinesBound`,
`NothingAssumption`, `EopAssumption` and `LinesAssumption` of the scan,
`LinesAssumption` and `ColsAssumption` of the parser, `KeysAssumption` and
`InputsAssumption` of the ELF writer (what the preprocessors hand on),
`WriterAssumption` and `ColumnsAssumption` of `PageWriter` (below),
`LinesAssumption`, `SizesAssumption` and `TransactionsAssumption` of the AIE2
assembler (a transaction from elsewhere is one that its generator closed),
`MachineAssumption`, `GeneratorAssumption` (a memory tile has an even number of
words, the columns of a context are columns of the partition),
`TransactionsAssumption` (the machine runs what the generators made) and
`ScratchPadAssumption` (the host patches both arguments with one scratch pad, as
`add_preemption_code` has it, and it is none of the memory tiles).

`PageWriter` is given what the pager has let through, and its `ColumnsAssumption`
says only that: the labels named are defined (`extractlabels` throws at others,
pager.cpp:127), a label stands before a descriptor or a word
(`getdatasectionsize`, pager.cpp:65, throws at anything else, and
`labelalignmentsorter` at a label it lost), a table does not run beyond the labels
of the column (`get_label_at`), and labels do not name each other in a circle, in
which `extractlabels` would not come back.  Whether the jobs, tables and pages make
sense is not assumed.

### The arguments

None of the properties is inductive.  Each module joins the property with what the
code relies on without saying so.

**Pager.**  `PagerInv` joins

* `TypeOK`;
* `OpenFits`: what is on the page being filled fits by the loop's own
  computation, with the padding for the sum of the text; `PageFits` then
  follows because the recorded length, rounded up to a word, is at most that
  sum (`LengthWithinFootprint`, which needs the page size to be a multiple
  of 4);
* `AllClosed`: every group, on the page being filled or on a concluded page,
  is closed under shared barriers;
* `Handled`: every job in front of the cursor has a page number or is on the
  page being filled, and `Recorded`: a job with a page number is on a page;
* `Finished`: when `status` is "done", the cursor is behind the last entry and
  nothing is left on the page being filled.

`PagerInvariant` goes through the ten actions one by one.  The closures enter
through `ReachClosed` and `ReachLeast`: a least closed set is closed and contained
in every closed set, which is the reason for writing `Reach` as an intersection of
closed sets and not as a recursion.

`StreamInv` adds where things come from: `AllSourced`, every group is what
`extractjobsandlabels` returns for a job in front of the cursor, and `Numbered`, a
job on a page has a page number, the converse of `Recorded`.  From `AllSourced`
follows `DataWithJobs`, since the labels of a group are a closure over all its jobs
and closures grow with what they start from (`NamedOfOne`).  With `Numbered` the
job at hand is on no page, so that in a program with nested closures its group
meets no earlier one (`NewGroupApart`): `Apart` is inductive, and `PlacedOnce` part
of it.  The counterexample of `pager_twice` is a program that is not nested.
`Marked` says that no page is marked before `pagify` returns and that in the first
label group `page_index` is the number of pages.  `EopsPassed` says that what is on
a page stands between two `.eop`s, because `ConcludeAtEop` empties the page and a
job is found at one place only.

`PagerIsStream` takes the steps apart by what they do to the mapped state:
`AddToPage` is `Place`, `StartNextPage` is `ShipAndPlace` (behind a page that is not
empty, by `OpenFits`), `ConcludeAtEop` is `Ship`, `ConcludeLast` and `MarkLast` are
`Complete`, the three rejections `Fail`, and the rest stutters.  That a group is
worth placing needs `Numbered` and the closure under barriers, that the stream is
complete needs `Handled` and `Recorded`.

**Column.**  The pager's invariant holds of one call of `pagify`; `ColumnInv` says
it again for a group behind `rel` pages of other groups (`Here`), and `GroupOn`
is what is left of it when the group is done: its pages are a segment of the
vector, chained among themselves, with all its jobs, the first job on the first of
them.  `Divided` says that the segments follow one another and cover the vector,
`PageNumbers` that both index origins agree, `BranchesHere` that the branches
resolved so far announce the first page of their group.  A step of the pager
disturbs only the last segment (`SamePage`), and `NextGroup` turns `Here` into
`GroupOn`.  `EncoderAccepts` then reads a page as the encoder does: names without
their file are unambiguous on a page of one file with groups apart, and the labels
its jobs name came along.

**Transactions.**  `TxnInv` joins `CountsDown` (the counter is what is left of the
sequence announced last), `FromWrites` and `LastWritten` (an entry of the register
map is the place of the *last* block write of that descriptor outside load
sequences), `AllPlaced` and `ImagesPlaced` (the properties for the operations
walked so far), `Sequenced`, `Measured`, `MapRight` and `Named`.  `PatchPlaced`
looks at operations that are never touched again, so what has to be shown is that
`patch_helper` finds the map as `LastWritten` says and that one more operation
changes nothing for those before it (`OneMore`).

**Scan.**  `JobAtHand`: `cjob` is the job that is open at the next line, by a
definition that looks only at the lines, and the scan has crashed if and only if
some line stood outside; `BarriersAtHand`: both maps have the barriers of the lines
so far.  The job that is open at a line is the last one that a line in front of it
turned to, so appending a line leaves those of earlier lines alone.
`RecordOK` says what the rest of the record is of the lines so far, while
`ProgramRecorded` only speaks of its end.  `JobSays`: the body of a job grows by a
line as long as the job is at hand, and the position is its start and the bytes of
its body, so the end its `end_job` sets is right, and no line behind that
changes it.  `LabelSays`: the lines behind a label are counted as long as no label or
job comes; a directive counts only once a line follows it (`DataIn`), and the count
is then one short, which is what `LabelsRecorded` excludes.  `IdsOfJobs`: a job stands
once in `m_jobids`, behind as many `.eop` as were counted (their names are no
job's, by `EopAssumption`).  `ListInOrder` and `TablesOfLines`: the labels are listed
in the order of their lines, and a table has what its last line says.  Bytes are
`MapThenSumSet`, which takes the elements in an order of its own; that any order
gives the same is `Sums`, from the well-foundedness of `<` on the sizes of the
sets.  Of the lines it is assumed what `WellFormed` says: a label has no bytes and
no arguments (asm_parser.cpp:173, assembler_state.cpp:48).

**Parser.**  `StatesInv` says that the stack of data states is higher than the
includes are deep.  `ParserInv` adds `Tracked`: the label is the list of groups that
are open at the next line, by counting the labels and ends behind each; the column is
the one attached to last; and the lists hold the lines that belong there and no
others.  For `TextAfterInclude`, `FilesInv` keeps a list of the open files with
the height of the stack at which each began: the states above that height are
those of the file, they are text except for the last if it has switched, and a file
that has ended has left one state at most.  That the include of a file is unique is
again counting: between it and the end as many files end as begin.

**ELF.**  `ElfInv` follows the three phases.  `ReadOK`: the kernels and their instances
are those that the entries read so far name, no more and no fewer.  `PlanOK`: every
instance is planned once, behind its kernel and in front of the next one.
`LoopOK` and `SectionsOK`: the suffix of a section is the number of instances in
front of it, so a suffixed name belongs to one writer of one task, and every
section is one of the writer's own tables or was made for a writer that is
done.  `LoadsOK`, `SymtabOK`, `GroupsOK` and `RelaOK`: segments, symbols, groups and
relocations are those of the tasks done so far.  The hard step is
`AddSection`: a section is found again by name, and the name is new because
suffixes count on over kernels.  Kernels' common data have no suffix; that two
kernels do not share a PDI number is the hypothesis `CommonDistinct` of
`LoadsOwnSection`.  For `InstancesKept` these do not say which instance of a name
the maps hold: `KeptInv` adds `LatestOK`, the instance the map has under a name is the
last one of that name among the entries read, and `PlannedOK`, the writers of a task are
those of the instance that the map has.  At the end all tasks are done, `GroupsOK` leads
from the group's names in the symbol table to the task and `SectionsOK` from its members to
the writers with bytes.

**Pages.**  What the pager announces it has added up group by group, from lists with
the labels in the order the jobs name them, before it sorts them and aligns the
text; what is written is counted line by line and word by word.  `WriterInv` follows
the sum through this: while groups are taken the announced text and data are those of
the groups so far (`Collected`); then the announced length is that of the page as
laid out, with the padding before the data, and the DMA descriptors are in front
(`LaidOut`); and the data written are the words of the labels so far
(`DataWritten`).  The steps need that the sum of a list put together is the sum of
the sums (`TotalConcat`, `FlattenConcat`), that the two passes of the sorter lose no
label and take none twice (`WeighParts`: of any two complementary selections of a
list the weights add up), and that everything in front of a descriptor is a multiple
of 16 bytes (`DescriptorsAligned`).  Whether two groups bring the same label, which
`Assign` refuses, does not matter for the lengths.  `patch57` replaces words and adds
none (`Patches`).

**AIE2 assembly.**  `AsmInv` joins `ColsOK` (a column that was left ends in an eof),
`BegunOK` (what was assembled are operations and words of the only list of the
last column), `WalkOK` (the transaction is well formed, `ptr` is where the
operation `num` ends, and the counts are those of the operations walked) and types
that say that operations are laid out as their structures.  If the source ended
in another column, the last column's list ends in an eof, which `BegunOK` says was
not assembled: `LastColumnEncoded`.  Operations have lengths greater than zero, so
no two begin at one place (`TotalsGrow`) and `AtPtr` has one member
(`WalkEndsAtSize`).  `SaidOK` says that the operations so far say what the lines so
far said, with zeros for the words to come; the lines' own values are compared, so that a
field is the operand's value has to follow from its being below the field's capacity.  `AssemblesAgain` follows a transaction
through the report and back.  `PrintOK`: the text is the attachments to columns,
then the lines of the operations printed so far, and line `s` is a head line or a
word of one known operation (`PrintedIs`).  `AgainOK`: in the second pass the
parser has handed on the lines it has read in that order (`HandedOn`), none of which
it can reject (`NotRejected`); what was assembled are copies of the operations
printed, up to the words of the last that are still to come, and `pos` counts the
lines behind them (`CopiedTo`).  When the list of the column ends there is no word
left to come, so the copies say what the transaction said.

**Save and restore.**  A *transfer* is a column and a channel, moved from one tile to
the other: `Src` and `Snk` are the channels at its ends.  `GenInv` says of the
machine what the generator counts on.  `ControlInv` ties the phase, the transaction
and the position together; a position is compared with `Nth(type, p, k)`, the number
of the operation `k` before the last of transfer `p`, so that `Past` says what has
been executed of each transfer (`NthApart`, `EveryOperation`: the numbers are a
one-to-one count of all operations but the merge sync).  `DescriptorsInv`: a
descriptor is as written, or as patched, once that is past, however often it was
written before.  `RoutesInv`: whatever has been connected, in both
transactions and all rounds, the stream of a source leads to its own sink or
nowhere (`SinksOfSource`).  `ChannelsInv` follows each transfer: the source has sent
`a` words, the sink has taken `b`, the stream holds the words between them in
their order, and the first `b` are at their places; a channel that is no end of a
transfer rests.  `MemoryInv`: what is still to be moved is where it was.  Sources and
sinks never share a location, and no two words do (`PlacesApart`), so that one
transfer's step leaves the others alone (`LocalStep`).  `TokensInv` is the
counting argument: every token that counts, delivered or on its way, is the one
token of a transfer whose sink is done, by an injection.  At the merge sync there
are as many as transfers, so all are done and none is left (`SyncedMeansDone`); that
makes everything quiet when the transaction ends (`FinishedMeansQuiet`), and what
has arrived is what the next transaction takes up.  Without `TokensInv` the
others are not enough: a token of an earlier transaction, or a second one of one
transfer, would let the sync pass while words are under way.

**Recursive functions.**  `Total` and `AllSaid` of the AIE2 assembler, and `Total`,
`OnPlaces` and `LabelsFrom` of `PageWriter`, are recursive functions.  That such a function exists and is the only one is proved by the least
number at which it would fail (`Recursion`, `SameSteps`), from the well-foundedness
of `<` on `Nat`; the induction theorems of the library have an operator as parameter
and cannot be used.

### Only model-checked

* Liveness: `Resumes` and `CopyArrives`.  It is out of the prover's reach.
* `TablesPatched` of `PageWriter`.  Its argument is not written yet.  It needs, besides
  the places of `WriterInv`: that the labels of one table stay together, in order, when
  groups are gathered and sorted, and that the sets counted in the words of the source are
  at their beginnings; that the words written and the patches recorded of a
  label are those of its table; and that an address split over fields of 2^32, 2^16 and
  2^9 values and put together again is the sum modulo their product.  The last is
  division and remainder by products of parameters, which the SMT solver does not
  decide by itself.

## What is not modelled

* **Bytes.** Operand and instruction encodings (`ops/`) are abstracted to sizes
  and positions, except for what `apply_offset_57` and the descriptors write; of
  ELF tables the entries are modelled, not their bytes, flags and alignments, nor
  the notes and the digest.
* **The debug section** `.dump`, which the encoder appends behind the pads by default
  (aie2ps_encoder.cpp:97-104): it is a text for tools and nothing refers to it.
* **Text.** Regular expressions, number formats, file names and report texts.
* **The DPU walk** of the AIE2 preprocessor, and values of a JSON beyond 32 bits.
* **The patch JSON of the assembly flow**: its readers are near copies of those in
  `TxnPreprocessor`.
* **The reporter, debug map, C API and CLIs**: look-ups, formatting and dispatch
  without state of their own.
* **`src/python`**: an older implementation; planned as a comparison of pagers.
* **`nlohmann/json.hpp`** and ELFIO: third-party code, two thirds of the source
  lines of the repository.

## Plan

1. *Done*: `JobGraph`, `Pager`, `PageStream`, `ColumnPager`, the pager's proofs;
   `TxnPreprocessor`; `AsmParser`, `AssemblerState`.
2. *Done*: the prebuilt code on its machine; AIE2 assembly and analyzer; the ELF
   writers; the encoder with `apply_offset_57`, and its composition with the ELF
   writer.
3. Proofs: *done* for the pager and its refinement of `PageStream`, the column,
   the transaction preprocessor, the parser, the scan, the ELF writer, the
   AIE2 assembler and analyzer, the prebuilt save and restore code, and the
   lengths of the pages written.  Left: `TablesPatched` of `PageWriter`.
4. Left of the model: the DPU walk, the readers of the patch JSON of the assembly
   flow, the Python pager.
