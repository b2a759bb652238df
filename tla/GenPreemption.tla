----------------------------- MODULE GenPreemption -----------------------------
(***************************************************************************)
(* src/lib/src/gen-preemption.cpp: the save and restore transactions the   *)
(* library ships for every number of columns, run as they are meant to be  *)
(* run.  The hardware context is preempted, the save transaction moves     *)
(* its memory tiles to the scratch pad, another context uses the           *)
(* partition, the restore transaction brings the memory back, and the      *)
(* context may be preempted again.  The two transactions are operators of  *)
(* the number of columns; DmaMachine executes them.                        *)
(***************************************************************************)
EXTENDS DmaMachine, FiniteSets

CONSTANTS
  ColumnCounts,     (* numbers of columns transactions are generated for   *)
  MaxRounds,        (* bound: preemptions of a context of so many columns  *)
  Resets            (* whether the host resets the partition between them  *)

ASSUME GeneratorAssumption ==
  /\ \A n \in ColumnCounts : n \in Nat \ {0} /\ 0 .. n - 1 \subseteq Columns
  /\ MEMTILE_SIZE % 2 = 0
  /\ MaxRounds \in [ColumnCounts -> Nat]
  /\ Resets \in [ColumnCounts -> SUBSET BOOLEAN]

(* The host patches both arguments with the same scratch pad, which is     *)
(* none of the memory tiles.                                               *)
ASSUME ScratchPadAssumption ==
  /\ ArgBuffer[OUT_BUFFER_KERNARG_IDX] = ArgBuffer[IN_BUFFER_KERNARG_IDX]
  /\ ArgBuffer[OUT_BUFFER_KERNARG_IDX] # "l2"

VARIABLES
  ncol,      (* columns of the context                                     *)
  phase,     (* "run", "save", "restore", or "idle": there is no context     *)
  round      (* preemptions so far                                         *)

vars == <<machine, ncol, phase, round>>

MEMTILE_BD_OFF == 24

(* generate_tran: the channels share a memory tile's words.                *)
size == MEMTILE_SIZE \div 2

chan_addr_offset(chan) == chan * size
(* Mutation: columns a channel's size apart.                               *)
ColumnsClose(col) == col * size

col_addr_offset(col) == col * MEMTILE_SIZE
ddr_addr_offset(col, chan) == col_addr_offset(col) + chan_addr_offset(chan)
mem_addr_offset(chan) == START_OF_MEM + chan_addr_offset(chan)

(* Mutation: both channels of a memory tile share descriptor 0.            *)
SameDescriptor(chan) == chan * 0

tile_m_bd(chan) == chan * MEMTILE_BD_OFF
tile_s_bd(chan) == chan

(* The patch of the shim's descriptor: regaddr counts 0x20 per channel.    *)
PatchBd(col, chan, argidx) == PatchOp(Shim(col), chan * 32, argidx, ddr_addr_offset(col, chan))

(* The operations for one column and channel, in the order of the calls.   *)
MEM_Tile_Save_Context(col, chan) ==
  LET m == MemTile(col)   s == Shim(col)
      mm2s == Channel(m, "MM2S", chan)   s2mm == Channel(s, "S2MM", chan)
  IN << Connect(m, <<"DMA", chan>>, <<"SOUTH", chan>>),
        Connect(s, <<"NORTH", chan>>, <<"SOUTH", chan + 2>>),
        ShimPort(s, "receive", chan + 2),
        Connect(s, <<"CTRL", 0>>, <<"SOUTH", 0>>),
        Bd(m, tile_m_bd(chan), mem_addr_offset(chan), size),
        Bd(s, tile_s_bd(chan), ddr_addr_offset(col, chan), size),
        PatchBd(col, chan, OUT_BUFFER_KERNARG_IDX),
        Push(mm2s, tile_m_bd(chan), TRUE),
        ControllerId(s2mm),
        Push(s2mm, tile_s_bd(chan), TRUE),
        Enable(mm2s),
        Enable(s2mm) >>

MEM_Tile_Restore_Context(col, chan) ==
  LET m == MemTile(col)   s == Shim(col)
      mm2s == Channel(s, "MM2S", chan)   s2mm == Channel(m, "S2MM", chan)
  IN << Connect(m, <<"SOUTH", chan>>, <<"DMA", chan>>),
        Connect(s, <<"SOUTH", chan * 4 + 3>>, <<"NORTH", chan>>),
        ShimPort(s, "send", chan * 4 + 3),
        Connect(m, <<"CTRL", 0>>, <<"SOUTH", 2>>),
        Connect(s, <<"NORTH", 2>>, <<"SOUTH", 0>>),
        Bd(s, tile_s_bd(chan), ddr_addr_offset(col, chan), size),
        Bd(m, tile_m_bd(chan), mem_addr_offset(chan), size),
        PatchBd(col, chan, IN_BUFFER_KERNARG_IDX),
        Push(mm2s, tile_s_bd(chan), FALSE),
        ControllerId(s2mm),
        Push(s2mm, tile_m_bd(chan), TRUE),
        Enable(mm2s),
        Enable(s2mm) >>

Context(type, col, chan) ==
  IF type = "save" THEN MEM_Tile_Save_Context(col, chan) ELSE MEM_Tile_Restore_Context(col, chan)

(* Mutation: one token per column.                                         *)
TctsPerColumn(n) == n

(* Mutation: a token of both ends of every stream.                         *)
TctsBothEnds(n) == 2 * n * Cardinality(CHANNELS)

Tcts(n) == n * Cardinality(CHANNELS)

(* Column by column and channel by channel, then the merge sync.           *)
generate_tran(type, n) ==
  LET len == Len(Context(type, 0, 0))
      chans == [k \in 1 .. 2 * n |-> Context(type, (k - 1) \div 2, (k - 1) % 2)]
  IN [i \in 1 .. 2 * n * len + 1 |->
        IF i <= 2 * n * len THEN chans[((i - 1) \div len) + 1][((i - 1) % len) + 1]
        ELSE [op |-> "merge_sync", num_tcts |-> Tcts(n)]]

(* main generates both for every number of columns.                        *)
Generated ==
  [t \in {"save", "restore"} \X ColumnCounts |-> generate_tran(t[1], t[2])]

ASSUME TransactionsAssumption == \A t \in DOMAIN Generated : Transactions[t] = Generated[t]

(***************************************************************************)
(* The context and its host.                                               *)
(***************************************************************************)
MemoryOf(n) == {"l2"} \X (0 .. n - 1) \X (0 .. MEMTILE_SIZE - 1)
ScratchPad(n) == {ArgBuffer[OUT_BUFFER_KERNARG_IDX]} \X (0 .. n * MEMTILE_SIZE - 1)
Content(r, loc) == <<r, loc[2], loc[3]>>
Filled(n, r) ==
  [loc \in DOMAIN mem |-> IF loc \in MemoryOf(n) THEN Content(r, loc) ELSE mem[loc]]

Start(type) == txn' = <<type, ncol>> /\ pc' = 1

(* The context stops with words in its memory it had not written before.   *)
Preempt ==
  /\ phase = "run" /\ round < MaxRounds[ncol]
  /\ phase' = "save" /\ round' = round + 1
  /\ mem' = Filled(ncol, round')
  /\ Start("save")
  /\ UNCHANGED <<switch, bd, channels, tcts, tokens, ncol>>

Clobbered ==
  [loc \in DOMAIN mem |-> IF loc \in MemoryOf(ncol) THEN <<"other">> ELSE mem[loc]]

(* Another context has the partition, which the host may reset before it   *)
(* gives it back.                                                          *)
Switch(reset) ==
  /\ phase = "save" /\ Finished
  /\ phase' = "restore" /\ mem' = Clobbered
  /\ Start("restore")
  /\ IF reset
     THEN /\ route' = <<>> /\ mux' = {} /\ bd' = <<>> /\ enabled' = {}
          /\ ctrl' = [c \in Channels |-> 0]
          /\ queue' = [c \in Channels |-> <<>>]
          /\ task' = [c \in Channels |-> NoTask]
          /\ fifo' = [c \in Channels |-> <<>>]
          /\ tcts' = [t \in Tiles |-> <<>>] /\ tokens' = 0
     ELSE UNCHANGED <<switch, bd, channels, tcts, tokens>>
  /\ UNCHANGED <<ncol, round>>

Resume ==
  /\ phase = "restore" /\ Finished
  /\ phase' = "run"
  /\ UNCHANGED <<machine, ncol, round>>

Ended == phase = "run" /\ round = MaxRounds[ncol] /\ UNCHANGED vars

Init ==
  /\ ncol \in ColumnCounts /\ phase = "run" /\ round = 0
  /\ txn = <<"restore", ncol>> /\ pc = Len(Ops) + 1
  /\ mem = [loc \in MemoryOf(ncol) \cup ScratchPad(ncol) |->
              IF loc \in MemoryOf(ncol) THEN Content(0, loc) ELSE <<"none">>]
  /\ Reset

Hardware == Step /\ UNCHANGED <<ncol, phase, round>>

Host == Preempt \/ (\E reset \in Resets[ncol] : Switch(reset)) \/ Resume

Next == Host \/ Hardware \/ Ended

(* Somebody takes a step while somebody can.  No channel needs a promise   *)
(* of its own: what the others can do without it is bounded.               *)
Fairness == WF_vars(Next)

Spec == Init /\ [][Next]_vars /\ Fairness

-------------------------------------------------------------------------------
(* A context that resumes finds every word of its memory tiles as it left  *)
(* it when it was preempted, whatever ran in between.                      *)
MemoryRestored ==
  phase = "run" => \A loc \in MemoryOf(ncol) : mem[loc] = Content(round, loc)

(* The merge sync at the end of a transaction is passed only when every    *)
(* channel has moved all its words: num_tcts counts exactly the tokens of  *)
(* the receiving channels of this transaction, none of an earlier one.     *)
SyncAfterData == phase # "idle" /\ Finished => Quiet /\ tokens = 0

(* A descriptor is not written while a channel has yet to start a task     *)
(* with it: the save and the restore use the same descriptors, and a       *)
(* context saved twice uses them again.                                    *)
DescriptorsStable ==
  [][pc' = pc + 1 /\ This.op \in {"bd", "patch"} =>
       \A c \in Channels : \A k \in DOMAIN queue[c] :
         LET d == <<c[1], queue[c][k].bd>> IN bd'[d] = bd[d]]_vars

(* A preempted context resumes: every transaction passes its merge sync.   *)
Resumes == phase = "save" ~> phase = "run"
===============================================================================
