------------------------------ MODULE DmaMachine ------------------------------
(***************************************************************************)
(* The part of an AIE partition a generated transaction runs on, as far as *)
(* the generators in src/lib/src use it: per column a shim tile (row 0)    *)
(* and a memory tile (row 1), their stream switches, buffer descriptors    *)
(* and DMA channels, and the control processor that executes the           *)
(* operations of the transaction in order.  The channels move words on     *)
(* their own: every step of a channel interleaves with every other and     *)
(* with the control processor.  None of this is code of the repository;    *)
(* each action stands for the aie-rt call that records the operation.      *)
(***************************************************************************)
EXTENDS Integers, Sequences

CONSTANTS
  Columns,          (* the columns of the partition, 0 .. n - 1            *)
  MEMTILE_SIZE,     (* words in a memory tile                              *)
  FIFO_DEPTH,       (* words a stream holds                                *)
  ArgBuffer,        (* kernel argument index -> the buffer the host passes *)
  Transactions      (* name -> the operations of a generated transaction   *)

ASSUME MachineAssumption ==
  /\ Columns \subseteq Nat
  /\ MEMTILE_SIZE \in Nat \ {0}
  /\ FIFO_DEPTH \in Nat \ {0}

TCT_CTRL_ID == 9
START_OF_MEM == MEMTILE_SIZE     (* 0x80000: the tile's own memory, see Location *)
OUT_BUFFER_KERNARG_IDX == 0
IN_BUFFER_KERNARG_IDX == 1

VARIABLES
  txn,       (* the name of the transaction that runs                      *)
  pc,        (* the operation the control processor executes next          *)
  route,     (* <<tile, master port>> -> the slave port that feeds it      *)
  mux,       (* shim ports handed to the DMA                               *)
  bd,        (* <<tile, number>> -> buffer descriptor                      *)
  ctrl,      (* channel -> controller id its tokens carry                  *)
  enabled,   (* channels enabled                                           *)
  queue,     (* channel -> pushed tasks, [bd, token]                       *)
  task,      (* channel -> the task it runs, left = 0 when idle            *)
  fifo,      (* channel -> words that reached a receiving channel          *)
  tcts,      (* tile -> tokens on their way to the control processor       *)
  tokens,    (* tokens the control processor has received                  *)
  mem        (* location -> word                                           *)

control == <<txn, pc>>
switch == <<route, mux>>
channels == <<ctrl, enabled, queue, task, fifo>>
machine == <<control, switch, bd, channels, tcts, tokens, mem>>

Shim(col) == <<col, 0>>
MemTile(col) == <<col, 1>>
Tiles == Columns \X {0, 1}
IsShim(tile) == tile[2] = 0

Ops == Transactions[txn]
This == Ops[pc]

CHANNELS == {0, 1}
Channel(tile, dir, chan) == <<tile, dir, chan>>
Channels == Tiles \X {"MM2S", "S2MM"} \X CHANNELS

NoTask == [base |-> "none", addr |-> 0, left |-> 0, token |-> FALSE]
Busy(c) == task[c].left > 0 \/ queue[c] # <<>>

(***************************************************************************)
(* Streams.  A column's two tiles face each other: SOUTH n of the memory   *)
(* tile is NORTH n of the shim.                                            *)
(***************************************************************************)
Linked(tile, slave, master) ==
  <<tile, master>> \in DOMAIN route /\ route[<<tile, master>>] = slave

Facing(tile) == IF IsShim(tile) THEN "NORTH" ELSE "SOUTH"

Opposite(tile) == <<tile[1], 1 - tile[2]>>

Crosses(from, slave, to, master) ==
  /\ to = Opposite(from)
  /\ \E n \in 0 .. 2 : /\ Linked(from, slave, <<Facing(from), n>>)
                       /\ Linked(to, <<Facing(to), n>>, master)

(* The switch port a channel sends into or receives from; a shim channel   *)
(* has one only where its SOUTH port was handed to the DMA.                *)
SendPort(c) == IF IsShim(c[1]) THEN <<"SOUTH", 4 * c[3] + 3>> ELSE <<"DMA", c[3]>>
ReceivePort(c) == IF IsShim(c[1]) THEN <<"SOUTH", c[3] + 2>> ELSE <<"DMA", c[3]>>
Attached(c) ==
  IsShim(c[1]) => IF c[2] = "MM2S" THEN <<c[1], "send", SendPort(c)>> \in mux
                                   ELSE <<c[1], "receive", ReceivePort(c)>> \in mux

Sinks(c) ==
  {d \in {Opposite(c[1])} \X {"S2MM"} \X CHANNELS :
     Attached(c) /\ Attached(d) /\ Crosses(c[1], SendPort(c), d[1], ReceivePort(d))}

TokenRouted(tile) ==
  LET shim == Shim(tile[1]) IN
  IF IsShim(tile) THEN Linked(tile, <<"CTRL", 0>>, <<"SOUTH", 0>>)
                  ELSE Crosses(tile, <<"CTRL", 0>>, shim, <<"SOUTH", 0>>)

(* A memory tile sees its western neighbour's memory at 0, its own memory  *)
(* at 0x80000 (MEMTILE_SIZE here) and its eastern neighbour's above it.    *)
Location(tile, base, addr) ==
  IF IsShim(tile) THEN <<base, addr>>
  ELSE <<"l2", tile[1] + (addr \div MEMTILE_SIZE) - 1, addr % MEMTILE_SIZE>>

(* Memory outside the domain belongs to someone else: what a channel reads *)
(* there is unknown, what it writes there is lost to the context.          *)
Read(loc) == IF loc \in DOMAIN mem THEN mem[loc] ELSE <<"unwritten">>

(* The function f with the value x at d.                                   *)
With(f, d, x) == [e \in DOMAIN f \cup {d} |-> IF e = d THEN x ELSE f[e]]

(***************************************************************************)
(* The control processor: one action per kind of operation.                *)
(***************************************************************************)
Connect(tile, slave, master) == [op |-> "connect", tile |-> tile, slave |-> slave, master |-> master]
ShimPort(tile, dir, port) == [op |-> "shim_port", tile |-> tile, dir |-> dir, port |-> port]
Bd(tile, n, addr, len) == [op |-> "bd", tile |-> tile, bd |-> n, addr |-> addr, len |-> len]
Push(chan, n, token) == [op |-> "push", chan |-> chan, bd |-> n, token |-> token]
ControllerId(chan) == [op |-> "channel", chan |-> chan, id |-> TCT_CTRL_ID]
Enable(chan) == [op |-> "enable", chan |-> chan]
Wait(chan) == [op |-> "wait", chan |-> chan]
PatchOp(tile, reg, argidx, argplus) ==
  [op |-> "patch", tile |-> tile, reg |-> reg, argidx |-> argidx, argplus |-> argplus]

Op(name) == pc <= Len(Ops) /\ This.op = name
Advance == pc' = pc + 1 /\ UNCHANGED txn

StrmConnCctEnable ==
  /\ Op("connect") /\ Advance
  /\ route' = With(route, <<This.tile, This.master>>, This.slave)
  /\ UNCHANGED <<mux, bd, channels, tcts, tokens, mem>>

EnableShimDmaPort ==
  /\ Op("shim_port") /\ Advance
  /\ mux' = mux \cup {<<This.tile, This.dir, <<"SOUTH", This.port>>>>}
  /\ UNCHANGED <<route, bd, channels, tcts, tokens, mem>>

DmaWriteBd ==
  /\ Op("bd") /\ Advance
  /\ bd' = With(bd, <<This.tile, This.bd>>,
                [base |-> "unpatched", addr |-> This.addr, len |-> This.len])
  /\ UNCHANGED <<switch, channels, tcts, tokens, mem>>

BD_STRIDE == 32    (* bytes between the registers of two descriptors *)

(* The address register of the descriptor takes the address of the         *)
(* argument's buffer plus the operation's offset.                          *)
DdrAddressPatch ==
  /\ Op("patch") /\ Advance
  /\ LET d == <<This.tile, This.reg \div BD_STRIDE>>
         len == IF d \in DOMAIN bd THEN bd[d].len ELSE 0
     IN bd' = With(bd, d, [base |-> ArgBuffer[This.argidx], addr |-> This.argplus,
                           len |-> len])
  /\ UNCHANGED <<switch, channels, tcts, tokens, mem>>

PushBdToQueue ==
  /\ Op("push") /\ Advance
  /\ queue' = [queue EXCEPT ![This.chan] =
                 Append(@, [bd |-> This.bd, token |-> This.token])]
  /\ UNCHANGED <<switch, bd, ctrl, enabled, task, fifo, tcts, tokens, mem>>

DmaWriteChannel ==
  /\ Op("channel") /\ Advance
  /\ ctrl' = [ctrl EXCEPT ![This.chan] = This.id]
  /\ UNCHANGED <<switch, bd, enabled, queue, task, fifo, tcts, tokens, mem>>

DmaChannelEnable ==
  /\ Op("enable") /\ Advance
  /\ enabled' = enabled \cup {This.chan}
  /\ UNCHANGED <<switch, bd, ctrl, queue, task, fifo, tcts, tokens, mem>>

(* The merge sync waits for its tokens and takes them.                     *)
MergeSync ==
  /\ Op("merge_sync") /\ tokens >= This.num_tcts /\ Advance
  /\ tokens' = tokens - This.num_tcts
  /\ UNCHANGED <<switch, bd, channels, tcts, mem>>

DmaWaitForDone ==
  /\ Op("wait") /\ ~ Busy(This.chan) /\ Advance
  /\ UNCHANGED <<switch, bd, channels, tcts, tokens, mem>>

(* The merge sync polls.                                                   *)
Poll == Op("merge_sync") /\ tokens < This.num_tcts /\ UNCHANGED machine

Execute ==
  \/ StrmConnCctEnable \/ EnableShimDmaPort \/ DmaWriteBd \/ DdrAddressPatch
  \/ PushBdToQueue \/ DmaWriteChannel \/ DmaChannelEnable \/ MergeSync \/ DmaWaitForDone

(***************************************************************************)
(* The channels and the tokens.                                            *)
(***************************************************************************)
(* A channel takes the descriptor of a task when it starts the task.       *)
StartTask(c) ==
  /\ c \in enabled /\ queue[c] # <<>> /\ task[c].left = 0
  /\ LET d == <<c[1], Head(queue[c]).bd>> IN
     /\ d \in DOMAIN bd
     /\ task' = [task EXCEPT ![c] = [base |-> bd[d].base, addr |-> bd[d].addr,
                                     left |-> bd[d].len, token |-> Head(queue[c]).token]]
  /\ queue' = [queue EXCEPT ![c] = Tail(@)]
  /\ UNCHANGED <<control, switch, bd, ctrl, enabled, fifo, tcts, tokens, mem>>

(* One word of the task is done; the last one issues the task's token.     *)
Moved(c) ==
  /\ task' = [task EXCEPT ![c].addr = @ + 1, ![c].left = @ - 1]
  /\ tcts' = IF task[c].left = 1 /\ task[c].token
             THEN [tcts EXCEPT ![c[1]] = Append(@, ctrl[c])] ELSE tcts
  /\ UNCHANGED <<control, switch, bd, ctrl, enabled, queue, tokens>>

Send(c) ==
  /\ c[2] = "MM2S" /\ task[c].left > 0
  /\ LET word == Read(Location(c[1], task[c].base, task[c].addr))
         sinks == Sinks(c)
     IN /\ sinks # {} /\ \A d \in sinks : Len(fifo[d]) < FIFO_DEPTH
        /\ fifo' = [d \in Channels |-> IF d \in sinks THEN Append(fifo[d], word) ELSE fifo[d]]
  /\ Moved(c) /\ UNCHANGED mem

Receive(c) ==
  /\ c[2] = "S2MM" /\ task[c].left > 0 /\ fifo[c] # <<>>
  /\ mem' = [mem EXCEPT ![Location(c[1], task[c].base, task[c].addr)] = Head(fifo[c])]
  /\ fifo' = [fifo EXCEPT ![c] = Tail(@)]
  /\ Moved(c)

(* A token that reaches the control processor counts when it carries the   *)
(* controller id the generators set; without a route it waits.             *)
DeliverToken(tile) ==
  /\ tcts[tile] # <<>> /\ TokenRouted(tile)
  /\ tokens' = tokens + (IF Head(tcts[tile]) = TCT_CTRL_ID THEN 1 ELSE 0)
  /\ tcts' = [tcts EXCEPT ![tile] = Tail(@)]
  /\ UNCHANGED <<control, switch, bd, channels, mem>>

ChannelStep(c) == StartTask(c) \/ Send(c) \/ Receive(c)

Step ==
  \/ Execute \/ Poll
  \/ (\E c \in Channels : ChannelStep(c))
  \/ (\E t \in Tiles : DeliverToken(t))

(***************************************************************************)
(* A partition just reset, and the fairness of the hardware: the control   *)
(* processor, every channel and every token stream keep making progress.   *)
(***************************************************************************)
Reset ==
  /\ route = <<>> /\ mux = {} /\ bd = <<>>
  /\ ctrl = [c \in Channels |-> 0]
  /\ enabled = {}
  /\ queue = [c \in Channels |-> <<>>]
  /\ task = [c \in Channels |-> NoTask]
  /\ fifo = [c \in Channels |-> <<>>]
  /\ tcts = [t \in Tiles |-> <<>>]
  /\ tokens = 0

Finished == pc > Len(Ops)

Quiet == \A c \in Channels : task[c].left = 0 /\ queue[c] = <<>> /\ fifo[c] = <<>>
===============================================================================
