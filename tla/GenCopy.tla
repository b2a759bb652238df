-------------------------------- MODULE GenCopy --------------------------------
(***************************************************************************)
(* src/lib/src/gen-copy.cpp: the two transactions that copy between a      *)
(* memory tile and a buffer of the host, on channel 0 of column 0.  Each   *)
(* ends by waiting for a channel (XAie_DmaWaitForDone).                    *)
(***************************************************************************)
EXTENDS DmaMachine, TLC

CONSTANT data_size     (* words copied *)

ASSUME CopyAssumption == data_size \in 1 .. MEMTILE_SIZE

VARIABLE copy          (* the transaction, "none" when none is run *)

Mem_Tile_to_DDR_Copy(m, s) ==
  LET mm2s == Channel(m, "MM2S", 0)   s2mm == Channel(s, "S2MM", 0)
  IN << Connect(m, <<"DMA", 0>>, <<"SOUTH", 0>>),
        Connect(s, <<"NORTH", 0>>, <<"SOUTH", 2>>),
        ShimPort(s, "receive", 2),
        Bd(m, 0, START_OF_MEM, data_size),
        Bd(s, 0, 0, data_size),
        PatchOp(s, 0, OUT_BUFFER_KERNARG_IDX, 0),
        Push(mm2s, 0, FALSE), Push(s2mm, 0, FALSE),
        Enable(mm2s), Enable(s2mm),
        Wait(Channel(s, "S2MM", 1)) >>

(* Mutation: the shim's stream is not handed to its DMA.                   *)
CopyWithoutPort(m, s) ==
  LET mm2s == Channel(s, "MM2S", 0)   s2mm == Channel(m, "S2MM", 0)
  IN << Connect(m, <<"SOUTH", 0>>, <<"DMA", 0>>),
        Connect(s, <<"SOUTH", 3>>, <<"NORTH", 0>>),
        Bd(s, 0, 0, data_size),
        Bd(m, 0, START_OF_MEM, data_size),
        PatchOp(s, 0, IN_BUFFER_KERNARG_IDX, 0),
        Push(mm2s, 0, FALSE), Push(s2mm, 0, FALSE),
        Enable(mm2s), Enable(s2mm),
        Wait(Channel(s, "S2MM", 1)) >>

DDR_to_Mem_Tile_Copy(m, s) ==
  LET mm2s == Channel(s, "MM2S", 0)   s2mm == Channel(m, "S2MM", 0)
  IN << Connect(m, <<"SOUTH", 0>>, <<"DMA", 0>>),
        Connect(s, <<"SOUTH", 3>>, <<"NORTH", 0>>),
        ShimPort(s, "send", 3),
        Bd(s, 0, 0, data_size),
        Bd(m, 0, START_OF_MEM, data_size),
        PatchOp(s, 0, IN_BUFFER_KERNARG_IDX, 0),
        Push(mm2s, 0, FALSE), Push(s2mm, 0, FALSE),
        Enable(mm2s), Enable(s2mm),
        Wait(Channel(s, "S2MM", 1)) >>

Copies ==
  [t \in {<<"Mem_Tile_to_DDR", 1>>, <<"DDR_to_Mem_Tile", 1>>} |->
     IF t[1] = "Mem_Tile_to_DDR" THEN Mem_Tile_to_DDR_Copy(MemTile(0), Shim(0))
                                 ELSE DDR_to_Mem_Tile_Copy(MemTile(0), Shim(0))]

ASSUME CopiesAssumption == \A t \in DOMAIN Copies : Transactions[t] = Copies[t]

L2(n) == <<"l2", 0, n>>
L3(argidx, n) == <<ArgBuffer[argidx], n>>

Source(type, n) == IF type = "Mem_Tile_to_DDR" THEN L2(n) ELSE L3(IN_BUFFER_KERNARG_IDX, n)
Target(type, n) == IF type = "Mem_Tile_to_DDR" THEN L3(OUT_BUFFER_KERNARG_IDX, n) ELSE L2(n)

(* generate_tran_and_elf starts from a fresh device.                       *)
CopyInit ==
  /\ copy \in {t[1] : t \in DOMAIN Copies}
  /\ txn = <<copy, 1>> /\ pc = 1
  /\ mem = [loc \in {Source(copy, n) : n \in 0 .. data_size - 1} |-> <<"word", loc>>]
        @@ [loc \in {Target(copy, n) : n \in 0 .. data_size - 1} |-> <<"none">>]
  /\ Reset

Copying == copy # "none"

CopyStep == Copying /\ Step

Copied == \A n \in 0 .. data_size - 1 : mem[Target(copy, n)] = <<"word", Source(copy, n)>>

(* Whatever the wait is worth, the words arrive in the end.                *)
CopyArrives == Copying ~> (Finished /\ Copied)

===============================================================================
