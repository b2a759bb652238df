------------------------------ MODULE MCAie2Asm ------------------------------
(***************************************************************************)
(* Sources of a few lines and transactions of a few operations.  Sizes are *)
(* in words; n bytes hold 4^n values instead of 256^n.                     *)
(***************************************************************************)
EXTENDS Aie2Asm

Sizes01 == [write |-> 6, blockwrite |-> 4, maskwrite |-> 7, maskpoll |-> 7, maskpoll_busy |-> 7,
            noop |-> 1, preempt |-> 1, loadpdi |-> 4, load_pm_start |-> 2, tct |-> 4,
            merge_sync |-> 4, ddr_patch |-> 14, record_timer |-> 3, read_regs |-> 6,
            create_scratchpad |-> 3]
SizesOpt == [Sizes01 EXCEPT !.write = 3, !.blockwrite = 3, !.maskwrite = 4,
                            !.maskpoll = 4, !.maskpoll_busy = 4, !.ddr_patch = 6]
Sizes == [k \in {"0.1", "opt"} \X DOMAIN Sizes01 |->
            IF k[1] = "0.1" THEN Sizes01[k[2]] ELSE SizesOpt[k[2]]]

Capacities == [n \in 1 .. 8 |-> 4 ^ n]

OpLine(name, args) == [name |-> name, args |-> args]
Write == OpLine("write", <<<<"reg", 1>>, <<"num", 2>>>>)
BlockWrite(n) == OpLine("blockwrite", <<<<"reg", 1>>, <<"count", n>>>>)
Word(i) == [name |-> "blockwrite_word", index |-> i, args |-> <<<<"num", 7 + i>>>>]
Tct(row, channel) ==
  OpLine("tct", <<<<"row", row>>, <<"column", 0>>, <<"direction", 1>>, <<"num", channel>>>>)

SourceLines ==
  {[name |-> "attach_to_group", col |-> c, args |-> <<>>] : c \in 0 .. 2}
  \cup {OpLine("label", <<>>), Write, OpLine("write", <<<<"reg", 1>>>>),
        BlockWrite(1), BlockWrite(2), Word(0), Word(1), Tct(1, 5), Tct(4, 1),
        OpLine("maskpoll_busy", <<<<"id", 3>>, <<"poll", 4>>, <<"num", 5>>>>),
        OpLine("write", <<<<"dec", 12>>, <<"dec", 12>>>>),
        OpLine("loadpdi", <<<<"id", 1>>, <<"num", 16>>, <<"num", 2>>>>),
        OpLine("load_pm_start", <<<<"num", 65>>, <<"id", 1>>>>),
        OpLine("record_timer", <<<<"id", 300>>>>),
        OpLine("ddr_patch", <<<<"reg", 1>>>>), OpLine("create_scratchpad", <<>>)}

(* Operations of transactions made elsewhere.                              *)
GivenOp(version, name, fields, words) ==
  LET bytes == Sizes[<<version, name>>] + Len(words)
  IN [op |-> name, fields |-> fields, words |-> words, bytes |-> bytes,
      size |-> IF Sized(version, name) THEN bytes ELSE 0]

GivenOps(version) ==
  {GivenOp(version, "write", <<1, 2>>, <<>>), GivenOp(version, "blockwrite", <<1, 2>>, <<7, 8>>),
   GivenOp(version, "blockwrite", <<1, 0>>, <<>>), GivenOp(version, "maskwrite", <<1, 2, 3>>, <<>>),
   GivenOp(version, "maskpoll", <<1, 2>>, <<>>), GivenOp(version, "maskpoll_busy", <<1, 2>>, <<>>),
   GivenOp(version, "noop", <<>>, <<>>), GivenOp(version, "preempt", <<1>>, <<>>),
   GivenOp(version, "loadpdi", <<0, 1, 2>>, <<>>),
   GivenOp(version, "load_pm_start", <<2, 1>>, <<>>), GivenOp(version, "tct", <<1, 0, 1, 1>>, <<>>),
   GivenOp(version, "merge_sync", <<2>>, <<>>), GivenOp(version, "ddr_patch", <<1, 0, 8>>, <<>>),
   GivenOp(version, "record_timer", <<5>>, <<>>), GivenOp(version, "read_regs", <<>>, <<>>),
   GivenOp(version, "create_scratchpad", <<>>, <<>>)}

GivenTransactions ==
  UNION {{[version |-> version, cols |-> n, ops |-> list, count |-> Len(list),
           size |-> Total(list)[Len(list)]] :
            n \in 0 .. 2,
            list \in {<<>>} \cup {<<a>> : a \in GivenOps(version)}
                     \cup {<<a, b>> : a, b \in GivenOps(version)}} :
         version \in {"0.1", "opt"}}

=============================================================================
