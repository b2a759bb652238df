----------------------------- MODULE MCElfWriter -----------------------------
(***************************************************************************)
(* Configurations of up to two entries, of one kernel or two, with up to   *)
(* two instances each, and single codes.  Columns of two jobs with a line  *)
(* each, three labels, two pads.                                           *)
(***************************************************************************)
EXTENDS ControlCode

SectionNames == <<".ctrldata", ".ctrlpkt.pm.1", ".ctrltext", ".pdi.0", ".preempt_save">>

Sym(name, section, size, pos) == [name |-> name, section |-> section, size |-> size, pos |-> pos]

(* Two sizes of one argument, twice the same; the symbols of one argument  *)
(* in several sections; none; those of an empty control packet.            *)
Scalars ==
  [data |-> [n \in {".ctrltext"} |-> 1],
   symbols |-> <<Sym("3", ".ctrltext", 4, 0), Sym("3", ".ctrltext", 8, 1), Sym("3", ".ctrltext", 4, 2)>>]
Preempted ==
  [data |-> [n \in {".ctrldata", ".ctrltext", ".preempt_save"} |-> 1],
   symbols |-> <<Sym("3", ".ctrltext", 4, 0), Sym("3", ".ctrldata", 4, 0),
                 Sym("scratch", ".preempt_save", 4, 0)>>]
Plain == [data |-> [n \in {".ctrltext"} |-> 1], symbols |-> <<>>]
EmptyPacket ==
  [data |-> [n \in {".ctrldata", ".ctrltext"} |-> IF n = ".ctrldata" THEN 0 ELSE 1],
   symbols |-> <<Sym("3", ".ctrldata", 0, 0), Sym("3", ".ctrltext", 4, 0)>>]
Pages ==
  [writers |-> <<[name |-> ".ctrltext.0.0", size |-> 1,
                  symbols |-> <<Sym("arg", ".ctrltext.0.0", 4, 0)>>],
                 [name |-> ".ctrldata.0.0", size |-> 1,
                  symbols |-> <<Sym("arg", ".ctrldata.0.0", 4, 0), Sym("arg", ".ctrldata.0.0", 4, 8)>>],
                 [name |-> ".pad.0", size |-> 0, symbols |-> <<>>]>>]

Blob(id, cols, made) == [id |-> id, cols |-> cols, data |-> made.data, symbols |-> made.symbols]
Source(id, cols) == [id |-> id, cols |-> cols, writers |-> Pages.writers]

BlobLists ==
  LET first == {Blob(1, 1, made) : made \in {Scalars, Preempted, Plain, EmptyPacket}} \cup {Blob(1, 2, Plain)}
      second == {Blob(2, 1, Scalars), Blob(2, 1, Preempted), Blob(1, 1, Preempted)}
  IN {<<>>} \cup {<<a>> : a \in first} \cup {<<a, b>> : a \in first, b \in second}
SourceLists == {<<>>, <<Source(1, 1)>>, <<Source(1, 1), Source(2, 1)>>, <<Source(1, 2)>>}

Pdi(n) == [id |-> n, size |-> 1]
PdiLists == {<<>>, <<Pdi(".pdi.0")>>, <<Pdi(".pdi.0"), Pdi(".ctrlpkt.pm.1")>>}

Entries(flavor) ==
  {[name |-> n, pdis |-> pdis, instances |-> list] :
     n \in {1, 2}, pdis \in PdiLists,
     list \in IF flavor = "asm" THEN SourceLists ELSE BlobLists}

OneOrTwo(S) == {<<a>> : a \in S} \cup {<<a, b>> : a, b \in S}

ElfInputs ==
  {[flavor |-> "aie2", config |-> TRUE, entries |-> entries] :
     entries \in OneOrTwo(Entries("aie2"))}
  \cup {[flavor |-> "asm", config |-> TRUE, entries |-> entries] :
     entries \in {<<>>} \cup OneOrTwo(Entries("asm"))}
  \cup {[flavor |-> "aie2", config |-> FALSE, entries |-> <<[name |-> 1, pdis |-> <<>>, instances |-> list]>>] :
     list \in {l \in BlobLists : Len(l) = 1}}
  \cup {[flavor |-> "asm", config |-> FALSE,
         entries |-> <<[name |-> 1, pdis |-> <<>>, instances |-> <<Source(1, 1)>>]>>]}

(* The last of 32, 16, 9 and 25 bits are kept; a carry goes all the way.   *)
FieldValues == [word0 |-> 4, word1 |-> 4, word2 |-> 2, word8 |-> 2]
Table == [kind |-> ".long", refs |-> <<>>, words |-> <<5, 3, 3, 0, 0, 0, 0, 1, 3>>]
Other == [kind |-> ".long", refs |-> <<>>, words |-> <<1, 0, 2, 0, 0, 0, 0, 1, 2>>]
Short == [kind |-> ".long", refs |-> <<>>, words |-> <<1, 0, 2, 0>>]
Bd(refs) == [kind |-> "uc_dma_bd", refs |-> refs, words |-> <<>>]

Pads == (10 :> [place |-> 5, offset |-> 0, size |-> 4]) @@ (11 :> [place |-> 3, offset |-> 4, size |-> 8])

Apply(table, entries, arg, named, pad) ==
  [op |-> "apply", size |-> 8, table |-> table, entries |-> entries, arg |-> arg,
   named |-> named, pad |-> pad]
SourceLines ==
  {Apply(t, n, a[1], a[2], a[3]) :
     t \in 1 .. 3, n \in 1 .. 2,
     a \in {<<3, FALSE, 10>>, <<3, FALSE, NoPad>>, <<4, FALSE, 11>>, <<4, FALSE, 2>>, <<0, TRUE, NoPad>>}}
  \cup {[op |-> "use", size |-> 8, name |-> n] : n \in {1, 2, 3, 10}}
JobLines == {op \in SourceLines : op.op = "apply" => op.table + op.entries - 1 <= 3}

JobOf(op) == <<[op |-> "start", size |-> 8], op, [op |-> "end", size |-> 4]>>

CodeColumns ==
  {[col |-> 0, arch |-> made[1], labels |-> made[2], pages |-> made[3],
    jobs |-> <<JobOf(a), JobOf(b)>>, pads |-> Pads,
    packetIndex |-> 4, packetSyms |-> <<[name |-> "7", pos |-> 8, col |-> 0],
                                        [name |-> "8", pos |-> 0, col |-> 1]>>] :
     a, b \in JobLines,
     made \in {<<"aie2ps", <<Table, Other, Table>>, <<<<<<1, 2>>>>>>>>,
               <<"aie2ps", <<Table, Bd(<<1>>), Short>>, <<<<<<1>>, <<2>>>>>>>>,
               <<"aie4", <<Bd(<<3, 2>>), Table, Other>>, <<<<<<1>>>>, <<<<2>>>>>>>>}}
  \cup {[col |-> 1, arch |-> "aie4", labels |-> <<Table>>, pages |-> <<<<<<1>>>>>>,
         jobs |-> <<JobOf(Apply(1, 1, 3, FALSE, NoPad))>>, pads |-> <<>>,
         packetIndex |-> 4, packetSyms |-> <<>>]}

NoInputs == {}

(* The example of isa-spec.md, two sets under one label, with a descriptor *)
(* behind; and with one apply for the first set only.                      *)
TwoSets == [kind |-> ".long", refs |-> <<>>, words |-> Table.words \o Other.words]
SetColumns ==
  {[col |-> 0, arch |-> "aie2ps", labels |-> <<TwoSets, Other>>, pages |-> <<<<<<1>>>>>>,
    jobs |-> <<JobOf(Apply(1, entries, 3, FALSE, 10))>>, pads |-> Pads,
    packetIndex |-> 4, packetSyms |-> <<>>] : entries \in 1 .. 2}

=============================================================================
