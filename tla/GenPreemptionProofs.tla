------------------------- MODULE GenPreemptionProofs -------------------------
(***************************************************************************)
(* The save and the restore of any number of columns, with memory tiles of *)
(* any even size and streams of any depth, under every interleaving of the *)
(* control processor, the DMA channels and the tokens: a context that      *)
(* resumes finds its memory as it left it, the merge sync is passed only   *)
(* when every word has arrived, and no descriptor is written that a queued *)
(* task still needs.                                                       *)
(*                                                                         *)
(* Every column has two transfers, one per channel.  The invariant says of *)
(* each how far its source and its sink have come, what is between them in *)
(* the stream, and which words have arrived; and it follows every token    *)
(* back to the transfer whose sink issued it.                              *)
(***************************************************************************)
EXTENDS GenPreemption, FiniteSetTheorems, TLAPS

(***************************************************************************)
(* The transfers: a column and a channel, from one tile to the other.      *)
(***************************************************************************)
Transfers(n) == (0 .. n - 1) \X CHANNELS

FromTile(type, p) == IF type = "save" THEN MemTile(p[1]) ELSE Shim(p[1])
ToTile(type, p) == IF type = "save" THEN Shim(p[1]) ELSE MemTile(p[1])
Src(type, p) == Channel(FromTile(type, p), "MM2S", p[2])
Snk(type, p) == Channel(ToTile(type, p), "S2MM", p[2])

(* Operations per transfer, and the number of the one k before its last:   *)
(* 7 and 6 write the descriptors, 5 patches the shim's, 4 pushes the       *)
(* source's task, 3 sets the sink's controller id, 2 pushes its task.      *)
OpsPer(type) == IF type = "save" THEN 12 ELSE 13
Nth(type, p, k) == (2 * p[1] + p[2] + 1) * OpsPer(type) - k
Past(type, p, k, at) == at > Nth(type, p, k)

SyncAt(type, n) == 2 * n * OpsPer(type) + 1

Pad == ArgBuffer[OUT_BUFFER_KERNARG_IDX]

(* The descriptor a tile uses for a channel, before and after its patch,   *)
(* and where its words are.                                                *)
BdOf(t, chan) == <<t, IF IsShim(t) THEN tile_s_bd(chan) ELSE tile_m_bd(chan)>>
StartAddr(t, chan) ==
  IF IsShim(t) THEN ddr_addr_offset(t[1], chan) ELSE mem_addr_offset(chan)
BaseOf(t) == IF IsShim(t) THEN Pad ELSE "unpatched"
Written(t, chan) == [base |-> "unpatched", addr |-> StartAddr(t, chan), len |-> size]
Patched(t, chan) == [base |-> BaseOf(t), addr |-> StartAddr(t, chan), len |-> size]
Place(t, chan, i) ==
  IF IsShim(t) THEN <<Pad, ddr_addr_offset(t[1], chan) + i>>
               ELSE <<"l2", t[1], chan_addr_offset(chan) + i>>

(* The i-th word a transfer moves in preemption r.                         *)
Word(r, p, i) == <<r, p[1], chan_addr_offset(p[2]) + i>>

(***************************************************************************)
(* How far a channel is: q and t are its queue and its task, given says    *)
(* whether its task has been pushed.                                       *)
(***************************************************************************)
TokenOf(type, c) == c[2] = "S2MM" \/ type = "save"

Resting(q, t) == q = <<>> /\ t.left = 0

Waiting(type, c, q, t) ==
  /\ q = <<[bd |-> BdOf(c[1], c[3])[2], token |-> TokenOf(type, c)]>>
  /\ t.left = 0

Running(type, c, q, t, k) ==
  /\ q = <<>>
  /\ t = [base |-> BaseOf(c[1]), addr |-> StartAddr(c[1], c[3]) + k, left |-> size - k,
          token |-> TokenOf(type, c)]

(* k words done.                                                           *)
Progress(type, c, given, q, t, k) ==
  \/ ~ given /\ k = 0 /\ Resting(q, t)
  \/ given /\ k = 0 /\ Waiting(type, c, q, t)
  \/ given /\ Running(type, c, q, t, k)

(* What the stream holds when the source has sent a words and the sink has *)
(* received b.                                                             *)
InFlight(r, p, a, b, f) == b <= a /\ f = [j \in 1 .. a - b |-> Word(r, p, b + j - 1)]

Arrived(type, r, p, b, m) ==
  \A i \in 0 .. b - 1 : m[Place(ToTile(type, p), p[2], i)] = Word(r, p, i)

(* The state of one transfer: position at, queues qs, tasks ts, streams    *)
(* fs, memory m.                                                           *)
Transfer(type, r, p, at, qs, ts, fs, m, a, b) ==
  /\ Progress(type, Src(type, p), Past(type, p, 4, at), qs[Src(type, p)], ts[Src(type, p)], a)
  /\ Progress(type, Snk(type, p), Past(type, p, 2, at), qs[Snk(type, p)], ts[Snk(type, p)], b)
  /\ InFlight(r, p, a, b, fs[Snk(type, p)])
  /\ Arrived(type, r, p, b, m)

Moving(type, r, p, at, qs, ts, fs, m) ==
  \E a, b \in 0 .. size : Transfer(type, r, p, at, qs, ts, fs, m, a, b)

(* A transfer is done when its sink has finished its task.                 *)
DoneTransfers(type, n, at, qs, ts) ==
  {p \in Transfers(n) : /\ Past(type, p, 2, at)
                        /\ Resting(qs[Snk(type, p)], ts[Snk(type, p)])}

(***************************************************************************)
(* The invariant.                                                          *)
(***************************************************************************)
Type == IF phase = "save" THEN "save" ELSE "restore"

ControlInv ==
  /\ ncol \in ColumnCounts /\ round \in Nat
  /\ phase \in {"run", "save", "restore"}
  /\ txn = <<Type, ncol>>
  /\ pc \in 1 .. SyncAt(Type, ncol) + 1
  /\ phase = "run" => pc = SyncAt(Type, ncol) + 1

HardwareInv ==
  /\ ctrl \in [Channels -> {0, TCT_CTRL_ID}]
  /\ \A c \in Channels : c[2] = "MM2S" => ctrl[c] = 0
  /\ queue = [c \in Channels |-> queue[c]]
  /\ task = [c \in Channels |-> task[c]]
  /\ fifo = [c \in Channels |-> fifo[c]]
  /\ tcts \in [Tiles -> Seq({0, TCT_CTRL_ID})]
  /\ tokens \in Nat
  /\ mem = [loc \in MemoryOf(ncol) \cup ScratchPad(ncol) |-> mem[loc]]

(* What every connection made so far leads to: only the shim's port for    *)
(* tokens is switched between the two transactions.                        *)
Leads(tile, master) ==
  IF IsShim(tile)
  THEN CASE master = <<"SOUTH", 0>> -> {<<"CTRL", 0>>, <<"NORTH", 2>>}
         [] master = <<"SOUTH", 2>> -> {<<"NORTH", 0>>}
         [] master = <<"SOUTH", 3>> -> {<<"NORTH", 1>>}
         [] master = <<"NORTH", 0>> -> {<<"SOUTH", 3>>}
         [] master = <<"NORTH", 1>> -> {<<"SOUTH", 7>>}
         [] OTHER -> {}
  ELSE CASE master = <<"SOUTH", 0>> -> {<<"DMA", 0>>}
         [] master = <<"SOUTH", 1>> -> {<<"DMA", 1>>}
         [] master = <<"SOUTH", 2>> -> {<<"CTRL", 0>>}
         [] master = <<"DMA", 0>> -> {<<"SOUTH", 0>>}
         [] master = <<"DMA", 1>> -> {<<"SOUTH", 1>>}
         [] OTHER -> {}

RoutesInv ==
  /\ route = [x \in DOMAIN route |-> route[x]]
  /\ \A tile \in Tiles : \A master :
       <<tile, master>> \in DOMAIN route => route[<<tile, master>>] \in Leads(tile, master)

HasBd(ds, t, chan, x) == BdOf(t, chan) \in DOMAIN ds /\ ds[BdOf(t, chan)] = x

Described(type, p, at, ds) ==
  LET f == FromTile(type, p)   t == ToTile(type, p) IN
  /\ Past(type, p, 7, at) /\ ~ Past(type, p, 5, at) => HasBd(ds, f, p[2], Written(f, p[2]))
  /\ Past(type, p, 6, at) /\ ~ Past(type, p, 5, at) => HasBd(ds, t, p[2], Written(t, p[2]))
  /\ Past(type, p, 5, at) => HasBd(ds, f, p[2], Patched(f, p[2]))
                             /\ HasBd(ds, t, p[2], Patched(t, p[2]))

DescriptorsInv ==
  /\ bd = [d \in DOMAIN bd |-> bd[d]]
  /\ phase # "run" => \A p \in Transfers(ncol) : Described(Type, p, pc, bd)

Ends(type, n) == {Src(type, p) : p \in Transfers(n)} \cup {Snk(type, p) : p \in Transfers(n)}

ChannelsInv ==
  /\ \A c \in Channels :
       phase = "run" \/ c \notin Ends(Type, ncol) \/ c[2] = "MM2S" => fifo[c] = <<>>
  /\ \A c \in Channels : phase = "run" \/ c \notin Ends(Type, ncol) => Resting(queue[c], task[c])
  /\ phase # "run" => \A p \in Transfers(ncol) :
       /\ Moving(Type, round, p, pc, queue, task, fifo, mem)
       /\ Past(Type, p, 3, pc) => ctrl[Snk(Type, p)] = TCT_CTRL_ID

(* The words are where the transaction takes them from.                    *)
HeldBy(type, r, n, m) ==
  \A p \in Transfers(n) : \A i \in 0 .. size - 1 : m[Place(FromTile(type, p), p[2], i)] = Word(r, p, i)

MemoryInv == HeldBy(IF phase = "run" THEN "save" ELSE Type, round, ncol, mem)

(* The tokens that count and have not been delivered: a tile and a place   *)
(* in its stream.                                                          *)
Counting(ts) == {x \in Tiles \X Nat : x[2] \in DOMAIN ts[x[1]] /\ ts[x[1]][x[2]] = TCT_CTRL_ID}

(* The tokens delivered are those of the transfers in D, the others under  *)
(* way belong each to a transfer of its own, issued by the tile they are   *)
(* at.                                                                     *)
Accounted(type, k, ts, done, D, g) ==
  /\ D \subseteq done /\ Cardinality(D) = k
  /\ g \in [Counting(ts) -> done \ D]
  /\ \A x \in Counting(ts) : x[1] = ToTile(type, g[x])
  /\ \A x, y \in Counting(ts) : g[x] = g[y] => x = y

Traced(type, k, ts, done) ==
  \E D \in SUBSET done : \E g \in [Counting(ts) -> done \ D] : Accounted(type, k, ts, done, D, g)

TokensInv ==
  IF Finished
  THEN tokens = 0 /\ Counting(tcts) = {}
  ELSE Traced(Type, tokens, tcts, DoneTransfers(Type, ncol, pc, queue, task))

AllDone ==
  phase # "run" /\ Finished => DoneTransfers(Type, ncol, pc, queue, task) = Transfers(ncol)

GenInv ==
  /\ ControlInv /\ HardwareInv /\ RoutesInv /\ DescriptorsInv /\ ChannelsInv /\ MemoryInv
  /\ TokensInv /\ AllDone
-----------------------------------------------------------------------------
(* The numbers, the places and the operations of the transactions.         *)
Types == {"save", "restore"}

(* A channel has half of a memory tile, at least a word.                   *)
LEMMA SizeFact == size \in Nat /\ size >= 1 /\ MEMTILE_SIZE = 2 * size /\ MEMTILE_SIZE \in Nat
BY MachineAssumption, GeneratorAssumption DEF size

(* Columns and channels are numbers; a context has at least one column and *)
(* its columns are columns of the partition.                               *)
LEMMA TransfersFact ==
  ASSUME NEW n \in ColumnCounts
  PROVE  /\ n \in Nat /\ n >= 1
         /\ \A p \in Transfers(n) : /\ p = <<p[1], p[2]>> /\ p[1] \in 0 .. n - 1 /\ p[2] \in {0, 1}
                                    /\ p[1] \in Columns /\ p[1] \in Nat
BY GeneratorAssumption DEF Transfers, CHANNELS

(* Their ends are channels of the partition.                               *)
LEMMA EndsFact ==
  ASSUME NEW n \in ColumnCounts, NEW p \in Transfers(n), NEW type \in Types
  PROVE  /\ FromTile(type, p) \in Tiles /\ ToTile(type, p) \in Tiles
         /\ Src(type, p) \in Channels /\ Snk(type, p) \in Channels
         /\ Src(type, p) = <<FromTile(type, p), "MM2S", p[2]>>
         /\ Snk(type, p) = <<ToTile(type, p), "S2MM", p[2]>>
         /\ Src(type, p) \in Ends(type, n) /\ Snk(type, p) \in Ends(type, n)
<1>1. p[1] \in Columns /\ p[2] \in CHANNELS
  BY TransfersFact DEF CHANNELS
<1>2. FromTile(type, p) \in Tiles /\ ToTile(type, p) \in Tiles
  BY <1>1 DEF FromTile, ToTile, Tiles, MemTile, Shim
<1>3. QED
  BY <1>1, <1>2 DEF Src, Snk, Channel, Channels, Ends

(* Two transfers share no channel, and a source is no sink.                *)
LEMMA EndsApart ==
  ASSUME NEW n \in ColumnCounts, NEW p \in Transfers(n), NEW q \in Transfers(n),
         NEW type \in Types
  PROVE  /\ Src(type, p) # Snk(type, q)
         /\ Src(type, p) = Src(type, q) => p = q
         /\ Snk(type, p) = Snk(type, q) => p = q
         /\ ToTile(type, p) = ToTile(type, q) <=> p[1] = q[1]
<1>1. p = <<p[1], p[2]>> /\ q = <<q[1], q[2]>>
  BY TransfersFact
<1>2. QED
  BY <1>1 DEF Src, Snk, Channel, FromTile, ToTile, MemTile, Shim, Types

LEMMA OpsPerFact == ASSUME NEW type \in Types PROVE OpsPer(type) \in {12, 13}
BY DEF OpsPer

(* The operation k before the last of a transfer, counted over the whole   *)
(* transaction: no two have the same number, and every number before the   *)
(* merge sync is one of them.                                              *)
LEMMA NthFact ==
  ASSUME NEW n \in ColumnCounts, NEW p \in Transfers(n), NEW type \in Types,
         NEW k \in 0 .. OpsPer(type) - 1
  PROVE  Nth(type, p, k) \in 1 .. SyncAt(type, n) - 1
<1> DEFINE a == p[1]
           b == p[2]
<1>1. /\ n \in Nat /\ a \in 0 .. n - 1 /\ b \in {0, 1} /\ OpsPer(type) \in {12, 13}
  BY TransfersFact, OpsPerFact
<1>2. Nth(type, p, k) = (2 * a + b + 1) * OpsPer(type) - k /\ SyncAt(type, n) = 2 * n * OpsPer(type) + 1
  BY DEF Nth, SyncAt
<1> HIDE DEF a, b
<1>3. CASE OpsPer(type) = 12
  BY <1>1, <1>2, <1>3
<1>4. CASE OpsPer(type) = 13
  BY <1>1, <1>2, <1>4
<1>5. QED
  BY <1>1, <1>3, <1>4

LEMMA NthApart ==
  ASSUME NEW n \in ColumnCounts, NEW p \in Transfers(n), NEW q \in Transfers(n),
         NEW type \in Types,
         NEW k \in 0 .. OpsPer(type) - 1, NEW l \in 0 .. OpsPer(type) - 1,
         Nth(type, p, k) = Nth(type, q, l)
  PROVE  p = q /\ k = l
<1> DEFINE a == p[1]
           b == p[2]
           c == q[1]
           d == q[2]
<1>1. /\ a \in Nat /\ b \in {0, 1} /\ c \in Nat /\ d \in {0, 1} /\ OpsPer(type) \in {12, 13}
      /\ p = <<a, b>> /\ q = <<c, d>>
  BY TransfersFact, OpsPerFact
<1>2. /\ Nth(type, p, k) = (2 * a + b + 1) * OpsPer(type) - k
      /\ Nth(type, q, l) = (2 * c + d + 1) * OpsPer(type) - l
  BY DEF Nth
<1> HIDE DEF a, b, c, d
<1> DEFINE x == 2 * a + b + 1
           y == 2 * c + d + 1
<1>3. x \in Nat /\ y \in Nat /\ x * OpsPer(type) - k = y * OpsPer(type) - l
  <2>1. x \in Nat /\ y \in Nat
    BY <1>1
  <2> HIDE DEF x, y
  <2>2. QED
    BY <1>2, <2>1 DEF x, y
<1>4. x = y => a = c /\ b = d
  BY <1>1
<1> HIDE DEF x, y
<1>5. x = y /\ k = l
  <2>1. CASE OpsPer(type) = 12
    BY <1>3, <2>1
  <2>2. CASE OpsPer(type) = 13
    BY <1>3, <2>2
  <2>3. QED
    BY <1>1, <2>1, <2>2
<1>6. QED
  BY <1>1, <1>4, <1>5

LEMMA EveryOperation ==
  ASSUME NEW n \in ColumnCounts, NEW type \in Types, NEW i \in 1 .. SyncAt(type, n) - 1
  PROVE  \E p \in Transfers(n) : \E k \in 0 .. OpsPer(type) - 1 : i = Nth(type, p, k)
<1> DEFINE len == OpsPer(type)
           x == (i - 1) \div len
           a == x \div 2
           b == x % 2
           k == len - 1 - ((i - 1) % len)
<1>1. /\ n \in Nat /\ len \in {12, 13} /\ i \in 1 .. 2 * n * len
  BY TransfersFact, OpsPerFact DEF SyncAt
<1>2. x \in 0 .. 2 * n - 1 /\ k \in 0 .. len - 1 /\ i = (x + 1) * len - k
  <2>1. CASE len = 12
    BY <1>1, <2>1
  <2>2. CASE len = 13
    BY <1>1, <2>2
  <2>3. QED
    BY <1>1, <2>1, <2>2
<1> HIDE DEF x, k
<1>3. a \in 0 .. n - 1 /\ b \in {0, 1} /\ x = 2 * a + b
  BY <1>1, <1>2
<1> HIDE DEF a, b
<1>4. <<a, b>> \in Transfers(n) /\ i = Nth(type, <<a, b>>, k)
  BY <1>2, <1>3 DEF Transfers, CHANNELS, Nth
<1>5. QED
  BY <1>2, <1>4

(* What the transactions of the generator are.                             *)
LEMMA GeneratedFact ==
  ASSUME NEW n \in ColumnCounts, NEW type \in Types
  PROVE  Transactions[<<type, n>>] = generate_tran(type, n)
BY TransactionsAssumption DEF Generated, Types

LEMMA ContextLength ==
  ASSUME NEW type \in Types, NEW col, NEW chan
  PROVE  Len(Context(type, col, chan)) = OpsPer(type)
BY DEF Context, MEM_Tile_Save_Context, MEM_Tile_Restore_Context, OpsPer, Types

LEMMA OperationAt ==
  ASSUME NEW n \in ColumnCounts, NEW p \in Transfers(n), NEW type \in Types,
         NEW k \in 0 .. OpsPer(type) - 1
  PROVE  generate_tran(type, n)[Nth(type, p, k)] = Context(type, p[1], p[2])[OpsPer(type) - k]
<1> DEFINE len == OpsPer(type)
           x == 2 * p[1] + p[2]
           i == Nth(type, p, k)
           chans == [y \in 1 .. 2 * n |-> Context(type, (y - 1) \div 2, (y - 1) % 2)]
<1>1. /\ n \in Nat /\ p[1] \in 0 .. n - 1 /\ p[2] \in {0, 1} /\ len \in {12, 13}
      /\ i \in 1 .. 2 * n * len
  BY TransfersFact, OpsPerFact, NthFact DEF SyncAt
<1>2. x \in 0 .. 2 * n - 1 /\ x \div 2 = p[1] /\ x % 2 = p[2] /\ i = (x + 1) * len - k
  BY <1>1 DEF Nth
<1>3. Len(Context(type, 0, 0)) = len
  BY ContextLength
<1> DEFINE total == 2 * n * Len(Context(type, 0, 0))
<1>9. generate_tran(type, n) =
        [j \in 1 .. total + 1 |->
           IF j <= total
           THEN chans[((j - 1) \div Len(Context(type, 0, 0))) + 1][((j - 1) % Len(Context(type, 0, 0))) + 1]
           ELSE [op |-> "merge_sync", num_tcts |-> Tcts(n)]]
  BY DEF generate_tran
<1>10. total \in Nat /\ i \in 1 .. total
  BY <1>1, <1>3
<1>4. generate_tran(type, n)[i] = chans[((i - 1) \div len) + 1][((i - 1) % len) + 1]
  <2> HIDE DEF total, i, chans
  <2>1. i \in 1 .. total + 1 /\ i <= total
    BY <1>10
  <2>2. QED
    BY <1>3, <1>9, <2>1
<1>5. (i - 1) \div len = x /\ (i - 1) % len = len - 1 - k
  <2> HIDE DEF x, i
  <2>1. CASE len = 12
    BY <1>1, <1>2, <2>1
  <2>2. CASE len = 13
    BY <1>1, <1>2, <2>2
  <2>3. QED
    BY <1>1, <2>1, <2>2
<1>6. chans[x + 1] = Context(type, p[1], p[2])
  <2>1. x + 1 \in 1 .. 2 * n /\ x + 1 - 1 = x
    BY <1>1, <1>2
  <2> HIDE DEF x
  <2>2. QED
    BY <1>2, <2>1
<1>7. len - 1 - k + 1 = len - k
  BY <1>1
<1>8. QED
  BY <1>4, <1>5, <1>6, <1>7

LEMMA ChannelsFact == IsFiniteSet(CHANNELS) /\ Cardinality(CHANNELS) = 2
<1>1. IsFiniteSet({0}) /\ Cardinality({0}) = 1
  BY FS_EmptySet, FS_AddElement, {} \cup {0} = {0}
<1>2. IsFiniteSet({0} \cup {1}) /\ Cardinality({0} \cup {1}) = 2
  BY <1>1, FS_AddElement
<1>3. QED
  BY <1>2, {0} \cup {1} = {0, 1} DEF CHANNELS

LEMMA SyncOperation ==
  ASSUME NEW n \in ColumnCounts, NEW type \in Types
  PROVE  /\ Len(generate_tran(type, n)) = SyncAt(type, n)
         /\ SyncAt(type, n) \in Nat /\ SyncAt(type, n) >= 25
         /\ generate_tran(type, n)[SyncAt(type, n)] = [op |-> "merge_sync", num_tcts |-> 2 * n]
<1> DEFINE m == SyncAt(type, n)
<1>1. n \in Nat /\ n >= 1 /\ OpsPer(type) \in {12, 13}
  BY TransfersFact, OpsPerFact
<1>2. m \in Nat /\ m >= 25 /\ m = 2 * n * OpsPer(type) + 1
  BY <1>1 DEF SyncAt
<1>3. Len(Context(type, 0, 0)) = OpsPer(type)
  BY ContextLength
<1>4. Tcts(n) = 2 * n
  BY <1>1, ChannelsFact DEF Tcts
<1>5. generate_tran(type, n) =
        [i \in 1 .. m |-> IF i <= 2 * n * OpsPer(type)
                          THEN generate_tran(type, n)[i] ELSE [op |-> "merge_sync", num_tcts |-> 2 * n]]
  BY <1>1, <1>2, <1>3, <1>4 DEF generate_tran
<1> HIDE DEF m
<1>6. Len(generate_tran(type, n)) = m
  BY <1>2, <1>5
<1>7. ~ (m <= 2 * n * OpsPer(type)) /\ m \in 1 .. m
  BY <1>1, <1>2
<1>8. generate_tran(type, n)[m] = [op |-> "merge_sync", num_tcts |-> 2 * n]
  BY <1>5, <1>7
<1>9. QED
  BY <1>2, <1>6, <1>8 DEF m

(* The operations of a transfer, counted from its last.                    *)
LEMMA OperationsOfTransfer ==
  ASSUME NEW n \in ColumnCounts, NEW p \in Transfers(n), NEW type \in Types,
         NEW O, O = Context(type, p[1], p[2]),
         NEW f, f = FromTile(type, p), NEW t, t = ToTile(type, p), NEW len, len = OpsPer(type)
  PROVE  /\ O[len - 7] = Bd(f, BdOf(f, p[2])[2], StartAddr(f, p[2]), size)
         /\ O[len - 6] = Bd(t, BdOf(t, p[2])[2], StartAddr(t, p[2]), size)
         /\ \E arg \in {0, 1} : O[len - 5] = PatchBd(p[1], p[2], arg)
         /\ O[len - 4] = Push(Src(type, p), BdOf(f, p[2])[2], TokenOf(type, Src(type, p)))
         /\ O[len - 3] = ControllerId(Snk(type, p))
         /\ O[len - 2] = Push(Snk(type, p), BdOf(t, p[2])[2], TokenOf(type, Snk(type, p)))
         /\ O[len - 1] = Enable(Src(type, p))
         /\ O[len] = Enable(Snk(type, p))
<1>1. MemTile(p[1])[2] = 1 /\ Shim(p[1])[2] = 0 /\ MemTile(p[1])[1] = p[1] /\ Shim(p[1])[1] = p[1]
  BY DEF MemTile, Shim
<1>2. CASE type = "save"
  <2>1. len = 12 /\ f = MemTile(p[1]) /\ t = Shim(p[1]) /\ O = MEM_Tile_Save_Context(p[1], p[2])
    BY <1>2 DEF OpsPer, FromTile, ToTile, Context
  <2>2. Src(type, p) = Channel(f, "MM2S", p[2]) /\ Snk(type, p) = Channel(t, "S2MM", p[2])
    BY DEF Src, Snk
  <2>3. TokenOf(type, Src(type, p)) = TRUE /\ TokenOf(type, Snk(type, p)) = TRUE
    BY <1>2 DEF TokenOf
  <2>4. /\ BdOf(f, p[2])[2] = tile_m_bd(p[2]) /\ BdOf(t, p[2])[2] = tile_s_bd(p[2])
        /\ StartAddr(f, p[2]) = mem_addr_offset(p[2]) /\ StartAddr(t, p[2]) = ddr_addr_offset(p[1], p[2])
    BY <1>1, <2>1 DEF BdOf, StartAddr, IsShim
  <2>5. /\ O[5] = Bd(f, tile_m_bd(p[2]), mem_addr_offset(p[2]), size)
        /\ O[6] = Bd(t, tile_s_bd(p[2]), ddr_addr_offset(p[1], p[2]), size)
        /\ O[7] = PatchBd(p[1], p[2], 0)
        /\ O[8] = Push(Channel(f, "MM2S", p[2]), tile_m_bd(p[2]), TRUE)
        /\ O[9] = ControllerId(Channel(t, "S2MM", p[2]))
        /\ O[10] = Push(Channel(t, "S2MM", p[2]), tile_s_bd(p[2]), TRUE)
        /\ O[11] = Enable(Channel(f, "MM2S", p[2]))
        /\ O[12] = Enable(Channel(t, "S2MM", p[2]))
    BY <2>1 DEF MEM_Tile_Save_Context, OUT_BUFFER_KERNARG_IDX
  <2>6. /\ len - 7 = 5 /\ len - 6 = 6 /\ len - 5 = 7 /\ len - 4 = 8 /\ len - 3 = 9
        /\ len - 2 = 10 /\ len - 1 = 11 /\ len = 12
    BY <2>1
  <2>7. /\ O[len - 7] = Bd(f, BdOf(f, p[2])[2], StartAddr(f, p[2]), size)
        /\ O[len - 6] = Bd(t, BdOf(t, p[2])[2], StartAddr(t, p[2]), size)
    BY <2>4, <2>5, <2>6
  <2>8. \E arg \in {0, 1} : O[len - 5] = PatchBd(p[1], p[2], arg)
    BY <2>5, <2>6
  <2>9. O[len - 4] = Push(Src(type, p), BdOf(f, p[2])[2], TokenOf(type, Src(type, p)))
    BY <2>2, <2>3, <2>4, <2>5, <2>6, Zenon
  <2>10. O[len - 2] = Push(Snk(type, p), BdOf(t, p[2])[2], TokenOf(type, Snk(type, p)))
    BY <2>2, <2>3, <2>4, <2>5, <2>6, Zenon
  <2>11. /\ O[len - 3] = ControllerId(Snk(type, p))
         /\ O[len - 1] = Enable(Src(type, p))
         /\ O[len] = Enable(Snk(type, p))
    BY <2>2, <2>5, <2>6
  <2>12. QED
    BY <2>7, <2>8, <2>9, <2>10, <2>11
<1>3. CASE type = "restore"
  <2>1. len = 13 /\ f = Shim(p[1]) /\ t = MemTile(p[1]) /\ O = MEM_Tile_Restore_Context(p[1], p[2])
    BY <1>3 DEF OpsPer, FromTile, ToTile, Context
  <2>2. Src(type, p) = Channel(f, "MM2S", p[2]) /\ Snk(type, p) = Channel(t, "S2MM", p[2])
    BY DEF Src, Snk
  <2>3. TokenOf(type, Src(type, p)) = FALSE /\ TokenOf(type, Snk(type, p)) = TRUE
    BY <1>3, <2>2 DEF TokenOf, Channel
  <2>4. /\ BdOf(t, p[2])[2] = tile_m_bd(p[2]) /\ BdOf(f, p[2])[2] = tile_s_bd(p[2])
        /\ StartAddr(t, p[2]) = mem_addr_offset(p[2]) /\ StartAddr(f, p[2]) = ddr_addr_offset(p[1], p[2])
    BY <1>1, <2>1 DEF BdOf, StartAddr, IsShim
  <2>5. /\ O[6] = Bd(f, tile_s_bd(p[2]), ddr_addr_offset(p[1], p[2]), size)
        /\ O[7] = Bd(t, tile_m_bd(p[2]), mem_addr_offset(p[2]), size)
        /\ O[8] = PatchBd(p[1], p[2], 1)
        /\ O[9] = Push(Channel(f, "MM2S", p[2]), tile_s_bd(p[2]), FALSE)
        /\ O[10] = ControllerId(Channel(t, "S2MM", p[2]))
        /\ O[11] = Push(Channel(t, "S2MM", p[2]), tile_m_bd(p[2]), TRUE)
        /\ O[12] = Enable(Channel(f, "MM2S", p[2]))
        /\ O[13] = Enable(Channel(t, "S2MM", p[2]))
    BY <2>1 DEF MEM_Tile_Restore_Context, IN_BUFFER_KERNARG_IDX
  <2>6. /\ len - 7 = 6 /\ len - 6 = 7 /\ len - 5 = 8 /\ len - 4 = 9 /\ len - 3 = 10
        /\ len - 2 = 11 /\ len - 1 = 12 /\ len = 13
    BY <2>1
  <2>7. /\ O[len - 7] = Bd(f, BdOf(f, p[2])[2], StartAddr(f, p[2]), size)
        /\ O[len - 6] = Bd(t, BdOf(t, p[2])[2], StartAddr(t, p[2]), size)
    BY <2>4, <2>5, <2>6
  <2>8. \E arg \in {0, 1} : O[len - 5] = PatchBd(p[1], p[2], arg)
    BY <2>5, <2>6
  <2>9. O[len - 4] = Push(Src(type, p), BdOf(f, p[2])[2], TokenOf(type, Src(type, p)))
    BY <2>2, <2>3, <2>4, <2>5, <2>6, Zenon
  <2>10. O[len - 2] = Push(Snk(type, p), BdOf(t, p[2])[2], TokenOf(type, Snk(type, p)))
    BY <2>2, <2>3, <2>4, <2>5, <2>6, Zenon
  <2>11. /\ O[len - 3] = ControllerId(Snk(type, p))
         /\ O[len - 1] = Enable(Src(type, p))
         /\ O[len] = Enable(Snk(type, p))
    BY <2>2, <2>5, <2>6
  <2>12. QED
    BY <2>7, <2>8, <2>9, <2>10, <2>11
<1>4. QED
  BY <1>2, <1>3 DEF Types

(* The first ones set up the streams.                                      *)
Plumbing(op) ==
  \/ op.op = "shim_port"
  \/ op.op = "connect" /\ op.tile \in Tiles /\ op.slave \in Leads(op.tile, op.master)

LEMMA LeadsFact ==
  ASSUME NEW col \in Columns, NEW chan \in {0, 1}
  PROVE  /\ <<"DMA", chan>> \in Leads(MemTile(col), <<"SOUTH", chan>>)
         /\ <<"NORTH", chan>> \in Leads(Shim(col), <<"SOUTH", chan + 2>>)
         /\ <<"CTRL", 0>> \in Leads(Shim(col), <<"SOUTH", 0>>)
         /\ <<"SOUTH", chan>> \in Leads(MemTile(col), <<"DMA", chan>>)
         /\ <<"SOUTH", chan * 4 + 3>> \in Leads(Shim(col), <<"NORTH", chan>>)
         /\ <<"CTRL", 0>> \in Leads(MemTile(col), <<"SOUTH", 2>>)
         /\ <<"NORTH", 2>> \in Leads(Shim(col), <<"SOUTH", 0>>)
<1>1. ~ IsShim(MemTile(col)) /\ IsShim(Shim(col))
  BY DEF IsShim, MemTile, Shim
<1>2. CASE chan = 0
  BY <1>1, <1>2 DEF Leads
<1>3. CASE chan = 1
  BY <1>1, <1>3 DEF Leads
<1>4. QED
  BY <1>2, <1>3

LEMMA PlumbingOfTransfer ==
  ASSUME NEW n \in ColumnCounts, NEW p \in Transfers(n), NEW type \in Types,
         NEW k \in 8 .. OpsPer(type) - 1
  PROVE  Plumbing(Context(type, p[1], p[2])[OpsPer(type) - k])
<1>1. p[1] \in Columns /\ p[2] \in {0, 1} /\ MemTile(p[1]) \in Tiles /\ Shim(p[1]) \in Tiles
  BY TransfersFact DEF MemTile, Shim, Tiles
<1>2. CASE type = "save"
  <2> DEFINE O == MEM_Tile_Save_Context(p[1], p[2])
  <2>1. /\ O[1] = Connect(MemTile(p[1]), <<"DMA", p[2]>>, <<"SOUTH", p[2]>>)
        /\ O[2] = Connect(Shim(p[1]), <<"NORTH", p[2]>>, <<"SOUTH", p[2] + 2>>)
        /\ O[3] = ShimPort(Shim(p[1]), "receive", p[2] + 2)
        /\ O[4] = Connect(Shim(p[1]), <<"CTRL", 0>>, <<"SOUTH", 0>>)
    BY DEF MEM_Tile_Save_Context
  <2> HIDE DEF O
  <2>2. Plumbing(O[1]) /\ Plumbing(O[2]) /\ Plumbing(O[3]) /\ Plumbing(O[4])
    BY <1>1, <2>1, LeadsFact DEF Plumbing, Connect, ShimPort
  <2>3. OpsPer(type) - k \in 1 .. 4 /\ Context(type, p[1], p[2]) = O
    BY <1>2 DEF OpsPer, Context, O
  <2>4. QED
    BY <2>2, <2>3
<1>3. CASE type = "restore"
  <2> DEFINE O == MEM_Tile_Restore_Context(p[1], p[2])
  <2>1. /\ O[1] = Connect(MemTile(p[1]), <<"SOUTH", p[2]>>, <<"DMA", p[2]>>)
        /\ O[2] = Connect(Shim(p[1]), <<"SOUTH", p[2] * 4 + 3>>, <<"NORTH", p[2]>>)
        /\ O[3] = ShimPort(Shim(p[1]), "send", p[2] * 4 + 3)
        /\ O[4] = Connect(MemTile(p[1]), <<"CTRL", 0>>, <<"SOUTH", 2>>)
        /\ O[5] = Connect(Shim(p[1]), <<"NORTH", 2>>, <<"SOUTH", 0>>)
    BY DEF MEM_Tile_Restore_Context
  <2> HIDE DEF O
  <2>2. Plumbing(O[1]) /\ Plumbing(O[2]) /\ Plumbing(O[3]) /\ Plumbing(O[4]) /\ Plumbing(O[5])
    BY <1>1, <2>1, LeadsFact DEF Plumbing, Connect, ShimPort
  <2>3. OpsPer(type) - k \in 1 .. 5 /\ Context(type, p[1], p[2]) = O
    BY <1>3 DEF OpsPer, Context, O
  <2>4. QED
    BY <2>2, <2>3
<1>4. QED
  BY <1>2, <1>3 DEF Types
-----------------------------------------------------------------------------
(* What the control processor does.                                        *)
LEMMA ControlFact ==
  ASSUME ControlInv
  PROVE  /\ Type \in Types /\ ncol \in ColumnCounts /\ pc \in Nat /\ pc >= 1
         /\ Ops = generate_tran(Type, ncol)
         /\ Len(Ops) = SyncAt(Type, ncol) /\ SyncAt(Type, ncol) \in Nat /\ SyncAt(Type, ncol) >= 25
         /\ Finished <=> pc = SyncAt(Type, ncol) + 1
         /\ ~ Finished => phase # "run" /\ pc <= SyncAt(Type, ncol)
<1>1. Type \in Types /\ ncol \in ColumnCounts /\ txn = <<Type, ncol>>
  BY DEF ControlInv, Type, Types
<1>2. Ops = generate_tran(Type, ncol)
  BY <1>1, GeneratedFact DEF Ops
<1>3. Len(Ops) = SyncAt(Type, ncol) /\ SyncAt(Type, ncol) \in Nat /\ SyncAt(Type, ncol) >= 25
  BY <1>1, <1>2, SyncOperation
<1>4. pc \in Nat /\ pc >= 1 /\ pc <= SyncAt(Type, ncol) + 1
  BY <1>3 DEF ControlInv
<1>5. phase = "run" => pc = SyncAt(Type, ncol) + 1
  BY DEF ControlInv
<1>6. QED
  BY <1>1, <1>2, <1>3, <1>4, <1>5 DEF Finished

Enqueued(q, c, x) == [q EXCEPT ![c] = Append(@, x)]
TaskOf(type, c) == [bd |-> BdOf(c[1], c[3])[2], token |-> TokenOf(type, c)]

(* The effect of the operation k before the last of the transfer p.        *)
Effect(type, p, k) ==
  LET f == FromTile(type, p)   t == ToTile(type, p)
      src == Src(type, p)      snk == Snk(type, p)
      shim == Shim(p[1])       d == BdOf(shim, p[2])
  IN
  /\ pc' = pc + 1 /\ UNCHANGED <<txn, task, fifo, tcts, tokens, mem>>
  /\ k >= 8 => \/ route' = route
               \/ \E tile \in Tiles : \E master : \E slave \in Leads(tile, master) :
                    route' = With(route, <<tile, master>>, slave)
  /\ k < 8 => route' = route
  /\ k = 7 => bd' = With(bd, BdOf(f, p[2]), Written(f, p[2]))
  /\ k = 6 => bd' = With(bd, BdOf(t, p[2]), Written(t, p[2]))
  /\ k = 5 => bd' = With(bd, d, [base |-> Pad, addr |-> StartAddr(shim, p[2]),
                                 len |-> IF d \in DOMAIN bd THEN bd[d].len ELSE 0])
  /\ k \notin 5 .. 7 => bd' = bd
  /\ k = 4 => queue' = Enqueued(queue, src, TaskOf(type, src))
  /\ k = 2 => queue' = Enqueued(queue, snk, TaskOf(type, snk))
  /\ k \notin {2, 4} => queue' = queue
  /\ k = 3 => ctrl' = [ctrl EXCEPT ![snk] = TCT_CTRL_ID]
  /\ k # 3 => ctrl' = ctrl

LEMMA WhichAction ==
  ASSUME Execute
  PROVE  /\ This.op = "connect" => StrmConnCctEnable
         /\ This.op = "shim_port" => EnableShimDmaPort
         /\ This.op = "bd" => DmaWriteBd
         /\ This.op = "patch" => DdrAddressPatch
         /\ This.op = "push" => PushBdToQueue
         /\ This.op = "channel" => DmaWriteChannel
         /\ This.op = "enable" => DmaChannelEnable
         /\ This.op = "merge_sync" => MergeSync
BY DEF Execute, StrmConnCctEnable, EnableShimDmaPort, DmaWriteBd, DdrAddressPatch, PushBdToQueue,
       DmaWriteChannel, DmaChannelEnable, MergeSync, DmaWaitForDone, Op

LEMMA EffectOfOperation ==
  ASSUME ControlInv, Execute, NEW p \in Transfers(ncol), NEW k \in 0 .. OpsPer(Type) - 1,
         pc = Nth(Type, p, k)
  PROVE  Effect(Type, p, k)
<1> DEFINE len == OpsPer(Type)
           O == Context(Type, p[1], p[2])
           f == FromTile(Type, p)
           t == ToTile(Type, p)
           src == Src(Type, p)
           snk == Snk(Type, p)
           shim == Shim(p[1])
           d == BdOf(shim, p[2])
<1>1. Type \in Types /\ ncol \in ColumnCounts /\ Ops = generate_tran(Type, ncol)
  BY ControlFact
<1>2. This = O[len - k]
  BY <1>1, OperationAt DEF This
<1>3. /\ O[len - 7] = Bd(f, BdOf(f, p[2])[2], StartAddr(f, p[2]), size)
      /\ O[len - 6] = Bd(t, BdOf(t, p[2])[2], StartAddr(t, p[2]), size)
      /\ \E arg \in {0, 1} : O[len - 5] = PatchBd(p[1], p[2], arg)
      /\ O[len - 4] = Push(src, BdOf(f, p[2])[2], TokenOf(Type, src))
      /\ O[len - 3] = ControllerId(snk)
      /\ O[len - 2] = Push(snk, BdOf(t, p[2])[2], TokenOf(Type, snk))
      /\ O[len - 1] = Enable(src)
      /\ O[len] = Enable(snk)
  BY <1>1, OperationsOfTransfer
<1>4. k \in 8 .. len - 1 => Plumbing(O[len - k])
  BY <1>1, PlumbingOfTransfer
<1>5. len \in {12, 13} /\ k \in 0 .. len - 1
  BY <1>1, OpsPerFact
<1>6. src = <<f, "MM2S", p[2]>> /\ snk = <<t, "S2MM", p[2]>>
  BY <1>1, EndsFact
<1> HIDE DEF len, O, f, t, src, snk, shim, d
<1>7. CASE k >= 8
  <2>1. Plumbing(This)
    BY <1>2, <1>4, <1>5, <1>7
  <2>2. CASE This.op = "shim_port"
    <3>1. EnableShimDmaPort
      BY <2>2, WhichAction
    <3>2. QED
      BY <3>1, <1>7 DEF EnableShimDmaPort, Advance, channels, Effect
  <2>3. CASE This.op = "connect" /\ This.tile \in Tiles /\ This.slave \in Leads(This.tile, This.master)
    <3>1. StrmConnCctEnable
      BY <2>3, WhichAction
    <3>2. route' = With(route, <<This.tile, This.master>>, This.slave)
      BY <3>1 DEF StrmConnCctEnable
    <3>3. UNCHANGED <<txn, task, fifo, tcts, tokens, mem, bd, queue, ctrl>> /\ pc' = pc + 1
      BY <3>1 DEF StrmConnCctEnable, Advance, channels
    <3>4. QED
      BY <2>3, <3>2, <3>3, <1>7 DEF Effect
  <2>4. QED
    BY <2>1, <2>2, <2>3 DEF Plumbing
<1>8. CASE k \in {6, 7}
  <2>1. PICK tile : tile = (IF k = 7 THEN f ELSE t) /\ This = Bd(tile, BdOf(tile, p[2])[2], StartAddr(tile, p[2]), size)
    BY <1>2, <1>3, <1>8
  <2>2. DmaWriteBd
    BY <2>1, WhichAction DEF Bd
  <2>3. BdOf(tile, p[2]) = <<tile, BdOf(tile, p[2])[2]>>
    BY DEF BdOf
  <2>4. bd' = With(bd, BdOf(tile, p[2]), Written(tile, p[2]))
    BY <2>1, <2>2, <2>3 DEF DmaWriteBd, Bd, Written
  <2>5. UNCHANGED <<txn, task, fifo, tcts, tokens, mem, route, queue, ctrl>> /\ pc' = pc + 1
    BY <2>2 DEF DmaWriteBd, Advance, channels, switch
  <2>6. QED
    BY <1>8, <2>1, <2>4, <2>5 DEF Effect, f, t
<1>9. CASE k = 5
  <2>1. PICK arg \in {0, 1} : This = PatchBd(p[1], p[2], arg)
    BY <1>2, <1>3, <1>9
  <2>2. /\ This.op = "patch" /\ This.tile = shim /\ This.reg = p[2] * 32
        /\ This.argidx = arg /\ This.argplus = ddr_addr_offset(p[1], p[2])
    BY <2>1 DEF PatchBd, PatchOp, shim
  <2>3. DdrAddressPatch
    BY <2>2, WhichAction
  <2>4. p[2] \in {0, 1}
    BY <1>1, TransfersFact
  <2>5. shim[1] = p[1] /\ IsShim(shim)
    BY DEF shim, Shim, IsShim
  <2>6. <<This.tile, This.reg \div BD_STRIDE>> = d
    BY <2>2, <2>4, <2>5 DEF BD_STRIDE, d, BdOf, tile_s_bd, shim
  <2>7. ArgBuffer[This.argidx] = Pad
    BY <2>2, ScratchPadAssumption DEF Pad, OUT_BUFFER_KERNARG_IDX, IN_BUFFER_KERNARG_IDX
  <2>8. This.argplus = StartAddr(shim, p[2])
    BY <2>2, <2>5 DEF StartAddr
  <2>9. bd' = With(bd, d, [base |-> Pad, addr |-> StartAddr(shim, p[2]),
                           len |-> IF d \in DOMAIN bd THEN bd[d].len ELSE 0])
    BY <2>3, <2>6, <2>7, <2>8 DEF DdrAddressPatch
  <2>10. UNCHANGED <<txn, task, fifo, tcts, tokens, mem, route, queue, ctrl>> /\ pc' = pc + 1
    BY <2>3 DEF DdrAddressPatch, Advance, channels, switch
  <2>11. QED
    BY <1>9, <2>9, <2>10 DEF Effect, d, shim
<1>10. CASE k \in {2, 4}
  <2>1. PICK c : c = (IF k = 4 THEN src ELSE snk) /\ This = Push(c, BdOf(c[1], c[3])[2], TokenOf(Type, c))
    BY <1>2, <1>3, <1>6, <1>10
  <2>2. This.op = "push" /\ This.chan = c /\ [bd |-> This.bd, token |-> This.token] = TaskOf(Type, c)
    BY <2>1 DEF Push, TaskOf
  <2>3. PushBdToQueue
    BY <2>2, WhichAction
  <2>4. queue' = Enqueued(queue, c, TaskOf(Type, c))
    BY <2>2, <2>3 DEF PushBdToQueue, Enqueued
  <2>5. UNCHANGED <<txn, task, fifo, tcts, tokens, mem, route, bd, ctrl>> /\ pc' = pc + 1
    BY <2>3 DEF PushBdToQueue, Advance, switch
  <2>6. /\ k = 4 => queue' = Enqueued(queue, src, TaskOf(Type, src))
        /\ k = 2 => queue' = Enqueued(queue, snk, TaskOf(Type, snk))
    BY <2>1, <2>4
  <2>7. QED
    BY <1>10, <2>5, <2>6 DEF Effect, src, snk
<1>11. CASE k = 3
  <2>1. This = ControllerId(snk)
    BY <1>2, <1>3, <1>11
  <2>2. This.op = "channel" /\ This.chan = snk /\ This.id = TCT_CTRL_ID
    BY <2>1 DEF ControllerId
  <2>3. DmaWriteChannel
    BY <2>2, WhichAction
  <2>4. ctrl' = [ctrl EXCEPT ![snk] = TCT_CTRL_ID]
    BY <2>2, <2>3 DEF DmaWriteChannel
  <2>5. UNCHANGED <<txn, task, fifo, tcts, tokens, mem, route, bd, queue>> /\ pc' = pc + 1
    BY <2>3 DEF DmaWriteChannel, Advance, switch
  <2>6. QED
    BY <1>11, <2>4, <2>5 DEF Effect, snk
<1>12. CASE k \in {0, 1}
  <2>1. This.op = "enable"
    BY <1>2, <1>3, <1>5, <1>12 DEF Enable
  <2>2. DmaChannelEnable
    BY <2>1, WhichAction
  <2>3. UNCHANGED <<txn, task, fifo, tcts, tokens, mem, route, bd, queue, ctrl>> /\ pc' = pc + 1
    BY <2>2 DEF DmaChannelEnable, Advance, switch
  <2>4. QED
    BY <1>12, <2>3 DEF Effect
<1>13. QED
  BY <1>5, <1>7, <1>8, <1>9, <1>10, <1>11, <1>12

(* The merge sync takes the tokens of all transfers.                       *)
Synced ==
  /\ pc = SyncAt(Type, ncol) /\ pc' = pc + 1
  /\ tokens >= 2 * ncol /\ tokens' = tokens - 2 * ncol
  /\ UNCHANGED <<txn, route, bd, ctrl, queue, task, fifo, tcts, mem>>

LEMMA ExecuteIs ==
  ASSUME ControlInv, Execute
  PROVE  \/ Synced
         \/ \E p \in Transfers(ncol) : \E k \in 0 .. OpsPer(Type) - 1 :
              pc = Nth(Type, p, k) /\ Effect(Type, p, k)
<1>1. /\ Type \in Types /\ ncol \in ColumnCounts /\ Ops = generate_tran(Type, ncol)
      /\ Len(Ops) = SyncAt(Type, ncol) /\ SyncAt(Type, ncol) \in Nat /\ pc \in Nat /\ pc >= 1
  BY ControlFact
<1>2. pc <= Len(Ops)
  BY DEF Execute, StrmConnCctEnable, EnableShimDmaPort, DmaWriteBd, DdrAddressPatch, PushBdToQueue,
         DmaWriteChannel, DmaChannelEnable, MergeSync, DmaWaitForDone, Op
<1>3. CASE pc = SyncAt(Type, ncol)
  <2>1. This = [op |-> "merge_sync", num_tcts |-> 2 * ncol]
    BY <1>1, <1>3, SyncOperation DEF This
  <2>2. MergeSync
    BY <2>1, WhichAction
  <2>3. QED
    BY <1>3, <2>1, <2>2 DEF MergeSync, Synced, Advance, switch, channels
<1>4. CASE pc # SyncAt(Type, ncol)
  <2>1. pc \in 1 .. SyncAt(Type, ncol) - 1
    BY <1>1, <1>2, <1>4
  <2>2. PICK p \in Transfers(ncol), k \in 0 .. OpsPer(Type) - 1 : pc = Nth(Type, p, k)
    BY <1>1, <2>1, EveryOperation
  <2>3. QED
    BY <2>2, EffectOfOperation
<1>5. QED
  BY <1>3, <1>4
-----------------------------------------------------------------------------
(* The control processor keeps the invariant, part by part.                *)
LEMMA NthNumber ==
  ASSUME NEW n \in ColumnCounts, NEW p \in Transfers(n), NEW type \in Types, NEW k \in Nat
  PROVE  Nth(type, p, k) \in Int
<1>1. p[1] \in Nat /\ p[2] \in {0, 1} /\ OpsPer(type) \in {12, 13}
  BY TransfersFact, OpsPerFact
<1>2. QED
  BY <1>1 DEF Nth

(* One operation of one transfer moves past itself and nothing else.       *)
LEMMA PastStep ==
  ASSUME NEW n \in ColumnCounts, NEW p \in Transfers(n), NEW q \in Transfers(n),
         NEW type \in Types, NEW k \in 0 .. OpsPer(type) - 1, NEW l \in 0 .. 7,
         NEW at, at = Nth(type, p, k)
  PROVE  IF p = q /\ k = l
         THEN ~ Past(type, q, l, at) /\ Past(type, q, l, at + 1)
         ELSE Past(type, q, l, at + 1) = Past(type, q, l, at)
<1>1. OpsPer(type) \in {12, 13} /\ l \in 0 .. OpsPer(type) - 1 /\ l \in Nat /\ k \in Nat
  BY OpsPerFact
<1>2. Nth(type, p, k) \in Int /\ Nth(type, q, l) \in Int
  BY <1>1, NthNumber
<1>3. CASE p = q /\ k = l
  BY <1>2, <1>3 DEF Past
<1>4. CASE ~ (p = q /\ k = l)
  <2>1. at # Nth(type, q, l)
    BY <1>1, <1>4, NthApart
  <2>2. QED
    BY <1>2, <1>4, <2>1 DEF Past
<1>5. QED
  BY <1>3, <1>4

(* What was done later was done after what comes earlier.                  *)
LEMMA PastOrder ==
  ASSUME NEW n \in ColumnCounts, NEW p \in Transfers(n), NEW type \in Types,
         NEW at \in Nat, NEW k \in Nat, NEW l \in Nat, k <= l, Past(type, p, k, at)
  PROVE  Past(type, p, l, at)
<1>1. p[1] \in Nat /\ p[2] \in {0, 1} /\ OpsPer(type) \in {12, 13}
  BY TransfersFact, OpsPerFact
<1>2. QED
  BY <1>1 DEF Past, Nth

(* After the merge sync's place everything is past.                        *)
LEMMA AllPast ==
  ASSUME NEW n \in ColumnCounts, NEW p \in Transfers(n), NEW type \in Types,
         NEW at \in Nat, at >= SyncAt(type, n), NEW k \in 0 .. 7
  PROVE  Past(type, p, k, at)
<1>1. k \in 0 .. OpsPer(type) - 1
  BY OpsPerFact
<1>2. Nth(type, p, k) \in 1 .. SyncAt(type, n) - 1
  BY <1>1, NthFact
<1>3. SyncAt(type, n) \in Nat
  BY SyncOperation
<1>4. QED
  BY <1>2, <1>3 DEF Past

(* Before the first operation nothing is.                                  *)
LEMMA NonePast ==
  ASSUME NEW n \in ColumnCounts, NEW p \in Transfers(n), NEW type \in Types, NEW k \in 0 .. 7
  PROVE  ~ Past(type, p, k, 1)
<1>1. k \in 0 .. OpsPer(type) - 1
  BY OpsPerFact
<1>2. Nth(type, p, k) \in 1 .. SyncAt(type, n) - 1 /\ SyncAt(type, n) \in Nat
  BY <1>1, NthFact, SyncOperation
<1>3. QED
  BY <1>2 DEF Past

LEMMA WithFact ==
  ASSUME NEW f, NEW d, NEW x
  PROVE  /\ DOMAIN With(f, d, x) = DOMAIN f \cup {d}
         /\ With(f, d, x)[d] = x
         /\ \A e \in DOMAIN f : e # d => With(f, d, x)[e] = f[e]
         /\ With(f, d, x) = [e \in DOMAIN With(f, d, x) |-> With(f, d, x)[e]]
BY DEF With

LEMMA EnqueuedFact ==
  ASSUME NEW q, q = [c \in Channels |-> q[c]], NEW c \in Channels, NEW x
  PROVE  /\ Enqueued(q, c, x) = [e \in Channels |-> Enqueued(q, c, x)[e]]
         /\ Enqueued(q, c, x)[c] = Append(q[c], x)
         /\ \A e \in Channels : e # c => Enqueued(q, c, x)[e] = q[e]
BY DEF Enqueued

(* The descriptors of different ends are different.                        *)
LEMMA BdsApart ==
  ASSUME NEW n \in ColumnCounts, NEW p \in Transfers(n), NEW q \in Transfers(n),
         NEW type \in Types
  PROVE  /\ BdOf(FromTile(type, p), p[2]) # BdOf(ToTile(type, q), q[2])
         /\ BdOf(FromTile(type, p), p[2]) = BdOf(FromTile(type, q), q[2]) => p = q
         /\ BdOf(ToTile(type, p), p[2]) = BdOf(ToTile(type, q), q[2]) => p = q
<1>1. p = <<p[1], p[2]>> /\ q = <<q[1], q[2]>> /\ p[2] \in {0, 1} /\ q[2] \in {0, 1}
  BY TransfersFact
<1>2. /\ FromTile(type, p) # ToTile(type, q)
      /\ FromTile(type, p) = FromTile(type, q) => p[1] = q[1]
      /\ ToTile(type, p) = ToTile(type, q) => p[1] = q[1]
  BY DEF FromTile, ToTile, MemTile, Shim, Types
<1>3. ASSUME NEW t, NEW u, BdOf(t, p[2]) = BdOf(u, q[2])
      PROVE  t = u /\ p[2] = q[2]
  BY <1>1, <1>3 DEF BdOf, tile_s_bd, tile_m_bd, MEMTILE_BD_OFF
<1>4. QED
  BY <1>1, <1>2, <1>3

LEMMA EffectKeepsHardware ==
  ASSUME ControlInv, HardwareInv, NEW p \in Transfers(ncol), NEW k \in 0 .. OpsPer(Type) - 1,
         Effect(Type, p, k), ncol' = ncol
  PROVE  HardwareInv'
<1>1. /\ Src(Type, p) \in Channels /\ Snk(Type, p) \in Channels /\ Snk(Type, p)[2] = "S2MM"
  BY ControlFact, EndsFact
<1>2. UNCHANGED <<task, fifo, tcts, tokens, mem>>
  BY DEF Effect
<1>3. ctrl' = ctrl \/ ctrl' = [ctrl EXCEPT ![Snk(Type, p)] = TCT_CTRL_ID]
  BY DEF Effect
<1>4. ctrl' \in [Channels -> {0, TCT_CTRL_ID}] /\ \A c \in Channels : c[2] = "MM2S" => ctrl'[c] = 0
  BY <1>1, <1>3 DEF HardwareInv
<1>5. \/ queue' = queue
      \/ queue' = Enqueued(queue, Src(Type, p), TaskOf(Type, Src(Type, p)))
      \/ queue' = Enqueued(queue, Snk(Type, p), TaskOf(Type, Snk(Type, p)))
  BY DEF Effect
<1>6. queue' = [c \in Channels |-> queue'[c]]
  BY <1>1, <1>5, EnqueuedFact DEF HardwareInv
<1>7. MemoryOf(ncol)' = MemoryOf(ncol) /\ ScratchPad(ncol)' = ScratchPad(ncol)
  BY DEF MemoryOf, ScratchPad
<1>8. QED
  BY <1>2, <1>4, <1>6, <1>7 DEF HardwareInv

LEMMA WithKeepsRoutes ==
  ASSUME RoutesInv, NEW tile \in Tiles, NEW master, NEW slave \in Leads(tile, master),
         route' = With(route, <<tile, master>>, slave)
  PROVE  RoutesInv'
<1>1. route' = [x \in DOMAIN route' |-> route'[x]]
  BY DEF With
<1>2. ASSUME NEW t \in Tiles, NEW m, <<t, m>> \in DOMAIN route'
      PROVE  route'[<<t, m>>] \in Leads(t, m)
  <2>1. CASE <<t, m>> = <<tile, master>>
    BY <2>1 DEF With
  <2>2. CASE <<t, m>> # <<tile, master>>
    <3>1. <<t, m>> \in DOMAIN route /\ route'[<<t, m>>] = route[<<t, m>>]
      BY <1>2, <2>2 DEF With
    <3>2. QED
      BY <3>1 DEF RoutesInv
  <2>3. QED
    BY <2>1, <2>2
<1>3. QED
  BY <1>1, <1>2 DEF RoutesInv

LEMMA EffectKeepsRoutes ==
  ASSUME RoutesInv, NEW p, NEW k \in 0 .. OpsPer(Type) - 1, ControlInv, Effect(Type, p, k)
  PROVE  RoutesInv'
<1>1. \/ route' = route
      \/ \E tile \in Tiles : \E master : \E slave \in Leads(tile, master) :
           route' = With(route, <<tile, master>>, slave)
  BY ControlFact, OpsPerFact DEF Effect
<1>2. CASE route' = route
  BY <1>2 DEF RoutesInv
<1>3. QED
  BY <1>1, <1>2, WithKeepsRoutes

(* A descriptor written elsewhere leaves this one alone.                   *)
LEMMA HasBdElsewhere ==
  ASSUME NEW ds, NEW d, NEW x, NEW t, NEW chan, NEW y, BdOf(t, chan) # d
  PROVE  HasBd(ds, t, chan, y) => HasBd(With(ds, d, x), t, chan, y)
BY DEF HasBd, With

LEMMA HasBdHere ==
  ASSUME NEW ds, NEW t, NEW chan, NEW y
  PROVE  HasBd(With(ds, BdOf(t, chan), y), t, chan, y)
BY DEF HasBd, With

LEMMA EffectKeepsDescriptors ==
  ASSUME ControlInv, DescriptorsInv, ~ Finished, NEW p \in Transfers(ncol),
         NEW k \in 0 .. OpsPer(Type) - 1, pc = Nth(Type, p, k), Effect(Type, p, k),
         NEW q \in Transfers(ncol)
  PROVE  Described(Type, q, pc', bd')
<1> DEFINE type == Type
           n == ncol
           f == FromTile(type, q)
           t == ToTile(type, q)
           P(l) == Past(type, q, l, pc)
           N(l) == Past(type, q, l, pc')
<1>1. type \in Types /\ n \in ColumnCounts /\ phase # "run" /\ pc' = pc + 1 /\ pc \in Nat
  BY ControlFact DEF Effect
<1>2. /\ P(7) /\ ~ P(5) => HasBd(bd, f, q[2], Written(f, q[2]))
      /\ P(6) /\ ~ P(5) => HasBd(bd, t, q[2], Written(t, q[2]))
      /\ P(5) => HasBd(bd, f, q[2], Patched(f, q[2])) /\ HasBd(bd, t, q[2], Patched(t, q[2]))
  BY <1>1 DEF DescriptorsInv, Described
<1>3. \A l \in 5 .. 7 : IF p = q /\ k = l THEN ~ P(l) /\ N(l) ELSE N(l) = P(l)
  BY <1>1, PastStep
<1>4. (P(5) => P(6)) /\ (P(6) => P(7)) /\ (N(5) => N(6)) /\ (N(6) => N(7))
  BY <1>1, PastOrder
<1>5. /\ BdOf(f, q[2]) # BdOf(t, q[2])
      /\ p # q => /\ BdOf(f, q[2]) # BdOf(FromTile(type, p), p[2])
                  /\ BdOf(f, q[2]) # BdOf(ToTile(type, p), p[2])
                  /\ BdOf(t, q[2]) # BdOf(FromTile(type, p), p[2])
                  /\ BdOf(t, q[2]) # BdOf(ToTile(type, p), p[2])
  BY <1>1, BdsApart
<1>6. Shim(p[1]) = FromTile(type, p) \/ Shim(p[1]) = ToTile(type, p)
  BY DEF FromTile, ToTile
<1>7. /\ k = 7 => bd' = With(bd, BdOf(FromTile(type, p), p[2]), Written(FromTile(type, p), p[2]))
      /\ k = 6 => bd' = With(bd, BdOf(ToTile(type, p), p[2]), Written(ToTile(type, p), p[2]))
      /\ k = 5 => \E x : bd' = With(bd, BdOf(Shim(p[1]), p[2]), x)
      /\ k \notin 5 .. 7 => bd' = bd
  BY DEF Effect
<1> HIDE DEF P, N, type, n, f, t
<1>8. CASE p # q
  <2>1. \A y : /\ HasBd(bd, f, q[2], y) => HasBd(bd', f, q[2], y)
               /\ HasBd(bd, t, q[2], y) => HasBd(bd', t, q[2], y)
    <3>1. CASE k = 7
      BY <1>5, <1>7, <1>8, <3>1, HasBdElsewhere
    <3>2. CASE k = 6
      BY <1>5, <1>7, <1>8, <3>2, HasBdElsewhere
    <3>3. CASE k = 5
      <4>1. BdOf(f, q[2]) # BdOf(Shim(p[1]), p[2]) /\ BdOf(t, q[2]) # BdOf(Shim(p[1]), p[2])
        BY <1>5, <1>6, <1>8
      <4>2. QED
        BY <1>7, <3>3, <4>1, HasBdElsewhere
    <3>4. CASE k \notin 5 .. 7
      BY <1>7, <3>4
    <3>5. QED
      BY <3>1, <3>2, <3>3, <3>4
  <2>2. N(5) = P(5) /\ N(6) = P(6) /\ N(7) = P(7)
    BY <1>3, <1>8
  <2>3. QED
    BY <1>2, <2>1, <2>2 DEF Described, N, P, f, t, type
<1>9. CASE p = q
  <2>1. CASE k = 7
    <3>1. ~ P(7) /\ N(7) /\ N(6) = P(6) /\ N(5) = P(5)
      BY <1>3, <1>9, <2>1
    <3>2. ~ N(6) /\ ~ N(5)
      BY <1>4, <3>1
    <3>3. HasBd(bd', f, q[2], Written(f, q[2]))
      BY <1>7, <1>9, <2>1, HasBdHere DEF f
    <3>4. QED
      BY <3>1, <3>2, <3>3 DEF Described, N, f, type
  <2>2. CASE k = 6
    <3>1. ~ P(6) /\ N(6) /\ N(7) = P(7) /\ N(5) = P(5)
      BY <1>3, <1>9, <2>2
    <3>2. ~ N(5) /\ ~ P(5) /\ P(7)
      BY <1>4, <3>1
    <3>3. HasBd(bd', t, q[2], Written(t, q[2]))
      BY <1>7, <1>9, <2>2, HasBdHere DEF t
    <3>4. HasBd(bd', f, q[2], Written(f, q[2]))
      BY <1>2, <1>5, <1>7, <1>9, <2>2, <3>2, HasBdElsewhere DEF t
    <3>5. QED
      BY <3>2, <3>3, <3>4 DEF Described, N, f, t, type
  <2>3. CASE k = 5
    <3>1. ~ P(5) /\ N(5) /\ N(6) /\ N(7) /\ P(6) /\ P(7)
      BY <1>3, <1>4, <1>9, <2>3
    <3> DEFINE s == Shim(p[1])
               o == IF s = f THEN t ELSE f
               d == BdOf(s, p[2])
    <3>2. {f, t} = {s, o} /\ s # o
      BY <1>5, <1>6, <1>9 DEF f, t
    <3>3. IsShim(s) /\ ~ IsShim(o)
      BY <1>9 DEF f, t, FromTile, ToTile, MemTile, Shim, IsShim
    <3>4. HasBd(bd, s, q[2], Written(s, q[2])) /\ HasBd(bd, o, q[2], Written(o, q[2]))
      BY <1>2, <3>1, <3>2
    <3>5. bd' = With(bd, d, [base |-> Pad, addr |-> StartAddr(s, p[2]),
                             len |-> IF d \in DOMAIN bd THEN bd[d].len ELSE 0])
      BY <2>3 DEF Effect
    <3> HIDE DEF s, o
    <3>6. bd' = With(bd, d, Patched(s, q[2]))
      <4>1. d \in DOMAIN bd /\ bd[d].len = size
        BY <1>9, <3>4 DEF HasBd, Written
      <4>2. QED
        BY <1>9, <3>3, <3>5, <4>1 DEF Patched, BaseOf
    <3>7. HasBd(bd', s, q[2], Patched(s, q[2]))
      BY <1>9, <3>6, HasBdHere
    <3>8. Written(o, q[2]) = Patched(o, q[2])
      BY <3>3 DEF Written, Patched, BaseOf
    <3>9. BdOf(o, q[2]) # d
      BY <1>9, <3>2 DEF BdOf
    <3>10. HasBd(bd', o, q[2], Patched(o, q[2]))
      BY <3>4, <3>6, <3>8, <3>9, HasBdElsewhere
    <3>11. QED
      BY <3>1, <3>2, <3>7, <3>10 DEF Described, N, f, t, type
  <2>4. CASE k \notin 5 .. 7
    <3>1. N(5) = P(5) /\ N(6) = P(6) /\ N(7) = P(7) /\ bd' = bd
      BY <1>3, <1>7, <2>4
    <3>2. QED
      BY <1>2, <3>1 DEF Described, N, P, f, t, type
  <2>5. QED
    BY <2>1, <2>2, <2>3, <2>4
<1>10. QED
  BY <1>8, <1>9

(* A step that leaves the ends, the stream and the words of a transfer and *)
(* what it is past alone leaves the transfer alone.                        *)
LEMMA MovingSame ==
  ASSUME NEW type, NEW r, NEW p, NEW at, NEW at2, NEW qs, NEW qs2, NEW ts, NEW fs, NEW m,
         Past(type, p, 4, at2) = Past(type, p, 4, at), Past(type, p, 2, at2) = Past(type, p, 2, at),
         qs2[Src(type, p)] = qs[Src(type, p)], qs2[Snk(type, p)] = qs[Snk(type, p)],
         Moving(type, r, p, at, qs, ts, fs, m)
  PROVE  Moving(type, r, p, at2, qs2, ts, fs, m)
BY DEF Moving, Transfer

LEMMA SourcePushed ==
  ASSUME NEW type, NEW r, NEW p, NEW at, NEW at2, NEW qs, NEW qs2, NEW ts, NEW fs, NEW m,
         ~ Past(type, p, 4, at), Past(type, p, 4, at2), Past(type, p, 2, at2) = Past(type, p, 2, at),
         Src(type, p)[1] = FromTile(type, p),
         qs2[Src(type, p)] = Append(qs[Src(type, p)], TaskOf(type, Src(type, p))),
         qs2[Snk(type, p)] = qs[Snk(type, p)],
         Moving(type, r, p, at, qs, ts, fs, m)
  PROVE  Moving(type, r, p, at2, qs2, ts, fs, m)
<1>1. PICK a, b \in 0 .. size : Transfer(type, r, p, at, qs, ts, fs, m, a, b)
  BY DEF Moving
<1> DEFINE c == Src(type, p)
<1>2. a = 0 /\ qs[c] = <<>> /\ ts[c].left = 0
  BY <1>1 DEF Transfer, Progress, Resting
<1>3. qs2[c] = <<TaskOf(type, c)>>
  BY <1>2
<1>4. Progress(type, c, Past(type, p, 4, at2), qs2[c], ts[c], a)
  BY <1>2, <1>3 DEF Progress, Waiting, TaskOf
<1>5. QED
  BY <1>1, <1>4 DEF Moving, Transfer

LEMMA SinkPushed ==
  ASSUME NEW type, NEW r, NEW p, NEW at, NEW at2, NEW qs, NEW qs2, NEW ts, NEW fs, NEW m,
         ~ Past(type, p, 2, at), Past(type, p, 2, at2), Past(type, p, 4, at2) = Past(type, p, 4, at),
         qs2[Snk(type, p)] = Append(qs[Snk(type, p)], TaskOf(type, Snk(type, p))),
         qs2[Src(type, p)] = qs[Src(type, p)],
         Moving(type, r, p, at, qs, ts, fs, m)
  PROVE  Moving(type, r, p, at2, qs2, ts, fs, m) /\ qs2[Snk(type, p)] # <<>>
<1>1. PICK a, b \in 0 .. size : Transfer(type, r, p, at, qs, ts, fs, m, a, b)
  BY DEF Moving
<1> DEFINE c == Snk(type, p)
<1>2. b = 0 /\ qs[c] = <<>> /\ ts[c].left = 0
  BY <1>1 DEF Transfer, Progress, Resting
<1>3. qs2[c] = <<TaskOf(type, c)>>
  BY <1>2
<1>4. Progress(type, c, Past(type, p, 2, at2), qs2[c], ts[c], b)
  BY <1>2, <1>3 DEF Progress, Waiting, TaskOf
<1>5. QED
  BY <1>1, <1>3, <1>4 DEF Moving, Transfer

(* What an operation does to the queues: past is as before but for the     *)
(* transfer whose task it pushes.                                          *)
LEMMA EffectOnTransfer ==
  ASSUME ControlInv, HardwareInv, ChannelsInv, ~ Finished, NEW p \in Transfers(ncol),
         NEW k \in 0 .. OpsPer(Type) - 1, pc = Nth(Type, p, k), Effect(Type, p, k),
         NEW q \in Transfers(ncol)
  PROVE  /\ Moving(Type, round, q, pc', queue', task, fifo, mem)
         /\ Past(Type, q, 3, pc') => ctrl'[Snk(Type, q)] = TCT_CTRL_ID
         /\ (Past(Type, q, 2, pc') /\ Resting(queue'[Snk(Type, q)], task[Snk(Type, q)]))
            = (Past(Type, q, 2, pc) /\ Resting(queue[Snk(Type, q)], task[Snk(Type, q)]))
<1> DEFINE type == Type
           src == Src(type, q)
           snk == Snk(type, q)
           P(l) == Past(type, q, l, pc)
           N(l) == Past(type, q, l, pc')
<1>1. type \in Types /\ ncol \in ColumnCounts /\ phase # "run" /\ pc' = pc + 1 /\ pc \in Nat
  BY ControlFact DEF Effect
<1>2. Moving(type, round, q, pc, queue, task, fifo, mem) /\ (P(3) => ctrl[snk] = TCT_CTRL_ID)
  BY <1>1 DEF ChannelsInv
<1>3. \A l \in {2, 3, 4} : IF p = q /\ k = l THEN ~ P(l) /\ N(l) ELSE N(l) = P(l)
  BY <1>1, PastStep
<1>4. /\ src \in Channels /\ snk \in Channels /\ src # snk /\ src[1] = FromTile(type, q)
      /\ Src(type, p) \in Channels /\ Snk(type, p) \in Channels
      /\ src # Snk(type, p) /\ snk # Src(type, p)
      /\ p # q => src # Src(type, p) /\ snk # Snk(type, p)
  BY <1>1, EndsFact, EndsApart
<1>5. queue = [c \in Channels |-> queue[c]] /\ ctrl \in [Channels -> {0, TCT_CTRL_ID}]
  BY DEF HardwareInv
<1>6. /\ k = 4 => queue' = Enqueued(queue, Src(type, p), TaskOf(type, Src(type, p)))
      /\ k = 2 => queue' = Enqueued(queue, Snk(type, p), TaskOf(type, Snk(type, p)))
      /\ k \notin {2, 4} => queue' = queue
      /\ k = 3 => ctrl' = [ctrl EXCEPT ![Snk(type, p)] = TCT_CTRL_ID]
      /\ k # 3 => ctrl' = ctrl
  BY DEF Effect
<1> HIDE DEF P, N, type, src, snk
<1>7. Past(type, q, 3, pc') => ctrl'[snk] = TCT_CTRL_ID
  <2>1. CASE k = 3 /\ p = q
    BY <1>4, <1>5, <1>6, <2>1 DEF snk
  <2>2. CASE k = 3 /\ p # q
    BY <1>2, <1>3, <1>4, <1>5, <1>6, <2>2 DEF N, P
  <2>3. CASE k # 3
    BY <1>2, <1>3, <1>6, <2>3 DEF N, P
  <2>4. QED
    BY <2>1, <2>2, <2>3
<1>8. CASE p = q /\ k = 4
  <2>1. /\ queue'[src] = Append(queue[src], TaskOf(type, src))
        /\ queue'[snk] = queue[snk]
    BY <1>4, <1>5, <1>6, <1>8, EnqueuedFact DEF src
  <2>2. ~ P(4) /\ N(4) /\ N(2) = P(2)
    BY <1>3, <1>8
  <2>3. Moving(type, round, q, pc', queue', task, fifo, mem)
    BY <1>2, <1>4, <2>1, <2>2, SourcePushed DEF src, snk, P, N
  <2>4. QED
    BY <1>7, <2>1, <2>2, <2>3 DEF snk, P, N, type
<1>9. CASE p = q /\ k = 2
  <2>1. /\ queue'[snk] = Append(queue[snk], TaskOf(type, snk))
        /\ queue'[src] = queue[src]
    BY <1>4, <1>5, <1>6, <1>9, EnqueuedFact DEF snk
  <2>2. ~ P(2) /\ N(2) /\ N(4) = P(4)
    BY <1>3, <1>9
  <2>3. Moving(type, round, q, pc', queue', task, fifo, mem) /\ queue'[snk] # <<>>
    BY <1>2, <2>1, <2>2, SinkPushed DEF src, snk, P, N
  <2>4. QED
    BY <1>7, <2>2, <2>3 DEF snk, P, N, type, Resting
<1>10. CASE ~ (p = q /\ k \in {2, 4})
  <2>1. N(4) = P(4) /\ N(2) = P(2)
    BY <1>3, <1>10
  <2>2. queue'[src] = queue[src] /\ queue'[snk] = queue[snk]
    <3>1. CASE k = 4
      BY <1>4, <1>5, <1>6, <1>10, <3>1, EnqueuedFact
    <3>2. CASE k = 2
      BY <1>4, <1>5, <1>6, <1>10, <3>2, EnqueuedFact
    <3>3. QED
      BY <1>6, <3>1, <3>2
  <2>3. Moving(type, round, q, pc', queue', task, fifo, mem)
    BY <1>2, <2>1, <2>2, MovingSame DEF src, snk, P, N
  <2>4. QED
    BY <1>7, <2>1, <2>2, <2>3 DEF snk, P, N, type
<1>11. QED
  BY <1>8, <1>9, <1>10
LEMMA EffectKeepsInvariant ==
  ASSUME GenInv, NEW p \in Transfers(ncol), NEW k \in 0 .. OpsPer(Type) - 1,
         pc = Nth(Type, p, k), Effect(Type, p, k), UNCHANGED <<ncol, phase, round>>
  PROVE  GenInv'
<1>1. /\ ControlInv /\ HardwareInv /\ RoutesInv /\ DescriptorsInv /\ ChannelsInv /\ MemoryInv
      /\ TokensInv /\ AllDone
  BY DEF GenInv
<1>2. /\ Type \in Types /\ ncol \in ColumnCounts /\ pc \in Nat /\ pc >= 1
      /\ Len(Ops) = SyncAt(Type, ncol) /\ SyncAt(Type, ncol) \in Nat
  BY <1>1, ControlFact
<1>3. pc < SyncAt(Type, ncol)
  BY <1>2, NthFact
<1>4. ~ Finished
  BY <1>2, <1>3 DEF Finished
<1>5. pc' = pc + 1 /\ UNCHANGED <<txn, task, fifo, tcts, tokens, mem>> /\ Type' = Type
  BY DEF Effect, Type
<1>6. phase # "run"
  BY <1>1, <1>4, ControlFact
<1>7. ControlInv'
  BY <1>1, <1>2, <1>3, <1>5, <1>6 DEF ControlInv
<1>8. ~ Finished'
  BY <1>2, <1>3, <1>5 DEF Finished, Ops
<1>9. HardwareInv' /\ RoutesInv'
  BY <1>1, EffectKeepsHardware, EffectKeepsRoutes
<1>10. DescriptorsInv'
  <2>1. \A q \in Transfers(ncol) : Described(Type, q, pc', bd')
    BY <1>1, <1>4, EffectKeepsDescriptors
  <2>2. bd' = [d \in DOMAIN bd' |-> bd'[d]]
    <3>1. bd' = bd \/ \E d, x : bd' = With(bd, d, x)
      BY DEF Effect
    <3>2. QED
      BY <1>1, <3>1 DEF DescriptorsInv, With
  <2>3. QED
    BY <1>5, <2>1, <2>2 DEF DescriptorsInv
<1>11. \A q \in Transfers(ncol) :
         /\ Moving(Type, round, q, pc', queue', task, fifo, mem)
         /\ Past(Type, q, 3, pc') => ctrl'[Snk(Type, q)] = TCT_CTRL_ID
         /\ (Past(Type, q, 2, pc') /\ Resting(queue'[Snk(Type, q)], task[Snk(Type, q)]))
            = (Past(Type, q, 2, pc) /\ Resting(queue[Snk(Type, q)], task[Snk(Type, q)]))
  BY <1>1, <1>4, EffectOnTransfer
<1>12. ChannelsInv'
  <2>1. ASSUME NEW c \in Channels, c \notin Ends(Type, ncol)
        PROVE  queue'[c] = queue[c]
    <3>1. Src(Type, p) \in Channels \cap Ends(Type, ncol) /\ Snk(Type, p) \in Channels \cap Ends(Type, ncol)
      BY <1>2, EndsFact
    <3>2. \/ queue' = queue
          \/ queue' = Enqueued(queue, Src(Type, p), TaskOf(Type, Src(Type, p)))
          \/ queue' = Enqueued(queue, Snk(Type, p), TaskOf(Type, Snk(Type, p)))
      BY DEF Effect
    <3>3. c # Src(Type, p) /\ c # Snk(Type, p)
      BY <2>1, <3>1
    <3>4. queue = [e \in Channels |-> queue[e]]
      BY <1>1 DEF HardwareInv
    <3>5. QED
      BY <2>1, <3>2, <3>3, <3>4 DEF Enqueued
  <2>2. \A c \in Channels : c \notin Ends(Type, ncol) \/ c[2] = "MM2S" => fifo'[c] = <<>>
    BY <1>1, <1>5, <1>6 DEF ChannelsInv
  <2>3. \A c \in Channels : c \notin Ends(Type, ncol) => Resting(queue'[c], task'[c])
    BY <1>1, <1>5, <2>1 DEF ChannelsInv
  <2>4. \A q \in Transfers(ncol) :
          /\ Moving(Type', round', q, pc', queue', task', fifo', mem')
          /\ Past(Type', q, 3, pc') => ctrl'[Snk(Type', q)] = TCT_CTRL_ID
    BY <1>5, <1>11
  <2>5. QED
    BY <1>5, <1>6, <2>2, <2>3, <2>4 DEF ChannelsInv
<1>13. MemoryInv'
  BY <1>1, <1>5, <1>6 DEF MemoryInv
<1>14. TokensInv'
  <2>1. DoneTransfers(Type, ncol, pc', queue', task') = DoneTransfers(Type, ncol, pc, queue, task)
    BY <1>5, <1>11 DEF DoneTransfers
  <2>2. QED
    BY <1>1, <1>4, <1>5, <1>8, <2>1 DEF TokensInv
<1>15. AllDone'
  BY <1>8 DEF AllDone
<1>16. QED
  BY <1>7, <1>9, <1>10, <1>12, <1>13, <1>14, <1>15 DEF GenInv

LEMMA TransfersFinite ==
  ASSUME NEW n \in ColumnCounts
  PROVE  IsFiniteSet(Transfers(n)) /\ Cardinality(Transfers(n)) = 2 * n
<1>1. n \in Nat /\ n >= 1
  BY TransfersFact
<1>2. IsFiniteSet(0 .. n - 1) /\ Cardinality(0 .. n - 1) = n
  <2>1. 0 \in Int /\ n - 1 \in Int
    BY <1>1
  <2>2. IsFiniteSet(0 .. n - 1) /\ Cardinality(0 .. n - 1) = IF 0 > n - 1 THEN 0 ELSE n - 1 - 0 + 1
    BY <2>1, FS_Interval
  <2>3. QED
    BY <1>1, <2>2
<1> DEFINE cols == 0 .. n - 1
<1>3. IsFiniteSet(cols \X CHANNELS) /\ Cardinality(cols \X CHANNELS) = n * 2
  <2> HIDE DEF cols
  <2>1. IsFiniteSet(cols \X CHANNELS) /\ Cardinality(cols \X CHANNELS) = Cardinality(cols) * Cardinality(CHANNELS)
    BY <1>2, ChannelsFact, FS_Product DEF cols
  <2>2. QED
    BY <1>2, <2>1, ChannelsFact DEF cols
<1>4. Transfers(n) = cols \X CHANNELS
  BY DEF Transfers
<1> HIDE DEF cols
<1>5. QED
  BY <1>1, <1>3, <1>4

(* The merge sync: as many tokens as transfers are one of each, so none is *)
(* left and all are done.                                                  *)
LEMMA SyncedMeansDone ==
  ASSUME ControlInv, TokensInv, Synced
  PROVE  /\ DoneTransfers(Type, ncol, pc, queue, task) = Transfers(ncol)
         /\ tokens' = 0 /\ Counting(tcts) = {}
<1> DEFINE all == Transfers(ncol)
           done == DoneTransfers(Type, ncol, pc, queue, task)
<1>1. ncol \in ColumnCounts /\ ~ Finished
  BY ControlFact DEF Synced
<1>2. PICK D \in SUBSET done : \E g \in [Counting(tcts) -> done \ D] :
        Accounted(Type, tokens, tcts, done, D, g)
  BY <1>1 DEF TokensInv, Traced
<1>3. D \in SUBSET all /\ done \subseteq all
  BY DEF DoneTransfers
<1>4. IsFiniteSet(all) /\ Cardinality(all) = 2 * ncol /\ ncol \in Nat
  BY <1>1, TransfersFinite, TransfersFact
<1>5. IsFiniteSet(D) /\ Cardinality(D) <= Cardinality(all) /\ (Cardinality(all) = Cardinality(D) => all = D)
  BY <1>3, <1>4, FS_Subset
<1>6. Cardinality(D) \in Nat
  BY <1>5, FS_CardinalityType
<1>7. Cardinality(D) = tokens /\ tokens >= 2 * ncol /\ tokens' = tokens - 2 * ncol
  BY <1>2 DEF Accounted, Synced
<1>8. tokens = 2 * ncol /\ D = all
  BY <1>4, <1>5, <1>6, <1>7
<1>9. done = all /\ done \ D = {}
  BY <1>3, <1>8
<1>10. Counting(tcts) = {}
  BY <1>2, <1>9
<1>11. QED
  BY <1>4, <1>7, <1>8, <1>9, <1>10

LEMMA SyncKeepsInvariant ==
  ASSUME GenInv, Synced, UNCHANGED <<ncol, phase, round>>
  PROVE  GenInv'
<1>1. /\ ControlInv /\ HardwareInv /\ RoutesInv /\ DescriptorsInv /\ ChannelsInv /\ MemoryInv
      /\ TokensInv /\ AllDone
  BY DEF GenInv
<1>2. /\ Type \in Types /\ ncol \in ColumnCounts /\ pc \in Nat /\ pc = SyncAt(Type, ncol)
      /\ Len(Ops) = SyncAt(Type, ncol) /\ phase # "run"
  BY <1>1, ControlFact DEF Synced
<1>3. /\ pc' = pc + 1 /\ Type' = Type
      /\ UNCHANGED <<txn, route, bd, ctrl, queue, task, fifo, tcts, mem>>
  BY DEF Synced, Type
<1>4. Finished'
  BY <1>2, <1>3 DEF Finished, Ops
<1>5. /\ DoneTransfers(Type, ncol, pc, queue, task) = Transfers(ncol)
      /\ tokens' = 0 /\ Counting(tcts) = {}
  BY <1>1, SyncedMeansDone
<1>6. \A p \in Transfers(ncol) : \A k \in 0 .. 7 : Past(Type, p, k, pc) /\ Past(Type, p, k, pc')
  BY <1>2, <1>3, AllPast
<1>7. ControlInv'
  BY <1>1, <1>2, <1>3 DEF ControlInv
<1>8. HardwareInv' /\ RoutesInv'
  <2>1. MemoryOf(ncol)' = MemoryOf(ncol) /\ ScratchPad(ncol)' = ScratchPad(ncol)
    BY DEF MemoryOf, ScratchPad
  <2>2. QED
    BY <1>1, <1>3, <1>5, <2>1 DEF HardwareInv, RoutesInv
<1>9. DescriptorsInv'
  <2>1. ASSUME NEW p \in Transfers(ncol)
        PROVE  Described(Type, p, pc', bd')
    BY <1>1, <1>2, <1>3, <1>6 DEF DescriptorsInv, Described
  <2>2. QED
    BY <1>1, <1>3, <2>1 DEF DescriptorsInv
<1>10. ChannelsInv'
  <2>1. ASSUME NEW p \in Transfers(ncol)
        PROVE  /\ Moving(Type, round, p, pc', queue, task, fifo, mem)
               /\ ctrl[Snk(Type, p)] = TCT_CTRL_ID
    <3>1. Moving(Type, round, p, pc, queue, task, fifo, mem) /\ ctrl[Snk(Type, p)] = TCT_CTRL_ID
      BY <1>1, <1>2, <1>6 DEF ChannelsInv
    <3>2. /\ Past(Type, p, 4, pc') = Past(Type, p, 4, pc)
          /\ Past(Type, p, 2, pc') = Past(Type, p, 2, pc)
      BY <1>6 DEF Past
    <3>3. QED
      BY <3>1, <3>2, MovingSame
  <2>2. QED
    BY <1>1, <1>2, <1>3, <2>1 DEF ChannelsInv
<1>11. MemoryInv'
  BY <1>1, <1>3 DEF MemoryInv
<1>12. TokensInv'
  BY <1>3, <1>4, <1>5 DEF TokensInv
<1>13. AllDone'
  <2>1. DoneTransfers(Type, ncol, pc', queue, task) = DoneTransfers(Type, ncol, pc, queue, task)
    BY <1>6 DEF DoneTransfers
  <2>2. QED
    BY <1>3, <1>5, <2>1 DEF AllDone
<1>14. QED
  BY <1>7, <1>8, <1>9, <1>10, <1>11, <1>12, <1>13 DEF GenInv

LEMMA ExecuteKeepsInvariant ==
  ASSUME GenInv, Execute, UNCHANGED <<ncol, phase, round>>
  PROVE  GenInv'
BY ExecuteIs, EffectKeepsInvariant, SyncKeepsInvariant DEF GenInv
-----------------------------------------------------------------------------
(* Where the words are, and where the streams lead.                        *)

(* What a channel of a transfer addresses is the place of its i-th word.   *)
LEMMA AddressesPlaces ==
  ASSUME NEW col \in Nat, NEW chan \in {0, 1}, NEW t \in {MemTile(col), Shim(col)},
         NEW i \in 0 .. size - 1
  PROVE  Location(t, BaseOf(t), StartAddr(t, chan) + i) = Place(t, chan, i)
<1>1. size \in Nat /\ size >= 1 /\ MEMTILE_SIZE = 2 * size /\ MEMTILE_SIZE \in Nat
  BY SizeFact
<1>2. CASE t = Shim(col)
  <2>1. IsShim(t)
    BY <1>2 DEF IsShim, Shim
  <2>2. QED
    BY <2>1 DEF Location, Place, BaseOf, StartAddr
<1>3. CASE t = MemTile(col)
  <2>1. ~ IsShim(t) /\ t[1] = col
    BY <1>3 DEF IsShim, MemTile
  <2> DEFINE off == chan * size + i
             addr == MEMTILE_SIZE + off
  <2>2. off \in 0 .. MEMTILE_SIZE - 1
    BY <1>1
  <2>3. StartAddr(t, chan) + i = addr
    BY <1>1, <2>1 DEF StartAddr, mem_addr_offset, chan_addr_offset, START_OF_MEM
  <2>4. chan_addr_offset(chan) + i = off
    BY DEF chan_addr_offset
  <2> HIDE DEF off
  <2>5. addr \div MEMTILE_SIZE = 1 /\ addr % MEMTILE_SIZE = off
    BY <1>1, <2>2
  <2> HIDE DEF addr
  <2>6. Location(t, BaseOf(t), addr) = <<"l2", col + 1 - 1, off>>
    BY <2>1, <2>5 DEF Location
  <2>7. Place(t, chan, i) = <<"l2", col, off>>
    BY <2>1, <2>4 DEF Place
  <2>8. col + 1 - 1 = col
    OBVIOUS
  <2>9. QED
    BY <2>3, <2>6, <2>7, <2>8
<1>4. QED
  BY <1>2, <1>3

LEMMA TilesOfTransfer ==
  ASSUME NEW n \in ColumnCounts, NEW p \in Transfers(n), NEW type \in Types
  PROVE  /\ p[1] \in Nat /\ p[2] \in {0, 1}
         /\ FromTile(type, p) \in {MemTile(p[1]), Shim(p[1])}
         /\ ToTile(type, p) \in {MemTile(p[1]), Shim(p[1])}
         /\ IsShim(FromTile(type, p)) <=> ~ IsShim(ToTile(type, p))
         /\ FromTile(type, p)[1] = p[1] /\ ToTile(type, p)[1] = p[1]
         /\ IsShim(ToTile(type, p)) <=> type = "save"
BY TransfersFact DEF FromTile, ToTile, MemTile, Shim, IsShim, Types

(* The offset of a word in a memory tile and in the scratch pad.           *)
LEMMA OffsetFact ==
  ASSUME NEW n \in Nat, NEW col \in 0 .. n - 1, NEW chan \in {0, 1}, NEW i \in 0 .. size - 1
  PROVE  /\ chan_addr_offset(chan) + i \in 0 .. MEMTILE_SIZE - 1
         /\ ddr_addr_offset(col, chan) + i = col * MEMTILE_SIZE + (chan_addr_offset(chan) + i)
         /\ ddr_addr_offset(col, chan) + i \in 0 .. n * MEMTILE_SIZE - 1
<1>1. size \in Nat /\ size >= 1 /\ MEMTILE_SIZE = 2 * size /\ MEMTILE_SIZE \in Nat
  BY SizeFact
<1> DEFINE off == chan * size + i
           S == MEMTILE_SIZE
<1>2. off \in 0 .. S - 1 /\ chan * size \in Nat
  BY <1>1
<1>3. chan_addr_offset(chan) + i = off /\ chan_addr_offset(chan) = chan * size
  BY DEF chan_addr_offset
<1>4. ddr_addr_offset(col, chan) + i = col * S + chan * size + i
  BY DEF ddr_addr_offset, col_addr_offset, chan_addr_offset
<1> HIDE DEF S
<1>5. S \in Nat /\ col \in Nat /\ col * S \in Nat
  BY <1>1 DEF S
<1>6. col * S + chan * size + i = col * S + off
  BY <1>2, <1>5
<1> HIDE DEF off
<1>7. col * S + off \in 0 .. n * S - 1
  <2>1. n - col - 1 \in Nat /\ n = (n - col - 1) + col + 1
    OBVIOUS
  <2>2. n * S = (n - col - 1) * S + col * S + S /\ (n - col - 1) * S \in Nat
    BY <1>5, <2>1
  <2>3. QED
    BY <1>2, <1>5, <2>2
<1>8. QED
  BY <1>2, <1>3, <1>4, <1>6, <1>7 DEF S

(* Every place is memory of the context or of the scratch pad.             *)
LEMMA PlaceInMemory ==
  ASSUME NEW n \in ColumnCounts, NEW p \in Transfers(n), NEW i \in 0 .. size - 1,
         NEW t \in {MemTile(p[1]), Shim(p[1])}
  PROVE  /\ Place(t, p[2], i) \in MemoryOf(n) \cup ScratchPad(n)
         /\ IsShim(t) => Place(t, p[2], i) \in ScratchPad(n) /\ Place(t, p[2], i) \notin MemoryOf(n)
         /\ ~ IsShim(t) => Place(t, p[2], i) = <<"l2", p[1], chan_addr_offset(p[2]) + i>>
<1>1. n \in Nat /\ p[1] \in 0 .. n - 1 /\ p[2] \in {0, 1}
  BY TransfersFact
<1>2. t[1] = p[1]
  BY DEF MemTile, Shim
<1>3. chan_addr_offset(p[2]) + i \in 0 .. MEMTILE_SIZE - 1 /\ ddr_addr_offset(p[1], p[2]) + i \in 0 .. n * MEMTILE_SIZE - 1
  BY <1>1, OffsetFact
<1>4. Pad # "l2"
  BY ScratchPadAssumption DEF Pad
<1>5. CASE IsShim(t)
  <2>1. Place(t, p[2], i) = <<Pad, ddr_addr_offset(p[1], p[2]) + i>>
    BY <1>2, <1>5 DEF Place
  <2>2. QED
    BY <1>3, <1>4, <1>5, <2>1 DEF ScratchPad, MemoryOf, Pad
<1>6. CASE ~ IsShim(t)
  <2>1. Place(t, p[2], i) = <<"l2", p[1], chan_addr_offset(p[2]) + i>>
    BY <1>2, <1>6 DEF Place
  <2>2. QED
    BY <1>1, <1>3, <1>6, <2>1 DEF MemoryOf
<1>7. QED
  BY <1>5, <1>6

(* No two words have the same place, on either side.                       *)
LEMMA PlacesApart ==
  ASSUME NEW n \in ColumnCounts, NEW p \in Transfers(n), NEW q \in Transfers(n),
         NEW type \in Types, NEW i \in 0 .. size - 1, NEW j \in 0 .. size - 1
  PROVE  /\ Place(FromTile(type, p), p[2], i) # Place(ToTile(type, q), q[2], j)
         /\ Place(ToTile(type, p), p[2], i) = Place(ToTile(type, q), q[2], j) => p = q /\ i = j
<1>1. /\ n \in Nat /\ p[1] \in 0 .. n - 1 /\ p[2] \in {0, 1} /\ q[1] \in 0 .. n - 1 /\ q[2] \in {0, 1}
      /\ p = <<p[1], p[2]>> /\ q = <<q[1], q[2]>>
  BY TransfersFact
<1>2. /\ IsShim(FromTile(type, p)) <=> ~ IsShim(ToTile(type, q))
      /\ IsShim(ToTile(type, p)) <=> IsShim(ToTile(type, q))
      /\ ToTile(type, p)[1] = p[1] /\ ToTile(type, q)[1] = q[1]
  BY TilesOfTransfer
<1>3. Pad # "l2"
  BY ScratchPadAssumption DEF Pad
<1>4. Place(FromTile(type, p), p[2], i)[1] # Place(ToTile(type, q), q[2], j)[1]
  BY <1>2, <1>3 DEF Place
<1> DEFINE x == chan_addr_offset(p[2]) + i
           y == chan_addr_offset(q[2]) + j
           a == p[1]
           c == q[1]
           S == MEMTILE_SIZE
<1>5. x \in 0 .. S - 1 /\ y \in 0 .. S - 1
  BY <1>1, OffsetFact
<1>6. x = y => p[2] = q[2] /\ i = j
  <2>1. size \in Nat
    BY SizeFact
  <2>2. QED
    BY <1>1, <2>1 DEF chan_addr_offset
<1>7. S \in Nat /\ a \in Nat /\ c \in Nat
  BY <1>1, SizeFact
<1>8. ASSUME Place(ToTile(type, p), p[2], i) = Place(ToTile(type, q), q[2], j)
      PROVE  a = c /\ x = y
  <2>1. CASE IsShim(ToTile(type, p))
    <3>1. a * S + x = c * S + y
      <4>1. ddr_addr_offset(a, p[2]) + i = ddr_addr_offset(c, q[2]) + j
        BY <1>2, <1>8, <2>1 DEF Place
      <4>2. ddr_addr_offset(a, p[2]) + i = a * S + x /\ ddr_addr_offset(c, q[2]) + j = c * S + y
        BY <1>1, OffsetFact
      <4>3. QED
        BY <4>1, <4>2
    <3> HIDE DEF a, c, x, y, S
    <3>2. QED
      BY <1>5, <1>7, <3>1
  <2>2. CASE ~ IsShim(ToTile(type, p))
    BY <1>2, <1>8, <2>2 DEF Place
  <2>3. QED
    BY <2>1, <2>2
<1>9. QED
  BY <1>1, <1>4, <1>6, <1>8

(* The stream of a transfer's source leads to its sink or nowhere.         *)
LEMMA SinksOfSource ==
  ASSUME ControlInv, RoutesInv, NEW p \in Transfers(ncol)
  PROVE  Sinks(Src(Type, p)) \subseteq {Snk(Type, p)}
<1> DEFINE f == FromTile(Type, p)
           t == ToTile(Type, p)
           c == Src(Type, p)
<1>1. /\ Type \in Types /\ ncol \in ColumnCounts /\ c = <<f, "MM2S", p[2]>> /\ f \in Tiles /\ t \in Tiles
      /\ Snk(Type, p) = <<t, "S2MM", p[2]>> /\ p[2] \in {0, 1}
  BY ControlFact, EndsFact, TransfersFact
<1>2. t = Opposite(f)
  BY <1>1 DEF Opposite, FromTile, ToTile, MemTile, Shim, Types
<1>3. IsShim(f) <=> ~ IsShim(t)
  BY <1>1, <1>2 DEF Opposite, IsShim, Tiles
<1> HIDE DEF f, t
<1>4. SUFFICES ASSUME NEW d \in Sinks(c)
               PROVE  d[3] = p[2] /\ d = <<t, "S2MM", d[3]>>
  BY <1>1
<1>5. /\ d = <<t, "S2MM", d[3]>> /\ d[3] \in {0, 1}
      /\ Crosses(f, SendPort(c), t, ReceivePort(d))
  BY <1>1, <1>2 DEF Sinks, CHANNELS
<1>6. PICK m \in 0 .. 2 : /\ Linked(f, SendPort(c), <<Facing(f), m>>)
                          /\ Linked(t, <<Facing(t), m>>, ReceivePort(d))
  BY <1>5 DEF Crosses
<1>7. /\ SendPort(c) \in Leads(f, <<Facing(f), m>>)
      /\ <<Facing(t), m>> \in Leads(t, ReceivePort(d))
  BY <1>1, <1>6 DEF Linked, RoutesInv
<1>8. CASE IsShim(f)
  <2>1. /\ SendPort(c) = <<"SOUTH", 4 * p[2] + 3>> /\ Facing(f) = "NORTH" /\ Facing(t) = "SOUTH"
        /\ ReceivePort(d) = <<"DMA", d[3]>>
    BY <1>1, <1>3, <1>5, <1>8 DEF SendPort, ReceivePort, Facing
  <2>2. <<"SOUTH", 4 * p[2] + 3>> \in Leads(f, <<"NORTH", m>>) /\ <<"SOUTH", m>> \in Leads(t, <<"DMA", d[3]>>)
    BY <1>7, <2>1
  <2>3. m = p[2]
    BY <1>1, <1>6, <1>8, <2>2 DEF Leads
  <2>4. m = d[3]
    BY <1>3, <1>5, <1>6, <1>8, <2>2 DEF Leads
  <2>5. QED
    BY <1>5, <2>3, <2>4
<1>9. CASE ~ IsShim(f)
  <2>1. /\ SendPort(c) = <<"DMA", p[2]>> /\ Facing(f) = "SOUTH" /\ Facing(t) = "NORTH"
        /\ ReceivePort(d) = <<"SOUTH", d[3] + 2>>
    BY <1>1, <1>3, <1>5, <1>9 DEF SendPort, ReceivePort, Facing
  <2>2. <<"DMA", p[2]>> \in Leads(f, <<"SOUTH", m>>) /\ <<"NORTH", m>> \in Leads(t, <<"SOUTH", d[3] + 2>>)
    BY <1>7, <2>1
  <2>3. m = p[2]
    BY <1>1, <1>6, <1>9, <2>2 DEF Leads
  <2>4. m = d[3]
    BY <1>3, <1>5, <1>6, <1>9, <2>2 DEF Leads
  <2>5. QED
    BY <1>5, <2>3, <2>4
<1>10. QED
  BY <1>8, <1>9
-----------------------------------------------------------------------------
(* The channels keep the invariant.                                        *)

(* A transfer whose sink is done is done at its source too, its stream is  *)
(* empty, and all its words have arrived.                                  *)
LEMMA DoneIsQuiet ==
  ASSUME NEW type, NEW r, NEW p, NEW at, NEW qs, NEW ts, NEW fs, NEW m,
         Moving(type, r, p, at, qs, ts, fs, m), Past(type, p, 2, at), Past(type, p, 4, at),
         Resting(qs[Snk(type, p)], ts[Snk(type, p)])
  PROVE  /\ Resting(qs[Src(type, p)], ts[Src(type, p)])
         /\ fs[Snk(type, p)] = <<>>
         /\ Arrived(type, r, p, size, m)
<1>1. PICK a, b \in 0 .. size : Transfer(type, r, p, at, qs, ts, fs, m, a, b)
  BY DEF Moving
<1>2. size \in Nat /\ size >= 1
  BY SizeFact
<1> DEFINE q == qs[Snk(type, p)]
           t == ts[Snk(type, p)]
<1>3. Progress(type, Snk(type, p), TRUE, q, t, b)
  BY <1>1 DEF Transfer, Past
<1>4. Running(type, Snk(type, p), q, t, b)
  BY <1>3 DEF Progress, Waiting, Resting
<1>5. b = size
  BY <1>2, <1>4 DEF Running, Resting
<1>6. a = size
  BY <1>1, <1>2, <1>5 DEF Transfer, InFlight
<1>7. Running(type, Src(type, p), qs[Src(type, p)], ts[Src(type, p)], size)
  BY <1>1, <1>2, <1>6 DEF Transfer, Progress
<1>8. Resting(qs[Src(type, p)], ts[Src(type, p)])
  BY <1>2, <1>7 DEF Running, Resting
<1>9. fs[Snk(type, p)] = <<>>
  <2>1. fs[Snk(type, p)] = [j \in 1 .. 0 |-> Word(r, p, b + j - 1)]
    BY <1>1, <1>2, <1>5, <1>6 DEF Transfer, InFlight
  <2>2. QED
    BY <2>1
<1>10. QED
  BY <1>1, <1>5, <1>8, <1>9 DEF Transfer

LEMMA FinishedMeansQuiet ==
  ASSUME GenInv, Finished
  PROVE  /\ Quiet /\ tokens = 0 /\ Counting(tcts) = {}
         /\ phase # "run" => \A p \in Transfers(ncol) : Arrived(Type, round, p, size, mem)
<1>1. ControlInv /\ HardwareInv /\ ChannelsInv /\ TokensInv /\ AllDone
  BY DEF GenInv
<1>2. /\ Type \in Types /\ ncol \in ColumnCounts /\ pc \in Nat /\ pc >= SyncAt(Type, ncol)
  BY <1>1, ControlFact
<1>3. tokens = 0 /\ Counting(tcts) = {}
  BY <1>1 DEF TokensInv
<1>4. CASE phase = "run"
  BY <1>1, <1>3, <1>4 DEF ChannelsInv, Quiet, Resting
<1>5. CASE phase # "run"
  <2>1. ASSUME NEW p \in Transfers(ncol)
        PROVE  /\ Resting(queue[Src(Type, p)], task[Src(Type, p)])
               /\ Resting(queue[Snk(Type, p)], task[Snk(Type, p)])
               /\ fifo[Snk(Type, p)] = <<>> /\ fifo[Src(Type, p)] = <<>>
               /\ Arrived(Type, round, p, size, mem)
    <3>1. Past(Type, p, 2, pc) /\ Past(Type, p, 4, pc)
      BY <1>2, AllPast
    <3>2. p \in DoneTransfers(Type, ncol, pc, queue, task)
      BY <1>1, <1>5 DEF AllDone
    <3>3. Resting(queue[Snk(Type, p)], task[Snk(Type, p)])
      BY <3>2 DEF DoneTransfers
    <3>4. Moving(Type, round, p, pc, queue, task, fifo, mem)
      BY <1>1, <1>5 DEF ChannelsInv
    <3>5. Src(Type, p) \in Channels /\ Src(Type, p)[2] = "MM2S"
      BY <1>2, EndsFact
    <3>6. fifo[Src(Type, p)] = <<>>
      BY <1>1, <3>5 DEF ChannelsInv
    <3>7. QED
      BY <3>1, <3>3, <3>4, <3>6, DoneIsQuiet
  <2>2. ASSUME NEW c \in Channels
        PROVE  Resting(queue[c], task[c]) /\ fifo[c] = <<>>
    <3>1. CASE c \in Ends(Type, ncol)
      BY <2>1, <3>1 DEF Ends
    <3>2. CASE c \notin Ends(Type, ncol)
      BY <1>1, <3>2 DEF ChannelsInv
    <3>3. QED
      BY <3>1, <3>2
  <2>3. Quiet
    BY <2>2 DEF Quiet, Resting
  <2>4. QED
    BY <1>3, <2>1, <2>3
<1>6. QED
  BY <1>4, <1>5

(* A channel with anything to do is an end of a transfer under way.        *)
LEMMA ActiveChannel ==
  ASSUME GenInv, NEW c \in Channels, ~ Resting(queue[c], task[c])
  PROVE  /\ ~ Finished /\ phase # "run" /\ Type \in Types /\ ncol \in ColumnCounts /\ pc \in Nat
         /\ \E p \in Transfers(ncol) : c = Src(Type, p) \/ c = Snk(Type, p)
<1>1. ControlInv /\ ChannelsInv
  BY DEF GenInv
<1>2. ~ Finished
  BY FinishedMeansQuiet DEF Quiet, Resting
<1>3. Type \in Types /\ ncol \in ColumnCounts /\ pc \in Nat /\ phase # "run"
  BY <1>1, <1>2, ControlFact
<1>4. c \in Ends(Type, ncol)
  BY <1>1 DEF ChannelsInv
<1>5. QED
  BY <1>2, <1>3, <1>4 DEF Ends

(* A step at the ends of one transfer: it changes nothing of the others.   *)
Local(p) ==
  /\ UNCHANGED <<txn, pc, route, bd, ctrl, tokens, ncol, phase, round>>
  /\ queue' = [c \in Channels |-> queue'[c]]
  /\ task' = [c \in Channels |-> task'[c]]
  /\ fifo' = [c \in Channels |-> fifo'[c]]
  /\ \A c \in Channels : c \notin {Src(Type, p), Snk(Type, p)} => queue'[c] = queue[c] /\ task'[c] = task[c]
  /\ \A c \in Channels : c # Snk(Type, p) => fifo'[c] = fifo[c]
  /\ mem' = [loc \in MemoryOf(ncol) \cup ScratchPad(ncol) |-> mem'[loc]]
  /\ \A loc \in MemoryOf(ncol) \cup ScratchPad(ncol) :
       (\A i \in 0 .. size - 1 : loc # Place(ToTile(Type, p), p[2], i)) => mem'[loc] = mem[loc]

LEMMA MovingElsewhere ==
  ASSUME NEW type, NEW r, NEW p, NEW at, NEW qs, NEW qs2, NEW ts, NEW ts2, NEW fs, NEW fs2,
         NEW m, NEW m2,
         qs2[Src(type, p)] = qs[Src(type, p)], qs2[Snk(type, p)] = qs[Snk(type, p)],
         ts2[Src(type, p)] = ts[Src(type, p)], ts2[Snk(type, p)] = ts[Snk(type, p)],
         fs2[Snk(type, p)] = fs[Snk(type, p)],
         \A i \in 0 .. size - 1 : m2[Place(ToTile(type, p), p[2], i)] = m[Place(ToTile(type, p), p[2], i)],
         Moving(type, r, p, at, qs, ts, fs, m)
  PROVE  Moving(type, r, p, at, qs2, ts2, fs2, m2)
<1>1. PICK a, b \in 0 .. size : Transfer(type, r, p, at, qs, ts, fs, m, a, b)
  BY DEF Moving
<1>2. \A i \in 0 .. b - 1 : i \in 0 .. size - 1
  BY SizeFact
<1>3. Arrived(type, r, p, b, m2)
  BY <1>1, <1>2 DEF Transfer, Arrived
<1>4. Transfer(type, r, p, at, qs2, ts2, fs2, m2, a, b)
  BY <1>1, <1>3 DEF Transfer
<1>5. QED
  BY <1>4 DEF Moving

LEMMA LocalStep ==
  ASSUME GenInv, ~ Finished, NEW p \in Transfers(ncol), Local(p),
         Moving(Type, round, p, pc, queue', task', fifo', mem'),
         tcts' \in [Tiles -> Seq({0, TCT_CTRL_ID})],
         TokensInv'
  PROVE  GenInv'
<1>1. /\ ControlInv /\ HardwareInv /\ RoutesInv /\ DescriptorsInv /\ ChannelsInv /\ MemoryInv
      /\ TokensInv /\ AllDone
  BY DEF GenInv
<1>2. /\ Type \in Types /\ ncol \in ColumnCounts /\ pc \in Nat /\ phase # "run"
  BY <1>1, ControlFact
<1>3. UNCHANGED <<txn, pc, route, bd, ctrl, tokens, ncol, phase, round>> /\ Type' = Type
  BY DEF Local, Type
<1>4. MemoryOf(ncol)' = MemoryOf(ncol) /\ ScratchPad(ncol)' = ScratchPad(ncol)
  BY <1>3 DEF MemoryOf, ScratchPad
<1>5. ControlInv' /\ RoutesInv' /\ DescriptorsInv' /\ ~ Finished'
  BY <1>1, <1>3 DEF ControlInv, RoutesInv, DescriptorsInv, Finished, Ops
<1>6. HardwareInv'
  BY <1>1, <1>3, <1>4 DEF HardwareInv, Local
<1>7. Src(Type, p) \in Channels \cap Ends(Type, ncol) /\ Snk(Type, p) \in Channels \cap Ends(Type, ncol)
  BY <1>2, EndsFact
<1>8. ASSUME NEW q \in Transfers(ncol)
      PROVE  Moving(Type, round, q, pc, queue', task', fifo', mem')
  <2>1. CASE q = p
    BY <2>1
  <2>2. CASE q # p
    <3>1. /\ Src(Type, q) \in Channels /\ Snk(Type, q) \in Channels
          /\ Src(Type, q) \notin {Src(Type, p), Snk(Type, p)}
          /\ Snk(Type, q) \notin {Src(Type, p), Snk(Type, p)}
      BY <1>2, <2>2, EndsFact, EndsApart
    <3>2. /\ queue'[Src(Type, q)] = queue[Src(Type, q)] /\ queue'[Snk(Type, q)] = queue[Snk(Type, q)]
          /\ task'[Src(Type, q)] = task[Src(Type, q)] /\ task'[Snk(Type, q)] = task[Snk(Type, q)]
          /\ fifo'[Snk(Type, q)] = fifo[Snk(Type, q)]
      BY <3>1 DEF Local
    <3>3. ASSUME NEW i \in 0 .. size - 1
          PROVE  mem'[Place(ToTile(Type, q), q[2], i)] = mem[Place(ToTile(Type, q), q[2], i)]
      <4>1. ToTile(Type, q) \in {MemTile(q[1]), Shim(q[1])}
        BY <1>2, TilesOfTransfer
      <4>2. Place(ToTile(Type, q), q[2], i) \in MemoryOf(ncol) \cup ScratchPad(ncol)
        BY <1>2, <4>1, PlaceInMemory
      <4>3. \A j \in 0 .. size - 1 : Place(ToTile(Type, q), q[2], i) # Place(ToTile(Type, p), p[2], j)
        BY <1>2, <2>2, PlacesApart
      <4>4. QED
        BY <4>2, <4>3 DEF Local
    <3>4. Moving(Type, round, q, pc, queue, task, fifo, mem)
      BY <1>1, <1>2 DEF ChannelsInv
    <3>5. QED
      BY <3>2, <3>3, <3>4, MovingElsewhere
  <2>3. QED
    BY <2>1, <2>2
<1>9. ChannelsInv'
  <2>1. \A c \in Channels : c \notin Ends(Type, ncol) \/ c[2] = "MM2S" => fifo'[c] = <<>>
    <3>1. Snk(Type, p)[2] = "S2MM"
      BY <1>2, EndsFact
    <3>2. QED
      BY <1>1, <1>2, <1>7, <3>1 DEF ChannelsInv, Local
  <2>2. \A c \in Channels : c \notin Ends(Type, ncol) => Resting(queue'[c], task'[c])
    BY <1>1, <1>2, <1>7 DEF ChannelsInv, Local
  <2>3. \A q \in Transfers(ncol) : Past(Type, q, 3, pc) => ctrl[Snk(Type, q)] = TCT_CTRL_ID
    BY <1>1, <1>2 DEF ChannelsInv
  <2>4. QED
    BY <1>2, <1>3, <1>8, <2>1, <2>2, <2>3 DEF ChannelsInv
<1>10. MemoryInv'
  <2>1. ASSUME NEW q \in Transfers(ncol), NEW i \in 0 .. size - 1
        PROVE  mem'[Place(FromTile(Type, q), q[2], i)] = Word(round, q, i)
    <3>1. FromTile(Type, q) \in {MemTile(q[1]), Shim(q[1])}
      BY <1>2, TilesOfTransfer
    <3>2. Place(FromTile(Type, q), q[2], i) \in MemoryOf(ncol) \cup ScratchPad(ncol)
      BY <1>2, <3>1, PlaceInMemory
    <3>3. \A j \in 0 .. size - 1 : Place(FromTile(Type, q), q[2], i) # Place(ToTile(Type, p), p[2], j)
      BY <1>2, PlacesApart
    <3>4. mem[Place(FromTile(Type, q), q[2], i)] = Word(round, q, i)
      BY <1>1, <1>2 DEF MemoryInv, HeldBy
    <3>5. QED
      BY <3>2, <3>3, <3>4 DEF Local
  <2>2. QED
    BY <1>2, <1>3, <2>1 DEF MemoryInv, HeldBy
<1>11. AllDone'
  BY <1>5 DEF AllDone
<1>12. QED
  BY <1>5, <1>6, <1>9, <1>10, <1>11 DEF GenInv

(* The stream of a transfer after a word is sent, and after one is taken.  *)
LEMMA WordSent ==
  ASSUME NEW r, NEW p, NEW a \in Nat, NEW b \in Nat, NEW f, InFlight(r, p, a, b, f)
  PROVE  InFlight(r, p, a + 1, b, Append(f, Word(r, p, a)))
<1> DEFINE n == a - b
           W(j) == Word(r, p, b + j - 1)
           g == Append(f, Word(r, p, a))
<1>1. n \in Nat /\ b <= a /\ f = [j \in 1 .. n |-> W(j)]
  BY DEF InFlight
<1>2. W(n + 1) = Word(r, p, a)
  <2>1. b + (n + 1) - 1 = a
    BY <1>1
  <2>2. QED
    BY <2>1
<1>3. a + 1 - b = n + 1 /\ b <= a + 1
  BY <1>1
<1> HIDE DEF n, W
<1>4. Len(f) = n /\ f \in Seq({W(j) : j \in 1 .. n})
  BY <1>1
<1>5. g = [j \in 1 .. n + 1 |-> W(j)]
  BY <1>1, <1>2, <1>4
<1>6. g = [j \in 1 .. a + 1 - b |-> Word(r, p, b + j - 1)]
  BY <1>3, <1>5 DEF W
<1>7. QED
  BY <1>3, <1>6 DEF InFlight

LEMMA SequenceIsFunction ==
  ASSUME NEW S, NEW s \in Seq(S)
  PROVE  s = [j \in 1 .. Len(s) |-> s[j]]
OBVIOUS

LEMMA WordTaken ==
  ASSUME NEW r, NEW p, NEW a \in Nat, NEW b \in Nat, NEW f, InFlight(r, p, a, b, f), f # <<>>
  PROVE  b < a /\ Head(f) = Word(r, p, b) /\ InFlight(r, p, a, b + 1, Tail(f))
<1> DEFINE n == a - b
           W(j) == Word(r, p, b + j - 1)
<1>1. n \in Nat /\ b <= a /\ f = [j \in 1 .. n |-> W(j)]
  BY DEF InFlight
<1>2. W(1) = Word(r, p, b)
  <2>1. b + 1 - 1 = b
    OBVIOUS
  <2>2. QED
    BY <2>1
<1>3. \A j \in Nat : W(j + 1) = Word(r, p, (b + 1) + j - 1)
  <2>1. ASSUME NEW j \in Nat
        PROVE  b + (j + 1) - 1 = (b + 1) + j - 1
    OBVIOUS
  <2>2. QED
    BY <2>1
<1>4. n # 0
  <2>1. ASSUME n = 0
        PROVE  f = <<>>
    <3> HIDE DEF n, W
    <3>1. f = [j \in 1 .. 0 |-> W(j)]
      BY <1>1, <2>1
    <3>2. QED
      BY <3>1
  <2>2. QED
    BY <2>1
<1>5. b < a /\ b + 1 <= a /\ a - (b + 1) = n - 1
  BY <1>1, <1>4
<1> HIDE DEF n, W
<1>6. Len(f) = n /\ f \in Seq({W(j) : j \in 1 .. n})
  BY <1>1
<1>7. Head(f) = W(1)
  BY <1>1, <1>4, <1>6
<1>8. Tail(f) = [j \in 1 .. n - 1 |-> W(j + 1)]
  <2>1. Tail(f) = [j \in 1 .. Len(f) - 1 |-> f[j + 1]]
    <3> DEFINE S == {W(j) : j \in 1 .. n}
    <3> HIDE DEF S
    <3>1. f \in Seq(S) /\ f # <<>>
      BY <1>6 DEF S
    <3>2. Tail(f) \in Seq(S) /\ Len(Tail(f)) = Len(f) - 1
      BY <3>1
    <3>3. \A j \in 1 .. Len(f) - 1 : Tail(f)[j] = f[j + 1]
      BY <3>1
    <3>4. Tail(f) = [j \in 1 .. Len(Tail(f)) |-> Tail(f)[j]]
      BY <3>2, SequenceIsFunction
    <3>5. QED
      BY <3>2, <3>3, <3>4
  <2>2. \A j \in 1 .. n - 1 : f[j + 1] = W(j + 1)
    BY <1>1
  <2>3. QED
    BY <1>6, <2>1, <2>2
<1>9. Tail(f) = [j \in 1 .. n - 1 |-> Word(r, p, (b + 1) + j - 1)]
  <2>1. \A j \in 1 .. n - 1 : W(j + 1) = Word(r, p, (b + 1) + j - 1)
    BY <1>1, <1>3
  <2>2. QED
    BY <1>8, <2>1
<1>10. QED
  BY <1>2, <1>5, <1>7, <1>9 DEF InFlight

LEMMA StartAddrNumber ==
  ASSUME NEW n \in ColumnCounts, NEW p \in Transfers(n),
         NEW t \in {MemTile(p[1]), Shim(p[1])}
  PROVE  StartAddr(t, p[2]) \in Int
<1>1. p[1] \in Nat /\ p[2] \in {0, 1} /\ t[1] = p[1]
  BY TransfersFact DEF MemTile, Shim
<1>2. size \in Nat /\ MEMTILE_SIZE \in Nat
  BY SizeFact
<1>3. p[1] * MEMTILE_SIZE \in Int /\ p[2] * size \in Int
  BY <1>1, <1>2
<1>4. QED
  BY <1>1, <1>2, <1>3 DEF StartAddr, ddr_addr_offset, mem_addr_offset, col_addr_offset, chan_addr_offset,
                          START_OF_MEM

OneOn(t) == [[t EXCEPT !.addr = @ + 1] EXCEPT !.left = @ - 1]

LEMMA MovedOn ==
  ASSUME NEW t, NEW b, NEW a, NEW l, NEW k,
         t = [base |-> b, addr |-> a, left |-> l, token |-> k]
  PROVE  OneOn(t) = [base |-> b, addr |-> a + 1, left |-> l - 1, token |-> k]
<1> DEFINE u == [t EXCEPT !.addr = @ + 1]
<1>1. u = [base |-> b, addr |-> a + 1, left |-> l, token |-> k]
  OBVIOUS
<1> HIDE DEF u
<1>2. [u EXCEPT !.left = @ - 1] = [base |-> b, addr |-> a + 1, left |-> l - 1, token |-> k]
  BY <1>1
<1>3. QED
  BY <1>2 DEF u, OneOn

Onward(ts, c) == [ts EXCEPT ![c].addr = @ + 1, ![c].left = @ - 1]

(* A task moves a word on.                                                 *)
LEMMA WordMoved ==
  ASSUME task = [e \in Channels |-> task[e]], NEW c \in Channels, NEW type, NEW q, NEW k \in Nat, k < size,
         Running(type, c, q, task[c], k), StartAddr(c[1], c[3]) \in Int,
         task' = Onward(task, c)
  PROVE  /\ task' = [e \in Channels |-> task'[e]]
         /\ Running(type, c, q, task'[c], k + 1)
         /\ \A e \in Channels : e # c => task'[e] = task[e]
         /\ task[c].left = size - k /\ task[c].token = TokenOf(type, c)
         /\ task[c].base = BaseOf(c[1]) /\ task[c].addr = StartAddr(c[1], c[3]) + k
<1> DEFINE A == StartAddr(c[1], c[3])
<1>1. size \in Nat
  BY SizeFact
<1>2. task[c] = [base |-> BaseOf(c[1]), addr |-> A + k, left |-> size - k, token |-> TokenOf(type, c)]
  BY DEF Running
<1>3. task' = [e \in Channels |-> IF e = c THEN [[task[c] EXCEPT !.addr = @ + 1] EXCEPT !.left = @ - 1]
                                  ELSE task[e]]
  BY DEF Onward
<1> HIDE DEF A
<1>8. task'[c] = [[task[c] EXCEPT !.addr = @ + 1] EXCEPT !.left = @ - 1]
  BY <1>3
<1>4. task'[c] = [base |-> BaseOf(c[1]), addr |-> A + k + 1, left |-> size - k - 1, token |-> TokenOf(type, c)]
  <2> DEFINE t == task[c]
  <2>1. t = [base |-> BaseOf(c[1]), addr |-> A + k, left |-> size - k, token |-> TokenOf(type, c)]
    BY <1>2
  <2>2. task'[c] = OneOn(t)
    BY <1>8 DEF OneOn
  <2> HIDE DEF t
  <2>3. QED
    BY <2>1, <2>2, MovedOn
<1>5. A + k + 1 = A + (k + 1) /\ size - k - 1 = size - (k + 1)
  BY <1>1 DEF A
<1>6. Running(type, c, q, task'[c], k + 1)
  BY <1>4, <1>5 DEF Running, A
<1>7. QED
  BY <1>2, <1>3, <1>6 DEF A, Running
-----------------------------------------------------------------------------
(* The tokens.                                                             *)
Issued(ts, tile, x) == [ts EXCEPT ![tile] = Append(@, x)]
Delivered(ts, tile) == [ts EXCEPT ![tile] = Tail(@)]

LEMMA IssuedFact ==
  ASSUME NEW ts \in [Tiles -> Seq({0, TCT_CTRL_ID})], NEW tile \in Tiles, NEW x \in {0, TCT_CTRL_ID}
  PROVE  /\ Issued(ts, tile, x) \in [Tiles -> Seq({0, TCT_CTRL_ID})]
         /\ \A t \in Tiles : t # tile => Issued(ts, tile, x)[t] = ts[t]
         /\ DOMAIN Issued(ts, tile, x)[tile] = 1 .. Len(ts[tile]) + 1 /\ Len(ts[tile]) \in Nat
         /\ DOMAIN ts[tile] = 1 .. Len(ts[tile])
         /\ Issued(ts, tile, x)[tile][Len(ts[tile]) + 1] = x
         /\ \A j \in 1 .. Len(ts[tile]) : Issued(ts, tile, x)[tile][j] = ts[tile][j]
<1>1. ts[tile] \in Seq({0, TCT_CTRL_ID})
  OBVIOUS
<1> DEFINE s == ts[tile]
           u == Append(s, x)
<1>2. Issued(ts, tile, x) = [t \in Tiles |-> IF t = tile THEN u ELSE ts[t]]
  BY DEF Issued
<1> HIDE DEF s
<1>3. /\ u \in Seq({0, TCT_CTRL_ID}) /\ DOMAIN u = 1 .. Len(s) + 1 /\ Len(s) \in Nat
      /\ DOMAIN s = 1 .. Len(s) /\ u[Len(s) + 1] = x /\ \A j \in 1 .. Len(s) : u[j] = s[j]
  BY <1>1 DEF s
<1> HIDE DEF u
<1>4. QED
  BY <1>2, <1>3 DEF s

LEMMA TokenIgnored ==
  ASSUME NEW ts \in [Tiles -> Seq({0, TCT_CTRL_ID})], NEW tile \in Tiles
  PROVE  Counting(Issued(ts, tile, 0)) = Counting(ts)
<1> DEFINE u == Issued(ts, tile, 0)
<1>1. /\ \A t \in Tiles : t # tile => u[t] = ts[t]
      /\ DOMAIN u[tile] = 1 .. Len(ts[tile]) + 1 /\ Len(ts[tile]) \in Nat
      /\ DOMAIN ts[tile] = 1 .. Len(ts[tile])
      /\ u[tile][Len(ts[tile]) + 1] = 0
      /\ \A j \in 1 .. Len(ts[tile]) : u[tile][j] = ts[tile][j]
  BY IssuedFact
<1> HIDE DEF u
<1>2. ASSUME NEW t \in Tiles, NEW j \in Nat
      PROVE  (j \in DOMAIN u[t] /\ u[t][j] = TCT_CTRL_ID) <=> (j \in DOMAIN ts[t] /\ ts[t][j] = TCT_CTRL_ID)
  <2>1. CASE t # tile
    BY <1>1, <2>1
  <2>2. CASE t = tile
    BY <1>1, <2>2 DEF TCT_CTRL_ID
  <2>3. QED
    BY <2>1, <2>2
<1>3. QED
  BY <1>2 DEF Counting, u

(* A transfer that is done issues its token.                               *)
LEMMA TokenIssued ==
  ASSUME NEW type, NEW p, NEW k, NEW done,
         NEW ts \in [Tiles -> Seq({0, TCT_CTRL_ID})], ToTile(type, p) \in Tiles,
         Traced(type, k, ts, done), p \notin done
  PROVE  Traced(type, k, Issued(ts, ToTile(type, p), TCT_CTRL_ID), done \cup {p})
<1> DEFINE tile == ToTile(type, p)
           u == Issued(ts, tile, TCT_CTRL_ID)
           x0 == <<tile, Len(ts[tile]) + 1>>
<1>1. /\ \A t \in Tiles : t # tile => u[t] = ts[t]
      /\ DOMAIN u[tile] = 1 .. Len(ts[tile]) + 1 /\ Len(ts[tile]) \in Nat
      /\ DOMAIN ts[tile] = 1 .. Len(ts[tile])
      /\ u[tile][Len(ts[tile]) + 1] = TCT_CTRL_ID
      /\ \A j \in 1 .. Len(ts[tile]) : u[tile][j] = ts[tile][j]
  BY IssuedFact
<1>2. PICK D \in SUBSET done : \E g \in [Counting(ts) -> done \ D] : Accounted(type, k, ts, done, D, g)
  BY DEF Traced
<1>3. PICK g \in [Counting(ts) -> done \ D] : Accounted(type, k, ts, done, D, g)
  BY <1>2
<1> HIDE DEF tile, u
<1>4. x0 \notin Counting(ts)
  BY <1>1 DEF Counting
<1>5. Counting(u) = Counting(ts) \cup {x0}
  <2>1. ASSUME NEW t \in Tiles, NEW j \in Nat
        PROVE  (j \in DOMAIN u[t] /\ u[t][j] = TCT_CTRL_ID)
               <=> (j \in DOMAIN ts[t] /\ ts[t][j] = TCT_CTRL_ID) \/ (t = tile /\ j = Len(ts[tile]) + 1)
    <3>1. CASE t # tile
      BY <1>1, <3>1
    <3>2. CASE t = tile
      BY <1>1, <3>2
    <3>3. QED
      BY <3>1, <3>2
  <2>2. tile \in Tiles /\ Len(ts[tile]) + 1 \in Nat
    BY <1>1 DEF tile
  <2>3. ASSUME NEW x \in Tiles \X Nat
        PROVE  x \in Counting(u) <=> x \in Counting(ts) \/ x = x0
    BY <2>1, <2>2 DEF Counting
  <2>4. x0 \in Tiles \X Nat
    BY <2>2
  <2>5. Counting(u) \subseteq Tiles \X Nat /\ Counting(ts) \subseteq Tiles \X Nat
    BY DEF Counting
  <2>6. QED
    BY <2>3, <2>4, <2>5
<1> HIDE DEF x0
<1> DEFINE h == [x \in Counting(u) |-> IF x = x0 THEN p ELSE g[x]]
<1>6. x0[1] = tile
  BY DEF x0
<1>7. h \in [Counting(u) -> (done \cup {p}) \ D]
  BY <1>5
<1>8. \A x \in Counting(u) : x[1] = ToTile(type, h[x])
  BY <1>3, <1>5, <1>6 DEF Accounted, tile
<1>9. \A x, y \in Counting(u) : h[x] = h[y] => x = y
  BY <1>3, <1>5 DEF Accounted
<1>10. Accounted(type, k, u, done \cup {p}, D, h)
  <2> HIDE DEF h
  <2>1. QED
    BY <1>3, <1>7, <1>8, <1>9 DEF Accounted
<1>11. QED
  <2> HIDE DEF h
  <2>1. Traced(type, k, u, done \cup {p})
    BY <1>7, <1>10 DEF Traced
  <2>2. QED
    BY <2>1 DEF u, tile

(* A token delivered is its transfer's, if it counts.                      *)
Shift(tile, x) == IF x[1] = tile THEN <<tile, x[2] + 1>> ELSE x

LEMMA DeliveredFact ==
  ASSUME NEW ts \in [Tiles -> Seq({0, TCT_CTRL_ID})], NEW tile \in Tiles, ts[tile] # <<>>
  PROVE  /\ Delivered(ts, tile) \in [Tiles -> Seq({0, TCT_CTRL_ID})]
         /\ \A x \in Counting(Delivered(ts, tile)) :
              Shift(tile, x) \in Counting(ts) /\ Shift(tile, x) # <<tile, 1>> /\ Shift(tile, x)[1] = x[1]
         /\ \A x, y \in Counting(Delivered(ts, tile)) : Shift(tile, x) = Shift(tile, y) => x = y
         /\ Head(ts[tile]) = TCT_CTRL_ID => <<tile, 1>> \in Counting(ts)
<1> DEFINE s == ts[tile]
           v == Tail(s)
           u == Delivered(ts, tile)
<1>1. u = [t \in Tiles |-> IF t = tile THEN v ELSE ts[t]]
  BY DEF Delivered
<1>2. s \in Seq({0, TCT_CTRL_ID}) /\ s # <<>>
  OBVIOUS
<1> HIDE DEF s
<1>3. /\ v \in Seq({0, TCT_CTRL_ID}) /\ DOMAIN v = 1 .. Len(s) - 1 /\ Len(s) \in Nat /\ Len(s) >= 1
      /\ DOMAIN s = 1 .. Len(s) /\ Head(s) = s[1] /\ \A j \in 1 .. Len(s) - 1 : v[j] = s[j + 1]
  BY <1>2
<1> HIDE DEF v, u
<1>4. u \in [Tiles -> Seq({0, TCT_CTRL_ID})]
  BY <1>1, <1>3
<1>5. ASSUME NEW x \in Counting(u)
      PROVE  Shift(tile, x) \in Counting(ts) /\ Shift(tile, x) # <<tile, 1>> /\ Shift(tile, x)[1] = x[1]
  <2>1. x \in Tiles \X Nat /\ x[2] \in DOMAIN u[x[1]] /\ u[x[1]][x[2]] = TCT_CTRL_ID
    BY DEF Counting
  <2>2. CASE x[1] = tile
    <3>1. x[2] \in 1 .. Len(s) - 1 /\ s[x[2] + 1] = TCT_CTRL_ID
      BY <1>1, <1>3, <2>1, <2>2
    <3>2. x[2] + 1 \in DOMAIN s /\ x[2] + 1 \in Nat /\ x[2] + 1 # 1
      BY <1>3, <3>1
    <3>3. Shift(tile, x) = <<tile, x[2] + 1>>
      BY <2>2 DEF Shift
    <3>4. QED
      BY <2>2, <3>1, <3>2, <3>3 DEF Counting, s
  <2>3. CASE x[1] # tile
    <3>1. u[x[1]] = ts[x[1]] /\ Shift(tile, x) = x
      BY <1>1, <2>1, <2>3 DEF Shift
    <3>2. QED
      BY <2>1, <2>3, <3>1 DEF Counting
  <2>4. QED
    BY <2>2, <2>3
<1>6. ASSUME NEW x \in Counting(u), NEW y \in Counting(u), Shift(tile, x) = Shift(tile, y)
      PROVE  x = y
  <2>1. /\ x = <<x[1], x[2]>> /\ y = <<y[1], y[2]>> /\ x[2] \in Nat /\ y[2] \in Nat
    BY DEF Counting
  <2>2. x[1] = y[1]
    BY <1>5, <1>6
  <2>3. CASE x[1] = tile
    <3>1. <<tile, x[2] + 1>> = <<tile, y[2] + 1>>
      BY <1>6, <2>2, <2>3 DEF Shift
    <3>2. x[2] + 1 = y[2] + 1
      BY <3>1
    <3>3. QED
      BY <2>1, <2>2, <3>2
  <2>4. CASE x[1] # tile
    BY <1>6, <2>2, <2>4 DEF Shift
  <2>5. QED
    BY <2>3, <2>4
<1>7. Head(s) = TCT_CTRL_ID => <<tile, 1>> \in Counting(ts)
  BY <1>3 DEF Counting, s
<1>8. QED
  BY <1>4, <1>5, <1>6, <1>7 DEF s, u

LEMMA TokenDelivered ==
  ASSUME NEW type, NEW k \in Nat, NEW done, IsFiniteSet(done),
         NEW ts \in [Tiles -> Seq({0, TCT_CTRL_ID})], NEW tile \in Tiles, ts[tile] # <<>>,
         Traced(type, k, ts, done)
  PROVE  Traced(type, k + (IF Head(ts[tile]) = TCT_CTRL_ID THEN 1 ELSE 0), Delivered(ts, tile), done)
<1> DEFINE u == Delivered(ts, tile)
           x0 == <<tile, 1>>
<1>1. PICK D \in SUBSET done : \E g \in [Counting(ts) -> done \ D] : Accounted(type, k, ts, done, D, g)
  BY DEF Traced
<1>2. PICK g \in [Counting(ts) -> done \ D] : Accounted(type, k, ts, done, D, g)
  BY <1>1
<1>3. /\ \A x \in Counting(u) : Shift(tile, x) \in Counting(ts) /\ Shift(tile, x) # x0 /\ Shift(tile, x)[1] = x[1]
      /\ \A x, y \in Counting(u) : Shift(tile, x) = Shift(tile, y) => x = y
      /\ Head(ts[tile]) = TCT_CTRL_ID => x0 \in Counting(ts)
  BY DeliveredFact
<1> HIDE DEF u, x0
<1> DEFINE h == [x \in Counting(u) |-> g[Shift(tile, x)]]
<1>4. \A x \in Counting(u) : x[1] = ToTile(type, h[x])
  BY <1>2, <1>3 DEF Accounted
<1>5. \A x, y \in Counting(u) : h[x] = h[y] => x = y
  BY <1>2, <1>3 DEF Accounted
<1>6. CASE Head(ts[tile]) # TCT_CTRL_ID
  <2>1. h \in [Counting(u) -> done \ D]
    BY <1>3
  <2> HIDE DEF h
  <2>2. Accounted(type, k, u, done, D, h)
    BY <1>2, <1>4, <1>5, <2>1 DEF Accounted
  <2>3. Traced(type, k, u, done)
    BY <2>1, <2>2 DEF Traced
  <2>4. k + 0 = k
    OBVIOUS
  <2>5. QED
    BY <1>6, <2>3, <2>4 DEF u
<1>7. CASE Head(ts[tile]) = TCT_CTRL_ID
  <2> DEFINE E == D \cup {g[x0]}
  <2>1. g[x0] \in done \ D /\ E \subseteq done
    BY <1>3, <1>7
  <2>2. h \in [Counting(u) -> done \ E]
    BY <1>2, <1>3, <1>7 DEF Accounted
  <2>3. Cardinality(E) = k + 1
    <3>1. IsFiniteSet(D)
      BY FS_Subset
    <3>2. Cardinality(D) = k
      BY <1>2 DEF Accounted
    <3>3. QED
      BY <2>1, <3>1, <3>2, FS_AddElement
  <2> HIDE DEF h, E
  <2>4. Accounted(type, k + 1, u, done, E, h)
    BY <1>4, <1>5, <2>1, <2>2, <2>3 DEF Accounted
  <2>5. Traced(type, k + 1, u, done)
    BY <2>1, <2>2, <2>4 DEF Traced
  <2>6. QED
    BY <1>7, <2>5 DEF u
<1>8. QED
  BY <1>6, <1>7
-----------------------------------------------------------------------------
(* A channel takes its transfer a step further.                            *)
Counted == Traced(Type, tokens, tcts, DoneTransfers(Type, ncol, pc, queue, task))

LEMMA TracedSame ==
  ASSUME NEW type, NEW k, NEW ts, NEW ts2, NEW done, Counting(ts2) = Counting(ts),
         Traced(type, k, ts, done)
  PROVE  Traced(type, k, ts2, done)
BY DEF Traced, Accounted

LEMMA CountedNow == ASSUME TokensInv, ~ Finished PROVE Counted
BY DEF TokensInv, Counted

LEMMA CountedNext ==
  ASSUME ~ Finished, UNCHANGED <<txn, pc>>, Counted'
  PROVE  TokensInv'
<1>1. ~ Finished'
  BY DEF Finished, Ops
<1>2. QED
  BY <1>1 DEF TokensInv, Counted

LEMMA OneElement == ASSUME NEW x PROVE Head(<<x>>) = x /\ Tail(<<x>>) = <<>>
<1> DEFINE s == <<x>>
<1>1. s \in Seq({x}) /\ Len(s) = 1 /\ s[1] = x
  OBVIOUS
<1> HIDE DEF s
<1>2. Head(s) = x
  BY <1>1
<1>3. Tail(s) \in Seq({x}) /\ Len(Tail(s)) = 0
  BY <1>1
<1>4. Tail(s) = <<>>
  <2>1. Tail(s) = [j \in 1 .. Len(Tail(s)) |-> Tail(s)[j]]
    BY <1>3, SequenceIsFunction
  <2> DEFINE u == Tail(s)
  <2>2. u = [j \in 1 .. 0 |-> u[j]]
    BY <1>3, <2>1
  <2> HIDE DEF u
  <2>3. u = <<>>
    BY <2>2
  <2>4. QED
    BY <2>3 DEF u
<1>5. QED
  BY <1>2, <1>4 DEF s

LEMMA TokenField == ASSUME NEW e, NEW a, NEW b, e = [bd |-> a, token |-> b] PROVE e.bd = a /\ e.token = b
OBVIOUS

LEMMA TaskStarted ==
  ASSUME NEW c \in Channels, NEW type, NEW given \in BOOLEAN, NEW k,
         queue = [e \in Channels |-> queue[e]], task = [e \in Channels |-> task[e]],
         Progress(type, c, given, queue[c], task[c], k), StartTask(c),
         given => HasBd(bd, c[1], c[3], Patched(c[1], c[3])), StartAddr(c[1], c[3]) \in Int
  PROVE  /\ given /\ k = 0 /\ Running(type, c, queue'[c], task'[c], 0)
         /\ ~ Resting(queue[c], task[c]) /\ ~ Resting(queue'[c], task'[c])
         /\ \A e \in Channels : e # c => queue'[e] = queue[e] /\ task'[e] = task[e]
         /\ queue' = [e \in Channels |-> queue'[e]] /\ task' = [e \in Channels |-> task'[e]]
<1>1. queue[c] # <<>>
  BY DEF StartTask
<1>2. given /\ k = 0 /\ Waiting(type, c, queue[c], task[c])
  BY <1>1 DEF Progress, Resting, Running
<1> DEFINE x == [bd |-> BdOf(c[1], c[3])[2], token |-> TokenOf(type, c)]
           d == BdOf(c[1], c[3])
<1>3. queue[c] = <<x>>
  BY <1>2 DEF Waiting
<1>4. Head(queue[c]) = x /\ Tail(queue[c]) = <<>>
  <2> HIDE DEF x
  <2>1. QED
    BY <1>3, OneElement
<1>17. Head(queue[c]).bd = BdOf(c[1], c[3])[2] /\ Head(queue[c]).token = TokenOf(type, c)
  <2> DEFINE e == Head(queue[c])
  <2>1. e = [bd |-> BdOf(c[1], c[3])[2], token |-> TokenOf(type, c)]
    BY <1>4
  <2> HIDE DEF e
  <2>2. e.bd = BdOf(c[1], c[3])[2] /\ e.token = TokenOf(type, c)
    BY <2>1, TokenField
  <2>3. QED
    BY <2>2 DEF e
<1>5. <<c[1], Head(queue[c]).bd>> = d
  BY <1>17 DEF BdOf
<1>6. bd[d] = [base |-> BaseOf(c[1]), addr |-> StartAddr(c[1], c[3]), len |-> size]
  BY <1>2 DEF HasBd, Patched
<1> DEFINE y == [base |-> BaseOf(c[1]), addr |-> StartAddr(c[1], c[3]), left |-> size, token |-> TokenOf(type, c)]
<1>7. task' = [task EXCEPT ![c] = y]
  <2> DEFINE e == <<c[1], Head(queue[c]).bd>>
  <2>1. task' = [task EXCEPT ![c] = [base |-> bd[e].base, addr |-> bd[e].addr,
                                     left |-> bd[e].len, token |-> Head(queue[c]).token]]
    BY DEF StartTask
  <2>2. e = d
    BY <1>5
  <2>3. bd[e].base = BaseOf(c[1]) /\ bd[e].addr = StartAddr(c[1], c[3]) /\ bd[e].len = size
    BY <1>6, <2>2
  <2>4. Head(queue[c]).token = TokenOf(type, c)
    BY <1>17
  <2> HIDE DEF e
  <2>5. QED
    BY <2>1, <2>3, <2>4
<1>8. queue' = [queue EXCEPT ![c] = <<>>]
  BY <1>4 DEF StartTask
<1> HIDE DEF x, d
<1>9. task'[c] = y /\ queue'[c] = <<>>
  <2> HIDE DEF y
  <2>1. QED
    BY <1>7, <1>8
<1>10. /\ \A e \in Channels : e # c => queue'[e] = queue[e] /\ task'[e] = task[e]
       /\ queue' = [e \in Channels |-> queue'[e]] /\ task' = [e \in Channels |-> task'[e]]
  <2> HIDE DEF y
  <2>1. QED
    BY <1>7, <1>8
<1>11. size \in Nat /\ size >= 1
  BY SizeFact
<1>12. StartAddr(c[1], c[3]) + 0 = StartAddr(c[1], c[3]) /\ size - 0 = size
  BY <1>11
<1>13. Running(type, c, queue'[c], task'[c], 0)
  BY <1>9, <1>12 DEF Running
<1>14. task'[c].left = size
  BY <1>9
<1>15. ~ Resting(queue'[c], task'[c])
  BY <1>11, <1>14 DEF Resting
<1>16. QED
  BY <1>1, <1>2, <1>10, <1>13, <1>15 DEF Resting

LEMMA DoneSame ==
  ASSUME NEW p \in Transfers(ncol), Local(p),
         Resting(queue'[Snk(Type, p)], task'[Snk(Type, p)]) <=> Resting(queue[Snk(Type, p)], task[Snk(Type, p)]),
         Type \in Types, ncol \in ColumnCounts
  PROVE  /\ DoneTransfers(Type, ncol, pc, queue', task') = DoneTransfers(Type, ncol, pc, queue, task)
         /\ tcts' = tcts => (Counted => Counted')
<1>1. ASSUME NEW q \in Transfers(ncol)
      PROVE  Resting(queue'[Snk(Type, q)], task'[Snk(Type, q)]) <=> Resting(queue[Snk(Type, q)], task[Snk(Type, q)])
  <2>1. CASE q = p
    BY <2>1
  <2>2. CASE q # p
    <3>1. Snk(Type, q) \in Channels /\ Snk(Type, q) \notin {Src(Type, p), Snk(Type, p)}
      BY <2>2, EndsFact, EndsApart
    <3>2. QED
      BY <3>1 DEF Local
  <2>3. QED
    BY <2>1, <2>2
<1>2. DoneTransfers(Type, ncol, pc, queue', task') = DoneTransfers(Type, ncol, pc, queue, task)
  BY <1>1 DEF DoneTransfers
<1>3. Type' = Type /\ UNCHANGED <<ncol, pc, tokens>>
  BY DEF Local, Type
<1>4. QED
  BY <1>2, <1>3 DEF Counted

(* What is known of the ends of a transfer.                                *)
LEMMA EndsKnown ==
  ASSUME GenInv, ~ Finished, NEW p \in Transfers(ncol)
  PROVE  /\ Type \in Types /\ ncol \in ColumnCounts /\ pc \in Nat /\ phase # "run"
         /\ Past(Type, p, 4, pc) => HasBd(bd, FromTile(Type, p), p[2], Patched(FromTile(Type, p), p[2]))
         /\ Past(Type, p, 2, pc) => HasBd(bd, ToTile(Type, p), p[2], Patched(ToTile(Type, p), p[2]))
         /\ Past(Type, p, 2, pc) => ctrl[Snk(Type, p)] = TCT_CTRL_ID
         /\ StartAddr(FromTile(Type, p), p[2]) \in Int /\ StartAddr(ToTile(Type, p), p[2]) \in Int
         /\ Moving(Type, round, p, pc, queue, task, fifo, mem)
<1>1. ControlInv /\ DescriptorsInv /\ ChannelsInv
  BY DEF GenInv
<1>2. Type \in Types /\ ncol \in ColumnCounts /\ pc \in Nat /\ phase # "run"
  BY <1>1, ControlFact
<1>3. /\ Past(Type, p, 4, pc) => Past(Type, p, 5, pc)
      /\ Past(Type, p, 2, pc) => Past(Type, p, 5, pc) /\ Past(Type, p, 3, pc)
  BY <1>2, PastOrder
<1>4. Described(Type, p, pc, bd)
  BY <1>1, <1>2 DEF DescriptorsInv
<1>5. StartAddr(FromTile(Type, p), p[2]) \in Int /\ StartAddr(ToTile(Type, p), p[2]) \in Int
  BY <1>2, TilesOfTransfer, StartAddrNumber
<1>6. QED
  BY <1>1, <1>2, <1>3, <1>4, <1>5 DEF Described, ChannelsInv

LEMMA StartTaskKeepsInvariant ==
  ASSUME GenInv, NEW c \in Channels, StartTask(c), UNCHANGED <<ncol, phase, round>>
  PROVE  GenInv'
<1>1. ControlInv /\ HardwareInv /\ ChannelsInv /\ TokensInv
  BY DEF GenInv
<1>2. ~ Resting(queue[c], task[c])
  BY DEF StartTask, Resting
<1>3. ~ Finished
  BY <1>2, ActiveChannel
<1>4. PICK p \in Transfers(ncol) : c = Src(Type, p) \/ c = Snk(Type, p)
  BY <1>2, ActiveChannel
<1>5. /\ Type \in Types /\ ncol \in ColumnCounts
      /\ Past(Type, p, 4, pc) => HasBd(bd, FromTile(Type, p), p[2], Patched(FromTile(Type, p), p[2]))
      /\ Past(Type, p, 2, pc) => HasBd(bd, ToTile(Type, p), p[2], Patched(ToTile(Type, p), p[2]))
      /\ StartAddr(FromTile(Type, p), p[2]) \in Int /\ StartAddr(ToTile(Type, p), p[2]) \in Int
      /\ Moving(Type, round, p, pc, queue, task, fifo, mem)
  BY <1>3, EndsKnown
<1>6. /\ Src(Type, p) = <<FromTile(Type, p), "MM2S", p[2]>> /\ Src(Type, p) \in Channels
      /\ Snk(Type, p) = <<ToTile(Type, p), "S2MM", p[2]>> /\ Snk(Type, p) \in Channels
      /\ Src(Type, p) # Snk(Type, p)
  BY <1>5, EndsFact, EndsApart
<1>7. queue = [e \in Channels |-> queue[e]] /\ task = [e \in Channels |-> task[e]]
  BY <1>1 DEF HardwareInv
<1>8. PICK a, b \in 0 .. size : Transfer(Type, round, p, pc, queue, task, fifo, mem, a, b)
  BY <1>5 DEF Moving
<1>9. UNCHANGED <<txn, pc, route, bd, ctrl, tokens, ncol, phase, round, fifo, tcts, mem>>
  BY DEF StartTask, control, switch
<1>10. Past(Type, p, 4, pc) \in BOOLEAN /\ Past(Type, p, 2, pc) \in BOOLEAN
  BY DEF Past
<1>11. /\ Moving(Type, round, p, pc, queue', task', fifo', mem')
       /\ ~ Resting(queue[c], task[c]) /\ ~ Resting(queue'[c], task'[c])
       /\ \A e \in Channels : e # c => queue'[e] = queue[e] /\ task'[e] = task[e]
       /\ queue' = [e \in Channels |-> queue'[e]] /\ task' = [e \in Channels |-> task'[e]]
  <2>1. CASE c = Src(Type, p)
    <3>1. c[1] = FromTile(Type, p) /\ c[3] = p[2]
      BY <1>6, <2>1
    <3>2. Progress(Type, c, Past(Type, p, 4, pc), queue[c], task[c], a)
      BY <1>8, <2>1 DEF Transfer
    <3>3. /\ Past(Type, p, 4, pc) /\ a = 0 /\ Running(Type, c, queue'[c], task'[c], 0)
          /\ ~ Resting(queue[c], task[c]) /\ ~ Resting(queue'[c], task'[c])
          /\ \A e \in Channels : e # c => queue'[e] = queue[e] /\ task'[e] = task[e]
          /\ queue' = [e \in Channels |-> queue'[e]] /\ task' = [e \in Channels |-> task'[e]]
      BY <1>5, <1>7, <1>10, <3>1, <3>2, TaskStarted
    <3>4. Transfer(Type, round, p, pc, queue', task', fifo', mem', a, b)
      BY <1>6, <1>8, <1>9, <2>1, <3>3 DEF Transfer, Progress
    <3>5. QED
      BY <3>3, <3>4 DEF Moving
  <2>2. CASE c = Snk(Type, p)
    <3>1. c[1] = ToTile(Type, p) /\ c[3] = p[2]
      BY <1>6, <2>2
    <3>2. Progress(Type, c, Past(Type, p, 2, pc), queue[c], task[c], b)
      BY <1>8, <2>2 DEF Transfer
    <3>3. /\ Past(Type, p, 2, pc) /\ b = 0 /\ Running(Type, c, queue'[c], task'[c], 0)
          /\ ~ Resting(queue[c], task[c]) /\ ~ Resting(queue'[c], task'[c])
          /\ \A e \in Channels : e # c => queue'[e] = queue[e] /\ task'[e] = task[e]
          /\ queue' = [e \in Channels |-> queue'[e]] /\ task' = [e \in Channels |-> task'[e]]
      BY <1>5, <1>7, <1>10, <3>1, <3>2, TaskStarted
    <3>4. Transfer(Type, round, p, pc, queue', task', fifo', mem', a, b)
      BY <1>6, <1>8, <1>9, <2>2, <3>3 DEF Transfer, Progress
    <3>5. QED
      BY <3>3, <3>4 DEF Moving
  <2>3. QED
    BY <1>4, <2>1, <2>2
<1>12. Local(p)
  BY <1>1, <1>4, <1>9, <1>11 DEF Local, HardwareInv
<1>13. Resting(queue'[Snk(Type, p)], task'[Snk(Type, p)]) <=> Resting(queue[Snk(Type, p)], task[Snk(Type, p)])
  BY <1>4, <1>6, <1>11
<1>14. TokensInv'
  BY <1>1, <1>3, <1>5, <1>9, <1>12, <1>13, CountedNow, DoneSame, CountedNext
<1>15. QED
  BY <1>1, <1>3, <1>9, <1>11, <1>12, <1>14, LocalStep DEF HardwareInv

(* A channel with words to move has its task running.                      *)
LEMMA RunsItsTask ==
  ASSUME NEW type, NEW c, NEW given, NEW q, NEW t, NEW k \in Nat, k <= size,
         Progress(type, c, given, q, t, k), t.left > 0
  PROVE  given /\ Running(type, c, q, t, k) /\ k < size
<1>1. size \in Nat
  BY SizeFact
<1>2. given /\ Running(type, c, q, t, k)
  BY DEF Progress, Resting, Waiting
<1>3. t.left = size - k
  BY <1>2 DEF Running
<1>4. QED
  BY <1>1, <1>2, <1>3

LEMMA SendKeepsInvariant ==
  ASSUME GenInv, NEW c \in Channels, Send(c), UNCHANGED <<ncol, phase, round>>
  PROVE  GenInv'
<1>1. ControlInv /\ HardwareInv /\ RoutesInv /\ ChannelsInv /\ MemoryInv /\ TokensInv
  BY DEF GenInv
<1>2. task[c].left > 0 /\ c[2] = "MM2S"
  BY DEF Send
<1>3. ~ Resting(queue[c], task[c])
  BY <1>2 DEF Resting
<1>4. ~ Finished
  BY <1>3, ActiveChannel
<1>5. PICK p \in Transfers(ncol) : c = Src(Type, p) \/ c = Snk(Type, p)
  BY <1>3, ActiveChannel
<1> DEFINE f == FromTile(Type, p)
           snk == Snk(Type, p)
<1>6. /\ Type \in Types /\ ncol \in ColumnCounts /\ phase # "run"
      /\ StartAddr(f, p[2]) \in Int
      /\ Moving(Type, round, p, pc, queue, task, fifo, mem)
  BY <1>4, EndsKnown
<1>7. /\ c = Src(Type, p) /\ c # snk /\ snk \in Channels
      /\ c[1] = f /\ c[3] = p[2] /\ f \in Tiles
  BY <1>2, <1>5, <1>6, EndsFact, EndsApart
<1>8. /\ p[1] \in Nat /\ p[2] \in {0, 1} /\ f \in {MemTile(p[1]), Shim(p[1])}
  BY <1>6, TilesOfTransfer
<1> HIDE DEF f, snk
<1>9. PICK a, b \in 0 .. size : Transfer(Type, round, p, pc, queue, task, fifo, mem, a, b)
  BY <1>6 DEF Moving
<1>10. size \in Nat /\ a \in Nat /\ b \in Nat /\ a <= size
  BY SizeFact
<1>11. Progress(Type, c, Past(Type, p, 4, pc), queue[c], task[c], a)
  BY <1>7, <1>9 DEF Transfer
<1>12. Past(Type, p, 4, pc) /\ Running(Type, c, queue[c], task[c], a) /\ a < size
  BY <1>2, <1>10, <1>11, RunsItsTask
<1>13. a \in 0 .. size - 1 /\ a + 1 \in 0 .. size
  BY <1>10, <1>12
<1>14. /\ queue = [e \in Channels |-> queue[e]] /\ task = [e \in Channels |-> task[e]]
       /\ fifo = [e \in Channels |-> fifo[e]]
       /\ mem = [loc \in MemoryOf(ncol) \cup ScratchPad(ncol) |-> mem[loc]]
       /\ tcts \in [Tiles -> Seq({0, TCT_CTRL_ID})] /\ ctrl[c] = 0
  BY <1>1, <1>2 DEF HardwareInv
<1>15. /\ task' = [task EXCEPT ![c].addr = @ + 1, ![c].left = @ - 1]
       /\ tcts' = (IF task[c].left = 1 /\ task[c].token THEN [tcts EXCEPT ![c[1]] = Append(@, ctrl[c])] ELSE tcts)
       /\ UNCHANGED <<txn, pc, route, bd, ctrl, queue, tokens, mem, ncol, phase, round>>
  BY DEF Send, Moved, control, switch
<1>16. /\ task' = [e \in Channels |-> task'[e]]
       /\ Running(Type, c, queue[c], task'[c], a + 1)
       /\ \A e \in Channels : e # c => task'[e] = task[e]
       /\ task[c].base = BaseOf(f) /\ task[c].addr = StartAddr(f, p[2]) + a
  <2>1. StartAddr(c[1], c[3]) \in Int
    BY <1>6, <1>7
  <2>2. task = [e \in Channels |-> task[e]]
    BY <1>14
  <2>3. task' = Onward(task, c)
    BY <1>15 DEF Onward
  <2>4. /\ task' = [e \in Channels |-> task'[e]]
        /\ Running(Type, c, queue[c], task'[c], a + 1)
        /\ \A e \in Channels : e # c => task'[e] = task[e]
        /\ task[c].left = size - a /\ task[c].token = TokenOf(Type, c)
        /\ task[c].base = BaseOf(c[1]) /\ task[c].addr = StartAddr(c[1], c[3]) + a
    BY <1>10, <1>12, <2>1, <2>2, <2>3, WordMoved
  <2>5. QED
    BY <1>7, <2>4
<1>17. Read(Location(c[1], task[c].base, task[c].addr)) = Word(round, p, a)
  <2>1. Location(c[1], task[c].base, task[c].addr) = Place(f, p[2], a)
    BY <1>7, <1>8, <1>13, <1>16, AddressesPlaces
  <2>2. Place(f, p[2], a) \in DOMAIN mem
    BY <1>6, <1>8, <1>13, <1>14, PlaceInMemory
  <2>3. mem[Place(f, p[2], a)] = Word(round, p, a)
    BY <1>1, <1>6, <1>13 DEF MemoryInv, HeldBy, f
  <2>4. QED
    BY <2>1, <2>2, <2>3 DEF Read
<1>18. Sinks(c) = {snk}
  BY <1>1, <1>7, SinksOfSource DEF Send, snk
<1>19. fifo' = [d \in Channels |-> IF d = snk THEN Append(fifo[d], Word(round, p, a)) ELSE fifo[d]]
  BY <1>17, <1>18 DEF Send
<1>20. /\ fifo'[snk] = Append(fifo[snk], Word(round, p, a))
       /\ \A d \in Channels : d # snk => fifo'[d] = fifo[d]
       /\ fifo' = [e \in Channels |-> fifo'[e]]
  BY <1>7, <1>19
<1>21. InFlight(round, p, a + 1, b, fifo'[snk])
  <2>1. InFlight(round, p, a, b, fifo[snk])
    BY <1>9 DEF Transfer, snk
  <2>2. QED
    BY <1>10, <1>20, <2>1, WordSent
<1>22. Moving(Type, round, p, pc, queue', task', fifo', mem')
  <2>1. Transfer(Type, round, p, pc, queue', task', fifo', mem', a + 1, b)
    BY <1>7, <1>9, <1>12, <1>15, <1>16, <1>21 DEF Transfer, Progress, snk
  <2>2. QED
    BY <1>13, <2>1 DEF Moving
<1>23. Local(p)
  BY <1>7, <1>14, <1>15, <1>16, <1>20 DEF Local, snk
<1>24. tcts' \in [Tiles -> Seq({0, TCT_CTRL_ID})] /\ Counting(tcts') = Counting(tcts)
  <2>1. CASE tcts' = tcts
    BY <1>14, <2>1
  <2>2. CASE tcts' = Issued(tcts, f, 0)
    BY <1>7, <1>14, <2>2, IssuedFact, TokenIgnored
  <2>3. QED
    BY <1>7, <1>14, <1>15, <2>1, <2>2 DEF Issued
<1>25. DoneTransfers(Type, ncol, pc, queue', task') = DoneTransfers(Type, ncol, pc, queue, task)
  <2>1. task'[snk] = task[snk] /\ queue'[snk] = queue[snk]
    BY <1>7, <1>15, <1>16
  <2>2. QED
    BY <1>6, <1>23, <2>1, DoneSame DEF snk
<1>26. TokensInv'
  <2>1. Counted
    BY <1>1, <1>4, CountedNow
  <2>2. Type' = Type
    BY <1>15 DEF Type
  <2>3. Counted'
    BY <1>15, <1>24, <1>25, <2>1, <2>2, TracedSame DEF Counted
  <2>4. QED
    BY <1>4, <1>15, <2>3, CountedNext
<1>27. QED
  BY <1>4, <1>22, <1>23, <1>24, <1>26, LocalStep

LEMMA ReceiveKeepsInvariant ==
  ASSUME GenInv, NEW c \in Channels, Receive(c), UNCHANGED <<ncol, phase, round>>
  PROVE  GenInv'
<1>1. ControlInv /\ HardwareInv /\ ChannelsInv /\ TokensInv
  BY DEF GenInv
<1>2. task[c].left > 0 /\ c[2] = "S2MM" /\ fifo[c] # <<>>
  BY DEF Receive
<1>3. ~ Resting(queue[c], task[c])
  BY <1>2 DEF Resting
<1>4. ~ Finished
  BY <1>3, ActiveChannel
<1>5. PICK p \in Transfers(ncol) : c = Src(Type, p) \/ c = Snk(Type, p)
  BY <1>3, ActiveChannel
<1> DEFINE t == ToTile(Type, p)
           src == Src(Type, p)
           done == DoneTransfers(Type, ncol, pc, queue, task)
<1>6. /\ Type \in Types /\ ncol \in ColumnCounts /\ phase # "run"
      /\ StartAddr(t, p[2]) \in Int
      /\ Past(Type, p, 2, pc) => ctrl[Snk(Type, p)] = TCT_CTRL_ID
      /\ Moving(Type, round, p, pc, queue, task, fifo, mem)
  BY <1>4, EndsKnown
<1>7. /\ c = Snk(Type, p) /\ c # src /\ src \in Channels
      /\ c[1] = t /\ c[3] = p[2] /\ t \in Tiles
  BY <1>2, <1>5, <1>6, EndsFact, EndsApart
<1>8. /\ p[1] \in Nat /\ p[2] \in {0, 1} /\ t \in {MemTile(p[1]), Shim(p[1])}
  BY <1>6, TilesOfTransfer
<1> HIDE DEF t, src, done
<1>9. PICK a, b \in 0 .. size : Transfer(Type, round, p, pc, queue, task, fifo, mem, a, b)
  BY <1>6 DEF Moving
<1>10. size \in Nat /\ a \in Nat /\ b \in Nat /\ b <= size
  BY SizeFact
<1>11. Progress(Type, c, Past(Type, p, 2, pc), queue[c], task[c], b)
  BY <1>7, <1>9 DEF Transfer
<1>12. Past(Type, p, 2, pc) /\ Running(Type, c, queue[c], task[c], b) /\ b < size
  BY <1>2, <1>10, <1>11, RunsItsTask
<1>13. b \in 0 .. size - 1 /\ b + 1 \in 0 .. size
  BY <1>10, <1>12
<1>14. /\ queue = [e \in Channels |-> queue[e]] /\ task = [e \in Channels |-> task[e]]
       /\ fifo = [e \in Channels |-> fifo[e]]
       /\ mem = [loc \in MemoryOf(ncol) \cup ScratchPad(ncol) |-> mem[loc]]
       /\ tcts \in [Tiles -> Seq({0, TCT_CTRL_ID})] /\ ctrl[c] = TCT_CTRL_ID
  BY <1>1, <1>6, <1>7, <1>12 DEF HardwareInv
<1>15. /\ task' = [task EXCEPT ![c].addr = @ + 1, ![c].left = @ - 1]
       /\ tcts' = (IF task[c].left = 1 /\ task[c].token THEN [tcts EXCEPT ![c[1]] = Append(@, ctrl[c])] ELSE tcts)
       /\ UNCHANGED <<txn, pc, route, bd, ctrl, queue, tokens, ncol, phase, round>>
       /\ fifo' = [fifo EXCEPT ![c] = Tail(@)]
       /\ mem' = [mem EXCEPT ![Location(c[1], task[c].base, task[c].addr)] = Head(fifo[c])]
  BY DEF Receive, Moved, control, switch
<1>16. /\ task' = [e \in Channels |-> task'[e]]
       /\ Running(Type, c, queue[c], task'[c], b + 1)
       /\ \A e \in Channels : e # c => task'[e] = task[e]
       /\ task[c].left = size - b /\ task[c].token = TokenOf(Type, c)
       /\ task[c].base = BaseOf(t) /\ task[c].addr = StartAddr(t, p[2]) + b
  <2>1. StartAddr(c[1], c[3]) \in Int
    BY <1>6, <1>7
  <2>2. task = [e \in Channels |-> task[e]]
    BY <1>14
  <2>3. task' = Onward(task, c)
    BY <1>15 DEF Onward
  <2>4. /\ task' = [e \in Channels |-> task'[e]]
        /\ Running(Type, c, queue[c], task'[c], b + 1)
        /\ \A e \in Channels : e # c => task'[e] = task[e]
        /\ task[c].left = size - b /\ task[c].token = TokenOf(Type, c)
        /\ task[c].base = BaseOf(c[1]) /\ task[c].addr = StartAddr(c[1], c[3]) + b
    BY <1>10, <1>12, <2>1, <2>2, <2>3, WordMoved
  <2>5. QED
    BY <1>7, <2>4
<1>17. b < a /\ Head(fifo[c]) = Word(round, p, b) /\ InFlight(round, p, a, b + 1, Tail(fifo[c]))
  <2>1. InFlight(round, p, a, b, fifo[c])
    BY <1>7, <1>9 DEF Transfer
  <2>2. QED
    BY <1>2, <1>10, <2>1, WordTaken
<1> DEFINE at == Place(t, p[2], b)
<1>18. at \in MemoryOf(ncol) \cup ScratchPad(ncol)
  BY <1>6, <1>8, <1>13, PlaceInMemory
<1>19. mem' = [mem EXCEPT ![at] = Word(round, p, b)]
  <2>1. Location(c[1], task[c].base, task[c].addr) = at
    BY <1>7, <1>8, <1>13, <1>16, AddressesPlaces
  <2>2. QED
    BY <1>15, <1>17, <2>1
<1>20. /\ mem'[at] = Word(round, p, b)
       /\ \A loc \in MemoryOf(ncol) \cup ScratchPad(ncol) : loc # at => mem'[loc] = mem[loc]
       /\ mem' = [loc \in MemoryOf(ncol) \cup ScratchPad(ncol) |-> mem'[loc]]
  <2> HIDE DEF at
  <2>1. QED
    BY <1>14, <1>18, <1>19
<1>21. /\ fifo'[c] = Tail(fifo[c])
       /\ \A d \in Channels : d # c => fifo'[d] = fifo[d]
       /\ fifo' = [e \in Channels |-> fifo'[e]]
  BY <1>14, <1>15
<1>22. Arrived(Type, round, p, b + 1, mem')
  <2>1. SUFFICES ASSUME NEW i \in 0 .. b + 1 - 1
                 PROVE  mem'[Place(t, p[2], i)] = Word(round, p, i)
    BY DEF Arrived, t
  <2>2. i \in 0 .. size - 1 /\ (i # b => i \in 0 .. b - 1)
    BY <1>10, <1>13
  <2>3. CASE i = b
    BY <1>20, <2>3
  <2>4. CASE i # b
    <3>1. mem[Place(t, p[2], i)] = Word(round, p, i)
      BY <1>9, <2>2, <2>4 DEF Transfer, Arrived, t
    <3>2. Place(t, p[2], i) # at
      BY <1>6, <1>13, <2>2, <2>4, PlacesApart DEF t
    <3>3. Place(t, p[2], i) \in MemoryOf(ncol) \cup ScratchPad(ncol)
      BY <1>6, <1>8, <2>2, PlaceInMemory
    <3>4. QED
      BY <1>20, <3>1, <3>2, <3>3
  <2>5. QED
    BY <2>3, <2>4
<1>23. Moving(Type, round, p, pc, queue', task', fifo', mem')
  <2>1. InFlight(round, p, a, b + 1, fifo'[c])
    BY <1>17, <1>21
  <2>2. Transfer(Type, round, p, pc, queue', task', fifo', mem', a, b + 1)
    BY <1>7, <1>9, <1>12, <1>15, <1>16, <1>22, <2>1 DEF Transfer, Progress, src
  <2>3. QED
    BY <1>13, <2>2 DEF Moving
<1>24. Local(p)
  <2>1. \A loc \in MemoryOf(ncol) \cup ScratchPad(ncol) :
          (\A i \in 0 .. size - 1 : loc # Place(t, p[2], i)) => mem'[loc] = mem[loc]
    BY <1>13, <1>20
  <2>2. QED
    BY <1>7, <1>14, <1>15, <1>16, <1>20, <1>21, <2>1 DEF Local, t, src
<1>25. TokenOf(Type, c) = TRUE
  BY <1>2 DEF TokenOf
<1>26. CASE size - b = 1
  <2>1. tcts' = Issued(tcts, t, TCT_CTRL_ID)
    BY <1>7, <1>14, <1>15, <1>16, <1>25, <1>26 DEF Issued
  <2>2. tcts' \in [Tiles -> Seq({0, TCT_CTRL_ID})]
    BY <1>7, <1>14, <2>1, IssuedFact
  <2>3. p \notin done
    BY <1>3, <1>7 DEF done, DoneTransfers
  <2>4. DoneTransfers(Type, ncol, pc, queue', task') = done \cup {p}
    <3>1. Resting(queue'[c], task'[c])
      BY <1>10, <1>15, <1>16, <1>26 DEF Running, Resting
    <3>2. ASSUME NEW q \in Transfers(ncol), q # p
          PROVE  queue'[Snk(Type, q)] = queue[Snk(Type, q)] /\ task'[Snk(Type, q)] = task[Snk(Type, q)]
      <4>1. Snk(Type, q) \in Channels /\ Snk(Type, q) # c
        BY <1>6, <1>7, <3>2, EndsFact, EndsApart
      <4>2. QED
        BY <1>15, <1>16, <4>1
    <3>3. QED
      BY <1>7, <1>12, <3>1, <3>2 DEF done, DoneTransfers
  <2>5. Counted
    BY <1>1, <1>4, CountedNow
  <2>6. Traced(Type, tokens, tcts', done \cup {p})
    <3>1. Traced(Type, tokens, tcts, done)
      BY <2>5 DEF Counted, done
    <3>2. QED
      BY <1>7, <1>14, <2>1, <2>3, <3>1, TokenIssued DEF t
  <2>7. Type' = Type
    BY <1>15 DEF Type
  <2>8. Counted'
    BY <1>15, <2>4, <2>6, <2>7 DEF Counted
  <2>9. TokensInv'
    BY <1>4, <1>15, <2>8, CountedNext
  <2>10. QED
    BY <1>4, <1>23, <1>24, <2>2, <2>9, LocalStep
<1>27. CASE size - b # 1
  <2>1. tcts' = tcts
    BY <1>15, <1>16, <1>27
  <2>2. ~ Resting(queue'[c], task'[c])
    BY <1>10, <1>13, <1>15, <1>16, <1>27 DEF Running, Resting
  <2>3. Counted'
    BY <1>1, <1>3, <1>4, <1>6, <1>7, <1>24, <2>1, <2>2, CountedNow, DoneSame
  <2>4. TokensInv'
    BY <1>4, <1>15, <2>3, CountedNext
  <2>5. QED
    BY <1>4, <1>14, <1>23, <1>24, <2>1, <2>4, LocalStep
<1>28. QED
  BY <1>26, <1>27

LEMMA DeliverKeepsInvariant ==
  ASSUME GenInv, NEW tile \in Tiles, DeliverToken(tile), UNCHANGED <<ncol, phase, round>>
  PROVE  GenInv'
<1>1. /\ ControlInv /\ HardwareInv /\ RoutesInv /\ DescriptorsInv /\ ChannelsInv /\ MemoryInv
      /\ TokensInv /\ AllDone
  BY DEF GenInv
<1>2. Type' = Type /\ ncol \in ColumnCounts
  BY <1>1 DEF Type, ControlInv
<1>3. /\ UNCHANGED <<txn, pc, route, mux, bd, ctrl, enabled, queue, task, fifo, mem, ncol, phase, round>>
      /\ tcts[tile] # <<>> /\ tcts' = Delivered(tcts, tile)
      /\ tokens' = tokens + (IF Head(tcts[tile]) = TCT_CTRL_ID THEN 1 ELSE 0)
  BY DEF DeliverToken, control, switch, channels, Delivered
<1>4. tcts \in [Tiles -> Seq({0, TCT_CTRL_ID})] /\ tokens \in Nat
  BY <1>1 DEF HardwareInv
<1>5. tcts' \in [Tiles -> Seq({0, TCT_CTRL_ID})]
  BY <1>3, <1>4, DeliveredFact
<1>6. tokens' \in Nat
  BY <1>3, <1>4
<1>7. TokensInv'
  <2>1. CASE Finished
    <3>1. tokens = 0 /\ Counting(tcts) = {}
      BY <1>1, <2>1 DEF TokensInv
    <3>2. Head(tcts[tile]) # TCT_CTRL_ID /\ Counting(tcts') = {}
      BY <1>3, <1>4, <3>1, DeliveredFact
    <3>3. tokens' = 0
      BY <1>3, <3>1, <3>2
    <3>4. Finished'
      BY <1>3, <2>1 DEF Finished, Ops
    <3>5. QED
      BY <3>2, <3>3, <3>4 DEF TokensInv
  <2>2. CASE ~ Finished
    <3> DEFINE done == DoneTransfers(Type, ncol, pc, queue, task)
    <3>1. Traced(Type, tokens, tcts, done)
      BY <1>1, <2>2, CountedNow DEF Counted
    <3>2. IsFiniteSet(done)
      <4>1. done \subseteq Transfers(ncol)
        BY DEF DoneTransfers
      <4>2. QED
        BY <1>2, <4>1, TransfersFinite, FS_Subset
    <3> HIDE DEF done
    <3>3. Traced(Type, tokens', tcts', done)
      BY <1>3, <1>4, <3>1, <3>2, TokenDelivered
    <3>4. Counted'
      BY <1>2, <1>3, <3>3 DEF Counted, done
    <3>5. QED
      BY <1>3, <2>2, <3>4, CountedNext
  <2>3. QED
    BY <2>1, <2>2
<1>8. MemoryOf(ncol)' = MemoryOf(ncol) /\ ScratchPad(ncol)' = ScratchPad(ncol)
  BY <1>3 DEF MemoryOf, ScratchPad
<1>9. ControlInv' /\ RoutesInv' /\ DescriptorsInv' /\ ChannelsInv' /\ MemoryInv'
  BY <1>1, <1>2, <1>3 DEF ControlInv, RoutesInv, DescriptorsInv, ChannelsInv, MemoryInv
<1>10. HardwareInv'
  BY <1>1, <1>3, <1>5, <1>6, <1>8 DEF HardwareInv
<1>11. AllDone'
  BY <1>1, <1>2, <1>3 DEF AllDone, Finished, Ops
<1>12. QED
  BY <1>7, <1>9, <1>10, <1>11 DEF GenInv
-----------------------------------------------------------------------------
(* The context and its host.                                               *)
LEMMA EmptyFunction ==
  ASSUME NEW f, f = <<>>
  PROVE  DOMAIN f = {} /\ f = [x \in DOMAIN f |-> f[x]]
<1>1. f \in Seq({}) /\ Len(f) = 0
  OBVIOUS
<1>2. DOMAIN f = 1 .. 0
  BY <1>1
<1>3. f = [j \in 1 .. Len(f) |-> f[j]]
  BY <1>1, SequenceIsFunction
<1>4. QED
  BY <1>1, <1>2, <1>3

(* A memory with its words in its memory tiles holds them for the save.    *)
LEMMA FilledHolds ==
  ASSUME NEW n \in ColumnCounts, NEW r, NEW m,
         \A loc \in MemoryOf(n) : m[loc] = Content(r, loc)
  PROVE  HeldBy("save", r, n, m)
<1>1. ASSUME NEW p \in Transfers(n), NEW i \in 0 .. size - 1
      PROVE  m[Place(FromTile("save", p), p[2], i)] = Word(r, p, i)
  <2>1. n \in Nat /\ p[1] \in 0 .. n - 1 /\ p[2] \in {0, 1}
    BY TransfersFact
  <2> DEFINE t == FromTile("save", p)
             off == chan_addr_offset(p[2]) + i
             loc == <<"l2", p[1], off>>
  <2>2. t \in {MemTile(p[1]), Shim(p[1])} /\ ~ IsShim(t)
    BY DEF FromTile, MemTile, IsShim
  <2>3. Place(t, p[2], i) = loc
    BY <2>2, PlaceInMemory
  <2>4. off \in 0 .. MEMTILE_SIZE - 1
    BY <2>1, OffsetFact
  <2> HIDE DEF off
  <2>5. loc \in MemoryOf(n)
    BY <2>1, <2>4 DEF MemoryOf
  <2>6. Content(r, loc) = <<r, p[1], off>>
    BY DEF Content
  <2>7. QED
    BY <2>3, <2>5, <2>6 DEF Word, off
<1>2. QED
  BY <1>1 DEF HeldBy

(* A transaction starts on quiet channels.                                 *)
LEMMA NothingMoved ==
  ASSUME NEW n \in ColumnCounts, NEW p \in Transfers(n), NEW type \in Types, NEW r,
         NEW qs, NEW ts, NEW fs, NEW m,
         \A c \in Channels : Resting(qs[c], ts[c]) /\ fs[c] = <<>>
  PROVE  /\ Moving(type, r, p, 1, qs, ts, fs, m)
         /\ p \notin DoneTransfers(type, n, 1, qs, ts)
<1>1. Src(type, p) \in Channels /\ Snk(type, p) \in Channels
  BY EndsFact
<1>2. ~ Past(type, p, 4, 1) /\ ~ Past(type, p, 2, 1)
  BY NonePast
<1>3. InFlight(r, p, 0, 0, fs[Snk(type, p)])
  <2> DEFINE W(j) == Word(r, p, 0 + j - 1)
  <2>1. [j \in 1 .. 0 |-> W(j)] = <<>>
    <3> HIDE DEF W
    <3>1. QED
      OBVIOUS
  <2>2. 0 - 0 = 0
    OBVIOUS
  <2>3. QED
    BY <1>1, <2>1, <2>2 DEF InFlight
<1>4. Arrived(type, r, p, 0, m)
  BY DEF Arrived
<1>5. Transfer(type, r, p, 1, qs, ts, fs, m, 0, 0)
  BY <1>1, <1>2, <1>3, <1>4 DEF Transfer, Progress
<1>6. 0 \in 0 .. size
  BY SizeFact
<1>7. QED
  BY <1>2, <1>5, <1>6 DEF Moving, DoneTransfers

LEMMA StartedTransaction ==
  ASSUME NEW type \in Types, phase' = type, txn' = <<type, ncol>>, pc' = 1, ncol' = ncol,
         ncol \in ColumnCounts, round' \in Nat, HardwareInv', RoutesInv',
         bd' = [d \in DOMAIN bd' |-> bd'[d]], Quiet', tokens' = 0, Counting(tcts') = {},
         HeldBy(type, round', ncol, mem')
  PROVE  GenInv'
<1>1. Type' = type
  BY DEF Type, Types
<1>2. Ops' = generate_tran(type, ncol)
  BY GeneratedFact DEF Ops
<1>3. Len(Ops') = SyncAt(type, ncol) /\ SyncAt(type, ncol) \in Nat /\ SyncAt(type, ncol) >= 25
  BY <1>2, SyncOperation
<1>4. ~ Finished'
  BY <1>3 DEF Finished
<1>5. ControlInv'
  <2>1. 1 \in 1 .. SyncAt(type, ncol) + 1
    BY <1>3
  <2>2. QED
    BY <1>1, <2>1 DEF ControlInv, Types
<1>6. ASSUME NEW p \in Transfers(ncol)
      PROVE  /\ Described(type, p, 1, bd')
             /\ ~ Past(type, p, 3, 1)
  BY NonePast DEF Described
<1>7. DescriptorsInv'
  BY <1>1, <1>6 DEF DescriptorsInv
<1>8. \A c \in Channels : Resting(queue'[c], task'[c]) /\ fifo'[c] = <<>>
  BY DEF Quiet, Resting
<1>9. ASSUME NEW p \in Transfers(ncol)
      PROVE  /\ Moving(type, round', p, 1, queue', task', fifo', mem')
             /\ p \notin DoneTransfers(type, ncol, 1, queue', task')
  BY <1>8, NothingMoved
<1>10. ChannelsInv'
  BY <1>1, <1>6, <1>8, <1>9 DEF ChannelsInv
<1>11. MemoryInv'
  BY <1>1 DEF MemoryInv, Types
<1>12. TokensInv'
  <2>1. DoneTransfers(type, ncol, 1, queue', task') = {}
    BY <1>9 DEF DoneTransfers
  <2> DEFINE g == [x \in Counting(tcts') |-> x]
  <2>2. g \in [Counting(tcts') -> {} \ {}]
    OBVIOUS
  <2>3. Cardinality({}) = 0
    BY FS_EmptySet
  <2> HIDE DEF g
  <2>4. Accounted(type, 0, tcts', {}, {}, g)
    BY <2>2, <2>3 DEF Accounted
  <2>5. Traced(type, 0, tcts', {})
    BY <2>2, <2>4 DEF Traced
  <2>6. QED
    BY <1>1, <1>4, <2>1, <2>5 DEF TokensInv, Traced
<1>13. AllDone'
  BY <1>4 DEF AllDone
<1>14. QED
  BY <1>5, <1>7, <1>10, <1>11, <1>12, <1>13 DEF GenInv

LEMMA InitInvariant == Init => GenInv
<1> SUFFICES ASSUME Init PROVE GenInv
  OBVIOUS
<1>1. /\ ncol \in ColumnCounts /\ phase = "run" /\ round = 0 /\ Type = "restore" /\ "restore" \in Types
      /\ txn = <<Type, ncol>> /\ pc = Len(Ops) + 1 /\ Reset
  BY DEF Init, Type, Types
<1>2. Ops = generate_tran(Type, ncol)
  BY <1>1, GeneratedFact DEF Ops
<1>3. Len(Ops) = SyncAt(Type, ncol) /\ SyncAt(Type, ncol) \in Nat /\ SyncAt(Type, ncol) >= 25
  BY <1>1, <1>2, SyncOperation
<1>4. Finished /\ pc = SyncAt(Type, ncol) + 1
  BY <1>1, <1>3 DEF Finished
<1>5. ControlInv
  BY <1>1, <1>3, <1>4 DEF ControlInv
<1>6. /\ queue = [c \in Channels |-> <<>>] /\ task = [c \in Channels |-> NoTask]
      /\ fifo = [c \in Channels |-> <<>>] /\ ctrl = [c \in Channels |-> 0]
      /\ tcts = [t \in Tiles |-> <<>>] /\ tokens = 0 /\ route = <<>> /\ bd = <<>>
  BY <1>1 DEF Reset
<1>7. /\ \A loc \in MemoryOf(ncol) : mem[loc] = Content(0, loc)
      /\ mem = [loc \in MemoryOf(ncol) \cup ScratchPad(ncol) |-> mem[loc]]
  BY DEF Init
<1>8. HardwareInv
  <2>1. /\ queue = [c \in Channels |-> queue[c]] /\ task = [c \in Channels |-> task[c]]
        /\ fifo = [c \in Channels |-> fifo[c]]
    BY <1>6
  <2>2. tcts \in [Tiles -> Seq({0, TCT_CTRL_ID})]
    BY <1>6
  <2>3. ctrl \in [Channels -> {0, TCT_CTRL_ID}] /\ \A c \in Channels : ctrl[c] = 0
    BY <1>6
  <2>4. QED
    BY <1>6, <1>7, <2>1, <2>2, <2>3 DEF HardwareInv
<1>9. RoutesInv /\ DescriptorsInv
  BY <1>1, <1>6, EmptyFunction DEF RoutesInv, DescriptorsInv
<1>10. ChannelsInv
  <2>1. \A c \in Channels : queue[c] = <<>> /\ task[c].left = 0 /\ fifo[c] = <<>>
    BY <1>6 DEF NoTask
  <2>2. QED
    BY <1>1, <2>1 DEF ChannelsInv, Resting
<1>11. MemoryInv
  BY <1>1, <1>7, FilledHolds DEF MemoryInv
<1>12. Counting(tcts) = {}
  <2>1. \A t \in Tiles : DOMAIN tcts[t] = {}
    BY <1>6, EmptyFunction
  <2>2. QED
    BY <2>1 DEF Counting
<1>13. TokensInv /\ AllDone
  BY <1>1, <1>4, <1>6, <1>12 DEF TokensInv, AllDone
<1>14. QED
  BY <1>5, <1>8, <1>9, <1>10, <1>11, <1>13 DEF GenInv

LEMMA RunIsFinished ==
  ASSUME GenInv, phase = "run"
  PROVE  Finished
BY ControlFact DEF GenInv

LEMMA PreemptKeepsInvariant ==
  ASSUME GenInv, Preempt
  PROVE  GenInv'
<1>1. ControlInv /\ HardwareInv /\ RoutesInv /\ DescriptorsInv
  BY DEF GenInv
<1>2. Quiet /\ tokens = 0 /\ Counting(tcts) = {}
  BY RunIsFinished, FinishedMeansQuiet DEF Preempt
<1>3. /\ phase' = "save" /\ round' = round + 1 /\ mem' = Filled(ncol, round + 1)
      /\ txn' = <<"save", ncol>> /\ pc' = 1 /\ ncol' = ncol
      /\ UNCHANGED <<route, bd, ctrl, queue, task, fifo, tcts, tokens>>
  BY DEF Preempt, Start, switch, channels
<1>4. ncol \in ColumnCounts /\ round' \in Nat
  BY <1>1, <1>3 DEF ControlInv
<1>5. MemoryOf(ncol)' = MemoryOf(ncol) /\ ScratchPad(ncol)' = ScratchPad(ncol)
  BY <1>3 DEF MemoryOf, ScratchPad
<1>6. DOMAIN mem = MemoryOf(ncol) \cup ScratchPad(ncol)
  BY <1>1 DEF HardwareInv
<1>7. /\ mem' = [loc \in MemoryOf(ncol) \cup ScratchPad(ncol) |-> mem'[loc]]
      /\ \A loc \in MemoryOf(ncol) : mem'[loc] = Content(round', loc)
  BY <1>3, <1>6 DEF Filled
<1>8. HardwareInv'
  BY <1>1, <1>3, <1>5, <1>7 DEF HardwareInv
<1>9. RoutesInv' /\ bd' = [d \in DOMAIN bd' |-> bd'[d]] /\ Quiet'
  BY <1>1, <1>2, <1>3 DEF RoutesInv, DescriptorsInv, Quiet
<1>10. HeldBy("save", round', ncol, mem')
  BY <1>4, <1>7, FilledHolds
<1>11. QED
  BY <1>2, <1>3, <1>4, <1>8, <1>9, <1>10, StartedTransaction DEF Types

LEMMA SwitchKeepsInvariant ==
  ASSUME GenInv, NEW reset, Switch(reset)
  PROVE  GenInv'
<1>1. ControlInv /\ HardwareInv /\ RoutesInv /\ DescriptorsInv
  BY DEF GenInv
<1>2. phase = "save" /\ Finished /\ Type = "save"
  BY DEF Switch, Type
<1>3. /\ Quiet /\ tokens = 0 /\ Counting(tcts) = {}
      /\ \A p \in Transfers(ncol) : Arrived("save", round, p, size, mem)
  BY <1>2, FinishedMeansQuiet
<1>4. /\ phase' = "restore" /\ mem' = Clobbered /\ txn' = <<"restore", ncol>> /\ pc' = 1
      /\ ncol' = ncol /\ round' = round
  BY DEF Switch, Start
<1>5. ncol \in ColumnCounts /\ round' \in Nat
  BY <1>1, <1>4 DEF ControlInv
<1>6. MemoryOf(ncol)' = MemoryOf(ncol) /\ ScratchPad(ncol)' = ScratchPad(ncol)
  BY <1>4 DEF MemoryOf, ScratchPad
<1>7. DOMAIN mem = MemoryOf(ncol) \cup ScratchPad(ncol)
  BY <1>1 DEF HardwareInv
<1>8. /\ mem' = [loc \in MemoryOf(ncol) \cup ScratchPad(ncol) |-> mem'[loc]]
      /\ \A loc \in ScratchPad(ncol) : loc \notin MemoryOf(ncol) => mem'[loc] = mem[loc]
  BY <1>4, <1>7 DEF Clobbered
<1>9. HeldBy("restore", round, ncol, mem')
  <2>1. ASSUME NEW p \in Transfers(ncol), NEW i \in 0 .. size - 1
        PROVE  mem'[Place(FromTile("restore", p), p[2], i)] = Word(round, p, i)
    <3> DEFINE t == Shim(p[1])
    <3>1. FromTile("restore", p) = t /\ ToTile("save", p) = t
      BY DEF FromTile, ToTile
    <3>2. IsShim(t)
      BY DEF Shim, IsShim
    <3>3. Place(t, p[2], i) \in ScratchPad(ncol) /\ Place(t, p[2], i) \notin MemoryOf(ncol)
      BY <1>5, <3>2, PlaceInMemory
    <3>4. mem[Place(t, p[2], i)] = Word(round, p, i)
      BY <1>3, <3>1 DEF Arrived
    <3>5. QED
      BY <1>8, <3>1, <3>3, <3>4
  <2>2. QED
    BY <2>1 DEF HeldBy
<1>10. /\ queue' = [c \in Channels |-> queue'[c]] /\ task' = [c \in Channels |-> task'[c]]
       /\ fifo' = [c \in Channels |-> fifo'[c]]
       /\ tcts' \in [Tiles -> Seq({0, TCT_CTRL_ID})] /\ tokens' = 0
       /\ ctrl' \in [Channels -> {0, TCT_CTRL_ID}] /\ (\A c \in Channels : c[2] = "MM2S" => ctrl'[c] = 0)
       /\ RoutesInv' /\ bd' = [d \in DOMAIN bd' |-> bd'[d]] /\ Quiet' /\ Counting(tcts') = {}
  <2>1. CASE reset
    <3>1. /\ queue' = [c \in Channels |-> <<>>] /\ task' = [c \in Channels |-> NoTask]
          /\ fifo' = [c \in Channels |-> <<>>] /\ ctrl' = [c \in Channels |-> 0]
          /\ tcts' = [t \in Tiles |-> <<>>] /\ tokens' = 0 /\ route' = <<>> /\ bd' = <<>>
      BY <2>1 DEF Switch
    <3>2. /\ queue' = [c \in Channels |-> queue'[c]] /\ task' = [c \in Channels |-> task'[c]]
          /\ fifo' = [c \in Channels |-> fifo'[c]]
      BY <3>1
    <3>3. /\ tcts' \in [Tiles -> Seq({0, TCT_CTRL_ID})]
          /\ ctrl' \in [Channels -> {0, TCT_CTRL_ID}] /\ \A c \in Channels : ctrl'[c] = 0
      BY <3>1
    <3>4. RoutesInv' /\ bd' = [d \in DOMAIN bd' |-> bd'[d]]
      BY <3>1, EmptyFunction DEF RoutesInv
    <3>5. Quiet'
      BY <3>1 DEF Quiet, NoTask
    <3>6. \A t \in Tiles : DOMAIN tcts'[t] = {}
      BY <3>1, EmptyFunction
    <3>7. Counting(tcts') = {}
      BY <3>6 DEF Counting
    <3>8. QED
      BY <3>1, <3>2, <3>3, <3>4, <3>5, <3>7
  <2>2. CASE ~ reset
    <3>1. UNCHANGED <<route, bd, ctrl, queue, task, fifo, tcts, tokens>>
      BY <2>2 DEF Switch, switch, channels
    <3>2. QED
      BY <1>1, <1>3, <3>1 DEF HardwareInv, RoutesInv, DescriptorsInv, Quiet
  <2>3. QED
    BY <2>1, <2>2
<1>11. HardwareInv'
  BY <1>6, <1>8, <1>10 DEF HardwareInv
<1>12. QED
  BY <1>4, <1>5, <1>9, <1>10, <1>11, StartedTransaction DEF Types

LEMMA ResumeKeepsInvariant ==
  ASSUME GenInv, Resume
  PROVE  GenInv'
<1>1. /\ ControlInv /\ HardwareInv /\ RoutesInv /\ DescriptorsInv
  BY DEF GenInv
<1>2. phase = "restore" /\ Finished /\ Type = "restore" /\ phase' = "run" /\ Type' = "restore"
  BY DEF Resume, Type
<1>3. UNCHANGED <<txn, pc, route, bd, ctrl, queue, task, fifo, tcts, tokens, mem, ncol, round>>
  BY DEF Resume, machine, control, switch, channels
<1>4. /\ Quiet /\ tokens = 0 /\ Counting(tcts) = {}
      /\ \A p \in Transfers(ncol) : Arrived("restore", round, p, size, mem)
  BY <1>2, FinishedMeansQuiet
<1>5. MemoryOf(ncol)' = MemoryOf(ncol) /\ ScratchPad(ncol)' = ScratchPad(ncol)
  BY <1>3 DEF MemoryOf, ScratchPad
<1>6. ControlInv'
  BY <1>1, <1>2, <1>3, ControlFact DEF ControlInv
<1>7. HardwareInv' /\ RoutesInv' /\ DescriptorsInv'
  BY <1>1, <1>2, <1>3, <1>5 DEF HardwareInv, RoutesInv, DescriptorsInv
<1>8. ChannelsInv'
  BY <1>2, <1>3, <1>4 DEF ChannelsInv, Quiet, Resting
<1>9. MemoryInv'
  <2>1. \A p : FromTile("save", p) = ToTile("restore", p)
    BY DEF FromTile, ToTile
  <2>2. HeldBy("save", round, ncol, mem)
    BY <1>4, <2>1 DEF HeldBy, Arrived
  <2>3. QED
    BY <1>2, <1>3, <2>2 DEF MemoryInv
<1>10. TokensInv' /\ AllDone'
  BY <1>2, <1>3, <1>4 DEF TokensInv, AllDone, Finished, Ops
<1>11. QED
  BY <1>6, <1>7, <1>8, <1>9, <1>10 DEF GenInv

LEMMA NothingKeepsInvariant ==
  ASSUME GenInv, UNCHANGED vars
  PROVE  GenInv'
<1>1. UNCHANGED <<txn, pc, route, bd, ctrl, queue, task, fifo, tcts, tokens, mem, ncol, phase, round>>
  BY DEF vars, machine, control, switch, channels
<1>2. /\ MemoryOf(ncol)' = MemoryOf(ncol) /\ ScratchPad(ncol)' = ScratchPad(ncol) /\ Type' = Type
      /\ Finished' = Finished
  BY <1>1 DEF MemoryOf, ScratchPad, Type, Finished, Ops
<1>3. ControlInv' /\ HardwareInv' /\ RoutesInv' /\ DescriptorsInv'
  BY <1>1, <1>2 DEF GenInv, ControlInv, HardwareInv, RoutesInv, DescriptorsInv
<1>4. ChannelsInv' /\ MemoryInv' /\ TokensInv' /\ AllDone'
  BY <1>1, <1>2 DEF GenInv, ChannelsInv, MemoryInv, TokensInv, AllDone
<1>5. QED
  BY <1>3, <1>4 DEF GenInv

LEMMA NextKeepsInvariant == GenInv /\ [Next]_vars => GenInv'
<1> SUFFICES ASSUME GenInv, [Next]_vars PROVE GenInv'
  OBVIOUS
<1>1. CASE Preempt
  BY <1>1, PreemptKeepsInvariant
<1>2. CASE \E reset \in Resets[ncol] : Switch(reset)
  BY <1>2, SwitchKeepsInvariant
<1>3. CASE Resume
  BY <1>3, ResumeKeepsInvariant
<1>4. CASE Hardware
  <2>1. UNCHANGED <<ncol, phase, round>> /\ Step
    BY <1>4 DEF Hardware
  <2>2. CASE Execute
    BY <2>1, <2>2, ExecuteKeepsInvariant
  <2>3. CASE Poll
    BY <2>1, <2>3, NothingKeepsInvariant DEF Poll, vars
  <2>4. CASE \E c \in Channels : ChannelStep(c)
    BY <2>1, <2>4, StartTaskKeepsInvariant, SendKeepsInvariant, ReceiveKeepsInvariant DEF ChannelStep
  <2>5. CASE \E t \in Tiles : DeliverToken(t)
    BY <2>1, <2>5, DeliverKeepsInvariant
  <2>6. QED
    BY <2>1, <2>2, <2>3, <2>4, <2>5 DEF Step
<1>5. CASE Ended
  BY <1>5, NothingKeepsInvariant DEF Ended
<1>6. CASE UNCHANGED vars
  BY <1>6, NothingKeepsInvariant
<1>7. QED
  BY <1>1, <1>2, <1>3, <1>4, <1>5, <1>6 DEF Next, Host

(* GenInv holds in every state: of each transfer it says how far both ends *)
(* are, what the stream between them holds and which words have arrived,   *)
(* and of every token which transfer issued it.                            *)
THEOREM GenInvariant == Spec => []GenInv
<1>1. QED
  BY InitInvariant, NextKeepsInvariant, PTL DEF Spec
(* A context that resumes finds its memory as it left it: every word of    *)
(* every memory tile, whatever ran in between and whether or not the host  *)
(* reset the partition.                                                    *)
THEOREM MemoryIsRestored == Spec => []MemoryRestored
<1>1. GenInv => MemoryRestored
  <2> SUFFICES ASSUME GenInv, phase = "run", NEW loc \in MemoryOf(ncol)
               PROVE  mem[loc] = Content(round, loc)
    BY DEF MemoryRestored
  <2>1. HeldBy("save", round, ncol, mem) /\ ncol \in ColumnCounts /\ ncol \in Nat
    BY TransfersFact DEF GenInv, MemoryInv, ControlInv
  <2>2. size \in Nat /\ size >= 1 /\ MEMTILE_SIZE = 2 * size
    BY SizeFact
  <2>3. loc = <<"l2", loc[2], loc[3]>> /\ loc[2] \in 0 .. ncol - 1 /\ loc[3] \in 0 .. MEMTILE_SIZE - 1
    BY DEF MemoryOf
  <2> DEFINE w == loc[3]
             chan == IF w < size THEN 0 ELSE 1
             i == w - chan * size
             p == <<loc[2], chan>>
             t == MemTile(loc[2])
  <2>4. i \in 0 .. size - 1 /\ chan * size + i = w /\ chan \in {0, 1}
    BY <2>2, <2>3
  <2> HIDE DEF i
  <2>5. p \in Transfers(ncol) /\ p[1] = loc[2] /\ p[2] = chan
    BY <2>3, <2>4 DEF Transfers, CHANNELS
  <2> HIDE DEF p
  <2>6. FromTile("save", p) = t /\ ~ IsShim(t) /\ t[1] = loc[2]
    BY <2>5 DEF FromTile, IsShim, MemTile
  <2>7. mem[Place(t, chan, i)] = Word(round, p, i)
    BY <2>1, <2>4, <2>5, <2>6 DEF HeldBy
  <2>8. Place(t, chan, i) = <<"l2", loc[2], w>>
    BY <2>4, <2>6 DEF Place, chan_addr_offset
  <2>9. Word(round, p, i) = <<round, loc[2], w>>
    BY <2>4, <2>5 DEF Word, chan_addr_offset
  <2>10. QED
    BY <2>3, <2>7, <2>8, <2>9 DEF Content
<1>2. QED
  BY <1>1, GenInvariant, PTL

(* The merge sync is passed only when every channel has moved all its      *)
(* words: it consumes exactly one token of every transfer of this          *)
(* transaction, and leaves none for the next.                              *)
THEOREM SyncIsAfterData == Spec => []SyncAfterData
<1>1. GenInv => SyncAfterData
  BY FinishedMeansQuiet DEF SyncAfterData
<1>2. QED
  BY <1>1, GenInvariant, PTL

(* What waits in a queue, and with which descriptor.                       *)
LEMMA WaitingTask ==
  ASSUME NEW type, NEW c, NEW given, NEW q, NEW t, NEW k,
         Progress(type, c, given, q, t, k), q # <<>>
  PROVE  given /\ \A j \in DOMAIN q : <<c[1], q[j].bd>> = BdOf(c[1], c[3])
<1> DEFINE x == [bd |-> BdOf(c[1], c[3])[2], token |-> TokenOf(type, c)]
<1>1. given /\ q = <<x>>
  BY DEF Progress, Resting, Running, Waiting
<1>2. x.bd = BdOf(c[1], c[3])[2]
  <2> DEFINE b == TokenOf(type, c)
  <2> HIDE DEF b
  <2>1. QED
    OBVIOUS
<1> HIDE DEF x
<1>3. DOMAIN q = {1} /\ q[1] = x
  BY <1>1
<1>4. QED
  BY <1>1, <1>2, <1>3 DEF BdOf

(* No operation writes a descriptor that a queued task still needs.        *)
LEMMA WritesElsewhere ==
  ASSUME GenInv, NEW p \in Transfers(ncol), NEW k \in 0 .. OpsPer(Type) - 1,
         pc = Nth(Type, p, k), Effect(Type, p, k), ~ Finished,
         NEW c \in Channels, NEW j \in DOMAIN queue[c], queue[c] # <<>>
  PROVE  bd'[<<c[1], queue[c][j].bd>>] = bd[<<c[1], queue[c][j].bd>>]
<1>1. ControlInv /\ ChannelsInv
  BY DEF GenInv
<1>2. ~ Resting(queue[c], task[c])
  BY DEF Resting
<1>3. PICK q \in Transfers(ncol) : c = Src(Type, q) \/ c = Snk(Type, q)
  BY <1>2, ActiveChannel
<1> DEFINE f == FromTile(Type, q)
           t == ToTile(Type, q)
           d == BdOf(c[1], c[3])
<1>4. /\ Type \in Types /\ ncol \in ColumnCounts /\ pc \in Nat
      /\ Past(Type, q, 4, pc) => HasBd(bd, f, q[2], Patched(f, q[2]))
      /\ Past(Type, q, 2, pc) => HasBd(bd, t, q[2], Patched(t, q[2]))
      /\ Moving(Type, round, q, pc, queue, task, fifo, mem)
  BY EndsKnown
<1>5. /\ Src(Type, q) = <<f, "MM2S", q[2]>> /\ Snk(Type, q) = <<t, "S2MM", q[2]>>
  BY <1>4, EndsFact
<1>6. PICK a, b \in 0 .. size : Transfer(Type, round, q, pc, queue, task, fifo, mem, a, b)
  BY <1>4 DEF Moving
<1>7. /\ Past(Type, q, 4, pc) /\ d \in DOMAIN bd
      /\ d = BdOf(f, q[2]) \/ d = BdOf(t, q[2])
      /\ <<c[1], queue[c][j].bd>> = d
  <2>1. CASE c = Src(Type, q)
    <3>1. Progress(Type, c, Past(Type, q, 4, pc), queue[c], task[c], a)
      BY <1>6, <2>1 DEF Transfer
    <3>2. Past(Type, q, 4, pc) /\ <<c[1], queue[c][j].bd>> = d
      BY <3>1, WaitingTask
    <3>3. d = BdOf(f, q[2])
      BY <1>5, <2>1
    <3>4. QED
      BY <1>4, <3>2, <3>3 DEF HasBd
  <2>2. CASE c = Snk(Type, q)
    <3>1. Progress(Type, c, Past(Type, q, 2, pc), queue[c], task[c], b)
      BY <1>6, <2>2 DEF Transfer
    <3>2. Past(Type, q, 2, pc) /\ <<c[1], queue[c][j].bd>> = d
      BY <3>1, WaitingTask
    <3>3. d = BdOf(t, q[2])
      BY <1>5, <2>2
    <3>4. Past(Type, q, 4, pc)
      BY <1>4, <3>2, PastOrder
    <3>5. QED
      BY <1>4, <3>2, <3>3, <3>4 DEF HasBd
  <2>3. QED
    BY <1>3, <2>1, <2>2
<1> HIDE DEF d, f, t
<1>8. CASE k \notin 5 .. 7
  BY <1>7, <1>8 DEF Effect
<1>9. CASE k \in 5 .. 7
  <2>1. q # p
    <3>1. SUFFICES ASSUME q = p PROVE FALSE
      OBVIOUS
    <3>2. Past(Type, p, k, pc)
      BY <1>4, <1>7, <1>9, <3>1, PastOrder
    <3>3. Nth(Type, p, k) \in Int
      BY <1>4, <1>9, NthNumber
    <3>4. QED
      BY <3>2, <3>3 DEF Past
  <2>2. d # BdOf(FromTile(Type, p), p[2]) /\ d # BdOf(ToTile(Type, p), p[2])
    BY <1>4, <1>7, <2>1, BdsApart DEF f, t
  <2>3. Shim(p[1]) \in {FromTile(Type, p), ToTile(Type, p)}
    BY <1>4 DEF FromTile, ToTile, Types
  <2>4. \E e, x : bd' = With(bd, e, x) /\ e # d
    <3>1. CASE k = 7
      BY <2>2, <3>1 DEF Effect
    <3>2. CASE k = 6
      BY <2>2, <3>2 DEF Effect
    <3>3. CASE k = 5
      BY <2>2, <2>3, <3>3 DEF Effect
    <3>4. QED
      BY <1>9, <3>1, <3>2, <3>3
  <2>5. PICK e : \E x : bd' = With(bd, e, x) /\ e # d
    BY <2>4
  <2>6. PICK x : bd' = With(bd, e, x) /\ e # d
    BY <2>5
  <2>7. bd'[d] = bd[d]
    BY <1>7, <2>6 DEF With
  <2>8. QED
    BY <1>7, <2>7
<1>10. QED
  BY <1>8, <1>9

(* The save and the restore use the same descriptors, and a context saved  *)
(* twice uses them again: none is written or patched while a channel has   *)
(* yet to start a task with it.                                            *)
THEOREM DescriptorsAreStable == Spec => DescriptorsStable
<1>1. ASSUME GenInv, [Next]_vars, pc' = pc + 1, This.op \in {"bd", "patch"},
             NEW c \in Channels, NEW j \in DOMAIN queue[c]
      PROVE  bd'[<<c[1], queue[c][j].bd>>] = bd[<<c[1], queue[c][j].bd>>]
  <2>1. ControlInv /\ pc \in Nat /\ pc >= 1
    BY <1>1, ControlFact DEF GenInv
  <2>2. CASE bd' = bd
    BY <2>2
  <2>3. CASE pc' = 1
    BY <1>1, <2>1, <2>3
  <2>4. CASE Execute
    <3>1. CASE Synced
      BY <2>2, <3>1 DEF Synced
    <3>2. CASE \E p \in Transfers(ncol) : \E k \in 0 .. OpsPer(Type) - 1 : pc = Nth(Type, p, k) /\ Effect(Type, p, k)
      <4>1. ~ Finished
        BY <2>1, <2>4, ExecuteIs, ControlFact, NthFact DEF Synced
      <4>2. queue[c] # <<>>
        BY <1>1, EmptyFunction
      <4>3. QED
        BY <1>1, <3>2, <4>1, <4>2, WritesElsewhere
    <3>3. QED
      BY <2>1, <2>4, <3>1, <3>2, ExecuteIs
  <2>5. QED
    <3>1. Next => Execute \/ bd' = bd \/ pc' = 1
      BY DEF Next, Host, Preempt, Switch, Resume, Hardware, Ended, Step, Poll, ChannelStep, StartTask,
             Send, Receive, Moved, DeliverToken, Start, vars, machine
    <3>2. UNCHANGED vars => bd' = bd
      BY DEF vars, machine
    <3>3. QED
      BY <1>1, <2>2, <2>3, <2>4, <3>1, <3>2
<1>2. GenInv /\ [Next]_vars =>
        [pc' = pc + 1 /\ This.op \in {"bd", "patch"} =>
           \A c \in Channels : \A k \in DOMAIN queue[c] :
             LET d == <<c[1], queue[c][k].bd>> IN bd'[d] = bd[d]]_vars
  BY <1>1
<1>3. QED
  BY <1>2, GenInvariant, PTL DEF Spec, DescriptorsStable
=============================================================================
