-------------------------------- MODULE Aie2Asm --------------------------------
(***************************************************************************)
(* AIE2 transactions as text and as binary.                                *)
(* aie2_asm_preprocessor_input::encode assembles a source into a           *)
(* transaction; analyzer/transaction.cpp walks a transaction to count its  *)
(* operations and prints it in the assembler's syntax.  The module chains  *)
(* them: a source is assembled, or a transaction is given; it is counted   *)
(* and printed; what was printed is assembled again.                       *)
(*                                                                         *)
(* A line is [name, args]; an operand is <<form, value>>.  A transaction   *)
(* is a header and a sequence of operations, each with its length and the  *)
(* value of its Size field.  Only the lengths of the structures of aie-rt  *)
(* matter; they are constants.                                             *)
(***************************************************************************)
EXTENDS Integers, Sequences, FiniteSets

CONSTANTS
  Lines,          (* the lines a source may have                           *)
  MaxLines,       (* bound: lines of a source                              *)
  Transactions,   (* transactions that come from elsewhere                 *)
  HeaderSize,     (* sizeof(XAie_TxnHeader)                                *)
  BaseSize,       (* [version, operation] -> size of its structures        *)
  Capacity        (* how many values each number of bytes can hold         *)

VARIABLES
  stage,      (* "parse", "assemble", "count", "print", "done", "rejected",*)
              (* "unknown", "lost", "undefined"                            *)
  pass,       (* 1, and 2 for what was printed                             *)
  source,     (* the lines parsed, in order                                *)
  col,        (* m_current_col of the parser, -1 before the first line     *)
  label,      (* labels met by the parser: m_current_label                 *)
  cols,       (* m_col: column -> the lines of each of its labels          *)
  pos,        (* lines assembled                                           *)
  ops,        (* isa_op_list                                               *)
  txn,        (* the transaction                                           *)
  given,      (* the transaction that was printed                          *)
  ptr, num,   (* where the walk is, operations walked                      *)
  counts,     (* op_count                                                  *)
  text        (* the lines printed                                         *)

parser == <<source, col, label, cols>>
encoder == <<pos, ops>>
analyzer == <<ptr, num, counts, text>>
vars == <<stage, pass, parser, encoder, txn, given, analyzer>>

-------------------------------------------------------------------------------
(* Operations.                                                             *)
Operands ==
  [ write |-> <<"reg", "num">>, blockwrite |-> <<"reg", "count">>,
    maskwrite |-> <<"reg", "mask", "num">>,
    maskpoll |-> <<"reg", "poll">>, maskpoll_busy |-> <<"reg", "poll">>,
    noop |-> <<>>, preempt |-> <<"level">>, loadpdi |-> <<"id", "num", "num">>,
    load_pm_start |-> <<"num", "id">>, tct |-> <<"row", "column", "direction", "num">>,
    merge_sync |-> <<"tokens">>, ddr_patch |-> <<"reg", "id", "plus">>,
    record_timer |-> <<"id">> ]

Mnemonics == DOMAIN Operands
CustomOps == {"tct", "ddr_patch", "read_regs", "record_timer", "merge_sync"}
Analyzed == Mnemonics \cup {"read_regs"}

(* operand_count_check: a patch needs one operand and reads three.         *)
Required(name) == IF name = "ddr_patch" THEN 1 ELSE Len(Operands[name])

(* The bytes of the type each operand is read into, and of the field it is *)
(* put in: the channel of a tct, the sequence count of a load_pm_start and *)
(* a timer's id are put in less than they are read into.  The two numbers  *)
(* of a poll are one value here, as are start and number of a row.         *)
ReadBytes ==
  [ write |-> <<8, 4>>, blockwrite |-> <<8, 4>>, maskwrite |-> <<8, 4, 4>>,
    maskpoll |-> <<8, 4>>, maskpoll_busy |-> <<8, 4>>,
    noop |-> <<>>, preempt |-> <<1>>, loadpdi |-> <<2, 2, 8>>, load_pm_start |-> <<4, 4>>,
    tct |-> <<1, 1, 1, 4>>, merge_sync |-> <<1>>, ddr_patch |-> <<8, 8, 8>>,
    record_timer |-> <<8>> ]
StoredBytes ==
  [ReadBytes EXCEPT !.tct = <<1, 1, 1, 1>>, !.load_pm_start = <<3, 4>>, !.record_timer = <<4>>]
WordBytes == 4

(* The first character of a reg, id or plus is dropped unseen, be it a     *)
(* bracket or the first digit of a decimal number; what is left must start *)
(* with a digit.  A number is read as far as it goes; the others match a   *)
(* regular expression or are looked up in a table.                         *)
Prefixed == {"reg", "id", "plus"}
Numeric == {"num", "dec", "mask", "poll", "plus", "joined"}
Accepts(form, operand) ==
  CASE form \in Prefixed -> \/ operand[1] \in Prefixed \cup {"count"}
                            \/ operand[1] = "dec" /\ operand[2] >= 10
    [] form = "num" -> operand[1] \in Numeric
    [] OTHER -> operand[1] = form
ValueRead(form, operand) ==
  IF form \in Prefixed /\ operand[1] = "dec" THEN operand[2] % 10 ELSE operand[2]

(* to_uinteger rejects what its type cannot hold.                          *)
Fits(form, bytes, operand) ==
  Accepts(form, operand) /\ ValueRead(form, operand) < Capacity[bytes]

(* What the structure holds of each operand.                               *)
Cut(value, bytes) == IF value < Capacity[bytes] THEN value ELSE value % Capacity[bytes]
Fields(line) ==
  [k \in DOMAIN Operands[line.name] |->
     Cut(ValueRead(Operands[line.name][k], line.args[k]), StoredBytes[line.name][k])]

(* The structure an operation class builds: Size is that of the storage.   *)
Operation(line) ==
  LET fields == Fields(line)
      extra == IF line.name = "blockwrite" THEN fields[2] ELSE 0
      bytes == BaseSize[<<"0.1", line.name>>] + extra
  IN [op |-> line.name, fields |-> fields, bytes |-> bytes, size |-> bytes,
      words |-> [k \in 1 .. extra |-> 0], outstanding |-> extra]

(* Lines as the parser hands them on.  A "num" is a number with 0x; "dec"  *)
(* one of at most two decimal digits; "joined" are two numbers with no     *)
(* comma between them, of which the first can be read.                     *)
Forms == {"reg", "num", "count", "mask", "poll", "level", "id", "row", "column", "direction",
          "tokens", "plus", "joined"}
Written == (Forms \X Nat) \cup ({"dec"} \X (0 .. 99))
LineOK(line) ==
  IF line.name = "attach_to_group" THEN line.col \in Nat
  ELSE /\ line.args \in Seq(Written)
       /\ line.name = "blockwrite_word" => line.index \in Nat /\ Len(line.args) = 1

ASSUME LinesAssumption == \A line \in Lines : LineOK(line)

ASSUME SizesAssumption ==
  /\ HeaderSize \in Nat
  /\ \A n \in 1 .. 8 : Capacity[n] \in Nat \ {0}
  /\ \A m, n \in 1 .. 8 : m <= n => Capacity[m] <= Capacity[n]
  /\ \A version \in {"0.1", "opt"}, op \in Analyzed : BaseSize[<<version, op>>] \in Nat \ {0}

-------------------------------------------------------------------------------
(* asm_parser, as far as it decides which lines are assembled (AsmParser   *)
(* has all of it): operations go to the current column and label.          *)
NextLine ==
  IF pass = 2 THEN {text[k] : k \in {Len(source) + 1} \cap DOMAIN text}
  ELSE IF Len(source) < MaxLines THEN Lines ELSE {}

Put(f, x, value) == [y \in {x} \cup DOMAIN f |-> IF y = x THEN value ELSE f[y]]
LabelsOf(c) == IF c \in DOMAIN cols THEN cols[c] ELSE <<>>
Column == IF col = -1 THEN 0 ELSE col
Inserted(line) ==
  LET old == LabelsOf(Column)
      lines == IF label \in DOMAIN old THEN old[label] ELSE <<>>
  IN Put(cols, Column, Put(old, label, Append(lines, line)))

Read(line) ==
  /\ stage = "parse" /\ line \in NextLine
  /\ source' = Append(source, line)

ParseOperation(line) ==
  /\ line.name \notin {"attach_to_group", "label"}
  /\ Read(line)
  /\ cols' = Inserted(line) /\ col' = Column
  /\ UNCHANGED <<stage, pass, label, encoder, txn, given, analyzer>>

Eof == [name |-> "eof", args |-> <<>>]

(* Mutation: no eof when a column is left.                                 *)
AttachWithoutEof(line) ==
  /\ line.name = "attach_to_group"
  /\ Read(line)
  /\ cols' = Put(cols, line.col, <<>>) /\ col' = line.col
  /\ UNCHANGED <<stage, pass, label, encoder, txn, given, analyzer>>

(* An eof ends the old column; the new one begins empty.                   *)
AttachToGroup(line) ==
  /\ line.name = "attach_to_group"
  /\ Read(line)
  /\ cols' = Put(Inserted(Eof), line.col, <<>>) /\ col' = line.col
  /\ UNCHANGED <<stage, pass, label, encoder, txn, given, analyzer>>

ParseLabel(line) ==
  /\ line.name = "label"
  /\ Read(line)
  /\ label' = label + 1
  /\ UNCHANGED <<stage, pass, col, cols, encoder, txn, given, analyzer>>

(* encode, before its loop: the lines of the last column, which is the     *)
(* number of columns less one, with one label.                             *)
Last == Cardinality(DOMAIN cols) - 1

EndOfSource ==
  /\ stage = "parse" /\ (pass = 2 => NextLine = {})
  /\ stage' = IF Last \in DOMAIN cols /\ Cardinality(DOMAIN cols[Last]) = 1
              THEN "assemble" ELSE "rejected"
  /\ UNCHANGED <<pass, parser, encoder, txn, given, analyzer>>

Asm == LET labels == cols[Last] IN labels[CHOOSE l \in DOMAIN labels : TRUE]

-------------------------------------------------------------------------------
(* encode.                                                                 *)
Outstanding == IF ops = <<>> THEN 0 ELSE ops[Len(ops)].outstanding

Assembling == stage = "assemble" /\ pos < Len(Asm)
Line == Asm[pos + 1]

RejectLine ==
  /\ stage' = "rejected"
  /\ UNCHANGED <<pass, parser, encoder, txn, given, analyzer>>

(* Mutation: words counted from the end.                                   *)
ExtensionFromEnd(op) == op.outstanding - 1

ExtensionIndex(op) == Len(op.words) - op.outstanding

Extends(line, op) ==
  /\ line.name = "blockwrite_word" /\ line.index = ExtensionIndex(op)
  /\ Fits("num", WordBytes, line.args[1])

(* process_outstanding_ext_op: the next word of a block write.             *)
ExtendOperation ==
  /\ Assembling /\ Outstanding > 0
  /\ LET op == ops[Len(ops)] IN
     /\ Extends(Line, op)
     /\ ops' = [ops EXCEPT ![Len(ops)] =
                  [op EXCEPT !.words[ExtensionIndex(op) + 1] = Line.args[1][2],
                             !.outstanding = @ - 1]]
  /\ pos' = pos + 1
  /\ UNCHANGED <<stage, pass, parser, txn, given, analyzer>>

RejectExtension ==
  /\ Assembling /\ Outstanding > 0
  /\ ~ Extends(Line, ops[Len(ops)])
  /\ RejectLine

Assembles(line) ==
  /\ line.name \in Mnemonics
  /\ Len(line.args) >= Len(Operands[line.name])
  /\ \A k \in DOMAIN Operands[line.name] :
       Fits(Operands[line.name][k], ReadBytes[line.name][k], line.args[k])

AssembleOperation ==
  /\ Assembling /\ Outstanding = 0
  /\ Assembles(Line)
  /\ ops' = Append(ops, Operation(Line))
  /\ pos' = pos + 1
  /\ UNCHANGED <<stage, pass, parser, txn, given, analyzer>>

(* Operands that are there for the check and missing for the use.          *)
ReadsBeyondOperands(line) ==
  /\ line.name \in Mnemonics
  /\ Len(line.args) >= Required(line.name) /\ Len(line.args) < Len(Operands[line.name])

RejectOperation ==
  /\ Assembling /\ Outstanding = 0
  /\ ~ Assembles(Line) /\ ~ ReadsBeyondOperands(Line)
  /\ RejectLine

ReadBeyondOperands ==
  /\ Assembling /\ Outstanding = 0
  /\ ReadsBeyondOperands(Line)
  /\ stage' = "undefined"
  /\ UNCHANGED <<pass, parser, encoder, txn, given, analyzer>>

(* Where each operation of a list ends.                                    *)
Total(list) ==
  LET upto[k \in 0 .. Len(list)] == IF k = 0 THEN HeaderSize ELSE upto[k - 1] + list[k].bytes
  IN upto

(* A transaction from elsewhere: its operations have the lengths of their  *)
(* structures, with the words of a block write; only some of them have a   *)
(* Size field; count and size of the header are theirs.                    *)
Sized(version, name) == version = "0.1" \/ name \in {"blockwrite"} \cup CustomOps

LaidOut(version, op) ==
  /\ op.bytes \in Nat \ {0}
  /\ Sized(version, op.op) => op.size = op.bytes
  /\ op.words \in Seq(Nat) /\ \A k \in DOMAIN op.words : op.words[k] < Capacity[WordBytes]
  /\ op.op \in Analyzed => op.bytes = BaseSize[<<version, op.op>>] + Len(op.words)
  /\ op.op \in Mnemonics =>
       /\ op.fields \in Seq(Nat) /\ Len(op.fields) = Len(Operands[op.op])
       /\ \A k \in DOMAIN op.fields : op.fields[k] < Capacity[StoredBytes[op.op][k]]
  /\ Len(op.words) = IF op.op = "blockwrite" THEN op.fields[2] ELSE 0

WellFormed(t) ==
  /\ t.version \in {"0.1", "opt"} /\ t.cols \in Nat
  /\ DOMAIN t.ops = 1 .. Len(t.ops)
  /\ \A k \in DOMAIN t.ops : LaidOut(t.version, t.ops[k])
  /\ t.count \in Nat /\ t.count = Len(t.ops) /\ t.size = Total(t.ops)[Len(t.ops)]

ASSUME TransactionsAssumption == \A t \in Transactions : WellFormed(t)

Body(list) ==
  [k \in DOMAIN list |-> [op |-> list[k].op, fields |-> list[k].fields, bytes |-> list[k].bytes,
                          size |-> list[k].size, words |-> list[k].words]]

(* Serialized behind a header that is written again with size and count.   *)
Encode ==
  /\ stage = "assemble" /\ pos = Len(Asm)
  /\ txn' = [version |-> "0.1", cols |-> Cardinality(DOMAIN cols),
             size |-> Total(ops)[Len(ops)], ops |-> Body(ops), count |-> Len(ops)]
  /\ stage' = IF pass = 1 THEN "count" ELSE "done"
  /\ ptr' = HeaderSize
  /\ UNCHANGED <<pass, parser, encoder, given, num, counts, text>>

-------------------------------------------------------------------------------
(* The analyzer reads the operation its walk points to; it has none where  *)
(* the walk has gone astray.                                               *)
Offset(k) == Total(txn.ops)[k - 1]
AtPtr == {k \in DOMAIN txn.ops : Offset(k) = ptr}
Current == txn.ops[CHOOSE k \in AtPtr : TRUE]

(* Mutation: the optimized operations taken for those with a Size field.   *)
StepByField(op) ==
  IF op.op \in {"blockwrite", "write", "maskwrite", "maskpoll", "maskpoll_busy"} \cup CustomOps
  THEN op.size ELSE BaseSize[<<txn.version, op.op>>]

(* The step over an operation: its Size field, or the structure's size.    *)
StepOf(op) ==
  IF \/ op.op = "blockwrite" \/ op.op \in CustomOps
     \/ txn.version = "0.1" /\ op.op \in {"write", "maskwrite", "maskpoll", "maskpoll_busy"}
  THEN op.size ELSE BaseSize[<<txn.version, op.op>>]

Walking(mode) == stage = mode /\ num < txn.count

StepOver(op) == ptr' = ptr + StepOf(op) /\ num' = num + 1

(* The operation is counted before the switch rejects it.                  *)
CountOperation ==
  /\ Walking("count") /\ AtPtr # {}
  /\ Current.op \in Analyzed
  /\ counts' = [counts EXCEPT ![Current.op] = @ + 1]
  /\ StepOver(Current)
  /\ UNCHANGED <<stage, pass, parser, encoder, txn, given, text>>

RejectUnknown ==
  /\ stage \in {"count", "print"} /\ num < txn.count /\ AtPtr # {}
  /\ Current.op \notin Analyzed
  /\ stage' = "unknown"
  /\ UNCHANGED <<pass, parser, encoder, txn, given, analyzer>>

(* Mutation: a busy poll is printed as a poll.                             *)
PrintedAsPoll(op) ==
  CASE op.op = "read_regs" -> <<[name |-> "label", args |-> <<>>]>>
    [] op.op = "loadpdi" ->
         <<[name |-> "loadpdi", args |-> <<<<"id", op.fields[1]>>, <<"joined", op.fields[2]>>>>]>>
    [] OTHER ->
         <<[name |-> IF op.op = "maskpoll_busy" THEN "maskpoll" ELSE op.op,
            args |-> [k \in DOMAIN op.fields |-> <<Operands[op.op][k], op.fields[k]>>]]>>
         \o [k \in DOMAIN op.words |->
               [name |-> "blockwrite_word", index |-> k - 1, args |-> <<<<"num", op.words[k]>>>>]]

(* stringify: the operands in their forms; an id and a size of a PDI with  *)
(* nothing between size and address; a read as a word with a colon, which  *)
(* the parser takes for a label.                                           *)
Printed(op) ==
  CASE op.op = "read_regs" -> <<[name |-> "label", args |-> <<>>]>>
    [] op.op = "loadpdi" ->
         <<[name |-> "loadpdi", args |-> <<<<"id", op.fields[1]>>, <<"joined", op.fields[2]>>>>]>>
    [] OTHER ->
         <<[name |-> op.op, args |-> [k \in DOMAIN op.fields |-> <<Operands[op.op][k], op.fields[k]>>]]>>
         \o [k \in DOMAIN op.words |->
               [name |-> "blockwrite_word", index |-> k - 1, args |-> <<<<"num", op.words[k]>>>>]]

PrintOperation ==
  /\ Walking("print") /\ AtPtr # {}
  /\ Current.op \in Analyzed
  /\ text' = text \o Printed(Current)
  /\ StepOver(Current)
  /\ UNCHANGED <<stage, pass, parser, encoder, txn, given, counts>>

AttachLines(n) == [k \in 1 .. n |-> [name |-> "attach_to_group", col |-> k - 1, args |-> <<>>]]

StartPrint ==
  /\ stage = "count" /\ num = txn.count
  /\ stage' = "print"
  /\ text' = AttachLines(txn.cols)
  /\ ptr' = HeaderSize /\ num' = 0
  /\ UNCHANGED <<pass, parser, encoder, txn, given, counts>>

(* What was printed goes to the assembler.                                 *)
Reassemble ==
  /\ stage = "print" /\ num = txn.count
  /\ stage' = "parse" /\ pass' = 2 /\ given' = txn
  /\ source' = <<>> /\ col' = -1 /\ label' = 0 /\ cols' = <<>>
  /\ pos' = 0 /\ ops' = <<>>
  /\ UNCHANGED <<txn, analyzer>>

Ended == stage \in {"done", "rejected", "unknown", "undefined"} /\ UNCHANGED vars

NoTransaction == [version |-> "0.1", cols |-> 0, size |-> 0, ops |-> <<>>, count |-> 0]

Init ==
  /\ \/ stage = "parse" /\ txn = NoTransaction
     \/ stage = "count" /\ txn \in Transactions
  /\ pass = 1
  /\ source = <<>> /\ col = -1 /\ label = 0 /\ cols = <<>>
  /\ pos = 0 /\ ops = <<>>
  /\ given = NoTransaction
  /\ ptr = HeaderSize /\ num = 0 /\ counts = [op \in Analyzed |-> 0] /\ text = <<>>

Next ==
  \/ \E line \in NextLine : ParseOperation(line) \/ AttachToGroup(line) \/ ParseLabel(line)
  \/ EndOfSource
  \/ ExtendOperation \/ RejectExtension
  \/ AssembleOperation \/ RejectOperation \/ ReadBeyondOperands
  \/ Encode
  \/ CountOperation \/ StartPrint \/ PrintOperation \/ RejectUnknown
  \/ Reassemble \/ Ended

Spec == Init /\ [][Next]_vars

-------------------------------------------------------------------------------
(* Properties.                                                             *)

(* What an operation of a transaction says: its name and fields, then its  *)
(* words one by one.                                                       *)
Says(op) ==
  <<<<op.op, op.fields>>>> \o [k \in DOMAIN op.words |-> <<"word", k - 1, op.words[k]>>]

AllSaid(list) ==
  LET upto[k \in 0 .. Len(list)] ==
        IF k = 0 THEN <<>> ELSE upto[k - 1] \o Says(list[k])
  IN upto[Len(list)]

(* A number the source gives without the character that is dropped, or one *)
(* beyond the field it is put in, is not what arrives there.               *)
Intact(line, k) ==
  /\ Operands[line.name][k] \in Prefixed => line.args[k][1] # "dec"
  /\ line.args[k][2] < Capacity[StoredBytes[line.name][k]]

(* Whether the buffer says there what the line says.                       *)
SaysSo(said, line) ==
  IF line.name = "blockwrite_word" THEN said = <<"word", line.index, line.args[1][2]>>
  ELSE /\ said[1] = line.name /\ Len(said[2]) = Len(Operands[line.name])
       /\ \A k \in DOMAIN said[2] : Intact(line, k) => said[2][k] = line.args[k][2]

(* What encode writes is what the source says, line by line in its order:  *)
(* every name, word and operand, but for the operands that are not intact; *)
(* only the words missing behind a last block write are there as zeros.    *)
(* The header's count is that of the operations.                           *)
EncodedAsWritten ==
  stage = "count" /\ source # <<>> =>
    LET said == AllSaid(txn.ops) IN
    /\ Len(Asm) <= Len(said)
    /\ \A k \in DOMAIN Asm : SaysSo(said[k], Asm[k])
    /\ \A k \in Len(Asm) + 1 .. Len(said) : said[k][1] = "word" /\ said[k][3] = 0
    /\ txn.count = Cardinality({k \in DOMAIN said : said[k][1] # "word"})

(* Only the last column by number is assembled, and every column that is   *)
(* left ends in an eof, which is no operation: a source that was in        *)
(* another column at its end is rejected, not encoded without its end.     *)
LastColumnEncoded == stage = "count" /\ source # <<>> => col = Last

(* Counting and printing step over every operation of a transaction and    *)
(* end behind the last one, in both versions; they never read an operation *)
(* where there is none.                                                    *)
WalkEndsAtSize ==
  /\ stage \in {"count", "print"} =>
       IF num = txn.count THEN ptr = txn.size ELSE AtPtr # {}
  /\ stage = "print" =>
       \A op \in Analyzed : counts[op] = Cardinality({k \in DOMAIN txn.ops : txn.ops[k].op = op})

(* What can be printed so that the assembler reads it again.               *)
Readable(t) == t.count > 0 /\ \A k \in DOMAIN t.ops : t.ops[k].op \notin {"loadpdi", "read_regs"}

Essence(t) == [k \in DOMAIN t.ops |-> Says(t.ops[k])]

(* A transaction that was printed assembles to the same operations for as  *)
(* many columns (one for none), now in version 0.1; nothing it prints is   *)
(* rejected.                                                               *)
Reassembles ==
  pass = 2 /\ Readable(given) =>
    /\ stage \in {"parse", "assemble", "done"}
    /\ stage = "done" =>
         /\ Essence(txn) = Essence(given)
         /\ txn.cols = (IF given.cols = 0 THEN 1 ELSE given.cols)

===============================================================================
