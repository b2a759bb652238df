--------------------------- MODULE MCColumnPager ---------------------------
(***************************************************************************)
(* A column with three label groups: main with the jobs 1, 2, 3, restore   *)
(* with job 4 or with nothing but its eof, and save with job 5.            *)
(***************************************************************************)
EXTENDS ColumnPager, FiniteSetsExt, TLC

Total(size) == [S \in SUBSET DOMAIN size |-> MapThenSumSet(LAMBDA x : size[x], S)]

Program(ids, size, lbs, refs, ooo_) ==
  [ids |-> ids, text |-> Total(size), lbs |-> lbs,
   launch |-> [j \in Job |-> {}], refs |-> refs,
   lrefs |-> [l \in Label |-> {}], entries |-> [l \in Label |-> {}],
   data |-> Total([l \in Label |-> 16]), kind |-> [l \in Label |-> "data"], ooo |-> ooo_]

None == [j \in Job |-> {}]
Small == [j \in Job |-> 12]

Sizes == {Small, [j \in Job |-> 44], [j \in Job |-> IF j = 2 THEN 44 ELSE 12]}

MainIds == {<<1, 2, 3, Eof>>, <<1, Eop, 2, 3, Eof>>, <<1, 2, 3, Eop, Eof>>}

(* Which groups the jobs of main branch to; "lost" is in another column.   *)
Branches ==
  {[j \in Job |-> CASE j = 1 -> a [] j = 2 -> b [] j = 3 -> c [] OTHER -> {}] :
     a \in {{}, {"save"}, {"save", "restore"}}, b \in {{}, {"save"}, {"lost"}},
     c \in {{}, {"restore"}}}

Refs ==
  {[j \in Job |-> CASE j = 1 -> a [] j = 2 -> b [] OTHER -> {}] :
     a \in {{}, {1}}, b \in {{}, {1}, {2}}}

(* Jobs 1 and 2 share a barrier where they name the same label.            *)
Lbs(refs) == [j \in Job |-> IF j \in {1, 2} /\ refs[1] = refs[2] THEN Barrier ELSE {}]

BranchingPrograms ==
  {Program(ids, size, Lbs(refs), refs, branches) :
     ids \in MainIds, size \in Sizes, refs \in Refs, branches \in Branches}

Save == Program(<<5, Eof>>, Small, None, None, None)
Restore == Program(<<4, Eof>>, Small, None, None, None)
Nothing == Program(<<Eof>>, Small, None, None, None)

ThreeGroups(main, restore, pads) ==
  [labels |-> <<"main", "restore", "save">>, progs |-> <<main, restore, Save>>, pads |-> pads]

(* The group without pages stands last: nothing is behind its page index.  *)
EmptyLast(main) ==
  [labels |-> <<"main", "save", "restore">>, progs |-> <<main, Save, Nothing>>, pads |-> <<>>]

(* Two independent jobs name one label: the encoder may reject the page.   *)
SharedLabel ==
  {ThreeGroups(Program(ids, size, None, [j \in Job |-> IF j < 3 THEN {1} ELSE {}], None),
               Restore, <<>>) : ids \in MainIds, size \in Sizes}

GroupColumns ==
  SharedLabel \cup
  {ThreeGroups(main, restore, <<4, 6, 8>>) : main \in BranchingPrograms, restore \in {Restore, Nothing}}
  \cup
  {EmptyLast(Program(<<1, 2, 3, Eof>>, Small, None, None, branches)) : branches \in Branches}

(* Two files of one label group that both have a job 1.                    *)
TwoFiles ==
  {[labels |-> <<"main">>, progs |-> <<Program(ids, Small, None, None, None)>>, pads |-> <<>>] :
     ids \in {<<1, 2, 3, Eof>>, <<1, Eop, 2, 3, Eof>>}}

SameNumber == [j \in Job |-> IF j = 3 THEN 1 ELSE j]

(* Pads of whole words, of .setpad with a size, and one read from a file.  *)
PadColumns ==
  {[labels |-> <<"main">>, progs |-> <<Program(<<1, Eof>>, Small, None, None, None)>>,
    pads |-> pads] : pads \in {<<4, 8>>, <<8, 6, 4>>}}

Itself(S) == [x \in S |-> x]
JobItself == Itself(Job)
LabelItself == Itself(Label)

=============================================================================
