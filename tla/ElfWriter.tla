------------------------------- MODULE ElfWriter -------------------------------
(***************************************************************************)
(* From a configuration to an ELF: a config JSON is read into a map of     *)
(* kernels and instances, the encoder turns every instance into section    *)
(* writers that carry its symbols, and elf_writer adds sections, load      *)
(* segments, symbols, relocations and groups, one instance after the       *)
(* other.  A plain blob or assembly is one instance without kernel, group  *)
(* and suffix.                                                             *)
(*                                                                         *)
(* What preprocessing makes of one instance is given: its sections and     *)
(* symbols (TxnPreprocessor, ColumnPager).  Kernels and instances are      *)
(* named by numbers in the order of std::map; a name with its suffix is a  *)
(* pair.  A section writer is [name, size, symbols].                       *)
(***************************************************************************)
EXTENDS Integers, Sequences, FiniteSets, SequencesExt

CONSTANTS
  Inputs,    (* [flavor, config, entries]: flavor is "aie2" or "asm"; an   *)
             (* entry is [name, pdis, instances] of "xrt-kernels"          *)
  KeyOrder   (* names of sections as std::map orders them                  *)

VARIABLES
  stage,     (* "read", "encode", "write", "done", "rejected", "undefined" *)
  input, read,          (* the input, entries read                         *)
  kernel_map,           (* kernel -> [common, instances]                   *)
  plan, at, busy,       (* what process goes through, and where it is      *)
  next,                 (* writers done of the current helper call         *)
  index,                (* instances written: suffix and group number      *)
  syms,                 (* symbols collected by add_text_data_section      *)
  section_index_list,
  sections, segments,   (* of the ELF; index 0 is the null section         *)
  symtab, dynsym, rela, (* index 0 is the null symbol                      *)
  groups, dynamic       (* groups; what .dynamic says, or NotThere         *)

config == <<input, read, kernel_map>>
loop == <<plan, at, busy, index>>
helper == <<next, syms, section_index_list>>
elf == <<sections, segments, symtab, dynsym, rela, groups, dynamic>>
vars == <<stage, config, loop, helper, elf>>

NotThere == [relasz |-> -1]

-------------------------------------------------------------------------------
(* The config JSON.                                                        *)
Entry == input.entries[read + 1]

(* Mutation: the first of a name stays.                                    *)
ByIdFirst(list) ==
  [id \in {list[k].id : k \in DOMAIN list} |->
     list[Min({k \in DOMAIN list : list[k].id = id})]]

(* A map filled from a list: the last of a name stays.                     *)
ById(list) ==
  [id \in {list[k].id : k \in DOMAIN list} |->
     list[Max({k \in DOMAIN list : list[k].id = id})]]

With(f, key, value) == [x \in DOMAIN f \cup {key} |-> IF x = key THEN value ELSE f[x]]
Over(f, g) == [x \in DOMAIN f \cup DOMAIN g |-> IF x \in DOMAIN f THEN f[x] ELSE g[x]]

NoKernel == [common |-> <<>>, instances |-> <<>>]
KernelOf(name) == IF name \in DOMAIN kernel_map THEN kernel_map[name] ELSE NoKernel

(* add_pdi and add_instance: a kernel may be named by several entries.     *)
WithEntry(entry) ==
  IF entry.pdis = <<>> /\ entry.instances = <<>> THEN kernel_map
  ELSE With(kernel_map, entry.name,
            [common |-> Over(ById(entry.pdis), KernelOf(entry.name).common),
             instances |-> Over(ById(entry.instances), KernelOf(entry.name).instances)])

Reading == stage = "read" /\ read < Len(input.entries)

ReadKernel ==
  /\ Reading
  /\ ~ (input.flavor = "asm" /\ Entry.pdis # <<>>)
  /\ kernel_map' = WithEntry(Entry) /\ read' = read + 1
  /\ UNCHANGED <<stage, input, loop, helper, elf>>

RejectPdis ==
  /\ Reading
  /\ input.flavor = "asm" /\ Entry.pdis # <<>>
  /\ stage' = "rejected"
  /\ UNCHANGED <<config, loop, helper, elf>>

EndOfConfig ==
  /\ stage = "read" /\ read = Len(input.entries)
  /\ stage' = "encode"
  /\ UNCHANGED <<config, loop, helper, elf>>

-------------------------------------------------------------------------------
(* The encoders.                                                           *)
(* The numbers of S in their order.                                        *)
Nth(S, n) == CHOOSE x \in S : Cardinality({y \in S : y <= x}) = n
Sorted(S) == [n \in 1 .. Cardinality(S) |-> Nth(S, n)]

Keys(data) ==
  LET present == Sorted({n \in DOMAIN KeyOrder : KeyOrder[n] \in DOMAIN data})
  IN  [k \in DOMAIN present |-> KeyOrder[present[k]]]

(* aie2_blob_encoder: all the symbols go with the first section by name.   *)
BlobWriters(instance) ==
  LET keys == Keys(instance.data) IN
  [k \in DOMAIN keys |->
     [name |-> keys[k], size |-> instance.data[keys[k]],
      symbols |-> IF k = 1 THEN instance.symbols ELSE <<>>]]

(* aie2ps_encoder: the writers of its pages, in their order.               *)
WritersOf(instance) == IF input.flavor = "asm" THEN instance.writers ELSE BlobWriters(instance)

CommonWriters(common) ==
  LET keys == Keys(common) IN
  [k \in DOMAIN keys |-> [name |-> keys[k], size |-> common[keys[k]].size, symbols |-> <<>>]]

(* What preprocessing makes: the writers of an instance have different     *)
(* names, none of those elf_writer gives itself, and a symbol is in one of *)
(* them that is not empty, unless it goes with an empty one.               *)
Reserved ==
  {".shstrtab", ".strtab", ".symtab", ".dynstr", ".dynsym", ".rela.dyn", ".group", ".dynamic"}

IsSeq(s) == s \in Seq(ToSet(s))

WritersOK(writers) ==
  /\ IsSeq(writers)
  /\ \A v, w \in DOMAIN writers : writers[v].name = writers[w].name => v = w
  /\ \A w \in DOMAIN writers :
       /\ writers[w].name \notin Reserved /\ writers[w].size \in Nat
       /\ IsSeq(writers[w].symbols)
       /\ writers[w].size > 0 =>
            \A k \in DOMAIN writers[w].symbols : \E v \in DOMAIN writers :
              writers[v].size > 0 /\ writers[v].name = writers[w].symbols[k].section

BlobOK(instance) ==
  /\ DOMAIN instance.data \subseteq ToSet(KeyOrder)
  /\ \A key \in DOMAIN instance.data : instance.data[key] \in Nat
  /\ IsSeq(instance.symbols)
  /\ \A k \in DOMAIN instance.symbols :
       LET section == instance.symbols[k].section IN
       /\ section \in DOMAIN instance.data
       /\ instance.data[Keys(instance.data)[1]] > 0 => instance.data[section] > 0

EntryOK(flavor, entry) ==
  /\ entry.name \in Nat /\ IsSeq(entry.pdis) /\ IsSeq(entry.instances)
  /\ \A k \in DOMAIN entry.pdis : entry.pdis[k].id \in ToSet(KeyOrder) /\ entry.pdis[k].size \in Nat
  /\ \A k \in DOMAIN entry.instances :
       /\ entry.instances[k].id \in Nat
       /\ IF flavor = "asm" THEN WritersOK(entry.instances[k].writers)
          ELSE BlobOK(entry.instances[k])

InputOK(i) ==
  /\ i.config \in BOOLEAN /\ IsSeq(i.entries)
  /\ \A n \in DOMAIN i.entries : EntryOK(i.flavor, i.entries[n])
  /\ ~ i.config => Len(i.entries) = 1 /\ Len(i.entries[1].instances) = 1

ASSUME KeysAssumption ==
  IsSeq(KeyOrder) /\ IsInjective(KeyOrder) /\ ToSet(KeyOrder) \cap Reserved = {}

ASSUME InputsAssumption == \A i \in Inputs : InputOK(i)

(* The first instance of the first kernel says how many columns there are; *)
(* a kernel of the aie2 flavor may have PDIs and no instance.              *)
First(S) == Min(DOMAIN S)
HasFirst == kernel_map # <<>> /\ kernel_map[First(kernel_map)].instances # <<>>
Columns == LET instances == kernel_map[First(kernel_map)].instances
           IN  instances[First(instances)].cols

(* Kernel by kernel, and instance by instance of a kernel.                 *)
Encoding == stage = "encode" /\ HasFirst
AtHand == plan[Len(plan)].kernel
KernelsLeft == DOMAIN kernel_map \ {plan[t].kernel : t \in DOMAIN plan}
InstancesLeft ==
  IF plan = <<>> \/ ~ input.config THEN {}
  ELSE DOMAIN kernel_map[AtHand].instances
         \ {plan[t].id : t \in {t \in DOMAIN plan : plan[t].kind = "instance" /\ plan[t].kernel = AtHand}}
NextInstance == kernel_map[AtHand].instances[Min(InstancesLeft)]

Encode(task) ==
  /\ plan' = Append(plan, task)
  /\ UNCHANGED <<stage, config, at, busy, index, helper, elf>>

EncodeNothing ==
  /\ stage = "encode" /\ ~ HasFirst
  /\ stage' = "undefined"
  /\ UNCHANGED <<config, loop, helper, elf>>

EncodeKernel ==
  /\ Encoding /\ input.config /\ InstancesLeft = {} /\ KernelsLeft # {}
  /\ LET kernel == Min(KernelsLeft) IN
     Encode([kind |-> "kernel", kernel |-> kernel, id |-> kernel,
             writers |-> CommonWriters(kernel_map[kernel].common)])

EncodeInstance ==
  /\ Encoding /\ input.config /\ InstancesLeft # {}
  /\ NextInstance.cols = Columns
  /\ Encode([kind |-> "instance", kernel |-> AtHand, id |-> Min(InstancesLeft),
             writers |-> WritersOf(NextInstance)])

RejectPartition ==
  /\ Encoding /\ input.config /\ InstancesLeft # {}
  /\ NextInstance.cols # Columns
  /\ stage' = "rejected"
  /\ UNCHANGED <<config, loop, helper, elf>>

(* A blob or assembly.                                                     *)
EncodeCode ==
  /\ Encoding /\ ~ input.config /\ plan = <<>>
  /\ LET entry == input.entries[1] IN
     Encode([kind |-> "code", kernel |-> entry.name, id |-> entry.name,
             writers |-> WritersOf(entry.instances[1])])

(* elf_writer: init_symtab comes first for a config.                       *)
StartElf ==
  /\ Encoding /\ InstancesLeft = {} /\ KernelsLeft = {}
  /\ sections' = IF ~ input.config THEN sections
                 ELSE sections \o <<[name |-> <<".strtab", -1>>, of |-> <<0, 0>>],
                                    [name |-> <<".symtab", -1>>, of |-> <<0, 0>>]>>
  /\ stage' = "write"
  /\ UNCHANGED <<config, loop, helper, segments, symtab, dynsym, rela, groups, dynamic>>

-------------------------------------------------------------------------------
(* elf_writer.                                                             *)
Task == plan[at]
Suffix == IF Task.kind = "instance" THEN index ELSE -1

(* sections[name] is the first section of the name.                        *)
Find(all, name) == Min({k \in DOMAIN all : all[k].name = name})

SymbolOf(name) == CHOOSE k \in DOMAIN symtab : symtab[k].name = name /\ symtab[k].kind = "kernel"

(* Mutation: the members of the last instance are kept.                    *)
StartKeeping ==
  /\ stage = "write" /\ ~ busy /\ at < Len(plan)
  /\ at' = at + 1 /\ busy' = TRUE
  /\ next' = 0 /\ syms' = <<>> /\ UNCHANGED section_index_list
  /\ LET task == plan[at + 1] IN
     symtab' = CASE task.kind = "code" -> symtab
                 [] task.kind = "kernel" ->
                      Append(symtab, [kind |-> "kernel", name |-> task.id, section |-> 0])
                 [] task.kind = "instance" ->
                      Append(symtab, [kind |-> "instance", name |-> task.id,
                                      section |-> SymbolOf(task.kernel)])
  /\ UNCHANGED <<stage, config, plan, index, sections, segments, dynsym, rela, groups, dynamic>>

(* add_symtab of a kernel, or add_symtab_section of an instance, and the   *)
(* call of process_common_helper.                                          *)
Start ==
  /\ stage = "write" /\ ~ busy /\ at < Len(plan)
  /\ at' = at + 1 /\ busy' = TRUE
  /\ next' = 0 /\ syms' = <<>> /\ section_index_list' = <<>>
  /\ LET task == plan[at + 1] IN
     symtab' = CASE task.kind = "code" -> symtab
                 [] task.kind = "kernel" ->
                      Append(symtab, [kind |-> "kernel", name |-> task.id, section |-> 0])
                 [] task.kind = "instance" ->
                      Append(symtab, [kind |-> "instance", name |-> task.id,
                                      section |-> SymbolOf(task.kernel)])
  /\ UNCHANGED <<stage, config, plan, index, sections, segments, dynsym, rela, groups, dynamic>>

Writer == Task.writers[next + 1]

(* add_text_data_section, one writer: an empty one is passed over with its *)
(* symbols; the segment finds its section by name.                         *)
PassOver ==
  /\ stage = "write" /\ busy /\ next < Len(Task.writers)
  /\ Writer.size = 0
  /\ next' = next + 1
  /\ UNCHANGED <<stage, config, loop, syms, section_index_list, elf>>

AddSection ==
  /\ stage = "write" /\ busy /\ next < Len(Task.writers)
  /\ Writer.size > 0
  /\ sections' = Append(sections, [name |-> <<Writer.name, Suffix>>, of |-> <<at, next + 1>>])
  /\ segments' = Append(segments, [type |-> "load", section |-> Find(sections', <<Writer.name, Suffix>>)])
  /\ section_index_list' = Append(section_index_list, Len(sections'))
  /\ syms' = syms \o Writer.symbols
  /\ next' = next + 1
  /\ UNCHANGED <<stage, config, loop, symtab, dynsym, rela, groups, dynamic>>

(* Mutation: the section is left out of the key.                           *)
KeyWithoutSection(sym) == <<sym.name, sym.size>>

(* Symbols of one helper call share an entry of .dynsym by this key.       *)
Key(sym) == <<sym.section, sym.name, sym.size>>

FirstOfKey ==
  Sorted({k \in DOMAIN syms : \A j \in 1 .. k - 1 : Key(syms[j]) # Key(syms[k])})

DynIndex(sym) ==
  Len(dynsym) + CHOOSE p \in DOMAIN FirstOfKey : Key(syms[FirstOfKey[p]]) = Key(sym)

DynamicNames == {".dynstr", ".dynsym", ".rela.dyn"}
HasDynamic(all) == \E k \in DOMAIN all : all[k].name[1] \in DynamicNames

(* The end of process_common_helper: the sections for dynamic symbols are  *)
(* made once, by the first call that has symbols.                          *)
AddSymbols ==
  /\ stage = "write" /\ busy /\ next = Len(Task.writers) /\ syms # <<>>
  /\ sections' = IF HasDynamic(sections) THEN sections
                 ELSE sections \o <<[name |-> <<".dynstr", -1>>, of |-> <<0, 0>>],
                                    [name |-> <<".dynsym", -1>>, of |-> <<0, 0>>],
                                    [name |-> <<".rela.dyn", -1>>, of |-> <<0, 0>>]>>
  /\ dynsym' = dynsym \o [p \in DOMAIN FirstOfKey |->
                  LET sym == syms[FirstOfKey[p]]
                  IN [name |-> sym.name, size |-> sym.size,
                      section |-> Find(sections, <<sym.section, Suffix>>)]]
  /\ rela' = rela \o [k \in DOMAIN syms |-> [pos |-> syms[k].pos, symbol |-> DynIndex(syms[k])]]
  /\ syms' = <<>>
  /\ UNCHANGED <<stage, config, loop, next, section_index_list, segments, symtab, groups, dynamic>>

(* Mutation: group and suffix numbers begin again with every kernel.       *)
NextIndexOfKernel ==
  IF at < Len(plan) /\ plan[at + 1].kind = "kernel" THEN 0 ELSE index + 1

NextIndex == index + 1

(* The instance's group: its first word is GRP_COMDAT, the others are its  *)
(* sections; its info is the instance's symbol, the last one added.        *)
AddGroup ==
  /\ stage = "write" /\ busy /\ next = Len(Task.writers) /\ syms = <<>>
  /\ Task.kind = "instance"
  /\ sections' = Append(sections, [name |-> <<".group", index>>, of |-> <<0, 0>>])
  /\ groups' = Append(groups, [members |-> section_index_list, info |-> Len(symtab)])
  /\ index' = NextIndex /\ busy' = FALSE
  /\ UNCHANGED <<stage, config, plan, at, helper, segments, symtab, dynsym, rela, dynamic>>

EndOfCommon ==
  /\ stage = "write" /\ busy /\ next = Len(Task.writers) /\ syms = <<>>
  /\ Task.kind # "instance"
  /\ busy' = FALSE
  /\ UNCHANGED <<stage, config, plan, at, index, helper, elf>>

(* add_dynamic_section_segment: DT_RELASZ is the final size.               *)
AddDynamic ==
  IF HasDynamic(sections)
  THEN /\ dynamic' = [relasz |-> Len(rela)]
       /\ segments' = Append(segments, [type |-> "dynamic", section |-> Len(sections) + 1])
       /\ sections' = Append(sections, [name |-> <<".dynamic", -1>>, of |-> <<0, 0>>])
  ELSE UNCHANGED <<dynamic, segments, sections>>

(* The notes come last; they are not kept.                                 *)
Finalize ==
  /\ stage = "write" /\ ~ busy /\ at = Len(plan)
  /\ AddDynamic
  /\ stage' = "done"
  /\ UNCHANGED <<config, loop, helper, symtab, dynsym, rela, groups>>

Ended == stage \in {"done", "rejected", "undefined"} /\ UNCHANGED vars

Fresh ==
  /\ stage = "read" /\ read = 0 /\ kernel_map = <<>>
  /\ plan = <<>> /\ at = 0 /\ busy = FALSE /\ index = 0
  /\ next = 0 /\ syms = <<>> /\ section_index_list = <<>>
  /\ sections = <<[name |-> <<".shstrtab", -1>>, of |-> <<0, 0>>]>>
  /\ segments = <<[type |-> "phdr", section |-> 0]>>
  /\ symtab = <<>> /\ dynsym = <<>> /\ rela = <<>> /\ groups = <<>>
  /\ dynamic = NotThere

Init == input \in Inputs /\ Fresh

Next ==
  \/ ReadKernel \/ RejectPdis \/ EndOfConfig
  \/ EncodeNothing \/ EncodeKernel \/ EncodeInstance \/ RejectPartition \/ EncodeCode
  \/ StartElf
  \/ Start \/ PassOver \/ AddSection \/ AddSymbols \/ AddGroup \/ EndOfCommon
  \/ Finalize \/ Ended

Spec == Init /\ [][Next]_vars

-------------------------------------------------------------------------------
(* Properties.                                                             *)

(* Symbol k of writer w of task t, less those of writers that are empty.   *)
Written(t) == {w \in DOMAIN plan[t].writers : plan[t].writers[w].size > 0}
Slots ==
  UNION {UNION {{<<t, w, k>> : k \in DOMAIN plan[t].writers[w].symbols} : w \in Written(t)} :
           t \in DOMAIN plan}

(* How many come before it or are it, task by task and writer by writer.   *)
UpTo(a, b) ==
  \/ a[1] < b[1]
  \/ a[1] = b[1] /\ a[2] < b[2]
  \/ a[1] = b[1] /\ a[2] = b[2] /\ a[3] <= b[3]
SlotPlace(slot) == Cardinality({s \in Slots : UpTo(s, slot)})

(* There is a relocation for every symbol, in their order: at its          *)
(* position, through an entry of .dynsym with its name and size, which is  *)
(* in the section the symbol is in and that was made for its own instance, *)
(* not in one that has the name for another.  .dynamic tells the size of   *)
(* them all, if there are any.                                             *)
RelocationsResolve ==
  stage = "done" =>
    /\ Len(rela) = Cardinality(Slots)
    /\ dynamic = IF rela = <<>> THEN NotThere ELSE [relasz |-> Len(rela)]
    /\ \A slot \in Slots :
         LET sym == plan[slot[1]].writers[slot[2]].symbols[slot[3]]
             relocation == rela[SlotPlace(slot)]
             entry == dynsym[relocation.symbol]
             section == sections[entry.section]
         IN /\ relocation.pos = sym.pos
            /\ entry.name = sym.name /\ entry.size = sym.size
            /\ section.of[1] = slot[1]
            /\ plan[slot[1]].writers[section.of[2]].name = sym.section

CodeSections == {k \in DOMAIN sections : sections[k].of # <<0, 0>>}
Loads == {k \in DOMAIN segments : segments[k].type = "load"}

(* Two kernels that have a PDI of one number have two sections of a name.  *)
CommonDistinct ==
  \A j, k \in DOMAIN kernel_map :
    j # k => DOMAIN kernel_map[j].common \cap DOMAIN kernel_map[k].common = {}

(* Every section with code or data is loaded by a segment of its own, if   *)
(* the kernels' common sections have different names.                      *)
LoadsOwnSection ==
  CommonDistinct =>
    /\ {segments[k].section : k \in Loads} = CodeSections
    /\ \A j, k \in Loads : segments[j].section = segments[k].section => j = k

(* The groups divide the sections of the instances: group n has exactly    *)
(* what was made for instance n, and names it and its kernel.              *)
InstanceTasks == {t \in DOMAIN plan : plan[t].kind = "instance"}

GroupsDivideSections ==
  \A n \in DOMAIN groups :
    LET t == Nth(InstanceTasks, n) IN
    /\ ToSet(groups[n].members) = {k \in CodeSections : sections[k].of[1] = t}
    /\ IsInjective(groups[n].members)
    /\ symtab[groups[n].info].name = plan[t].id
    /\ symtab[symtab[groups[n].info].section].name = plan[t].kernel

(* What a group of the ELF is named for, and what its sections were made   *)
(* of.                                                                     *)
GroupName(group) == <<symtab[symtab[group.info].section].name, symtab[group.info].name>>
Contents(group) ==
  {plan[sections[k].of[1]].writers[sections[k].of[2]] : k \in ToSet(group.members)}

(* The entries that have an instance of a kernel; the last of them has the *)
(* instance that counts, the last of the name in its list.                 *)
Having(kernel, id) ==
  {n \in DOMAIN input.entries :
     /\ input.entries[n].name = kernel
     /\ \E k \in DOMAIN input.entries[n].instances : input.entries[n].instances[k].id = id}
LastNamed(kernel, id) ==
  LET list == input.entries[Max(Having(kernel, id))].instances
  IN  list[Max({k \in DOMAIN list : list[k].id = id})]

Named ==
  UNION {{<<entry.name, entry.instances[k].id>> : k \in DOMAIN entry.instances} :
           entry \in ToSet(input.entries)}

(* The groups of the finished ELF are those of the instances the entries   *)
(* name, one for each, named in the symbol table by kernel and instance;   *)
(* the sections of a group hold what that instance gives that is not empty *)
(* and nothing else.  Of several instances with one name in one kernel the *)
(* last is in the ELF, none of the others.                                 *)
InstancesKept ==
  stage = "done" /\ input.config =>
    /\ {GroupName(groups[n]) : n \in DOMAIN groups} = Named
    /\ \A m, n \in DOMAIN groups : GroupName(groups[m]) = GroupName(groups[n]) => m = n
    /\ \A name \in Named, n \in DOMAIN groups : GroupName(groups[n]) = name =>
         Contents(groups[n]) =
           {writer \in ToSet(WritersOf(LastNamed(name[1], name[2]))) : writer.size > 0}

===============================================================================
