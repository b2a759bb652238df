------------------------------ MODULE ControlCode ------------------------------
(***************************************************************************)
(* The end of the pipeline: the section writers of the encoder go into an  *)
(* ELF.  A column of control code is written (PageWriter) and handed to    *)
(* elf_writer (ElfWriter); a configuration begins with ElfWriter, its      *)
(* instances are given.                                                    *)
(***************************************************************************)
EXTENDS ElfWriter, PageWriter

allvars == <<vars, wvars>>

Unmade == [flavor |-> "asm", config |-> FALSE, entries |-> <<>>]

ControlInit ==
  \/ Init /\ column = <<>> /\ wstage = "written" /\ Blank
  \/ input = Unmade /\ Fresh /\ WInit

WriteColumn == wstage # "written" /\ WNext /\ UNCHANGED vars

(* assembler::assemble: the encoder's writers are those of a code without  *)
(* kernel and group.                                                       *)
HandOver ==
  /\ wstage = "written" /\ input = Unmade
  /\ input' = [Unmade EXCEPT !.entries =
                 <<[name |-> 1, pdis |-> <<>>,
                    instances |-> <<[id |-> 1, cols |-> 1, writers |-> twriter]>>]>>]
  /\ UNCHANGED <<stage, read, kernel_map, loop, helper, elf, wvars>>

WriteElf == wstage = "written" /\ input # Unmade /\ Next /\ UNCHANGED wvars

(* A rejected column ends the assembly.                                    *)
Failed == wstage = "failed" /\ UNCHANGED allvars

ControlNext == WriteColumn \/ HandOver \/ WriteElf \/ Failed

ControlSpec == ControlInit /\ [][ControlNext]_allvars

===============================================================================
