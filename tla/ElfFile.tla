------------------------------ MODULE ElfFile ------------------------------
(***************************************************************************)
(* The part of an ELF blob that the NPU loader looks at: a table of        *)
(* section headers.  Sizes, alignments, names and payload bytes are left   *)
(* out; a relocation section stands for the block of its entries, which    *)
(* the loader always applies together, under one lock, to one target.      *)
(***************************************************************************)
EXTENDS Naturals

CONSTANT NumSections      \* e_shnum: every blob of an instance has as many

ASSUME NumSectionsAssumption == NumSections \in Nat \ {0}

SecIdx == 0 .. NumSections - 1

(***************************************************************************)
(* Section types, one for each way the code tells them apart.  SHT_STRTAB  *)
(* stands for every type the loader registers and never allocates.         *)
(***************************************************************************)
SecTypes == {"SHT_NULL", "SHT_PROGBITS", "SHT_NOBITS", "SHT_RELA", "SHT_SYMTAB",
             "SHT_STRTAB", "SHT_HASH", "VPU_SHT_CMX_METADATA", "VPU_SHT_CMX_WORKSPACE"}

\* The user buffers a JIT relocation section or a symbol table is about
\* (VPU_SHF_USERINPUT, VPU_SHF_USEROUTPUT, VPU_SHF_PROFOUTPUT or none of them).
IOKinds == {"input", "output", "profiling", "none"}

(***************************************************************************)
(* write, alloc, jit, infoLink are the sh_flags bits SHF_WRITE, SHF_ALLOC, *)
(* VPU_SHF_JIT, SHF_INFO_LINK; io is also what isNetworkIO looks at.  For a *)
(* relocation section, info is the target section, link the symbol table   *)
(* (rt: it is VPU_RT_SYMTAB instead), sym the section its symbol lies in    *)
(* (the runtime symbol when rt), acc says that its type accumulates into   *)
(* the word (OR, SUM) instead of overwriting it, and bad that some entry   *)
(* fails the checks on its offset, its symbol index or its type.           *)
(***************************************************************************)
Header == [type : SecTypes, write : BOOLEAN, alloc : BOOLEAN, jit : BOOLEAN,
           infoLink : BOOLEAN, io : IOKinds, info : Nat, link : Nat, rt : BOOLEAN,
           sym : SecIdx, acc : BOOLEAN, bad : BOOLEAN]

Actions == {"None", "AllocateAndLoad", "Allocate", "Relocate", "RegisterUserIO", "Error"}

\* What load() does with a section of each type.
actionMap ==
    [t \in SecTypes |->
        CASE t = "SHT_PROGBITS" -> "AllocateAndLoad"
          [] t = "SHT_NOBITS"   -> "Allocate"
          [] t = "SHT_RELA"     -> "Relocate"
          [] t = "SHT_SYMTAB"   -> "RegisterUserIO"
          [] t = "SHT_HASH"     -> "Error"
          [] OTHER              -> "None"]

\* utils::isNetworkIO: the section is a user's input, output or profiling buffer.
isNetworkIO(h) == h.io # "none"

\* A registered relocation section, and the sections a blob's relocations patch.
IsRela(e, r) == e[r].type = "SHT_RELA"
RelaTargets(e) == {e[r].info : r \in {q \in SecIdx : IsRela(e, q)}}
=============================================================================
