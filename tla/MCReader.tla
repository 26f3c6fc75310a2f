------------------------------ MODULE MCReader ------------------------------
(* Files and access managers for checking Reader. *)
EXTENDS Reader, Sequences

H(t, o, z, a) == [NullShdr EXCEPT !.type = t, !.offset = o, !.size = z, !.align = a]
Table(q) == [s \in 0 .. Len(q) |-> IF s = 0 THEN NullShdr ELSE q[s]]
Elf(q, size) ==
    [size |-> size, magic |-> TRUE, shentsize |-> 64, shoff |-> 64, shnum |-> Len(q) + 1,
     shstrndx |-> 1, table |-> Table(q)]

\* Names, a symbol table, a JIT relocation section, and data that ends with the file.
Whole ==
    Elf(<<H("SHT_STRTAB", 384, 20, 1), [H("SHT_SYMTAB", 408, 48, 8) EXCEPT !.io = "input", !.entsize = 24],
          [H("SHT_RELA", 456, 24, 64) EXCEPT !.jit = TRUE],
          [H("SHT_PROGBITS", 512, 100, 256) EXCEPT !.npu = TRUE]>>, 612)

\* Odd alignments, an empty section, and one without bits in the file.
Odd ==
    Elf(<<H("SHT_STRTAB", 384, 8, 0), H("SHT_RELA", 392, 24, 3), H("SHT_SYMTAB", 420, 0, 4),
          H("SHT_NOBITS", 9000, 9000, 64)>>, 420)

\* User buffers in several symbol tables: of two kinds, twice of one kind, and behind
\* or before an empty one.
Users(k, n) == [H("SHT_SYMTAB", 384, 24 * n, 8) EXCEPT !.io = k, !.entsize = 24]
UserFiles ==
    {Elf(<<H("SHT_STRTAB", 384, 8, 1), a, b>>, 480) :
        a \in {Users("input", 3)}, b \in {Users("profiling", 2), Users("input", 2), Users("input", 1)}}
    \cup {Elf(<<H("SHT_STRTAB", 384, 8, 1), Users("output", 1), Users("output", 2)>>, 480),
          Elf(<<H("SHT_STRTAB", 384, 8, 1), [Users("input", 2) EXCEPT !.entsize = 0]>>, 480)}

MCFiles ==
    UserFiles \cup
    {Whole, Odd,
     [Whole EXCEPT !.size = 60],                  \* shorter than the ELF header
     [Whole EXCEPT !.size = 300],                 \* or than the section table
     [Whole EXCEPT !.size = 400],                 \* or than the names
     [Whole EXCEPT !.size = 440],                 \* or than the symbol table
     [Whole EXCEPT !.size = 611],                 \* or than the last section
     [Whole EXCEPT !.magic = FALSE], [Whole EXCEPT !.shentsize = 40],
     [Whole EXCEPT !.shoff = 32], [Whole EXCEPT !.shstrndx = 5], [Whole EXCEPT !.shstrndx = 0],
     [Whole EXCEPT !.shnum = 0, !.table = [s \in {} |-> NullShdr]]}

MCManagers ==
    {[kind |-> "DDR", emplace |-> e, factory |-> f, blob |-> b] :
        e \in {"standard", "never"}, f \in {"allocated", "dynamic", "hybrid"},
        b \in {4096, 4104}}
    \cup {[kind |-> "DDR", emplace |-> "always", factory |-> "dynamic", blob |-> 4104]}
    \cup {[kind |-> "FS", emplace |-> "never", factory |-> f, blob |-> 0] : f \in {"dynamic", "hybrid"}}
=============================================================================
