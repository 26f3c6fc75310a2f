---------------------------- MODULE MCVPUXLoader ----------------------------
(* Blobs and constants for checking VPUXLoader. *)
EXTENDS VPUXLoaderRefinement, TLC

\* A section of a type, with no flag set.
Sec(t) ==
    [type |-> t, write |-> FALSE, alloc |-> FALSE, jit |-> FALSE, infoLink |-> FALSE,
     io |-> "none", info |-> 0, link |-> 0, rt |-> FALSE, sym |-> 0, acc |-> FALSE,
     bad |-> FALSE]
Progbits == [Sec("SHT_PROGBITS") EXCEPT !.alloc = TRUE]
Nobits == [Sec("SHT_NOBITS") EXCEPT !.alloc = TRUE, !.write = TRUE]
Rela(target, symtab, sym) ==
    [Sec("SHT_RELA") EXCEPT !.infoLink = TRUE, !.info = target, !.link = symtab,
                            !.sym = sym]
Jit(target, symtab) ==
    [Rela(target, symtab, 0) EXCEPT !.jit = TRUE, !.io = "input"]

Blob(q) == [s \in SecIdx |-> IF s \in DOMAIN q THEN q[s] ELSE Sec("SHT_NULL")]

\* Section 1 is relocated (accumulating) against scratch, section 2 against section
\* 1 and against user buffers; section 3 is scratch, section 8 only read.
Whole ==
    Blob(<<Progbits, Progbits, Nobits, Sec("SHT_SYMTAB"),
           [Rela(1, 4, 3) EXCEPT !.acc = TRUE], Rela(2, 4, 1), Jit(2, 9), Progbits, Sec("SHT_SYMTAB")>>)

\* Relocation sections before their targets and tables: section 5 is writable data
\* relocated against CMX and scratch, section 6 is read-only but a JIT target.
Early ==
    Blob(<<Rela(5, 4, 7), Jit(6, 9), Rela(5, 4, 8), Sec("SHT_SYMTAB"),
           [Progbits EXCEPT !.write = TRUE], Progbits, Sec("VPU_SHT_CMX_WORKSPACE"),
           Nobits, Sec("SHT_SYMTAB")>>)

MCBlobs == {Whole, Early}

\* Blobs that load() or a later call refuses, each at another place (the first two are
\* fine).
Refused ==
    {Blob(<<[Rela(2, 4, 3) EXCEPT !.acc = TRUE], Progbits, Nobits, Sec("SHT_SYMTAB"), Jit(2, 4)>>),
     Blob(<<Progbits, [Rela(1, 0, 2) EXCEPT !.rt = TRUE], [Nobits EXCEPT !.io = "input"]>>),
     Blob(<<Progbits, Sec("SHT_HASH")>>),
     Blob(<<[Nobits EXCEPT !.write = FALSE]>>),
     Blob(<<Progbits, [Sec("SHT_RELA") EXCEPT !.info = 1]>>),
     Blob(<<Progbits, Rela(0, 3, 1), Sec("SHT_SYMTAB")>>),
     Blob(<<Progbits, Rela(1, 1, 1)>>),
     Blob(<<Progbits, Nobits, Sec("SHT_SYMTAB"), [Rela(1, 3, 2) EXCEPT !.bad = TRUE]>>),
     Blob(<<Progbits, Sec("SHT_SYMTAB"), [Jit(1, 2) EXCEPT !.io = "none"]>>),
     Blob(<<Progbits, Sec("SHT_SYMTAB"), Jit(1, 2), [Jit(1, 2) EXCEPT !.bad = TRUE]>>),
     Blob(<<Progbits, Nobits, Sec("SHT_SYMTAB"), Rela(2, 3, 1)>>),
     Blob(<<[Progbits EXCEPT !.alloc = FALSE], [Nobits EXCEPT !.alloc = FALSE], Progbits>>)}

Perms == Permutations(Loaders)
=============================================================================
