------------------------------- MODULE Writer -------------------------------
(***************************************************************************)
(* The ELF writer: sections are added, prepareWriter finalizes them and     *)
(* computes the layout of the file, the client allocates it, data sections  *)
(* are written into it directly and generateELF adds the sections the       *)
(* writer keeps itself, the ELF header and the section headers.             *)
(*                                                                          *)
(* Each iteration of the loops over the sections is a step.  The file is a  *)
(* map from offsets to what was written there last: byte j of a section, of *)
(* the ELF header or of the table of section headers.  Sizes are in units.  *)
(* The client calls prepareWriter once and adds nothing afterwards.         *)
(***************************************************************************)
EXTENDS Integers, Sequences, FiniteSets

CONSTANTS
    EhSize,          \* sizeof(ELFHeader)
    ShEntSize,       \* sizeof(SectionHeader)
    SymbolSize,      \* sizeof(SymbolEntry)
    RelocationSize,  \* sizeof(RelocationAEntry)
    NameSize,        \* a name with its terminating 0
    Sizes, Aligns,   \* sizes and alignments a client sets
    SymbolTypes,     \* types, and runtime symbols, that it uses
    RelocTypes, Specials,
    MixedBindings,   \* the client adds symbols in any order of their bindings
    MaxSections,     \* bound: sections
    MaxEntries       \* bound: symbols or relocations of a section

Bindings == {0, 1}   \* STB_LOCAL, STB_GLOBAL

ASSUME HeaderSizesAssumption == EhSize \in Nat \ {0} /\ ShEntSize = EhSize
ASSUME EntrySizesAssumption ==
    /\ SymbolSize \in Nat \ {0} /\ RelocationSize \in Nat \ {0} /\ NameSize \in Nat \ {0}
ASSUME ClientSizesAssumption == Sizes \subseteq Nat /\ Aligns \subseteq Nat
ASSUME ClientTypesAssumption ==
    /\ SymbolTypes \subseteq 0..15 /\ Specials \subseteq Nat
    /\ RelocTypes \subseteq 0..63
ASSUME WriterBoundsAssumption ==
    /\ MaxSections \in Nat /\ MaxSections >= 3   \* those of the constructor
    /\ MaxEntries \in Nat /\ MixedBindings \in BOOLEAN

VARIABLES
    sections,   \* m_sections, from index 0
    headers,    \* m_sectionHeaders
    written,    \* per section: the entries in m_data (sorted symbols, packed indexes)
    total,      \* m_totalBinarySize
    file,       \* the client's storage
    started,    \* setSectionsStartAddr was called
    pc, pos     \* the loop the writer is in, and the section it is at

vars == <<sections, headers, written, total, file, started, pc, pos>>

-----------------------------------------------------------------------------
(* Sections *)

Kinds == {"null", "string", "symbol", "relocation", "binary", "empty"}

\* st_info: binding and type.
elf64STInfo(bind, type) == bind * 16 + (type % 16)
elf64STBind(info) == info \div 16
elf64STType(info) == info % 16

\* r_info: symbol and type, which has RTypes values (2^32 in the file).
RTypes == 64
elf64RInfo(sym, type) == sym * RTypes + type
elf64RSym(info) == info \div RTypes
elf64RType(info) == info % RTypes

\* A symbol is known by the index it was given when it was added; sec is the section it
\* is related to, or 0.  Binding and type are set one after the other.
Symbol == [index : Nat, info : Nat, sec : Nat]
setBinding(info, bind) == elf64STInfo(bind, elf64STType(info))
setSymbolType(info, type) == elf64STInfo(elf64STBind(info), type)
NewSymbol(n, bind, type, r) ==
    [index |-> n, info |-> setSymbolType(setBinding(0, bind), type), sec |-> r]
getBinding(symbol) == elf64STBind(symbol.info)

\* A relocation has a symbol of its table, or in r_info a special symbol (symbol is 0).
\* type and special are what the client asked for.
Relocation == [info : Nat, symbol : Nat, type : Nat, special : Nat]
setType(info, type) == elf64RInfo(elf64RSym(info), type)
setSpecialSymbol(info, sym) == elf64RInfo(sym, elf64RType(info))

Item == Symbol \cup Relocation

\* align, size, off, link and info are header fields (info with SHF_INFO_LINK), data is
\* the length of m_data, cur the write offset; items are symbols or relocations; symTab
\* and patch are the sections a relocation section was given, 0 for none.
Section == [kind : Kinds, align : Nat, size : Nat, data : Nat, off : Nat, cur : Nat,
            link : Nat, info : Nat, items : Seq(Item), symTab : Nat, patch : Nat]
Header == [off : Nat, size : Nat, link : Nat, info : Nat]
NewSection(kind, align) ==
    [kind |-> kind, align |-> align, size |-> 0, data |-> 0, off |-> 0, cur |-> 0,
     link |-> 0, info |-> 0, items |-> << >>, symTab |-> 0, patch |-> 0]
Count == Len(sections)
Sec(i) == sections[i + 1]
StrTab == 1
SymStrTab == 2
VPU_RT_SYMTAB == MaxSections + 1   \* an index beyond all sections

\* The constructor: null section, section names, symbol names.
StringSection == [NewSection("string", 4) EXCEPT !.data = 1]
Init ==
    /\ sections = <<NewSection("null", 4), StringSection, StringSection>>
    /\ headers = << >> /\ written = [i \in 0..MaxSections |-> << >>] /\ total = 0 /\ file = << >> /\ started = FALSE
    /\ pc = "build" /\ pos = 0

Adding == pc = "build" /\ Count < MaxSections
AddSymbolSection ==
    /\ Adding
    /\ sections' = Append(sections, [NewSection("symbol", 4) EXCEPT
                                        !.items = <<NewSymbol(0, 0, 0, 0)>>])
    /\ UNCHANGED <<headers, written, total, file, started, pc, pos>>
AddRelocationSection ==
    /\ Adding
    /\ sections' = Append(sections, NewSection("relocation", 4))
    /\ UNCHANGED <<headers, written, total, file, started, pc, pos>>
\* addBinaryDataSection or addEmptySection with setSize and setAddrAlign.
AddDataSection(kind, n, a) ==
    /\ Adding
    /\ sections' = Append(sections, [NewSection(kind, a) EXCEPT !.size = n])
    /\ UNCHANGED <<headers, written, total, file, started, pc, pos>>

\* setSectionToPatch, with setSymbolTable or setSpecialSymbolTable; there is something
\* to patch.
Links(i, p, linked) ==
    /\ pc = "build"
    /\ Sec(i).kind = "relocation" /\ Sec(i).patch = 0
    /\ Sec(p).kind = "binary" /\ Sec(p).size # 0
    /\ sections' = [sections EXCEPT ![i + 1] = linked]
    /\ UNCHANGED <<headers, written, total, file, started, pc, pos>>
SetSymbolTable(i, p, t) ==
    Sec(t).kind = "symbol" /\ Links(i, p, [Sec(i) EXCEPT !.patch = p, !.symTab = t])
SetSpecialSymbolTable(i, p) ==
    Links(i, p, [Sec(i) EXCEPT !.patch = p, !.link = VPU_RT_SYMTAB])

\* addSymbolEntry with setBinding, setType and setRelatedSection, a data section.
AddSymbolEntry(i, b, t, r) ==
    LET q == Sec(i).items IN
    /\ pc = "build"
    /\ Sec(i).kind = "symbol" /\ Len(q) <= MaxEntries
    /\ MixedBindings \/ b >= getBinding(q[Len(q)])
    /\ r = 0 \/ Sec(r).size # 0
    /\ sections' = [sections EXCEPT ![i + 1].items = Append(q, NewSymbol(Len(q), b, t, r))]
    /\ UNCHANGED <<headers, written, total, file, started, pc, pos>>

\* addRelocationEntry with setSymbol or setSpecialSymbol, and setType before or after it.
AddRelocationEntry(i, k, n, t) ==
    LET q == Sec(i).items IN
    /\ pc = "build"
    /\ Sec(i).kind = "relocation" /\ Sec(i).patch # 0 /\ Len(q) < MaxEntries
    /\ \/ Sec(i).symTab = 0 /\ k = 0
       \/ k \in 1..Len(Sec(Sec(i).symTab).items) - 1 /\ n = 0
    /\ \E info \in {setType(setSpecialSymbol(0, n), t), setSpecialSymbol(setType(0, t), n)} :
          sections' = [sections EXCEPT ![i + 1].items =
                          Append(q, [info |-> info, symbol |-> k, type |-> t, special |-> n])]
    /\ UNCHANGED <<headers, written, total, file, started, pc, pos>>

-----------------------------------------------------------------------------
(* prepareWriter *)

\* std::stable_sort by binding: an entry goes behind those of a smaller binding and
\* behind those of its own that were there before it.
Rank(q, k) ==
    Cardinality({m \in 1..Len(q) : \/ getBinding(q[m]) < getBinding(q[k])
                                   \/ getBinding(q[m]) = getBinding(q[k]) /\ m <= k})
SortedByBinding(q) ==
    [k \in 1..Len(q) |-> q[CHOOSE m \in 1..Len(q) : Rank(q, m) = k]]

\* The r_info a relocation is written with; its symbol goes in with the index it was
\* given when it was added.  Faulty variant: the symbol is left out.
PackedNone(r) == r.info
Packed(r) == IF r.symbol # 0 THEN elf64RInfo(r.symbol, elf64RType(r.info)) ELSE r.info

\* m_data grows by the entries, and the size in the header follows it.
\* Faulty variant: the size is counted down.
GrownDown(s, n) == [s EXCEPT !.data = @ + n, !.size = s.data - n]
Grown(s, n) == [s EXCEPT !.data = @ + n, !.size = s.data + n]
Finalized(s) ==
    CASE s.kind = "symbol" -> [Grown(s, SymbolSize * Len(s.items)) EXCEPT !.link = SymStrTab]
      [] s.kind = "relocation" ->
             [Grown(s, RelocationSize * Len(s.items)) EXCEPT
                 !.info = s.patch, !.link = IF s.symTab # 0 THEN s.symTab ELSE @]
      [] OTHER -> s
Entries(s) ==
    CASE s.kind = "symbol" -> SortedByBinding(s.items)
      [] s.kind = "relocation" -> [k \in 1..Len(s.items) |-> Packed(s.items[k])]
      [] OTHER -> << >>
\* addString for the names of a table's symbols (the first has none), if any.
SymbolNames(s) == IF s.kind = "symbol" THEN NameSize * (Len(s.items) - 1) ELSE 0
WithStrings(s, n) == IF n = 0 THEN s ELSE Grown(s, n)

\* A relocation section has to know what it patches: its finalize looks.
StartPrepare ==
    /\ pc = "build"
    /\ \A i \in 0..Count - 1 : Sec(i).kind = "relocation" => Sec(i).patch # 0
    /\ pc' = "finalize" /\ pos' = 0
    /\ UNCHANGED <<sections, headers, written, total, file, started>>

\* finalize and setNameOffset; the null section has no name.
FinalizeSection ==
    LET s == Sec(pos)
        done == [sections EXCEPT ![pos + 1] = Finalized(s)]
        named == [done EXCEPT ![SymStrTab + 1] = WithStrings(@, SymbolNames(s))]
    IN  /\ pc = "finalize" /\ pos < Count
        /\ sections' = [named EXCEPT ![StrTab + 1] =
                            WithStrings(@, IF s.kind = "null" THEN 0 ELSE NameSize)]
        /\ written' = [written EXCEPT ![pos] = Entries(s)]
        /\ pos' = pos + 1
        /\ UNCHANGED <<headers, total, file, started, pc>>

\* utils::alignUp
AlignUp(size, alignment) ==
    IF size # 0 /\ alignment # 0
    THEN ((size + alignment - 1) \div alignment) * alignment ELSE size

ShOff == AlignUp(EhSize, ShEntSize)
StartLayout ==
    /\ pc = "finalize" /\ pos = Count
    /\ total' = ShOff + Count * ShEntSize
    /\ pc' = "layout" /\ pos' = 0
    /\ UNCHANGED <<sections, headers, written, file, started>>

\* Sections without data keep offset 0 and take no space.
\* Faulty variant: a section without data gets an offset too.
OccupiesAlways(s) == s.kind # "empty"
Occupies(s) == s.kind # "empty" /\ s.size # 0
\* Faulty variant: the section's alignment is not heeded.
AlignedPacked(s) == total
Aligned(s) == AlignUp(total, s.align)
\* Faulty variant: the offset is not recorded.
LaidOutLate(s) == s
LaidOut(s) == IF Occupies(s) THEN [s EXCEPT !.off = Aligned(s)] ELSE s
LayoutSection ==
    LET s == LaidOut(Sec(pos)) IN
    /\ pc = "layout" /\ pos < Count
    /\ sections' = [sections EXCEPT ![pos + 1] = s]
    /\ headers' = Append(headers, [off |-> s.off, size |-> s.size, link |-> s.link, info |-> s.info])
    /\ total' = Aligned(s) + (IF Occupies(s) THEN s.size ELSE 0)
    /\ pos' = pos + 1
    /\ UNCHANGED <<written, file, started, pc>>

\* What a unit of the file is part of, if it is not of a section.
Nobody == -1
EHdr == -2
SHdr == -3

\* The client allocates getTotalSize() bytes.
Unset == [of |-> Nobody, at |-> 0]
Allocate ==
    /\ pc = "layout" /\ pos = Count
    /\ file' = [a \in 0..total - 1 |-> Unset]
    /\ pc' = "prepared" /\ pos' = 0
    /\ UNCHANGED <<sections, headers, written, total, started>>

-----------------------------------------------------------------------------
(* Writing *)

\* n units of x, from its unit j on, to offset a.
Written(f, a, x, j, n) ==
    [c \in DOMAIN f |-> IF c \in a..a + n - 1 THEN [of |-> x, at |-> j + c - a] ELSE f[c]]

SetSectionsStartAddr ==
    /\ pc \in {"prepared", "done"} /\ ~started
    /\ started' = TRUE
    /\ UNCHANGED <<sections, headers, written, total, file, pc, pos>>

\* appendData: before or after generateELF; refused beyond the size.
AppendData(i, n) ==
    LET s == Sec(i) IN
    /\ pc \in {"prepared", "done"} /\ started
    /\ s.kind = "binary" /\ s.cur + n <= s.size
    /\ file' = Written(file, s.off + s.cur, i, s.cur, n)
    /\ sections' = [sections EXCEPT ![i + 1].cur = @ + n]
    /\ UNCHANGED <<headers, written, total, started, pc, pos>>

StartGenerate ==
    /\ pc = "prepared"
    /\ pc' = "serialize" /\ pos' = 0
    /\ UNCHANGED <<sections, headers, written, total, file, started>>

\* writeRawBytesToStorageVector throws outside the storage.
SerializeSection ==
    LET s == Sec(pos) IN
    /\ pc = "serialize" /\ pos < Count
    /\ IF s.data # 0 /\ (s.off >= total \/ s.off + s.data > total)
       THEN pc' = "threw" /\ UNCHANGED <<file, pos>>
       ELSE /\ file' = Written(file, s.off, pos, 0, s.data)
            /\ pos' = pos + 1
            /\ UNCHANGED pc
    /\ UNCHANGED <<sections, headers, written, total, started>>

\* The ELF header, and behind it the section headers.
WriteHeaders ==
    /\ pc = "serialize" /\ pos = Count
    /\ file' = Written(Written(file, 0, EHdr, 0, EhSize),
                       EhSize, SHdr, 0, ShEntSize * Len(headers))
    /\ pc' = "done" /\ pos' = 0
    /\ UNCHANGED <<sections, headers, written, total, started>>

Next ==
    \/ AddSymbolSection \/ AddRelocationSection
    \/ \E i, p, t \in 0..Count - 1 : SetSymbolTable(i, p, t)
    \/ \E i, p \in 0..Count - 1 : SetSpecialSymbolTable(i, p)
    \/ \E kind \in {"binary", "empty"}, n \in Sizes, a \in Aligns :
           AddDataSection(kind, n, a)
    \/ \E i, r \in 0..Count - 1, b \in Bindings, t \in SymbolTypes : AddSymbolEntry(i, b, t, r)
    \/ \E i \in 0..Count - 1, k \in 0..MaxEntries, n \in Specials, t \in RelocTypes :
           AddRelocationEntry(i, k, n, t)
    \/ StartPrepare \/ FinalizeSection \/ StartLayout \/ LayoutSection \/ Allocate
    \/ SetSectionsStartAddr
    \/ \E i \in 0..Count - 1, n \in Sizes \ {0} : AppendData(i, n)
    \/ StartGenerate \/ SerializeSection \/ WriteHeaders

Spec == Init /\ [][Next]_vars

-----------------------------------------------------------------------------
(* Properties *)

TypeOK ==
    /\ sections \in Seq(Section)
    /\ \A i \in 1..Count : sections[i].symTab < Count
    /\ headers \in Seq(Header)
    /\ total \in Nat /\ started \in BOOLEAN
    /\ pc \in {"build", "finalize", "layout", "prepared", "serialize", "done", "threw"}
    /\ pos \in Nat

\* How much of a section the client or the writer has provided.
Provided(s) == IF s.kind = "binary" THEN s.cur ELSE s.data

\* The file read back through its headers is what was put in: each header is at its
\* place, describes its section, and leads to that section's bytes, although a string
\* table without strings is written over the ELF header on the way (writer.cpp 81-108).
ReadsBack ==
    pc = "done" =>
        /\ Len(headers) = Count
        /\ \A a \in 0..EhSize - 1 : file[a] = [of |-> EHdr, at |-> a]
        /\ \A a \in 0..ShEntSize * Count - 1 : file[ShOff + a] = [of |-> SHdr, at |-> a]
        /\ \A i \in 0..Count - 1 :
               /\ headers[i + 1].size = Sec(i).size
               /\ Occupies(Sec(i)) =>
                      \A j \in 0..Provided(Sec(i)) - 1 :
                          file[headers[i + 1].off + j] = [of |-> i, at |-> j]

\* A section that is in the file begins at a multiple of its alignment, and no two
\* sections or headers overlap (writer.cpp 56-77).
LayoutSound ==
    \A i \in 1..Len(headers) : headers[i].off # 0 =>
        /\ sections[i].align # 0 => headers[i].off % sections[i].align = 0
        /\ headers[i].off >= ShOff + Count * ShEntSize
        /\ headers[i].off + headers[i].size <= total
        /\ \A k \in 1..i - 1 :
               headers[k].off # 0 => headers[k].off + headers[k].size <= headers[i].off

\* generateELF finds room in the storage of getTotalSize() for all it writes, for
\* every set of sections (writer.cpp 188-190).
EverythingFits == pc # "threw"

\* Read as the loader reads it, a written relocation patches the section the client named,
\* with the type it asked for, and leads to the symbol it was given: through sh_link and
\* r_info to the entry that symbol has in the written table, or to the runtime symbol
\* (relocation_section.cpp 52-63 packs, symbol_section.cpp 35-45 sorts and writes,
\* vpux_loader.cpp 880-957 reads).
RelocationsFindSymbols ==
    pc = "done" =>
        \A i \in 0..Count - 1 :
            Sec(i).kind = "relocation" => \A k \in 1..Len(Sec(i).items) :
                LET asked == Sec(i).items[k]
                    hdr == headers[i + 1]
                    info == written[i][k]
                IN  /\ hdr.info = Sec(i).patch
                    /\ elf64RType(info) = asked.type
                    /\ \/ hdr.link = VPU_RT_SYMTAB /\ asked.symbol = 0
                          /\ elf64RSym(info) = asked.special
                       \/ hdr.link < Count /\ asked.symbol # 0
                          /\ written[hdr.link][elf64RSym(info) + 1]
                                = Sec(Sec(i).symTab).items[asked.symbol + 1]

-----------------------------------------------------------------------------
(* Inductive invariant of the layout, for the proofs *)

Base == ShOff + Count * ShEntSize
Preparing == pc \in {"build", "finalize"}

\* The size in a header is that of m_data where there is any; a string table without
\* strings is the exception. The writer holds no data for an empty section, and a
\* symbol table has its null symbol. Nothing is written by the client before the
\* layout is there, nor beyond the size.
DataInv ==
    \A i \in 1..Count :
        LET s == sections[i] IN
        /\ s.data \in {0, s.size} \/ (s.data = 1 /\ s.size = 0)
        /\ s.kind = "empty" => s.data = 0
        /\ s.kind = "symbol" => Len(s.items) > 0
        /\ s.cur <= s.size
        /\ pc \in {"build", "finalize", "layout"} => s.cur = 0

\* How far the loop over the sections is, and what it has left to do.
ProgressInv ==
    /\ Count >= 3 /\ Sec(StrTab).kind = "string" /\ Sec(SymStrTab).kind = "string"
    /\ Preparing => headers = << >>
    /\ pc = "layout" => Len(headers) = pos /\ pos <= Count
    /\ pc \notin {"build", "finalize", "layout"} => Len(headers) = Count
    /\ ~Preparing => total >= Base

\* A header says what its section has been given, and only a section that is in the
\* file has an offset.
HeaderInv ==
    \A i \in 1..Len(headers) :
        /\ headers[i].off = sections[i].off /\ headers[i].size = sections[i].size
        /\ headers[i].link = sections[i].link /\ headers[i].info = sections[i].info
        /\ headers[i].off = 0 <=> ~Occupies(sections[i])
UnplacedInv == \A i \in Len(headers) + 1..Count : sections[i].off = 0

LayoutIInv == DataInv /\ ProgressInv /\ HeaderInv /\ UnplacedInv /\ LayoutSound
=============================================================================
