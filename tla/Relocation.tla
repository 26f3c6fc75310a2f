----------------------------- MODULE Relocation -----------------------------
(***************************************************************************)
(* What relocations do to the bits of one section's buffer.  VPUXLoader     *)
(* abstracts a relocation to the value it writes; here the relocation       *)
(* functions are modelled bit by bit, and so are the two loops over the     *)
(* entries of a section: applyRelocations, which always follows a fresh     *)
(* copy of the image, and applyJitRelocations, which every inference runs   *)
(* on top of what the one before it left.                                   *)
(*                                                                          *)
(* A word is the set of its one bits, bit 0 the least significant: | is     *)
(* union, & intersection, ~m set difference, and a cast to w bits keeps     *)
(* the bits below w.  Arithmetic wraps at the width it is done in.          *)
(***************************************************************************)
EXTENDS Integers, Sequences, FiniteSets, FiniteSetsExt

CONSTANTS
    Size,       \* bytes of the section that is patched
    Blobs,      \* images of it, with the entries of the relocation sections
    Sections,   \* the sections that symbols lie in
    Bases,      \* addresses that these may have
    UserIO,     \* sequences of user buffer addresses that inferences are run with
    Documented, \* relocation types whose documented formula is compared
    MaxPasses   \* bound: passes over the entries

Bits(w) == 0 .. w - 1
Word(w) == SUBSET Bits(w)
Cast(w, a) == a \cap Bits(w)
ShiftLeft(w, a, n) == Cast(w, {i + n : i \in a})
ShiftRight(a, n) == {i - n : i \in {j \in a : j >= n}}

\* The bit i of a sum gets a carry: some lower position generates one and every
\* position between them passes it on.
Carry(a, b, i) == \E j \in a \cap b : j < i /\ \A k \in j + 1 .. i - 1 : k \in a \cup b
Add(w, a, b) == {i \in Bits(w) : ((i \in a) # (i \in b)) # Carry(a, b, i)}
Sub(w, a, b) == Add(w, a, Add(w, Bits(w) \ b, {0}))
Mul(w, a, b) == Cast(w, FoldSet(LAMBDA i, p : Add(w, ShiftLeft(w, a, i), p), {}, b))

\* Words and small naturals.
Binary(n) == {i \in 0 .. 30 : (n \div 2 ^ i) % 2 = 1}
Number(a) == FoldSet(LAMBDA i, n : n + 2 ^ i, 0, a)

-----------------------------------------------------------------------------
(***************************************************************************)
(* The relocation functions: d is the word at the target, s and z the value *)
(* and the size of the symbol, a the addend, v the sum s + a.               *)
(***************************************************************************)
LO_21_BIT_MASK == Bits(21)
B21_B26_MASK == 21 .. 26
ADDRESS_MASK == Bits(32) \ {22, 23}

\* Bits 22 and 23 of an address select entry 0, 4, 8 or 12 of multicast_masks; these
\* are its hexadecimal digits, the lowest first.
multicast_masks(m) == CASE m = 0 -> <<0, 0, 0, 0>> [] m = 4  -> <<2, 1, 0, 0>>
                        [] m = 8 -> <<1, 1, 2, 0>> [] m = 12 -> <<0, 1, 2, 3>>
broadcast_mask(v) == Number(ShiftRight(v \cap {22, 23}, 20))
to_dpu_multicast_base(v) ==
    (v \cap ADDRESS_MASK) \cup ShiftLeft(32, Binary(multicast_masks(broadcast_mask(v))[1]), 20)

\* offs[i], which is SLICE_LENGTH >> 4 (bit 17) times a digit of the mask.
offs(v, i) == ShiftLeft(32, Binary(multicast_masks(broadcast_mask(v))[i + 2]), 17)

VPU_16_BIT_SUM(d, v) == Add(16, d, Cast(16, v))
VPU_64_BIT_MULT(d, s) == Mul(64, d, s)
VPU_64_BIT_MULT_SUB(d, s, a) == Mul(64, d, Sub(64, a, s))
VPU_64_BIT(d, v) == v
VPU_64_BIT_OR(d, v) == d \cup v
\* The shift count is taken modulo 64, as the processors do.
VPU_64_BIT_LSHIFT(d, s) == ShiftLeft(64, d, Number(Cast(6, s)))
\* The slot index that d holds in its low bits is not cleared.
VPU_DISP40_RTM(d, s, z, a) ==
    d \cup Cast(40, Add(64, s, Mul(64, a, Cast(40, d) \cap Sub(64, z, {0}))))
VPU_32_BIT(d, v) == Cast(32, v)
VPU_32_BIT_RTM(d, s, z, a) ==
    Cast(32, Add(64, s, Mul(64, a, d \cap Sub(64, z, {0}))))
VPU_32_BIT_SUM(d, v) == Add(32, d, Cast(32, v))
VPU_32_MULTICAST_BASE(d, v) == to_dpu_multicast_base(Cast(32, v))
VPU_32_MULTICAST_BASE_SUB(d, v) == Sub(32, to_dpu_multicast_base(Cast(32, v)), d)
\* The index in d is 0, 1 or 2: behind offs lies whatever the stack holds.
VPU_DISP28_MULTICAST_OFFSET(d, v) ==
    Cast(4, d) \cup ShiftLeft(32, offs(Cast(32, v), Number(ShiftRight(d, 4))), 4)
VPU_DISP4_MULTICAST_OFFSET(d, v) ==
    (d \ Bits(4)) \cup {b \in {0} : offs(Cast(32, v), Number(Cast(4, d))) # {}}
VPU_LO_21_BIT(d, v) == (d \ LO_21_BIT_MASK) \cup (v \cap LO_21_BIT_MASK)
VPU_LO_21_BIT_SUM(d, v) == Add(32, d, v \cap LO_21_BIT_MASK)
VPU_LO_21_BIT_MULTICAST_BASE(d, v) == to_dpu_multicast_base(v \cap LO_21_BIT_MASK)
VPU_16_BIT_LSB_21_RSHIFT_5(d, v) ==
    (d \ Bits(16)) \cup ShiftRight(v \cap LO_21_BIT_MASK, 5)
VPU_LO_21_BIT_RSHIFT_4(d, v) ==
    (d \ LO_21_BIT_MASK) \cup ShiftRight(v \cap LO_21_BIT_MASK, 4)
VPU_CMX_LOCAL_RSHIFT_5(d, v) == ShiftRight(Cast(32, v) \ B21_B26_MASK, 5)
VPU_32_BIT_OR_B21_B26_UNSET(d, v) == d \cup (Cast(32, v) \ B21_B26_MASK)
\* ~B21_B26_MASK is a 32 bit value: widened, it clears the upper half too.
VPU_64_BIT_OR_B21_B26_UNSET(d, v) == d \cup (Cast(32, v) \ B21_B26_MASK)
\* Faulty variant: the mask of the neighbouring field is cleared as well.
VPU_16_BIT_LSB_21_RSHIFT_5_LSHIFT_16_wide(d, v) ==
    ShiftLeft(32, ShiftRight(v \cap LO_21_BIT_MASK, 5), 16)
VPU_16_BIT_LSB_21_RSHIFT_5_LSHIFT_16(d, v) ==
    (d \ (16 .. 31)) \cup ShiftLeft(32, ShiftRight(v \cap LO_21_BIT_MASK, 5), 16)
\* Faulty variant: the bit that moves to 14 goes where the others go.
VPU_16_BIT_LSB_21_RSHIFT_5_LSHIFT_CUSTOM_whole(d, v) ==
    (d \ ({14} \cup 17 .. 31)) \cup ShiftLeft(32, ShiftRight(v \cap LO_21_BIT_MASK, 5), 16)
VPU_16_BIT_LSB_21_RSHIFT_5_LSHIFT_CUSTOM(d, v) ==
    LET src == ShiftRight(v \cap LO_21_BIT_MASK, 5) IN
    (d \ ({14} \cup 17 .. 31)) \cup ShiftLeft(32, src \ {0}, 16) \cup ShiftLeft(32, src \cap {0}, 14)
VPU_32_BIT_OR_B21_B26_UNSET_HIGH_16(d, v) == d \cup ShiftRight(Cast(32, v) \ B21_B26_MASK, 16)
VPU_32_BIT_OR_B21_B26_UNSET_LOW_16(d, v) == d \cup (Cast(16, v) \ B21_B26_MASK)
VPU_HIGH_27_BIT_OR(d, v) ==
    d \cup ShiftLeft(64, Cast(27, ShiftRight(Cast(32, v) \ (21 .. 23), 4)), 37)

\* relocationMap, with the width of the word each function works on.
relocationMap(t, d, s, z, a) ==
    LET v == Add(64, s, a) IN
    CASE t = "R_VPU_64"                     -> VPU_64_BIT(d, v)
      [] t = "R_VPU_64_OR"                  -> VPU_64_BIT_OR(d, v)
      [] t = "R_VPU_DISP40_RTM"             -> VPU_DISP40_RTM(d, s, z, a)
      [] t = "R_VPU_64_LSHIFT"              -> VPU_64_BIT_LSHIFT(d, s)
      [] t = "R_VPU_32"                     -> VPU_32_BIT(d, v)
      [] t = "R_VPU_32_RTM"                 -> VPU_32_BIT_RTM(d, s, z, a)
      [] t = "R_VPU_32_SUM"                 -> VPU_32_BIT_SUM(d, v)
      [] t = "R_VPU_32_MULTICAST_BASE"      -> VPU_32_MULTICAST_BASE(d, v)
      [] t = "R_VPU_32_MULTICAST_BASE_SUB"  -> VPU_32_MULTICAST_BASE_SUB(d, v)
      [] t = "R_VPU_DISP28_MULTICAST_OFFSET" -> VPU_DISP28_MULTICAST_OFFSET(d, v)
      [] t = "R_VPU_DISP4_MULTICAST_OFFSET_CMP" -> VPU_DISP4_MULTICAST_OFFSET(d, v)
      [] t = "R_VPU_LO_21"                  -> VPU_LO_21_BIT(d, v)
      [] t = "R_VPU_LO_21_SUM"              -> VPU_LO_21_BIT_SUM(d, v)
      [] t = "R_VPU_LO_21_MULTICAST_BASE"   -> VPU_LO_21_BIT_MULTICAST_BASE(d, v)
      [] t = "R_VPU_16_LSB_21_RSHIFT_5"     -> VPU_16_BIT_LSB_21_RSHIFT_5(d, v)
      [] t = "R_VPU_LO_21_RSHIFT_4"         -> VPU_LO_21_BIT_RSHIFT_4(d, v)
      [] t = "R_VPU_CMX_LOCAL_RSHIFT_5"     -> VPU_CMX_LOCAL_RSHIFT_5(d, v)
      [] t = "R_VPU_32_BIT_OR_B21_B26_UNSET" -> VPU_32_BIT_OR_B21_B26_UNSET(d, v)
      [] t = "R_VPU_64_BIT_OR_B21_B26_UNSET" -> VPU_64_BIT_OR_B21_B26_UNSET(d, v)
      [] t = "R_VPU_16_LSB_21_RSHIFT_5_LSHIFT_16" -> VPU_16_BIT_LSB_21_RSHIFT_5_LSHIFT_16(d, v)
      [] t = "R_VPU_16_LSB_21_RSHIFT_5_LSHIFT_CUSTOM" ->
             VPU_16_BIT_LSB_21_RSHIFT_5_LSHIFT_CUSTOM(d, v)
      [] t = "R_VPU_32_BIT_OR_B21_B26_UNSET_HIGH_16" -> VPU_32_BIT_OR_B21_B26_UNSET_HIGH_16(d, v)
      [] t = "R_VPU_32_BIT_OR_B21_B26_UNSET_LOW_16" -> VPU_32_BIT_OR_B21_B26_UNSET_LOW_16(d, v)
      [] t = "R_VPU_HIGH_27_BIT_OR"         -> VPU_HIGH_27_BIT_OR(d, v)
      [] t = "R_VPU_16_SUM"                 -> VPU_16_BIT_SUM(d, v)
      [] t = "R_VPU_64_MULT"                -> VPU_64_BIT_MULT(d, s)
      [] t = "R_VPU_64_MULT_SUB"            -> VPU_64_BIT_MULT_SUB(d, s, a)

\* The width of the word that the function of each type reads and writes.
Width64 == {"R_VPU_64", "R_VPU_64_OR", "R_VPU_DISP40_RTM", "R_VPU_64_LSHIFT",
            "R_VPU_64_BIT_OR_B21_B26_UNSET", "R_VPU_HIGH_27_BIT_OR", "R_VPU_64_MULT",
            "R_VPU_64_MULT_SUB"}
Width16 == {"R_VPU_16_SUM", "R_VPU_32_BIT_OR_B21_B26_UNSET_HIGH_16",
            "R_VPU_32_BIT_OR_B21_B26_UNSET_LOW_16"}
Width32 == {"R_VPU_32", "R_VPU_32_RTM", "R_VPU_32_SUM", "R_VPU_32_MULTICAST_BASE",
            "R_VPU_32_MULTICAST_BASE_SUB", "R_VPU_DISP28_MULTICAST_OFFSET",
            "R_VPU_DISP4_MULTICAST_OFFSET_CMP", "R_VPU_LO_21", "R_VPU_LO_21_SUM",
            "R_VPU_LO_21_MULTICAST_BASE", "R_VPU_16_LSB_21_RSHIFT_5",
            "R_VPU_LO_21_RSHIFT_4", "R_VPU_CMX_LOCAL_RSHIFT_5",
            "R_VPU_32_BIT_OR_B21_B26_UNSET", "R_VPU_16_LSB_21_RSHIFT_5_LSHIFT_16",
            "R_VPU_16_LSB_21_RSHIFT_5_LSHIFT_CUSTOM"}
RelocationTypes == Width64 \cup Width32 \cup Width16
WidthOf(t) == CASE t \in Width64 -> 64 [] t \in Width32 -> 32 [] t \in Width16 -> 16

\* The bits of that word which a relocation of the type may change.
Field(t) ==
    CASE t \in {"R_VPU_LO_21", "R_VPU_LO_21_RSHIFT_4"}    -> Bits(21)
      [] t = "R_VPU_16_LSB_21_RSHIFT_5"                   -> Bits(16)
      [] t = "R_VPU_16_LSB_21_RSHIFT_5_LSHIFT_16"         -> 16 .. 31
      [] t = "R_VPU_16_LSB_21_RSHIFT_5_LSHIFT_CUSTOM"     -> {14} \cup 17 .. 31
      [] t = "R_VPU_DISP28_MULTICAST_OFFSET"              -> 4 .. 31
      [] t = "R_VPU_DISP4_MULTICAST_OFFSET_CMP"           -> Bits(4)
      [] t = "R_VPU_DISP40_RTM"                           -> Bits(40)
      [] t = "R_VPU_HIGH_27_BIT_OR"                       -> 37 .. 63
      [] t = "R_VPU_32_BIT_OR_B21_B26_UNSET"              -> Bits(32) \ B21_B26_MASK
      [] t = "R_VPU_64_BIT_OR_B21_B26_UNSET"              -> Bits(32) \ B21_B26_MASK
      [] OTHER                                            -> Bits(WidthOf(t))

\* The types that overwrite their field whatever it holds; the others build on it.
Overwriting ==
    {"R_VPU_64", "R_VPU_32", "R_VPU_32_MULTICAST_BASE", "R_VPU_LO_21",
     "R_VPU_LO_21_MULTICAST_BASE", "R_VPU_16_LSB_21_RSHIFT_5", "R_VPU_LO_21_RSHIFT_4",
     "R_VPU_CMX_LOCAL_RSHIFT_5", "R_VPU_16_LSB_21_RSHIFT_5_LSHIFT_16",
     "R_VPU_16_LSB_21_RSHIFT_5_LSHIFT_CUSTOM"}

-----------------------------------------------------------------------------
(***************************************************************************)
(* Entries.  An entry names a byte offset in the section, a symbol by index *)
(* and an addend; a symbol of the file lies in a section (sec) whose        *)
(* address is added to its value.                                           *)
(***************************************************************************)
Entry == [type : RelocationTypes \cup {"unknown"}, offset : Nat, sym : Nat, addend : Word(64)]
Symbol == [value : Word(64), size : Word(64), sec : Sections]
Blob == [image : Word(8 * Size), syms : Seq(Symbol), rela : Seq(Entry), jit : Seq(Entry)]

(***************************************************************************)
(* The compiler's output: entries fit into the section and name symbols of  *)
(* their table, and JIT sections hold overwriting types only.  The loader   *)
(* does not check the width, the last symbol index or the JIT types.        *)
(***************************************************************************)
Fits(e) == e.offset >= Size \/ e.type \notin RelocationTypes
           \/ 8 * e.offset + WidthOf(e.type) <= 8 * Size
\* The first symbol of a table, index 0, is the undefined one.
SymTabEntries(b) == Len(b.syms) + 1
ASSUME SizeAssumption == Size \in Nat \ {0} /\ MaxPasses \in Nat
ASSUME BlobsAssumption ==
    /\ Blobs \subseteq Blob
    /\ \A b \in Blobs : \A i \in DOMAIN b.rela :
          Fits(b.rela[i]) /\ b.rela[i].sym \notin {0, SymTabEntries(b)}
    /\ \A b \in Blobs : \A i \in DOMAIN b.jit :
          /\ Fits(b.jit[i]) /\ b.jit[i].sym \in 1 .. Len(b.syms)
          /\ b.jit[i].type \in Overwriting \cup {"unknown"}
ASSUME AddressAssumption ==
    /\ UserIO \subseteq Seq(Word(64))
    /\ Bases \subseteq [Sections -> Word(64)]

VARIABLES
    blob,     \* the blob: image, symbols and entries
    mem,      \* the bits of the section's buffer
    at,       \* the loop that runs and its next entry
    base,     \* the addresses that were last relocated against
    user,     \* the user buffers of the last inference
    whole,    \* history: applyRelocations got through the entries
    ran,      \* history: what became of the last inference on these addresses
    passes    \* passes over the entries so far

vars == <<blob, mem, at, base, user, whole, ran, passes>>

AtByte(e, a) == {8 * e.offset + i : i \in a}
Target(m, e) == Cast(WidthOf(e.type), ShiftRight(m, 8 * e.offset))

\* relocFunc((void*)(targetSectionAddr + relOffset), targetSymbol, addend)
Relocate(m, e, s, z) ==
    (m \ AtByte(e, Bits(WidthOf(e.type))))
    \cup AtByte(e, relocationMap(e.type, Target(m, e), s, z, e.addend))

\* st_value += vpu_addr of the section that the symbol lies in.
SymbolValue(b, sym) == Add(64, sym.value, b[sym.sec])

\* userAddrs[symIdx - 1].vpu_addr().  Faulty variant: userAddrs[symIdx].
UserAddressNext(e) == IF e.sym < Len(user) THEN user[e.sym + 1] ELSE {}
UserAddress(e) == user[e.sym]

\* The checks that come before relocFunc; limits are what the symbol index is compared
\* with.  Faulty variant: the offset is not looked at.
EntryRefusedAnywhere(e, limits) ==
    (\E n \in limits : e.sym > n) \/ e.type \notin RelocationTypes
EntryRefused(e, limits) ==
    e.offset >= Size \/ (\E n \in limits : e.sym > n) \/ e.type \notin RelocationTypes

-----------------------------------------------------------------------------
Idle == [pc |-> "idle", pos |-> 0]

Init ==
    /\ blob \in Blobs /\ base \in Bases
    /\ mem = {} /\ at = Idle /\ user = << >>
    /\ whole = FALSE /\ ran = "none" /\ passes = 0

\* load(), a copy, and updateSharedScratchBuffers: the image is copied in, then
\* relocated.
applyRelocations(b) ==
    /\ at.pc = "idle" /\ passes < MaxPasses
    /\ mem' = blob.image
    /\ base' = b /\ whole' = FALSE /\ ran' = "none"
    /\ at' = [pc |-> "reloc", pos |-> 1]
    /\ passes' = passes + 1
    /\ UNCHANGED <<blob, user>>

RelocEntry ==
    /\ at.pc = "reloc" /\ at.pos <= Len(blob.rela)
    /\ LET e == blob.rela[at.pos] IN
       \/ /\ EntryRefused(e, {SymTabEntries(blob)})
          /\ at' = Idle
          /\ UNCHANGED mem
       \/ /\ ~EntryRefused(e, {SymTabEntries(blob)})
          /\ LET y == blob.syms[e.sym] IN
             mem' = Relocate(mem, e, SymbolValue(base, y), y.size)
          /\ at' = [at EXCEPT !.pos = @ + 1]
    /\ UNCHANGED <<blob, base, user, whole, ran, passes>>

RelocDone ==
    /\ at.pc = "reloc" /\ at.pos > Len(blob.rela)
    /\ at' = Idle /\ whole' = TRUE
    /\ UNCHANGED <<blob, mem, base, user, ran, passes>>

\* Every inference: the user buffers are patched in over the last ones.
applyJitRelocations(u) ==
    /\ at.pc = "idle" /\ passes > 0 /\ passes < MaxPasses
    /\ at' = [pc |-> "jit", pos |-> 1]
    /\ user' = u /\ ran' = "failed"
    /\ passes' = passes + 1
    /\ UNCHANGED <<blob, mem, base, whole>>

JitEntry ==
    /\ at.pc = "jit" /\ at.pos <= Len(blob.jit)
    /\ LET e == blob.jit[at.pos] IN
       \/ /\ EntryRefused(e, {SymTabEntries(blob), Len(user)})
          /\ at' = Idle
          /\ UNCHANGED mem
       \/ /\ ~EntryRefused(e, {SymTabEntries(blob), Len(user)})
          /\ mem' = Relocate(mem, e, UserAddress(e), blob.syms[e.sym].size)
          /\ at' = [at EXCEPT !.pos = @ + 1]
    /\ UNCHANGED <<blob, base, user, whole, ran, passes>>

JitDone ==
    /\ at.pc = "jit" /\ at.pos > Len(blob.jit)
    /\ at' = Idle /\ ran' = "done"
    /\ UNCHANGED <<blob, mem, base, user, whole, passes>>

Next ==
    \/ \E b \in Bases : applyRelocations(b)
    \/ \E u \in UserIO : applyJitRelocations(u)
    \/ RelocEntry \/ RelocDone \/ JitEntry \/ JitDone

Spec == Init /\ [][Next]_vars

-----------------------------------------------------------------------------
(* Properties *)

\* Types of the variables.
TypeOK ==
    /\ blob \in Blobs /\ base \in Bases
    /\ mem \in Word(8 * Size)
    /\ at.pc \in {"idle", "reloc", "jit"} /\ at.pos \in Nat
    /\ user \in UserIO \cup {<< >>}
    /\ whole \in BOOLEAN /\ ran \in {"none", "failed", "done"}
    /\ passes \in 0 .. MaxPasses

FieldOf(e) == IF e.type \in RelocationTypes THEN AtByte(e, Field(e.type)) ELSE {}

\* The fields of one register are patched by entries of their own: whatever entries
\* are applied, and however often, a bit that lies in no entry's field is the image's.
NeighboursKept ==
    passes > 0 =>
        \A i \in Bits(8 * Size) :
            (\A q \in {blob.rela, blob.jit} : \A k \in DOMAIN q : i \notin FieldOf(q[k])) =>
                (i \in mem <=> i \in blob.image)

\* What an entry of an overwriting type leaves in its field.
Overwritten(e, u) ==
    AtByte(e, relocationMap(e.type, {}, u[e.sym], blob.syms[e.sym].size, e.addend))

\* Bit i carries what the last of the first n JIT entries that covers it writes.
LastWriter(n, u) ==
    \A j \in 1 .. n : \A i \in FieldOf(blob.jit[j]) :
        (\A k \in j + 1 .. n : i \notin FieldOf(blob.jit[k])) =>
            (i \in mem <=> i \in Overwritten(blob.jit[j], u))

\* vpux_loader.cpp:991-1107: after an inference every JIT field holds its user buffers
\* alone: nothing of earlier inferences shines through, although they are not undone,
\* and an inference that threw half way is repaired by the next.
LastInferenceWins ==
    at.pc = "idle" /\ ran = "done" => LastWriter(Len(blob.jit), user)

(***************************************************************************)
(* The formulas of vpu_extensions.hpp as they are written there, read as    *)
(* which bit of S + A goes to which bit of Dst; && is the logical and.      *)
(***************************************************************************)
\* Dst[F] = v, and Dst |= v.
Set(d, F, v) == (d \ F) \cup (v \cap F)
From(v, F, k) == {i \in F : i + k \in v}

Formula(t, d, s, z, a) ==
    LET v == Add(64, s, a)
        slot(w) == Add(64, s, Mul(64, a, Cast(w, d) \cap Sub(64, z, {0})))
        local == Cast(32, v) \ (21 .. 26)
    IN
    CASE t \in {"R_VPU_64", "R_VPU_32"} -> From(v, Bits(WidthOf(t)), 0)
      [] t = "R_VPU_64_OR" -> d \cup v
      [] t = "R_VPU_DISP40_RTM" -> Set(d, Bits(40), slot(40))
      [] t = "R_VPU_64_LSHIFT" -> {i \in Bits(64) : i - Number(s) \in d}
      [] t = "R_VPU_32_RTM" -> Cast(32, slot(64))
      [] t \in {"R_VPU_32_SUM", "R_VPU_16_SUM"} -> Add(WidthOf(t), d, Cast(WidthOf(t), v))
      [] t = "R_VPU_32_MULTICAST_BASE" -> to_dpu_multicast_base(Cast(32, v))
      [] t = "R_VPU_32_MULTICAST_BASE_SUB" -> Sub(32, to_dpu_multicast_base(Cast(32, v)), d)
      [] t = "R_VPU_DISP28_MULTICAST_OFFSET" ->
             Set(d, 4 .. 31, {i + 4 : i \in offs(Cast(32, v), Number(ShiftRight(d, 4)))})
      [] t = "R_VPU_DISP4_MULTICAST_OFFSET_CMP" ->
             Set(d, Bits(4), offs(Cast(32, v), Number(Cast(4, d))))
      [] t = "R_VPU_64_MULT" -> Mul(64, d, s)
      [] t = "R_VPU_64_MULT_SUB" -> Mul(64, d, Sub(64, a, s))
      [] t = "R_VPU_LO_21" -> Set(d, 0 .. 20, v)
      [] t = "R_VPU_LO_21_SUM" -> Add(32, d, From(v, 0 .. 20, 0))
      [] t = "R_VPU_LO_21_MULTICAST_BASE" -> From(v, 0 .. 20, 0)
      [] t = "R_VPU_16_LSB_21_RSHIFT_5" -> Set(d, 0 .. 15, From(v, 0 .. 15, 5))
      [] t = "R_VPU_LO_21_RSHIFT_4" -> From(v, 0 .. 16, 4)
      [] t = "R_VPU_CMX_LOCAL_RSHIFT_5" -> From(local, 0 .. 26, 5)
      [] t \in {"R_VPU_32_BIT_OR_B21_B26_UNSET", "R_VPU_64_BIT_OR_B21_B26_UNSET"} -> d \cup local
      [] t = "R_VPU_16_LSB_21_RSHIFT_5_LSHIFT_16" -> Set(d, 13 .. 15, From(v, 16 .. 31, -11))
      [] t = "R_VPU_16_LSB_21_RSHIFT_5_LSHIFT_CUSTOM" ->
             Set(Set(d, 17 .. 31, From(v, 17 .. 31, -11)), {14}, From(v, {14}, -9))
      [] t = "R_VPU_32_BIT_OR_B21_B26_UNSET_HIGH_16" -> d \cup From(local, 0 .. 15, 16)
      [] t = "R_VPU_32_BIT_OR_B21_B26_UNSET_LOW_16" -> d \cup {b \in {0} : local # {}}
      [] t = "R_VPU_HIGH_27_BIT_OR" ->
             d \cup From(v \ (21 .. 23), 37 .. 63, -33)

(***************************************************************************)
(* The types whose function does something else: two do not clear or mask   *)
(* what the formula does (lines 32 and 80), one keeps bits that the formula *)
(* overwrites (125), and two formulas name other bits of Dst than the       *)
(* function patches (145), or take && for & (161).                          *)
(***************************************************************************)
Differing == {"R_VPU_DISP40_RTM", "R_VPU_DISP4_MULTICAST_OFFSET_CMP", "R_VPU_LO_21_RSHIFT_4",
              "R_VPU_16_LSB_21_RSHIFT_5_LSHIFT_16", "R_VPU_32_BIT_OR_B21_B26_UNSET_LOW_16"}

Formulated(m, e, s, z) ==
    (m \ AtByte(e, Bits(WidthOf(e.type))))
    \cup AtByte(e, Formula(e.type, Target(m, e), s, z, e.addend))

\* The buffer m after the first n of the entries q of blob b, applied by their formulas
\* with the symbol values s.
Patched(b, m, q, s) ==
    LET f[n \in 0 .. Len(q)] ==
            IF n = 0 THEN m ELSE Formulated(f[n - 1], q[n], s[n], b.syms[q[n].sym].size)
    IN f

\* The image of b, with the entries applied once by their formulas: against the
\* addresses c, then against the user buffers u.
RelocatedImages(b, c) ==
    Patched(b, b.image, b.rela,
            [k \in DOMAIN b.rela |-> SymbolValue(c, b.syms[b.rela[k].sym])])
InferenceImages(b, c, u) ==
    Patched(b, RelocatedImages(b, c)[Len(b.rela)], b.jit,
            [k \in DOMAIN b.jit |-> u[b.jit[k].sym]])
FormulatedImage ==
    IF ran = "none" THEN RelocatedImages(blob, base)[Len(blob.rela)]
    ELSE InferenceImages(blob, base, user)[Len(blob.jit)]

\* vpu_extensions.hpp:20-169: between calls the buffer holds the image with every
\* entry applied once by the formula of its type, against the present addresses and
\* the last user buffers, whatever reloads and inferences there were before.
FollowsFormulas ==
    at.pc = "idle" /\ whole /\ ran # "failed"
    /\ (\A k \in DOMAIN blob.rela : blob.rela[k].type \in Documented)
    /\ (\A k \in DOMAIN blob.jit : blob.jit[k].type \in Documented)
        => mem = FormulatedImage
=============================================================================
