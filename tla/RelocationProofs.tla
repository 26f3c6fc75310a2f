-------------------------- MODULE RelocationProofs --------------------------
(***************************************************************************)
(* What a pass over the entries does to the bits of a section's buffer      *)
(* (Relocation): it leaves the neighbours of the fields alone, undoes       *)
(* whatever an earlier inference left, and does what the formula of each    *)
(* type says, for every blob, any addresses and any number of passes.       *)
(***************************************************************************)
EXTENDS Relocation, TLAPS, FiniteSetTheorems, WellFoundedInduction

\* Words are closed under what the relocation functions do.
LEMMA WordFacts ==
    ASSUME NEW w \in Nat, NEW a, NEW b
    PROVE  Cast(w, a) \subseteq Bits(w) /\ Add(w, a, b) \subseteq Bits(w)
BY DEF Cast, Add

\* So is multiplication.
LEMMA MulFacts ==
    ASSUME NEW w \in Nat, NEW a, NEW b
    PROVE  Mul(w, a, b) \subseteq Bits(w)
<1>1. \A x : Cast(w, x) \subseteq Bits(w)
  BY WordFacts
<1> QED BY <1>1, Zenon DEF Mul

\* The places of the bits of a shifted word.
LEMMA ShiftLeftBits ==
    ASSUME NEW w \in Nat, NEW a, a \subseteq Int, NEW n \in Int, NEW i
    PROVE  i \in ShiftLeft(w, a, n) <=> i \in Bits(w) /\ i - n \in a
<1>1. CASE i \in Bits(w)
  <2>1. i \in Int
    BY <1>1 DEF Bits
  <2>2. i - n \in a => \E j \in a : i = j + n
    BY <2>1
  <2>3. ASSUME NEW j \in a, i = j + n PROVE i - n \in a
    <3>1. j \in Int /\ i - n = j
      BY <2>3
    <3> QED BY <3>1
  <2> QED BY <1>1, <2>2, <2>3 DEF ShiftLeft, Cast
<1>2. CASE i \notin Bits(w)
  BY <1>2 DEF ShiftLeft, Cast
<1> QED BY <1>1, <1>2

\* The same for a shift to the right.
LEMMA ShiftRightBits ==
    ASSUME NEW a, a \subseteq Int, NEW n \in Int, NEW i
    PROVE  i \in ShiftRight(a, n) <=> i \in Nat /\ i + n \in a
<1>1. CASE i \in Nat
  <2>1. i + n \in a => \E j \in {k \in a : k >= n} : i = j - n
    BY <1>1
  <2>2. ASSUME NEW j \in {k \in a : k >= n}, i = j - n PROVE i + n \in a
    <3>1. j \in Int /\ i + n = j
      BY <2>2
    <3> QED BY <3>1
  <2> QED BY <1>1, <2>1, <2>2 DEF ShiftRight
<1>2. CASE i \notin Nat
  <2>1. ASSUME NEW j \in {k \in a : k >= n} PROVE j - n \in Nat
    BY <2>1
  <2> QED BY <1>2, <2>1 DEF ShiftRight
<1> QED BY <1>1, <1>2

\* A function that leaves the rest of its word alone.
Result(t, d, r) ==
    /\ r \subseteq Bits(WidthOf(t))
    /\ \A i \in Bits(WidthOf(t)) \ Field(t) : i \in r <=> i \in d

\* Each type has its function, which works on words of its width and on its field.
LEMMA Dispatch ==
    ASSUME NEW d, NEW s, NEW z, NEW a, NEW v, v = Add(64, s, a)
    PROVE  /\ relocationMap("R_VPU_64", d, s, z, a) = VPU_64_BIT(d, v)
           /\ relocationMap("R_VPU_64_OR", d, s, z, a) = VPU_64_BIT_OR(d, v)
           /\ relocationMap("R_VPU_DISP40_RTM", d, s, z, a) = VPU_DISP40_RTM(d, s, z, a)
           /\ relocationMap("R_VPU_64_LSHIFT", d, s, z, a) = VPU_64_BIT_LSHIFT(d, s)
           /\ relocationMap("R_VPU_32", d, s, z, a) = VPU_32_BIT(d, v)
           /\ relocationMap("R_VPU_32_RTM", d, s, z, a) = VPU_32_BIT_RTM(d, s, z, a)
           /\ relocationMap("R_VPU_32_SUM", d, s, z, a) = VPU_32_BIT_SUM(d, v)
           /\ relocationMap("R_VPU_32_MULTICAST_BASE", d, s, z, a) = VPU_32_MULTICAST_BASE(d, v)
           /\ relocationMap("R_VPU_32_MULTICAST_BASE_SUB", d, s, z, a) = VPU_32_MULTICAST_BASE_SUB(d, v)
           /\ relocationMap("R_VPU_DISP28_MULTICAST_OFFSET", d, s, z, a) = VPU_DISP28_MULTICAST_OFFSET(d, v)
           /\ relocationMap("R_VPU_DISP4_MULTICAST_OFFSET_CMP", d, s, z, a) = VPU_DISP4_MULTICAST_OFFSET(d, v)
           /\ relocationMap("R_VPU_LO_21", d, s, z, a) = VPU_LO_21_BIT(d, v)
           /\ relocationMap("R_VPU_LO_21_SUM", d, s, z, a) = VPU_LO_21_BIT_SUM(d, v)
           /\ relocationMap("R_VPU_LO_21_MULTICAST_BASE", d, s, z, a) = VPU_LO_21_BIT_MULTICAST_BASE(d, v)
           /\ relocationMap("R_VPU_16_LSB_21_RSHIFT_5", d, s, z, a) = VPU_16_BIT_LSB_21_RSHIFT_5(d, v)
           /\ relocationMap("R_VPU_LO_21_RSHIFT_4", d, s, z, a) = VPU_LO_21_BIT_RSHIFT_4(d, v)
           /\ relocationMap("R_VPU_CMX_LOCAL_RSHIFT_5", d, s, z, a) = VPU_CMX_LOCAL_RSHIFT_5(d, v)
           /\ relocationMap("R_VPU_32_BIT_OR_B21_B26_UNSET", d, s, z, a) = VPU_32_BIT_OR_B21_B26_UNSET(d, v)
           /\ relocationMap("R_VPU_64_BIT_OR_B21_B26_UNSET", d, s, z, a) = VPU_64_BIT_OR_B21_B26_UNSET(d, v)
           /\ relocationMap("R_VPU_16_LSB_21_RSHIFT_5_LSHIFT_16", d, s, z, a) = VPU_16_BIT_LSB_21_RSHIFT_5_LSHIFT_16(d, v)
           /\ relocationMap("R_VPU_16_LSB_21_RSHIFT_5_LSHIFT_CUSTOM", d, s, z, a) = VPU_16_BIT_LSB_21_RSHIFT_5_LSHIFT_CUSTOM(d, v)
           /\ relocationMap("R_VPU_32_BIT_OR_B21_B26_UNSET_HIGH_16", d, s, z, a) = VPU_32_BIT_OR_B21_B26_UNSET_HIGH_16(d, v)
           /\ relocationMap("R_VPU_32_BIT_OR_B21_B26_UNSET_LOW_16", d, s, z, a) = VPU_32_BIT_OR_B21_B26_UNSET_LOW_16(d, v)
           /\ relocationMap("R_VPU_HIGH_27_BIT_OR", d, s, z, a) = VPU_HIGH_27_BIT_OR(d, v)
           /\ relocationMap("R_VPU_16_SUM", d, s, z, a) = VPU_16_BIT_SUM(d, v)
           /\ relocationMap("R_VPU_64_MULT", d, s, z, a) = VPU_64_BIT_MULT(d, s)
           /\ relocationMap("R_VPU_64_MULT_SUB", d, s, z, a) = VPU_64_BIT_MULT_SUB(d, s, a)
BY Zenon DEF relocationMap

\* The type decides the width of the word.
LEMMA Widths ==
    /\ \A t \in Width64 : WidthOf(t) = 64
    /\ \A t \in Width32 : WidthOf(t) = 32
    /\ \A t \in Width16 : WidthOf(t) = 16
BY DEF WidthOf, Width64, Width32, Width16

\* The types that keep a part of their word.
Partial == {
    "R_VPU_DISP40_RTM",
    "R_VPU_DISP28_MULTICAST_OFFSET",
    "R_VPU_DISP4_MULTICAST_OFFSET_CMP",
    "R_VPU_LO_21",
    "R_VPU_16_LSB_21_RSHIFT_5",
    "R_VPU_LO_21_RSHIFT_4",
    "R_VPU_32_BIT_OR_B21_B26_UNSET",
    "R_VPU_64_BIT_OR_B21_B26_UNSET",
    "R_VPU_16_LSB_21_RSHIFT_5_LSHIFT_16",
    "R_VPU_16_LSB_21_RSHIFT_5_LSHIFT_CUSTOM",
    "R_VPU_HIGH_27_BIT_OR"}

\* What each of them changes; the other types own their whole word.
LEMMA Fields ==
    /\ Field("R_VPU_DISP40_RTM") = Bits(40)
    /\ Field("R_VPU_DISP28_MULTICAST_OFFSET") = 4 .. 31
    /\ Field("R_VPU_DISP4_MULTICAST_OFFSET_CMP") = Bits(4)
    /\ Field("R_VPU_LO_21") = Bits(21)
    /\ Field("R_VPU_16_LSB_21_RSHIFT_5") = Bits(16)
    /\ Field("R_VPU_LO_21_RSHIFT_4") = Bits(21)
    /\ Field("R_VPU_32_BIT_OR_B21_B26_UNSET") = Bits(32) \ B21_B26_MASK
    /\ Field("R_VPU_64_BIT_OR_B21_B26_UNSET") = Bits(32) \ B21_B26_MASK
    /\ Field("R_VPU_16_LSB_21_RSHIFT_5_LSHIFT_16") = 16 .. 31
    /\ Field("R_VPU_16_LSB_21_RSHIFT_5_LSHIFT_CUSTOM") = {14} \cup 17 .. 31
    /\ Field("R_VPU_HIGH_27_BIT_OR") = 37 .. 63
    /\ \A t \in RelocationTypes \ Partial : Field(t) = Bits(WidthOf(t))
BY DEF Field, RelocationTypes, Partial, Width64, Width32, Width16

\* The multicast masks stay within 32 bits.
LEMMA MulticastBits ==
    ASSUME NEW v, NEW i
    PROVE  to_dpu_multicast_base(v) \subseteq Bits(32) /\ offs(v, i) \subseteq Bits(32)
BY DEF to_dpu_multicast_base, offs, ShiftLeft, Cast, ADDRESS_MASK

\* Every function stays within its word and its field.
LEMMA ResultFacts ==
    ASSUME NEW t \in RelocationTypes, NEW d \in Word(WidthOf(t)),
           NEW s, NEW z, NEW a
    PROVE  Result(t, d, relocationMap(t, d, s, z, a))
<1> DEFINE v == Add(64, s, a)
           r == relocationMap(t, d, s, z, a)
<1>1. v \subseteq Bits(64)
  BY WordFacts
<1>2. d \subseteq Bits(WidthOf(t))
  BY DEF Word
<1> SUFFICES Result(t, d, r)
  OBVIOUS
<1>0. /\ 4 \in Int /\ 5 \in Int /\ 16 \in Int /\ 37 \in Int
      /\ 32 \in Nat /\ 64 \in Nat
  OBVIOUS
<1> HIDE DEF v, r
<1>3. CASE t = "R_VPU_64"
  <2>1. r = VPU_64_BIT(d, v)
    BY <1>3, Dispatch DEF v, r
  <2>2. WidthOf(t) = 64
    BY <1>3, Widths DEF Width64
  <2>3. Field(t) = Bits(64)
    BY <1>3, <2>2, Fields DEF Partial
  <2> QED
    BY <1>1, <1>2, <2>1, <2>2, <2>3, WordFacts, MulFacts, MulticastBits
       DEF Result, VPU_64_BIT, Bits, Cast, Sub, ShiftLeft, ShiftRight,
           LO_21_BIT_MASK, B21_B26_MASK
<1>4. CASE t = "R_VPU_64_OR"
  <2>1. r = VPU_64_BIT_OR(d, v)
    BY <1>4, Dispatch DEF v, r
  <2>2. WidthOf(t) = 64
    BY <1>4, Widths DEF Width64
  <2>3. Field(t) = Bits(64)
    BY <1>4, <2>2, Fields DEF Partial
  <2> QED
    BY <1>1, <1>2, <2>1, <2>2, <2>3, WordFacts, MulFacts, MulticastBits
       DEF Result, VPU_64_BIT_OR, Bits, Cast, Sub, ShiftLeft, ShiftRight,
           LO_21_BIT_MASK, B21_B26_MASK
<1>5. CASE t = "R_VPU_DISP40_RTM"
  <2>1. r = VPU_DISP40_RTM(d, s, z, a)
    BY <1>5, Dispatch DEF v, r
  <2>2. WidthOf(t) = 64
    BY <1>5, Widths DEF Width64
  <2>3. Field(t) = Bits(40)
    BY <1>5, Fields
  <2>4. PICK x : r = d \cup Cast(40, x)
    BY <2>1 DEF VPU_DISP40_RTM
  <2>5. \A i : i \in r => i \in d \/ i \in Bits(40)
    BY <2>4 DEF Cast
  <2>6. Bits(40) \subseteq Bits(64) /\ d \subseteq r
    BY <2>4 DEF Bits
  <2> QED
    BY <1>2, <2>2, <2>3, <2>5, <2>6 DEF Result
<1>6. CASE t = "R_VPU_64_LSHIFT"
  <2>1. r = VPU_64_BIT_LSHIFT(d, s)
    BY <1>6, Dispatch DEF v, r
  <2>2. WidthOf(t) = 64
    BY <1>6, Widths DEF Width64
  <2>3. Field(t) = Bits(64)
    BY <1>6, <2>2, Fields DEF Partial
  <2> QED
    BY <1>1, <1>2, <2>1, <2>2, <2>3, WordFacts, MulFacts, MulticastBits
       DEF Result, VPU_64_BIT_LSHIFT, Bits, Cast, Sub, ShiftLeft, ShiftRight,
           LO_21_BIT_MASK, B21_B26_MASK
<1>7. CASE t = "R_VPU_32"
  <2>1. r = VPU_32_BIT(d, v)
    BY <1>7, Dispatch DEF v, r
  <2>2. WidthOf(t) = 32
    BY <1>7, Widths DEF Width32
  <2>3. Field(t) = Bits(32)
    BY <1>7, <2>2, Fields DEF Partial
  <2> QED
    BY <1>1, <1>2, <2>1, <2>2, <2>3, WordFacts, MulFacts, MulticastBits
       DEF Result, VPU_32_BIT, Bits, Cast, Sub, ShiftLeft, ShiftRight,
           LO_21_BIT_MASK, B21_B26_MASK
<1>8. CASE t = "R_VPU_32_RTM"
  <2>1. r = VPU_32_BIT_RTM(d, s, z, a)
    BY <1>8, Dispatch DEF v, r
  <2>2. WidthOf(t) = 32
    BY <1>8, Widths DEF Width32
  <2>3. Field(t) = Bits(32)
    BY <1>8, <2>2, Fields DEF Partial
  <2> QED
    BY <1>1, <1>2, <2>1, <2>2, <2>3, WordFacts, MulFacts, MulticastBits
       DEF Result, VPU_32_BIT_RTM, Bits, Cast, Sub, ShiftLeft, ShiftRight,
           LO_21_BIT_MASK, B21_B26_MASK
<1>9. CASE t = "R_VPU_32_SUM"
  <2>1. r = VPU_32_BIT_SUM(d, v)
    BY <1>9, Dispatch DEF v, r
  <2>2. WidthOf(t) = 32
    BY <1>9, Widths DEF Width32
  <2>3. Field(t) = Bits(32)
    BY <1>9, <2>2, Fields DEF Partial
  <2> QED
    BY <1>1, <1>2, <2>1, <2>2, <2>3, WordFacts, MulFacts, MulticastBits
       DEF Result, VPU_32_BIT_SUM, Bits, Cast, Sub, ShiftLeft, ShiftRight,
           LO_21_BIT_MASK, B21_B26_MASK
<1>10. CASE t = "R_VPU_32_MULTICAST_BASE"
  <2>1. r = VPU_32_MULTICAST_BASE(d, v)
    BY <1>10, Dispatch DEF v, r
  <2>2. WidthOf(t) = 32
    BY <1>10, Widths DEF Width32
  <2>3. Field(t) = Bits(32)
    BY <1>10, <2>2, Fields DEF Partial
  <2> QED
    BY <1>1, <1>2, <2>1, <2>2, <2>3, WordFacts, MulFacts, MulticastBits
       DEF Result, VPU_32_MULTICAST_BASE, Bits, Cast, Sub, ShiftLeft, ShiftRight,
           LO_21_BIT_MASK, B21_B26_MASK
<1>11. CASE t = "R_VPU_32_MULTICAST_BASE_SUB"
  <2>1. r = VPU_32_MULTICAST_BASE_SUB(d, v)
    BY <1>11, Dispatch DEF v, r
  <2>2. WidthOf(t) = 32
    BY <1>11, Widths DEF Width32
  <2>3. Field(t) = Bits(32)
    BY <1>11, <2>2, Fields DEF Partial
  <2> QED
    BY <1>1, <1>2, <2>1, <2>2, <2>3, WordFacts, MulFacts, MulticastBits
       DEF Result, VPU_32_MULTICAST_BASE_SUB, Bits, Cast, Sub, ShiftLeft, ShiftRight,
           LO_21_BIT_MASK, B21_B26_MASK
<1>12. CASE t = "R_VPU_DISP28_MULTICAST_OFFSET"
  <2>1. r = VPU_DISP28_MULTICAST_OFFSET(d, v)
    BY <1>12, Dispatch DEF v, r
  <2>2. WidthOf(t) = 32
    BY <1>12, Widths DEF Width32
  <2>3. Field(t) = 4 .. 31
    BY <1>12, Fields
  <2>4. PICK x : x \subseteq Bits(32) /\ r = Cast(4, d) \cup ShiftLeft(32, x, 4)
    BY <2>1, MulticastBits DEF VPU_DISP28_MULTICAST_OFFSET
  <2>5. x \subseteq Int
    BY <2>4 DEF Bits
  <2>6. \A i : i \in ShiftLeft(32, x, 4) <=> i \in Bits(32) /\ i - 4 \in x
    BY <1>0, <2>5, ShiftLeftBits, Zenon
  <2> QED
    BY <1>2, <2>2, <2>3, <2>4, <2>6 DEF Result, Cast, Bits
<1>13. CASE t = "R_VPU_DISP4_MULTICAST_OFFSET_CMP"
  <2>1. r = VPU_DISP4_MULTICAST_OFFSET(d, v)
    BY <1>13, Dispatch DEF v, r
  <2>2. WidthOf(t) = 32
    BY <1>13, Widths DEF Width32
  <2>3. Field(t) = Bits(4)
    BY <1>13, Fields
  <2>4. PICK x : x \subseteq {0} /\ r = (d \ Bits(4)) \cup x
    BY <2>1 DEF VPU_DISP4_MULTICAST_OFFSET
  <2> QED
    BY <1>2, <2>2, <2>3, <2>4 DEF Result, Bits
<1>14. CASE t = "R_VPU_LO_21"
  <2>1. r = VPU_LO_21_BIT(d, v)
    BY <1>14, Dispatch DEF v, r
  <2>2. WidthOf(t) = 32
    BY <1>14, Widths DEF Width32
  <2>3. Field(t) = Bits(21)
    BY <1>14, Fields
  <2> QED
    BY <1>1, <1>2, <2>1, <2>2, <2>3, WordFacts, MulFacts, MulticastBits
       DEF Result, VPU_LO_21_BIT, Bits, Cast, Sub, ShiftLeft, ShiftRight,
           LO_21_BIT_MASK, B21_B26_MASK
<1>15. CASE t = "R_VPU_LO_21_SUM"
  <2>1. r = VPU_LO_21_BIT_SUM(d, v)
    BY <1>15, Dispatch DEF v, r
  <2>2. WidthOf(t) = 32
    BY <1>15, Widths DEF Width32
  <2>3. Field(t) = Bits(32)
    BY <1>15, <2>2, Fields DEF Partial
  <2> QED
    BY <1>1, <1>2, <2>1, <2>2, <2>3, WordFacts, MulFacts, MulticastBits
       DEF Result, VPU_LO_21_BIT_SUM, Bits, Cast, Sub, ShiftLeft, ShiftRight,
           LO_21_BIT_MASK, B21_B26_MASK
<1>16. CASE t = "R_VPU_LO_21_MULTICAST_BASE"
  <2>1. r = VPU_LO_21_BIT_MULTICAST_BASE(d, v)
    BY <1>16, Dispatch DEF v, r
  <2>2. WidthOf(t) = 32
    BY <1>16, Widths DEF Width32
  <2>3. Field(t) = Bits(32)
    BY <1>16, <2>2, Fields DEF Partial
  <2> QED
    BY <1>1, <1>2, <2>1, <2>2, <2>3, WordFacts, MulFacts, MulticastBits
       DEF Result, VPU_LO_21_BIT_MULTICAST_BASE, Bits, Cast, Sub, ShiftLeft, ShiftRight,
           LO_21_BIT_MASK, B21_B26_MASK
<1>17. CASE t = "R_VPU_16_LSB_21_RSHIFT_5"
  <2>1. r = VPU_16_BIT_LSB_21_RSHIFT_5(d, v)
    BY <1>17, Dispatch DEF v, r
  <2>2. WidthOf(t) = 32
    BY <1>17, Widths DEF Width32
  <2>3. Field(t) = Bits(16)
    BY <1>17, Fields
  <2>4. PICK x : x = ShiftRight(v \cap LO_21_BIT_MASK, 5)
    OBVIOUS
  <2>5. v \cap LO_21_BIT_MASK \subseteq Int
    BY DEF LO_21_BIT_MASK, Bits
  <2>6. \A i : i \in x <=> i \in Nat /\ i + 5 \in v \cap LO_21_BIT_MASK
    BY <1>0, <2>4, <2>5, ShiftRightBits, Zenon
  <2>7. x \subseteq Bits(16)
    BY <2>6 DEF LO_21_BIT_MASK, Bits
  <2>8. r = (d \ Bits(16)) \cup x
    BY <2>1, <2>4 DEF VPU_16_BIT_LSB_21_RSHIFT_5, LO_21_BIT_MASK
  <2>9. Bits(16) \subseteq Bits(32)
    BY DEF Bits
  <2> QED
    BY <1>2, <2>2, <2>3, <2>7, <2>8, <2>9 DEF Result
<1>18. CASE t = "R_VPU_LO_21_RSHIFT_4"
  <2>1. r = VPU_LO_21_BIT_RSHIFT_4(d, v)
    BY <1>18, Dispatch DEF v, r
  <2>2. WidthOf(t) = 32
    BY <1>18, Widths DEF Width32
  <2>3. Field(t) = Bits(21)
    BY <1>18, Fields
  <2>4. PICK x : x = ShiftRight(v \cap LO_21_BIT_MASK, 4)
    OBVIOUS
  <2>5. v \cap LO_21_BIT_MASK \subseteq Int
    BY DEF LO_21_BIT_MASK, Bits
  <2>6. \A i : i \in x <=> i \in Nat /\ i + 4 \in v \cap LO_21_BIT_MASK
    BY <1>0, <2>4, <2>5, ShiftRightBits, Zenon
  <2>7. x \subseteq Bits(21)
    BY <2>6 DEF LO_21_BIT_MASK, Bits
  <2>8. r = (d \ Bits(21)) \cup x
    BY <2>1, <2>4 DEF VPU_LO_21_BIT_RSHIFT_4, LO_21_BIT_MASK
  <2>9. Bits(21) \subseteq Bits(32)
    BY DEF Bits
  <2> QED
    BY <1>2, <2>2, <2>3, <2>7, <2>8, <2>9 DEF Result
<1>19. CASE t = "R_VPU_CMX_LOCAL_RSHIFT_5"
  <2>1. r = VPU_CMX_LOCAL_RSHIFT_5(d, v)
    BY <1>19, Dispatch DEF v, r
  <2>2. WidthOf(t) = 32
    BY <1>19, Widths DEF Width32
  <2>3. Field(t) = Bits(32)
    BY <1>19, <2>2, Fields DEF Partial
  <2> QED
    BY <1>1, <1>2, <2>1, <2>2, <2>3, WordFacts, MulFacts, MulticastBits
       DEF Result, VPU_CMX_LOCAL_RSHIFT_5, Bits, Cast, Sub, ShiftLeft, ShiftRight,
           LO_21_BIT_MASK, B21_B26_MASK
<1>20. CASE t = "R_VPU_32_BIT_OR_B21_B26_UNSET"
  <2>1. r = VPU_32_BIT_OR_B21_B26_UNSET(d, v)
    BY <1>20, Dispatch DEF v, r
  <2>2. WidthOf(t) = 32
    BY <1>20, Widths DEF Width32
  <2>3. Field(t) = Bits(32) \ B21_B26_MASK
    BY <1>20, Fields
  <2> QED
    BY <1>1, <1>2, <2>1, <2>2, <2>3, WordFacts, MulFacts, MulticastBits
       DEF Result, VPU_32_BIT_OR_B21_B26_UNSET, Bits, Cast, Sub, ShiftLeft, ShiftRight,
           LO_21_BIT_MASK, B21_B26_MASK
<1>21. CASE t = "R_VPU_64_BIT_OR_B21_B26_UNSET"
  <2>1. r = VPU_64_BIT_OR_B21_B26_UNSET(d, v)
    BY <1>21, Dispatch DEF v, r
  <2>2. WidthOf(t) = 64
    BY <1>21, Widths DEF Width64
  <2>3. Field(t) = Bits(32) \ B21_B26_MASK
    BY <1>21, Fields
  <2> QED
    BY <1>1, <1>2, <2>1, <2>2, <2>3, WordFacts, MulFacts, MulticastBits
       DEF Result, VPU_64_BIT_OR_B21_B26_UNSET, Bits, Cast, Sub, ShiftLeft, ShiftRight,
           LO_21_BIT_MASK, B21_B26_MASK
<1>22. CASE t = "R_VPU_16_LSB_21_RSHIFT_5_LSHIFT_16"
  <2>1. r = VPU_16_BIT_LSB_21_RSHIFT_5_LSHIFT_16(d, v)
    BY <1>22, Dispatch DEF v, r
  <2>2. WidthOf(t) = 32
    BY <1>22, Widths DEF Width32
  <2>3. Field(t) = 16 .. 31
    BY <1>22, Fields
  <2>4. PICK x : x = ShiftRight(v \cap LO_21_BIT_MASK, 5)
    OBVIOUS
  <2>5. v \cap LO_21_BIT_MASK \subseteq Int
    BY DEF LO_21_BIT_MASK, Bits
  <2>6. \A i : i \in x <=> i \in Nat /\ i + 5 \in v \cap LO_21_BIT_MASK
    BY <1>0, <2>4, <2>5, ShiftRightBits, Zenon
  <2>7. x \subseteq Nat
    BY <2>6 DEF LO_21_BIT_MASK, Bits
  <2>8. \A i : i \in ShiftLeft(32, x, 16) <=> i \in Bits(32) /\ i - 16 \in x
    <3>1. x \subseteq Int
      BY <2>7
    <3> QED BY <1>0, <3>1, ShiftLeftBits, Zenon
  <2>9. ShiftLeft(32, x, 16) \subseteq 16 .. 31
    BY <2>7, <2>8 DEF Bits
  <2>10. r = (d \ (16 .. 31)) \cup ShiftLeft(32, x, 16)
    BY <2>1, <2>4 DEF VPU_16_BIT_LSB_21_RSHIFT_5_LSHIFT_16
  <2>11. 16 .. 31 \subseteq Bits(32)
    BY DEF Bits
  <2> QED
    BY <1>2, <2>2, <2>3, <2>9, <2>10, <2>11 DEF Result
<1>23. CASE t = "R_VPU_16_LSB_21_RSHIFT_5_LSHIFT_CUSTOM"
  <2>1. r = VPU_16_BIT_LSB_21_RSHIFT_5_LSHIFT_CUSTOM(d, v)
    BY <1>23, Dispatch DEF v, r
  <2>2. WidthOf(t) = 32
    BY <1>23, Widths DEF Width32
  <2>3. Field(t) = {14} \cup 17 .. 31
    BY <1>23, Fields
  <2>4. PICK x : x = ShiftRight(v \cap LO_21_BIT_MASK, 5)
    OBVIOUS
  <2>5. v \cap LO_21_BIT_MASK \subseteq Int
    BY DEF LO_21_BIT_MASK, Bits
  <2>6. \A i : i \in x <=> i \in Nat /\ i + 5 \in v \cap LO_21_BIT_MASK
    BY <1>0, <2>4, <2>5, ShiftRightBits, Zenon
  <2>7. x \subseteq Nat
    BY <2>6 DEF LO_21_BIT_MASK, Bits
  <2>8. PICK y, b : y = x \ {0} /\ b = x \cap {0}
    OBVIOUS
  <2>9. y \subseteq Nat \ {0} /\ b \subseteq {0}
    BY <2>7, <2>8
  <2>10. \A i : i \in ShiftLeft(32, y, 16) <=> i \in Bits(32) /\ i - 16 \in y
    <3>1. y \subseteq Int
      BY <2>9
    <3>2. 32 \in Nat /\ 16 \in Int /\ 14 \in Int
      OBVIOUS
    <3> QED BY <3>1, <3>2, ShiftLeftBits, Zenon
  <2>11. \A i : i \in ShiftLeft(32, b, 14) <=> i \in Bits(32) /\ i - 14 \in b
    <3>1. b \subseteq Int
      BY <2>9
    <3>2. 32 \in Nat /\ 16 \in Int /\ 14 \in Int
      OBVIOUS
    <3> QED BY <3>1, <3>2, ShiftLeftBits, Zenon
  <2>12. ShiftLeft(32, y, 16) \subseteq 17 .. 31
    BY <2>9, <2>10 DEF Bits
  <2>13. ShiftLeft(32, b, 14) \subseteq {14}
    BY <2>9, <2>11 DEF Bits
  <2>14. r = (d \ ({14} \cup 17 .. 31)) \cup ShiftLeft(32, y, 16) \cup ShiftLeft(32, b, 14)
    BY <2>1, <2>4, <2>8 DEF VPU_16_BIT_LSB_21_RSHIFT_5_LSHIFT_CUSTOM
  <2>15. {14} \cup 17 .. 31 \subseteq Bits(32)
    BY DEF Bits
  <2> QED
    BY <1>2, <2>2, <2>3, <2>12, <2>13, <2>14, <2>15 DEF Result
<1>24. CASE t = "R_VPU_32_BIT_OR_B21_B26_UNSET_HIGH_16"
  <2>1. r = VPU_32_BIT_OR_B21_B26_UNSET_HIGH_16(d, v)
    BY <1>24, Dispatch DEF v, r
  <2>2. WidthOf(t) = 16
    BY <1>24, Widths DEF Width16
  <2>3. Field(t) = Bits(16)
    BY <1>24, <2>2, Fields DEF Partial
  <2>4. Cast(32, v) \ B21_B26_MASK \subseteq Int
    BY DEF Cast, Bits
  <2>5. \A i : i \in ShiftRight(Cast(32, v) \ B21_B26_MASK, 16)
              <=> i \in Nat /\ i + 16 \in Cast(32, v) \ B21_B26_MASK
    BY <1>0, <2>4, ShiftRightBits, Zenon
  <2>6. ShiftRight(Cast(32, v) \ B21_B26_MASK, 16) \subseteq Bits(16)
    BY <2>5 DEF Cast, Bits
  <2> QED
    BY <1>2, <2>1, <2>2, <2>3, <2>6
       DEF Result, VPU_32_BIT_OR_B21_B26_UNSET_HIGH_16
<1>25. CASE t = "R_VPU_32_BIT_OR_B21_B26_UNSET_LOW_16"
  <2>1. r = VPU_32_BIT_OR_B21_B26_UNSET_LOW_16(d, v)
    BY <1>25, Dispatch DEF v, r
  <2>2. WidthOf(t) = 16
    BY <1>25, Widths DEF Width16
  <2>3. Field(t) = Bits(16)
    BY <1>25, <2>2, Fields DEF Partial
  <2> QED
    BY <1>1, <1>2, <2>1, <2>2, <2>3, WordFacts, MulFacts, MulticastBits
       DEF Result, VPU_32_BIT_OR_B21_B26_UNSET_LOW_16, Bits, Cast, Sub, ShiftLeft, ShiftRight,
           LO_21_BIT_MASK, B21_B26_MASK
<1>26. CASE t = "R_VPU_HIGH_27_BIT_OR"
  <2>1. r = VPU_HIGH_27_BIT_OR(d, v)
    BY <1>26, Dispatch DEF v, r
  <2>2. WidthOf(t) = 64
    BY <1>26, Widths DEF Width64
  <2>3. Field(t) = 37 .. 63
    BY <1>26, Fields
  <2>4. PICK x : x = Cast(27, ShiftRight(Cast(32, v) \ (21 .. 23), 4))
    OBVIOUS
  <2>5. x \subseteq Nat /\ x \subseteq Int
    BY <2>4 DEF Cast, Bits
  <2>6. \A i : i \in ShiftLeft(64, x, 37) <=> i \in Bits(64) /\ i - 37 \in x
    BY <1>0, <2>5, ShiftLeftBits, Zenon
  <2>7. ShiftLeft(64, x, 37) \subseteq 37 .. 63
    BY <2>5, <2>6 DEF Bits
  <2>8. r = d \cup ShiftLeft(64, x, 37)
    BY <2>1, <2>4 DEF VPU_HIGH_27_BIT_OR
  <2>9. PICK y : y = ShiftLeft(64, x, 37)
    OBVIOUS
  <2>10. y \subseteq 37 .. 63 /\ r = d \cup y /\ d \subseteq Bits(64)
    BY <1>2, <2>2, <2>7, <2>8, <2>9, Zenon
  <2>11. r \subseteq Bits(64)
    BY <2>10 DEF Bits
  <2>12. \A i \in Bits(64) \ (37 .. 63) : i \in r <=> i \in d
    BY <2>10
  <2> QED
    BY <2>2, <2>3, <2>11, <2>12, Zenon DEF Result
<1>27. CASE t = "R_VPU_16_SUM"
  <2>1. r = VPU_16_BIT_SUM(d, v)
    BY <1>27, Dispatch DEF v, r
  <2>2. WidthOf(t) = 16
    BY <1>27, Widths DEF Width16
  <2>3. Field(t) = Bits(16)
    BY <1>27, <2>2, Fields DEF Partial
  <2> QED
    BY <1>1, <1>2, <2>1, <2>2, <2>3, WordFacts, MulFacts, MulticastBits
       DEF Result, VPU_16_BIT_SUM, Bits, Cast, Sub, ShiftLeft, ShiftRight,
           LO_21_BIT_MASK, B21_B26_MASK
<1>28. CASE t = "R_VPU_64_MULT"
  <2>1. r = VPU_64_BIT_MULT(d, s)
    BY <1>28, Dispatch DEF v, r
  <2>2. WidthOf(t) = 64
    BY <1>28, Widths DEF Width64
  <2>3. Field(t) = Bits(64)
    BY <1>28, <2>2, Fields DEF Partial
  <2> QED
    BY <1>1, <1>2, <2>1, <2>2, <2>3, WordFacts, MulFacts, MulticastBits
       DEF Result, VPU_64_BIT_MULT, Bits, Cast, Sub, ShiftLeft, ShiftRight,
           LO_21_BIT_MASK, B21_B26_MASK
<1>29. CASE t = "R_VPU_64_MULT_SUB"
  <2>1. r = VPU_64_BIT_MULT_SUB(d, s, a)
    BY <1>29, Dispatch DEF v, r
  <2>2. WidthOf(t) = 64
    BY <1>29, Widths DEF Width64
  <2>3. Field(t) = Bits(64)
    BY <1>29, <2>2, Fields DEF Partial
  <2> QED
    BY <1>1, <1>2, <2>1, <2>2, <2>3, WordFacts, MulFacts, MulticastBits
       DEF Result, VPU_64_BIT_MULT_SUB, Bits, Cast, Sub, ShiftLeft, ShiftRight,
           LO_21_BIT_MASK, B21_B26_MASK
<1> QED
  BY <1>3, <1>4, <1>5, <1>6, <1>7, <1>8, <1>9, <1>10, <1>11, <1>12, <1>13, <1>14, <1>15, <1>16, <1>17, <1>18, <1>19, <1>20, <1>21, <1>22, <1>23, <1>24, <1>25, <1>26, <1>27, <1>28, <1>29
     DEF RelocationTypes, Width64, Width32, Width16

\* An overwriting type writes the same bits whatever its field holds.
LEMMA OverwritingFacts ==
    ASSUME NEW t \in Overwriting, NEW d, NEW s, NEW z, NEW a, NEW i \in Field(t)
    PROVE  i \in relocationMap(t, d, s, z, a) <=> i \in relocationMap(t, {}, s, z, a)
<1> DEFINE v == Add(64, s, a)
           r == relocationMap(t, d, s, z, a)
           q == relocationMap(t, {}, s, z, a)
<1> SUFFICES i \in r <=> i \in q
  OBVIOUS
<1> HIDE DEF v, r, q
<1>1. CASE t = "R_VPU_64"
  <2>1. r = VPU_64_BIT(d, v) /\ q = VPU_64_BIT({}, v)
    BY <1>1, Dispatch DEF v, r, q
  <2> QED
    BY <2>1 DEF VPU_64_BIT
<1>2. CASE t = "R_VPU_32"
  <2>1. r = VPU_32_BIT(d, v) /\ q = VPU_32_BIT({}, v)
    BY <1>2, Dispatch DEF v, r, q
  <2> QED
    BY <2>1 DEF VPU_32_BIT
<1>3. CASE t = "R_VPU_32_MULTICAST_BASE"
  <2>1. r = VPU_32_MULTICAST_BASE(d, v) /\ q = VPU_32_MULTICAST_BASE({}, v)
    BY <1>3, Dispatch DEF v, r, q
  <2> QED
    BY <2>1 DEF VPU_32_MULTICAST_BASE
<1>4. CASE t = "R_VPU_LO_21"
  <2>1. r = VPU_LO_21_BIT(d, v) /\ q = VPU_LO_21_BIT({}, v)
    BY <1>4, Dispatch DEF v, r, q
  <2>2. i \in Bits(21)
    BY <1>4, Fields
  <2> QED
    BY <2>1, <2>2 DEF VPU_LO_21_BIT, LO_21_BIT_MASK
<1>5. CASE t = "R_VPU_LO_21_MULTICAST_BASE"
  <2>1. r = VPU_LO_21_BIT_MULTICAST_BASE(d, v) /\ q = VPU_LO_21_BIT_MULTICAST_BASE({}, v)
    BY <1>5, Dispatch DEF v, r, q
  <2> QED
    BY <2>1 DEF VPU_LO_21_BIT_MULTICAST_BASE
<1>6. CASE t = "R_VPU_16_LSB_21_RSHIFT_5"
  <2>1. r = VPU_16_BIT_LSB_21_RSHIFT_5(d, v) /\ q = VPU_16_BIT_LSB_21_RSHIFT_5({}, v)
    BY <1>6, Dispatch DEF v, r, q
  <2>2. i \in Bits(16)
    BY <1>6, Fields
  <2> QED
    BY <2>1, <2>2 DEF VPU_16_BIT_LSB_21_RSHIFT_5, LO_21_BIT_MASK
<1>7. CASE t = "R_VPU_LO_21_RSHIFT_4"
  <2>1. r = VPU_LO_21_BIT_RSHIFT_4(d, v) /\ q = VPU_LO_21_BIT_RSHIFT_4({}, v)
    BY <1>7, Dispatch DEF v, r, q
  <2>2. i \in Bits(21)
    BY <1>7, Fields
  <2> QED
    BY <2>1, <2>2 DEF VPU_LO_21_BIT_RSHIFT_4, LO_21_BIT_MASK
<1>8. CASE t = "R_VPU_CMX_LOCAL_RSHIFT_5"
  <2>1. r = VPU_CMX_LOCAL_RSHIFT_5(d, v) /\ q = VPU_CMX_LOCAL_RSHIFT_5({}, v)
    BY <1>8, Dispatch DEF v, r, q
  <2> QED
    BY <2>1 DEF VPU_CMX_LOCAL_RSHIFT_5
<1>9. CASE t = "R_VPU_16_LSB_21_RSHIFT_5_LSHIFT_16"
  <2>1. r = VPU_16_BIT_LSB_21_RSHIFT_5_LSHIFT_16(d, v) /\ q = VPU_16_BIT_LSB_21_RSHIFT_5_LSHIFT_16({}, v)
    BY <1>9, Dispatch DEF v, r, q
  <2>2. i \in 16 .. 31
    BY <1>9, Fields
  <2> QED
    BY <2>1, <2>2 DEF VPU_16_BIT_LSB_21_RSHIFT_5_LSHIFT_16, LO_21_BIT_MASK
<1>10. CASE t = "R_VPU_16_LSB_21_RSHIFT_5_LSHIFT_CUSTOM"
  <2>1. r = VPU_16_BIT_LSB_21_RSHIFT_5_LSHIFT_CUSTOM(d, v) /\ q = VPU_16_BIT_LSB_21_RSHIFT_5_LSHIFT_CUSTOM({}, v)
    BY <1>10, Dispatch DEF v, r, q
  <2>2. i \in {14} \cup 17 .. 31
    BY <1>10, Fields
  <2> QED
    BY <2>1, <2>2 DEF VPU_16_BIT_LSB_21_RSHIFT_5_LSHIFT_CUSTOM, LO_21_BIT_MASK
<1> QED
  BY <1>1, <1>2, <1>3, <1>4, <1>5, <1>6, <1>7, <1>8, <1>9, <1>10 DEF Overwriting

\* The places of the bits at a byte of the section.
LEMMA AtByteBits ==
    ASSUME NEW e, e.offset \in Nat, NEW a, a \subseteq Int, NEW x
    PROVE  x \in AtByte(e, a) <=> x \in Int /\ x - 8 * e.offset \in a
<1> DEFINE o == 8 * e.offset
<1>1. o \in Nat
  OBVIOUS
<1> HIDE DEF o
<1>2. ASSUME x \in Int, x - o \in a PROVE \E i \in a : x = o + i
  BY <1>1, <1>2
<1>3. ASSUME NEW i \in a, x = o + i PROVE x \in Int /\ x - o \in a
  <2>1. i \in Int /\ x - o = i
    BY <1>1, <1>3
  <2> QED BY <1>1, <1>3, <2>1
<1> QED BY <1>2, <1>3 DEF AtByte, o

\* The word at an entry's target.
LEMMA TargetBits ==
    ASSUME NEW e, e.offset \in Nat, NEW m, m \subseteq Int, NEW i
    PROVE  i \in Target(m, e) <=> i \in Bits(WidthOf(e.type)) /\ i \in Nat /\ i + 8 * e.offset \in m
<1>1. 8 * e.offset \in Int
  OBVIOUS
<1> QED BY <1>1, ShiftRightBits DEF Target, Cast

\* The width of a type and the place of its field.
LEMMA FieldBits ==
    ASSUME NEW t \in RelocationTypes
    PROVE  WidthOf(t) \in Nat /\ Field(t) \subseteq Bits(WidthOf(t))
<1>1. WidthOf(t) \in {16, 32, 64}
  BY Widths DEF RelocationTypes
<1>2. CASE t \notin Partial
  BY <1>1, <1>2, Fields
<1>3. CASE t \in Partial
  <2>1. CASE t = "R_VPU_DISP40_RTM"
    <3>1. WidthOf(t) = 64 /\ Field(t) = Bits(40)
      BY <2>1, Widths, Fields DEF Width64
    <3> QED BY <3>1 DEF Bits
  <2>2. CASE t = "R_VPU_DISP28_MULTICAST_OFFSET"
    <3>1. WidthOf(t) = 32 /\ Field(t) = 4 .. 31
      BY <2>2, Widths, Fields DEF Width32
    <3> QED BY <3>1 DEF Bits
  <2>3. CASE t = "R_VPU_DISP4_MULTICAST_OFFSET_CMP"
    <3>1. WidthOf(t) = 32 /\ Field(t) = Bits(4)
      BY <2>3, Widths, Fields DEF Width32
    <3> QED BY <3>1 DEF Bits
  <2>4. CASE t = "R_VPU_LO_21"
    <3>1. WidthOf(t) = 32 /\ Field(t) = Bits(21)
      BY <2>4, Widths, Fields DEF Width32
    <3> QED BY <3>1 DEF Bits
  <2>5. CASE t = "R_VPU_16_LSB_21_RSHIFT_5"
    <3>1. WidthOf(t) = 32 /\ Field(t) = Bits(16)
      BY <2>5, Widths, Fields DEF Width32
    <3> QED BY <3>1 DEF Bits
  <2>6. CASE t = "R_VPU_LO_21_RSHIFT_4"
    <3>1. WidthOf(t) = 32 /\ Field(t) = Bits(21)
      BY <2>6, Widths, Fields DEF Width32
    <3> QED BY <3>1 DEF Bits
  <2>7. CASE t = "R_VPU_32_BIT_OR_B21_B26_UNSET"
    <3>1. WidthOf(t) = 32 /\ Field(t) = Bits(32) \ B21_B26_MASK
      BY <2>7, Widths, Fields DEF Width32
    <3> QED BY <3>1 DEF Bits
  <2>8. CASE t = "R_VPU_64_BIT_OR_B21_B26_UNSET"
    <3>1. WidthOf(t) = 64 /\ Field(t) = Bits(32) \ B21_B26_MASK
      BY <2>8, Widths, Fields DEF Width64
    <3> QED BY <3>1 DEF Bits
  <2>9. CASE t = "R_VPU_16_LSB_21_RSHIFT_5_LSHIFT_16"
    <3>1. WidthOf(t) = 32 /\ Field(t) = 16 .. 31
      BY <2>9, Widths, Fields DEF Width32
    <3> QED BY <3>1 DEF Bits
  <2>10. CASE t = "R_VPU_16_LSB_21_RSHIFT_5_LSHIFT_CUSTOM"
    <3>1. WidthOf(t) = 32 /\ Field(t) = {14} \cup 17 .. 31
      BY <2>10, Widths, Fields DEF Width32
    <3> QED BY <3>1 DEF Bits
  <2>11. CASE t = "R_VPU_HIGH_27_BIT_OR"
    <3>1. WidthOf(t) = 64 /\ Field(t) = 37 .. 63
      BY <2>11, Widths, Fields DEF Width64
    <3> QED BY <3>1 DEF Bits
  <2> QED BY <1>3, <2>1, <2>2, <2>3, <2>4, <2>5, <2>6, <2>7, <2>8, <2>9, <2>10, <2>11 DEF Partial
<1> QED BY <1>1, <1>2, <1>3

\* One relocation: the buffer stays a buffer, the bits outside the field are as they
\* were, and an overwriting type leaves the same field whatever it held.
LEMMA RelocateFacts ==
    ASSUME NEW m \in Word(8 * Size), NEW e \in Entry, NEW s, NEW z,
           e.type \in RelocationTypes, e.offset < Size, Fits(e)
    PROVE  /\ Relocate(m, e, s, z) \in Word(8 * Size)
           /\ \A i : i \notin FieldOf(e) => (i \in Relocate(m, e, s, z) <=> i \in m)
           /\ e.type \in Overwriting =>
                \A i \in FieldOf(e) :
                    i \in Relocate(m, e, s, z)
                        <=> i \in AtByte(e, relocationMap(e.type, {}, s, z, e.addend))
<1> DEFINE W == WidthOf(e.type)
           d == Target(m, e)
           r == relocationMap(e.type, d, s, z, e.addend)
           q == relocationMap(e.type, {}, s, z, e.addend)
           o == 8 * e.offset
<1>1. e.offset \in Nat /\ Size \in Nat /\ o \in Nat
  BY SizeAssumption DEF Entry
<1>2. W \in Nat /\ Field(e.type) \subseteq Bits(W)
  BY FieldBits
<1>3. o + W <= 8 * Size
  BY <1>1, <1>2 DEF Fits
<1>4. m \subseteq Int /\ m \subseteq Bits(8 * Size)
  BY DEF Word, Bits
<1>5. \A i : i \in d <=> i \in Bits(W) /\ i \in Nat /\ i + o \in m
  BY <1>1, <1>4, TargetBits
<1>6. d \in Word(W)
  BY <1>5 DEF Word
<1>7. r \subseteq Bits(W) /\ \A i \in Bits(W) \ Field(e.type) : i \in r <=> i \in d
  BY <1>6, ResultFacts DEF Result
<1>8. {} \in Word(W)
  BY DEF Word
<1>9. q \subseteq Bits(W)
  BY <1>8, ResultFacts DEF Result
<1>10. e.type \in Overwriting => \A i \in Field(e.type) : i \in r <=> i \in q
  BY OverwritingFacts
<1>11. Relocate(m, e, s, z) = (m \ AtByte(e, Bits(W))) \cup AtByte(e, r)
  BY DEF Relocate
<1>12. FieldOf(e) = AtByte(e, Field(e.type))
  BY DEF FieldOf
<1> HIDE DEF W, d, r, q
<1>13. \A x : x \in AtByte(e, Bits(W)) <=> x \in Int /\ x - o \in Bits(W)
  <2>1. Bits(W) \subseteq Int
    BY DEF Bits
  <2> QED BY <1>1, <2>1, AtByteBits
<1>14. \A x : x \in AtByte(e, Field(e.type)) <=> x \in Int /\ x - o \in Field(e.type)
  <2>1. Field(e.type) \subseteq Int
    BY <1>2 DEF Bits
  <2> QED BY <1>1, <2>1, AtByteBits
<1>15. \A x : x \in AtByte(e, r) <=> x \in Int /\ x - o \in r
  <2>1. r \subseteq Int
    BY <1>7 DEF Bits
  <2> QED BY <1>1, <2>1, AtByteBits
<1>16. \A x : x \in AtByte(e, q) <=> x \in Int /\ x - o \in q
  <2>1. q \subseteq Int
    BY <1>9 DEF Bits
  <2> QED BY <1>1, <2>1, AtByteBits
<1> HIDE DEF o
<1>17. Relocate(m, e, s, z) \in Word(8 * Size)
  <2>1. ASSUME NEW x \in AtByte(e, r) PROVE x \in Bits(8 * Size)
    <3>1. x \in Int /\ x - o \in Bits(W)
      BY <1>7, <1>15, <2>1
    <3> QED BY <1>1, <1>2, <1>3, <3>1 DEF Bits
  <2> QED BY <1>4, <1>11, <2>1 DEF Word
<1>18. ASSUME NEW i, i \notin FieldOf(e) PROVE i \in Relocate(m, e, s, z) <=> i \in m
  <2>1. CASE i \notin AtByte(e, Bits(W))
    BY <1>7, <1>11, <1>13, <1>15, <2>1
  <2>2. CASE i \in AtByte(e, Bits(W))
    <3>1. i \in Int /\ i - o \in Bits(W) /\ i - o \notin Field(e.type)
      BY <1>12, <1>13, <1>14, <1>18, <2>2
    <3>2. i - o \in r <=> i - o \in d
      BY <1>7, <3>1
    <3>3. i - o \in Nat /\ (i - o) + o = i
      BY <1>1, <1>2, <3>1 DEF Bits
    <3>4. i - o \in d <=> i \in m
      BY <1>5, <3>1, <3>3
    <3> QED BY <1>11, <1>15, <2>2, <3>1, <3>2, <3>4
  <2> QED BY <2>1, <2>2
<1>19. ASSUME e.type \in Overwriting, NEW i \in FieldOf(e)
       PROVE  i \in Relocate(m, e, s, z) <=> i \in AtByte(e, q)
  <2>1. i \in Int /\ i - o \in Field(e.type) /\ i \in AtByte(e, Bits(W))
    BY <1>2, <1>12, <1>13, <1>14, <1>19
  <2>2. i - o \in r <=> i - o \in q
    BY <1>10, <1>19, <2>1
  <2> QED BY <1>11, <1>15, <1>16, <2>1, <2>2
<1> QED BY <1>17, <1>18, <1>19 DEF q

\* Where the loops stand: an inference is under way or was refused until it is through,
\* and the entries before the next one have left their fields.
LoopOK ==
    /\ at.pc # "idle" => passes > 0 /\ at.pos > 0
    /\ at.pc = "reloc" => ran = "none"
    /\ at.pc = "jit" => /\ ran = "failed" /\ at.pos <= Len(blob.jit) + 1
                        /\ LastWriter(at.pos - 1, user)

\* The inductive invariant of the passes over a section.
RelocationInv == TypeOK /\ LoopOK /\ NeighboursKept /\ LastInferenceWins

\* What a blob of the compiler offers the loops.
LEMMA BlobFacts ==
    ASSUME NEW b \in Blobs
    PROVE  /\ b.image \in Word(8 * Size)
           /\ b.rela \in Seq(Entry) /\ \A i \in 1 .. Len(b.rela) : b.rela[i] \in Entry /\ Fits(b.rela[i])
           /\ b.jit \in Seq(Entry)
           /\ \A i \in 1 .. Len(b.jit) : /\ b.jit[i] \in Entry /\ Fits(b.jit[i])
                                         /\ b.jit[i].type \in RelocationTypes => b.jit[i].type \in Overwriting
<1>1. b \in Blob
  BY BlobsAssumption
<1>2. b.image \in Word(8 * Size) /\ b.rela \in Seq(Entry) /\ b.jit \in Seq(Entry)
  BY <1>1 DEF Blob
<1>3. \A i \in 1 .. Len(b.rela) : b.rela[i] \in Entry /\ Fits(b.rela[i])
  BY <1>2, BlobsAssumption
<1>4. \A i \in 1 .. Len(b.jit) : b.jit[i] \in Entry /\ Fits(b.jit[i])
  BY <1>2, BlobsAssumption
<1>5. "unknown" \notin RelocationTypes
  BY DEF RelocationTypes, Width64, Width32, Width16
<1>6. \A i \in 1 .. Len(b.jit) : b.jit[i].type \in RelocationTypes => b.jit[i].type \in Overwriting
  BY <1>2, <1>5, BlobsAssumption
<1> QED BY <1>2, <1>3, <1>4, <1>6

\* The invariant holds in the initial states.
LEMMA RelocationInit == Init => RelocationInv
<1> SUFFICES ASSUME Init PROVE RelocationInv
  OBVIOUS
<1>1. TypeOK
  <2>1. {} \in Word(8 * Size) /\ 0 \in 0 .. MaxPasses
    BY SizeAssumption DEF Word
  <2>2. at.pc = "idle" /\ at.pos = 0
    BY DEF Init, Idle
  <2>3. blob \in Blobs /\ base \in Bases /\ mem = {} /\ user = << >> /\ passes = 0
    BY DEF Init
  <2>4. whole \in BOOLEAN /\ ran \in {"none", "failed", "done"}
    BY DEF Init
  <2> QED BY <2>1, <2>2, <2>3, <2>4 DEF TypeOK
<1> QED BY <1>1 DEF Init, Idle, RelocationInv, LoopOK, NeighboursKept, LastInferenceWins

\* Every step keeps it.
LEMMA RelocationStep == RelocationInv /\ [Next]_vars => RelocationInv'
<1> SUFFICES ASSUME RelocationInv, [Next]_vars PROVE RelocationInv'
  OBVIOUS
<1> USE DEF RelocationInv
<1>1. /\ Size \in Nat /\ MaxPasses \in Nat
      /\ blob \in Blobs /\ at.pos \in Nat /\ passes \in 0 .. MaxPasses
      /\ mem \in Word(8 * Size)
  BY SizeAssumption DEF TypeOK
<1>2. /\ Len(blob.jit) \in Nat /\ Len(blob.rela) \in Nat
  BY <1>1, BlobFacts
<1>3. ASSUME NEW b \in Bases, applyRelocations(b) PROVE RelocationInv'
  <2>1. TypeOK'
    <3>1. at'.pc = "reloc" /\ at'.pos = 1
      BY <1>3 DEF applyRelocations
    <3>2. mem' \in Word(8 * Size)
      BY <1>1, <1>3, BlobFacts DEF applyRelocations
    <3>3. passes' \in 0 .. MaxPasses
      BY <1>1, <1>3 DEF applyRelocations
    <3> QED BY <1>3, <3>1, <3>2, <3>3 DEF applyRelocations, TypeOK
  <2>2. LoopOK' /\ NeighboursKept' /\ LastInferenceWins'
    BY <1>1, <1>3 DEF applyRelocations, LoopOK, NeighboursKept, LastInferenceWins
  <2> QED BY <2>1, <2>2
<1>4. ASSUME NEW u \in UserIO, applyJitRelocations(u) PROVE RelocationInv'
  <2>1. TypeOK'
    BY <1>1, <1>4 DEF applyJitRelocations, TypeOK
  <2>2. NeighboursKept'
    BY <1>1, <1>4 DEF applyJitRelocations, NeighboursKept, FieldOf, AtByte
  <2>3. LastWriter(0, user)'
    BY DEF LastWriter
  <2>4. LoopOK' /\ LastInferenceWins'
    BY <1>1, <1>2, <1>4, <2>3 DEF applyJitRelocations, LoopOK, LastInferenceWins
  <2> QED BY <2>1, <2>2, <2>4
<1>5. ASSUME RelocEntry PROVE RelocationInv'
  <2>0. PICK e, y : e = blob.rela[at.pos] /\ y = blob.syms[e.sym]
    OBVIOUS
  <2>1. at.pos \in 1 .. Len(blob.rela) /\ at.pc = "reloc" /\ passes > 0 /\ ran = "none"
    BY <1>1, <1>2, <1>5, <2>0 DEF RelocEntry, LoopOK
  <2>2. e \in Entry /\ Fits(e)
    BY <1>1, <2>0, <2>1, BlobFacts
  <2>3. UNCHANGED <<blob, base, user, whole, ran, passes>>
    BY <1>5 DEF RelocEntry
  <2>4. CASE mem' = mem /\ at' = Idle
    <3>1. TypeOK'
      BY <1>1, <2>3, <2>4 DEF TypeOK, Idle
    <3>2. NeighboursKept'
      BY <2>3, <2>4 DEF NeighboursKept, FieldOf, AtByte
    <3> QED BY <2>1, <2>3, <2>4, <3>1, <3>2 DEF LoopOK, LastInferenceWins, Idle
  <2>5. CASE /\ ~EntryRefused(e, {SymTabEntries(blob)})
             /\ mem' = Relocate(mem, e, SymbolValue(base, y), y.size)
             /\ at' = [at EXCEPT !.pos = @ + 1]
    <3>1. e.type \in RelocationTypes /\ e.offset < Size
      BY <1>1, <2>2, <2>5 DEF EntryRefused, Entry
    <3>0. PICK s : s = SymbolValue(base, y) /\ mem' = Relocate(mem, e, s, y.size)
      BY <2>5
    <3>2. /\ mem' \in Word(8 * Size)
          /\ \A i : i \notin FieldOf(e) => (i \in mem' <=> i \in mem)
      BY <1>1, <2>2, <3>0, <3>1, RelocateFacts
    <3>3. at'.pc = "reloc" /\ at'.pos = at.pos + 1
      BY <2>1, <2>5 DEF TypeOK
    <3>4. TypeOK'
      BY <1>1, <2>3, <3>2, <3>3 DEF TypeOK
    <3>5. NeighboursKept'
      <4> SUFFICES ASSUME NEW i \in Bits(8 * Size),
                          \A q \in {blob.rela, blob.jit} : \A k \in DOMAIN q : i \notin FieldOf(q[k])
                   PROVE  i \in mem' <=> i \in blob.image
        BY <2>3 DEF NeighboursKept, FieldOf, AtByte
      <4>1. i \notin FieldOf(e)
        BY <1>1, <2>0, <2>1, BlobFacts
      <4>2. i \in mem <=> i \in blob.image
        BY <2>1 DEF NeighboursKept
      <4> QED BY <3>2, <4>1, <4>2
    <3> QED BY <1>1, <2>1, <2>3, <3>3, <3>4, <3>5 DEF LoopOK, LastInferenceWins
  <2> QED BY <1>5, <2>0, <2>4, <2>5 DEF RelocEntry
<1>6. ASSUME RelocDone PROVE RelocationInv'
  <2>1. TypeOK'
    BY <1>1, <1>6 DEF RelocDone, TypeOK, Idle
  <2>2. NeighboursKept'
    BY <1>6 DEF RelocDone, NeighboursKept, FieldOf, AtByte
  <2>3. ran = "none"
    BY <1>6 DEF RelocDone, LoopOK
  <2> QED BY <1>6, <2>1, <2>2, <2>3 DEF RelocDone, Idle, LoopOK, LastInferenceWins
<1>7. ASSUME JitEntry PROVE RelocationInv'
  <2>0. PICK e, z, n : e = blob.jit[at.pos] /\ z = blob.syms[e.sym].size /\ n = at.pos
    OBVIOUS
  <2>1. n \in 1 .. Len(blob.jit) /\ at.pc = "jit" /\ passes > 0 /\ ran = "failed"
    BY <1>1, <1>2, <1>7, <2>0 DEF JitEntry, LoopOK
  <2>2. e \in Entry /\ Fits(e) /\ (e.type \in RelocationTypes => e.type \in Overwriting)
    BY <1>1, <2>0, <2>1, BlobFacts
  <2>3. UNCHANGED <<blob, base, user, whole, ran, passes>>
    BY <1>7 DEF JitEntry
  <2>4. CASE mem' = mem /\ at' = Idle
    <3>1. TypeOK'
      BY <1>1, <2>3, <2>4 DEF TypeOK, Idle
    <3>2. NeighboursKept'
      BY <2>3, <2>4 DEF NeighboursKept, FieldOf, AtByte
    <3> QED BY <2>1, <2>3, <2>4, <3>1, <3>2 DEF LoopOK, LastInferenceWins, Idle
  <2>5. CASE /\ ~EntryRefused(e, {SymTabEntries(blob), Len(user)})
             /\ mem' = Relocate(mem, e, UserAddress(e), z)
             /\ at' = [at EXCEPT !.pos = @ + 1]
    <3>1. e.type \in RelocationTypes /\ e.offset < Size
      BY <1>1, <2>2, <2>5 DEF EntryRefused, Entry
    <3>0. PICK s : s = UserAddress(e) /\ mem' = Relocate(mem, e, s, z)
      BY <2>5
    <3>2. /\ mem' \in Word(8 * Size)
          /\ \A i : i \notin FieldOf(e) => (i \in mem' <=> i \in mem)
          /\ \A i \in FieldOf(e) :
                i \in mem' <=> i \in AtByte(e, relocationMap(e.type, {}, s, z, e.addend))
      BY <1>1, <2>2, <3>0, <3>1, RelocateFacts
    <3>3. at'.pc = "jit" /\ at'.pos = n + 1 /\ n \in Nat
      BY <1>1, <2>0, <2>1, <2>5 DEF TypeOK
    <3>4. TypeOK'
      BY <1>1, <2>3, <3>2, <3>3 DEF TypeOK
    <3>5. NeighboursKept'
      <4> SUFFICES ASSUME NEW i \in Bits(8 * Size),
                          \A q \in {blob.rela, blob.jit} : \A k \in DOMAIN q : i \notin FieldOf(q[k])
                   PROVE  i \in mem' <=> i \in blob.image
        BY <2>3 DEF NeighboursKept, FieldOf, AtByte
      <4>1. i \notin FieldOf(e)
        BY <1>1, <2>0, <2>1, BlobFacts
      <4>2. i \in mem <=> i \in blob.image
        BY <2>1 DEF NeighboursKept
      <4> QED BY <3>2, <4>1, <4>2
    <3>6. LastWriter(n, user)'
      <4> SUFFICES ASSUME NEW j \in 1 .. n, NEW i \in FieldOf(blob.jit[j]),
                          \A k \in j + 1 .. n : i \notin FieldOf(blob.jit[k])
                   PROVE  i \in mem' <=> i \in Overwritten(blob.jit[j], user)
        BY <2>3 DEF LastWriter, FieldOf, AtByte, Overwritten
      <4>1. CASE j = n
        BY <2>0, <3>0, <3>2, <4>1 DEF Overwritten, UserAddress
      <4>2. CASE j # n
        <5>1. j \in 1 .. n - 1 /\ n \in j + 1 .. n /\ \A k \in j + 1 .. n - 1 : k \in j + 1 .. n
          BY <2>1, <4>2
        <5>2. i \notin FieldOf(e)
          BY <2>0, <5>1
        <5>3. i \in mem <=> i \in Overwritten(blob.jit[j], user)
          BY <2>0, <2>1, <5>1 DEF LoopOK, LastWriter
        <5> QED BY <3>2, <5>2, <5>3
      <4> QED BY <4>1, <4>2
    <3>7. LoopOK'
      <4>1. at'.pos - 1 = n
        BY <3>3
      <4>2. LastWriter(at.pos - 1, user)'
        BY <3>6, <4>1 DEF LastWriter, FieldOf, AtByte, Overwritten
      <4> QED BY <1>1, <1>2, <2>0, <2>1, <2>3, <3>3, <4>2 DEF LoopOK
    <3> QED BY <3>3, <3>4, <3>5, <3>7 DEF LastInferenceWins
  <2> QED BY <1>7, <2>0, <2>4, <2>5 DEF JitEntry
<1>8. ASSUME JitDone PROVE RelocationInv'
  <2>1. TypeOK'
    BY <1>1, <1>8 DEF JitDone, TypeOK, Idle
  <2>2. NeighboursKept'
    BY <1>8 DEF JitDone, NeighboursKept, FieldOf, AtByte
  <2>3. at.pos - 1 = Len(blob.jit)
    BY <1>1, <1>2, <1>8 DEF JitDone, LoopOK
  <2>4. LastWriter(Len(blob.jit), user)
    BY <1>8, <2>3 DEF JitDone, LoopOK
  <2>5. LastInferenceWins'
    BY <1>8, <2>4 DEF JitDone, LastInferenceWins, LastWriter, FieldOf, AtByte, Overwritten
  <2> QED BY <1>8, <2>1, <2>2, <2>5 DEF JitDone, Idle, LoopOK
<1>9. CASE UNCHANGED vars
  BY <1>9 DEF vars, TypeOK, LoopOK, NeighboursKept, LastInferenceWins, LastWriter,
              FieldOf, AtByte, Overwritten
<1> QED BY <1>3, <1>4, <1>5, <1>6, <1>7, <1>8, <1>9 DEF Next

\* The types of the variables: a relocation never writes a bit beyond the section's
\* buffer, whatever passes there are.
THEOREM RelocationTypeCorrect == Spec => []TypeOK
<1>1. Spec => []RelocationInv
  BY RelocationInit, RelocationStep, PTL DEF Spec
<1> QED BY <1>1, PTL DEF RelocationInv

\* Whatever entries are applied, and however often, a bit of the buffer that lies in no
\* entry's field is the image's.
THEOREM RelocationKeepsNeighbours == Spec => []NeighboursKept
<1>1. Spec => []RelocationInv
  BY RelocationInit, RelocationStep, PTL DEF Spec
<1> QED BY <1>1, PTL DEF RelocationInv

\* After an inference every JIT field holds that inference's user buffers alone,
\* whatever the inferences before it left, completed or thrown half way.
THEOREM RelocationLastInferenceWins == Spec => []LastInferenceWins
<1>1. Spec => []RelocationInv
  BY RelocationInit, RelocationStep, PTL DEF Spec
<1> QED BY <1>1, PTL DEF RelocationInv

\* A power of two counts the subsets of a finite set.
LEMMA Pow == ASSUME NEW i \in Nat PROVE 2^i \in Nat \ {0}
<1>1. IsFiniteSet(1 .. i) /\ Cardinality(1 .. i) = i
  BY FS_Interval
<1>2. IsFiniteSet(SUBSET (1 .. i)) /\ Cardinality(SUBSET (1 .. i)) = 2 ^ i
  BY <1>1, FS_SUBSET
<1>3. SUBSET (1 .. i) # {}
  OBVIOUS
<1> QED BY <1>2, <1>3, FS_EmptySet, FS_CardinalityType

\* The word without bits is the number zero, and back.
LEMMA Zero == Number({}) = 0 /\ Binary(0) = {}
<1>1. Number({}) = 0
  BY Zenon DEF Number, FoldSet, MapThenFoldSet
<1>2. ASSUME NEW p \in Nat \ {0} PROVE (0 \div p) % 2 # 1
  <2>1. 0 \div p = 0
    BY Z3
  <2> QED BY <2>1
<1>3. \A i \in 0 .. 30 : (0 \div (2 ^ i)) % 2 # 1
  <2> TAKE i \in 0 .. 30
  <2>1. 2 ^ i \in Nat \ {0}
    BY Pow
  <2> QED BY <2>1, <1>2
<1>4. Binary(0) = {}
  BY <1>3 DEF Binary
<1> QED BY <1>1, <1>4

\* An address without multicast bits is its own base.
LEMMA LowBase == ASSUME NEW v, v \subseteq Bits(21) PROVE to_dpu_multicast_base(v) = v
<1>1. v \cap {22, 23} = {}
  BY DEF Bits
<1>2. ShiftRight({}, 20) = {}
  BY DEF ShiftRight
<1>3. broadcast_mask(v) = 0
  BY <1>1, <1>2, Zero, Zenon DEF broadcast_mask
<1>4. multicast_masks(0)[1] = 0
  BY DEF multicast_masks
<1>5. ShiftLeft(32, {}, 20) = {}
  BY DEF ShiftLeft, Cast
<1>6. to_dpu_multicast_base(v) = (v \cap ADDRESS_MASK) \cup {}
  BY <1>3, <1>4, <1>5, Zero, Zenon DEF to_dpu_multicast_base
<1>7. v \subseteq ADDRESS_MASK
  BY DEF ADDRESS_MASK, Bits
<1> QED BY <1>6, <1>7

\* A set of numbers that is not empty has a least element.
LEMMA Least == ASSUME NEW S, S \subseteq Nat, S # {} PROVE \E b \in S : \A c \in S : b <= c
<1>1. PICK R : R = OpToRel(<,Nat)
  OBVIOUS
<1>2. IsWellFoundedOn(R, Nat)
  BY <1>1, NatLessThanWellFounded
<1>3. PICK b \in S : \A c \in S : ~(<<c, b>> \in R)
  BY <1>2, WFMin
<1>4. R = {p \in Nat \X Nat : p[1] < p[2]}
  BY <1>1 DEF OpToRel
<1>5. ASSUME NEW c \in S PROVE b <= c
  <2>1. <<c, b>> \in Nat \X Nat
    OBVIOUS
  <2>2. c < b => <<c, b>> \in R
    BY <1>4, <2>1
  <2> QED BY <1>3, <2>2
<1> QED BY <1>5

\* The number of a finite word is one: the fold that adds its bits up is what its
\* recursion says, on the subsets of each size.
LEMMA NumberType == ASSUME NEW a, a \subseteq Nat, IsFiniteSet(a) PROVE Number(a) \in Nat
<1> DEFINE Pick(s) == CHOOSE x \in s : TRUE
           Runs(f, S) == f = [s \in S |-> IF s = {} THEN 0 ELSE f[s \ {Pick(s)}] + 2 ^ Pick(s)]
           Upto(k) == {s \in SUBSET a : Cardinality(s) <= k}
<1>1. Number(a) = (CHOOSE f : Runs(f, SUBSET a))[a]
  BY Zenon DEF Number, FoldSet, MapThenFoldSet
<1>2. \A s \in SUBSET a : s # {} => Pick(s) \in s /\ Pick(s) \in Nat
  <2> TAKE s \in SUBSET a
  <2> HAVE s # {}
  <2>1. PICK y : y \in s
    OBVIOUS
  <2>2. Pick(s) \in s
    BY <2>1
  <2> QED BY <2>2
<1> HIDE DEF Pick
<1>3. \A s \in SUBSET a : IsFiniteSet(s) /\ Cardinality(s) \in Nat
  BY FS_Subset, FS_CardinalityType
<1>4. \A s \in SUBSET a : s # {} => /\ s \ {Pick(s)} \in SUBSET a
                                    /\ Cardinality(s \ {Pick(s)}) = Cardinality(s) - 1
  <2> TAKE s \in SUBSET a
  <2> HAVE s # {}
  <2>1. PICK x : x = Pick(s)
    OBVIOUS
  <2>2. x \in s /\ IsFiniteSet(s)
    BY <1>2, <1>3, <2>1
  <2>3. Cardinality(s \ {x}) = Cardinality(s) - 1
    BY <2>2, FS_RemoveElement
  <2> QED BY <2>1, <2>3
<1>5. \A s \in SUBSET a : Cardinality(s) = 0 => s = {}
  BY <1>3, FS_EmptySet
<1>6. \A k \in Nat : \E f : Runs(f, Upto(k))
  <2> SUFFICES ASSUME \E k \in Nat : ~ \E f : Runs(f, Upto(k)) PROVE FALSE
    OBVIOUS
  <2>1. PICK k \in Nat : /\ ~ \E f : Runs(f, Upto(k))
                         /\ \A c \in Nat : ~(\E f : Runs(f, Upto(c))) => k <= c
    <3> DEFINE S == {k \in Nat : ~ \E f : Runs(f, Upto(k))}
    <3>1. S \subseteq Nat /\ S # {}
      OBVIOUS
    <3> HIDE DEF Runs, Upto
    <3>2. PICK k \in S : \A c \in S : k <= c
      BY <3>1, Least
    <3> QED BY <3>2
  <2>2. k # 0
    <3> SUFFICES ASSUME k = 0 PROVE \E f : Runs(f, Upto(k))
      BY <2>1
    <3>1. \A s \in Upto(k) : s = {}
      BY <1>3, <1>5
    <3> DEFINE f == [s \in Upto(k) |-> 0]
    <3> HIDE DEF Upto
    <3>2. f = [s \in Upto(k) |-> IF s = {} THEN 0 ELSE f[s \ {Pick(s)}] + 2 ^ Pick(s)]
      BY <3>1
    <3> QED BY <3>2
  <2>3. PICK f : Runs(f, Upto(k - 1))
    <3>1. k - 1 \in Nat /\ ~(k <= k - 1)
      BY <2>2
    <3> HIDE DEF Runs, Upto
    <3> QED BY <2>1, <3>1
  <2> DEFINE g == [s \in Upto(k) |-> IF s = {} THEN 0 ELSE f[s \ {Pick(s)}] + 2 ^ Pick(s)]
  <2>4. \A s \in Upto(k) : s # {} => s \ {Pick(s)} \in Upto(k - 1) /\ s \ {Pick(s)} \in Upto(k)
    <3> TAKE s \in Upto(k)
    <3> HAVE s # {}
    <3>1. PICK r : r = s \ {Pick(s)}
      OBVIOUS
    <3>2. r \in SUBSET a /\ Cardinality(r) = Cardinality(s) - 1 /\ Cardinality(s) \in Nat /\ Cardinality(s) <= k
      BY <1>3, <1>4, <3>1
    <3> QED BY <3>1, <3>2
  <2> HIDE DEF Upto
  <2>5. \A s \in Upto(k - 1) \cap Upto(k) : g[s] = f[s]
    BY <2>3
  <2>6. \A s \in Upto(k) : s # {} => g[s \ {Pick(s)}] = f[s \ {Pick(s)}]
    <3> HIDE DEF g
    <3> QED BY <2>4, <2>5
  <2>7. g = [s \in Upto(k) |-> IF s = {} THEN 0 ELSE g[s \ {Pick(s)}] + 2 ^ Pick(s)]
    BY <2>6
  <2>8. Runs(g, Upto(k))
    BY <2>7
  <2> HIDE DEF g, Runs
  <2> QED BY <2>1, <2>8
<1>7. SUBSET a = Upto(Cardinality(a))
  BY <1>3, FS_Subset
<1>8. PICK f : f = CHOOSE g : Runs(g, SUBSET a)
  OBVIOUS
<1>9. Runs(f, SUBSET a)
  <2> HIDE DEF Runs, Upto
  <2>1. Cardinality(a) \in Nat
    BY <1>3
  <2>2. \E g : Runs(g, SUBSET a)
    BY <1>6, <1>7, <2>1
  <2> QED BY <1>8, <2>2
<1>10. \A s \in SUBSET a : f[s] = IF s = {} THEN 0 ELSE f[s \ {Pick(s)}] + 2 ^ Pick(s)
  BY <1>9
<1>11. \A s \in SUBSET a : f[s] \in Nat
  <2> SUFFICES ASSUME \E s \in SUBSET a : f[s] \notin Nat PROVE FALSE
    OBVIOUS
  <2> DEFINE S == {Cardinality(s) : s \in {r \in SUBSET a : f[r] \notin Nat}}
  <2>1. S \subseteq Nat /\ S # {}
    BY <1>3
  <2>2. PICK k \in S : \A c \in S : k <= c
    <3> HIDE DEF S
    <3> QED BY <2>1, Least
  <2>3. PICK s \in SUBSET a : f[s] \notin Nat /\ k = Cardinality(s)
    BY <2>2
  <2>4. s # {}
    <3>1. {} \in SUBSET a
      OBVIOUS
    <3>2. f[{}] = 0
      BY <1>10, <3>1
    <3> QED BY <2>3, <3>2
  <2>5. PICK r : r = s \ {Pick(s)}
    OBVIOUS
  <2>6. r \in SUBSET a /\ Cardinality(r) = k - 1 /\ k \in Nat
    BY <1>3, <1>4, <2>3, <2>4, <2>5
  <2>7. f[r] \in Nat
    <3>1. f[r] \notin Nat => k <= k - 1
      BY <2>2, <2>6
    <3> QED BY <2>6, <3>1
  <2>8. 2 ^ Pick(s) \in Nat
    BY <1>2, <2>4, Pow
  <2>9. f[s] = f[r] + 2 ^ Pick(s)
    BY <1>10, <2>4, <2>5
  <2> QED BY <2>3, <2>7, <2>8, <2>9
<1> HIDE DEF Runs
<1> QED BY <1>1, <1>8, <1>11

\* The types whose formula is compared with their function bit by bit below.
Conform == RelocationTypes \ Differing

\* On a word of its width, with any symbol, size and addend, the function of such a type
\* computes what the formula of the type says.
LEMMA FormulaFacts ==
    ASSUME NEW t \in Conform, NEW d \in Word(WidthOf(t)), NEW s, NEW z, NEW a,
           t = "R_VPU_64_LSHIFT" => s \subseteq Bits(6)
    PROVE  Formula(t, d, s, z, a) = relocationMap(t, d, s, z, a)
<1> DEFINE v == Add(64, s, a)
           local == Cast(32, v) \ (21 .. 26)
           r == relocationMap(t, d, s, z, a)
           f == Formula(t, d, s, z, a)
<1>1. v \subseteq Bits(64) /\ v \subseteq Int
  BY WordFacts DEF Bits
<1>2. d \subseteq Bits(WidthOf(t))
  BY DEF Word
<1>3. local = Cast(32, v) \ B21_B26_MASK /\ local \subseteq Bits(32) /\ local \subseteq Int
  BY DEF B21_B26_MASK, Cast, Bits
<1>4. \A i : i \in local <=> i \in v /\ i \in Bits(32) /\ i \notin 21 .. 26
  BY DEF Cast
<1>5. v \cap LO_21_BIT_MASK \subseteq Int /\ \A i : i \in LO_21_BIT_MASK <=> i \in 0 .. 20
  BY <1>1 DEF LO_21_BIT_MASK, Bits
<1>6. /\ 4 \in Int /\ 5 \in Int /\ 14 \in Int /\ 16 \in Int /\ 37 \in Int
      /\ 32 \in Nat /\ 64 \in Nat
  OBVIOUS
<1> SUFFICES f = r
  OBVIOUS
<1> HIDE DEF v, r, f, local
<1>10. CASE t = "R_VPU_64"
  <2>30. WidthOf(t) = 64
    BY <1>10, Widths DEF Width64
  <2>31. f = From(v, Bits(WidthOf(t)), 0)
    BY <1>10, Zenon DEF f, v, Formula
  <2>32. r = VPU_64_BIT(d, v)
    BY <1>10, Dispatch DEF v, r
  <2>1. r = VPU_64_BIT(d, v) /\ f = From(v, Bits(64), 0)
    BY <2>30, <2>31, <2>32
  <2>2. \A i \in Bits(64) : i + 0 = i
    BY DEF Bits
  <2>3. \A i : i \in f <=> i \in v
    BY <1>1, <2>1, <2>2 DEF From
  <2> QED BY <2>1, <2>3 DEF VPU_64_BIT
<1>11. CASE t = "R_VPU_32"
  <2>30. WidthOf(t) = 32
    BY <1>11, Widths DEF Width32
  <2>31. f = From(v, Bits(WidthOf(t)), 0)
    BY <1>11, Zenon DEF f, v, Formula
  <2>32. r = VPU_32_BIT(d, v)
    BY <1>11, Dispatch DEF v, r
  <2>1. r = VPU_32_BIT(d, v) /\ f = From(v, Bits(32), 0)
    BY <2>30, <2>31, <2>32
  <2> QED BY <1>1, <2>1 DEF VPU_32_BIT, From, Bits, Cast
<1>12. CASE t = "R_VPU_64_OR"
  <2>30. r = VPU_64_BIT_OR(d, v)
    BY <1>12, Dispatch DEF v, r
  <2>31. f = d \cup v
    BY <1>12, Zenon DEF f, v, Formula
  <2>1. r = VPU_64_BIT_OR(d, v) /\ f = d \cup v
    BY <2>30, <2>31
  <2> QED BY <2>1 DEF VPU_64_BIT_OR
<1>13. CASE t = "R_VPU_32_RTM"
  <2>1. r = VPU_32_BIT_RTM(d, s, z, a)
    BY <1>13, Dispatch DEF v, r
  <2>2. f = Cast(32, Add(64, s, Mul(64, a, Cast(64, d) \cap Sub(64, z, {0}))))
    BY <1>13, Zenon DEF f, Formula
  <2>3. WidthOf(t) = 32
    BY <1>13, Widths DEF Width32
  <2>4. Cast(64, d) = d
    <3>1. d \subseteq Bits(32) /\ Bits(32) \subseteq Bits(64)
      BY <1>2, <2>3 DEF Bits
    <3> QED BY <3>1 DEF Cast
  <2> QED BY <2>1, <2>2, <2>4, Zenon DEF VPU_32_BIT_RTM
<1>14. CASE t \in {"R_VPU_32_SUM", "R_VPU_16_SUM"}
  <2>1. CASE t = "R_VPU_32_SUM"
    <3>30. WidthOf(t) = 32
      BY <2>1, Widths DEF Width32
    <3>31. f = Add(WidthOf(t), d, Cast(WidthOf(t), v))
      BY <2>1, Zenon DEF f, v, Formula
    <3>32. r = VPU_32_BIT_SUM(d, v)
      BY <2>1, Dispatch DEF v, r
    <3>1. r = VPU_32_BIT_SUM(d, v) /\ f = Add(32, d, Cast(32, v))
      BY <3>30, <3>31, <3>32
    <3> QED BY <3>1 DEF VPU_32_BIT_SUM
  <2>2. CASE t = "R_VPU_16_SUM"
    <3>30. WidthOf(t) = 16
      BY <2>2, Widths DEF Width16
    <3>31. f = Add(WidthOf(t), d, Cast(WidthOf(t), v))
      BY <2>2, Zenon DEF f, v, Formula
    <3>32. r = VPU_16_BIT_SUM(d, v)
      BY <2>2, Dispatch DEF v, r
    <3>1. r = VPU_16_BIT_SUM(d, v) /\ f = Add(16, d, Cast(16, v))
      BY <3>30, <3>31, <3>32
    <3> QED BY <3>1 DEF VPU_16_BIT_SUM
  <2> QED BY <1>14, <2>1, <2>2
<1>15. CASE t = "R_VPU_32_MULTICAST_BASE"
  <2>30. r = VPU_32_MULTICAST_BASE(d, v)
    BY <1>15, Dispatch DEF v, r
  <2>31. f = to_dpu_multicast_base(Cast(32, v))
    BY <1>15, Zenon DEF f, v, Formula
  <2>1. r = VPU_32_MULTICAST_BASE(d, v) /\ f = to_dpu_multicast_base(Cast(32, v))
    BY <2>30, <2>31
  <2> QED BY <2>1 DEF VPU_32_MULTICAST_BASE
<1>16. CASE t = "R_VPU_32_MULTICAST_BASE_SUB"
  <2>30. r = VPU_32_MULTICAST_BASE_SUB(d, v)
    BY <1>16, Dispatch DEF v, r
  <2>31. f = Sub(32, to_dpu_multicast_base(Cast(32, v)), d)
    BY <1>16, Zenon DEF f, v, Formula
  <2>1. r = VPU_32_MULTICAST_BASE_SUB(d, v) /\ f = Sub(32, to_dpu_multicast_base(Cast(32, v)), d)
    BY <2>30, <2>31
  <2> QED BY <2>1 DEF VPU_32_MULTICAST_BASE_SUB
<1>17. CASE t = "R_VPU_DISP28_MULTICAST_OFFSET"
  <2>1. PICK x : x = offs(Cast(32, v), Number(ShiftRight(d, 4)))
    OBVIOUS
  <2>2. r = Cast(4, d) \cup ShiftLeft(32, x, 4)
    BY <1>17, <2>1, Dispatch DEF v, r, VPU_DISP28_MULTICAST_OFFSET
  <2>3. f = Set(d, 4 .. 31, {i + 4 : i \in x})
    BY <1>17, <2>1, Zenon DEF v, f, Formula
  <2>4. x \subseteq Bits(32) /\ x \subseteq Int
    BY <2>1, MulticastBits DEF Bits
  <2>5. \A i : i \in ShiftLeft(32, x, 4) <=> i \in Bits(32) /\ i - 4 \in x
    <3>1. x \subseteq Int
      BY <2>4
    <3> QED BY <1>6, <3>1, ShiftLeftBits, Zenon
  <2>6. \A i : i \in {j + 4 : j \in x} <=> i \in Int /\ i - 4 \in x
    BY <2>4
  <2>7. d \subseteq Bits(32)
    BY <1>2, <1>17, Widths DEF Width32
  <2>8. \A i : i \in r <=> (i \in d /\ i \in 0 .. 3) \/ (i \in 4 .. 31 /\ i - 4 \in x)
    BY <2>2, <2>4, <2>5 DEF Cast, Bits
  <2>9. \A i : i \in f <=> (i \in d /\ i \in 0 .. 3) \/ (i \in 4 .. 31 /\ i - 4 \in x)
    <3>1. \A i : i \in d => i \in 0 .. 31
      BY <2>7 DEF Bits
    <3> QED BY <2>3, <2>6, <3>1 DEF Set
  <2> QED BY <2>8, <2>9
<1>18. CASE t = "R_VPU_64_MULT"
  <2>30. r = VPU_64_BIT_MULT(d, s)
    BY <1>18, Dispatch DEF v, r
  <2>31. f = Mul(64, d, s)
    BY <1>18, Zenon DEF f, v, Formula
  <2>1. r = VPU_64_BIT_MULT(d, s) /\ f = Mul(64, d, s)
    BY <2>30, <2>31
  <2> QED BY <2>1 DEF VPU_64_BIT_MULT
<1>19. CASE t = "R_VPU_64_MULT_SUB"
  <2>30. r = VPU_64_BIT_MULT_SUB(d, s, a)
    BY <1>19, Dispatch DEF v, r
  <2>31. f = Mul(64, d, Sub(64, a, s))
    BY <1>19, Zenon DEF f, v, Formula
  <2>1. r = VPU_64_BIT_MULT_SUB(d, s, a) /\ f = Mul(64, d, Sub(64, a, s))
    BY <2>30, <2>31
  <2> QED BY <2>1 DEF VPU_64_BIT_MULT_SUB
<1>20. CASE t = "R_VPU_LO_21"
  <2>30. r = VPU_LO_21_BIT(d, v)
    BY <1>20, Dispatch DEF v, r
  <2>31. f = Set(d, 0 .. 20, v)
    BY <1>20, Zenon DEF f, v, Formula
  <2>1. r = VPU_LO_21_BIT(d, v) /\ f = Set(d, 0 .. 20, v)
    BY <2>30, <2>31
  <2> QED BY <1>5, <2>1 DEF VPU_LO_21_BIT, Set
<1>21. CASE t = "R_VPU_LO_21_SUM"
  <2>30. r = VPU_LO_21_BIT_SUM(d, v)
    BY <1>21, Dispatch DEF v, r
  <2>31. f = Add(32, d, From(v, 0 .. 20, 0))
    BY <1>21, Zenon DEF f, v, Formula
  <2>1. r = VPU_LO_21_BIT_SUM(d, v) /\ f = Add(32, d, From(v, 0 .. 20, 0))
    BY <2>30, <2>31
  <2>2. From(v, 0 .. 20, 0) = v \cap LO_21_BIT_MASK
    BY <1>1, <1>5 DEF From
  <2> QED BY <2>1, <2>2 DEF VPU_LO_21_BIT_SUM
<1>22. CASE t = "R_VPU_LO_21_MULTICAST_BASE"
  <2>30. r = VPU_LO_21_BIT_MULTICAST_BASE(d, v)
    BY <1>22, Dispatch DEF v, r
  <2>31. f = From(v, 0 .. 20, 0)
    BY <1>22, Zenon DEF f, v, Formula
  <2>1. r = VPU_LO_21_BIT_MULTICAST_BASE(d, v) /\ f = From(v, 0 .. 20, 0)
    BY <2>30, <2>31
  <2>2. From(v, 0 .. 20, 0) = v \cap LO_21_BIT_MASK
    BY <1>1, <1>5 DEF From
  <2>3. v \cap LO_21_BIT_MASK \subseteq Bits(21)
    BY DEF LO_21_BIT_MASK
  <2>4. to_dpu_multicast_base(v \cap LO_21_BIT_MASK) = v \cap LO_21_BIT_MASK
    BY <2>3, LowBase
  <2> QED BY <2>1, <2>2, <2>4 DEF VPU_LO_21_BIT_MULTICAST_BASE
<1>23. CASE t = "R_VPU_16_LSB_21_RSHIFT_5"
  <2>30. r = VPU_16_BIT_LSB_21_RSHIFT_5(d, v)
    BY <1>23, Dispatch DEF v, r
  <2>31. f = Set(d, 0 .. 15, From(v, 0 .. 15, 5))
    BY <1>23, Zenon DEF f, v, Formula
  <2>1. r = VPU_16_BIT_LSB_21_RSHIFT_5(d, v) /\ f = Set(d, 0 .. 15, From(v, 0 .. 15, 5))
    BY <2>30, <2>31
  <2>2. PICK x : x = ShiftRight(v \cap LO_21_BIT_MASK, 5)
    OBVIOUS
  <2>3. \A i : i \in x <=> i \in Nat /\ i + 5 \in v \cap LO_21_BIT_MASK
    BY <1>6, <1>5, <2>2, ShiftRightBits, Zenon
  <2>4. \A i : i \in x <=> i \in 0 .. 15 /\ i + 5 \in v
    BY <1>5, <2>3
  <2>5. r = (d \ Bits(16)) \cup x
    BY <2>1, <2>2 DEF VPU_16_BIT_LSB_21_RSHIFT_5
  <2> QED BY <2>1, <2>4, <2>5 DEF Set, From, Bits
<1>24. CASE t = "R_VPU_CMX_LOCAL_RSHIFT_5"
  <2>30. r = ShiftRight(local, 5)
    BY <1>3, <1>24, Dispatch DEF v, r, VPU_CMX_LOCAL_RSHIFT_5
  <2>31. f = From(local, 0 .. 26, 5)
    BY <1>24, Zenon DEF f, v, local, Formula
  <2>1. r = ShiftRight(local, 5) /\ f = From(local, 0 .. 26, 5)
    BY <2>30, <2>31
  <2>2. \A i : i \in r <=> i \in Nat /\ i + 5 \in local
    BY <1>6, <1>3, <2>1, ShiftRightBits, Zenon
  <2>3. \A i : i \in r <=> i \in 0 .. 26 /\ i + 5 \in local
    BY <1>3, <2>2 DEF Bits
  <2> QED BY <2>1, <2>3 DEF From
<1>25. CASE t \in {"R_VPU_32_BIT_OR_B21_B26_UNSET", "R_VPU_64_BIT_OR_B21_B26_UNSET"}
  <2>1. CASE t = "R_VPU_32_BIT_OR_B21_B26_UNSET"
    <3>30. r = VPU_32_BIT_OR_B21_B26_UNSET(d, v)
      BY <2>1, Dispatch DEF v, r
    <3>31. f = d \cup local
      BY <2>1, Zenon DEF f, v, local, Formula
    <3>1. r = VPU_32_BIT_OR_B21_B26_UNSET(d, v) /\ f = d \cup local
      BY <3>30, <3>31
    <3> QED BY <1>3, <3>1 DEF VPU_32_BIT_OR_B21_B26_UNSET
  <2>2. CASE t = "R_VPU_64_BIT_OR_B21_B26_UNSET"
    <3>30. r = VPU_64_BIT_OR_B21_B26_UNSET(d, v)
      BY <2>2, Dispatch DEF v, r
    <3>31. f = d \cup local
      BY <2>2, Zenon DEF f, v, local, Formula
    <3>1. r = VPU_64_BIT_OR_B21_B26_UNSET(d, v) /\ f = d \cup local
      BY <3>30, <3>31
    <3> QED BY <1>3, <3>1 DEF VPU_64_BIT_OR_B21_B26_UNSET
  <2> QED BY <1>25, <2>1, <2>2
<1>26. CASE t = "R_VPU_16_LSB_21_RSHIFT_5_LSHIFT_CUSTOM"
  <2>30. r = VPU_16_BIT_LSB_21_RSHIFT_5_LSHIFT_CUSTOM(d, v)
    BY <1>26, Dispatch DEF v, r
  <2>31. f = Set(Set(d, 17 .. 31, From(v, 17 .. 31, -11)), {14}, From(v, {14}, -9))
    BY <1>26, Zenon DEF f, v, Formula
  <2>1. r = VPU_16_BIT_LSB_21_RSHIFT_5_LSHIFT_CUSTOM(d, v) /\ f = Set(Set(d, 17 .. 31, From(v, 17 .. 31, -11)), {14}, From(v, {14}, -9))
    BY <2>30, <2>31
  <2>2. PICK x : x = ShiftRight(v \cap LO_21_BIT_MASK, 5)
    OBVIOUS
  <2>3. \A i : i \in x <=> i \in Nat /\ i + 5 \in v \cap LO_21_BIT_MASK
    BY <1>6, <1>5, <2>2, ShiftRightBits, Zenon
  <2>4. \A i : i \in x <=> i \in 0 .. 15 /\ i + 5 \in v
    BY <1>5, <2>3
  <2>14. x \ {0} \subseteq Int /\ x \cap {0} \subseteq Int
    BY <2>4
  <2>15. \A i : i \in ShiftLeft(32, x \ {0}, 16) <=> i \in Bits(32) /\ i - 16 \in x \ {0}
    <3>1. PICK y : y = x \ {0}
      OBVIOUS
    <3>2. y \subseteq Int
      BY <2>14, <3>1
    <3>3. \A i : i \in ShiftLeft(32, y, 16) <=> i \in Bits(32) /\ i - 16 \in y
      BY <1>6, <3>2, ShiftLeftBits, Zenon
    <3> QED BY <3>1, <3>3, Zenon
  <2>16. \A i : i \in ShiftLeft(32, x \cap {0}, 14) <=> i \in Bits(32) /\ i - 14 \in x \cap {0}
    BY <1>6, <2>14, ShiftLeftBits, Zenon
  <2>6. r = (d \ ({14} \cup 17 .. 31)) \cup ShiftLeft(32, x \ {0}, 16) \cup ShiftLeft(32, x \cap {0}, 14)
    BY <2>1, <2>2 DEF VPU_16_BIT_LSB_21_RSHIFT_5_LSHIFT_CUSTOM
  <2>7. \A i \in 16 .. 31 : (i - 16) + 5 = i - 11 /\ i + (-11) = i - 11
    OBVIOUS
  <2>8. \A i : i \in ShiftLeft(32, x \ {0}, 16) <=> i \in 17 .. 31 /\ i - 11 \in v
    BY <2>4, <2>15, <2>7 DEF Bits
  <2>9. \A i : i \in ShiftLeft(32, x \cap {0}, 14) <=> i = 14 /\ 5 \in v
    BY <2>4, <2>16 DEF Bits
  <2>10. \A i : i \in From(v, 17 .. 31, -11) <=> i \in 17 .. 31 /\ i - 11 \in v
    BY <2>7 DEF From
  <2>11. \A i : i \in From(v, {14}, -9) <=> i = 14 /\ 5 \in v
    BY DEF From
  <2>12. \A i : i \in r <=> \/ i \in d /\ i # 14 /\ i \notin 17 .. 31
                            \/ i \in 17 .. 31 /\ i - 11 \in v
                            \/ i = 14 /\ 5 \in v
    BY <2>6, <2>8, <2>9
  <2>13. \A i : i \in f <=> \/ i \in d /\ i # 14 /\ i \notin 17 .. 31
                            \/ i \in 17 .. 31 /\ i - 11 \in v
                            \/ i = 14 /\ 5 \in v
    <3>1. 14 \notin 17 .. 31
      OBVIOUS
    <3> QED BY <2>1, <2>10, <2>11, <3>1 DEF Set
  <2> QED BY <2>12, <2>13
<1>27. CASE t = "R_VPU_32_BIT_OR_B21_B26_UNSET_HIGH_16"
  <2>30. r = d \cup ShiftRight(local, 16)
    <3>1. r = VPU_32_BIT_OR_B21_B26_UNSET_HIGH_16(d, v)
      BY <1>27, Dispatch DEF v, r
    <3> QED BY <1>3, <3>1, Zenon DEF VPU_32_BIT_OR_B21_B26_UNSET_HIGH_16
  <2>31. f = d \cup From(local, 0 .. 15, 16)
    BY <1>27, Zenon DEF f, v, local, Formula
  <2>1. r = d \cup ShiftRight(local, 16) /\ f = d \cup From(local, 0 .. 15, 16)
    BY <2>30, <2>31
  <2>2. \A i : i \in ShiftRight(local, 16) <=> i \in Nat /\ i + 16 \in local
    BY <1>6, <1>3, ShiftRightBits, Zenon
  <2>3. \A i : i \in ShiftRight(local, 16) <=> i \in 0 .. 15 /\ i + 16 \in local
    BY <1>3, <2>2 DEF Bits
  <2> QED BY <2>1, <2>3 DEF From
<1>28. CASE t = "R_VPU_HIGH_27_BIT_OR"
  <2>30. r = VPU_HIGH_27_BIT_OR(d, v)
    BY <1>28, Dispatch DEF v, r
  <2>31. f = d \cup From(v \ (21 .. 23), 37 .. 63, -33)
    BY <1>28, Zenon DEF f, v, Formula
  <2>1. r = VPU_HIGH_27_BIT_OR(d, v) /\ f = d \cup From(v \ (21 .. 23), 37 .. 63, -33)
    BY <2>30, <2>31
  <2>2. PICK w : w = Cast(32, v) \ (21 .. 23)
    OBVIOUS
  <2>3. PICK x : x = Cast(27, ShiftRight(w, 4))
    OBVIOUS
  <2>4. w \subseteq Int
    BY <1>1, <2>2 DEF Cast
  <2>5. \A i : i \in x <=> i \in Bits(27) /\ i \in Nat /\ i + 4 \in w
    <3>1. \A i : i \in ShiftRight(w, 4) <=> i \in Nat /\ i + 4 \in w
      BY <1>6, <2>4, ShiftRightBits, Zenon
    <3> QED BY <2>3, <3>1 DEF Cast
  <2>6. x \subseteq Int
    BY <2>5
  <2>7. \A i : i \in ShiftLeft(64, x, 37) <=> i \in Bits(64) /\ i - 37 \in x
    BY <1>6, <2>6, ShiftLeftBits, Zenon
  <2>8. \A i \in 37 .. 63 : (i - 37) + 4 = i - 33 /\ i + (-33) = i - 33 /\ i - 33 \in Bits(32)
    BY DEF Bits
  <2>9. \A i \in 37 .. 63 : i - 33 \in w <=> i - 33 \in v /\ i - 33 \notin 21 .. 23
    BY <2>2, <2>8 DEF Cast
  <2>10. \A i : i \in ShiftLeft(64, x, 37) <=> i \in 37 .. 63 /\ i - 33 \in w
    BY <2>5, <2>7, <2>8 DEF Bits
  <2>11. \A i : i \in From(v \ (21 .. 23), 37 .. 63, -33) <=> i \in 37 .. 63 /\ i - 33 \in w
    BY <2>8, <2>9 DEF From
  <2>12. r = d \cup ShiftLeft(64, x, 37)
    BY <2>1, <2>2, <2>3 DEF VPU_HIGH_27_BIT_OR
  <2> QED BY <2>1, <2>10, <2>11, <2>12
<1>29. CASE t = "R_VPU_64_LSHIFT"
  <2>1. Cast(6, s) = s
    BY <1>29 DEF Cast
  <2>2. PICK n : n = Number(s)
    OBVIOUS
  <2>3. r = ShiftLeft(64, d, n)
    BY <1>29, <2>1, <2>2, Dispatch DEF r, VPU_64_BIT_LSHIFT
  <2>4. f = {i \in Bits(64) : i - n \in d}
    BY <1>29, <2>2, Zenon DEF f, Formula
  <2>5. n \in Int
    <3>1. IsFiniteSet(0 .. 5) /\ Bits(6) = 0 .. 5
      <4>1. 0 \in Int /\ 5 \in Int
        OBVIOUS
      <4>2. IsFiniteSet(0 .. 5)
        BY <4>1, FS_Interval, Zenon
      <4>3. Bits(6) = 0 .. 5
        BY DEF Bits
      <4> QED BY <4>2, <4>3
    <3>2. s \in SUBSET (0 .. 5) /\ 0 .. 5 \subseteq Nat
      BY <1>29, <3>1
    <3>3. IsFiniteSet(s)
      BY <3>1, <3>2, FS_Subset
    <3>4. s \subseteq Nat
      BY <3>2
    <3>5. Number(s) \in Nat
      BY <3>3, <3>4, NumberType, Zenon
    <3> QED BY <2>2, <3>5
  <2>6. d \subseteq Int
    <3>1. WidthOf(t) = 64
      BY <1>29, Widths DEF Width64
    <3> QED BY <1>2, <3>1 DEF Bits
  <2>7. \A i : i \in ShiftLeft(64, d, n) <=> i \in Bits(64) /\ i - n \in d
    BY <1>6, <2>5, <2>6, ShiftLeftBits, Zenon
  <2> QED BY <2>3, <2>4, <2>7
<1> QED
  BY <1>10, <1>11, <1>12, <1>13, <1>14, <1>15, <1>16, <1>17, <1>18, <1>19, <1>20, <1>21, <1>22,
     <1>23, <1>24, <1>25, <1>26, <1>27, <1>28, <1>29
     DEF Conform, Differing, RelocationTypes, Width64, Width32, Width16

\* The buffers that the formulas make of m are what the recursion says: there is such a
\* function for one entry more if there is one for the entries before.
LEMMA PatchedFacts ==
    ASSUME NEW b, NEW m, NEW q, Len(q) \in Nat, NEW s
    PROVE  /\ Patched(b, m, q, s)[0] = m
           /\ \A n \in 1 .. Len(q) : Patched(b, m, q, s)[n]
                  = Formulated(Patched(b, m, q, s)[n - 1], q[n], s[n], b.syms[q[n].sym].size)
<1> DEFINE Then(x, n) == Formulated(x, q[n], s[n], b.syms[q[n].sym].size)
           Runs(f, k) == f = [n \in 0 .. k |-> IF n = 0 THEN m ELSE Then(f[n - 1], n)]
<1>1. Patched(b, m, q, s) = CHOOSE f : Runs(f, Len(q))
  BY DEF Patched
<1> HIDE DEF Then
<1>2. \A k \in Nat : \E f : Runs(f, k)
  <2> SUFFICES ASSUME \E k \in Nat : ~ \E f : Runs(f, k) PROVE FALSE
    OBVIOUS
  <2>1. PICK k \in Nat : /\ ~ \E f : Runs(f, k)
                         /\ \A c \in Nat : ~(\E f : Runs(f, c)) => k <= c
    <3> DEFINE S == {k \in Nat : ~ \E f : Runs(f, k)}
    <3>1. S \subseteq Nat /\ S # {}
      OBVIOUS
    <3> HIDE DEF Runs
    <3>2. PICK k \in S : \A c \in S : k <= c
      BY <3>1, Least
    <3> QED BY <3>2
  <2>2. k # 0
    <3> SUFFICES ASSUME k = 0 PROVE \E f : Runs(f, 0)
      BY <2>1
    <3> DEFINE f == [n \in 0 .. 0 |-> m]
    <3>1. f = [n \in 0 .. 0 |-> IF n = 0 THEN m ELSE Then(f[n - 1], n)]
      OBVIOUS
    <3> QED BY <3>1
  <2>3. PICK f : Runs(f, k - 1)
    <3>1. k - 1 \in Nat /\ ~(k <= k - 1)
      BY <2>2
    <3> HIDE DEF Runs
    <3> QED BY <2>1, <3>1
  <2> DEFINE g == [n \in 0 .. k |-> IF n = 0 THEN m ELSE Then(f[n - 1], n)]
  <2>4. \A n \in 0 .. k - 1 : g[n] = f[n]
    BY <2>3
  <2>5. \A n \in 0 .. k : n # 0 => g[n - 1] = f[n - 1]
    <3> TAKE n \in 0 .. k
    <3>1. n # 0 => n - 1 \in 0 .. k - 1
      OBVIOUS
    <3> HIDE DEF g
    <3> QED BY <2>4, <3>1
  <2>6. g = [n \in 0 .. k |-> IF n = 0 THEN m ELSE Then(g[n - 1], n)]
    BY <2>5
  <2>7. Runs(g, k)
    BY <2>6
  <2> HIDE DEF g, Runs
  <2> QED BY <2>1, <2>7
<1>3. PICK p : p = Patched(b, m, q, s)
  OBVIOUS
<1>4. Runs(p, Len(q))
  <2> HIDE DEF Runs
  <2> QED BY <1>1, <1>2, <1>3
<1>5. p[0] = m
  BY <1>4
<1>6. \A n \in 1 .. Len(q) : p[n] = Then(p[n - 1], n)
  <2> TAKE n \in 1 .. Len(q)
  <2>1. n \in 0 .. Len(q) /\ n # 0
    OBVIOUS
  <2> QED BY <1>4, <2>1
<1> QED BY <1>3, <1>5, <1>6 DEF Then

\* An entry of such a type does what its formula says.
LEMMA FormulatedFacts ==
    ASSUME NEW m \in Word(8 * Size), NEW e \in Entry, e.type \in Conform, NEW s, NEW z,
           e.type = "R_VPU_64_LSHIFT" => s \subseteq Bits(6)
    PROVE  Formulated(m, e, s, z) = Relocate(m, e, s, z)
<1>1. e.offset \in Nat /\ m \subseteq Int
  BY DEF Entry, Word, Bits
<1>2. Target(m, e) \in Word(WidthOf(e.type))
  BY <1>1, TargetBits DEF Word
<1>3. Formula(e.type, Target(m, e), s, z, e.addend) = relocationMap(e.type, Target(m, e), s, z, e.addend)
  BY <1>2, FormulaFacts
<1> QED BY <1>3 DEF Formulated, Relocate

\* The formulas of all entries are compared.
Compared(b) ==
    /\ \A k \in DOMAIN b.rela : b.rela[k].type \in Documented
    /\ \A k \in DOMAIN b.jit : b.jit[k].type \in Documented

\* The types compared are those that conform, and no blob asks for a shift by 64 bits or
\* more, for which the function takes the count modulo 64 and the formula does not.
Conforms ==
    /\ Documented \subseteq Conform
    /\ \A b \in Blobs : \A k \in DOMAIN b.rela : \A c \in Bases :
          b.rela[k].type = "R_VPU_64_LSHIFT" =>
              SymbolValue(c, b.syms[b.rela[k].sym]) \subseteq Bits(6)

\* The images that the formulas make of the blob's, entry by entry.
LEMMA RelocatedStep ==
    ASSUME NEW b \in Blobs, Compared(b), Conforms, NEW c
    PROVE  /\ RelocatedImages(b, c)[0] = b.image
           /\ c \in Bases => \A n \in 1 .. Len(b.rela) :
                 RelocatedImages(b, c)[n - 1] \in Word(8 * Size) =>
                 RelocatedImages(b, c)[n]
                     = Relocate(RelocatedImages(b, c)[n - 1], b.rela[n],
                                SymbolValue(c, b.syms[b.rela[n].sym]), b.syms[b.rela[n].sym].size)
<1> DEFINE s == [k \in DOMAIN b.rela |-> SymbolValue(c, b.syms[b.rela[k].sym])]
<1>1. b.rela \in Seq(Entry) /\ Len(b.rela) \in Nat /\ DOMAIN b.rela = 1 .. Len(b.rela)
  BY BlobFacts
<1>2. PICK R : R = RelocatedImages(b, c)
  OBVIOUS
<1>3. R = Patched(b, b.image, b.rela, s)
  BY <1>2 DEF RelocatedImages
<1>4. \A n \in 1 .. Len(b.rela) : s[n] = SymbolValue(c, b.syms[b.rela[n].sym])
  BY <1>1
<1> HIDE DEF s
<1>5. R[0] = b.image
  BY <1>1, <1>3, PatchedFacts
<1>6. ASSUME c \in Bases, NEW n \in 1 .. Len(b.rela), R[n - 1] \in Word(8 * Size)
      PROVE  R[n] = Relocate(R[n - 1], b.rela[n],
                             SymbolValue(c, b.syms[b.rela[n].sym]), b.syms[b.rela[n].sym].size)
  <2>1. R[n] = Formulated(R[n - 1], b.rela[n], s[n], b.syms[b.rela[n].sym].size)
    BY <1>1, <1>3, PatchedFacts
  <2>2. b.rela[n] \in Entry /\ b.rela[n].type \in Conform
    BY <1>1, BlobFacts DEF Compared, Conforms
  <2>3. b.rela[n].type = "R_VPU_64_LSHIFT" => s[n] \subseteq Bits(6)
    BY <1>1, <1>4, <1>6 DEF Conforms
  <2>4. R[n] = Relocate(R[n - 1], b.rela[n], s[n], b.syms[b.rela[n].sym].size)
    BY <1>6, <2>1, <2>2, <2>3, FormulatedFacts
  <2> QED BY <1>4, <2>4
<1> QED BY <1>2, <1>5, <1>6

\* The same for an inference.
LEMMA InferenceStep ==
    ASSUME NEW b \in Blobs, Compared(b), Conforms, NEW c, NEW u
    PROVE  /\ InferenceImages(b, c, u)[0] = RelocatedImages(b, c)[Len(b.rela)]
           /\ \A n \in 1 .. Len(b.jit) :
                 InferenceImages(b, c, u)[n - 1] \in Word(8 * Size) =>
                 InferenceImages(b, c, u)[n]
                     = Relocate(InferenceImages(b, c, u)[n - 1], b.jit[n],
                                u[b.jit[n].sym], b.syms[b.jit[n].sym].size)
<1> DEFINE s == [k \in DOMAIN b.jit |-> u[b.jit[k].sym]]
<1>1. b.jit \in Seq(Entry) /\ Len(b.jit) \in Nat /\ DOMAIN b.jit = 1 .. Len(b.jit)
  BY BlobFacts
<1>2. PICK J, m : J = InferenceImages(b, c, u) /\ m = RelocatedImages(b, c)[Len(b.rela)]
  OBVIOUS
<1>3. J = Patched(b, m, b.jit, s)
  BY <1>2 DEF InferenceImages
<1>4. \A n \in 1 .. Len(b.jit) : s[n] = u[b.jit[n].sym]
  BY <1>1
<1> HIDE DEF s
<1>5. J[0] = m
  BY <1>1, <1>3, PatchedFacts
<1>6. ASSUME NEW n \in 1 .. Len(b.jit), J[n - 1] \in Word(8 * Size)
      PROVE  J[n] = Relocate(J[n - 1], b.jit[n], u[b.jit[n].sym], b.syms[b.jit[n].sym].size)
  <2>1. J[n] = Formulated(J[n - 1], b.jit[n], s[n], b.syms[b.jit[n].sym].size)
    BY <1>1, <1>3, PatchedFacts
  <2>2. b.jit[n] \in Entry /\ b.jit[n].type \in Conform
    BY <1>1, BlobFacts DEF Compared, Conforms
  <2>3. b.jit[n].type # "R_VPU_64_LSHIFT"
    <3>1. b.jit[n].type \in Overwriting
      BY <2>2, BlobFacts DEF Conform, Differing
    <3> QED BY <3>1 DEF Overwriting
  <2>4. J[n] = Relocate(J[n - 1], b.jit[n], s[n], b.syms[b.jit[n].sym].size)
    BY <1>6, <2>1, <2>2, <2>3, FormulatedFacts
  <2> QED BY <1>4, <2>4
<1> QED BY <1>2, <1>5, <1>6

\* Bit i lies in the field of one of the first n JIT entries of b.
Covered(b, n, i) == \E k \in 1 .. n : i \in FieldOf(b.jit[k])

\* How far the loops have followed the formulas.  Outside the JIT fields the buffer is the
\* relocated image whatever the inferences did; during an inference it is that
\* inference's image where its entries have been, or nobody's will be.
Follows ==
    LET R == RelocatedImages(blob, base)
        J == InferenceImages(blob, base, user)
        L == Len(blob.rela)
        K == Len(blob.jit)
    IN
    /\ at.pc = "reloc" => ~whole /\ at.pos \in 1 .. L + 1 /\ mem = R[at.pos - 1]
    /\ whole => /\ R[L] \in Word(8 * Size)
                /\ \A i : ~Covered(blob, K, i) => (i \in mem <=> i \in R[L])
    /\ whole /\ at.pc = "idle" /\ ran = "none" => mem = R[L]
    /\ whole /\ at.pc = "jit" =>
           /\ J[at.pos - 1] \in Word(8 * Size)
           /\ \A i : Covered(blob, at.pos - 1, i) \/ ~Covered(blob, K, i) =>
                        (i \in mem <=> i \in J[at.pos - 1])
    /\ whole /\ at.pc = "idle" /\ ran = "done" => mem = J[K]

FollowsInv == Compared(blob) => Follows

\* Every step of the loops keeps it.
LEMMA FollowsStep ==
    ASSUME Conforms, RelocationInv, FollowsInv, [Next]_vars
    PROVE  FollowsInv'
<1>1. blob' = blob
  BY DEF Next, vars, applyRelocations, applyJitRelocations, RelocEntry, RelocDone, JitEntry, JitDone
<1>2. Compared(blob)' <=> Compared(blob)
  BY <1>1 DEF Compared
<1> SUFFICES ASSUME Compared(blob) PROVE Follows'
  BY <1>2 DEF FollowsInv
<1>3. Follows
  BY DEF FollowsInv
<1>4. /\ blob \in Blobs /\ at.pos \in Nat /\ mem \in Word(8 * Size)
      /\ at.pc \in {"idle", "reloc", "jit"} /\ LoopOK
  BY DEF RelocationInv, TypeOK
<1>5. /\ Len(blob.jit) \in Nat /\ Len(blob.rela) \in Nat
  BY <1>4, BlobFacts
<1>6. PICK R, J, L, K : /\ R = RelocatedImages(blob, base) /\ J = InferenceImages(blob, base, user)
                        /\ L = Len(blob.rela) /\ K = Len(blob.jit)
  OBVIOUS
<1>7. L \in Nat /\ K \in Nat
  BY <1>5, <1>6
<1>8. /\ at.pc = "reloc" => ~whole /\ at.pos \in 1 .. L + 1 /\ mem = R[at.pos - 1]
      /\ whole => /\ R[L] \in Word(8 * Size)
                  /\ \A i : ~Covered(blob, K, i) => (i \in mem <=> i \in R[L])
      /\ whole /\ at.pc = "idle" /\ ran = "none" => mem = R[L]
      /\ whole /\ at.pc = "jit" =>
             /\ J[at.pos - 1] \in Word(8 * Size)
             /\ \A i : Covered(blob, at.pos - 1, i) \/ ~Covered(blob, K, i) =>
                          (i \in mem <=> i \in J[at.pos - 1])
      /\ whole /\ at.pc = "idle" /\ ran = "done" => mem = J[K]
  BY <1>3, <1>6 DEF Follows
\* The same of the next state.
<1> DEFINE RR == RelocatedImages(blob, base')
           JJ == InferenceImages(blob, base', user')
<1>9. (/\ at'.pc = "reloc" => ~whole' /\ at'.pos \in 1 .. L + 1 /\ mem' = RR[at'.pos - 1]
       /\ whole' => /\ RR[L] \in Word(8 * Size)
                    /\ \A i : ~Covered(blob, K, i) => (i \in mem' <=> i \in RR[L])
       /\ whole' /\ at'.pc = "idle" /\ ran' = "none" => mem' = RR[L]
       /\ whole' /\ at'.pc = "jit" =>
              /\ JJ[at'.pos - 1] \in Word(8 * Size)
              /\ \A i : Covered(blob, at'.pos - 1, i) \/ ~Covered(blob, K, i) =>
                           (i \in mem' <=> i \in JJ[at'.pos - 1])
       /\ whole' /\ at'.pc = "idle" /\ ran' = "done" => mem' = JJ[K])
      => Follows'
  BY <1>1, <1>6 DEF Follows, Covered, FieldOf, AtByte
<1>10. base' = base => RR = R
  BY <1>6
<1>11. base' = base /\ user' = user => JJ = J
  BY <1>6
<1>12. RR[0] = blob.image /\ JJ[0] = RR[L]
  BY <1>4, <1>6, RelocatedStep, InferenceStep
<1>13. \A n \in 1 .. L : R[n - 1] \in Word(8 * Size) =>
          R[n] = Relocate(R[n - 1], blob.rela[n], SymbolValue(base, blob.syms[blob.rela[n].sym]),
                          blob.syms[blob.rela[n].sym].size)
  <2>1. base \in Bases
    BY DEF RelocationInv, TypeOK
  <2> QED BY <1>4, <1>6, <2>1, RelocatedStep
<1>14. \A n \in 1 .. K : J[n - 1] \in Word(8 * Size) =>
          J[n] = Relocate(J[n - 1], blob.jit[n], user[blob.jit[n].sym], blob.syms[blob.jit[n].sym].size)
  BY <1>4, <1>6, InferenceStep
<1> HIDE DEF RR, JJ
<1>15. ASSUME NEW b \in Bases, applyRelocations(b) PROVE Follows'
  <2>1. at'.pc = "reloc" /\ at'.pos = 1 /\ mem' = blob.image /\ whole' = FALSE
    BY <1>15 DEF applyRelocations
  <2> QED BY <1>7, <1>9, <1>12, <2>1
<1>16. ASSUME NEW u \in UserIO, applyJitRelocations(u) PROVE Follows'
  <2>1. /\ at'.pc = "jit" /\ at'.pos = 1 /\ mem' = mem /\ whole' = whole /\ base' = base
        /\ at.pc = "idle"
    BY <1>16 DEF applyJitRelocations
  <2>2. RR = R /\ JJ[0] = R[L]
    BY <1>10, <1>12, <2>1
  <2>3. \A i : ~Covered(blob, 0, i)
    BY DEF Covered
  <2>4. at'.pos - 1 = 0
    BY <2>1
  <2> QED BY <1>8, <1>9, <2>1, <2>2, <2>3, <2>4
<1>17. ASSUME RelocEntry PROVE Follows'
  <2>1. PICK e, y, n : e = blob.rela[at.pos] /\ y = blob.syms[e.sym] /\ n = at.pos
    OBVIOUS
  <2>2. /\ n \in 1 .. L /\ at.pc = "reloc" /\ ~whole /\ mem = R[n - 1]
        /\ whole' = whole /\ base' = base
    BY <1>4, <1>6, <1>7, <1>8, <1>17, <2>1 DEF RelocEntry
  <2>3. CASE at' = Idle
    BY <1>9, <2>2, <2>3 DEF Idle
  <2>4. CASE at' = [at EXCEPT !.pos = @ + 1] /\ mem' = Relocate(mem, e, SymbolValue(base, y), y.size)
    <3>1. at'.pc = "reloc" /\ at'.pos = n + 1
      BY <2>1, <2>2, <2>4, RelocationInv DEF RelocationInv, TypeOK
    <3>2. R[n] = mem'
      BY <1>4, <1>13, <2>1, <2>2, <2>4
    <3>3. RR = R /\ n + 1 \in 1 .. L + 1 /\ (n + 1) - 1 = n
      BY <1>7, <1>10, <2>2
    <3> QED BY <1>9, <2>2, <3>1, <3>2, <3>3
  <2> QED BY <1>17, <2>1, <2>3, <2>4 DEF RelocEntry
<1>18. ASSUME RelocDone PROVE Follows'
  <2>1. /\ at'.pc = "idle" /\ mem' = mem /\ base' = base /\ ran' = ran
        /\ at.pc = "reloc" /\ at.pos > L
    BY <1>6, <1>18 DEF RelocDone, Idle
  <2>2. at.pos - 1 = L /\ ran = "none"
    BY <1>4, <1>7, <1>8, <2>1 DEF LoopOK
  <2>3. mem = R[L] /\ RR = R
    BY <1>8, <1>10, <2>1, <2>2
  <2> QED BY <1>4, <1>9, <2>1, <2>2, <2>3
<1>19. ASSUME JitEntry PROVE Follows'
  <2>1. PICK e, z, n, s : e = blob.jit[at.pos] /\ z = blob.syms[e.sym].size /\ n = at.pos /\ s = user[e.sym]
    OBVIOUS
  <2>2. /\ n \in 1 .. K /\ at.pc = "jit" /\ ran = "failed"
        /\ whole' = whole /\ base' = base /\ user' = user /\ ran' = ran
    BY <1>4, <1>6, <1>7, <1>19, <2>1 DEF JitEntry, LoopOK
  <2>3. RR = R /\ JJ = J
    BY <1>10, <1>11, <2>2
  <2>4. CASE at' = Idle /\ mem' = mem
    BY <1>8, <1>9, <2>2, <2>3, <2>4 DEF Idle
  <2>5. CASE /\ ~EntryRefused(e, {SymTabEntries(blob), Len(user)})
             /\ at' = [at EXCEPT !.pos = @ + 1] /\ mem' = Relocate(mem, e, s, z)
    <3>1. at'.pc = "jit" /\ at'.pos = n + 1 /\ (n + 1) - 1 = n
      BY <2>1, <2>2, <2>5, RelocationInv DEF RelocationInv, TypeOK
    <3>2. e \in Entry /\ Fits(e) /\ (e.type \in RelocationTypes => e.type \in Overwriting)
      BY <1>4, <1>6, <2>1, <2>2, BlobFacts
    <3>3. e.type \in RelocationTypes /\ e.offset < Size /\ e.type \in Overwriting
      BY <1>4, <2>5, <3>2, SizeAssumption DEF EntryRefused, Entry
    <3>4. /\ \A i : i \notin FieldOf(e) => (i \in mem' <=> i \in mem)
          /\ \A i \in FieldOf(e) :
                i \in mem' <=> i \in AtByte(e, relocationMap(e.type, {}, s, z, e.addend))
      BY <1>4, <2>5, <3>2, <3>3, RelocateFacts
    <3>5. \A i : i \in FieldOf(e) => Covered(blob, K, i)
      BY <2>1, <2>2 DEF Covered
    <3>6. ASSUME whole PROVE J[n] \in Word(8 * Size)
                             /\ \A i : Covered(blob, n, i) \/ ~Covered(blob, K, i) =>
                                          (i \in mem' <=> i \in J[n])
      <4>1. /\ J[n - 1] \in Word(8 * Size)
            /\ \A i : Covered(blob, n - 1, i) \/ ~Covered(blob, K, i) =>
                          (i \in mem <=> i \in J[n - 1])
        BY <1>8, <2>1, <2>2, <3>6
      <4>2. J[n] = Relocate(J[n - 1], e, s, z)
        BY <1>14, <2>1, <2>2, <4>1
      <4>3. /\ J[n] \in Word(8 * Size)
            /\ \A i : i \notin FieldOf(e) => (i \in J[n] <=> i \in J[n - 1])
            /\ \A i \in FieldOf(e) :
                  i \in J[n] <=> i \in AtByte(e, relocationMap(e.type, {}, s, z, e.addend))
        BY <3>2, <3>3, <4>1, <4>2, RelocateFacts
      <4>4. \A i : Covered(blob, n, i) => Covered(blob, n - 1, i) \/ i \in FieldOf(e)
        <5>1. \A k \in 1 .. n : k \in 1 .. n - 1 \/ k = n
          BY <2>2
        <5> QED BY <2>1, <5>1 DEF Covered
      <4> QED BY <3>4, <4>1, <4>3, <4>4
    <3> QED BY <1>8, <1>9, <2>2, <2>3, <3>1, <3>4, <3>5, <3>6
  <2> QED BY <1>19, <2>1, <2>4, <2>5 DEF JitEntry, UserAddress
<1>20. ASSUME JitDone PROVE Follows'
  <2>1. /\ at'.pc = "idle" /\ mem' = mem /\ base' = base /\ user' = user /\ ran' = "done"
        /\ at.pc = "jit" /\ at.pos > K /\ whole' = whole
    BY <1>6, <1>20 DEF JitDone, Idle
  <2>2. at.pos - 1 = K
    BY <1>4, <1>6, <1>7, <2>1 DEF LoopOK
  <2>3. whole => mem = J[K]
    <3> SUFFICES ASSUME whole PROVE mem = J[K]
      OBVIOUS
    <3>1. \A i : i \in mem <=> i \in J[K]
      BY <1>8, <2>1, <2>2
    <3> QED BY <3>1, <1>4, <1>8, <2>1, <2>2 DEF Word
  <2>4. RR = R /\ JJ = J
    BY <1>10, <1>11, <2>1
  <2> QED BY <1>8, <1>9, <2>1, <2>3, <2>4
<1>21. ASSUME UNCHANGED vars PROVE Follows'
  <2>1. /\ at' = at /\ mem' = mem /\ base' = base /\ user' = user /\ ran' = ran /\ whole' = whole
    BY <1>21 DEF vars
  <2>2. RR = R /\ JJ = J
    BY <1>10, <1>11, <2>1
  <2> QED BY <1>8, <1>9, <2>1, <2>2
<1> QED BY <1>15, <1>16, <1>17, <1>18, <1>19, <1>20, <1>21 DEF Next

\* Whatever reloads and inferences there were, between calls the buffer is the image with
\* each entry applied once, by the formula of its type.
THEOREM RelocationFollowsFormulas == ASSUME Conforms PROVE Spec => []FollowsFormulas
<1>1. Init => FollowsInv
  BY DEF Init, Idle, FollowsInv, Follows
<1>2. RelocationInv /\ FollowsInv /\ [Next]_vars => FollowsInv'
  BY FollowsStep
<1>3. RelocationInv /\ FollowsInv => FollowsFormulas
  BY DEF FollowsInv, Follows, FollowsFormulas, FormulatedImage, Compared, RelocationInv, TypeOK
<1> QED BY <1>1, <1>2, <1>3, RelocationInit, RelocationStep, PTL DEF Spec
=============================================================================
