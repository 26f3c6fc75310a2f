--------------------------- MODULE MCRelocation ---------------------------
(* Images, entries and addresses for checking Relocation. *)
EXTENDS Relocation

\* A 64 bit word from its halves.
Pair(hi, lo) == Binary(lo) \cup ShiftLeft(64, Binary(hi), 32)
MinusOne == Bits(64)

\* CMX addresses with and without multicast bits, scratch beyond 4 GB, and all ones.
MCBases ==
    {[cmx |-> Pair(0, 3080192 + 16), ddr |-> Pair(5, 305419896), rt |-> {}],
     [cmx |-> Pair(0, 12582912 + 48), ddr |-> Pair(0, 64), rt |-> {}],
     [cmx |-> Pair(0, 4194304 + 2097152 + 160), ddr |-> MinusOne \ {0, 1, 2}, rt |-> {}]}

MCUserIO == {<<Pair(1, 1985229328), Pair(0, 268435455)>>, <<Pair(0, 2883584), Pair(3, 0)>>,
             <<Pair(2, 1431655765)>>}

Sym(v, z, s) == [value |-> v, size |-> z, sec |-> s]
\* The last one is a runtime symbol, the first barrier.
Syms == <<Sym({}, {4}, "cmx"), Sym({3}, {4}, "ddr"), Sym({1, 2}, {}, "rt")>>
E(t, o, s, a) == [type |-> t, offset |-> o, sym |-> s, addend |-> a]
Image(hi, lo, r, j) == [image |-> Pair(hi, lo), syms |-> Syms, rela |-> r, jit |-> j]

\* Types that take a slot index or an offset index from the word.
Indexed == {"R_VPU_DISP28_MULTICAST_OFFSET", "R_VPU_DISP4_MULTICAST_OFFSET_CMP"}

\* One entry of each type, against each symbol.
Single ==
    {Image(1431655765, 858993459, <<E(t, 0, y, a)>>, << >>) :
        t \in RelocationTypes \ (Indexed \cup {"R_VPU_64_LSHIFT"}), y \in {1, 2}, a \in {{}, {5, 6}, MinusOne}}
    \cup {Image(0, n, <<E(t, 0, 1, {})>>, << >>) :
            t \in Indexed, n \in {0, 1, 2, 16, 17, 33}}
    \cup {Image(0, 858993459, <<E("R_VPU_64_LSHIFT", 0, 3, {})>>, << >>)}

\* Registers whose fields are patched by several entries, some by the user's buffers.
Packed ==
    {Image(2147483647, 2147483647, r, j) :
        r \in {<<E("R_VPU_16_LSB_21_RSHIFT_5", 0, 1, {}), E("R_VPU_32_SUM", 4, 2, {2})>>,
               <<E("R_VPU_16_LSB_21_RSHIFT_5_LSHIFT_16", 0, 1, {4}),
                 E("R_VPU_HIGH_27_BIT_OR", 0, 1, {})>>,
               <<E("R_VPU_16_SUM", 6, 2, {}), E("R_VPU_LO_21_SUM", 0, 1, {5})>>},
        j \in {<<E("R_VPU_16_LSB_21_RSHIFT_5_LSHIFT_16", 0, 1, {}),
                 E("R_VPU_LO_21", 4, 2, {})>>,
               <<E("R_VPU_64", 0, 1, {}), E("R_VPU_16_LSB_21_RSHIFT_5_LSHIFT_CUSTOM", 4, 2, {9})>>,
               <<E("R_VPU_32", 0, 1, {}), E("R_VPU_16_LSB_21_RSHIFT_5", 0, 1, MinusOne),
                 E("R_VPU_LO_21_RSHIFT_4", 4, 2, {})>>,
               <<E("R_VPU_16_LSB_21_RSHIFT_5_LSHIFT_CUSTOM", 0, 1, {}),
                 E("R_VPU_LO_21", 4, 2, {})>>}}

\* Entries that are refused, after one that is applied.
Refused ==
    {Image(0, 7, <<E("R_VPU_64_OR", 0, 1, {}), x>>, <<E("R_VPU_32", 4, 1, {}), y>>) :
        x \in {E("R_VPU_32", 8, 1, {}), E("R_VPU_64_OR", 0, 2, {})},
        y \in {E("unknown", 0, 1, {}), E("R_VPU_32", 0, 2, {})}}

MCBlobs == Single \cup Packed \cup Refused

\* The types whose code does what their formula says.
Conforming == RelocationTypes \ Differing

\* The arithmetic of words is that of the naturals.
ASSUME WordArithmetic ==
    \A a, b \in 0 .. 15 :
        /\ Add(4, Binary(a), Binary(b)) = Binary((a + b) % 16)
        /\ Sub(4, Binary(a), Binary(b)) = Binary((a + 16 - b) % 16)
        /\ Mul(4, Binary(a), Binary(b)) = Binary((a * b) % 16)
        /\ Number(Binary(a)) = a
=============================================================================
