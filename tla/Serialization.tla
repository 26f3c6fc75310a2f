---------------------------- MODULE Serialization ----------------------------
(***************************************************************************)
(* SerialStructBase: the network's metadata and the platform info are       *)
(* written by the compiler as a chain of descriptors, each followed by its  *)
(* element's items, and read by the driver, which may know of fewer or more *)
(* elements than the compiler did.                                          *)
(*                                                                          *)
(* Each iteration of the three loops over the elements is a step.  A unit   *)
(* of the buffer holds unit `byte` of item `item` of element `el`, or of    *)
(* its descriptor (item 0).  The delivered buffer may have lost its end.    *)
(***************************************************************************)
EXTENDS Integers, Sequences

CONSTANTS
    DescSize, DescAlign,   \* sizeof and alignof of SerialDescriptor
    ItemSizes,             \* sizes of data types
    Cuts,                  \* what may be missing at the end of the buffer
    MaxFields,             \* bound: elements of a struct
    MaxCount               \* bound: items of a vector

ASSUME DescriptorAssumption ==
    DescSize \in Nat \ {0} /\ DescAlign \in Nat \ {0} /\ DescSize % DescAlign = 0
ASSUME ItemSizesAssumption == ItemSizes \subseteq Nat \ {0} /\ Cuts \subseteq Nat
ASSUME SerialBoundsAssumption == MaxFields \in Nat /\ MaxCount \in Nat

VARIABLES
    elems,         \* the compiler's elements
    need,          \* requiredBufferSize
    buf, size,     \* the buffer, and its size
    offset,        \* mOffset of the output buffer
    descs,         \* per element written: the fields of its descriptor
    fields,        \* the driver's elements
    cut,           \* what was lost
    cur,           \* currentDescriptor
    got,           \* per element read: its items
    pc, pos

vars == <<elems, need, buf, size, offset, descs, fields, cur, got, cut, pc, pos>>

-----------------------------------------------------------------------------
(* Elements: SerialElement holds one item, SerialElementVector any number *)

Field == [kind : {"one", "vector"}, size : ItemSizes]
Structs == UNION {[1..n -> Field] : n \in 1..MaxFields}
Counts(f) == IF f.kind = "one" THEN {1} ELSE 0..MaxCount
Element == [kind : {"one", "vector"}, size : ItemSizes, count : 0..MaxCount \cup {1}]
Items(e) == [j \in 1..elems[e].count |-> <<e, j>>]
Default == <<0, 0>>

Descriptor == [data : Nat, next : Nat, count : Nat, size : Nat]
NoDescriptor == [data |-> 0, next |-> 0, count |-> 0, size |-> 0]
Unset == [el |-> 0, item |-> 0, byte |-> -1]

Init ==
    /\ elems \in {s \in UNION {[1..n -> Element] : n \in 1..MaxFields} :
                      \A e \in DOMAIN s : s[e].count \in Counts(s[e])}
    /\ need = 0 /\ buf = << >> /\ size = 0 /\ offset = 0 /\ descs = << >>
    /\ fields = << >> /\ cut = 0 /\ cur = NoDescriptor /\ got = << >>
    /\ pc = "measure" /\ pos = 0

-----------------------------------------------------------------------------
(* serialize *)

AlignUp(n, a) == IF n # 0 /\ a # 0 THEN ((n + a - 1) \div a) * a ELSE n

\* Faulty variant: no room for alignment.
RequiredUnaligned(e) == DescSize + e.size * e.count
Required(e) == AlignUp(DescSize + e.size * e.count, DescAlign)

Measure ==
    /\ pc = "measure" /\ pos < Len(elems)
    /\ need' = need + Required(elems[pos + 1])
    /\ pos' = pos + 1
    /\ UNCHANGED <<elems, buf, size, offset, descs, fields, cut, cur, got, pc>>
Resize ==
    /\ pc = "measure" /\ pos = Len(elems)
    /\ size' = need /\ buf' = [a \in 0..need - 1 |-> Unset]
    /\ pc' = "serialize" /\ pos' = 0
    /\ UNCHANGED <<elems, need, offset, descs, fields, cut, cur, got>>

\* Faulty variant: "no data" is an offset that is none.
DescribedNpos(e, d) ==
    [data |-> IF e.count > 0 THEN d + DescSize ELSE -1, next |-> 0, count |-> e.count,
     size |-> IF e.count > 0 THEN e.size ELSE 0]
Described(e, d) ==
    [data |-> IF e.count > 0 THEN d + DescSize ELSE 0, next |-> 0, count |-> e.count,
     size |-> IF e.count > 0 THEN e.size ELSE 0]
\* The previous descriptor is linked to the one at d.
Linked(q, d) == IF q = << >> THEN q ELSE [q EXCEPT ![Len(q)].next = d]

\* A slice for the descriptor and one for each item, each checked against the size.
SerializeElement ==
    LET e == elems[pos + 1]
        d == AlignUp(offset, DescAlign)
        start == d + DescSize
        end == start + e.size * e.count
    IN  /\ pc = "serialize" /\ pos < Len(elems)
        /\ IF end > size
           THEN pc' = "short" /\ UNCHANGED <<buf, offset, descs, pos>>
           ELSE /\ buf' = [a \in DOMAIN buf |->
                       CASE a \in d..start - 1 ->
                                [el |-> pos + 1, item |-> 0, byte |-> a - d]
                         [] a \in start..end - 1 ->
                                [el |-> pos + 1, item |-> (a - start) \div e.size + 1,
                                 byte |-> (a - start) % e.size]
                         [] OTHER -> buf[a]]
                /\ offset' = end
                /\ descs' = Append(Linked(descs, d), Described(e, d))
                /\ pos' = pos + 1
                /\ UNCHANGED pc
        /\ UNCHANGED <<elems, need, size, fields, cut, cur, got>>

-----------------------------------------------------------------------------
(* deserialize *)

\* memcpy of a descriptor, or of an item: what is there, if it is one in one piece.
DescriptorAt(a) ==
    IF \A b \in 0..DescSize - 1 : buf[a + b] = [el |-> buf[a].el, item |-> 0, byte |-> b]
    THEN descs[buf[a].el] ELSE NoDescriptor
ItemAt(a, n) ==
    IF \A b \in 0..n - 1 : buf[a + b] = [el |-> buf[a].el, item |-> buf[a].item, byte |-> b]
    THEN <<buf[a].el, buf[a].item>> ELSE Default

\* The section reaches the driver, which has elements of its own.
Deliver(s, n) ==
    /\ pc = "serialize" /\ pos = Len(elems) /\ n < size
    /\ fields' = s /\ cut' = n
    /\ size' = size - n /\ buf' = [a \in 0..size - n - 1 |-> buf[a]]
    /\ pc' = "delivered" /\ pos' = 0
    /\ UNCHANGED <<elems, need, offset, descs, cur, got>>
StartDeserialize ==
    /\ pc = "delivered"
    /\ IF size >= DescSize THEN pc' = "deserialize" /\ cur' = DescriptorAt(0)
       ELSE pc' = "refused" /\ UNCHANGED cur
    /\ UNCHANGED <<elems, need, buf, size, offset, descs, fields, cut, got, pos>>

\* Faulty variant: off by one.
OutOfBoundEarly(d) == d.size * d.count + d.data >= size
OutOfBound(d) == d.size * d.count + d.data > size
\* resize and copyToIndex: too many items, or items of another size.
Fits(f, d) == d.count > 0 => (f.kind = "one" => d.count = 1) /\ d.size = f.size
\* clear, resize and copyToIndex
Loaded(f, d) ==
    IF d.count > 0 THEN [j \in 1..d.count |-> ItemAt(d.data + (j - 1) * d.size, d.size)]
    ELSE IF f.kind = "one" THEN <<Default>> ELSE << >>
\* Faulty variant: behind the last descriptor the current one is kept.
FollowingKept(d) == IF d.next # 0 THEN DescriptorAt(d.next) ELSE d
Following(d) == IF d.next # 0 THEN DescriptorAt(d.next) ELSE NoDescriptor

DeserializeElement ==
    LET f == fields[pos + 1] IN
    /\ pc = "deserialize" /\ pos < Len(fields)
    /\ IF OutOfBound(cur) \/ ~Fits(f, cur) \/ (cur.next # 0 /\ cur.next + DescSize > size)
       THEN pc' = "refused" /\ UNCHANGED <<cur, got, pos>>
       ELSE /\ got' = Append(got, Loaded(f, cur))
            /\ cur' = Following(cur)
            /\ pos' = pos + 1
            /\ UNCHANGED pc
    /\ UNCHANGED <<elems, need, buf, size, offset, descs, fields, cut>>
EndDeserialize ==
    /\ pc = "deserialize" /\ pos = Len(fields)
    /\ pc' = "done"
    /\ UNCHANGED <<elems, need, buf, size, offset, descs, fields, cut, cur, got, pos>>

Next ==
    \/ Measure \/ Resize \/ SerializeElement
    \/ \E s \in Structs, n \in Cuts : Deliver(s, n)
    \/ StartDeserialize \/ DeserializeElement \/ EndDeserialize

Spec == Init /\ [][Next]_vars

-----------------------------------------------------------------------------
(* Properties *)

TypeOK ==
    /\ need \in Nat /\ size \in Nat /\ offset \in Nat /\ cut \in Nat /\ pos \in Nat
    /\ descs \in Seq(Descriptor) /\ cur \in Descriptor
    /\ pc \in {"measure", "serialize", "short", "delivered", "deserialize", "refused", "done"}

\* calculateBufferSize foresees what getNextBufferSlice hands out, with alignment and
\* empty vectors (serial_struct_base.hpp 228-243, 77-86).
BufferSuffices == pc # "short"

\* What the driver gets from a buffer it accepts is what the compiler put in: of the
\* elements both know all items, of those only the driver knows none, also if the end of
\* the buffer is missing (serial_struct_base.hpp 205-222, 279-308).
ReadsWhatWasWritten ==
    pc = "done" =>
        \A i \in 1..Len(fields) :
            got[i] = IF i <= Len(elems) /\ Items(i) # << >> THEN Items(i)
                     ELSE IF fields[i].kind = "one" THEN <<Default>> ELSE << >>

\* A whole buffer is refused only if an element both know has changed: adding elements at
\* the end, in the compiler or in the driver, breaks neither
\* (serial_struct_base.hpp 217-221, 115, 133, 169).
AdditionsAccepted ==
    pc = "refused" /\ cut = 0 =>
        \E i \in 1..Len(elems) :
            /\ i <= Len(fields) /\ elems[i].count > 0
            /\ \/ elems[i].size # fields[i].size
               \/ fields[i].kind = "one" /\ elems[i].count > 1
=============================================================================
