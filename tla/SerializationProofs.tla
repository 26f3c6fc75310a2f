------------------------ MODULE SerializationProofs ------------------------
(***************************************************************************)
(* serialize never runs out of the buffer calculateBufferSize asked for,    *)
(* deserialize follows no pointer but to a descriptor, reads what serialize *)
(* wrote, and refuses no struct that only has more or fewer elements, for   *)
(* structs of any number of elements of any size.                           *)
(***************************************************************************)
EXTENDS Serialization, TLAPS

(* utils::alignUp *)

\* alignUp returns a multiple of the alignment that is no less than its argument, and no
\* more than any other such multiple.
LEMMA AlignUpFacts ==
    ASSUME NEW n \in Nat, NEW a \in Nat \ {0}
    PROVE  /\ AlignUp(n, a) \in Nat /\ AlignUp(n, a) >= n /\ AlignUp(n, a) % a = 0
           /\ \A m \in Nat : m % a = 0 /\ n <= m => AlignUp(n, a) <= m
<1>1. CASE n = 0
  BY <1>1 DEF AlignUp
<1>2. CASE n # 0
  <2> DEFINE q == (n + a - 1) \div a
  <2>1. q \in Nat /\ q * a >= n /\ q * a <= n + a - 1
    BY <1>2
  <2>2. AlignUp(n, a) = q * a
    BY <1>2 DEF AlignUp
  <2> HIDE DEF q
  <2>3. (q * a) % a = 0 /\ q * a \in Nat
    BY <2>1
  <2>4. ASSUME NEW m \in Nat, m % a = 0, n <= m PROVE q * a <= m
    <3> DEFINE k == m \div a
    <3>1. k \in Nat /\ m = k * a
      BY <2>4
    <3> HIDE DEF k
    <3>2. q * a < (k + 1) * a
      BY <2>1, <2>4, <3>1
    <3>3. q < k + 1
      BY <2>1, <3>1, <3>2
    <3>4. q <= k
      BY <2>1, <3>1, <3>3
    <3> QED BY <2>1, <3>1, <3>4
  <2> QED BY <2>1, <2>2, <2>3, <2>4
<1> QED BY <1>1, <1>2

\* The sum of two multiples is one.
LEMMA MultiplesAdd ==
    ASSUME NEW m \in Nat, NEW n \in Nat, NEW a \in Nat \ {0}, m % a = 0, n % a = 0
    PROVE  (m + n) % a = 0
<1> DEFINE j == m \div a
           k == n \div a
<1>1. j \in Nat /\ k \in Nat /\ m = j * a /\ n = k * a
  OBVIOUS
<1> HIDE DEF j, k
<1>2. m + n = (j + k) * a /\ j + k \in Nat
  BY <1>1
<1>3. \A i \in Nat : (i * a) % a = 0
  OBVIOUS
<1> QED BY <1>2, <1>3

-----------------------------------------------------------------------------
(* Inductive invariant, for the proofs *)

\* p holds the sums of what calculateBufferSize adds for the first k elements of s.
SumsTo(p, s, k) ==
    /\ p \in [0..k -> Nat] /\ p[0] = 0
    /\ \A j \in 0..k - 1 : p[j + 1] = p[j] + Required(s[j + 1])
    /\ \A j \in 0..k : p[j] % DescAlign = 0 /\ p[j] <= p[k]

ElemsInv ==
    /\ Len(elems) \in Nat
    /\ \A e \in 1..Len(elems) : elems[e].size \in Nat \ {0} /\ elems[e].count \in Nat
\* What is left of the calculated size covers the elements that are left.
RoomInv ==
    /\ pc = "measure" => /\ offset = 0 /\ descs = << >> /\ pos <= Len(elems)
                         /\ \E p : SumsTo(p, elems, pos) /\ need = p[pos]
    /\ pc = "serialize" =>
           /\ pos <= Len(elems) /\ Len(descs) = pos
           /\ \E p : SumsTo(p, elems, Len(elems)) /\ size = p[Len(elems)] /\ offset <= p[pos]
\* The buffer holds nothing but what elements wrote that have a descriptor.
CellInv ==
    /\ pc # "measure" => DOMAIN buf = 0..size - 1
    /\ \A a \in DOMAIN buf : buf[a] = Unset \/ buf[a].el \in 1..Len(descs)

IInv == TypeOK /\ ElemsInv /\ RoomInv /\ CellInv

\* An element is given a multiple of the alignment, enough for descriptor and items.
LEMMA RequiredFacts ==
    ASSUME ElemsInv, NEW e \in 1..Len(elems)
    PROVE  /\ Required(elems[e]) \in Nat /\ Required(elems[e]) % DescAlign = 0
           /\ elems[e].size * elems[e].count \in Nat
           /\ Required(elems[e]) >= DescSize + elems[e].size * elems[e].count
<1> DEFINE x == elems[e].size * elems[e].count
<1>1. x \in Nat
  BY DEF ElemsInv
<1> HIDE DEF x
<1>2. DescSize + x \in Nat /\ DescAlign \in Nat \ {0}
  BY <1>1, DescriptorAssumption
<1>3. Required(elems[e]) = AlignUp(DescSize + x, DescAlign)
  BY DEF Required, x
<1>4. /\ AlignUp(DescSize + x, DescAlign) \in Nat
      /\ AlignUp(DescSize + x, DescAlign) >= DescSize + x
      /\ AlignUp(DescSize + x, DescAlign) % DescAlign = 0
  BY <1>2, AlignUpFacts
<1> QED BY <1>1, <1>3, <1>4 DEF x

\* The start: nothing is measured, nothing written.
LEMMA InitIInv == Init => IInv
<1> SUFFICES ASSUME Init PROVE IInv
  OBVIOUS
<1>1. PICK n \in 1..MaxFields : elems \in [1..n -> Element]
  BY DEF Init
<1>2. n \in Nat /\ Len(elems) = n
  BY <1>1, SerialBoundsAssumption
<1>3. ElemsInv
  <2>1. ASSUME NEW e \in 1..Len(elems)
        PROVE  elems[e].size \in Nat \ {0} /\ elems[e].count \in Nat
    <3>1. elems[e] \in Element
      BY <1>1, <1>2
    <3>2. elems[e].size \in ItemSizes /\ elems[e].count \in (0..MaxCount) \cup {1}
      BY <3>1 DEF Element
    <3>3. elems[e].size \in Nat \ {0}
      BY <3>2, ItemSizesAssumption
    <3>4. elems[e].count \in Nat
      BY <3>2, SerialBoundsAssumption
    <3> QED BY <3>3, <3>4
  <2> QED BY <1>2, <2>1 DEF ElemsInv
<1>4. TypeOK
  BY DEF Init, TypeOK, NoDescriptor, Descriptor
<1>5. CellInv
  BY DEF Init, CellInv
<1>6. RoomInv
  <2> DEFINE p == [j \in 0..0 |-> 0]
  <2>1. 0 % DescAlign = 0
    BY DescriptorAssumption
  <2>2. SumsTo(p, elems, 0) /\ p[0] = 0
    BY <2>1 DEF SumsTo
  <2>3. \E r : SumsTo(r, elems, 0) /\ 0 = r[0]
    BY <2>2
  <2> QED BY <1>2, <2>3 DEF Init, RoomInv
<1> QED BY <1>3, <1>4, <1>5, <1>6 DEF IInv

\* calculateBufferSize adds one element.
LEMMA MeasureIInv == IInv /\ Measure => IInv'
<1> SUFFICES ASSUME IInv, Measure PROVE IInv'
  OBVIOUS
<1> USE DEF IInv
<1>1. /\ pc = "measure" /\ pc' = "measure" /\ pos < Len(elems) /\ pos' = pos + 1
      /\ need' = need + Required(elems[pos + 1])
      /\ UNCHANGED <<elems, buf, size, offset, descs, cut, cur>>
  BY DEF Measure
<1>2. pos \in Nat /\ need \in Nat /\ Len(elems) \in Nat /\ pos + 1 \in 1..Len(elems)
  BY <1>1 DEF TypeOK, ElemsInv
<1> DEFINE x == Required(elems[pos + 1])
<1>3. x \in Nat /\ x % DescAlign = 0
  BY <1>2, RequiredFacts
<1>4. PICK p : SumsTo(p, elems, pos) /\ need = p[pos]
  BY <1>1 DEF RoomInv
<1> HIDE DEF x
<1>r. PICK r : r = [j \in 0..pos + 1 |-> IF j = pos + 1 THEN need + x ELSE p[j]]
  OBVIOUS
<1>5. \A j \in 0..pos : p[j] \in Nat /\ p[j] % DescAlign = 0 /\ p[j] <= need
  BY <1>2, <1>4 DEF SumsTo
<1>6. need + x \in Nat /\ (need + x) % DescAlign = 0
  <2>1. need % DescAlign = 0
    BY <1>2, <1>4, <1>5
  <2>2. DescAlign \in Nat \ {0}
    BY DescriptorAssumption
  <2>3. (need + x) % DescAlign = 0
    BY <1>2, <1>3, <2>1, <2>2, MultiplesAdd
  <2> QED BY <1>2, <1>3, <2>3
<1>7. /\ \A j \in 0..pos : r[j] = p[j]
      /\ r[pos + 1] = need + x /\ r \in [0..pos + 1 -> Nat] /\ r[0] = 0
  <2>1. \A j \in 0..pos : r[j] = p[j]
    BY <1>2, <1>r
  <2>2. r[pos + 1] = need + x
    BY <1>2, <1>r
  <2>3. r \in [0..pos + 1 -> Nat]
    BY <1>2, <1>5, <1>6, <1>r
  <2>4. r[0] = 0
    BY <1>2, <1>4, <2>1 DEF SumsTo
  <2> QED BY <2>1, <2>2, <2>3, <2>4
<1>8. \A j \in 0..pos + 1 : r[j] % DescAlign = 0 /\ r[j] <= r[pos + 1]
  BY <1>2, <1>3, <1>5, <1>6, <1>7
<1>9. \A j \in 0..pos : r[j + 1] = r[j] + Required(elems[j + 1])
  <2> SUFFICES ASSUME NEW j \in 0..pos PROVE r[j + 1] = r[j] + Required(elems[j + 1])
    OBVIOUS
  <2>1. CASE j = pos
    BY <1>2, <1>4, <1>7, <2>1 DEF x
  <2>2. CASE j # pos
    <3>1. j \in 0..pos - 1 /\ j + 1 \in 0..pos
      BY <1>2, <2>2
    <3> QED BY <1>4, <1>7, <3>1 DEF SumsTo
  <2> QED BY <2>1, <2>2
<1>10. SumsTo(r, elems, pos + 1)
  BY <1>2, <1>7, <1>8, <1>9 DEF SumsTo
<1>11. RoomInv'
  <2>1. SumsTo(r, elems', pos') /\ need' = r[pos']
    BY <1>1, <1>7, <1>10 DEF x
  <2> QED BY <1>1, <1>2, <2>1 DEF RoomInv
<1>12. ElemsInv' /\ CellInv'
  BY <1>1 DEF ElemsInv, CellInv
<1>13. TypeOK'
  BY <1>1, <1>2, <1>6 DEF TypeOK, x
<1> QED BY <1>11, <1>12, <1>13

\* The buffer gets the calculated size.
LEMMA ResizeIInv == IInv /\ Resize => IInv'
<1> SUFFICES ASSUME IInv, Resize PROVE IInv'
  OBVIOUS
<1> USE DEF IInv
<1>1. /\ pc = "measure" /\ pc' = "serialize" /\ pos = Len(elems) /\ pos' = 0
      /\ size' = need /\ buf' = [a \in 0..need - 1 |-> Unset]
      /\ UNCHANGED <<elems, need, offset, descs, cut, cur>>
  BY DEF Resize
<1>2. PICK p : SumsTo(p, elems, pos) /\ need = p[pos]
  BY <1>1 DEF RoomInv
<1>3. SumsTo(p, elems', Len(elems')) /\ size' = p[Len(elems')] /\ offset' <= p[0]
  BY <1>1, <1>2 DEF SumsTo, RoomInv
<1>4. RoomInv'
  BY <1>1, <1>3 DEF RoomInv, ElemsInv
<1>5. CellInv'
  BY <1>1 DEF CellInv
<1>6. ElemsInv' /\ TypeOK'
  BY <1>1 DEF ElemsInv, TypeOK
<1> QED BY <1>4, <1>5, <1>6

\* There is room for the next element: its descriptor, aligned, and all its items.
LEMMA RoomForElement ==
    ASSUME IInv, pc = "serialize", pos < Len(elems)
    PROVE  LET e == elems[pos + 1]
               d == AlignUp(offset, DescAlign)
               end == d + DescSize + e.size * e.count
           IN  /\ d \in Nat /\ end \in Nat /\ end <= size
               /\ \E p : /\ SumsTo(p, elems, Len(elems)) /\ size = p[Len(elems)]
                         /\ end <= p[pos + 1]
<1> USE DEF IInv
<1> DEFINE d == AlignUp(offset, DescAlign)
           x == elems[pos + 1].size * elems[pos + 1].count
           end == d + DescSize + x
<1>1. pos \in Nat /\ offset \in Nat /\ Len(elems) \in Nat /\ pos + 1 \in 1..Len(elems)
  BY DEF TypeOK, ElemsInv
<1>2. /\ Required(elems[pos + 1]) \in Nat /\ x \in Nat
      /\ Required(elems[pos + 1]) >= DescSize + x
  BY <1>1, RequiredFacts
<1>3. PICK p : SumsTo(p, elems, Len(elems)) /\ size = p[Len(elems)] /\ offset <= p[pos]
  BY DEF RoomInv
<1>4. /\ p[pos] \in Nat /\ p[pos] % DescAlign = 0
      /\ p[pos + 1] \in Nat /\ p[pos + 1] = p[pos] + Required(elems[pos + 1])
      /\ p[pos + 1] <= size /\ size \in Nat
  BY <1>1, <1>3 DEF SumsTo
<1>5. d \in Nat /\ d <= p[pos]
  BY <1>1, <1>3, <1>4, AlignUpFacts, DescriptorAssumption
<1> HIDE DEF d, x
<1>6. end \in Nat /\ end <= p[pos + 1] /\ end <= size
  BY <1>2, <1>4, <1>5, DescriptorAssumption
<1> QED BY <1>3, <1>5, <1>6 DEF d, x

\* serialize writes one element.
LEMMA SerializeIInv == IInv /\ SerializeElement => IInv' /\ pc' # "short"
<1> SUFFICES ASSUME IInv, SerializeElement PROVE IInv' /\ pc' # "short"
  OBVIOUS
<1> USE DEF IInv
<1> DEFINE e == elems[pos + 1]
           d == AlignUp(offset, DescAlign)
           start == d + DescSize
           end == start + e.size * e.count
<1>0. pc = "serialize" /\ pos < Len(elems)
  BY DEF SerializeElement
<1>1. d \in Nat /\ end \in Nat /\ end <= size
  BY <1>0, RoomForElement
<1>2. PICK p : SumsTo(p, elems, Len(elems)) /\ size = p[Len(elems)] /\ end <= p[pos + 1]
  BY <1>0, RoomForElement
<1>3. /\ pos \in Nat /\ Len(elems) \in Nat /\ size \in Nat /\ pos + 1 \in 1..Len(elems)
      /\ descs \in Seq(Descriptor) /\ Len(descs) = pos
      /\ e.size \in Nat \ {0} /\ e.count \in Nat
  BY <1>0 DEF TypeOK, ElemsInv, RoomInv
<1>4. /\ buf' = [a \in DOMAIN buf |->
                   CASE a \in d..start - 1 -> [el |-> pos + 1, item |-> 0, byte |-> a - d]
                     [] a \in start..end - 1 ->
                            [el |-> pos + 1, item |-> (a - start) \div e.size + 1,
                             byte |-> (a - start) % e.size]
                     [] OTHER -> buf[a]]
      /\ offset' = end /\ descs' = Append(Linked(descs, d), Described(e, d))
      /\ pos' = pos + 1 /\ pc' = pc
      /\ UNCHANGED <<elems, need, size, cut, cur>>
  <2>1. ~(end > size)
    BY <1>1, <1>3
  <2> QED BY <2>1 DEF SerializeElement
<1>5. Linked(descs, d) \in Seq(Descriptor) /\ Len(Linked(descs, d)) = pos
  <2>1. CASE descs = << >>
    BY <1>3, <2>1 DEF Linked
  <2>2. CASE descs # << >>
    <3> DEFINE k == Len(descs)
               t == [descs[k] EXCEPT !.next = d]
    <3>1. k \in 1..Len(descs) /\ descs[k] \in Descriptor
      BY <1>3, <2>2
    <3> HIDE DEF d, k
    <3>2. t \in Descriptor
      BY <1>1, <3>1 DEF Descriptor
    <3>3. Linked(descs, d) = [descs EXCEPT ![k] = t]
      BY <2>2, <3>1 DEF Linked, k
    <3> HIDE DEF t
    <3> QED BY <1>3, <3>1, <3>2, <3>3
  <2> QED BY <2>1, <2>2
<1>6. Described(e, d) \in Descriptor
  <2> HIDE DEF e, d
  <2>1. d + DescSize \in Nat
    BY <1>1, DescriptorAssumption
  <2> QED BY <1>3, <2>1 DEF Described, Descriptor
<1>7. descs' \in Seq(Descriptor) /\ Len(descs') = pos + 1
  <2> DEFINE q == Linked(descs, d)
             z == Described(e, d)
  <2> HIDE DEF q, z
  <2>1. q \in Seq(Descriptor) /\ Len(q) = pos /\ z \in Descriptor /\ descs' = Append(q, z)
    BY <1>4, <1>5, <1>6 DEF q, z
  <2> QED BY <2>1
<1> HIDE DEF e, d, start, end
<1>8. TypeOK'
  BY <1>0, <1>1, <1>3, <1>4, <1>7 DEF TypeOK
<1>9. ElemsInv'
  BY <1>4 DEF ElemsInv
<1>10. RoomInv'
  <2>1. SumsTo(p, elems', Len(elems')) /\ size' = p[Len(elems')] /\ offset' <= p[pos']
    BY <1>2, <1>4
  <2> QED BY <1>0, <1>3, <1>4, <1>7, <2>1 DEF RoomInv
<1>11. CellInv'
  <2>1. DOMAIN buf' = DOMAIN buf /\ DOMAIN buf = 0..size - 1
    BY <1>0, <1>4 DEF CellInv
  <2>2. ASSUME NEW a \in DOMAIN buf' PROVE buf'[a] = Unset \/ buf'[a].el \in 1..Len(descs')
    <3>1. CASE a \in d..start - 1
      BY <1>3, <1>4, <1>7, <2>1, <2>2, <3>1
    <3>2. CASE a \notin d..start - 1 /\ a \in start..end - 1
      <4>1. buf'[a].el = pos + 1
        BY <1>4, <2>1, <2>2, <3>2
      <4> QED BY <1>3, <1>7, <4>1
    <3>3. CASE a \notin d..start - 1 /\ a \notin start..end - 1
      <4>1. buf'[a] = buf[a]
        BY <1>4, <2>1, <2>2, <3>3
      <4>2. buf[a] = Unset \/ buf[a].el \in 1..Len(descs)
        BY <2>1, <2>2 DEF CellInv
      <4> QED BY <1>3, <1>7, <4>1, <4>2
    <3> QED BY <3>1, <3>2, <3>3
  <2> QED BY <1>4, <2>1, <2>2 DEF CellInv
<1> QED BY <1>0, <1>4, <1>8, <1>9, <1>10, <1>11

-----------------------------------------------------------------------------
(* deserialize *)

\* Inside the buffer, what is taken for a descriptor is one.
LEMMA DescriptorAtType ==
    ASSUME TypeOK, CellInv, pc # "measure", NEW a \in Nat, a + DescSize <= size
    PROVE  DescriptorAt(a) \in Descriptor
<1> DEFINE whole == \A b \in 0..DescSize - 1 :
                       buf[a + b] = [el |-> buf[a].el, item |-> 0, byte |-> b]
<1>1. CASE whole
  <2>1. buf[a + 0] = [el |-> buf[a].el, item |-> 0, byte |-> 0] /\ a + 0 = a
    BY <1>1, DescriptorAssumption
  <2>2. a \in DOMAIN buf
    BY DescriptorAssumption DEF CellInv, TypeOK
  <2>3. buf[a].byte = 0
    BY <2>1
  <2>4. buf[a] # Unset
    BY <2>3 DEF Unset
  <2>5. buf[a].el \in 1..Len(descs)
    BY <2>2, <2>4 DEF CellInv
  <2>6. descs[buf[a].el] \in Descriptor
    BY <2>5 DEF TypeOK
  <2> QED BY <1>1, <2>6 DEF DescriptorAt
<1>2. CASE ~whole
  BY <1>2 DEF DescriptorAt, NoDescriptor, Descriptor
<1> QED BY <1>1, <1>2

\* Steps behind serialize change at most the descriptor at hand.
LEMMA ReadingIInv ==
    ASSUME IInv, pc \notin {"measure", "serialize"}, cur' \in Descriptor, pos' \in Nat,
           pc' \in {"delivered", "deserialize", "refused", "done"},
           UNCHANGED <<elems, need, buf, size, offset, descs, cut>>
    PROVE  IInv'
<1> USE DEF IInv
<1>1. TypeOK'
  BY DEF TypeOK
<1>2. ElemsInv' /\ RoomInv'
  BY DEF ElemsInv, RoomInv
<1>3. CellInv'
  BY DEF CellInv
<1> QED BY <1>1, <1>2, <1>3

\* The buffer is delivered, with or without its end.
LEMMA DeliverIInv ==
    ASSUME IInv, NEW s \in Structs, NEW n \in Cuts, Deliver(s, n)
    PROVE  IInv'
<1> USE DEF IInv
<1>1. /\ pc = "serialize" /\ pc' = "delivered" /\ pos' = 0 /\ n < size /\ cut' = n
      /\ size' = size - n /\ buf' = [a \in 0..size - n - 1 |-> buf[a]]
      /\ UNCHANGED <<elems, need, offset, descs, cur>>
  BY DEF Deliver
<1>2. n \in Nat /\ size \in Nat
  BY ItemSizesAssumption DEF TypeOK
<1>3. size' \in Nat
  BY <1>1, <1>2
<1>4. TypeOK'
  BY <1>1, <1>2, <1>3 DEF TypeOK
<1>5. ElemsInv' /\ RoomInv'
  BY <1>1 DEF ElemsInv, RoomInv
<1>6. CellInv'
  <2>1. DOMAIN buf = 0..size - 1 /\ DOMAIN buf' = 0..size' - 1
    BY <1>1 DEF CellInv
  <2>2. ASSUME NEW a \in DOMAIN buf' PROVE a \in DOMAIN buf /\ buf'[a] = buf[a]
    BY <1>1, <1>2, <2>1, <2>2
  <2> QED BY <1>1, <2>1, <2>2 DEF CellInv
<1> QED BY <1>4, <1>5, <1>6

\* Every step of the compiler's and the driver's loops keeps the invariant.
LEMMA NextIInv == IInv /\ [Next]_vars => IInv'
<1> SUFFICES ASSUME IInv, [Next]_vars PROVE IInv'
  OBVIOUS
<1>0. pos \in Nat /\ cur \in Descriptor
  BY DEF IInv, TypeOK
<1>1. CASE Measure
  BY <1>1, MeasureIInv
<1>2. CASE Resize
  BY <1>2, ResizeIInv
<1>3. CASE SerializeElement
  BY <1>3, SerializeIInv
<1>4. ASSUME NEW s \in Structs, NEW n \in Cuts, Deliver(s, n) PROVE IInv'
  BY <1>4, DeliverIInv
<1>5. CASE StartDeserialize
  <2>1. pc = "delivered" /\ pc' \in {"deserialize", "refused"} /\ pos' = pos
    BY <1>5 DEF StartDeserialize
  <2>2. cur' \in Descriptor
    <3>1. CASE size >= DescSize
      <4>1. DescriptorAt(0) \in Descriptor
        BY <2>1, <3>1, DescriptorAtType, DescriptorAssumption DEF IInv, TypeOK
      <4> QED BY <1>5, <3>1, <4>1 DEF StartDeserialize
    <3>2. CASE ~(size >= DescSize)
      BY <1>0, <1>5, <3>2 DEF StartDeserialize
    <3> QED BY <3>1, <3>2
  <2> QED BY <1>0, <1>5, <2>1, <2>2, ReadingIInv DEF StartDeserialize
<1>6. CASE DeserializeElement
  <2>1. pc = "deserialize" /\ pc' \in {"deserialize", "refused"} /\ pos' \in Nat
    BY <1>0, <1>6 DEF DeserializeElement
  <2>2. cur' \in Descriptor
    <3> DEFINE refused == \/ OutOfBound(cur) \/ ~Fits(fields[pos + 1], cur)
                          \/ cur.next # 0 /\ cur.next + DescSize > size
    <3>1. CASE refused
      BY <1>0, <1>6, <3>1 DEF DeserializeElement
    <3>2. CASE ~refused
      <4>1. cur' = Following(cur)
        BY <1>6, <3>2 DEF DeserializeElement
      <4>2. NoDescriptor \in Descriptor
        BY DEF NoDescriptor, Descriptor
      <4>3. cur.next \in Nat
        BY <1>0 DEF Descriptor
      <4>4. ASSUME cur.next # 0 PROVE DescriptorAt(cur.next) \in Descriptor
        <5>1. cur.next + DescSize <= size
          BY <3>2, <4>3, <4>4, DescriptorAssumption DEF IInv, TypeOK
        <5> QED BY <2>1, <4>3, <5>1, DescriptorAtType DEF IInv
      <4> QED BY <4>1, <4>2, <4>4 DEF Following
    <3> QED BY <3>1, <3>2
  <2> QED BY <1>6, <2>1, <2>2, ReadingIInv DEF DeserializeElement
<1>7. CASE EndDeserialize
  BY <1>0, <1>7, ReadingIInv DEF EndDeserialize
<1>8. CASE UNCHANGED vars
  BY <1>8 DEF vars, IInv, TypeOK, ElemsInv, RoomInv, CellInv
<1> QED BY <1>1, <1>2, <1>3, <1>4, <1>5, <1>6, <1>7, <1>8 DEF Next

\* The inductive invariant of serialization holds of every behaviour.
THEOREM SerialInvariant == Spec => []IInv
<1> QED BY InitIInv, NextIInv, PTL DEF Spec

\* The state keeps its types: the driver never goes on with anything but a descriptor,
\* in particular not with bytes of an item (serial_struct_base.hpp 299-307).
THEOREM SerialTypeCorrect == Spec => []TypeOK
<1>1. IInv => TypeOK
  BY DEF IInv
<1> QED BY <1>1, SerialInvariant, PTL

\* calculateBufferSize (serial_struct_base.hpp 228-243) asks for enough, whatever the
\* elements: getNextBufferSlice never throws while serialize runs.
THEOREM SerializeFits == Spec => []BufferSuffices
<1>1. IInv /\ BufferSuffices /\ [Next]_vars => BufferSuffices'
  <2> SUFFICES ASSUME IInv, BufferSuffices, [Next]_vars, pc' = "short" PROVE FALSE
    BY DEF BufferSuffices
  <2>1. SerializeElement
    BY DEF Next, vars, BufferSuffices, Measure, Resize, Deliver, StartDeserialize,
           DeserializeElement, EndDeserialize
  <2> QED BY <2>1, SerializeIInv
<1>2. Init => BufferSuffices
  BY DEF Init, BufferSuffices
<1> QED BY <1>1, <1>2, SerialInvariant, PTL DEF Spec

-----------------------------------------------------------------------------
(* The chain of descriptors *)

\* Where the descriptor of element k lies, where its item j, and where its items end.
Place(k) == IF k = 1 THEN 0 ELSE descs[k - 1].next
ItemPlace(k, j) == Place(k) + DescSize + (j - 1) * elems[k].size
EndOf(k) == Place(k) + DescSize + elems[k].size * elems[k].count

\* A descriptor says of its element how many items there are, of which size and where,
\* and where the next descriptor is, which is behind them.
DescOK(k) ==
    /\ descs[k].count = elems[k].count
    /\ elems[k].count > 0 => /\ descs[k].size = elems[k].size
                             /\ descs[k].data = Place(k) + DescSize
    /\ elems[k].count = 0 => descs[k].size = 0 /\ descs[k].data = 0
    /\ EndOf(k) <= offset
    /\ IF k = Len(descs) THEN descs[k].next = 0 ELSE descs[k].next >= EndOf(k)

\* As far as the buffer goes, it holds the descriptor and the items.
HeadCells(k) ==
    \A b \in 0..DescSize - 1 : Place(k) + b \in DOMAIN buf =>
        buf[Place(k) + b] = [el |-> k, item |-> 0, byte |-> b]
ItemCells(k) ==
    \A j \in 1..elems[k].count : \A b \in 0..elems[k].size - 1 :
        ItemPlace(k, j) + b \in DOMAIN buf =>
            buf[ItemPlace(k, j) + b] = [el |-> k, item |-> j, byte |-> b]

ChainInv ==
    /\ 1 <= Len(elems) /\ Len(descs) <= Len(elems)
    /\ descs = << >> => offset = 0
    /\ pc \in {"measure", "serialize"} => cut = 0 /\ fields = << >> /\ got = << >>
    /\ pc \notin {"measure", "serialize", "short"} => Len(descs) = Len(elems)
    /\ pc # "measure" => offset <= size + cut
    /\ \A k \in 1..Len(descs) : DescOK(k) /\ HeadCells(k) /\ ItemCells(k)

\* What the driver's element i is to get.
Expected(i) ==
    IF i <= Len(elems) /\ Items(i) # << >> THEN Items(i)
    ELSE IF fields[i].kind = "one" THEN <<Default>> ELSE << >>

\* The driver is at the descriptor of its next element, if the compiler knew that one,
\* and that descriptor is in the buffer as a whole.
DriverInv ==
    /\ pc \notin {"measure", "serialize", "short"} =>
           fields \in Seq(Field) /\ pos <= Len(fields) /\ Len(got) = pos
           /\ got \in Seq(Seq(Nat \X Nat))
    /\ pc = "delivered" => pos = 0
    /\ pc = "deserialize" =>
           IF pos < Len(elems) THEN cur = descs[pos + 1] /\ Place(pos + 1) + DescSize <= size
           ELSE cur = NoDescriptor
    /\ pc \in {"deserialize", "done"} => \A i \in 1..pos : got[i] = Expected(i)
    /\ pc = "done" => pos = Len(fields)

\* What deserialize and the drivers rest on.
SerialInv == ChainInv /\ DriverInv /\ AdditionsAccepted

\* Where byte b of item j lies among the bytes of the items.
LEMMA ItemBytes ==
    ASSUME NEW s \in Nat \ {0}, NEW c \in Nat, NEW j \in 1..c, NEW b \in 0..s - 1
    PROVE  /\ (j - 1) * s + b \in 0..s * c - 1
           /\ ((j - 1) * s + b) \div s + 1 = j /\ ((j - 1) * s + b) % s = b
<1> DEFINE q == j - 1
           r == c - j
<1>1. q \in Nat /\ r \in Nat /\ c = q + r + 1 /\ j = q + 1
  OBVIOUS
<1> HIDE DEF q, r
<1>2. s * c = q * s + r * s + s /\ q * s \in Nat /\ r * s \in Nat
  BY <1>1
<1>3. q * s + b \in 0..s * c - 1
  BY <1>2
<1>4. (q * s + b) \div s = q /\ (q * s + b) % s = b
  BY <1>1
<1> QED BY <1>1, <1>3, <1>4

\* The descriptors and their items lie in the written part of the buffer.
LEMMA PlaceFacts ==
    ASSUME IInv, ChainInv, NEW k \in 1..Len(descs)
    PROVE  /\ Place(k) \in Nat /\ EndOf(k) \in Nat /\ EndOf(k) <= offset
           /\ elems[k].size \in Nat \ {0} /\ elems[k].count \in Nat
           /\ elems[k].size * elems[k].count \in Nat
           /\ Place(k) + DescSize <= EndOf(k)
           /\ \A j \in 1..elems[k].count : \A b \in 0..elems[k].size - 1 :
                 /\ ItemPlace(k, j) + b \in Nat
                 /\ Place(k) + DescSize <= ItemPlace(k, j) + b
                 /\ ItemPlace(k, j) + b < EndOf(k)
<1> DEFINE s == elems[k].size
           c == elems[k].count
           P == Place(k)
<1>1. Len(descs) \in Nat /\ Len(elems) \in Nat /\ Len(descs) <= Len(elems)
  BY DEF IInv, TypeOK, ElemsInv, ChainInv
<1>2. k \in 1..Len(elems)
  BY <1>1
<1>3. s \in Nat \ {0} /\ c \in Nat
  BY <1>2 DEF IInv, ElemsInv
<1>4. P \in Nat
  <2>1. CASE k = 1
    BY <2>1 DEF Place
  <2>2. CASE k # 1
    <3>1. k - 1 \in 1..Len(descs)
      BY <1>1, <2>2
    <3>2. descs[k - 1] \in Descriptor
      BY <3>1 DEF IInv, TypeOK
    <3> QED BY <2>2, <3>2 DEF Place, Descriptor
  <2> QED BY <2>1, <2>2
<1>5. DescSize \in Nat
  BY DescriptorAssumption
<1>6. EndOf(k) = P + DescSize + s * c /\ \A j : ItemPlace(k, j) = P + DescSize + (j - 1) * s
  BY DEF EndOf, ItemPlace
<1>7. EndOf(k) <= offset
  BY DEF ChainInv, DescOK
<1> HIDE DEF s, c, P
<1>8. s * c \in Nat
  BY <1>3
<1>9. ASSUME NEW j \in 1..c, NEW b \in 0..s - 1
      PROVE  /\ ItemPlace(k, j) + b \in Nat
             /\ P + DescSize <= ItemPlace(k, j) + b /\ ItemPlace(k, j) + b < EndOf(k)
  <2>1. PICK m : m = (j - 1) * s
    OBVIOUS
  <2>2. m + b \in 0..s * c - 1
    BY <1>3, <2>1, ItemBytes
  <2>3. m \in Int /\ b \in Int /\ m + b \in Nat /\ m + b < s * c
    BY <1>3, <1>8, <2>1, <2>2
  <2>4. ItemPlace(k, j) = P + DescSize + m
    BY <1>6, <2>1
  <2>5. PICK y : y = s * c /\ y \in Nat
    BY <1>8
  <2> QED BY <1>4, <1>5, <1>6, <2>3, <2>4, <2>5
<1>10. P + DescSize <= EndOf(k) /\ EndOf(k) \in Nat
  <2>1. PICK y : y = s * c /\ y \in Nat
    BY <1>8
  <2> QED BY <1>4, <1>5, <1>6, <2>1
<1> QED BY <1>3, <1>4, <1>7, <1>8, <1>9, <1>10 DEF s, c, P

\* The chain at the start.
LEMMA InitChain == Init => SerialInv
<1> SUFFICES ASSUME Init PROVE SerialInv
  OBVIOUS
<1>1. PICK n \in 1..MaxFields : elems \in [1..n -> Element]
  BY DEF Init
<1>2. n \in Nat /\ n >= 1 /\ Len(elems) = n
  BY <1>1, SerialBoundsAssumption
<1>3. ChainInv
  BY <1>2 DEF Init, ChainInv
<1> QED BY <1>3 DEF Init, SerialInv, DriverInv, AdditionsAccepted

\* Measuring and resizing write nothing.
LEMMA MeasureChain == IInv /\ SerialInv /\ (Measure \/ Resize) => SerialInv'
<1> SUFFICES ASSUME IInv, SerialInv, Measure \/ Resize PROVE SerialInv'
  OBVIOUS
<1>1. /\ pc = "measure" /\ pc' \in {"measure", "serialize"}
      /\ UNCHANGED <<elems, offset, descs, fields, cut, cur, got>>
  BY DEF Measure, Resize
<1>2. descs = << >> /\ offset = 0 /\ size' \in Nat /\ need \in Nat
  BY <1>1 DEF IInv, RoomInv, TypeOK, Measure, Resize
<1>3. ChainInv'
  <2>1. cut = 0 /\ fields = << >> /\ got = << >> /\ 1 <= Len(elems) /\ Len(descs) <= Len(elems)
    BY <1>1 DEF SerialInv, ChainInv
  <2>2. \A k \in 1..Len(descs') : FALSE
    BY <1>1, <1>2
  <2>3. offset' <= size' + cut'
    <3>1. offset' = 0 /\ cut' \in Nat /\ size' \in Nat
      BY <1>1, <1>2, <2>1
    <3>2. \A x, y \in Nat : 0 <= x + y
      OBVIOUS
    <3> QED BY <3>1, <3>2
  <2>4. /\ 1 <= Len(elems') /\ Len(descs') <= Len(elems') /\ offset' = 0
        /\ cut' = 0 /\ fields' = << >> /\ got' = << >>
    BY <1>1, <1>2, <2>1
  <2>5. \A k \in 1..Len(descs') : DescOK(k)' /\ HeadCells(k)' /\ ItemCells(k)'
    BY <2>2
  <2> QED BY <1>1, <2>3, <2>4, <2>5 DEF ChainInv
<1> QED BY <1>1, <1>3 DEF SerialInv, DriverInv, AdditionsAccepted

\* serialize links a descriptor behind the last one and writes the items behind it.
LEMMA SerializeChain == IInv /\ SerialInv /\ SerializeElement => SerialInv'
<1> SUFFICES ASSUME IInv, SerialInv, SerializeElement PROVE SerialInv'
  OBVIOUS
<1>0. pc = "serialize" /\ pos < Len(elems)
  BY DEF SerializeElement
<1>1. PICK e, d, start, end, n :
         /\ e = elems[pos + 1] /\ d = AlignUp(offset, DescAlign) /\ start = d + DescSize
         /\ end = start + e.size * e.count /\ n = pos + 1
  OBVIOUS
<1>2. d \in Nat /\ end \in Nat /\ end <= size
  BY <1>0, <1>1, RoomForElement
<1>3. /\ pos \in Nat /\ Len(elems) \in Nat /\ size \in Nat /\ n \in 1..Len(elems)
      /\ descs \in Seq(Descriptor) /\ Len(descs) = pos /\ offset \in Nat
      /\ e.size \in Nat \ {0} /\ e.count \in Nat /\ DOMAIN buf = 0..size - 1
  BY <1>0, <1>1 DEF IInv, TypeOK, ElemsInv, RoomInv, CellInv
<1>4. /\ buf' = [a \in DOMAIN buf |->
                   CASE a \in d..start - 1 -> [el |-> n, item |-> 0, byte |-> a - d]
                     [] a \in start..end - 1 ->
                            [el |-> n, item |-> (a - start) \div e.size + 1,
                             byte |-> (a - start) % e.size]
                     [] OTHER -> buf[a]]
      /\ offset' = end /\ descs' = Append(Linked(descs, d), Described(e, d))
      /\ pc' = pc
      /\ UNCHANGED <<elems, size, fields, cut, cur, got>>
  <2>1. ~(end > size)
    BY <1>2, <1>3
  <2> QED BY <1>1, <2>1 DEF SerializeElement
<1>c. \A a \in DOMAIN buf : a \in d..start - 1 =>
           buf'[a] = [el |-> n, item |-> 0, byte |-> a - d]
  <2>1. \A a \in d..start - 1 : a \notin start..end - 1
    BY <1>1, <1>2, DescriptorAssumption
  <2> QED BY <1>4, <2>1, Zenon
<1>5. d >= offset /\ (offset = 0 => d = 0)
  BY <1>1, <1>3, AlignUpFacts, DescriptorAssumption DEF AlignUp
<1>6. DescSize \in Nat \ {0} /\ start \in Nat /\ d < start /\ start <= end /\ e.size * e.count \in Nat
  <2>1. e.size * e.count \in Nat
    BY <1>3
  <2>2. PICK y : y = e.size * e.count /\ y \in Nat
    BY <2>1
  <2> QED BY <1>1, <1>2, <2>1, <2>2, DescriptorAssumption
<1>7. /\ Len(descs') = n
      /\ descs'[n] = Described(e, d)
      /\ pos > 0 => descs'[pos] = [descs[pos] EXCEPT !.next = d]
      /\ \A k \in 1..pos - 1 : descs'[k] = descs[k]
  <2>1. PICK q, z : q = Linked(descs, d) /\ z = Described(e, d)
    OBVIOUS
  <2>2. CASE descs = << >>
    <3>1. pos = 0 /\ q = << >>
      BY <1>3, <2>1, <2>2 DEF Linked
    <3> QED BY <1>1, <1>4, <2>1, <3>1
  <2>3. CASE descs # << >>
    <3>1. pos \in 1..Len(descs) /\ descs[pos] \in Descriptor
      BY <1>3, <2>3
    <3>2. PICK t : t = [descs[pos] EXCEPT !.next = d]
      OBVIOUS
    <3>3. q = [descs EXCEPT ![pos] = t]
      BY <1>3, <2>1, <2>3, <3>2 DEF Linked
    <3>4. t \in Descriptor
      BY <1>2, <3>1, <3>2 DEF Descriptor
    <3>5. q \in Seq(Descriptor) /\ Len(q) = pos /\ q[pos] = t /\ \A k \in 1..pos - 1 : q[k] = descs[k]
      BY <1>3, <3>1, <3>3, <3>4
    <3>6. z \in Descriptor
      <4>1. d + DescSize \in Nat
        BY <1>2, <1>6
      <4> QED BY <1>3, <2>1, <4>1 DEF Described, Descriptor
    <3>7. descs' = Append(q, z)
      BY <1>4, <2>1
    <3> QED BY <1>1, <1>3, <2>1, <3>2, <3>5, <3>6, <3>7
  <2> QED BY <2>2, <2>3
<1>8. \A k \in 1..pos : Place(k)' = Place(k) /\ EndOf(k)' = EndOf(k)
  <2> SUFFICES ASSUME NEW k \in 1..pos PROVE Place(k)' = Place(k) /\ EndOf(k)' = EndOf(k)
    OBVIOUS
  <2>1. Place(k)' = Place(k)
    <3>1. CASE k = 1
      BY <3>1 DEF Place
    <3>2. CASE k # 1
      <4>1. k - 1 \in 1..pos - 1
        BY <1>3, <3>2
      <4> QED BY <1>7, <3>2, <4>1 DEF Place
    <3> QED BY <3>1, <3>2
  <2> QED BY <1>4, <2>1 DEF EndOf
<1>9. Place(n)' = d /\ EndOf(n)' = end
  <2>1. Place(n)' = d
    <3>1. CASE pos = 0
      <4>1. n = 1 /\ descs = << >>
        BY <1>1, <1>3, <3>1
      <4>2. d = 0
        BY <1>5, <4>1 DEF SerialInv, ChainInv
      <4> QED BY <4>1, <4>2 DEF Place
    <3>2. CASE pos # 0
      <4>1. pos > 0 /\ n # 1 /\ n - 1 = pos /\ pos \in 1..Len(descs)
        BY <1>1, <1>3, <3>2
      <4>2. descs[pos] \in Descriptor
        BY <1>3, <4>1
      <4>3. descs'[pos].next = d
        BY <1>7, <4>1, <4>2 DEF Descriptor
      <4> QED BY <4>1, <4>3 DEF Place
    <3> QED BY <3>1, <3>2
  <2> QED BY <1>1, <1>4, <2>1 DEF EndOf
<1>10. DOMAIN buf' = DOMAIN buf /\ \A a \in DOMAIN buf : a < d => buf'[a] = buf[a]
  BY <1>2, <1>3, <1>4, <1>6
<1>11. ASSUME NEW k \in 1..pos PROVE DescOK(k)' /\ HeadCells(k)' /\ ItemCells(k)'
  <2>1. /\ DescOK(k) /\ HeadCells(k) /\ ItemCells(k)
    BY <1>3, <1>11 DEF SerialInv, ChainInv
  <2>2. /\ Place(k) \in Nat /\ EndOf(k) \in Nat /\ EndOf(k) <= offset
        /\ Place(k) + DescSize <= EndOf(k)
        /\ \A j \in 1..elems[k].count : \A b \in 0..elems[k].size - 1 :
              /\ ItemPlace(k, j) + b \in Nat /\ ItemPlace(k, j) + b < EndOf(k)
    BY <1>3, <1>11, PlaceFacts DEF SerialInv
  <2>3. Place(k)' = Place(k) /\ EndOf(k)' = EndOf(k) /\ \A j : ItemPlace(k, j)' = ItemPlace(k, j)
    BY <1>4, <1>8 DEF ItemPlace
  <2>4. /\ descs'[k].count = descs[k].count /\ descs'[k].size = descs[k].size
        /\ descs'[k].data = descs[k].data
        /\ IF k = pos THEN descs'[k].next = d ELSE descs'[k].next = descs[k].next
    <3>1. descs[k] \in Descriptor
      BY <1>3
    <3>2. CASE k = pos
      <4>1. descs'[k] = [descs[k] EXCEPT !.next = d]
        BY <1>3, <1>7, <3>2
      <4> QED BY <3>1, <3>2, <4>1 DEF Descriptor
    <3>3. CASE k # pos
      <4>1. descs'[k] = descs[k]
        BY <1>3, <1>7, <3>3
      <4> QED BY <3>3, <4>1
    <3> QED BY <3>2, <3>3
  <2>5. EndOf(k) <= d /\ d <= end
    BY <1>2, <1>3, <1>5, <1>6, <2>2
  <2>6. DescOK(k)'
    <3>1. EndOf(k)' <= offset'
      BY <1>2, <1>4, <2>2, <2>3, <2>5
    <3>2. k # Len(descs')
      BY <1>1, <1>3, <1>7
    <3>3. descs'[k].next >= EndOf(k)'
      <4>1. CASE k = pos
        BY <2>3, <2>4, <2>5, <4>1
      <4>2. CASE k # pos
        BY <1>3, <2>1, <2>3, <2>4, <4>2 DEF DescOK
      <4> QED BY <4>1, <4>2
    <3> QED BY <1>4, <2>1, <2>3, <2>4, <3>1, <3>2, <3>3 DEF DescOK
  <2>7. HeadCells(k)'
    <3> SUFFICES ASSUME NEW b \in 0..DescSize - 1, Place(k) + b \in DOMAIN buf
                 PROVE  buf'[Place(k) + b] = [el |-> k, item |-> 0, byte |-> b]
      BY <1>10, <2>3 DEF HeadCells
    <3>1. Place(k) + b < d
      BY <1>2, <1>6, <2>2, <2>5
    <3> QED BY <1>10, <2>1, <3>1 DEF HeadCells
  <2>8. ItemCells(k)'
    <3> SUFFICES ASSUME NEW j \in 1..elems[k].count, NEW b \in 0..elems[k].size - 1,
                        ItemPlace(k, j) + b \in DOMAIN buf
                 PROVE  buf'[ItemPlace(k, j) + b] = [el |-> k, item |-> j, byte |-> b]
      BY <1>4, <1>10, <2>3 DEF ItemCells
    <3>1. ItemPlace(k, j) + b < d
      BY <1>2, <2>2, <2>5
    <3> QED BY <1>10, <2>1, <3>1 DEF ItemCells
  <2> QED BY <2>6, <2>7, <2>8
<1>12. DescOK(n)' /\ HeadCells(n)' /\ ItemCells(n)'
  <2>1. elems'[n] = e
    BY <1>1, <1>4
  <2>2. DescOK(n)'
    <3>1. /\ descs'[n].count = e.count /\ descs'[n].next = 0
          /\ e.count > 0 => descs'[n].size = e.size /\ descs'[n].data = d + DescSize
          /\ e.count = 0 => descs'[n].size = 0 /\ descs'[n].data = 0
      BY <1>3, <1>7 DEF Described
    <3> QED BY <1>2, <1>4, <1>7, <1>9, <2>1, <3>1 DEF DescOK
  <2>3. HeadCells(n)'
    <3> SUFFICES ASSUME NEW b \in 0..DescSize - 1, d + b \in DOMAIN buf
                 PROVE  buf'[d + b] = [el |-> n, item |-> 0, byte |-> b]
      BY <1>9, <1>10 DEF HeadCells
    <3>1. d + b \in d..start - 1 /\ (d + b) - d = b
      BY <1>1, <1>2, <1>6
    <3>2. PICK a : a = d + b
      OBVIOUS
    <3>3. a \in DOMAIN buf /\ a \in d..start - 1 /\ a - d = b
      BY <3>1, <3>2
    <3>4. buf'[a] = [el |-> n, item |-> 0, byte |-> a - d]
      BY <1>c, <3>3
    <3> QED BY <3>2, <3>3, <3>4
  <2>4. ItemCells(n)'
    <3> SUFFICES ASSUME NEW j \in 1..e.count, NEW b \in 0..e.size - 1,
                        ItemPlace(n, j)' + b \in DOMAIN buf
                 PROVE  buf'[ItemPlace(n, j)' + b] = [el |-> n, item |-> j, byte |-> b]
      BY <1>10, <2>1 DEF ItemCells
    <3>1. PICK m, y, s, c : /\ m = (j - 1) * e.size /\ y = e.size * e.count
                           /\ s = e.size /\ c = e.count
      OBVIOUS
    <3>a. s \in Nat \ {0} /\ c \in Nat /\ j \in 1..c /\ b \in 0..s - 1 /\ m = (j - 1) * s /\ y = s * c
      BY <1>3, <3>1
    <3>b. m + b \in 0..y - 1 /\ (m + b) \div s + 1 = j /\ (m + b) % s = b
      <4>1. /\ (j - 1) * s + b \in 0..s * c - 1
            /\ ((j - 1) * s + b) \div s + 1 = j /\ ((j - 1) * s + b) % s = b
        BY <3>a, ItemBytes, SMTT(30)
      <4> QED BY <3>a, <4>1, Zenon
    <3>c. m \in Int /\ y \in Nat
      BY <3>a
    <3>2. /\ m + b \in 0..y - 1 /\ (m + b) \div e.size + 1 = j /\ (m + b) % e.size = b
          /\ m \in Int /\ y \in Nat
      BY <3>1, <3>b, <3>c
    <3>3. ItemPlace(n, j)' = start + m
      BY <1>1, <1>4, <1>9, <2>1, <3>1 DEF ItemPlace
    <3>4. PICK a : a = ItemPlace(n, j)' + b
      OBVIOUS
    <3>5. a \in start..end - 1 /\ a \notin d..start - 1 /\ a - start = m + b
      BY <1>1, <1>2, <1>6, <3>1, <3>2, <3>3, <3>4
    <3> QED BY <1>4, <3>2, <3>4, <3>5
  <2> QED BY <2>2, <2>3, <2>4
<1>13. ChainInv'
  <2>1. \A k \in 1..Len(descs') : DescOK(k)' /\ HeadCells(k)' /\ ItemCells(k)'
    <3> SUFFICES ASSUME NEW k \in 1..n PROVE DescOK(k)' /\ HeadCells(k)' /\ ItemCells(k)'
      BY <1>7
    <3>1. k = n \/ k \in 1..pos
      BY <1>1, <1>3
    <3> QED BY <1>11, <1>12, <3>1
  <2>2. cut = 0 /\ fields = << >> /\ got = << >> /\ 1 <= Len(elems)
    BY <1>0 DEF SerialInv, ChainInv
  <2>3. Len(descs') <= Len(elems) /\ descs' # << >>
    BY <1>1, <1>3, <1>7
  <2>4. offset' <= size' + cut'
    BY <1>2, <1>3, <1>4, <2>2
  <2> QED BY <1>0, <1>4, <2>1, <2>2, <2>3, <2>4 DEF ChainInv
<1> QED BY <1>0, <1>4, <1>13 DEF SerialInv, DriverInv, AdditionsAccepted

\* Delivery loses the end of the buffer and nothing else.
LEMMA DeliverChain ==
    ASSUME IInv, SerialInv, NEW s \in Structs, NEW n \in Cuts, Deliver(s, n)
    PROVE  SerialInv'
<1>1. /\ pc = "serialize" /\ pc' = "delivered" /\ pos = Len(elems) /\ pos' = 0
      /\ n < size /\ cut' = n /\ fields' = s
      /\ size' = size - n /\ buf' = [a \in 0..size - n - 1 |-> buf[a]]
      /\ UNCHANGED <<elems, offset, descs, cur, got>>
  BY DEF Deliver
<1>2. n \in Nat /\ size \in Nat /\ offset \in Nat /\ Len(descs) = Len(elems)
  BY <1>1, ItemSizesAssumption DEF IInv, TypeOK, RoomInv
<1>3. cut = 0 /\ got = << >> /\ offset <= size + cut /\ 1 <= Len(elems) /\ Len(descs) <= Len(elems)
  BY <1>1 DEF SerialInv, ChainInv
<1>4. DOMAIN buf = 0..size - 1 /\ DOMAIN buf' = 0..size' - 1
  BY <1>1 DEF IInv, CellInv
<1>5. \A a \in DOMAIN buf' : a \in DOMAIN buf /\ buf'[a] = buf[a]
  BY <1>1, <1>2, <1>4
<1>6. offset' <= size' + cut'
  BY <1>1, <1>2, <1>3
<1>7. ASSUME NEW k \in 1..Len(descs) PROVE DescOK(k)' /\ HeadCells(k)' /\ ItemCells(k)'
  <2>1. DescOK(k) /\ HeadCells(k) /\ ItemCells(k)
    BY DEF SerialInv, ChainInv
  <2>2. Place(k)' = Place(k) /\ EndOf(k)' = EndOf(k) /\ \A j : ItemPlace(k, j)' = ItemPlace(k, j)
    BY <1>1 DEF Place, EndOf, ItemPlace
  <2>3. DescOK(k)'
    BY <1>1, <2>1, <2>2 DEF DescOK
  <2>4. HeadCells(k)'
    BY <1>5, <2>1, <2>2 DEF HeadCells
  <2>5. ItemCells(k)'
    BY <1>1, <1>5, <2>1, <2>2 DEF ItemCells
  <2> QED BY <2>3, <2>4, <2>5
<1>8. ChainInv'
  <2>1. Len(descs') = Len(elems') /\ 1 <= Len(elems') /\ Len(descs') <= Len(elems')
    BY <1>1, <1>2, <1>3
  <2>2. descs' = << >> => offset' = 0
    BY <1>1 DEF SerialInv, ChainInv
  <2>3. \A k \in 1..Len(descs') : DescOK(k)' /\ HeadCells(k)' /\ ItemCells(k)'
    BY <1>1, <1>7
  <2> QED BY <1>1, <1>6, <2>1, <2>2, <2>3 DEF ChainInv
<1>9. s \in Seq(Field) /\ Len(s) \in Nat
  <2>1. PICK m \in 1..MaxFields : s \in [1..m -> Field]
    BY DEF Structs
  <2>2. m \in Nat
    BY SerialBoundsAssumption
  <2> QED BY <2>1, <2>2
<1>10. got' = << >> /\ << >> \in Seq(Seq(Nat \X Nat)) /\ Len(got') = 0
  BY <1>1, <1>3
<1>11. DriverInv'
  BY <1>1, <1>9, <1>10 DEF DriverInv
<1> QED BY <1>1, <1>8, <1>11 DEF SerialInv, AdditionsAccepted

\* A whole descriptor is read as it was written.
LEMMA ReadDescriptor ==
    ASSUME IInv, ChainInv, pc # "measure", NEW k \in 1..Len(descs), Place(k) + DescSize <= size
    PROVE  DescriptorAt(Place(k)) = descs[k]
<1>1. PICK P : P = Place(k)
  OBVIOUS
<1>2. P \in Nat /\ DescSize \in Nat \ {0} /\ DOMAIN buf = 0..size - 1 /\ size \in Nat
  BY <1>1, PlaceFacts, DescriptorAssumption DEF IInv, TypeOK, CellInv
<1>3. \A b \in 0..DescSize - 1 : buf[P + b] = [el |-> k, item |-> 0, byte |-> b]
  <2> SUFFICES ASSUME NEW b \in 0..DescSize - 1
               PROVE  buf[P + b] = [el |-> k, item |-> 0, byte |-> b]
    OBVIOUS
  <2>1. P + b \in DOMAIN buf
    BY <1>1, <1>2
  <2> QED BY <1>1, <2>1 DEF ChainInv, HeadCells
<1>4. buf[P].el = k
  <2>1. 0 \in 0..DescSize - 1 /\ P + 0 = P
    BY <1>2
  <2>2. buf[P + 0] = [el |-> k, item |-> 0, byte |-> 0]
    BY <1>3, <2>1
  <2> QED BY <2>1, <2>2
<1> QED BY <1>1, <1>3, <1>4 DEF DescriptorAt

\* So is a whole item.
LEMMA ReadItem ==
    ASSUME IInv, ChainInv, pc # "measure", NEW k \in 1..Len(descs), EndOf(k) <= size,
           NEW j \in 1..elems[k].count
    PROVE  ItemAt(ItemPlace(k, j), elems[k].size) = <<k, j>>
<1>1. PICK P, s : P = ItemPlace(k, j) /\ s = elems[k].size
  OBVIOUS
<1>2. /\ s \in Nat \ {0} /\ DOMAIN buf = 0..size - 1 /\ size \in Nat /\ EndOf(k) \in Nat
      /\ \A b \in 0..s - 1 : P + b \in Nat /\ P + b < EndOf(k)
  BY <1>1, PlaceFacts DEF IInv, TypeOK, CellInv
<1>3. \A b \in 0..s - 1 : buf[P + b] = [el |-> k, item |-> j, byte |-> b]
  <2> SUFFICES ASSUME NEW b \in 0..s - 1
               PROVE  buf[P + b] = [el |-> k, item |-> j, byte |-> b]
    OBVIOUS
  <2>1. P + b \in DOMAIN buf
    BY <1>2
  <2> QED BY <1>1, <2>1 DEF ChainInv, ItemCells
<1>4. buf[P].el = k /\ buf[P].item = j
  <2>0. PICK K : K \in Nat /\ Place(k) + DescSize = K
    BY PlaceFacts, DescriptorAssumption
  <2>a. P \in Int
    BY <1>1, <1>2, <2>0 DEF ItemPlace
  <2>1. 0 \in 0..s - 1 /\ P + 0 = P
    BY <1>2, <2>a
  <2>2. buf[P + 0] = [el |-> k, item |-> j, byte |-> 0]
    BY <1>3, <2>1
  <2> QED BY <2>1, <2>2
<1> QED BY <1>1, <1>3, <1>4 DEF ItemAt

\* The driver's steps leave the chain alone.
LEMMA ReadingChain ==
    ASSUME ChainInv, pc \notin {"measure", "serialize", "short"},
           pc' \notin {"measure", "serialize", "short"},
           UNCHANGED <<elems, buf, size, offset, descs, cut>>
    PROVE  ChainInv'
<1>1. \A k : DescOK(k)' = DescOK(k) /\ HeadCells(k)' = HeadCells(k) /\ ItemCells(k)' = ItemCells(k)
  BY DEF DescOK, HeadCells, ItemCells, Place, EndOf, ItemPlace
<1> QED BY <1>1 DEF ChainInv

\* The driver begins at the first element's descriptor; a whole buffer has one.
LEMMA StartChain == IInv /\ SerialInv /\ StartDeserialize => SerialInv'
<1> SUFFICES ASSUME IInv, SerialInv, StartDeserialize PROVE SerialInv'
  OBVIOUS
<1>1. /\ pc = "delivered" /\ pc' \in {"deserialize", "refused"}
      /\ UNCHANGED <<elems, need, buf, size, offset, descs, fields, cut, got, pos>>
  BY DEF StartDeserialize
<1>2. ChainInv'
  BY <1>1, ReadingChain DEF SerialInv
<1>3. /\ pos = 0 /\ 1 <= Len(elems) /\ Len(descs) = Len(elems) /\ Len(elems) \in Nat
      /\ size \in Nat /\ cut \in Nat /\ offset \in Nat /\ DescSize \in Nat
      /\ offset <= size + cut
  BY <1>1, DescriptorAssumption DEF SerialInv, ChainInv, DriverInv, IInv, TypeOK, ElemsInv
<1>4. 1 \in 1..Len(descs) /\ Place(1) = 0
  BY <1>3 DEF Place
<1>5. DescSize <= offset
  <2>1. Place(1) + DescSize <= EndOf(1) /\ EndOf(1) <= offset /\ EndOf(1) \in Nat
    BY <1>4, PlaceFacts DEF SerialInv
  <2> QED BY <1>3, <1>4, <2>1
<1>6. CASE size >= DescSize
  <2>1. pc' = "deserialize" /\ cur' = DescriptorAt(0)
    BY <1>6 DEF StartDeserialize
  <2>2. Place(1) + DescSize <= size
    BY <1>3, <1>4, <1>6
  <2>3. cur' = descs[1]
    BY <1>1, <1>4, <2>1, <2>2, ReadDescriptor DEF SerialInv
  <2>4. Place(1)' = Place(1)
    BY <1>1 DEF Place
  <2>5. DriverInv'
    BY <1>1, <1>3, <2>1, <2>2, <2>3, <2>4 DEF SerialInv, DriverInv
  <2> QED BY <1>2, <2>1, <2>5 DEF SerialInv, AdditionsAccepted
<1>7. CASE ~(size >= DescSize)
  <2>1. pc' = "refused" /\ cut' = cut /\ cut # 0
    BY <1>1, <1>3, <1>5, <1>7 DEF StartDeserialize
  <2>2. DriverInv'
    BY <1>1, <2>1 DEF SerialInv, DriverInv
  <2> QED BY <1>2, <2>1, <2>2 DEF SerialInv, AdditionsAccepted
<1> QED BY <1>6, <1>7

\* An element without items is read as one the compiler did not know.
LEMMA ItemsFacts ==
    ASSUME NEW k, elems[k].count \in Nat, k \in Nat
    PROVE  /\ Items(k) \in Seq(Nat \X Nat)
           /\ Items(k) # << >> <=> elems[k].count > 0
<1>1. PICK c : c = elems[k].count /\ c \in Nat
  OBVIOUS
<1>2. Items(k) = [j \in 1..c |-> <<k, j>>]
  BY <1>1 DEF Items
<1>3. Items(k) \in [1..c -> Nat \X Nat]
  BY <1>2
<1>4. Items(k) \in Seq(Nat \X Nat) /\ Len(Items(k)) = c
  BY <1>1, <1>3
<1>5. Items(k) = << >> <=> c = 0
  BY <1>4
<1> QED BY <1>1, <1>4, <1>5

\* What the driver loads at a descriptor are the items of its element.
LEMMA LoadedFacts ==
    ASSUME IInv, ChainInv, pc # "measure", NEW k \in 1..Len(descs), NEW f,
           ~OutOfBound(descs[k])
    PROVE  Loaded(f, descs[k]) = IF Items(k) # << >> THEN Items(k)
                                 ELSE IF f.kind = "one" THEN <<Default>> ELSE << >>
<1>1. PICK s, c, P, d :
         s = elems[k].size /\ c = elems[k].count /\ P = Place(k) + DescSize /\ d = descs[k]
  OBVIOUS
<1>2. s \in Nat \ {0} /\ c \in Nat /\ s * c \in Nat /\ P \in Nat /\ size \in Nat /\ k \in Nat
  BY <1>1, PlaceFacts, DescriptorAssumption DEF IInv, TypeOK
<1>3. /\ d.count = c
      /\ c > 0 => d.size = s /\ d.data = P
  BY <1>1 DEF ChainInv, DescOK
<1>4. Items(k) # << >> <=> c > 0
  BY <1>1, <1>2, ItemsFacts
<1>5. CASE c > 0
  <2>1. EndOf(k) <= size
    <3>1. PICK y : y = s * c /\ y \in Nat
      BY <1>2
    <3>2. EndOf(k) = P + y
      BY <1>1, <3>1 DEF EndOf
    <3>3. ~(y + P > size)
      BY <1>1, <1>3, <1>5, <3>1 DEF OutOfBound
    <3> QED BY <1>2, <3>1, <3>2, <3>3
  <2>2. \A j \in 1..c : ItemAt(P + (j - 1) * s, s) = <<k, j>>
    <3> SUFFICES ASSUME NEW j \in 1..c PROVE ItemAt(P + (j - 1) * s, s) = <<k, j>>
      OBVIOUS
    <3>1. ItemAt(ItemPlace(k, j), s) = <<k, j>>
      BY <1>1, <2>1, ReadItem
    <3> QED BY <1>1, <3>1 DEF ItemPlace
  <2>3. Loaded(f, d) = [j \in 1..c |-> ItemAt(P + (j - 1) * s, s)]
    BY <1>3, <1>5 DEF Loaded
  <2>4. Loaded(f, d) = [j \in 1..c |-> <<k, j>>]
    BY <2>2, <2>3
  <2> QED BY <1>1, <1>4, <1>5, <2>4 DEF Items
<1>6. CASE ~(c > 0)
  BY <1>1, <1>3, <1>4, <1>6 DEF Loaded
<1> QED BY <1>5, <1>6

\* Behind the compiler's last element the driver gets its defaults.
LEMMA LoadedDefault ==
    ASSUME NEW f
    PROVE  /\ Loaded(f, NoDescriptor) = IF f.kind = "one" THEN <<Default>> ELSE << >>
           /\ Following(NoDescriptor) = NoDescriptor /\ Fits(f, NoDescriptor)
           /\ size \in Nat => ~OutOfBound(NoDescriptor)
<1>1. NoDescriptor.count = 0 /\ NoDescriptor.next = 0 /\ NoDescriptor.size = 0 /\ NoDescriptor.data = 0
  BY DEF NoDescriptor
<1>2. ~(0 > 0) /\ 0 * 0 + 0 = 0 /\ (size \in Nat => ~(0 > size))
  OBVIOUS
<1> QED BY <1>1, <1>2 DEF Loaded, Following, Fits, OutOfBound

\* The driver loads one element, or refuses the buffer: of a whole buffer nothing is out
\* of bounds, so that an element must have changed.
LEMMA DeserializeChain == IInv /\ SerialInv /\ DeserializeElement => SerialInv'
<1> SUFFICES ASSUME IInv, SerialInv, DeserializeElement PROVE SerialInv'
  OBVIOUS
<1>1. PICK k, f : k = pos + 1 /\ f = fields[k]
  OBVIOUS
<1>2. /\ pc = "deserialize" /\ pos < Len(fields) /\ pc' \in {"deserialize", "refused"}
      /\ UNCHANGED <<elems, need, buf, size, offset, descs, fields, cut>>
  BY DEF DeserializeElement
<1>3. ChainInv'
  BY <1>2, ReadingChain DEF SerialInv
<1>4. /\ pos \in Nat /\ k \in Nat \ {0} /\ Len(descs) = Len(elems) /\ Len(elems) \in Nat
      /\ fields \in Seq(Field) /\ k \in 1..Len(fields) /\ Len(fields) \in Nat /\ Len(got) = pos
      /\ got \in Seq(Seq(Nat \X Nat))
      /\ size \in Nat /\ cut \in Nat /\ offset \in Nat /\ DescSize \in Nat
      /\ offset <= size + cut
  BY <1>1, <1>2, DescriptorAssumption DEF SerialInv, ChainInv, DriverInv, IInv, TypeOK, ElemsInv
<1>5. /\ IF pos < Len(elems) THEN cur = descs[k] /\ Place(k) + DescSize <= size
         ELSE cur = NoDescriptor
      /\ \A i \in 1..pos : got[i] = Expected(i)
  BY <1>1, <1>2 DEF SerialInv, DriverInv
<1>6. CASE OutOfBound(cur) \/ ~Fits(f, cur) \/ (cur.next # 0 /\ cur.next + DescSize > size)
  <2>1. pc' = "refused" /\ UNCHANGED <<cur, got, pos>>
    BY <1>1, <1>6 DEF DeserializeElement
  <2>2. DriverInv'
    BY <1>2, <1>4, <2>1 DEF DriverInv
  <2>3. ASSUME cut = 0
        PROVE  \E i \in 1..Len(elems) :
                   /\ i <= Len(fields) /\ elems[i].count > 0
                   /\ \/ elems[i].size # fields[i].size
                      \/ fields[i].kind = "one" /\ elems[i].count > 1
    <3>1. pos < Len(elems)
      <4>1. NoDescriptor.next = 0
        BY DEF NoDescriptor
      <4> QED BY <1>4, <1>5, <1>6, <4>1, LoadedDefault
    <3>2. k \in 1..Len(descs) /\ cur = descs[k] /\ k \in 1..Len(elems)
      BY <1>1, <1>4, <1>5, <3>1
    <3>3. DescOK(k)
      BY <3>2 DEF SerialInv, ChainInv
    <3>4. PICK s, c, y, P : /\ s = elems[k].size /\ c = elems[k].count /\ y = s * c
                            /\ P = Place(k) + DescSize
      OBVIOUS
    <3>5. s \in Nat \ {0} /\ c \in Nat /\ y \in Nat /\ P \in Nat /\ EndOf(k) = P + y /\ EndOf(k) <= offset
      <4>1. /\ Place(k) \in Nat /\ EndOf(k) <= offset /\ s \in Nat \ {0} /\ c \in Nat /\ y \in Nat
        BY <3>2, <3>4, PlaceFacts, Zenon DEF SerialInv
      <4>2. EndOf(k) = Place(k) + DescSize + y
        BY <3>4, Zenon DEF EndOf
      <4>3. P \in Nat /\ EndOf(k) = P + y
        <5>1. PICK u, v, w : u = Place(k) /\ v = EndOf(k) /\ w = DescSize
          OBVIOUS
        <5>2. u \in Nat /\ w \in Nat /\ y \in Nat
          BY <4>1, <5>1, DescriptorAssumption
        <5>3. v = u + w + y /\ P = u + w
          BY <3>4, <4>2, <5>1, Zenon
        <5>4. P \in Nat /\ v = P + y
          BY <5>2, <5>3
        <5> QED BY <5>1, <5>4
      <4> QED BY <4>1, <4>3
    <3>6. offset <= size
      BY <1>4, <2>3
    <3>7. ~OutOfBound(cur)
      <4>1. CASE c > 0
        <5>1. cur.size * cur.count = y /\ cur.data = P
          BY <3>2, <3>3, <3>4, <4>1 DEF DescOK
        <5>2. ~(y + P > size)
          BY <1>4, <3>5, <3>6
        <5> QED BY <5>1, <5>2 DEF OutOfBound
      <4>2. CASE c = 0
        <5>1. cur.size = 0 /\ cur.count = 0 /\ cur.data = 0
          BY <3>2, <3>3, <3>4, <4>2 DEF DescOK
        <5>2. 0 * 0 + 0 = 0 /\ ~(0 > size)
          BY <1>4
        <5> QED BY <5>1, <5>2 DEF OutOfBound
      <4> QED BY <3>5, <4>1, <4>2
    <3>8. ~(cur.next # 0 /\ cur.next + DescSize > size)
      <4>1. CASE k = Len(descs)
        BY <3>2, <3>3, <4>1 DEF DescOK
      <4>2. CASE k # Len(descs)
        <5>1. k + 1 \in 1..Len(descs)
          BY <1>4, <3>2, <4>2
        <5>2. Place(k + 1) = cur.next
          <6>1. k + 1 # 1 /\ (k + 1) - 1 = k
            BY <1>4
          <6> QED BY <3>2, <6>1 DEF Place
        <5>3. Place(k + 1) + DescSize <= EndOf(k + 1) /\ EndOf(k + 1) <= offset /\ Place(k + 1) \in Nat /\ EndOf(k + 1) \in Nat
          BY <5>1, PlaceFacts DEF SerialInv
        <5> QED BY <1>4, <3>6, <5>2, <5>3
      <4> QED BY <4>1, <4>2
    <3>9. ~Fits(f, cur)
      BY <1>6, <3>7, <3>8
    <3>10. cur.count = c /\ c > 0 /\ cur.size = s /\ ~((f.kind = "one" => c = 1) /\ s = f.size)
      BY <3>2, <3>3, <3>4, <3>5, <3>9 DEF Fits, DescOK
    <3>11. s # f.size \/ (f.kind = "one" /\ c > 1)
      BY <3>5, <3>10
    <3>12. k <= Len(fields)
      BY <1>4
    <3> QED BY <1>1, <3>2, <3>4, <3>10, <3>11, <3>12
  <2>4. AdditionsAccepted'
    BY <1>2, <2>3 DEF AdditionsAccepted
  <2> QED BY <1>3, <2>2, <2>4 DEF SerialInv
<1>7. CASE ~OutOfBound(cur) /\ Fits(f, cur) /\ ~(cur.next # 0 /\ cur.next + DescSize > size)
  <2>1. /\ pc' = "deserialize" /\ pos' = k
        /\ got' = Append(got, Loaded(f, cur)) /\ cur' = Following(cur)
    BY <1>1, <1>2, <1>7 DEF DeserializeElement
  <2>2. \A i : Expected(i)' = Expected(i)
    BY <1>2 DEF Expected, Items
  <2>3. Loaded(f, cur) = Expected(k)
    <3>1. CASE pos < Len(elems)
      <4>1. k \in 1..Len(descs) /\ cur = descs[k] /\ k <= Len(elems)
        BY <1>1, <1>4, <1>5, <3>1
      <4>2. Loaded(f, descs[k]) = IF Items(k) # << >> THEN Items(k)
                                  ELSE IF f.kind = "one" THEN <<Default>> ELSE << >>
        BY <1>2, <1>7, <4>1, LoadedFacts DEF SerialInv
      <4> QED BY <1>1, <4>1, <4>2 DEF Expected
    <3>2. CASE ~(pos < Len(elems))
      <4>1. cur = NoDescriptor /\ ~(k <= Len(elems))
        BY <1>1, <1>4, <1>5, <3>2
      <4> QED BY <1>1, <4>1, LoadedDefault DEF Expected
    <3> QED BY <3>1, <3>2
  <2>4. Expected(k) \in Seq(Nat \X Nat)
    <3>1. <<Default>> \in Seq(Nat \X Nat) /\ << >> \in Seq(Nat \X Nat)
      BY DEF Default
    <3>2. k <= Len(elems) => Items(k) \in Seq(Nat \X Nat)
      <4>1. k <= Len(elems) => elems[k].count \in Nat
        BY <1>4 DEF IInv, ElemsInv
      <4> QED BY <1>4, <4>1, ItemsFacts
    <3> QED BY <3>1, <3>2 DEF Expected
  <2>5. PICK x : x = Loaded(f, cur) /\ x \in Seq(Nat \X Nat) /\ x = Expected(k)
    BY <2>3, <2>4
  <2>6. /\ got' \in Seq(Seq(Nat \X Nat)) /\ Len(got') = k /\ got'[k] = Expected(k)
        /\ \A i \in 1..pos : got'[i] = got[i]
    BY <1>1, <1>4, <2>1, <2>5
  <2>7. \A i \in 1..k : got'[i] = Expected(i)'
    <3> SUFFICES ASSUME NEW i \in 1..k PROVE got'[i] = Expected(i)
      BY <2>2
    <3>1. i = k \/ i \in 1..pos
      BY <1>1, <1>4
    <3> QED BY <1>5, <2>6, <3>1
  <2>8. IF k < Len(elems) THEN cur' = descs[k + 1] /\ Place(k + 1) + DescSize <= size
        ELSE cur' = NoDescriptor
    <3>1. CASE k < Len(elems)
      <4>1. k \in 1..Len(descs) /\ k + 1 \in 1..Len(descs) /\ k # Len(descs) /\ pos < Len(elems)
        BY <1>1, <1>4, <3>1
      <4>2. cur = descs[k] /\ DescOK(k)
        BY <1>5, <4>1 DEF SerialInv, ChainInv
      <4>3. Place(k + 1) = cur.next
        <5>1. k + 1 # 1 /\ (k + 1) - 1 = k
          BY <1>4
        <5> QED BY <4>2, <5>1 DEF Place
      <4>4. cur.next # 0
        <5>1. cur.next >= EndOf(k)
          BY <4>1, <4>2 DEF DescOK
        <5>2. Place(k) \in Nat /\ EndOf(k) \in Nat /\ Place(k) + DescSize <= EndOf(k)
          BY <4>1, PlaceFacts DEF SerialInv
        <5> QED BY <5>1, <5>2, DescriptorAssumption
      <4>5. Place(k + 1) + DescSize <= size
        <5>1. Place(k + 1) \in Nat
          BY <4>1, PlaceFacts DEF SerialInv
        <5> QED BY <1>4, <1>7, <4>3, <4>4, <5>1
      <4>6. DescriptorAt(Place(k + 1)) = descs[k + 1]
        BY <1>2, <4>1, <4>5, ReadDescriptor DEF SerialInv
      <4> QED BY <2>1, <3>1, <4>3, <4>4, <4>5, <4>6 DEF Following
    <3>2. CASE k = Len(elems)
      <4>1. k \in 1..Len(descs) /\ k = Len(descs) /\ pos < Len(elems)
        BY <1>1, <1>4, <3>2
      <4>2. cur = descs[k] /\ descs[k].next = 0
        BY <1>5, <4>1 DEF SerialInv, ChainInv, DescOK
      <4> QED BY <1>4, <2>1, <3>2, <4>2 DEF Following
    <3>3. CASE k > Len(elems)
      <4>1. ~(pos < Len(elems)) /\ ~(k < Len(elems))
        BY <1>1, <1>4, <3>3
      <4> QED BY <1>5, <2>1, <4>1, LoadedDefault
    <3> QED BY <1>4, <3>1, <3>2, <3>3
  <2>9. DriverInv'
    <3>1. k <= Len(fields)
      BY <1>4
    <3>2. Place(pos + 1)' = Place(k + 1)
      BY <1>2, <2>1 DEF Place
    <3>3. (IF pos < Len(elems) THEN cur = descs[pos + 1] /\ Place(pos + 1) + DescSize <= size
           ELSE cur = NoDescriptor)'
      BY <1>2, <2>1, <2>8, <3>2
    <3> QED BY <1>2, <1>4, <2>1, <2>6, <2>7, <3>1, <3>2, <3>3 DEF DriverInv
  <2> QED BY <1>3, <2>1, <2>9 DEF SerialInv, AdditionsAccepted
<1> QED BY <1>6, <1>7

\* Every step keeps the chain and what the driver has read of it.
LEMMA NextChain == IInv /\ SerialInv /\ [Next]_vars => SerialInv'
<1> SUFFICES ASSUME IInv, SerialInv, [Next]_vars PROVE SerialInv'
  OBVIOUS
<1>1. CASE Measure \/ Resize
  BY <1>1, MeasureChain
<1>2. CASE SerializeElement
  BY <1>2, SerializeChain
<1>3. ASSUME NEW s \in Structs, NEW n \in Cuts, Deliver(s, n) PROVE SerialInv'
  BY <1>3, DeliverChain
<1>4. CASE StartDeserialize
  BY <1>4, StartChain
<1>5. CASE DeserializeElement
  BY <1>5, DeserializeChain
<1>6. CASE EndDeserialize
  <2>1. /\ pc = "deserialize" /\ pc' = "done" /\ pos = Len(fields)
        /\ UNCHANGED <<elems, need, buf, size, offset, descs, fields, cut, cur, got, pos>>
    BY <1>6 DEF EndDeserialize
  <2>2. ChainInv'
    BY <2>1, ReadingChain DEF SerialInv
  <2>3. \A i : Expected(i)' = Expected(i)
    BY <2>1 DEF Expected, Items
  <2>4. DriverInv'
    BY <2>1, <2>3 DEF SerialInv, DriverInv
  <2> QED BY <2>1, <2>2, <2>4 DEF SerialInv, AdditionsAccepted
<1>7. CASE UNCHANGED vars
  <2>1. \A k : /\ DescOK(k)' = DescOK(k) /\ HeadCells(k)' = HeadCells(k)
               /\ ItemCells(k)' = ItemCells(k) /\ Place(k)' = Place(k) /\ Expected(k)' = Expected(k)
    BY <1>7 DEF vars, DescOK, HeadCells, ItemCells, Place, EndOf, ItemPlace, Expected, Items
  <2>2. ChainInv'
    BY <1>7, <2>1 DEF vars, SerialInv, ChainInv
  <2>3. Place(pos + 1)' = Place(pos + 1)
    BY <1>7 DEF vars, Place
  <2>4. DriverInv'
    BY <1>7, <2>1, <2>3 DEF vars, SerialInv, DriverInv
  <2>5. AdditionsAccepted'
    BY <1>7 DEF vars, SerialInv, AdditionsAccepted
  <2> QED BY <2>2, <2>4, <2>5 DEF SerialInv
<1> QED BY <1>1, <1>2, <1>3, <1>4, <1>5, <1>6, <1>7 DEF Next

\* What the driver gets from a buffer it accepts is what the compiler put in, whatever
\* elements the two have and however much of the buffer is lost
\* (serial_struct_base.hpp 205-222, 279-308).
THEOREM SerialReadsWhatWasWritten == Spec => []ReadsWhatWasWritten
<1>1. IInv /\ SerialInv => ReadsWhatWasWritten
  BY DEF SerialInv, DriverInv, ReadsWhatWasWritten, Expected
<1>2. Spec => [](IInv /\ SerialInv)
  BY InitIInv, NextIInv, InitChain, NextChain, PTL DEF Spec
<1> QED BY <1>1, <1>2, PTL

\* A whole buffer is refused only for an element that both know and that has changed,
\* never for elements that one of them does not know (serial_struct_base.hpp 217-221).
THEOREM SerialAdditionsAccepted == Spec => []AdditionsAccepted
<1>1. SerialInv => AdditionsAccepted
  BY DEF SerialInv
<1>2. Spec => [](IInv /\ SerialInv)
  BY InitIInv, NextIInv, InitChain, NextChain, PTL DEF Spec
<1> QED BY <1>1, <1>2, PTL
=============================================================================
