---------------------------- MODULE WriterProofs ----------------------------
(***************************************************************************)
(* The layout prepareWriter computes is sound, generateELF stays inside it   *)
(* and what it has written reads back, and relocations lead to the symbols  *)
(* they were given, for any number of sections, any sizes and alignments.   *)
(***************************************************************************)
EXTENDS Writer, FiniteSetTheorems, TLAPS

(* utils::alignUp *)

\* alignUp returns no less than it was given, and a multiple of the alignment.
LEMMA AlignUpFacts ==
    ASSUME NEW n \in Nat, NEW a \in Nat
    PROVE  /\ AlignUp(n, a) \in Nat
           /\ AlignUp(n, a) >= n
           /\ n # 0 /\ a # 0 => AlignUp(n, a) % a = 0
<1>1. CASE n = 0 \/ a = 0
  BY <1>1 DEF AlignUp
<1>2. CASE n # 0 /\ a # 0
  <2> DEFINE q == (n + a - 1) \div a
  <2>1. q \in Nat /\ q * a >= n
    BY <1>2
  <2>2. (q * a) % a = 0 /\ q * a \in Nat
    <3> HIDE DEF q
    <3> QED BY <1>2, <2>1
  <2>3. AlignUp(n, a) = q * a
    BY <1>2 DEF AlignUp
  <2> HIDE DEF q
  <2> QED BY <1>2, <2>1, <2>2, <2>3
<1> QED BY <1>1, <1>2

\* The section headers begin right behind the ELF header, whose size they have.
LEMMA ShOffFacts == ShOff = EhSize /\ ShOff \in Nat \ {0}
<1>1. (EhSize + EhSize - 1) \div EhSize = 1
  BY HeaderSizesAssumption
<1> QED BY <1>1, HeaderSizesAssumption DEF ShOff, AlignUp

\* The first offset behind the headers is no offset of a section without data.
LEMMA BaseFacts ==
    ASSUME TypeOK
    PROVE  Base \in Nat \ {0} /\ Count \in Nat
<1>1. Count \in Nat
  BY DEF TypeOK, Count
<1>2. Count * ShEntSize \in Nat
  BY <1>1, HeaderSizesAssumption
<1> QED BY <1>1, <1>2, ShOffFacts DEF Base

-----------------------------------------------------------------------------
(* Sections stay sections *)

\* Replacing one element of a sequence.
LEMMA ExceptSeq ==
    ASSUME NEW S, NEW q \in Seq(S), NEW k \in 1..Len(q), NEW v \in S
    PROVE  LET r == [q EXCEPT ![k] = v] IN
           /\ r \in Seq(S) /\ Len(r) = Len(q)
           /\ \A j \in 1..Len(q) : r[j] = IF j = k THEN v ELSE q[j]
OBVIOUS

\* Growing m_data keeps a section's type and ties its size to its data.
LEMMA GrownType ==
    ASSUME NEW s \in Section, NEW n \in Nat
    PROVE  /\ Grown(s, n) \in Section
           /\ Grown(s, n).data = Grown(s, n).size
           /\ Grown(s, n).kind = s.kind /\ Grown(s, n).off = s.off
           /\ Grown(s, n).items = s.items /\ Grown(s, n).symTab = s.symTab
           /\ Grown(s, n).cur = s.cur /\ Grown(s, n).patch = s.patch
           /\ Grown(s, n).link = s.link
<1> DEFINE m == s.data + n
<1>1. m \in Nat
  BY DEF Section
<1>2. Grown(s, n) = [s EXCEPT !.data = m, !.size = m]
  BY DEF Grown
<1> HIDE DEF m
<1> QED BY <1>1, <1>2 DEF Section

\* What a step of prepareWriter makes of a section: same kind and entries, no offset
\* yet, and a size that is that of its data if either is new.
Finishes(s, t) ==
    /\ t \in Section
    /\ t.kind = s.kind /\ t.off = s.off /\ t.items = s.items /\ t.symTab = s.symTab
    /\ t.cur = s.cur /\ t.patch = s.patch
    /\ t = s \/ (t.data = t.size /\ s.kind \in {"symbol", "relocation", "string"})

\* Adding strings, as many as there are, to a string table.
LEMMA WithStringsFinishes ==
    ASSUME NEW s \in Section, NEW n \in Nat, s.kind = "string"
    PROVE  Finishes(s, WithStrings(s, n))
BY GrownType DEF WithStrings, Finishes

\* sh_link and sh_info are of no concern to the layout.
LEMMA LinkedFinishes ==
    ASSUME NEW s \in Section, NEW n \in Nat, NEW x \in Nat, NEW y \in Nat,
           s.kind \in {"symbol", "relocation"}
    PROVE  Finishes(s, [Grown(s, n) EXCEPT !.info = x, !.link = y])
<1> DEFINE g == Grown(s, n)
           t == [g EXCEPT !.info = x, !.link = y]
<1>1. /\ g \in Section /\ g.data = g.size /\ g.kind = s.kind /\ g.off = s.off
      /\ g.items = s.items /\ g.symTab = s.symTab /\ g.cur = s.cur /\ g.patch = s.patch
  BY GrownType
<1> HIDE DEF g
<1>2. /\ t \in Section /\ t.data = g.data /\ t.size = g.size /\ t.kind = g.kind
      /\ t.off = g.off /\ t.items = g.items /\ t.symTab = g.symTab
      /\ t.cur = g.cur /\ t.patch = g.patch
  BY <1>1 DEF Section
<1> HIDE DEF t
<1>3. Finishes(s, t)
  BY <1>1, <1>2 DEF Finishes
<1> QED BY <1>3 DEF t, g

\* finalize.
LEMMA FinalizedFinishes ==
    ASSUME NEW s \in Section
    PROVE  Finishes(s, Finalized(s))
<1>0. s.items \in Seq(Item) /\ Len(s.items) \in Nat
  BY DEF Section
<1>1. SymbolSize * Len(s.items) \in Nat /\ RelocationSize * Len(s.items) \in Nat
  BY <1>0, EntrySizesAssumption
<1>2. CASE s.kind = "symbol"
  <2> DEFINE g == Grown(s, SymbolSize * Len(s.items))
  <2>1. g \in Section
    BY <1>1, GrownType
  <2> HIDE DEF g
  <2>2. g.info \in Nat /\ [g EXCEPT !.link = SymStrTab] = [g EXCEPT !.info = g.info, !.link = SymStrTab]
    BY <2>1 DEF Section
  <2>3. Finishes(s, [g EXCEPT !.info = g.info, !.link = SymStrTab])
    BY <1>1, <1>2, <2>2, LinkedFinishes DEF SymStrTab, g
  <2>4. Finalized(s) = [g EXCEPT !.link = SymStrTab]
    BY <1>2 DEF Finalized, g
  <2> QED BY <2>2, <2>3, <2>4
<1>3. CASE s.kind = "relocation"
  <2> DEFINE g == Grown(s, RelocationSize * Len(s.items))
             y == IF s.symTab # 0 THEN s.symTab ELSE g.link
  <2>1. g \in Section
    BY <1>1, GrownType
  <2>2. y \in Nat /\ s.patch \in Nat
    <3> HIDE DEF g
    <3> QED BY <2>1 DEF Section
  <2>3. Finalized(s) = [g EXCEPT !.info = s.patch, !.link = y]
    BY <1>3 DEF Finalized
  <2> DEFINE n == RelocationSize * Len(s.items)
  <2> HIDE DEF y, n
  <2>4. Finishes(s, [Grown(s, n) EXCEPT !.info = s.patch, !.link = y])
    BY <1>1, <1>3, <2>2, LinkedFinishes DEF n
  <2> QED BY <2>3, <2>4 DEF n
<1>4. CASE s.kind \notin {"symbol", "relocation"}
  BY <1>4 DEF Finalized, Finishes
<1> QED BY <1>2, <1>3, <1>4

\* Binding and type pack into st_info.
LEMMA NewSymbolType ==
    ASSUME NEW n \in Nat, NEW b \in Bindings, NEW t \in Nat, NEW r \in Nat
    PROVE  NewSymbol(n, b, t, r) \in Item
<1> DEFINE x == setBinding(0, b)
           y == setSymbolType(x, t)
<1>1. x \in Nat
  BY DEF setBinding, elf64STInfo, elf64STType, Bindings
<1> HIDE DEF x
<1>2. y \in Nat
  BY <1>1 DEF setSymbolType, elf64STInfo, elf64STBind
<1> HIDE DEF y
<1> QED BY <1>2 DEF NewSymbol, Item, Symbol, x, y

\* Symbol and type pack into r_info, in either order.
LEMMA RInfoType ==
    ASSUME NEW n \in Nat, NEW t \in Nat
    PROVE  setType(setSpecialSymbol(0, n), t) \in Nat /\ setSpecialSymbol(setType(0, t), n) \in Nat
BY DEF setType, setSpecialSymbol, elf64RInfo, elf64RSym, elf64RType, RTypes

\* The names of a table that has its null symbol.
LEMMA SymbolNamesType ==
    ASSUME NEW s \in Section, s.kind = "symbol" => Len(s.items) > 0
    PROVE  SymbolNames(s) \in Nat
<1>1. Len(s.items) \in Nat
  BY DEF Section
<1>2. CASE s.kind = "symbol"
  BY <1>1, <1>2, EntrySizesAssumption DEF SymbolNames
<1> QED BY <1>2 DEF SymbolNames

-----------------------------------------------------------------------------
(* One lemma per group of actions *)

IInv == TypeOK /\ LayoutIInv

\* The constructor's three sections satisfy the invariant.
LEMMA InitIInv == Init => IInv
<1> SUFFICES ASSUME Init PROVE IInv
  OBVIOUS
<1> DEFINE N == NewSection("null", 4)
           S == StringSection
<1>1. N \in Section /\ N.off = 0 /\ N.data = 0 /\ N.size = 0 /\ N.symTab = 0 /\ N.kind = "null" /\ N.cur = 0
  BY DEF NewSection, Section, Kinds
<1>2. S \in Section /\ S.off = 0 /\ S.data = 1 /\ S.size = 0 /\ S.symTab = 0 /\ S.kind = "string" /\ S.cur = 0
  <2>1. S = [kind |-> "string", align |-> 4, size |-> 0, data |-> 1, off |-> 0, cur |-> 0,
             link |-> 0, info |-> 0, items |-> << >>, symTab |-> 0, patch |-> 0]
    BY DEF NewSection, StringSection
  <2> HIDE DEF S
  <2> QED BY <2>1 DEF Section, Kinds
<1>3. sections = <<N, S, S>>
  BY DEF Init
<1> HIDE DEF N, S
<1>4. Count = 3 /\ sections \in Seq(Section)
  BY <1>1, <1>2, <1>3 DEF Count
<1>5. sections[1] = N /\ sections[2] = S /\ sections[3] = S
  BY <1>3
<1>6. headers = << >> /\ total = 0 /\ started = FALSE /\ pc = "build" /\ pos = 0
  BY DEF Init
<1>7. TypeOK
  <2>1. \A k \in 1..Count : sections[k].symTab = 0
    BY <1>1, <1>2, <1>4, <1>5
  <2>2. \A k \in 1..Count : sections[k].symTab < Count
    BY <1>4, <2>1
  <2>3. headers \in Seq(Header)
    BY <1>6
  <2>4. started \in BOOLEAN
    BY <1>6
  <2> QED BY <1>4, <1>6, <2>2, <2>3, <2>4 DEF TypeOK
<1>8. DataInv /\ UnplacedInv
  BY <1>1, <1>2, <1>4, <1>5, <1>6 DEF DataInv, UnplacedInv
<1>9. ProgressInv /\ HeaderInv /\ LayoutSound
  BY <1>2, <1>4, <1>5, <1>6
     DEF ProgressInv, HeaderInv, LayoutSound, Preparing, Sec, StrTab, SymStrTab
<1> QED BY <1>7, <1>8, <1>9 DEF IInv, LayoutIInv

\* A section as the invariant wants it before the layout, in a file of n sections.
Unplaced(s, n) ==
    /\ s \in Section /\ s.off = 0 /\ s.cur = 0 /\ s.symTab < n
    /\ s.data \in {0, s.size} \/ (s.data = 1 /\ s.size = 0)
    /\ s.kind = "empty" => s.data = 0
    /\ s.kind = "symbol" => Len(s.items) > 0

\* Before the layout the invariant is one of each section, and of the string tables.
LEMMA PreparingSections ==
    ASSUME IInv, Preparing
    PROVE  /\ sections \in Seq(Section) /\ Count \in Nat /\ Count >= 3
           /\ \A k \in 1..Count : Unplaced(sections[k], Count)
           /\ sections[2].kind = "string" /\ sections[3].kind = "string"
<1> USE DEF IInv, LayoutIInv
<1>1. sections \in Seq(Section) /\ Count \in Nat /\ Count >= 3 /\ headers = << >>
  BY DEF ProgressInv, TypeOK, Count
<1>2. sections[2].kind = "string" /\ sections[3].kind = "string"
  BY DEF ProgressInv, Sec, StrTab, SymStrTab
<1>3. \A k \in 1..Count : sections[k] \in Section
  BY <1>1 DEF Count
<1>4. \A k \in 1..Count : /\ sections[k].off = 0 /\ sections[k].cur = 0
                          /\ sections[k].symTab < Count
  BY <1>1 DEF UnplacedInv, DataInv, TypeOK, Preparing
<1> QED BY <1>1, <1>2, <1>3, <1>4 DEF Unplaced, DataInv

\* A step before the layout keeps the invariant if it keeps that of each section.
LEMMA PreparingIInv ==
    ASSUME IInv, pc \in {"build", "finalize"}, NEW n \in Nat, n >= 3,
           sections' \in Seq(Section), Count' = n,
           \A k \in 1..n : Unplaced(sections'[k], n),
           sections'[2].kind = "string" /\ sections'[3].kind = "string",
           pos' \in Nat, pc' \in {"build", "finalize"},
           UNCHANGED <<headers, total, started>>
    PROVE  IInv'
<1> USE DEF IInv, LayoutIInv
<1>1. headers = << >> /\ headers' = << >> /\ total' \in Nat /\ started' \in BOOLEAN
  BY DEF ProgressInv, Preparing, TypeOK
<1>2. TypeOK'
  BY <1>1 DEF TypeOK, Unplaced
<1>3. DataInv'
  <2>1. \A s : Unplaced(s, n) => s.cur <= s.size
    BY DEF Unplaced, Section
  <2> QED BY <2>1 DEF DataInv, Unplaced
<1>4. UnplacedInv'
  BY <1>1 DEF UnplacedInv, Unplaced
<1>5. HeaderInv' /\ LayoutSound'
  BY <1>1 DEF HeaderInv, LayoutSound
<1>6. ProgressInv'
  BY <1>1 DEF ProgressInv, Preparing, Sec, StrTab, SymStrTab
<1> QED BY <1>2, <1>3, <1>4, <1>5, <1>6

\* Adding a section while nothing has been laid out.
LEMMA AddIInv ==
    ASSUME IInv, pc = "build", NEW s, Unplaced(s, Count), sections' = Append(sections, s),
           UNCHANGED <<headers, total, started, pc, pos>>
    PROVE  IInv'
<1>1. Preparing /\ pc' \in {"build", "finalize"}
  BY DEF Preparing
<1>2. /\ sections \in Seq(Section) /\ Count \in Nat /\ Count >= 3
      /\ \A k \in 1..Count : Unplaced(sections[k], Count)
      /\ sections[2].kind = "string" /\ sections[3].kind = "string"
  BY <1>1, PreparingSections
<1>3. /\ sections' \in Seq(Section) /\ Count' = Count + 1
      /\ \A k \in 1..Count + 1 :
             sections'[k] = IF k = Count + 1 THEN s ELSE sections[k]
  BY <1>2 DEF Count, Unplaced
<1>4. \A k \in 1..Count + 1 : Unplaced(sections'[k], Count + 1)
  <2> SUFFICES ASSUME NEW k \in 1..Count + 1 PROVE Unplaced(sections'[k], Count + 1)
    OBVIOUS
  <2>1. Unplaced(sections'[k], Count)
    <3>1. CASE k = Count + 1
      BY <1>3, <3>1
    <3>2. CASE k \in 1..Count
      <4>1. k # Count + 1
        BY <1>2, <3>2
      <4> QED BY <1>2, <1>3, <3>2, <4>1
    <3>3. k = Count + 1 \/ k \in 1..Count
      BY <1>2
    <3> QED BY <3>1, <3>2, <3>3
  <2>2. ASSUME NEW t, Unplaced(t, Count) PROVE Unplaced(t, Count + 1)
    <3>1. t.symTab \in Nat
      BY <2>2 DEF Unplaced, Section
    <3>2. t.symTab < Count + 1
      BY <1>2, <2>2, <3>1 DEF Unplaced
    <3> QED BY <2>2, <3>2 DEF Unplaced
  <2> QED BY <2>1, <2>2
<1>5. sections'[2].kind = "string" /\ sections'[3].kind = "string"
  <2>1. 2 \in 1..Count + 1 /\ 3 \in 1..Count + 1 /\ 2 # Count + 1 /\ 3 # Count + 1
    BY <1>2
  <2> QED BY <1>2, <1>3, <2>1
<1>6. pos' \in Nat
  BY DEF IInv, TypeOK
<1>7. Count + 1 \in Nat /\ Count + 1 >= 3 /\ UNCHANGED <<headers, total, started>>
  BY <1>2
<1> DEFINE n == Count + 1
<1> HIDE DEF n
<1>8. /\ n \in Nat /\ n >= 3 /\ Count' = n
      /\ \A k \in 1..n : Unplaced(sections'[k], n)
  BY <1>3, <1>4, <1>7 DEF n
<1> QED BY <1>1, <1>3, <1>5, <1>6, <1>7, <1>8, PreparingIInv

\* Changing a section that is not laid out yet, but not its kind.
LEMMA ChangeIInv ==
    ASSUME IInv, Preparing, NEW k \in 1..Count, NEW t, Unplaced(t, Count),
           t.kind = sections[k].kind, sections' = [sections EXCEPT ![k] = t],
           pos' \in Nat, UNCHANGED <<headers, total, started, pc>>
    PROVE  IInv'
<1>1. /\ sections \in Seq(Section) /\ Count \in Nat /\ Count >= 3
      /\ \A j \in 1..Count : Unplaced(sections[j], Count)
      /\ sections[2].kind = "string" /\ sections[3].kind = "string"
  BY PreparingSections
<1>2. t \in Section /\ k \in 1..Len(sections)
  BY DEF Unplaced, Count
<1>3. /\ sections' \in Seq(Section) /\ Len(sections') = Len(sections)
      /\ \A j \in 1..Len(sections) : sections'[j] = IF j = k THEN t ELSE sections[j]
  BY <1>1, <1>2, ExceptSeq
<1>4. Count' = Count /\ \A j \in 1..Count : Unplaced(sections'[j], Count)
  BY <1>1, <1>3 DEF Count
<1>5. sections'[2].kind = "string" /\ sections'[3].kind = "string"
  <2>1. 2 \in 1..Len(sections) /\ 3 \in 1..Len(sections)
    BY <1>1 DEF Count
  <2> QED BY <1>1, <1>3, <2>1
<1>6. pc \in {"build", "finalize"} /\ pc' \in {"build", "finalize"}
  BY DEF Preparing
<1> QED BY <1>1, <1>3, <1>4, <1>5, <1>6, PreparingIInv

\* Adding an entry to a section.
LEMMA EntryIInv ==
    ASSUME IInv, pc = "build", NEW i \in 0..Count - 1, NEW e \in Item,
           sections' = [sections EXCEPT ![i + 1].items = Append(Sec(i).items, e)],
           UNCHANGED <<headers, total, started, pc, pos>>
    PROVE  IInv'
<1> DEFINE q == Append(Sec(i).items, e)
           t == [Sec(i) EXCEPT !.items = q]
<1>1. Preparing /\ pos' \in Nat
  BY DEF Preparing, IInv, TypeOK
<1>2. /\ sections \in Seq(Section) /\ Count \in Nat /\ i + 1 \in 1..Count
      /\ Unplaced(Sec(i), Count)
  BY <1>1, PreparingSections DEF Sec
<1>3. q \in Seq(Item) /\ Len(q) > 0
  BY <1>2 DEF Section, Unplaced
<1>4. sections' = [sections EXCEPT ![i + 1] = t]
  BY <1>2 DEF Sec
<1>5. Unplaced(t, Count) /\ t.kind = sections[i + 1].kind
  <2> HIDE DEF q
  <2> QED BY <1>2, <1>3 DEF Section, Unplaced, Sec
<1> HIDE DEF q, t
<1> QED BY <1>1, <1>2, <1>4, <1>5, ChangeIInv

\* finalize and addString leave a section as the invariant wants it.
LEMMA FinishesUnplaced ==
    ASSUME NEW n, NEW s, NEW t, Unplaced(s, n), Finishes(s, t)
    PROVE  Unplaced(t, n) /\ t.kind = s.kind
BY DEF Unplaced, Finishes

\* A list of sections before the layout, and one of them changed.
Prepared(q, n) ==
    /\ q \in Seq(Section) /\ Len(q) = n
    /\ \A k \in 1..n : Unplaced(q[k], n)
    /\ q[2].kind = "string" /\ q[3].kind = "string"

\* finalize or addString on one section of such a list.
LEMMA PreparedChange ==
    ASSUME NEW n \in Nat, n >= 3, NEW q, Prepared(q, n), NEW k \in 1..n,
           NEW t, Finishes(q[k], t)
    PROVE  Prepared([q EXCEPT ![k] = t], n)
<1> DEFINE r == [q EXCEPT ![k] = t]
<1>1. Unplaced(q[k], n)
  BY DEF Prepared
<1>2. Unplaced(t, n) /\ t.kind = q[k].kind
  BY <1>1, FinishesUnplaced
<1>3. q \in Seq(Section) /\ t \in Section /\ k \in 1..Len(q)
  BY <1>2 DEF Prepared, Unplaced
<1>4. /\ r \in Seq(Section) /\ Len(r) = Len(q)
      /\ \A j \in 1..Len(q) : r[j] = IF j = k THEN t ELSE q[j]
  BY <1>3, ExceptSeq
<1> HIDE DEF r
<1>5. Len(r) = n /\ \A j \in 1..n : r[j] = IF j = k THEN t ELSE q[j]
  BY <1>4 DEF Prepared
<1>6. \A j \in 1..n : Unplaced(r[j], n)
  BY <1>2, <1>5 DEF Prepared
<1>7. r[2].kind = "string" /\ r[3].kind = "string"
  <2>1. 2 \in 1..n /\ 3 \in 1..n
    OBVIOUS
  <2> QED BY <1>2, <1>5, <2>1 DEF Prepared
<1>8. Prepared(r, n)
  BY <1>4, <1>5, <1>6, <1>7 DEF Prepared
<1> QED BY <1>8 DEF r

\* One iteration of prepareWriter's first loop: a section and both string tables.
LEMMA FinalizeIInv == IInv /\ FinalizeSection => IInv'
<1> SUFFICES ASSUME IInv, FinalizeSection PROVE IInv'
  OBVIOUS
<1> DEFINE s == Sec(pos)
           q1 == [sections EXCEPT ![pos + 1] = Finalized(s)]
           x == SymbolNames(s)
           q2 == [q1 EXCEPT ![3] = WithStrings(q1[3], x)]
           y == IF s.kind = "null" THEN 0 ELSE NameSize
           q3 == [q2 EXCEPT ![2] = WithStrings(q2[2], y)]
<1>1. /\ pc = "finalize" /\ pos < Count /\ pos' = pos + 1 /\ pos \in Nat
      /\ UNCHANGED <<headers, total, started, pc>>
  BY DEF FinalizeSection, IInv, TypeOK
<1>2. sections' = q3
  BY DEF FinalizeSection, StrTab, SymStrTab
<1>3. /\ Count \in Nat /\ Count >= 3 /\ Prepared(sections, Count)
      /\ pos + 1 \in 1..Count
  <2>1. Preparing
    BY <1>1 DEF Preparing
  <2> QED BY <1>1, <2>1, PreparingSections DEF Prepared, Count
<1>4. Unplaced(s, Count) /\ s = sections[pos + 1]
  BY <1>3 DEF Prepared, Sec
<1>5. Finishes(sections[pos + 1], Finalized(s)) /\ x \in Nat /\ y \in Nat
  <2>1. s \in Section /\ (s.kind = "symbol" => Len(s.items) > 0)
    BY <1>4 DEF Unplaced
  <2>2. Finishes(s, Finalized(s)) /\ x \in Nat
    BY <2>1, FinalizedFinishes, SymbolNamesType
  <2>3. y \in Nat
    BY EntrySizesAssumption
  <2> QED BY <1>4, <2>2, <2>3
<1> HIDE DEF s, x, y
<1>6. Prepared(q1, Count)
  BY <1>3, <1>5, PreparedChange
<1> HIDE DEF q1
<1>7. Prepared(q2, Count)
  <2>1. q1[3] \in Section /\ q1[3].kind = "string" /\ 3 \in 1..Count
    BY <1>3, <1>6 DEF Prepared, Unplaced
  <2>2. Finishes(q1[3], WithStrings(q1[3], x))
    BY <1>5, <2>1, WithStringsFinishes
  <2> QED BY <1>3, <1>6, <2>1, <2>2, PreparedChange
<1> HIDE DEF q2
<1>8. Prepared(q3, Count)
  <2>1. q2[2] \in Section /\ q2[2].kind = "string" /\ 2 \in 1..Count
    BY <1>3, <1>7 DEF Prepared, Unplaced
  <2>2. Finishes(q2[2], WithStrings(q2[2], y))
    BY <1>5, <2>1, WithStringsFinishes
  <2> QED BY <1>3, <1>7, <2>1, <2>2, PreparedChange
<1> HIDE DEF q3
<1>9. Prepared(sections', Count)
  BY <1>2, <1>8
<1>10. Count' = Count /\ pos' \in Nat /\ pc' \in {"build", "finalize"}
  BY <1>1, <1>9 DEF Prepared, Count
<1> DEFINE n == Count
<1> HIDE DEF n
<1>11. n \in Nat /\ n >= 3 /\ Count' = n /\ Prepared(sections', n)
  BY <1>3, <1>9, <1>10 DEF n
<1> QED BY <1>1, <1>10, <1>11, PreparingIInv DEF Prepared

-----------------------------------------------------------------------------
(* The layout *)

\* Room for the headers is set aside before the second loop.
LEMMA StartLayoutIInv == IInv /\ StartLayout => IInv'
<1> SUFFICES ASSUME IInv, StartLayout PROVE IInv'
  OBVIOUS
<1> USE DEF IInv, LayoutIInv
<1>1. /\ pc = "finalize" /\ pc' = "layout" /\ pos' = 0 /\ total' = Base
      /\ UNCHANGED <<sections, headers, started>>
  BY DEF StartLayout, Base
<1>2. headers = << >> /\ headers' = << >> /\ Len(headers) = 0 /\ Base \in Nat /\ Count \in Nat
  BY <1>1, BaseFacts DEF ProgressInv, Preparing
<1>3. Count' = Count /\ Base' = Base
  BY <1>1 DEF Base, Count
<1>4. TypeOK'
  BY <1>1, <1>2, <1>3 DEF TypeOK
<1>5. DataInv' /\ UnplacedInv'
  BY <1>1, <1>3 DEF DataInv, UnplacedInv
<1>6. HeaderInv' /\ LayoutSound'
  BY <1>2 DEF HeaderInv, LayoutSound
<1>7. ProgressInv'
  BY <1>1, <1>2, <1>3 DEF ProgressInv, Preparing, Sec, StrTab, SymStrTab
<1> QED BY <1>4, <1>5, <1>6, <1>7

\* One iteration of the second loop places a section behind all before it.
LEMMA LayoutSectionIInv == IInv /\ LayoutSection => IInv'
<1> SUFFICES ASSUME IInv, LayoutSection PROVE IInv'
  OBVIOUS
<1> USE DEF IInv, LayoutIInv
<1> DEFINE u == Sec(pos)
           s == LaidOut(u)
           a == Aligned(u)
           h == [off |-> s.off, size |-> s.size, link |-> s.link, info |-> s.info]
<1>1. /\ pc = "layout" /\ pos < Count /\ pos' = pos + 1
      /\ sections' = [sections EXCEPT ![pos + 1] = s]
      /\ headers' = Append(headers, h)
      /\ total' = Aligned(s) + (IF Occupies(s) THEN s.size ELSE 0)
      /\ UNCHANGED <<started, pc>>
  BY DEF LayoutSection
<1>2. /\ sections \in Seq(Section) /\ headers \in Seq(Header) /\ total \in Nat
      /\ pos \in Nat /\ Count \in Nat /\ Len(headers) = pos /\ pos + 1 \in 1..Count
      /\ Base \in Nat \ {0} /\ total >= Base /\ Count >= 3
  BY <1>1, BaseFacts DEF TypeOK, ProgressInv, Preparing
<1>3. u \in Section /\ u = sections[pos + 1] /\ u.off = 0
  BY <1>2 DEF Sec, UnplacedInv, Count
<1>4. /\ a \in Nat /\ a >= total /\ a # 0
      /\ u.align # 0 => a % u.align = 0
  <2>1. total # 0
    BY <1>2
  <2>2. a = AlignUp(total, u.align)
    BY DEF Aligned
  <2> HIDE DEF u, a
  <2>3. u.align \in Nat
    BY <1>3 DEF Section
  <2>4. /\ AlignUp(total, u.align) \in Nat /\ AlignUp(total, u.align) >= total
        /\ total # 0 /\ u.align # 0 => AlignUp(total, u.align) % u.align = 0
    BY <1>2, <2>3, AlignUpFacts
  <2>5. a \in Nat /\ a >= total /\ (u.align # 0 => a % u.align = 0)
    BY <2>1, <2>2, <2>4
  <2>6. a # 0
    BY <1>2, <2>1, <2>5
  <2> QED BY <2>5, <2>6
<1>5. /\ s \in Section
      /\ s.kind = u.kind /\ s.align = u.align /\ s.size = u.size /\ s.data = u.data
      /\ s.items = u.items /\ s.symTab = u.symTab /\ s.cur = u.cur
      /\ s.off = IF Occupies(u) THEN a ELSE 0
  <2> HIDE DEF u, a
  <2> QED BY <1>3, <1>4 DEF LaidOut, Section, a, u
<1>6. Occupies(s) = Occupies(u) /\ Aligned(s) = a
  BY <1>5 DEF Occupies, Aligned
<1>7. total' = a + (IF Occupies(u) THEN u.size ELSE 0)
  BY <1>1, <1>5, <1>6
<1>8. /\ h \in Header /\ h.off = s.off /\ h.size = u.size /\ s.off \in Nat /\ u.size \in Nat
      /\ h.link = s.link /\ h.info = s.info
  BY <1>3, <1>5 DEF Header, Section
<1> HIDE DEF u, s, a, h
<1>9. /\ sections' \in Seq(Section) /\ Count' = Count /\ Base' = Base
      /\ \A j \in 1..Count : sections'[j] = IF j = pos + 1 THEN s ELSE sections[j]
  BY <1>1, <1>2, <1>5, ExceptSeq DEF Count, Base
<1>10. /\ headers' \in Seq(Header) /\ Len(headers') = pos + 1
       /\ \A j \in 1..pos + 1 : headers'[j] = IF j = pos + 1 THEN h ELSE headers[j]
  BY <1>1, <1>2, <1>8
<1>11. total' \in Nat /\ total' >= total /\ total' >= Base
  BY <1>2, <1>4, <1>7, <1>8
<1>12. TypeOK'
  <2>1. \A j \in 1..Count' : sections'[j].symTab < Count'
    BY <1>2, <1>3, <1>5, <1>9 DEF TypeOK
  <2>2. pos' \in Nat
    BY <1>1, <1>2
  <2> QED BY <1>1, <1>9, <1>10, <1>11, <2>1, <2>2 DEF TypeOK
<1>13. DataInv'
  <2> SUFFICES ASSUME NEW j \in 1..Count
               PROVE  LET v == sections'[j] IN
                      /\ v.data \in {0, v.size} \/ (v.data = 1 /\ v.size = 0)
                      /\ v.kind = "empty" => v.data = 0
                      /\ v.kind = "symbol" => Len(v.items) > 0
                      /\ v.cur <= v.size /\ v.cur = 0
    BY <1>9 DEF DataInv
  <2>1. LET v == sections[j] IN
        /\ v.data \in {0, v.size} \/ (v.data = 1 /\ v.size = 0)
        /\ v.kind = "empty" => v.data = 0
        /\ v.kind = "symbol" => Len(v.items) > 0
        /\ v.cur <= v.size /\ v.cur = 0
    BY <1>1 DEF DataInv
  <2>2. CASE j = pos + 1
    BY <1>3, <1>5, <1>9, <2>1, <2>2
  <2>3. CASE j # pos + 1
    BY <1>9, <2>1, <2>3
  <2> QED BY <2>2, <2>3
<1>14. UnplacedInv'
  <2> SUFFICES ASSUME NEW j \in pos + 2..Count PROVE sections'[j].off = 0
    BY <1>2, <1>9, <1>10 DEF UnplacedInv
  <2>1. j \in 1..Count /\ j # pos + 1 /\ j \in Len(headers) + 1..Count
    BY <1>2
  <2> QED BY <1>9, <2>1 DEF UnplacedInv
<1>15. HeaderInv'
  <2> SUFFICES ASSUME NEW j \in 1..pos + 1
               PROVE  /\ headers'[j].off = sections'[j].off
                      /\ headers'[j].size = sections'[j].size
                      /\ headers'[j].link = sections'[j].link
                      /\ headers'[j].info = sections'[j].info
                      /\ headers'[j].off = 0 <=> ~Occupies(sections'[j])
    BY <1>10 DEF HeaderInv, Occupies
  <2>1. CASE j = pos + 1
    BY <1>2, <1>4, <1>5, <1>6, <1>8, <1>9, <1>10, <2>1
  <2>2. CASE j # pos + 1
    <3>1. j \in 1..Len(headers) /\ j \in 1..Count
      BY <1>2, <2>2
    <3> QED BY <1>9, <1>10, <2>2, <3>1 DEF HeaderInv
  <2> QED BY <2>1, <2>2
<1>16. LayoutSound'
  <2> SUFFICES ASSUME NEW j \in 1..pos + 1, headers'[j].off # 0
               PROVE  /\ sections'[j].align # 0 =>
                             headers'[j].off % sections'[j].align = 0
                      /\ headers'[j].off >= Base
                      /\ headers'[j].off + headers'[j].size <= total'
                      /\ \A k \in 1..j - 1 : headers'[k].off # 0 =>
                             headers'[k].off + headers'[k].size <= headers'[j].off
    BY <1>9, <1>10 DEF LayoutSound, Base
  <2>0. ASSUME NEW k \in 1..pos, headers[k].off # 0
        PROVE  /\ headers[k] \in Header /\ headers'[k] = headers[k]
               /\ headers[k].off + headers[k].size <= total
    BY <1>2, <1>10, <2>0 DEF LayoutSound
  <2>1. CASE j = pos + 1
    <3>1. headers'[j] = h /\ sections'[j] = s /\ h.off = a /\ Occupies(u)
      BY <1>2, <1>5, <1>8, <1>9, <1>10, <2>1
    <3>2. ASSUME NEW k \in 1..j - 1, headers'[k].off # 0
          PROVE  headers'[k].off + headers'[k].size <= headers'[j].off
      <4>1. k \in 1..pos /\ headers'[k] = headers[k]
        BY <1>2, <1>10, <2>1
      <4>2. headers[k] \in Header /\ headers[k].off + headers[k].size <= total
        BY <2>0, <3>2, <4>1
      <4> QED BY <1>2, <1>4, <3>1, <4>1, <4>2 DEF Header
    <3> QED BY <1>2, <1>4, <1>5, <1>7, <1>8, <3>1, <3>2
  <2>2. CASE j # pos + 1
    <3>1. j \in 1..Len(headers) /\ j \in 1..Count /\ j \in 1..pos
      BY <1>2, <2>2
    <3>2. headers'[j] = headers[j] /\ sections'[j] = sections[j] /\ headers[j] \in Header
      BY <1>2, <1>9, <1>10, <2>2, <3>1
    <3>3. \A k \in 1..j - 1 : headers'[k] = headers[k]
      BY <1>2, <1>10, <3>1
    <3>4. /\ sections[j].align # 0 => headers[j].off % sections[j].align = 0
          /\ headers[j].off >= Base
          /\ headers[j].off + headers[j].size <= total
          /\ \A k \in 1..j - 1 : headers[k].off # 0 =>
                 headers[k].off + headers[k].size <= headers[j].off
      BY <3>1, <3>2 DEF LayoutSound, Base
    <3>5. headers[j].off + headers[j].size <= total'
      BY <1>2, <1>11, <3>2, <3>4 DEF Header
    <3> QED BY <3>2, <3>3, <3>4, <3>5
  <2> QED BY <2>1, <2>2
<1>17. ProgressInv'
  <2>1. sections[2].kind = "string" /\ sections[3].kind = "string"
    BY DEF ProgressInv, Sec, StrTab, SymStrTab
  <2>2. sections'[2].kind = "string" /\ sections'[3].kind = "string"
    <3>1. 2 \in 1..Count /\ 3 \in 1..Count
      BY <1>2
    <3> QED BY <1>3, <1>5, <1>9, <2>1, <3>1
  <2> QED BY <1>1, <1>2, <1>9, <1>10, <1>11, <2>2
          DEF ProgressInv, Preparing, Sec, StrTab, SymStrTab
<1> QED BY <1>12, <1>13, <1>14, <1>15, <1>16, <1>17

-----------------------------------------------------------------------------
(* Once laid out, a section changes only in how far it has been written *)

SameLayout(s, t) ==
    /\ t \in Section
    /\ t.kind = s.kind /\ t.align = s.align /\ t.size = s.size /\ t.data = s.data
    /\ t.off = s.off /\ t.items = s.items /\ t.symTab = s.symTab /\ t.patch = s.patch
    /\ t.link = s.link /\ t.info = s.info
    /\ t.cur = s.cur \/ t.cur <= t.size

\* Steps behind the layout keep the invariant if they keep what it says of a section.
LEMMA LaidOutIInv ==
    ASSUME IInv, pc \notin {"build", "finalize"}, pc = "layout" => pos = Count,
           pc' \in {"prepared", "serialize", "done", "threw"}, pos' \in Nat,
           started' \in BOOLEAN, sections' \in Seq(Section), Count' = Count,
           \A j \in 1..Count : SameLayout(sections[j], sections'[j]),
           UNCHANGED <<headers, total>>
    PROVE  IInv'
<1> USE DEF IInv, LayoutIInv
<1>1. /\ Count \in Nat /\ Count >= 3 /\ Len(headers) = Count /\ Base' = Base
      /\ headers' = headers /\ total' = total
  BY DEF TypeOK, ProgressInv, Count, Base
<1>2. TypeOK'
  BY <1>1 DEF TypeOK, SameLayout
<1>3. DataInv'
  BY <1>1 DEF DataInv, SameLayout
<1>4. HeaderInv'
  BY <1>1 DEF HeaderInv, SameLayout, Occupies
<1>5. UnplacedInv'
  BY <1>1 DEF UnplacedInv
<1>6. LayoutSound'
  BY <1>1 DEF LayoutSound, SameLayout
<1>7. ProgressInv'
  <2>1. Sec(StrTab)'.kind = "string" /\ Sec(SymStrTab)'.kind = "string"
    <3>1. sections[2].kind = "string" /\ sections[3].kind = "string"
      BY DEF ProgressInv, Sec, StrTab, SymStrTab
    <3>2. 2 \in 1..Count /\ 3 \in 1..Count
      BY <1>1
    <3> QED BY <3>1, <3>2 DEF Sec, StrTab, SymStrTab, SameLayout
  <2> QED BY <1>1, <2>1 DEF ProgressInv, Preparing
<1> QED BY <1>2, <1>3, <1>4, <1>5, <1>6, <1>7

\* The steps that write leave every section as it is.
LEMMA UnchangedIInv ==
    ASSUME IInv, pc \notin {"build", "finalize"}, pc = "layout" => pos = Count,
           pc' \in {"prepared", "serialize", "done", "threw"}, pos' \in Nat,
           started' \in BOOLEAN, UNCHANGED <<sections, headers, total>>
    PROVE  IInv'
<1>1. sections' \in Seq(Section) /\ Count' = Count
  BY DEF IInv, TypeOK, Count
<1>2. \A j \in 1..Count : SameLayout(sections[j], sections'[j])
  BY <1>1 DEF SameLayout, Count
<1> QED BY <1>1, <1>2, LaidOutIInv

\* appendData moves the write offset of its section.
LEMMA AppendDataIInv ==
    ASSUME IInv, NEW i \in 0..Count - 1, NEW n \in Sizes, AppendData(i, n)
    PROVE  IInv'
<1> DEFINE s == Sec(i)
           t == [s EXCEPT !.cur = s.cur + n]
<1>0. s.cur + n <= s.size
  BY DEF AppendData
<1>1. /\ pc \in {"prepared", "done"} /\ sections' = [sections EXCEPT ![i + 1] = t]
      /\ UNCHANGED <<headers, total, started, pc, pos>>
  BY DEF AppendData, Sec
<1>2. /\ sections \in Seq(Section) /\ i + 1 \in 1..Len(sections) /\ s = sections[i + 1]
      /\ pos \in Nat /\ started \in BOOLEAN /\ Count = Len(sections)
  BY DEF IInv, TypeOK, Count, Sec
<1>3. s \in Section
  BY <1>2
<1>4. SameLayout(s, t)
  <2> DEFINE c == s.cur + n
  <2> HIDE DEF s
  <2>1. c \in Nat /\ c <= s.size
    BY <1>0, <1>3, ClientSizesAssumption DEF Section
  <2> HIDE DEF c
  <2> QED BY <1>3, <2>1 DEF SameLayout, Section, c
<1> HIDE DEF t
<1>5. t \in Section
  BY <1>4 DEF SameLayout
<1>6. /\ sections' \in Seq(Section) /\ Len(sections') = Len(sections)
      /\ \A j \in 1..Len(sections) : sections'[j] = IF j = i + 1 THEN t ELSE sections[j]
  BY <1>1, <1>2, <1>5, ExceptSeq
<1>7. \A j \in 1..Count : SameLayout(sections[j], sections'[j])
  BY <1>2, <1>4, <1>6 DEF SameLayout
<1> QED BY <1>1, <1>2, <1>6, <1>7, LaidOutIInv DEF Count

-----------------------------------------------------------------------------
(* Adding sections and entries *)

\* A new symbol table has its null symbol.
LEMMA AddSymbolSectionIInv == IInv /\ AddSymbolSection => IInv'
<1> SUFFICES ASSUME IInv, AddSymbolSection PROVE IInv'
  OBVIOUS
<1> DEFINE e == NewSymbol(0, 0, 0, 0)
           s == [NewSection("symbol", 4) EXCEPT !.items = <<e>>]
<1>1. Count \in Nat /\ Count >= 3
  BY DEF IInv, LayoutIInv, ProgressInv, TypeOK, Count
<1>2. e \in Item
  <2>1. 0 \in Nat /\ 0 \in Bindings
    BY DEF Bindings
  <2> QED BY <2>1, NewSymbolType
<1>3. Unplaced(s, Count)
  <2> DEFINE q == <<e>>
  <2>1. s = [kind |-> "symbol", align |-> 4, size |-> 0, data |-> 0, off |-> 0, cur |-> 0,
             link |-> 0, info |-> 0, items |-> q, symTab |-> 0, patch |-> 0]
    BY DEF NewSection
  <2> HIDE DEF e
  <2>2. q \in Seq(Item) /\ Len(q) > 0
    BY <1>2
  <2> HIDE DEF q, s
  <2> QED BY <1>1, <2>1, <2>2 DEF Unplaced, Section, Kinds
<1> HIDE DEF s
<1>4. pc = "build" /\ sections' = Append(sections, s) /\ UNCHANGED <<headers, total, started, pc, pos>>
  BY DEF AddSymbolSection, Adding, s
<1> QED BY <1>3, <1>4, AddIInv

\* A new relocation section names no table yet.
LEMMA AddRelocationSectionIInv == IInv /\ AddRelocationSection => IInv'
<1> SUFFICES ASSUME IInv, AddRelocationSection PROVE IInv'
  OBVIOUS
<1> DEFINE s == NewSection("relocation", 4)
<1>1. Count \in Nat /\ Count >= 3
  BY DEF IInv, LayoutIInv, ProgressInv, TypeOK, Count
<1>2. Unplaced(s, Count)
  <2>1. s = [kind |-> "relocation", align |-> 4, size |-> 0, data |-> 0, off |-> 0, cur |-> 0,
             link |-> 0, info |-> 0, items |-> << >>, symTab |-> 0, patch |-> 0]
    BY DEF NewSection
  <2> HIDE DEF s
  <2> QED BY <1>1, <2>1 DEF Unplaced, Section, Kinds
<1> HIDE DEF s
<1>3. pc = "build" /\ sections' = Append(sections, s) /\ UNCHANGED <<headers, total, started, pc, pos>>
  BY DEF AddRelocationSection, Adding, s
<1> QED BY <1>2, <1>3, AddIInv

\* A relocation section is told what it patches, and which table that is there it uses.
LEMMA LinksIInv ==
    ASSUME IInv, NEW i \in 0..Count - 1, NEW p \in Nat, NEW t \in 0..Count - 1, NEW y \in Nat,
           Links(i, p, [Sec(i) EXCEPT !.patch = p, !.symTab = t, !.link = y])
    PROVE  IInv'
<1> DEFINE s == [Sec(i) EXCEPT !.patch = p, !.symTab = t, !.link = y]
<1>1. /\ pc = "build" /\ sections' = [sections EXCEPT ![i + 1] = s]
      /\ UNCHANGED <<headers, total, started, pc, pos>>
  BY DEF Links
<1>2. Preparing /\ pos' \in Nat
  BY <1>1 DEF Preparing, IInv, TypeOK
<1>3. Count \in Nat /\ i + 1 \in 1..Count /\ Unplaced(Sec(i), Count) /\ Sec(i) = sections[i + 1]
  BY <1>2, PreparingSections DEF Sec
<1>4. Unplaced(s, Count) /\ s.kind = sections[i + 1].kind
  <2> DEFINE u == Sec(i)
  <2>1. u \in Section /\ Unplaced(u, Count) /\ t \in Nat /\ t < Count
    BY <1>3 DEF Unplaced
  <2> HIDE DEF u
  <2>2. LET v == [u EXCEPT !.patch = p, !.symTab = t, !.link = y] IN
        /\ v \in Section /\ v.kind = u.kind /\ v.size = u.size /\ v.data = u.data
        /\ v.off = u.off /\ v.items = u.items /\ v.symTab = t /\ v.cur = u.cur
    BY <2>1 DEF Section
  <2> QED BY <1>3, <2>1, <2>2 DEF Unplaced, u
<1> HIDE DEF s
<1> QED BY <1>1, <1>2, <1>3, <1>4, ChangeIInv

\* setSymbolTable.
LEMMA SetSymbolTableIInv ==
    ASSUME IInv, NEW i \in 0..Count - 1, NEW p \in 0..Count - 1, NEW t \in 0..Count - 1,
           SetSymbolTable(i, p, t)
    PROVE  IInv'
<1>1. Sec(i) \in Section /\ p \in Nat
  BY DEF IInv, TypeOK, Count, Sec
<1> DEFINE y == Sec(i).link
<1>2. y \in Nat /\ [Sec(i) EXCEPT !.patch = p, !.symTab = t]
                      = [Sec(i) EXCEPT !.patch = p, !.symTab = t, !.link = y]
  BY <1>1 DEF Section
<1>3. Links(i, p, [Sec(i) EXCEPT !.patch = p, !.symTab = t])
  BY DEF SetSymbolTable
<1> HIDE DEF y
<1> QED BY <1>1, <1>2, <1>3, LinksIInv

\* setSpecialSymbolTable.
LEMMA SetSpecialSymbolTableIInv ==
    ASSUME IInv, NEW i \in 0..Count - 1, NEW p \in 0..Count - 1, SetSpecialSymbolTable(i, p)
    PROVE  IInv'
<1>1. /\ Sec(i) \in Section /\ p \in Nat /\ Count \in Nat
      /\ Sec(i).symTab < Count
  BY DEF IInv, TypeOK, Count, Sec
<1> DEFINE x == Sec(i).symTab
<1>2. x \in 0..Count - 1
  <2>1. x \in Nat
    BY <1>1 DEF Section
  <2> QED BY <1>1, <2>1
<1>3. [Sec(i) EXCEPT !.patch = p, !.link = VPU_RT_SYMTAB]
         = [Sec(i) EXCEPT !.patch = p, !.symTab = x, !.link = VPU_RT_SYMTAB]
  BY <1>1 DEF Section
<1>4. VPU_RT_SYMTAB \in Nat
  BY WriterBoundsAssumption DEF VPU_RT_SYMTAB
<1>5. Links(i, p, [Sec(i) EXCEPT !.patch = p, !.link = VPU_RT_SYMTAB])
  BY DEF SetSpecialSymbolTable
<1> HIDE DEF x
<1> QED BY <1>1, <1>2, <1>3, <1>4, <1>5, LinksIInv

\* A new data section has a size but no data of the writer's.
LEMMA AddDataSectionIInv ==
    ASSUME IInv, NEW kind \in {"binary", "empty"}, NEW n \in Sizes, NEW a \in Aligns,
           AddDataSection(kind, n, a)
    PROVE  IInv'
<1> DEFINE s == [NewSection(kind, a) EXCEPT !.size = n]
<1>1. Count \in Nat /\ Count >= 3 /\ n \in Nat /\ a \in Nat
  BY ClientSizesAssumption DEF IInv, LayoutIInv, ProgressInv, TypeOK, Count
<1>2. Unplaced(s, Count)
  <2>1. s = [kind |-> kind, align |-> a, size |-> n, data |-> 0, off |-> 0, cur |-> 0,
             link |-> 0, info |-> 0, items |-> << >>, symTab |-> 0, patch |-> 0]
    BY DEF NewSection
  <2> HIDE DEF s
  <2> QED BY <1>1, <2>1 DEF Unplaced, Section, Kinds
<1> HIDE DEF s
<1>3. pc = "build" /\ sections' = Append(sections, s) /\ UNCHANGED <<headers, total, started, pc, pos>>
  BY DEF AddDataSection, Adding, s
<1> QED BY <1>2, <1>3, AddIInv

\* addSymbolEntry.
LEMMA AddSymbolEntryIInv ==
    ASSUME IInv, NEW i \in 0..Count - 1, NEW r \in 0..Count - 1, NEW b \in Bindings,
           NEW t \in SymbolTypes, AddSymbolEntry(i, b, t, r)
    PROVE  IInv'
<1> DEFINE e == NewSymbol(Len(Sec(i).items), b, t, r)
<1>0. t \in Nat
  <2>1. t \in 0..15
    BY ClientTypesAssumption
  <2> QED BY <2>1
<1>1. sections \in Seq(Section) /\ i + 1 \in 1..Len(sections) /\ r \in Nat
  BY DEF IInv, TypeOK, Count
<1>2. Len(Sec(i).items) \in Nat
  <2>1. Sec(i) \in Section
    BY <1>1 DEF Sec
  <2> QED BY <2>1 DEF Section
<1>3. e \in Item
  BY <1>0, <1>1, <1>2, NewSymbolType
<1>4. /\ pc = "build" /\ UNCHANGED <<headers, total, started, pc, pos>>
      /\ sections' = [sections EXCEPT ![i + 1].items = Append(Sec(i).items, e)]
  BY DEF AddSymbolEntry
<1> HIDE DEF e
<1> QED BY <1>3, <1>4, EntryIInv

\* addRelocationEntry, whatever it was given.
LEMMA AddRelocationEntryIInv ==
    ASSUME IInv, NEW i \in 0..Count - 1, NEW k \in 0..MaxEntries, NEW n \in Specials,
           NEW t \in RelocTypes, AddRelocationEntry(i, k, n, t)
    PROVE  IInv'
<1>1. k \in Nat /\ n \in Nat /\ t \in Nat
  BY WriterBoundsAssumption, ClientTypesAssumption
<1>2. PICK x \in {setType(setSpecialSymbol(0, n), t), setSpecialSymbol(setType(0, t), n)} :
         sections' = [sections EXCEPT ![i + 1].items =
             Append(Sec(i).items, [info |-> x, symbol |-> k, type |-> t, special |-> n])]
  BY DEF AddRelocationEntry
<1>3. x \in Nat
  BY <1>1, <1>2, RInfoType
<1> DEFINE e == [info |-> x, symbol |-> k, type |-> t, special |-> n]
<1>4. e \in Item
  BY <1>1, <1>3 DEF Item, Relocation
<1>5. pc = "build" /\ UNCHANGED <<headers, total, started, pc, pos>>
  BY DEF AddRelocationEntry
<1>6. sections' = [sections EXCEPT ![i + 1].items = Append(Sec(i).items, e)]
  BY <1>2
<1> HIDE DEF e
<1> QED BY <1>4, <1>5, <1>6, EntryIInv

\* prepareWriter begins.
LEMMA StartPrepareIInv == IInv /\ StartPrepare => IInv'
<1> SUFFICES ASSUME IInv, StartPrepare PROVE IInv'
  OBVIOUS
<1>1. /\ pc = "build" /\ pc' = "finalize" /\ pos' = 0
      /\ UNCHANGED <<sections, headers, total, started>>
  BY DEF StartPrepare
<1>2. /\ sections \in Seq(Section) /\ Count \in Nat /\ Count >= 3
      /\ \A k \in 1..Count : Unplaced(sections[k], Count)
      /\ sections[2].kind = "string" /\ sections[3].kind = "string"
  BY <1>1, PreparingSections DEF Preparing
<1> DEFINE n == Count
<1>3. Count' = n
  BY <1>1 DEF Count
<1>4. n \in Nat /\ n >= 3 /\ \A k \in 1..n : Unplaced(sections'[k], n)
  BY <1>1, <1>2
<1> HIDE DEF n
<1> QED BY <1>1, <1>2, <1>3, <1>4, PreparingIInv

-----------------------------------------------------------------------------
(* The invariant *)

\* Every step of the writer or its client keeps the invariant.
LEMMA NextIInv == IInv /\ [Next]_vars => IInv'
<1> SUFFICES ASSUME IInv, [Next]_vars PROVE IInv'
  OBVIOUS
<1>0. pos \in Nat /\ started \in BOOLEAN
  BY DEF IInv, TypeOK
<1>1. CASE AddSymbolSection
  BY <1>1, AddSymbolSectionIInv
<1>2. CASE AddRelocationSection
  BY <1>2, AddRelocationSectionIInv
<1>21. ASSUME NEW i \in 0..Count - 1, NEW p \in 0..Count - 1, NEW t \in 0..Count - 1,
              SetSymbolTable(i, p, t)
       PROVE  IInv'
  BY <1>21, SetSymbolTableIInv
<1>22. ASSUME NEW i \in 0..Count - 1, NEW p \in 0..Count - 1, SetSpecialSymbolTable(i, p)
       PROVE  IInv'
  BY <1>22, SetSpecialSymbolTableIInv
<1>3. ASSUME NEW kind \in {"binary", "empty"}, NEW n \in Sizes, NEW a \in Aligns,
             AddDataSection(kind, n, a)
      PROVE  IInv'
  BY <1>3, AddDataSectionIInv
<1>4. ASSUME NEW i \in 0..Count - 1, NEW r \in 0..Count - 1, NEW b \in Bindings,
             NEW t \in SymbolTypes, AddSymbolEntry(i, b, t, r)
      PROVE  IInv'
  BY <1>4, AddSymbolEntryIInv
<1>5. ASSUME NEW i \in 0..Count - 1, NEW k \in 0..MaxEntries, NEW n \in Specials,
             NEW t \in RelocTypes, AddRelocationEntry(i, k, n, t)
      PROVE  IInv'
  BY <1>5, AddRelocationEntryIInv
<1>6. CASE StartPrepare
  BY <1>6, StartPrepareIInv
<1>7. CASE FinalizeSection
  BY <1>7, FinalizeIInv
<1>8. CASE StartLayout
  BY <1>8, StartLayoutIInv
<1>9. CASE LayoutSection
  BY <1>9, LayoutSectionIInv
<1>10. CASE Allocate
  BY <1>0, <1>10, UnchangedIInv DEF Allocate
<1>11. CASE SetSectionsStartAddr
  BY <1>0, <1>11, UnchangedIInv DEF SetSectionsStartAddr
<1>12. ASSUME NEW i \in 0..Count - 1, NEW n \in Sizes, AppendData(i, n) PROVE IInv'
  BY <1>12, AppendDataIInv
<1>13. CASE StartGenerate
  BY <1>0, <1>13, UnchangedIInv DEF StartGenerate
<1>14. CASE SerializeSection
  <2>1. pc' \in {"serialize", "threw"} /\ pos' \in Nat
    BY <1>0, <1>14 DEF SerializeSection
  <2> QED BY <1>0, <1>14, <2>1, UnchangedIInv DEF SerializeSection
<1>15. CASE WriteHeaders
  BY <1>0, <1>15, UnchangedIInv DEF WriteHeaders
<1>16. CASE UNCHANGED vars
  BY <1>16 DEF vars, IInv, LayoutIInv, TypeOK, DataInv, ProgressInv, HeaderInv,
               UnplacedInv, LayoutSound, Count, Base, Preparing, Sec, Occupies
<1> QED BY <1>1, <1>2, <1>21, <1>22, <1>3, <1>4, <1>5, <1>6, <1>7, <1>8, <1>9, <1>10,
           <1>11, <1>12, <1>13, <1>14, <1>15, <1>16 DEF Next

\* The inductive invariant of the writer's layout holds of every behaviour.
THEOREM WriterInvariant == Spec => []IInv
<1> QED BY InitIInv, NextIInv, PTL DEF Spec

\* The writer's state keeps its types: no step of prepareWriter or generateELF makes a
\* size, an offset or the symbol table of a relocation section ill-formed.
THEOREM WriterTypeCorrect == Spec => []TypeOK
<1>1. IInv => TypeOK
  BY DEF IInv
<1> QED BY <1>1, WriterInvariant, PTL

\* prepareWriter (writer.cpp 56-77): offsets are aligned, behind the headers, inside the
\* file, and no two sections overlap, for any sections a client adds.
THEOREM LayoutIsSound == Spec => []LayoutSound
<1>1. IInv => LayoutSound
  BY DEF IInv, LayoutIInv
<1> QED BY <1>1, WriterInvariant, PTL

\* generateELF (writer.cpp 81-108) never leaves the storage: all m_data, also the one of
\* an empty string table at offset 0, lies inside getTotalSize() bytes.
THEOREM GenerateFits == Spec => []EverythingFits
<1>1. IInv /\ EverythingFits /\ [Next]_vars => EverythingFits'
  <2> SUFFICES ASSUME IInv, pc # "threw", [Next]_vars, pc' = "threw" PROVE FALSE
    BY DEF EverythingFits
  <2> USE DEF IInv, LayoutIInv
  <2>1. SerializeSection
    BY DEF Next, vars, AddSymbolSection, AddRelocationSection, AddDataSection,
           SetSymbolTable, SetSpecialSymbolTable, Links, AddSymbolEntry, AddRelocationEntry, StartPrepare, FinalizeSection, StartLayout,
           LayoutSection, Allocate, SetSectionsStartAddr, AppendData, StartGenerate,
           WriteHeaders
  <2> DEFINE s == sections[pos + 1]
  <2>2. /\ pc = "serialize" /\ pos < Count /\ s.data # 0
        /\ s.off >= total \/ s.off + s.data > total
    BY <2>1 DEF SerializeSection, Sec
  <2>3. /\ pos + 1 \in 1..Count /\ s \in Section /\ Len(headers) = Count
        /\ total \in Nat /\ total >= Base /\ Base \in Nat \ {0}
    BY <2>2, BaseFacts DEF TypeOK, ProgressInv, Preparing, Count
  <2>4. /\ s.data \in {0, s.size} \/ (s.data = 1 /\ s.size = 0)
        /\ s.kind = "empty" => s.data = 0
    BY <2>3 DEF DataInv
  <2>5. /\ s.off = 0 <=> ~Occupies(s)
        /\ s.off # 0 => s.off + s.size <= total
    BY <2>3 DEF HeaderInv, LayoutSound
  <2>6. s.off \in Nat /\ s.size \in Nat /\ s.data \in Nat
    BY <2>3 DEF Section
  <2> HIDE DEF s
  <2>7. CASE s.off = 0
    BY <2>2, <2>3, <2>4, <2>5, <2>6, <2>7 DEF Occupies
  <2>8. CASE s.off # 0
    BY <2>2, <2>3, <2>4, <2>5, <2>6, <2>8 DEF Occupies
  <2> QED BY <2>7, <2>8
<1>2. Init => EverythingFits
  BY DEF Init, EverythingFits
<1> QED BY <1>1, <1>2, WriterInvariant, PTL DEF Spec

-----------------------------------------------------------------------------
(* What the file holds *)

\* Where the sections are is settled, and the storage is there.
Laid == pc \notin {"build", "finalize", "layout"}

\* Whatever a binary section was given is in the file; what the writer keeps itself is
\* there once generateELF has come by.
Copied(i) ==
    \/ Sec(i).kind = "binary"
    \/ pc = "done"
    \/ pc = "serialize" /\ i < pos

HeadersWritten ==
    /\ \A a \in 0..EhSize - 1 : file[a] = [of |-> EHdr, at |-> a]
    /\ \A a \in 0..ShEntSize * Count - 1 : file[ShOff + a] = [of |-> SHdr, at |-> a]

\* The storage has getTotalSize() bytes.
Allocated == DOMAIN file = 0..total - 1

\* The storage holds each copied section where the layout put it.
FileInv ==
    Laid =>
        /\ Allocated
        /\ \A i \in 0..Count - 1 :
               Occupies(Sec(i)) /\ Copied(i) =>
                   \A j \in 0..Provided(Sec(i)) - 1 :
                       file[Sec(i).off + j] = [of |-> i, at |-> j]
        /\ pc = "done" => HeadersWritten

\* A unit behind a write is either a new one or what it was.
LEMMA WrittenCell ==
    ASSUME NEW f, NEW a, NEW x, NEW j, NEW n, NEW c \in DOMAIN f
    PROVE  Written(f, a, x, j, n)[c]
              = IF c \in a..a + n - 1 THEN [of |-> x, at |-> j + c - a] ELSE f[c]
BY DEF Written

\* No write changes the size of the storage.
LEMMA WrittenDomain ==
    ASSUME NEW f, NEW a, NEW x, NEW j, NEW n
    PROVE  DOMAIN Written(f, a, x, j, n) = DOMAIN f
BY DEF Written

\* A section that is in the file has its own part of it, behind the headers.
LEMMA Room ==
    ASSUME IInv, Laid, NEW i \in 0..Count - 1, Occupies(Sec(i))
    PROVE  /\ Sec(i) \in Section /\ Sec(i).off \in Nat /\ Sec(i).size \in Nat
           /\ Sec(i).off >= Base /\ Sec(i).off + Sec(i).size <= total
           /\ \A k \in 0..Count - 1 : k # i /\ Occupies(Sec(k)) =>
                  \/ Sec(i).off + Sec(i).size <= Sec(k).off
                  \/ Sec(k).off + Sec(k).size <= Sec(i).off
<1> USE DEF IInv, LayoutIInv
<1>1. Count \in Nat /\ Len(headers) = Count /\ sections \in Seq(Section)
  BY DEF Laid, ProgressInv, TypeOK, Count
<1>2. ASSUME NEW k \in 0..Count - 1, Occupies(Sec(k))
      PROVE  /\ k + 1 \in 1..Len(headers) /\ Sec(k) \in Section
             /\ Sec(k).off \in Nat /\ Sec(k).size \in Nat
             /\ headers[k + 1].off = Sec(k).off /\ headers[k + 1].size = Sec(k).size
             /\ headers[k + 1].off # 0
  <2>1. k + 1 \in 1..Len(headers) /\ Sec(k) \in Section
    BY <1>1 DEF Count, Sec
  <2>2. Sec(k).off \in Nat /\ Sec(k).size \in Nat
    BY <2>1 DEF Section
  <2> QED BY <1>2, <2>1, <2>2 DEF HeaderInv, Sec
<1>3. ASSUME NEW k \in 0..Count - 1, Occupies(Sec(k))
      PROVE  /\ Sec(k).off >= Base /\ Sec(k).off + Sec(k).size <= total
             /\ \A m \in 0..k - 1 :
                    Occupies(Sec(m)) => Sec(m).off + Sec(m).size <= Sec(k).off
  <2>1. /\ headers[k + 1].off >= Base
        /\ headers[k + 1].off + headers[k + 1].size <= total
        /\ \A m \in 1..k + 1 - 1 :
               headers[m].off # 0 => headers[m].off + headers[m].size <= headers[k + 1].off
    BY <1>2, <1>3 DEF LayoutSound, Base
  <2>2. ASSUME NEW m \in 0..k - 1, Occupies(Sec(m))
        PROVE  Sec(m).off + Sec(m).size <= Sec(k).off
    <3>1. m \in 0..Count - 1 /\ m + 1 \in 1..k + 1 - 1
      BY <1>1
    <3> QED BY <1>2, <1>3, <2>1, <2>2, <3>1
  <2> QED BY <1>2, <1>3, <2>1, <2>2
<1>4. ASSUME NEW k \in 0..Count - 1, k # i, Occupies(Sec(k))
      PROVE  \/ Sec(i).off + Sec(i).size <= Sec(k).off
             \/ Sec(k).off + Sec(k).size <= Sec(i).off
  <2>1. k \in 0..i - 1 \/ i \in 0..k - 1
    BY <1>1, <1>4
  <2> QED BY <1>3, <1>4, <2>1
<1> QED BY <1>2, <1>3, <1>4

\* A write of a section: to its own part of the file, or over the headers.
OwnWrite(x, c, n) ==
    \/ Occupies(Sec(x)) /\ c + n <= Sec(x).size
    \/ Sec(x).off + c + n <= Base

\* A write of one section leaves every other section in the file as it was.
LEMMA WriteSection ==
    ASSUME IInv, Laid, Allocated,
           NEW x \in 0..Count - 1, NEW c \in Nat, NEW n \in Nat, OwnWrite(x, c, n),
           NEW i \in 0..Count - 1, Occupies(Sec(i)), NEW j \in Nat, j < Sec(i).size,
           file[Sec(i).off + j] = [of |-> i, at |-> j] \/ (i = x /\ j \in c..c + n - 1)
    PROVE  Written(file, Sec(x).off + c, x, c, n)[Sec(i).off + j] = [of |-> i, at |-> j]
<1>1. /\ Base \in Nat /\ Count \in Nat /\ total \in Nat /\ Sec(x) \in Section
      /\ Sec(x).off \in Nat /\ Sec(x).size \in Nat
  <2>1. Sec(x) \in Section
    BY DEF IInv, TypeOK, Count, Sec
  <2> QED BY <2>1, BaseFacts DEF IInv, TypeOK, Section
<1>2. /\ Sec(i).off \in Nat /\ Sec(i).size \in Nat /\ Sec(i).off >= Base
      /\ Sec(i).off + Sec(i).size <= total
      /\ x # i /\ Occupies(Sec(x)) => \/ Sec(i).off + Sec(i).size <= Sec(x).off
                                      \/ Sec(x).off + Sec(x).size <= Sec(i).off
  BY Room
<1>3. PICK p \in Nat, q \in Nat, m \in Nat : p = Sec(i).off /\ q = Sec(x).off /\ m = Sec(i).size
  BY <1>1, <1>2
<1>4. PICK z \in Nat, a \in Nat : z = p + j /\ a = q + c
  OBVIOUS
<1>5. z \in 0..total - 1
  BY <1>1, <1>2, <1>3, <1>4
<1>6. Written(file, a, x, c, n)[z]
         = IF z \in a..a + n - 1 THEN [of |-> x, at |-> c + z - a] ELSE file[z]
  <2>1. z \in DOMAIN file
    BY <1>5 DEF Allocated
  <2> QED BY <2>1, WrittenCell
<1>7. Written(file, a, x, c, n)[z] = [of |-> i, at |-> j]
  <2>1. CASE x = i
    <3>1. c + z - a = j /\ (z \in a..a + n - 1 <=> j \in c..c + n - 1)
      BY <1>3, <1>4, <2>1
    <3>2. file[z] = [of |-> i, at |-> j] \/ j \in c..c + n - 1
      BY <1>3, <1>4
    <3>3. CASE j \in c..c + n - 1
      BY <1>6, <2>1, <3>1, <3>3
    <3>4. CASE j \notin c..c + n - 1
      BY <1>6, <3>1, <3>2, <3>4
    <3> QED BY <3>3, <3>4
  <2>2. CASE x # i
    <3>1. CASE Occupies(Sec(x)) /\ c + n <= Sec(x).size
      BY <1>1, <1>2, <1>3, <1>4, <1>6, <2>2, <3>1
    <3>2. CASE q + c + n <= Base
      <4>1. z \notin a..a + n - 1
        BY <1>1, <1>2, <1>3, <1>4, <3>2
      <4> QED BY <1>3, <1>4, <1>6, <2>2, <4>1
    <3> QED BY <1>3, <3>1, <3>2 DEF OwnWrite
  <2> QED BY <2>1, <2>2
<1> QED BY <1>3, <1>4, <1>7

\* A write to a section's own part of the file leaves the headers.
LEMMA WriteBehindHeaders ==
    ASSUME IInv, Laid, Allocated,
           NEW x \in 0..Count - 1, NEW c \in Nat, NEW n \in Nat, Occupies(Sec(x)),
           c + n <= Sec(x).size, NEW z \in 0..Base - 1
    PROVE  Written(file, Sec(x).off + c, x, c, n)[z] = file[z]
<1>1. Base \in Nat /\ total \in Nat /\ total >= Base
  BY BaseFacts DEF IInv, LayoutIInv, TypeOK, ProgressInv, Laid, Preparing
<1>2. Sec(x).off \in Nat /\ Sec(x).off >= Base
  BY Room
<1>3. z \in DOMAIN file
  <2>1. z \in 0..total - 1
    BY <1>1
  <2> QED BY <2>1 DEF Allocated
<1>4. PICK a \in Nat : a = Sec(x).off + c /\ a >= Base
  BY <1>1, <1>2
<1>5. z \notin a..a + n - 1
  BY <1>1, <1>4
<1>6. Written(file, a, x, c, n)[z] = file[z]
  <2>1. Written(file, a, x, c, n)[z]
           = IF z \in a..a + n - 1 THEN [of |-> x, at |-> c + z - a] ELSE file[z]
    BY <1>3, WrittenCell
  <2> QED BY <1>5, <2>1
<1> QED BY <1>4, <1>6

\* The ELF header and the section headers are in front of all sections.
LEMMA HeaderCells ==
    ASSUME TypeOK
    PROVE  /\ \A a \in 0..EhSize - 1 : a \in 0..Base - 1
           /\ \A a \in 0..ShEntSize * Count - 1 : ShOff + a \in 0..Base - 1
<1>1. PICK n \in Nat : n = ShEntSize * Count /\ Base = EhSize + n
  <2>1. ShEntSize * Count \in Nat /\ ShEntSize * Count = Count * ShEntSize
    BY HeaderSizesAssumption DEF TypeOK, Count
  <2> QED BY <2>1, ShOffFacts DEF Base
<1>2. EhSize \in Nat /\ ShOff = EhSize
  BY HeaderSizesAssumption, ShOffFacts
<1> QED BY <1>1, <1>2

\* What is in the file of a section fits its size.
LEMMA ProvidedFits ==
    ASSUME IInv, NEW i \in 0..Count - 1, Occupies(Sec(i))
    PROVE  Provided(Sec(i)) \in Nat /\ Provided(Sec(i)) <= Sec(i).size
<1>1. i + 1 \in 1..Count /\ Sec(i) \in Section /\ Sec(i) = sections[i + 1]
  BY DEF IInv, TypeOK, Count, Sec
<1>2. /\ Sec(i).cur \in Nat /\ Sec(i).data \in Nat /\ Sec(i).size \in Nat
      /\ Sec(i).cur <= Sec(i).size
      /\ Sec(i).data \in {0, Sec(i).size} \/ (Sec(i).data = 1 /\ Sec(i).size = 0)
  BY <1>1 DEF IInv, LayoutIInv, DataInv, Section
<1> QED BY <1>2 DEF Provided, Occupies

\* The client allocates the file when no section has been given anything.
LEMMA AllocateFileInv == IInv /\ Allocate => FileInv'
<1> SUFFICES ASSUME IInv, Allocate PROVE FileInv'
  OBVIOUS
<1>1. /\ pc = "layout" /\ pc' = "prepared" /\ UNCHANGED <<sections, total>>
      /\ file' = [a \in 0..total - 1 |-> Unset]
  BY DEF Allocate
<1>2. Allocated'
  BY <1>1 DEF Allocated
<1>3. Count' = Count /\ \A i : Sec(i)' = Sec(i)
  BY <1>1 DEF Count, Sec
<1>4. ASSUME NEW i \in 0..Count - 1, Copied(i)' PROVE Provided(Sec(i)) = 0
  <2>1. Sec(i).kind = "binary"
    BY <1>1, <1>3, <1>4 DEF Copied
  <2>2. i + 1 \in 1..Count
    BY DEF IInv, TypeOK, Count
  <2>3. Sec(i).cur = 0
    BY <1>1, <2>2 DEF IInv, LayoutIInv, DataInv, Sec
  <2> QED BY <2>1, <2>3 DEF Provided
<1>5. \A i \in 0..Count' - 1 :
         Occupies(Sec(i)') /\ Copied(i)' =>
             \A j \in 0..Provided(Sec(i)') - 1 : file'[Sec(i)'.off + j] = [of |-> i, at |-> j]
  <2>1. \A j \in 0..0 - 1 : FALSE
    OBVIOUS
  <2> QED BY <1>3, <1>4, <2>1
<1>6. pc' # "done"
  BY <1>1
<1> QED BY <1>2, <1>5, <1>6 DEF FileInv

\* appendData puts its units behind those the section has.
LEMMA AppendDataFileInv ==
    ASSUME IInv, FileInv, NEW x \in 0..Count - 1, NEW n \in Sizes \ {0}, AppendData(x, n)
    PROVE  FileInv'
<1> DEFINE c == Sec(x).cur
<1>1. /\ pc \in {"prepared", "done"} /\ Sec(x).kind = "binary" /\ c + n <= Sec(x).size
      /\ file' = Written(file, Sec(x).off + c, x, c, n)
      /\ sections' = [sections EXCEPT ![x + 1] = [Sec(x) EXCEPT !.cur = c + n]]
      /\ UNCHANGED <<total, pc, pos>>
  BY DEF AppendData, Sec
<1>2. Laid /\ Laid'
  BY <1>1 DEF Laid
<1>3. /\ sections \in Seq(Section) /\ Sec(x) \in Section /\ x + 1 \in 1..Len(sections)
      /\ Count = Len(sections) /\ Count \in Nat /\ n \in Nat /\ n # 0
  BY ClientSizesAssumption DEF IInv, TypeOK, Count, Sec
<1>4. c \in Nat /\ Sec(x).size \in Nat /\ Occupies(Sec(x))
  <2>1. c \in Nat /\ Sec(x).size \in Nat
    BY <1>3 DEF Section
  <2> QED BY <1>1, <1>3, <2>1 DEF Occupies
<1>5. OwnWrite(x, c, n)
  BY <1>1, <1>4 DEF OwnWrite
<1>6. Allocated /\ Allocated'
  BY <1>1, <1>2, WrittenDomain DEF FileInv, Allocated
<1>7. /\ Count' = Count
      /\ \A i \in 0..Count - 1 :
             Sec(i)' = IF i = x THEN [Sec(x) EXCEPT !.cur = c + n] ELSE Sec(i)
  <2> DEFINE t == [Sec(x) EXCEPT !.cur = c + n]
  <2> HIDE DEF t
  <2>1. /\ sections' = [sections EXCEPT ![x + 1] = t] /\ Len(sections') = Len(sections)
        /\ \A j \in 1..Len(sections) : sections'[j] = IF j = x + 1 THEN t ELSE sections[j]
    BY <1>1, <1>3 DEF t
  <2>2. \A i \in 0..Count - 1 : i + 1 \in 1..Len(sections) /\ (i + 1 = x + 1 <=> i = x)
    BY <1>3
  <2>3. \A i \in 0..Count - 1 : Sec(i)' = IF i = x THEN t ELSE Sec(i)
    BY <2>1, <2>2 DEF Sec
  <2> QED BY <1>3, <2>1, <2>3 DEF t, Count
<1>8. \A i \in 0..Count - 1 :
         /\ Sec(i)'.off = Sec(i).off /\ Sec(i)'.kind = Sec(i).kind
         /\ Sec(i)'.size = Sec(i).size /\ Sec(i)'.data = Sec(i).data
         /\ Sec(i)'.cur = IF i = x THEN c + n ELSE Sec(i).cur
  <2> HIDE DEF c
  <2> QED BY <1>3, <1>7 DEF Section
<1> HIDE DEF c
<1>9. ASSUME NEW i \in 0..Count - 1, Occupies(Sec(i)'), Copied(i)',
             NEW j \in 0..Provided(Sec(i)') - 1
      PROVE  file'[Sec(i).off + j] = [of |-> i, at |-> j]
  <2>1. Occupies(Sec(i)) /\ Copied(i)
    BY <1>1, <1>8, <1>9 DEF Occupies, Copied
  <2>2. Provided(Sec(i)) \in Nat /\ Provided(Sec(i)) <= Sec(i).size /\ Sec(i).size \in Nat
    BY <1>2, <2>1, ProvidedFits, Room
  <2>3. Provided(Sec(i)') = IF i = x THEN c + n ELSE Provided(Sec(i))
    BY <1>1, <1>8 DEF Provided
  <2>4. i = x => Provided(Sec(i)) = c
    BY <1>1 DEF Provided, c
  <2>5. j \in Nat /\ j < Sec(i).size /\ (j < Provided(Sec(i)) \/ (i = x /\ j \in c..c + n - 1))
    BY <1>1, <1>3, <1>4, <1>9, <2>2, <2>3, <2>4
  <2>6. file[Sec(i).off + j] = [of |-> i, at |-> j] \/ (i = x /\ j \in c..c + n - 1)
    <3>1. CASE j < Provided(Sec(i))
      <4>1. j \in 0..Provided(Sec(i)) - 1
        BY <2>2, <2>5, <3>1
      <4> QED BY <1>2, <2>1, <4>1 DEF FileInv
    <3> QED BY <2>5, <3>1
  <2>7. Written(file, Sec(x).off + c, x, c, n)[Sec(i).off + j] = [of |-> i, at |-> j]
    BY <1>2, <1>3, <1>4, <1>5, <1>6, <2>1, <2>5, <2>6, WriteSection
  <2> QED BY <1>1, <2>7
<1>10. HeadersWritten => HeadersWritten'
  <2>1. \A z \in 0..Base - 1 : file'[z] = file[z]
    BY <1>1, <1>2, <1>3, <1>4, <1>6, WriteBehindHeaders
  <2>2. /\ \A a \in 0..EhSize - 1 : a \in 0..Base - 1
        /\ \A a \in 0..ShEntSize * Count - 1 : ShOff + a \in 0..Base - 1
    BY HeaderCells DEF IInv
  <2> QED BY <1>7, <2>1, <2>2 DEF HeadersWritten
<1> QED BY <1>1, <1>2, <1>6, <1>7, <1>8, <1>9, <1>10 DEF FileInv

\* One section of the writer's own goes into the file; a string table without strings
\* is written over the beginning of the file.
LEMMA SerializeFileInv == IInv /\ FileInv /\ SerializeSection => FileInv'
<1> SUFFICES ASSUME IInv, FileInv, SerializeSection PROVE FileInv'
  OBVIOUS
<1> DEFINE s == Sec(pos)
           n == s.data
<1>1. /\ pc = "serialize" /\ pos < Count /\ UNCHANGED <<sections, total>>
      /\ \/ pc' = "threw" /\ UNCHANGED <<file, pos>>
         \/ file' = Written(file, s.off, pos, 0, n) /\ pos' = pos + 1 /\ pc' = pc
  BY DEF SerializeSection
<1>2. Laid /\ Laid' /\ Count' = Count /\ Count \in Nat /\ pos \in Nat /\ \A i : Sec(i)' = Sec(i)
  BY <1>1 DEF Laid, Count, Sec, IInv, TypeOK
<1>3. CASE pc' = "threw" /\ UNCHANGED <<file, pos>>
  <2>1. Allocated'
    BY <1>1, <1>2, <1>3 DEF FileInv, Allocated
  <2>2. \A i : Copied(i)' => Copied(i)
    BY <1>2, <1>3 DEF Copied
  <2> QED BY <1>2, <1>3, <2>1, <2>2 DEF FileInv
<1>4. CASE file' = Written(file, s.off, pos, 0, n) /\ pos' = pos + 1 /\ pc' = pc
  <2>1. /\ pos \in 0..Count - 1 /\ s \in Section /\ s.off \in Nat /\ n \in Nat /\ s.size \in Nat
        /\ n \in {0, s.size} \/ (n = 1 /\ s.size = 0)
        /\ pos + 1 \in 1..Count
    <3>1. pos + 1 \in 1..Count /\ s = sections[pos + 1] /\ s \in Section
      BY <1>1, <1>2 DEF IInv, TypeOK, Count, Sec
    <3>2. s.off \in Nat /\ n \in Nat /\ s.size \in Nat
      BY <3>1 DEF Section
    <3>3. n \in {0, s.size} \/ (n = 1 /\ s.size = 0)
      BY <3>1 DEF IInv, LayoutIInv, DataInv
    <3> QED BY <1>1, <1>2, <3>1, <3>2, <3>3
  <2>2. s.kind = "empty" => n = 0
    BY <2>1 DEF IInv, LayoutIInv, DataInv, Sec
  <2>3. ~Occupies(s) => s.off = 0
    <3>1. pos + 1 \in 1..Len(headers)
      BY <1>2, <2>1 DEF IInv, LayoutIInv, ProgressInv, Laid
    <3> QED BY <3>1 DEF IInv, LayoutIInv, HeaderInv, Sec
  <2>4. OwnWrite(pos, 0, n)
    <3>1. Base \in Nat \ {0}
      BY BaseFacts DEF IInv
    <3>2. CASE Occupies(s)
      BY <2>1, <3>2 DEF OwnWrite, Occupies
    <3>3. CASE ~Occupies(s)
      <4>1. s.off = 0 /\ n <= 1
        BY <2>1, <2>2, <2>3, <3>3 DEF Occupies
      <4> HIDE DEF s, n
      <4>2. s.off + 0 + n <= Base
        BY <2>1, <3>1, <4>1
      <4> QED BY <4>2 DEF OwnWrite, s
    <3> QED BY <3>2, <3>3
  <2>5. Allocated /\ Allocated'
    BY <1>1, <1>2, <1>4, WrittenDomain DEF FileInv, Allocated
  <2>6. ASSUME NEW i \in 0..Count - 1, Occupies(Sec(i)), Copied(i)',
               NEW j \in 0..Provided(Sec(i)) - 1
        PROVE  file'[Sec(i).off + j] = [of |-> i, at |-> j]
    <3>1. Provided(Sec(i)) \in Nat /\ Provided(Sec(i)) <= Sec(i).size /\ Sec(i).size \in Nat
      BY <1>2, <2>6, ProvidedFits, Room
    <3>2. j \in Nat /\ j < Sec(i).size
      BY <2>6, <3>1
    <3>3. file[Sec(i).off + j] = [of |-> i, at |-> j] \/ (i = pos /\ j \in 0..0 + n - 1)
      <4>1. CASE Copied(i)
        BY <1>2, <2>6, <4>1 DEF FileInv
      <4>2. CASE ~Copied(i)
        <5>1. i = pos /\ s.kind # "binary"
          BY <1>1, <1>2, <1>4, <2>6, <4>2 DEF Copied
        <5>2. Provided(Sec(i)) = n
          BY <5>1 DEF Provided
        <5>3. j \in 0..0 + n - 1
          BY <2>1, <2>6, <5>2
        <5> QED BY <5>1, <5>3
      <4> QED BY <4>1, <4>2
    <3>4. Written(file, s.off + 0, pos, 0, n)[Sec(i).off + j] = [of |-> i, at |-> j]
      BY <1>2, <2>1, <2>4, <2>5, <2>6, <3>2, <3>3, WriteSection
    <3>5. s.off + 0 = s.off
      BY <2>1
    <3> QED BY <1>4, <3>4, <3>5
  <2>7. pc' # "done"
    BY <1>1, <1>4
  <2> QED BY <1>2, <2>5, <2>6, <2>7 DEF FileInv
<1> QED BY <1>1, <1>3, <1>4

\* The headers go in front of the sections, over what was written there before.
LEMMA WriteHeadersFileInv == IInv /\ FileInv /\ WriteHeaders => FileInv'
<1> SUFFICES ASSUME IInv, FileInv, WriteHeaders PROVE FileInv'
  OBVIOUS
<1>1. /\ pc = "serialize" /\ pos = Count /\ pc' = "done" /\ UNCHANGED <<sections, total>>
  BY DEF WriteHeaders
<1>2. Laid /\ Laid' /\ Count' = Count /\ Count \in Nat /\ \A i : Sec(i)' = Sec(i)
  BY <1>1 DEF Laid, Count, Sec, IInv, TypeOK
<1>3. /\ Base \in Nat /\ total \in Nat /\ total >= Base /\ Len(headers) = Count
      /\ Base' = Base
  BY <1>1, <1>2, BaseFacts DEF IInv, LayoutIInv, TypeOK, ProgressInv, Laid, Preparing, Base
<1>4. PICK n \in Nat : n = ShEntSize * Count /\ Base = EhSize + n
  <2>1. ShEntSize * Count \in Nat /\ ShEntSize * Count = Count * ShEntSize
    BY <1>2, HeaderSizesAssumption
  <2> QED BY <2>1, ShOffFacts DEF Base
<1>5. EhSize \in Nat /\ ShOff = EhSize
  BY HeaderSizesAssumption, ShOffFacts
<1> DEFINE f == Written(file, 0, EHdr, 0, EhSize)
<1>6. file' = Written(f, EhSize, SHdr, 0, n)
  BY <1>3, <1>4 DEF WriteHeaders
<1>7. Allocated /\ Allocated' /\ DOMAIN f = DOMAIN file /\ DOMAIN file' = DOMAIN file
  <2>1. Allocated
    BY <1>2 DEF FileInv
  <2>2. DOMAIN f = DOMAIN file /\ DOMAIN file' = DOMAIN f
    BY <1>6, WrittenDomain
  <2> QED BY <1>1, <2>1, <2>2 DEF Allocated
<1>8. \A z \in 0..total - 1 : z \in DOMAIN file
  BY <1>7 DEF Allocated
<1>9. ASSUME NEW z \in 0..total - 1
      PROVE  file'[z] = IF z < EhSize THEN [of |-> EHdr, at |-> z]
                        ELSE IF z < Base THEN [of |-> SHdr, at |-> z - EhSize] ELSE file[z]
  <2>1. z \in DOMAIN file /\ z \in DOMAIN f /\ z \in Nat
    BY <1>3, <1>7, <1>8
  <2>2. f[z] = IF z \in 0..0 + EhSize - 1 THEN [of |-> EHdr, at |-> 0 + z - 0] ELSE file[z]
    <3>1. ASSUME NEW o
          PROVE  Written(file, o, EHdr, o, EhSize)[z]
                    = IF z \in o..o + EhSize - 1 THEN [of |-> EHdr, at |-> o + z - o] ELSE file[z]
      BY <2>1, WrittenCell
    <3> QED BY <3>1
  <2>3. file'[z] = IF z \in EhSize..EhSize + n - 1 THEN [of |-> SHdr, at |-> 0 + z - EhSize]
                   ELSE f[z]
    <3> HIDE DEF f
    <3> QED BY <1>6, <2>1, WrittenCell
  <2> HIDE DEF f
  <2>4. z \in 0..0 + EhSize - 1 <=> z < EhSize
    BY <1>5, <2>1
  <2>5. z \in EhSize..EhSize + n - 1 <=> ~(z < EhSize) /\ z < Base
    BY <1>3, <1>4, <1>5, <2>1
  <2>6. 0 + z - 0 = z /\ 0 + z - EhSize = z - EhSize
    BY <1>5, <2>1
  <2> QED BY <1>3, <1>4, <1>5, <2>1, <2>2, <2>3, <2>4, <2>5, <2>6
<1> HIDE DEF f
<1>10. ASSUME NEW i \in 0..Count - 1, Occupies(Sec(i)), NEW j \in 0..Provided(Sec(i)) - 1
       PROVE  file'[Sec(i).off + j] = [of |-> i, at |-> j]
  <2>1. /\ Provided(Sec(i)) \in Nat /\ Provided(Sec(i)) <= Sec(i).size /\ Sec(i).size \in Nat
        /\ Sec(i).off \in Nat /\ Sec(i).off >= Base /\ Sec(i).off + Sec(i).size <= total
    BY <1>2, <1>10, ProvidedFits, Room
  <2>2. PICK z \in Nat : z = Sec(i).off + j /\ z >= Base /\ z \in 0..total - 1
    BY <1>3, <2>1
  <2>3. ~(z < EhSize) /\ ~(z < Base)
    BY <1>3, <1>4, <1>5, <2>2
  <2>4. file'[z] = file[z]
    BY <1>9, <2>2, <2>3
  <2>5. Copied(i)
    BY <1>1, <1>2 DEF Copied
  <2>6. file[Sec(i).off + j] = [of |-> i, at |-> j]
    BY <1>2, <1>10, <2>5 DEF FileInv
  <2> QED BY <2>2, <2>4, <2>6
<1>11. HeadersWritten'
  <2>1. ASSUME NEW a \in 0..EhSize - 1 PROVE file'[a] = [of |-> EHdr, at |-> a]
    <3>1. a \in 0..total - 1 /\ a < EhSize
      BY <1>3, <1>4, <1>5
    <3> QED BY <1>9, <3>1
  <2>2. ASSUME NEW a \in 0..n - 1 PROVE file'[ShOff + a] = [of |-> SHdr, at |-> a]
    <3>1. PICK z \in Nat : z = ShOff + a /\ z \in 0..total - 1 /\ ~(z < EhSize) /\ z < Base
                           /\ z - EhSize = a
      BY <1>3, <1>4, <1>5
    <3>2. file'[z] = [of |-> SHdr, at |-> z - EhSize]
      BY <1>9, <3>1
    <3> QED BY <3>1, <3>2
  <2> QED BY <1>2, <1>4, <2>1, <2>2 DEF HeadersWritten
<1> QED BY <1>2, <1>7, <1>10, <1>11 DEF FileInv

\* Nothing is said of the file before it is there.
LEMMA NextFileInv == IInv /\ FileInv /\ [Next]_vars => FileInv'
<1> SUFFICES ASSUME IInv, FileInv, [Next]_vars PROVE FileInv'
  OBVIOUS
<1>1. ASSUME pc' \in {"build", "finalize", "layout"} PROVE FileInv'
  BY <1>1 DEF FileInv, Laid
<1>2. ASSUME UNCHANGED <<sections, total, file>>, Laid,
             UNCHANGED <<pc, pos>> \/ (pc' = "serialize" /\ pos' = 0)
      PROVE  FileInv'
  <2>1. Count' = Count /\ \A i : Sec(i)' = Sec(i)
    BY <1>2 DEF Count, Sec
  <2>2. ASSUME NEW i \in 0..Count - 1, Copied(i)' PROVE Copied(i)
    BY <1>2, <2>1, <2>2 DEF Copied, IInv, TypeOK
  <2> QED BY <1>2, <2>1, <2>2 DEF FileInv, Allocated, HeadersWritten, Laid
<1>3. CASE Allocate
  BY <1>3, AllocateFileInv
<1>4. CASE SerializeSection
  BY <1>4, SerializeFileInv
<1>5. CASE WriteHeaders
  BY <1>5, WriteHeadersFileInv
<1>6. ASSUME NEW i \in 0..Count - 1, NEW n \in Sizes \ {0}, AppendData(i, n) PROVE FileInv'
  BY <1>6, AppendDataFileInv
<1>7. CASE StartGenerate
  BY <1>2, <1>7 DEF StartGenerate, Laid
<1>8. CASE SetSectionsStartAddr
  BY <1>2, <1>8 DEF SetSectionsStartAddr, Laid
<1>9. CASE UNCHANGED vars
  <2>1. CASE Laid
    BY <1>2, <1>9, <2>1 DEF vars
  <2>2. CASE ~Laid
    BY <1>9, <2>2 DEF vars, Laid, FileInv
  <2> QED BY <2>1, <2>2
<1>10. CASE AddSymbolSection \/ AddRelocationSection
  BY <1>1, <1>10 DEF AddSymbolSection, AddRelocationSection, Adding
<1>11. CASE StartPrepare \/ FinalizeSection \/ StartLayout \/ LayoutSection
  BY <1>1, <1>11 DEF StartPrepare, FinalizeSection, StartLayout, LayoutSection
<1>12. CASE \/ \E i, p, t \in 0..Count - 1 : SetSymbolTable(i, p, t)
            \/ \E i, p \in 0..Count - 1 : SetSpecialSymbolTable(i, p)
  BY <1>1, <1>12 DEF SetSymbolTable, SetSpecialSymbolTable, Links
<1>13. CASE \E kind \in {"binary", "empty"}, n \in Sizes, a \in Aligns :
               AddDataSection(kind, n, a)
  BY <1>1, <1>13 DEF AddDataSection, Adding
<1>14. CASE \E i, r \in 0..Count - 1, b \in Bindings, t \in SymbolTypes :
               AddSymbolEntry(i, b, t, r)
  BY <1>1, <1>14 DEF AddSymbolEntry
<1>15. CASE \E i \in 0..Count - 1, k \in 0..MaxEntries, n \in Specials, t \in RelocTypes :
               AddRelocationEntry(i, k, n, t)
  BY <1>1, <1>15 DEF AddRelocationEntry
<1> QED BY <1>3, <1>4, <1>5, <1>6, <1>7, <1>8, <1>9, <1>10, <1>11, <1>12, <1>13, <1>14, <1>15
        DEF Next

\* Reading back (writer.cpp 81-108): once generateELF is done, the ELF header, each section
\* header and everything a section was given are where the headers say, whatever sections
\* there are, and however the client's appendData calls fall before and after it.
THEOREM WhatIsWrittenReadsBack == Spec => []ReadsBack
<1>1. Init => FileInv
  BY DEF Init, FileInv, Laid
<1>2. IInv /\ FileInv => ReadsBack
  <2> SUFFICES ASSUME IInv, FileInv, pc = "done" PROVE ReadsBack
    BY DEF ReadsBack
  <2>1. Laid /\ Len(headers) = Count /\ Count \in Nat
    BY DEF Laid, IInv, LayoutIInv, ProgressInv, TypeOK, Count
  <2>2. \A i \in 0..Count - 1 :
           headers[i + 1].off = Sec(i).off /\ headers[i + 1].size = Sec(i).size
    BY <2>1 DEF IInv, LayoutIInv, HeaderInv, Sec
  <2>3. \A i \in 0..Count - 1 : Copied(i)
    BY DEF Copied
  <2> QED BY <2>1, <2>2, <2>3 DEF FileInv, HeadersWritten, ReadsBack
<1> QED BY <1>1, <1>2, NextFileInv, WriterInvariant, PTL DEF Spec

-----------------------------------------------------------------------------
(* What is written of symbols and relocations *)

\* A symbol has the binding it was given.
LEMMA NewBinding ==
    ASSUME NEW n, NEW b \in Bindings, NEW t \in Nat, NEW r
    PROVE  getBinding(NewSymbol(n, b, t, r)) = b
<1>1. setBinding(0, b) = b * 16
  BY DEF setBinding, elf64STInfo, elf64STType, Bindings
<1>2. PICK u \in 0..15 : u = t % 16
  OBVIOUS
<1>3. elf64STBind(b * 16 + 0) = b /\ elf64STBind(b * 16 + u) = b /\ b * 16 + 0 = b * 16
  BY DEF elf64STBind, Bindings
<1>4. setSymbolType(b * 16, t) = b * 16 + u
  BY <1>2, <1>3 DEF setSymbolType, elf64STInfo
<1> QED BY <1>1, <1>3, <1>4 DEF getBinding, NewSymbol

\* r_info holds a symbol and a type.
LEMMA RInfoFacts ==
    ASSUME NEW n \in Nat, NEW t \in 0..63
    PROVE  /\ elf64RSym(elf64RInfo(n, t)) = n /\ elf64RType(elf64RInfo(n, t)) = t
           /\ setType(setSpecialSymbol(0, n), t) = elf64RInfo(n, t)
           /\ setSpecialSymbol(setType(0, t), n) = elf64RInfo(n, t)
<1>1. ASSUME NEW m \in Nat, NEW u \in 0..63
      PROVE  elf64RSym(elf64RInfo(m, u)) = m /\ elf64RType(elf64RInfo(m, u)) = u
  BY DEF elf64RSym, elf64RInfo, elf64RType, RTypes
<1>2. elf64RSym(0) = 0 /\ elf64RType(0) = 0
  BY DEF elf64RSym, elf64RType, RTypes
<1>3. elf64RSym(elf64RInfo(n, 0)) = n /\ elf64RType(elf64RInfo(0, t)) = t
  BY <1>1
<1> QED BY <1>1, <1>2, <1>3 DEF setType, setSpecialSymbol

\* Entries in the order of their bindings.
Sorted(q) == \A m, n \in 1..Len(q) : m <= n => getBinding(q[m]) <= getBinding(q[n])

\* What a client's entry holds is a number.
LEMMA BindingType ==
    ASSUME NEW e \in Item
    PROVE  getBinding(e) \in Nat
<1>1. e.info \in Nat
  BY DEF Item, Symbol, Relocation
<1> QED BY <1>1 DEF getBinding, elf64STBind

\* Sorting what is sorted changes nothing.
LEMMA SortedStays ==
    ASSUME NEW q \in Seq(Item), Sorted(q)
    PROVE  SortedByBinding(q) = q
<1>1. Len(q) \in Nat /\ \A k \in 1..Len(q) : getBinding(q[k]) \in Nat
  <2>1. \A k \in 1..Len(q) : q[k] \in Item
    OBVIOUS
  <2> QED BY <2>1, BindingType
<1>2. ASSUME NEW k \in 1..Len(q) PROVE Rank(q, k) = k
  <2> DEFINE Ahead(m) == \/ getBinding(q[m]) < getBinding(q[k])
                         \/ getBinding(q[m]) = getBinding(q[k]) /\ m <= k
  <2>1. ASSUME NEW m \in 1..Len(q) PROVE Ahead(m) <=> m <= k
    <3>1. /\ m <= k => getBinding(q[m]) <= getBinding(q[k])
          /\ k <= m => getBinding(q[k]) <= getBinding(q[m])
      BY DEF Sorted
    <3>2. getBinding(q[m]) \in Nat /\ getBinding(q[k]) \in Nat
      BY <1>1
    <3> QED BY <3>1, <3>2
  <2>2. Rank(q, k) = Cardinality({m \in 1..Len(q) : Ahead(m)})
    BY DEF Rank
  <2> HIDE DEF Ahead
  <2>3. {m \in 1..Len(q) : Ahead(m)} = 1..k
    <3>1. \A m : m \in 1..k <=> m \in 1..Len(q) /\ m <= k
      BY <1>1
    <3> QED BY <2>1, <3>1
  <2>4. Cardinality(1..k) = k
    <3>1. 1 \in Int /\ k \in Int /\ 1 <= k /\ k - 1 + 1 = k
      BY <1>1
    <3> QED BY <3>1, FS_Interval
  <2> QED BY <2>2, <2>3, <2>4
<1> DEFINE At(k) == CHOOSE m \in 1..Len(q) : Rank(q, m) = k
<1>3. ASSUME NEW k \in 1..Len(q) PROVE At(k) = k
  <2>1. \A m \in 1..Len(q) : Rank(q, m) = k <=> m = k
    BY <1>2
  <2> QED BY <2>1
<1>4. SortedByBinding(q) = [k \in 1..Len(q) |-> q[At(k)]]
  BY DEF SortedByBinding
<1> HIDE DEF At
<1>5. SortedByBinding(q) = [k \in 1..Len(q) |-> q[k]]
  BY <1>3, <1>4
<1> QED BY <1>5

\* What a relocation of section s asks for: a symbol of the section's table, or none and
\* a runtime symbol.
Asks(q, s, e) ==
    /\ e.info \in Nat /\ e.symbol \in Nat /\ e.type \in 0..63
    /\ elf64RType(e.info) = e.type
    /\ s.symTab = 0 => e.symbol = 0 /\ elf64RSym(e.info) = e.special
    /\ s.symTab # 0 => e.symbol \in 1..Len(q[s.symTab + 1].items) - 1

\* A section among sections q: symbols come sorted, and a relocation section that has
\* relocations knows what it patches and where its symbols are.
LinkedIn(q, s) ==
    /\ s.kind = "symbol" => Sorted(s.items)
    /\ s.kind = "relocation" =>
           /\ s.patch = 0 => s.items = << >> /\ s.symTab = 0
           /\ s.patch # 0 /\ s.symTab = 0 => s.link = VPU_RT_SYMTAB
           /\ s.symTab # 0 => q[s.symTab + 1].kind = "symbol"
           /\ \A k \in 1..Len(s.items) : Asks(q, s, s.items[k])

\* The sections as the client linked them.
LinksInv ==
    /\ Count <= MaxSections
    /\ sections[1].kind = "null" /\ sections[1].items = << >>
    /\ \A k \in 1..Count : LinkedIn(sections, sections[k])

\* Sections that have not become others, and at most have more entries.
Carries(q, r) ==
    /\ q \in Seq(Section) /\ r \in Seq(Section) /\ Len(r) >= Len(q)
    /\ \A k \in 1..Len(q) : /\ r[k].kind = q[k].kind
                            /\ Len(r[k].items) >= Len(q[k].items)

\* A section with the links of another.
SameLinks(s, t) ==
    /\ t.kind = s.kind /\ t.items = s.items /\ t.symTab = s.symTab /\ t.patch = s.patch
    /\ s.kind = "relocation" /\ s.symTab = 0 => t.link = s.link

\* Links of a section stay good when there are more sections and more symbols.
LEMMA CarriedLinks ==
    ASSUME NEW q, NEW r, Carries(q, r), NEW s \in Section, NEW t,
           s.symTab < Len(q), LinkedIn(q, s), SameLinks(s, t)
    PROVE  LinkedIn(r, t)
<1>1. /\ s.symTab \in Nat /\ s.items \in Seq(Item) /\ s.symTab + 1 \in 1..Len(q)
      /\ Len(q) \in Nat /\ Len(r) \in Nat
  <2>1. s.symTab \in Nat /\ s.items \in Seq(Item)
    BY DEF Section
  <2> QED BY <2>1 DEF Carries
<1>2. /\ r[s.symTab + 1].kind = q[s.symTab + 1].kind
      /\ Len(r[s.symTab + 1].items) >= Len(q[s.symTab + 1].items)
      /\ Len(r[s.symTab + 1].items) \in Nat /\ Len(q[s.symTab + 1].items) \in Nat
  <2>1. r[s.symTab + 1] \in Section /\ q[s.symTab + 1] \in Section
    <3>1. s.symTab + 1 \in 1..Len(r)
      BY <1>1 DEF Carries
    <3> QED BY <1>1, <3>1 DEF Carries
  <2>2. Len(r[s.symTab + 1].items) \in Nat /\ Len(q[s.symTab + 1].items) \in Nat
    <3>1. ASSUME NEW u \in Section PROVE Len(u.items) \in Nat
      BY DEF Section
    <3> QED BY <2>1, <3>1
  <2> QED BY <1>1, <2>2 DEF Carries
<1>3. ASSUME NEW e, Asks(q, s, e) PROVE Asks(r, t, e)
  <2>1. t.symTab = s.symTab
    BY DEF SameLinks
  <2>2. e.symbol \in 1..Len(q[s.symTab + 1].items) - 1
            => e.symbol \in 1..Len(r[s.symTab + 1].items) - 1
    <3>1. PICK m, n : m = Len(q[s.symTab + 1].items) /\ n = Len(r[s.symTab + 1].items)
      OBVIOUS
    <3>2. m \in Nat /\ n \in Nat /\ n >= m
      BY <1>2, <3>1
    <3>3. e.symbol \in 1..m - 1 => e.symbol \in 1..n - 1
      BY <3>2
    <3> QED BY <3>1, <3>3, Zenon
  <2> QED BY <1>3, <2>1, <2>2 DEF Asks
<1> QED BY <1>2, <1>3 DEF LinkedIn, SameLinks

\* A step keeps the links if it keeps those of each section or makes good ones.
LEMMA LinksStep ==
    ASSUME IInv, LinksInv, Carries(sections, sections'), Count' <= MaxSections,
           sections'[1].items = << >>,
           \A k \in 1..Count : \/ SameLinks(sections[k], sections'[k])
                               \/ LinkedIn(sections', sections'[k]),
           \A k \in Count + 1..Count' : LinkedIn(sections', sections'[k])
    PROVE  LinksInv'
<1>1. /\ Count \in Nat /\ Count' \in Nat /\ Count >= 3 /\ Count' >= Count
      /\ Count = Len(sections) /\ sections \in Seq(Section)
      /\ \A k \in 1..Count : sections[k] \in Section /\ sections[k].symTab < Count
  BY DEF Carries, Count, IInv, LayoutIInv, ProgressInv, TypeOK
<1>2. ASSUME NEW k \in 1..Count PROVE LinkedIn(sections', sections'[k])
  <2>1. LinkedIn(sections, sections[k])
    BY DEF LinksInv
  <2>2. sections[k] \in Section /\ sections[k].symTab < Len(sections)
    BY <1>1
  <2>3. CASE SameLinks(sections[k], sections'[k])
    BY <2>1, <2>2, <2>3, CarriedLinks
  <2> QED BY <2>3
<1>3. ASSUME NEW k \in 1..Count' PROVE LinkedIn(sections', sections'[k])
  <2>1. k \in 1..Count \/ k \in Count + 1..Count'
    BY <1>1
  <2> QED BY <1>2, <2>1
<1>4. sections'[1].kind = "null"
  <2>1. 1 \in 1..Len(sections)
    BY <1>1
  <2> QED BY <2>1 DEF Carries, LinksInv
<1> QED BY <1>3, <1>4 DEF LinksInv

\* A new section has nothing to link yet.
LEMMA AddLinks ==
    ASSUME IInv, LinksInv, NEW s \in Section, Adding, sections' = Append(sections, s),
           LinkedIn(sections', s)
    PROVE  LinksInv'
<1>1. sections \in Seq(Section) /\ Count \in Nat /\ Count >= 3 /\ Count = Len(sections)
  BY DEF IInv, LayoutIInv, ProgressInv, TypeOK, Count
<1>2. /\ sections' \in Seq(Section) /\ Len(sections') = Count + 1 /\ Count' = Count + 1
      /\ \A k \in 1..Count : sections'[k] = sections[k]
      /\ sections'[Count + 1] = s
  BY <1>1 DEF Count
<1>3. \A k \in 1..Count : Len(sections[k].items) \in Nat
  <2>1. \A u \in Section : Len(u.items) \in Nat
    BY DEF Section
  <2> QED BY <1>1, <2>1
<1>4. Carries(sections, sections')
  BY <1>1, <1>2, <1>3 DEF Carries
<1>5. \A k \in 1..Count : SameLinks(sections[k], sections'[k])
  BY <1>2 DEF SameLinks
<1>6. \A k \in Count + 1..Count' : LinkedIn(sections', sections'[k])
  BY <1>1, <1>2
<1>7. Count' <= MaxSections
  BY <1>1, <1>2, WriterBoundsAssumption DEF Adding
<1>8. sections'[1].items = << >>
  <2>1. 1 \in 1..Count
    BY <1>1
  <2> QED BY <1>2, <2>1 DEF LinksInv
<1> QED BY <1>4, <1>5, <1>6, <1>7, <1>8, LinksStep

\* A section is replaced by one with good links and at least its entries.
LEMMA ChangeLinks ==
    ASSUME IInv, LinksInv, NEW k \in 1..Count, NEW t \in Section, k # 1,
           sections' = [sections EXCEPT ![k] = t],
           t.kind = sections[k].kind, Len(t.items) >= Len(sections[k].items),
           LinkedIn(sections', t)
    PROVE  LinksInv'
<1>1. sections \in Seq(Section) /\ Count \in Nat /\ Count >= 3 /\ Count = Len(sections)
  BY DEF IInv, LayoutIInv, ProgressInv, TypeOK, Count
<1>2. /\ sections' \in Seq(Section) /\ Len(sections') = Len(sections)
      /\ \A j \in 1..Len(sections) : sections'[j] = IF j = k THEN t ELSE sections[j]
  BY <1>1, ExceptSeq
<1>3. \A j \in 1..Count : Len(sections[j].items) \in Nat
  <2>1. \A u \in Section : Len(u.items) \in Nat
    BY DEF Section
  <2> QED BY <1>1, <2>1
<1>4. Carries(sections, sections') /\ Count' = Count
  BY <1>1, <1>2, <1>3 DEF Carries, Count
<1>5. \A j \in 1..Count : \/ SameLinks(sections[j], sections'[j])
                          \/ LinkedIn(sections', sections'[j])
  BY <1>1, <1>2 DEF SameLinks
<1>6. sections'[1].items = << >>
  <2>1. 1 \in 1..Len(sections)
    BY <1>1
  <2> QED BY <1>2, <2>1 DEF LinksInv
<1>7. Count' <= MaxSections /\ \A j \in Count + 1..Count' : FALSE
  BY <1>1, <1>4 DEF LinksInv
<1> QED BY <1>4, <1>5, <1>6, <1>7, LinksStep

\* A new section of any kind.
LEMMA NewSectionLinks ==
    /\ AddSymbolSection /\ IInv /\ LinksInv => LinksInv'
    /\ AddRelocationSection /\ IInv /\ LinksInv => LinksInv'
    /\ \A kind \in {"binary", "empty"}, n \in Sizes, a \in Aligns :
           AddDataSection(kind, n, a) /\ IInv /\ LinksInv => LinksInv'
<1>1. ASSUME AddSymbolSection, IInv, LinksInv PROVE LinksInv'
  <2> DEFINE e == NewSymbol(0, 0, 0, 0)
             s == [NewSection("symbol", 4) EXCEPT !.items = <<e>>]
  <2>1. e \in Item
    <3>1. 0 \in Nat /\ 0 \in Bindings
      BY DEF Bindings
    <3> QED BY <3>1, NewSymbolType
  <2> HIDE DEF e
  <2>2. getBinding(e) \in Nat
    BY <2>1, BindingType
  <2> DEFINE q == <<e>>
  <2>3. q \in Seq(Item) /\ Len(q) = 1 /\ q[1] = e
    BY <2>1
  <2>4. s = [kind |-> "symbol", align |-> 4, size |-> 0, data |-> 0, off |-> 0, cur |-> 0,
             link |-> 0, info |-> 0, items |-> q, symTab |-> 0, patch |-> 0]
    BY DEF NewSection
  <2>5. Adding /\ sections' = Append(sections, s)
    BY <1>1 DEF AddSymbolSection, e
  <2> HIDE DEF s, q
  <2>6. s \in Section /\ s.kind = "symbol" /\ s.items = q
    BY <2>3, <2>4 DEF Section, Kinds
  <2>7. Sorted(q)
    BY <2>2, <2>3 DEF Sorted
  <2>8. LinkedIn(sections', s)
    BY <2>6, <2>7 DEF LinkedIn
  <2> QED BY <1>1, <2>5, <2>6, <2>8, AddLinks
<1>2. ASSUME AddRelocationSection, IInv, LinksInv PROVE LinksInv'
  <2> DEFINE s == NewSection("relocation", 4)
  <2>1. s = [kind |-> "relocation", align |-> 4, size |-> 0, data |-> 0, off |-> 0, cur |-> 0,
             link |-> 0, info |-> 0, items |-> << >>, symTab |-> 0, patch |-> 0]
    BY DEF NewSection
  <2>2. Adding /\ sections' = Append(sections, s)
    BY <1>2 DEF AddRelocationSection
  <2> HIDE DEF s
  <2>3. s \in Section
    BY <2>1 DEF Section, Kinds
  <2>4. LinkedIn(sections', s)
    BY <2>1 DEF LinkedIn
  <2> QED BY <1>2, <2>2, <2>3, <2>4, AddLinks
<1>3. ASSUME NEW kind \in {"binary", "empty"}, NEW n \in Sizes, NEW a \in Aligns,
             AddDataSection(kind, n, a), IInv, LinksInv
      PROVE  LinksInv'
  <2> DEFINE s == [NewSection(kind, a) EXCEPT !.size = n]
  <2>1. s = [kind |-> kind, align |-> a, size |-> n, data |-> 0, off |-> 0, cur |-> 0,
             link |-> 0, info |-> 0, items |-> << >>, symTab |-> 0, patch |-> 0]
    BY DEF NewSection
  <2>2. Adding /\ sections' = Append(sections, s)
    BY <1>3 DEF AddDataSection
  <2> HIDE DEF s
  <2>3. s \in Section
    BY <2>1, ClientSizesAssumption DEF Section, Kinds
  <2>4. LinkedIn(sections', s)
    BY <2>1 DEF LinkedIn
  <2> QED BY <1>3, <2>2, <2>3, <2>4, AddLinks
<1> QED BY <1>1, <1>2, <1>3

\* A relocation section is given what it patches, and a symbol table or the runtime's.
LEMMA PatchLinks ==
    ASSUME IInv, LinksInv, NEW i \in 0..Count - 1, NEW p \in 0..Count - 1,
           \/ \E t \in 0..Count - 1 : SetSymbolTable(i, p, t)
           \/ SetSpecialSymbolTable(i, p)
    PROVE  LinksInv'
<1>1. /\ sections \in Seq(Section) /\ Count \in Nat /\ Count >= 3 /\ Count = Len(sections)
      /\ i + 1 \in 1..Count /\ Sec(i) \in Section /\ Sec(i) = sections[i + 1]
  BY DEF IInv, LayoutIInv, ProgressInv, TypeOK, Count, Sec
<1>2. Sec(i).kind = "relocation" /\ Sec(i).patch = 0 /\ Sec(p).kind = "binary"
  BY DEF SetSymbolTable, SetSpecialSymbolTable, Links
<1>3. i # 0 /\ i + 1 # 1
  BY <1>1, <1>2 DEF LinksInv, Sec
<1>4. p # 0 /\ p \in Nat
  BY <1>2 DEF LinksInv, Sec
<1>5. Sec(i).items = << >> /\ Sec(i).symTab = 0
  BY <1>1, <1>2 DEF LinksInv, LinkedIn
<1>6. ASSUME NEW t \in 0..Count - 1, SetSymbolTable(i, p, t) PROVE LinksInv'
  <2> DEFINE s == [Sec(i) EXCEPT !.patch = p, !.symTab = t]
  <2>1. sections' = [sections EXCEPT ![i + 1] = s] /\ Sec(t).kind = "symbol"
    BY <1>6 DEF SetSymbolTable, Links
  <2>2. /\ s \in Section /\ s.kind = "relocation" /\ s.patch = p /\ s.symTab = t
        /\ s.items = << >>
    <3>1. t \in Nat
      BY <1>1
    <3>2. PICK u \in Section : u = Sec(i)
      BY <1>1
    <3>3. s = [u EXCEPT !.patch = p, !.symTab = t]
      BY <3>2
    <3> HIDE DEF s
    <3> QED BY <1>2, <1>4, <1>5, <3>1, <3>2, <3>3 DEF Section
  <2> HIDE DEF s
  <2>3. /\ t + 1 \in 1..Count /\ t # i /\ t # 0 /\ sections'[t + 1] = sections[t + 1]
    BY <1>1, <1>2, <2>1 DEF LinksInv, Sec
  <2>4. sections'[t + 1].kind = "symbol"
    BY <2>1, <2>3 DEF Sec
  <2>5. LinkedIn(sections', s)
    BY <1>4, <2>2, <2>3, <2>4 DEF LinkedIn
  <2>6. Len(s.items) >= Len(sections[i + 1].items)
    BY <1>1, <1>5, <2>2
  <2> QED BY <1>1, <1>2, <1>3, <2>1, <2>2, <2>5, <2>6, ChangeLinks
<1>7. ASSUME SetSpecialSymbolTable(i, p) PROVE LinksInv'
  <2> DEFINE s == [Sec(i) EXCEPT !.patch = p, !.link = VPU_RT_SYMTAB]
  <2>1. sections' = [sections EXCEPT ![i + 1] = s]
    BY <1>7 DEF SetSpecialSymbolTable, Links
  <2>2. VPU_RT_SYMTAB \in Nat
    BY WriterBoundsAssumption DEF VPU_RT_SYMTAB
  <2>3. /\ s \in Section /\ s.kind = "relocation" /\ s.patch = p /\ s.symTab = 0
        /\ s.items = << >> /\ s.link = VPU_RT_SYMTAB
    BY <1>1, <1>2, <1>4, <1>5, <2>2 DEF Section
  <2> HIDE DEF s
  <2>4. LinkedIn(sections', s)
    BY <1>4, <2>3 DEF LinkedIn
  <2>5. Len(s.items) >= Len(sections[i + 1].items)
    BY <1>1, <1>5, <2>3
  <2> QED BY <1>1, <1>2, <1>3, <2>1, <2>3, <2>4, <2>5, ChangeLinks
<1> QED BY <1>6, <1>7

\* Adding one element to a sequence.
LEMMA AppendSeq ==
    ASSUME NEW S, NEW q \in Seq(S), NEW e \in S
    PROVE  LET w == Append(q, e) IN
           /\ w \in Seq(S) /\ Len(w) = Len(q) + 1 /\ w[Len(q) + 1] = e
           /\ \A k \in 1..Len(q) : w[k] = q[k]
OBVIOUS

\* Whether a client adds symbols locals first, as the ELF format has them, is up to it.
LocalsFirst == ~MixedBindings

\* addSymbolEntry: a table whose symbols came in the order of their bindings stays sorted.
LEMMA SymbolLinks ==
    ASSUME LocalsFirst, IInv, LinksInv, NEW i \in 0..Count - 1, NEW r \in 0..Count - 1,
           NEW b \in Bindings, NEW t \in SymbolTypes, AddSymbolEntry(i, b, t, r)
    PROVE  LinksInv'
<1>1. /\ sections \in Seq(Section) /\ Count \in Nat /\ Count >= 3 /\ Count = Len(sections)
      /\ i + 1 \in 1..Count /\ Sec(i) \in Section /\ Sec(i) = sections[i + 1]
  BY DEF IInv, LayoutIInv, ProgressInv, TypeOK, Count, Sec
<1>2. PICK u \in Section : u = Sec(i)
  BY <1>1
<1>3. PICK q \in Seq(Item) : q = u.items
  BY DEF Section
<1>4. PICK m \in Nat : m = Len(q) /\ m > 0
  <2>1. u.kind = "symbol"
    BY <1>2 DEF AddSymbolEntry
  <2>2. Len(u.items) > 0
    BY <1>1, <1>2, <2>1 DEF IInv, LayoutIInv, DataInv
  <2> QED BY <1>3, <2>2
<1>5. PICK e \in Item : e = NewSymbol(m, b, t, r) /\ getBinding(e) = b
  <2>1. t \in Nat /\ r \in Nat
    BY <1>1, ClientTypesAssumption
  <2> QED BY <2>1, NewSymbolType, NewBinding
<1> DEFINE w == Append(q, e)
<1>6. /\ w \in Seq(Item) /\ Len(w) = m + 1 /\ w[m + 1] = e
      /\ \A k \in 1..m : w[k] = q[k]
  <2>1. /\ w \in Seq(Item) /\ Len(w) = Len(q) + 1 /\ w[Len(q) + 1] = e
        /\ \A k \in 1..Len(q) : w[k] = q[k]
    BY AppendSeq
  <2> QED BY <1>4, <2>1
<1>7. /\ u.kind = "symbol" /\ b >= getBinding(q[m])
      /\ sections' = [sections EXCEPT ![i + 1] = [u EXCEPT !.items = w]]
  <2>1. sections' = [sections EXCEPT ![i + 1].items = w]
    BY <1>2, <1>3, <1>4, <1>5 DEF AddSymbolEntry
  <2> QED BY <1>1, <1>2, <1>3, <1>4, <2>1 DEF AddSymbolEntry, LocalsFirst
<1> DEFINE s == [u EXCEPT !.items = w]
<1> HIDE DEF w
<1>8. s \in Section /\ s.kind = "symbol" /\ s.items = w
  BY <1>6, <1>7 DEF Section
<1>9. sections' = [sections EXCEPT ![i + 1] = s]
  BY <1>7
<1> HIDE DEF s
<1>10. Sorted(w)
  <2>1. Sorted(q)
    BY <1>1, <1>2, <1>3, <1>7 DEF LinksInv, LinkedIn
  <2>2. \A k \in 1..m : q[k] \in Item /\ getBinding(q[k]) \in Nat
    BY <1>4, BindingType
  <2>3. ASSUME NEW k \in 1..m PROVE getBinding(q[k]) <= b
    <3>1. getBinding(q[k]) <= getBinding(q[m])
      BY <1>4, <2>1 DEF Sorted
    <3>2. b \in Nat /\ getBinding(q[k]) \in Nat /\ getBinding(q[m]) \in Nat
      BY <1>4, <2>2 DEF Bindings
    <3> QED BY <1>7, <3>1, <3>2
  <2>4. ASSUME NEW k \in 1..m + 1, NEW l \in 1..m + 1, k <= l
        PROVE  getBinding(w[k]) <= getBinding(w[l])
    <3>1. CASE l \in 1..m
      <4>1. k \in 1..m
        BY <2>4, <3>1
      <4> QED BY <1>4, <1>6, <2>1, <2>4, <3>1, <4>1 DEF Sorted
    <3>2. CASE l = m + 1 /\ k \in 1..m
      BY <1>5, <1>6, <2>3, <3>2
    <3>3. CASE l = m + 1 /\ k = m + 1
      BY <1>5, <1>6, <3>3 DEF Bindings
    <3> QED BY <2>4, <3>1, <3>2, <3>3
  <2> QED BY <1>6, <2>4 DEF Sorted
<1>11. LinkedIn(sections', s)
  BY <1>8, <1>10 DEF LinkedIn
<1>12. Len(s.items) >= Len(sections[i + 1].items)
  BY <1>1, <1>2, <1>3, <1>4, <1>6, <1>8
<1>13. i + 1 # 1
  BY <1>1, <1>2, <1>7 DEF LinksInv
<1> QED BY <1>1, <1>2, <1>7, <1>8, <1>9, <1>11, <1>12, <1>13, ChangeLinks

\* addRelocationEntry: whatever the order of the setters, r_info has the type and, for a
\* runtime symbol, the symbol.
LEMMA RelocationLinks ==
    ASSUME IInv, LinksInv, NEW i \in 0..Count - 1, NEW k \in 0..MaxEntries,
           NEW n \in Specials, NEW t \in RelocTypes, AddRelocationEntry(i, k, n, t)
    PROVE  LinksInv'
<1>1. /\ sections \in Seq(Section) /\ Count \in Nat /\ Count >= 3 /\ Count = Len(sections)
      /\ i + 1 \in 1..Count /\ Sec(i) \in Section /\ Sec(i) = sections[i + 1]
  BY DEF IInv, LayoutIInv, ProgressInv, TypeOK, Count, Sec
<1>2. PICK u \in Section : u = Sec(i)
  BY <1>1
<1>3. PICK q \in Seq(Item), m \in Nat : q = u.items /\ m = Len(q)
  BY DEF Section
<1>4. k \in Nat /\ n \in Nat /\ t \in 0..63 /\ t \in Nat
  <2>1. k \in Nat /\ n \in Nat /\ t \in 0..63
    BY ClientTypesAssumption, WriterBoundsAssumption
  <2> QED BY <2>1
<1>5. PICK x \in {setType(setSpecialSymbol(0, n), t), setSpecialSymbol(setType(0, t), n)} :
         sections' = [sections EXCEPT ![i + 1].items =
             Append(Sec(i).items, [info |-> x, symbol |-> k, type |-> t, special |-> n])]
  BY DEF AddRelocationEntry
<1>6. x \in Nat /\ elf64RSym(x) = n /\ elf64RType(x) = t
  <2>1. x = elf64RInfo(n, t)
    BY <1>4, <1>5, RInfoFacts
  <2>2. elf64RSym(elf64RInfo(n, t)) = n /\ elf64RType(elf64RInfo(n, t)) = t
    BY <1>4, RInfoFacts
  <2>3. x \in Nat
    BY <1>4, <1>5, RInfoType
  <2> QED BY <2>1, <2>2, <2>3
<1>7. PICK e \in Item : e = [info |-> x, symbol |-> k, type |-> t, special |-> n]
  BY <1>4, <1>6 DEF Item, Relocation
<1> DEFINE w == Append(q, e)
<1>8. /\ w \in Seq(Item) /\ Len(w) = m + 1 /\ w[m + 1] = e
      /\ \A l \in 1..m : w[l] = q[l]
  <2>1. /\ w \in Seq(Item) /\ Len(w) = Len(q) + 1 /\ w[Len(q) + 1] = e
        /\ \A l \in 1..Len(q) : w[l] = q[l]
    BY AppendSeq
  <2> QED BY <1>3, <2>1
<1> DEFINE s == [u EXCEPT !.items = w]
<1>9. sections' = [sections EXCEPT ![i + 1] = s]
  <2>1. sections' = [sections EXCEPT ![i + 1].items = w]
    BY <1>2, <1>3, <1>5, <1>7
  <2> QED BY <1>1, <1>2, <2>1
<1>10. /\ u.kind = "relocation" /\ u.patch # 0
       /\ (u.symTab = 0 /\ k = 0) \/ k \in 1..Len(Sec(u.symTab).items) - 1
  BY <1>2 DEF AddRelocationEntry
<1> HIDE DEF w
<1>11. /\ s \in Section /\ s.kind = "relocation" /\ s.items = w /\ s.symTab = u.symTab
       /\ s.patch = u.patch /\ s.link = u.link
  BY <1>8, <1>10 DEF Section
<1> HIDE DEF s
<1>12. LinkedIn(sections, u) /\ i + 1 # 1
  BY <1>1, <1>2, <1>10 DEF LinksInv
<1>13. Len(s.items) >= Len(sections[i + 1].items)
  BY <1>1, <1>2, <1>3, <1>8, <1>11
\* The section's table is another section, which stays as it is.
<1>14. /\ sections'[u.symTab + 1] = IF u.symTab = i THEN s ELSE sections[u.symTab + 1]
       /\ Sec(u.symTab) = sections[u.symTab + 1] /\ (u.symTab # 0 => u.symTab # i)
  <2>1. u.symTab \in Nat /\ u.symTab < Count
    BY <1>1, <1>2 DEF Section, IInv, TypeOK
  <2>2. u.symTab + 1 \in 1..Len(sections) /\ (u.symTab + 1 = i + 1 <=> u.symTab = i)
    BY <1>1, <2>1
  <2>3. u.symTab # 0 => u.symTab # i
    BY <1>1, <1>2, <1>10, <1>12 DEF LinkedIn
  <2> QED BY <1>1, <1>9, <1>11, <2>2, <2>3, ExceptSeq DEF Sec
<1>15. u.symTab = 0 => k = 0
  BY <1>10, <1>14 DEF LinksInv
<1>16. Asks(sections', s, e)
  BY <1>4, <1>6, <1>7, <1>10, <1>11, <1>14, <1>15 DEF Asks
<1>17. ASSUME NEW l \in 1..m PROVE Asks(sections', s, w[l])
  <2>1. Asks(sections, u, q[l])
    BY <1>3, <1>10, <1>12 DEF LinkedIn
  <2> QED BY <1>8, <1>11, <1>14, <2>1 DEF Asks
<1>18. LinkedIn(sections', s)
  <2>1. \A l \in 1..Len(s.items) : Asks(sections', s, s.items[l])
    <3>1. \A l \in 1..m + 1 : l \in 1..m \/ l = m + 1
      OBVIOUS
    <3> QED BY <1>8, <1>11, <1>16, <1>17, <3>1
  <2> QED BY <1>10, <1>11, <1>12, <1>14, <2>1 DEF LinkedIn
<1> QED BY <1>1, <1>2, <1>9, <1>10, <1>11, <1>12, <1>13, <1>18, ChangeLinks

\* The entries and headers of a section that prepareWriter's first loop has passed.
Finished(i) ==
    \/ pc \notin {"build", "finalize"}
    \/ pc = "finalize" /\ i < pos
EntriesInv ==
    /\ \A i \in 0..MaxSections : i \in DOMAIN written
    /\ \A i \in 0..Count - 1 :
           /\ Finished(i) /\ Sec(i).kind \in {"symbol", "relocation"} =>
                  written[i] = Entries(Sec(i))
           /\ Finished(i) /\ Sec(i).kind = "relocation" =>
                  /\ Sec(i).info = Sec(i).patch
                  /\ Sec(i).symTab # 0 => Sec(i).link = Sec(i).symTab

\* finalize links a relocation section to its table and to what it patches.
LEMMA FinalizedLinks ==
    ASSUME NEW s \in Section, s.kind = "relocation"
    PROVE  /\ Finalized(s).info = s.patch
           /\ Finalized(s).link = IF s.symTab # 0 THEN s.symTab ELSE s.link
<1> DEFINE n == RelocationSize * Len(s.items)
           g == Grown(s, n)
<1>1. n \in Nat
  <2>1. Len(s.items) \in Nat
    BY DEF Section
  <2> QED BY <2>1, EntrySizesAssumption
<1>2. Finalized(s) = [g EXCEPT !.info = s.patch, !.link = IF s.symTab # 0 THEN s.symTab ELSE @]
  BY DEF Finalized
<1> HIDE DEF n
<1>3. g \in Section /\ g.link = s.link
  BY <1>1, GrownType
<1> HIDE DEF g
<1> QED BY <1>2, <1>3 DEF Section

\* What is written of a section depends on its kind and its entries.
LEMMA SameEntries ==
    ASSUME NEW s, NEW t, t.kind = s.kind, t.items = s.items
    PROVE  Entries(t) = Entries(s)
BY Zenon DEF Entries

\* One iteration of the first loop finalizes its section, and strings go to the string
\* tables only.
LEMMA FinalizeSame ==
    ASSUME IInv, LinksInv, FinalizeSection
    PROVE  /\ sections' \in Seq(Section) /\ Len(sections') = Len(sections)
           /\ pos + 1 \in 1..Count
           /\ \A k \in 1..Count :
                  /\ SameLinks(sections[k], sections'[k])
                  /\ sections[k].kind # "string" =>
                         sections'[k] = IF k = pos + 1 THEN Finalized(sections[k])
                                        ELSE sections[k]
<1> DEFINE s == Sec(pos)
           q1 == [sections EXCEPT ![pos + 1] = Finalized(s)]
           x == SymbolNames(s)
           q2 == [q1 EXCEPT ![3] = WithStrings(q1[3], x)]
           y == IF s.kind = "null" THEN 0 ELSE NameSize
           q3 == [q2 EXCEPT ![2] = WithStrings(q2[2], y)]
<1>1. pc = "finalize" /\ pos < Count /\ pos \in Nat
  BY DEF FinalizeSection, IInv, TypeOK
<1>2. sections' = q3
  BY DEF FinalizeSection, StrTab, SymStrTab
<1>3. /\ Count \in Nat /\ Count >= 3 /\ Count = Len(sections) /\ sections \in Seq(Section)
      /\ sections[2].kind = "string" /\ sections[3].kind = "string"
      /\ pos + 1 \in 1..Count /\ s = sections[pos + 1] /\ Unplaced(s, Count)
      /\ 2 \in 1..Count /\ 3 \in 1..Count
  <2>1. Preparing
    BY <1>1 DEF Preparing
  <2> QED BY <1>1, <2>1, PreparingSections DEF Count, Sec
<1>4. s \in Section /\ Finishes(s, Finalized(s)) /\ x \in Nat /\ y \in Nat
  <2>1. s \in Section /\ (s.kind = "symbol" => Len(s.items) > 0)
    BY <1>3 DEF Unplaced
  <2>2. Finishes(s, Finalized(s)) /\ x \in Nat
    BY <2>1, FinalizedFinishes, SymbolNamesType
  <2>3. y \in Nat
    BY EntrySizesAssumption
  <2> QED BY <2>1, <2>2, <2>3
<1>5. s.kind = "relocation" /\ s.symTab = 0 => Finalized(s).link = s.link
  BY <1>4, FinalizedLinks
<1> HIDE DEF s, x, y
<1>6. /\ q1 \in Seq(Section) /\ Len(q1) = Count
      /\ \A k \in 1..Count : q1[k] = IF k = pos + 1 THEN Finalized(s) ELSE sections[k]
  <2>1. Finalized(s) \in Section
    BY <1>4 DEF Finishes
  <2> QED BY <1>3, <2>1, ExceptSeq
<1> HIDE DEF q1
<1>7. Finishes(q1[3], WithStrings(q1[3], x))
  <2>1. q1[3] \in Section /\ q1[3].kind = "string"
    BY <1>3, <1>4, <1>6 DEF Finishes
  <2> QED BY <1>4, <2>1, WithStringsFinishes
<1>8. /\ q2 \in Seq(Section) /\ Len(q2) = Count
      /\ \A k \in 1..Count : q2[k] = IF k = 3 THEN WithStrings(q1[3], x) ELSE q1[k]
  <2>1. WithStrings(q1[3], x) \in Section
    BY <1>7 DEF Finishes
  <2> QED BY <1>3, <1>6, <2>1, ExceptSeq
<1> HIDE DEF q2
<1>9. Finishes(q2[2], WithStrings(q2[2], y))
  <2>1. q2[2] \in Section /\ q2[2].kind = "string"
    BY <1>3, <1>4, <1>6, <1>8 DEF Finishes
  <2> QED BY <1>4, <2>1, WithStringsFinishes
<1>10. /\ q3 \in Seq(Section) /\ Len(q3) = Count
       /\ \A k \in 1..Count : q3[k] = IF k = 2 THEN WithStrings(q2[2], y) ELSE q2[k]
  <2>1. WithStrings(q2[2], y) \in Section
    BY <1>9 DEF Finishes
  <2> QED BY <1>3, <1>8, <2>1, ExceptSeq
<1> HIDE DEF q3
<1>11. ASSUME NEW k \in 1..Count, sections[k].kind # "string"
       PROVE  q3[k] = IF k = pos + 1 THEN Finalized(sections[k]) ELSE sections[k]
  BY <1>3, <1>6, <1>8, <1>10, <1>11
<1>12. ASSUME NEW k \in 1..Count PROVE SameLinks(sections[k], q3[k])
  <2>1. ASSUME NEW t, NEW u, Finishes(t, u), t.kind = "string" PROVE SameLinks(t, u)
    BY <2>1 DEF Finishes, SameLinks
  <2>2. ASSUME NEW t, NEW u, NEW v, SameLinks(t, u), SameLinks(u, v) PROVE SameLinks(t, v)
    BY <2>2 DEF SameLinks
  <2>3. SameLinks(sections[k], q1[k])
    <3>1. CASE k = pos + 1
      BY <1>3, <1>4, <1>5, <1>6, <3>1 DEF Finishes, SameLinks
    <3>2. CASE k # pos + 1
      BY <1>6, <3>2 DEF SameLinks
    <3> QED BY <3>1, <3>2
  <2>4. SameLinks(q1[k], q2[k])
    <3>1. CASE k = 3
      <4>1. q1[3].kind = "string"
        BY <1>3, <1>4, <1>6 DEF Finishes
      <4> QED BY <1>3, <1>7, <1>8, <2>1, <3>1, <4>1
    <3>2. CASE k # 3
      BY <1>8, <3>2 DEF SameLinks
    <3> QED BY <3>1, <3>2
  <2>5. SameLinks(q2[k], q3[k])
    <3>1. CASE k = 2
      <4>1. q2[2].kind = "string"
        BY <1>3, <1>4, <1>6, <1>8 DEF Finishes
      <4> QED BY <1>3, <1>9, <1>10, <2>1, <3>1, <4>1
    <3>2. CASE k # 2
      BY <1>10, <3>2 DEF SameLinks
    <3> QED BY <3>1, <3>2
  <2> QED BY <2>2, <2>3, <2>4, <2>5
<1> QED BY <1>2, <1>3, <1>10, <1>11, <1>12

\* finalize keeps the links, and writes the entries of its section.
LEMMA FinalizeEntries ==
    ASSUME IInv, LinksInv, EntriesInv, FinalizeSection
    PROVE  LinksInv' /\ EntriesInv'
<1>1. /\ pc = "finalize" /\ pc' = "finalize" /\ pos' = pos + 1 /\ pos \in Nat
      /\ written' = [written EXCEPT ![pos] = Entries(Sec(pos))]
  BY DEF FinalizeSection, IInv, TypeOK
<1>2. /\ sections' \in Seq(Section) /\ Len(sections') = Len(sections)
      /\ pos + 1 \in 1..Count
      /\ \A k \in 1..Count :
             /\ SameLinks(sections[k], sections'[k])
             /\ sections[k].kind # "string" =>
                    sections'[k] = IF k = pos + 1 THEN Finalized(sections[k])
                                   ELSE sections[k]
  BY FinalizeSame
<1>3. /\ sections \in Seq(Section) /\ Count = Len(sections) /\ Count \in Nat /\ Count' = Count
      /\ Count >= 3
  BY <1>2 DEF IInv, LayoutIInv, ProgressInv, TypeOK, Count
<1>4. \A k \in 1..Count : Len(sections[k].items) \in Nat /\ sections[k] \in Section
  <2>1. \A u \in Section : Len(u.items) \in Nat
    BY DEF Section
  <2> QED BY <1>3, <2>1
<1>5. LinksInv'
  <2>1. Carries(sections, sections')
    BY <1>2, <1>3, <1>4 DEF Carries, SameLinks
  <2>2. sections'[1].items = << >> /\ Count' <= MaxSections
    <3>1. 1 \in 1..Count
      BY <1>3
    <3> QED BY <1>2, <1>3, <3>1 DEF LinksInv, SameLinks
  <2>3. \A k \in Count + 1..Count' : FALSE
    BY <1>3
  <2> QED BY <1>2, <2>1, <2>2, <2>3, LinksStep
<1>6. ASSUME NEW i \in 0..MaxSections
      PROVE  i \in DOMAIN written' /\ written'[i] = IF i = pos THEN Entries(Sec(pos)) ELSE written[i]
  BY <1>1 DEF EntriesInv
<1>7. ASSUME NEW i \in 0..Count - 1, Finished(i)', Sec(i)'.kind \in {"symbol", "relocation"}
      PROVE  /\ written'[i] = Entries(Sec(i)')
             /\ Sec(i)'.kind = "relocation" =>
                    /\ Sec(i)'.info = Sec(i)'.patch
                    /\ Sec(i)'.symTab # 0 => Sec(i)'.link = Sec(i)'.symTab
  <2>1. /\ i + 1 \in 1..Count /\ Sec(i) = sections[i + 1] /\ Sec(i)' = sections'[i + 1]
        /\ i \in 0..MaxSections
    BY <1>3, WriterBoundsAssumption DEF Sec, LinksInv
  <2>2. SameLinks(Sec(i), Sec(i)') /\ Sec(i).kind \in {"symbol", "relocation"}
    BY <1>2, <1>7, <2>1 DEF SameLinks
  <2>3. Sec(i)' = IF i = pos THEN Finalized(Sec(i)) ELSE Sec(i)
    <3>1. i + 1 = pos + 1 <=> i = pos
      BY <1>1
    <3> QED BY <1>2, <2>1, <2>2, <3>1
  <2>4. CASE i = pos
    <3>1. Entries(Sec(i)') = Entries(Sec(i))
      BY <2>2, SameEntries DEF SameLinks
    <3>2. written'[i] = Entries(Sec(i)')
      BY <1>6, <2>1, <2>4, <3>1
    <3>3. ASSUME Sec(i).kind = "relocation"
          PROVE  /\ Sec(i)'.info = Sec(i).patch
                 /\ Sec(i)'.link = IF Sec(i).symTab # 0 THEN Sec(i).symTab ELSE Sec(i).link
      <4>1. Sec(i) \in Section
        BY <1>4, <2>1
      <4> QED BY <2>3, <2>4, <3>3, <4>1, FinalizedLinks
    <3> QED BY <2>2, <3>2, <3>3 DEF SameLinks
  <2>5. CASE i # pos
    <3>1. Finished(i)
      BY <1>1, <1>7, <2>5 DEF Finished
    <3>2. Sec(i)' = Sec(i) /\ written'[i] = written[i]
      BY <1>6, <2>1, <2>3, <2>5
    <3> QED BY <1>7, <3>1, <3>2 DEF EntriesInv
  <2> QED BY <2>4, <2>5
<1> QED BY <1>3, <1>5, <1>6, <1>7 DEF EntriesInv

\* A step behind the first loop leaves links and entries of every section as they are.
LEMMA FixedEntries ==
    ASSUME IInv, LinksInv, EntriesInv, pc \notin {"build", "finalize"} \/ pos = Count,
           pc # "build", pc' \notin {"build", "finalize"}, UNCHANGED written,
           sections' \in Seq(Section), Len(sections') = Len(sections),
           \A k \in 1..Count : /\ SameLinks(sections[k], sections'[k])
                               /\ sections'[k].link = sections[k].link
                               /\ sections'[k].info = sections[k].info
    PROVE  LinksInv' /\ EntriesInv'
<1>1. /\ sections \in Seq(Section) /\ Count = Len(sections) /\ Count \in Nat /\ Count' = Count
      /\ Count >= 3
  BY DEF IInv, LayoutIInv, ProgressInv, TypeOK, Count
<1>2. \A k \in 1..Count : Len(sections[k].items) \in Nat
  <2>1. \A u \in Section : Len(u.items) \in Nat
    BY DEF Section
  <2> QED BY <1>1, <2>1
<1>3. LinksInv'
  <2>1. Carries(sections, sections')
    BY <1>1, <1>2 DEF Carries, SameLinks
  <2>2. sections'[1].items = << >> /\ Count' <= MaxSections
    <3>1. 1 \in 1..Count
      BY <1>1
    <3> QED BY <1>1, <3>1 DEF LinksInv, SameLinks
  <2>3. \A k \in Count + 1..Count' : FALSE
    BY <1>1
  <2> QED BY <2>1, <2>2, <2>3, LinksStep
<1>4. ASSUME NEW i \in 0..Count - 1
      PROVE  /\ Finished(i)
             /\ SameLinks(Sec(i), Sec(i)')
             /\ Sec(i)'.link = Sec(i).link /\ Sec(i)'.info = Sec(i).info
  <2>1. i + 1 \in 1..Count /\ Sec(i) = sections[i + 1] /\ Sec(i)' = sections'[i + 1]
    BY <1>1 DEF Sec
  <2>2. pc \in {"build", "finalize"} => pc = "finalize" /\ i < pos
    BY <1>1
  <2> QED BY <2>1, <2>2 DEF Finished
<1>5. \A i \in 0..Count - 1 : Entries(Sec(i)') = Entries(Sec(i))
  BY <1>4, SameEntries DEF SameLinks
<1> QED BY <1>1, <1>3, <1>4, <1>5 DEF EntriesInv, SameLinks

\* The layout gives a section an offset, appendData a write offset.
LEMMA PlacedEntries ==
    ASSUME IInv, LinksInv, EntriesInv,
           LayoutSection \/ \E i \in 0..Count - 1, n \in Sizes \ {0} : AppendData(i, n)
    PROVE  LinksInv' /\ EntriesInv'
<1>1. sections \in Seq(Section) /\ Count = Len(sections) /\ Count \in Nat /\ total \in Nat
  BY DEF IInv, TypeOK, Count
<1>2. ASSUME NEW k \in 1..Count, NEW t \in Section, sections' = [sections EXCEPT ![k] = t],
             SameLinks(sections[k], t), t.link = sections[k].link, t.info = sections[k].info,
             pc \notin {"build", "finalize"}, pc' = pc, UNCHANGED written
      PROVE  LinksInv' /\ EntriesInv'
  <2>1. /\ sections' \in Seq(Section) /\ Len(sections') = Len(sections)
        /\ \A j \in 1..Len(sections) : sections'[j] = IF j = k THEN t ELSE sections[j]
    BY <1>1, <1>2, ExceptSeq
  <2>2. \A j \in 1..Count : /\ SameLinks(sections[j], sections'[j])
                            /\ sections'[j].link = sections[j].link
                            /\ sections'[j].info = sections[j].info
    BY <1>1, <1>2, <2>1 DEF SameLinks
  <2> QED BY <1>2, <2>1, <2>2, FixedEntries
<1>3. ASSUME LayoutSection PROVE LinksInv' /\ EntriesInv'
  <2>1. /\ pc = "layout" /\ pc' = pc /\ UNCHANGED written /\ pos + 1 \in 1..Count
        /\ sections' = [sections EXCEPT ![pos + 1] = LaidOut(Sec(pos))]
    BY <1>1, <1>3 DEF LayoutSection, IInv, TypeOK
  <2>2. PICK u \in Section : u = Sec(pos) /\ u = sections[pos + 1]
    BY <1>1, <2>1 DEF Sec
  <2>3. Aligned(u) \in Nat
    <3>1. u.align \in Nat
      BY DEF Section
    <3> QED BY <1>1, <3>1, AlignUpFacts DEF Aligned
  <2>4. /\ LaidOut(u) \in Section /\ SameLinks(u, LaidOut(u))
        /\ LaidOut(u).link = u.link /\ LaidOut(u).info = u.info
    BY <2>3 DEF LaidOut, Section, SameLinks
  <2> QED BY <1>2, <2>1, <2>2, <2>4
<1>4. ASSUME NEW i \in 0..Count - 1, NEW n \in Sizes \ {0}, AppendData(i, n)
      PROVE  LinksInv' /\ EntriesInv'
  <2>1. /\ pc \notin {"build", "finalize"} /\ pc' = pc /\ UNCHANGED written
        /\ i + 1 \in 1..Count
        /\ sections' = [sections EXCEPT ![i + 1].cur = @ + n]
    BY <1>1, <1>4 DEF AppendData
  <2>2. PICK u \in Section : u = sections[i + 1]
    BY <1>1, <2>1
  <2>3. PICK c \in Nat : c = u.cur + n
    BY ClientSizesAssumption DEF Section
  <2> DEFINE t == [u EXCEPT !.cur = c]
  <2>4. sections' = [sections EXCEPT ![i + 1] = t]
    BY <2>1, <2>2, <2>3
  <2>5. t \in Section /\ SameLinks(u, t) /\ t.link = u.link /\ t.info = u.info
    BY DEF Section, SameLinks
  <2> HIDE DEF t
  <2> QED BY <1>2, <2>1, <2>2, <2>4, <2>5
<1> QED BY <1>3, <1>4

\* While the client builds, nothing is written of any section.
LEMMA BuildingEntries ==
    ASSUME EntriesInv, pc' = "build", UNCHANGED written
    PROVE  EntriesInv'
BY DEF EntriesInv, Finished

\* Every step keeps the links and the entries, if the client adds locals first.
LEMMA NextEntries ==
    ASSUME LocalsFirst, IInv, LinksInv, EntriesInv, [Next]_vars
    PROVE  LinksInv' /\ EntriesInv'
<1>0. sections \in Seq(Section) /\ Count = Len(sections)
  BY DEF IInv, TypeOK, Count
<1>1. CASE AddSymbolSection \/ AddRelocationSection
  <2>1. LinksInv'
    BY <1>1, NewSectionLinks
  <2>2. pc' = "build" /\ UNCHANGED written
    BY <1>1 DEF AddSymbolSection, AddRelocationSection, Adding
  <2> QED BY <2>1, <2>2, BuildingEntries
<1>2. CASE \E kind \in {"binary", "empty"}, n \in Sizes, a \in Aligns :
               AddDataSection(kind, n, a)
  <2>1. LinksInv'
    BY <1>2, NewSectionLinks
  <2>2. pc' = "build" /\ UNCHANGED written
    BY <1>2 DEF AddDataSection, Adding
  <2> QED BY <2>1, <2>2, BuildingEntries
<1>3. ASSUME NEW i \in 0..Count - 1, NEW p \in 0..Count - 1,
             \/ \E t \in 0..Count - 1 : SetSymbolTable(i, p, t)
             \/ SetSpecialSymbolTable(i, p)
      PROVE  LinksInv' /\ EntriesInv'
  <2>1. LinksInv'
    BY <1>3, PatchLinks
  <2>2. pc' = "build" /\ UNCHANGED written
    BY <1>3 DEF SetSymbolTable, SetSpecialSymbolTable, Links
  <2> QED BY <2>1, <2>2, BuildingEntries
<1>4. ASSUME NEW i \in 0..Count - 1, NEW r \in 0..Count - 1, NEW b \in Bindings,
             NEW t \in SymbolTypes, AddSymbolEntry(i, b, t, r)
      PROVE  LinksInv' /\ EntriesInv'
  <2>1. LinksInv'
    BY <1>4, SymbolLinks
  <2>2. pc' = "build" /\ UNCHANGED written
    BY <1>4 DEF AddSymbolEntry
  <2> QED BY <2>1, <2>2, BuildingEntries
<1>5. ASSUME NEW i \in 0..Count - 1, NEW k \in 0..MaxEntries, NEW n \in Specials,
             NEW t \in RelocTypes, AddRelocationEntry(i, k, n, t)
      PROVE  LinksInv' /\ EntriesInv'
  <2>1. LinksInv'
    BY <1>5, RelocationLinks
  <2>2. pc' = "build" /\ UNCHANGED written
    BY <1>5 DEF AddRelocationEntry
  <2> QED BY <2>1, <2>2, BuildingEntries
<1>6. CASE FinalizeSection
  BY <1>6, FinalizeEntries
<1>7. CASE LayoutSection \/ \E i \in 0..Count - 1, n \in Sizes \ {0} : AppendData(i, n)
  BY <1>7, PlacedEntries
<1>8. ASSUME UNCHANGED <<sections, written>> PROVE LinksInv'
  BY <1>8 DEF LinksInv, Count
<1>9. CASE StartPrepare
  <2>1. UNCHANGED <<sections, written>> /\ pc' = "finalize" /\ pos' = 0
    BY <1>9 DEF StartPrepare
  <2>2. \A i \in 0..Count - 1 : ~Finished(i)'
    BY <2>1 DEF Finished
  <2> QED BY <1>8, <2>1, <2>2 DEF EntriesInv, Count, Sec
<1>10. ASSUME UNCHANGED <<sections, written>>, pc \notin {"build", "finalize"} \/ pos = Count,
              pc # "build", pc' \notin {"build", "finalize"}
       PROVE  LinksInv' /\ EntriesInv'
  BY <1>0, <1>10, FixedEntries DEF SameLinks
<1>11. CASE StartLayout \/ Allocate \/ StartGenerate \/ WriteHeaders
  BY <1>10, <1>11 DEF StartLayout, Allocate, StartGenerate, WriteHeaders
<1>12. CASE SerializeSection \/ SetSectionsStartAddr
  BY <1>10, <1>12 DEF SerializeSection, SetSectionsStartAddr
<1>13. CASE UNCHANGED vars
  BY <1>13 DEF vars, LinksInv, EntriesInv, Finished, Count, Sec
<1> QED BY <1>1, <1>2, <1>3, <1>4, <1>5, <1>6, <1>7, <1>9, <1>11, <1>12, <1>13 DEF Next

\* The constructor's sections have no links and no entries.
LEMMA InitEntries == Init => LinksInv /\ EntriesInv
<1> SUFFICES ASSUME Init PROVE LinksInv /\ EntriesInv
  OBVIOUS
<1> DEFINE N == NewSection("null", 4)
           S == StringSection
<1>1. N.kind = "null" /\ N.items = << >> /\ S.kind = "string"
  BY DEF NewSection, StringSection
<1>2. sections = <<N, S, S>> /\ pc = "build" /\ written = [i \in 0..MaxSections |-> << >>]
  BY DEF Init
<1> HIDE DEF N, S
<1>3. Len(sections) = 3 /\ sections[1] = N /\ sections[2] = S /\ sections[3] = S
  BY <1>2
<1>4. LinksInv
  BY <1>1, <1>3, WriterBoundsAssumption DEF LinksInv, LinkedIn, Count
<1>5. EntriesInv
  BY <1>2 DEF EntriesInv, Finished
<1> QED BY <1>4, <1>5

\* A relocation (relocation_section.cpp 52-63) read through its section's header and r_info
\* patches what the client named with the type it asked for, and leads to its symbol in the
\* sorted table (symbol_section.cpp 35-45) or to its runtime symbol, for any sections and
\* entries, if the client adds the symbols of every table in the order of their bindings.
\* Without that the writer goes wrong: the run writer_symbols shows how.
THEOREM RelocationsLeadToSymbols ==
    ASSUME LocalsFirst
    PROVE  Spec => []RelocationsFindSymbols
<1>1. IInv /\ LinksInv /\ EntriesInv => RelocationsFindSymbols
  <2> SUFFICES ASSUME IInv, LinksInv, EntriesInv, pc = "done",
                      NEW i \in 0..Count - 1, Sec(i).kind = "relocation",
                      NEW k \in 1..Len(Sec(i).items)
               PROVE  LET asked == Sec(i).items[k]
                          hdr == headers[i + 1]
                          info == written[i][k]
                      IN  /\ hdr.info = Sec(i).patch
                          /\ elf64RType(info) = asked.type
                          /\ \/ hdr.link = VPU_RT_SYMTAB /\ asked.symbol = 0
                                /\ elf64RSym(info) = asked.special
                             \/ hdr.link < Count /\ asked.symbol # 0
                                /\ written[hdr.link][elf64RSym(info) + 1]
                                      = Sec(Sec(i).symTab).items[asked.symbol + 1]
    BY DEF RelocationsFindSymbols
  <2>1. /\ sections \in Seq(Section) /\ Count = Len(sections) /\ Count \in Nat
        /\ Len(headers) = Count /\ i + 1 \in 1..Count /\ Sec(i) = sections[i + 1]
    BY DEF IInv, LayoutIInv, ProgressInv, Preparing, TypeOK, Count, Sec
  <2>2. PICK s \in Section : s = Sec(i) /\ s.symTab < Count /\ s.symTab \in Nat
    <3>1. Sec(i) \in Section /\ Sec(i).symTab < Count
      BY <2>1 DEF IInv, TypeOK
    <3>2. \A u \in Section : u.symTab \in Nat
      BY DEF Section
    <3> QED BY <3>1, <3>2
  <2>3. PICK e : e = s.items[k] /\ Asks(sections, s, e)
    BY <2>1, <2>2 DEF LinksInv, LinkedIn
  <2>4. s.patch # 0
    <3>1. s.patch = 0 => s.items = << >>
      BY <2>1, <2>2 DEF LinksInv, LinkedIn
    <3> QED BY <2>2, <3>1
  <2>5. /\ headers[i + 1].info = s.patch
        /\ headers[i + 1].link = IF s.symTab # 0 THEN s.symTab ELSE VPU_RT_SYMTAB
    <3>1. headers[i + 1].link = s.link /\ headers[i + 1].info = s.info
      BY <2>1, <2>2 DEF IInv, LayoutIInv, HeaderInv
    <3>2. s.info = s.patch /\ (s.symTab # 0 => s.link = s.symTab)
      BY <2>2 DEF EntriesInv, Finished
    <3>3. s.symTab = 0 => s.link = VPU_RT_SYMTAB
      BY <2>1, <2>2, <2>4 DEF LinksInv, LinkedIn
    <3> QED BY <3>1, <3>2, <3>3
  <2>6. written[i][k] = Packed(e)
    <3>1. written[i] = Entries(s)
      BY <2>2 DEF EntriesInv, Finished
    <3>2. Entries(s) = [l \in 1..Len(s.items) |-> Packed(s.items[l])]
      BY <2>2 DEF Entries
    <3> QED BY <2>2, <2>3, <3>1, <3>2
  <2>7. CASE s.symTab = 0
    <3>1. Packed(e) = e.info /\ e.symbol = 0
      BY <2>3, <2>7 DEF Asks, Packed
    <3> QED BY <2>2, <2>3, <2>5, <2>6, <2>7, <3>1 DEF Asks
  <2>8. CASE s.symTab # 0
    <3>1. PICK t \in Section : t = sections[s.symTab + 1] /\ t = Sec(s.symTab)
      BY <2>1, <2>2 DEF Sec
    <3>2. t.kind = "symbol" /\ Sorted(t.items)
      <4>1. LinkedIn(sections, s) /\ s.kind = "relocation"
        BY <2>1, <2>2 DEF LinksInv
      <4>2. t.kind = "symbol"
        BY <2>8, <3>1, <4>1 DEF LinkedIn
      <4>3. s.symTab + 1 \in 1..Count
        BY <2>1, <2>2
      <4>4. LinkedIn(sections, t)
        BY <3>1, <4>3 DEF LinksInv
      <4> QED BY <4>2, <4>4 DEF LinkedIn
    <3>3. written[s.symTab] = t.items
      <4>1. written[s.symTab] = Entries(t)
        BY <2>1, <2>2, <3>1, <3>2 DEF EntriesInv, Finished
      <4>2. Entries(t) = SortedByBinding(t.items)
        BY <3>2 DEF Entries
      <4>3. t.items \in Seq(Item)
        BY DEF Section
      <4> QED BY <3>2, <4>1, <4>2, <4>3, SortedStays
    <3>4. /\ e.symbol \in Nat /\ e.symbol \in 1..Len(t.items) - 1 /\ e.type \in 0..63
          /\ elf64RType(e.info) = e.type
      BY <2>3, <2>8, <3>1 DEF Asks
    <3>5. e.symbol # 0
      BY <3>4
    <3>6. elf64RSym(Packed(e)) = e.symbol /\ elf64RType(Packed(e)) = e.type
      BY <3>4, <3>5, RInfoFacts DEF Packed
    <3> QED BY <2>2, <2>3, <2>5, <2>6, <2>8, <3>1, <3>3, <3>5, <3>6
  <2> QED BY <2>7, <2>8
<1>2. IInv /\ LinksInv /\ EntriesInv /\ [Next]_vars => LinksInv' /\ EntriesInv'
  BY NextEntries
<1> QED BY <1>1, <1>2, InitEntries, WriterInvariant, PTL DEF Spec
=============================================================================
