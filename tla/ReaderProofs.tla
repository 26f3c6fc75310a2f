---------------------------- MODULE ReaderProofs ----------------------------
(***************************************************************************)
(* Proof that the Reader hands out the bytes of the section asked for, in   *)
(* buffers that are placed as requested, locked only while they are filled  *)
(* and alive as long as somebody reads them (Reader), for every file, every *)
(* AccessManager and any number of threads.                                 *)
(***************************************************************************)
EXTENDS Reader, TLAPS, FiniteSetTheorems, WellFoundedInduction

Calls == [pc : {"idle", "read", "copy", "publish", "using"}, call : {"none", "data", "buffer"},
          sec : Nat, buf : BufIds \cup {0}, npu : BOOLEAN]
Interval == [from : Nat, len : Nat, garbage : BOOLEAN]
Buffer == [kind : {"none", "static", "dynamic", "device"}, addr : Nat, room : Int, size : Nat, align : Nat,
           holds : Interval, lock : Int, owners : SUBSET (Threads \cup {"section"})]

\* The section table has been read.
Built == phase \in {"names", "register", "loading", "shared"}

\* Types of what TypeOK leaves open, and where calls are possible.
TypeInv ==
    /\ file \in Files /\ mgr \in Managers
    /\ phase \in {"header", "table", "names", "register", "loading", "shared", "refused"}
    /\ cache \subseteq Secs /\ users \in [UserKinds -> Nat]
    /\ data = << >> \/ data \in [Secs -> BufIds \cup {0}]
    /\ bufs \in [BufIds -> Buffer] /\ thr \in [Threads -> Calls]
    /\ failed \in BOOLEAN /\ faults \in 0 .. MaxFaults
    /\ Built => data \in [Secs -> BufIds \cup {0}] /\ \A s \in Secs : table[s] \in Shdr
    /\ \A t \in Threads : thr[t].pc # "idle" =>
          phase \in {"loading", "shared"} /\ thr[t].sec \in Secs /\ thr[t].call # "none"

\* The loop of the constructor has gone through the first sections.
CacheInv ==
    /\ phase \in {"header", "table", "names"} => cache = {}
    /\ phase = "register" => \E n \in 0 .. file.shnum : cache = 0 .. n - 1
    /\ phase \in {"loading", "shared"} => cache = Secs

\* It has made descriptors for the tables it met, at most one of a kind with any.
UsersInv ==
    phase \in {"register", "loading", "shared"} =>
        \A s \in cache : EarlyFetched(table[s]) =>
            /\ table[s].entsize # 0
            /\ getEntriesNum(table[s]) > 1 =>
                  /\ users[table[s].io] = getEntriesNum(table[s]) - 1
                  /\ \A r \in cache \ {s} : EarlyFetched(table[r]) /\ table[r].io = table[s].io =>
                        getEntriesNum(table[r]) <= 1

\* A buffer that is being filled, or that getDataBuffer returned, has one owner; a buffer
\* in mDataBuffer belongs to its section alone.
Holds(t) == thr[t].pc \in {"copy", "publish"} \/ (thr[t].pc = "using" /\ thr[t].call = "buffer")
OwnedInv ==
    /\ \A t \in Threads : Holds(t) =>
          thr[t].buf # 0 /\ bufs[thr[t].buf].kind # "none" /\ bufs[thr[t].buf].owners = {t}
    /\ \A s \in DOMAIN data : data[s] # 0 =>
          /\ bufs[data[s]].kind # "none" /\ bufs[data[s]].owners = {"section"}
          /\ \A r \in DOMAIN data : r # s => data[r] # data[s]

\* Until the Reader is shared one thread calls it, and from then on every table is there.
SharedInv ==
    /\ phase # "shared" => \A t \in Threads : t # Owner => thr[t].pc = "idle"
    /\ phase = "shared" => \A s \in Tables : data[s] # 0
    /\ \A t \in Threads : thr[t].pc # "idle" /\ thr[t].call = "data" =>
          /\ thr[t].sec \in Tables
          /\ thr[t].pc \in {"read", "copy", "publish"} => phase = "loading" /\ data[thr[t].sec] = 0
          /\ thr[t].pc = "using" => thr[t].buf # 0 /\ thr[t].buf = data[thr[t].sec]

\* What a buffer holds once it has been filled for a section.
Filled(b, s) ==
    LET h == file.table[s]  c == bufs[b].holds IN
    failed \/ (~c.garbage /\ c.from = h.offset /\ c.len = h.size /\ InBounds(h.offset, h.size))
FilledInv ==
    /\ Built => failed \/ \A s \in Secs : table[s] = file.table[s]
    /\ \A t \in Threads :
          /\ thr[t].pc = "copy" => InBounds(table[thr[t].sec].offset, table[thr[t].sec].size)
          /\ Holds(t) /\ thr[t].pc # "copy" => Filled(thr[t].buf, thr[t].sec)
    /\ \A s \in DOMAIN data : data[s] # 0 => Filled(data[s], s)

-----------------------------------------------------------------------------
(* Arithmetic and records *)

\* A set of numbers that is not empty has a least element.
LEMMA Least == ASSUME NEW S, S \subseteq Nat, S # {} PROVE \E b \in S : \A c \in S : b <= c
<1>1. PICK R : R = OpToRel(<,Nat)
  OBVIOUS
<1>2. IsWellFoundedOn(R, Nat)
  BY <1>1, NatLessThanWellFounded
<1>3. PICK b \in S : \A c \in S : ~(<<c, b>> \in R)
  BY <1>2, WFMin
<1>4. R = {p \in Nat \X Nat : p[1] < p[2]}
  BY <1>1 DEF OpToRel
<1>5. ASSUME NEW c \in S PROVE b <= c
  <2>1. <<c, b>> \in Nat \X Nat
    OBVIOUS
  <2>2. c < b => <<c, b>> \in R
    BY <1>4, <2>1
  <2> QED BY <1>3, <2>2
<1> QED BY <1>5

\* The allocator takes a buffer that is free.
LEMMA NewBufIsFree == Free # {} => NewBuf \in BufIds /\ bufs[NewBuf].kind = "none"
<1> SUFFICES ASSUME Free # {} PROVE NewBuf \in Free
  BY DEF Free
<1>1. Free \subseteq Nat
  BY BoundsAssumption DEF Free, BufIds
<1>2. \E b \in Free : \A c \in Free : b <= c
  BY <1>1, Least
<1> QED BY <1>2 DEF NewBuf

\* The powers of two below 64.
LEMMA SmallPowers ==
    ASSUME NEW n \in 1 .. 63, isPowerOfTwo(n)
    PROVE  n \in {1, 2, 4, 8, 16, 32}
<1> DEFINE NotBy(d) == d <= n => n % d # 0
<1>1. /\ NotBy(3) /\ NotBy(5) /\ NotBy(7) /\ NotBy(11) /\ NotBy(13) /\ NotBy(17) /\ NotBy(19)
      /\ NotBy(23) /\ NotBy(29) /\ NotBy(31) /\ NotBy(37) /\ NotBy(41) /\ NotBy(43) /\ NotBy(47)
      /\ NotBy(53) /\ NotBy(59) /\ NotBy(61)
  <2>1. \A d \in Nat : d >= 2 /\ d % 2 = 1 => NotBy(d)
    BY DEF isPowerOfTwo
  <2>2. \A d \in {3, 5, 7, 11, 13, 17, 19, 23, 29, 31, 37, 41, 43, 47, 53, 59, 61} :
           d \in Nat /\ d >= 2 /\ d % 2 = 1
    OBVIOUS
  <2> HIDE DEF NotBy
  <2> QED BY <2>1, <2>2
<1> QED BY <1>1

\* They divide the alignment that a vector is given in any case.
LEMMA MultiplesOf64 ==
    ASSUME NEW n \in {1, 2, 4, 8, 16, 32}, NEW k \in Nat PROVE (k * 64) % n = 0
OBVIOUS

\* A multiple leaves no rest.
LEMMA Multiples == ASSUME NEW n \in Nat \ {0}, NEW k \in Nat PROVE (k * n) % n = 0
OBVIOUS

\* alignUp returns the next multiple, and nothing is ever moved by a whole alignment.
LEMMA AlignUpFacts ==
    ASSUME NEW n \in Nat, NEW a \in Nat \ {0}
    PROVE  /\ alignUp(n, a) \in Nat /\ n <= alignUp(n, a) /\ alignUp(n, a) <= n + a - 1
           /\ \E k \in Nat : alignUp(n, a) = k * a
<1>1. CASE n = 0
  BY <1>1 DEF alignUp
<1>2. CASE n # 0
  <2> DEFINE q == (n + a - 1) \div a
  <2>1. q \in Nat /\ q * a >= n /\ q * a <= n + a - 1
    BY <1>2
  <2>2. alignUp(n, a) = q * a
    BY <1>2 DEF alignUp
  <2> HIDE DEF q
  <2> QED BY <2>1, <2>2
<1> QED BY <1>1, <1>2

-----------------------------------------------------------------------------
(* The files, and the buffers made for their sections *)

\* The fields of the file and of its headers.
LEMMA FileFacts ==
    ASSUME file \in Files
    PROVE  /\ file.size \in Nat /\ file.shentsize \in Nat /\ file.shoff \in Nat
           /\ file.shnum \in Nat /\ file.shstrndx \in Nat
           /\ Secs \subseteq Nat /\ \A s \in Secs : file.table[s] \in Shdr
BY FilesAssumption DEF Secs

\* Those of the access manager.
LEMMA ManagerFacts == ASSUME mgr \in Managers PROVE mgr \in Manager /\ mgr.blob \in Nat
BY ManagersAssumption DEF Manager

\* Those of a section header.
LEMMA ShdrFacts ==
    ASSUME NEW h \in Shdr
    PROVE  /\ h.type \in SectionTypes /\ h.offset \in Nat /\ h.size \in Nat /\ h.entsize \in Nat
           /\ h.align \in Nat /\ h.jit \in BOOLEAN /\ h.npu \in BOOLEAN
BY DEF Shdr

\* A header that a failed stream leaves behind has the type of a header.
LEMMA NullShdrType == NullShdr \in Shdr
BY DEF NullShdr, Shdr, SectionTypes

\* NoBuf has the type of a buffer, and what is copied that of an interval.
LEMMA BufferTypes ==
    /\ NoBuf \in Buffer /\ NoBuf.kind = "none" /\ NoBuf.lock = 0
    /\ Nothing \in Interval
    /\ \A h \in Shdr, g \in BOOLEAN : [from |-> h.offset, len |-> h.size, garbage |-> g] \in Interval
<1>1. Nothing \in Interval
  BY DEF Nothing, Interval
<1>2. NoBuf \in Buffer /\ NoBuf.kind = "none" /\ NoBuf.lock = 0
  BY <1>1 DEF NoBuf, Buffer
<1>3. ASSUME NEW h \in Shdr, NEW g \in BOOLEAN
      PROVE  [from |-> h.offset, len |-> h.size, garbage |-> g] \in Interval
  BY <1>3, ShdrFacts DEF Interval
<1> QED BY <1>1, <1>2, <1>3

\* A buffer lies where it may.
Placed(b) == b.size <= b.room /\ (mgr.emplace # "always" /\ b.align # 0 => b.addr % b.align = 0)

\* A vector has room for the section behind its aligned start.
LEMMA DynamicPlaced ==
    ASSUME NEW h \in Shdr, isPowerOfTwo(h.align), NEW base \in HeapAddrs, NEW b, b = DynamicBuffer(h, base)
    PROVE  /\ b.kind = "dynamic" /\ b.size = h.size /\ b.align = h.align
           /\ b \in Buffer /\ b.holds = Nothing /\ b.lock = 0 /\ Placed(b)
<1> DEFINE a == bufferAlignment(h)
           u == alignUp(h.size, mDefaultSafeAlignment)
           p == alignUp(base, a)
<1>1. h.size \in Nat /\ h.align \in Nat \ {0} /\ base \in Nat
  BY ShdrFacts, ManagersAssumption DEF isPowerOfTwo
<1>2. a \in Nat \ {0} /\ a = (IF h.align < 64 THEN 64 ELSE h.align)
  BY <1>1 DEF bufferAlignment, mDefaultSafeAlignment
<1> HIDE DEF a
<1>3. u \in Nat /\ h.size <= u
  BY <1>1, AlignUpFacts DEF mDefaultSafeAlignment
<1>4. p \in Nat /\ p <= base + a - 1 /\ \E k \in Nat : p = k * a
  BY <1>1, <1>2, AlignUpFacts
<1>5. b = [NoBuf EXCEPT !.kind = "dynamic", !.addr = p, !.size = h.size,
                        !.room = base + (u + a) - p, !.align = h.align]
  BY DEF DynamicBuffer, a
<1> HIDE DEF u, p
<1>6. /\ b.kind = "dynamic" /\ b.addr = p /\ b.size = h.size /\ b.room = base + (u + a) - p
      /\ b.align = h.align /\ b.holds = Nothing /\ b.lock = 0 /\ b.owners = {}
  BY <1>5 DEF NoBuf
<1>7. b.size <= b.room
  BY <1>1, <1>2, <1>3, <1>4, <1>6
<1>8. p % h.align = 0
  <2>1. PICK k \in Nat : p = k * a
    BY <1>4
  <2>2. CASE h.align < 64
    <3>1. h.align \in {1, 2, 4, 8, 16, 32}
      BY <1>1, <2>2, SmallPowers
    <3> QED BY <1>2, <2>1, <2>2, <3>1, MultiplesOf64
  <2>3. CASE ~(h.align < 64)
    BY <1>1, <1>2, <2>1, <2>3, Multiples
  <2> QED BY <2>2, <2>3
<1>9. b \in Buffer
  <2>1. b = [kind |-> "dynamic", addr |-> p, room |-> base + (u + a) - p, size |-> h.size, align |-> h.align,
             holds |-> Nothing, lock |-> 0, owners |-> {}]
    BY <1>5 DEF NoBuf
  <2> QED BY <1>1, <1>2, <1>3, <1>4, <2>1, BufferTypes DEF Buffer
<1> QED BY <1>6, <1>7, <1>8, <1>9 DEF Placed

\* An emplaced buffer lies in the blob, at an address that suits it.
LEMMA StaticPlaced ==
    ASSUME NEW h \in Shdr, file \in Files, mgr \in Managers, canEmplace(h), InBounds(h.offset, h.size),
           NEW b, b = StaticBuffer(h)
    PROVE  /\ b.kind = "static" /\ b.size = h.size /\ b.align = h.align
           /\ b \in Buffer /\ b.lock = 0 /\ Placed(b)
           /\ b.holds = [from |-> h.offset, len |-> h.size, garbage |-> FALSE]
<1>1. /\ b.kind = "static" /\ b.size = h.size /\ b.align = h.align /\ b.addr = mgr.blob + h.offset
      /\ b.room = file.size - h.offset /\ b.lock = 0 /\ b.owners = {}
      /\ b.holds = [from |-> h.offset, len |-> h.size, garbage |-> FALSE]
  BY DEF StaticBuffer, NoBuf
<1>2. file.size \in Nat /\ mgr.blob \in Nat /\ h.offset \in Nat /\ h.size \in Nat /\ h.align \in Nat
  BY FileFacts, ManagerFacts, ShdrFacts
<1>3. b.size <= b.room
  BY <1>1, <1>2 DEF InBounds
<1>4. mgr.emplace # "always" /\ b.align # 0 => b.addr % b.align = 0
  BY <1>1 DEF canEmplace
<1>5. b \in Buffer
  <2>1. b = [kind |-> "static", addr |-> mgr.blob + h.offset, room |-> file.size - h.offset, size |-> h.size,
             align |-> h.align, holds |-> [from |-> h.offset, len |-> h.size, garbage |-> FALSE],
             lock |-> 0, owners |-> {}]
    BY DEF StaticBuffer, NoBuf
  <2>2. [from |-> h.offset, len |-> h.size, garbage |-> FALSE] \in Interval
    BY <1>2 DEF Interval
  <2> QED BY <1>2, <2>1, <2>2 DEF Buffer
<1> QED BY <1>1, <1>3, <1>4, <1>5 DEF Placed

\* The driver's memory has the size asked for.
LEMMA DevicePlaced ==
    ASSUME NEW h \in Shdr, NEW b, b = [AllocatedDeviceBuffer(h) EXCEPT !.lock = 1]
    PROVE  /\ b.kind = "device" /\ b.size = h.size /\ b.align = h.align
           /\ b \in Buffer /\ b.holds = Nothing /\ b.lock = 1
<1>1. h.size \in Nat /\ h.size \in Int /\ h.align \in Nat
  BY ShdrFacts
<1>2. b = [kind |-> "device", addr |-> 0, room |-> h.size, size |-> h.size, align |-> h.align,
           holds |-> Nothing, lock |-> 1, owners |-> {}]
  BY DEF AllocatedDeviceBuffer, NoBuf
<1>3. Nothing \in Interval
  BY BufferTypes
<1>4. /\ b.kind = "device" /\ b.size = h.size /\ b.align = h.align
      /\ b.holds = Nothing /\ b.lock = 1
  BY <1>2
<1>5. b \in Buffer
  <2>1. ASSUME NEW z \in Nat, NEW a \in Nat, NEW i \in Interval
        PROVE  [kind |-> "device", addr |-> 0, room |-> z, size |-> z, align |-> a,
                holds |-> i, lock |-> 1, owners |-> {}] \in Buffer
    BY DEF Buffer
  <2> QED BY <1>1, <1>2, <1>3, <2>1
<1> QED BY <1>4, <1>5

-----------------------------------------------------------------------------
(* What the steps of a call do to the buffers *)

\* Facts about a call that TypeInv and OwnedInv give.
LEMMA CallFacts ==
    ASSUME TypeInv, OwnedInv, NEW t \in Threads, thr[t].pc # "idle"
    PROVE  /\ thr \in [Threads -> Calls] /\ thr[t] \in Calls
           /\ thr[t].sec \in Secs /\ table[thr[t].sec] \in Shdr /\ data \in [Secs -> BufIds \cup {0}]
           /\ phase \in {"loading", "shared"}
           /\ Holds(t) => thr[t].buf \in BufIds /\ bufs[thr[t].buf] \in Buffer
<1>1. phase \in {"loading", "shared"} /\ thr[t].sec \in Secs /\ thr \in [Threads -> Calls] /\ bufs \in [BufIds -> Buffer]
  BY DEF TypeInv
<1>2. Built
  BY <1>1 DEF Built
<1>3. data \in [Secs -> BufIds \cup {0}] /\ table[thr[t].sec] \in Shdr
  BY <1>1, <1>2 DEF TypeInv
<1>4. thr[t].buf \in BufIds \cup {0}
  BY <1>1 DEF Calls
<1>5. Holds(t) => thr[t].buf # 0
  BY DEF OwnedInv
<1> QED BY <1>1, <1>3, <1>4, <1>5

\* Any of the three kinds of buffer, taken for a thread.
LEMMA TakenType ==
    ASSUME NEW t \in Threads, NEW c \in Buffer, NEW b, b = Take(t, c)
    PROVE  /\ b \in Buffer /\ b.owners = {t}
           /\ b.kind = c.kind /\ b.addr = c.addr /\ b.room = c.room /\ b.size = c.size /\ b.align = c.align
           /\ b.holds = c.holds /\ b.lock = c.lock
BY DEF Take, Buffer

\* The two fields of a call that readInternal sets.
LEMMA TwoFields ==
    ASSUME NEW f \in [Threads -> Calls], NEW t \in Threads, NEW pc, NEW n
    PROVE  [f EXCEPT ![t].pc = pc, ![t].buf = n] = [f EXCEPT ![t] = [f[t] EXCEPT !.pc = pc, !.buf = n]]
<1> DEFINE g == [f EXCEPT ![t].pc = pc]
<1>1. [f EXCEPT ![t].pc = pc, ![t].buf = n] = [g EXCEPT ![t].buf = n]
  OBVIOUS
<1>2. g = [f EXCEPT ![t] = [f[t] EXCEPT !.pc = pc]]
  OBVIOUS
<1>3. DOMAIN g = Threads /\ \A u \in Threads : g[u] = IF u = t THEN [f[t] EXCEPT !.pc = pc] ELSE f[u]
  BY <1>2
<1>4. [g EXCEPT ![t].buf = n] = [u \in Threads |-> IF u = t THEN [f[t] EXCEPT !.pc = pc, !.buf = n] ELSE f[u]]
  <2>1. [g EXCEPT ![t].buf = n] = [g EXCEPT ![t] = [g[t] EXCEPT !.buf = n]]
    OBVIOUS
  <2>2. [g[t] EXCEPT !.buf = n] = [f[t] EXCEPT !.pc = pc, !.buf = n]
    BY <1>3
  <2> HIDE DEF g
  <2> QED BY <1>3, <2>1, <2>2
<1> QED BY <1>1, <1>4

\* readInternal makes buffer b with number n, and the call of t goes on as w.
Reads(t, n, b, w) ==
    /\ n \in BufIds /\ bufs[n].kind = "none"
    /\ b \in Buffer /\ b.kind # "none" /\ b.owners = {t}
    /\ b.lock = (IF b.kind = "device" THEN 1 ELSE 0)
    /\ b.kind \in {"static", "dynamic"} => Placed(b)
    /\ w \in Calls /\ w.buf = n /\ w.sec = thr[t].sec /\ w.call = thr[t].call
    /\ InBounds(table[w.sec].offset, table[w.sec].size)
    /\ w.pc = (IF b.kind = "static" THEN "publish" ELSE "copy")
    /\ b.kind = "static" =>
         b.holds = [from |-> table[w.sec].offset, len |-> table[w.sec].size, garbage |-> FALSE]
    /\ bufs' = [bufs EXCEPT ![n] = b] /\ thr' = [thr EXCEPT ![t] = w]

\* It does so, or throws and leaves everything as it was.
LEMMA ReadStep ==
    ASSUME TypeInv, OwnedInv, NEW t \in Threads, readInternal(t)
    PROVE  \/ thr' = [thr EXCEPT ![t] = Idle] /\ bufs' = bufs
           \/ \E n, b, w : Reads(t, n, b, w)
<1> DEFINE h == table[thr[t].sec]
           holding(b, pc) == /\ bufs' = [bufs EXCEPT ![NewBuf] = Take(t, b)]
                             /\ thr' = [thr EXCEPT ![t].pc = pc, ![t].buf = NewBuf]
<1>0. thr[t].pc = "read" /\ Free # {}
  BY DEF readInternal
<1>1. /\ thr \in [Threads -> Calls] /\ thr[t] \in Calls /\ h \in Shdr
      /\ file \in Files /\ mgr \in Managers /\ NewBuf \in BufIds /\ bufs[NewBuf].kind = "none"
  BY <1>0, CallFacts, NewBufIsFree DEF TypeInv
<1> DEFINE W(pc) == [thr[t] EXCEPT !.pc = pc, !.buf = NewBuf]
<1>2. ASSUME NEW pc \in {"copy", "publish"}
      PROVE  /\ W(pc) \in Calls /\ W(pc).pc = pc /\ W(pc).buf = NewBuf
             /\ W(pc).sec = thr[t].sec /\ W(pc).call = thr[t].call
  BY <1>1 DEF Calls
<1>3. ASSUME NEW b, NEW pc, holding(b, pc)
      PROVE  thr' = [thr EXCEPT ![t] = W(pc)]
  <2>1. thr' = [thr EXCEPT ![t].pc = pc, ![t].buf = NewBuf]
    BY <1>3
  <2> QED BY <1>1, <2>1, TwoFields
<1>4. ASSUME canEmplace(h), InBounds(h.offset, h.size), holding(StaticBuffer(h), "publish")
      PROVE  \E n, b, w : Reads(t, n, b, w)
  <2> DEFINE c == StaticBuffer(h)
             d == Take(t, c)
  <2>1. /\ c.kind = "static" /\ c.size = h.size /\ c.align = h.align
        /\ c \in Buffer /\ c.lock = 0 /\ Placed(c)
        /\ c.holds = [from |-> h.offset, len |-> h.size, garbage |-> FALSE]
    BY <1>1, <1>4, StaticPlaced
  <2>4. /\ d \in Buffer /\ d.owners = {t}
        /\ d.kind = c.kind /\ d.addr = c.addr /\ d.room = c.room /\ d.size = c.size /\ d.align = c.align
        /\ d.holds = c.holds /\ d.lock = c.lock
    <3> HIDE DEF c
    <3> QED BY <2>1, TakenType
  <2>5. Placed(d)
    <3> HIDE DEF c, d
    <3> QED BY <2>1, <2>4 DEF Placed
  <2>6. bufs' = [bufs EXCEPT ![NewBuf] = d] /\ thr' = [thr EXCEPT ![t] = W("publish")]
    BY <1>3, <1>4
  <2>7. Reads(t, NewBuf, d, W("publish"))
    <3>1. /\ W("publish") \in Calls /\ W("publish").pc = "publish" /\ W("publish").buf = NewBuf
          /\ W("publish").sec = thr[t].sec /\ W("publish").call = thr[t].call
      BY <1>2
    <3> HIDE DEF W, c, d
    <3> QED BY <1>1, <1>4, <2>1, <2>4, <2>5, <2>6, <3>1 DEF Reads
  <2> QED BY <2>7
<1>5. ASSUME InBounds(h.offset, h.size), holding([AllocatedDeviceBuffer(h) EXCEPT !.lock = 1], "copy")
      PROVE  \E n, b, w : Reads(t, n, b, w)
  <2> DEFINE c == [AllocatedDeviceBuffer(h) EXCEPT !.lock = 1]
             d == Take(t, c)
  <2>1. /\ c.kind = "device" /\ c.size = h.size /\ c.align = h.align
        /\ c \in Buffer /\ c.lock = 1 /\ c.holds = Nothing
    BY <1>1, DevicePlaced
  <2>4. d \in Buffer /\ d.owners = {t} /\ d.kind = c.kind /\ d.lock = c.lock
    <3> HIDE DEF c
    <3> QED BY <2>1, TakenType
  <2>5. bufs' = [bufs EXCEPT ![NewBuf] = d] /\ thr' = [thr EXCEPT ![t] = W("copy")]
    BY <1>3, <1>5
  <2>6. Reads(t, NewBuf, d, W("copy"))
    <3>1. /\ W("copy") \in Calls /\ W("copy").pc = "copy" /\ W("copy").buf = NewBuf
          /\ W("copy").sec = thr[t].sec /\ W("copy").call = thr[t].call
      BY <1>2
    <3> HIDE DEF W, c, d
    <3> QED BY <1>1, <1>5, <2>1, <2>4, <2>5, <3>1 DEF Reads
  <2> QED BY <2>6
<1>6. ASSUME isPowerOfTwo(h.align), InBounds(h.offset, h.size), NEW base \in HeapAddrs,
             holding(DynamicBuffer(h, base), "copy")
      PROVE  \E n, b, w : Reads(t, n, b, w)
  <2> DEFINE c == DynamicBuffer(h, base)
             d == Take(t, c)
  <2>1. /\ c.kind = "dynamic" /\ c.size = h.size /\ c.align = h.align
        /\ c \in Buffer /\ c.lock = 0 /\ c.holds = Nothing /\ Placed(c)
    BY <1>1, <1>6, DynamicPlaced
  <2>4. /\ d \in Buffer /\ d.owners = {t}
        /\ d.kind = c.kind /\ d.addr = c.addr /\ d.room = c.room /\ d.size = c.size /\ d.align = c.align
        /\ d.lock = c.lock
    <3> HIDE DEF c
    <3> QED BY <2>1, TakenType
  <2>5. Placed(d)
    <3> HIDE DEF c, d
    <3> QED BY <2>1, <2>4 DEF Placed
  <2>6. bufs' = [bufs EXCEPT ![NewBuf] = d] /\ thr' = [thr EXCEPT ![t] = W("copy")]
    BY <1>3, <1>6
  <2>7. Reads(t, NewBuf, d, W("copy"))
    <3>1. /\ W("copy") \in Calls /\ W("copy").pc = "copy" /\ W("copy").buf = NewBuf
          /\ W("copy").sec = thr[t].sec /\ W("copy").call = thr[t].call
      BY <1>2
    <3> HIDE DEF W, c, d
    <3> QED BY <1>1, <1>6, <2>1, <2>4, <2>5, <2>6, <3>1 DEF Reads
  <2> QED BY <2>7
<1>7. \/ thr' = [thr EXCEPT ![t] = Idle] /\ bufs' = bufs
      \/ /\ InBounds(h.offset, h.size)
         /\ \/ canEmplace(h) /\ holding(StaticBuffer(h), "publish")
            \/ holding([AllocatedDeviceBuffer(h) EXCEPT !.lock = 1], "copy")
            \/ isPowerOfTwo(h.align) /\ \E base \in HeapAddrs : holding(DynamicBuffer(h, base), "copy")
  BY Zenon DEF readInternal
<1> HIDE DEF holding, h
<1> QED BY <1>4, <1>5, <1>6, <1>7

\* CopyIn fills buffer n, which is b then, and the call of t goes on as w.
Fills(t, n, b, w) ==
    /\ n \in BufIds /\ n = thr[t].buf /\ thr[t].pc = "copy"
    /\ b \in Buffer /\ b.kind = bufs[n].kind /\ b.owners = bufs[n].owners
    /\ b.addr = bufs[n].addr /\ b.room = bufs[n].room /\ b.size = bufs[n].size /\ b.align = bufs[n].align
    /\ b.holds = Copied(table[thr[t].sec])
    /\ b.lock = (IF b.kind = "device" THEN bufs[n].lock - 1 ELSE bufs[n].lock)
    /\ w \in Calls /\ w.pc = "publish" /\ w.buf = n /\ w.sec = thr[t].sec /\ w.call = thr[t].call
    /\ bufs' = [bufs EXCEPT ![n] = b] /\ thr' = [thr EXCEPT ![t] = w]

\* That is all that it does.
LEMMA FillStep ==
    ASSUME TypeInv, OwnedInv, NEW t \in Threads, CopyIn(t)
    PROVE  \E n, b, w : Fills(t, n, b, w)
<1> DEFINE n == thr[t].buf
           h == table[thr[t].sec]
           c == [bufs[n] EXCEPT !.holds = Copied(h)]
           b == Unlocked(c)
           w == [thr[t] EXCEPT !.pc = "publish"]
<1>1. thr[t].pc = "copy" /\ Holds(t)
  BY DEF CopyIn, Holds
<1>2. /\ thr \in [Threads -> Calls] /\ thr[t] \in Calls /\ h \in Shdr
      /\ n \in BufIds /\ bufs[n] \in Buffer /\ failed \in BOOLEAN
  BY <1>1, CallFacts DEF TypeInv
<1>3. bufs' = [bufs EXCEPT ![n] = b] /\ thr' = [thr EXCEPT ![t] = w]
  BY Zenon DEF CopyIn
<1>4. w \in Calls /\ w.pc = "publish" /\ w.buf = n /\ w.sec = thr[t].sec /\ w.call = thr[t].call
  BY <1>2 DEF Calls
<1>5. Copied(h) \in Interval
  BY <1>2, BufferTypes DEF Copied
<1>6. /\ c \in Buffer /\ c.kind = bufs[n].kind /\ c.owners = bufs[n].owners
      /\ c.addr = bufs[n].addr /\ c.room = bufs[n].room /\ c.size = bufs[n].size /\ c.align = bufs[n].align
      /\ c.holds = Copied(h) /\ c.lock = bufs[n].lock
  <2> HIDE DEF h, n
  <2> QED BY <1>2, <1>5 DEF Buffer
<1> HIDE DEF c
<1>7. /\ b \in Buffer /\ b.kind = c.kind /\ b.owners = c.owners
      /\ b.addr = c.addr /\ b.room = c.room /\ b.size = c.size /\ b.align = c.align
      /\ b.holds = c.holds /\ b.lock = (IF c.kind = "device" THEN c.lock - 1 ELSE c.lock)
  <2>1. CASE c.kind = "device"
    BY <1>6, <2>1 DEF Unlocked, Buffer
  <2>2. CASE c.kind # "device"
    BY <1>6, <2>2 DEF Unlocked, Buffer
  <2> QED BY <2>1, <2>2
<1>8. Fills(t, n, b, w)
  <2> HIDE DEF b, w
  <2> QED BY <1>1, <1>2, <1>3, <1>4, <1>6, <1>7 DEF Fills
<1> QED BY <1>8

\* Publish puts the buffer into mDataBuffer, where it replaces a buffer that nobody else
\* owns; the call goes on as w.
Stores(t, s, n, old, b, w) ==
    /\ thr[t].pc = "publish" /\ thr[t].call = "data"
    /\ s = thr[t].sec /\ n = thr[t].buf /\ old = data[s] /\ n \in BufIds /\ n # old
    /\ b \in Buffer /\ b.kind = bufs[n].kind /\ b.owners = {"section"} /\ b.holds = bufs[n].holds
    /\ b.addr = bufs[n].addr /\ b.room = bufs[n].room /\ b.size = bufs[n].size /\ b.align = bufs[n].align
    /\ b.lock = bufs[n].lock
    /\ w \in Calls /\ w.pc = "using" /\ w.buf = n /\ w.sec = s /\ w.call = "data"
    /\ data' = [data EXCEPT ![s] = n]
    /\ bufs' = [m \in BufIds |-> IF m = n THEN b ELSE IF m = old THEN NoBuf ELSE bufs[m]]
    /\ thr' = [thr EXCEPT ![t] = w]
\* Or the caller keeps it.
Keeps(t, w) ==
    /\ thr[t].pc = "publish" /\ thr[t].call = "buffer"
    /\ w \in Calls /\ w.pc = "using" /\ w.buf = thr[t].buf /\ w.sec = thr[t].sec /\ w.call = "buffer"
    /\ UNCHANGED <<data, bufs>> /\ thr' = [thr EXCEPT ![t] = w]

\* It does one or the other.
LEMMA PublishStep ==
    ASSUME TypeInv, OwnedInv, NEW t \in Threads, Publish(t)
    PROVE  (\E s, n, old, b, w : Stores(t, s, n, old, b, w)) \/ (\E w : Keeps(t, w))
<1> DEFINE s == thr[t].sec
           n == thr[t].buf
           old == data[s]
           b == [bufs[n] EXCEPT !.owners = {"section"}]
           w == [thr[t] EXCEPT !.pc = "using"]
<1>1. thr[t].pc = "publish" /\ Holds(t)
  BY DEF Publish, Holds
<1>2. /\ thr \in [Threads -> Calls] /\ thr[t] \in Calls /\ s \in Secs /\ n \in BufIds /\ bufs[n] \in Buffer
      /\ data \in [Secs -> BufIds \cup {0}] /\ bufs \in [BufIds -> Buffer]
  BY <1>1, CallFacts DEF TypeInv
<1>3. thr' = [thr EXCEPT ![t] = w]
  BY Zenon DEF Publish
<1>4. w \in Calls /\ w.pc = "using" /\ w.buf = n /\ w.sec = s /\ w.call = thr[t].call
  BY <1>2 DEF Calls
<1>5. CASE thr[t].call = "data"
  <2>1. /\ data' = [data EXCEPT ![s] = n]
        /\ bufs' = [m \in BufIds |-> CASE m = n -> [bufs[m] EXCEPT !.owners = {"section"}]
                                       [] m = old -> Dropped(bufs[m], "section")
                                       [] OTHER   -> bufs[m]]
    BY <1>5, Zenon DEF Publish
  <2>2. /\ b \in Buffer /\ b.kind = bufs[n].kind /\ b.owners = {"section"} /\ b.holds = bufs[n].holds
        /\ b.addr = bufs[n].addr /\ b.room = bufs[n].room /\ b.size = bufs[n].size /\ b.align = bufs[n].align
        /\ b.lock = bufs[n].lock
    <3> HIDE DEF n
    <3> QED BY <1>2 DEF Buffer
  <2>3. bufs[n].owners = {t}
    BY <1>1 DEF OwnedInv
  <2>4. old # 0 => bufs[old].owners = {"section"}
    BY <1>2 DEF OwnedInv
  <2>5. 0 \notin BufIds
    BY BoundsAssumption DEF BufIds
  <2>6. n # old
    BY <1>2, <2>3, <2>4, <2>5, SectionAssumption
  <2>7. old \in BufIds => Dropped(bufs[old], "section") = NoBuf
    BY <2>4, <2>5 DEF Dropped
  <2>8. bufs' = [m \in BufIds |-> IF m = n THEN b ELSE IF m = old THEN NoBuf ELSE bufs[m]]
    <3> HIDE DEF n, old
    <3> QED BY <2>1, <2>6, <2>7
  <2>9. Stores(t, s, n, old, b, w)
    <3> HIDE DEF b, w
    <3> QED BY <1>1, <1>2, <1>3, <1>4, <1>5, <2>1, <2>2, <2>6, <2>8 DEF Stores
  <2> QED BY <2>9
<1>6. CASE thr[t].call # "data"
  <2>1. thr[t].call = "buffer" /\ UNCHANGED <<data, bufs>>
    BY <1>6, Zenon DEF Publish
  <2>2. Keeps(t, w)
    <3> HIDE DEF w
    <3> QED BY <1>1, <1>3, <1>4, <2>1 DEF Keeps
  <2> QED BY <2>2
<1> QED BY <1>5, <1>6

\* Done ends the call, and destroys the buffer that getDataBuffer returned.
LEMMA DoneStep ==
    ASSUME TypeInv, OwnedInv, NEW t \in Threads, Done(t)
    PROVE  /\ thr' = [thr EXCEPT ![t] = Idle]
           /\ \/ thr[t].call = "data" /\ bufs' = bufs
              \/ Holds(t) /\ thr[t].buf \in BufIds /\ bufs' = [bufs EXCEPT ![thr[t].buf] = NoBuf]
<1>1. thr[t].pc = "using" /\ thr' = [thr EXCEPT ![t] = Idle]
  BY DEF Done
<1>2. thr[t] \in Calls /\ thr[t].call # "none" /\ bufs \in [BufIds -> Buffer]
  BY <1>1, CallFacts DEF TypeInv
<1>3. CASE thr[t].call = "buffer"
  <2>1. Holds(t)
    BY <1>1, <1>3 DEF Holds
  <2>2. thr[t].buf \in BufIds /\ bufs[thr[t].buf].owners = {t}
    BY <1>1, <2>1, CallFacts DEF OwnedInv
  <2>3. bufs' = [bufs EXCEPT ![thr[t].buf] = Dropped(bufs[thr[t].buf], t)]
    BY <1>3, Zenon DEF Done
  <2>4. Dropped(bufs[thr[t].buf], t) = NoBuf
    BY <2>2 DEF Dropped
  <2> QED BY <1>1, <2>1, <2>2, <2>3, <2>4
<1>4. CASE thr[t].call # "buffer"
  <2>1. thr[t].call = "data"
    BY <1>2, <1>4 DEF Calls
  <2> QED BY <1>1, <1>4, <2>1 DEF Done
<1> QED BY <1>3, <1>4

\* getData and getDataBuffer begin a call, w, of an idle thread: it reads, or it uses
\* what is there.
Begins(t, w) ==
    /\ thr[t].pc = "idle" /\ (phase = "shared" \/ (phase = "loading" /\ t = Owner))
    /\ w \in Calls /\ w.sec \in Secs /\ w.call # "none"
    /\ \/ w.pc = "using" /\ w.call = "data" /\ w.sec \in Tables /\ w.buf = data[w.sec] /\ w.buf # 0
       \/ w.pc = "read" /\ (w.call = "data" => w.sec \in Tables /\ data[w.sec] = 0)
    /\ cache' = cache \cup {w.sec}
    /\ thr' = [thr EXCEPT ![t] = w]
    /\ UNCHANGED <<file, mgr, users, phase, table, data, bufs, failed, faults>>

\* Each of them.
LEMMA CallStep ==
    ASSUME TypeInv, NEW t \in Threads, NEW s \in DOMAIN data,
           getData(t, s) \/ (\E c \in BOOLEAN : getDataBuffer(t, s, c))
    PROVE  \E w : Begins(t, w)
<1>1. thr[t].pc = "idle" /\ (phase = "shared" \/ (phase = "loading" /\ t = Owner))
  BY DEF getData, getDataBuffer, MayCall
<1>2. data \in [Secs -> BufIds \cup {0}] /\ table[s] \in Shdr /\ s \in Secs /\ s \in Nat
  <2>1. Built
    BY <1>1 DEF Built
  <2>2. data \in [Secs -> BufIds \cup {0}]
    BY <2>1 DEF TypeInv
  <2>3. s \in Secs
    BY <2>2
  <2> QED BY <2>1, <2>2, <2>3, FileFacts DEF TypeInv
<1>3. table[s].npu \in BOOLEAN
  BY <1>2, ShdrFacts
<1>4. CASE getData(t, s)
  <2>1. /\ s \in Tables /\ cache' = cache \cup {s}
        /\ UNCHANGED <<file, mgr, users, phase, table, data, bufs, failed, faults>>
    BY <1>4 DEF getData
  <2>2. CASE HasData(s) /\ At(t, "using", "data", s, data[s], FALSE)
    <3> DEFINE w == [pc |-> "using", call |-> "data", sec |-> s, buf |-> data[s], npu |-> FALSE]
    <3>1. thr' = [thr EXCEPT ![t] = w]
      BY <2>2 DEF At
    <3>2. data[s] \in BufIds \cup {0} /\ data[s] # 0
      BY <1>2, <2>2 DEF HasData
    <3>3. w \in Calls /\ w.pc = "using" /\ w.call = "data" /\ w.sec = s /\ w.buf = data[s]
      BY <1>2, <3>2 DEF Calls
    <3>4. Begins(t, w)
      <4> HIDE DEF w
      <4> QED BY <1>1, <1>2, <2>1, <3>1, <3>2, <3>3 DEF Begins
    <3> QED BY <3>4
  <2>3. CASE ~HasData(s) /\ At(t, "read", "data", s, 0, table[s].npu)
    <3> DEFINE w == [pc |-> "read", call |-> "data", sec |-> s, buf |-> 0, npu |-> table[s].npu]
    <3>1. thr' = [thr EXCEPT ![t] = w]
      BY <2>3 DEF At
    <3>2. data[s] = 0
      BY <2>3 DEF HasData
    <3>3. w \in Calls /\ w.pc = "read" /\ w.call = "data" /\ w.sec = s
      BY <1>2, <1>3 DEF Calls
    <3>4. Begins(t, w)
      <4> HIDE DEF w
      <4> QED BY <1>1, <1>2, <2>1, <3>1, <3>2, <3>3 DEF Begins
    <3> QED BY <3>4
  <2> QED BY <1>4, <2>2, <2>3 DEF getData
<1>5. ASSUME NEW c \in BOOLEAN, getDataBuffer(t, s, c) PROVE \E w : Begins(t, w)
  <2>1. PICK n : n = (table[s].npu /\ ~c)
    OBVIOUS
  <2>2. n \in BOOLEAN
    BY <1>3, <1>5, <2>1
  <2>3. /\ cache' = cache \cup {s}
        /\ UNCHANGED <<file, mgr, users, phase, table, data, bufs, failed, faults>>
        /\ At(t, "read", "buffer", s, 0, n)
    BY <1>5, <2>1 DEF getDataBuffer
  <2> DEFINE w == [pc |-> "read", call |-> "buffer", sec |-> s, buf |-> 0, npu |-> n]
  <2>4. thr' = [thr EXCEPT ![t] = w]
    BY <2>3 DEF At
  <2>5. w \in Calls /\ w.pc = "read" /\ w.call = "buffer" /\ w.sec = s
    BY <1>2, <2>2 DEF Calls
  <2>6. Begins(t, w)
    <3> HIDE DEF w
    <3> QED BY <1>1, <1>2, <2>3, <2>4, <2>5 DEF Begins
  <2> QED BY <2>6
<1> QED BY <1>4, <1>5

\* What the steps of a call leave alone once it has begun.
KeepsRest == UNCHANGED <<file, mgr, users, phase, table, cache, failed, faults>>

\* readInternal, and the end of a call.
ReadsOrThrows(t) ==
    /\ thr[t].pc = "read"
    /\ \/ thr' = [thr EXCEPT ![t] = Idle] /\ bufs' = bufs
       \/ \E n, b, w : Reads(t, n, b, w)
Ends(t) ==
    /\ thr[t].pc = "using" /\ thr' = [thr EXCEPT ![t] = Idle]
    /\ \/ thr[t].call = "data" /\ bufs' = bufs
       \/ Holds(t) /\ thr[t].buf \in BufIds /\ bufs' = [bufs EXCEPT ![thr[t].buf] = NoBuf]

\* Every step of a call is one of these.
CallMoves(t) ==
    \/ \E w : Begins(t, w)
    \/ KeepsRest /\ UNCHANGED data /\ ReadsOrThrows(t)
    \/ KeepsRest /\ UNCHANGED data /\ \E n, b, w : Fills(t, n, b, w)
    \/ KeepsRest /\ \E s, n, old, b, w : Stores(t, s, n, old, b, w)
    \/ KeepsRest /\ \E w : Keeps(t, w)
    \/ KeepsRest /\ UNCHANGED data /\ Ends(t)

\* And every step is one of a call, or one of the Reader and the loader around it.
SetupStep == ReadHeader \/ ReadTable \/ ReadNames \/ RegisterSection \/ LoadDone \/ StreamFails

\* Next divides into the two.
LEMMA NextMoves ==
    ASSUME TypeInv, OwnedInv, Next
    PROVE  SetupStep \/ \E t \in Threads : CallMoves(t)
<1>1. ASSUME NEW t \in Threads, NEW s \in DOMAIN data, getData(t, s) PROVE CallMoves(t)
  BY <1>1, CallStep DEF CallMoves
<1>2. ASSUME NEW t \in Threads, NEW s \in DOMAIN data, NEW c \in BOOLEAN, getDataBuffer(t, s, c)
      PROVE  CallMoves(t)
  BY <1>2, CallStep DEF CallMoves
<1>3. ASSUME NEW t \in Threads, readInternal(t) PROVE CallMoves(t)
  <2>1. KeepsRest /\ UNCHANGED data /\ thr[t].pc = "read"
    BY <1>3 DEF readInternal, KeepsRest
  <2>2. ReadsOrThrows(t)
    BY <1>3, <2>1, ReadStep DEF ReadsOrThrows
  <2> QED BY <2>1, <2>2 DEF CallMoves
<1>4. ASSUME NEW t \in Threads, CopyIn(t) PROVE CallMoves(t)
  <2>1. KeepsRest /\ UNCHANGED data
    BY <1>4 DEF CopyIn, KeepsRest
  <2> QED BY <1>4, <2>1, FillStep DEF CallMoves
<1>5. ASSUME NEW t \in Threads, Publish(t) PROVE CallMoves(t)
  <2>1. KeepsRest
    BY <1>5 DEF Publish, KeepsRest
  <2> QED BY <1>5, <2>1, PublishStep DEF CallMoves
<1>6. ASSUME NEW t \in Threads, Done(t) PROVE CallMoves(t)
  <2>1. KeepsRest /\ UNCHANGED data /\ thr[t].pc = "using"
    BY <1>6 DEF Done, KeepsRest
  <2>2. Ends(t)
    BY <1>6, <2>1, DoneStep DEF Ends
  <2> QED BY <2>1, <2>2 DEF CallMoves
<1> QED BY <1>1, <1>2, <1>3, <1>4, <1>5, <1>6 DEF Next, SetupStep

-----------------------------------------------------------------------------
(* Types *)

\* A call that goes on, or ends, as w keeps the types.
LEMMA CallKeepsTypes ==
    ASSUME TypeInv, NEW t \in Threads, NEW w \in Calls, thr' = [thr EXCEPT ![t] = w],
           w.pc # "idle" => w.sec \in Secs /\ w.call # "none",
           phase \in {"loading", "shared"},
           UNCHANGED <<file, mgr, users, phase, table, failed, faults>>, cache' \subseteq Secs,
           data' \in [Secs -> BufIds \cup {0}], bufs' \in [BufIds -> Buffer]
    PROVE  TypeInv'
<1>1. thr \in [Threads -> Calls] /\ thr' \in [Threads -> Calls]
  BY DEF TypeInv
<1>2. Secs' = Secs
  BY DEF Secs
<1>3. \A u \in Threads : thr'[u].pc # "idle" => thr'[u].sec \in Secs /\ thr'[u].call # "none"
  BY <1>1 DEF TypeInv
<1>4. Built' = Built /\ Built
  BY DEF Built
<1>5. \A s \in Secs : table'[s] \in Shdr
  BY <1>4 DEF TypeInv
<1>6. /\ file' \in Files /\ mgr' \in Managers /\ users' \in [UserKinds -> Nat]
      /\ failed' \in BOOLEAN /\ faults' \in 0 .. MaxFaults
  BY DEF TypeInv
<1> QED BY <1>1, <1>2, <1>3, <1>4, <1>5, <1>6 DEF TypeInv

\* An idle thread is in no call.
LEMMA IdleType == Idle \in Calls /\ Idle.pc = "idle" /\ Idle.call = "none"
BY DEF Idle, Calls

\* Every step of a call.
LEMMA CallTypes == ASSUME TypeInv, OwnedInv, NEW t \in Threads, CallMoves(t) PROVE TypeInv'
<1>1. bufs \in [BufIds -> Buffer] /\ cache \subseteq Secs
  BY DEF TypeInv
<1>2. ASSUME NEW w, Begins(t, w) PROVE TypeInv'
  <2>1. phase \in {"loading", "shared"}
    BY <1>2 DEF Begins
  <2>2. data \in [Secs -> BufIds \cup {0}]
    BY <2>1 DEF TypeInv, Built
  <2>3. /\ w \in Calls /\ w.sec \in Secs /\ w.call # "none" /\ cache' \subseteq Secs
        /\ thr' = [thr EXCEPT ![t] = w] /\ bufs' = bufs /\ data' = data
        /\ UNCHANGED <<file, mgr, users, phase, table, failed, faults>>
    BY <1>1, <1>2 DEF Begins
  <2> QED BY <1>1, <2>1, <2>2, <2>3, CallKeepsTypes
<1>3. ASSUME KeepsRest, thr[t].pc # "idle"
      PROVE  /\ phase \in {"loading", "shared"} /\ cache' \subseteq Secs
             /\ data \in [Secs -> BufIds \cup {0}] /\ thr[t].sec \in Secs /\ thr[t].call # "none"
             /\ UNCHANGED <<file, mgr, users, phase, table, failed, faults>>
  BY <1>1, <1>3, CallFacts DEF KeepsRest, TypeInv
<1>4. ASSUME KeepsRest, UNCHANGED data, ReadsOrThrows(t) PROVE TypeInv'
  <2>1. thr[t].pc # "idle"
    BY <1>4 DEF ReadsOrThrows
  <2>2. CASE thr' = [thr EXCEPT ![t] = Idle] /\ bufs' = bufs
    BY <1>1, <1>3, <1>4, <2>1, <2>2, IdleType, CallKeepsTypes
  <2>3. ASSUME NEW n, NEW b, NEW w, Reads(t, n, b, w) PROVE TypeInv'
    <3>1. /\ w \in Calls /\ w.sec = thr[t].sec /\ w.call = thr[t].call /\ thr' = [thr EXCEPT ![t] = w]
          /\ bufs' = [bufs EXCEPT ![n] = b] /\ b \in Buffer
      BY <2>3 DEF Reads
    <3>2. bufs' \in [BufIds -> Buffer]
      BY <1>1, <3>1
    <3> QED BY <1>3, <1>4, <2>1, <3>1, <3>2, CallKeepsTypes
  <2> QED BY <1>4, <2>2, <2>3 DEF ReadsOrThrows
<1>5. ASSUME KeepsRest, UNCHANGED data, NEW n, NEW b, NEW w, Fills(t, n, b, w) PROVE TypeInv'
  <2>1. /\ w \in Calls /\ w.sec = thr[t].sec /\ w.call = thr[t].call /\ thr' = [thr EXCEPT ![t] = w]
        /\ bufs' = [bufs EXCEPT ![n] = b] /\ b \in Buffer /\ thr[t].pc # "idle"
    BY <1>5 DEF Fills
  <2>2. bufs' \in [BufIds -> Buffer]
    BY <1>1, <2>1
  <2> QED BY <1>3, <1>5, <2>1, <2>2, CallKeepsTypes
<1>6. ASSUME KeepsRest, NEW s, NEW n, NEW old, NEW b, NEW w, Stores(t, s, n, old, b, w) PROVE TypeInv'
  <2>1. /\ w \in Calls /\ w.sec = thr[t].sec /\ w.call = "data" /\ thr' = [thr EXCEPT ![t] = w]
        /\ bufs' = [m \in BufIds |-> IF m = n THEN b ELSE IF m = old THEN NoBuf ELSE bufs[m]]
        /\ b \in Buffer /\ n \in BufIds /\ thr[t].pc # "idle"
        /\ data' = [data EXCEPT ![s] = n]
    BY <1>6 DEF Stores
  <2>2. bufs' \in [BufIds -> Buffer]
    BY <1>1, <2>1, BufferTypes
  <2>3. data' \in [Secs -> BufIds \cup {0}]
    BY <1>3, <1>6, <2>1
  <2> QED BY <1>3, <1>6, <2>1, <2>2, <2>3, CallKeepsTypes
<1>7. ASSUME KeepsRest, NEW w, Keeps(t, w) PROVE TypeInv'
  <2>1. /\ w \in Calls /\ w.sec = thr[t].sec /\ w.call = "buffer" /\ thr' = [thr EXCEPT ![t] = w]
        /\ bufs' = bufs /\ data' = data /\ thr[t].pc # "idle"
    BY <1>7 DEF Keeps
  <2> QED BY <1>1, <1>3, <1>7, <2>1, CallKeepsTypes
<1>8. ASSUME KeepsRest, UNCHANGED data, Ends(t) PROVE TypeInv'
  <2>1. thr[t].pc # "idle" /\ thr' = [thr EXCEPT ![t] = Idle]
    BY <1>8 DEF Ends
  <2>2. bufs' \in [BufIds -> Buffer]
    BY <1>1, <1>8, BufferTypes DEF Ends
  <2> QED BY <1>3, <1>8, <2>1, <2>2, IdleType, CallKeepsTypes
<1> QED BY <1>2, <1>4, <1>5, <1>6, <1>7, <1>8 DEF CallMoves

\* What registers a section: the number of the next one is the size of the cache.
LEMMA NextSection ==
    ASSUME TypeInv, CacheInv, phase = "register"
    PROVE  \E n \in 0 .. file.shnum : cache = 0 .. n - 1 /\ Cardinality(cache) = n
<1>1. PICK n \in 0 .. file.shnum : cache = 0 .. n - 1
  BY DEF CacheInv
<1>2. file.shnum \in Nat /\ n \in Nat
  BY <1>1, FileFacts DEF TypeInv
<1>3. IsFiniteSet(0 .. n - 1) /\ Cardinality(0 .. n - 1) = n
  <2>1. CASE n = 0
    <3>1. 0 .. n - 1 = {}
      BY <2>1
    <3> QED BY <2>1, <3>1, FS_EmptySet
  <2>2. CASE n # 0
    <3>1. PICK m : m = n - 1
      OBVIOUS
    <3>2. 0 \in Int /\ m \in Int /\ 0 <= m /\ (m - 0) + 1 = n
      BY <1>2, <2>2, <3>1
    <3>3. IsFiniteSet(0 .. m) /\ Cardinality(0 .. m) = IF 0 > m THEN 0 ELSE (m - 0) + 1
      BY <3>2, FS_Interval
    <3> QED BY <3>1, <3>2, <3>3
  <2> QED BY <2>1, <2>2
<1> QED BY <1>1, <1>3

\* The descriptors that a table of user buffers leads to.
LEMMA RegisteredUsers ==
    ASSUME users \in [UserKinds -> Nat], NEW h \in Shdr, h.io \in UserKinds, h.entsize # 0
    PROVE  /\ getEntriesNum(h) \in Nat /\ registerUserIO(h) \in [UserKinds -> Nat]
           /\ \A k \in UserKinds :
                registerUserIO(h)[k] = IF k = h.io /\ getEntriesNum(h) > 1 THEN getEntriesNum(h) - 1 ELSE users[k]
<1>1. h.size \in Nat /\ h.entsize \in Nat \ {0}
  BY ShdrFacts
<1>2. getEntriesNum(h) \in Nat
  BY <1>1 DEF getEntriesNum
<1> QED BY <1>2 DEF registerUserIO

\* The steps around the calls.
LEMMA SetupTypes == ASSUME TypeInv, CacheInv, SetupStep PROVE TypeInv'
<1> USE DEF TypeInv, Built
<1>1. CASE ReadHeader
  <2>1. /\ UNCHANGED <<file, mgr, users, table, cache, data, bufs, thr, failed, faults>>
        /\ phase = "header" /\ phase' \in {"table", "refused"}
    BY <1>1 DEF ReadHeader
  <2> QED BY <2>1 DEF Secs
<1>2. CASE ReadTable
  <2>1. UNCHANGED <<file, mgr, users, cache, bufs, thr, failed, faults>> /\ phase = "table" /\ Secs' = Secs
    BY <1>2 DEF ReadTable, Secs
  <2>2. CASE phase' = "refused" /\ UNCHANGED <<table, data>>
    BY <2>1, <2>2
  <2>3. CASE /\ phase' = "names"
             /\ table' = IF failed THEN [s \in Secs |-> NullShdr] ELSE file.table
             /\ data' = [s \in Secs |-> 0]
    <3>1. \A s \in Secs : table'[s] \in Shdr
      <4>1. CASE failed
        BY <2>3, <4>1, NullShdrType
      <4>2. CASE ~failed
        BY <2>3, <4>2, FileFacts
      <4> QED BY <4>1, <4>2
    <3> QED BY <2>1, <2>3, <3>1
  <2> QED BY <1>2, <2>2, <2>3 DEF ReadTable
<1>3. CASE ReadNames
  <2>1. /\ UNCHANGED <<file, mgr, users, table, cache, data, bufs, thr, failed, faults>>
        /\ phase = "names" /\ phase' \in {"register", "refused"} /\ Secs' = Secs
    BY <1>3 DEF ReadNames, Secs
  <2> QED BY <2>1
<1>4. CASE RegisterSection
  <2>1. /\ UNCHANGED <<file, mgr, table, data, bufs, thr, failed, faults>>
        /\ phase = "register" /\ phase' \in {"register", "loading", "refused"} /\ Secs' = Secs
    BY <1>4 DEF RegisterSection, Secs
  <2>2. PICK n \in 0 .. file.shnum : cache = 0 .. n - 1 /\ Cardinality(cache) = n
    BY <2>1, NextSection
  <2>3. file.shnum \in Nat
    BY FileFacts
  <2>4. cache' \subseteq Secs
    <3>1. cache' = cache \/ (n <= file.shnum - 1 /\ cache' = cache \cup {n})
      BY <1>4, <2>2 DEF RegisterSection, LastRegistered
    <3> QED BY <2>2, <2>3, <3>1 DEF Secs
  <2>5. users' \in [UserKinds -> Nat]
    <3>1. CASE UNCHANGED users
      BY <3>1
    <3>2. CASE /\ n <= file.shnum - 1 /\ EarlyFetched(table[n]) /\ ~EarlyRefused(table[n])
               /\ users' = registerUserIO(table[n])
      <4>1. n \in Secs
        BY <2>2, <2>3, <3>2 DEF Secs
      <4>2. table[n] \in Shdr /\ table[n].io \in UserKinds /\ table[n].entsize # 0
        BY <2>1, <3>2, <4>1 DEF EarlyFetched, EarlyRefused
      <4> QED BY <3>2, <4>2, RegisteredUsers
    <3> QED BY <1>4, <2>2, <3>1, <3>2 DEF RegisterSection, LastRegistered
  <2> QED BY <2>1, <2>4, <2>5
<1>5. CASE LoadDone
  <2>1. /\ UNCHANGED <<file, mgr, users, table, cache, data, bufs, thr, failed, faults>>
        /\ phase = "loading" /\ phase' = "shared" /\ Secs' = Secs
    BY <1>5 DEF LoadDone, Secs
  <2> QED BY <2>1
<1>6. CASE StreamFails
  <2>1. /\ UNCHANGED <<file, mgr, users, phase, table, cache, data, bufs, thr>>
        /\ faults < MaxFaults /\ failed' = TRUE /\ faults' = faults + 1 /\ Secs' = Secs
    BY <1>6 DEF StreamFails, Secs
  <2>2. faults' \in 0 .. MaxFaults
    BY <2>1, BoundsAssumption
  <2> QED BY <2>1, <2>2
<1> QED BY <1>1, <1>2, <1>3, <1>4, <1>5, <1>6 DEF SetupStep

\* The cache, in the steps around the calls.
LEMMA SetupCache == ASSUME TypeInv, CacheInv, SetupStep PROVE CacheInv'
<1>1. CASE ReadHeader
  <2>1. phase = "header" /\ phase' \in {"table", "refused"} /\ cache' = cache
    BY <1>1 DEF ReadHeader
  <2> QED BY <2>1 DEF CacheInv
<1>2. CASE ReadTable
  <2>1. phase = "table" /\ phase' \in {"names", "refused"} /\ cache' = cache
    BY <1>2 DEF ReadTable
  <2> QED BY <2>1 DEF CacheInv
<1>3. CASE ReadNames
  <2>1. phase = "names" /\ phase' \in {"register", "refused"} /\ cache' = cache /\ file' = file
    BY <1>3 DEF ReadNames
  <2>2. cache = {} /\ 0 \in 0 .. file.shnum /\ 0 .. 0 - 1 = {}
    BY <2>1, FileFacts DEF CacheInv, TypeInv
  <2>3. \E n \in 0 .. file.shnum : cache = 0 .. n - 1
    BY <2>2
  <2> QED BY <2>1, <2>3 DEF CacheInv
<1>4. CASE RegisterSection
  <2>1. phase = "register" /\ phase' \in {"register", "loading", "refused"} /\ file' = file
    BY <1>4 DEF RegisterSection
  <2>2. PICK n \in 0 .. file.shnum : cache = 0 .. n - 1 /\ Cardinality(cache) = n
    BY <2>1, NextSection
  <2>3. file.shnum \in Nat
    BY FileFacts DEF TypeInv
  <2>4. CASE n <= file.shnum - 1
    <3>1. cache' = cache \cup {n} /\ phase' \in {"register", "refused"}
      BY <1>4, <2>1, <2>2, <2>3, <2>4 DEF RegisterSection, LastRegistered
    <3>2. cache' = 0 .. (n + 1) - 1 /\ n + 1 \in 0 .. file.shnum
      BY <2>2, <2>3, <2>4, <3>1
    <3> QED BY <2>1, <3>1, <3>2 DEF CacheInv
  <2>5. CASE ~(n <= file.shnum - 1)
    <3>1. cache' = cache /\ phase' = "loading"
      BY <1>4, <2>2, <2>3, <2>5 DEF RegisterSection, LastRegistered
    <3>2. cache = Secs
      BY <2>2, <2>3, <2>5 DEF Secs
    <3> QED BY <2>1, <3>1, <3>2 DEF CacheInv, Secs
  <2> QED BY <2>4, <2>5
<1>5. CASE LoadDone
  <2>1. phase = "loading" /\ phase' = "shared" /\ cache' = cache /\ file' = file
    BY <1>5 DEF LoadDone
  <2> QED BY <2>1 DEF CacheInv, Secs
<1>6. CASE StreamFails
  <2>1. phase' = phase /\ cache' = cache /\ file' = file
    BY <1>6 DEF StreamFails
  <2> QED BY <2>1 DEF CacheInv, Secs
<1> QED BY <1>1, <1>2, <1>3, <1>4, <1>5, <1>6 DEF SetupStep

\* And in a call, which finds every section in it.
LEMMA CallCache ==
    ASSUME TypeInv, CacheInv, NEW t \in Threads, CallMoves(t)
    PROVE  CacheInv' /\ cache' = cache
<1>1. phase' = phase /\ file' = file
  BY DEF CallMoves, Begins, KeepsRest
<1>2. cache' = cache
  <2>1. ASSUME NEW w, Begins(t, w) PROVE cache' = cache
    <3>1. phase \in {"loading", "shared"} /\ w.sec \in Secs /\ cache' = cache \cup {w.sec}
      BY <2>1 DEF Begins
    <3>2. cache = Secs
      BY <3>1 DEF CacheInv
    <3> QED BY <3>1, <3>2
  <2> QED BY <2>1 DEF CallMoves, KeepsRest
<1> QED BY <1>1, <1>2 DEF CacheInv, Secs

-----------------------------------------------------------------------------
(* Who owns a buffer, when it is locked, and where it lies *)

\* A buffer has a number that is not 0.
LEMMA NumbersFacts == 0 \notin BufIds
BY BoundsAssumption DEF BufIds

\* Locks and places of the buffers, put for the lemmas below.
Copies(b) == \E t \in Threads : thr[t].pc = "copy" /\ thr[t].buf = b
LockInv == \A b \in BufIds : bufs[b].lock = (IF bufs[b].kind = "device" /\ Copies(b) THEN 1 ELSE 0)
PlaceInv == \A b \in BufIds : bufs[b].kind \in {"static", "dynamic"} => Placed(bufs[b])

\* They say what the checked properties say.
LEMMA Readings == (LockInv <=> LockedWhileCopied) /\ (PlaceInv <=> WellPlaced)
BY Zenon DEF LockInv, LockedWhileCopied, Copies, PlaceInv, WellPlaced, Placed

\* The buffers and the calls stay as they are in a step around the calls.
LEMMA SetupBuffers ==
    ASSUME TypeInv, OwnedInv, LockInv, PlaceInv, SetupStep
    PROVE  OwnedInv' /\ LockInv' /\ PlaceInv'
<1>1. bufs' = bufs /\ thr' = thr /\ mgr' = mgr
  BY DEF SetupStep, ReadHeader, ReadTable, ReadNames, RegisterSection, LoadDone, StreamFails
<1>2. data' = data \/ \A s \in DOMAIN data' : data'[s] = 0
  <2>1. ReadTable => data' = data \/ data' = [s \in Secs |-> 0]
    BY DEF ReadTable
  <2>2. ~ReadTable => data' = data
    BY DEF SetupStep, ReadHeader, ReadTable, ReadNames, RegisterSection, LoadDone, StreamFails
  <2> QED BY <2>1, <2>2
<1>3. OwnedInv'
  BY <1>1, <1>2 DEF OwnedInv, Holds
<1>4. LockInv'
  BY <1>1 DEF LockInv, Copies
<1>5. PlaceInv'
  BY <1>1 DEF PlaceInv, Placed
<1> QED BY <1>3, <1>4, <1>5

\* Nor do steps that leave the buffers alone and neither begin nor end to hold one.
LEMMA QuietBuffers ==
    ASSUME TypeInv, OwnedInv, LockInv, PlaceInv, bufs' = bufs, mgr' = mgr, data' = data,
           NEW t \in Threads, NEW w, thr' = [thr EXCEPT ![t] = w],
           thr[t].pc # "copy", w.pc # "copy",
           ~(w.pc \in {"copy", "publish"} \/ (w.pc = "using" /\ w.call = "buffer")) \/ (Holds(t) /\ w.buf = thr[t].buf)
    PROVE  OwnedInv' /\ LockInv' /\ PlaceInv'
<1>1. thr \in [Threads -> Calls]
  BY DEF TypeInv
<1>2. thr'[t] = w /\ \A u \in Threads : u # t => thr'[u] = thr[u]
  BY <1>1
<1>3. \A u \in Threads : Holds(u)' => Holds(u) /\ thr'[u].buf = thr[u].buf
  BY <1>2 DEF Holds
<1>4. OwnedInv'
  BY <1>3 DEF OwnedInv
<1>5. \A b \in BufIds : Copies(b)' <=> Copies(b)
  BY <1>2 DEF Copies
<1>6. LockInv'
  BY <1>5 DEF LockInv
<1>7. PlaceInv'
  BY DEF PlaceInv, Placed
<1> QED BY <1>4, <1>6, <1>7

\* readInternal: nobody has the new buffer yet.
LEMMA ReadsBuffers ==
    ASSUME TypeInv, OwnedInv, LockInv, PlaceInv, mgr' = mgr, data' = data,
           NEW t \in Threads, thr[t].pc = "read", NEW n, NEW b, NEW w, Reads(t, n, b, w)
    PROVE  OwnedInv' /\ LockInv' /\ PlaceInv'
<1>1. /\ thr \in [Threads -> Calls] /\ bufs \in [BufIds -> Buffer]
      /\ thr' = [thr EXCEPT ![t] = w] /\ bufs' = [bufs EXCEPT ![n] = b]
  BY DEF TypeInv, Reads
<1>2. /\ n \in BufIds /\ bufs[n].kind = "none" /\ b \in Buffer /\ b.kind # "none" /\ b.owners = {t} /\ w.buf = n
      /\ b.lock = (IF b.kind = "device" THEN 1 ELSE 0)
      /\ b.kind \in {"static", "dynamic"} => Placed(b)
      /\ w.pc = (IF b.kind = "static" THEN "publish" ELSE "copy")
  BY DEF Reads
<1>3. thr'[t] = w /\ \A u \in Threads : u # t => thr'[u] = thr[u]
  BY <1>1
<1>4. bufs'[n] = b /\ \A m \in BufIds : m # n => bufs'[m] = bufs[m]
  BY <1>1, <1>2
<1>5. \A u \in Threads : Holds(u) => thr[u].buf # n /\ thr[u].buf \in BufIds
  <2>1. ASSUME NEW u \in Threads, Holds(u) PROVE thr[u].buf # n /\ thr[u].buf \in BufIds
    <3>1. thr[u].buf # 0 /\ bufs[thr[u].buf].kind # "none"
      BY <2>1 DEF OwnedInv
    <3>2. thr[u].buf \in BufIds \cup {0}
      BY <1>1 DEF Calls
    <3> QED BY <1>2, <3>1, <3>2
  <2> QED BY <2>1
<1>6. \A s \in DOMAIN data : data[s] # 0 => data[s] # n /\ data[s] \in BufIds
  <2>1. ASSUME NEW s \in DOMAIN data, data[s] # 0 PROVE data[s] # n /\ data[s] \in BufIds
    <3>1. bufs[data[s]].kind # "none"
      BY <2>1 DEF OwnedInv
    <3>2. data[s] \in BufIds \cup {0}
      BY DEF TypeInv
    <3> QED BY <1>2, <2>1, <3>1, <3>2
  <2> QED BY <2>1
<1>7. OwnedInv'
  <2>1. ASSUME NEW u \in Threads, Holds(u)'
        PROVE  thr'[u].buf # 0 /\ bufs'[thr'[u].buf].kind # "none" /\ bufs'[thr'[u].buf].owners = {u}
    <3>1. CASE u = t
      BY <1>2, <1>3, <1>4, <3>1, NumbersFacts
    <3>2. CASE u # t
      <4>1. thr'[u] = thr[u] /\ Holds(u)
        BY <1>3, <2>1, <3>2 DEF Holds
      <4> QED BY <1>4, <1>5, <4>1 DEF OwnedInv
    <3> QED BY <3>1, <3>2
  <2>2. ASSUME NEW s \in DOMAIN data', data'[s] # 0
        PROVE  /\ bufs'[data'[s]].kind # "none" /\ bufs'[data'[s]].owners = {"section"}
               /\ \A r \in DOMAIN data' : r # s => data'[r] # data'[s]
    <3>1. s \in DOMAIN data /\ data[s] # 0
      BY <2>2
    <3>2. bufs'[data[s]] = bufs[data[s]]
      BY <1>4, <1>6, <3>1
    <3> QED BY <3>1, <3>2 DEF OwnedInv
  <2> QED BY <2>1, <2>2 DEF OwnedInv
<1>8. LockInv'
  <2>1. ASSUME NEW m \in BufIds PROVE bufs'[m].lock = (IF bufs'[m].kind = "device" /\ Copies(m)' THEN 1 ELSE 0)
    <3>1. CASE m = n
      <4>1. b.kind = "device" => Copies(m)'
        BY <1>2, <1>3, <3>1 DEF Copies
      <4> QED BY <1>2, <1>4, <3>1, <4>1
    <3>2. CASE m # n
      <4>1. Copies(m)' <=> Copies(m)
        BY <1>2, <1>3, <3>2 DEF Copies
      <4> QED BY <1>4, <3>2, <4>1 DEF LockInv
    <3> QED BY <3>1, <3>2
  <2> QED BY <2>1 DEF LockInv
<1>9. PlaceInv'
  <2>1. \A c : Placed(c)' <=> Placed(c)
    BY DEF Placed
  <2>2. ASSUME NEW m \in BufIds, bufs'[m].kind \in {"static", "dynamic"} PROVE Placed(bufs'[m])
    BY <1>2, <1>4, <2>2 DEF PlaceInv
  <2>3. ASSUME NEW m \in BufIds, bufs'[m].kind \in {"static", "dynamic"} PROVE Placed(bufs[m])'
    BY <2>2, <2>3 DEF Placed
  <2> QED BY <2>3 DEF PlaceInv
<1> QED BY <1>7, <1>8, <1>9

\* CopyIn: the thread that fills the buffer is the only one that has it.
LEMMA FillsBuffers ==
    ASSUME TypeInv, OwnedInv, LockInv, PlaceInv, mgr' = mgr, data' = data,
           NEW t \in Threads, NEW n, NEW b, NEW w, Fills(t, n, b, w)
    PROVE  OwnedInv' /\ LockInv' /\ PlaceInv'
<1>1. /\ thr \in [Threads -> Calls] /\ bufs \in [BufIds -> Buffer]
      /\ thr' = [thr EXCEPT ![t] = w] /\ bufs' = [bufs EXCEPT ![n] = b]
  BY DEF TypeInv, Fills
<1>2. /\ n \in BufIds /\ n = thr[t].buf /\ thr[t].pc = "copy" /\ w.buf = n /\ w.pc = "publish"
      /\ b \in Buffer /\ b.kind = bufs[n].kind /\ b.owners = bufs[n].owners
      /\ b.addr = bufs[n].addr /\ b.room = bufs[n].room /\ b.size = bufs[n].size /\ b.align = bufs[n].align
      /\ b.lock = (IF b.kind = "device" THEN bufs[n].lock - 1 ELSE bufs[n].lock)
  BY DEF Fills
<1>3. thr'[t] = w /\ \A u \in Threads : u # t => thr'[u] = thr[u]
  BY <1>1
<1>4. bufs'[n] = b /\ \A m \in BufIds : m # n => bufs'[m] = bufs[m]
  BY <1>1, <1>2
<1>5. \A u \in Threads : Holds(u)' => Holds(u) /\ thr'[u].buf = thr[u].buf
  BY <1>2, <1>3 DEF Holds
<1>6. \A u \in Threads : u # t /\ Holds(u) => thr[u].buf # n
  <2>1. bufs[n].owners = {t}
    BY <1>2 DEF OwnedInv, Holds
  <2> QED BY <2>1 DEF OwnedInv
<1>7. OwnedInv'
  <2>1. \A m \in BufIds : bufs'[m].kind = bufs[m].kind /\ bufs'[m].owners = bufs[m].owners
    BY <1>2, <1>4
  <2>2. ASSUME NEW u \in Threads, Holds(u)'
        PROVE  thr'[u].buf # 0 /\ bufs'[thr'[u].buf].kind # "none" /\ bufs'[thr'[u].buf].owners = {u}
    <3>1. Holds(u) /\ thr'[u].buf = thr[u].buf
      BY <1>5, <2>2
    <3>2. thr[u].buf # 0 /\ thr[u].buf \in BufIds \cup {0}
      BY <1>1, <3>1 DEF OwnedInv, Calls
    <3> QED BY <2>1, <3>1, <3>2 DEF OwnedInv
  <2>3. ASSUME NEW s \in DOMAIN data', data'[s] # 0
        PROVE  /\ bufs'[data'[s]].kind # "none" /\ bufs'[data'[s]].owners = {"section"}
               /\ \A r \in DOMAIN data' : r # s => data'[r] # data'[s]
    <3>1. s \in DOMAIN data /\ data[s] # 0 /\ data[s] \in BufIds \cup {0}
      BY <2>3 DEF TypeInv
    <3> QED BY <2>1, <3>1 DEF OwnedInv
  <2> QED BY <2>2, <2>3 DEF OwnedInv
<1>8. LockInv'
  <2>1. ASSUME NEW m \in BufIds PROVE bufs'[m].lock = (IF bufs'[m].kind = "device" /\ Copies(m)' THEN 1 ELSE 0)
    <3>1. CASE m = n
      <4>1. ~Copies(m)'
        <5>1. ASSUME NEW u \in Threads, thr'[u].pc = "copy", thr'[u].buf = n PROVE FALSE
          <6>1. u # t
            BY <1>2, <1>3, <5>1
          <6>2. Holds(u) /\ thr[u].buf = n
            BY <1>3, <5>1, <6>1 DEF Holds
          <6> QED BY <1>6, <6>1, <6>2
        <5> QED BY <3>1, <5>1 DEF Copies
      <4>2. Copies(m)
        BY <1>2, <3>1 DEF Copies
      <4>3. bufs[m].lock = (IF bufs[m].kind = "device" THEN 1 ELSE 0)
        BY <4>2 DEF LockInv
      <4> QED BY <1>2, <1>4, <3>1, <4>1, <4>3
    <3>2. CASE m # n
      <4>1. Copies(m)' <=> Copies(m)
        BY <1>2, <1>3, <3>2 DEF Copies
      <4> QED BY <1>4, <3>2, <4>1 DEF LockInv
    <3> QED BY <3>1, <3>2
  <2> QED BY <2>1 DEF LockInv
<1>9. PlaceInv'
  <2>1. ASSUME NEW m \in BufIds
        PROVE  /\ bufs'[m].kind = bufs[m].kind /\ bufs'[m].addr = bufs[m].addr /\ bufs'[m].room = bufs[m].room
               /\ bufs'[m].size = bufs[m].size /\ bufs'[m].align = bufs[m].align
    BY <1>2, <1>4
  <2> QED BY <2>1 DEF PlaceInv, Placed
<1> QED BY <1>7, <1>8, <1>9

\* Publish: mDataBuffer has its buffer alone, and nobody has the one that it had.
LEMMA StoresBuffers ==
    ASSUME TypeInv, OwnedInv, LockInv, PlaceInv, mgr' = mgr,
           NEW t \in Threads, NEW s, NEW n, NEW old, NEW b, NEW w, Stores(t, s, n, old, b, w)
    PROVE  OwnedInv' /\ LockInv' /\ PlaceInv'
<1>1. /\ thr \in [Threads -> Calls] /\ thr' = [thr EXCEPT ![t] = w]
      /\ bufs' = [m \in BufIds |-> IF m = n THEN b ELSE IF m = old THEN NoBuf ELSE bufs[m]]
      /\ data' = [data EXCEPT ![s] = n]
  BY DEF TypeInv, Stores
<1>2. /\ thr[t].pc = "publish" /\ s = thr[t].sec /\ n = thr[t].buf /\ old = data[s] /\ n \in BufIds /\ n # old
      /\ b.kind = bufs[n].kind /\ b.owners = {"section"}
      /\ b.addr = bufs[n].addr /\ b.room = bufs[n].room /\ b.size = bufs[n].size /\ b.align = bufs[n].align
      /\ b.lock = bufs[n].lock
      /\ w.pc = "using" /\ w.buf = n /\ w.call = "data"
  BY DEF Stores
<1>3. data \in [Secs -> BufIds \cup {0}] /\ s \in Secs
  BY <1>2, CallFacts
<1>4. thr'[t] = w /\ \A u \in Threads : u # t => thr'[u] = thr[u]
  BY <1>1
<1>5. data'[s] = n /\ \A r \in Secs : r # s => data'[r] = data[r]
  BY <1>1, <1>3
<1>6. bufs[n].owners = {t} /\ bufs[n].kind # "none"
  BY <1>2 DEF OwnedInv, Holds
<1>7. old # 0 => bufs[old].owners = {"section"} /\ \A r \in Secs : r # s => data[r] # old
  BY <1>2, <1>3 DEF OwnedInv
<1>8. \A u \in Threads : Holds(u)' => u # t /\ Holds(u) /\ thr'[u].buf = thr[u].buf
  BY <1>2, <1>4 DEF Holds
<1>9. \A u \in Threads : u # t /\ Holds(u) => thr[u].buf # n /\ thr[u].buf # old /\ thr[u].buf \in BufIds
  <2>1. ASSUME NEW u \in Threads, u # t, Holds(u) PROVE thr[u].buf # n /\ thr[u].buf # old /\ thr[u].buf \in BufIds
    <3>1. bufs[thr[u].buf].owners = {u} /\ thr[u].buf # 0
      BY <2>1 DEF OwnedInv
    <3>2. thr[u].buf \in BufIds \cup {0}
      BY <1>1 DEF Calls
    <3> QED BY <1>6, <1>7, <2>1, <3>1, <3>2, SectionAssumption
  <2> QED BY <2>1
<1>10. \A r \in Secs : r # s /\ data[r] # 0 => data[r] # n /\ data[r] # old /\ data[r] \in BufIds
  <2>1. ASSUME NEW r \in Secs, r # s, data[r] # 0 PROVE data[r] # n /\ data[r] # old /\ data[r] \in BufIds
    <3>1. bufs[data[r]].owners = {"section"} /\ (old # 0 => data[r] # old)
      BY <1>3, <1>7, <2>1 DEF OwnedInv
    <3> QED BY <1>3, <1>6, <2>1, <3>1, SectionAssumption
  <2> QED BY <2>1
<1>11. OwnedInv'
  <2>1. ASSUME NEW u \in Threads, Holds(u)'
        PROVE  thr'[u].buf # 0 /\ bufs'[thr'[u].buf].kind # "none" /\ bufs'[thr'[u].buf].owners = {u}
    <3>1. u # t /\ Holds(u) /\ thr'[u].buf = thr[u].buf
      BY <1>8, <2>1
    <3>2. bufs'[thr[u].buf] = bufs[thr[u].buf]
      BY <1>1, <1>9, <3>1
    <3> QED BY <3>1, <3>2 DEF OwnedInv
  <2>2. ASSUME NEW r \in DOMAIN data', data'[r] # 0
        PROVE  /\ bufs'[data'[r]].kind # "none" /\ bufs'[data'[r]].owners = {"section"}
               /\ \A q \in DOMAIN data' : q # r => data'[q] # data'[r]
    <3>1. DOMAIN data' = Secs /\ DOMAIN data = Secs
      BY <1>1, <1>3
    <3>2. CASE r = s
      <4>1. bufs'[n] = b
        BY <1>1, <1>2
      <4>2. \A q \in Secs : q # s => data'[q] # n
        BY <1>2, <1>5, <1>10, NumbersFacts
      <4> QED BY <1>2, <1>5, <1>6, <3>1, <3>2, <4>1, <4>2
    <3>3. CASE r # s
      <4>1. data'[r] = data[r] /\ data[r] # 0 /\ data[r] # n /\ data[r] # old /\ data[r] \in BufIds
        BY <1>5, <1>10, <2>2, <3>1, <3>3
      <4>2. bufs'[data[r]] = bufs[data[r]]
        BY <1>1, <4>1
      <4>3. /\ bufs[data[r]].kind # "none" /\ bufs[data[r]].owners = {"section"}
            /\ \A q \in Secs : q # r => data[q] # data[r]
        BY <2>2, <3>1, <4>1 DEF OwnedInv
      <4>4. \A q \in Secs : q # r => data'[q] # data[r]
        BY <1>5, <4>1, <4>3
      <4> QED BY <3>1, <4>1, <4>2, <4>3, <4>4
    <3> QED BY <3>2, <3>3
  <2> QED BY <2>1, <2>2 DEF OwnedInv
<1>12. LockInv'
  <2>1. ASSUME NEW m \in BufIds PROVE bufs'[m].lock = (IF bufs'[m].kind = "device" /\ Copies(m)' THEN 1 ELSE 0)
    <3>1. Copies(m)' <=> Copies(m)
      BY <1>2, <1>4 DEF Copies
    <3>2. CASE m = n
      BY <1>1, <1>2, <3>1, <3>2 DEF LockInv
    <3>3. CASE m = old /\ m # n
      BY <1>1, <3>3, BufferTypes
    <3>4. CASE m # old /\ m # n
      BY <1>1, <3>1, <3>4 DEF LockInv
    <3> QED BY <3>2, <3>3, <3>4
  <2> QED BY <2>1 DEF LockInv
<1>13. PlaceInv'
  <2>1. ASSUME NEW m \in BufIds, bufs'[m].kind \in {"static", "dynamic"}
        PROVE  /\ bufs'[m].kind = bufs[m].kind /\ bufs'[m].addr = bufs[m].addr /\ bufs'[m].room = bufs[m].room
               /\ bufs'[m].size = bufs[m].size /\ bufs'[m].align = bufs[m].align
    BY <1>1, <1>2, <2>1, BufferTypes
  <2> QED BY <2>1 DEF PlaceInv, Placed
<1> QED BY <1>11, <1>12, <1>13

\* Done: the buffer that is destroyed was the caller's alone.
LEMMA EndsBuffers ==
    ASSUME TypeInv, OwnedInv, LockInv, PlaceInv, mgr' = mgr, data' = data,
           NEW t \in Threads, NEW n \in BufIds, n = thr[t].buf, Holds(t), thr[t].pc = "using",
           thr' = [thr EXCEPT ![t] = Idle], bufs' = [bufs EXCEPT ![n] = NoBuf]
    PROVE  OwnedInv' /\ LockInv' /\ PlaceInv'
<1>1. thr \in [Threads -> Calls] /\ bufs \in [BufIds -> Buffer]
  BY DEF TypeInv
<1>2. thr'[t] = Idle /\ \A u \in Threads : u # t => thr'[u] = thr[u]
  BY <1>1
<1>3. bufs'[n] = NoBuf /\ \A m \in BufIds : m # n => bufs'[m] = bufs[m]
  BY <1>1
<1>4. bufs[n].owners = {t}
  BY DEF OwnedInv
<1>5. OwnedInv'
  <2>1. ASSUME NEW u \in Threads, Holds(u)'
        PROVE  thr'[u].buf # 0 /\ bufs'[thr'[u].buf].kind # "none" /\ bufs'[thr'[u].buf].owners = {u}
    <3>1. u # t
      BY <1>2, <2>1, IdleType DEF Holds
    <3>2. thr'[u] = thr[u] /\ Holds(u)
      BY <1>2, <2>1, <3>1 DEF Holds
    <3>3. thr[u].buf # 0 /\ bufs[thr[u].buf].kind # "none" /\ bufs[thr[u].buf].owners = {u}
      BY <3>2 DEF OwnedInv
    <3>4. thr[u].buf \in BufIds
      BY <1>1, <3>3 DEF Calls
    <3>5. bufs'[thr[u].buf] = bufs[thr[u].buf]
      BY <1>3, <1>4, <3>1, <3>3, <3>4
    <3> QED BY <3>2, <3>3, <3>5
  <2>2. ASSUME NEW s \in DOMAIN data', data'[s] # 0
        PROVE  /\ bufs'[data'[s]].kind # "none" /\ bufs'[data'[s]].owners = {"section"}
               /\ \A r \in DOMAIN data' : r # s => data'[r] # data'[s]
    <3>1. s \in DOMAIN data /\ data[s] # 0 /\ data[s] \in BufIds \cup {0}
      BY <2>2 DEF TypeInv
    <3>2. /\ bufs[data[s]].kind # "none" /\ bufs[data[s]].owners = {"section"}
          /\ \A r \in DOMAIN data : r # s => data[r] # data[s]
      BY <3>1 DEF OwnedInv
    <3>3. bufs'[data[s]] = bufs[data[s]]
      BY <1>3, <1>4, <3>1, <3>2, SectionAssumption
    <3> QED BY <3>2, <3>3
  <2> QED BY <2>1, <2>2 DEF OwnedInv
<1>6. LockInv'
  <2>1. ASSUME NEW m \in BufIds PROVE bufs'[m].lock = (IF bufs'[m].kind = "device" /\ Copies(m)' THEN 1 ELSE 0)
    <3>1. CASE m = n
      BY <1>3, <3>1, BufferTypes
    <3>2. CASE m # n
      <4>1. Copies(m)' <=> Copies(m)
        BY <1>2, <3>2, IdleType DEF Copies
      <4> QED BY <1>3, <3>2, <4>1 DEF LockInv
    <3> QED BY <3>1, <3>2
  <2> QED BY <2>1 DEF LockInv
<1>7. PlaceInv'
  <2>1. ASSUME NEW m \in BufIds, bufs'[m].kind \in {"static", "dynamic"} PROVE bufs'[m] = bufs[m]
    BY <1>3, <2>1, BufferTypes
  <2> QED BY <2>1 DEF PlaceInv, Placed
<1> QED BY <1>5, <1>6, <1>7

\* Every step of a call.
LEMMA CallBuffers ==
    ASSUME TypeInv, OwnedInv, LockInv, PlaceInv, NEW t \in Threads, CallMoves(t)
    PROVE  OwnedInv' /\ LockInv' /\ PlaceInv'
<1>1. ASSUME NEW w, Begins(t, w) PROVE OwnedInv' /\ LockInv' /\ PlaceInv'
  <2>1. /\ bufs' = bufs /\ mgr' = mgr /\ data' = data /\ thr' = [thr EXCEPT ![t] = w]
        /\ thr[t].pc = "idle" /\ (w.pc = "read" \/ (w.pc = "using" /\ w.call = "data"))
    BY <1>1 DEF Begins
  <2> QED BY <2>1, QuietBuffers
<1>2. ASSUME KeepsRest, UNCHANGED data, ReadsOrThrows(t) PROVE OwnedInv' /\ LockInv' /\ PlaceInv'
  <2>1. thr[t].pc = "read" /\ mgr' = mgr
    BY <1>2 DEF ReadsOrThrows, KeepsRest
  <2>2. CASE thr' = [thr EXCEPT ![t] = Idle] /\ bufs' = bufs
    BY <1>2, <2>1, <2>2, IdleType, QuietBuffers
  <2> QED BY <1>2, <2>1, <2>2, ReadsBuffers DEF ReadsOrThrows
<1>3. ASSUME KeepsRest, UNCHANGED data, NEW n, NEW b, NEW w, Fills(t, n, b, w)
      PROVE  OwnedInv' /\ LockInv' /\ PlaceInv'
  BY <1>3, FillsBuffers DEF KeepsRest
<1>4. ASSUME KeepsRest, NEW s, NEW n, NEW old, NEW b, NEW w, Stores(t, s, n, old, b, w)
      PROVE  OwnedInv' /\ LockInv' /\ PlaceInv'
  BY <1>4, StoresBuffers DEF KeepsRest
<1>5. ASSUME KeepsRest, NEW w, Keeps(t, w) PROVE OwnedInv' /\ LockInv' /\ PlaceInv'
  <2>1. /\ bufs' = bufs /\ mgr' = mgr /\ data' = data /\ thr' = [thr EXCEPT ![t] = w]
        /\ thr[t].pc = "publish" /\ w.pc = "using" /\ w.buf = thr[t].buf
    BY <1>5 DEF Keeps, KeepsRest
  <2>2. Holds(t)
    BY <2>1 DEF Holds
  <2> QED BY <2>1, <2>2, QuietBuffers
<1>6. ASSUME KeepsRest, UNCHANGED data, Ends(t) PROVE OwnedInv' /\ LockInv' /\ PlaceInv'
  <2>1. thr[t].pc = "using" /\ mgr' = mgr /\ thr' = [thr EXCEPT ![t] = Idle]
    BY <1>6 DEF Ends, KeepsRest
  <2>2. CASE bufs' = bufs
    BY <1>6, <2>1, <2>2, IdleType, QuietBuffers
  <2>3. CASE Holds(t) /\ thr[t].buf \in BufIds /\ bufs' = [bufs EXCEPT ![thr[t].buf] = NoBuf]
    BY <1>6, <2>1, <2>3, EndsBuffers
  <2> QED BY <1>6, <2>2, <2>3 DEF Ends
<1> QED BY <1>1, <1>2, <1>3, <1>4, <1>5, <1>6 DEF CallMoves

-----------------------------------------------------------------------------
(* The descriptors of the user buffers *)

\* The number of entries of a table that registerUserIO has met.
LEMMA EntriesFacts ==
    ASSUME TypeInv, Built, NEW s \in Secs, table[s].entsize # 0
    PROVE  /\ getEntriesNum(table[s]) \in Nat
           /\ EarlyFetched(table[s]) => users[table[s].io] \in Nat
<1>1. table[s] \in Shdr /\ users \in [UserKinds -> Nat]
  BY DEF TypeInv
<1>2. table[s].size \in Nat /\ table[s].entsize \in Nat \ {0}
  BY <1>1, ShdrFacts
<1> QED BY <1>1, <1>2 DEF getEntriesNum, EarlyFetched

\* The steps around the calls keep what is said of them.
LEMMA SetupUsers == ASSUME TypeInv, CacheInv, UsersInv, SetupStep PROVE UsersInv'
<1>1. CASE ReadHeader \/ ReadTable
  <2>1. phase' \in {"table", "names", "refused"}
    BY <1>1 DEF ReadHeader, ReadTable
  <2> QED BY <2>1 DEF UsersInv
<1>2. CASE ReadNames
  <2>1. cache' = {}
    BY <1>2 DEF ReadNames, CacheInv
  <2> QED BY <2>1 DEF UsersInv
<1>3. CASE LoadDone \/ StreamFails
  <2>1. cache' = cache /\ table' = table /\ users' = users /\ (phase' = phase \/ phase = "loading")
    BY <1>3 DEF LoadDone, StreamFails
  <2> QED BY <2>1 DEF UsersInv
<1>4. CASE RegisterSection
  <2>1. phase = "register" /\ table' = table /\ Built /\ file.shnum \in Nat
    BY <1>4, FileFacts DEF RegisterSection, Built, TypeInv
  <2>2. PICK n \in 0 .. file.shnum : cache = 0 .. n - 1 /\ Cardinality(cache) = n
    BY <2>1, NextSection
  <2>3. n \notin cache /\ cache \subseteq Secs
    BY <2>1, <2>2 DEF TypeInv
  <2>4. CASE cache' = cache /\ UNCHANGED users
    BY <2>1, <2>4 DEF UsersInv
  <2>5. CASE n <= file.shnum - 1 /\ cache' = cache \cup {n} /\ ~EarlyFetched(table[n]) /\ UNCHANGED users
    BY <2>1, <2>5 DEF UsersInv
  <2>6. CASE /\ n <= file.shnum - 1 /\ cache' = cache \cup {n}
             /\ EarlyFetched(table[n]) /\ ~EarlyRefused(table[n]) /\ users' = registerUserIO(table[n])
    <3>1. n \in Secs
      BY <2>1, <2>2, <2>6 DEF Secs
    <3>2. /\ table[n] \in Shdr /\ users \in [UserKinds -> Nat]
          /\ table[n].io \in UserKinds /\ users[table[n].io] = 0 /\ table[n].entsize # 0
      BY <2>1, <2>6, <3>1 DEF TypeInv, EarlyFetched, EarlyRefused, UserIORead
    <3>3. /\ getEntriesNum(table[n]) \in Nat
          /\ \A k \in UserKinds : users'[k] = IF k = table[n].io /\ getEntriesNum(table[n]) > 1
                                             THEN getEntriesNum(table[n]) - 1 ELSE users[k]
      BY <2>6, <3>2, RegisteredUsers
    <3>4. ASSUME NEW s \in cache, EarlyFetched(table[s])
          PROVE  /\ table[s].entsize # 0 /\ getEntriesNum(table[s]) \in Nat /\ table[s].io \in UserKinds
                 /\ getEntriesNum(table[s]) > 1 =>
                      /\ users[table[s].io] = getEntriesNum(table[s]) - 1 /\ table[s].io # table[n].io
                      /\ \A r \in cache \ {s} : EarlyFetched(table[r]) /\ table[r].io = table[s].io =>
                            getEntriesNum(table[r]) <= 1
      <4>1. table[s].entsize # 0 /\ (getEntriesNum(table[s]) > 1 =>
                      /\ users[table[s].io] = getEntriesNum(table[s]) - 1
                      /\ \A r \in cache \ {s} : EarlyFetched(table[r]) /\ table[r].io = table[s].io =>
                            getEntriesNum(table[r]) <= 1)
        BY <2>1, <3>4 DEF UsersInv
      <4>2. getEntriesNum(table[s]) \in Nat
        BY <2>1, <2>3, <4>1, EntriesFacts
      <4>3. table[s].io \in UserKinds
        BY <3>4 DEF EarlyFetched
      <4> QED BY <3>2, <4>1, <4>2, <4>3
    <3>5. ASSUME NEW s \in cache', EarlyFetched(table[s])
          PROVE  /\ table[s].entsize # 0
                 /\ getEntriesNum(table[s]) > 1 =>
                      /\ users'[table[s].io] = getEntriesNum(table[s]) - 1
                      /\ \A r \in cache' \ {s} : EarlyFetched(table[r]) /\ table[r].io = table[s].io =>
                            getEntriesNum(table[r]) <= 1
      <4>1. CASE s = n
        <5>1. \A r \in cache : EarlyFetched(table[r]) /\ table[r].io = table[n].io => getEntriesNum(table[r]) <= 1
          BY <3>4
        <5> QED BY <2>6, <3>2, <3>3, <4>1, <5>1
      <4>2. CASE s # n
        <5>1. s \in cache
          BY <2>6, <4>2
        <5> QED BY <2>6, <3>3, <3>4, <3>5, <5>1
      <4> QED BY <4>1, <4>2
    <3>6. \A s \in cache' : EarlyFetched(table'[s]) <=> EarlyFetched(table[s])
      BY <2>1
    <3>7. \A s \in cache' : table'[s] = table[s] /\ getEntriesNum(table'[s]) = getEntriesNum(table[s])
      BY <2>1
    <3> QED BY <2>1, <3>5 DEF UsersInv
  <2>7. CASE phase' = "refused"
    BY <2>7 DEF UsersInv
  <2> QED BY <1>4, <2>2, <2>4, <2>5, <2>6, <2>7 DEF RegisterSection, LastRegistered
<1> QED BY <1>1, <1>2, <1>3, <1>4 DEF SetupStep

\* A constructed loader has a descriptor for each user buffer.
LEMMA UsersKnown == ASSUME TypeInv, CacheInv, UsersInv PROVE UserBuffersKnown
<1> SUFFICES ASSUME phase \in {"loading", "shared"}, NEW s \in Secs, EarlyFetched(table[s])
             PROVE  /\ users[table[s].io] >= getEntriesNum(table[s]) - 1
                    /\ \A r \in Secs \ {s} : EarlyFetched(table[r]) /\ table[r].io = table[s].io =>
                          getEntriesNum(table[s]) <= 1 \/ getEntriesNum(table[r]) <= 1
  BY DEF UserBuffersKnown
<1>1. cache = Secs /\ Built
  BY DEF CacheInv, Built
<1>2. /\ table[s].entsize # 0
      /\ getEntriesNum(table[s]) > 1 =>
           /\ users[table[s].io] = getEntriesNum(table[s]) - 1
           /\ \A r \in Secs \ {s} : EarlyFetched(table[r]) /\ table[r].io = table[s].io =>
                 getEntriesNum(table[r]) <= 1
  BY <1>1 DEF UsersInv
<1>3. getEntriesNum(table[s]) \in Nat /\ users[table[s].io] \in Nat
  BY <1>1, <1>2, EntriesFacts
<1> QED BY <1>2, <1>3

-----------------------------------------------------------------------------
(* The invariant, and what follows for any number of threads *)

IInv == TypeInv /\ CacheInv /\ UsersInv /\ OwnedInv /\ LockInv /\ PlaceInv

\* It holds at the start.
LEMMA InitIInv == Init => IInv
<1> SUFFICES ASSUME Init PROVE IInv
  OBVIOUS
<1>1. /\ file \in Files /\ mgr \in Managers /\ phase = "header" /\ cache = {} /\ data = << >>
      /\ users = [k \in UserKinds |-> 0] /\ bufs = [b \in BufIds |-> NoBuf] /\ thr = [t \in Threads |-> Idle]
      /\ failed = FALSE /\ faults = 0
  BY DEF Init
<1>2. DOMAIN data = {}
  BY <1>1
<1>3. \A t \in Threads : thr[t].pc = "idle"
  BY <1>1, IdleType
<1>4. TypeInv
  <2>1. users \in [UserKinds -> Nat]
    BY <1>1
  <2>2. NoBuf \in Buffer /\ Idle \in Calls
    BY BufferTypes, IdleType
  <2>3. bufs \in [BufIds -> Buffer] /\ thr \in [Threads -> Calls]
    BY <1>1, <2>2
  <2>4. failed \in BOOLEAN /\ cache \subseteq Secs
    BY <1>1
  <2>5. faults \in 0 .. MaxFaults
    BY <1>1, BoundsAssumption
  <2>6. ~Built
    BY <1>1 DEF Built
  <2> QED BY <1>1, <1>3, <2>1, <2>3, <2>4, <2>5, <2>6 DEF TypeInv
<1>5. CacheInv /\ UsersInv
  BY <1>1 DEF CacheInv, UsersInv
<1>6. OwnedInv
  BY <1>2, <1>3 DEF OwnedInv, Holds
<1>7. LockInv
  BY <1>1, <1>3, BufferTypes DEF LockInv, Copies
<1>8. PlaceInv
  BY <1>1, BufferTypes DEF PlaceInv
<1> QED BY <1>4, <1>5, <1>6, <1>7, <1>8 DEF IInv

\* Every step keeps it.
LEMMA NextIInv == ASSUME IInv, [Next]_vars PROVE IInv'
<1> USE DEF IInv
<1>1. CASE SetupStep
  BY <1>1, SetupTypes, SetupCache, SetupUsers, SetupBuffers
<1>2. ASSUME NEW t \in Threads, CallMoves(t) PROVE IInv'
  <2>1. cache' = cache /\ CacheInv'
    BY <1>2, CallCache
  <2>2. table' = table /\ users' = users /\ phase' = phase
    BY <1>2 DEF CallMoves, Begins, KeepsRest
  <2>3. UsersInv'
    BY <2>1, <2>2 DEF UsersInv
  <2> QED BY <1>2, <2>1, <2>3, CallTypes, CallBuffers
<1>3. CASE UNCHANGED vars
  BY <1>3 DEF vars, TypeInv, Built, Secs, CacheInv, UsersInv, OwnedInv, Holds, LockInv, Copies, PlaceInv, Placed
<1> QED BY <1>1, <1>2, <1>3, NextMoves

\* So it always holds.
THEOREM ReaderInvariant == Spec => []IInv
BY InitIInv, NextIInv, PTL DEF Spec

\* What TypeOK says is part of the invariant, the locks by what it says of them.
LEMMA TypesFollow == ASSUME IInv PROVE TypeOK
<1>1. TypeInv /\ LockInv
  BY DEF IInv
<1>2. \A b \in BufIds : bufs[b] \in Buffer /\ bufs[b].lock \in 0 .. 1
  BY <1>1 DEF TypeInv, LockInv
<1>3. \A b \in BufIds : bufs[b].owners \subseteq Threads \cup {"section"}
  BY <1>2 DEF Buffer
<1>4. \A t \in Threads : thr[t].buf \in BufIds \cup {0}
  BY <1>1 DEF TypeInv, Calls
<1>5. \A s \in DOMAIN data : data[s] \in BufIds \cup {0}
  BY <1>1 DEF TypeInv
<1> QED BY <1>1, <1>2, <1>3, <1>4, <1>5 DEF TypeOK, TypeInv

\* Every variable keeps its type, however many threads call the Reader.
THEOREM TypeCorrect == Spec => []TypeOK
<1>1. IInv => TypeOK
  BY TypesFollow
<1> QED BY <1>1, ReaderInvariant, PTL

\* accessor.hpp:168-171: a device buffer is locked while readInternal copies into it, by the
\* thread that has it, and at no other time.
THEOREM LocksOnlyWhileCopying == Spec => []LockedWhileCopied
<1>1. IInv => LockedWhileCopied
  BY Readings DEF IInv
<1> QED BY <1>1, ReaderInvariant, PTL

\* managed_buffer.cpp:77-102: every CPU buffer starts where its section may start and ends
\* inside its memory, for every size, alignment and address that the heap returns.
THEOREM BuffersWellPlaced == Spec => []WellPlaced
<1>1. IInv => WellPlaced
  BY Readings DEF IInv
<1> QED BY <1>1, ReaderInvariant, PTL

\* vpux_loader.cpp:1136-1152: the constructor leaves no table of user buffers out, and no
\* later table replaces the descriptors of an earlier one.
THEOREM UserBuffersFound == Spec => []UserBuffersKnown
<1>1. IInv => UserBuffersKnown
  BY UsersKnown DEF IInv
<1> QED BY <1>1, ReaderInvariant, PTL

\* No step inserts into mSectionsCache once threads share the Reader.
THEOREM CacheUndisturbed == Spec => CacheSettled
<1>1. ASSUME IInv, [Next]_vars PROVE [phase = "shared" => cache' = cache]_vars
  <2>1. CASE SetupStep
    BY <2>1 DEF SetupStep, ReadHeader, ReadTable, ReadNames, RegisterSection, LoadDone, StreamFails
  <2>2. ASSUME NEW t \in Threads, CallMoves(t) PROVE cache' = cache
    BY <1>1, <2>2, CallCache DEF IInv
  <2>3. CASE UNCHANGED vars
    BY <2>3
  <2> QED BY <1>1, <2>1, <2>2, <2>3, NextMoves DEF IInv
<1> QED BY <1>1, ReaderInvariant, PTL DEF Spec, CacheSettled

-----------------------------------------------------------------------------
(* What a buffer holds *)

\* No two owners have the same buffer.
LEMMA BuffersApart ==
    ASSUME TypeInv, OwnedInv
    PROVE  /\ \A u \in Threads : Holds(u) => thr[u].buf \in BufIds /\ bufs[thr[u].buf].kind # "none"
           /\ \A u, v \in Threads : u # v /\ Holds(u) /\ Holds(v) => thr[u].buf # thr[v].buf
           /\ \A u \in Threads, s \in DOMAIN data : Holds(u) => thr[u].buf # data[s]
           /\ \A s \in DOMAIN data : data[s] # 0 => data[s] \in BufIds /\ bufs[data[s]].kind # "none"
           /\ \A r, s \in DOMAIN data : r # s /\ data[r] # 0 => data[r] # data[s]
<1>1. \A u \in Threads : thr[u].buf \in BufIds \cup {0}
  BY DEF TypeInv, Calls
<1>2. \A u \in Threads : Holds(u) =>
         thr[u].buf \in BufIds /\ bufs[thr[u].buf].kind # "none" /\ bufs[thr[u].buf].owners = {u}
  BY <1>1 DEF OwnedInv
<1>3. \A s \in DOMAIN data : data[s] # 0 =>
         data[s] \in BufIds /\ bufs[data[s]].kind # "none" /\ bufs[data[s]].owners = {"section"}
  BY DEF OwnedInv, TypeInv
<1>4. \A u \in Threads, s \in DOMAIN data : Holds(u) => thr[u].buf # data[s]
  BY <1>2, <1>3, NumbersFacts, SectionAssumption
<1>5. \A u, v \in Threads : u # v /\ Holds(u) /\ Holds(v) => thr[u].buf # thr[v].buf
  BY <1>2
<1>6. \A r, s \in DOMAIN data : r # s /\ data[r] # 0 => data[r] # data[s]
  BY DEF OwnedInv
<1> QED BY <1>2, <1>3, <1>4, <1>5, <1>6

\* What is copied, or emplaced, for section s is the section.
LEMMA CopiedFilled ==
    ASSUME TypeInv, FilledInv, Built, NEW s \in Secs, InBounds(table[s].offset, table[s].size), NEW c,
           c = Copied(table[s]) \/ c = [from |-> table[s].offset, len |-> table[s].size, garbage |-> FALSE]
    PROVE  LET h == file.table[s] IN
           failed \/ (~c.garbage /\ c.from = h.offset /\ c.len = h.size /\ InBounds(h.offset, h.size))
<1> SUFFICES ASSUME failed # TRUE
             PROVE  LET h == file.table[s] IN
                    ~c.garbage /\ c.from = h.offset /\ c.len = h.size /\ InBounds(h.offset, h.size)
  OBVIOUS
<1>1. failed = FALSE
  BY DEF TypeInv
<1>2. table[s] = file.table[s]
  BY <1>1 DEF FilledInv
<1>3. c.garbage = FALSE /\ c.from = table[s].offset /\ c.len = table[s].size
  BY <1>1 DEF Copied
<1> QED BY <1>2, <1>3

\* The steps around the calls.
LEMMA SetupFilled == ASSUME TypeInv, FilledInv, SetupStep PROVE FilledInv'
<1>1. /\ bufs' = bufs /\ thr' = thr /\ file' = file /\ Secs' = Secs /\ (failed => failed')
  BY DEF SetupStep, ReadHeader, ReadTable, ReadNames, RegisterSection, LoadDone, StreamFails, Secs
<1>3. data' = data \/ \A s \in DOMAIN data' : data'[s] = 0
  <2>1. ReadTable => data' = data \/ data' = [s \in Secs |-> 0]
    BY DEF ReadTable
  <2>2. ~ReadTable => data' = data
    BY DEF SetupStep, ReadHeader, ReadTable, ReadNames, RegisterSection, LoadDone, StreamFails
  <2> QED BY <2>1, <2>2
<1>4. (\E t \in Threads : thr[t].pc = "copy") => table' = table
  <2>1. (\E t \in Threads : thr[t].pc = "copy") => phase \in {"loading", "shared"}
    BY DEF TypeInv
  <2>2. phase \in {"loading", "shared"} => table' = table
    BY DEF SetupStep, ReadHeader, ReadTable, ReadNames, RegisterSection, LoadDone, StreamFails
  <2> QED BY <2>1, <2>2
<1>5. Built' => failed' \/ \A s \in Secs : table'[s] = file.table[s]
  <2>1. CASE ReadTable
    <3>1. CASE failed
      BY <1>1, <3>1
    <3>2. CASE ~failed
      BY <2>1, <3>2 DEF ReadTable, Built
    <3> QED BY <3>1, <3>2
  <2>2. CASE ~ReadTable
    <3>1. table' = table /\ (Built' => Built)
      BY <2>2 DEF SetupStep, ReadHeader, ReadNames, RegisterSection, LoadDone, StreamFails, Built
    <3> QED BY <1>1, <3>1 DEF FilledInv
  <2> QED BY <2>1, <2>2
<1>6. ASSUME NEW t \in Threads, thr'[t].pc = "copy"
      PROVE  InBounds(table[thr[t].sec].offset, table[thr[t].sec].size)'
  <2>1. InBounds(table[thr[t].sec].offset, table[thr[t].sec].size) /\ table' = table
    BY <1>1, <1>4, <1>6 DEF FilledInv
  <2> QED BY <1>1, <2>1 DEF InBounds
<1>7. ASSUME NEW t \in Threads, Holds(t)', thr'[t].pc # "copy" PROVE Filled(thr[t].buf, thr[t].sec)'
  <2>1. Filled(thr[t].buf, thr[t].sec)
    BY <1>1, <1>7 DEF FilledInv, Holds
  <2> QED BY <1>1, <2>1 DEF Filled, InBounds
<1>8. ASSUME NEW s \in DOMAIN data', data'[s] # 0 PROVE Filled(data[s], s)'
  <2>1. data' = data /\ Filled(data[s], s)
    BY <1>3, <1>8 DEF FilledInv
  <2> QED BY <1>1, <2>1 DEF Filled, InBounds
<1> QED BY <1>1, <1>5, <1>6, <1>7, <1>8 DEF FilledInv

\* Contents c are those of section s.
Good(c, s) ==
    LET h == file.table[s] IN
    failed \/ (~c.garbage /\ c.from = h.offset /\ c.len = h.size /\ InBounds(h.offset, h.size))

\* A call that goes on, or ends, as w and spares the buffers of others.
LEMMA CallKeepsFilled ==
    ASSUME TypeInv, FilledInv, UNCHANGED <<file, phase, table, failed>>,
           NEW t \in Threads, NEW w, thr' = [thr EXCEPT ![t] = w],
           w.pc = "copy" => InBounds(table[w.sec].offset, table[w.sec].size),
           w.pc = "publish" \/ (w.pc = "using" /\ w.call = "buffer") => Good(bufs'[w.buf].holds, w.sec),
           \A u \in Threads : u # t /\ Holds(u) => bufs'[thr[u].buf].holds = bufs[thr[u].buf].holds,
           \A s \in DOMAIN data' : data'[s] # 0 => Good(bufs'[data'[s]].holds, s)
    PROVE  FilledInv'
<1>1. thr'[t] = w /\ \A u \in Threads : u # t => thr'[u] = thr[u]
  BY DEF TypeInv
<1>2. Built' => failed' \/ \A s \in Secs' : table'[s] = file'.table[s]
  BY DEF FilledInv, Built, Secs
<1>3. ASSUME NEW u \in Threads, thr'[u].pc = "copy"
      PROVE  InBounds(table[thr[u].sec].offset, table[thr[u].sec].size)'
  <2>1. InBounds(table[thr'[u].sec].offset, table[thr'[u].sec].size)
    BY <1>1, <1>3 DEF FilledInv
  <2> QED BY <2>1 DEF InBounds
<1>4. ASSUME NEW u \in Threads, Holds(u)', thr'[u].pc # "copy" PROVE Filled(thr[u].buf, thr[u].sec)'
  <2>1. CASE u = t
    <3>1. Good(bufs'[w.buf].holds, w.sec)
      BY <1>1, <1>4, <2>1 DEF Holds
    <3> QED BY <1>1, <2>1, <3>1 DEF Good, Filled, InBounds
  <2>2. CASE u # t
    <3>1. Filled(thr[u].buf, thr[u].sec) /\ Holds(u) /\ thr'[u] = thr[u]
      BY <1>1, <1>4, <2>2 DEF Holds, FilledInv
    <3>2. bufs'[thr[u].buf].holds = bufs[thr[u].buf].holds
      BY <2>2, <3>1
    <3> QED BY <3>1, <3>2 DEF Filled, InBounds
  <2> QED BY <2>1, <2>2
<1>5. ASSUME NEW s \in DOMAIN data', data'[s] # 0 PROVE Filled(data[s], s)'
  <2>1. Good(bufs'[data'[s]].holds, s)
    BY <1>5
  <2> QED BY <2>1 DEF Good, Filled, InBounds
<1> QED BY <1>2, <1>3, <1>4, <1>5 DEF FilledInv

\* What the invariant says of buffers, put with their contents.
LEMMA FilledMeans ==
    ASSUME FilledInv
    PROVE  /\ \A t \in Threads : Holds(t) /\ thr[t].pc # "copy" => Good(bufs[thr[t].buf].holds, thr[t].sec)
           /\ \A s \in DOMAIN data : data[s] # 0 => Good(bufs[data[s]].holds, s)
BY DEF FilledInv, Filled, Good

\* Every step of a call.
LEMMA CallFilled ==
    ASSUME TypeInv, OwnedInv, FilledInv, NEW t \in Threads, CallMoves(t)
    PROVE  FilledInv'
<1>1. thr \in [Threads -> Calls] /\ bufs \in [BufIds -> Buffer]
  BY DEF TypeInv
<1>2. ASSUME NEW w, Begins(t, w) PROVE FilledInv'
  <2>1. /\ UNCHANGED <<file, phase, table, failed>> /\ bufs' = bufs /\ data' = data /\ thr' = [thr EXCEPT ![t] = w]
        /\ w.pc = "read" \/ (w.pc = "using" /\ w.call = "data")
    BY <1>2 DEF Begins
  <2> QED BY <2>1, FilledMeans, CallKeepsFilled
<1>3. ASSUME KeepsRest PROVE UNCHANGED <<file, phase, table, failed>>
  BY <1>3 DEF KeepsRest
<1>4. ASSUME KeepsRest, UNCHANGED data, ReadsOrThrows(t) PROVE FilledInv'
  <2>1. thr[t].pc = "read"
    BY <1>4 DEF ReadsOrThrows
  <2>2. CASE thr' = [thr EXCEPT ![t] = Idle] /\ bufs' = bufs
    BY <1>3, <1>4, <2>2, IdleType, FilledMeans, CallKeepsFilled
  <2>3. ASSUME NEW n, NEW b, NEW w, Reads(t, n, b, w) PROVE FilledInv'
    <3>1. /\ n \in BufIds /\ bufs[n].kind = "none" /\ b.kind # "none" /\ w.buf = n /\ w.sec = thr[t].sec
          /\ InBounds(table[w.sec].offset, table[w.sec].size)
          /\ w.pc = (IF b.kind = "static" THEN "publish" ELSE "copy")
          /\ b.kind = "static" =>
               b.holds = [from |-> table[w.sec].offset, len |-> table[w.sec].size, garbage |-> FALSE]
          /\ bufs' = [bufs EXCEPT ![n] = b] /\ thr' = [thr EXCEPT ![t] = w]
      BY <2>3 DEF Reads
    <3>2. bufs'[n] = b /\ \A m \in BufIds : m # n => bufs'[m] = bufs[m]
      BY <1>1, <3>1
    <3>3. \A u \in Threads : u # t /\ Holds(u) => bufs'[thr[u].buf].holds = bufs[thr[u].buf].holds
      BY <3>1, <3>2, BuffersApart
    <3>4. \A s \in DOMAIN data' : data'[s] # 0 => Good(bufs'[data'[s]].holds, s)
      <4>1. \A s \in DOMAIN data : data[s] # 0 => bufs'[data[s]] = bufs[data[s]]
        BY <3>1, <3>2, BuffersApart
      <4> QED BY <1>4, <4>1, FilledMeans
    <3>5. w.pc = "publish" \/ (w.pc = "using" /\ w.call = "buffer") => Good(bufs'[w.buf].holds, w.sec)
      <4>1. SUFFICES ASSUME w.pc = "publish" PROVE Good(b.holds, w.sec)
        BY <3>1, <3>2
      <4>2. b.holds = [from |-> table[w.sec].offset, len |-> table[w.sec].size, garbage |-> FALSE]
        BY <3>1, <4>1
      <4>3. w.sec \in Secs /\ Built
        BY <2>1, <3>1, CallFacts DEF Built
      <4> QED BY <3>1, <4>2, <4>3, CopiedFilled DEF Good
    <3> QED BY <1>3, <1>4, <3>1, <3>3, <3>4, <3>5, CallKeepsFilled
  <2> QED BY <1>4, <2>2, <2>3 DEF ReadsOrThrows
<1>5. ASSUME KeepsRest, UNCHANGED data, NEW n, NEW b, NEW w, Fills(t, n, b, w) PROVE FilledInv'
  <2>1. /\ n \in BufIds /\ n = thr[t].buf /\ thr[t].pc = "copy" /\ w.pc = "publish" /\ w.buf = n /\ w.sec = thr[t].sec
        /\ b.holds = Copied(table[thr[t].sec])
        /\ bufs' = [bufs EXCEPT ![n] = b] /\ thr' = [thr EXCEPT ![t] = w]
    BY <1>5 DEF Fills
  <2>2. bufs'[n] = b /\ \A m \in BufIds : m # n => bufs'[m] = bufs[m]
    BY <1>1, <2>1
  <2>3. Holds(t)
    BY <2>1 DEF Holds
  <2>4. \A u \in Threads : u # t /\ Holds(u) => bufs'[thr[u].buf].holds = bufs[thr[u].buf].holds
    BY <2>1, <2>2, <2>3, BuffersApart
  <2>5. \A s \in DOMAIN data' : data'[s] # 0 => Good(bufs'[data'[s]].holds, s)
    <3>1. \A s \in DOMAIN data : data[s] # 0 => bufs'[data[s]] = bufs[data[s]]
      BY <2>1, <2>2, <2>3, BuffersApart
    <3> QED BY <1>5, <3>1, FilledMeans
  <2>6. Good(bufs'[w.buf].holds, w.sec)
    <3>1. thr[t].sec \in Secs /\ Built
      BY <2>1, CallFacts DEF Built
    <3>2. InBounds(table[thr[t].sec].offset, table[thr[t].sec].size)
      BY <2>1 DEF FilledInv
    <3>3. Good(b.holds, thr[t].sec)
      BY <2>1, <3>1, <3>2, CopiedFilled DEF Good
    <3> QED BY <2>1, <2>2, <3>3
  <2> QED BY <1>3, <1>5, <2>1, <2>4, <2>5, <2>6, CallKeepsFilled
<1>6. ASSUME KeepsRest, NEW s, NEW n, NEW old, NEW b, NEW w, Stores(t, s, n, old, b, w) PROVE FilledInv'
  <2>1. /\ thr[t].pc = "publish" /\ s = thr[t].sec /\ n = thr[t].buf /\ old = data[s] /\ n \in BufIds /\ n # old
        /\ b.holds = bufs[n].holds /\ w.pc = "using" /\ w.call = "data"
        /\ data' = [data EXCEPT ![s] = n]
        /\ bufs' = [m \in BufIds |-> IF m = n THEN b ELSE IF m = old THEN NoBuf ELSE bufs[m]]
        /\ thr' = [thr EXCEPT ![t] = w]
    BY <1>6 DEF Stores
  <2>2. data \in [Secs -> BufIds \cup {0}] /\ s \in Secs /\ Holds(t) /\ DOMAIN data = Secs
    BY <2>1, CallFacts DEF Holds
  <2>3. \A u \in Threads : u # t /\ Holds(u) => bufs'[thr[u].buf].holds = bufs[thr[u].buf].holds
    BY <2>1, <2>2, BuffersApart
  <2>4. ASSUME NEW r \in DOMAIN data', data'[r] # 0 PROVE Good(bufs'[data'[r]].holds, r)
    <3>1. CASE r = s
      <4>1. Good(bufs[n].holds, s)
        BY <2>1, <2>2, FilledMeans
      <4> QED BY <2>1, <2>2, <3>1, <4>1
    <3>2. CASE r # s
      <4>1. data'[r] = data[r] /\ r \in Secs
        BY <2>1, <2>2, <3>2
      <4>2. data[r] \in BufIds /\ data[r] # n /\ data[r] # old
        BY <2>1, <2>2, <2>4, <3>2, <4>1, BuffersApart
      <4>3. Good(bufs[data[r]].holds, r)
        BY <2>2, <2>4, <4>1, FilledMeans
      <4> QED BY <2>1, <4>1, <4>2, <4>3
    <3> QED BY <3>1, <3>2
  <2> QED BY <1>3, <1>6, <2>1, <2>3, <2>4, CallKeepsFilled
<1>7. ASSUME KeepsRest, NEW w, Keeps(t, w) PROVE FilledInv'
  <2>1. /\ bufs' = bufs /\ data' = data /\ thr' = [thr EXCEPT ![t] = w]
        /\ thr[t].pc = "publish" /\ w.pc = "using" /\ w.buf = thr[t].buf /\ w.sec = thr[t].sec
    BY <1>7 DEF Keeps
  <2>2. Good(bufs[thr[t].buf].holds, thr[t].sec)
    BY <2>1, FilledMeans DEF Holds
  <2> QED BY <1>3, <1>7, <2>1, <2>2, FilledMeans, CallKeepsFilled
<1>8. ASSUME KeepsRest, UNCHANGED data, Ends(t) PROVE FilledInv'
  <2>1. thr' = [thr EXCEPT ![t] = Idle]
    BY <1>8 DEF Ends
  <2>2. CASE bufs' = bufs
    BY <1>3, <1>8, <2>1, <2>2, IdleType, FilledMeans, CallKeepsFilled
  <2>3. CASE Holds(t) /\ thr[t].buf \in BufIds /\ bufs' = [bufs EXCEPT ![thr[t].buf] = NoBuf]
    <3>1. \A m \in BufIds : m # thr[t].buf => bufs'[m] = bufs[m]
      BY <1>1, <2>3
    <3>2. \A u \in Threads : u # t /\ Holds(u) => bufs'[thr[u].buf].holds = bufs[thr[u].buf].holds
      BY <2>3, <3>1, BuffersApart
    <3>3. \A s \in DOMAIN data : data[s] # 0 => bufs'[data[s]] = bufs[data[s]]
      BY <2>3, <3>1, BuffersApart
    <3>4. \A s \in DOMAIN data' : data'[s] # 0 => Good(bufs'[data'[s]].holds, s)
      BY <1>8, <3>3, FilledMeans
    <3> QED BY <1>3, <1>8, <2>1, <3>2, <3>4, IdleType, CallKeepsFilled
  <2> QED BY <1>8, <2>2, <2>3 DEF Ends
<1> QED BY <1>2, <1>4, <1>5, <1>6, <1>7, <1>8 DEF CallMoves

-----------------------------------------------------------------------------
(* Pointers of getData, where load() reads every table before it shares the Reader *)

\* A call that goes on, or ends, as w: the thread may be in a call, and its pointer is
\* that of its section.
LEMMA CallKeepsShared ==
    ASSUME TypeInv, SharedInv, UNCHANGED <<file, phase, table>>,
           NEW t \in Threads, NEW w, thr' = [thr EXCEPT ![t] = w],
           phase = "shared" \/ t = Owner,
           \/ data' = data
           \/ phase = "loading" /\ t = Owner,
           w.pc # "idle" /\ w.call = "data" =>
              /\ w.sec \in Tables
              /\ w.pc \in {"read", "copy", "publish"} => phase = "loading" /\ data'[w.sec] = 0
              /\ w.pc = "using" => w.buf # 0 /\ w.buf = data'[w.sec]
    PROVE  SharedInv'
<1>1. thr'[t] = w /\ \A u \in Threads : u # t => thr'[u] = thr[u]
  BY DEF TypeInv
<1>2. Tables' = Tables
  BY DEF Tables, Secs
<1>3. phase' # "shared" => \A u \in Threads : u # Owner => thr'[u].pc = "idle"
  BY <1>1 DEF SharedInv
<1>4. phase' = "shared" => \A s \in Tables' : data'[s] # 0
  BY <1>2 DEF SharedInv
<1>5. ASSUME NEW u \in Threads, thr'[u].pc # "idle", thr'[u].call = "data"
      PROVE  /\ thr'[u].sec \in Tables
             /\ thr'[u].pc \in {"read", "copy", "publish"} => phase' = "loading" /\ data'[thr'[u].sec] = 0
             /\ thr'[u].pc = "using" => thr'[u].buf # 0 /\ thr'[u].buf = data'[thr'[u].sec]
  <2>1. CASE u = t
    BY <1>1, <1>5, <2>1
  <2>2. CASE u # t
    <3>1. thr'[u] = thr[u]
      BY <1>1, <2>2
    <3>2. data' = data
      <4>1. CASE phase = "loading" /\ t = Owner
        BY <1>5, <2>2, <3>1, <4>1 DEF SharedInv
      <4> QED BY <4>1
    <3> QED BY <1>5, <3>1, <3>2 DEF SharedInv
  <2> QED BY <2>1, <2>2
<1> QED BY <1>2, <1>3, <1>4, <1>5 DEF SharedInv

\* Until the Reader is shared its owner alone is in a call.
LEMMA OwnerCalls ==
    ASSUME TypeInv, SharedInv, NEW t \in Threads, thr[t].pc # "idle"
    PROVE  /\ phase = "shared" \/ t = Owner
           /\ phase \in {"loading", "shared"}
BY DEF TypeInv, SharedInv

\* Every step of a call.
LEMMA CallShared ==
    ASSUME TypeInv, OwnedInv, SharedInv, NEW t \in Threads, CallMoves(t)
    PROVE  SharedInv'
<1>1. ASSUME NEW w, Begins(t, w) PROVE SharedInv'
  <2>1. /\ UNCHANGED <<file, phase, table>> /\ data' = data /\ thr' = [thr EXCEPT ![t] = w]
        /\ phase = "shared" \/ (phase = "loading" /\ t = Owner)
        /\ \/ w.pc = "using" /\ w.call = "data" /\ w.sec \in Tables /\ w.buf = data[w.sec] /\ w.buf # 0
           \/ w.pc = "read" /\ (w.call = "data" => w.sec \in Tables /\ data[w.sec] = 0)
    BY <1>1 DEF Begins
  <2>2. w.call = "data" /\ w.pc = "read" => phase = "loading"
    BY <2>1 DEF SharedInv
  <2> QED BY <2>1, <2>2, CallKeepsShared
<1>2. ASSUME KeepsRest PROVE UNCHANGED <<file, phase, table>>
  BY <1>2 DEF KeepsRest
<1>3. ASSUME thr[t].pc # "idle", thr[t].call = "data"
      PROVE  /\ thr[t].sec \in Tables
             /\ thr[t].pc \in {"read", "copy", "publish"} => phase = "loading" /\ data[thr[t].sec] = 0
  BY <1>3 DEF SharedInv
<1>4. ASSUME KeepsRest, UNCHANGED data, ReadsOrThrows(t) PROVE SharedInv'
  <2>1. thr[t].pc = "read"
    BY <1>4 DEF ReadsOrThrows
  <2>2. CASE thr' = [thr EXCEPT ![t] = Idle] /\ bufs' = bufs
    BY <1>2, <1>4, <2>1, <2>2, OwnerCalls, IdleType, CallKeepsShared
  <2>3. ASSUME NEW n, NEW b, NEW w, Reads(t, n, b, w) PROVE SharedInv'
    <3>1. /\ w.sec = thr[t].sec /\ w.call = thr[t].call /\ w.pc \in {"copy", "publish"}
          /\ thr' = [thr EXCEPT ![t] = w]
      BY <2>3 DEF Reads
    <3> QED BY <1>2, <1>3, <1>4, <2>1, <3>1, OwnerCalls, CallKeepsShared
  <2> QED BY <1>4, <2>2, <2>3 DEF ReadsOrThrows
<1>5. ASSUME KeepsRest, UNCHANGED data, NEW n, NEW b, NEW w, Fills(t, n, b, w) PROVE SharedInv'
  <2>1. /\ thr[t].pc = "copy" /\ w.sec = thr[t].sec /\ w.call = thr[t].call /\ w.pc = "publish"
        /\ thr' = [thr EXCEPT ![t] = w]
    BY <1>5 DEF Fills
  <2> QED BY <1>2, <1>3, <1>5, <2>1, OwnerCalls, CallKeepsShared
<1>6. ASSUME KeepsRest, NEW s, NEW n, NEW old, NEW b, NEW w, Stores(t, s, n, old, b, w) PROVE SharedInv'
  <2>1. /\ thr[t].pc = "publish" /\ thr[t].call = "data" /\ s = thr[t].sec /\ n \in BufIds
        /\ w.pc = "using" /\ w.call = "data" /\ w.sec = s /\ w.buf = n
        /\ data' = [data EXCEPT ![s] = n] /\ thr' = [thr EXCEPT ![t] = w]
    BY <1>6 DEF Stores
  <2>2. phase = "loading" /\ t = Owner /\ s \in Tables
    BY <1>3, <2>1, OwnerCalls
  <2>3. data'[s] = n /\ n # 0
    BY <2>1, CallFacts, NumbersFacts
  <2> QED BY <1>2, <1>6, <2>1, <2>2, <2>3, CallKeepsShared
<1>7. ASSUME KeepsRest, NEW w, Keeps(t, w) PROVE SharedInv'
  <2>1. thr[t].pc = "publish" /\ w.call = "buffer" /\ data' = data /\ thr' = [thr EXCEPT ![t] = w]
    BY <1>7 DEF Keeps
  <2> QED BY <1>2, <1>7, <2>1, OwnerCalls, CallKeepsShared
<1>8. ASSUME KeepsRest, UNCHANGED data, Ends(t) PROVE SharedInv'
  <2>1. thr[t].pc = "using" /\ thr' = [thr EXCEPT ![t] = Idle]
    BY <1>8 DEF Ends
  <2> QED BY <1>2, <1>8, <2>1, OwnerCalls, IdleType, CallKeepsShared
<1> QED BY <1>1, <1>4, <1>5, <1>6, <1>7, <1>8 DEF CallMoves

\* The steps around the calls: load() has read every table when the Reader is shared.
LEMMA SetupShared == ASSUME ~SharesScratch, TypeInv, SharedInv, SetupStep PROVE SharedInv'
<1>1. thr' = thr
  BY DEF SetupStep, ReadHeader, ReadTable, ReadNames, RegisterSection, LoadDone, StreamFails
<1>2. CASE ReadHeader \/ ReadTable \/ ReadNames \/ RegisterSection
  <2>1. phase \in {"header", "table", "names", "register"} /\ phase' # "shared"
    BY <1>2 DEF ReadHeader, ReadTable, ReadNames, RegisterSection
  <2>2. \A t \in Threads : thr[t].pc = "idle"
    BY <2>1 DEF TypeInv
  <2> QED BY <1>1, <2>1, <2>2 DEF SharedInv
<1>3. CASE LoadDone
  <2>1. /\ phase = "loading" /\ phase' = "shared" /\ thr[Owner].pc = "idle" /\ data' = data
        /\ file' = file /\ table' = table
        /\ \A s \in FetchedByLoad : data[s] # 0
    BY <1>3 DEF LoadDone
  <2>2. FetchedByLoad = Tables /\ Tables' = Tables
    BY <2>1 DEF FetchedByLoad, Tables, Secs
  <2>3. \A t \in Threads : thr[t].pc = "idle"
    BY <2>1 DEF SharedInv
  <2> QED BY <1>1, <2>1, <2>2, <2>3 DEF SharedInv
<1>4. CASE StreamFails
  <2>1. phase' = phase /\ data' = data /\ file' = file /\ table' = table
    BY <1>4 DEF StreamFails
  <2>2. Tables' = Tables
    BY <2>1 DEF Tables, Secs
  <2> QED BY <1>1, <2>1, <2>2 DEF SharedInv
<1> QED BY <1>2, <1>3, <1>4 DEF SetupStep

FullInv == IInv /\ FilledInv /\ SharedInv

\* The whole of the invariant.
THEOREM SharedReaderInvariant == ~SharesScratch => (Spec => []FullInv)
<1> SUFFICES ASSUME ~SharesScratch PROVE Spec => []FullInv
  OBVIOUS
<1>1. Init => FullInv
  <2> SUFFICES ASSUME Init PROVE FullInv
    OBVIOUS
  <2>1. IInv
    BY InitIInv
  <2>2. phase = "header" /\ data = << >> /\ thr = [t \in Threads |-> Idle]
    BY DEF Init
  <2>3. (\A t \in Threads : thr[t].pc = "idle") /\ DOMAIN data = {}
    BY <2>2, IdleType
  <2>4. FilledInv
    BY <2>2, <2>3 DEF FilledInv, Built, Holds
  <2>5. SharedInv
    BY <2>2, <2>3 DEF SharedInv
  <2> QED BY <2>1, <2>4, <2>5 DEF FullInv
<1>2. ASSUME FullInv, [Next]_vars PROVE FullInv'
  <2>1. IInv /\ FilledInv /\ SharedInv /\ TypeInv /\ OwnedInv
    BY <1>2 DEF FullInv, IInv
  <2>2. IInv'
    BY <1>2, <2>1, NextIInv
  <2>3. FilledInv' /\ SharedInv'
    <3>1. CASE SetupStep
      BY <2>1, <3>1, SetupFilled, SetupShared
    <3>2. ASSUME NEW t \in Threads, CallMoves(t) PROVE FilledInv' /\ SharedInv'
      BY <2>1, <3>2, CallFilled, CallShared
    <3>3. CASE UNCHANGED vars
      BY <2>1, <3>3 DEF vars, FilledInv, Built, Filled, InBounds, Secs, Holds, SharedInv, Tables
    <3> QED BY <1>2, <2>1, <3>1, <3>2, <3>3, NextMoves
  <2> QED BY <2>2, <2>3 DEF FullInv
<1> QED BY <1>1, <1>2, PTL DEF Spec

\* A buffer in use, with its owner and its contents.
LEMMA UsedBuffers ==
    ASSUME FullInv, NEW t \in Threads, Using(t)
    PROVE  /\ bufs[thr[t].buf].kind # "none" /\ bufs[thr[t].buf].owners # {}
           /\ Good(bufs[thr[t].buf].holds, thr[t].sec)
<1>1. TypeInv /\ OwnedInv /\ FilledInv /\ SharedInv /\ thr[t].pc = "using"
  BY DEF FullInv, IInv, Using
<1>2. thr[t].call \in {"data", "buffer"}
  BY <1>1, CallFacts DEF TypeInv, Calls
<1>3. CASE thr[t].call = "buffer"
  <2>1. Holds(t)
    BY <1>1, <1>3 DEF Holds
  <2> QED BY <1>1, <2>1, FilledMeans DEF OwnedInv
<1>4. CASE thr[t].call = "data"
  <2>1. thr[t].sec \in Tables /\ thr[t].buf # 0 /\ thr[t].buf = data[thr[t].sec]
    BY <1>1, <1>4 DEF SharedInv
  <2>2. thr[t].sec \in DOMAIN data
    BY <1>1, CallFacts
  <2> QED BY <1>1, <2>1, <2>2, FilledMeans DEF OwnedInv
<1> QED BY <1>2, <1>3, <1>4

\* reader.hpp:54-60, 76: where load() reads every table before the Reader is shared, the
\* pointer that getData returned stays good, whatever other threads call.
THEOREM PointersStayGood == ~SharesScratch => (Spec => []PointersLive)
<1>1. FullInv => PointersLive
  BY UsedBuffers DEF PointersLive
<1> QED BY <1>1, SharedReaderInvariant, PTL

\* A caller has all bytes of its section and no others, of a file that has them, unless the
\* file stream failed before.
THEOREM SectionsDelivered == ~SharesScratch => (Spec => []DeliversSection)
<1>1. FullInv => DeliversSection
  <2> SUFFICES ASSUME FullInv, NEW t \in Threads, Using(t), failed # TRUE
               PROVE  LET h == file.table[thr[t].sec]  c == bufs[thr[t].buf].holds IN
                      ~c.garbage /\ c.from = h.offset /\ c.len = h.size /\ c.from + c.len <= file.size
    BY DEF DeliversSection
  <2>1. failed = FALSE
    BY DEF FullInv, IInv, TypeInv
  <2>2. Good(bufs[thr[t].buf].holds, thr[t].sec)
    BY UsedBuffers
  <2> QED BY <2>1, <2>2 DEF Good, InBounds
<1> QED BY <1>1, SharedReaderInvariant, PTL

=============================================================================
