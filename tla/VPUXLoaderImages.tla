-------------------------- MODULE VPUXLoaderImages --------------------------
(***************************************************************************)
(* Proof that the image of a loaded loader is its blob, relocated exactly   *)
(* once (VPUXLoader), whatever calls of load() failed before and however    *)
(* copies, scratch updates and JIT relocations of the loaders interleave;   *)
(* and that VPUXLoader implements LinkedImages, step by step.               *)
(***************************************************************************)
EXTENDS VPUXLoaderLocks, VPUXLoaderRefinement

ActionAt(s) == actionMap[elf[s].type]

\* The sections that load() makes an entry for.
Allocates(s) ==
    /\ ~SkipsAllocation(elf[s])
    /\ \/ ActionAt(s) = "AllocateAndLoad"
       \/ ActionAt(s) = "Allocate" /\ ~isNetworkIO(elf[s])

\* The loop over the sections does not get past section s.
Stops(l, s) ==
    \/ ActionAt(s) = "Error"
    \/ Allocates(s) /\ (infer[l][s].has \/ (ActionAt(s) = "Allocate" /\ ~elf[s].write))
Stuck(l, n) == \E s \in SecIdx : s >= n /\ Stops(l, s)

NothingRegistered == relocIdx = << >> /\ jitIdx = << >>

\* No call of load() that is at section n, or starts there, can complete any more.
Doomed(l, n) == Stuck(l, n) \/ (~NothingRegistered /\ \A s \in SecIdx : ~Allocates(s))

\* Each relocation section below n at most once, in the vector that is meant for it.
Ascending(q, n) ==
    /\ \A i \in 1 .. Len(q) : q[i] < n
    /\ \A i, j \in 1 .. Len(q) : i < j => q[i] < q[j]
OnceBelow(n) ==
    /\ Ascending(relocIdx, n) /\ \A i \in 1 .. Len(relocIdx) : ~elf[relocIdx[i]].jit
    /\ Ascending(jitIdx, n) /\ \A i \in 1 .. Len(jitIdx) : elf[jitIdx[i]].jit

\* The entries of the sections below n are the ones this call of load() has made.
EntriesBelow(l, n) ==
    \A s \in SecIdx : s < n =>
        /\ Allocates(s) => infer[l][s].has
        /\ infer[l][s].has /\ infer[l][s].hasData => ~infer[l][s].isProcessed

\* What load() leaves to every later call.
Complete(l) ==
    /\ OnceBelow(NumSections)
    /\ \A r \in SecIdx : IsRela(elf, r) => Registered(r)
    /\ \A s \in SecIdx : Allocates(s) => infer[l][s].has

\* Nobody calls load() again after a read of it has thrown.
NoRetriedRead == ~ReadsFail \/ MaxLoads <= 1

\* The client calls load() no more.
Spent == loads >= MaxLoads

\* A loader's progress through load(), and why one that threw cannot be repeated.
OnceOK(l) ==
    /\ \A s \in SecIdx : infer[l][s].has => Allocates(s)
    /\ ctl[l].pc = "section" =>
          /\ loads >= 1
          /\ EntriesBelow(l, ctl[l].pos) /\ (OnceBelow(ctl[l].pos) \/ Doomed(l, ctl[l].pos))
    /\ ctl[l].pc = "share" =>
          /\ EntriesBelow(l, NumSections)
          /\ \/ OnceBelow(NumSections)
             \/ ~NothingRegistered /\ (\A s \in SecIdx : ~Allocates(s)) /\ ctl[l].pos = 1
    /\ Present(l) /\ ~mbr[l].loaded /\ ctl[l].pc # "section" => NothingRegistered \/ Doomed(l, 0) \/ Spent
    /\ mbr[l].loaded \/ ctl[l].pc \in {"buffers"} \cup Relocating => Complete(l)
OnceInv == \A l \in Loaders : OnceOK(l)

\* Scratch sections that the driver left without memory.
ScratchOK(l) ==
    /\ ~mbr[l].loaded => \A i \in 1 .. Len(mbr[l].scratch) :
          LET s == mbr[l].scratch[i]  e == infer[l][s] IN
          e.has /\ e.isProcessed /\ e.buf = OwnBuf(l, s) /\ dev[OwnBuf(l, s)] = NullAddr
    /\ ctl[l].pc \in {"reload", "reloadCopy"} => mbr[l].loaded
ScratchInv == \A l \in Loaders : ScratchOK(l)

\* The images that buffers are shared or restored from have been read.
SourceOK(l, s) ==
    LET e == infer[l][s]  b == backup[l][s] IN
    e.has /\ e.isProcessed =>
        /\ e.isShared => mem[DataBuf(s)].fill
        /\ e.hasData /\ ~e.isShared =>
              b.has /\ b.isShared /\ b.buf = BackupBuf(s) /\ mem[BackupBuf(s)].fill
SourceInv == \A l \in Loaders, s \in SecIdx : SourceOK(l, s)

JitsBelow(n) == {jitIdx[i] : i \in {j \in 1 .. Len(jitIdx) : j < n}}

\* What section r has written into section s of loader l so far, stage by stage.
Written(l, s, r) ==
    LET c == ctl[l] IN
    IF c.pc \in {"buffers", "reload", "reloadCopy"} THEN << >>
    ELSE IF c.pc \in {"reloc", "relocPatch"}
      THEN IF r \in RelocsBelow(c.pos) /\ elf[r].info = s THEN <<SymValue(l, r)>> ELSE << >>
    ELSE IF c.pc \in {"jit", "jitPatch"} /\ r \in JitsBelow(c.pos) /\ elf[r].info = s
      THEN <<UserVal(c.arg, elf[r].io)>>
    ELSE Expected(l, s, r)

\* The sections of a loader whose contents are defined: not the ones still to be loaded
\* or restored, and none between calls unless the last one left the image whole.
Defined(l, s) ==
    /\ infer[l][s].has /\ infer[l][s].hasData /\ infer[l][s].isProcessed
    /\ \/ ctl[l].pc \in {"buffers", "reloc", "relocPatch"}
       \/ ctl[l].pc \in {"reload", "reloadCopy"} /\ s \notin ctl[l].todo
       \/ /\ ctl[l].pc \in {"idle", "jit", "jitPatch"} /\ mbr[l].loaded
          /\ io[l] # Broken /\ ScratchReady(l)
StageOK(l, s) ==
    Defined(l, s) =>
        LET c == mem[infer[l][s].buf] IN
        c.fill /\ \A r \in SecIdx : c.patch[r] = Written(l, s, r)
StageInv == \A l \in Loaders, s \in SecIdx : StageOK(l, s)

\* The stages of each operation, and what it needs of its loader.
OpOK(c, m) ==
    /\ c.pc \in {"absent", "idle"} <=> c.op = "none"
    /\ c.pc \in {"section", "share", "buffers"} => c.op = "load"
    /\ c.pc \in {"reload", "reloadCopy"} => c.op \in {"clone", "assign", "scratch"}
    /\ c.pc \in {"reloc", "relocPatch"} => c.op \in {"load", "clone", "assign", "scratch"}
    /\ c.pc \in {"jit", "jitPatch"} => c.op = "jit"
    /\ c.op = "load" => ~m.loaded /\ (c.pc \in {"reloc", "relocPatch"} => m.scratch = << >>)
    /\ c.op \in {"clone", "assign", "scratch", "jit"} => m.loaded
    /\ c.op = "scratch" => m.scratch # << >>
    /\ c.op # "none" \/ m.loaded => m.symTab \in SymTabs
OpInv == \A l \in Loaders : OpOK(ctl[l], mbr[l])

\* The scratch sections of a loader are its own buffers, and either all of them are in
\* the set the driver supplied last or none has memory.
SuppliedOK(l) ==
    LET q == mbr[l].scratch IN
    /\ \A i \in 1 .. Len(q) : LET e == infer[l][q[i]] IN e.has /\ e.buf = OwnBuf(l, q[i])
    /\ \/ \A i \in 1 .. Len(q) : dev[OwnBuf(l, q[i])] = NullAddr
       \/ \E a \in ScratchSets : \A i \in 1 .. Len(q) : dev[OwnBuf(l, q[i])] = <<a, q[i]>>
    /\ ctl[l].op = "scratch" /\ ctl[l].pc \in {"reloc", "relocPatch"} =>
          \A i \in 1 .. Len(q) : dev[OwnBuf(l, q[i])] = <<ctl[l].arg, q[i]>>
    /\ ctl[l].op \in {"clone", "assign"} => \A i \in 1 .. Len(q) : dev[OwnBuf(l, q[i])] = NullAddr
SuppliedInv == \A l \in Loaders : SuppliedOK(l)

\* An inference patches its user buffers over those of the one before, so a JIT
\* relocation section must not hold a type that accumulates (OR, SUM).
JitOverwrites == \A e \in Blobs, r \in SecIdx : IsRela(e, r) /\ e[r].jit => ~e[r].acc

-----------------------------------------------------------------------------
(* OnceInv *)

\* The predicates of OnceOK depend on the blob, the vectors and which entries there are.
LEMMA OnceSame ==
  ASSUME UNCHANGED <<elf, relocIdx, jitIdx>>, NEW l,
         \A s \in SecIdx : infer'[l][s].has <=> infer[l][s].has
  PROVE  /\ \A n : Doomed(l, n) => Doomed(l, n)'
         /\ \A n : OnceBelow(n) => OnceBelow(n)'
         /\ Complete(l) => Complete(l)'
         /\ \A s \in SecIdx : Allocates(s)' <=> Allocates(s)
         /\ NothingRegistered' <=> NothingRegistered
<1>1. \A s : (Allocates(s)' <=> Allocates(s)) /\ ActionAt(s)' = ActionAt(s)
  BY DEF Allocates, ActionAt
<1>2. \A s \in SecIdx : Stops(l, s)' <=> Stops(l, s)
  BY <1>1 DEF Stops
<1>3. NothingRegistered' <=> NothingRegistered
  BY DEF NothingRegistered
<1>4. \A n : Doomed(l, n) => Doomed(l, n)'
  BY <1>1, <1>2, <1>3 DEF Doomed, Stuck
<1>5. \A n : OnceBelow(n) => OnceBelow(n)'
  BY DEF OnceBelow
<1>6. Complete(l) => Complete(l)'
  BY <1>1, <1>5 DEF Complete, Registered, IsRela
<1> QED
  BY <1>1, <1>3, <1>4, <1>5, <1>6

\* A step of load()'s loop over the sections: it gets past the section with the entry
\* the section calls for, or it throws and no later call gets past it.
LEMMA SectionEffect ==
  ASSUME TypeOK, NEW l \in Loaders, SectionStep(l), NEW p, p = ctl[l].pos, infer[l][p].has => Allocates(p)
  PROVE  /\ \A s \in SecIdx : s # p => infer'[l][s] = infer[l][s]
         /\ infer'[l][p].has => Allocates(p)
         /\ ctl'[l] = Idle => Stops(l, p)'
         /\ ctl'[l] # Idle => /\ ~Stops(l, p)
                              /\ Allocates(p) => infer'[l][p].has
                              /\ infer'[l][p].has /\ infer'[l][p].hasData => ~infer'[l][p].isProcessed
<1>0. /\ ctl \in [Loaders -> Control] /\ ctl[l] \in Control /\ infer \in [Loaders -> [SecIdx -> Entry]]
      /\ infer[l] \in [SecIdx -> Entry]
  BY DEF TypeOK
<1>1. p \in SecIdx /\ p \in Nat
  BY LoadPc DEF SecIdx
<1>2. /\ elf' = elf /\ (Allocates(p)' <=> Allocates(p)) /\ ActionAt(p)' = ActionAt(p)
  BY DEF SectionStep, LoadProgbits, LoadNobits, LoadRela, LoadSymtab, LoadOther, Allocates, ActionAt
<1>3. /\ AbortLoad(l) => ctl'[l] = Idle
      /\ NextSection(l) => ctl'[l] # Idle
  <2>1. AbortLoad(l) => ctl'[l] = Idle
    BY <1>0 DEF AbortLoad
  <2>2. NextSection(l) => ctl'[l].pc = ctl[l].pc
    BY <1>0 DEF NextSection, Control
  <2>3. ctl[l].pc = "section" /\ Idle.pc = "idle"
    BY LoadPc DEF Idle, At
  <2> QED
    BY <2>1, <2>2, <2>3
<1>4. ASSUME infer' = infer, ~Allocates(p), ActionAt(p) # "Error", NextSection(l)
      PROVE  /\ \A s \in SecIdx : infer'[l][s] = infer[l][s]
             /\ ~infer'[l][p].has /\ ~Stops(l, p) /\ ctl'[l] # Idle
  BY <1>3, <1>4 DEF Stops
<1>5. ASSUME infer' = infer, Stops(l, p), AbortLoad(l)
      PROVE  /\ \A s \in SecIdx : infer'[l][s] = infer[l][s]
             /\ infer'[l][p].has => Allocates(p)
             /\ Stops(l, p)' /\ ctl'[l] = Idle
  BY <1>2, <1>3, <1>5 DEF Stops
<1>6. ASSUME NEW b, NEW d, NEW w, NEW q, infer' = [infer EXCEPT ![l][p] = Info(b, d, w, q)]
      PROVE  /\ \A s \in SecIdx : s # p => infer'[l][s] = infer[l][s]
             /\ infer'[l][p].has /\ infer'[l][p].hasData = d /\ infer'[l][p].isProcessed = q
  <2>1. infer'[l] = [infer[l] EXCEPT ![p] = Info(b, d, w, q)]
    BY <1>0, <1>6
  <2>2. infer'[l][p] = Info(b, d, w, q) /\ \A s \in SecIdx : s # p => infer'[l][s] = infer[l][s]
    BY <1>0, <1>1, <2>1
  <2> QED
    BY <2>2 DEF Info
<1>7. CASE LoadProgbits(l)
  <2>0. ActionAt(p) = "AllocateAndLoad"
    BY <1>7 DEF LoadProgbits, AtSection, ActionAt
  <2>1. CASE SkipsAllocation(elf[p]) /\ NextSection(l) /\ infer' = infer
    BY <1>4, <2>0, <2>1 DEF Allocates
  <2>2. CASE ~SkipsAllocation(elf[p]) /\ infer[l][p].has /\ AbortLoad(l) /\ infer' = infer
    BY <1>5, <2>0, <2>2 DEF Allocates, Stops
  <2>3. CASE /\ ~SkipsAllocation(elf[p]) /\ ~infer[l][p].has /\ NextSection(l)
             /\ infer' = [infer EXCEPT ![l][p] = Info(NullBuf(p), TRUE, ~elf[p].write, FALSE)]
    <3>1. Allocates(p) /\ ~Stops(l, p)
      BY <2>0, <2>3 DEF Allocates, Stops
    <3> QED
      BY <1>3, <1>6, <2>3, <3>1
  <2> QED
    BY <1>7, <2>1, <2>2, <2>3 DEF LoadProgbits, AlreadyInit
<1>8. CASE LoadNobits(l)
  <2> DEFINE skip == SkipsAllocation(elf[p]) \/ isNetworkIO(elf[p])
             refused == ~elf[p].write \/ infer[l][p].has
  <2>0. ActionAt(p) = "Allocate" /\ (Allocates(p) <=> ~skip)
    BY <1>8 DEF LoadNobits, AtSection, ActionAt, Allocates
  <2>1. CASE skip /\ NextSection(l) /\ infer' = infer
    BY <1>4, <2>0, <2>1
  <2>2. CASE ~skip /\ refused /\ AbortLoad(l) /\ infer' = infer
    BY <1>5, <2>0, <2>2 DEF Stops
  <2>3. CASE /\ ~skip /\ ~refused /\ NextSection(l)
             /\ infer' = [infer EXCEPT ![l][p] = Info(OwnBuf(l, p), FALSE, FALSE, TRUE)]
    <3>1. Allocates(p) /\ ~Stops(l, p)
      BY <2>0, <2>3 DEF Stops
    <3> QED
      BY <1>3, <1>6, <2>3, <3>1
  <2>4. CASE /\ ~skip /\ ~refused /\ AbortLoad(l)
             /\ infer' = [infer EXCEPT ![l][p] = Info(NullBuf(p), FALSE, FALSE, FALSE)]
    <3>1. Stops(l, p)'
      BY <1>2, <1>6, <2>0, <2>4 DEF Stops
    <3> QED
      BY <1>3, <1>6, <2>0, <2>4, <3>1
  <2>5. \/ skip /\ NextSection(l) /\ infer' = infer
        \/ ~skip /\ refused /\ AbortLoad(l) /\ infer' = infer
        \/ /\ ~skip /\ ~refused /\ NextSection(l)
           /\ infer' = [infer EXCEPT ![l][p] = Info(OwnBuf(l, p), FALSE, FALSE, TRUE)]
        \/ /\ ~skip /\ ~refused /\ AbortLoad(l)
           /\ infer' = [infer EXCEPT ![l][p] = Info(NullBuf(p), FALSE, FALSE, FALSE)]
    BY <1>8 DEF LoadNobits, AlreadyInit
  <2> HIDE DEF skip, refused
  <2> QED
    BY <2>1, <2>2, <2>3, <2>4, <2>5
<1>9. CASE LoadRela(l) \/ LoadSymtab(l)
  BY <1>4, <1>9 DEF LoadRela, LoadSymtab, AtSection, ActionAt, Allocates
<1>10. CASE LoadOther(l)
  <2>1. infer' = infer /\ ((ActionAt(p) = "None" /\ NextSection(l)) \/ (ActionAt(p) = "Error" /\ AbortLoad(l)))
    BY <1>10 DEF LoadOther, AtSection, ActionAt
  <2>2. CASE ActionAt(p) = "None" /\ NextSection(l)
    BY <1>4, <2>1, <2>2 DEF Allocates
  <2>3. CASE ActionAt(p) = "Error" /\ AbortLoad(l)
    BY <1>5, <2>1, <2>3 DEF Stops
  <2> QED
    BY <2>1, <2>2, <2>3
<1> QED
  BY <1>7, <1>8, <1>9, <1>10 DEF SectionStep

\* Appending the section that load() is at keeps a vector ascending.
LEMMA AscendingAppend ==
  ASSUME NEW q \in Seq(SecIdx), NEW n \in SecIdx, Ascending(q, n)
  PROVE  Ascending(Append(q, n), n + 1) /\ Ascending(q, n + 1)
<1>0. /\ Len(q) \in Nat /\ n \in Nat /\ Len(Append(q, n)) = Len(q) + 1
      /\ \A i \in 1 .. Len(q) : q[i] \in Nat /\ q[i] < n
  <2>1. Len(q) \in Nat /\ Len(Append(q, n)) = Len(q) + 1
    BY AppendFacts
  <2>2. SecIdx \subseteq Nat
    BY DEF SecIdx
  <2>3. \A i \in 1 .. Len(q) : q[i] \in SecIdx /\ q[i] < n
    BY DEF Ascending
  <2> QED
    BY <2>1, <2>2, <2>3
<1>1. \A i \in 1 .. Len(q) + 1 : \/ i \in 1 .. Len(q) /\ Append(q, n)[i] = q[i]
                                 \/ i = Len(q) + 1 /\ Append(q, n)[i] = n
  BY <1>0, AppendFacts
<1>2. ASSUME NEW i \in 1 .. Len(q) + 1 PROVE Append(q, n)[i] < n + 1
  <2>1. CASE i \in 1 .. Len(q) /\ Append(q, n)[i] = q[i]
    BY <1>0, <2>1
  <2>2. CASE Append(q, n)[i] = n
    BY <1>0, <2>2
  <2> QED
    BY <1>1, <2>1, <2>2
<1>3. ASSUME NEW i \in 1 .. Len(q) + 1, NEW j \in 1 .. Len(q) + 1, i < j
      PROVE  Append(q, n)[i] < Append(q, n)[j]
  <2>1. i \in 1 .. Len(q)
    BY <1>0, <1>3
  <2>2. Append(q, n)[i] = q[i] /\ (Append(q, n)[j] = n \/ (j \in 1 .. Len(q) /\ Append(q, n)[j] = q[j]))
    BY <1>0, <1>1, <2>1
  <2> QED
    BY <1>0, <1>3, <2>1, <2>2 DEF Ascending
<1> QED
  BY <1>0, <1>2, <1>3 DEF Ascending

\* Registering the section that load() is at keeps the vectors free of duplicates.
LEMMA OnceAppend ==
  ASSUME TypeOK, NEW l \in Loaders, SectionStep(l), NEW p, p = ctl[l].pos
  PROVE  /\ OnceBelow(p) => OnceBelow(p + 1)'
         /\ NothingRegistered' => NothingRegistered
<1>0. relocIdx \in Seq(SecIdx) /\ jitIdx \in Seq(SecIdx) /\ p \in SecIdx /\ elf' = elf
  BY LoadPc DEF TypeOK, SectionStep, LoadProgbits, LoadNobits, LoadRela, LoadSymtab, LoadOther
<1>1. \/ relocIdx' = relocIdx /\ jitIdx' = jitIdx
      \/ ~elf[p].jit /\ relocIdx' = Append(relocIdx, p) /\ jitIdx' = jitIdx
      \/ elf[p].jit /\ relocIdx' = relocIdx /\ jitIdx' = Append(jitIdx, p)
  BY DEF SectionStep, LoadProgbits, LoadNobits, LoadRela, LoadSymtab, LoadOther, indexes
<1>2. \A q \in Seq(SecIdx) : Append(q, p) # << >>
  BY <1>0
<1>3. \A q \in Seq(SecIdx) : \A i \in 1 .. Len(Append(q, p)) :
         (i \in 1 .. Len(q) /\ Append(q, p)[i] = q[i]) \/ Append(q, p)[i] = p
  <2>1. ASSUME NEW q \in Seq(SecIdx), NEW i \in 1 .. Len(Append(q, p))
        PROVE  (i \in 1 .. Len(q) /\ Append(q, p)[i] = q[i]) \/ Append(q, p)[i] = p
    BY <1>0, AppendFacts
  <2> QED
    BY <2>1
<1>4. ASSUME OnceBelow(p) PROVE OnceBelow(p + 1)'
  <2>1. Ascending(relocIdx, p) /\ Ascending(jitIdx, p)
    BY <1>4 DEF OnceBelow
  <2>2. Ascending(relocIdx', p + 1) /\ Ascending(jitIdx', p + 1)
    BY <1>0, <1>1, <2>1, AscendingAppend
  <2>3. ASSUME NEW i \in 1 .. Len(relocIdx') PROVE ~elf[relocIdx'[i]].jit
    <3>1. CASE relocIdx' = relocIdx
      BY <1>4, <2>3, <3>1 DEF OnceBelow
    <3>2. CASE ~elf[p].jit /\ relocIdx' = Append(relocIdx, p)
      <4>1. (i \in 1 .. Len(relocIdx) /\ relocIdx'[i] = relocIdx[i]) \/ relocIdx'[i] = p
        BY <1>0, <1>3, <2>3, <3>2
      <4> QED
        BY <1>4, <3>2, <4>1 DEF OnceBelow
    <3> QED
      BY <1>1, <3>1, <3>2
  <2>4. ASSUME NEW i \in 1 .. Len(jitIdx') PROVE elf[jitIdx'[i]].jit
    <3>1. CASE jitIdx' = jitIdx
      BY <1>4, <2>4, <3>1 DEF OnceBelow
    <3>2. CASE elf[p].jit /\ jitIdx' = Append(jitIdx, p)
      <4>1. (i \in 1 .. Len(jitIdx) /\ jitIdx'[i] = jitIdx[i]) \/ jitIdx'[i] = p
        BY <1>0, <1>3, <2>4, <3>2
      <4> QED
        BY <1>4, <3>2, <4>1 DEF OnceBelow
    <3> QED
      BY <1>1, <3>1, <3>2
  <2> QED
    BY <1>0, <2>2, <2>3, <2>4 DEF OnceBelow, Ascending
<1> QED
  BY <1>0, <1>1, <1>2, <1>4 DEF NothingRegistered

\* The vectors change in load()'s loop only, or when there is no loader.
LEMMA IndexesStay ==
  ASSUME TypeOK, NEW l \in Loaders, Step(l)
  PROVE  \/ relocIdx' = relocIdx /\ jitIdx' = jitIdx
         \/ LoadRela(l)
         \/ \A k \in Loaders : ctl[k].pc = "absent"
  BY IndexStep

\* The number of calls of load() and its bound are numbers.
LEMMA LoadsType == TypeOK => loads \in Nat /\ MaxLoads \in Nat
BY BoundsAssumption DEF TypeOK

\* Only the construction of a new loader, when there is no other, resets the count of calls.
LEMMA LoadsGrow ==
  ASSUME TypeOK, NEW l \in Loaders, Step(l)
  PROVE  loads' = loads \/ loads' = loads + 1 \/ \A k \in Loaders : ctl[k].pc = "absent"
<1>1. CASE LoadStep(l)
  BY <1>1 DEF LoadStep, LoadProgbits, LoadNobits, LoadRela, LoadSymtab, LoadOther, SectionsDone,
     UpdateSharedBuffers, SharingDone, LoadSharedBuffer, LoadOwnBuffer, BuffersLoaded, bounds
<1>2. CASE PatchStep(l)
  BY <1>2 DEF PatchStep, RelocLock, RelocPatch, RelocDone, ReloadLock, ReloadCopy, ReloadDone, JitLock, JitPatch,
     JitDone, ReadThrows, bounds
<1>3. CASE ClientStep(l)
  BY <1>3 DEF ClientStep, Construct, Destroy, SetInferencesMayBeRunInParallel, StartLoad, Clone, Assign, CopyInto,
     UpdateSharedScratchBuffers, ApplyJitRelocations, bounds
<1> QED
  BY <1>1, <1>2, <1>3 DEF Step

\* A step of one loader does not disturb what holds of another.
LEMMA OnceOther ==
  ASSUME TypeOK, ControlInv, AloneInv, AbsentInv, OnceInv, NEW l \in Loaders, Step(l),
         NEW k \in Loaders, k # l
  PROVE  OnceOK(k)'
<1>0. /\ elf' = elf /\ ctl'[k] = ctl[k] /\ infer'[k] = infer[k] /\ mbr'[k] = mbr[k]
      /\ OnceOK(k) /\ (Present(k) => loads' \in {loads, loads + 1})
  <2>1. Present(k) => loads' \in {loads, loads + 1}
    BY LoadsGrow DEF Present
  <2> QED
    BY <2>1, StepFrame DEF Frame, OnceInv
<1>1. CASE relocIdx' = relocIdx /\ jitIdx' = jitIdx
  <2>1. /\ \A n : Doomed(k, n) => Doomed(k, n)'
        /\ \A n : OnceBelow(n) => OnceBelow(n)'
        /\ Complete(k) => Complete(k)'
        /\ \A s \in SecIdx : Allocates(s)' <=> Allocates(s)
        /\ NothingRegistered' <=> NothingRegistered
    BY <1>0, <1>1, OnceSame
  <2>2. \A n : EntriesBelow(k, n) => EntriesBelow(k, n)'
    BY <1>0, <2>1 DEF EntriesBelow
  <2>3. Present(k) => (Spent => Spent') /\ (loads >= 1 => loads' >= 1)
    BY <1>0, LoadsType DEF Spent
  <2> HIDE DEF Doomed, OnceBelow, Complete, Allocates, NothingRegistered, EntriesBelow
  <2> QED
    BY <1>0, <2>1, <2>2, <2>3 DEF OnceOK, Present
<1>2. CASE ~(relocIdx' = relocIdx /\ jitIdx' = jitIdx)
  <2>1. LoadRela(l) => Present(l) /\ ~mbr[l].loaded
    <3>1. LoadRela(l) => ctl[l].pc = "section"
      BY DEF LoadRela, AtSection
    <3> QED
      BY <3>1 DEF Present, ControlInv, ControlOK
  <2>2. ~Present(k)
    BY <1>2, <2>1, IndexesStay DEF AloneInv, Present
  <2>3. ctl'[k].pc = "absent" /\ infer'[k] = EmptyMap /\ ~mbr'[k].loaded
    BY <1>0, <2>2 DEF AbsentInv, AbsentOK, Present, NewMembers
  <2> QED
    BY <2>3, EmptyFields DEF OnceOK, Present, Relocating
<1> QED
  BY <1>1, <1>2

\* The loop over the sections keeps OnceOK.
LEMMA OnceSection ==
  ASSUME TypeOK, ControlInv, OnceInv, NEW l \in Loaders, SectionStep(l)
  PROVE  OnceOK(l)'
<1> DEFINE p == ctl[l].pos
<1>0. /\ OnceOK(l) /\ ControlOK(ctl[l], mbr[l], infer[l]) /\ elf' = elf /\ ctl[l].pc = "section"
      /\ p \in SecIdx /\ p \in Nat /\ mbr \in [Loaders -> Members] /\ loads' = loads /\ loads >= 1
  <2>1. ctl[l].pc = "section" /\ p \in SecIdx /\ p \in Nat
    BY LoadPc DEF SecIdx
  <2>2. elf' = elf
    BY DEF SectionStep, LoadProgbits, LoadNobits, LoadRela, LoadSymtab, LoadOther
  <2>3. loads' = loads
    BY DEF SectionStep, LoadProgbits, LoadNobits, LoadRela, LoadSymtab, LoadOther, bounds
  <2>4. loads >= 1
    BY <2>1 DEF OnceInv, OnceOK
  <2> QED
    BY <2>1, <2>2, <2>3, <2>4 DEF OnceInv, ControlInv, TypeOK
<1>1. \A s \in SecIdx : (infer[l][s].has => Allocates(s)) /\ (Allocates(s)' <=> Allocates(s)) /\ ActionAt(s)' = ActionAt(s)
  BY <1>0 DEF OnceOK, Allocates, ActionAt
<1>2. ~mbr'[l].loaded
  <2>1. mbr' = mbr \/ \E q : mbr' = [mbr EXCEPT ![l].scratch = q]
    BY DEF SectionStep, LoadProgbits, LoadNobits, LoadRela, LoadSymtab, LoadOther
  <2> QED
    BY <1>0, <2>1 DEF ControlOK, Members
<1>3. ctl'[l] = Idle \/ (ctl'[l].pc = "section" /\ ctl'[l].pos = p + 1)
  BY LoadPc
<1>4. EntriesBelow(l, p) /\ (OnceBelow(p) \/ Doomed(l, p))
  BY <1>0 DEF OnceOK
<1>5. PICK n \in SecIdx : n = p
  BY <1>0
<1> HIDE DEF p
<1>6. /\ \A s \in SecIdx : s # n => infer'[l][s] = infer[l][s]
      /\ infer'[l][n].has => Allocates(n)
      /\ ctl'[l] = Idle => Stops(l, n)'
      /\ ctl'[l] # Idle => /\ ~Stops(l, n)
                           /\ Allocates(n) => infer'[l][n].has
                           /\ infer'[l][n].has /\ infer'[l][n].hasData => ~infer'[l][n].isProcessed
  BY <1>1, <1>5, SectionEffect DEF p
<1>7. (OnceBelow(n) => OnceBelow(n + 1)') /\ (NothingRegistered' => NothingRegistered)
  BY <1>5, OnceAppend DEF p
<1>8. \A s \in SecIdx : infer'[l][s].has => Allocates(s)'
  BY <1>1, <1>6
<1>9. CASE ctl'[l] = Idle
  <2>1. ctl'[l].pc = "idle"
    BY <1>9 DEF Idle, At
  <2>2. n >= 0
    BY DEF SecIdx
  <2>3. Doomed(l, 0)'
    BY <1>6, <1>9, <2>2 DEF Doomed, Stuck
  <2> QED
    BY <1>2, <1>8, <2>1, <2>3 DEF OnceOK, Relocating
<1>10. CASE ctl'[l].pc = "section" /\ ctl'[l].pos = n + 1
  <2>0. ctl'[l] # Idle
    BY <1>10 DEF Idle, At
  <2>1. \A s \in SecIdx : s < n + 1 <=> s < n \/ s = n
    BY DEF SecIdx
  <2>2. \A s \in SecIdx : s >= n /\ s # n => s >= n + 1
    BY DEF SecIdx
  <2>3. EntriesBelow(l, n + 1)'
    <3>1. ASSUME NEW s \in SecIdx, s < n + 1
          PROVE  /\ Allocates(s) => infer'[l][s].has
                 /\ infer'[l][s].has /\ infer'[l][s].hasData => ~infer'[l][s].isProcessed
      <4>1. CASE s = n
        BY <1>6, <2>0, <4>1
      <4>2. CASE s < n /\ s # n
        BY <1>4, <1>5, <1>6, <4>2 DEF EntriesBelow
      <4>3. s < n => s # n
        BY DEF SecIdx
      <4> QED
        BY <2>1, <3>1, <4>1, <4>2, <4>3
    <3> QED
      BY <1>1, <1>5, <1>10, <3>1 DEF EntriesBelow
  <2>4. OnceBelow(n + 1)' \/ Doomed(l, n + 1)'
    <3>1. CASE OnceBelow(n)
      BY <1>7, <3>1
    <3>2. CASE Stuck(l, n)
      <4>1. PICK s \in SecIdx : s >= n /\ Stops(l, s)
        BY <3>2 DEF Stuck
      <4>2. s # n /\ s >= n + 1
        BY <1>6, <2>0, <2>2, <4>1
      <4>3. Stops(l, s)'
        BY <1>0, <1>1, <1>6, <4>1, <4>2 DEF Stops
      <4> QED
        BY <4>2, <4>3 DEF Doomed, Stuck
    <3>3. CASE ~NothingRegistered /\ \A s \in SecIdx : ~Allocates(s)
      BY <1>1, <1>7, <3>3 DEF Doomed
    <3> QED
      BY <1>4, <1>5, <3>1, <3>2, <3>3 DEF Doomed
  <2>5. ctl'[l].pos = n + 1 /\ EntriesBelow(l, ctl[l].pos)' /\ (OnceBelow(ctl[l].pos)' \/ Doomed(l, ctl[l].pos)')
    BY <1>10, <2>3, <2>4 DEF EntriesBelow, OnceBelow, Doomed, Ascending, Stuck
  <2> QED
    BY <1>0, <1>2, <1>8, <1>10, <2>5 DEF OnceOK, Relocating
<1> QED
  BY <1>3, <1>5, <1>9, <1>10

\* The end of the loop: a call of load() that is not the first to register something
\* cannot have got here unless the blob has nothing to allocate.
LEMMA OnceSectionsDone ==
  ASSUME TypeOK, ControlInv, OnceInv, NEW l \in Loaders, SectionsDone(l)
  PROVE  OnceOK(l)'
<1>0. /\ OnceOK(l) /\ ControlOK(ctl[l], mbr[l], infer[l]) /\ UNCHANGED <<elf, relocIdx, jitIdx>>
      /\ infer' = infer /\ mbr' = mbr
      /\ ctl[l].pc = "section" /\ ctl[l].pos = NumSections /\ ctl'[l].pc = "share" /\ ctl'[l].pos = 1
  BY LoadPc DEF OnceInv, ControlInv, SectionsDone, indexes
<1>1. /\ \A n : Doomed(l, n) => Doomed(l, n)'
      /\ \A n : OnceBelow(n) => OnceBelow(n)'
      /\ \A s \in SecIdx : Allocates(s)' <=> Allocates(s)
      /\ NothingRegistered' <=> NothingRegistered
  BY <1>0, OnceSame
<1>2. EntriesBelow(l, NumSections) /\ (OnceBelow(NumSections) \/ Doomed(l, NumSections))
  BY <1>0 DEF OnceOK
<1>3. EntriesBelow(l, NumSections)'
  BY <1>0, <1>1, <1>2 DEF EntriesBelow
<1>4. ~Stuck(l, NumSections) /\ \A s \in SecIdx : s < NumSections /\ s >= 0
  BY NumSectionsAssumption DEF Stuck, SecIdx
<1>5. NothingRegistered \/ Doomed(l, 0)
  <2>1. CASE \E s \in SecIdx : Allocates(s)
    <3>1. PICK s \in SecIdx : Allocates(s)
      BY <2>1
    <3>2. infer[l][s].has
      BY <1>2, <1>4, <3>1 DEF EntriesBelow
    <3> QED
      BY <1>4, <3>1, <3>2 DEF Doomed, Stuck, Stops
  <2> QED
    BY <2>1 DEF Doomed
<1>6. \A s \in SecIdx : infer'[l][s].has => Allocates(s)'
  BY <1>0, <1>1 DEF OnceOK
<1>7. OnceBelow(NumSections)' \/ (~NothingRegistered' /\ \A s \in SecIdx : ~Allocates(s)')
  BY <1>1, <1>2, <1>4 DEF Doomed
<1>8. ~mbr'[l].loaded
  BY <1>0 DEF ControlOK
<1>9. NothingRegistered' \/ Doomed(l, 0)'
  BY <1>1, <1>5
<1> QED
  BY <1>0, <1>3, <1>6, <1>7, <1>8, <1>9 DEF OnceOK, Relocating

\* updateSharedBuffers: a blob with relocation sections and nothing to allocate is
\* refused at the first of them.
LEMMA OnceSharing ==
  ASSUME TypeOK, ControlInv, RegisteredInv, OnceInv, NEW l \in Loaders, UpdateSharedBuffers(l) \/ SharingDone(l)
  PROVE  OnceOK(l)'
<1>0. /\ OnceOK(l) /\ ControlOK(ctl[l], mbr[l], infer[l]) /\ UNCHANGED <<elf, relocIdx, jitIdx>> /\ mbr' = mbr
      /\ infer \in [Loaders -> [SecIdx -> Entry]] /\ infer[l] \in [SecIdx -> Entry] /\ ctl[l].pc = "share"
      /\ relocIdx \in Seq(SecIdx) /\ jitIdx \in Seq(SecIdx)
  BY DEF OnceInv, ControlInv, UpdateSharedBuffers, SharingDone, indexes, TypeOK
<1>1. /\ EntriesBelow(l, NumSections)
      /\ \/ OnceBelow(NumSections)
         \/ ~NothingRegistered /\ (\A s \in SecIdx : ~Allocates(s)) /\ ctl[l].pos = 1
      /\ NothingRegistered \/ Doomed(l, 0) \/ Spent
      /\ ~mbr[l].loaded /\ loads' = loads
      /\ \A s \in SecIdx : infer[l][s].has => Allocates(s)
  BY <1>0 DEF OnceOK, ControlOK, Present, UpdateSharedBuffers, SharingDone, bounds
<1>2. \A s \in SecIdx : s < NumSections
  BY NumSectionsAssumption DEF SecIdx
<1>3. \A s \in SecIdx : /\ infer'[l][s].has = infer[l][s].has /\ infer'[l][s].hasData = infer[l][s].hasData
                        /\ infer'[l][s].isProcessed = infer[l][s].isProcessed
  <2>1. infer' = infer \/ \E t : infer' = [infer EXCEPT ![l][t] = PatchedEntry(@)]
    BY DEF UpdateSharedBuffers, SharingDone
  <2>2. \A e \in Entry : /\ PatchedEntry(e).has = e.has /\ PatchedEntry(e).hasData = e.hasData
                         /\ PatchedEntry(e).isProcessed = e.isProcessed
    <3>1. \A e \in Entry : \A h : LET x == [e EXCEPT !.isShared = h] IN
             x.has = e.has /\ x.hasData = e.hasData /\ x.isProcessed = e.isProcessed
      BY DEF Entry
    <3> QED
      BY <3>1 DEF PatchedEntry
  <2>3. CASE infer' = infer
    BY <2>3
  <2>4. ASSUME NEW t, infer' = [infer EXCEPT ![l][t] = PatchedEntry(@)], NEW s \in SecIdx
        PROVE  infer'[l][s] = infer[l][s] \/ infer'[l][s] = PatchedEntry(infer[l][s])
    <3>1. infer'[l] = [infer[l] EXCEPT ![t] = PatchedEntry(@)]
      BY <1>0, <2>4
    <3> QED
      BY <1>0, <3>1
  <2>5. \A s \in SecIdx : infer'[l][s] = infer[l][s] \/ infer'[l][s] = PatchedEntry(infer[l][s])
    BY <2>1, <2>3, <2>4
  <2> QED
    BY <1>0, <2>2, <2>5
<1>4. /\ \A n : Doomed(l, n) => Doomed(l, n)'
      /\ \A n : OnceBelow(n) => OnceBelow(n)'
      /\ Complete(l) => Complete(l)'
      /\ \A s \in SecIdx : Allocates(s)' <=> Allocates(s)
      /\ NothingRegistered' <=> NothingRegistered
  BY <1>0, <1>3, OnceSame
<1>5. /\ EntriesBelow(l, NumSections)' /\ (NothingRegistered' \/ Doomed(l, 0)' \/ Spent') /\ ~mbr'[l].loaded
      /\ \A s \in SecIdx : infer'[l][s].has => Allocates(s)'
  BY <1>0, <1>1, <1>3, <1>4 DEF EntriesBelow, Spent
<1>6. CASE ctl'[l] = Idle
  <2>1. ctl'[l].pc = "idle"
    BY <1>6 DEF Idle, At
  <2> QED
    BY <1>5, <2>1 DEF OnceOK, Relocating
<1>7. CASE UpdateSharedBuffers(l) /\ ctl'[l] # Idle
  <2>1. ctl'[l].pc = "share"
    BY <1>7, LoadPc
  <2>2. ~NoTarget(l, CheckedForSharing[ctl[l].pos])
    BY <1>7 DEF UpdateSharedBuffers, AbortLoad, TypeOK
  <2>3. \E s \in SecIdx : Allocates(s)
    BY <1>1, <2>2 DEF NoTarget, Has
  <2>4. OnceBelow(NumSections)'
    BY <1>1, <1>4, <2>3
  <2> QED
    BY <1>5, <2>1, <2>4 DEF OnceOK, Relocating
<1>8. CASE SharingDone(l)
  <2>1. ctl'[l].pc = "buffers" /\ ctl[l].pos > Len(CheckedForSharing)
    BY <1>8, LoadPc DEF SharingDone
  <2>2. ~NothingRegistered => Len(CheckedForSharing) >= 1
    BY <1>0 DEF NothingRegistered, CheckedForSharing
  <2>3. OnceBelow(NumSections)
    <3>1. Len(CheckedForSharing) \in Nat
      BY <1>0, CheckedFacts
    <3>2. ~NothingRegistered => ctl[l].pos # 1
      BY <2>1, <2>2, <3>1
    <3> QED
      BY <1>1, <3>2
  <2>4. \A r \in SecIdx : IsRela(elf, r) => Registered(r)
    BY <1>0 DEF RegisteredInv, LoopOK
  <2>5. Complete(l)'
    BY <1>1, <1>2, <1>4, <2>3, <2>4 DEF Complete, EntriesBelow
  <2> QED
    BY <1>5, <2>1, <2>5 DEF OnceOK
<1> QED
  BY <1>6, <1>7, <1>8

\* A step that makes no entry, after the vectors are complete or outside of load().
LEMMA OnceKept ==
  ASSUME NEW l \in Loaders, OnceOK(l), UNCHANGED <<elf, relocIdx, jitIdx, loads>>,
         \A s \in SecIdx : infer'[l][s].has <=> infer[l][s].has,
         ctl'[l].pc \notin {"section", "share"},
         Present(l)' /\ ~mbr'[l].loaded => Present(l) /\ ~mbr[l].loaded /\ ctl[l].pc # "section",
         mbr'[l].loaded \/ ctl'[l].pc \in {"buffers"} \cup Relocating =>
            mbr[l].loaded \/ ctl[l].pc \in {"buffers"} \cup Relocating
  PROVE  OnceOK(l)'
<1>1. /\ \A n : Doomed(l, n) => Doomed(l, n)'
      /\ Complete(l) => Complete(l)'
      /\ \A s \in SecIdx : Allocates(s)' <=> Allocates(s)
      /\ NothingRegistered' <=> NothingRegistered
  BY OnceSame
<1>2. \A s \in SecIdx : infer'[l][s].has => Allocates(s)'
  BY <1>1 DEF OnceOK
<1>3. Present(l)' /\ ~mbr'[l].loaded => NothingRegistered' \/ Doomed(l, 0)' \/ Spent'
  BY <1>1 DEF OnceOK, Spent
<1>4. mbr'[l].loaded \/ ctl'[l].pc \in {"buffers"} \cup Relocating => Complete(l)'
  BY <1>1 DEF OnceOK
<1> QED
  BY <1>2, <1>3, <1>4 DEF OnceOK

\* A copy has the entries of its source.
LEMMA CopyEntries ==
  ASSUME TypeOK, NEW l \in Loaders, NEW m \in Loaders, NEW o, NEW t, CopyInto(l, m, o, t)
  PROVE  /\ ctl'[l] = At("reload", o, 0, Reloaded(infer'[l]), NoArg)
         /\ mbr'[l].loaded = mbr[m].loaded /\ mbr'[l].scratch = mbr[m].scratch
         /\ \A s \in SecIdx :
               \/ infer[m][s].has /\ infer'[l][s] = CopiedEntry(l, s, infer[m][s]) /\ infer'[l][s].has
               \/ ~infer[m][s].has /\ infer'[l][s] = infer[l][s]
         /\ \A s \in SecIdx :
               \/ backup[m][s].has /\ backup'[l][s] = CopiedEntry(l, s, backup[m][s])
               \/ ~backup[m][s].has /\ backup'[l][s] = backup[l][s]
<1>0. /\ infer \in [Loaders -> [SecIdx -> Entry]] /\ backup \in [Loaders -> [SecIdx -> Entry]]
      /\ mbr \in [Loaders -> Members] /\ ctl \in [Loaders -> Control]
  BY DEF TypeOK
<1>1. /\ infer'[l] = copyBufferMap(l, infer[l], infer[m])
      /\ backup'[l] = copyBufferMap(l, backup[l], backup[m])
      /\ mbr'[l] = [mbr[m] EXCEPT !.symTab = t]
      /\ ctl'[l] = At("reload", o, 0, Reloaded(infer'[l]), NoArg)
  BY <1>0 DEF CopyInto
<1>2. mbr'[l].loaded = mbr[m].loaded /\ mbr'[l].scratch = mbr[m].scratch
  BY <1>0, <1>1 DEF Members
<1>3. \A s \in SecIdx : infer[m][s].has => CopiedEntry(l, s, infer[m][s]).has
  BY <1>0, CopiedFields
<1> QED
  BY <1>1, <1>2, <1>3 DEF copyBufferMap

\* Steps that relocate or restore, and calls that start, keep OnceOK.
LEMMA OnceRest ==
  ASSUME TypeOK, ControlInv, AbsentInv, OnceInv, NoRetriedRead, NEW l \in Loaders,
         BufferStep(l) \/ BuffersLoaded(l) \/ PatchStep(l) \/ ClientStep(l)
  PROVE  OnceOK(l)'
<1>0. /\ OnceOK(l) /\ ControlOK(ctl[l], mbr[l], infer[l])
      /\ ctl \in [Loaders -> Control] /\ mbr \in [Loaders -> Members] /\ infer \in [Loaders -> [SecIdx -> Entry]]
      /\ infer[l] \in [SecIdx -> Entry] /\ Idle.pc = "idle" /\ Absent.pc = "absent"
  BY DEF OnceInv, ControlInv, TypeOK, Idle, Absent, At
<1>1. CASE Release(l)
  <2>1. ctl'[l].pc = "absent" /\ infer'[l] = EmptyMap /\ ~mbr'[l].loaded
    BY <1>0, <1>1 DEF Release, NewMembers
  <2> QED
    BY <2>1, EmptyFields DEF OnceOK, Present, Relocating
<1>2. CASE BufferStep(l)
  <2>1. PICK s \in SecIdx : LoadSharedBuffer(l, s) \/ LoadOwnBuffer(l, s)
    BY <1>2 DEF BufferStep
  <2>2. UNCHANGED <<elf, relocIdx, jitIdx, mbr, loads>>
    BY <2>1 DEF LoadSharedBuffer, LoadOwnBuffer, indexes, bounds
  <2>3. infer' = infer \/ \E b \in BufIds : infer' = [infer EXCEPT ![l][s] = LoadedEntry(@, b)]
    BY <2>1, BufTypes DEF LoadSharedBuffer, LoadOwnBuffer
  <2>4. \A x \in SecIdx : infer'[l][x].has <=> infer[l][x].has
    <3>1. CASE infer' = infer
      BY <3>1
    <3>2. ASSUME NEW b \in BufIds, infer' = [infer EXCEPT ![l][s] = LoadedEntry(@, b)], NEW x \in SecIdx
          PROVE  infer'[l][x].has <=> infer[l][x].has
      <4>1. infer'[l] = [infer[l] EXCEPT ![s] = LoadedEntry(infer[l][s], b)]
        BY <1>0, <3>2
      <4>2. infer[l][s] \in Entry
        BY <1>0
      <4>3. LoadedEntry(infer[l][s], b).has = infer[l][s].has
        BY <4>2, EntryFields
      <4> QED
        BY <1>0, <4>1, <4>3
    <3> QED
      BY <2>3, <3>1, <3>2
  <2>5. ctl[l].pc = "buffers" /\ ctl'[l].pc \in {"buffers", "idle"}
    BY <1>2, LoadPc
  <2> QED
    BY <1>0, <2>2, <2>4, <2>5, OnceKept DEF Present, Relocating
<1>3. CASE BuffersLoaded(l)
  <2>1. UNCHANGED <<elf, relocIdx, jitIdx, infer, loads>> /\ ctl[l].pc = "buffers" /\ ctl'[l].pc \in {"reloc", "idle"}
    BY <1>3, LoadPc DEF BuffersLoaded, indexes, bounds
  <2>2. ~mbr'[l].loaded => ~mbr[l].loaded
    BY <1>0, <1>3 DEF BuffersLoaded, Members
  <2> QED
    BY <1>0, <2>1, <2>2, OnceKept DEF Present, Relocating
<1>4. CASE PatchStep(l) /\ ~ReadThrows(l) /\ ~Release(l)
  <2>1. UNCHANGED <<elf, relocIdx, jitIdx, loads>> /\ infer' = infer /\ ctl[l].pc \in Relocating
    <3>1. UNCHANGED <<elf, relocIdx, jitIdx, loads>> /\ (infer' = infer \/ Throw(l)) /\ ctl[l].pc \in Relocating
      BY <1>4 DEF PatchStep, RelocLock, RelocPatch, RelocDone, ReloadLock, ReloadCopy, ReloadDone,
         JitLock, JitPatch, JitDone, indexes, bounds, Relocating
    <3> QED
      BY <1>4, <3>1 DEF Throw
  <2>2. ~mbr'[l].loaded => ~mbr[l].loaded
    <3>1. mbr' = mbr \/ Throw(l) \/ mbr' = [mbr EXCEPT ![l].loaded = TRUE]
      BY <1>4 DEF PatchStep, RelocLock, RelocPatch, RelocDone, ReloadLock, ReloadCopy, ReloadDone,
         JitLock, JitPatch, JitDone, ReadThrows
    <3> QED
      BY <1>0, <1>4, <3>1 DEF Throw, Members
  <2>3. ctl'[l].pc \notin {"section", "share"}
    BY <1>4, PatchPc
  <2> QED
    BY <1>0, <2>1, <2>2, <2>3, OnceKept DEF Present, Relocating
<1>11. CASE ReadThrows(l) /\ ~Release(l)
  <2>1. /\ UNCHANGED <<elf, relocIdx, jitIdx, infer, mbr, loads>> /\ ctl'[l].pc = "idle" /\ MaxLoads <= 1
        /\ ctl[l].pc \in {"section", "buffers", "reloc"}
    BY <1>0, <1>11 DEF ReadThrows, Reading, Throw, AtSection, indexes, NoRetriedRead
  <2>2. CASE ctl[l].pc # "section"
    BY <1>0, <2>1, <2>2, OnceKept DEF Present, Relocating
  <2>3. CASE ctl[l].pc = "section"
    <3>1. Spent'
      BY <1>0, <2>1, <2>3, LoadsType DEF OnceOK, Spent
    <3>2. \A s \in SecIdx : infer'[l][s].has => Allocates(s)'
      BY <1>0, <2>1, OnceSame DEF OnceOK
    <3>3. ~mbr'[l].loaded
      BY <1>0, <2>1, <2>3 DEF ControlOK
    <3> QED
      BY <2>1, <3>1, <3>2, <3>3 DEF OnceOK, Relocating
  <2> QED
    BY <2>2, <2>3
<1>5. CASE Construct(l)
  <2>1. infer' = infer /\ mbr' = mbr /\ elf' = elf /\ ctl'[l].pc = "idle" /\ relocIdx' = << >> /\ jitIdx' = << >>
        /\ ctl[l].pc = "absent"
    BY <1>0, <1>5 DEF Construct
  <2>2. NothingRegistered'
    BY <2>1 DEF NothingRegistered
  <2>3. \A s \in SecIdx : Allocates(s)' <=> Allocates(s)
    BY <2>1 DEF Allocates, ActionAt
  <2>4. ~mbr[l].loaded
    BY <2>1 DEF AbsentInv, AbsentOK, Present, NewMembers
  <2> QED
    BY <1>0, <2>1, <2>2, <2>3, <2>4 DEF OnceOK, Relocating
<1>6. ASSUME NEW b \in BOOLEAN, SetInferencesMayBeRunInParallel(l, b) PROVE OnceOK(l)'
  <2>1. UNCHANGED <<elf, relocIdx, jitIdx, infer, ctl, loads>> /\ ctl[l].pc = "idle" /\ mbr'[l].loaded = mbr[l].loaded
    BY <1>0, <1>6 DEF SetInferencesMayBeRunInParallel, indexes, bounds, Members
  <2> QED
    BY <1>0, <2>1, OnceKept DEF Present, Relocating
<1>7. CASE (\E a \in ScratchSets : UpdateSharedScratchBuffers(l, a)) \/ \E u \in UserIO : ApplyJitRelocations(l, u)
  <2>1. UNCHANGED <<elf, relocIdx, jitIdx, infer, mbr, loads>> /\ mbr[l].loaded /\ ctl'[l].pc \in {"reload", "jit"}
    BY <1>0, <1>7 DEF UpdateSharedScratchBuffers, ApplyJitRelocations, indexes, bounds, At
  <2> QED
    BY <1>0, <2>1, OnceKept DEF Present, Relocating
<1>8. ASSUME NEW t \in SymTabs, StartLoad(l, t) PROVE OnceOK(l)'
  <2>1. /\ UNCHANGED <<elf, relocIdx, jitIdx, infer>> /\ ctl'[l] = At("section", "load", 0, {}, NoArg)
        /\ ~mbr[l].loaded /\ mbr'[l].loaded = mbr[l].loaded /\ ctl[l].pc = "idle"
        /\ loads < MaxLoads /\ loads' = loads + 1
    BY <1>0, <1>8 DEF StartLoad, indexes, Members
  <2>2. ctl'[l].pc = "section" /\ ctl'[l].pos = 0
    BY <2>1 DEF At
  <2>3. /\ \A n : Doomed(l, n) => Doomed(l, n)'
        /\ \A n : OnceBelow(n) => OnceBelow(n)'
        /\ \A s \in SecIdx : Allocates(s)' <=> Allocates(s)
    BY <2>1, OnceSame
  <2>4. NothingRegistered \/ Doomed(l, 0)
    BY <1>0, <2>1, LoadsType DEF OnceOK, Present, Spent
  <2>5. NothingRegistered => OnceBelow(0)
    BY DEF NothingRegistered, OnceBelow, Ascending
  <2>6. OnceBelow(ctl[l].pos)' \/ Doomed(l, ctl[l].pos)'
    BY <2>2, <2>3, <2>4, <2>5
  <2>7. EntriesBelow(l, ctl[l].pos)'
    BY <2>2 DEF EntriesBelow, SecIdx
  <2>8. \A s \in SecIdx : infer'[l][s].has => Allocates(s)'
    BY <1>0, <2>1, <2>3 DEF OnceOK
  <2>9. loads' >= 1
    BY <2>1, LoadsType
  <2> QED
    BY <2>1, <2>2, <2>6, <2>7, <2>8, <2>9 DEF OnceOK, Relocating
<1>9. ASSUME NEW m \in Loaders, NEW o, NEW t, CopySource(m), CopyInto(l, m, o, t) PROVE OnceOK(l)'
  <2>1. UNCHANGED <<elf, relocIdx, jitIdx>> /\ mbr[m].loaded /\ OnceOK(m)
    BY <1>9 DEF CopyInto, indexes, CopySource, OnceInv
  <2>2. Complete(m) /\ \A s \in SecIdx : (infer[m][s].has => Allocates(s)) /\ (infer[l][s].has => Allocates(s))
    BY <1>0, <2>1 DEF OnceOK
  <2>3. /\ ctl'[l].pc = "reload" /\ mbr'[l].loaded
        /\ \A s \in SecIdx : \/ infer[m][s].has /\ infer'[l][s].has
                             \/ ~infer[m][s].has /\ infer'[l][s] = infer[l][s]
    <3>1. /\ ctl'[l] = At("reload", o, 0, Reloaded(infer'[l]), NoArg)
          /\ mbr'[l].loaded = mbr[m].loaded
          /\ \A s \in SecIdx :
               \/ infer[m][s].has /\ infer'[l][s] = CopiedEntry(l, s, infer[m][s]) /\ infer'[l][s].has
               \/ ~infer[m][s].has /\ infer'[l][s] = infer[l][s]
      BY <1>9, CopyEntries
    <3>2. ctl'[l].pc = "reload"
      BY <3>1 DEF At
    <3>3. \A s \in SecIdx : \/ infer[m][s].has /\ infer'[l][s].has
                            \/ ~infer[m][s].has /\ infer'[l][s] = infer[l][s]
      BY <3>1
    <3> QED
      BY <2>1, <3>1, <3>2, <3>3
  <2>4. /\ \A s \in SecIdx : Allocates(s)' <=> Allocates(s)
        /\ OnceBelow(NumSections) => OnceBelow(NumSections)'
    BY <2>1 DEF Allocates, ActionAt, OnceBelow, Ascending
  <2>5. Complete(l)'
    BY <2>1, <2>2, <2>3, <2>4 DEF Complete, Registered, IsRela
  <2> QED
    BY <2>2, <2>3, <2>4, <2>5 DEF OnceOK
<1>10. CASE ClientStep(l)
  BY <1>1, <1>5, <1>6, <1>7, <1>8, <1>9, <1>10 DEF ClientStep, Destroy, Clone, Assign
<1> QED
  BY <1>1, <1>2, <1>3, <1>4, <1>10, <1>11

\* Initially nobody has registered anything, and no other step disturbs OnceInv.
LEMMA OnceInit == Init => OnceInv
<1> SUFFICES ASSUME Init, NEW l \in Loaders PROVE OnceOK(l)
  BY DEF OnceInv
<1>1. ctl[l].pc = "absent" /\ infer[l] = EmptyMap /\ ~mbr[l].loaded
  BY DEF Init, Absent, At, NewMembers
<1> QED
  BY <1>1, EmptyFields DEF OnceOK, Present, Relocating

\* The Reader, the contents and the addresses do not matter to OnceInv.
LEMMA OnceStutter ==
  ASSUME OnceInv, UNCHANGED <<elf, relocIdx, jitIdx, ctl, infer, mbr, loads>>
  PROVE  OnceInv'
<1> SUFFICES ASSUME NEW l \in Loaders PROVE OnceOK(l)'
  BY DEF OnceInv
<1>1. /\ \A n : Doomed(l, n) => Doomed(l, n)'
      /\ \A n : OnceBelow(n) => OnceBelow(n)'
      /\ Complete(l) => Complete(l)'
      /\ \A s \in SecIdx : Allocates(s)' <=> Allocates(s)
      /\ NothingRegistered' <=> NothingRegistered
  BY OnceSame
<1>2. \A n : EntriesBelow(l, n) => EntriesBelow(l, n)'
  BY <1>1 DEF EntriesBelow
<1> HIDE DEF Doomed, OnceBelow, Complete, Allocates, NothingRegistered, EntriesBelow
<1> QED
  BY <1>1, <1>2 DEF OnceInv, OnceOK, Present, Spent

\* Every step keeps OnceInv, unless a read through the AccessManager throws.
LEMMA OnceNext ==
  ASSUME TypeOK, LockIInv, OnceInv, NoRetriedRead, [Next]_vars
  PROVE  OnceInv'
<1>0. ControlInv /\ AloneInv /\ RegisteredInv /\ AbsentInv
  BY DEF LockIInv, SharingIInv
<1>1. CASE UNCHANGED vars \/ DeleteAccessor
  BY <1>1, OnceStutter DEF vars, DeleteAccessor, indexes, bounds
<1>2. ASSUME NEW l \in Loaders, Step(l) PROVE OnceInv'
  <2>1. OnceOK(l)'
    <3>1. CASE SectionStep(l)
      BY <1>0, <3>1, OnceSection
    <3>2. CASE SectionsDone(l)
      BY <1>0, <3>2, OnceSectionsDone
    <3>3. CASE UpdateSharedBuffers(l) \/ SharingDone(l)
      BY <1>0, <3>3, OnceSharing
    <3>4. CASE BufferStep(l) \/ BuffersLoaded(l) \/ PatchStep(l) \/ ClientStep(l)
      BY <1>0, <3>4, OnceRest
    <3> QED
      BY <1>2, <3>1, <3>2, <3>3, <3>4 DEF Step, LoadStep, SectionStep, BufferStep
  <2>2. \A k \in Loaders : k # l => OnceOK(k)'
    BY <1>0, <1>2, OnceOther
  <2> QED
    BY <2>1, <2>2 DEF OnceInv
<1> QED
  BY <1>1, <1>2 DEF Next, Step

\* An ascending vector holds no section twice.
LEMMA AscendingOnce ==
  ASSUME NEW q \in Seq(SecIdx), NEW n, Ascending(q, n)
  PROVE  \A i, j \in 1 .. Len(q) : q[i] = q[j] => i = j
<1> SUFFICES ASSUME NEW i \in 1 .. Len(q), NEW j \in 1 .. Len(q), q[i] = q[j] PROVE i = j
  OBVIOUS
<1>1. q[i] \in Nat /\ q[j] \in Nat /\ i \in Nat /\ j \in Nat
  <2>1. q[i] \in SecIdx /\ q[j] \in SecIdx
    OBVIOUS
  <2>2. \A s \in SecIdx : s \in Nat
    BY NumSectionsAssumption DEF SecIdx
  <2>3. i \in Nat /\ j \in Nat
    OBVIOUS
  <2> QED
    BY <2>1, <2>2, <2>3
<1>2. ~(i < j) /\ ~(j < i)
  BY <1>1 DEF Ascending
<1> QED
  BY <1>1, <1>2

\* The vectors of a blob that has been loaded hold each relocation section once.
LEMMA OnceRegisters ==
  ASSUME TypeOK, OnceInv
  PROVE  RegisteredOnce
<1> SUFFICES ASSUME NEW l \in Loaders, mbr[l].loaded,
                    NEW i \in DOMAIN (relocIdx \o jitIdx), NEW j \in DOMAIN (relocIdx \o jitIdx),
                    (relocIdx \o jitIdx)[i] = (relocIdx \o jitIdx)[j]
             PROVE  i = j
  BY DEF RegisteredOnce
<1> DEFINE q == relocIdx \o jitIdx
           a == Len(relocIdx)
<1>1. relocIdx \in Seq(SecIdx) /\ jitIdx \in Seq(SecIdx) /\ OnceBelow(NumSections)
  BY DEF TypeOK, OnceInv, OnceOK, Complete
<1>2. a \in Nat /\ Len(jitIdx) \in Nat
  BY <1>1
<1>3. \A k \in DOMAIN q :
         \/ k \in 1 .. a /\ q[k] = relocIdx[k]
         \/ k - a \in 1 .. Len(jitIdx) /\ k \in Nat /\ q[k] = jitIdx[k - a]
  <2>1. /\ DOMAIN q = 1 .. a + Len(jitIdx)
        /\ \A k \in 1 .. a + Len(jitIdx) : q[k] = IF k <= a THEN relocIdx[k] ELSE jitIdx[k - a]
    BY <1>1
  <2> QED
    BY <1>2, <2>1
<1>4. \A k, m : k \in 1 .. a /\ m \in 1 .. Len(jitIdx) => relocIdx[k] # jitIdx[m]
  BY <1>1 DEF OnceBelow
<1>5. CASE i \in 1 .. a /\ q[i] = relocIdx[i] /\ j \in 1 .. a /\ q[j] = relocIdx[j]
  BY <1>1, <1>5, AscendingOnce DEF OnceBelow
<1>6. CASE /\ i - a \in 1 .. Len(jitIdx) /\ i \in Nat /\ q[i] = jitIdx[i - a]
           /\ j - a \in 1 .. Len(jitIdx) /\ j \in Nat /\ q[j] = jitIdx[j - a]
  <2>1. i - a = j - a
    BY <1>1, <1>6, AscendingOnce DEF OnceBelow
  <2> QED
    BY <1>2, <1>6, <2>1
<1> QED
  BY <1>3, <1>4, <1>5, <1>6

\* vpux_loader.cpp:714-719: however many calls of load() failed before, a loaded blob has
\* each of its relocation sections registered once.  Only a read that throws can leave
\* sections registered behind which a later call of load() does not stop.
THEOREM RelocationsRegisteredOnce == NoRetriedRead => (Spec => []RegisteredOnce)
<1> SUFFICES ASSUME NoRetriedRead PROVE Spec => []RegisteredOnce
  OBVIOUS
<1>1. Init => OnceInv
  BY OnceInit
<1>2. TypeOK /\ LockIInv /\ OnceInv /\ [Next]_vars => OnceInv'
  BY OnceNext
<1>3. TypeOK /\ OnceInv => RegisteredOnce
  BY OnceRegisters
<1> QED
  BY <1>1, <1>2, <1>3, LockInvariant, PTL DEF Spec

-----------------------------------------------------------------------------
(* ScratchInv *)

\* A step that leaves a loader's scratch sections, their buffers and addresses alone.
LEMMA ScratchSame ==
  ASSUME TypeOK, NEW l \in Loaders, ScratchOK(l),
         ~mbr'[l].loaded => ~mbr[l].loaded /\ mbr'[l].scratch = mbr[l].scratch,
         \A s \in SecIdx : infer[l][s].has /\ infer[l][s].isProcessed /\ infer[l][s].buf = OwnBuf(l, s) =>
            infer'[l][s].has /\ infer'[l][s].isProcessed /\ infer'[l][s].buf = OwnBuf(l, s),
         ~mbr[l].loaded => \A s \in SecIdx : dev[OwnBuf(l, s)] = NullAddr => dev'[OwnBuf(l, s)] = NullAddr,
         ctl'[l].pc \in {"reload", "reloadCopy"} => ctl[l].pc \in {"reload", "reloadCopy"} /\ (mbr[l].loaded => mbr'[l].loaded)
  PROVE  ScratchOK(l)'
<1>1. mbr[l].scratch \in Seq(SecIdx)
  BY DEF TypeOK, Members
<1>2. \A i \in 1 .. Len(mbr[l].scratch) : mbr[l].scratch[i] \in SecIdx
  BY <1>1
<1> QED
  BY <1>2 DEF ScratchOK

\* load()'s loop leaves an entry that exists alone.
LEMMA SectionKeeps ==
  ASSUME TypeOK, NEW l \in Loaders, SectionStep(l), NEW s \in SecIdx, infer[l][s].has
  PROVE  infer'[l][s] = infer[l][s]
<1>0. infer \in [Loaders -> [SecIdx -> Entry]]
  BY DEF TypeOK
<1>1. \/ infer' = infer
      \/ \E p, e : ~infer[l][p].has /\ infer' = [infer EXCEPT ![l][p] = e]
  BY DEF SectionStep, LoadProgbits, LoadNobits, LoadRela, LoadSymtab, LoadOther, AlreadyInit
<1> QED
  BY <1>0, <1>1

\* The loop over the sections adds the section it is at, when the driver left it empty.
LEMMA ScratchSection ==
  ASSUME TypeOK, ScratchInv, ControlInv, NEW l \in Loaders, SectionStep(l)
  PROVE  ScratchOK(l)'
<1>0. /\ dev \in [BufIds -> Addrs] /\ mbr \in [Loaders -> Members] /\ infer \in [Loaders -> [SecIdx -> Entry]]
      /\ ScratchOK(l) /\ mbr[l].scratch \in Seq(SecIdx) /\ ControlOK(ctl[l], mbr[l], infer[l])
  BY DEF TypeOK, ScratchInv, Members, ControlInv
<1>1. ctl[l].pc = "section" /\ ctl[l].pos \in SecIdx /\ ctl'[l].pc \in {"section", "idle"}
  BY LoadPc DEF Idle, At
<1>2. ~mbr[l].loaded
  BY <1>0, <1>1 DEF ControlOK
<1>3. \A s \in SecIdx : infer[l][s].has => infer'[l][s] = infer[l][s]
  BY SectionKeeps
<1>4. CASE mbr' = mbr /\ dev' = dev
  BY <1>0, <1>1, <1>2, <1>3, <1>4, ScratchSame
<1>5. CASE ~(mbr' = mbr /\ dev' = dev)
  <2> DEFINE p == ctl[l].pos
             q == mbr[l].scratch
  <2>1. \E e \in BOOLEAN :
            /\ infer' = [infer EXCEPT ![l][p] = Info(OwnBuf(l, p), FALSE, FALSE, TRUE)]
            /\ dev' = [dev EXCEPT ![OwnBuf(l, p)] = IF e THEN NullAddr ELSE @]
            /\ mbr' = [mbr EXCEPT ![l].scratch = IF e THEN Append(@, p) ELSE @]
    <3> DEFINE e == ~mbr[l].parallel /\ DriverSharesScratch
    <3>1. LoadNobits(l)
      BY <1>5 DEF SectionStep, LoadProgbits, LoadRela, LoadSymtab, LoadOther, buffers
    <3>2. e \in BOOLEAN
      OBVIOUS
    <3>3. /\ infer' = [infer EXCEPT ![l][p] = Info(OwnBuf(l, p), FALSE, FALSE, TRUE)]
          /\ dev' = [dev EXCEPT ![OwnBuf(l, p)] = IF e THEN NullAddr ELSE @]
          /\ mbr' = [mbr EXCEPT ![l].scratch = IF e THEN Append(@, p) ELSE @]
      BY <1>5, <3>1 DEF LoadNobits
    <3> HIDE DEF e
    <3> QED
      BY <3>2, <3>3
  <2>2. PICK e \in BOOLEAN :
            /\ infer' = [infer EXCEPT ![l][p] = Info(OwnBuf(l, p), FALSE, FALSE, TRUE)]
            /\ dev' = [dev EXCEPT ![OwnBuf(l, p)] = IF e THEN NullAddr ELSE @]
            /\ mbr' = [mbr EXCEPT ![l].scratch = IF e THEN Append(@, p) ELSE @]
    BY <2>1
  <2> HIDE DEF p
  <2>3. p \in SecIdx /\ OwnBuf(l, p) \in BufIds
    BY <1>1, BufTypes DEF p
  <2>4. infer'[l][p].has /\ infer'[l][p].isProcessed /\ infer'[l][p].buf = OwnBuf(l, p)
    <3>1. infer'[l] = [infer[l] EXCEPT ![p] = Info(OwnBuf(l, p), FALSE, FALSE, TRUE)]
      BY <1>0, <2>2
    <3>2. infer'[l][p] = Info(OwnBuf(l, p), FALSE, FALSE, TRUE)
      BY <1>0, <2>3, <3>1
    <3> QED
      BY <3>2 DEF Info
  <2>5. \A s \in SecIdx : dev[OwnBuf(l, s)] = NullAddr => dev'[OwnBuf(l, s)] = NullAddr
    BY <1>0, <2>2, <2>3
  <2>6. e => dev'[OwnBuf(l, p)] = NullAddr
    BY <1>0, <2>2, <2>3
  <2>7. mbr'[l].scratch = (IF e THEN Append(q, p) ELSE q) /\ ~mbr'[l].loaded
    <3>1. mbr'[l] = [mbr[l] EXCEPT !.scratch = IF e THEN Append(@, p) ELSE @]
      BY <1>0, <2>2
    <3> QED
      BY <1>0, <1>2, <3>1 DEF Members
  <2>8. ASSUME NEW i \in 1 .. Len(mbr'[l].scratch)
        PROVE  \/ mbr'[l].scratch[i] = p /\ e
               \/ i \in 1 .. Len(q) /\ mbr'[l].scratch[i] = q[i]
    <3>1. CASE e
      BY <1>0, <2>3, <2>7, <2>8, <3>1, AppendFacts
    <3> QED
      BY <2>7, <2>8, <3>1
  <2>9. ASSUME NEW i \in 1 .. Len(q)
        PROVE  /\ q[i] \in SecIdx /\ infer'[l][q[i]].has /\ infer'[l][q[i]].isProcessed
               /\ infer'[l][q[i]].buf = OwnBuf(l, q[i]) /\ dev'[OwnBuf(l, q[i])] = NullAddr
    <3>1. q[i] \in SecIdx
      BY <1>0
    <3>2. /\ infer[l][q[i]].has /\ infer[l][q[i]].isProcessed
          /\ infer[l][q[i]].buf = OwnBuf(l, q[i]) /\ dev[OwnBuf(l, q[i])] = NullAddr
      BY <1>0, <1>2 DEF ScratchOK
    <3> QED
      BY <1>3, <2>5, <3>1, <3>2
  <2> HIDE DEF q
  <2> QED
    BY <1>1, <2>4, <2>6, <2>8, <2>9 DEF ScratchOK
<1> QED
  BY <1>4, <1>5

\* Every step of a loader keeps ScratchOK for it.
LEMMA ScratchOwn ==
  ASSUME TypeOK, ScratchInv, ControlInv, NEW l \in Loaders, Step(l)
  PROVE  ScratchOK(l)'
<1>0. /\ ScratchOK(l) /\ ctl \in [Loaders -> Control] /\ mbr \in [Loaders -> Members]
      /\ infer \in [Loaders -> [SecIdx -> Entry]] /\ dev \in [BufIds -> Addrs]
      /\ Idle.pc = "idle" /\ Absent.pc = "absent" /\ mbr[l].scratch \in Seq(SecIdx)
  BY DEF TypeOK, ScratchInv, Members, Idle, Absent, At
<1>1. CASE Release(l)
  <2>1. mbr'[l] = NewMembers /\ ctl'[l].pc = "absent"
    BY <1>0, <1>1 DEF Release
  <2>2. mbr'[l].scratch = << >>
    BY <2>1 DEF NewMembers
  <2> QED
    BY <2>1, <2>2 DEF ScratchOK
<1>2. CASE SectionStep(l)
  BY <1>2, ScratchSection
<1>3. CASE LoadStep(l) /\ ~SectionStep(l)
  <2>1. dev' = dev /\ (mbr' = mbr \/ mbr' = [mbr EXCEPT ![l].loaded = TRUE])
    BY <1>3 DEF LoadStep, SectionStep, SectionsDone, UpdateSharedBuffers, SharingDone, LoadSharedBuffer,
       LoadOwnBuffer, BuffersLoaded, buffers
  <2>2. ctl'[l].pc \notin {"reload", "reloadCopy"}
    BY <1>0, <1>3, LoadPc DEF LoadStep, SectionStep, BufferStep
  <2>3. \A s \in SecIdx : infer[l][s].has /\ infer[l][s].isProcessed /\ infer[l][s].buf = OwnBuf(l, s) =>
            infer'[l][s].has /\ infer'[l][s].isProcessed /\ infer'[l][s].buf = OwnBuf(l, s)
    <3>1. \/ infer' = infer
          \/ \E t : infer' = [infer EXCEPT ![l][t] = PatchedEntry(@)]
          \/ \E t, e : ~infer[l][t].isProcessed /\ infer' = [infer EXCEPT ![l][t] = e]
      BY <1>3 DEF LoadStep, SectionStep, SectionsDone, UpdateSharedBuffers, SharingDone, LoadSharedBuffer,
         LoadOwnBuffer, BuffersLoaded, Unprocessed
    <3>2. CASE infer' = infer
      BY <3>2
    <3>3. ASSUME NEW t, infer' = [infer EXCEPT ![l][t] = PatchedEntry(@)], NEW s \in SecIdx,
                 infer[l][s].has, infer[l][s].isProcessed, infer[l][s].buf = OwnBuf(l, s)
          PROVE  infer'[l][s].has /\ infer'[l][s].isProcessed /\ infer'[l][s].buf = OwnBuf(l, s)
      <4>1. infer'[l] = [infer[l] EXCEPT ![t] = PatchedEntry(infer[l][t])]
        BY <1>0, <3>3
      <4>2. infer'[l][s] = infer[l][s] \/ infer'[l][s] = PatchedEntry(infer[l][s])
        BY <1>0, <4>1
      <4>3. infer[l][s] \in Entry /\ NullBuf(s) \in BufIds
        BY <1>0, BufTypes
      <4>4. /\ PatchedEntry(infer[l][s]).has = infer[l][s].has
            /\ PatchedEntry(infer[l][s]).isProcessed = infer[l][s].isProcessed
            /\ PatchedEntry(infer[l][s]).buf = infer[l][s].buf
        BY <4>3, EntryFields
      <4> QED
        BY <3>3, <4>2, <4>4
    <3>4. ASSUME NEW t, NEW e, ~infer[l][t].isProcessed, infer' = [infer EXCEPT ![l][t] = e],
                 NEW s \in SecIdx, infer[l][s].isProcessed
          PROVE  infer'[l][s] = infer[l][s]
      BY <1>0, <3>4
    <3> QED
      BY <3>1, <3>2, <3>3, <3>4
  <2>4. ~mbr'[l].loaded => ~mbr[l].loaded /\ mbr'[l].scratch = mbr[l].scratch
    BY <1>0, <2>1 DEF Members
  <2> QED
    BY <1>0, <2>1, <2>2, <2>3, <2>4, ScratchSame
<1>4. CASE PatchStep(l) /\ ~Release(l)
  <2>1. infer' = infer
    BY <1>4 DEF PatchStep, RelocLock, RelocPatch, RelocDone, ReloadLock, ReloadCopy, ReloadDone, JitLock,
       JitPatch, JitDone, ReadThrows, Throw
  <2>2. mbr' = mbr \/ mbr' = [mbr EXCEPT ![l].loaded = TRUE]
    BY <1>4 DEF PatchStep, RelocLock, RelocPatch, RelocDone, ReloadLock, ReloadCopy, ReloadDone, JitLock,
       JitPatch, JitDone, ReadThrows, Throw
  <2>3. ReloadDone(l) => mbr[l].loaded
    BY <1>0 DEF ReloadDone, ScratchOK
  <2>4. ~ReloadDone(l) => dev' = dev
    BY <1>4 DEF PatchStep, RelocLock, RelocPatch, RelocDone, ReloadLock, ReloadCopy, JitLock,
       JitPatch, JitDone, ReadThrows, buffers
  <2>5. ctl'[l].pc \in {"reload", "reloadCopy"} => ctl[l].pc \in {"reload", "reloadCopy"}
    <3>1. Throw(l) => ctl'[l].pc \in {"idle", "absent"}
      BY <1>0, ThrowControl
    <3>2. RelocPatch(l) \/ RelocLock(l) \/ RelocDone(l) \/ JitLock(l) \/ JitPatch(l) \/ JitDone(l) \/ ReadThrows(l)
             => ctl'[l].pc \notin {"reload", "reloadCopy"}
      <4>1. ASSUME NEW n PROVE /\ MoveTo(ctl[l], "reloc", n).pc = "reloc"
                               /\ MoveTo(ctl[l], "jit", n).pc = "jit"
        BY <1>0 DEF MoveTo, Control
      <4> QED
        BY <1>0, <3>1, <4>1 DEF RelocLock, RelocPatch, RelocDone, JitLock, JitPatch, JitDone, ReadThrows, Control
    <3> QED
      BY <1>4, <3>2 DEF PatchStep, ReloadLock, ReloadCopy, ReloadDone
  <2>6. ~mbr'[l].loaded => ~mbr[l].loaded /\ mbr'[l].scratch = mbr[l].scratch
    BY <1>0, <2>2 DEF Members
  <2>7. mbr[l].loaded => mbr'[l].loaded
    BY <1>0, <2>2 DEF Members
  <2> QED
    BY <1>0, <2>1, <2>3, <2>4, <2>5, <2>6, <2>7, ScratchSame
<1>5. ASSUME NEW m \in Loaders, NEW o, NEW t, CopySource(m), CopyInto(l, m, o, t) PROVE ScratchOK(l)'
  <2>1. mbr'[l].loaded
    BY <1>0, <1>5 DEF CopyInto, CopySource, Members
  <2> QED
    BY <2>1 DEF ScratchOK
<1>6. CASE \E a \in ScratchSets : UpdateSharedScratchBuffers(l, a)
  <2>1. mbr' = mbr /\ mbr[l].loaded
    BY <1>6 DEF UpdateSharedScratchBuffers
  <2> QED
    BY <2>1 DEF ScratchOK
<1>7. CASE \/ Construct(l) \/ \E b \in BOOLEAN : SetInferencesMayBeRunInParallel(l, b)
           \/ \E t \in SymTabs : StartLoad(l, t)
           \/ \E u \in UserIO : ApplyJitRelocations(l, u)
  <2>1. infer' = infer /\ dev' = dev
    BY <1>7 DEF Construct, SetInferencesMayBeRunInParallel, StartLoad, ApplyJitRelocations, buffers
  <2>2. ctl'[l].pc \notin {"reload", "reloadCopy"}
    BY <1>0, <1>7 DEF Construct, SetInferencesMayBeRunInParallel, StartLoad, ApplyJitRelocations, At
  <2>3. mbr'[l].loaded = mbr[l].loaded /\ mbr'[l].scratch = mbr[l].scratch
    BY <1>0, <1>7 DEF Construct, SetInferencesMayBeRunInParallel, StartLoad, ApplyJitRelocations, Members
  <2> QED
    BY <1>0, <2>1, <2>2, <2>3, ScratchSame
<1>8. CASE ClientStep(l)
  BY <1>1, <1>5, <1>6, <1>7, <1>8 DEF ClientStep, Destroy, Clone, Assign
<1> QED
  BY <1>1, <1>2, <1>3, <1>4, <1>8 DEF Step

\* A step of another loader leaves a loader's scratch sections without memory.
LEMMA ScratchOther ==
  ASSUME TypeOK, LockIInv, ScratchInv, NEW l \in Loaders, Step(l), NEW k \in Loaders, k # l
  PROVE  ScratchOK(k)'
<1>0. /\ ScratchOK(k) /\ ctl'[k] = ctl[k] /\ infer'[k] = infer[k] /\ mbr'[k] = mbr[k]
      /\ SharingIInv /\ ProcessedInv /\ AbsentInv
  BY StepFrame DEF ScratchInv, Frame, LockIInv
<1>1. CASE Present(k)
  <2>1. \A s \in SecIdx : infer[k][s].buf = OwnBuf(k, s) => dev'[OwnBuf(k, s)] = dev[OwnBuf(k, s)]
    <3>1. Image(k)' = Image(k)
      BY <1>0, <1>1, ImageKept
    <3>2. \A s \in SecIdx : dev'[infer'[k][s].buf] = dev[infer[k][s].buf]
      BY <3>1 DEF Image
    <3> QED
      BY <1>0, <3>2
  <2>2. \A i \in 1 .. Len(mbr[k].scratch) : mbr[k].scratch[i] \in SecIdx
    BY DEF TypeOK, Members
  <2> QED
    BY <1>0, <2>1, <2>2 DEF ScratchOK
<1>2. CASE ~Present(k)
  <2>1. mbr'[k].scratch = << >> /\ ctl'[k].pc = "absent"
    BY <1>0, <1>2 DEF AbsentInv, AbsentOK, NewMembers, Present
  <2> QED
    BY <2>1 DEF ScratchOK
<1> QED
  BY <1>1, <1>2

-----------------------------------------------------------------------------
(* SourceInv *)

\* What the reader's and the backup buffers hold of the file stays while the Reader lives.
LEMMA FillKept ==
  ASSUME TypeOK, SharingIInv, ProcessedInv, NEW l \in Loaders, Step(l), ~Construct(l),
         NEW s \in SecIdx, NEW b \in {DataBuf(s), BackupBuf(s)}, mem[b].fill
  PROVE  mem'[b].fill
<1>0. mem \in [BufIds -> Contents] /\ b \in BufIds /\ b[1] # l
  <2>1. b \in BufIds
    BY BufTypes
  <2>2. b[1] \in {"reader", "backup"}
    BY DEF DataBuf, BackupBuf
  <2> QED
    BY <2>1, <2>2, NamesAssumption DEF TypeOK, Tags
<1>1. CASE ~BufferStep(l)
  BY <1>0, <1>1, WriteStep
<1>2. CASE BufferStep(l)
  <2>1. PICK t \in SecIdx : LoadSharedBuffer(l, t) \/ LoadOwnBuffer(l, t)
    BY <1>2 DEF BufferStep
  <2>2. \/ mem' = [mem EXCEPT ![DataBuf(t)] = Pristine]
        \/ mem' = [mem EXCEPT ![BackupBuf(t)] = Pristine]
        \/ mem' = [mem EXCEPT ![BackupBuf(t)] = Pristine, ![OwnBuf(l, t)] = Pristine]
    BY <2>1 DEF LoadSharedBuffer, LoadOwnBuffer
  <2>3. mem'[b] = mem[b] \/ mem'[b] = Pristine
    BY <1>0, <2>2
  <2> QED
    BY <2>3 DEF Pristine
<1> QED
  BY <1>1, <1>2

\* SourceOK of a section whose entry, and backup, stay.
LEMMA SourceSame ==
  ASSUME TypeOK, SharingIInv, ProcessedInv, NEW l \in Loaders, Step(l), ~Construct(l), NEW k \in Loaders,
         NEW s \in SecIdx, SourceOK(k, s), infer'[k][s] = infer[k][s], backup'[k][s] = backup[k][s]
  PROVE  SourceOK(k, s)'
<1>1. /\ mem[DataBuf(s)].fill => mem'[DataBuf(s)].fill
      /\ mem[BackupBuf(s)].fill => mem'[BackupBuf(s)].fill
  BY FillKept
<1> QED
  BY <1>1 DEF SourceOK

\* A section without an entry needs no source.
LEMMA SourceEmpty ==
  ASSUME NEW l \in Loaders, infer'[l] = EmptyMap
  PROVE  \A s \in SecIdx : SourceOK(l, s)'
BY EmptyFields DEF SourceOK

\* Another loader's step leaves the sources of a loader's sections.
LEMMA SourceOther ==
  ASSUME TypeOK, LockIInv, SourceInv, NEW l \in Loaders, Step(l), NEW k \in Loaders, k # l, NEW s \in SecIdx
  PROVE  SourceOK(k, s)'
<1>0. /\ infer'[k] = infer[k] /\ backup'[k] = backup[k] /\ SourceOK(k, s)
      /\ SharingIInv /\ ProcessedInv /\ AbsentInv
  BY StepFrame, BackupFrame DEF Frame, SourceInv, LockIInv
<1>1. CASE Present(k)
  <2>1. ~Construct(l)
    BY <1>1 DEF Construct, Present
  <2> QED
    BY <1>0, <2>1, SourceSame
<1>2. CASE ~Present(k)
  <2>1. infer'[k] = EmptyMap
    BY <1>0, <1>2 DEF AbsentInv, AbsentOK
  <2> QED
    BY <2>1, SourceEmpty
<1> QED
  BY <1>1, <1>2

\* loadBuffers() gives each section its source.
LEMMA SourceBuffers ==
  ASSUME TypeOK, LockIInv, SourceInv, NEW l \in Loaders, BufferStep(l), NEW s \in SecIdx
  PROVE  SourceOK(l, s)'
<1>0. /\ infer \in [Loaders -> [SecIdx -> Entry]] /\ backup \in [Loaders -> [SecIdx -> Entry]]
      /\ mem \in [BufIds -> Contents] /\ SourceOK(l, s) /\ SharingIInv /\ ProcessedInv
      /\ infer[l][s] \in Entry /\ Step(l) /\ ~Construct(l)
  <2>1. ctl[l].pc = "buffers"
    BY LoadPc
  <2>2. ~Construct(l)
    BY <2>1 DEF Construct
  <2> QED
    BY <2>2 DEF TypeOK, SourceInv, LockIInv, BufferStep, Step, LoadStep
<1>1. PICK t \in SecIdx : LoadSharedBuffer(l, t) \/ LoadOwnBuffer(l, t)
  BY DEF BufferStep
<1>2. DataBuf(s) \in BufIds /\ BackupBuf(s) \in BufIds /\ OwnBuf(l, s) \in BufIds
      /\ BackupBuf(s) # OwnBuf(l, s)
  BY BufTypes, BufNames
<1>3. CASE s # t
  <2>1. /\ infer' = infer \/ \E e : infer' = [infer EXCEPT ![l][t] = e]
        /\ backup' = backup \/ \E e : backup' = [backup EXCEPT ![l][t] = e]
    BY <1>1 DEF LoadSharedBuffer, LoadOwnBuffer
  <2>2. infer'[l][s] = infer[l][s]
    BY <1>0, <1>3, <2>1
  <2>3. backup'[l][s] = backup[l][s]
    BY <1>0, <1>3, <2>1
  <2> QED
    BY <1>0, <2>2, <2>3, SourceSame
<1>4. CASE s = t /\ LoadSharedBuffer(l, s)
  <2>1. infer[l][s].isShared /\ infer'[l][s] = LoadedEntry(infer[l][s], DataBuf(s)) /\ mem'[DataBuf(s)] = Pristine
    <3>1. /\ infer[l][s].isShared
          /\ infer' = [infer EXCEPT ![l][s] = LoadedEntry(@, DataBuf(s))]
          /\ mem' = [mem EXCEPT ![DataBuf(s)] = Pristine]
      BY <1>4 DEF LoadSharedBuffer
    <3>2. infer'[l] = [infer[l] EXCEPT ![s] = LoadedEntry(infer[l][s], DataBuf(s))]
      BY <1>0, <3>1
    <3>3. infer'[l][s] = LoadedEntry(infer[l][s], DataBuf(s))
      BY <1>0, <3>2
    <3> QED
      BY <1>0, <1>2, <3>1, <3>3
  <2>2. LoadedEntry(infer[l][s], DataBuf(s)).isShared = infer[l][s].isShared
    BY <1>0, <1>2, EntryFields
  <2> QED
    BY <2>1, <2>2 DEF SourceOK, Pristine
<1>5. CASE s = t /\ LoadOwnBuffer(l, s) /\ infer' = infer
  BY <1>5 DEF LoadOwnBuffer, Unprocessed, SourceOK
<1>6. CASE s = t /\ LoadOwnBuffer(l, s) /\ infer' # infer
  <2>0. /\ ~infer[l][s].isShared
        /\ backup' = [backup EXCEPT ![l][s] = Info(BackupBuf(s), TRUE, TRUE, TRUE)]
        /\ infer' = [infer EXCEPT ![l][s] = LoadedEntry(@, OwnBuf(l, s))]
        /\ mem' = [mem EXCEPT ![BackupBuf(s)] = Pristine, ![OwnBuf(l, s)] = Pristine]
    BY <1>6 DEF LoadOwnBuffer
  <2>1. infer'[l][s] = LoadedEntry(infer[l][s], OwnBuf(l, s))
    <3>1. infer'[l] = [infer[l] EXCEPT ![s] = LoadedEntry(infer[l][s], OwnBuf(l, s))]
      BY <1>0, <2>0
    <3> QED
      BY <1>0, <3>1
  <2>2. LoadedEntry(infer[l][s], OwnBuf(l, s)).isShared = infer[l][s].isShared
    BY <1>0, <1>2, EntryFields
  <2>3. backup'[l][s] = Info(BackupBuf(s), TRUE, TRUE, TRUE)
    <3>1. backup'[l] = [backup[l] EXCEPT ![s] = Info(BackupBuf(s), TRUE, TRUE, TRUE)]
      BY <1>0, <2>0
    <3> QED
      BY <1>0, <3>1
  <2>4. backup'[l][s].has /\ backup'[l][s].isShared /\ backup'[l][s].buf = BackupBuf(s)
    BY <2>3 DEF Info
  <2>5. mem'[BackupBuf(s)].fill
    <3>1. mem'[BackupBuf(s)] = Pristine
      BY <1>0, <1>2, <2>0
    <3> QED
      BY <3>1 DEF Pristine
  <2>6. ~infer'[l][s].isShared
    BY <2>0, <2>1, <2>2
  <2> QED
    BY <2>4, <2>5, <2>6 DEF SourceOK
<1> QED
  BY <1>1, <1>3, <1>4, <1>5, <1>6

\* A copy takes over the sources with the entries.
LEMMA SourceCopy ==
  ASSUME TypeOK, LockIInv, OnceInv, SourceInv, NEW l \in Loaders, NEW m \in Loaders, NEW o, NEW t,
         CopySource(m), CopyInto(l, m, o, t), Step(l), ~Construct(l), NEW s \in SecIdx
  PROVE  SourceOK(l, s)'
<1>0. /\ infer \in [Loaders -> [SecIdx -> Entry]] /\ backup \in [Loaders -> [SecIdx -> Entry]]
      /\ SourceOK(m, s) /\ SourceOK(l, s) /\ SharingIInv /\ ProcessedInv /\ OnceOK(m) /\ OnceOK(l) /\ mbr[m].loaded
  BY DEF TypeOK, SourceInv, LockIInv, OnceInv, CopySource
<1>1. /\ mem[DataBuf(s)].fill => mem'[DataBuf(s)].fill
      /\ mem[BackupBuf(s)].fill => mem'[BackupBuf(s)].fill
  BY <1>0, FillKept
<1>2. /\ \/ infer[m][s].has /\ infer'[l][s] = CopiedEntry(l, s, infer[m][s]) /\ infer'[l][s].has
         \/ ~infer[m][s].has /\ infer'[l][s] = infer[l][s]
      /\ \/ backup[m][s].has /\ backup'[l][s] = CopiedEntry(l, s, backup[m][s])
         \/ ~backup[m][s].has /\ backup'[l][s] = backup[l][s]
  BY CopyEntries
<1>3. CASE infer[m][s].has
  <2>1. /\ infer'[l][s].hasData = infer[m][s].hasData /\ infer'[l][s].isShared = infer[m][s].isShared
        /\ infer'[l][s].isProcessed = infer[m][s].isProcessed
    <3>1. infer[m][s] \in Entry
      BY <1>0
    <3> QED
      BY <1>2, <1>3, <3>1, CopiedFields
  <2>2. backup[m][s].has /\ backup[m][s].isShared => backup'[l][s] = backup[m][s]
    BY <1>2 DEF CopiedEntry
  <2> QED
    BY <1>0, <1>1, <1>3, <2>1, <2>2 DEF SourceOK
<1>4. CASE ~infer[m][s].has
  <2>1. ~Allocates(s)
    BY <1>0, <1>4 DEF OnceOK, Complete
  <2>2. ~infer'[l][s].has
    BY <1>0, <1>2, <1>4, <2>1 DEF OnceOK
  <2> QED
    BY <2>2 DEF SourceOK
<1> QED
  BY <1>3, <1>4

\* Every step of a loader keeps SourceOK for it.
LEMMA SourceOwn ==
  ASSUME TypeOK, LockIInv, OnceInv, SourceInv, NEW l \in Loaders, Step(l), NEW s \in SecIdx
  PROVE  SourceOK(l, s)'
<1>0. /\ infer \in [Loaders -> [SecIdx -> Entry]] /\ backup \in [Loaders -> [SecIdx -> Entry]]
      /\ SourceOK(l, s) /\ SharingIInv /\ ProcessedInv /\ AbsentInv /\ infer[l][s] \in Entry
  BY DEF TypeOK, SourceInv, LockIInv
<1>1. CASE Release(l)
  <2>1. infer'[l] = EmptyMap
    BY <1>0, <1>1 DEF Release
  <2> QED
    BY <2>1, SourceEmpty
<1>2. CASE Construct(l)
  <2>1. infer'[l] = EmptyMap
    BY <1>0, <1>2 DEF Construct, AbsentInv, AbsentOK, Present
  <2> QED
    BY <2>1, SourceEmpty
<1>3. CASE infer' = infer /\ backup' = backup /\ ~Construct(l)
  BY <1>0, <1>3, SourceSame
<1>4. CASE SectionStep(l) /\ ~Construct(l)
  <2>1. backup' = backup
    BY <1>4 DEF SectionStep, LoadProgbits, LoadNobits, LoadRela, LoadSymtab, LoadOther
  <2>2. CASE infer'[l][s] = infer[l][s]
    BY <1>0, <1>4, <2>1, <2>2, SourceSame
  <2>3. CASE infer'[l][s] # infer[l][s]
    <3>1. \E p, d, w, b : \/ infer' = [infer EXCEPT ![l][p] = Info(b, d, w, FALSE)]
                          \/ infer' = [infer EXCEPT ![l][p] = Info(b, FALSE, FALSE, TRUE)]
      <4>0. infer' # infer
        BY <2>3
      <4>1. CASE LoadProgbits(l)
        <5>1. infer' = [infer EXCEPT ![l][ctl[l].pos] = Info(NullBuf(ctl[l].pos), TRUE, ~elf[ctl[l].pos].write, FALSE)]
          BY <4>0, <4>1 DEF LoadProgbits
        <5> QED
          BY <5>1
      <4>2. CASE LoadNobits(l)
        <5>1. \/ infer' = [infer EXCEPT ![l][ctl[l].pos] = Info(OwnBuf(l, ctl[l].pos), FALSE, FALSE, TRUE)]
              \/ infer' = [infer EXCEPT ![l][ctl[l].pos] = Info(NullBuf(ctl[l].pos), FALSE, FALSE, FALSE)]
          BY <4>0, <4>2 DEF LoadNobits
        <5>2. CASE infer' = [infer EXCEPT ![l][ctl[l].pos] = Info(OwnBuf(l, ctl[l].pos), FALSE, FALSE, TRUE)]
          BY <5>2
        <5>3. CASE infer' = [infer EXCEPT ![l][ctl[l].pos] = Info(NullBuf(ctl[l].pos), FALSE, FALSE, FALSE)]
          BY <5>3
        <5> QED
          BY <5>1, <5>2, <5>3
      <4>3. CASE LoadRela(l) \/ LoadSymtab(l) \/ LoadOther(l)
        BY <2>3, <4>3 DEF LoadRela, LoadSymtab, LoadOther
      <4> QED
        BY <1>4, <4>1, <4>2, <4>3 DEF SectionStep
    <3>2. \E d, w, b : infer'[l][s] = Info(b, d, w, FALSE) \/ infer'[l][s] = Info(b, FALSE, FALSE, TRUE)
      <4>1. ASSUME NEW p, NEW e, infer' = [infer EXCEPT ![l][p] = e] PROVE infer'[l][s] = e
        <5>1. infer'[l] = [infer[l] EXCEPT ![p] = e]
          BY <1>0, <4>1
        <5> QED
          BY <1>0, <2>3, <5>1
      <4> QED
        BY <3>1, <4>1
    <3> QED
      BY <3>2 DEF SourceOK, Info
  <2> QED
    BY <2>2, <2>3
<1>5. CASE UpdateSharedBuffers(l) /\ ~Construct(l)
  <2>1. backup' = backup /\ (infer'[l][s] = infer[l][s] \/ infer'[l][s] = PatchedEntry(infer[l][s]))
    BY <1>0, <1>5 DEF UpdateSharedBuffers
  <2>2. CASE infer'[l][s] = infer[l][s]
    BY <1>0, <1>5, <2>1, <2>2, SourceSame
  <2>3. CASE infer'[l][s] = PatchedEntry(infer[l][s])
    <3>1. /\ mem[DataBuf(s)].fill => mem'[DataBuf(s)].fill
          /\ mem[BackupBuf(s)].fill => mem'[BackupBuf(s)].fill
      BY <1>0, <1>5, FillKept
    <3>2. NullBuf(s) \in BufIds
      BY BufTypes
    <3>3. /\ PatchedEntry(infer[l][s]).has = infer[l][s].has
          /\ PatchedEntry(infer[l][s]).isProcessed = infer[l][s].isProcessed
          /\ PatchedEntry(infer[l][s]).isShared <=> infer[l][s].isShared /\ infer[l][s].isProcessed
      BY <1>0, <3>2, EntryFields
    <3>4. PatchedEntry(infer[l][s]).hasData = infer[l][s].hasData
      <4>1. \A h : [infer[l][s] EXCEPT !.isShared = h].hasData = infer[l][s].hasData
        BY <1>0 DEF Entry
      <4> QED
        BY <4>1 DEF PatchedEntry
    <3> QED
      BY <1>0, <2>1, <2>3, <3>1, <3>3, <3>4 DEF SourceOK
  <2> QED
    BY <2>1, <2>2, <2>3
<1>6. CASE BufferStep(l)
  BY <1>6, SourceBuffers
<1>7. ASSUME NEW m \in Loaders, NEW o, NEW t, CopySource(m), CopyInto(l, m, o, t), ~Construct(l)
      PROVE  SourceOK(l, s)'
  BY <1>7, SourceCopy
<1>8. CASE LoadStep(l) /\ ~Construct(l)
  <2>1. CASE SectionsDone(l) \/ SharingDone(l) \/ BuffersLoaded(l)
    BY <1>3, <1>8, <2>1 DEF SectionsDone, SharingDone, BuffersLoaded
  <2> QED
    BY <1>4, <1>5, <1>6, <1>8, <2>1 DEF LoadStep, SectionStep, BufferStep
<1>9. CASE PatchStep(l) /\ ~Construct(l)
  <2>1. (infer' = infer /\ backup' = backup) \/ Release(l)
    BY <1>9 DEF PatchStep, RelocLock, RelocPatch, RelocDone, ReloadLock, ReloadCopy, ReloadDone, JitLock,
       JitPatch, JitDone, ReadThrows, Throw
  <2> QED
    BY <1>1, <1>3, <1>9, <2>1
<1>10. CASE ClientStep(l) /\ ~Construct(l)
  <2>1. \/ infer' = infer /\ backup' = backup
        \/ Release(l)
        \/ \E m \in Loaders : \E o, t : CopySource(m) /\ CopyInto(l, m, o, t)
    BY <1>10 DEF ClientStep, Destroy, SetInferencesMayBeRunInParallel, StartLoad, Clone, Assign,
       UpdateSharedScratchBuffers, ApplyJitRelocations
  <2> QED
    BY <1>1, <1>3, <1>7, <1>10, <2>1
<1> QED
  BY <1>2, <1>8, <1>9, <1>10 DEF Step

-----------------------------------------------------------------------------
(* StageInv *)

\* The value of a relocation depends on the loader's own entries and their addresses.
LEMMA SymValueSame ==
  ASSUME NEW l, NEW r, elf[r].sym \in SecIdx, elf' = elf, mbr'[l].symTab = mbr[l].symTab,
         \A q \in SecIdx : /\ infer'[l][q].has <=> infer[l][q].has
                           /\ dev'[infer'[l][q].buf] = dev[infer[l][q].buf]
  PROVE  SymValue(l, r)' = SymValue(l, r)
BY DEF SymValue, Has

\* Which relocation sections have been applied before a position of the vectors.
LEMMA AllWritten ==
  ASSUME TypeOK, RegisteredInv, NEW l, Complete(l)
  PROVE  /\ \A r \in SecIdx : r \in RelocsBelow(Len(relocIdx) + 1) <=> IsRela(elf, r) /\ ~elf[r].jit
         /\ \A r \in SecIdx : r \in JitsBelow(Len(jitIdx) + 1) <=> IsRela(elf, r) /\ elf[r].jit
         /\ \A n \in 1 .. Len(relocIdx) : relocIdx[n] \notin RelocsBelow(n)
         /\ JitsBelow(1) = {}
         /\ \A n \in 1 .. Len(jitIdx) : JitsBelow(n + 1) = JitsBelow(n) \cup {jitIdx[n]}
         /\ \A n \in Nat : n > Len(jitIdx) => JitsBelow(n) = JitsBelow(Len(jitIdx) + 1)
         /\ \A n, r : r \in RelocsBelow(n) => IsRela(elf, r) /\ ~elf[r].jit
         /\ \A n, r : r \in JitsBelow(n) => IsRela(elf, r) /\ elf[r].jit
<1>0. /\ relocIdx \in Seq(SecIdx) /\ jitIdx \in Seq(SecIdx) /\ Len(relocIdx) \in Nat /\ Len(jitIdx) \in Nat
      /\ OnceBelow(NumSections)
  BY DEF TypeOK, Complete
<1>1. /\ \A i \in 1 .. Len(relocIdx) : IsRela(elf, relocIdx[i]) /\ ~elf[relocIdx[i]].jit
      /\ \A i \in 1 .. Len(jitIdx) : IsRela(elf, jitIdx[i]) /\ elf[jitIdx[i]].jit
  BY <1>0 DEF RegisteredInv, OnceBelow
<1>2. \A r \in SecIdx : IsRela(elf, r) => \/ \E i \in 1 .. Len(relocIdx) : relocIdx[i] = r
                                          \/ \E i \in 1 .. Len(jitIdx) : jitIdx[i] = r
  BY DEF Complete, Registered
<1>3. /\ RelocsBelow(Len(relocIdx) + 1) = {relocIdx[i] : i \in 1 .. Len(relocIdx)}
      /\ JitsBelow(Len(jitIdx) + 1) = {jitIdx[i] : i \in 1 .. Len(jitIdx)}
  <2>1. /\ {j \in 1 .. Len(relocIdx) : j < Len(relocIdx) + 1} = 1 .. Len(relocIdx)
        /\ {j \in 1 .. Len(jitIdx) : j < Len(jitIdx) + 1} = 1 .. Len(jitIdx)
    BY <1>0
  <2> QED
    BY <2>1 DEF RelocsBelow, JitsBelow
<1>4. /\ \A r \in SecIdx : r \in RelocsBelow(Len(relocIdx) + 1) <=> IsRela(elf, r) /\ ~elf[r].jit
      /\ \A r \in SecIdx : r \in JitsBelow(Len(jitIdx) + 1) <=> IsRela(elf, r) /\ elf[r].jit
  BY <1>1, <1>2, <1>3
<1>5. ASSUME NEW n \in 1 .. Len(relocIdx) PROVE relocIdx[n] \notin RelocsBelow(n)
  <2>1. \A i \in 1 .. Len(relocIdx) : i # n => relocIdx[i] # relocIdx[n]
    BY <1>0, AscendingOnce DEF OnceBelow
  <2> QED
    BY <1>0, <2>1 DEF RelocsBelow
<1>6. JitsBelow(1) = {}
  BY <1>0 DEF JitsBelow
<1>7. ASSUME NEW n \in 1 .. Len(jitIdx) PROVE JitsBelow(n + 1) = JitsBelow(n) \cup {jitIdx[n]}
  <2>1. {j \in 1 .. Len(jitIdx) : j < n + 1} = {j \in 1 .. Len(jitIdx) : j < n} \cup {n}
    BY <1>0
  <2> QED
    BY <2>1 DEF JitsBelow
<1>8. ASSUME NEW n \in Nat, n > Len(jitIdx) PROVE JitsBelow(n) = JitsBelow(Len(jitIdx) + 1)
  <2>1. {j \in 1 .. Len(jitIdx) : j < n} = {j \in 1 .. Len(jitIdx) : j < Len(jitIdx) + 1}
    BY <1>0, <1>8
  <2> QED
    BY <2>1 DEF JitsBelow
<1>9. \A n, r : r \in RelocsBelow(n) => IsRela(elf, r) /\ ~elf[r].jit
  BY <1>1 DEF RelocsBelow
<1>10. \A n, r : r \in JitsBelow(n) => IsRela(elf, r) /\ elf[r].jit
  BY <1>1 DEF JitsBelow
<1> QED
  BY <1>4, <1>5, <1>6, <1>7, <1>8, <1>9, <1>10

\* A step that leaves a loader and its image alone.
LEMMA StageSame ==
  ASSUME TypeOK, NEW k \in Loaders, UNCHANGED <<elf, relocIdx, jitIdx>>,
         ctl'[k] = ctl[k], infer'[k] = infer[k], mbr'[k] = mbr[k], io'[k] = io[k], Image(k)' = Image(k),
         NEW s \in SecIdx, StageOK(k, s)
  PROVE  StageOK(k, s)'
<1>1. \A q \in SecIdx : /\ infer'[k][q].buf = infer[k][q].buf
                        /\ mem'[infer[k][q].buf] = mem[infer[k][q].buf]
                        /\ dev'[infer[k][q].buf] = dev[infer[k][q].buf]
  BY DEF Image
<1>2. \A r \in SecIdx : SymValue(k, r)' = SymValue(k, r)
  BY <1>1, HeaderTypes, SymValueSame
<1>3. \A i \in 1 .. Len(mbr[k].scratch) : mbr[k].scratch[i] \in SecIdx
  BY DEF TypeOK, Members
<1>4. DOMAIN mbr[k].scratch = 1 .. Len(mbr[k].scratch)
  BY DEF TypeOK, Members
<1>5. ScratchReady(k)' <=> ScratchReady(k)
  BY <1>1, <1>3, <1>4 DEF ScratchReady
<1>6. \A n : RelocsBelow(n)' = RelocsBelow(n) /\ JitsBelow(n)' = JitsBelow(n)
  BY DEF RelocsBelow, JitsBelow
<1>7. \A r \in SecIdx : Expected(k, s, r)' = Expected(k, s, r)
  BY <1>2 DEF Expected, IsRela
<1>8. \A r \in SecIdx : Written(k, s, r)' = Written(k, s, r)
  BY <1>2, <1>6, <1>7 DEF Written
<1>9. Defined(k, s)' <=> Defined(k, s)
  BY <1>5 DEF Defined
<1> QED
  BY <1>1, <1>8, <1>9 DEF StageOK

\* Another loader's step leaves the stage of a loader's sections.
LEMMA StageOther ==
  ASSUME TypeOK, LockIInv, StageInv, NEW l \in Loaders, Step(l), NEW k \in Loaders, k # l, NEW s \in SecIdx
  PROVE  StageOK(k, s)'
<1>0. /\ elf' = elf /\ ctl'[k] = ctl[k] /\ infer'[k] = infer[k] /\ mbr'[k] = mbr[k] /\ io'[k] = io[k]
      /\ SharingIInv /\ ProcessedInv /\ ControlInv /\ AloneInv /\ StageOK(k, s)
  BY StepFrame, BackupFrame DEF Frame, LockIInv, SharingIInv, StageInv
<1>1. CASE Present(k)
  <2>1. Image(k)' = Image(k)
    BY <1>0, <1>1, ImageKept
  <2>2. ~LoadRela(l)
    <3>1. LoadRela(l) => ctl[l].pc = "section"
      BY DEF LoadRela, AtSection
    <3> QED
      BY <1>0, <1>1, <3>1 DEF AloneInv, Present, ControlInv, ControlOK
  <2>3. relocIdx' = relocIdx /\ jitIdx' = jitIdx
    BY <1>1, <2>2, IndexesStay DEF Present
  <2> QED
    BY <1>0, <2>1, <2>3, StageSame
<1>2. CASE ~Present(k)
  <2>1. ctl'[k].pc = "absent"
    BY <1>0, <1>2 DEF Present
  <2> QED
    BY <2>1 DEF StageOK, Defined
<1> QED
  BY <1>1, <1>2

\* After an exception nothing is claimed of a loader's image.
LEMMA StageThrow ==
  ASSUME TypeOK, NEW l \in Loaders, Throw(l), NEW s \in SecIdx
  PROVE  StageOK(l, s)'
<1>0. ctl \in [Loaders -> Control] /\ io \in [Loaders -> UserIO \cup {NoIO, Broken}]
  BY DEF TypeOK
<1>1. CASE Release(l)
  <2>1. ctl'[l].pc = "absent"
    BY <1>0, <1>1 DEF Release, Absent, At
  <2> QED
    BY <2>1 DEF StageOK, Defined
<1>2. CASE ~Release(l)
  <2>1. ctl'[l].pc = "idle" /\ io'[l] = Broken
    BY <1>0, <1>2 DEF Throw, Idle, At
  <2> QED
    BY <2>1 DEF StageOK, Defined
<1> QED
  BY <1>1, <1>2

\* The loops of load() over sections and over the vectors leave no section loaded.
LEMMA StageLoading ==
  ASSUME TypeOK, ControlInv, OnceInv, NEW l \in Loaders,
         SectionStep(l) \/ SectionsDone(l) \/ UpdateSharedBuffers(l) \/ SharingDone(l), NEW s \in SecIdx
  PROVE  StageOK(l, s)'
<1>0. /\ ctl[l].pc \in {"section", "share"} /\ ControlOK(ctl[l], mbr[l], infer[l]) /\ OnceOK(l)
      /\ mbr \in [Loaders -> Members]
  BY LoadPc DEF ControlInv, OnceInv, TypeOK, UpdateSharedBuffers, SharingDone
<1>1. ~mbr'[l].loaded
  <2>1. mbr' = mbr \/ \E q : mbr' = [mbr EXCEPT ![l].scratch = q]
    BY DEF SectionStep, LoadProgbits, LoadNobits, LoadRela, LoadSymtab, LoadOther, SectionsDone,
       UpdateSharedBuffers, SharingDone
  <2> QED
    BY <1>0, <2>1 DEF ControlOK, Members
<1>2. CASE SharingDone(l)
  <2>1. infer' = infer /\ ctl'[l].pc = "buffers" /\ ctl[l].pc = "share"
    BY <1>2, LoadPc DEF SharingDone
  <2>2. s < NumSections
    BY NumSectionsAssumption DEF SecIdx
  <2>3. infer[l][s].has /\ infer[l][s].hasData => ~infer[l][s].isProcessed
    BY <1>0, <2>1, <2>2 DEF OnceOK, EntriesBelow
  <2> QED
    BY <2>1, <2>3 DEF StageOK, Defined
<1>3. CASE SectionStep(l) \/ SectionsDone(l) \/ UpdateSharedBuffers(l)
  <2>1. ctl'[l].pc \in {"section", "share", "idle"}
    BY <1>3, LoadPc DEF Idle, At
  <2> QED
    BY <1>1, <2>1 DEF StageOK, Defined
<1> QED
  BY <1>2, <1>3

\* The buffer of an entry belongs to its section.
LEMMA BufSection ==
  ASSUME EntryInv, NEW l \in Loaders, NEW s \in SecIdx
  PROVE  infer[l][s].buf[2] = s
BY DEF EntryInv, EntryOK, NullBuf, OwnBuf, DataBuf

\* loadBuffers() fills a section's buffer, and nothing has been written into it yet.
LEMMA StageBuffers ==
  ASSUME TypeOK, ControlInv, EntryInv, StageInv, NEW l \in Loaders, BufferStep(l), NEW s \in SecIdx
  PROVE  StageOK(l, s)'
<1>0. /\ infer \in [Loaders -> [SecIdx -> Entry]] /\ mem \in [BufIds -> Contents] /\ ctl \in [Loaders -> Control]
      /\ StageOK(l, s) /\ infer[l][s] \in Entry /\ ctl[l].pc = "buffers" /\ ctl'[l].pc \in {"buffers", "idle"}
      /\ infer[l][s].buf \in BufIds
  BY LoadPc DEF TypeOK, StageInv, Entry
<1>1. PICK t \in SecIdx : LoadSharedBuffer(l, t) \/ LoadOwnBuffer(l, t)
  BY DEF BufferStep
<1>2. ~mbr'[l].loaded
  BY <1>0, <1>1 DEF ControlInv, ControlOK, LoadSharedBuffer, LoadOwnBuffer
<1>3. CASE ctl'[l].pc = "idle"
  BY <1>2, <1>3 DEF StageOK, Defined
<1>4. CASE ctl'[l].pc = "buffers"
  <2>0. \E b \in {DataBuf(t), OwnBuf(l, t)} :
           /\ infer' = [infer EXCEPT ![l][t] = LoadedEntry(@, b)]
           /\ \/ mem' = [mem EXCEPT ![b] = Pristine]
              \/ mem' = [mem EXCEPT ![BackupBuf(t)] = Pristine, ![b] = Pristine]
    <3>1. ~AbortLoad(l)
      BY <1>0, <1>4 DEF AbortLoad, Idle, At
    <3> QED
      BY <1>1, <3>1 DEF LoadSharedBuffer, LoadOwnBuffer
  <2>1. PICK b \in {DataBuf(t), OwnBuf(l, t)} :
           /\ infer' = [infer EXCEPT ![l][t] = LoadedEntry(@, b)]
           /\ \/ mem' = [mem EXCEPT ![b] = Pristine]
              \/ mem' = [mem EXCEPT ![BackupBuf(t)] = Pristine, ![b] = Pristine]
    BY <2>0
  <2>2. b \in BufIds /\ b[2] = t /\ BackupBuf(t)[2] = t
    <3>1. DataBuf(t) \in BufIds /\ OwnBuf(l, t) \in BufIds
      BY BufTypes
    <3>2. DataBuf(t)[2] = t /\ OwnBuf(l, t)[2] = t /\ BackupBuf(t)[2] = t
      BY DEF DataBuf, OwnBuf, BackupBuf
    <3> QED
      BY <3>1, <3>2
  <2>3. infer'[l] = [infer[l] EXCEPT ![t] = LoadedEntry(infer[l][t], b)]
    BY <1>0, <2>1
  <2>4. CASE s = t
    <3>1. infer'[l][s] = LoadedEntry(infer[l][s], b)
      BY <1>0, <2>3, <2>4
    <3>2. infer'[l][s].buf = b
      <4>1. LoadedEntry(infer[l][s], b).buf = b
        BY <1>0, <2>2, EntryFields
      <4> QED
        BY <3>1, <4>1
    <3>3. mem'[b] = Pristine
      BY <1>0, <2>1, <2>2
    <3>4. Pristine.fill /\ \A r \in SecIdx : Pristine.patch[r] = << >>
      BY DEF Pristine, Unpatched
    <3> QED
      BY <1>4, <3>2, <3>3, <3>4 DEF StageOK, Written
  <2>5. CASE s # t
    <3>1. infer'[l][s] = infer[l][s]
      BY <1>0, <2>3, <2>5
    <3>2. infer[l][s].buf[2] # t
      BY <2>5, BufSection
    <3>3. mem'[infer[l][s].buf] = mem[infer[l][s].buf]
      BY <1>0, <2>1, <2>2, <3>2
    <3> QED
      BY <1>0, <1>4, <3>1, <3>3 DEF StageOK, Defined, Written
  <2> QED
    BY <2>4, <2>5
<1> QED
  BY <1>0, <1>3, <1>4

\* load() goes on to relocate, or leaves it to updateSharedScratchBuffers.
LEMMA StageLoaded ==
  ASSUME TypeOK, ControlInv, ScratchInv, StageInv, NEW l \in Loaders, BuffersLoaded(l), NEW s \in SecIdx
  PROVE  StageOK(l, s)'
<1>0. /\ ctl \in [Loaders -> Control] /\ mbr \in [Loaders -> Members] /\ StageOK(l, s) /\ ScratchOK(l)
      /\ ctl[l].pc = "buffers" /\ ~mbr[l].loaded /\ mbr[l].scratch \in Seq(SecIdx) /\ ctl[l] \in Control
      /\ infer' = infer /\ mem' = mem /\ dev' = dev /\ UNCHANGED <<elf, relocIdx, jitIdx>>
  BY DEF TypeOK, StageInv, ScratchInv, BuffersLoaded, ControlInv, ControlOK, Members, buffers, indexes
<1>1. CASE ctl' = [ctl EXCEPT ![l] = MoveTo(@, "reloc", 1)]
  <2>1. ctl'[l] = MoveTo(ctl[l], "reloc", 1)
    BY <1>0, <1>1
  <2>2. ctl'[l].pc = "reloc" /\ ctl'[l].pos = 1
    BY <1>0, <2>1, MoveFields DEF Pcs
  <2>3. RelocsBelow(1) = {}
    BY Passed
  <2>4. \A r : r \notin RelocsBelow(ctl[l].pos)'
    BY <1>0, <2>2, <2>3 DEF RelocsBelow
  <2>5. \A r \in SecIdx : Written(l, s, r)' = << >> /\ Written(l, s, r) = << >>
    BY <1>0, <2>2, <2>4 DEF Written
  <2>6. Defined(l, s)' => Defined(l, s)
    BY <1>0, <2>2 DEF Defined
  <2> QED
    BY <1>0, <2>5, <2>6 DEF StageOK
<1>2. CASE mbr[l].scratch # << >> /\ ctl' = [ctl EXCEPT ![l] = Idle] /\ mbr' = [mbr EXCEPT ![l].loaded = TRUE]
  <2>1. ctl'[l].pc = "idle" /\ mbr'[l].scratch = mbr[l].scratch
    BY <1>0, <1>2 DEF Idle, At, Members
  <2>2. 1 \in 1 .. Len(mbr[l].scratch) /\ 1 \in DOMAIN mbr[l].scratch
    BY <1>0, <1>2
  <2>3. dev[infer[l][mbr[l].scratch[1]].buf] = NullAddr
    BY <1>0, <2>2 DEF ScratchOK
  <2>4. ~ScratchReady(l)'
    BY <1>0, <2>1, <2>2, <2>3 DEF ScratchReady
  <2> QED
    BY <2>1, <2>4 DEF StageOK, Defined
<1> QED
  BY <1>1, <1>2 DEF BuffersLoaded

\* reloadNewBuffers() restores each section from the pristine image.
LEMMA StageReload ==
  ASSUME TypeOK, LockIInv, SourceInv, StageInv, NEW l \in Loaders,
         (\E t \in SecIdx : ReloadLock(l, t)) \/ ReloadCopy(l) \/ ReloadDone(l), NEW s \in SecIdx
  PROVE  StageOK(l, s)'
<1>0. /\ ctl \in [Loaders -> Control] /\ ctl[l] \in Control /\ infer \in [Loaders -> [SecIdx -> Entry]]
      /\ mem \in [BufIds -> Contents] /\ StageOK(l, s) /\ SourceOK(l, s)
      /\ ControlOK(ctl[l], mbr[l], infer[l]) /\ EntryInv /\ ImagesPristine
      /\ infer[l][s] \in Entry /\ infer[l][s].buf \in BufIds
  BY DEF TypeOK, StageInv, SourceInv, LockIInv, SharingIInv, ControlInv, Entry
<1>1. ASSUME NEW t \in SecIdx, ReloadLock(l, t) PROVE StageOK(l, s)'
  <2>1. ctl'[l] = Holding(ctl[l], t) /\ UNCHANGED <<infer, mem>> /\ ctl[l].pc = "reload"
    BY <1>0, <1>1 DEF ReloadLock
  <2>2. ctl'[l].pc = "reloadCopy" /\ ctl'[l].todo = ctl[l].todo
    BY <1>0, <2>1, ReloadFields
  <2> QED
    BY <1>0, <2>1, <2>2 DEF StageOK, Defined, Written
<1>2. CASE ReloadCopy(l)
  <2>0. PICK t \in SecIdx : t = ctl[l].cur
    BY <1>0 DEF Control
  <2>1. /\ ctl[l].pc = "reloadCopy" /\ infer' = infer
        /\ mem' = [mem EXCEPT ![infer[l][t].buf] = mem[backup[l][t].buf]]
        /\ ctl'[l] = Restored(ctl[l], t) /\ t \in ctl[l].todo
    BY <1>0, <1>2, <2>0 DEF ReloadCopy, ControlOK
  <2>2. ctl'[l].pc = "reload" /\ ctl'[l].todo = ctl[l].todo \ {t}
    <3>1. PICK c \in Control : c = ctl[l]
      BY <1>0
    <3>2. Restored(c, t).pc = "reload" /\ Restored(c, t).todo = c.todo \ {t}
      BY DEF Restored, Control
    <3> QED
      BY <2>1, <3>1, <3>2
  <2>3. CASE s = t
    <3>1. ~infer[l][s].isShared
      BY <1>0, <2>1, <2>3 DEF ControlOK
    <3>2. SUFFICES ASSUME Defined(l, s)'
                   PROVE  LET c == mem'[infer'[l][s].buf] IN
                          c.fill /\ \A r \in SecIdx : c.patch[r] = Written(l, s, r)'
      BY DEF StageOK
    <3>3. infer[l][s].has /\ infer[l][s].hasData /\ infer[l][s].isProcessed
      BY <2>1, <3>2 DEF Defined
    <3>4. backup[l][s].buf = BackupBuf(s) /\ mem[BackupBuf(s)].fill
      BY <1>0, <3>1, <3>3 DEF SourceOK
    <3>5. mem'[infer[l][s].buf] = mem[BackupBuf(s)]
      BY <1>0, <2>1, <2>3, <3>4
    <3>6. mem[BackupBuf(s)].patch = Unpatched
      BY <1>0 DEF ImagesPristine
    <3>7. \A r \in SecIdx : mem[BackupBuf(s)].patch[r] = << >>
      BY <3>6 DEF Unpatched
    <3> QED
      BY <2>1, <2>2, <3>4, <3>5, <3>7 DEF Written
  <2>4. CASE s # t
    <3>1. infer[l][s].buf # infer[l][t].buf
      BY <1>0, <2>1, <2>4, BufSection
    <3>2. mem'[infer[l][s].buf] = mem[infer[l][s].buf]
      BY <1>0, <2>1, <3>1
    <3> QED
      BY <1>0, <2>1, <2>2, <2>4, <3>2 DEF StageOK, Defined, Written
  <2> QED
    BY <2>3, <2>4
<1>3. CASE ReloadDone(l)
  <2>1. /\ ctl[l].pc = "reload" /\ ctl[l].todo = {} /\ UNCHANGED <<elf, relocIdx, jitIdx, infer, mem>>
        /\ ctl'[l] = MoveTo(ctl[l], "reloc", 1)
    BY <1>0, <1>3 DEF ReloadDone, indexes
  <2>2. ctl'[l].pc = "reloc" /\ ctl'[l].pos = 1
    BY <1>0, <2>1, MoveFields DEF Pcs
  <2>3. RelocsBelow(1) = {}
    BY Passed
  <2>4. \A r : r \notin RelocsBelow(ctl[l].pos)'
    BY <2>1, <2>2, <2>3 DEF RelocsBelow
  <2>5. \A r \in SecIdx : Written(l, s, r)' = << >> /\ Written(l, s, r) = << >>
    BY <2>1, <2>2, <2>4 DEF Written
  <2>6. Defined(l, s)' => Defined(l, s)
    BY <2>1, <2>2 DEF Defined
  <2> QED
    BY <1>0, <2>1, <2>5, <2>6 DEF StageOK
<1> QED
  BY <1>1, <1>2, <1>3

\* Patching a section's buffer changes what its relocation section has written there.
LEMMA PatchedContents ==
  ASSUME NEW c \in Contents, NEW r \in SecIdx, NEW v
  PROVE  /\ Patch(c, r, v).fill = c.fill
         /\ \A q \in SecIdx : q # r => Patch(c, r, v).patch[q] = c.patch[q]
         /\ ~elf[r].acc \/ c.patch[r] = << >> => Patch(c, r, v).patch[r] = <<v>>
<1>1. c.patch \in [SecIdx -> Seq(Vals)]
  BY DEF Contents
<1>2. Patch(c, r, v).fill = c.fill
  BY DEF Patch, Contents
<1>3. Patch(c, r, v).patch = [c.patch EXCEPT ![r] = IF elf[r].acc THEN Append(@, v) ELSE <<v>>]
  BY DEF Patch, Contents
<1>4. c.patch[r] = << >> => Append(c.patch[r], v) = <<v>>
  OBVIOUS
<1> QED
  BY <1>1, <1>2, <1>3, <1>4

\* What a loader writes for section r is in the target afterwards, and no other section's
\* buffer changes.
PatchedFrom(l, r, v, s) ==
    LET b == infer[l][s].buf IN
    /\ s # elf[r].info => mem'[b] = mem[b]
    /\ s = elf[r].info =>
          /\ mem'[b].fill = mem[b].fill
          /\ \A q \in SecIdx : q # r => mem'[b].patch[q] = mem[b].patch[q]
          /\ ~elf[r].acc \/ mem[b].patch[r] = << >> => mem'[b].patch[r] = <<v>>

\* Patching a loader's buffer affects the section the relocations target, and only it.
LEMMA PatchEffect ==
  ASSUME TypeOK, EntryInv, NEW l \in Loaders, NEW r \in SecIdx, NEW v,
         elf[r].info \in SecIdx, mem' = [mem EXCEPT ![TargetBuf(l, r)] = Patch(@, r, v)], NEW s \in SecIdx
  PROVE  PatchedFrom(l, r, v, s)
<1>0. /\ mem \in [BufIds -> Contents] /\ infer[l][s].buf \in BufIds
  BY DEF TypeOK, Entry
<1>1. CASE s # elf[r].info
  <2>1. infer[l][s].buf # TargetBuf(l, r)
    BY <1>1, BufSection DEF TargetBuf
  <2> QED
    BY <1>0, <1>1, <2>1 DEF PatchedFrom
<1>2. CASE s = elf[r].info
  <2> DEFINE c == mem[infer[l][s].buf]
  <2>1. mem'[infer[l][s].buf] = Patch(c, r, v) /\ c \in Contents
    BY <1>0, <1>2 DEF TargetBuf
  <2>2. c = mem[infer[l][s].buf]
    OBVIOUS
  <2> HIDE DEF c
  <2>3. /\ Patch(c, r, v).fill = c.fill
        /\ \A q \in SecIdx : q # r => Patch(c, r, v).patch[q] = c.patch[q]
        /\ ~elf[r].acc \/ c.patch[r] = << >> => Patch(c, r, v).patch[r] = <<v>>
    BY <2>1, PatchedContents
  <2> QED
    BY <1>2, <2>1, <2>2, <2>3 DEF PatchedFrom
<1> QED
  BY <1>1, <1>2

\* applyRelocations() writes each value once.
LEMMA StageReloc ==
  ASSUME TypeOK, LockIInv, OnceInv, StageInv, NEW l \in Loaders,
         RelocLock(l) \/ RelocPatch(l) \/ RelocDone(l), NEW s \in SecIdx
  PROVE  StageOK(l, s)'
<1>0. /\ ctl \in [Loaders -> Control] /\ ctl[l] \in Control /\ infer \in [Loaders -> [SecIdx -> Entry]]
      /\ mem \in [BufIds -> Contents] /\ mbr \in [Loaders -> Members] /\ io \in [Loaders -> UserIO \cup {NoIO, Broken}]
      /\ StageOK(l, s) /\ Len(relocIdx) \in Nat /\ Idle.pc = "idle"
      /\ ControlInv /\ PatchInv /\ RegisteredInv /\ EntryInv /\ ProcessedInv /\ UNCHANGED <<elf, relocIdx, jitIdx>>
  BY DEF TypeOK, StageInv, LockIInv, SharingIInv, RelocLock, RelocPatch, RelocDone, indexes, Idle, At
<1>1. ctl[l].pc \in {"reloc", "relocPatch"} /\ ctl[l].pos \in Nat /\ Complete(l)
  <2>1. ctl[l].pc \in {"reloc", "relocPatch"}
    BY DEF RelocLock, RelocPatch, RelocDone
  <2> QED
    BY <1>0, <2>1 DEF Control, OnceInv, OnceOK, Relocating
<1>2. \A n : RelocsBelow(n)' = RelocsBelow(n)
  BY <1>0 DEF RelocsBelow
<1>3. CASE Throw(l)
  BY <1>3, StageThrow
<1>4. CASE RelocLock(l) /\ ~Throw(l)
  <2>1. /\ UNCHANGED <<infer, mbr, mem, dev>> /\ ctl' = [ctl EXCEPT ![l].pc = "relocPatch"] /\ ctl[l].pc = "reloc"
    BY <1>4 DEF RelocLock
  <2>2. ctl'[l].pc = "relocPatch" /\ ctl'[l].pos = ctl[l].pos
    BY <1>0, <2>1 DEF Control
  <2>3. \A r \in SecIdx : SymValue(l, r)' = SymValue(l, r)
    BY <1>0, <2>1, HeaderTypes, SymValueSame
  <2>4. \A r \in SecIdx : Written(l, s, r)' = Written(l, s, r)
    BY <1>0, <1>2, <2>1, <2>2, <2>3 DEF Written
  <2>5. Defined(l, s)' => Defined(l, s)
    BY <2>1, <2>2 DEF Defined
  <2> QED
    BY <1>0, <2>1, <2>4, <2>5 DEF StageOK
<1>5. CASE RelocPatch(l) /\ ~Throw(l)
  <2>0. ctl[l].pc = "relocPatch"
    BY <1>5 DEF RelocPatch
  <2>1. PICK n \in 1 .. Len(relocIdx), x \in SecIdx : n = ctl[l].pos /\ x = relocIdx[n] /\ elf[x].info \in SecIdx
    <3>1. LET r == relocIdx[ctl[l].pos] IN
          /\ ctl[l].pos \in 1 .. Len(relocIdx) /\ r \in SecIdx /\ elf[r].info \in SecIdx
      BY <1>0, <2>0, PatchedSection
    <3> QED
      BY <3>1
  <2>2. PICK v : v = SymValue(l, x)
    OBVIOUS
  <2>3. /\ UNCHANGED <<infer, mbr, dev>> /\ mem' = [mem EXCEPT ![TargetBuf(l, x)] = Patch(@, x, v)]
        /\ ctl'[l].pc = "reloc" /\ ctl'[l].pos = n + 1
    <3>1. /\ UNCHANGED <<infer, mbr, dev>> /\ mem' = [mem EXCEPT ![TargetBuf(l, x)] = Patch(@, x, v)]
          /\ ctl'[l] = MoveTo(ctl[l], "reloc", n + 1)
      BY <1>0, <1>5, <2>1, <2>2 DEF RelocPatch
    <3>2. n + 1 \in Nat
      BY <1>0
    <3>3. PICK c \in Control : c = ctl[l]
      BY <1>0
    <3>4. MoveTo(c, "reloc", n + 1).pc = "reloc" /\ MoveTo(c, "reloc", n + 1).pos = n + 1
      BY <3>2 DEF MoveTo, Control
    <3> QED
      BY <3>1, <3>3, <3>4
  <2>4. RelocsBelow(n + 1) = RelocsBelow(n) \cup {x} /\ x \notin RelocsBelow(n)
    BY <1>0, <1>1, <2>1, Passed, AllWritten
  <2>5. \A r \in SecIdx : SymValue(l, r)' = SymValue(l, r)
    BY <1>0, <2>3, HeaderTypes, SymValueSame
  <2> DEFINE b == infer[l][s].buf
  <2>6. /\ s # elf[x].info => mem'[b] = mem[b]
        /\ s = elf[x].info =>
               /\ mem'[b].fill = mem[b].fill
               /\ \A q \in SecIdx : q # x => mem'[b].patch[q] = mem[b].patch[q]
               /\ ~elf[x].acc \/ mem[b].patch[x] = << >> => mem'[b].patch[x] = <<v>>
    <3>1. elf[x].info \in SecIdx /\ EntryInv /\ mem' = [mem EXCEPT ![TargetBuf(l, x)] = Patch(@, x, v)]
      BY <1>0, <2>1, <2>3
    <3> HIDE DEF b
    <3>2. \A q \in SecIdx : PatchedFrom(l, x, v, q)
      BY <3>1, PatchEffect
    <3> QED
      BY <3>2 DEF PatchedFrom, b
  <2>7. /\ \A r \in SecIdx : Written(l, s, r) =
              IF r \in RelocsBelow(n) /\ elf[r].info = s THEN <<SymValue(l, r)>> ELSE << >>
        /\ \A r \in SecIdx : Written(l, s, r)' =
              IF r \in RelocsBelow(n) \cup {x} /\ elf[r].info = s THEN <<SymValue(l, r)>> ELSE << >>
    BY <1>0, <1>2, <2>0, <2>1, <2>3, <2>4, <2>5 DEF Written
  <2>8. Defined(l, s)' => Defined(l, s)
    BY <2>0, <2>3 DEF Defined
  <2>9. ASSUME Defined(l, s)' PROVE mem[b].fill /\ \A r \in SecIdx : mem[b].patch[r] = Written(l, s, r)
    BY <1>0, <2>8, <2>9 DEF StageOK
  <2>10. ASSUME Defined(l, s)' PROVE mem'[b].fill /\ \A r \in SecIdx : mem'[b].patch[r] = Written(l, s, r)'
    <3>1. CASE s # elf[x].info
      BY <2>6, <2>7, <2>9, <2>10, <3>1
    <3>2. CASE s = elf[x].info
      <4>1. mem[b].patch[x] = << >>
        <5>1. Written(l, s, x) = << >>
          BY <2>4, <2>7
        <5> QED
          BY <2>9, <2>10, <5>1
      <4>2. mem'[b].patch[x] = Written(l, s, x)'
        <5>1. Written(l, s, x)' = <<v>>
          BY <2>2, <2>7, <3>2
        <5> QED
          BY <2>6, <3>2, <4>1, <5>1
      <4>3. ASSUME NEW r \in SecIdx, r # x PROVE mem'[b].patch[r] = Written(l, s, r)'
        <5>1. mem'[b].patch[r] = mem[b].patch[r] /\ mem[b].patch[r] = Written(l, s, r)
          BY <2>6, <2>9, <2>10, <3>2, <4>3
        <5>2. Written(l, s, r)' = Written(l, s, r)
          BY <2>7, <4>3
        <5> QED
          BY <5>1, <5>2
      <4>4. mem'[b].fill
        BY <2>6, <2>9, <2>10, <3>2
      <4> QED
        BY <4>2, <4>3, <4>4
    <3> QED
      BY <3>1, <3>2
  <2> QED
    BY <2>3, <2>10 DEF StageOK
<1>6. CASE RelocDone(l)
  <2>1. /\ ctl[l].pc = "reloc" /\ ctl[l].pos > Len(relocIdx) /\ UNCHANGED <<infer, mem, dev>>
        /\ ctl'[l].pc = "idle" /\ io'[l] = NoIO /\ mbr'[l].symTab = mbr[l].symTab
    BY <1>0, <1>6 DEF RelocDone, buffers, Members
  <2>2. \A r \in SecIdx : SymValue(l, r)' = SymValue(l, r)
    BY <1>0, <2>1, HeaderTypes, SymValueSame
  <2>3. \A r \in SecIdx : r \in RelocsBelow(ctl[l].pos) <=> IsRela(elf, r) /\ ~elf[r].jit
    BY <1>0, <1>1, <2>1, Passed, AllWritten
  <2>4. \A r \in SecIdx : /\ Written(l, s, r) = IF IsRela(elf, r) /\ ~elf[r].jit /\ elf[r].info = s
                                                  THEN <<SymValue(l, r)>> ELSE << >>
                          /\ Written(l, s, r)' = Expected(l, s, r)'
    BY <2>1, <2>3 DEF Written
  <2>5. \A r \in SecIdx : Written(l, s, r)' = Written(l, s, r)
    BY <1>0, <2>1, <2>2, <2>4 DEF Expected, IsRela
  <2>6. Defined(l, s)' => Defined(l, s)
    BY <2>1 DEF Defined
  <2> QED
    BY <1>0, <2>1, <2>5, <2>6 DEF StageOK
<1> QED
  BY <1>3, <1>4, <1>5, <1>6

\* applyJitRelocations() writes the user buffers over those of the inference before.
LEMMA StageJit ==
  ASSUME TypeOK, LockIInv, OnceInv, StageInv, JitOverwrites, NEW l \in Loaders,
         JitLock(l) \/ JitPatch(l) \/ JitDone(l), NEW s \in SecIdx
  PROVE  StageOK(l, s)'
<1>0. /\ ctl \in [Loaders -> Control] /\ ctl[l] \in Control /\ infer \in [Loaders -> [SecIdx -> Entry]]
      /\ mem \in [BufIds -> Contents] /\ mbr \in [Loaders -> Members] /\ io \in [Loaders -> UserIO \cup {NoIO, Broken}]
      /\ StageOK(l, s) /\ Len(jitIdx) \in Nat /\ Idle.pc = "idle" /\ ControlOK(ctl[l], mbr[l], infer[l])
      /\ ControlInv /\ PatchInv /\ RegisteredInv /\ EntryInv /\ ProcessedInv /\ UNCHANGED <<elf, relocIdx, jitIdx>>
  BY DEF TypeOK, StageInv, LockIInv, SharingIInv, ControlInv, JitLock, JitPatch, JitDone, indexes, Idle, At
<1>1. ctl[l].pc \in {"jit", "jitPatch"} /\ ctl[l].pos \in Nat /\ Complete(l)
  <2>1. ctl[l].pc \in {"jit", "jitPatch"}
    BY DEF JitLock, JitPatch, JitDone
  <2> QED
    BY <1>0, <2>1 DEF Control, OnceInv, OnceOK, Relocating
<1>2. \A n : JitsBelow(n)' = JitsBelow(n)
  BY <1>0 DEF JitsBelow
<1>3. CASE Throw(l)
  BY <1>3, StageThrow
<1>4. CASE JitLock(l) /\ ~Throw(l)
  <2>1. /\ UNCHANGED <<infer, mbr, mem, dev, io>> /\ ctl' = [ctl EXCEPT ![l].pc = "jitPatch"] /\ ctl[l].pc = "jit"
    BY <1>4 DEF JitLock
  <2>2. ctl'[l].pc = "jitPatch" /\ ctl'[l].pos = ctl[l].pos /\ ctl'[l].arg = ctl[l].arg
    BY <1>0, <2>1 DEF Control
  <2>3. \A r \in SecIdx : SymValue(l, r)' = SymValue(l, r)
    BY <1>0, <2>1, HeaderTypes, SymValueSame
  <2>4. \A r \in SecIdx : Expected(l, s, r)' = Expected(l, s, r)
    BY <1>0, <2>1, <2>3 DEF Expected, IsRela
  <2>5. \A r \in SecIdx : Written(l, s, r)' = Written(l, s, r)
    BY <1>0, <1>2, <2>1, <2>2, <2>4 DEF Written
  <2>6. Defined(l, s)' => Defined(l, s)
    BY <2>1, <2>2 DEF Defined, ScratchReady
  <2> QED
    BY <1>0, <2>1, <2>5, <2>6 DEF StageOK
<1>5. CASE JitPatch(l) /\ ~Throw(l)
  <2>0. ctl[l].pc = "jitPatch"
    BY <1>5 DEF JitPatch
  <2>1. PICK n \in 1 .. Len(jitIdx), x \in SecIdx :
             n = ctl[l].pos /\ x = jitIdx[n] /\ elf[x].info \in SecIdx /\ IsRela(elf, x)
    <3>1. LET r == jitIdx[ctl[l].pos] IN
          /\ ctl[l].pos \in 1 .. Len(jitIdx) /\ r \in SecIdx /\ elf[r].info \in SecIdx /\ IsRela(elf, r)
      BY <1>0, <2>0, PatchedSection
    <3> QED
      BY <3>1
  <2>2. PICK v : v = UserVal(ctl[l].arg, elf[x].io)
    OBVIOUS
  <2>3. /\ UNCHANGED <<infer, mbr, dev, io>> /\ mem' = [mem EXCEPT ![TargetBuf(l, x)] = Patch(@, x, v)]
        /\ ctl'[l].pc = "jit" /\ ctl'[l].pos = n + 1 /\ ctl'[l].arg = ctl[l].arg
    <3>1. /\ UNCHANGED <<infer, mbr, dev, io>> /\ mem' = [mem EXCEPT ![TargetBuf(l, x)] = Patch(@, x, v)]
          /\ ctl'[l] = MoveTo(ctl[l], "jit", n + 1)
      BY <1>0, <1>5, <2>1, <2>2 DEF JitPatch
    <3>2. n + 1 \in Nat
      BY <1>0
    <3>3. PICK c \in Control : c = ctl[l]
      BY <1>0
    <3>4. LET d == MoveTo(c, "jit", n + 1) IN d.pc = "jit" /\ d.pos = n + 1 /\ d.arg = c.arg
      BY <3>2 DEF MoveTo, Control
    <3> QED
      BY <3>1, <3>3, <3>4
  <2>4. JitsBelow(n + 1) = JitsBelow(n) \cup {x} /\ elf[x].jit /\ ~elf[x].acc
    <3>1. JitsBelow(n + 1) = JitsBelow(n) \cup {x}
      BY <1>0, <1>1, <2>1, AllWritten
    <3>2. elf[x].jit
      BY <1>1, <2>1 DEF Complete, OnceBelow
    <3> QED
      BY <2>1, <3>1, <3>2 DEF JitOverwrites, TypeOK
  <2>5. \A r \in SecIdx : Expected(l, s, r)' = Expected(l, s, r)
    <3>1. \A r \in SecIdx : SymValue(l, r)' = SymValue(l, r)
      BY <1>0, <2>3, HeaderTypes, SymValueSame
    <3> QED
      BY <1>0, <2>3, <3>1 DEF Expected, IsRela
  <2> DEFINE b == infer[l][s].buf
  <2>6. PatchedFrom(l, x, v, s)
    BY <1>0, <2>1, <2>3, PatchEffect
  <2>7. /\ \A r \in SecIdx : Written(l, s, r) =
              IF r \in JitsBelow(n) /\ elf[r].info = s THEN <<UserVal(ctl[l].arg, elf[r].io)>> ELSE Expected(l, s, r)
        /\ \A r \in SecIdx : Written(l, s, r)' =
              IF r \in JitsBelow(n) \cup {x} /\ elf[r].info = s THEN <<UserVal(ctl[l].arg, elf[r].io)>>
              ELSE Expected(l, s, r)
    BY <1>0, <1>2, <2>0, <2>1, <2>3, <2>4, <2>5 DEF Written
  <2>8. Defined(l, s)' => Defined(l, s)
    BY <2>0, <2>3 DEF Defined, ScratchReady
  <2>9. ASSUME Defined(l, s)' PROVE mem[b].fill /\ \A r \in SecIdx : mem[b].patch[r] = Written(l, s, r)
    BY <1>0, <2>8, <2>9 DEF StageOK
  <2>10. ASSUME Defined(l, s)' PROVE mem'[b].fill /\ \A r \in SecIdx : mem'[b].patch[r] = Written(l, s, r)'
    <3>1. CASE s # elf[x].info
      BY <2>6, <2>7, <2>9, <2>10, <3>1 DEF PatchedFrom
    <3>2. CASE s = elf[x].info
      <4>1. mem'[b].patch[x] = <<v>>
        BY <2>4, <2>6, <3>2 DEF PatchedFrom
      <4>2. Written(l, s, x)' = <<v>>
        BY <2>2, <2>7, <3>2
      <4>3. ASSUME NEW r \in SecIdx, r # x PROVE mem'[b].patch[r] = Written(l, s, r)'
        <5>1. mem'[b].patch[r] = mem[b].patch[r] /\ mem[b].patch[r] = Written(l, s, r)
          BY <2>6, <2>9, <2>10, <3>2, <4>3 DEF PatchedFrom
        <5>2. Written(l, s, r)' = Written(l, s, r)
          BY <2>7, <4>3
        <5> QED
          BY <5>1, <5>2
      <4>4. mem'[b].fill
        BY <2>6, <2>9, <2>10, <3>2 DEF PatchedFrom
      <4> QED
        BY <4>1, <4>2, <4>3, <4>4
    <3> QED
      BY <3>1, <3>2
  <2> QED
    BY <2>3, <2>10 DEF StageOK
<1>6. CASE JitDone(l)
  <2>1. /\ ctl[l].pc = "jit" /\ ctl[l].pos > Len(jitIdx) /\ UNCHANGED <<infer, mem, dev, mbr>>
        /\ ctl'[l].pc = "idle" /\ io'[l] = IF io[l] = Broken THEN Broken ELSE ctl[l].arg
    BY <1>0, <1>6 DEF JitDone, buffers
  <2>2. \A r \in SecIdx : SymValue(l, r)' = SymValue(l, r)
    BY <1>0, <2>1, HeaderTypes, SymValueSame
  <2>3. \A r \in SecIdx : r \in JitsBelow(ctl[l].pos) <=> IsRela(elf, r) /\ elf[r].jit
    BY <1>0, <1>1, <2>1, AllWritten
  <2>4. Defined(l, s)' => Defined(l, s) /\ io'[l] = ctl[l].arg
    BY <2>1 DEF Defined, ScratchReady
  <2>5. ctl[l].arg # NoIO
    BY <1>0, <2>1, HistoryAssumption DEF ControlOK
  <2>6. ASSUME io'[l] = ctl[l].arg, NEW r \in SecIdx PROVE Written(l, s, r)' = Written(l, s, r)
    <3>1. Written(l, s, r)' = Expected(l, s, r)'
      BY <2>1 DEF Written
    <3>2. CASE IsRela(elf, r) /\ elf[r].jit /\ elf[r].info = s
      <4>1. Written(l, s, r) = <<UserVal(ctl[l].arg, elf[r].io)>>
        BY <2>1, <2>3, <3>2 DEF Written
      <4>2. Expected(l, s, r)' = <<UserVal(ctl[l].arg, elf[r].io)>>
        BY <1>0, <2>5, <2>6, <3>2 DEF Expected, IsRela
      <4> QED
        BY <3>1, <4>1, <4>2
    <3>3. CASE ~(IsRela(elf, r) /\ elf[r].jit /\ elf[r].info = s)
      <4>1. Written(l, s, r) = Expected(l, s, r)
        BY <2>1, <2>3, <3>3 DEF Written
      <4>2. Expected(l, s, r)' = Expected(l, s, r)
        BY <1>0, <2>2, <3>3 DEF Expected, IsRela
      <4> QED
        BY <3>1, <4>1, <4>2
    <3> QED
      BY <3>2, <3>3
  <2> QED
    BY <1>0, <2>1, <2>4, <2>6 DEF StageOK
<1> QED
  BY <1>3, <1>4, <1>5, <1>6

\* A copy or a scratch update starts with the sections it does not restore: those of
\* them that hold data are shared, and never patched.
LEMMA StageRestart ==
  ASSUME EntryInv', ProcessedInv', ImagesPristine', SourceInv', NEW l \in Loaders, NEW s \in SecIdx,
         ctl'[l].pc = "reload", ctl'[l].todo = Reloaded(infer'[l])
  PROVE  StageOK(l, s)'
<1> SUFFICES ASSUME Defined(l, s)'
             PROVE  LET c == mem'[infer'[l][s].buf] IN
                    c.fill /\ \A r \in SecIdx : c.patch[r] = Written(l, s, r)'
  BY DEF StageOK
<1> DEFINE e == infer'[l][s]
<1>1. e.has /\ e.hasData /\ e.isProcessed /\ s \notin Reloaded(infer'[l])
  BY DEF Defined
<1>2. e.isShared
  BY <1>1 DEF Reloaded
<1>3. e.buf \in {NullBuf(s), OwnBuf(l, s), DataBuf(s)} /\ e.buf # OwnBuf(l, s)
  BY <1>2 DEF EntryInv, EntryOK
<1>4. e.buf # NullBuf(s)
  BY <1>1 DEF ProcessedInv, ProcessedOK
<1>5. mem'[DataBuf(s)].fill
  BY <1>1, <1>2 DEF SourceInv, SourceOK
<1>6. mem'[DataBuf(s)].patch = [r \in SecIdx |-> << >>]
  BY DEF ImagesPristine, Unpatched
<1>7. e.buf = DataBuf(s)
  BY <1>3, <1>4
<1>8. \A r \in SecIdx : Written(l, s, r)' = << >>
  BY DEF Written
<1> QED
  BY <1>5, <1>6, <1>7, <1>8

\* The calls of a client.
LEMMA StageClient ==
  ASSUME TypeOK, LockIInv, OnceInv, StageInv, EntryInv', ProcessedInv', ImagesPristine', SourceInv',
         NEW l \in Loaders, ClientStep(l), NEW s \in SecIdx
  PROVE  StageOK(l, s)'
<1>0. /\ ctl \in [Loaders -> Control] /\ mbr \in [Loaders -> Members] /\ StageOK(l, s) /\ AbsentInv
      /\ OnceOK(l) /\ RegisteredInv
  BY DEF TypeOK, StageInv, LockIInv, OnceInv, SharingIInv
<1>1. CASE Destroy(l)
  <2>1. ctl'[l].pc = "absent"
    BY <1>0, <1>1 DEF Destroy, Release, Absent, At
  <2> QED
    BY <2>1 DEF StageOK, Defined
<1>2. CASE Construct(l)
  <2>1. ctl'[l].pc = "idle" /\ ~mbr'[l].loaded
    BY <1>0, <1>2 DEF Construct, Idle, At, AbsentInv, AbsentOK, Present, NewMembers
  <2> QED
    BY <2>1 DEF StageOK, Defined
<1>3. CASE \E b \in BOOLEAN : SetInferencesMayBeRunInParallel(l, b)
  <2>1. ctl'[l].pc = "idle" /\ ~mbr'[l].loaded
    BY <1>0, <1>3 DEF SetInferencesMayBeRunInParallel, Members
  <2> QED
    BY <2>1 DEF StageOK, Defined
<1>4. CASE \E t \in SymTabs : StartLoad(l, t)
  <2>1. ctl'[l].pc = "section"
    BY <1>0, <1>4 DEF StartLoad, At
  <2> QED
    BY <2>1 DEF StageOK, Defined
<1>5. ASSUME NEW m \in Loaders, NEW o, NEW t, CopyInto(l, m, o, t) PROVE StageOK(l, s)'
  <2>1. ctl'[l] = At("reload", o, 0, Reloaded(infer'[l]), NoArg)
    BY <1>5, CopyEntries
  <2>2. ctl'[l].pc = "reload" /\ ctl'[l].todo = Reloaded(infer'[l])
    BY <2>1 DEF At
  <2> QED
    BY <2>2, StageRestart
<1>6. CASE \E a \in ScratchSets : UpdateSharedScratchBuffers(l, a)
  <2>1. infer' = infer /\ ctl'[l].pc = "reload" /\ ctl'[l].todo = Reloaded(infer[l])
    BY <1>0, <1>6 DEF UpdateSharedScratchBuffers, RestoredForScratch, At
  <2>2. Reloaded(infer'[l]) = Reloaded(infer[l])
    BY <2>1
  <2> QED
    BY <2>1, <2>2, StageRestart
<1>7. ASSUME NEW u \in UserIO, ApplyJitRelocations(l, u) PROVE StageOK(l, s)'
  <2>1. /\ UNCHANGED <<elf, relocIdx, jitIdx, infer, mbr, io, mem, dev>> /\ ctl[l].pc = "idle" /\ mbr[l].loaded
        /\ ctl'[l].pc = "jit" /\ ctl'[l].pos = 1
    BY <1>0, <1>7 DEF ApplyJitRelocations, indexes, buffers, At
  <2>2. JitsBelow(1)' = JitsBelow(1) /\ JitsBelow(1) = {}
    BY <1>0, <2>1, AllWritten DEF OnceOK, JitsBelow
  <2>3. \A r \in SecIdx : SymValue(l, r)' = SymValue(l, r)
    BY <2>1, HeaderTypes, SymValueSame
  <2>4. \A r \in SecIdx : Written(l, s, r)' = Expected(l, s, r)' /\ Written(l, s, r) = Expected(l, s, r)
    BY <2>1, <2>2 DEF Written
  <2>5. \A r \in SecIdx : Expected(l, s, r)' = Expected(l, s, r)
    BY <2>1, <2>3 DEF Expected, IsRela
  <2>6. Defined(l, s)' => Defined(l, s)
    BY <2>1 DEF Defined, ScratchReady
  <2> QED
    BY <1>0, <2>1, <2>4, <2>5, <2>6 DEF StageOK
<1> QED
  BY <1>1, <1>2, <1>3, <1>4, <1>5, <1>6, <1>7 DEF ClientStep, Clone, Assign

\* A loader's own steps keep the stages of its sections.
LEMMA StageOwn ==
  ASSUME TypeOK, LockIInv, OnceInv, ScratchInv, SourceInv, StageInv, JitOverwrites, LockIInv', SourceInv',
         NEW l \in Loaders, Step(l), NEW s \in SecIdx
  PROVE  StageOK(l, s)'
<1>0. /\ ControlInv /\ EntryInv /\ EntryInv' /\ ProcessedInv' /\ ImagesPristine'
  BY DEF LockIInv, SharingIInv
<1>1. CASE SectionStep(l) \/ SectionsDone(l) \/ UpdateSharedBuffers(l) \/ SharingDone(l)
  BY <1>0, <1>1, StageLoading
<1>2. CASE BufferStep(l)
  BY <1>0, <1>2, StageBuffers
<1>3. CASE BuffersLoaded(l)
  BY <1>0, <1>3, StageLoaded
<1>4. CASE (\E t \in SecIdx : ReloadLock(l, t)) \/ ReloadCopy(l) \/ ReloadDone(l)
  BY <1>4, StageReload
<1>5. CASE RelocLock(l) \/ RelocPatch(l) \/ RelocDone(l)
  BY <1>5, StageReloc
<1>6. CASE JitLock(l) \/ JitPatch(l) \/ JitDone(l)
  BY <1>6, StageJit
<1>7. CASE ReadThrows(l)
  BY <1>7, StageThrow DEF ReadThrows
<1>8. CASE ClientStep(l)
  BY <1>0, <1>8, StageClient
<1> QED
  BY <1>1, <1>2, <1>3, <1>4, <1>5, <1>6, <1>7, <1>8 DEF Step, LoadStep, PatchStep, SectionStep, BufferStep

-----------------------------------------------------------------------------
(* The inductive invariant behind ImageCorrect *)

ImageIInv == OnceInv /\ ScratchInv /\ SourceInv /\ StageInv

\* No loader exists at first, so no image is promised.
LEMMA ImageInit == Init => ImageIInv
<1> SUFFICES ASSUME Init, NEW l \in Loaders PROVE /\ ScratchOK(l)
                                                  /\ \A s \in SecIdx : SourceOK(l, s) /\ StageOK(l, s)
  BY OnceInit DEF ImageIInv, ScratchInv, SourceInv, StageInv
<1>1. ctl[l].pc = "absent" /\ infer[l] = EmptyMap /\ mbr[l].scratch = << >>
  BY DEF Init, Absent, At, NewMembers
<1>2. ScratchOK(l)
  BY <1>1 DEF ScratchOK
<1> QED
  BY <1>1, <1>2, EmptyFields DEF SourceOK, StageOK, Defined

\* Stuttering, and the end of the AccessManager, change nothing the invariant is about.
LEMMA ImageStutter ==
  ASSUME TypeOK, ImageIInv, UNCHANGED <<elf, relocIdx, jitIdx, ctl, infer, backup, mbr, io, mem, dev, loads>>
  PROVE  ImageIInv'
<1>1. OnceInv'
  BY OnceStutter DEF ImageIInv
<1>2. ScratchInv'
  BY DEF ImageIInv, ScratchInv, ScratchOK
<1>3. SourceInv'
  BY DEF ImageIInv, SourceInv, SourceOK
<1>4. StageInv'
  <2> SUFFICES ASSUME NEW l \in Loaders, NEW s \in SecIdx PROVE StageOK(l, s)'
    BY DEF StageInv
  <2>1. StageOK(l, s) /\ Image(l)' = Image(l)
    BY DEF ImageIInv, StageInv, Image
  <2> QED
    BY <2>1, StageSame
<1> QED
  BY <1>1, <1>2, <1>3, <1>4 DEF ImageIInv

\* Every step keeps the invariant of the images: for the loader that takes it stage by
\* stage, for the others because their images stay.
LEMMA ImageNext ==
  ASSUME TypeOK, LockIInv, ImageIInv, NoRetriedRead, JitOverwrites, [Next]_vars
  PROVE  ImageIInv'
<1>0. OnceInv /\ ScratchInv /\ SourceInv /\ StageInv /\ ControlInv
  BY DEF ImageIInv, LockIInv, SharingIInv
<1>1. CASE UNCHANGED vars \/ DeleteAccessor
  BY <1>1, ImageStutter DEF vars, DeleteAccessor, indexes, buffers, bounds
<1>2. ASSUME NEW l \in Loaders, Step(l) PROVE ImageIInv'
  <2>1. OnceInv'
    BY <1>0, OnceNext
  <2>2. LockIInv'
    BY LockNext
  <2>3. ScratchInv'
    <3>1. ScratchOK(l)'
      BY <1>0, <1>2, ScratchOwn
    <3>2. \A k \in Loaders : k # l => ScratchOK(k)'
      BY <1>0, <1>2, ScratchOther
    <3> QED
      BY <3>1, <3>2 DEF ScratchInv
  <2>4. SourceInv'
    <3>1. \A s \in SecIdx : SourceOK(l, s)'
      BY <1>0, <1>2, SourceOwn
    <3>2. \A k \in Loaders, s \in SecIdx : k # l => SourceOK(k, s)'
      BY <1>0, <1>2, SourceOther
    <3> QED
      BY <3>1, <3>2 DEF SourceInv
  <2>5. StageInv'
    <3>1. \A s \in SecIdx : StageOK(l, s)'
      BY <1>0, <1>2, <2>2, <2>4, StageOwn
    <3>2. \A k \in Loaders, s \in SecIdx : k # l => StageOK(k, s)'
      BY <1>0, <1>2, StageOther
    <3> QED
      BY <3>1, <3>2 DEF StageInv
  <2> QED
    BY <2>1, <2>3, <2>4, <2>5 DEF ImageIInv
<1> QED
  BY <1>1, <1>2 DEF Next, Step

\* Between calls the stage of a section is what ImageCorrect asks for.
LEMMA StageCorrect ==
  ASSUME LockIInv, StageInv
  PROVE  ImageCorrect
<1> SUFFICES ASSUME NEW l \in Loaders, ctl[l].pc = "idle", mbr[l].loaded, io[l] # Broken, ScratchReady(l),
                    NEW s \in SecIdx, infer[l][s].has, infer[l][s].hasData
             PROVE  LET c == mem[infer[l][s].buf] IN
                    c.fill /\ \A r \in SecIdx : c.patch[r] = Expected(l, s, r)
  BY DEF ImageCorrect
<1>1. infer[l][s].isProcessed
  BY DEF LockIInv, ProcessedInv, ProcessedOK
<1>2. StageOK(l, s) /\ Defined(l, s)
  BY <1>1 DEF StageInv, Defined
<1>3. \A r \in SecIdx : Written(l, s, r) = Expected(l, s, r)
  BY DEF Written
<1> QED
  BY <1>2, <1>3 DEF StageOK

\* Between calls the image of a loaded loader is its blob, relocated exactly once against
\* the loader's own buffers and the user buffers of the last inference, in whatever order
\* loads, copies, scratch updates and inferences of the loaders came before
\* (vpux_loader.cpp:701-764, 1009-1063).  It takes that no read of load() threw before a second
\* call of it, and that a JIT relocation section does not accumulate: an inference patches
\* its user buffers over those of the one before.
THEOREM ImagesCorrect == NoRetriedRead /\ JitOverwrites => (Spec => []ImageCorrect)
<1> SUFFICES ASSUME NoRetriedRead, JitOverwrites PROVE Spec => []ImageCorrect
  OBVIOUS
<1>1. TypeOK /\ LockIInv /\ ImageIInv => ImageCorrect
  BY StageCorrect DEF ImageIInv
<1>2. Init => ImageIInv
  BY ImageInit
<1>3. TypeOK /\ LockIInv /\ ImageIInv /\ [Next]_vars => ImageIInv'
  BY ImageNext
<1> QED
  BY <1>1, <1>2, <1>3, LockInvariant, PTL DEF Spec

-----------------------------------------------------------------------------
(* OpInv: the operation a loader is in, and where in it *)

\* Between calls, and where there is no loader, there is no operation.
LEMMA OpIdle ==
  ASSUME NEW m, m.loaded => m.symTab \in SymTabs, NEW c \in {Idle, Absent}
  PROVE  OpOK(c, m)
BY DEF OpOK, Idle, Absent, At

\* What the steps of load() leave of the members.
LEMMA LoadMembers ==
  ASSUME TypeOK, NEW l \in Loaders, LoadStep(l)
  PROVE  /\ mbr'[l].symTab = mbr[l].symTab
         /\ ~SectionStep(l) => mbr'[l].scratch = mbr[l].scratch
         /\ ~BuffersLoaded(l) => mbr'[l].loaded = mbr[l].loaded
<1>0. mbr \in [Loaders -> Members]
  BY DEF TypeOK
<1>1. CASE SectionStep(l)
  <2>1. mbr' = mbr \/ \E q : mbr' = [mbr EXCEPT ![l].scratch = q]
    BY <1>1 DEF SectionStep, LoadProgbits, LoadNobits, LoadRela, LoadSymtab, LoadOther
  <2> QED
    BY <1>0, <1>1, <2>1 DEF Members
<1>2. CASE BuffersLoaded(l)
  <2>1. mbr' = mbr \/ mbr' = [mbr EXCEPT ![l].loaded = TRUE]
    BY <1>2 DEF BuffersLoaded
  <2> QED
    BY <1>0, <1>2, <2>1 DEF Members
<1>3. CASE ~SectionStep(l) /\ ~BuffersLoaded(l)
  <2>1. mbr' = mbr
    BY <1>3 DEF LoadStep, SectionStep, SectionsDone, UpdateSharedBuffers, SharingDone, LoadSharedBuffer, LoadOwnBuffer
  <2> QED
    BY <1>3, <2>1
<1> QED
  BY <1>1, <1>2, <1>3

\* The steps of load() are steps of a load operation.
LEMMA OpLoad ==
  ASSUME TypeOK, OpInv, NEW l \in Loaders, LoadStep(l)
  PROVE  /\ OpOK(ctl'[l], mbr'[l])
         /\ ctl[l].op = "load" /\ ctl[l].pc \in {"section", "share", "buffers"}
         /\ ctl'[l].op = "load" \/ ctl'[l] = Idle
         /\ ~BuffersLoaded(l) => ctl'[l].pc \in {"section", "share", "buffers", "idle"}
<1>0. ctl \in [Loaders -> Control] /\ mbr \in [Loaders -> Members]
  BY DEF TypeOK
<1>1. PICK c \in Control : c = ctl[l]
  BY <1>0
<1>2. OpOK(c, mbr[l])
  BY <1>1 DEF OpInv
<1>3. /\ mbr'[l].symTab = mbr[l].symTab
      /\ ~SectionStep(l) => mbr'[l].scratch = mbr[l].scratch
      /\ ~BuffersLoaded(l) => mbr'[l].loaded = mbr[l].loaded
  BY LoadMembers
<1>4. CASE ~BuffersLoaded(l)
  <2>1. /\ c.pc \in {"section", "share", "buffers"}
        /\ \/ ctl' = ctl
           \/ ctl' = [ctl EXCEPT ![l].pos = @ + 1]
           \/ ctl' = [ctl EXCEPT ![l] = Idle]
           \/ c.pc = "section" /\ ctl' = [ctl EXCEPT ![l] = MoveTo(c, "share", 1)]
           \/ c.pc = "share" /\ ctl' = [ctl EXCEPT ![l].pc = "buffers"]
    BY <1>1, <1>4 DEF LoadStep, LoadProgbits, LoadNobits, LoadRela, LoadSymtab, LoadOther, SectionsDone,
       UpdateSharedBuffers, SharingDone, LoadSharedBuffer, LoadOwnBuffer, AtSection, NextSection, AbortLoad
  <2>2. c.op = "load"
    BY <1>2, <2>1 DEF OpOK
  <2>3. \/ ctl'[l] = Idle
        \/ ctl'[l].pc \in {"section", "share", "buffers"} /\ ctl'[l].op = c.op
    <3>1. DOMAIN c = {"pc", "op", "pos", "todo", "cur", "arg"} /\ l \in DOMAIN ctl
      BY <1>0 DEF Control
    <3>2. CASE ctl' = ctl
      BY <1>1, <2>1, <3>2
    <3>3. CASE ctl' = [ctl EXCEPT ![l].pos = @ + 1]
      <4>1. ctl'[l] = [c EXCEPT !.pos = @ + 1]
        BY <1>1, <3>1, <3>3
      <4>2. ctl'[l].pc = c.pc /\ ctl'[l].op = c.op
        BY <3>1, <4>1
      <4> QED BY <2>1, <4>2
    <3>4. CASE ctl' = [ctl EXCEPT ![l] = Idle]
      BY <3>1, <3>4
    <3>5. CASE ctl' = [ctl EXCEPT ![l] = MoveTo(c, "share", 1)]
      <4>1. ctl'[l] = [c EXCEPT !.pc = "share", !.pos = 1]
        BY <3>1, <3>5 DEF MoveTo
      <4>2. ctl'[l].pc = "share" /\ ctl'[l].op = c.op
        BY <3>1, <4>1
      <4> QED BY <4>2
    <3>6. CASE ctl' = [ctl EXCEPT ![l].pc = "buffers"]
      <4>1. ctl'[l] = [c EXCEPT !.pc = "buffers"]
        BY <1>1, <3>1, <3>6
      <4>2. ctl'[l].pc = "buffers" /\ ctl'[l].op = c.op
        BY <3>1, <4>1
      <4> QED BY <4>2
    <3> QED BY <2>1, <3>2, <3>3, <3>4, <3>5, <3>6
  <2>4. CASE ctl'[l] = Idle
    BY <1>1, <1>2, <1>3, <1>4, <2>1, <2>2, <2>4, OpIdle DEF OpOK, Idle, At
  <2>5. CASE ctl'[l].pc \in {"section", "share", "buffers"} /\ ctl'[l].op = c.op
    BY <1>1, <1>2, <1>3, <1>4, <2>1, <2>2, <2>5 DEF OpOK
  <2> QED
    BY <2>3, <2>4, <2>5
<1>5. CASE BuffersLoaded(l)
  <2>1. /\ c.pc = "buffers"
        /\ \/ mbr[l].scratch = << >> /\ mbr' = mbr /\ ctl' = [ctl EXCEPT ![l] = MoveTo(c, "reloc", 1)]
           \/ ctl' = [ctl EXCEPT ![l] = Idle]
    BY <1>1, <1>5 DEF BuffersLoaded
  <2>2. c.op = "load" /\ mbr[l].symTab \in SymTabs
    BY <1>2, <2>1 DEF OpOK
  <2>3. \/ mbr[l].scratch = << >> /\ mbr' = mbr /\ ctl'[l].pc = "reloc" /\ ctl'[l].op = "load"
        \/ ctl'[l] = Idle
    BY <1>0, <1>1, <2>1, <2>2 DEF MoveTo, Control
  <2>4. CASE mbr[l].scratch = << >> /\ mbr' = mbr /\ ctl'[l].pc = "reloc" /\ ctl'[l].op = "load"
    BY <1>1, <1>2, <1>5, <2>1, <2>2, <2>4 DEF OpOK
  <2>5. CASE ctl'[l] = Idle
    BY <1>1, <1>3, <1>5, <2>1, <2>2, <2>5, OpIdle
  <2> QED
    BY <2>3, <2>4, <2>5
<1> QED
  BY <1>4, <1>5

\* A step of relocating or restoring ends the operation, or moves on in it.
Moves(l) ==
    /\ infer' = infer /\ mbr' = mbr /\ io' = io
    /\ ctl'[l].op = ctl[l].op /\ ctl'[l].arg = ctl[l].arg
    /\ \/ {ctl[l].pc, ctl'[l].pc} \subseteq {"reload", "reloadCopy"}
       \/ ctl[l].pc = "reload" /\ ctl'[l].pc = "reloc"
       \/ {ctl[l].pc, ctl'[l].pc} \subseteq {"reloc", "relocPatch"} /\ dev' = dev
       \/ {ctl[l].pc, ctl'[l].pc} \subseteq {"jit", "jitPatch"} /\ dev' = dev

\* The cases of a step of relocating or restoring.
LEMMA PatchMoves ==
  ASSUME TypeOK, NEW l \in Loaders, PatchStep(l)
  PROVE  Throw(l) \/ RelocDone(l) \/ JitDone(l) \/ Moves(l)
<1>0. ctl \in [Loaders -> Control]
  BY DEF TypeOK
<1>1. PICK c \in Control : c = ctl[l]
  BY <1>0
<1>2. \/ Throw(l) \/ RelocDone(l) \/ JitDone(l)
      \/ /\ infer' = infer /\ mbr' = mbr /\ io' = io
         /\ \/ c.pc = "reload" /\ \E s \in SecIdx : ctl' = [ctl EXCEPT ![l] = Holding(c, s)]
            \/ c.pc = "reloadCopy" /\ ctl' = [ctl EXCEPT ![l] = Restored(c, c.cur)]
            \/ c.pc = "reload" /\ ctl' = [ctl EXCEPT ![l] = MoveTo(c, "reloc", 1)]
            \/ /\ dev' = dev
               /\ \/ c.pc = "reloc" /\ ctl' = [ctl EXCEPT ![l].pc = "relocPatch"]
                  \/ c.pc = "relocPatch" /\ ctl' = [ctl EXCEPT ![l] = MoveTo(c, "reloc", c.pos + 1)]
                  \/ c.pc = "jit" /\ ctl' = [ctl EXCEPT ![l].pc = "jitPatch"]
                  \/ c.pc = "jitPatch" /\ ctl' = [ctl EXCEPT ![l] = MoveTo(c, "jit", c.pos + 1)]
  BY <1>0, <1>1 DEF PatchStep, RelocLock, RelocPatch, ReloadLock, ReloadCopy, ReloadDone, JitLock, JitPatch, ReadThrows
<1>3. CASE /\ infer' = infer /\ mbr' = mbr /\ io' = io
           /\ c.pc = "reload" /\ \E s \in SecIdx : ctl'[l] = Holding(c, s)
  BY <1>1, <1>3, ReloadFields DEF Moves
<1>4. CASE c.pc = "reloadCopy" /\ ctl' = [ctl EXCEPT ![l] = Restored(c, c.cur)]
  BY <1>0, <1>1, <1>2, <1>4 DEF Moves, Restored, Control
<1>5. CASE c.pc = "reload" /\ ctl' = [ctl EXCEPT ![l] = MoveTo(c, "reloc", 1)]
  BY <1>0, <1>1, <1>2, <1>5 DEF Moves, MoveTo, Control
<1>6. CASE dev' = dev /\ c.pc = "reloc" /\ ctl' = [ctl EXCEPT ![l].pc = "relocPatch"]
  BY <1>0, <1>1, <1>2, <1>6 DEF Moves, Control
<1>7. CASE dev' = dev /\ c.pc = "relocPatch" /\ ctl' = [ctl EXCEPT ![l] = MoveTo(c, "reloc", c.pos + 1)]
  BY <1>0, <1>1, <1>2, <1>7 DEF Moves, MoveTo, Control
<1>8. CASE dev' = dev /\ c.pc = "jit" /\ ctl' = [ctl EXCEPT ![l].pc = "jitPatch"]
  BY <1>0, <1>1, <1>2, <1>8 DEF Moves, Control
<1>9. CASE dev' = dev /\ c.pc = "jitPatch" /\ ctl' = [ctl EXCEPT ![l] = MoveTo(c, "jit", c.pos + 1)]
  BY <1>0, <1>1, <1>2, <1>9 DEF Moves, MoveTo, Control
<1> QED
  BY <1>2, <1>3, <1>4, <1>5, <1>6, <1>7, <1>8, <1>9

\* An exception leaves the loader as it is, between calls, or takes it away.
LEMMA ThrowEnds ==
  ASSUME TypeOK, NEW l \in Loaders, Throw(l)
  PROVE  \/ /\ ctl[l].op = "clone" /\ ctl'[l] = Absent /\ mbr'[l] = NewMembers
            /\ infer'[l] = EmptyMap /\ io'[l] = NoIO
         \/ ctl[l].op # "clone" /\ ctl'[l] = Idle /\ mbr' = mbr /\ infer' = infer /\ io'[l] = Broken
  BY DEF Throw, Release, TypeOK

\* The steps of restoring and relocating stay in their operation or end it.
LEMMA OpPatch ==
  ASSUME TypeOK, OpInv, NEW l \in Loaders, PatchStep(l)
  PROVE  OpOK(ctl'[l], mbr'[l])
<1>0. ctl \in [Loaders -> Control] /\ mbr \in [Loaders -> Members] /\ OpOK(ctl[l], mbr[l])
  BY DEF TypeOK, OpInv
<1>1. CASE Throw(l)
  BY <1>0, <1>1, ThrowEnds, OpIdle DEF OpOK, NewMembers
<1>2. CASE RelocDone(l)
  <2>1. ctl'[l] = Idle /\ mbr'[l].symTab = mbr[l].symTab /\ ctl[l].pc = "reloc"
    BY <1>0, <1>2 DEF RelocDone, Members
  <2> QED
    BY <1>0, <2>1, OpIdle DEF OpOK
<1>3. CASE JitDone(l)
  <2>1. ctl'[l] = Idle /\ mbr' = mbr
    BY <1>0, <1>3 DEF JitDone
  <2> QED
    BY <1>0, <2>1, OpIdle DEF OpOK
<1>4. CASE Moves(l)
  BY <1>0, <1>4 DEF Moves, OpOK
<1> QED
  BY <1>1, <1>2, <1>3, <1>4, PatchMoves

\* A call starts the operation it is named for.
LEMMA OpClient ==
  ASSUME TypeOK, OpInv, NEW l \in Loaders, ClientStep(l)
  PROVE  OpOK(ctl'[l], mbr'[l])
<1>0. /\ ctl \in [Loaders -> Control] /\ mbr \in [Loaders -> Members]
      /\ \A k \in Loaders : OpOK(ctl[k], mbr[k])
  BY DEF TypeOK, OpInv
<1>1. CASE Construct(l) \/ Destroy(l)
  <2>1. ctl'[l] \in {Idle, Absent} /\ (mbr'[l] = mbr[l] \/ mbr'[l] = NewMembers)
    BY <1>0, <1>1 DEF Construct, Destroy, Release
  <2> QED
    BY <1>0, <2>1, OpIdle DEF OpOK, NewMembers
<1>2. ASSUME NEW b \in BOOLEAN, SetInferencesMayBeRunInParallel(l, b) PROVE OpOK(ctl'[l], mbr'[l])
  <2>1. /\ ctl' = ctl /\ mbr'[l].loaded = mbr[l].loaded /\ mbr'[l].symTab = mbr[l].symTab
        /\ mbr'[l].scratch = mbr[l].scratch
    BY <1>0, <1>2 DEF SetInferencesMayBeRunInParallel, Members
  <2> QED
    BY <1>0, <2>1 DEF OpOK
<1>3. ASSUME NEW t \in SymTabs, StartLoad(l, t) PROVE OpOK(ctl'[l], mbr'[l])
  <2>1. ~mbr'[l].loaded /\ mbr'[l].symTab = t /\ ctl'[l] = At("section", "load", 0, {}, NoArg)
    BY <1>0, <1>3 DEF StartLoad, Members
  <2> QED
    BY <1>3, <2>1 DEF OpOK, At
<1>4. ASSUME NEW m \in Loaders, NEW o \in {"clone", "assign"}, NEW t \in SymTabs, CopySource(m), CopyInto(l, m, o, t)
      PROVE  OpOK(ctl'[l], mbr'[l])
  <2>1. /\ mbr'[l].loaded /\ mbr'[l].symTab = t /\ ctl'[l].pc = "reload" /\ ctl'[l].op = o
    BY <1>0, <1>4 DEF CopyInto, CopySource, Members, At
  <2> QED
    BY <1>4, <2>1 DEF OpOK
<1>5. ASSUME NEW m \in Loaders, Assign(l, m) PROVE OpOK(ctl'[l], mbr'[l])
  <2>1. mbr[m].symTab \in SymTabs
    BY <1>0, <1>5 DEF Assign, CopySource, OpOK
  <2> QED
    BY <1>4, <1>5, <2>1 DEF Assign
<1>6. ASSUME NEW a \in ScratchSets, UpdateSharedScratchBuffers(l, a) PROVE OpOK(ctl'[l], mbr'[l])
  <2>1. ctl'[l].pc = "reload" /\ ctl'[l].op = "scratch" /\ mbr' = mbr /\ mbr[l].loaded /\ mbr[l].scratch # << >>
    BY <1>0, <1>6 DEF UpdateSharedScratchBuffers, At
  <2> QED
    BY <1>0, <2>1 DEF OpOK
<1>7. ASSUME NEW u \in UserIO, ApplyJitRelocations(l, u) PROVE OpOK(ctl'[l], mbr'[l])
  <2>1. ctl'[l].pc = "jit" /\ ctl'[l].op = "jit" /\ mbr' = mbr /\ mbr[l].loaded
    BY <1>0, <1>7 DEF ApplyJitRelocations, At
  <2> QED
    BY <1>0, <2>1 DEF OpOK
<1>8. (\E m \in Loaders, t \in SymTabs : Clone(l, m, t)) => OpOK(ctl'[l], mbr'[l])
  BY <1>4 DEF Clone
<1> QED
  BY <1>1, <1>2, <1>3, <1>5, <1>6, <1>7, <1>8 DEF ClientStep

\* Every step of a loader keeps OpInv.
LEMMA OpStep ==
  ASSUME TypeOK, OpInv, NEW l \in Loaders, Step(l)
  PROVE  OpInv'
<1>1. OpOK(ctl'[l], mbr'[l])
  BY OpLoad, OpPatch, OpClient DEF Step
<1> QED
  BY <1>1, StepFrame DEF OpInv, Frame

-----------------------------------------------------------------------------
(* SuppliedInv: where the scratch sections of a loader are *)

\* SuppliedOK of a loader whose scratch sections and their buffers stay.
LEMMA SuppliedSame ==
  ASSUME TypeOK, NEW l \in Loaders, SuppliedOK(l), infer'[l] = infer[l], mbr'[l].scratch = mbr[l].scratch,
         \A s \in SecIdx : infer[l][s].buf = OwnBuf(l, s) => dev'[OwnBuf(l, s)] = dev[OwnBuf(l, s)],
         ctl'[l].op = "scratch" /\ ctl'[l].pc \in {"reloc", "relocPatch"} =>
            ctl[l].op = "scratch" /\ ctl[l].pc \in {"reloc", "relocPatch"} /\ ctl'[l].arg = ctl[l].arg,
         ctl'[l].op \in {"clone", "assign"} => ctl[l].op \in {"clone", "assign"}
  PROVE  SuppliedOK(l)'
<1>1. PICK q \in Seq(SecIdx) : q = mbr[l].scratch
  BY DEF TypeOK, Members
<1> DEFINE Nowhere(d) == \A i \in 1 .. Len(q) : d[OwnBuf(l, q[i])] = NullAddr
           In(d, a) == \A i \in 1 .. Len(q) : d[OwnBuf(l, q[i])] = <<a, q[i]>>
           Owned(map) == \A i \in 1 .. Len(q) : map[q[i]].has /\ map[q[i]].buf = OwnBuf(l, q[i])
<1>2. /\ Owned(infer[l])
      /\ Nowhere(dev) \/ \E a \in ScratchSets : In(dev, a)
      /\ ctl[l].op = "scratch" /\ ctl[l].pc \in {"reloc", "relocPatch"} => In(dev, ctl[l].arg)
      /\ ctl[l].op \in {"clone", "assign"} => Nowhere(dev)
  BY <1>1 DEF SuppliedOK
<1>3. \A i \in 1 .. Len(q) : dev'[OwnBuf(l, q[i])] = dev[OwnBuf(l, q[i])]
  BY <1>2
<1>4. /\ Nowhere(dev) => Nowhere(dev')
      /\ \A a : In(dev, a) => In(dev', a)
  BY <1>3
<1>5. /\ Owned(infer'[l])
      /\ Nowhere(dev') \/ \E a \in ScratchSets : In(dev', a)
      /\ ctl'[l].op = "scratch" /\ ctl'[l].pc \in {"reloc", "relocPatch"} => In(dev', ctl'[l].arg)
      /\ ctl'[l].op \in {"clone", "assign"} => Nowhere(dev')
  <2>1. Owned(infer'[l])
    BY <1>2
  <2> HIDE DEF Nowhere, In, Owned
  <2> QED
    BY <1>2, <1>4, <2>1
<1>6. mbr'[l].scratch = q
  BY <1>1
<1> QED
  BY <1>5, <1>6 DEF SuppliedOK

\* A copy's scratch sections are buffers of its own, without memory.
LEMMA SuppliedCopy ==
  ASSUME TypeOK, EntryInv, SuppliedInv, NEW l \in Loaders, NEW m \in Loaders, NEW o, NEW t, CopyInto(l, m, o, t)
  PROVE  /\ SuppliedOK(l)'
         /\ \A i \in 1 .. Len(mbr'[l].scratch) : LET s == mbr'[l].scratch[i] IN
               dev'[infer'[l][s].buf] = NullAddr
<1> DEFINE q == mbr[m].scratch
<1>1. /\ mbr'[l].scratch = q /\ q \in Seq(SecIdx) /\ ctl'[l].pc = "reload"
      /\ \A s \in SecIdx : infer[m][s].has => infer'[l][s] = CopiedEntry(l, s, infer[m][s])
  <2>1. /\ ctl'[l] = At("reload", o, 0, Reloaded(infer'[l]), NoArg) /\ mbr'[l].scratch = mbr[m].scratch
        /\ \A s \in SecIdx : infer[m][s].has => infer'[l][s] = CopiedEntry(l, s, infer[m][s])
    BY CopyEntries
  <2>2. mbr[m].scratch \in Seq(SecIdx)
    BY DEF TypeOK, Members
  <2> QED
    BY <2>1, <2>2 DEF At
<1>2. ASSUME NEW i \in 1 .. Len(q)
      PROVE  /\ infer'[l][q[i]].has /\ infer'[l][q[i]].buf = OwnBuf(l, q[i])
             /\ dev'[OwnBuf(l, q[i])] = NullAddr
  <2>1. PICK s \in SecIdx : s = q[i]
    BY <1>1
  <2>2. PICK e \in Entry : e = infer[m][s]
    BY DEF TypeOK
  <2>3. e.has /\ e.buf = OwnBuf(m, s) /\ EntryOK(m, s, e)
    BY <2>1, <2>2 DEF SuppliedInv, SuppliedOK, EntryInv
  <2>4. ~e.isShared
    BY <2>3 DEF EntryOK
  <2>5. infer'[l][s] = CopiedEntry(l, s, e)
    BY <1>1, <2>2, <2>3
  <2>6. infer'[l][s].has /\ infer'[l][s].buf = OwnBuf(l, s)
    BY <2>3, <2>4, <2>5 DEF CopiedEntry, Entry
  <2>7. OwnBuf(l, s) \in {OwnBuf(l, mbr[m].scratch[j]) : j \in DOMAIN mbr[m].scratch} /\ OwnBuf(l, s) \in BufIds
    BY <1>1, <2>1, BufTypes
  <2>8. dev'[OwnBuf(l, s)] = NullAddr
    BY <2>7 DEF CopyInto
  <2> QED
    BY <2>1, <2>6, <2>8
<1> QED
  BY <1>1, <1>2 DEF SuppliedOK

\* The loader that takes a step: before it is loaded its scratch sections have no memory
\* (ScratchOK); a scratch update gives it to all of them at once.
LEMMA SuppliedOwn ==
  ASSUME TypeOK, ControlInv, EntryInv, ScratchInv, OpInv, SuppliedInv, ScratchInv', OpInv', NEW l \in Loaders, Step(l)
  PROVE  SuppliedOK(l)'
<1>0. /\ ctl \in [Loaders -> Control] /\ mbr \in [Loaders -> Members] /\ dev \in [BufIds -> Addrs]
      /\ OpOK(ctl[l], mbr[l]) /\ OpOK(ctl'[l], mbr'[l]) /\ SuppliedOK(l) /\ ScratchOK(l)
      /\ ControlOK(ctl[l], mbr[l], infer[l]) /\ \A s \in SecIdx : OwnBuf(l, s) \in BufIds
  BY BufTypes DEF TypeOK, OpInv, SuppliedInv, ScratchInv, ControlInv
<1>1. CASE ~mbr'[l].loaded
  <2>1. ScratchOK(l)'
    BY DEF ScratchInv
  <2>2. \A i \in 1 .. Len(mbr'[l].scratch) : LET s == mbr'[l].scratch[i]  e == infer'[l][s] IN
           e.has /\ e.buf = OwnBuf(l, s) /\ dev'[OwnBuf(l, s)] = NullAddr
    BY <1>1, <2>1 DEF ScratchOK
  <2>3. ctl'[l].op \notin {"scratch", "clone", "assign"}
    BY <1>0, <1>1 DEF OpOK
  <2> QED
    BY <2>2, <2>3 DEF SuppliedOK
<1>2. CASE mbr'[l].loaded /\ LoadStep(l)
  <2>1. BuffersLoaded(l) /\ ctl'[l].op \in {"load", "none"}
    <3>1. ~mbr[l].loaded /\ ctl'[l].op \in {"load", "none"}
      BY <1>0, <1>2, OpLoad DEF OpOK, Idle, At
    <3> QED
      BY <1>2, <3>1, LoadMembers
  <2>2. UNCHANGED <<infer, dev>> /\ mbr'[l].scratch = mbr[l].scratch
    BY <1>0, <2>1 DEF BuffersLoaded, buffers, Members
  <2> QED
    BY <1>0, <2>1, <2>2, SuppliedSame
<1>3. CASE mbr'[l].loaded /\ PatchStep(l) /\ ~ReloadDone(l)
  <2>1. dev' = dev
    BY <1>3 DEF PatchStep, RelocLock, RelocPatch, RelocDone, ReloadLock, ReloadCopy, JitLock, JitPatch, JitDone,
       ReadThrows, buffers
  <2>2. CASE Throw(l)
    <3>1. ctl'[l].op = "none" /\ infer' = infer /\ mbr' = mbr
      BY <1>3, <2>2, ThrowEnds DEF NewMembers, Idle, At
    <3> QED
      BY <1>0, <2>1, <3>1, SuppliedSame
  <2>3. CASE RelocDone(l) \/ JitDone(l)
    <3>1. ctl'[l].op = "none" /\ infer' = infer /\ mbr'[l].scratch = mbr[l].scratch
      BY <1>0, <2>3 DEF RelocDone, JitDone, Idle, At, Members
    <3> QED
      BY <1>0, <2>1, <3>1, SuppliedSame
  <2>4. CASE Moves(l)
    <3>1. ~(ctl[l].pc = "reload" /\ ctl'[l].pc = "reloc")
      <4>1. PICK c \in Control : c = ctl[l]
        BY <1>0
      <4>2. ctl[l].pc = "reload" => ctl'[l] \in {Idle, Absent} \/ \E s \in SecIdx : ctl'[l] = Holding(c, s)
        BY <1>0, <1>3, <4>1, ThrowEnds DEF PatchStep, RelocLock, RelocPatch, RelocDone, ReloadLock, ReloadCopy, JitLock,
           JitPatch, JitDone, ReadThrows
      <4> QED
        BY <4>2, ReloadFields DEF Idle, Absent, At
    <3>2. /\ infer' = infer /\ mbr' = mbr /\ ctl'[l].op = ctl[l].op /\ ctl'[l].arg = ctl[l].arg
          /\ ctl'[l].pc \in {"reloc", "relocPatch"} => ctl[l].pc \in {"reloc", "relocPatch"}
      BY <2>4, <3>1 DEF Moves
    <3> QED
      BY <1>0, <2>1, <3>2, SuppliedSame
  <2> QED
    BY <1>3, <2>2, <2>3, <2>4, PatchMoves
<1>4. CASE mbr'[l].loaded /\ ReloadDone(l)
  <2>1. PICK c \in Control : c = ctl[l]
    BY <1>0
  <2>2. /\ ctl'[l] = MoveTo(c, "reloc", 1) /\ infer' = infer /\ mbr' = mbr
        /\ dev' = [b \in BufIds |-> IF b \in ResetBufs(l) THEN <<c.arg, b[2]>> ELSE dev[b]]
    BY <1>0, <1>4, <2>1 DEF ReloadDone
  <2>3. ctl'[l].op = c.op /\ ctl'[l].arg = c.arg /\ ctl'[l].pc = "reloc"
    BY <2>2 DEF MoveTo, Control
  <2>4. CASE c.op # "scratch"
    <3>1. ResetBufs(l) = {}
      BY <2>1, <2>4 DEF ResetBufs
    <3>2. \A s \in SecIdx : dev'[OwnBuf(l, s)] = dev[OwnBuf(l, s)]
      BY <1>0, <2>2, <3>1
    <3> QED
      BY <1>0, <2>1, <2>2, <2>3, <2>4, <3>2, SuppliedSame
  <2>5. CASE c.op = "scratch"
    <3> DEFINE q == mbr[l].scratch
    <3>1. q \in Seq(SecIdx) /\ c.arg \in ScratchSets
      BY <1>0, <2>1, <2>5 DEF Members, ControlOK
    <3>2. \A i \in 1 .. Len(q) : OwnBuf(l, q[i]) \in ResetBufs(l) /\ OwnBuf(l, q[i]) \in BufIds /\ OwnBuf(l, q[i])[2] = q[i]
      BY <1>0, <2>1, <2>5, <3>1 DEF ResetBufs, OwnBuf
    <3>3. \A i \in 1 .. Len(q) : dev'[OwnBuf(l, q[i])] = <<c.arg, q[i]>>
      BY <2>2, <3>2
    <3>4. \A i \in 1 .. Len(q) : infer[l][q[i]].has /\ infer[l][q[i]].buf = OwnBuf(l, q[i])
      BY <1>0 DEF SuppliedOK
    <3>5. PICK a : a = c.arg
      OBVIOUS
    <3>6. mbr'[l].scratch = q /\ infer' = infer /\ ctl'[l].op = "scratch" /\ ctl'[l].arg = a
      BY <2>2, <2>3, <2>5, <3>5
    <3>7. a \in ScratchSets /\ \A i \in 1 .. Len(q) : dev'[OwnBuf(l, q[i])] = <<a, q[i]>>
      BY <3>1, <3>3, <3>5
    <3> HIDE DEF q
    <3> QED
      BY <3>4, <3>6, <3>7, Zenon DEF SuppliedOK, OwnBuf
  <2> QED
    BY <2>4, <2>5
<1>5. CASE mbr'[l].loaded /\ ClientStep(l)
  <2>1. CASE \E m \in Loaders, o \in {"clone", "assign"} : \E t : CopySource(m) /\ CopyInto(l, m, o, t)
    BY <2>1, SuppliedCopy
  <2>2. CASE (\E a \in ScratchSets : UpdateSharedScratchBuffers(l, a)) \/ \E u \in UserIO : ApplyJitRelocations(l, u)
    <3>1. UNCHANGED <<infer, mbr, dev>> /\ ctl'[l].pc \in {"reload", "jit"} /\ ctl'[l].op \in {"scratch", "jit"}
      BY <1>0, <2>2 DEF UpdateSharedScratchBuffers, ApplyJitRelocations, buffers, At
    <3> QED
      BY <1>0, <3>1, SuppliedSame
  <2>3. CASE Destroy(l)
    BY <1>0, <1>5, <2>3 DEF Destroy, Release, NewMembers
  <2>4. CASE Construct(l) \/ (\E b \in BOOLEAN : SetInferencesMayBeRunInParallel(l, b))
    <3>1. UNCHANGED <<infer, dev>> /\ mbr'[l].scratch = mbr[l].scratch /\ ctl'[l].op = "none"
      <4>1. ASSUME NEW b \in BOOLEAN, SetInferencesMayBeRunInParallel(l, b)
            PROVE  mbr'[l].scratch = mbr[l].scratch /\ ctl' = ctl /\ ctl[l].pc = "idle"
        BY <1>0, <4>1 DEF SetInferencesMayBeRunInParallel, Members
      <4>2. ASSUME Construct(l) PROVE mbr'[l].scratch = mbr[l].scratch /\ ctl'[l].op = "none"
        BY <1>0, <4>2 DEF Construct, Idle, At
      <4>3. UNCHANGED <<infer, dev>>
        BY <2>4 DEF SetInferencesMayBeRunInParallel, Construct, buffers
      <4> QED
        BY <1>0, <2>4, <4>1, <4>2, <4>3 DEF OpOK
    <3> QED
      BY <1>0, <3>1, SuppliedSame
  <2>5. ASSUME NEW t \in SymTabs, StartLoad(l, t) PROVE ~mbr'[l].loaded
    BY <1>0, <2>5 DEF StartLoad, Members
  <2> QED
    BY <1>5, <2>1, <2>2, <2>3, <2>4, <2>5 DEF ClientStep, Clone, Assign
<1> QED
  BY <1>1, <1>2, <1>3, <1>4, <1>5 DEF Step

\* The other loaders.
LEMMA SuppliedOther ==
  ASSUME TypeOK, LockIInv, SuppliedInv, NEW l \in Loaders, Step(l), NEW k \in Loaders, k # l
  PROVE  SuppliedOK(k)'
<1>0. /\ SuppliedOK(k) /\ ctl'[k] = ctl[k] /\ infer'[k] = infer[k] /\ mbr'[k] = mbr[k]
      /\ SharingIInv /\ ProcessedInv /\ AbsentInv
  BY StepFrame DEF SuppliedInv, Frame, LockIInv
<1>1. CASE Present(k)
  <2>1. \A s \in SecIdx : dev'[infer'[k][s].buf] = dev[infer[k][s].buf]
    BY <1>0, <1>1, ImageKept DEF Image
  <2> QED
    BY <1>0, <2>1, SuppliedSame
<1>2. CASE ~Present(k)
  <2>1. mbr'[k].scratch = << >>
    BY <1>0, <1>2 DEF AbsentInv, AbsentOK, NewMembers
  <2> QED
    BY <2>1 DEF SuppliedOK
<1> QED
  BY <1>1, <1>2

-----------------------------------------------------------------------------
(* VPUXLoader implements LinkedImages *)

\* A value of LinkedImages, x being the user buffers or that the image is broken.
Val(st, o, t, x, s) ==
    [status |-> st, op |-> o, tab |-> t, io |-> AsUser(x), scratch |-> s,
     sound |-> x # Broken, linked |-> st = "loaded" /\ x # Broken /\ s # "missing"]

\* What ValueOf reads off a loader, case by case.
ValueOK(l) ==
    LET c == ctl[l]  t == mbr[l].symTab IN
    /\ c.pc = "absent" => ValueOf(l) = Plain
    /\ c.pc = "idle" /\ ~mbr[l].loaded => ValueOf(l) = Val("made", "none", NoArg, NoIO, "own")
    /\ c.pc = "idle" /\ mbr[l].loaded => ValueOf(l) = Val("loaded", "none", t, io[l], ScratchOf(l))
    /\ c.op = "load" => ValueOf(l) = Val("busy", "load", t, NoIO, "own")
    /\ c.op \in {"clone", "assign"} => ValueOf(l) = Val("busy", "copy", t, NoIO, ScratchOf(l))
    /\ c.op = "scratch" => ValueOf(l) = Val("busy", "scratch", t, NoIO, c.arg)
    /\ c.op = "jit" =>
          ValueOf(l) = Val("busy", "jit", t, IF io[l] = Broken THEN Broken ELSE c.arg, ScratchOf(l))

\* The names of the places of scratch sections are told apart by whether there are any,
\* and whether they have memory.
ScratchPlace(l) ==
    /\ ScratchOf(l) = "own" <=> mbr[l].scratch = << >>
    /\ ScratchOf(l) = "missing" <=> ~ScratchReady(l)
    /\ ScratchOf(l) \in ScratchSets \cup {"own", "missing"}
    /\ ctl[l].op \in {"clone", "assign"} => ScratchOf(l) = IF mbr[l].scratch = << >> THEN "own" ELSE "missing"
    /\ ctl[l].op = "scratch" /\ ctl[l].pc \in {"reloc", "relocPatch"} => ScratchOf(l) = ctl[l].arg

\* ScratchOf reads the place of the scratch sections that SuppliedOK says they have.
LEMMA ScratchPlaces ==
  ASSUME TypeOK, ControlInv, NEW l \in Loaders, OpOK(ctl[l], mbr[l]), SuppliedOK(l)
  PROVE  ScratchPlace(l)
<1>1. PICK q \in Seq(SecIdx) : q = mbr[l].scratch
  BY DEF TypeOK, Members
<1> DEFINE In(a) == \A i \in 1 .. Len(q) : dev[OwnBuf(l, q[i])] = <<a, q[i]>>
           Nowhere == \A i \in 1 .. Len(q) : dev[OwnBuf(l, q[i])] = NullAddr
           updating == ctl[l].op = "scratch" /\ ctl[l].pc \in {"reloc", "relocPatch"}
           copying == ctl[l].op \in {"clone", "assign"}
<1>2. /\ \A i \in 1 .. Len(q) : infer[l][q[i]].buf = OwnBuf(l, q[i])
      /\ Nowhere \/ \E a \in ScratchSets : In(a)
      /\ updating => In(ctl[l].arg)
      /\ copying => Nowhere
  BY <1>1 DEF SuppliedOK
<1>3. ScratchReady(l) <=> \A i \in 1 .. Len(q) : dev[OwnBuf(l, q[i])] # NullAddr
  BY <1>1, <1>2 DEF ScratchReady
<1>4. CASE q = << >>
  <2>1. ScratchReady(l) /\ mbr[l].scratch = << >> /\ ScratchOf(l) = "own"
    BY <1>1, <1>3, <1>4 DEF ScratchOf
  <2> QED
    BY <2>1 DEF ScratchPlace, OpOK
<1>5. CASE q # << >>
  <2>0. 1 \in 1 .. Len(q) /\ mbr[l].scratch # << >>
    BY <1>1, <1>5
  <2>1. CASE Nowhere
    <3>1. ~ScratchReady(l)
      BY <1>3, <2>0, <2>1
    <3>2. ScratchOf(l) = "missing"
      BY <2>0, <3>1 DEF ScratchOf
    <3>3. ~updating
      <4>1. updating => dev[OwnBuf(l, q[1])] = <<ctl[l].arg, q[1]>>
        BY <1>2, <2>0
      <4>2. dev[OwnBuf(l, q[1])] = <<"null", 0>>
        BY <2>0, <2>1 DEF NullAddr
      <4>3. updating => ctl[l].arg \in ScratchSets
        BY DEF ControlInv, ControlOK
      <4> QED
        BY <4>1, <4>2, <4>3, NamesAssumption DEF Tags
    <3> HIDE DEF updating
    <3> QED
      BY <2>0, <3>1, <3>2, <3>3 DEF ScratchPlace, updating
  <2>2. ASSUME NEW a \in ScratchSets, In(a)
        PROVE  ScratchPlace(l)
    <3>1. \A i \in 1 .. Len(q) : dev[OwnBuf(l, q[i])] # NullAddr
      BY <2>2, NamesAssumption DEF NullAddr, Tags
    <3>2. infer[l][q[1]].buf = OwnBuf(l, q[1])
      BY <1>2, <2>0
    <3>3. dev[OwnBuf(l, q[1])] = <<a, q[1]>>
      BY <2>0, <2>2
    <3>4. dev[infer[l][q[1]].buf][1] = a
      <4>1. <<a, q[1]>>[1] = a
        OBVIOUS
      <4> QED
        BY <3>2, <3>3, <4>1
    <3>5. ScratchReady(l)
      BY <1>3, <3>1
    <3>6. ScratchOf(l) = a
      BY <1>1, <2>0, <3>4, <3>5 DEF ScratchOf
    <3>7. a # "own" /\ a # "missing"
      BY ScratchNamesAssumption
    <3>8. ~copying
      BY <1>2, <2>0, <3>1
    <3>9. updating => ctl[l].arg = a
      <4>1. updating => dev[OwnBuf(l, q[1])] = <<ctl[l].arg, q[1]>>
        BY <1>2, <2>0
      <4> QED
        BY <3>3, <4>1
    <3> QED
      BY <2>0, <3>5, <3>6, <3>7, <3>8, <3>9 DEF ScratchPlace
  <2> QED
    BY <1>2, <2>1, <2>2
<1> QED
  BY <1>4, <1>5

\* Each case of ValueOf, between calls with what ImageCorrect promises of the image.
LEMMA ValueCases ==
  ASSUME TypeOK, ControlInv, OpInv, SuppliedInv, ImageCorrect, NEW l \in Loaders
  PROVE  ValueOK(l) /\ ScratchPlace(l)
<1>1. OpOK(ctl[l], mbr[l]) /\ ScratchPlace(l)
  BY ScratchPlaces DEF OpInv, SuppliedInv
<1>2. ctl[l].pc = "idle" /\ mbr[l].loaded /\ io[l] # Broken /\ ScratchReady(l) => ImageLinked(l)
  BY DEF ImageCorrect, ImageLinked
<1>3. (ScratchOf(l) # "missing") <=> ScratchReady(l)
  BY <1>1 DEF ScratchPlace
<1>4. /\ AsUser(NoIO) = NoIO /\ NoIO # Broken /\ AsUser(Broken) = NoIO
      /\ \A u \in UserIO : AsUser(u) = u /\ u # Broken
  BY HistoryAssumption DEF AsUser, NoIO, Broken
<1>5. ctl[l].pc \in {"jit", "jitPatch"} => ctl[l].arg \in UserIO
  BY DEF ControlInv, ControlOK
<1>6. CASE ctl[l].pc = "absent"
  BY <1>1, <1>6 DEF OpOK, ValueOK, ValueOf
<1>7. CASE ctl[l].pc = "idle" /\ ~mbr[l].loaded
  BY <1>1, <1>4, <1>7 DEF OpOK, ValueOK, ValueOf, Val, Plain
<1>8. CASE ctl[l].pc = "idle" /\ mbr[l].loaded
  BY <1>1, <1>2, <1>3, <1>8 DEF OpOK, ValueOK, ValueOf, Val
<1>9. CASE ctl[l].op \in {"load", "scratch", "clone", "assign"} /\ ctl[l].pc \notin {"absent", "idle"}
  <2>1. CASE ctl[l].op = "load"
    BY <1>1, <1>4, <1>9, <2>1 DEF OpOK, ValueOK, ValueOf, Val, Plain
  <2>2. CASE ctl[l].op = "scratch"
    BY <1>1, <1>4, <1>9, <2>2 DEF OpOK, ValueOK, ValueOf, Val, Plain
  <2>3. CASE ctl[l].op \in {"clone", "assign"}
    BY <1>1, <1>4, <1>9, <2>3 DEF OpOK, ValueOK, ValueOf, Val, Plain
  <2> QED
    BY <1>9, <2>1, <2>2, <2>3
<1>10. CASE ctl[l].op = "jit" /\ ctl[l].pc \notin {"absent", "idle"}
  <2>1. CASE io[l] = Broken
    BY <1>1, <1>4, <1>10, <2>1 DEF OpOK, ValueOK, ValueOf, Val, Plain
  <2>2. CASE io[l] # Broken
    <3>1. AsUser(ctl[l].arg) = ctl[l].arg /\ ctl[l].arg # Broken
      <4>1. ctl[l].pc \in Pcs
        BY DEF TypeOK, Control
      <4> QED
        BY <1>1, <1>4, <1>5, <1>10, <4>1 DEF OpOK, Pcs
    <3>2. ValueOf(l) = Val("busy", "jit", mbr[l].symTab, ctl[l].arg, ScratchOf(l))
      BY <1>10, <2>2, <3>1 DEF ValueOf, Val, Plain
    <3> QED
      BY <1>1, <1>10, <2>2, <3>2 DEF OpOK, ValueOK
  <2> QED
    BY <2>1, <2>2
<1> QED
  BY <1>1, <1>6, <1>7, <1>8, <1>9, <1>10 DEF OpOK, ValueOK

\* The others keep their values: the step changes one.
LEMMA Becomes ==
  ASSUME NEW l \in Loaders, \A k \in Loaders : k # l => ValueOf(k)' = ValueOf(k)
  PROVE  \A v : ValueOf(l)' = v => Abstract!Become(l, v)
BY DEF Abstract!Become

\* The values of all loaders, before a step and after it.
Readable == \A l \in Loaders : ValueOK(l) /\ ScratchPlace(l)

\* The invariants make every value readable, before a step and after it.
LEMMA ValuesReadable == TypeOK /\ LockIInv /\ ImageIInv /\ OpInv /\ SuppliedInv => Readable
BY ValueCases, StageCorrect DEF Readable, LockIInv, SharingIInv, ImageIInv

\* The same of the next state.
LEMMA ValuesReadableNext ==
  ASSUME TypeOK', LockIInv', ImageIInv', OpInv', SuppliedInv'
  PROVE  Readable'
BY ValuesReadable, PTL

\* The value of a loader stays when another one takes a step.
LEMMA ValueSame ==
  ASSUME TypeOK, LockIInv, NEW l \in Loaders, Step(l), NEW k \in Loaders, k # l
  PROVE  ValueOf(k)' = ValueOf(k)
<1>0. /\ ctl'[k] = ctl[k] /\ infer'[k] = infer[k] /\ mbr'[k] = mbr[k] /\ io'[k] = io[k] /\ elf' = elf
      /\ SharingIInv /\ ProcessedInv
  BY StepFrame, BackupFrame DEF Frame, LockIInv
<1>1. CASE ~Present(k)
  BY <1>0, <1>1 DEF Present, ValueOf
<1>2. CASE Present(k)
  <2>1. \A s \in SecIdx : /\ mem'[infer'[k][s].buf] = mem[infer[k][s].buf]
                          /\ dev'[infer'[k][s].buf] = dev[infer[k][s].buf]
    BY <1>0, <1>2, ImageKept DEF Image
  <2>2. PICK q \in Seq(SecIdx) : q = mbr[k].scratch
    BY DEF TypeOK, Members
  <2>3. \A i \in 1 .. Len(q) : q[i] \in SecIdx
    BY <2>2
  <2>4. ScratchReady(k)' <=> ScratchReady(k)
    BY <1>0, <2>1, <2>2, <2>3 DEF ScratchReady
  <2>5. ScratchOf(k)' = ScratchOf(k)
    <3>1. q # << >> => 1 \in 1 .. Len(q)
      BY <2>2
    <3>2. q # << >> => dev'[infer'[k][q[1]].buf] = dev[infer[k][q[1]].buf]
      BY <2>1, <2>3, <3>1
    <3> QED
      BY <1>0, <2>2, <2>4, <3>2 DEF ScratchOf
  <2>6. \A r \in SecIdx : SymValue(k, r)' = SymValue(k, r)
    <3>1. \A r \in SecIdx : elf[r].sym \in SecIdx
      BY HeaderTypes
    <3> QED
      BY <1>0, <2>1, <3>1, SymValueSame
  <2>7. \A s, r \in SecIdx : Expected(k, s, r)' = Expected(k, s, r)
    BY <1>0, <2>6 DEF Expected, IsRela
  <2>8. ImageLinked(k)' <=> ImageLinked(k)
    BY <1>0, <2>1, <2>7 DEF ImageLinked
  <2> QED
    BY <1>0, <2>4, <2>5, <2>8 DEF ValueOf
<1> QED
  BY <1>1, <1>2

\* What the operators of LinkedImages do to a value.
LEMMA AbstractStart ==
  /\ Abstract!Nobody = Plain /\ Plain = Val("absent", "none", NoArg, NoIO, "own")
  /\ Abstract!Made = Val("made", "none", NoArg, NoIO, "own")
<1>0. AsUser(NoIO) = NoIO /\ NoIO # Broken
  BY DEF AsUser, NoIO, Broken
<1>1. Plain = Val("absent", "none", NoArg, NoIO, "own")
  BY <1>0 DEF Plain, Val
<1>2. Abstract!Nobody = Val("absent", "none", NoArg, NoIO, "own")
  BY <1>0 DEF Abstract!Nobody, Abstract!Own, Val
<1>3. ASSUME NEW w, w = Abstract!Made PROVE w = Val("made", "none", NoArg, NoIO, "own")
  BY <1>0, <1>3 DEF Abstract!Made, Abstract!Nobody, Abstract!Own, Val
<1> QED
  BY <1>1, <1>2, <1>3

\* The fields of a value.
LEMMA ValFields ==
  ASSUME NEW st, NEW o, NEW t, NEW x, NEW s, NEW v, v = Val(st, o, t, x, s)
  PROVE  v.status = st /\ v.op = o /\ v.tab = t /\ v.io = AsUser(x) /\ v.scratch = s /\ (v.sound <=> x # Broken)
BY DEF Val

\* A call that returns leaves the user buffers as the call left them.
LEMMA ReturnedValue ==
  ASSUME NEW o, NEW t, NEW x, NEW s, NEW v, v = Val("busy", o, t, x, s), NEW z
  PROVE  Abstract!Returned(v, z) = Val("loaded", "none", t, x, z)
<1> SUFFICES ASSUME NEW w, w = Abstract!Returned(v, z)
             PROVE  w = Val("loaded", "none", t, x, z)
  OBVIOUS
<1> QED
  BY DEF Abstract!Returned, Abstract!Missing, Val

\* A call that throws leaves a value without user buffers, and not linked.
LEMMA UnsoundValue ==
  ASSUME NEW o, NEW t, NEW x, NEW s, NEW v, v = Val("busy", o, t, x, s)
  PROVE  Abstract!Unsound(v) = Val("loaded", "none", t, Broken, s)
<1>1. AsUser(Broken) = NoIO
  BY DEF AsUser
<1> SUFFICES ASSUME NEW w, w = Abstract!Unsound(v) PROVE w = Val("loaded", "none", t, Broken, s)
  OBVIOUS
<1> QED
  BY <1>1 DEF Abstract!Unsound, Val

\* A call that returns.
LEMMA Returns ==
  ASSUME NEW l \in Loaders, \A k \in Loaders : k # l => ValueOf(k)' = ValueOf(k),
         NEW o, NEW t, NEW x, NEW s, NEW z,
         (o = "load" /\ z \in {"own", "missing"}) \/ (o # "load" /\ z = s),
         ValueOf(l) = Val("busy", o, t, x, s),
         ValueOf(l)' = Val("loaded", "none", t, x, z)
  PROVE  Abstract!Return(l)
<1>1. PICK v : v = ValueOf(l)
  OBVIOUS
<1>2. v.status = "busy" /\ v.op = o /\ v.scratch = s
  BY <1>1, ValFields
<1>3. Abstract!Become(l, Abstract!Returned(v, z))
  BY <1>1, ReturnedValue, Becomes
<1>4. [k \in Loaders |-> ValueOf(k)][l] = v
  BY <1>1
<1> QED
  BY <1>2, <1>3, <1>4 DEF Abstract!Return, Abstract!Own, Abstract!Missing

\* A call that throws: load() leaves the loader as it was made, a copy construction
\* leaves nothing, and any other call leaves an image that is unsound.
LEMMA Fails ==
  ASSUME NEW l \in Loaders, \A k \in Loaders : k # l => ValueOf(k)' = ValueOf(k),
         NEW o, NEW t, NEW x, NEW s,
         ValueOf(l) = Val("busy", o, t, x, s),
         \/ o = "load" /\ ValueOf(l)' = Val("made", "none", NoArg, NoIO, "own")
         \/ o = "copy" /\ ValueOf(l)' = Plain
         \/ o # "load" /\ ValueOf(l)' = Val("loaded", "none", t, Broken, s)
  PROVE  Abstract!Fail(l)
<1>1. PICK v : v = ValueOf(l)
  OBVIOUS
<1>2. v.status = "busy" /\ v.op = o
  BY <1>1, ValFields
<1>3. \/ o = "load" /\ Abstract!Become(l, Abstract!Made)
      \/ o = "copy" /\ Abstract!Become(l, Abstract!Nobody)
      \/ o # "load" /\ Abstract!Become(l, Abstract!Unsound(v))
  BY <1>1, UnsoundValue, Becomes, AbstractStart
<1>4. [k \in Loaders |-> ValueOf(k)][l] = v
  BY <1>1
<1> QED
  BY <1>2, <1>3, <1>4 DEF Abstract!Fail

\* The steps of load(): the loop over its sections is no step of LinkedImages.
LEMMA RefineLoad ==
  ASSUME TypeOK, LockIInv, OpInv, ScratchInv, Readable, Readable', NEW l \in Loaders, LoadStep(l)
  PROVE  ValueOf(l)' = ValueOf(l) \/ Abstract!Return(l) \/ Abstract!Fail(l)
<1>0. /\ \A k \in Loaders : k # l => ValueOf(k)' = ValueOf(k)
      /\ OpOK(ctl[l], mbr[l]) /\ ValueOK(l) /\ ValueOK(l)' /\ ScratchPlace(l)'
  BY ValueSame DEF OpInv, Readable, Step
<1>1. /\ ctl[l].op = "load" /\ (ctl'[l].op = "load" \/ ctl'[l] = Idle)
      /\ mbr'[l].symTab = mbr[l].symTab
      /\ ~BuffersLoaded(l) => mbr'[l].loaded = mbr[l].loaded
  BY OpLoad, LoadMembers
<1>2. PICK t : t = mbr[l].symTab
  OBVIOUS
<1>3. ValueOf(l) = Val("busy", "load", t, NoIO, "own") /\ ~mbr[l].loaded
  BY <1>0, <1>1, <1>2 DEF ValueOK, OpOK
<1>4. CASE ctl'[l].op = "load"
  BY <1>0, <1>1, <1>2, <1>3, <1>4 DEF ValueOK
<1>5. CASE ctl'[l] = Idle /\ ~mbr'[l].loaded
  <2>1. ValueOf(l)' = Val("made", "none", NoArg, NoIO, "own")
    BY <1>0, <1>5 DEF ValueOK, Idle, At
  <2> QED
    BY <1>0, <1>3, <2>1, Fails
<1>6. CASE ctl'[l] = Idle /\ mbr'[l].loaded
  <2>1. BuffersLoaded(l) /\ mbr'[l].scratch = mbr[l].scratch
    BY <1>1, <1>3, <1>6, LoadMembers, LoadPc DEF BuffersLoaded, SectionStep, LoadProgbits, LoadNobits, LoadRela,
       LoadSymtab, LoadOther
  <2>2. io'[l] = NoIO
    <3>1. ~(ctl' = [ctl EXCEPT ![l] = MoveTo(@, "reloc", 1)])
      <4>1. PICK c \in Control : c = ctl[l]
        BY DEF TypeOK
      <4>2. MoveTo(c, "reloc", 1).pc = "reloc" /\ Idle.pc = "idle"
        BY DEF MoveTo, Idle, At, Control
      <4> QED
        BY <1>6, <4>1, <4>2 DEF TypeOK
    <3> QED
      BY <2>1, <3>1 DEF BuffersLoaded, TypeOK
  <2>3. NoIO # Broken /\ AsUser(NoIO) = NoIO
    BY DEF AsUser, NoIO, Broken
  <2>4. PICK z : z = ScratchOf(l)'
    OBVIOUS
  <2>5. ValueOf(l)' = Val("loaded", "none", t, NoIO, z)
    BY <1>0, <1>1, <1>2, <1>6, <2>2, <2>3, <2>4 DEF ValueOK, Idle, At
  <2>6. z \in {"own", "missing"}
    <3>1. mbr'[l].scratch = << >> => z = "own"
      BY <1>0, <2>4 DEF ScratchPlace
    <3>2. mbr'[l].scratch # << >> => ~ScratchReady(l)'
      <4>1. PICK q \in Seq(SecIdx) : q = mbr[l].scratch
        BY DEF TypeOK, Members
      <4>2. q # << >> => 1 \in 1 .. Len(q)
        OBVIOUS
      <4>3. \A i \in 1 .. Len(q) : dev[infer[l][q[i]].buf] = NullAddr
        BY <1>3, <4>1 DEF ScratchInv, ScratchOK
      <4>4. infer' = infer /\ dev' = dev
        BY <2>1 DEF BuffersLoaded, buffers
      <4> QED
        BY <2>1, <4>1, <4>2, <4>3, <4>4 DEF ScratchReady
    <3>3. ~ScratchReady(l)' => z = "missing"
      BY <1>0, <2>4 DEF ScratchPlace
    <3> QED
      BY <3>1, <3>2, <3>3
  <2> QED
    BY <1>0, <1>3, <2>5, <2>6, Returns
<1> QED
  BY <1>1, <1>4, <1>5, <1>6

\* An exception out of relocating leaves the addresses as they were; restoring throws none.
LEMMA ThrowPlaces ==
  ASSUME TypeOK, NEW l \in Loaders, PatchStep(l), Throw(l)
  PROVE  dev' = dev /\ ctl[l].pc \notin {"reload", "reloadCopy", "idle", "absent"}
<1>0. ctl \in [Loaders -> Control]
  BY DEF TypeOK
<1>1. PICK c \in Control : c = ctl[l]
  BY <1>0
<1>2. ctl'[l].pc \in {"idle", "absent"}
  BY <1>0 DEF Throw, Release, Idle, Absent, At
<1>3. CASE \E s \in SecIdx : ReloadLock(l, s)
  <2>1. c.pc = "reload" /\ \E s \in SecIdx : ctl'[l] = Holding(c, s)
    BY <1>0, <1>1, <1>3 DEF ReloadLock
  <2> QED
    BY <1>2, <2>1, ReloadFields
<1>4. CASE ReloadCopy(l) \/ ReloadDone(l)
  <2>1. ctl'[l].pc \in {"reload", "reloc"}
    BY <1>0, <1>1, <1>4 DEF ReloadCopy, ReloadDone, Restored, MoveTo, Control
  <2> QED
    BY <1>2, <2>1
<1>5. CASE RelocLock(l) \/ RelocPatch(l) \/ RelocDone(l) \/ JitLock(l) \/ JitPatch(l) \/ JitDone(l) \/ ReadThrows(l)
  BY <1>5 DEF RelocLock, RelocPatch, RelocDone, JitLock, JitPatch, JitDone, ReadThrows, Reading, AtSection, buffers
<1> QED
  BY <1>3, <1>4, <1>5 DEF PatchStep

\* Where the scratch sections are depends on the members, the entries and the addresses.
LEMMA ScratchStays ==
  ASSUME NEW l \in Loaders, mbr'[l].scratch = mbr[l].scratch, infer'[l] = infer[l], dev' = dev
  PROVE  ScratchOf(l)' = ScratchOf(l)
BY DEF ScratchOf, ScratchReady

\* The steps of restoring and relocating: an exception is a call that fails, the end of
\* a loop is a call that returns, and the loops themselves are no steps of LinkedImages.
LEMMA RefinePatch ==
  ASSUME TypeOK, LockIInv, OpInv, OpInv', Readable, Readable', NEW l \in Loaders, PatchStep(l)
  PROVE  ValueOf(l)' = ValueOf(l) \/ Abstract!Return(l) \/ Abstract!Fail(l)
<1>0. /\ \A k \in Loaders : k # l => ValueOf(k)' = ValueOf(k)
      /\ OpOK(ctl[l], mbr[l]) /\ ValueOK(l) /\ ValueOK(l)' /\ ScratchPlace(l) /\ ScratchPlace(l)'
      /\ ctl \in [Loaders -> Control] /\ mbr \in [Loaders -> Members] /\ io \in [Loaders -> UserIO \cup {NoIO, Broken}]
  BY ValueSame DEF OpInv, Readable, Step, TypeOK
<1>1. PICK t, z, x : t = mbr[l].symTab /\ z = ScratchOf(l) /\ x = (IF io[l] = Broken THEN Broken ELSE ctl[l].arg)
  OBVIOUS
<1>2. /\ ctl[l].op = "load" => ValueOf(l) = Val("busy", "load", t, NoIO, "own")
      /\ ctl[l].op \in {"clone", "assign"} => ValueOf(l) = Val("busy", "copy", t, NoIO, z)
      /\ ctl[l].op = "scratch" => ValueOf(l) = Val("busy", "scratch", t, NoIO, ctl[l].arg)
      /\ ctl[l].op = "jit" => ValueOf(l) = Val("busy", "jit", t, x, z)
  BY <1>0, <1>1 DEF ValueOK
<1>3. ctl[l].op = "scratch" /\ ctl[l].pc \in {"reloc", "relocPatch"} => z = ctl[l].arg
  BY <1>0, <1>1 DEF ScratchPlace
<1>4. ctl[l].pc \in Pcs /\ ctl[l].op \in Ops
  BY <1>0 DEF Control
<1>5. CASE Throw(l)
  <2>1. dev' = dev /\ ctl[l].pc \notin {"reload", "reloadCopy", "idle", "absent"}
    BY <1>5, ThrowPlaces
  <2>2. ctl[l].op = "clone" => Abstract!Fail(l)
    <3>1. ctl[l].op = "clone" => ValueOf(l)' = Plain
      BY <1>0, <1>5, ThrowEnds DEF ValueOK, Absent, At
    <3> QED
      BY <1>0, <1>2, <3>1, Fails
  <2>3. CASE ctl[l].op # "clone"
    <3>1. ctl'[l] = Idle /\ mbr' = mbr /\ infer' = infer /\ io'[l] = Broken
      BY <1>5, <2>3, ThrowEnds
    <3>2. ScratchOf(l)' = z
      BY <1>1, <2>1, <3>1, ScratchStays
    <3>3. /\ mbr[l].loaded => ValueOf(l)' = Val("loaded", "none", t, Broken, z)
          /\ ~mbr[l].loaded => ValueOf(l)' = Val("made", "none", NoArg, NoIO, "own")
      BY <1>0, <1>1, <3>1, <3>2 DEF ValueOK, Idle, At
    <3>4. CASE ctl[l].op = "load"
      <4>1. ~mbr[l].loaded
        BY <1>0, <3>4 DEF OpOK
      <4> QED
        BY <1>0, <1>2, <3>3, <3>4, <4>1, Fails
    <3>5. CASE ctl[l].op \in {"assign", "jit", "scratch"}
      <4>1. mbr[l].loaded /\ (ctl[l].op = "scratch" => ctl[l].pc \in {"reloc", "relocPatch"})
        BY <1>0, <1>4, <2>1, <3>5 DEF OpOK, Pcs
      <4> QED
        BY <1>0, <1>2, <1>3, <3>3, <3>5, <4>1, Fails
    <3>6. ctl[l].op \in {"load", "assign", "jit", "scratch"}
      BY <1>0, <1>4, <2>1, <2>3 DEF OpOK, Ops
    <3> QED
      BY <3>4, <3>5, <3>6
  <2> QED
    BY <2>2, <2>3
<1>6. CASE RelocDone(l)
  <2>1. /\ ctl'[l] = Idle /\ mbr'[l].loaded /\ mbr'[l].symTab = t /\ mbr'[l].scratch = mbr[l].scratch
        /\ infer' = infer /\ dev' = dev /\ io'[l] = NoIO /\ ctl[l].pc = "reloc"
    BY <1>0, <1>1, <1>6 DEF RelocDone, Members, buffers
  <2>2. ScratchOf(l)' = z
    BY <1>1, <2>1, ScratchStays
  <2>3. ValueOf(l)' = Val("loaded", "none", t, NoIO, z)
    BY <1>0, <2>1, <2>2 DEF ValueOK, Idle, At
  <2>4. ctl[l].op = "load" => z = "own"
    BY <1>0, <1>1, <2>1 DEF OpOK, ScratchPlace
  <2>5. ctl[l].op \in {"load", "clone", "assign", "scratch"}
    BY <1>0, <2>1 DEF OpOK
  <2> QED
    BY <1>0, <1>2, <1>3, <2>1, <2>3, <2>4, <2>5, Returns
<1>7. CASE JitDone(l)
  <2>1. ctl'[l] = Idle /\ mbr' = mbr /\ infer' = infer /\ dev' = dev /\ io'[l] = x /\ ctl[l].pc = "jit"
    BY <1>0, <1>1, <1>7 DEF JitDone, buffers
  <2>2. ctl[l].op = "jit" /\ mbr[l].loaded
    BY <1>0, <2>1 DEF OpOK
  <2>3. ScratchOf(l)' = z
    BY <1>1, <2>1, ScratchStays
  <2>4. ValueOf(l)' = Val("loaded", "none", t, x, z)
    BY <1>0, <1>1, <2>1, <2>2, <2>3 DEF ValueOK, Idle, At
  <2> QED
    BY <1>0, <1>2, <2>2, <2>4, Returns
<1>8. CASE Moves(l)
  <2>1. /\ mbr' = mbr /\ infer' = infer /\ io' = io /\ ctl'[l].op = ctl[l].op /\ ctl'[l].arg = ctl[l].arg
        /\ ctl[l].pc \notin {"idle", "absent"}
        /\ ctl[l].pc \in {"jit", "jitPatch"} => dev' = dev
    BY <1>8 DEF Moves
  <2>2. ctl[l].op \in {"load", "clone", "assign", "scratch", "jit"} /\ (ctl[l].op = "jit" => ctl[l].pc \in {"jit", "jitPatch"})
    BY <1>0, <1>4, <2>1 DEF OpOK, Ops, Pcs
  <2>3. ctl[l].op \in {"clone", "assign", "jit"} => ScratchOf(l)' = z
    <3>1. ctl[l].op = "jit" => ScratchOf(l)' = z
      BY <1>1, <2>1, <2>2, ScratchStays
    <3>2. ctl[l].op \in {"clone", "assign"} => ScratchOf(l)' = z
      BY <1>0, <1>1, <2>1 DEF ScratchPlace
    <3> QED
      BY <3>1, <3>2
  <2> QED
    BY <1>0, <1>1, <1>2, <2>1, <2>2, <2>3 DEF ValueOK
<1> QED
  BY <1>5, <1>6, <1>7, <1>8, PatchMoves

\* The calls of LinkedImages begin with the values that the calls of VPUXLoader do.
LEMMA LoadValue ==
  ASSUME NEW t
  PROVE  [Abstract!Begun(Abstract!Made, "load") EXCEPT !.tab = t] = Val("busy", "load", t, NoIO, "own")
<1>1. PICK v : v = Abstract!Made
  OBVIOUS
<1>2. v = Val("made", "none", NoArg, NoIO, "own")
  BY <1>1, AbstractStart
<1>3. ASSUME NEW w, w = [Abstract!Begun(v, "load") EXCEPT !.tab = t] PROVE w = Val("busy", "load", t, NoIO, "own")
  BY <1>2, <1>3 DEF Abstract!Begun, Val
<1> QED
  BY <1>1, <1>3

\* A copy begins without the user buffers and the scratch memory of its source.
LEMMA CopyValue ==
  ASSUME NEW t, NEW z
  PROVE  [Abstract!Begun(Abstract!Nobody, "copy") EXCEPT !.tab = t, !.scratch = z] = Val("busy", "copy", t, NoIO, z)
<1>1. PICK v : v = Abstract!Nobody
  OBVIOUS
<1>2. v = Val("absent", "none", NoArg, NoIO, "own")
  BY <1>1, AbstractStart
<1>3. ASSUME NEW w, w = [Abstract!Begun(v, "copy") EXCEPT !.tab = t, !.scratch = z]
      PROVE  w = Val("busy", "copy", t, NoIO, z)
  BY <1>2, <1>3 DEF Abstract!Begun, Val
<1> QED
  BY <1>1, <1>3

\* An inference begins with its own user buffers, unless the image is broken.
LEMMA InferValue ==
  ASSUME NEW t, NEW x, NEW s, NEW v, v = Val("loaded", "none", t, x, s), NEW u \in UserIO
  PROVE  [Abstract!Begun(v, "jit") EXCEPT !.io = IF v.sound THEN u ELSE NoIO]
            = Val("busy", "jit", t, IF x = Broken THEN Broken ELSE u, s)
<1>1. AsUser(Broken) = NoIO /\ AsUser(u) = u /\ u # Broken
  BY HistoryAssumption DEF AsUser
<1>2. v.sound <=> x # Broken
  BY ValFields
<1>3. CASE x = Broken
  <2>1. ASSUME NEW w, w = [Abstract!Begun(v, "jit") EXCEPT !.io = NoIO]
        PROVE  w = Val("busy", "jit", t, Broken, s)
    BY <1>1, <1>3, <2>1 DEF Abstract!Begun, Val
  <2> QED
    BY <1>2, <1>3, <2>1
<1>4. CASE x # Broken
  <2>1. ASSUME NEW w, w = [Abstract!Begun(v, "jit") EXCEPT !.io = u]
        PROVE  w = Val("busy", "jit", t, u, s)
    BY <1>1, <1>4, <2>1 DEF Abstract!Begun, Val
  <2> QED
    BY <1>2, <1>4, <2>1
<1> QED
  BY <1>3, <1>4

\* The source of a copy, and the loader that the copy is made into.
LEMMA CopiedValue ==
  ASSUME TypeOK, ControlInv, OpInv, Readable, NEW m \in Loaders, CopySource(m)
  PROVE  LET v == ValueOf(m) IN
         /\ v.status = "loaded" \/ (v.status = "busy" /\ v.op \in {"scratch", "jit"})
         /\ v.scratch = "own" <=> mbr[m].scratch = << >>
<1>0. ValueOK(m) /\ ScratchPlace(m) /\ OpOK(ctl[m], mbr[m]) /\ ctl[m].pc \in Pcs
  BY DEF Readable, OpInv, TypeOK, Control
<1>1. PICK t, z, x : t = mbr[m].symTab /\ z = ScratchOf(m) /\ x = (IF io[m] = Broken THEN Broken ELSE ctl[m].arg)
  OBVIOUS
<1>2. z = "own" <=> mbr[m].scratch = << >>
  BY <1>0, <1>1 DEF ScratchPlace
<1>3. CASE ctl[m].op = "none"
  <2>1. ValueOf(m) = Val("loaded", "none", t, io[m], z)
    BY <1>0, <1>1, <1>3 DEF ValueOK, OpOK, CopySource
  <2> QED
    BY <1>2, <2>1, ValFields
<1>4. CASE ctl[m].op = "jit"
  <2>1. ValueOf(m) = Val("busy", "jit", t, x, z)
    BY <1>0, <1>1, <1>4 DEF ValueOK
  <2> QED
    BY <1>2, <2>1, ValFields
<1>5. CASE ctl[m].op = "scratch"
  <2>1. ValueOf(m) = Val("busy", "scratch", t, NoIO, ctl[m].arg)
    BY <1>0, <1>1, <1>5 DEF ValueOK
  <2>2. ctl[m].arg # "own" /\ mbr[m].scratch # << >>
    BY <1>0, <1>5, ScratchNamesAssumption DEF ControlInv, ControlOK, OpOK
  <2> QED
    BY <2>1, <2>2, ValFields
<1> QED
  BY <1>3, <1>4, <1>5 DEF CopySource

\* Copy construction and assignment are the calls of Copy.
LEMMA RefineCopy ==
  ASSUME TypeOK, LockIInv, OpInv, Readable, Readable', NEW l \in Loaders, NEW m \in Loaders, NEW t,
         NEW o \in {"clone", "assign"}, CopySource(m), CopyInto(l, m, o, t),
         ctl[l].pc = "absent" \/ (l # m /\ ctl[l].pc = "idle"),
         \A k \in Loaders : k # l => ValueOf(k)' = ValueOf(k)
  PROVE  Abstract!Copy(l, m, t)
<1>0. /\ ValueOK(l) /\ ValueOK(l)' /\ ScratchPlace(l)' /\ ctl \in [Loaders -> Control] /\ mbr \in [Loaders -> Members]
      /\ ControlInv /\ AloneInv
  BY DEF Readable, TypeOK, LockIInv, SharingIInv
<1>1. l # m
  BY DEF CopySource
<1>2. ValueOf(l).status \in {"absent", "loaded"}
  <2>1. CASE ctl[l].pc = "absent"
    <3>1. ValueOf(l) = Val("absent", "none", NoArg, NoIO, "own")
      BY <1>0, <2>1, AbstractStart DEF ValueOK
    <3> QED
      BY <3>1, ValFields
  <2>2. CASE ctl[l].pc = "idle"
    <3>1. mbr[l].loaded
      BY <1>0, <1>1, <2>2 DEF AloneInv, Present, CopySource
    <3>2. ValueOf(l) = Val("loaded", "none", mbr[l].symTab, io[l], ScratchOf(l))
      BY <1>0, <2>2, <3>1 DEF ValueOK
    <3> QED
      BY <3>2, ValFields
  <2> QED
    BY <2>1, <2>2
<1>3. mbr'[l].scratch = mbr[m].scratch /\ mbr'[l].symTab = t /\ ctl'[l].op = o
  BY <1>0 DEF CopyInto, Members, At
<1>4. PICK v, z : v = ValueOf(m) /\ z = (IF v.scratch = "own" THEN "own" ELSE "missing")
  OBVIOUS
<1>5. /\ v.status = "loaded" \/ (v.status = "busy" /\ v.op \in {"scratch", "jit"})
      /\ v.scratch = "own" <=> mbr[m].scratch = << >>
  BY <1>0, <1>4, CopiedValue
<1>6. ScratchOf(l)' = z
  BY <1>0, <1>3, <1>4, <1>5 DEF ScratchPlace
<1>7. ValueOf(l)' = Val("busy", "copy", t, NoIO, z)
  BY <1>0, <1>3, <1>6 DEF ValueOK
<1>8. Abstract!Become(l, [Abstract!Begun(Abstract!Nobody, "copy") EXCEPT !.tab = t, !.scratch = z])
  BY <1>7, CopyValue, Becomes
<1>9. /\ [k \in Loaders |-> ValueOf(k)][m] = v /\ [k \in Loaders |-> ValueOf(k)][l] = ValueOf(l)
  BY <1>4
<1> QED
  BY <1>1, <1>2, <1>4, <1>5, <1>8, <1>9 DEF Abstract!Copy, Abstract!Own, Abstract!Missing

\* The calls that the client makes are the calls of LinkedImages.
LEMMA RefineClient ==
  ASSUME TypeOK, LockIInv, OpInv, OpInv', Readable, Readable', NEW l \in Loaders, ClientStep(l)
  PROVE  ValueOf(l)' = ValueOf(l) \/ Abstract!Next
<1>0. /\ \A k \in Loaders : k # l => ValueOf(k)' = ValueOf(k)
      /\ OpOK(ctl[l], mbr[l]) /\ ValueOK(l) /\ ValueOK(l)' /\ ScratchPlace(l) /\ ScratchPlace(l)'
      /\ ctl \in [Loaders -> Control] /\ mbr \in [Loaders -> Members] /\ io \in [Loaders -> UserIO \cup {NoIO, Broken}]
  BY ValueSame DEF OpInv, Readable, Step, TypeOK
<1>1. PICK v, t, s : v = ValueOf(l) /\ t = mbr[l].symTab /\ s = ScratchOf(l)
  OBVIOUS
<1>2. [k \in Loaders |-> ValueOf(k)][l] = v
  BY <1>1
<1>3. /\ ctl[l].pc = "idle" /\ mbr[l].loaded => v = Val("loaded", "none", t, io[l], s)
      /\ ctl[l].pc = "idle" /\ ~mbr[l].loaded => v = Val("made", "none", NoArg, NoIO, "own")
  BY <1>0, <1>1 DEF ValueOK
<1>4. CASE Construct(l)
  <2>1. \A m \in Loaders : ValueOf(m) = Abstract!Nobody
    BY <1>4, AbstractStart DEF Construct, Readable, ValueOK
  <2>2. ~mbr[l].loaded
    BY <1>4 DEF Construct, LockIInv, AbsentInv, AbsentOK, Present, NewMembers
  <2>3. ctl'[l].pc = "idle" /\ ~mbr'[l].loaded
    BY <1>0, <1>4, <2>2 DEF Construct, Idle, At
  <2>4. ValueOf(l)' = Abstract!Made
    BY <1>0, <2>3, AbstractStart DEF ValueOK
  <2>5. Abstract!Make(l)
    BY <1>0, <2>1, <2>4, Becomes DEF Abstract!Make
  <2> QED
    BY <2>5 DEF Abstract!Next
<1>5. CASE Destroy(l)
  <2>1. ctl[l].pc = "idle" /\ ctl'[l].pc = "absent"
    BY <1>0, <1>5 DEF Destroy, Release, Absent, At
  <2>2. v.status \in {"made", "loaded"}
    BY <1>3, <2>1, ValFields
  <2>3. ValueOf(l)' = Abstract!Nobody
    BY <1>0, <2>1, AbstractStart DEF ValueOK
  <2>4. Abstract!Destroy(l)
    BY <1>0, <1>2, <2>2, <2>3, Becomes DEF Abstract!Destroy
  <2> QED
    BY <2>4 DEF Abstract!Next
<1>6. ASSUME NEW b \in BOOLEAN, SetInferencesMayBeRunInParallel(l, b) PROVE ValueOf(l)' = ValueOf(l)
  <2>1. ctl' = ctl /\ ctl[l].pc = "idle" /\ ~mbr[l].loaded /\ ~mbr'[l].loaded
    BY <1>0, <1>6 DEF SetInferencesMayBeRunInParallel, Members
  <2> QED
    BY <1>0, <2>1 DEF ValueOK
<1>7. ASSUME NEW q \in SymTabs, StartLoad(l, q) PROVE Abstract!Next
  <2>1. ctl[l].pc = "idle" /\ ~mbr[l].loaded /\ ctl'[l].op = "load" /\ mbr'[l].symTab = q
    BY <1>0, <1>7 DEF StartLoad, Members, At
  <2>2. v = Abstract!Made
    BY <1>3, <2>1, AbstractStart
  <2>3. ValueOf(l)' = Val("busy", "load", q, NoIO, "own")
    BY <1>0, <2>1 DEF ValueOK
  <2>4. Abstract!Load(l, q)
    BY <1>0, <1>2, <2>2, <2>3, LoadValue, Becomes DEF Abstract!Load
  <2> QED
    BY <1>7, <2>4 DEF Abstract!Next
<1>8. ASSUME NEW m \in Loaders, NEW q \in SymTabs, Clone(l, m, q) PROVE Abstract!Next
  <2>1. Abstract!Copy(l, m, q)
    BY <1>0, <1>8, RefineCopy DEF Clone
  <2> QED
    BY <1>8, <2>1 DEF Abstract!Next
<1>9. ASSUME NEW m \in Loaders, Assign(l, m) PROVE Abstract!Next
  <2>1. PICK q : q = mbr[m].symTab
    OBVIOUS
  <2>2. q \in SymTabs
    BY <1>9, <2>1 DEF Assign, CopySource, OpInv, OpOK
  <2>3. Abstract!Copy(l, m, q)
    BY <1>0, <1>9, <2>1, RefineCopy DEF Assign
  <2> QED
    BY <1>9, <2>2, <2>3 DEF Abstract!Next
<1>10. ASSUME NEW a \in ScratchSets, UpdateSharedScratchBuffers(l, a) PROVE Abstract!Next
  <2>1. /\ ctl[l].pc = "idle" /\ mbr[l].loaded /\ mbr[l].scratch # << >> /\ mbr' = mbr
        /\ ctl'[l].op = "scratch" /\ ctl'[l].arg = a
    BY <1>0, <1>10 DEF UpdateSharedScratchBuffers, At
  <2>2. v = Val("loaded", "none", t, io[l], s) /\ s # "own"
    BY <1>0, <1>1, <1>3, <2>1 DEF ScratchPlace
  <2>3. v.status = "loaded" /\ v.scratch # "own"
    BY <2>2, ValFields
  <2>4. ValueOf(l)' = Val("busy", "scratch", t, NoIO, a)
    BY <1>0, <1>1, <2>1 DEF ValueOK
  <2>5. Abstract!Become(l, [Abstract!Begun(v, "scratch") EXCEPT !.scratch = a, !.io = NoIO, !.sound = TRUE])
    <3>0. AsUser(NoIO) = NoIO /\ NoIO # Broken
      BY DEF AsUser, NoIO, Broken
    <3>1. ASSUME NEW w, w = [Abstract!Begun(v, "scratch") EXCEPT !.scratch = a, !.io = NoIO, !.sound = TRUE]
          PROVE  w = Val("busy", "scratch", t, NoIO, a)
      BY <2>2, <3>0, <3>1 DEF Abstract!Begun, Val
    <3> QED
      BY <1>0, <2>4, <3>1, Becomes
  <2>6. Abstract!Supply(l, a)
    BY <1>2, <2>3, <2>5 DEF Abstract!Supply, Abstract!Own
  <2> QED
    BY <1>10, <2>6 DEF Abstract!Next
<1>11. ASSUME NEW u \in UserIO, ApplyJitRelocations(l, u) PROVE Abstract!Next
  <2>1. /\ ctl[l].pc = "idle" /\ mbr[l].loaded /\ mbr' = mbr /\ infer' = infer /\ dev' = dev /\ io' = io
        /\ ctl'[l].op = "jit" /\ ctl'[l].arg = u
    BY <1>0, <1>11 DEF ApplyJitRelocations, At, buffers
  <2>2. v = Val("loaded", "none", t, io[l], s)
    BY <1>3, <2>1
  <2>3. v.status = "loaded"
    BY <2>2, ValFields
  <2>4. ScratchOf(l)' = s
    BY <1>1, <2>1, ScratchStays
  <2>5. ValueOf(l)' = Val("busy", "jit", t, IF io[l] = Broken THEN Broken ELSE u, s)
    BY <1>0, <1>1, <2>1, <2>4 DEF ValueOK
  <2>6. Abstract!Become(l, [Abstract!Begun(v, "jit") EXCEPT !.io = IF v.sound THEN u ELSE NoIO])
    BY <1>0, <1>11, <2>2, <2>5, InferValue, Becomes
  <2>7. Abstract!Infer(l, u)
    BY <1>2, <2>3, <2>6 DEF Abstract!Infer
  <2> QED
    BY <1>11, <2>7 DEF Abstract!Next
<1> QED
  BY <1>4, <1>5, <1>6, <1>7, <1>8, <1>9, <1>10, <1>11 DEF ClientStep

-----------------------------------------------------------------------------
(* The refinement *)

\* What the mapping needs besides the invariants of images and locks.
LEMMA MappingInit == Init => OpInv /\ SuppliedInv
<1> SUFFICES ASSUME Init, NEW l \in Loaders PROVE OpOK(ctl[l], mbr[l]) /\ SuppliedOK(l)
  BY DEF OpInv, SuppliedInv
<1>1. ctl[l] = Absent /\ mbr[l] = NewMembers
  BY DEF Init
<1>2. OpOK(ctl[l], mbr[l])
  BY <1>1, OpIdle DEF NewMembers
<1>3. SuppliedOK(l)
  BY <1>1 DEF SuppliedOK, NewMembers, Absent, At
<1> QED
  BY <1>2, <1>3

\* Every step keeps what the mapping needs.
LEMMA MappingNext ==
  ASSUME TypeOK, LockIInv, ImageIInv, ImageIInv', OpInv, SuppliedInv, [Next]_vars
  PROVE  OpInv' /\ SuppliedInv'
<1>1. CASE UNCHANGED vars \/ DeleteAccessor
  <2>1. ctl' = ctl /\ mbr' = mbr /\ infer' = infer /\ dev' = dev
    BY <1>1 DEF vars, DeleteAccessor, buffers
  <2> QED
    BY <2>1 DEF OpInv, SuppliedInv, SuppliedOK
<1>2. ASSUME NEW l \in Loaders, Step(l) PROVE OpInv' /\ SuppliedInv'
  <2>1. OpInv'
    BY <1>2, OpStep
  <2>2. SuppliedOK(l)'
    BY <1>2, <2>1, SuppliedOwn DEF LockIInv, SharingIInv, ImageIInv
  <2>3. \A k \in Loaders : k # l => SuppliedOK(k)'
    BY <1>2, SuppliedOther
  <2> QED
    BY <2>1, <2>2, <2>3 DEF SuppliedInv
<1> QED
  BY <1>1, <1>2 DEF Next, Step

\* No loader exists, and there is nobody in LinkedImages.
LEMMA RefineInit == Init => Abstract!Init
<1> SUFFICES ASSUME Init PROVE \A l \in Loaders : ValueOf(l) = Abstract!Nobody
  BY DEF Abstract!Init
<1>1. \A l \in Loaders : ctl[l].pc = "absent" /\ ctl[l].op = "none"
  BY DEF Init, Absent, At
<1>2. \A l \in Loaders : ValueOf(l) = Plain
  BY <1>1 DEF ValueOf
<1> QED
  BY <1>2, AbstractStart

\* Every step is a step of LinkedImages, or changes the value of no loader.
LEMMA RefineNext ==
  ASSUME TypeOK, TypeOK', LockIInv, LockIInv', ImageIInv, ImageIInv', OpInv, OpInv', SuppliedInv, SuppliedInv',
         [Next]_vars
  PROVE  [Abstract!Next]_([l \in Loaders |-> ValueOf(l)])
<1>0. ScratchInv /\ ControlInv /\ Readable /\ Readable'
  BY ValuesReadable, ValuesReadableNext DEF ImageIInv, LockIInv, SharingIInv
<1>1. CASE UNCHANGED vars \/ DeleteAccessor
  <2>1. ctl' = ctl /\ mbr' = mbr /\ infer' = infer /\ dev' = dev /\ mem' = mem /\ elf' = elf /\ io' = io
    BY <1>1 DEF vars, DeleteAccessor, buffers
  <2>2. ASSUME NEW l \in Loaders PROVE ValueOf(l)' = ValueOf(l)
    <3>1. ScratchOf(l)' = ScratchOf(l) /\ (ScratchReady(l)' <=> ScratchReady(l))
      BY <2>1 DEF ScratchOf, ScratchReady
    <3>2. ImageLinked(l)' <=> ImageLinked(l)
      <4>1. \A r \in SecIdx : SymValue(l, r)' = SymValue(l, r)
        BY <2>1 DEF SymValue, Has
      <4>2. \A s, r \in SecIdx : Expected(l, s, r)' = Expected(l, s, r)
        BY <2>1, <4>1 DEF Expected, IsRela
      <4> QED
        BY <2>1, <4>2 DEF ImageLinked
    <3> QED
      BY <2>1, <3>1, <3>2 DEF ValueOf
  <2> QED
    BY <2>2
<1>2. ASSUME NEW l \in Loaders, Step(l) PROVE [Abstract!Next]_([k \in Loaders |-> ValueOf(k)])
  <2>1. ValueOf(l)' = ValueOf(l) \/ Abstract!Return(l) \/ Abstract!Fail(l) \/ Abstract!Next
    BY <1>0, <1>2, RefineLoad, RefinePatch, RefineClient DEF Step
  <2>2. Abstract!Return(l) \/ Abstract!Fail(l) => Abstract!Next
    BY DEF Abstract!Next
  <2>3. \A k \in Loaders : k # l => ValueOf(k)' = ValueOf(k)
    BY <1>2, ValueSame
  <2> QED
    BY <2>1, <2>2, <2>3
<1> QED
  BY <1>1, <1>2 DEF Next, Step

\* vpux_loader.cpp:499-571, 602-767, 1193-1206: whatever buffers loaders share and however
\* their loops interleave, each loader is a value of its own, linked for what its last
\* calls asked for.
THEOREM LoadersAreLinkedImages == NoRetriedRead /\ JitOverwrites => (Spec => ImplementsLinkedImages)
<1> SUFFICES ASSUME NoRetriedRead, JitOverwrites PROVE Spec => ImplementsLinkedImages
  OBVIOUS
<1>1. Init => ImageIInv /\ OpInv /\ SuppliedInv /\ Abstract!Init
  BY ImageInit, MappingInit, RefineInit
<1>2. TypeOK /\ LockIInv /\ ImageIInv /\ [Next]_vars => ImageIInv'
  BY ImageNext
<1>3. TypeOK /\ LockIInv /\ ImageIInv /\ ImageIInv' /\ OpInv /\ SuppliedInv /\ [Next]_vars => OpInv' /\ SuppliedInv'
  BY MappingNext
<1>4. TypeOK /\ TypeOK' /\ LockIInv /\ LockIInv' /\ ImageIInv /\ ImageIInv' /\ OpInv /\ OpInv' /\ SuppliedInv /\ SuppliedInv'
         /\ [Next]_vars => [Abstract!Next]_([l \in Loaders |-> ValueOf(l)])
  BY RefineNext
<1> QED
  BY <1>1, <1>2, <1>3, <1>4, LockInvariant, PTL DEF Spec, ImplementsLinkedImages, Abstract!Spec
=============================================================================
