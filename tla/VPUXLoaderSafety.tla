-------------------------- MODULE VPUXLoaderSafety --------------------------
(***************************************************************************)
(* Type correctness of VPUXLoader, and proof that loaders stay isolated     *)
(* from each other and that the images copies are restored from stay        *)
(* pristine, for any number of loaders and sections and for every blob.     *)
(* Every step keeps TypeOK, given that the loops stay inside the vectors    *)
(* they run over (ControlInv, PatchInv).                                    *)
(***************************************************************************)
EXTENDS VPUXLoader, TLAPS, SequenceTheorems

\* Section 0 exists, and so does every index below e_shnum.
LEMMA SecIdxFacts == 0 \in SecIdx /\ \A n \in Nat : n < NumSections => n \in SecIdx
  BY NumSectionsAssumption DEF SecIdx

\* The initial contents, controls, members and maps have their types.
LEMMA ConstantTypes ==
  /\ Blank \in Contents /\ Pristine \in Contents
  /\ Idle \in Control /\ Absent \in Control
  /\ NewMembers \in Members
  /\ EmptyMap \in [SecIdx -> Entry]
<1>1. Unpatched \in [SecIdx -> Seq(Vals)]
  BY DEF Unpatched
<1>2. Blank \in Contents /\ Pristine \in Contents
  BY <1>1 DEF Blank, Pristine, Contents
<1>3. \A s \in SecIdx : NullBuf(s) \in BufIds
  BY DEF NullBuf, BufIds, Tags
<1>4. EmptyMap \in [SecIdx -> Entry]
  BY <1>3 DEF EmptyMap, NoInfo, Info, Entry
<1>5. NewMembers \in Members
  BY DEF NewMembers, Members
<1> QED
  BY <1>2, <1>4, <1>5, SecIdxFacts DEF Control, Idle, Absent, At, Pcs, Ops

\* The initial states are well typed.
LEMMA TypeInit == Init => TypeOK
<1> SUFFICES ASSUME Init PROVE TypeOK
  OBVIOUS
<1>1. dev \in [BufIds -> Addrs]
  BY DEF Init, Addrs
<1>2. 0 \in 0 .. MaxLoads /\ 0 \in 0 .. MaxFaults
  BY BoundsAssumption
<1> QED
  BY <1>1, <1>2, ConstantTypes DEF Init, TypeOK, ReaderState

\* Replacing one BufferInfo keeps a map of buffer containers well typed.
LEMMA UpdateEntry ==
  ASSUME NEW f \in [Loaders -> [SecIdx -> Entry]], NEW l \in Loaders, NEW s \in SecIdx,
         NEW e \in Entry
  PROVE  [f EXCEPT ![l][s] = e] \in [Loaders -> [SecIdx -> Entry]]
  OBVIOUS

\* The fields of a BufferInfo after updateSharedBuffers and after loadBuffers.
LEMMA EntryFields ==
  ASSUME NEW e \in Entry, NEW b \in BufIds
  PROVE  /\ PatchedEntry(e) \in Entry
         /\ PatchedEntry(e).buf = e.buf /\ PatchedEntry(e).isProcessed = e.isProcessed
         /\ PatchedEntry(e).has = e.has
         /\ PatchedEntry(e).isShared <=> e.isShared /\ e.isProcessed
         /\ LoadedEntry(e, b) \in Entry
         /\ LoadedEntry(e, b).buf = b /\ LoadedEntry(e, b).isProcessed
         /\ LoadedEntry(e, b).has = e.has
         /\ LoadedEntry(e, b).isShared = e.isShared
<1>1. /\ LoadedEntry(e, b) \in Entry
      /\ LoadedEntry(e, b).buf = b /\ LoadedEntry(e, b).isProcessed
      /\ LoadedEntry(e, b).has = e.has
      /\ LoadedEntry(e, b).isShared = e.isShared
  BY DEF Entry, LoadedEntry
<1>2. PICK h \in BOOLEAN : h <=> e.isShared /\ e.isProcessed
  OBVIOUS
<1>3. PatchedEntry(e) = [e EXCEPT !.isShared = h]
  BY <1>2 DEF PatchedEntry, Entry
<1> QED
  BY <1>1, <1>2, <1>3 DEF Entry

\* updateSharedBuffers and loadBuffers keep the containers well typed.
LEMMA UpdateFields ==
  ASSUME NEW f \in [Loaders -> [SecIdx -> Entry]], NEW l \in Loaders, NEW s \in SecIdx,
         NEW b \in BufIds
  PROVE  /\ [f EXCEPT ![l][s] = PatchedEntry(@)] \in [Loaders -> [SecIdx -> Entry]]
         /\ [f EXCEPT ![l][s] = LoadedEntry(@, b)] \in [Loaders -> [SecIdx -> Entry]]
<1>1. PatchedEntry(f[l][s]) \in Entry /\ LoadedEntry(f[l][s], b) \in Entry
  BY EntryFields
<1>2. [f EXCEPT ![l][s] = PatchedEntry(f[l][s])] \in [Loaders -> [SecIdx -> Entry]]
  BY <1>1, UpdateEntry
<1>3. [f EXCEPT ![l][s] = LoadedEntry(f[l][s], b)] \in [Loaders -> [SecIdx -> Entry]]
  BY <1>1, UpdateEntry
<1> QED
  BY <1>2, <1>3

\* The control fields after a jump to the start of a loop.
LEMMA MoveFields ==
  ASSUME NEW c \in Control, NEW p \in Pcs, NEW n \in Nat
  PROVE  /\ MoveTo(c, p, n) \in Control
         /\ MoveTo(c, p, n).pc = p /\ MoveTo(c, p, n).pos = n
         /\ MoveTo(c, p, n).op = c.op /\ MoveTo(c, p, n).arg = c.arg
         /\ MoveTo(c, p, n).todo = c.todo /\ MoveTo(c, p, n).cur = c.cur
  BY DEF Control, MoveTo

\* The control fields while reloadNewBuffers holds a backup, and after it.
LEMMA ReloadFields ==
  ASSUME NEW c \in Control, NEW s \in SecIdx
  PROVE  /\ Holding(c, s) \in Control
         /\ Holding(c, s).pc = "reloadCopy" /\ Holding(c, s).pos = c.pos
         /\ Holding(c, s).op = c.op /\ Holding(c, s).arg = c.arg
         /\ Holding(c, s).todo = c.todo /\ Holding(c, s).cur = s
         /\ Restored(c, s) \in Control
         /\ Restored(c, s).pc = "reload" /\ Restored(c, s).pos = c.pos
         /\ Restored(c, s).op = c.op /\ Restored(c, s).arg = c.arg
         /\ Restored(c, s).todo = c.todo \ {s}
<1>1. "reload" \in Pcs /\ "reloadCopy" \in Pcs
  BY DEF Pcs
<1> QED
  BY <1>1, SecIdxFacts DEF Control, Holding, Restored

\* The ways in which a step moves one loader's control keep it well typed.
LEMMA UpdateControl ==
  ASSUME NEW l \in Loaders, ctl \in [Loaders -> Control]
  PROVE  /\ \A p \in Pcs : [ctl EXCEPT ![l].pc = p] \in [Loaders -> Control]
         /\ [ctl EXCEPT ![l].pos = @ + 1] \in [Loaders -> Control]
         /\ \A p \in Pcs, n \in Nat :
               [ctl EXCEPT ![l] = MoveTo(@, p, n)] \in [Loaders -> Control]
         /\ \A c \in Control : [ctl EXCEPT ![l] = c] \in [Loaders -> Control]
<1>1. \A p \in Pcs, n \in Nat : [ctl EXCEPT ![l] = MoveTo(@, p, n)] \in [Loaders -> Control]
  BY MoveFields
<1>2. \A p \in Pcs : [ctl EXCEPT ![l].pc = p] \in [Loaders -> Control]
  BY DEF Control
<1>3. [ctl EXCEPT ![l].pos = @ + 1] \in [Loaders -> Control]
  BY DEF Control
<1> QED
  BY <1>1, <1>2, <1>3

\* The ways in which a step sets one loader's members keep them well typed.
LEMMA UpdateMembers ==
  ASSUME NEW l \in Loaders, mbr \in [Loaders -> Members]
  PROVE  /\ \A b \in BOOLEAN : [mbr EXCEPT ![l].parallel = b] \in [Loaders -> Members]
         /\ \A b \in BOOLEAN : [mbr EXCEPT ![l].loaded = b] \in [Loaders -> Members]
         /\ \A t \in SymTabs : [mbr EXCEPT ![l].symTab = t] \in [Loaders -> Members]
         /\ \A s \in SecIdx :
              [mbr EXCEPT ![l].scratch = Append(@, s)] \in [Loaders -> Members]
         /\ \A m \in Members : [mbr EXCEPT ![l] = m] \in [Loaders -> Members]
<1>1. \A s \in SecIdx : Append(mbr[l].scratch, s) \in Seq(SecIdx)
  BY DEF Members
<1>2. \A q \in Seq(SecIdx) : [mbr EXCEPT ![l].scratch = q] \in [Loaders -> Members]
  BY DEF Members
<1>3. \A s \in SecIdx : [mbr EXCEPT ![l].scratch = Append(@, s)] \in [Loaders -> Members]
  BY <1>1, <1>2
<1>4. /\ \A b \in BOOLEAN : [mbr EXCEPT ![l].parallel = b] \in [Loaders -> Members]
      /\ \A b \in BOOLEAN : [mbr EXCEPT ![l].loaded = b] \in [Loaders -> Members]
  BY DEF Members
<1>5. \A t \in SymTabs : [mbr EXCEPT ![l].symTab = t] \in [Loaders -> Members]
  BY DEF Members
<1> QED
  BY <1>3, <1>4, <1>5

\* Section::getData keeps the Reader's state well typed.
LEMMA FetchType ==
  ASSUME rd \in ReaderState, NEW S \in SUBSET SecIdx, Fetch(S)
  PROVE  rd' \in ReaderState
  BY DEF Fetch, ReaderState

\* Section::getDataBuffer keeps the Reader's state well typed.
LEMMA ReadThroughType ==
  ASSUME rd \in ReaderState, ReadThrough
  PROVE  rd' \in ReaderState
  BY DEF ReadThrough, ReaderState

\* Locking and unlocking a buffer keeps the counters integers.
LEMMA LockType ==
  ASSUME lock \in [BufIds -> Int], NEW b
  PROVE  Locked(b) \in [BufIds -> Int] /\ Unlocked(b) \in [BufIds -> Int]
<1>1. Counted(b) \in {0, 1}
  BY DEF Counted
<1>2. \A x \in BufIds : lock[x] + Counted(b) \in Int /\ lock[x] - Counted(b) \in Int
  BY <1>1
<1>3. Locked(b) \in [BufIds -> Int]
  BY <1>2 DEF Locked
<1>4. Unlocked(b) \in [BufIds -> Int]
  BY <1>2 DEF Unlocked
<1> QED
  BY <1>3, <1>4

\* The four kinds of buffers of a section are buffers.
LEMMA BufTypes ==
  ASSUME NEW l \in Loaders, NEW s \in SecIdx
  PROVE  OwnBuf(l, s) \in BufIds /\ DataBuf(s) \in BufIds /\ BackupBuf(s) \in BufIds
         /\ NullBuf(s) \in BufIds
  BY DEF OwnBuf, DataBuf, BackupBuf, NullBuf, BufIds, Tags

\* A BufferInfo put together from well-typed parts is one.
LEMMA InfoType ==
  ASSUME NEW b \in BufIds, NEW d \in BOOLEAN, NEW h \in BOOLEAN, NEW p \in BOOLEAN
  PROVE  Info(b, d, h, p) \in Entry
  BY DEF Info, Entry

\* Destruction leaves well-typed members.
LEMMA ReleaseType ==
  ASSUME TypeOK, NEW l \in Loaders, Release(l)
  PROVE  /\ infer' \in [Loaders -> [SecIdx -> Entry]]
         /\ backup' \in [Loaders -> [SecIdx -> Entry]]
         /\ mbr' \in [Loaders -> Members]
         /\ ctl' \in [Loaders -> Control]
         /\ io' \in [Loaders -> UserIO \cup {NoIO, Broken}]
  BY ConstantTypes DEF Release, TypeOK

\* An exception leaves well-typed members.
LEMMA ThrowType ==
  ASSUME TypeOK, NEW l \in Loaders, Throw(l)
  PROVE  /\ infer' \in [Loaders -> [SecIdx -> Entry]]
         /\ backup' \in [Loaders -> [SecIdx -> Entry]]
         /\ mbr' \in [Loaders -> Members]
         /\ ctl' \in [Loaders -> Control]
         /\ io' \in [Loaders -> UserIO \cup {NoIO, Broken}]
  BY ReleaseType, ConstantTypes DEF Throw, TypeOK

\* Patching a buffer's contents yields contents.
LEMMA PatchType ==
  ASSUME NEW c \in Contents, NEW r \in SecIdx, NEW v \in Vals
  PROVE  Patch(c, r, v) \in Contents
<1>1. Append(c.patch[r], v) \in Seq(Vals) /\ <<v>> \in Seq(Vals)
  BY DEF Contents
<1> QED
  BY <1>1 DEF Patch, Contents

\* The PROGBITS case of load() keeps the types.
LEMMA TypeLoadProgbits ==
  ASSUME TypeOK, NEW l \in Loaders, LoadProgbits(l)
  PROVE  TypeOK'
<1> DEFINE s == ctl[l].pos
           e == Info(NullBuf(s), TRUE, ~elf[s].write, FALSE)
<1>1. s \in SecIdx /\ elf \in [SecIdx -> Header]
  BY SecIdxFacts, BlobsAssumption DEF TypeOK, LoadProgbits, AtSection, Control
<1>2. e \in Entry
  BY <1>1, BufTypes, InfoType DEF Header
<1>3. infer' \in [Loaders -> [SecIdx -> Entry]]
  <2>1. infer \in [Loaders -> [SecIdx -> Entry]]
    BY DEF TypeOK
  <2>2. infer' = infer \/ infer' = [infer EXCEPT ![l][s] = e]
    BY DEF LoadProgbits
  <2> HIDE DEF e
  <2> QED
    BY <1>1, <1>2, <2>1, <2>2, UpdateEntry
<1>4. ctl' \in [Loaders -> Control]
  BY ConstantTypes, UpdateControl DEF LoadProgbits, TypeOK, NextSection, AbortLoad
<1> QED
  BY <1>3, <1>4 DEF TypeOK, LoadProgbits, indexes, buffers, bounds

\* The NOBITS case of load() keeps the types.
LEMMA TypeLoadNobits ==
  ASSUME TypeOK, NEW l \in Loaders, LoadNobits(l)
  PROVE  TypeOK'
<1> DEFINE s == ctl[l].pos
           e == Info(OwnBuf(l, s), FALSE, FALSE, TRUE)
           n == Info(NullBuf(s), FALSE, FALSE, FALSE)
<1>1. s \in SecIdx
  BY SecIdxFacts DEF TypeOK, LoadNobits, AtSection, Control
<1>2. e \in Entry /\ n \in Entry
  BY <1>1, BufTypes, InfoType
<1>3. infer' \in [Loaders -> [SecIdx -> Entry]]
  <2>1. infer \in [Loaders -> [SecIdx -> Entry]]
    BY DEF TypeOK
  <2>2. infer' = infer \/ infer' = [infer EXCEPT ![l][s] = e]
        \/ infer' = [infer EXCEPT ![l][s] = n]
    BY DEF LoadNobits
  <2> HIDE DEF e, n
  <2> QED
    BY <1>1, <1>2, <2>1, <2>2, UpdateEntry
<1>4. ctl' \in [Loaders -> Control]
  BY ConstantTypes, UpdateControl DEF LoadNobits, TypeOK, NextSection, AbortLoad
<1>5. dev' \in [BufIds -> Addrs]
  <2>1. dev \in [BufIds -> Addrs] /\ NullAddr \in Addrs
    BY SecIdxFacts DEF TypeOK, Addrs, BufIds, NullAddr, Tags
  <2>2. \/ dev' = dev
        \/ dev' = [dev EXCEPT ![OwnBuf(l, s)] = NullAddr]
        \/ dev' = [dev EXCEPT ![OwnBuf(l, s)] = @]
    BY DEF LoadNobits
  <2> QED
    BY <1>1, <2>1, <2>2, BufTypes
<1>6. mbr' \in [Loaders -> Members]
  <2>1. \/ mbr' = mbr
        \/ mbr' = [mbr EXCEPT ![l].scratch = Append(@, s)]
        \/ mbr' = [mbr EXCEPT ![l].scratch = @]
    BY DEF LoadNobits
  <2>2. mbr \in [Loaders -> Members]
    BY DEF TypeOK
  <2>3. [mbr EXCEPT ![l].scratch = @] = mbr
    BY <2>2 DEF Members
  <2> QED
    BY <1>1, <2>1, <2>2, <2>3, UpdateMembers
<1>7. faults' \in 0 .. MaxFaults
  <2>1. faults' = faults \/ (faults < MaxFaults /\ faults' = faults + 1)
    BY DEF LoadNobits
  <2> QED
    BY <2>1, BoundsAssumption DEF TypeOK
<1> QED
  BY <1>3, <1>4, <1>5, <1>6, <1>7 DEF TypeOK, LoadNobits, indexes

\* The RELA case of load() keeps the types.
LEMMA TypeLoadRela ==
  ASSUME TypeOK, NEW l \in Loaders, LoadRela(l)
  PROVE  TypeOK'
<1> DEFINE s == ctl[l].pos
<1>1. s \in SecIdx
  BY SecIdxFacts DEF TypeOK, LoadRela, AtSection, Control
<1>2. relocIdx' \in Seq(SecIdx) /\ jitIdx' \in Seq(SecIdx)
  <2>1. relocIdx \in Seq(SecIdx) /\ jitIdx \in Seq(SecIdx)
    BY DEF TypeOK
  <2>2. Append(relocIdx, s) \in Seq(SecIdx) /\ Append(jitIdx, s) \in Seq(SecIdx)
    BY <1>1, <2>1
  <2>3. relocIdx' \in {relocIdx, Append(relocIdx, s)} /\ jitIdx' \in {jitIdx, Append(jitIdx, s)}
    BY DEF LoadRela
  <2> QED
    BY <2>1, <2>2, <2>3
<1>3. rd' \in ReaderState
  <2>1. Fetch({s}) \/ rd' = rd
    BY DEF LoadRela
  <2> QED
    BY <1>1, <2>1, FetchType DEF TypeOK
<1>4. ctl' \in [Loaders -> Control]
  BY UpdateControl DEF LoadRela, NextSection, TypeOK
<1> QED
  BY <1>2, <1>3, <1>4 DEF TypeOK, LoadRela, buffers, bounds

\* The SYMTAB case of load() keeps the types.
LEMMA TypeLoadSymtab ==
  ASSUME TypeOK, NEW l \in Loaders, LoadSymtab(l)
  PROVE  TypeOK'
<1>1. ctl[l].pos \in SecIdx
  BY SecIdxFacts DEF TypeOK, LoadSymtab, AtSection, Control
<1>2. rd' \in ReaderState
  BY <1>1, FetchType DEF LoadSymtab, FetchedSymtab, TypeOK
<1>3. ctl' \in [Loaders -> Control]
  BY UpdateControl DEF LoadSymtab, NextSection, TypeOK
<1> QED
  BY <1>2, <1>3 DEF TypeOK, LoadSymtab, indexes, buffers, bounds

\* An iteration of updateSharedBuffers keeps the types.
LEMMA TypeUpdateSharedBuffers ==
  ASSUME TypeOK, NEW l \in Loaders, UpdateSharedBuffers(l)
  PROVE  TypeOK'
<1> DEFINE t == elf[CheckedForSharing[ctl[l].pos]].info
<1>1. ctl' \in [Loaders -> Control]
  BY ConstantTypes, UpdateControl DEF UpdateSharedBuffers, TypeOK, NextSection, AbortLoad
<1>2. infer \in [Loaders -> [SecIdx -> Entry]]
  BY DEF TypeOK
<1>3. infer' = infer \/ (t \in SecIdx /\ infer' = [infer EXCEPT ![l][t] = PatchedEntry(@)])
  BY DEF UpdateSharedBuffers, NoTarget, Has
<1> HIDE DEF t
<1>4. infer' \in [Loaders -> [SecIdx -> Entry]]
  <2>1. CASE t \in SecIdx
    <3>1. NullBuf(t) \in BufIds
      BY <2>1, BufTypes
    <3>2. [infer EXCEPT ![l][t] = PatchedEntry(@)] \in [Loaders -> [SecIdx -> Entry]]
      BY <1>2, <2>1, <3>1, UpdateFields
    <3> QED
      BY <1>2, <1>3, <3>2
  <2> QED
    BY <1>2, <1>3, <2>1
<1> QED
  BY <1>1, <1>4 DEF TypeOK, UpdateSharedBuffers, indexes, buffers, bounds

\* loadBuffers keeps the types for a shared section.
LEMMA TypeLoadSharedBuffer ==
  ASSUME TypeOK, NEW l \in Loaders, NEW s \in SecIdx, LoadSharedBuffer(l, s)
  PROVE  TypeOK'
<1>1. infer' \in [Loaders -> [SecIdx -> Entry]]
  BY UpdateFields, BufTypes DEF LoadSharedBuffer, TypeOK
<1>2. mem' \in [BufIds -> Contents]
  BY BufTypes, ConstantTypes DEF LoadSharedBuffer, TypeOK
<1>3. rd' \in ReaderState
  BY ReadThroughType DEF LoadSharedBuffer, TypeOK
<1> QED
  BY <1>1, <1>2, <1>3 DEF TypeOK, LoadSharedBuffer, indexes, bounds

\* loadBuffers keeps the types for a section of its own.
LEMMA TypeLoadOwnBuffer ==
  ASSUME TypeOK, NEW l \in Loaders, NEW s \in SecIdx, LoadOwnBuffer(l, s)
  PROVE  TypeOK'
<1> DEFINE e == Info(BackupBuf(s), TRUE, TRUE, TRUE)
           n == Info(BackupBuf(s), FALSE, FALSE, FALSE)
<1>1. infer' \in [Loaders -> [SecIdx -> Entry]]
  <2>1. infer \in [Loaders -> [SecIdx -> Entry]] /\ OwnBuf(l, s) \in BufIds
    BY BufTypes DEF TypeOK
  <2>2. infer' = infer \/ infer' = [infer EXCEPT ![l][s] = LoadedEntry(@, OwnBuf(l, s))]
    BY DEF LoadOwnBuffer
  <2>3. [infer EXCEPT ![l][s] = LoadedEntry(@, OwnBuf(l, s))] \in [Loaders -> [SecIdx -> Entry]]
    BY <2>1, UpdateFields
  <2> QED
    BY <2>1, <2>2, <2>3
<1>2. e \in Entry /\ n \in Entry
  BY BufTypes, InfoType
<1>3. backup' \in [Loaders -> [SecIdx -> Entry]]
  <2>1. backup \in [Loaders -> [SecIdx -> Entry]]
    BY DEF TypeOK
  <2>2. backup' = [backup EXCEPT ![l][s] = e] \/ backup' = [backup EXCEPT ![l][s] = n]
    BY DEF LoadOwnBuffer
  <2> HIDE DEF e, n
  <2>3. [backup EXCEPT ![l][s] = e] \in [Loaders -> [SecIdx -> Entry]]
    BY <1>2, <2>1, UpdateEntry
  <2>4. [backup EXCEPT ![l][s] = n] \in [Loaders -> [SecIdx -> Entry]]
    BY <1>2, <2>1, UpdateEntry
  <2> QED
    BY <2>2, <2>3, <2>4
<1>4. mem' \in [BufIds -> Contents]
  BY BufTypes, ConstantTypes DEF LoadOwnBuffer, TypeOK
<1>5. rd' \in ReaderState
  BY ReadThroughType DEF LoadOwnBuffer, TypeOK
<1>6. ctl' \in [Loaders -> Control]
  BY ConstantTypes, UpdateControl DEF LoadOwnBuffer, TypeOK, AbortLoad
<1>7. faults' \in 0 .. MaxFaults
  <2>1. faults' = faults \/ (faults < MaxFaults /\ faults' = faults + 1)
    BY DEF LoadOwnBuffer
  <2> QED
    BY <2>1, BoundsAssumption DEF TypeOK
<1> QED
  BY <1>1, <1>3, <1>4, <1>5, <1>6, <1>7 DEF TypeOK, LoadOwnBuffer, indexes

\* The steps of a client, and the steps between two loops of load().
LEMMA TypeClient ==
  ASSUME TypeOK, NEW l \in Loaders,
         \/ Construct(l) \/ Destroy(l)
         \/ \E b \in BOOLEAN : SetInferencesMayBeRunInParallel(l, b)
         \/ \E t \in SymTabs : StartLoad(l, t)
         \/ DeleteAccessor
  PROVE  TypeOK'
<1>1. CASE Construct(l)
  <2>1. rd' \in ReaderState
    BY <1>1 DEF Construct, ReaderState
  <2>2. loads' \in 0 .. MaxLoads
    BY <1>1, BoundsAssumption DEF Construct
  <2> QED
    BY <1>1, <2>1, <2>2, ConstantTypes DEF Construct, TypeOK
<1>2. CASE Destroy(l)
  <2>1. mem' \in [BufIds -> Contents]
    BY <1>2, ConstantTypes DEF Destroy, TypeOK
  <2>2. dev' \in [BufIds -> Addrs]
    BY <1>2 DEF Destroy, TypeOK, Addrs
  <2>3. Release(l)
    BY <1>2 DEF Destroy
  <2> QED
    BY <1>2, <2>1, <2>2, <2>3, ReleaseType DEF Destroy, TypeOK, indexes, bounds
<1>3. ASSUME NEW b \in BOOLEAN, SetInferencesMayBeRunInParallel(l, b) PROVE TypeOK'
  BY <1>3, UpdateMembers
     DEF SetInferencesMayBeRunInParallel, TypeOK, indexes, buffers, bounds
<1>4. ASSUME NEW t \in SymTabs, StartLoad(l, t) PROVE TypeOK'
  <2>1. ctl' \in [Loaders -> Control]
    BY <1>4, UpdateControl, SecIdxFacts DEF StartLoad, TypeOK, At, Control, Pcs, Ops
  <2>2. mbr' \in [Loaders -> Members]
    BY <1>4, UpdateMembers DEF StartLoad, TypeOK
  <2>3. loads' \in 0 .. MaxLoads
    BY <1>4, BoundsAssumption DEF StartLoad, TypeOK
  <2> QED
    BY <1>4, <2>1, <2>2, <2>3 DEF StartLoad, TypeOK, indexes, buffers
<1>5. CASE DeleteAccessor
  BY <1>5 DEF DeleteAccessor, TypeOK, ReaderState, indexes, buffers, bounds
<1> QED
  BY <1>1, <1>2, <1>3, <1>4, <1>5

\* The other cases of load(), and the ends of its first two loops, keep the types.
LEMMA TypeLoadOther ==
  ASSUME TypeOK, NEW l \in Loaders,
         LoadOther(l) \/ SectionsDone(l) \/ SharingDone(l)
  PROVE  TypeOK'
<1>1. ctl' \in [Loaders -> Control]
  <2>1. "share" \in Pcs /\ "buffers" \in Pcs
    BY DEF Pcs
  <2>2. LoadOther(l) => ctl' \in [Loaders -> Control]
    BY UpdateControl, ConstantTypes DEF LoadOther, TypeOK, NextSection, AbortLoad
  <2>3. /\ [ctl EXCEPT ![l] = MoveTo(@, "share", 1)] \in [Loaders -> Control]
        /\ [ctl EXCEPT ![l].pc = "buffers"] \in [Loaders -> Control]
    BY <2>1, UpdateControl DEF TypeOK
  <2> QED
    BY <2>2, <2>3 DEF SectionsDone, SharingDone
<1> QED
  BY <1>1 DEF LoadOther, SectionsDone, SharingDone, TypeOK, indexes, buffers, bounds

\* The steps that end a call, or lead from the buffers to the relocations.
LEMMA TypeDone ==
  ASSUME TypeOK, ControlInv, NEW l \in Loaders,
         BuffersLoaded(l) \/ RelocDone(l) \/ JitDone(l)
  PROVE  TypeOK'
<1>1. ctl' \in [Loaders -> Control]
  <2>1. "reloc" \in Pcs
    BY DEF Pcs
  <2>2. /\ [ctl EXCEPT ![l] = MoveTo(@, "reloc", 1)] \in [Loaders -> Control]
        /\ [ctl EXCEPT ![l] = Idle] \in [Loaders -> Control]
    BY <2>1, UpdateControl, ConstantTypes DEF TypeOK
  <2> QED
    BY <2>2 DEF BuffersLoaded, RelocDone, JitDone
<1>2. mbr' \in [Loaders -> Members]
  <2>1. mbr' = mbr \/ mbr' = [mbr EXCEPT ![l].loaded = TRUE]
    BY DEF BuffersLoaded, RelocDone, JitDone
  <2> QED
    BY <2>1, UpdateMembers DEF TypeOK
<1>3. io' \in [Loaders -> UserIO \cup {NoIO, Broken}]
  <2>1. JitDone(l) => ctl[l].arg \in UserIO
    BY DEF JitDone, ControlInv, ControlOK
  <2> QED
    BY <2>1 DEF BuffersLoaded, RelocDone, JitDone, TypeOK
<1> QED
  BY <1>1, <1>2, <1>3
     DEF BuffersLoaded, RelocDone, JitDone, TypeOK, indexes, buffers, bounds

\* Everything a relocation can write is a value.
LEMMA ValueTypes ==
  /\ Garbage \in Vals /\ Partial \in Vals
  /\ \A a \in Addrs : MemVal(a) \in Vals
  /\ \A t \in SymTabs \cup {NoArg}, i \in SecIdx : RtVal(t, i) \in Vals
  /\ \A t \in SymTabs \cup {NoArg}, y \in SecTypes : RtTypeVal(t, y) \in Vals
  /\ \A u \in UserIO, k \in IOKinds : UserVal(u, k) \in Vals
  BY DEF Vals, MemVal, RtVal, RtTypeVal, UserVal

\* The header fields of a section of the blob that values are made of.
LEMMA HeaderTypes ==
  ASSUME TypeOK, NEW r \in SecIdx
  PROVE  elf[r].sym \in SecIdx /\ elf[r].type \in SecTypes /\ elf[r].io \in IOKinds
  BY BlobsAssumption DEF TypeOK, Header

\* What applyRelocations resolves a symbol to is a value.
LEMMA SymValueType ==
  ASSUME TypeOK, NEW l \in Loaders, NEW r \in SecIdx
  PROVE  SymValue(l, r) \in Vals
<1> DEFINE q == elf[r].sym
<1>1. q \in SecIdx /\ elf[q].type \in SecTypes
  BY HeaderTypes
<1>2. mbr[l].symTab \in SymTabs \cup {NoArg}
  BY DEF TypeOK, Members
<1>3. dev[infer[l][q].buf] \in Addrs
  BY <1>1 DEF TypeOK, Entry
<1> HIDE DEF q
<1>4. /\ RtVal(mbr[l].symTab, q) \in Vals /\ MemVal(dev[infer[l][q].buf]) \in Vals
      /\ RtTypeVal(mbr[l].symTab, elf[q].type) \in Vals /\ Garbage \in Vals
  BY <1>1, <1>2, <1>3, ValueTypes
<1>5. \/ SymValue(l, r) = RtVal(mbr[l].symTab, q)
      \/ SymValue(l, r) = MemVal(dev[infer[l][q].buf])
      \/ SymValue(l, r) = RtTypeVal(mbr[l].symTab, elf[q].type)
      \/ SymValue(l, r) = Garbage
  BY DEF SymValue, q
<1> QED
  BY <1>4, <1>5

\* Looking up and locking the target of a relocation section keeps the types.
LEMMA TypeLock ==
  ASSUME TypeOK, ControlInv, NEW l \in Loaders, RelocLock(l) \/ JitLock(l)
  PROVE  TypeOK'
<1>1. PICK r \in SecIdx : Fetch(RelocReads(r))
  <2>1. relocIdx \in Seq(SecIdx) /\ jitIdx \in Seq(SecIdx) /\ ctl[l].pos \in Nat
    BY DEF TypeOK, Control
  <2>2. CASE RelocLock(l)
    <3>1. ctl[l].pos \in 1 .. Len(relocIdx)
      BY <2>1, <2>2 DEF RelocLock, ControlInv, ControlOK
    <3> QED
      BY <2>1, <2>2, <3>1 DEF RelocLock
  <2>3. CASE JitLock(l)
    <3>1. ctl[l].pos \in 1 .. Len(jitIdx)
      BY <2>1, <2>3 DEF JitLock, ControlInv, ControlOK
    <3> QED
      BY <2>1, <2>3, <3>1 DEF JitLock
  <2> QED
    BY <2>2, <2>3
<1>2. rd' \in ReaderState
  <2>1. RelocReads(r) \in SUBSET SecIdx
    BY DEF RelocReads, LinksSymtab
  <2> QED
    BY <1>1, <2>1, FetchType DEF TypeOK
<1>3. lock' = lock \/ \E b : lock' = Locked(b)
  BY DEF RelocLock, JitLock
<1>4. lock' \in [BufIds -> Int]
  BY <1>3, LockType DEF TypeOK
<1>5. \/ Throw(l)
      \/ /\ ctl' = [ctl EXCEPT ![l].pc = "relocPatch"] \/ ctl' = [ctl EXCEPT ![l].pc = "jitPatch"]
         /\ UNCHANGED <<infer, backup, mbr, io>>
  BY DEF RelocLock, JitLock
<1>6. "relocPatch" \in Pcs /\ "jitPatch" \in Pcs
  BY DEF Pcs
<1>7. /\ infer' \in [Loaders -> [SecIdx -> Entry]] /\ backup' \in [Loaders -> [SecIdx -> Entry]]
      /\ mbr' \in [Loaders -> Members] /\ ctl' \in [Loaders -> Control]
      /\ io' \in [Loaders -> UserIO \cup {NoIO, Broken}]
  <2>1. /\ [ctl EXCEPT ![l].pc = "relocPatch"] \in [Loaders -> Control]
        /\ [ctl EXCEPT ![l].pc = "jitPatch"] \in [Loaders -> Control]
    BY <1>6, UpdateControl DEF TypeOK
  <2>2. CASE Throw(l)
    BY <2>2, ThrowType
  <2> QED
    BY <1>5, <2>1, <2>2 DEF TypeOK
<1>8. UNCHANGED <<elf, indexes, mem, dev, bounds>>
  BY DEF RelocLock, JitLock
<1> QED
  BY <1>2, <1>4, <1>7, <1>8 DEF TypeOK, indexes, bounds

\* Applying the entries of one relocation section keeps the types.
LEMMA TypePatch ==
  ASSUME TypeOK, ControlInv, PatchInv, NEW l \in Loaders, RelocPatch(l) \/ JitPatch(l)
  PROVE  TypeOK'
<1>1. PICK r \in SecIdx, v \in Vals :
         /\ ~NoTarget(l, r)
         /\ mem' = [mem EXCEPT ![TargetBuf(l, r)] = Patch(@, r, v)]
  <2>1. relocIdx \in Seq(SecIdx) /\ jitIdx \in Seq(SecIdx) /\ ctl[l].pos \in Nat
    BY DEF TypeOK, Control
  <2>2. CASE RelocPatch(l)
    <3> DEFINE r == relocIdx[ctl[l].pos]
    <3>1. ctl[l].pos \in 1 .. Len(relocIdx) /\ ~NoTarget(l, r)
      BY <2>1, <2>2 DEF RelocPatch, ControlInv, ControlOK, PatchInv, PatchOK
    <3>2. r \in SecIdx
      BY <2>1, <3>1
    <3>3. \/ mem' = [mem EXCEPT ![TargetBuf(l, r)] = Patch(@, r, Partial)]
          \/ mem' = [mem EXCEPT ![TargetBuf(l, r)] = Patch(@, r, SymValue(l, r))]
      BY <2>2 DEF RelocPatch
    <3> HIDE DEF r
    <3> QED
      BY <3>1, <3>2, <3>3, SymValueType, ValueTypes
  <2>3. CASE JitPatch(l)
    <3> DEFINE r == jitIdx[ctl[l].pos]
    <3>1. ctl[l].pos \in 1 .. Len(jitIdx) /\ ~NoTarget(l, r) /\ ctl[l].arg \in UserIO
      BY <2>1, <2>3 DEF JitPatch, ControlInv, ControlOK, PatchInv, PatchOK
    <3>2. r \in SecIdx
      BY <2>1, <3>1
    <3>3. \/ mem' = [mem EXCEPT ![TargetBuf(l, r)] = Patch(@, r, Partial)]
          \/ mem' = [mem EXCEPT ![TargetBuf(l, r)] = Patch(@, r, UserVal(ctl[l].arg, elf[r].io))]
      BY <2>3 DEF JitPatch
    <3> HIDE DEF r
    <3>4. UserVal(ctl[l].arg, elf[r].io) \in Vals /\ Partial \in Vals
      BY <3>1, <3>2, HeaderTypes, ValueTypes
    <3> QED
      BY <3>1, <3>2, <3>3, <3>4
  <2> QED
    BY <2>2, <2>3
<1>2. mem' \in [BufIds -> Contents]
  <2>1. TargetBuf(l, r) \in BufIds
    BY <1>1 DEF NoTarget, Has, TargetBuf, TypeOK, Entry
  <2>2. Patch(mem[TargetBuf(l, r)], r, v) \in Contents
    BY <2>1, PatchType DEF TypeOK
  <2> QED
    BY <1>1, <2>1, <2>2 DEF TypeOK
<1>3. \E b : lock' = Unlocked(b)
  BY DEF RelocPatch, JitPatch
<1>4. lock' \in [BufIds -> Int]
  BY <1>3, LockType DEF TypeOK
<1>5. \/ Throw(l)
      \/ /\ \E p \in {"reloc", "jit"} : ctl' = [ctl EXCEPT ![l] = MoveTo(@, p, ctl[l].pos + 1)]
         /\ UNCHANGED <<infer, backup, mbr, io>>
  BY DEF RelocPatch, JitPatch
<1>6. \A p \in {"reloc", "jit"} :
         [ctl EXCEPT ![l] = MoveTo(@, p, ctl[l].pos + 1)] \in [Loaders -> Control]
  <2>1. {"reloc", "jit"} \subseteq Pcs
    BY DEF Pcs
  <2>2. ctl[l].pos + 1 \in Nat /\ ctl \in [Loaders -> Control]
    BY DEF TypeOK, Control
  <2> QED
    BY <2>1, <2>2, UpdateControl
<1>7. /\ infer' \in [Loaders -> [SecIdx -> Entry]] /\ backup' \in [Loaders -> [SecIdx -> Entry]]
      /\ mbr' \in [Loaders -> Members] /\ ctl' \in [Loaders -> Control]
      /\ io' \in [Loaders -> UserIO \cup {NoIO, Broken}]
  BY <1>5, <1>6, ThrowType DEF TypeOK
<1>8. UNCHANGED <<elf, indexes, rd, dev, bounds>>
  BY DEF RelocPatch, JitPatch
<1> QED
  BY <1>2, <1>4, <1>7, <1>8 DEF TypeOK, indexes, bounds

\* A read that throws keeps the types.
LEMMA TypeReadThrows ==
  ASSUME TypeOK, NEW l \in Loaders, ReadThrows(l)
  PROVE  TypeOK'
<1>1. faults' \in 0 .. MaxFaults
  BY BoundsAssumption DEF ReadThrows, TypeOK
<1> QED
  BY <1>1, ThrowType DEF ReadThrows, TypeOK, indexes, buffers

\* copyBufferMap yields a well-typed map.
LEMMA CopyMapType ==
  ASSUME NEW l \in Loaders, NEW f \in [SecIdx -> Entry], NEW g \in [SecIdx -> Entry]
  PROVE  copyBufferMap(l, f, g) \in [SecIdx -> Entry]
<1>1. \A s \in SecIdx : CopiedEntry(l, s, g[s]) \in Entry
  <2> TAKE s \in SecIdx
  <2>1. OwnBuf(l, s) \in BufIds /\ g[s] \in Entry
    BY BufTypes
  <2>2. [g[s] EXCEPT !.buf = OwnBuf(l, s)] \in Entry
    BY <2>1 DEF Entry
  <2> QED
    BY <2>1, <2>2 DEF CopiedEntry
<1> QED
  BY <1>1 DEF copyBufferMap

\* A copy keeps the types.
LEMMA TypeCopy ==
  ASSUME TypeOK, NEW l \in Loaders, NEW m \in Loaders, NEW o \in Ops,
         NEW t \in SymTabs \cup {NoArg}, CopyInto(l, m, o, t)
  PROVE  TypeOK'
<1> DEFINE inferMap == copyBufferMap(l, infer[l], infer[m])
<1>1. inferMap \in [SecIdx -> Entry] /\ copyBufferMap(l, backup[l], backup[m]) \in [SecIdx -> Entry]
  BY CopyMapType DEF TypeOK
<1>2. /\ infer' = [infer EXCEPT ![l] = inferMap]
      /\ backup' = [backup EXCEPT ![l] = copyBufferMap(l, backup[l], backup[m])]
      /\ mbr' = [mbr EXCEPT ![l] = [mbr[m] EXCEPT !.symTab = t]]
      /\ ctl' = [ctl EXCEPT ![l] = At("reload", o, 0, Reloaded(inferMap), NoArg)]
      /\ mem' \in [BufIds -> {Blank} \cup {mem[b] : b \in BufIds}]
      /\ dev' \in [BufIds -> {NullAddr} \cup BufIds \cup {dev[b] : b \in BufIds}]
      /\ UNCHANGED <<elf, indexes, rd, io, lock, bounds>>
  BY DEF CopyInto
<1> HIDE DEF inferMap
<1>3. infer' \in [Loaders -> [SecIdx -> Entry]] /\ backup' \in [Loaders -> [SecIdx -> Entry]]
  BY <1>1, <1>2 DEF TypeOK
<1>4. mbr' \in [Loaders -> Members]
  <2>1. [mbr[m] EXCEPT !.symTab = t] \in Members
    BY DEF TypeOK, Members
  <2> QED
    BY <1>2, <2>1 DEF TypeOK
<1>5. ctl' \in [Loaders -> Control]
  <2>1. At("reload", o, 0, Reloaded(inferMap), NoArg) \in Control
    BY SecIdxFacts DEF At, Control, Pcs, Reloaded
  <2> QED
    BY <1>2, <2>1 DEF TypeOK
<1>6. mem' \in [BufIds -> Contents]
  <2>1. {Blank} \cup {mem[b] : b \in BufIds} \subseteq Contents
    BY ConstantTypes DEF TypeOK
  <2> QED
    BY <1>2, <2>1
<1>7. dev' \in [BufIds -> Addrs]
  <2>1. NullAddr \in Addrs /\ BufIds \subseteq Addrs
    BY SecIdxFacts DEF Addrs, BufIds, NullAddr, Tags
  <2>2. {NullAddr} \cup BufIds \cup {dev[b] : b \in BufIds} \subseteq Addrs
    BY <2>1 DEF TypeOK
  <2> QED
    BY <1>2, <2>2
<1> QED
  BY <1>2, <1>3, <1>4, <1>5, <1>6, <1>7 DEF TypeOK, indexes, bounds

\* Restoring the image of a copy, or of a loader that gets new scratch.
LEMMA TypeReload ==
  ASSUME TypeOK, ControlInv, NEW l \in Loaders,
         \/ \E s \in SecIdx : ReloadLock(l, s)
         \/ ReloadCopy(l) \/ ReloadDone(l)
  PROVE  TypeOK'
<1>1. ASSUME NEW s \in SecIdx, ReloadLock(l, s) PROVE TypeOK'
  <2>1. [ctl EXCEPT ![l] = Holding(@, s)] \in [Loaders -> Control]
    BY ReloadFields DEF TypeOK
  <2>2. ctl' = [ctl EXCEPT ![l] = Holding(@, s)] /\ lock' = Locked(backup[l][s].buf)
    BY <1>1 DEF ReloadLock
  <2>3. lock' \in [BufIds -> Int]
    BY <2>2, LockType DEF TypeOK
  <2> QED
    BY <1>1, <2>1, <2>2, <2>3 DEF ReloadLock, TypeOK, indexes, bounds
<1>2. CASE ReloadCopy(l)
  <2> DEFINE s == ctl[l].cur
  <2>1. s \in SecIdx
    BY DEF TypeOK, Control
  <2>2. /\ ctl' = [ctl EXCEPT ![l] = Restored(@, s)] /\ lock' = Unlocked(backup[l][s].buf)
        /\ mem' = [mem EXCEPT ![infer[l][s].buf] = mem[backup[l][s].buf]]
    BY <1>2 DEF ReloadCopy
  <2> HIDE DEF s
  <2>3. [ctl EXCEPT ![l] = Restored(@, s)] \in [Loaders -> Control]
    BY <2>1, ReloadFields DEF TypeOK
  <2>4. lock' \in [BufIds -> Int]
    BY <2>2, LockType DEF TypeOK
  <2>5. mem' \in [BufIds -> Contents]
    BY <2>1, <2>2 DEF TypeOK, Entry
  <2> QED
    BY <1>2, <2>2, <2>3, <2>4, <2>5 DEF ReloadCopy, TypeOK, indexes, bounds
<1>3. CASE ReloadDone(l)
  <2>1. ctl' \in [Loaders -> Control]
    <3>1. "reloc" \in Pcs /\ ctl \in [Loaders -> Control]
      BY DEF Pcs, TypeOK
    <3>2. [ctl EXCEPT ![l] = MoveTo(@, "reloc", 1)] \in [Loaders -> Control]
      BY <3>1, UpdateControl
    <3> QED
      BY <1>3, <3>2 DEF ReloadDone
  <2>2. \A b \in ResetBufs(l) : b \in BufIds => <<ctl[l].arg, b[2]>> \in Addrs
    BY DEF ResetBufs, ControlInv, ControlOK, Addrs, BufIds
  <2>3. dev' \in [BufIds -> Addrs]
    BY <1>3, <2>2 DEF ReloadDone, TypeOK
  <2> QED
    BY <1>3, <2>1, <2>3 DEF ReloadDone, TypeOK, indexes, bounds
<1> QED
  BY <1>1, <1>2, <1>3

\* Starting updateSharedScratchBuffers or applyJitRelocations keeps the types.
LEMMA TypeStart ==
  ASSUME TypeOK, NEW l \in Loaders,
         \/ \E a \in ScratchSets : UpdateSharedScratchBuffers(l, a)
         \/ \E u \in UserIO : ApplyJitRelocations(l, u)
  PROVE  TypeOK'
<1>1. ASSUME NEW a \in ScratchSets, UpdateSharedScratchBuffers(l, a) PROVE TypeOK'
  <2>1. At("reload", "scratch", 0, RestoredForScratch(l), a) \in Control
    BY SecIdxFacts DEF At, Control, Pcs, Ops, RestoredForScratch, Reloaded
  <2> QED
    BY <1>1, <2>1 DEF UpdateSharedScratchBuffers, TypeOK, indexes, buffers, bounds
<1>2. ASSUME NEW u \in UserIO, ApplyJitRelocations(l, u) PROVE TypeOK'
  <2>1. At("jit", "jit", 1, {}, u) \in Control
    BY SecIdxFacts DEF At, Control, Pcs, Ops
  <2> QED
    BY <1>2, <2>1 DEF ApplyJitRelocations, TypeOK, indexes, buffers, bounds
<1> QED
  BY <1>1, <1>2

-----------------------------------------------------------------------------
(* TypeOK is inductive together with ControlInv and PatchInv. *)

\* Every step keeps TypeOK.
LEMMA TypeStep ==
  ASSUME TypeOK, ControlInv, PatchInv, [Next]_vars
  PROVE  TypeOK'
<1>1. CASE UNCHANGED vars
  BY <1>1 DEF vars, TypeOK
<1>2. CASE DeleteAccessor
  <2>1. PICK l \in Loaders : TRUE
    BY <1>2 DEF DeleteAccessor
  <2> QED
    BY <1>2, <2>1, TypeClient
<1>3. ASSUME NEW l \in Loaders, LoadStep(l) PROVE TypeOK'
  BY <1>3, TypeLoadProgbits, TypeLoadNobits, TypeLoadRela, TypeLoadSymtab, TypeLoadOther,
     TypeUpdateSharedBuffers, TypeLoadSharedBuffer, TypeLoadOwnBuffer, TypeDone DEF LoadStep
<1>4. ASSUME NEW l \in Loaders, PatchStep(l) PROVE TypeOK'
  BY <1>4, TypeLock, TypePatch, TypeDone, TypeReload, TypeReadThrows DEF PatchStep
<1>5. ASSUME NEW l \in Loaders, ClientStep(l) PROVE TypeOK'
  <2>1. ASSUME NEW m \in Loaders, NEW t \in SymTabs, Clone(l, m, t) PROVE TypeOK'
    BY <2>1, TypeCopy DEF Clone, Ops
  <2>2. ASSUME NEW m \in Loaders, Assign(l, m) PROVE TypeOK'
    <3>1. mbr[m].symTab \in SymTabs \cup {NoArg}
      BY DEF TypeOK, Members
    <3> QED
      BY <2>2, <3>1, TypeCopy DEF Assign, Ops
  <2> QED
    BY <1>5, <2>1, <2>2, TypeClient, TypeStart DEF ClientStep
<1> QED
  BY <1>1, <1>2, <1>3, <1>4, <1>5 DEF Next

-----------------------------------------------------------------------------
(* Isolation and pristine images *)

\* What a step of one loader leaves alone.
Frame(l) ==
    /\ elf' = elf
    /\ \A k \in Loaders : k # l => ctl'[k] = ctl[k] /\ infer'[k] = infer[k] /\ mbr'[k] = mbr[k]

Step(l) == LoadStep(l) \/ PatchStep(l) \/ ClientStep(l)

\* An exception of one loader leaves the other loaders alone.
LEMMA ThrowFrame ==
  ASSUME TypeOK, NEW l \in Loaders, Throw(l), elf' = elf
  PROVE  Frame(l)
  BY DEF Throw, Release, Frame, TypeOK

\* A step of one loader leaves the control, maps and members of the others alone.
LEMMA StepFrame ==
  ASSUME TypeOK, NEW l \in Loaders, Step(l)
  PROVE  Frame(l)
<1>1. CASE LoadStep(l)
  <2>1. elf' = elf
    BY <1>1 DEF LoadStep, LoadProgbits, LoadNobits, LoadRela, LoadSymtab, LoadOther, SectionsDone,
       UpdateSharedBuffers, SharingDone, LoadSharedBuffer, LoadOwnBuffer, BuffersLoaded
  <2>2. \A k \in Loaders : k # l => ctl'[k] = ctl[k]
    BY <1>1 DEF TypeOK, LoadStep, LoadProgbits, LoadNobits, LoadRela, LoadSymtab, LoadOther, SectionsDone,
       UpdateSharedBuffers, SharingDone, LoadSharedBuffer, LoadOwnBuffer, BuffersLoaded, NextSection, AbortLoad
  <2>3. \A k \in Loaders : k # l => infer'[k] = infer[k]
    BY <1>1 DEF TypeOK, LoadStep, LoadProgbits, LoadNobits, LoadRela, LoadSymtab, LoadOther, SectionsDone,
       UpdateSharedBuffers, SharingDone, LoadSharedBuffer, LoadOwnBuffer, BuffersLoaded
  <2>4. \A k \in Loaders : k # l => mbr'[k] = mbr[k]
    BY <1>1 DEF TypeOK, LoadStep, LoadProgbits, LoadNobits, LoadRela, LoadSymtab, LoadOther, SectionsDone,
       UpdateSharedBuffers, SharingDone, LoadSharedBuffer, LoadOwnBuffer, BuffersLoaded
  <2> QED
    BY <2>1, <2>2, <2>3, <2>4 DEF Frame
<1>2. CASE PatchStep(l)
  <2>1. CASE RelocLock(l) \/ JitLock(l)
    <3>1. elf' = elf /\ (Throw(l) \/ (UNCHANGED <<infer, mbr>> /\ \E p : ctl' = [ctl EXCEPT ![l].pc = p]))
      BY <2>1 DEF RelocLock, JitLock
    <3> QED
      BY <3>1, ThrowFrame DEF Frame, TypeOK
  <2>2. CASE RelocPatch(l) \/ JitPatch(l)
    <3>1. elf' = elf /\ (Throw(l) \/ (UNCHANGED <<infer, mbr>> /\ \E c : ctl' = [ctl EXCEPT ![l] = c]))
      BY <2>2 DEF RelocPatch, JitPatch
    <3> QED
      BY <3>1, ThrowFrame DEF Frame, TypeOK
  <2>3. CASE RelocDone(l) \/ JitDone(l)
    BY <2>3 DEF RelocDone, JitDone, Frame, TypeOK
  <2>4. CASE (\E s \in SecIdx : ReloadLock(l, s)) \/ ReloadCopy(l) \/ ReloadDone(l)
    BY <2>4 DEF ReloadLock, ReloadCopy, ReloadDone, Frame, TypeOK
  <2>5. CASE ReadThrows(l)
    BY <2>5, ThrowFrame DEF ReadThrows
  <2> QED
    BY <1>2, <2>1, <2>2, <2>3, <2>4, <2>5 DEF PatchStep
<1>3. CASE ClientStep(l)
  <2>1. CASE Construct(l) \/ Destroy(l) \/ \E b \in BOOLEAN : SetInferencesMayBeRunInParallel(l, b)
    BY <2>1 DEF Construct, Destroy, SetInferencesMayBeRunInParallel, Release, Frame, TypeOK
  <2>2. CASE \E t \in SymTabs : StartLoad(l, t)
    BY <2>2 DEF StartLoad, Frame, TypeOK
  <2>3. CASE \E m \in Loaders, o \in Ops : \E t : CopyInto(l, m, o, t)
    BY <2>3 DEF CopyInto, Frame, TypeOK
  <2>4. CASE (\E a \in ScratchSets : UpdateSharedScratchBuffers(l, a))
             \/ \E u \in UserIO : ApplyJitRelocations(l, u)
    BY <2>4 DEF UpdateSharedScratchBuffers, ApplyJitRelocations, Frame, TypeOK
  <2> QED
    BY <1>3, <2>1, <2>2, <2>3, <2>4 DEF ClientStep, Clone, Assign, Ops
<1> QED
  BY <1>1, <1>2, <1>3 DEF Step

-----------------------------------------------------------------------------
(* ControlInv *)

\* A loader between calls, or not there, satisfies ControlOK.
LEMMA IdleOK ==
  ASSUME NEW m, NEW map
  PROVE  ControlOK(Idle, m, map) /\ ControlOK(Absent, m, map)
  BY DEF ControlOK, Idle, Absent, At

\* After an exception a loader is between calls, or not there.
LEMMA ThrowControl ==
  ASSUME TypeOK, NEW l \in Loaders, Throw(l)
  PROVE  ctl'[l] \in {Idle, Absent}
  BY DEF Throw, Release, TypeOK

\* The steps of load() keep ControlOK for the loader that takes them.
LEMMA ControlLoad ==
  ASSUME TypeOK, ControlInv, NEW l \in Loaders, LoadStep(l)
  PROVE  ControlOK(ctl'[l], mbr'[l], infer'[l])
<1> DEFINE c == ctl[l]
<1>0. c \in Control /\ ctl \in [Loaders -> Control] /\ mbr \in [Loaders -> Members]
  BY DEF TypeOK
<1>1. ControlOK(c, mbr[l], infer[l])
  BY DEF ControlInv
<1>2. CASE LoadProgbits(l) \/ LoadNobits(l) \/ LoadRela(l) \/ LoadSymtab(l) \/ LoadOther(l)
  <2>1. c.pc = "section"
    BY <1>2 DEF LoadProgbits, LoadNobits, LoadRela, LoadSymtab, LoadOther, AtSection
  <2>2. ctl' = [ctl EXCEPT ![l].pos = @ + 1] \/ ctl' = [ctl EXCEPT ![l] = Idle]
    BY <1>2 DEF LoadProgbits, LoadNobits, LoadRela, LoadSymtab, LoadOther, NextSection, AbortLoad
  <2>3. mbr'[l].loaded = mbr[l].loaded
    <3>1. mbr' = mbr \/ \E q : mbr' = [mbr EXCEPT ![l].scratch = q]
      BY <1>2 DEF LoadProgbits, LoadNobits, LoadRela, LoadSymtab, LoadOther
    <3> QED
      BY <1>0, <3>1 DEF Members
  <2>4. ctl'[l] = Idle \/ (ctl'[l].pc = "section" /\ ctl'[l].op = c.op /\ ctl'[l].arg = c.arg)
    BY <1>0, <2>1, <2>2 DEF Control
  <2> QED
    BY <1>1, <2>1, <2>3, <2>4, IdleOK DEF ControlOK
<1>3. CASE SectionsDone(l)
  <2>1. ctl'[l] = MoveTo(c, "share", 1) /\ c.pc = "section" /\ mbr' = mbr
    BY <1>0, <1>3 DEF SectionsDone
  <2>2. ctl'[l].pc = "share" /\ ctl'[l].pos = 1 /\ ctl'[l].op = c.op /\ ctl'[l].arg = c.arg
    <3>1. "share" \in Pcs /\ "reloc" \in Pcs
      BY DEF Pcs
    <3> QED
      BY <1>0, <2>1, <3>1, MoveFields
  <2> QED
    BY <1>1, <2>1, <2>2 DEF ControlOK
<1>4. CASE UpdateSharedBuffers(l)
  <2>1. ctl' = [ctl EXCEPT ![l].pos = @ + 1] \/ ctl' = [ctl EXCEPT ![l] = Idle]
    BY <1>4 DEF UpdateSharedBuffers, NextSection, AbortLoad
  <2>2. c.pc = "share" /\ mbr' = mbr
    BY <1>4 DEF UpdateSharedBuffers
  <2>3. \/ ctl'[l] = Idle
        \/ ctl'[l].pc = "share" /\ ctl'[l].op = c.op /\ ctl'[l].arg = c.arg /\ ctl'[l].pos = c.pos + 1
    BY <1>0, <2>1, <2>2 DEF Control
  <2> QED
    BY <1>0, <1>1, <2>2, <2>3, IdleOK DEF ControlOK, Control
<1>5. CASE SharingDone(l)
  <2>1. ctl'[l].pc = "buffers" /\ ctl'[l].op = c.op /\ ctl'[l].arg = c.arg /\ c.pc = "share" /\ mbr' = mbr
    BY <1>0, <1>5 DEF SharingDone, Control
  <2> QED
    BY <1>1, <2>1 DEF ControlOK
<1>6. ASSUME NEW s \in SecIdx, LoadSharedBuffer(l, s) \/ LoadOwnBuffer(l, s)
      PROVE  ControlOK(ctl'[l], mbr'[l], infer'[l])
  <2>1. c.pc = "buffers" /\ mbr' = mbr /\ (ctl' = ctl \/ ctl' = [ctl EXCEPT ![l] = Idle])
    BY <1>6 DEF LoadSharedBuffer, LoadOwnBuffer, AbortLoad
  <2> QED
    BY <1>0, <1>1, <2>1, IdleOK DEF ControlOK
<1>7. CASE BuffersLoaded(l)
  <2>1. ctl'[l] = MoveTo(c, "reloc", 1) \/ ctl'[l] = Idle
    BY <1>0, <1>7 DEF BuffersLoaded
  <2>2. ctl'[l] = Idle \/ (ctl'[l].pc = "reloc" /\ ctl'[l].pos = 1 /\ ctl'[l].op = c.op /\ ctl'[l].arg = c.arg)
    <3>1. "share" \in Pcs /\ "reloc" \in Pcs
      BY DEF Pcs
    <3> QED
      BY <1>0, <2>1, <3>1, MoveFields
  <2> QED
    BY <1>1, <2>2, IdleOK DEF ControlOK
<1> QED
  BY <1>2, <1>3, <1>4, <1>5, <1>6, <1>7 DEF LoadStep

\* The steps of relocating and reloading keep ControlOK.
LEMMA ControlPatch ==
  ASSUME TypeOK, ControlInv, NEW l \in Loaders, PatchStep(l)
  PROVE  ControlOK(ctl'[l], mbr'[l], infer'[l])
<1> DEFINE c == ctl[l]
<1>0. c \in Control /\ ctl \in [Loaders -> Control]
  BY DEF TypeOK
<1>1. ControlOK(c, mbr[l], infer[l])
  BY DEF ControlInv
<1>2. CASE RelocLock(l) \/ JitLock(l)
  <2>1. \/ Throw(l)
        \/ c.pc = "reloc" /\ ctl' = [ctl EXCEPT ![l].pc = "relocPatch"]
        \/ c.pc = "jit" /\ ctl' = [ctl EXCEPT ![l].pc = "jitPatch"]
    BY <1>2 DEF RelocLock, JitLock
  <2>2. \/ ctl'[l] \in {Idle, Absent}
        \/ /\ \/ c.pc = "reloc" /\ ctl'[l].pc = "relocPatch"
              \/ c.pc = "jit" /\ ctl'[l].pc = "jitPatch"
           /\ ctl'[l].op = c.op /\ ctl'[l].arg = c.arg /\ ctl'[l].pos = c.pos
    BY <1>0, <2>1, ThrowControl DEF Control
  <2> QED
    BY <1>1, <2>2, IdleOK DEF ControlOK
<1>3. CASE RelocPatch(l) \/ JitPatch(l)
  <2>1. \/ Throw(l)
        \/ c.pc = "relocPatch" /\ ctl'[l] = MoveTo(c, "reloc", c.pos + 1)
        \/ c.pc = "jitPatch" /\ ctl'[l] = MoveTo(c, "jit", c.pos + 1)
    BY <1>0, <1>3 DEF RelocPatch, JitPatch
  <2>2. c.pos + 1 \in Nat /\ c.pos + 1 >= 1 /\ "reloc" \in Pcs /\ "jit" \in Pcs
    BY <1>0 DEF Control, Pcs
  <2>3. \/ ctl'[l] \in {Idle, Absent}
        \/ /\ \/ c.pc = "relocPatch" /\ ctl'[l].pc = "reloc"
              \/ c.pc = "jitPatch" /\ ctl'[l].pc = "jit"
           /\ ctl'[l].op = c.op /\ ctl'[l].arg = c.arg /\ ctl'[l].pos = c.pos + 1
    BY <1>0, <2>1, <2>2, ThrowControl, MoveFields
  <2> QED
    BY <1>1, <2>2, <2>3, IdleOK DEF ControlOK
<1>4. CASE RelocDone(l) \/ JitDone(l)
  BY <1>0, <1>4, IdleOK DEF RelocDone, JitDone
<1>5. ASSUME NEW s \in SecIdx, ReloadLock(l, s) PROVE ControlOK(ctl'[l], mbr'[l], infer'[l])
  <2>1. ctl'[l] = Holding(c, s) /\ c.pc = "reload" /\ s \in c.todo /\ UNCHANGED <<infer, mbr>>
    BY <1>0, <1>5 DEF ReloadLock
  <2>2. /\ ctl'[l].pc = "reloadCopy" /\ ctl'[l].cur = s /\ ctl'[l].todo = c.todo
        /\ ctl'[l].op = c.op /\ ctl'[l].arg = c.arg
    BY <1>0, <2>1, ReloadFields
  <2> QED
    BY <1>1, <2>1, <2>2 DEF ControlOK
<1>6. CASE ReloadCopy(l)
  <2>1. ctl'[l] = Restored(c, c.cur) /\ c.pc = "reloadCopy" /\ UNCHANGED <<infer, mbr>> /\ c.cur \in SecIdx
    BY <1>0, <1>6 DEF ReloadCopy, Control
  <2>2. /\ ctl'[l].pc = "reload" /\ ctl'[l].todo = c.todo \ {c.cur}
        /\ ctl'[l].op = c.op /\ ctl'[l].arg = c.arg
    BY <1>0, <2>1, ReloadFields
  <2> QED
    BY <1>1, <2>1, <2>2 DEF ControlOK
<1>7. CASE ReloadDone(l)
  <2>1. ctl'[l] = MoveTo(c, "reloc", 1)
    BY <1>0, <1>7 DEF ReloadDone
  <2>2. ctl'[l].pc = "reloc" /\ ctl'[l].pos = 1 /\ ctl'[l].op = c.op /\ ctl'[l].arg = c.arg
    <3>1. "share" \in Pcs /\ "reloc" \in Pcs
      BY DEF Pcs
    <3> QED
      BY <1>0, <2>1, <3>1, MoveFields
  <2> QED
    BY <1>1, <2>2 DEF ControlOK
<1>8. CASE ReadThrows(l)
  BY <1>8, ThrowControl, IdleOK DEF ReadThrows
<1> QED
  BY <1>2, <1>3, <1>4, <1>5, <1>6, <1>7, <1>8 DEF PatchStep

\* Starting, ending and copying keep ControlOK.
LEMMA ControlClient ==
  ASSUME TypeOK, ControlInv, NEW l \in Loaders, ClientStep(l)
  PROVE  ControlOK(ctl'[l], mbr'[l], infer'[l])
<1>0. ctl \in [Loaders -> Control] /\ mbr \in [Loaders -> Members]
      /\ infer \in [Loaders -> [SecIdx -> Entry]]
  BY DEF TypeOK
<1>1. CASE Construct(l) \/ Destroy(l)
  BY <1>0, <1>1, IdleOK DEF Construct, Destroy, Release
<1>2. ASSUME NEW b \in BOOLEAN, SetInferencesMayBeRunInParallel(l, b)
      PROVE  ControlOK(ctl'[l], mbr'[l], infer'[l])
  <2>1. ctl'[l] = ctl[l] /\ infer'[l] = infer[l] /\ ctl[l].pc = "idle"
    BY <1>2 DEF SetInferencesMayBeRunInParallel
  <2> QED
    BY <2>1 DEF ControlOK, ControlInv
<1>3. ASSUME NEW t \in SymTabs, StartLoad(l, t) PROVE ControlOK(ctl'[l], mbr'[l], infer'[l])
  <2>1. mbr'[l].loaded = mbr[l].loaded /\ ~mbr[l].loaded
    BY <1>0, <1>3 DEF StartLoad, Members
  <2> QED
    BY <1>0, <1>3, <2>1 DEF StartLoad, ControlOK, At
<1>4. ASSUME NEW m \in Loaders, NEW o \in {"clone", "assign"}, NEW t, CopyInto(l, m, o, t)
      PROVE  ControlOK(ctl'[l], mbr'[l], infer'[l])
  BY <1>0, <1>4 DEF CopyInto, ControlOK, At, Reloaded
<1>5. ASSUME NEW a \in ScratchSets, UpdateSharedScratchBuffers(l, a)
      PROVE  ControlOK(ctl'[l], mbr'[l], infer'[l])
  BY <1>0, <1>5 DEF UpdateSharedScratchBuffers, ControlOK, At, RestoredForScratch, Reloaded
<1>6. ASSUME NEW u \in UserIO, ApplyJitRelocations(l, u)
      PROVE  ControlOK(ctl'[l], mbr'[l], infer'[l])
  BY <1>0, <1>6 DEF ApplyJitRelocations, ControlOK, At
<1> QED
  BY <1>1, <1>2, <1>3, <1>4, <1>5, <1>6 DEF ClientStep, Clone, Assign

\* Every step of a loader keeps ControlInv.
LEMMA ControlStep ==
  ASSUME TypeOK, ControlInv, NEW l \in Loaders, Step(l)
  PROVE  ControlInv'
<1>1. ControlOK(ctl'[l], mbr'[l], infer'[l])
  BY ControlLoad, ControlPatch, ControlClient DEF Step
<1>2. Frame(l)
  BY StepFrame
<1> QED
  BY <1>1, <1>2 DEF ControlInv, Frame

-----------------------------------------------------------------------------
(* Where a loader is after a step *)

SectionStep(l) ==
    LoadProgbits(l) \/ LoadNobits(l) \/ LoadRela(l) \/ LoadSymtab(l) \/ LoadOther(l)
BufferStep(l) == \E s \in SecIdx : LoadSharedBuffer(l, s) \/ LoadOwnBuffer(l, s)

\* Where a loader is after each step of load().
LEMMA LoadPc ==
  ASSUME TypeOK, NEW l \in Loaders
  PROVE  /\ SectionStep(l) => /\ ctl[l].pc = "section" /\ ctl[l].pos \in SecIdx
                              /\ \/ ctl'[l] = Idle
                                 \/ ctl'[l].pc = "section" /\ ctl'[l].pos = ctl[l].pos + 1
         /\ SectionsDone(l) => /\ ctl[l].pc = "section" /\ ctl[l].pos = NumSections
                               /\ ctl'[l].pc = "share" /\ ctl'[l].pos = 1
         /\ UpdateSharedBuffers(l) => \/ ctl'[l] = Idle
                                      \/ ctl'[l].pc = "share" /\ ctl'[l].pos = ctl[l].pos + 1
         /\ SharingDone(l) => ctl'[l].pc = "buffers"
         /\ BufferStep(l) => ctl[l].pc = "buffers" /\ ctl'[l].pc \in {"buffers", "idle"}
         /\ BuffersLoaded(l) => ctl'[l].pc \in {"reloc", "idle"}
<1>0. ctl[l] \in Control /\ ctl \in [Loaders -> Control] /\ Idle.pc = "idle"
  BY DEF TypeOK, Idle, At
<1>1. ASSUME SectionStep(l)
      PROVE  /\ ctl[l].pc = "section" /\ ctl[l].pos \in SecIdx
             /\ \/ ctl'[l] = Idle
                \/ ctl'[l].pc = "section" /\ ctl'[l].pos = ctl[l].pos + 1
  <2>1. ctl[l].pc = "section" /\ ctl[l].pos < NumSections
    BY <1>1 DEF SectionStep, LoadProgbits, LoadNobits, LoadRela, LoadSymtab, LoadOther, AtSection
  <2>2. ctl' = [ctl EXCEPT ![l].pos = @ + 1] \/ ctl' = [ctl EXCEPT ![l] = Idle]
    BY <1>1 DEF SectionStep, LoadProgbits, LoadNobits, LoadRela, LoadSymtab, LoadOther,
       NextSection, AbortLoad
  <2>3. ctl[l].pos \in SecIdx
    BY <1>0, <2>1, SecIdxFacts DEF Control
  <2> QED
    BY <1>0, <2>1, <2>2, <2>3 DEF Control
<1>2. ASSUME SectionsDone(l)
      PROVE  ctl[l].pc = "section" /\ ctl[l].pos = NumSections /\ ctl'[l].pc = "share" /\ ctl'[l].pos = 1
  <2>1. ctl'[l] = MoveTo(ctl[l], "share", 1) /\ "share" \in Pcs
    BY <1>0, <1>2 DEF SectionsDone, Pcs
  <2> QED
    BY <1>0, <1>2, <2>1, MoveFields DEF SectionsDone
<1>3. ASSUME UpdateSharedBuffers(l)
      PROVE  ctl'[l] = Idle \/ (ctl'[l].pc = "share" /\ ctl'[l].pos = ctl[l].pos + 1)
  <2>1. ctl' = [ctl EXCEPT ![l].pos = @ + 1] \/ ctl' = [ctl EXCEPT ![l] = Idle]
    BY <1>3 DEF UpdateSharedBuffers, NextSection, AbortLoad
  <2> QED
    BY <1>0, <1>3, <2>1 DEF UpdateSharedBuffers, Control
<1>4. SharingDone(l) => ctl'[l].pc = "buffers"
  BY <1>0 DEF SharingDone, Control
<1>5. BufferStep(l) => ctl[l].pc = "buffers" /\ ctl'[l].pc \in {"buffers", "idle"}
  BY <1>0 DEF BufferStep, LoadSharedBuffer, LoadOwnBuffer, AbortLoad
<1>6. ASSUME BuffersLoaded(l) PROVE ctl'[l].pc \in {"reloc", "idle"}
  <2>1. (ctl'[l] = MoveTo(ctl[l], "reloc", 1) \/ ctl'[l] = Idle) /\ "reloc" \in Pcs
    BY <1>0, <1>6 DEF BuffersLoaded, Pcs
  <2> QED
    BY <1>0, <2>1, MoveFields
<1> QED
  BY <1>1, <1>2, <1>3, <1>4, <1>5, <1>6

\* Where a loader is after a step of relocating or reloading; when it starts to
\* patch.
LEMMA PatchPc ==
  ASSUME TypeOK, NEW l \in Loaders, PatchStep(l)
  PROVE  /\ ctl'[l].pc \in {"reloc", "relocPatch", "jit", "jitPatch", "reload", "reloadCopy", "idle", "absent"}
         /\ ctl'[l].pc = "relocPatch" =>
               /\ ctl[l].pos <= Len(relocIdx) /\ ~NoTarget(l, relocIdx[ctl[l].pos])
               /\ ctl'[l].pos = ctl[l].pos /\ infer' = infer
         /\ ctl'[l].pc = "jitPatch" =>
               /\ ctl[l].pos <= Len(jitIdx) /\ ~NoTarget(l, jitIdx[ctl[l].pos])
               /\ ctl'[l].pos = ctl[l].pos /\ infer' = infer
<1>0. ctl[l] \in Control /\ ctl \in [Loaders -> Control] /\ Idle.pc = "idle" /\ Absent.pc = "absent"
  BY DEF TypeOK, Idle, Absent, At
<1>1. CASE RelocLock(l)
  <2>1. \/ Throw(l)
        \/ /\ ctl' = [ctl EXCEPT ![l].pc = "relocPatch"] /\ infer' = infer
           /\ ctl[l].pos <= Len(relocIdx) /\ ~NoTarget(l, relocIdx[ctl[l].pos])
    BY <1>1 DEF RelocLock
  <2>2. CASE Throw(l)
    BY <1>0, <2>2, ThrowControl
  <2> QED
    BY <1>0, <2>1, <2>2 DEF Control
<1>2. CASE JitLock(l)
  <2>1. \/ Throw(l)
        \/ /\ ctl' = [ctl EXCEPT ![l].pc = "jitPatch"] /\ infer' = infer
           /\ ctl[l].pos <= Len(jitIdx) /\ ~NoTarget(l, jitIdx[ctl[l].pos])
    BY <1>2 DEF JitLock
  <2>2. CASE Throw(l)
    BY <1>0, <2>2, ThrowControl
  <2> QED
    BY <1>0, <2>1, <2>2 DEF Control
<1>3. CASE RelocPatch(l) \/ JitPatch(l) \/ ReloadDone(l)
  <2>1. \/ Throw(l)
        \/ \E p \in {"reloc", "jit"}, n \in Nat : ctl'[l] = MoveTo(ctl[l], p, n)
    <3>1. ctl[l].pos + 1 \in Nat /\ 1 \in Nat
      BY <1>0 DEF Control
    <3> QED
      BY <1>0, <1>3, <3>1 DEF RelocPatch, JitPatch, ReloadDone
  <2>2. {"reloc", "jit"} \subseteq Pcs
    BY DEF Pcs
  <2>3. CASE Throw(l)
    BY <1>0, <2>3, ThrowControl
  <2> QED
    BY <1>0, <2>1, <2>2, <2>3, MoveFields
<1>4. CASE RelocDone(l) \/ JitDone(l)
  BY <1>0, <1>4 DEF RelocDone, JitDone
<1>5. CASE (\E s \in SecIdx : ReloadLock(l, s)) \/ ReloadCopy(l)
  <2>1. \E s \in SecIdx : ctl'[l] = Holding(ctl[l], s) \/ ctl'[l] = Restored(ctl[l], s)
    BY <1>0, <1>5 DEF ReloadLock, ReloadCopy, Control
  <2> QED
    BY <1>0, <2>1, ReloadFields
<1>6. CASE ReadThrows(l)
  BY <1>0, <1>6, ThrowControl DEF ReadThrows
<1> QED
  BY <1>1, <1>2, <1>3, <1>4, <1>5, <1>6 DEF PatchStep

\* Where a loader is after a call starts.
LEMMA ClientPc ==
  ASSUME TypeOK, NEW l \in Loaders, ClientStep(l)
  PROVE  \/ ctl'[l].pc \in {"idle", "absent", "reload", "jit"}
         \/ ctl'[l].pc = "section" /\ ctl'[l].pos = 0
<1>0. ctl \in [Loaders -> Control]
  BY DEF TypeOK
<1>1. CASE Construct(l) \/ Destroy(l) \/ \E b \in BOOLEAN : SetInferencesMayBeRunInParallel(l, b)
  BY <1>0, <1>1 DEF Construct, Destroy, Release, SetInferencesMayBeRunInParallel, Idle, Absent, At
<1>2. CASE \E t \in SymTabs : StartLoad(l, t)
  BY <1>0, <1>2 DEF StartLoad, At
<1>3. CASE \E m, o, t : m \in Loaders /\ CopyInto(l, m, o, t)
  BY <1>0, <1>3 DEF CopyInto, At
<1>4. CASE (\E a \in ScratchSets : UpdateSharedScratchBuffers(l, a))
           \/ \E u \in UserIO : ApplyJitRelocations(l, u)
  BY <1>0, <1>4 DEF UpdateSharedScratchBuffers, ApplyJitRelocations, At
<1> QED
  BY <1>1, <1>2, <1>3, <1>4 DEF ClientStep, Clone, Assign

-----------------------------------------------------------------------------
(* The vectors of relocation sections, PatchInv, AloneInv, RegisteredInv *)

\* The vectors only grow, by the relocation section load() is at, until the last
\* loader is gone.
LEMMA IndexStep ==
  ASSUME TypeOK, NEW l \in Loaders, Step(l)
  PROVE  \/ relocIdx' = relocIdx /\ jitIdx' = jitIdx
         \/ /\ LoadRela(l) /\ IsRela(elf, ctl[l].pos) /\ ctl[l].pos \in SecIdx
            /\ \/ relocIdx' = Append(relocIdx, ctl[l].pos) /\ jitIdx' = jitIdx
               \/ relocIdx' = relocIdx /\ jitIdx' = Append(jitIdx, ctl[l].pos)
         \/ /\ relocIdx' = << >> /\ jitIdx' = << >>
            /\ \A k \in Loaders : ctl[k].pc = "absent"
            /\ ctl'[l] = Idle
<1>1. CASE LoadRela(l)
  <2>1. ctl[l].pos \in SecIdx
    BY <1>1, LoadPc DEF SectionStep
  <2>2. IsRela(elf, ctl[l].pos)
    <3>1. actionMap[elf[ctl[l].pos].type] = "Relocate"
      BY <1>1 DEF LoadRela, AtSection
    <3>2. elf[ctl[l].pos].type \in SecTypes
      BY <2>1, HeaderTypes
    <3> QED
      BY <3>1, <3>2 DEF actionMap, IsRela
  <2>3. \/ relocIdx' = Append(relocIdx, ctl[l].pos) /\ jitIdx' = jitIdx
        \/ relocIdx' = relocIdx /\ jitIdx' = Append(jitIdx, ctl[l].pos)
    BY <1>1 DEF LoadRela
  <2> QED
    BY <1>1, <2>1, <2>2, <2>3
<1>2. CASE Construct(l)
  BY <1>2 DEF Construct, TypeOK
<1>3. CASE LoadStep(l) /\ ~LoadRela(l)
  BY <1>3 DEF LoadStep, LoadProgbits, LoadNobits, LoadSymtab, LoadOther, SectionsDone,
     UpdateSharedBuffers, SharingDone, LoadSharedBuffer, LoadOwnBuffer, BuffersLoaded, indexes
<1>4. CASE PatchStep(l)
  BY <1>4 DEF PatchStep, RelocLock, RelocPatch, RelocDone, ReloadLock, ReloadCopy, ReloadDone,
     JitLock, JitPatch, JitDone, ReadThrows, indexes
<1>5. CASE ClientStep(l) /\ ~Construct(l)
  BY <1>5 DEF ClientStep, Destroy, SetInferencesMayBeRunInParallel, StartLoad, Clone, Assign,
     CopyInto, UpdateSharedScratchBuffers, ApplyJitRelocations, indexes
<1> QED
  BY <1>1, <1>2, <1>3, <1>4, <1>5 DEF Step

\* What Append does to a vector of section indexes.
LEMMA AppendFacts ==
  ASSUME NEW q \in Seq(SecIdx), NEW s \in SecIdx
  PROVE  /\ Append(q, s) \in Seq(SecIdx) /\ Len(Append(q, s)) = Len(q) + 1
         /\ \A i \in 1 .. Len(q) : Append(q, s)[i] = q[i]
         /\ Append(q, s)[Len(q) + 1] = s
  OBVIOUS

\* Every step of a loader keeps PatchInv.
LEMMA PatchInvStep ==
  ASSUME TypeOK, ControlInv, PatchInv, NEW l \in Loaders, Step(l)
  PROVE  PatchInv'
<1>0. ctl \in [Loaders -> Control] /\ relocIdx \in Seq(SecIdx) /\ jitIdx \in Seq(SecIdx)
  BY DEF TypeOK
<1>1. Frame(l)
  BY StepFrame
<1>2. ASSUME NEW k \in Loaders, k # l PROVE PatchOK(k)'
  <2>1. ctl'[k] = ctl[k] /\ infer'[k] = infer[k] /\ elf' = elf
    BY <1>1, <1>2 DEF Frame
  <2>2. \A r : NoTarget(k, r)' <=> NoTarget(k, r)
    BY <2>1 DEF NoTarget, Has
  <2>3. PatchOK(k) /\ ctl[k].pos \in Nat /\ ControlOK(ctl[k], mbr[k], infer[k])
    BY <1>0 DEF PatchInv, Control, ControlInv
  <2>4. CASE relocIdx' = relocIdx /\ jitIdx' = jitIdx
    BY <2>1, <2>2, <2>3, <2>4 DEF PatchOK
  <2>5. CASE ctl[k].pc = "absent"
    BY <2>1, <2>5 DEF PatchOK
  <2>6. ASSUME NEW s \in SecIdx, relocIdx' = Append(relocIdx, s), jitIdx' = jitIdx
        PROVE  PatchOK(k)'
    <3>1. ctl[k].pc = "relocPatch" =>
             ctl[k].pos <= Len(relocIdx') /\ relocIdx'[ctl[k].pos] = relocIdx[ctl[k].pos]
      BY <1>0, <2>3, <2>6, AppendFacts DEF PatchOK, ControlOK
    <3> QED
      BY <2>1, <2>2, <2>3, <2>6, <3>1 DEF PatchOK
  <2>7. ASSUME NEW s \in SecIdx, relocIdx' = relocIdx, jitIdx' = Append(jitIdx, s)
        PROVE  PatchOK(k)'
    <3>1. ctl[k].pc = "jitPatch" =>
             ctl[k].pos <= Len(jitIdx') /\ jitIdx'[ctl[k].pos] = jitIdx[ctl[k].pos]
      BY <1>0, <2>3, <2>7, AppendFacts DEF PatchOK, ControlOK
    <3> QED
      BY <2>1, <2>2, <2>3, <2>7, <3>1 DEF PatchOK
  <2> QED
    BY <2>4, <2>5, <2>6, <2>7, IndexStep
<1>3. PatchOK(l)'
  <2>1. CASE LoadStep(l)
    <3>1. ctl'[l].pc \in {"section", "share", "buffers", "reloc", "idle"}
      BY <2>1, LoadPc DEF LoadStep, SectionStep, BufferStep, Idle, At
    <3> QED
      BY <3>1 DEF PatchOK
  <2>2. CASE ClientStep(l)
    BY <2>2, ClientPc DEF PatchOK
  <2>3. CASE PatchStep(l)
    <3>1. UNCHANGED <<elf, relocIdx, jitIdx>>
      BY <2>3 DEF PatchStep, RelocLock, RelocPatch, RelocDone, ReloadLock, ReloadCopy, ReloadDone,
         JitLock, JitPatch, JitDone, ReadThrows, indexes
    <3> QED
      BY <2>3, <3>1, PatchPc DEF PatchOK, NoTarget, Has
  <2> QED
    BY <2>1, <2>2, <2>3 DEF Step
<1> QED
  BY <1>2, <1>3 DEF PatchInv

\* A loader comes into being empty and alone, or as the copy of a loaded one.
LEMMA PresenceStep ==
  ASSUME TypeOK, NEW l \in Loaders, Step(l)
  PROVE  \/ \A k \in Loaders : ctl[k].pc = "absent"
         \/ mbr'[l].loaded /\ \E m \in Loaders : CopySource(m)
         \/ Present(l) /\ (Present(l)' /\ ~mbr'[l].loaded => ~mbr[l].loaded)
<1>0. ctl \in [Loaders -> Control] /\ mbr \in [Loaders -> Members]
  BY DEF TypeOK
<1>1. CASE LoadStep(l)
  <2>1. Present(l)
    BY <1>1 DEF Present, LoadStep, LoadProgbits, LoadNobits, LoadRela, LoadSymtab, LoadOther,
       AtSection, SectionsDone, UpdateSharedBuffers, SharingDone, LoadSharedBuffer, LoadOwnBuffer,
       BuffersLoaded
  <2>2. \/ mbr' = mbr \/ mbr' = [mbr EXCEPT ![l].loaded = TRUE]
        \/ \E q : mbr' = [mbr EXCEPT ![l].scratch = q]
    BY <1>1 DEF LoadStep, LoadProgbits, LoadNobits, LoadRela, LoadSymtab, LoadOther, SectionsDone,
       UpdateSharedBuffers, SharingDone, LoadSharedBuffer, LoadOwnBuffer, BuffersLoaded
  <2> QED
    BY <1>0, <2>1, <2>2 DEF Members
<1>2. CASE PatchStep(l)
  <2>1. Present(l)
    BY <1>2 DEF Present, PatchStep, RelocLock, RelocPatch, RelocDone, ReloadLock, ReloadCopy, ReloadDone,
       JitLock, JitPatch, JitDone, ReadThrows, Reading, AtSection
  <2>2. mbr' = mbr \/ Throw(l) \/ mbr' = [mbr EXCEPT ![l].loaded = TRUE]
    BY <1>2 DEF PatchStep, RelocLock, RelocPatch, RelocDone, ReloadLock, ReloadCopy, ReloadDone,
       JitLock, JitPatch, JitDone, ReadThrows
  <2>3. Throw(l) => mbr' = mbr \/ ctl'[l] = Absent
    BY <1>0 DEF Throw, Release
  <2> QED
    BY <1>0, <2>1, <2>2, <2>3 DEF Members, Present, Absent, At
<1>3. CASE Construct(l)
  BY <1>3 DEF Construct
<1>4. CASE Destroy(l)
  BY <1>0, <1>4 DEF Destroy, Release, Present, Absent, At
<1>5. CASE \E b \in BOOLEAN : SetInferencesMayBeRunInParallel(l, b)
  BY <1>0, <1>5 DEF SetInferencesMayBeRunInParallel, Present, Members
<1>6. CASE \E t \in SymTabs : StartLoad(l, t)
  BY <1>0, <1>6 DEF StartLoad, Present, Members
<1>7. ASSUME NEW m \in Loaders, NEW o, NEW t, CopySource(m), CopyInto(l, m, o, t)
      PROVE  mbr'[l].loaded /\ CopySource(m)
  <2>1. mbr'[l] = [mbr[m] EXCEPT !.symTab = t] /\ mbr[m] \in Members
    BY <1>0, <1>7 DEF CopyInto
  <2>2. mbr'[l].loaded = mbr[m].loaded
    BY <2>1 DEF Members
  <2> QED
    BY <1>7, <2>2 DEF CopySource
<1>8. CASE (\E a \in ScratchSets : UpdateSharedScratchBuffers(l, a))
           \/ \E u \in UserIO : ApplyJitRelocations(l, u)
  BY <1>8 DEF UpdateSharedScratchBuffers, ApplyJitRelocations, Present
<1> QED
  BY <1>1, <1>2, <1>3, <1>4, <1>5, <1>6, <1>7, <1>8 DEF Step, ClientStep, Clone, Assign

\* Every step of a loader keeps AloneInv.
LEMMA AloneStep ==
  ASSUME TypeOK, AloneInv, NEW l \in Loaders, Step(l)
  PROVE  AloneInv'
<1>1. \A k \in Loaders : k # l => ctl'[k] = ctl[k] /\ mbr'[k] = mbr[k]
  BY StepFrame DEF Frame
<1>2. CASE \A k \in Loaders : ctl[k].pc = "absent"
  BY <1>1, <1>2 DEF AloneInv, Present
<1>3. CASE mbr'[l].loaded /\ \E m \in Loaders : CopySource(m)
  <2>1. \A k \in Loaders : Present(k) => mbr[k].loaded
    BY <1>3 DEF AloneInv, CopySource, Present
  <2> QED
    BY <1>1, <1>3, <2>1 DEF AloneInv, Present
<1>4. CASE Present(l) /\ (Present(l)' /\ ~mbr'[l].loaded => ~mbr[l].loaded)
  BY <1>1, <1>4 DEF AloneInv, Present
<1> QED
  BY <1>2, <1>3, <1>4, PresenceStep

\* Every step of a loader keeps RegisteredInv: the loop over the sections registers
\* each relocation section it passes.
LEMMA RegisteredStep ==
  ASSUME TypeOK, RegisteredInv, NEW l \in Loaders, Step(l)
  PROVE  RegisteredInv'
<1>0. relocIdx \in Seq(SecIdx) /\ jitIdx \in Seq(SecIdx) /\ Len(relocIdx) \in Nat /\ Len(jitIdx) \in Nat
  BY DEF TypeOK
<1>1. Frame(l)
  BY StepFrame
<1>2. CASE relocIdx' = << >> /\ jitIdx' = << >> /\ (\A k \in Loaders : ctl[k].pc = "absent")
           /\ ctl'[l] = Idle
  BY <1>1, <1>2 DEF RegisteredInv, LoopOK, Frame, Idle, At
<1>3. CASE ~(relocIdx' = << >> /\ jitIdx' = << >> /\ (\A k \in Loaders : ctl[k].pc = "absent")
             /\ ctl'[l] = Idle)
  <2>0. PICK s : s = ctl[l].pos
    OBVIOUS
  <2>1. /\ \A i \in 1 .. Len(relocIdx') : IsRela(elf, relocIdx'[i])
        /\ \A i \in 1 .. Len(jitIdx') : IsRela(elf, jitIdx'[i])
        /\ \A r : Registered(r) => Registered(r)'
        /\ LoadRela(l) => Registered(s)'
    <3>1. CASE relocIdx' = relocIdx /\ jitIdx' = jitIdx /\ ~LoadRela(l)
      BY <3>1 DEF RegisteredInv, Registered
    <3>2. CASE IsRela(elf, s) /\ s \in SecIdx /\ relocIdx' = Append(relocIdx, s) /\ jitIdx' = jitIdx
      <4>1. /\ \A i \in 1 .. Len(relocIdx) : i \in 1 .. Len(relocIdx') /\ relocIdx'[i] = relocIdx[i]
            /\ Len(relocIdx') = Len(relocIdx) + 1 /\ relocIdx'[Len(relocIdx')] = s
        BY <1>0, <3>2, AppendFacts
      <4>2. \A i \in 1 .. Len(relocIdx') : i \in 1 .. Len(relocIdx) \/ i = Len(relocIdx')
        BY <1>0, <4>1
      <4>3. Len(relocIdx') \in 1 .. Len(relocIdx')
        BY <1>0, <4>1
      <4> QED
        BY <3>2, <4>1, <4>2, <4>3 DEF RegisteredInv, Registered
    <3>3. CASE IsRela(elf, s) /\ s \in SecIdx /\ jitIdx' = Append(jitIdx, s) /\ relocIdx' = relocIdx
      <4>1. /\ \A i \in 1 .. Len(jitIdx) : i \in 1 .. Len(jitIdx') /\ jitIdx'[i] = jitIdx[i]
            /\ Len(jitIdx') = Len(jitIdx) + 1 /\ jitIdx'[Len(jitIdx')] = s
        BY <1>0, <3>3, AppendFacts
      <4>2. \A i \in 1 .. Len(jitIdx') : i \in 1 .. Len(jitIdx) \/ i = Len(jitIdx')
        BY <1>0, <4>1
      <4>3. Len(jitIdx') \in 1 .. Len(jitIdx')
        BY <1>0, <4>1
      <4> QED
        BY <3>3, <4>1, <4>2, <4>3 DEF RegisteredInv, Registered
    <3>4. LoadRela(l) => relocIdx' = Append(relocIdx, s) \/ jitIdx' = Append(jitIdx, s)
      BY <2>0 DEF LoadRela
    <3>5. LoadRela(l) => ~(relocIdx' = relocIdx /\ jitIdx' = jitIdx)
      <4>1. s \in SecIdx => Append(relocIdx, s) # relocIdx /\ Append(jitIdx, s) # jitIdx
        BY <1>0, AppendFacts
      <4>2. LoadRela(l) => s \in SecIdx
        BY <2>0, LoadPc DEF SectionStep
      <4> QED
        BY <3>4, <4>1, <4>2
    <3> QED
      BY <1>3, <2>0, <3>1, <3>2, <3>3, <3>5, IndexStep
  <2>2. \A r : Registered(r) => Registered(r)'
    BY <2>1
  <2>3. \A k \in Loaders : k # l => LoopOK(ctl[k])'
    BY <1>1, <2>2 DEF RegisteredInv, LoopOK, Frame, IsRela
  <2>4. LoopOK(ctl[l])'
    <3>0. elf' = elf /\ LoopOK(ctl[l]) /\ \A r : IsRela(elf, r)' <=> IsRela(elf, r)
      BY <1>1 DEF Frame, RegisteredInv, IsRela
    <3>1. CASE SectionStep(l)
      <4>1. LoadRela(l) => Registered(s)'
        BY <2>1
      <4>2. ~LoadRela(l) => ~IsRela(elf, ctl[l].pos) \/ ctl'[l] = Idle
        <5>1. \A a : AtSection(l, a) /\ a # "Relocate" => ~IsRela(elf, ctl[l].pos)
          BY DEF AtSection, IsRela, actionMap, SecTypes
        <5> QED
          BY <3>1, <5>1 DEF SectionStep, LoadProgbits, LoadNobits, LoadSymtab, LoadOther
      <4>3. ctl[l].pc = "section" /\ ctl[l].pos \in SecIdx
            /\ (ctl'[l] = Idle \/ (ctl'[l].pc = "section" /\ ctl'[l].pos = ctl[l].pos + 1))
        BY <3>1, LoadPc
      <4>4. \A r \in SecIdx : r < ctl[l].pos + 1 => r < ctl[l].pos \/ r = ctl[l].pos
        BY <4>3 DEF SecIdx
      <4> QED
        BY <2>0, <2>2, <3>0, <4>1, <4>2, <4>3, <4>4 DEF LoopOK, Idle, At
    <3>2. CASE SectionsDone(l)
      <4>1. \A r \in SecIdx : r < NumSections
        BY NumSectionsAssumption DEF SecIdx
      <4> QED
        BY <2>2, <3>0, <3>2, <4>1, LoadPc DEF LoopOK
    <3>3. CASE UpdateSharedBuffers(l)
      BY <2>2, <3>0, <3>3, LoadPc DEF LoopOK, UpdateSharedBuffers, Idle, At
    <3>4. CASE SharingDone(l) \/ BufferStep(l) \/ BuffersLoaded(l)
      BY <3>4, LoadPc DEF LoopOK
    <3>5. CASE PatchStep(l)
      BY <3>5, PatchPc DEF LoopOK
    <3>6. CASE ClientStep(l)
      <4>1. \A r \in SecIdx : ~(r < 0)
        BY DEF SecIdx
      <4> QED
        BY <3>6, <4>1, ClientPc DEF LoopOK
    <3> QED
      BY <3>1, <3>2, <3>3, <3>4, <3>5, <3>6 DEF Step, LoadStep, SectionStep, BufferStep
  <2> QED
    BY <1>1, <2>1, <2>3, <2>4 DEF RegisteredInv, Frame, IsRela
<1> QED
  BY <1>2, <1>3

-----------------------------------------------------------------------------
(* EntryInv and SharingInv *)

\* Buffers of different kinds, and of different loaders, are different.
LEMMA BufNames ==
  ASSUME NEW l \in Loaders, NEW s \in SecIdx
  PROVE  /\ OwnBuf(l, s) # DataBuf(s) /\ NullBuf(s) # DataBuf(s) /\ OwnBuf(l, s) # NullBuf(s)
         /\ \A t \in SecIdx : /\ OwnBuf(l, s) # DataBuf(t) /\ OwnBuf(l, s) # BackupBuf(t)
                             /\ NullBuf(s) # DataBuf(t) /\ NullBuf(s) # BackupBuf(t)
         /\ \A m \in Loaders : OwnBuf(l, s) = OwnBuf(m, s) => l = m
<1>1. l \notin {"reader", "backup", "null"}
  BY NamesAssumption DEF Tags
<1> QED
  BY <1>1 DEF OwnBuf, DataBuf, BackupBuf, NullBuf

\* The entries of an empty map satisfy EntryOK.
LEMMA EmptyOK ==
  ASSUME NEW l \in Loaders, NEW s \in SecIdx
  PROVE  EntryOK(l, s, EmptyMap[s])
<1>1. EmptyMap[s].buf = NullBuf(s) /\ ~EmptyMap[s].isShared
  BY DEF EmptyMap, NoInfo, Info
<1> QED
  BY <1>1, BufNames DEF EntryOK

\* The ways a step can change a loader's map.
LEMMA InferStep ==
  ASSUME TypeOK, NEW l \in Loaders, Step(l)
  PROVE  \/ infer'[l] = infer[l]
         \/ infer'[l] = EmptyMap
         \/ \E s \in SecIdx : \E e :
               /\ infer'[l] = [infer[l] EXCEPT ![s] = e]
               /\ \/ ctl[l].pc = "section" /\ e = Info(NullBuf(s), TRUE, ~elf[s].write, FALSE)
                  \/ ctl[l].pc = "section" /\ e = Info(OwnBuf(l, s), FALSE, FALSE, TRUE)
                  \/ ctl[l].pc = "section" /\ e = Info(NullBuf(s), FALSE, FALSE, FALSE)
                  \/ UpdateSharedBuffers(l) /\ e = PatchedEntry(infer[l][s])
                  \/ LoadSharedBuffer(l, s) /\ e = LoadedEntry(infer[l][s], DataBuf(s))
                  \/ LoadOwnBuffer(l, s) /\ e = LoadedEntry(infer[l][s], OwnBuf(l, s))
         \/ \E m, o, t : m \in Loaders /\ CopyInto(l, m, o, t) /\ infer'[l] = copyBufferMap(l, infer[l], infer[m])
<1>0. infer \in [Loaders -> [SecIdx -> Entry]]
  BY DEF TypeOK
<1>1. CASE SectionStep(l)
  <2>1. ctl[l].pos \in SecIdx /\ ctl[l].pc = "section"
    BY <1>1, LoadPc
  <2>2. CASE LoadProgbits(l)
    <3>1. \/ infer' = infer
          \/ infer' = [infer EXCEPT ![l][ctl[l].pos] =
                          Info(NullBuf(ctl[l].pos), TRUE, ~elf[ctl[l].pos].write, FALSE)]
      BY <2>2 DEF LoadProgbits
    <3> QED
      BY <1>0, <2>1, <2>2, <3>1
  <2>3. CASE LoadNobits(l)
    <3>1. \/ infer' = infer
          \/ infer' = [infer EXCEPT ![l][ctl[l].pos] = Info(OwnBuf(l, ctl[l].pos), FALSE, FALSE, TRUE)]
          \/ infer' = [infer EXCEPT ![l][ctl[l].pos] = Info(NullBuf(ctl[l].pos), FALSE, FALSE, FALSE)]
      BY <2>3 DEF LoadNobits
    <3> QED
      BY <1>0, <2>1, <2>3, <3>1
  <2>4. CASE LoadRela(l) \/ LoadSymtab(l) \/ LoadOther(l)
    BY <2>4 DEF LoadRela, LoadSymtab, LoadOther
  <2> QED
    BY <1>1, <2>2, <2>3, <2>4 DEF SectionStep
<1>2. CASE SectionsDone(l) \/ SharingDone(l) \/ BuffersLoaded(l)
  BY <1>2 DEF SectionsDone, SharingDone, BuffersLoaded
<1>3. CASE UpdateSharedBuffers(l)
  <2>1. infer' = infer \/ \E t \in SecIdx : infer' = [infer EXCEPT ![l][t] = PatchedEntry(infer[l][t])]
    BY <1>3 DEF UpdateSharedBuffers, NoTarget, Has
  <2> QED
    BY <1>0, <1>3, <2>1
<1>4. ASSUME NEW s \in SecIdx, LoadSharedBuffer(l, s)
      PROVE  infer'[l] = [infer[l] EXCEPT ![s] = LoadedEntry(infer[l][s], DataBuf(s))]
  <2>1. infer' = [infer EXCEPT ![l][s] = LoadedEntry(infer[l][s], DataBuf(s))]
    BY <1>4 DEF LoadSharedBuffer
  <2> QED
    BY <1>0, <2>1
<1>5. ASSUME NEW s \in SecIdx, LoadOwnBuffer(l, s)
      PROVE  \/ infer'[l] = [infer[l] EXCEPT ![s] = LoadedEntry(infer[l][s], OwnBuf(l, s))]
             \/ infer'[l] = infer[l]
  <2>1. infer' = infer \/ infer' = [infer EXCEPT ![l][s] = LoadedEntry(infer[l][s], OwnBuf(l, s))]
    BY <1>5 DEF LoadOwnBuffer
  <2> QED
    BY <1>0, <2>1
<1>6. CASE PatchStep(l)
  <2>1. infer' = infer \/ Throw(l)
    BY <1>6 DEF PatchStep, RelocLock, RelocPatch, RelocDone, ReloadLock, ReloadCopy, ReloadDone,
       JitLock, JitPatch, JitDone, ReadThrows
  <2> QED
    BY <1>0, <2>1 DEF Throw, Release
<1>7. CASE \E m, o, t : m \in Loaders /\ CopyInto(l, m, o, t)
  <2>1. PICK m, o, t : m \in Loaders /\ CopyInto(l, m, o, t)
    BY <1>7
  <2>2. infer'[l] = copyBufferMap(l, infer[l], infer[m])
    BY <1>0, <2>1 DEF CopyInto
  <2> QED
    BY <2>1, <2>2
<1>8. CASE ClientStep(l) /\ ~\E m, o, t : m \in Loaders /\ CopyInto(l, m, o, t)
  <2>1. infer' = infer \/ infer' = [infer EXCEPT ![l] = EmptyMap]
    BY <1>8 DEF ClientStep, Construct, Destroy, Release, SetInferencesMayBeRunInParallel, StartLoad,
       Clone, Assign, UpdateSharedScratchBuffers, ApplyJitRelocations
  <2> QED
    BY <1>0, <2>1
<1>9. CASE BufferStep(l)
  <2>1. PICK s \in SecIdx : LoadSharedBuffer(l, s) \/ LoadOwnBuffer(l, s)
    BY <1>9 DEF BufferStep
  <2> QED
    BY <1>4, <1>5, <2>1
<1>10. CASE LoadStep(l)
  BY <1>1, <1>2, <1>3, <1>9, <1>10 DEF LoadStep, SectionStep, BufferStep
<1> QED
  BY <1>6, <1>7, <1>8, <1>10 DEF Step

\* Every step of a loader keeps EntryInv.
LEMMA EntryStep ==
  ASSUME TypeOK, SharingInv, EntryInv, NEW l \in Loaders, Step(l)
  PROVE  EntryInv'
<1>0. infer[l] \in [SecIdx -> Entry]
  BY DEF TypeOK
<1>1. Frame(l)
  BY StepFrame
<1>2. ASSUME NEW s \in SecIdx PROVE EntryOK(l, s, infer'[l][s])
  <2>0. EntryOK(l, s, infer[l][s])
    BY DEF EntryInv
  <2>1. CASE infer'[l][s] = infer[l][s] \/ infer'[l] = EmptyMap
    BY <2>0, <2>1, EmptyOK
  <2>2. CASE infer'[l][s] = Info(NullBuf(s), TRUE, ~elf[s].write, FALSE)
    <3>1. infer'[l][s].buf = NullBuf(s) /\ ~infer'[l][s].isProcessed
      BY <2>2 DEF Info
    <3>2. PICK h \in BOOLEAN : h = ~elf[s].write
      OBVIOUS
    <3>3. infer'[l][s] = Info(NullBuf(s), TRUE, h, FALSE)
      BY <2>2, <3>2, Zenon
    <3>4. infer'[l][s].isShared = h
      BY <3>3 DEF Info
    <3>5. infer'[l][s].isShared => ~elf[s].write
      BY <3>2, <3>4
    <3> QED
      BY <3>1, <3>5, BufNames DEF EntryOK
  <2>3. CASE infer'[l][s] = Info(OwnBuf(l, s), FALSE, FALSE, TRUE)
    BY <2>3, BufNames DEF Info, EntryOK
  <2>4. CASE infer'[l][s] = Info(NullBuf(s), FALSE, FALSE, FALSE)
    BY <2>4, BufNames DEF Info, EntryOK
  <2>5. CASE infer'[l][s] = PatchedEntry(infer[l][s])
    <3>1. /\ infer'[l][s].buf = infer[l][s].buf /\ infer'[l][s].isProcessed = infer[l][s].isProcessed
          /\ infer'[l][s].isShared <=> infer[l][s].isShared /\ infer[l][s].isProcessed
      BY <1>0, <2>5, EntryFields, BufTypes
    <3> QED
      BY <2>0, <3>1 DEF EntryOK
  <2>6. CASE LoadSharedBuffer(l, s) /\ infer'[l][s] = LoadedEntry(infer[l][s], DataBuf(s))
    <3>1. /\ infer'[l][s].buf = DataBuf(s) /\ infer'[l][s].isProcessed
          /\ infer'[l][s].isShared = infer[l][s].isShared
      BY <1>0, <2>6, EntryFields, BufTypes
    <3>2. infer[l][s].isShared /\ ctl[l].pc = "buffers"
      BY <2>6 DEF LoadSharedBuffer
    <3> QED
      BY <2>0, <3>1, <3>2, BufNames DEF EntryOK, SharingInv, SharingOK
  <2>7. CASE LoadOwnBuffer(l, s) /\ infer'[l][s] = LoadedEntry(infer[l][s], OwnBuf(l, s))
    <3>1. infer'[l][s].buf = OwnBuf(l, s) /\ infer'[l][s].isShared = infer[l][s].isShared
      BY <1>0, <2>7, EntryFields, BufTypes
    <3>2. ~infer[l][s].isShared
      BY <2>7 DEF LoadOwnBuffer
    <3> QED
      BY <3>1, <3>2, BufNames DEF EntryOK
  <2>8. ASSUME NEW m \in Loaders, infer'[l] = copyBufferMap(l, infer[l], infer[m])
        PROVE  EntryOK(l, s, infer'[l][s])
    <3>0. EntryOK(m, s, infer[m][s]) /\ infer[m][s] \in Entry
      BY DEF EntryInv, TypeOK
    <3>1. \/ infer'[l][s] = infer[l][s]
          \/ infer[m][s].isShared /\ infer'[l][s] = infer[m][s]
          \/ ~infer[m][s].isShared /\ infer'[l][s] = [infer[m][s] EXCEPT !.buf = OwnBuf(l, s)]
      BY <2>8 DEF copyBufferMap, CopiedEntry
    <3>2. CASE infer[m][s].isShared /\ infer'[l][s] = infer[m][s]
      BY <3>0, <3>2, BufNames DEF EntryOK
    <3>3. CASE ~infer[m][s].isShared /\ infer'[l][s] = [infer[m][s] EXCEPT !.buf = OwnBuf(l, s)]
      <4>1. infer'[l][s].buf = OwnBuf(l, s) /\ infer'[l][s].isShared = infer[m][s].isShared
        BY <3>0, <3>3 DEF Entry
      <4> QED
        BY <3>3, <4>1, BufNames DEF EntryOK
    <3> QED
      BY <2>0, <3>1, <3>2, <3>3
  <2>9. ASSUME NEW x \in SecIdx, NEW e, infer'[l] = [infer[l] EXCEPT ![x] = e]
        PROVE  infer'[l][s] = IF x = s THEN e ELSE infer[l][s]
    BY <1>0, <2>9
  <2>10. ASSUME NEW x \in SecIdx, NEW e, infer'[l] = [infer[l] EXCEPT ![x] = e],
                \/ e = Info(NullBuf(x), TRUE, ~elf[x].write, FALSE)
                \/ e = Info(OwnBuf(l, x), FALSE, FALSE, TRUE)
                \/ e = Info(NullBuf(x), FALSE, FALSE, FALSE)
                \/ e = PatchedEntry(infer[l][x])
                \/ LoadSharedBuffer(l, x) /\ e = LoadedEntry(infer[l][x], DataBuf(x))
                \/ LoadOwnBuffer(l, x) /\ e = LoadedEntry(infer[l][x], OwnBuf(l, x))
         PROVE  EntryOK(l, s, infer'[l][s])
    <3>1. CASE x = s
      <4>1. infer'[l][s] = e
        BY <2>9, <2>10, <3>1
      <4> QED
        BY <2>2, <2>3, <2>4, <2>5, <2>6, <2>7, <2>10, <3>1, <4>1
    <3>2. CASE x # s
      BY <2>1, <2>9, <2>10, <3>2
    <3> QED
      BY <3>1, <3>2
  <2>11. CASE infer'[l] = infer[l] \/ infer'[l] = EmptyMap
    BY <2>1, <2>11
  <2> QED
    BY <2>8, <2>10, <2>11, InferStep
<1>3. \A k \in Loaders, s \in SecIdx : EntryOK(k, s, infer'[k][s])
  BY <1>1, <1>2 DEF Frame, EntryInv
<1> QED
  BY <1>1, <1>3 DEF EntryInv, EntryOK, Frame, RelaTargets, IsRela

\* updateSharedBuffers looks at every registered section, and only at relocation
\* sections.
LEMMA CheckedFacts ==
  ASSUME TypeOK, RegisteredInv
  PROVE  /\ Len(CheckedForSharing) \in Nat
         /\ \A i \in 1 .. Len(CheckedForSharing) :
               CheckedForSharing[i] \in SecIdx /\ IsRela(elf, CheckedForSharing[i])
         /\ \A r : Registered(r) =>
               \E i \in 1 .. Len(CheckedForSharing) : CheckedForSharing[i] = r
<1>0. relocIdx \in Seq(SecIdx) /\ jitIdx \in Seq(SecIdx)
  BY DEF TypeOK
<1>1. /\ Len(relocIdx \o jitIdx) = Len(relocIdx) + Len(jitIdx)
      /\ \A i \in 1 .. Len(relocIdx) + Len(jitIdx) :
            (relocIdx \o jitIdx)[i] = IF i <= Len(relocIdx) THEN relocIdx[i]
                                      ELSE jitIdx[i - Len(relocIdx)]
  BY <1>0
<1>2. Len(relocIdx) \in Nat /\ Len(jitIdx) \in Nat
  BY <1>0
<1>3. \A i \in 1 .. Len(CheckedForSharing) :
         \/ i \in 1 .. Len(relocIdx) /\ CheckedForSharing[i] = relocIdx[i]
         \/ i - Len(relocIdx) \in 1 .. Len(jitIdx) /\ CheckedForSharing[i] = jitIdx[i - Len(relocIdx)]
  BY <1>1, <1>2 DEF CheckedForSharing
<1>4. \A i \in 1 .. Len(relocIdx) : i \in 1 .. Len(CheckedForSharing) /\ CheckedForSharing[i] = relocIdx[i]
  BY <1>1, <1>2 DEF CheckedForSharing
<1>5. \A i \in 1 .. Len(jitIdx) : /\ i + Len(relocIdx) \in 1 .. Len(CheckedForSharing)
                                /\ CheckedForSharing[i + Len(relocIdx)] = jitIdx[i]
  BY <1>1, <1>2 DEF CheckedForSharing
<1>6. Len(CheckedForSharing) \in Nat
  BY <1>1, <1>2 DEF CheckedForSharing
<1>7. /\ \A i \in 1 .. Len(relocIdx) : relocIdx[i] \in SecIdx /\ IsRela(elf, relocIdx[i])
      /\ \A i \in 1 .. Len(jitIdx) : jitIdx[i] \in SecIdx /\ IsRela(elf, jitIdx[i])
  BY <1>0 DEF RegisteredInv
<1> QED
  BY <1>3, <1>4, <1>5, <1>6, <1>7 DEF Registered

\* Every step of a loader keeps SharingInv.
LEMMA SharingStep ==
  ASSUME TypeOK, ControlInv, AloneInv, RegisteredInv, SharingInv, EntryInv,
         NEW l \in Loaders, Step(l)
  PROVE  SharingInv'
<1>0. infer[l] \in [SecIdx -> Entry] /\ ctl[l] \in Control
  BY DEF TypeOK
<1>1. Frame(l) /\ elf' = elf /\ RelaTargets(elf)' = RelaTargets(elf)
  BY StepFrame DEF Frame, RelaTargets, IsRela
<1>2. ASSUME NEW k \in Loaders, k # l PROVE SharingOK(ctl[k], infer[k])'
  <2>1. ctl'[k] = ctl[k] /\ infer'[k] = infer[k] /\ SharingOK(ctl[k], infer[k])
    BY <1>1, <1>2 DEF Frame, SharingInv
  <2>2. CASE relocIdx' = relocIdx /\ jitIdx' = jitIdx
    BY <1>1, <2>1, <2>2 DEF SharingOK, CheckedForSharing
  <2>3. CASE LoadRela(l)
    <3>1. ctl[l].pc = "section"
      BY <2>3 DEF LoadRela, AtSection
    <3>2. ctl[k].pc \notin {"share", "buffers"}
      BY <1>2, <3>1 DEF AloneInv, Present, ControlInv, ControlOK
    <3> QED
      BY <2>1, <3>2 DEF SharingOK
  <2>4. CASE ctl[k].pc = "absent"
    BY <2>1, <2>4 DEF SharingOK
  <2> QED
    BY <2>2, <2>3, <2>4, IndexStep
<1>3. SharingOK(ctl[l], infer[l])'
  <2>0. SharingOK(ctl[l], infer[l])
    BY DEF SharingInv
  <2>1. CASE SectionStep(l) \/ BuffersLoaded(l) \/ PatchStep(l) \/ ClientStep(l)
    <3>1. ctl'[l].pc \notin {"share", "buffers"}
      BY <2>1, LoadPc, PatchPc, ClientPc DEF Idle, At
    <3> QED
      BY <3>1 DEF SharingOK
  <2>2. CASE SectionsDone(l)
    <3>1. ctl'[l].pc = "share" /\ ctl'[l].pos = 1
      BY <2>2, LoadPc
    <3>2. \A n : \A i \in 1 .. n : ~(i < 1)
      OBVIOUS
    <3> QED
      BY <3>1, <3>2 DEF SharingOK
  <2>3. CASE UpdateSharedBuffers(l)
    <3> DEFINE p == ctl[l].pos
               t == elf[CheckedForSharing[p]].info
    <3>1. ctl'[l] = Idle \/ (ctl'[l].pc = "share" /\ ctl'[l].pos = p + 1)
      BY <2>3, LoadPc
    <3>2. CASE ctl'[l] = Idle
      BY <3>2 DEF SharingOK, Idle, At
    <3>3. CASE ctl'[l].pc = "share" /\ ctl'[l].pos = p + 1
      <4>0. p \in 1 .. Len(CheckedForSharing) /\ ctl[l].pc = "share" /\ CheckedForSharing' = CheckedForSharing
        <5>1. ctl[l].pc = "share" /\ p <= Len(CheckedForSharing) /\ p \in Nat /\ Len(CheckedForSharing) \in Nat
          BY <1>0, <2>3, CheckedFacts DEF UpdateSharedBuffers, Control
        <5>2. p >= 1
          BY <5>1 DEF ControlInv, ControlOK
        <5>3. CheckedForSharing' = CheckedForSharing
          BY <2>3 DEF UpdateSharedBuffers, indexes, CheckedForSharing
        <5> QED
          BY <5>1, <5>2, <5>3
      <4>1. t \in SecIdx /\ infer'[l] = [infer[l] EXCEPT ![t] = PatchedEntry(infer[l][t])]
        <5>1. \/ ctl' = [ctl EXCEPT ![l] = Idle]
              \/ t \in SecIdx /\ infer' = [infer EXCEPT ![l][t] = PatchedEntry(infer[l][t])]
          BY <2>3 DEF UpdateSharedBuffers, NoTarget, Has, AbortLoad
        <5>2. Idle.pc # "share" /\ ctl \in [Loaders -> Control]
                /\ infer \in [Loaders -> [SecIdx -> Entry]]
          BY DEF Idle, At, TypeOK
        <5> QED
          BY <3>3, <5>1, <5>2
      <4>2. CheckedForSharing[p] \in SecIdx /\ IsRela(elf, CheckedForSharing[p])
        BY <4>0, CheckedFacts
      <4>3. t \in RelaTargets(elf)
        BY <4>2 DEF RelaTargets
      <4> HIDE DEF t
      <4>4. ~infer'[l][t].isShared
        <5>1. ~(infer[l][t].isShared /\ infer[l][t].isProcessed)
          BY <4>1, <4>3 DEF EntryInv, EntryOK
        <5>2. infer'[l][t] = PatchedEntry(infer[l][t]) /\ infer[l][t] \in Entry
          BY <1>0, <4>1
        <5> QED
          BY <4>1, <5>1, <5>2, EntryFields, BufTypes
      <4>5. \A s \in SecIdx : s # t => infer'[l][s] = infer[l][s]
        BY <1>0, <4>1
      <4>6. \A i \in 1 .. Len(CheckedForSharing) : i < p + 1 => i < p \/ i = p
        BY <4>0, CheckedFacts
      <4>7. ASSUME NEW i \in 1 .. Len(CheckedForSharing), i < p + 1,
                   elf[CheckedForSharing[i]].info \in SecIdx
            PROVE  ~infer'[l][elf[CheckedForSharing[i]].info].isShared
        <5>1. CASE i = p
          BY <4>4, <5>1 DEF t
        <5>2. CASE i < p
          BY <2>0, <4>0, <4>4, <4>5, <4>7, <5>2 DEF SharingOK
        <5> QED
          BY <4>6, <4>7, <5>1, <5>2
      <4> QED
        BY <1>1, <3>3, <4>0, <4>7 DEF SharingOK
    <3> QED
      BY <3>1, <3>2, <3>3
  <2>4. CASE SharingDone(l)
    <3>1. /\ ctl'[l].pc = "buffers" /\ infer' = infer
          /\ ctl[l].pc = "share" /\ ctl[l].pos > Len(CheckedForSharing)
      BY <2>4, LoadPc DEF SharingDone
    <3>2. ASSUME NEW s \in SecIdx, s \in RelaTargets(elf) PROVE ~infer[l][s].isShared
      <4>1. PICK r \in SecIdx : IsRela(elf, r) /\ s = elf[r].info
        BY <3>2 DEF RelaTargets
      <4>2. Registered(r)
        BY <3>1, <4>1 DEF RegisteredInv, LoopOK
      <4>3. PICK i \in 1 .. Len(CheckedForSharing) : CheckedForSharing[i] = r
        BY <4>2, CheckedFacts
      <4>4. i < ctl[l].pos
        BY <1>0, <3>1, CheckedFacts DEF Control
      <4> QED
        BY <2>0, <3>1, <4>1, <4>3, <4>4 DEF SharingOK
    <3> QED
      BY <1>1, <3>1, <3>2 DEF SharingOK
  <2>5. CASE BufferStep(l)
    <3>1. ctl[l].pc = "buffers" /\ ctl'[l].pc \in {"buffers", "idle"}
      BY <2>5, LoadPc
    <3>2. \A s \in SecIdx : infer'[l][s].isShared = infer[l][s].isShared
      <4>1. PICK s \in SecIdx : LoadSharedBuffer(l, s) \/ LoadOwnBuffer(l, s)
        BY <2>5 DEF BufferStep
      <4>2. \/ infer' = infer
            \/ \E b \in {DataBuf(s), OwnBuf(l, s)} : infer' = [infer EXCEPT ![l][s] = LoadedEntry(infer[l][s], b)]
        BY <4>1 DEF LoadSharedBuffer, LoadOwnBuffer
      <4>3. ASSUME NEW b \in {DataBuf(s), OwnBuf(l, s)},
                   infer' = [infer EXCEPT ![l][s] = LoadedEntry(infer[l][s], b)]
            PROVE  \A x \in SecIdx : infer'[l][x].isShared = infer[l][x].isShared
        <5>1. b \in BufIds /\ infer[l][s] \in Entry
          BY <1>0, <4>3, BufTypes
        <5>2. LoadedEntry(infer[l][s], b).isShared = infer[l][s].isShared
          BY <5>1, EntryFields
        <5>3. \A x \in SecIdx : infer'[l][x] = IF x = s THEN LoadedEntry(infer[l][s], b) ELSE infer[l][x]
          BY <4>3 DEF TypeOK
        <5> QED
          BY <5>2, <5>3
      <4> QED
        BY <4>2, <4>3
    <3> QED
      BY <1>1, <2>0, <3>1, <3>2 DEF SharingOK
  <2> QED
    BY <2>1, <2>2, <2>3, <2>4, <2>5 DEF Step, LoadStep, SectionStep, BufferStep
<1> QED
  BY <1>2, <1>3 DEF SharingInv

-----------------------------------------------------------------------------
(* ImagesPristine *)

\* The target of a relocation section is a loader's own buffer.
LEMMA TargetIsOwn ==
  ASSUME TypeOK, EntryInv, NEW l \in Loaders, NEW r \in SecIdx, IsRela(elf, r), ~NoTarget(l, r)
  PROVE  \E s \in SecIdx : TargetBuf(l, r) \in {NullBuf(s), OwnBuf(l, s)}
<1>1. elf[r].info \in SecIdx /\ elf[r].info \in RelaTargets(elf)
  BY DEF NoTarget, Has, RelaTargets
<1> QED
  BY <1>1 DEF EntryInv, EntryOK, TargetBuf

\* A step writes the section's own bytes into a backup or a reader's buffer, or
\* nothing.
LEMMA MemStep ==
  ASSUME TypeOK, ControlInv, PatchInv, RegisteredInv, EntryInv, NEW l \in Loaders, Step(l),
         NEW t \in SecIdx, NEW b \in {DataBuf(t), BackupBuf(t)}
  PROVE  mem'[b] \in {mem[b], Blank, Pristine}
<1>0. b \in BufIds /\ mem \in [BufIds -> Contents] /\ ctl[l] \in Control
      /\ relocIdx \in Seq(SecIdx) /\ jitIdx \in Seq(SecIdx)
  BY BufTypes DEF TypeOK
<1>1. ASSUME NEW x, NEW c, mem' = [mem EXCEPT ![x] = c],
             \E s \in SecIdx : x \in {NullBuf(s), OwnBuf(l, s)}
      PROVE  mem'[b] = mem[b]
  <2>1. x # b
    BY <1>1, BufNames
  <2> QED
    BY <1>0, <1>1, <2>1
<1>2. CASE BufferStep(l)
  <2>1. PICK s \in SecIdx : LoadSharedBuffer(l, s) \/ LoadOwnBuffer(l, s)
    BY <1>2 DEF BufferStep
  <2>2. \/ mem' = [mem EXCEPT ![DataBuf(s)] = Pristine]
        \/ mem' = [mem EXCEPT ![BackupBuf(s)] = Pristine]
        \/ mem' = [mem EXCEPT ![BackupBuf(s)] = Pristine, ![OwnBuf(l, s)] = Pristine]
    BY <2>1 DEF LoadSharedBuffer, LoadOwnBuffer
  <2> QED
    BY <1>0, <2>2
<1>3. CASE LoadStep(l) /\ ~BufferStep(l)
  <2>1. mem' = mem
    BY <1>3 DEF LoadStep, BufferStep, LoadProgbits, LoadNobits, LoadRela, LoadSymtab, LoadOther,
       SectionsDone, UpdateSharedBuffers, SharingDone, BuffersLoaded, buffers
  <2> QED
    BY <2>1
<1>4. CASE RelocPatch(l)
  <2> DEFINE r == relocIdx[ctl[l].pos]
  <2>1. ctl[l].pos \in 1 .. Len(relocIdx) /\ ~NoTarget(l, r)
    <3>1. ctl[l].pc = "relocPatch" /\ ctl[l].pos \in Nat /\ Len(relocIdx) \in Nat
      BY <1>0, <1>4 DEF RelocPatch, Control
    <3> QED
      BY <3>1 DEF ControlInv, ControlOK, PatchInv, PatchOK
  <2>2. r \in SecIdx /\ IsRela(elf, r)
    BY <1>0, <2>1 DEF RegisteredInv
  <2>3. \E v : mem' = [mem EXCEPT ![TargetBuf(l, r)] = v]
    BY <1>4 DEF RelocPatch
  <2> HIDE DEF r
  <2> QED
    BY <1>1, <2>1, <2>2, <2>3, TargetIsOwn
<1>5. CASE JitPatch(l)
  <2> DEFINE r == jitIdx[ctl[l].pos]
  <2>1. ctl[l].pos \in 1 .. Len(jitIdx) /\ ~NoTarget(l, r)
    <3>1. ctl[l].pc = "jitPatch" /\ ctl[l].pos \in Nat /\ Len(jitIdx) \in Nat
      BY <1>0, <1>5 DEF JitPatch, Control
    <3> QED
      BY <3>1 DEF ControlInv, ControlOK, PatchInv, PatchOK
  <2>2. r \in SecIdx /\ IsRela(elf, r)
    BY <1>0, <2>1 DEF RegisteredInv
  <2>3. \E v : mem' = [mem EXCEPT ![TargetBuf(l, r)] = v]
    BY <1>5 DEF JitPatch
  <2> HIDE DEF r
  <2> QED
    BY <1>1, <2>1, <2>2, <2>3, TargetIsOwn
<1>6. CASE ReloadCopy(l)
  <2> DEFINE s == ctl[l].cur
  <2>1. s \in SecIdx /\ ~infer[l][s].isShared
    BY <1>0, <1>6 DEF ReloadCopy, Control, ControlInv, ControlOK
  <2>2. infer[l][s].buf \in {NullBuf(s), OwnBuf(l, s)}
    BY <2>1 DEF EntryInv, EntryOK
  <2>3. mem' = [mem EXCEPT ![infer[l][s].buf] = mem[backup[l][s].buf]]
    BY <1>6 DEF ReloadCopy
  <2> QED
    BY <1>1, <2>1, <2>2, <2>3
<1>7. CASE PatchStep(l) /\ ~RelocPatch(l) /\ ~JitPatch(l) /\ ~ReloadCopy(l)
  <2>1. mem' = mem
    BY <1>7 DEF PatchStep, RelocLock, RelocDone, ReloadLock, ReloadDone, JitLock, JitDone, ReadThrows, buffers
  <2> QED
    BY <2>1
<1>8. CASE ClientStep(l)
  <2>1. \/ mem' = mem
        \/ mem' = [x \in BufIds |-> Blank]
        \/ mem' = [x \in BufIds |-> IF x[1] = l THEN Blank ELSE mem[x]]
        \/ \E F : mem' = [x \in BufIds |-> IF x \in F THEN Blank ELSE mem[x]]
    BY <1>8 DEF ClientStep, Construct, Destroy, SetInferencesMayBeRunInParallel, StartLoad,
       Clone, Assign, CopyInto, UpdateSharedScratchBuffers, ApplyJitRelocations, buffers
  <2> QED
    BY <1>0, <2>1
<1> QED
  BY <1>2, <1>3, <1>4, <1>5, <1>6, <1>7, <1>8 DEF Step

\* Every step of a loader keeps ImagesPristine.
LEMMA PristineStep ==
  ASSUME TypeOK, ControlInv, PatchInv, RegisteredInv, EntryInv, ImagesPristine,
         NEW l \in Loaders, Step(l)
  PROVE  ImagesPristine'
<1>1. Blank.patch = Unpatched /\ Pristine.patch = Unpatched
  BY DEF Blank, Pristine
<1>2. ASSUME NEW s \in SecIdx
      PROVE  mem'[DataBuf(s)].patch = Unpatched /\ mem'[BackupBuf(s)].patch = Unpatched
  BY <1>1, MemStep DEF ImagesPristine
<1> QED
  BY <1>2 DEF ImagesPristine, DataBuf, BackupBuf, Unpatched

-----------------------------------------------------------------------------
(* The inductive invariant and what follows from it *)

\* The initial states satisfy the inductive invariant.
LEMMA InvInit == Init => SharingIInv
<1> SUFFICES ASSUME Init PROVE SharingIInv
  OBVIOUS
<1>1. \A l \in Loaders : ctl[l] = Absent /\ ctl[l].pc = "absent" /\ infer[l] = EmptyMap
  BY DEF Init, Absent, At
<1>2. ControlInv /\ PatchInv /\ AloneInv /\ SharingInv
  BY <1>1, IdleOK DEF ControlInv, PatchInv, PatchOK, AloneInv, Present, SharingInv, SharingOK
<1>3. RegisteredInv
  BY <1>1 DEF RegisteredInv, LoopOK, Init
<1>4. EntryInv
  BY <1>1, EmptyOK DEF EntryInv
<1>5. ImagesPristine
  BY BufTypes DEF Init, ImagesPristine, Blank, DataBuf, BackupBuf, BufIds, Tags
<1> QED
  BY <1>2, <1>3, <1>4, <1>5 DEF SharingIInv

\* The inductive invariant depends on these variables only.
LEMMA InvStutter ==
  ASSUME SharingIInv, UNCHANGED <<elf, relocIdx, jitIdx, ctl, infer, mbr, mem>>
  PROVE  SharingIInv'
<1>1. ControlInv'
  BY DEF SharingIInv, ControlInv
<1>2. PatchInv'
  BY DEF SharingIInv, PatchInv, PatchOK, NoTarget, Has
<1>3. AloneInv'
  BY DEF SharingIInv, AloneInv, Present
<1>4. RegisteredInv'
  BY DEF SharingIInv, RegisteredInv, LoopOK, Registered, IsRela
<1>5. SharingInv'
  BY DEF SharingIInv, SharingInv, SharingOK, CheckedForSharing, RelaTargets, IsRela
<1>6. EntryInv'
  BY DEF SharingIInv, EntryInv, EntryOK, RelaTargets, IsRela
<1>7. ImagesPristine'
  BY DEF SharingIInv, ImagesPristine
<1> QED
  BY <1>1, <1>2, <1>3, <1>4, <1>5, <1>6, <1>7 DEF SharingIInv

\* Every step keeps the inductive invariant.
LEMMA InvNext ==
  ASSUME TypeOK, SharingIInv, [Next]_vars
  PROVE  SharingIInv'
<1>1. CASE UNCHANGED vars
  BY <1>1, InvStutter DEF vars
<1>2. CASE DeleteAccessor
  BY <1>2, InvStutter DEF DeleteAccessor, indexes, buffers
<1>3. ASSUME NEW l \in Loaders, Step(l) PROVE SharingIInv'
  BY <1>3, ControlStep, PatchInvStep, AloneStep, RegisteredStep, SharingStep, EntryStep, PristineStep
     DEF SharingIInv
<1> QED
  BY <1>1, <1>2, <1>3 DEF Next, Step

\* The strengthening of the three theorems below: the types, and why a section can
\* get the reader's buffer only after every relocation section has been looked at.
THEOREM InductiveInvariant == Spec => [](TypeOK /\ SharingIInv)
<1>1. Init => TypeOK /\ SharingIInv
  BY TypeInit, InvInit
<1>2. TypeOK /\ SharingIInv /\ [Next]_vars => (TypeOK /\ SharingIInv)'
  BY TypeStep, InvNext DEF SharingIInv
<1> QED
  BY <1>1, <1>2, PTL DEF Spec

\* All variables keep their types: in particular the loops never leave the vectors
\* of relocation sections, and resetBuffer installs only addresses it was given.
THEOREM TypeCorrect == Spec => []TypeOK
  BY InductiveInvariant, PTL

\* Isolation follows from what the entries of a map can be.
LEMMA EntriesIsolate ==
  ASSUME EntryInv
  PROVE  Isolation
<1> SUFFICES ASSUME NEW l \in Loaders, NEW m \in Loaders, NEW s \in SecIdx, SharedBy(l, m, s)
             PROVE  s \notin RelaTargets(elf) /\ ~elf[s].write
  BY DEF Isolation
<1>1. EntryOK(l, s, infer[l][s]) /\ EntryOK(m, s, infer[m][s])
  BY DEF EntryInv
<1>2. infer[l][s].buf = DataBuf(s)
  BY <1>1, BufNames DEF EntryOK, SharedBy
<1> QED
  BY <1>1, <1>2 DEF EntryOK

\* No two loaders ever run from a buffer that a relocation section of the blob, JIT
\* or not, patches, or that the NPU may write (vpux_loader.cpp:654-667, 747-749).
THEOREM LoadersIsolated == Spec => []Isolation
<1>1. TypeOK /\ SharingIInv => Isolation
  BY EntriesIsolate DEF SharingIInv
<1> QED
  BY <1>1, InductiveInvariant, PTL

\* No relocation ever lands in a backup or in the reader's buffer, so every copy and
\* every scratch update starts from the section's own bytes (vpux_loader.cpp:800-855).
THEOREM BackupsPristine == Spec => []ImagesPristine
<1>1. TypeOK /\ SharingIInv => ImagesPristine
  BY DEF SharingIInv
<1> QED
  BY <1>1, InductiveInvariant, PTL
=============================================================================
