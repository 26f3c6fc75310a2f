-------------------------- MODULE VPUXLoaderLocks --------------------------
(***************************************************************************)
(* Proofs about calls of different loaders that run at the same time        *)
(* (VPUXLoader): the image of a loader between calls is left alone by the   *)
(* others, no lock is leaked, the lock counters stay in 0 .. 1, and nothing *)
(* reads through the AccessManager once it may be deleted.                  *)
(***************************************************************************)
EXTENDS VPUXLoaderSafety, FiniteSetTheorems

\* A loader that is not there owns nothing.
AbsentOK(l) ==
    ~Present(l) => infer[l] = EmptyMap /\ backup[l] = EmptyMap /\ mbr[l] = NewMembers
AbsentInv == \A l \in Loaders : AbsentOK(l)

\* A section that counts as processed has a buffer.  Once the buffers are loaded every
\* entry is processed, so that no relocation meets a null pointer.
Relocating == {"reload", "reloadCopy", "reloc", "relocPatch", "jit", "jitPatch"}
ProcessedOK(c, m, map) ==
    /\ \A s \in SecIdx : map[s].isProcessed => map[s].buf # NullBuf(s)
    /\ m.loaded \/ c.pc \in Relocating => \A s \in SecIdx : map[s].has => map[s].isProcessed
    /\ c.pc \in {"reload", "reloadCopy"} => \A s \in c.todo : map[s].has
ProcessedInv == \A l \in Loaders : ProcessedOK(ctl[l], mbr[l], infer[l])

\* An entry of the backup map holds the backup buffer, which copies share, or, copied
\* from an entry that load() had left unfinished, a buffer of the loader's own.
BackupOK(l, s, e) ==
    e.has => e.buf = BackupBuf(s) \/ (~e.isShared /\ e.buf = OwnBuf(l, s))
BackupInv ==
    /\ \A l \in Loaders, s \in SecIdx : BackupOK(l, s, backup[l][s])
    /\ \A l \in Loaders : ctl[l].pc = "reloadCopy" => backup[l][ctl[l].cur].has

\* Each counter is the number of loaders that hold the lock.
Holders(b) == {l \in Loaders : b \in HeldBuf(l)}
HoldersInv == \A b \in BufIds : IsFiniteSet(Holders(b))

\* What load() leaves in the Reader's cache, section by section, and who still needs
\* the AccessManager.
SymtabsBelow(n) == {s \in SecIdx : s < n /\ elf[s].type = "SHT_SYMTAB"}
RelocsBelow(n) == {relocIdx[i] : i \in {j \in 1 .. Len(relocIdx) : j < n}}
CacheOK(c, m) ==
    /\ c.pc = "section" => SymtabsBelow(c.pos) \subseteq rd.cached
    /\ m.loaded \/ c.pc \in {"share", "buffers"} \cup Relocating =>
          SymtabsBelow(NumSections) \subseteq rd.cached
    /\ c.pc = "reloc" => RelocsBelow(c.pos) \subseteq rd.cached
    /\ c.pc = "relocPatch" => RelocsBelow(c.pos + 1) \subseteq rd.cached
    /\ m.loaded => RelocsBelow(Len(relocIdx) + 1) \subseteq rd.cached
CacheInv ==
    /\ \A i \in 1 .. Len(jitIdx) : jitIdx[i] \in rd.cached
    /\ \A l \in Loaders : /\ CacheOK(ctl[l], mbr[l])
                          /\ mbr[l].scratch = << >>
                          /\ Present(l) /\ ~mbr[l].loaded => rd.accessor

\* The inductive invariant behind the locks, and behind what one loader's call does to
\* the image of another.
LockIInv ==
    /\ SharingIInv /\ AbsentInv /\ ProcessedInv /\ BackupInv
    /\ HoldersInv /\ LocksHaveHolders

-----------------------------------------------------------------------------
(* AbsentInv and ProcessedInv *)

\* A step of one loader leaves the backups and the history of the others alone.
LEMMA BackupFrame ==
  ASSUME TypeOK, NEW l \in Loaders, Step(l), NEW k \in Loaders, k # l
  PROVE  backup'[k] = backup[k] /\ io'[k] = io[k]
<1>0. backup \in [Loaders -> [SecIdx -> Entry]] /\ io \in [Loaders -> UserIO \cup {NoIO, Broken}]
  BY DEF TypeOK
<1>1. Throw(l) => backup'[k] = backup[k] /\ io'[k] = io[k]
  BY <1>0 DEF Throw, Release
<1>2. CASE LoadStep(l)
  <2>1. \/ backup' = backup \/ \E s, e : backup' = [backup EXCEPT ![l][s] = e]
    BY <1>2 DEF LoadStep, LoadProgbits, LoadNobits, LoadRela, LoadSymtab, LoadOther, SectionsDone,
       UpdateSharedBuffers, SharingDone, LoadSharedBuffer, LoadOwnBuffer, BuffersLoaded
  <2>2. io' = io \/ \E v : io' = [io EXCEPT ![l] = v]
    BY <1>2 DEF LoadStep, LoadProgbits, LoadNobits, LoadRela, LoadSymtab, LoadOther, SectionsDone,
       UpdateSharedBuffers, SharingDone, LoadSharedBuffer, LoadOwnBuffer, BuffersLoaded
  <2> QED
    BY <1>0, <2>1, <2>2
<1>3. CASE PatchStep(l)
  <2>1. Throw(l) \/ (backup' = backup /\ (io' = io \/ \E v : io' = [io EXCEPT ![l] = v]))
    BY <1>3 DEF PatchStep, RelocLock, RelocPatch, RelocDone, ReloadLock, ReloadCopy, ReloadDone,
       JitLock, JitPatch, JitDone, ReadThrows
  <2> QED
    BY <1>0, <1>1, <2>1
<1>4. CASE ClientStep(l)
  <2>1. /\ backup' = backup \/ \E f : backup' = [backup EXCEPT ![l] = f]
        /\ io' = io \/ \E v : io' = [io EXCEPT ![l] = v]
    BY <1>4 DEF ClientStep, Construct, Destroy, Release, SetInferencesMayBeRunInParallel, StartLoad,
       Clone, Assign, CopyInto, UpdateSharedScratchBuffers, ApplyJitRelocations
  <2> QED
    BY <1>0, <2>1
<1> QED
  BY <1>2, <1>3, <1>4 DEF Step

\* A step ends a loader's life only by releasing what it owns.
LEMMA AbsentMeansReleased ==
  ASSUME TypeOK, NEW l \in Loaders, Step(l), ctl'[l].pc = "absent"
  PROVE  Release(l)
<1>0. ctl[l] \in Control /\ ctl \in [Loaders -> Control] /\ Idle.pc = "idle"
  BY DEF TypeOK, Idle, At
<1>1. Throw(l) => Release(l)
  BY <1>0 DEF Throw
<1>2. CASE LoadStep(l)
  BY <1>0, <1>2, LoadPc DEF LoadStep, SectionStep, BufferStep
<1>3. CASE PatchStep(l)
  <2>1. CASE RelocLock(l) \/ JitLock(l)
    <3>1. Throw(l) \/ \E p \in {"relocPatch", "jitPatch"} : ctl' = [ctl EXCEPT ![l].pc = p]
      BY <2>1 DEF RelocLock, JitLock
    <3> QED
      BY <1>0, <1>1, <3>1 DEF Control
  <2>2. CASE RelocPatch(l) \/ JitPatch(l) \/ ReloadDone(l)
    <3>1. \/ Throw(l)
          \/ \E p \in {"reloc", "jit"}, n \in Nat : ctl'[l] = MoveTo(ctl[l], p, n)
      <4>1. ctl[l].pos + 1 \in Nat /\ 1 \in Nat
        BY <1>0 DEF Control
      <4> QED
        BY <1>0, <2>2, <4>1 DEF RelocPatch, JitPatch, ReloadDone
    <3>2. {"reloc", "jit"} \subseteq Pcs
      BY DEF Pcs
    <3> QED
      BY <1>0, <1>1, <3>1, <3>2, MoveFields
  <2>3. CASE RelocDone(l) \/ JitDone(l)
    BY <1>0, <2>3 DEF RelocDone, JitDone
  <2>4. CASE (\E s \in SecIdx : ReloadLock(l, s)) \/ ReloadCopy(l)
    <3>1. \E s \in SecIdx : ctl'[l] = Holding(ctl[l], s) \/ ctl'[l] = Restored(ctl[l], s)
      BY <1>0, <2>4 DEF ReloadLock, ReloadCopy, Control
    <3> QED
      BY <1>0, <3>1, ReloadFields
  <2>5. CASE ReadThrows(l)
    BY <1>1, <2>5 DEF ReadThrows
  <2> QED
    BY <1>3, <2>1, <2>2, <2>3, <2>4, <2>5 DEF PatchStep
<1>4. CASE ClientStep(l)
  <2>1. CASE Destroy(l)
    BY <2>1 DEF Destroy
  <2>2. CASE Construct(l) \/ \E b \in BOOLEAN : SetInferencesMayBeRunInParallel(l, b)
    BY <1>0, <2>2 DEF Construct, SetInferencesMayBeRunInParallel
  <2>3. CASE ~Destroy(l) /\ ~Construct(l) /\ ~\E b \in BOOLEAN : SetInferencesMayBeRunInParallel(l, b)
    <3>1. \E p \in {"section", "reload", "jit"} : \E o, n, t, a : ctl' = [ctl EXCEPT ![l] = At(p, o, n, t, a)]
      BY <1>4, <2>3 DEF ClientStep, StartLoad, Clone, Assign, CopyInto, UpdateSharedScratchBuffers,
         ApplyJitRelocations
    <3> QED
      BY <1>0, <3>1 DEF At
  <2> QED
    BY <2>1, <2>2, <2>3
<1> QED
  BY <1>2, <1>3, <1>4 DEF Step

\* Every step of a loader keeps AbsentInv.
LEMMA AbsentStep ==
  ASSUME TypeOK, AbsentInv, NEW l \in Loaders, Step(l)
  PROVE  AbsentInv'
<1>1. ASSUME NEW k \in Loaders, k # l PROVE AbsentOK(k)'
  BY <1>1, StepFrame, BackupFrame DEF Frame, AbsentInv, AbsentOK, Present
<1>2. AbsentOK(l)'
  <2>1. ctl'[l].pc = "absent" => Release(l)
    BY AbsentMeansReleased
  <2> QED
    BY <2>1 DEF AbsentOK, Present, Release, TypeOK
<1> QED
  BY <1>1, <1>2 DEF AbsentInv

\* A loader in load(), before it relocates, is not loaded; a copy is from the start.
LEMMA LoadedStep ==
  ASSUME TypeOK, ControlInv, NEW l \in Loaders, Step(l)
  PROVE  \/ mbr'[l].loaded = mbr[l].loaded
         \/ mbr'[l].loaded /\ ctl'[l] = Idle /\ (RelocDone(l) \/ BuffersLoaded(l))
         \/ ctl'[l].pc = "absent" /\ Release(l) /\ ~mbr'[l].loaded
         \/ \E m \in Loaders, o \in {"clone", "assign"} : \E t : CopySource(m) /\ CopyInto(l, m, o, t) /\ mbr'[l].loaded
<1>0. ctl \in [Loaders -> Control] /\ mbr \in [Loaders -> Members]
  BY DEF TypeOK
<1>1. Release(l) => ctl'[l].pc = "absent" /\ Release(l) /\ ~mbr'[l].loaded
  BY <1>0 DEF Release, Absent, At, NewMembers
<1>2. Throw(l) => mbr'[l].loaded = mbr[l].loaded \/ Release(l)
  BY <1>0 DEF Throw
<1>3. CASE LoadStep(l) /\ ~BuffersLoaded(l)
  <2>1. mbr' = mbr \/ \E q : mbr' = [mbr EXCEPT ![l].scratch = q]
    BY <1>3 DEF LoadStep, LoadProgbits, LoadNobits, LoadRela, LoadSymtab, LoadOther, SectionsDone,
       UpdateSharedBuffers, SharingDone, LoadSharedBuffer, LoadOwnBuffer
  <2> QED
    BY <1>0, <2>1 DEF Members
<1>4. CASE BuffersLoaded(l) \/ RelocDone(l)
  <2>1. mbr' = mbr \/ (mbr' = [mbr EXCEPT ![l].loaded = TRUE] /\ ctl' = [ctl EXCEPT ![l] = Idle])
    BY <1>4 DEF BuffersLoaded, RelocDone
  <2>2. mbr' = [mbr EXCEPT ![l].loaded = TRUE] => mbr'[l].loaded
    BY <1>0 DEF Members
  <2>3. ctl' = [ctl EXCEPT ![l] = Idle] => ctl'[l] = Idle
    BY <1>0
  <2> QED
    BY <1>4, <2>1, <2>2, <2>3
<1>5. CASE PatchStep(l) /\ ~RelocDone(l)
  <2>1. mbr' = mbr \/ Throw(l)
    BY <1>5 DEF PatchStep, RelocLock, RelocPatch, ReloadLock, ReloadCopy, ReloadDone,
       JitLock, JitPatch, JitDone, ReadThrows
  <2> QED
    BY <1>1, <1>2, <2>1
<1>6. CASE Destroy(l)
  BY <1>1, <1>6 DEF Destroy
<1>7. ASSUME NEW m \in Loaders, NEW o \in {"clone", "assign"}, NEW t, CopySource(m), CopyInto(l, m, o, t)
      PROVE  mbr'[l].loaded
  <2>1. mbr'[l] = [mbr[m] EXCEPT !.symTab = t] /\ mbr[m] \in Members
    BY <1>0, <1>7 DEF CopyInto
  <2>2. mbr'[l].loaded = mbr[m].loaded
    BY <2>1 DEF Members
  <2> QED
    BY <1>7, <2>2 DEF CopySource
<1>8. CASE (\E m \in Loaders, t \in SymTabs : Clone(l, m, t)) \/ \E m \in Loaders : Assign(l, m)
  BY <1>7, <1>8 DEF Clone, Assign
<1>9. ASSUME NEW b \in BOOLEAN, SetInferencesMayBeRunInParallel(l, b) PROVE mbr'[l].loaded = mbr[l].loaded
  BY <1>0, <1>9 DEF SetInferencesMayBeRunInParallel, Members
<1>10. ASSUME NEW t \in SymTabs, StartLoad(l, t) PROVE mbr'[l].loaded = mbr[l].loaded
  BY <1>0, <1>10 DEF StartLoad, Members
<1>11. CASE Construct(l) \/ (\E a \in ScratchSets : UpdateSharedScratchBuffers(l, a))
            \/ \E u \in UserIO : ApplyJitRelocations(l, u)
  BY <1>11 DEF Construct, UpdateSharedScratchBuffers, ApplyJitRelocations
<1>12. CASE ClientStep(l)
  BY <1>6, <1>8, <1>9, <1>10, <1>11, <1>12 DEF ClientStep
<1> QED
  BY <1>3, <1>4, <1>5, <1>12 DEF Step, LoadStep

\* The entries of an empty map.
LEMMA EmptyFields ==
  ASSUME NEW s \in SecIdx
  PROVE  ~EmptyMap[s].has /\ ~EmptyMap[s].isProcessed /\ ~EmptyMap[s].isShared /\ ~EmptyMap[s].hasData
         /\ EmptyMap[s].buf = NullBuf(s)
  BY DEF EmptyMap, NoInfo, Info

\* The fields of an entry that a copy takes over.
LEMMA CopiedFields ==
  ASSUME NEW l \in Loaders, NEW s \in SecIdx, NEW e \in Entry
  PROVE  /\ CopiedEntry(l, s, e) \in Entry
         /\ CopiedEntry(l, s, e).has = e.has /\ CopiedEntry(l, s, e).hasData = e.hasData
         /\ CopiedEntry(l, s, e).isShared = e.isShared
         /\ CopiedEntry(l, s, e).isProcessed = e.isProcessed
         /\ CopiedEntry(l, s, e).buf = IF e.isShared THEN e.buf ELSE OwnBuf(l, s)
  BY BufTypes DEF CopiedEntry, Entry

\* What a step does to the loader's map never marks an entry without a buffer as
\* processed.
LEMMA ProcessedEntries ==
  ASSUME TypeOK, ProcessedInv, NEW l \in Loaders, Step(l), NEW s \in SecIdx, infer'[l][s].isProcessed
  PROVE  infer'[l][s].buf # NullBuf(s)
<1>0. infer[l] \in [SecIdx -> Entry] /\ (infer[l][s].isProcessed => infer[l][s].buf # NullBuf(s))
  BY DEF TypeOK, ProcessedInv, ProcessedOK
<1>1. CASE infer'[l] = infer[l] \/ infer'[l] = EmptyMap
  BY <1>0, <1>1, EmptyFields
<1>2. ASSUME NEW x \in SecIdx, NEW e, infer'[l] = [infer[l] EXCEPT ![x] = e],
             \/ e = Info(NullBuf(x), TRUE, ~elf[x].write, FALSE)
             \/ e = Info(OwnBuf(l, x), FALSE, FALSE, TRUE)
             \/ e = Info(NullBuf(x), FALSE, FALSE, FALSE)
             \/ e = PatchedEntry(infer[l][x])
             \/ e = LoadedEntry(infer[l][x], DataBuf(x))
             \/ e = LoadedEntry(infer[l][x], OwnBuf(l, x))
      PROVE  infer'[l][s].buf # NullBuf(s)
  <2>1. infer'[l][s] = IF x = s THEN e ELSE infer[l][s]
    BY <1>0, <1>2
  <2>2. CASE x # s
    BY <1>0, <2>1, <2>2
  <2>3. CASE x = s
    <3>0. infer'[l][s] = e
      BY <2>1, <2>3
    <3>1. CASE e = Info(NullBuf(x), TRUE, ~elf[x].write, FALSE) \/ e = Info(NullBuf(x), FALSE, FALSE, FALSE)
      BY <3>0, <3>1 DEF Info
    <3>2. CASE e = Info(OwnBuf(l, x), FALSE, FALSE, TRUE)
      BY <2>3, <3>0, <3>2, BufNames DEF Info
    <3>3. CASE e = PatchedEntry(infer[l][x])
      BY <1>0, <2>3, <3>0, <3>3, EntryFields, BufTypes
    <3>4. CASE e = LoadedEntry(infer[l][x], DataBuf(x)) \/ e = LoadedEntry(infer[l][x], OwnBuf(l, x))
      BY <1>0, <2>3, <3>0, <3>4, EntryFields, BufTypes, BufNames
    <3> QED
      BY <1>2, <3>1, <3>2, <3>3, <3>4
  <2> QED
    BY <2>2, <2>3
<1>3. ASSUME NEW m \in Loaders, infer'[l] = copyBufferMap(l, infer[l], infer[m])
      PROVE  infer'[l][s].buf # NullBuf(s)
  <2>1. infer[m][s] \in Entry /\ (infer[m][s].isProcessed => infer[m][s].buf # NullBuf(s))
    BY DEF TypeOK, ProcessedInv, ProcessedOK
  <2>2. infer'[l][s] = infer[l][s] \/ infer'[l][s] = CopiedEntry(l, s, infer[m][s])
    BY <1>3 DEF copyBufferMap
  <2> QED
    BY <1>0, <2>1, <2>2, CopiedFields, BufNames
<1> QED
  BY <1>1, <1>2, <1>3, InferStep

\* The map that a copy starts with has no entry that is not processed.
LEMMA CopyProcessed ==
  ASSUME TypeOK, ControlInv, AloneInv, AbsentInv, ProcessedInv, NEW l \in Loaders, NEW m \in Loaders,
         NEW o \in {"clone", "assign"}, NEW t, CopySource(m), CopyInto(l, m, o, t),
         o = "clone" => ctl[l].pc = "absent", o = "assign" => l # m /\ ctl[l].pc = "idle"
  PROVE  /\ infer'[l] = copyBufferMap(l, infer[l], infer[m])
         /\ ctl'[l] = At("reload", o, 0, Reloaded(infer'[l]), NoArg)
         /\ \A s \in SecIdx : infer'[l][s].has => infer'[l][s].isProcessed
<1>0. infer \in [Loaders -> [SecIdx -> Entry]] /\ ctl \in [Loaders -> Control]
  BY DEF TypeOK
<1>1. /\ infer'[l] = copyBufferMap(l, infer[l], infer[m])
      /\ ctl'[l] = At("reload", o, 0, Reloaded(infer'[l]), NoArg)
  BY <1>0 DEF CopyInto
<1>2. ASSUME NEW s \in SecIdx, infer'[l][s].has PROVE infer'[l][s].isProcessed
  <2>1. \/ ~infer[m][s].has /\ infer'[l][s] = infer[l][s]
        \/ infer[m][s].has /\ infer'[l][s] = CopiedEntry(l, s, infer[m][s])
    BY <1>1 DEF copyBufferMap
  <2>2. CASE infer[m][s].has /\ infer'[l][s] = CopiedEntry(l, s, infer[m][s])
    <3>1. infer[m][s].isProcessed /\ infer[m][s] \in Entry
      BY <1>0, <2>2 DEF ProcessedInv, ProcessedOK, CopySource
    <3> QED
      BY <2>2, <3>1, CopiedFields
  <2>3. CASE ~infer[m][s].has /\ infer'[l][s] = infer[l][s]
    <3>1. CASE o = "clone"
      BY <1>2, <2>3, <3>1, EmptyFields DEF AbsentInv, AbsentOK, Present
    <3>2. CASE o = "assign"
      <4>1. mbr[l].loaded
        BY <3>2 DEF AloneInv, Present, CopySource
      <4> QED
        BY <1>2, <2>3, <4>1 DEF ProcessedInv, ProcessedOK
    <3> QED
      BY <3>1, <3>2
  <2> QED
    BY <2>1, <2>2, <2>3
<1> QED
  BY <1>1, <1>2

\* Every step of a loader keeps ProcessedInv.
LEMMA ProcessedStep ==
  ASSUME TypeOK, ControlInv, AloneInv, AbsentInv, ProcessedInv, NEW l \in Loaders, Step(l)
  PROVE  ProcessedInv'
<1>0. /\ ctl[l] \in Control /\ ctl \in [Loaders -> Control] /\ infer \in [Loaders -> [SecIdx -> Entry]]
      /\ Idle.pc = "idle" /\ ProcessedOK(ctl[l], mbr[l], infer[l])
      /\ ControlOK(ctl[l], mbr[l], infer[l])
  BY DEF TypeOK, Idle, At, ProcessedInv, ControlInv
<1>1. ASSUME NEW k \in Loaders, k # l PROVE ProcessedOK(ctl'[k], mbr'[k], infer'[k])
  BY <1>1, StepFrame DEF Frame, ProcessedInv
<1> SUFFICES ProcessedOK(ctl'[l], mbr'[l], infer'[l])
  BY <1>1 DEF ProcessedInv
<1>2. ASSUME /\ mbr'[l].loaded \/ ctl'[l].pc \in Relocating => \A s \in SecIdx : infer'[l][s].has => infer'[l][s].isProcessed
             /\ ctl'[l].pc \in {"reload", "reloadCopy"} => \A s \in ctl'[l].todo : infer'[l][s].has
      PROVE  ProcessedOK(ctl'[l], mbr'[l], infer'[l])
  BY <1>2, ProcessedEntries DEF ProcessedOK
<1>3. CASE LoadStep(l) /\ ~BuffersLoaded(l)
  <2>1. ctl[l].pc \in {"section", "share", "buffers"}
    BY <1>3 DEF LoadStep, LoadProgbits, LoadNobits, LoadRela, LoadSymtab, LoadOther, AtSection, SectionsDone,
       UpdateSharedBuffers, SharingDone, LoadSharedBuffer, LoadOwnBuffer
  <2>2. ctl'[l].pc \in {"section", "share", "buffers", "idle"}
    BY <1>0, <1>3, LoadPc DEF LoadStep, SectionStep, BufferStep
  <2>3. mbr' = mbr \/ \E q : mbr' = [mbr EXCEPT ![l].scratch = q]
    BY <1>3 DEF LoadStep, LoadProgbits, LoadNobits, LoadRela, LoadSymtab, LoadOther, SectionsDone,
       UpdateSharedBuffers, SharingDone, LoadSharedBuffer, LoadOwnBuffer
  <2>4. ~mbr'[l].loaded
    BY <1>0, <2>1, <2>3 DEF ControlOK, TypeOK, Members
  <2> QED
    BY <1>2, <2>2, <2>4 DEF Relocating
<1>4. CASE BuffersLoaded(l)
  <2>1. infer' = infer /\ Unprocessed(l) = {}
    BY <1>4 DEF BuffersLoaded
  <2>2. ctl'[l].pc \in {"reloc", "idle"}
    BY <1>4, LoadPc
  <2> QED
    BY <1>2, <2>1, <2>2 DEF Unprocessed
<1>5. CASE Release(l)
  <2>1. infer'[l] = EmptyMap /\ ctl'[l].pc = "absent"
    BY <1>0, <1>5 DEF Release, Absent, At
  <2> QED
    BY <1>2, <2>1, EmptyFields
<1>6. CASE PatchStep(l) /\ ~Release(l)
  <2>1. infer' = infer
    BY <1>6 DEF PatchStep, RelocLock, RelocPatch, RelocDone, ReloadLock, ReloadCopy, ReloadDone,
       JitLock, JitPatch, JitDone, ReadThrows, Throw
  <2>2. mbr'[l].loaded \/ ctl'[l].pc \in Relocating => mbr[l].loaded \/ ctl[l].pc \in Relocating
    <3>1. CASE ReadThrows(l)
      <4>1. mbr' = mbr /\ ctl'[l] = Idle
        BY <1>0, <1>6, <3>1 DEF ReadThrows, Throw
      <4> QED
        BY <1>0, <4>1 DEF Relocating
    <3>2. CASE ~ReadThrows(l)
      BY <1>6, <3>2 DEF PatchStep, RelocLock, RelocPatch, RelocDone, ReloadLock, ReloadCopy, ReloadDone,
         JitLock, JitPatch, JitDone, Relocating
    <3> QED
      BY <3>1, <3>2
  <2>3. ctl'[l].pc \in {"reload", "reloadCopy"} => ctl[l].pc \in {"reload", "reloadCopy"} /\ ctl'[l].todo \subseteq ctl[l].todo
    <3>1. CASE ReloadCopy(l) \/ \E s \in SecIdx : ReloadLock(l, s)
      <4>1. /\ \E s \in SecIdx : ctl'[l] = Holding(ctl[l], s) \/ ctl'[l] = Restored(ctl[l], s)
            /\ ctl[l].pc \in {"reload", "reloadCopy"}
        BY <1>0, <3>1 DEF ReloadLock, ReloadCopy, Control
      <4> QED
        BY <1>0, <4>1, ReloadFields
    <3>2. CASE RelocLock(l) \/ JitLock(l)
      <4>1. ctl'[l] = Idle \/ \E p \in {"relocPatch", "jitPatch"} : ctl' = [ctl EXCEPT ![l].pc = p]
        BY <1>0, <1>6, <3>2 DEF RelocLock, JitLock, Throw
      <4> QED
        BY <1>0, <4>1 DEF Control
    <3>3. CASE RelocPatch(l) \/ JitPatch(l) \/ ReloadDone(l)
      <4>1. \/ ctl'[l] = Idle
            \/ \E p \in {"reloc", "jit"}, n \in Nat : ctl'[l] = MoveTo(ctl[l], p, n)
        <5>1. ctl[l].pos + 1 \in Nat /\ 1 \in Nat
          BY <1>0 DEF Control
        <5> QED
          BY <1>0, <1>6, <3>3, <5>1 DEF RelocPatch, JitPatch, ReloadDone, Throw
      <4>2. {"reloc", "jit"} \subseteq Pcs
        BY DEF Pcs
      <4> QED
        BY <1>0, <4>1, <4>2, MoveFields
    <3>4. CASE RelocDone(l) \/ JitDone(l) \/ ReadThrows(l)
      BY <1>0, <1>6, <3>4 DEF RelocDone, JitDone, ReadThrows, Throw
    <3> QED
      BY <1>6, <3>1, <3>2, <3>3, <3>4 DEF PatchStep
  <2> QED
    BY <1>0, <1>2, <2>1, <2>2, <2>3 DEF ProcessedOK
<1>7. ASSUME NEW m \in Loaders, NEW o \in {"clone", "assign"}, NEW t, CopySource(m), CopyInto(l, m, o, t),
             o = "clone" => ctl[l].pc = "absent", o = "assign" => l # m /\ ctl[l].pc = "idle"
      PROVE  ProcessedOK(ctl'[l], mbr'[l], infer'[l])
  <2>0. /\ ctl'[l] = At("reload", o, 0, Reloaded(infer'[l]), NoArg)
        /\ \A s \in SecIdx : infer'[l][s].has => infer'[l][s].isProcessed
    BY <1>7, CopyProcessed
  <2>1. ctl'[l].todo = Reloaded(infer'[l]) /\ \A s \in SecIdx : infer'[l][s].has => infer'[l][s].isProcessed
    BY <2>0 DEF At
  <2> QED
    BY <1>2, <2>1 DEF Reloaded
<1>8. CASE \E b \in BOOLEAN : SetInferencesMayBeRunInParallel(l, b)
  <2>1. infer' = infer /\ ctl' = ctl /\ ctl[l].pc = "idle" /\ ~mbr[l].loaded
    BY <1>8 DEF SetInferencesMayBeRunInParallel
  <2>2. ~mbr'[l].loaded
    BY <1>0, <1>8, <2>1 DEF SetInferencesMayBeRunInParallel, TypeOK, Members
  <2> QED
    BY <1>2, <2>1, <2>2 DEF Relocating
<1>9. CASE \E t \in SymTabs : StartLoad(l, t)
  <2>1. infer' = infer /\ ctl'[l].pc = "section" /\ ~mbr[l].loaded
    BY <1>0, <1>9 DEF StartLoad, At
  <2>2. ~mbr'[l].loaded
    BY <1>0, <1>9, <2>1 DEF StartLoad, TypeOK, Members
  <2> QED
    BY <1>2, <2>1, <2>2 DEF Relocating
<1>10. CASE Construct(l)
  <2>1. infer'[l] = EmptyMap /\ ctl'[l].pc = "idle"
    BY <1>0, <1>10 DEF Construct, AbsentInv, AbsentOK, Present
  <2> QED
    BY <1>2, <2>1, EmptyFields
<1>11. CASE (\E a \in ScratchSets : UpdateSharedScratchBuffers(l, a)) \/ \E u \in UserIO : ApplyJitRelocations(l, u)
  <2>1. /\ infer' = infer /\ mbr' = mbr /\ mbr[l].loaded
        /\ ctl'[l].pc = "reload" \/ ctl'[l].pc = "jit"
        /\ ctl'[l].pc = "reload" => ctl'[l].todo = Reloaded(infer[l])
    BY <1>0, <1>11 DEF UpdateSharedScratchBuffers, ApplyJitRelocations, At, RestoredForScratch
  <2> QED
    BY <1>0, <1>2, <2>1 DEF ProcessedOK, Reloaded
<1>12. CASE ClientStep(l)
  BY <1>5, <1>7, <1>8, <1>9, <1>10, <1>11, <1>12 DEF ClientStep, Destroy, Clone, Assign
<1> QED
  BY <1>3, <1>4, <1>5, <1>6, <1>12 DEF Step, LoadStep

-----------------------------------------------------------------------------
(* BackupInv *)

\* The ways a step can change a loader's backups.
LEMMA BackupForms ==
  ASSUME TypeOK, NEW l \in Loaders, Step(l)
  PROVE  \/ backup'[l] = backup[l]
         \/ Release(l) /\ backup'[l] = EmptyMap
         \/ \E s \in SecIdx, d \in BOOLEAN :
               LoadOwnBuffer(l, s) /\ backup'[l] = [backup[l] EXCEPT ![s] = Info(BackupBuf(s), d, d, d)]
         \/ \E m \in Loaders : \E o, t :
               CopySource(m) /\ CopyInto(l, m, o, t) /\ backup'[l] = copyBufferMap(l, backup[l], backup[m])
<1>0. backup \in [Loaders -> [SecIdx -> Entry]]
  BY DEF TypeOK
<1>1. Release(l) => backup'[l] = EmptyMap
  BY <1>0 DEF Release
<1>2. ASSUME NEW s \in SecIdx, LoadOwnBuffer(l, s)
      PROVE  \E d \in BOOLEAN : backup'[l] = [backup[l] EXCEPT ![s] = Info(BackupBuf(s), d, d, d)]
  <2>1. \E d \in BOOLEAN : backup' = [backup EXCEPT ![l][s] = Info(BackupBuf(s), d, d, d)]
    BY <1>2 DEF LoadOwnBuffer
  <2> QED
    BY <1>0, <2>1
<1>3. CASE LoadStep(l) /\ ~\E s \in SecIdx : LoadOwnBuffer(l, s)
  BY <1>3 DEF LoadStep, LoadProgbits, LoadNobits, LoadRela, LoadSymtab, LoadOther, SectionsDone,
     UpdateSharedBuffers, SharingDone, LoadSharedBuffer, BuffersLoaded
<1>4. CASE PatchStep(l)
  <2>1. backup' = backup \/ Throw(l)
    BY <1>4 DEF PatchStep, RelocLock, RelocPatch, RelocDone, ReloadLock, ReloadCopy, ReloadDone,
       JitLock, JitPatch, JitDone, ReadThrows
  <2> QED
    BY <1>1, <2>1 DEF Throw
<1>5. ASSUME NEW m \in Loaders, NEW o, NEW t, CopyInto(l, m, o, t)
      PROVE  backup'[l] = copyBufferMap(l, backup[l], backup[m])
  BY <1>0, <1>5 DEF CopyInto
<1>6. CASE ClientStep(l) /\ ~\E m \in Loaders : \E o, t : CopySource(m) /\ CopyInto(l, m, o, t)
  <2>1. backup' = backup \/ Release(l)
    BY <1>6 DEF ClientStep, Construct, Destroy, SetInferencesMayBeRunInParallel, StartLoad,
       Clone, Assign, UpdateSharedScratchBuffers, ApplyJitRelocations
  <2> QED
    BY <1>1, <2>1
<1> QED
  BY <1>2, <1>3, <1>4, <1>5, <1>6 DEF Step

\* Every step of a loader keeps BackupInv.
LEMMA BackupStep ==
  ASSUME TypeOK, ControlInv, BackupInv, NEW l \in Loaders, Step(l)
  PROVE  BackupInv'
<1>0. backup[l] \in [SecIdx -> Entry] /\ ctl[l] \in Control /\ ctl \in [Loaders -> Control]
  BY DEF TypeOK
<1>1. ASSUME NEW s \in SecIdx PROVE BackupOK(l, s, backup'[l][s])
  <2>0. BackupOK(l, s, backup[l][s])
    BY DEF BackupInv
  <2>1. CASE backup'[l] = EmptyMap
    BY <2>1, EmptyFields DEF BackupOK
  <2>2. ASSUME NEW x \in SecIdx, NEW d \in BOOLEAN, backup'[l] = [backup[l] EXCEPT ![x] = Info(BackupBuf(x), d, d, d)]
        PROVE  BackupOK(l, s, backup'[l][s])
    <3>1. backup'[l][s] = IF x = s THEN Info(BackupBuf(s), d, d, d) ELSE backup[l][s]
      BY <1>0, <2>2
    <3> QED
      BY <2>0, <3>1 DEF BackupOK, Info
  <2>3. ASSUME NEW m \in Loaders, backup'[l] = copyBufferMap(l, backup[l], backup[m])
        PROVE  BackupOK(l, s, backup'[l][s])
    <3>1. \/ backup'[l][s] = backup[l][s]
          \/ backup[m][s].isShared /\ backup'[l][s] = backup[m][s]
          \/ ~backup[m][s].isShared /\ backup'[l][s] = [backup[m][s] EXCEPT !.buf = OwnBuf(l, s)]
      BY <2>3 DEF copyBufferMap, CopiedEntry
    <3>2. BackupOK(m, s, backup[m][s]) /\ backup[m][s] \in Entry
      BY DEF BackupInv, TypeOK
    <3>3. CASE ~backup[m][s].isShared /\ backup'[l][s] = [backup[m][s] EXCEPT !.buf = OwnBuf(l, s)]
      BY <3>2, <3>3 DEF BackupOK, Entry
    <3>4. CASE backup[m][s].isShared /\ backup'[l][s] = backup[m][s]
      BY <3>2, <3>4 DEF BackupOK
    <3> QED
      BY <2>0, <3>1, <3>3, <3>4
  <2> QED
    BY <2>0, <2>1, <2>2, <2>3, BackupForms
<1>2. ASSUME ctl'[l].pc = "reloadCopy" PROVE backup'[l][ctl'[l].cur].has
  <2>1. CASE \E s \in SecIdx : ReloadLock(l, s)
    <3>1. PICK s \in SecIdx : ReloadLock(l, s)
      BY <2>1
    <3>2. ctl'[l] = Holding(ctl[l], s) /\ backup' = backup /\ backup[l][s].has
      BY <1>0, <3>1 DEF ReloadLock
    <3>3. ctl'[l].cur = s
      BY <1>0, <3>2, ReloadFields
    <3> QED
      BY <3>2, <3>3
  <2>2. CASE PatchStep(l) /\ ~\E s \in SecIdx : ReloadLock(l, s)
    <3>1. CASE RelocLock(l) \/ JitLock(l)
      <4>1. Throw(l) \/ \E p \in {"relocPatch", "jitPatch"} : ctl' = [ctl EXCEPT ![l].pc = p]
        BY <3>1 DEF RelocLock, JitLock
      <4> QED
        BY <1>0, <1>2, <4>1, ThrowControl DEF Control, Idle, Absent, At
    <3>2. CASE RelocPatch(l) \/ JitPatch(l) \/ ReloadDone(l)
      <4>1. Throw(l) \/ \E p \in {"reloc", "jit"}, n \in Nat : ctl'[l] = MoveTo(ctl[l], p, n)
        <5>1. ctl[l].pos + 1 \in Nat /\ 1 \in Nat
          BY <1>0 DEF Control
        <5> QED
          BY <1>0, <3>2, <5>1 DEF RelocPatch, JitPatch, ReloadDone
      <4>2. {"reloc", "jit"} \subseteq Pcs
        BY DEF Pcs
      <4> QED
        BY <1>0, <1>2, <4>1, <4>2, MoveFields, ThrowControl DEF Idle, Absent, At
    <3>3. CASE ReloadCopy(l)
      <4>1. ctl'[l] = Restored(ctl[l], ctl[l].cur) /\ ctl[l].cur \in SecIdx
        BY <1>0, <3>3 DEF ReloadCopy, Control
      <4> QED
        BY <1>0, <1>2, <4>1, ReloadFields
    <3>4. CASE RelocDone(l) \/ JitDone(l) \/ ReadThrows(l)
      BY <1>0, <1>2, <3>4, ThrowControl DEF RelocDone, JitDone, ReadThrows, Idle, Absent, At
    <3> QED
      BY <2>2, <3>1, <3>2, <3>3, <3>4 DEF PatchStep
  <2>3. CASE LoadStep(l)
    BY <1>2, <2>3, LoadPc DEF LoadStep, SectionStep, BufferStep, Idle, At
  <2>4. CASE ClientStep(l)
    BY <1>2, <2>4, ClientPc
  <2> QED
    BY <2>1, <2>2, <2>3, <2>4 DEF Step
<1>3. ASSUME NEW k \in Loaders, k # l
      PROVE  /\ \A s \in SecIdx : BackupOK(k, s, backup'[k][s])
             /\ ctl'[k].pc = "reloadCopy" => backup'[k][ctl'[k].cur].has
  BY <1>3, StepFrame, BackupFrame DEF Frame, BackupInv
<1> QED
  BY <1>1, <1>2, <1>3 DEF BackupInv, BackupOK, BackupBuf, OwnBuf

-----------------------------------------------------------------------------
(* What a step writes *)

\* The target of a relocation that a loader applies is the loader's own buffer for it.
LEMMA TargetOwned ==
  ASSUME TypeOK, EntryInv, ProcessedInv, NEW l \in Loaders, ctl[l].pc \in Relocating \/ mbr[l].loaded,
         NEW r \in SecIdx, IsRela(elf, r), ~NoTarget(l, r)
  PROVE  elf[r].info \in SecIdx /\ TargetBuf(l, r) = OwnBuf(l, elf[r].info)
<1> DEFINE t == elf[r].info
<1>1. t \in SecIdx /\ t \in RelaTargets(elf) /\ infer[l][t].has
  BY DEF NoTarget, Has, RelaTargets
<1>2. infer[l][t].isProcessed /\ infer[l][t].buf # NullBuf(t)
  BY <1>1 DEF ProcessedInv, ProcessedOK
<1>3. EntryOK(l, t, infer[l][t])
  BY <1>1 DEF EntryInv
<1> QED
  BY <1>1, <1>2, <1>3 DEF EntryOK, TargetBuf

\* The section a loader is patching, and its target.
LEMMA PatchedSection ==
  ASSUME TypeOK, ControlInv, PatchInv, RegisteredInv, EntryInv, ProcessedInv, NEW l \in Loaders
  PROVE  /\ ctl[l].pc = "relocPatch" =>
               LET r == relocIdx[ctl[l].pos] IN
               /\ ctl[l].pos \in 1 .. Len(relocIdx) /\ r \in SecIdx /\ IsRela(elf, r)
               /\ elf[r].info \in SecIdx /\ TargetBuf(l, r) = OwnBuf(l, elf[r].info)
         /\ ctl[l].pc = "jitPatch" =>
               LET r == jitIdx[ctl[l].pos] IN
               /\ ctl[l].pos \in 1 .. Len(jitIdx) /\ r \in SecIdx /\ IsRela(elf, r)
               /\ elf[r].info \in SecIdx /\ TargetBuf(l, r) = OwnBuf(l, elf[r].info)
<1>0. ctl[l].pos \in Nat /\ relocIdx \in Seq(SecIdx) /\ jitIdx \in Seq(SecIdx)
      /\ Len(relocIdx) \in Nat /\ Len(jitIdx) \in Nat
  BY DEF TypeOK, Control
<1>1. ASSUME ctl[l].pc = "relocPatch"
      PROVE  LET r == relocIdx[ctl[l].pos] IN
             /\ ctl[l].pos \in 1 .. Len(relocIdx) /\ r \in SecIdx /\ IsRela(elf, r)
             /\ elf[r].info \in SecIdx /\ TargetBuf(l, r) = OwnBuf(l, elf[r].info)
  <2> DEFINE r == relocIdx[ctl[l].pos]
  <2>1. ctl[l].pos \in 1 .. Len(relocIdx) /\ ~NoTarget(l, r)
    BY <1>0, <1>1 DEF ControlInv, ControlOK, PatchInv, PatchOK
  <2>2. r \in SecIdx /\ IsRela(elf, r)
    BY <1>0, <2>1 DEF RegisteredInv
  <2> HIDE DEF r
  <2>3. elf[r].info \in SecIdx /\ TargetBuf(l, r) = OwnBuf(l, elf[r].info)
    BY <1>1, <2>1, <2>2, TargetOwned DEF Relocating
  <2> QED
    BY <2>1, <2>2, <2>3 DEF r
<1>2. ASSUME ctl[l].pc = "jitPatch"
      PROVE  LET r == jitIdx[ctl[l].pos] IN
             /\ ctl[l].pos \in 1 .. Len(jitIdx) /\ r \in SecIdx /\ IsRela(elf, r)
             /\ elf[r].info \in SecIdx /\ TargetBuf(l, r) = OwnBuf(l, elf[r].info)
  <2> DEFINE r == jitIdx[ctl[l].pos]
  <2>1. ctl[l].pos \in 1 .. Len(jitIdx) /\ ~NoTarget(l, r)
    BY <1>0, <1>2 DEF ControlInv, ControlOK, PatchInv, PatchOK
  <2>2. r \in SecIdx /\ IsRela(elf, r)
    BY <1>0, <2>1 DEF RegisteredInv
  <2> HIDE DEF r
  <2>3. elf[r].info \in SecIdx /\ TargetBuf(l, r) = OwnBuf(l, elf[r].info)
    BY <1>2, <2>1, <2>2, TargetOwned DEF Relocating
  <2> QED
    BY <2>1, <2>2, <2>3 DEF r
<1> QED
  BY <1>1, <1>2

\* A step writes, or moves, only buffers of its own loader; while it loads them, also the
\* backups and the reader's buffers; and a new Reader starts with nothing written.
LEMMA WriteStep ==
  ASSUME TypeOK, SharingIInv, ProcessedInv, NEW l \in Loaders, Step(l), NEW b \in BufIds, b[1] # l,
         ~Construct(l), BufferStep(l) => b[1] \notin {"reader", "backup"}
  PROVE  mem'[b] = mem[b] /\ dev'[b] = dev[b]
<1>0. /\ mem \in [BufIds -> Contents] /\ dev \in [BufIds -> Addrs] /\ ctl[l] \in Control
      /\ ControlInv /\ PatchInv /\ RegisteredInv /\ EntryInv
  BY DEF TypeOK, SharingIInv
<1>1. ASSUME NEW s \in SecIdx, NEW c, mem' = [mem EXCEPT ![OwnBuf(l, s)] = c] PROVE mem'[b] = mem[b]
  BY <1>0, <1>1 DEF OwnBuf
<1>2. CASE BufferStep(l)
  <2>1. PICK s \in SecIdx : LoadSharedBuffer(l, s) \/ LoadOwnBuffer(l, s)
    BY <1>2 DEF BufferStep
  <2>2. /\ \/ mem' = [mem EXCEPT ![DataBuf(s)] = Pristine]
           \/ mem' = [mem EXCEPT ![BackupBuf(s)] = Pristine]
           \/ mem' = [mem EXCEPT ![BackupBuf(s)] = Pristine, ![OwnBuf(l, s)] = Pristine]
        /\ dev' = dev
    BY <2>1 DEF LoadSharedBuffer, LoadOwnBuffer
  <2>3. b # DataBuf(s) /\ b # BackupBuf(s) /\ b # OwnBuf(l, s)
    BY <1>2 DEF DataBuf, BackupBuf, OwnBuf
  <2> QED
    BY <1>0, <2>2, <2>3
<1>3. CASE LoadNobits(l)
  <2>1. mem' = mem /\ (dev' = dev \/ \E v : dev' = [dev EXCEPT ![OwnBuf(l, ctl[l].pos)] = v])
    BY <1>3 DEF LoadNobits
  <2> QED
    BY <1>0, <2>1 DEF OwnBuf
<1>4. CASE LoadStep(l) /\ ~BufferStep(l) /\ ~LoadNobits(l)
  <2>1. mem' = mem /\ dev' = dev
    BY <1>4 DEF LoadStep, BufferStep, LoadProgbits, LoadRela, LoadSymtab, LoadOther,
       SectionsDone, UpdateSharedBuffers, SharingDone, BuffersLoaded, buffers
  <2> QED
    BY <2>1
<1>5. CASE RelocPatch(l) \/ JitPatch(l)
  <2>1. /\ dev' = dev
        /\ \/ ctl[l].pc = "relocPatch" /\ \E v : mem' = [mem EXCEPT ![TargetBuf(l, relocIdx[ctl[l].pos])] = v]
           \/ ctl[l].pc = "jitPatch" /\ \E v : mem' = [mem EXCEPT ![TargetBuf(l, jitIdx[ctl[l].pos])] = v]
    BY <1>5 DEF RelocPatch, JitPatch
  <2> QED
    BY <1>0, <1>1, <2>1, PatchedSection
<1>6. CASE ReloadCopy(l)
  <2> DEFINE s == ctl[l].cur
  <2>1. s \in SecIdx /\ ~infer[l][s].isShared /\ infer[l][s].has
    BY <1>0, <1>6 DEF ReloadCopy, Control, ControlInv, ControlOK, ProcessedInv, ProcessedOK
  <2>2. infer[l][s].isProcessed /\ infer[l][s].buf # NullBuf(s)
    BY <1>6, <2>1 DEF ReloadCopy, Relocating, ProcessedInv, ProcessedOK
  <2>3. infer[l][s].buf = OwnBuf(l, s)
    BY <1>0, <2>1, <2>2 DEF EntryInv, EntryOK
  <2>4. mem' = [mem EXCEPT ![OwnBuf(l, s)] = mem[backup[l][s].buf]] /\ dev' = dev
    BY <1>6, <2>3 DEF ReloadCopy
  <2> QED
    BY <1>1, <2>1, <2>4
<1>7. CASE ReloadDone(l)
  <2>1. mem' = mem /\ dev' = [x \in BufIds |-> IF x \in ResetBufs(l) THEN <<ctl[l].arg, x[2]>> ELSE dev[x]]
    BY <1>7 DEF ReloadDone
  <2>2. b \notin ResetBufs(l)
    BY DEF ResetBufs, OwnBuf
  <2> QED
    BY <2>1, <2>2
<1>8. CASE PatchStep(l) /\ ~RelocPatch(l) /\ ~JitPatch(l) /\ ~ReloadCopy(l) /\ ~ReloadDone(l)
  <2>1. mem' = mem /\ dev' = dev
    BY <1>8 DEF PatchStep, RelocLock, RelocDone, ReloadLock, JitLock, JitDone, ReadThrows, buffers
  <2> QED
    BY <2>1
<1>9. CASE Destroy(l)
  BY <1>9 DEF Destroy
<1>10. ASSUME NEW m \in Loaders, NEW o, NEW t, CopyInto(l, m, o, t) PROVE mem'[b] = mem[b] /\ dev'[b] = dev[b]
  <2>1. \A S : b \notin {OwnBuf(l, s) : s \in S}
    BY DEF OwnBuf
  <2>2. \A S, q : b \notin {OwnBuf(l, q[i]) : i \in S}
    BY DEF OwnBuf
  <2> QED
    BY <1>10, <2>1, <2>2 DEF CopyInto
<1>11. CASE ClientStep(l) /\ ~Destroy(l) /\ ~\E m \in Loaders : \E o, t : CopyInto(l, m, o, t)
  <2>1. mem' = mem /\ dev' = dev
    BY <1>11 DEF ClientStep, Construct, SetInferencesMayBeRunInParallel, StartLoad,
       Clone, Assign, UpdateSharedScratchBuffers, ApplyJitRelocations, buffers
  <2> QED
    BY <2>1
<1> QED
  BY <1>2, <1>3, <1>4, <1>5, <1>6, <1>7, <1>8, <1>9, <1>10, <1>11 DEF Step

-----------------------------------------------------------------------------
(* Who holds which lock *)

\* A step of one loader does not change what another one has locked.
LEMMA HeldByOthers ==
  ASSUME TypeOK, ControlInv, PatchInv, NEW l \in Loaders, Step(l), NEW k \in Loaders, k # l
  PROVE  HeldBuf(k)' = HeldBuf(k)
<1>0. /\ relocIdx \in Seq(SecIdx) /\ jitIdx \in Seq(SecIdx) /\ ctl[k].pos \in Nat
      /\ ControlOK(ctl[k], mbr[k], infer[k]) /\ PatchOK(k)
  BY DEF TypeOK, Control, ControlInv, PatchInv
<1>1. ctl'[k] = ctl[k] /\ infer'[k] = infer[k] /\ elf' = elf /\ backup'[k] = backup[k]
  BY StepFrame, BackupFrame DEF Frame
<1>2. CASE ctl[k].pc = "absent"
  BY <1>1, <1>2 DEF HeldBuf
<1>3. CASE ctl[k].pc # "absent"
  <2>1. /\ ctl[k].pc = "relocPatch" => relocIdx'[ctl[k].pos] = relocIdx[ctl[k].pos]
        /\ ctl[k].pc = "jitPatch" => jitIdx'[ctl[k].pos] = jitIdx[ctl[k].pos]
    <3>1. /\ ctl[k].pc = "relocPatch" => ctl[k].pos \in 1 .. Len(relocIdx)
          /\ ctl[k].pc = "jitPatch" => ctl[k].pos \in 1 .. Len(jitIdx)
      BY <1>0 DEF ControlOK, PatchOK
    <3> QED
      BY <1>0, <1>3, <3>1, IndexStep, AppendFacts
  <2> QED
    BY <1>1, <2>1 DEF HeldBuf, TargetBuf
<1> QED
  BY <1>2, <1>3

\* A step of a loader that holds nothing takes at most one lock; one of a loader that
\* holds a lock gives it back.
LEMMA HeldByOwn ==
  ASSUME TypeOK, BackupInv, NEW l \in Loaders, Step(l)
  PROVE  \/ lock' = lock /\ HeldBuf(l) = {} /\ HeldBuf(l)' = {}
         \/ \E b \in BufIds : lock' = Locked(b) /\ HeldBuf(l) = {} /\ HeldBuf(l)' = {b}
         \/ \E b : lock' = Unlocked(b) /\ HeldBuf(l) = {b} /\ HeldBuf(l)' = {}
<1>0. /\ ctl[l] \in Control /\ ctl \in [Loaders -> Control] /\ Idle.pc = "idle" /\ Absent.pc = "absent"
      /\ infer \in [Loaders -> [SecIdx -> Entry]] /\ backup \in [Loaders -> [SecIdx -> Entry]]
  BY DEF TypeOK, Idle, Absent, At
<1> DEFINE Holding3 == {"relocPatch", "jitPatch", "reloadCopy"}
<1>1. /\ ctl[l].pc \notin Holding3 => HeldBuf(l) = {}
      /\ ctl'[l].pc \notin Holding3 => HeldBuf(l)' = {}
  BY DEF HeldBuf
<1>2. CASE LoadStep(l)
  <2>1. lock' = lock
    BY <1>2 DEF LoadStep, LoadProgbits, LoadNobits, LoadRela, LoadSymtab, LoadOther, SectionsDone,
       UpdateSharedBuffers, SharingDone, LoadSharedBuffer, LoadOwnBuffer, BuffersLoaded, buffers
  <2>2. ctl[l].pc \in {"section", "share", "buffers"}
    BY <1>2 DEF LoadStep, LoadProgbits, LoadNobits, LoadRela, LoadSymtab, LoadOther, AtSection, SectionsDone,
       UpdateSharedBuffers, SharingDone, LoadSharedBuffer, LoadOwnBuffer, BuffersLoaded
  <2>3. ctl'[l].pc \in {"section", "share", "buffers", "reloc", "idle"}
    BY <1>0, <1>2, LoadPc DEF LoadStep, SectionStep, BufferStep
  <2> QED
    BY <1>1, <2>1, <2>2, <2>3
<1>3. CASE ClientStep(l)
  <2>1. lock' = lock /\ ctl[l].pc \in {"idle", "absent"}
    BY <1>3 DEF ClientStep, Construct, Destroy, SetInferencesMayBeRunInParallel, StartLoad,
       Clone, Assign, CopyInto, UpdateSharedScratchBuffers, ApplyJitRelocations, buffers
  <2>2. ctl'[l].pc \in {"idle", "absent", "reload", "jit", "section"}
    BY <1>3, ClientPc
  <2> QED
    BY <1>1, <2>1, <2>2
<1>4. Throw(l) => ctl'[l].pc \in {"idle", "absent"}
  BY <1>0, ThrowControl
<1>5. CASE RelocLock(l)
  <2>1. /\ ctl[l].pc = "reloc"
        /\ \/ Throw(l) /\ lock' = lock
           \/ /\ lock' = Locked(TargetBuf(l, relocIdx[ctl[l].pos])) /\ ~NoTarget(l, relocIdx[ctl[l].pos])
              /\ ctl' = [ctl EXCEPT ![l].pc = "relocPatch"] /\ infer' = infer /\ elf' = elf /\ relocIdx' = relocIdx
    BY <1>5 DEF RelocLock, indexes
  <2>2. CASE Throw(l) /\ lock' = lock
    BY <1>1, <1>4, <2>1, <2>2
  <2>3. CASE /\ lock' = Locked(TargetBuf(l, relocIdx[ctl[l].pos])) /\ ~NoTarget(l, relocIdx[ctl[l].pos])
             /\ ctl' = [ctl EXCEPT ![l].pc = "relocPatch"] /\ infer' = infer /\ elf' = elf /\ relocIdx' = relocIdx
    <3> DEFINE b == TargetBuf(l, relocIdx[ctl[l].pos])
    <3>1. ctl'[l].pc = "relocPatch" /\ ctl'[l].pos = ctl[l].pos
      BY <1>0, <2>3 DEF Control
    <3>2. HeldBuf(l)' = {b}
      BY <2>3, <3>1 DEF HeldBuf, TargetBuf
    <3>3. b \in BufIds
      BY <1>0, <2>3 DEF TargetBuf, NoTarget, Has, Entry
    <3> QED
      BY <1>1, <2>1, <2>3, <3>2, <3>3
  <2> QED
    BY <2>1, <2>2, <2>3
<1>6. CASE JitLock(l)
  <2>1. /\ ctl[l].pc = "jit"
        /\ \/ Throw(l) /\ lock' = lock
           \/ /\ lock' = Locked(TargetBuf(l, jitIdx[ctl[l].pos])) /\ ~NoTarget(l, jitIdx[ctl[l].pos])
              /\ ctl' = [ctl EXCEPT ![l].pc = "jitPatch"] /\ infer' = infer /\ elf' = elf /\ jitIdx' = jitIdx
    BY <1>6 DEF JitLock, indexes
  <2>2. CASE Throw(l) /\ lock' = lock
    BY <1>1, <1>4, <2>1, <2>2
  <2>3. CASE /\ lock' = Locked(TargetBuf(l, jitIdx[ctl[l].pos])) /\ ~NoTarget(l, jitIdx[ctl[l].pos])
             /\ ctl' = [ctl EXCEPT ![l].pc = "jitPatch"] /\ infer' = infer /\ elf' = elf /\ jitIdx' = jitIdx
    <3> DEFINE b == TargetBuf(l, jitIdx[ctl[l].pos])
    <3>1. ctl'[l].pc = "jitPatch" /\ ctl'[l].pos = ctl[l].pos
      BY <1>0, <2>3 DEF Control
    <3>2. HeldBuf(l)' = {b}
      BY <2>3, <3>1 DEF HeldBuf, TargetBuf
    <3>3. b \in BufIds
      BY <1>0, <2>3 DEF TargetBuf, NoTarget, Has, Entry
    <3> QED
      BY <1>1, <2>1, <2>3, <3>2, <3>3
  <2> QED
    BY <2>1, <2>2, <2>3
<1>7. CASE RelocPatch(l) \/ JitPatch(l)
  <2>1. \/ ctl[l].pc = "relocPatch" /\ lock' = Unlocked(TargetBuf(l, relocIdx[ctl[l].pos]))
        \/ ctl[l].pc = "jitPatch" /\ lock' = Unlocked(TargetBuf(l, jitIdx[ctl[l].pos]))
    BY <1>7 DEF RelocPatch, JitPatch
  <2>2. \/ Throw(l)
        \/ \E p \in {"reloc", "jit"}, n \in Nat : ctl'[l] = MoveTo(ctl[l], p, n)
    <3>1. ctl[l].pos + 1 \in Nat
      BY <1>0 DEF Control
    <3> QED
      BY <1>0, <1>7, <3>1 DEF RelocPatch, JitPatch
  <2>3. {"reloc", "jit"} \subseteq Pcs
    BY DEF Pcs
  <2>4. HeldBuf(l)' = {}
    BY <1>0, <1>1, <1>4, <2>2, <2>3, MoveFields
  <2> QED
    BY <2>1, <2>4 DEF HeldBuf
<1>8. ASSUME NEW s \in SecIdx, ReloadLock(l, s)
      PROVE  \E b \in BufIds : lock' = Locked(b) /\ HeldBuf(l) = {} /\ HeldBuf(l)' = {b}
  <2>1. /\ ctl[l].pc = "reload" /\ lock' = Locked(backup[l][s].buf) /\ backup' = backup
        /\ ctl'[l] = Holding(ctl[l], s)
    BY <1>0, <1>8 DEF ReloadLock
  <2>2. ctl'[l].pc = "reloadCopy" /\ ctl'[l].cur = s
    BY <1>0, <2>1, ReloadFields
  <2>3. HeldBuf(l)' = {backup[l][s].buf} /\ backup[l][s].buf \in BufIds
    BY <1>0, <2>1, <2>2 DEF HeldBuf, Entry
  <2> QED
    BY <1>1, <2>1, <2>3
<1>9. CASE ReloadCopy(l)
  <2>1. ctl[l].pc = "reloadCopy" /\ lock' = Unlocked(backup[l][ctl[l].cur].buf)
        /\ ctl'[l] = Restored(ctl[l], ctl[l].cur) /\ ctl[l].cur \in SecIdx
    BY <1>0, <1>9 DEF ReloadCopy, Control
  <2>2. ctl'[l].pc = "reload"
    BY <1>0, <2>1, ReloadFields
  <2> QED
    BY <1>1, <2>1, <2>2 DEF HeldBuf
<1>10. CASE RelocDone(l) \/ JitDone(l) \/ ReloadDone(l) \/ ReadThrows(l)
  <2>1. lock' = lock /\ ctl[l].pc \notin Holding3
    BY <1>10 DEF RelocDone, JitDone, ReloadDone, ReadThrows, Reading, AtSection, buffers
  <2>2. ctl'[l] = Idle \/ Throw(l) \/ ctl'[l] = MoveTo(ctl[l], "reloc", 1)
    BY <1>0, <1>10 DEF RelocDone, JitDone, ReloadDone, ReadThrows
  <2>3. "reloc" \in Pcs
    BY DEF Pcs
  <2>4. ctl'[l].pc \notin Holding3
    BY <1>0, <1>4, <2>2, <2>3, MoveFields
  <2> QED
    BY <1>1, <2>1, <2>4
<1> QED
  BY <1>2, <1>3, <1>5, <1>6, <1>7, <1>8, <1>9, <1>10 DEF Step, PatchStep

\* Every step of a loader keeps the counters and the holders in agreement.
LEMMA HoldersStep ==
  ASSUME TypeOK, ControlInv, PatchInv, BackupInv, HoldersInv, LocksHaveHolders, NEW l \in Loaders, Step(l)
  PROVE  HoldersInv' /\ LocksHaveHolders'
<1> SUFFICES ASSUME NEW x \in BufIds
             PROVE  /\ IsFiniteSet(Holders(x)')
                    /\ lock'[x] = Counted(x) * Cardinality(Holders(x)')
  BY DEF HoldersInv, LocksHaveHolders, Holders, Counted
<1>0. /\ IsFiniteSet(Holders(x)) /\ lock[x] = Counted(x) * Cardinality(Holders(x))
      /\ lock \in [BufIds -> Int] /\ Cardinality(Holders(x)) \in Nat
  BY FS_CardinalityType DEF HoldersInv, LocksHaveHolders, Holders, TypeOK
<1>1. \A k \in Loaders : k # l => HeldBuf(k)' = HeldBuf(k)
  BY HeldByOthers
<1>2. Counted(x) = 0 \/ Counted(x) = 1
  BY DEF Counted
<1>3. CASE (x \in HeldBuf(l)') <=> (x \in HeldBuf(l))
  <2>1. Holders(x)' = Holders(x)
    BY <1>1, <1>3 DEF Holders
  <2>2. lock'[x] = lock[x]
    BY <1>0, <1>3, HeldByOwn DEF Locked, Unlocked
  <2> QED
    BY <1>0, <2>1, <2>2
<1>4. CASE x \in HeldBuf(l)' /\ x \notin HeldBuf(l)
  <2>1. Holders(x)' = Holders(x) \cup {l} /\ l \notin Holders(x)
    BY <1>1, <1>4 DEF Holders
  <2>2. lock' = Locked(x)
    BY <1>4, HeldByOwn
  <2>3. lock'[x] = lock[x] + Counted(x)
    BY <1>0, <2>2 DEF Locked
  <2>4. IsFiniteSet(Holders(x)') /\ Cardinality(Holders(x)') = Cardinality(Holders(x)) + 1
    BY <1>0, <2>1, FS_AddElement
  <2> QED
    BY <1>0, <1>2, <2>3, <2>4
<1>5. CASE x \notin HeldBuf(l)' /\ x \in HeldBuf(l)
  <2>1. Holders(x)' = Holders(x) \ {l} /\ l \in Holders(x)
    BY <1>1, <1>5 DEF Holders
  <2>2. lock' = Unlocked(x)
    BY <1>5, HeldByOwn
  <2>3. lock'[x] = lock[x] - Counted(x)
    BY <1>0, <2>2 DEF Unlocked
  <2>4. IsFiniteSet(Holders(x)') /\ Cardinality(Holders(x)') = Cardinality(Holders(x)) - 1
    BY <1>0, <2>1, FS_RemoveElement
  <2> QED
    BY <1>0, <1>2, <2>3, <2>4
<1> QED
  BY <1>3, <1>4, <1>5

\* What a loader has locked is its own buffer or a backup.
LEMMA HeldOwned ==
  ASSUME TypeOK, SharingIInv, ProcessedInv, BackupInv, NEW l \in Loaders, NEW b, b \in HeldBuf(l)
  PROVE  b[1] = l \/ b[1] = "backup"
<1>0. ControlInv /\ PatchInv /\ RegisteredInv /\ EntryInv /\ ctl[l] \in Control
  BY DEF SharingIInv, TypeOK
<1>1. CASE ctl[l].pc = "relocPatch" \/ ctl[l].pc = "jitPatch"
  <2>1. \E s \in SecIdx : b = OwnBuf(l, s)
    BY <1>0, <1>1, PatchedSection DEF HeldBuf
  <2> QED
    BY <2>1 DEF OwnBuf
<1>2. CASE ctl[l].pc = "reloadCopy"
  <2>1. ctl[l].cur \in SecIdx /\ backup[l][ctl[l].cur].has /\ b = backup[l][ctl[l].cur].buf
    BY <1>0, <1>2 DEF Control, BackupInv, HeldBuf
  <2>2. b = BackupBuf(ctl[l].cur) \/ b = OwnBuf(l, ctl[l].cur)
    BY <2>1 DEF BackupInv, BackupOK
  <2> QED
    BY <2>2 DEF BackupBuf, OwnBuf
<1> QED
  BY <1>1, <1>2 DEF HeldBuf

\* Two loaders never have the same counted lock, unless it is a backup's.
LEMMA LocksExclusive ==
  ASSUME TypeOK, SharingIInv, ProcessedInv, BackupInv, HoldersInv, LocksHaveHolders, ~ManagedBackups
  PROVE  LockContract
<1> SUFFICES ASSUME NEW b \in BufIds PROVE lock[b] \in 0 .. 1
  BY DEF LockContract
<1>0. IsFiniteSet(Holders(b)) /\ lock[b] = Counted(b) * Cardinality(Holders(b)) /\ Cardinality(Holders(b)) \in Nat
  BY FS_CardinalityType DEF HoldersInv, LocksHaveHolders, Holders
<1>1. CASE b[1] = "backup"
  <2>1. Counted(b) = 0
    BY <1>1 DEF Counted
  <2> QED
    BY <1>0, <2>1
<1>2. CASE b[1] # "backup"
  <2>1. Counted(b) = 1
    BY <1>2 DEF Counted
  <2>2. Holders(b) \subseteq {b[1]}
    BY <1>2, HeldOwned DEF Holders
  <2>3. IsFiniteSet({b[1]}) /\ Cardinality({b[1]}) = 1
    BY FS_Singleton
  <2>4. Cardinality(Holders(b)) <= Cardinality({b[1]})
    BY <2>2, <2>3, FS_Subset
  <2> QED
    BY <1>0, <2>1, <2>3, <2>4
<1> QED
  BY <1>1, <1>2

\* A step of another loader leaves the buffers a loaded loader runs from alone.
LEMMA ImageKept ==
  ASSUME TypeOK, SharingIInv, ProcessedInv, NEW l \in Loaders, Step(l), NEW k \in Loaders, k # l, Present(k)
  PROVE  Image(k)' = Image(k)
<1>0. /\ EntryInv /\ AloneInv /\ ControlInv /\ infer \in [Loaders -> [SecIdx -> Entry]]
      /\ infer'[k] = infer[k]
  BY StepFrame DEF SharingIInv, TypeOK, Frame
<1>1. ASSUME NEW s \in SecIdx
      PROVE  mem'[infer[k][s].buf] = mem[infer[k][s].buf] /\ dev'[infer[k][s].buf] = dev[infer[k][s].buf]
  <2> DEFINE b == infer[k][s].buf
  <2>1. b \in {NullBuf(s), OwnBuf(k, s), DataBuf(s)} /\ b \in BufIds
    BY <1>0 DEF EntryInv, EntryOK, Entry
  <2>2. b[1] \in {"null", k, "reader"}
    BY <2>1 DEF NullBuf, OwnBuf, DataBuf
  <2>3. b[1] # l /\ b[1] # "backup"
    BY <2>2, NamesAssumption DEF Tags
  <2>4. ~Construct(l)
    BY DEF Construct, Present
  <2>5. ~BufferStep(l)
    BY <1>0, LoadPc DEF AloneInv, Present, ControlInv, ControlOK
  <2> HIDE DEF b
  <2>6. mem'[b] = mem[b] /\ dev'[b] = dev[b]
    BY <2>1, <2>3, <2>4, <2>5, WriteStep
  <2> QED
    BY <2>6 DEF b
<1> QED
  BY <1>0, <1>1 DEF Image

-----------------------------------------------------------------------------
(* The Reader's cache *)

\* What the loops over the sections and over m_relocationSectionIndexes have passed.
LEMMA Passed ==
  ASSUME TypeOK
  PROVE  /\ SymtabsBelow(0) = {} /\ RelocsBelow(1) = {}
         /\ \A n \in Nat : SymtabsBelow(n + 1) \subseteq SymtabsBelow(n) \cup {n}
         /\ \A n \in SecIdx : elf[n].type # "SHT_SYMTAB" => SymtabsBelow(n + 1) = SymtabsBelow(n)
         /\ \A n \in 1 .. Len(relocIdx) : RelocsBelow(n + 1) = RelocsBelow(n) \cup {relocIdx[n]}
         /\ \A n \in Nat : n > Len(relocIdx) => RelocsBelow(n) = RelocsBelow(Len(relocIdx) + 1)
<1>0. relocIdx \in Seq(SecIdx) /\ Len(relocIdx) \in Nat
  BY DEF TypeOK
<1>1. SymtabsBelow(0) = {} /\ RelocsBelow(1) = {}
  BY <1>0 DEF SymtabsBelow, RelocsBelow, SecIdx
<1>2. \A n \in Nat : SymtabsBelow(n + 1) \subseteq SymtabsBelow(n) \cup {n}
  BY DEF SymtabsBelow, SecIdx
<1>3. ASSUME NEW n \in SecIdx, elf[n].type # "SHT_SYMTAB" PROVE SymtabsBelow(n + 1) = SymtabsBelow(n)
  <2>1. \A s \in SecIdx : s < n + 1 <=> s < n \/ s = n
    BY DEF SecIdx
  <2> QED
    BY <1>3, <2>1 DEF SymtabsBelow
<1>4. ASSUME NEW n \in 1 .. Len(relocIdx) PROVE RelocsBelow(n + 1) = RelocsBelow(n) \cup {relocIdx[n]}
  <2>1. {j \in 1 .. Len(relocIdx) : j < n + 1} = {j \in 1 .. Len(relocIdx) : j < n} \cup {n}
    BY <1>0
  <2> QED
    BY <2>1 DEF RelocsBelow
<1>5. ASSUME NEW n \in Nat, n > Len(relocIdx) PROVE RelocsBelow(n) = RelocsBelow(Len(relocIdx) + 1)
  <2>1. {j \in 1 .. Len(relocIdx) : j < n} = {j \in 1 .. Len(relocIdx) : j < Len(relocIdx) + 1}
    BY <1>0, <1>5
  <2> QED
    BY <2>1 DEF RelocsBelow
<1> QED
  BY <1>1, <1>2, <1>3, <1>4, <1>5

\* The cache only grows while the Reader lives, and the AccessManager stays.
LEMMA ReaderStep ==
  ASSUME TypeOK, NEW l \in Loaders, Step(l), ~Construct(l)
  PROVE  rd.cached \subseteq rd'.cached /\ rd'.accessor = rd.accessor
<1>0. rd \in ReaderState
  BY DEF TypeOK
<1>1. (\E S : Fetch(S)) \/ ReadThrough \/ rd' = rd => rd.cached \subseteq rd'.cached /\ rd'.accessor = rd.accessor
  BY <1>0 DEF Fetch, ReadThrough, ReaderState
<1>2. CASE LoadStep(l)
  <2>1. (\E S : Fetch(S)) \/ ReadThrough \/ rd' = rd
    BY <1>2 DEF LoadStep, LoadProgbits, LoadNobits, LoadRela, LoadSymtab, LoadOther, SectionsDone,
       UpdateSharedBuffers, SharingDone, LoadSharedBuffer, LoadOwnBuffer, BuffersLoaded
  <2> QED
    BY <1>1, <2>1
<1>3. CASE PatchStep(l)
  <2>1. (\E S : Fetch(S)) \/ rd' = rd
    BY <1>3 DEF PatchStep, RelocLock, RelocPatch, RelocDone, ReloadLock, ReloadCopy, ReloadDone,
       JitLock, JitPatch, JitDone, ReadThrows
  <2> QED
    BY <1>1, <2>1
<1>4. CASE ClientStep(l)
  BY <1>1, <1>4 DEF ClientStep, Destroy, SetInferencesMayBeRunInParallel, StartLoad,
       Clone, Assign, CopyInto, UpdateSharedScratchBuffers, ApplyJitRelocations
<1> QED
  BY <1>2, <1>3, <1>4 DEF Step

\* The data a relocation section needs is in the cache once it has been read and every
\* symbol table has been.
LEMMA ReadsCached ==
  ASSUME TypeOK, SymtabsBelow(NumSections) \subseteq rd.cached, NEW r \in SecIdx, r \in rd.cached
  PROVE  RelocReads(r) \subseteq rd.cached
<1>1. ASSUME LinksSymtab(r) PROVE elf[r].link \in rd.cached
  <2>1. elf[r].link \in SecIdx /\ elf[elf[r].link].type = "SHT_SYMTAB"
    BY <1>1 DEF LinksSymtab
  <2>2. elf[r].link < NumSections
    BY <2>1, NumSectionsAssumption DEF SecIdx
  <2> QED
    BY <2>1, <2>2 DEF SymtabsBelow
<1> QED
  BY <1>1 DEF RelocReads

\* No scratch buffer is missing when the driver returns none that is empty.
LEMMA ScratchStep ==
  ASSUME TypeOK, ~DriverSharesScratch, \A k \in Loaders : mbr[k].scratch = << >>, NEW l \in Loaders, Step(l)
  PROVE  \A k \in Loaders : mbr'[k].scratch = << >>
<1>0. mbr \in [Loaders -> Members] /\ \A k \in Loaders : k # l => mbr'[k] = mbr[k]
  BY StepFrame DEF TypeOK, Frame
<1> SUFFICES mbr'[l].scratch = << >>
  BY <1>0
<1>1. Throw(l) => mbr'[l].scratch = << >>
  BY <1>0 DEF Throw, Release, NewMembers
<1>2. CASE LoadStep(l)
  <2>1. \/ mbr' = mbr \/ mbr' = [mbr EXCEPT ![l].loaded = TRUE]
        \/ mbr' = [mbr EXCEPT ![l].scratch = @]
    BY <1>2 DEF LoadStep, LoadProgbits, LoadNobits, LoadRela, LoadSymtab, LoadOther, SectionsDone,
       UpdateSharedBuffers, SharingDone, LoadSharedBuffer, LoadOwnBuffer, BuffersLoaded
  <2> QED
    BY <1>0, <2>1 DEF Members
<1>3. CASE PatchStep(l)
  <2>1. mbr' = mbr \/ Throw(l) \/ mbr' = [mbr EXCEPT ![l].loaded = TRUE]
    BY <1>3 DEF PatchStep, RelocLock, RelocPatch, RelocDone, ReloadLock, ReloadCopy, ReloadDone,
       JitLock, JitPatch, JitDone, ReadThrows
  <2> QED
    BY <1>0, <1>1, <2>1 DEF Members
<1>4. ASSUME NEW b \in BOOLEAN, SetInferencesMayBeRunInParallel(l, b) PROVE mbr'[l].scratch = << >>
  BY <1>0, <1>4 DEF SetInferencesMayBeRunInParallel, Members
<1>5. ASSUME NEW t \in SymTabs, StartLoad(l, t) PROVE mbr'[l].scratch = << >>
  BY <1>0, <1>5 DEF StartLoad, Members
<1>6. ASSUME NEW m \in Loaders, NEW o, NEW t, CopyInto(l, m, o, t) PROVE mbr'[l].scratch = << >>
  <2>1. mbr'[l] = [mbr[m] EXCEPT !.symTab = t] /\ mbr[m] \in Members
    BY <1>0, <1>6 DEF CopyInto
  <2> QED
    BY <2>1 DEF Members
<1>7. CASE Construct(l) \/ (\E a \in ScratchSets : UpdateSharedScratchBuffers(l, a))
           \/ \E u \in UserIO : ApplyJitRelocations(l, u)
  BY <1>7 DEF Construct, UpdateSharedScratchBuffers, ApplyJitRelocations
<1>8. CASE Destroy(l)
  BY <1>0, <1>8 DEF Destroy, Release, NewMembers
<1>9. CASE ClientStep(l)
  BY <1>4, <1>5, <1>6, <1>7, <1>8, <1>9 DEF ClientStep, Clone, Assign
<1> QED
  BY <1>2, <1>3, <1>9 DEF Step

\* Every read of a step is served by the AccessManager, or by the cache.
LEMMA DanglingStep ==
  ASSUME TypeOK, ControlInv, RegisteredInv, CacheInv, ~rd.dangling, NEW l \in Loaders, Step(l)
  PROVE  ~rd'.dangling
<1>0. /\ rd \in ReaderState /\ ctl[l] \in Control /\ relocIdx \in Seq(SecIdx) /\ jitIdx \in Seq(SecIdx)
      /\ Len(relocIdx) \in Nat /\ Len(jitIdx) \in Nat /\ ctl[l].pos \in Nat
  BY DEF TypeOK, Control
<1>1. /\ ControlOK(ctl[l], mbr[l], infer[l]) /\ CacheOK(ctl[l], mbr[l])
      /\ Present(l) /\ ~mbr[l].loaded => rd.accessor
  BY DEF ControlInv, CacheInv
<1>2. rd.accessor /\ ((\E S : Fetch(S)) \/ ReadThrough) => ~rd'.dangling
  BY <1>0 DEF Fetch, ReadThrough, ReaderState
<1>3. ASSUME NEW S, Fetch(S), S \subseteq rd.cached PROVE ~rd'.dangling
  BY <1>0, <1>3 DEF Fetch, ReaderState
<1>4. CASE LoadStep(l)
  <2>1. rd' = rd \/ (((\E S : Fetch(S)) \/ ReadThrough) /\ ctl[l].pc \in {"section", "buffers"})
    BY <1>4 DEF LoadStep, LoadProgbits, LoadNobits, LoadRela, LoadSymtab, LoadOther, SectionsDone,
       UpdateSharedBuffers, SharingDone, LoadSharedBuffer, LoadOwnBuffer, BuffersLoaded, AtSection
  <2> QED
    BY <1>1, <1>2, <2>1 DEF ControlOK, Present
<1>5. CASE RelocLock(l)
  <2> DEFINE r == relocIdx[ctl[l].pos]
  <2>1. Fetch(RelocReads(r)) /\ ctl[l].pc = "reloc" /\ ctl[l].pos \in 1 .. Len(relocIdx)
    BY <1>0, <1>1, <1>5 DEF RelocLock, ControlOK
  <2>2. CASE ~mbr[l].loaded
    BY <1>1, <1>2, <2>1, <2>2 DEF Present
  <2>3. CASE mbr[l].loaded
    <3>1. r \in SecIdx /\ r \in RelocsBelow(Len(relocIdx) + 1)
      BY <1>0, <2>1 DEF RelocsBelow
    <3>2. r \in rd.cached /\ SymtabsBelow(NumSections) \subseteq rd.cached
      BY <1>1, <2>3, <3>1 DEF CacheOK
    <3> QED
      BY <1>3, <2>1, <3>1, <3>2, ReadsCached
  <2> QED
    BY <2>2, <2>3
<1>6. CASE JitLock(l)
  <2> DEFINE r == jitIdx[ctl[l].pos]
  <2>1. Fetch(RelocReads(r)) /\ ctl[l].pc = "jit" /\ ctl[l].pos \in 1 .. Len(jitIdx)
    BY <1>0, <1>1, <1>6 DEF JitLock, ControlOK
  <2>2. r \in SecIdx /\ r \in rd.cached /\ SymtabsBelow(NumSections) \subseteq rd.cached
    BY <1>0, <1>1, <2>1 DEF CacheOK, CacheInv, Relocating
  <2> QED
    BY <1>3, <2>1, <2>2, ReadsCached
<1>7. CASE PatchStep(l) /\ ~RelocLock(l) /\ ~JitLock(l)
  <2>1. rd' = rd
    BY <1>7 DEF PatchStep, RelocPatch, RelocDone, ReloadLock, ReloadCopy, ReloadDone,
       JitPatch, JitDone, ReadThrows
  <2> QED
    BY <2>1
<1>8. CASE ClientStep(l)
  <2>1. rd' = rd \/ Construct(l)
    BY <1>8 DEF ClientStep, Destroy, SetInferencesMayBeRunInParallel, StartLoad,
       Clone, Assign, CopyInto, UpdateSharedScratchBuffers, ApplyJitRelocations
  <2> QED
    BY <2>1 DEF Construct
<1> QED
  BY <1>4, <1>5, <1>6, <1>7, <1>8 DEF Step
\* A loader's own step leaves in the cache what its later steps will look for.
LEMMA CacheOwn ==
  ASSUME TypeOK, ControlInv, CacheInv, NEW l \in Loaders, Step(l), ~Construct(l)
  PROVE  CacheOK(ctl[l], mbr[l])'
<1>0. /\ ctl \in [Loaders -> Control] /\ mbr \in [Loaders -> Members] /\ ctl[l] \in Control
      /\ Len(relocIdx) \in Nat /\ ctl[l].pos \in Nat /\ mbr[l] \in Members
      /\ Idle.pc = "idle" /\ Absent.pc = "absent" /\ rd \in ReaderState
  BY DEF TypeOK, Control, Idle, Absent, At
<1>1. ControlOK(ctl[l], mbr[l], infer[l]) /\ CacheOK(ctl[l], mbr[l]) /\ mbr[l].scratch = << >>
  BY DEF ControlInv, CacheInv
<1>2. rd.cached \subseteq rd'.cached /\ elf' = elf
  BY ReaderStep, StepFrame DEF Frame
<1>3. \A n : SymtabsBelow(n)' = SymtabsBelow(n)
  BY <1>2 DEF SymtabsBelow
<1>4. relocIdx' = relocIdx => \A n : RelocsBelow(n)' = RelocsBelow(n)
  BY DEF RelocsBelow
<1> HIDE DEF SymtabsBelow, RelocsBelow
<1>5. ASSUME relocIdx' = relocIdx, ctl'[l].pc \in {"idle", "absent"}, mbr'[l].loaded => mbr[l].loaded
      PROVE  CacheOK(ctl[l], mbr[l])'
  BY <1>1, <1>2, <1>3, <1>4, <1>5 DEF CacheOK, Relocating
<1>6. Throw(l) /\ relocIdx' = relocIdx => CacheOK(ctl[l], mbr[l])'
  BY <1>0, <1>5 DEF Throw, Release, NewMembers
<1>7. CASE SectionStep(l)
  <2>1. ctl[l].pc = "section" /\ ctl[l].pos \in SecIdx
        /\ (ctl'[l] = Idle \/ (ctl'[l].pc = "section" /\ ctl'[l].pos = ctl[l].pos + 1))
    BY <1>7, LoadPc
  <2>2. mbr' = mbr \/ \E q : mbr' = [mbr EXCEPT ![l].scratch = q]
    BY <1>7 DEF SectionStep, LoadProgbits, LoadNobits, LoadRela, LoadSymtab, LoadOther
  <2>3. ~mbr'[l].loaded
    BY <1>0, <1>1, <2>1, <2>2 DEF ControlOK, Members
  <2>4. SymtabsBelow(ctl[l].pos + 1) \subseteq rd'.cached
    <3>1. SymtabsBelow(ctl[l].pos) \subseteq rd'.cached
      BY <1>1, <1>2, <2>1 DEF CacheOK
    <3>2. CASE LoadSymtab(l)
      <4>1. ctl[l].pos \in rd'.cached
        BY <1>0, <3>2 DEF LoadSymtab, FetchedSymtab, Fetch, ReaderState
      <4> QED
        BY <1>0, <3>1, <4>1, Passed
    <3>3. CASE ~LoadSymtab(l)
      <4>1. \E a \in Actions \ {"RegisterUserIO"} : AtSection(l, a)
        BY <1>7, <3>3 DEF SectionStep, LoadProgbits, LoadNobits, LoadRela, LoadOther, Actions
      <4>2. elf[ctl[l].pos].type # "SHT_SYMTAB"
        BY <4>1 DEF AtSection, actionMap, SecTypes, Actions
      <4> QED
        BY <2>1, <3>1, <4>2, Passed
    <3> QED
      BY <3>2, <3>3
  <2> QED
    BY <1>0, <1>3, <2>1, <2>3, <2>4 DEF CacheOK, Relocating
<1>8. CASE SectionsDone(l)
  <2>1. /\ ctl[l].pc = "section" /\ ctl[l].pos = NumSections /\ ctl'[l].pc = "share" /\ mbr' = mbr
        /\ relocIdx' = relocIdx
    BY <1>8, LoadPc DEF SectionsDone, indexes
  <2> QED
    BY <1>1, <1>2, <1>3, <2>1 DEF CacheOK, Relocating, ControlOK
<1>9. CASE UpdateSharedBuffers(l) \/ SharingDone(l) \/ BufferStep(l)
  <2>1. /\ ctl[l].pc \in {"share", "buffers"} /\ ctl'[l].pc \in {"share", "buffers", "idle"}
        /\ mbr' = mbr /\ relocIdx' = relocIdx
    BY <1>0, <1>9, LoadPc DEF UpdateSharedBuffers, SharingDone, BufferStep, LoadSharedBuffer, LoadOwnBuffer, indexes
  <2> QED
    BY <1>1, <1>2, <1>3, <2>1 DEF CacheOK, Relocating, ControlOK
<1>10. CASE BuffersLoaded(l)
  <2>1. /\ ctl[l].pc = "buffers" /\ mbr' = mbr /\ relocIdx' = relocIdx
        /\ ctl'[l] = MoveTo(ctl[l], "reloc", 1)
    BY <1>0, <1>1, <1>10 DEF BuffersLoaded, indexes
  <2>2. ctl'[l].pc = "reloc" /\ ctl'[l].pos = 1
    BY <1>0, <2>1 DEF MoveTo, Control
  <2>3. RelocsBelow(1)' = {}
    BY <1>4, <2>1, Passed
  <2> QED
    BY <1>1, <1>2, <1>3, <2>1, <2>2, <2>3 DEF CacheOK, Relocating, ControlOK
<1>11. CASE RelocLock(l)
  <2>1. /\ ctl[l].pc = "reloc" /\ relocIdx' = relocIdx /\ ctl[l].pos \in 1 .. Len(relocIdx)
        /\ Fetch(RelocReads(relocIdx[ctl[l].pos]))
        /\ Throw(l) \/ (mbr' = mbr /\ ctl' = [ctl EXCEPT ![l].pc = "relocPatch"])
    BY <1>0, <1>1, <1>11 DEF RelocLock, indexes, ControlOK
  <2>2. CASE Throw(l)
    BY <1>6, <2>1, <2>2
  <2>3. CASE mbr' = mbr /\ ctl' = [ctl EXCEPT ![l].pc = "relocPatch"]
    <3>1. ctl'[l].pc = "relocPatch" /\ ctl'[l].pos = ctl[l].pos
      BY <1>0, <2>3 DEF Control
    <3>2. relocIdx[ctl[l].pos] \in rd'.cached
      BY <1>0, <2>1 DEF Fetch, RelocReads, ReaderState
    <3>3. RelocsBelow(ctl[l].pos + 1)' \subseteq rd'.cached
      BY <1>1, <1>2, <1>4, <2>1, <3>1, <3>2, Passed DEF CacheOK
    <3> QED
      BY <1>1, <1>2, <1>3, <1>4, <2>1, <2>3, <3>1, <3>3 DEF CacheOK, Relocating
  <2> QED
    BY <2>1, <2>2, <2>3
<1>12. CASE RelocPatch(l)
  <2>1. /\ ctl[l].pc = "relocPatch" /\ relocIdx' = relocIdx
        /\ Throw(l) \/ (mbr' = mbr /\ ctl'[l] = MoveTo(ctl[l], "reloc", ctl[l].pos + 1))
    BY <1>0, <1>12 DEF RelocPatch, indexes
  <2>2. CASE Throw(l)
    BY <1>6, <2>1, <2>2
  <2>3. CASE mbr' = mbr /\ ctl'[l] = MoveTo(ctl[l], "reloc", ctl[l].pos + 1)
    <3>1. ctl'[l].pc = "reloc" /\ ctl'[l].pos = ctl[l].pos + 1
      BY <1>0, <2>3 DEF MoveTo, Control
    <3> QED
      BY <1>1, <1>2, <1>3, <1>4, <2>1, <2>3, <3>1 DEF CacheOK, Relocating
  <2> QED
    BY <2>1, <2>2, <2>3
<1>13. CASE RelocDone(l)
  <2>1. /\ ctl[l].pc = "reloc" /\ relocIdx' = relocIdx /\ ctl[l].pos > Len(relocIdx) /\ ctl'[l] = Idle
    BY <1>0, <1>13 DEF RelocDone, indexes
  <2>2. RelocsBelow(Len(relocIdx) + 1) = RelocsBelow(ctl[l].pos)
    BY <1>0, <2>1, Passed
  <2>3. SymtabsBelow(NumSections)' \subseteq rd'.cached /\ RelocsBelow(Len(relocIdx) + 1)' \subseteq rd'.cached
    BY <1>1, <1>2, <1>3, <1>4, <2>1, <2>2 DEF CacheOK, Relocating
  <2> QED
    BY <1>0, <2>1, <2>3 DEF CacheOK, Relocating
<1>14. CASE JitLock(l) \/ JitPatch(l) \/ JitDone(l)
  <2>1. /\ ctl[l].pc \in {"jit", "jitPatch"} /\ relocIdx' = relocIdx
        /\ Throw(l) \/ mbr' = mbr
    BY <1>14 DEF JitLock, JitPatch, JitDone, indexes
  <2>2. Throw(l) \/ ctl'[l].pc \in {"jit", "jitPatch", "idle"}
    <3>1. CASE JitLock(l)
      BY <1>0, <3>1 DEF JitLock, Control
    <3>2. CASE JitPatch(l)
      <4>1. Throw(l) \/ ctl'[l] = MoveTo(ctl[l], "jit", ctl[l].pos + 1)
        BY <1>0, <3>2 DEF JitPatch
      <4> QED
        BY <1>0, <4>1 DEF MoveTo, Control
    <3>3. CASE JitDone(l)
      BY <1>0, <3>3 DEF JitDone
    <3> QED
      BY <1>14, <3>1, <3>2, <3>3
  <2> QED
    BY <1>1, <1>2, <1>3, <1>4, <1>6, <2>1, <2>2 DEF CacheOK, Relocating
<1>15. CASE (\E s \in SecIdx : ReloadLock(l, s)) \/ ReloadCopy(l)
  <2>1. /\ ctl[l].pc \in {"reload", "reloadCopy"} /\ relocIdx' = relocIdx /\ mbr' = mbr
        /\ \E s \in SecIdx : ctl'[l] = Holding(ctl[l], s) \/ ctl'[l] = Restored(ctl[l], s)
    BY <1>0, <1>15 DEF ReloadLock, ReloadCopy, indexes, Control
  <2>2. ctl'[l].pc \in {"reload", "reloadCopy"}
    BY <1>0, <2>1, ReloadFields
  <2> QED
    BY <1>1, <1>2, <1>3, <1>4, <2>1, <2>2 DEF CacheOK, Relocating
<1>16. CASE ReloadDone(l)
  <2>1. ctl[l].pc = "reload" /\ relocIdx' = relocIdx /\ mbr' = mbr /\ ctl'[l] = MoveTo(ctl[l], "reloc", 1)
    BY <1>0, <1>16 DEF ReloadDone, indexes
  <2>2. ctl'[l].pc = "reloc" /\ ctl'[l].pos = 1
    BY <1>0, <2>1 DEF MoveTo, Control
  <2>3. RelocsBelow(1)' = {}
    BY <1>4, <2>1, Passed
  <2> QED
    BY <1>1, <1>2, <1>3, <1>4, <2>1, <2>2, <2>3 DEF CacheOK, Relocating
<1>17. CASE ReadThrows(l)
  BY <1>6, <1>17 DEF ReadThrows, indexes
<1>18. CASE Destroy(l)
  <2>1. relocIdx' = relocIdx /\ ctl'[l] = Absent /\ mbr'[l] = NewMembers
    BY <1>0, <1>18 DEF Destroy, Release, indexes
  <2> QED
    BY <1>0, <1>5, <2>1 DEF NewMembers
<1>19. ASSUME NEW b \in BOOLEAN, SetInferencesMayBeRunInParallel(l, b) PROVE CacheOK(ctl[l], mbr[l])'
  <2>1. relocIdx' = relocIdx /\ ctl'[l].pc = "idle" /\ mbr'[l].loaded = mbr[l].loaded
    BY <1>0, <1>19 DEF SetInferencesMayBeRunInParallel, indexes, Members
  <2> QED
    BY <1>5, <2>1
<1>20. ASSUME NEW t \in SymTabs, StartLoad(l, t) PROVE CacheOK(ctl[l], mbr[l])'
  <2>1. /\ relocIdx' = relocIdx /\ ctl'[l] = At("section", "load", 0, {}, NoArg) /\ ~mbr[l].loaded
        /\ mbr'[l].loaded = mbr[l].loaded
    BY <1>0, <1>20 DEF StartLoad, indexes, Members
  <2>2. ctl'[l].pc = "section" /\ ctl'[l].pos = 0
    BY <2>1 DEF At
  <2>3. SymtabsBelow(0)' = {}
    BY <1>3, Passed
  <2> QED
    BY <2>1, <2>2, <2>3 DEF CacheOK, Relocating
<1>21. ASSUME NEW m \in Loaders, NEW o, NEW t, CopySource(m), CopyInto(l, m, o, t) PROVE CacheOK(ctl[l], mbr[l])'
  <2>1. relocIdx' = relocIdx /\ ctl'[l].pc = "reload"
    BY <1>0, <1>21 DEF CopyInto, indexes, At
  <2>2. mbr[m].loaded /\ CacheOK(ctl[m], mbr[m])
    BY <1>21 DEF CopySource, CacheInv
  <2> QED
    BY <1>2, <1>3, <1>4, <2>1, <2>2 DEF CacheOK, Relocating
<1>22. CASE (\E a \in ScratchSets : UpdateSharedScratchBuffers(l, a))
            \/ \E u \in UserIO : ApplyJitRelocations(l, u)
  <2>1. /\ relocIdx' = relocIdx /\ ctl'[l].pc \in {"reload", "jit"} /\ mbr' = mbr /\ mbr[l].loaded
    BY <1>0, <1>22 DEF UpdateSharedScratchBuffers, ApplyJitRelocations, indexes, At
  <2> QED
    BY <1>1, <1>2, <1>3, <1>4, <2>1 DEF CacheOK, Relocating
<1>23. CASE ClientStep(l)
  BY <1>18, <1>19, <1>20, <1>21, <1>22, <1>23 DEF ClientStep, Clone, Assign
<1> QED
  BY <1>7, <1>8, <1>9, <1>10, <1>11, <1>12, <1>13, <1>14, <1>15, <1>16, <1>17, <1>23
     DEF Step, LoadStep, PatchStep, SectionStep, BufferStep

\* Every step of a loader keeps CacheInv.
LEMMA CacheStep ==
  ASSUME TypeOK, ControlInv, AloneInv, AbsentInv, CacheInv, ~DriverSharesScratch, NEW l \in Loaders, Step(l)
  PROVE  CacheInv'
<1>0. /\ jitIdx \in Seq(SecIdx) /\ rd \in ReaderState
      /\ elf' = elf /\ \A k \in Loaders : k # l => ctl'[k] = ctl[k] /\ mbr'[k] = mbr[k]
  BY StepFrame DEF TypeOK, Frame
<1>1. \A k \in Loaders : mbr'[k].scratch = << >>
  BY ScratchStep DEF CacheInv
<1>2. CASE Construct(l)
  <2>1. /\ jitIdx' = << >> /\ rd'.accessor /\ mbr' = mbr
        /\ \A k \in Loaders : ctl[k].pc = "absent" /\ mbr[k] = NewMembers
    BY <1>2 DEF Construct, AbsentInv, AbsentOK, Present
  <2>2. \A k \in Loaders : ctl'[k].pc \in {"absent", "idle"} /\ ~mbr'[k].loaded
    BY <1>2, <2>1 DEF Construct, TypeOK, Idle, At, NewMembers
  <2> QED
    BY <1>1, <2>1, <2>2 DEF CacheInv, CacheOK, Relocating
<1>3. CASE ~Construct(l)
  <2>1. rd.cached \subseteq rd'.cached /\ rd'.accessor = rd.accessor
    BY <1>3, ReaderStep
  <2>2. \A i \in 1 .. Len(jitIdx') : jitIdx'[i] \in rd'.cached
    <3>1. CASE jitIdx' = jitIdx
      BY <2>1, <3>1 DEF CacheInv
    <3>2. CASE jitIdx' # jitIdx
      <4>1. LoadRela(l) /\ ctl[l].pos \in SecIdx /\ jitIdx' = Append(jitIdx, ctl[l].pos)
        <5>1. jitIdx' = << >> /\ (\A k \in Loaders : ctl[k].pc = "absent") => Construct(l) \/ jitIdx' = jitIdx
          BY DEF Step, LoadStep, PatchStep, ClientStep, LoadProgbits, LoadNobits, LoadRela, LoadSymtab, LoadOther, AtSection, SectionsDone,
             UpdateSharedBuffers, SharingDone, LoadSharedBuffer, LoadOwnBuffer, BuffersLoaded,
             RelocLock, RelocPatch, RelocDone, ReloadLock, ReloadCopy, ReloadDone, JitLock, JitPatch, JitDone, ReadThrows,
             Destroy, SetInferencesMayBeRunInParallel, StartLoad, Clone, Assign, CopyInto,
             UpdateSharedScratchBuffers, ApplyJitRelocations, indexes
        <5> QED
          BY <1>3, <3>2, <5>1, IndexStep
      <4>2. ctl[l].pos \in rd'.cached
        <5>1. Fetch({ctl[l].pos})
          BY <3>2, <4>1 DEF LoadRela
        <5> QED
          BY <1>0, <5>1 DEF Fetch, ReaderState
      <4>3. \A i \in 1 .. Len(jitIdx') : (i \in 1 .. Len(jitIdx) /\ jitIdx'[i] = jitIdx[i]) \/ jitIdx'[i] = ctl[l].pos
        BY <1>0, <4>1, AppendFacts
      <4> QED
        BY <2>1, <4>2, <4>3 DEF CacheInv
    <3> QED
      BY <3>1, <3>2
  <2>3. ASSUME NEW k \in Loaders, k # l PROVE CacheOK(ctl[k], mbr[k])'
    <3>1. \A n : SymtabsBelow(n)' = SymtabsBelow(n)
      BY <1>0 DEF SymtabsBelow
    <3>2. CASE relocIdx' = relocIdx
      <4>1. \A n : RelocsBelow(n)' = RelocsBelow(n)
        BY <3>2 DEF RelocsBelow
      <4> QED
        BY <1>0, <2>1, <2>3, <3>1, <3>2, <4>1 DEF CacheInv, CacheOK
    <3>3. CASE relocIdx' # relocIdx
      <4>1. LoadRela(l) \/ \A j \in Loaders : ctl[j].pc = "absent"
        BY <3>3, IndexStep
      <4>2. LoadRela(l) => Present(l) /\ ~mbr[l].loaded
        BY DEF LoadRela, AtSection, Present, ControlInv, ControlOK
      <4>3. ~Present(k)
        BY <2>3, <4>1, <4>2 DEF AloneInv, Present
      <4>4. ~mbr'[k].loaded /\ ctl'[k].pc = "absent"
        BY <1>0, <2>3, <4>3 DEF AbsentInv, AbsentOK, NewMembers, Present
      <4> QED
        BY <4>4 DEF CacheOK, Relocating
    <3> QED
      BY <3>2, <3>3
  <2>4. CacheOK(ctl[l], mbr[l])'
    BY <1>3, CacheOwn
  <2>5. ASSUME NEW k \in Loaders, Present(k)', ~mbr'[k].loaded PROVE rd'.accessor
    <3>1. CASE k # l
      BY <1>0, <2>1, <2>5, <3>1 DEF CacheInv, Present
    <3>2. CASE k = l /\ ~(\A j \in Loaders : ctl[j].pc = "absent")
      BY <2>1, <2>5, <3>2, PresenceStep DEF CacheInv
    <3>3. CASE \A j \in Loaders : ctl[j].pc = "absent"
      <4>1. \A j \in Loaders : ~mbr[j].loaded
        BY <3>3 DEF AbsentInv, AbsentOK, Present, NewMembers
      <4>2. Construct(l)
        BY <3>3, <4>1 DEF Step, LoadStep, PatchStep, ClientStep, LoadProgbits, LoadNobits, LoadRela, LoadSymtab, LoadOther, AtSection, SectionsDone,
             UpdateSharedBuffers, SharingDone, LoadSharedBuffer, LoadOwnBuffer, BuffersLoaded,
             RelocLock, RelocPatch, RelocDone, ReloadLock, ReloadCopy, ReloadDone, JitLock, JitPatch, JitDone, ReadThrows, Reading,
             Destroy, SetInferencesMayBeRunInParallel, StartLoad, Clone, Assign, CopySource,
             UpdateSharedScratchBuffers, ApplyJitRelocations
      <4> QED
        BY <1>3, <4>2
    <3> QED
      BY <3>1, <3>2, <3>3
  <2> QED
    BY <1>1, <2>2, <2>3, <2>4, <2>5 DEF CacheInv, Present
<1> QED
  BY <1>2, <1>3
-----------------------------------------------------------------------------
(* The theorems *)

\* The initial states satisfy the invariants: nobody is there, nothing is locked.
LEMMA LockInit == Init => LockIInv /\ CacheInv
<1> SUFFICES ASSUME Init PROVE LockIInv /\ CacheInv
  OBVIOUS
<1>1. /\ \A l \in Loaders : ctl[l] = Absent /\ infer[l] = EmptyMap /\ backup[l] = EmptyMap /\ mbr[l] = NewMembers
      /\ \A b \in BufIds : lock[b] = 0
      /\ jitIdx = << >>
  BY DEF Init
<1>2. /\ Absent.pc = "absent" /\ ~NewMembers.loaded /\ NewMembers.scratch = << >>
  BY DEF Absent, At, NewMembers
<1>3. AbsentInv /\ ProcessedInv /\ BackupInv
  BY <1>1, <1>2, EmptyFields DEF AbsentInv, AbsentOK, ProcessedInv, ProcessedOK, Relocating, BackupInv, BackupOK
<1>4. \A b \in BufIds : Holders(b) = {} /\ {l \in Loaders : b \in HeldBuf(l)} = {}
  BY <1>1, <1>2 DEF Holders, HeldBuf
<1>5. HoldersInv /\ LocksHaveHolders
  <2>1. IsFiniteSet({}) /\ Cardinality({}) = 0
    BY FS_EmptySet
  <2>2. HoldersInv
    BY <1>4, <2>1 DEF HoldersInv
  <2>3. \A b \in BufIds : Counted(b) * 0 = 0
    BY DEF Counted
  <2>4. LocksHaveHolders
    BY <1>1, <1>4, <2>1, <2>3 DEF LocksHaveHolders
  <2> QED
    BY <2>2, <2>4
<1>6. CacheInv
  BY <1>1, <1>2 DEF CacheInv, CacheOK, Relocating, Present
<1> QED
  BY <1>3, <1>5, <1>6, InvInit DEF LockIInv

\* The invariant of the locks does not depend on the Reader, the history or the bounds.
LEMMA LockStutter ==
  ASSUME LockIInv, UNCHANGED <<elf, relocIdx, jitIdx, ctl, infer, backup, mbr, mem, lock>>
  PROVE  LockIInv'
<1>1. SharingIInv'
  BY InvStutter DEF LockIInv
<1>2. AbsentInv'
  BY DEF LockIInv, AbsentInv, AbsentOK, Present
<1>3. ProcessedInv'
  BY DEF LockIInv, ProcessedInv
<1>4. BackupInv'
  BY DEF LockIInv, BackupInv
<1>5. \A l : HeldBuf(l)' = HeldBuf(l)
  BY DEF HeldBuf, TargetBuf
<1>6. HoldersInv' /\ LocksHaveHolders'
  BY <1>5 DEF LockIInv, HoldersInv, Holders, LocksHaveHolders
<1> QED
  BY <1>1, <1>2, <1>3, <1>4, <1>6 DEF LockIInv

\* Every step keeps the invariant of the locks.
LEMMA LockNext ==
  ASSUME TypeOK, LockIInv, [Next]_vars
  PROVE  LockIInv'
<1>1. CASE UNCHANGED vars
  BY <1>1, LockStutter DEF vars
<1>2. CASE DeleteAccessor
  BY <1>2, LockStutter DEF DeleteAccessor, indexes, buffers
<1>3. ASSUME NEW l \in Loaders, Step(l) PROVE LockIInv'
  <2>1. SharingIInv'
    BY <1>3, InvNext DEF LockIInv, Next, Step
  <2>2. AbsentInv' /\ ProcessedInv' /\ BackupInv'
    BY <1>3, AbsentStep, ProcessedStep, BackupStep DEF LockIInv, SharingIInv
  <2>3. HoldersInv' /\ LocksHaveHolders'
    BY <1>3, HoldersStep DEF LockIInv, SharingIInv
  <2> QED
    BY <2>1, <2>2, <2>3 DEF LockIInv
<1> QED
  BY <1>1, <1>2, <1>3 DEF Next, Step

\* What every reachable state satisfies: besides SharingIInv, that processed sections
\* have buffers, that a backup being copied from exists, and who holds which lock.
THEOREM LockInvariant == Spec => [](TypeOK /\ LockIInv)
<1>1. Init => TypeOK /\ LockIInv
  BY TypeInit, LockInit
<1>2. TypeOK /\ LockIInv /\ [Next]_vars => (TypeOK /\ LockIInv)'
  BY TypeStep, LockNext DEF LockIInv, SharingIInv
<1> QED
  BY <1>1, <1>2, PTL DEF Spec

\* No call of a loader, and no exception out of one, leaks a lock of the BufferManager:
\* every counter is the number of ElfBufferLockGuards alive (managed_buffer.hpp:87-104,
\* managed_buffer.cpp:67-73).
THEOREM NoLockLeaks == Spec => []LocksHaveHolders
<1>1. TypeOK /\ LockIInv => LocksHaveHolders
  BY DEF LockIInv
<1> QED
  BY <1>1, LockInvariant, PTL

\* The contract of buffer_manager.hpp:31-32 is kept, provided that the CPU-only buffers
\* of the AccessManager are not locked through the BufferManager: two loaders never
\* lock the same device buffer.
THEOREM LocksNeverNest == ~ManagedBackups => (Spec => []LockContract)
<1> SUFFICES ASSUME ~ManagedBackups PROVE Spec => []LockContract
  OBVIOUS
<1>1. TypeOK /\ LockIInv => LockContract
  BY LocksExclusive DEF LockIInv
<1> QED
  BY <1>1, LockInvariant, PTL

\* While a loaded loader is between two calls, no call of any other loader changes a
\* buffer it runs from, the buffer's contents or its address.
THEOREM ImagesStable == Spec => ImageStable
<1>1. ASSUME TypeOK, LockIInv, [Next]_vars, NEW k \in Loaders, ctl[k].pc = "idle", mbr[k].loaded,
             ctl'[k].pc = "idle"
      PROVE  Image(k)' = Image(k)
  <2>1. CASE UNCHANGED vars \/ DeleteAccessor
    BY <2>1 DEF vars, DeleteAccessor, buffers, Image
  <2>2. ASSUME NEW l \in Loaders, Step(l), k # l PROVE Image(k)' = Image(k)
    BY <1>1, <2>2, ImageKept DEF LockIInv, Present
  <2>3. ~Step(k)
    <3>1. ctl \in [Loaders -> Control]
      BY <1>1 DEF TypeOK
    <3>2. ~LoadStep(k) /\ ~PatchStep(k)
      BY <1>1 DEF LoadStep, PatchStep, LoadProgbits, LoadNobits, LoadRela, LoadSymtab, LoadOther, AtSection,
         SectionsDone, UpdateSharedBuffers, SharingDone, LoadSharedBuffer, LoadOwnBuffer, BuffersLoaded,
         RelocLock, RelocPatch, RelocDone, ReloadLock, ReloadCopy, ReloadDone, JitLock, JitPatch, JitDone,
         ReadThrows, Reading
    <3>3. ASSUME NEW m \in Loaders, NEW o, NEW t PROVE ~CopyInto(k, m, o, t)
      BY <1>1, <3>1 DEF CopyInto, At
    <3>4. ~ClientStep(k)
      BY <1>1, <3>1, <3>3 DEF ClientStep, Construct, Destroy, Release, Absent, SetInferencesMayBeRunInParallel,
         StartLoad, Clone, Assign, UpdateSharedScratchBuffers, ApplyJitRelocations, At
    <3> QED
      BY <3>2, <3>4 DEF Step
  <2> QED
    BY <1>1, <2>1, <2>2, <2>3 DEF Next, Step
<1>2. TypeOK /\ LockIInv /\ [Next]_vars => KeepsImages
  BY <1>1 DEF KeepsImages
<1> QED
  BY <1>2, LockInvariant, PTL DEF Spec, ImageStable

\* Deleting the AccessManager breaks nothing that is cached: somebody is loaded, so nobody
\* is still in load().
LEMMA CacheNext ==
  ASSUME TypeOK, LockIInv, CacheInv, ~rd.dangling, ~DriverSharesScratch, [Next]_vars
  PROVE  CacheInv' /\ ~rd'.dangling
<1>0. rd \in ReaderState /\ AloneInv /\ AbsentInv
  BY DEF TypeOK, LockIInv, SharingIInv
<1>1. ASSUME UNCHANGED <<elf, relocIdx, jitIdx, ctl, mbr>>, rd'.cached = rd.cached,
             \A l \in Loaders : Present(l) /\ ~mbr[l].loaded => rd'.accessor
      PROVE  CacheInv'
  <2>1. \A n : SymtabsBelow(n)' = SymtabsBelow(n) /\ RelocsBelow(n)' = RelocsBelow(n)
    BY <1>1 DEF SymtabsBelow, RelocsBelow
  <2>2. \A l \in Loaders : CacheOK(ctl[l], mbr[l])'
    BY <1>1, <2>1 DEF CacheInv, CacheOK
  <2> QED
    BY <1>1, <2>2 DEF CacheInv, Present
<1>2. CASE UNCHANGED vars
  BY <1>1, <1>2 DEF vars, CacheInv
<1>3. CASE DeleteAccessor
  <2>1. /\ UNCHANGED <<elf, relocIdx, jitIdx, ctl, mbr>> /\ rd'.cached = rd.cached /\ ~rd'.dangling
    BY <1>0, <1>3 DEF DeleteAccessor, indexes, ReaderState
  <2>2. PICK m \in Loaders : mbr[m].loaded
    BY <1>3 DEF DeleteAccessor
  <2>3. Present(m)
    BY <1>0, <2>2 DEF AbsentInv, AbsentOK, NewMembers
  <2>4. \A l \in Loaders : Present(l) => mbr[l].loaded
    BY <1>0, <2>2, <2>3 DEF AloneInv
  <2> QED
    BY <1>1, <2>1, <2>4
<1>4. ASSUME NEW l \in Loaders, Step(l) PROVE CacheInv' /\ ~rd'.dangling
  BY <1>4, CacheStep, DanglingStep DEF LockIInv, SharingIInv
<1> QED
  BY <1>2, <1>3, <1>4 DEF Next, Step

\* vpux_loader.cpp:712-713, 731-732: nothing reads through the AccessManager after load()
\* has completed, provided that the driver never answers an allocation with an empty
\* buffer (then relocations, and the reads they need, are put off).
THEOREM ReadsNeverDangle == ~DriverSharesScratch => (Spec => []NoDanglingRead)
<1> SUFFICES ASSUME ~DriverSharesScratch PROVE Spec => []NoDanglingRead
  OBVIOUS
<1>1. Init => CacheInv /\ NoDanglingRead
  BY LockInit DEF Init, NoDanglingRead
<1>2. TypeOK /\ LockIInv /\ CacheInv /\ NoDanglingRead /\ [Next]_vars => (CacheInv /\ NoDanglingRead)'
  BY CacheNext DEF NoDanglingRead
<1> QED
  BY <1>1, <1>2, LockInvariant, PTL DEF Spec
=============================================================================
