----------------------------- MODULE VPUXLoader -----------------------------
(***************************************************************************)
(* VPUXLoader: one loader built from an ELF blob by the constructor, and    *)
(* the loaders copied from it.  Every loader holds its buffers in two maps  *)
(* (infer: what the NPU runs from; backup: the pristine image of every      *)
(* section that gets patched).  Copies share the Reader, the vectors of     *)
(* relocation sections, the backup buffers and every read-only buffer that  *)
(* no relocation targets; each has its own buffer for the rest.             *)
(*                                                                          *)
(* One step is one iteration of a loop in the code, so operations of        *)
(* different loaders, which run in different threads, interleave.  A single *)
(* loader is used by one thread at a time.  Exceptions abort an operation   *)
(* where the code throws.                                                   *)
(***************************************************************************)
EXTENDS ElfFile, Integers, Sequences, FiniteSets

CONSTANTS
    Loaders,              \* names for VPUXLoader objects
    Blobs,                \* the ELF blobs of the instance
    SymTabs,              \* runtime symbol tables that HPI may pass
    SymbolSectionTypes,   \* section types resolved through the runtime table
    UserIO,               \* sets of user buffers that inferences are run with
    ScratchSets,          \* sets of scratch buffers the driver supplies later
    DriverSharesScratch,  \* the BufferManager returns empty sharable buffers
    ManagedBackups,       \* the AccessManager's CPU-only buffers are locked
                          \* through the BufferManager too
    ReadsFail,            \* reads through the AccessManager may throw too
    MaxLoads,             \* bound: calls of load()
    MaxFaults             \* bound: failing allocations and reads

Tags == {"reader", "backup", "null"}

ASSUME BlobsAssumption == Blobs \subseteq [SecIdx -> Header]
ASSUME TypesAssumption == SymbolSectionTypes \subseteq SecTypes
ASSUME FlagsAssumption == /\ DriverSharesScratch \in BOOLEAN /\ ManagedBackups \in BOOLEAN
                          /\ ReadsFail \in BOOLEAN
ASSUME BoundsAssumption == MaxLoads \in Nat /\ MaxFaults \in Nat
ASSUME NamesAssumption == Loaders \cap Tags = {} /\ Loaders \cap ScratchSets = {}
                          /\ ScratchSets \cap Tags = {}

VARIABLES
    elf,        \* the blob being loaded
    relocIdx,   \* m_relocationSectionIndexes, shared by all copies
    jitIdx,     \* m_jitRelocations, shared by all copies
    rd,         \* the shared Reader: sections whose data it caches; AccessManager
    ctl,        \* per loader: the operation it is in, and where in it
    infer,      \* per loader: m_inferBufferContainer
    backup,     \* per loader: m_backupBufferContainer
    mbr,        \* per loader: the plain members
    io,         \* history: the user buffers its image was last patched with
    mem,        \* per buffer: its contents
    dev,        \* per buffer: its device address
    lock,       \* per buffer: the BufferManager's lock counter
    loads,      \* calls of load() so far
    faults      \* failed allocations and reads so far

vars == <<elf, relocIdx, jitIdx, rd, ctl, infer, backup, mbr, io, mem, dev, lock,
          loads, faults>>
bounds == <<loads, faults>>
buffers == <<mem, dev, lock>>
indexes == <<relocIdx, jitIdx>>

-----------------------------------------------------------------------------
(* Buffers, addresses and contents *)

\* The ManagedBuffer objects: a loader's own buffer for a section, the reader's
\* (shared) one, the backup one, and the null pointer of a section's entry.
BufIds == (Loaders \cup Tags) \X SecIdx
OwnBuf(l, s) == <<l, s>>
DataBuf(s) == <<"reader", s>>
BackupBuf(s) == <<"backup", s>>
NullBuf(s) == <<"null", s>>

\* vpu_addr: an allocation is named by its buffer, scratch by set and section.
NullAddr == <<"null", 0>>
Addrs == BufIds \cup (ScratchSets \X SecIdx)

NoArg == "noarg"
Broken == "broken"    \* an exception left the image half patched
NoIO == "noio"        \* no user buffers have been patched in since the reload

ASSUME HistoryAssumption == NoIO \notin UserIO /\ Broken \notin UserIO

(***************************************************************************)
(* What a relocation writes: the address of a buffer, a runtime symbol, a   *)
(* user buffer, whatever lies behind the runtime symbol table (Garbage), or *)
(* the first entries of a section whose later entry is rejected (Partial).  *)
(***************************************************************************)
MemVal(a) == [kind |-> "mem", addr |-> a]
RtVal(t, i) == [kind |-> "runtime", tab |-> t, sym |-> i]
RtTypeVal(t, y) == [kind |-> "runtime", tab |-> t, type |-> y]
UserVal(u, k) == [kind |-> "user", bufs |-> u, io |-> k]
Garbage == [kind |-> "garbage"]
Partial == [kind |-> "partial"]
Vals ==
    [kind : {"mem"}, addr : Addrs]
    \cup [kind : {"runtime"}, tab : SymTabs \cup {NoArg}, sym : SecIdx]
    \cup [kind : {"runtime"}, tab : SymTabs \cup {NoArg}, type : SecTypes]
    \cup [kind : {"user"}, bufs : UserIO, io : IOKinds]
    \cup {Garbage, Partial}

\* Contents of a buffer: whether the section's bytes are there, and what each
\* relocation section has written into them since.
Contents == [fill : BOOLEAN, patch : [SecIdx -> Seq(Vals)]]
Unpatched == [r \in SecIdx |-> << >>]
Blank == [fill |-> FALSE, patch |-> Unpatched]
Pristine == [fill |-> TRUE, patch |-> Unpatched]

Patch(c, r, v) ==
    [c EXCEPT !.patch[r] = IF elf[r].acc THEN Append(@, v) ELSE <<v>>]

\* A lock call reaches the BufferManager's counter only through an
\* AllocatedDeviceBuffer; DynamicBuffer and StaticBuffer ignore it.
Counted(b) == IF b[1] = "backup" /\ ~ManagedBackups THEN 0 ELSE 1
Locked(b) == [lock EXCEPT ![b] = @ + Counted(b)]
\* Faulty variant: the guard does not unlock.
UnlockedNever(b) == lock
Unlocked(b) == [lock EXCEPT ![b] = @ - Counted(b)]

-----------------------------------------------------------------------------
(* Containers *)

\* BufferInfo; has is FALSE where the map has no such key.
Entry == [has : BOOLEAN, buf : BufIds, hasData : BOOLEAN, isShared : BOOLEAN,
          isProcessed : BOOLEAN]
Info(b, d, s, p) ==
    [has |-> TRUE, buf |-> b, hasData |-> d, isShared |-> s, isProcessed |-> p]
NoInfo(s) == [Info(NullBuf(s), FALSE, FALSE, FALSE) EXCEPT !.has = FALSE]
EmptyMap == [s \in SecIdx |-> NoInfo(s)]

\* The entry of a section that turns out to be patched, and one given its buffer.
PatchedEntry(e) == [e EXCEPT !.isShared = e.isShared /\ e.isProcessed]
LoadedEntry(e, b) == [e EXCEPT !.buf = b, !.isProcessed = TRUE]

Has(l, s) == s \in SecIdx /\ infer[l][s].has

(***************************************************************************)
(* copyBufferMap into loader l: a shared entry keeps its pointer, any other *)
(* one gets a new allocation.  Keys that only the old map has stay.         *)
(***************************************************************************)
\* Faulty variant: every pointer is copied.
CopiedEntryShares(l, s, e) == e
CopiedEntry(l, s, e) == IF e.isShared THEN e ELSE [e EXCEPT !.buf = OwnBuf(l, s)]
copyBufferMap(l, old, from) ==
    [s \in SecIdx |-> IF from[s].has THEN CopiedEntry(l, s, from[s]) ELSE old[s]]

-----------------------------------------------------------------------------
(* Members and control *)

Members == [symTab : SymTabs \cup {NoArg}, scratch : Seq(SecIdx), loaded : BOOLEAN,
            parallel : BOOLEAN]
NewMembers == [symTab |-> NoArg, scratch |-> << >>, loaded |-> FALSE, parallel |-> TRUE]

Pcs == {"absent", "idle", "section", "share", "buffers", "reload", "reloadCopy",
        "reloc", "relocPatch", "jit", "jitPatch"}
Ops == {"none", "load", "clone", "assign", "scratch", "jit"}

\* pos: index in the loop over sections or over a vector of them; todo, cur: the
\* sections reloadNewBuffers has still to restore and the one it has locked.
Control == [pc : Pcs, op : Ops, pos : Nat, todo : SUBSET SecIdx, cur : SecIdx,
            arg : UserIO \cup ScratchSets \cup {NoArg}]

At(p, o, n, t, a) ==
    [pc |-> p, op |-> o, pos |-> n, todo |-> t, cur |-> 0, arg |-> a]
Idle == At("idle", "none", 0, {}, NoArg)
Absent == At("absent", "none", 0, {}, NoArg)
MoveTo(c, p, n) == [c EXCEPT !.pc = p, !.pos = n]
Holding(c, s) == [c EXCEPT !.pc = "reloadCopy", !.cur = s]
Restored(c, s) == [c EXCEPT !.pc = "reload", !.cur = 0, !.todo = c.todo \ {s}]

\* The source of a copy is a loaded loader that is not itself being rebuilt.
\* (It may be patching its own buffers: a copy reads none of them.)
CopySource(m) == mbr[m].loaded /\ ctl[m].op \in {"none", "jit", "scratch"}
                 /\ ctl[m].pc # "absent"

ReaderState == [cached : SUBSET SecIdx, accessor : BOOLEAN, dangling : BOOLEAN]

\* getData(): reads through the AccessManager unless the Reader has cached it.
Fetch(S) ==
    rd' = [rd EXCEPT !.cached = @ \cup S,
                     !.dangling = @ \/ (~rd.accessor /\ ~(S \subseteq rd.cached))]

\* getDataBuffer(): always reads through the AccessManager.
ReadThrough == rd' = [rd EXCEPT !.dangling = @ \/ ~rd.accessor]

(***************************************************************************)
(* An exception leaves the operation: guards release their locks; an object *)
(* under construction ceases to exist; otherwise the object keeps the state *)
(* it has reached.                                                          *)
(***************************************************************************)
Release(l) ==
    /\ infer' = [infer EXCEPT ![l] = EmptyMap]
    /\ backup' = [backup EXCEPT ![l] = EmptyMap]
    /\ mbr' = [mbr EXCEPT ![l] = NewMembers]
    /\ ctl' = [ctl EXCEPT ![l] = Absent]
    /\ io' = [io EXCEPT ![l] = NoIO]

Throw(l) ==
    \/ ctl[l].op = "clone" /\ Release(l)
    \/ /\ ctl[l].op # "clone"
       /\ ctl' = [ctl EXCEPT ![l] = Idle]
       /\ io' = [io EXCEPT ![l] = Broken]
       /\ UNCHANGED <<infer, backup, mbr>>

-----------------------------------------------------------------------------
(* Construction, destruction, and what the client does around them *)

Init ==
    /\ elf \in Blobs
    /\ relocIdx = << >> /\ jitIdx = << >>
    /\ rd = [cached |-> {}, accessor |-> TRUE, dangling |-> FALSE]
    /\ ctl = [l \in Loaders |-> Absent]
    /\ infer = [l \in Loaders |-> EmptyMap]
    /\ backup = [l \in Loaders |-> EmptyMap]
    /\ mbr = [l \in Loaders |-> NewMembers]
    /\ io = [l \in Loaders |-> NoIO]
    /\ mem = [b \in BufIds |-> Blank]
    /\ dev = [b \in BufIds |-> b]
    /\ lock = [b \in BufIds |-> 0]
    /\ loads = 0 /\ faults = 0

\* VPUXLoader(accessor, bufferManager).  It reads the IO symbol tables through a
\* copy of each Section, so nothing of that read stays in the Reader's cache.
Construct(l) ==
    /\ \A m \in Loaders : ctl[m].pc = "absent"
    /\ relocIdx' = << >> /\ jitIdx' = << >>
    /\ rd' = [cached |-> {}, accessor |-> TRUE, dangling |-> FALSE]
    /\ ctl' = [ctl EXCEPT ![l] = Idle]
    /\ mem' = [b \in BufIds |-> Blank]
    /\ loads' = 0
    /\ UNCHANGED <<elf, infer, backup, mbr, io, dev, lock, faults>>

\* ~VPUXLoader: the maps drop their buffers.
Destroy(l) ==
    /\ ctl[l].pc = "idle"
    /\ Release(l)
    /\ mem' = [b \in BufIds |-> IF b[1] = l THEN Blank ELSE mem[b]]
    /\ dev' = [b \in BufIds |-> IF b[1] = l THEN b ELSE dev[b]]
    /\ UNCHANGED <<elf, indexes, rd, lock, bounds>>

\* setInferencesMayBeRunInParallel, which HPI calls before load().
SetInferencesMayBeRunInParallel(l, b) ==
    /\ ctl[l].pc = "idle" /\ ~mbr[l].loaded
    /\ mbr' = [mbr EXCEPT ![l].parallel = b]
    /\ UNCHANGED <<elf, indexes, rd, ctl, infer, backup, io, buffers, bounds>>

\* The client deletes the AccessManager once load() has completed.
DeleteAccessor ==
    /\ rd.accessor
    /\ \E l \in Loaders : mbr[l].loaded
    /\ \A l \in Loaders : ctl[l].op # "load"
    /\ rd' = [rd EXCEPT !.accessor = FALSE]
    /\ UNCHANGED <<elf, indexes, ctl, infer, backup, mbr, io, buffers, bounds>>

-----------------------------------------------------------------------------
(* load(): the loop over the sections *)

\* A second call on a loaded object throws before it changes anything.
StartLoad(l, t) ==
    /\ ctl[l].pc = "idle" /\ ~mbr[l].loaded
    /\ loads < MaxLoads
    /\ loads' = loads + 1
    /\ mbr' = [mbr EXCEPT ![l].symTab = t]
    /\ ctl' = [ctl EXCEPT ![l] = At("section", "load", 0, {}, NoArg)]
    /\ UNCHANGED <<elf, indexes, rd, infer, backup, io, buffers, faults>>

\* symTabOverrideMode, which HPI derives from getSymbolSectionTypes().
explicitAllocations == SymbolSectionTypes # {}

AtSection(l, a) ==
    /\ ctl[l].pc = "section"
    /\ ctl[l].pos < NumSections
    /\ actionMap[elf[ctl[l].pos].type] = a

\* Faulty variant: the loop does not advance.
NextSectionStays(l) == ctl' = ctl
NextSection(l) == ctl' = [ctl EXCEPT ![l].pos = @ + 1]
AbortLoad(l) == ctl' = [ctl EXCEPT ![l] = Idle]

\* safeInitBufferInfoAtIndex throws for a key that is in the map, which is what
\* stops a second load() after one that threw.  Faulty variant: it overwrites.
AlreadyInitNever(l, s) == FALSE
AlreadyInit(l, s) == infer[l][s].has

SkipsAllocation(h) == explicitAllocations /\ ~h.alloc

\* PROGBITS: an entry without a buffer yet; shared so far if it is read-only.
LoadProgbits(l) ==
    LET s == ctl[l].pos  h == elf[s] IN
    /\ AtSection(l, "AllocateAndLoad")
    /\ \/ SkipsAllocation(h) /\ NextSection(l) /\ UNCHANGED infer
       \/ ~SkipsAllocation(h) /\ AlreadyInit(l, s) /\ AbortLoad(l) /\ UNCHANGED infer
       \/ /\ ~SkipsAllocation(h) /\ ~AlreadyInit(l, s)
          /\ infer' = [infer EXCEPT ![l][s] = Info(NullBuf(s), TRUE, ~h.write, FALSE)]
          /\ NextSection(l)
    /\ UNCHANGED <<elf, indexes, rd, backup, mbr, io, buffers, bounds>>

\* NOBITS: allocated at once, sharable when inferences may not run in parallel.
\* The driver may answer a sharable request with an empty buffer.
LoadNobits(l) ==
    LET s == ctl[l].pos
        h == elf[s]
        skip == SkipsAllocation(h) \/ isNetworkIO(h)
        refused == ~h.write \/ AlreadyInit(l, s)
        empty == ~mbr[l].parallel /\ DriverSharesScratch
    IN
    /\ AtSection(l, "Allocate")
    /\ \/ skip /\ NextSection(l) /\ UNCHANGED <<infer, mbr, dev, faults>>
       \/ ~skip /\ refused /\ AbortLoad(l) /\ UNCHANGED <<infer, mbr, dev, faults>>
       \/ /\ ~skip /\ ~refused
          /\ infer' = [infer EXCEPT ![l][s] = Info(OwnBuf(l, s), FALSE, FALSE, TRUE)]
          /\ dev' = [dev EXCEPT ![OwnBuf(l, s)] = IF empty THEN NullAddr ELSE @]
          /\ mbr' = [mbr EXCEPT ![l].scratch = IF empty THEN Append(@, s) ELSE @]
          /\ NextSection(l)
          /\ UNCHANGED faults
       \/ /\ ~skip /\ ~refused /\ faults < MaxFaults
          /\ infer' = [infer EXCEPT ![l][s] = Info(NullBuf(s), FALSE, FALSE, FALSE)]
          /\ faults' = faults + 1
          /\ AbortLoad(l)
          /\ UNCHANGED <<mbr, dev>>
    /\ UNCHANGED <<elf, indexes, rd, backup, io, mem, lock, loads>>

\* RELA: registered; the data of a JIT one is read now, of another one later.
LoadRela(l) ==
    LET s == ctl[l].pos IN
    /\ AtSection(l, "Relocate")
    /\ \/ elf[s].jit /\ Fetch({s}) /\ jitIdx' = Append(jitIdx, s) /\ UNCHANGED relocIdx
       \/ ~elf[s].jit /\ relocIdx' = Append(relocIdx, s) /\ UNCHANGED <<rd, jitIdx>>
    /\ NextSection(l)
    /\ UNCHANGED <<elf, infer, backup, mbr, io, buffers, bounds>>

\* The sections whose data load() reads so that the AccessManager can go away.
\* Faulty variant: a symbol table is left to be read on demand.
FetchedSymtabNone(s) == {}
FetchedSymtab(s) == {s}
LoadSymtab(l) ==
    /\ AtSection(l, "RegisterUserIO")
    /\ Fetch(FetchedSymtab(ctl[l].pos))
    /\ NextSection(l)
    /\ UNCHANGED <<elf, indexes, infer, backup, mbr, io, buffers, bounds>>

LoadOther(l) ==
    /\ \/ AtSection(l, "None") /\ NextSection(l)
       \/ AtSection(l, "Error") /\ AbortLoad(l)
    /\ UNCHANGED <<elf, indexes, rd, infer, backup, mbr, io, buffers, bounds>>

SectionsDone(l) ==
    /\ ctl[l].pc = "section" /\ ctl[l].pos = NumSections
    /\ ctl' = [ctl EXCEPT ![l] = MoveTo(@, "share", 1)]
    /\ UNCHANGED <<elf, indexes, rd, infer, backup, mbr, io, buffers, bounds>>

-----------------------------------------------------------------------------
(* load(): updateSharedBuffers for both vectors, then loadBuffers *)

\* Faulty variant: the targets of JIT relocations stay shared.
CheckedForSharingNoJit == relocIdx
CheckedForSharing == relocIdx \o jitIdx

\* A relocation section with no target, or whose target has no buffer entry.
NoTarget(l, r) == ~elf[r].infoLink \/ elf[r].info = 0 \/ ~Has(l, elf[r].info)

UpdateSharedBuffers(l) ==
    /\ ctl[l].pc = "share" /\ ctl[l].pos <= Len(CheckedForSharing)
    /\ LET r == CheckedForSharing[ctl[l].pos]  t == elf[r].info IN
         \/ NoTarget(l, r) /\ AbortLoad(l) /\ UNCHANGED infer
         \/ /\ ~NoTarget(l, r)
            /\ infer' = [infer EXCEPT ![l][t] = PatchedEntry(@)]
            /\ NextSection(l)
    /\ UNCHANGED <<elf, indexes, rd, backup, mbr, io, buffers, bounds>>

SharingDone(l) ==
    /\ ctl[l].pc = "share" /\ ctl[l].pos > Len(CheckedForSharing)
    /\ ctl' = [ctl EXCEPT ![l].pc = "buffers"]
    /\ UNCHANGED <<elf, indexes, rd, infer, backup, mbr, io, buffers, bounds>>

Unprocessed(l) == {s \in SecIdx : infer[l][s].has /\ ~infer[l][s].isProcessed}

\* The reader's own buffer serves every loader.
LoadSharedBuffer(l, s) ==
    /\ ctl[l].pc = "buffers" /\ s \in Unprocessed(l) /\ infer[l][s].isShared
    /\ ReadThrough
    /\ infer' = [infer EXCEPT ![l][s] = LoadedEntry(@, DataBuf(s))]
    /\ mem' = [mem EXCEPT ![DataBuf(s)] = Pristine]
    /\ UNCHANGED <<elf, indexes, ctl, backup, mbr, io, dev, lock, bounds>>

\* A backup is read, and a new buffer is allocated and filled from it.  When that
\* allocation fails the backup's entry is already in the map.
LoadOwnBuffer(l, s) ==
    /\ ctl[l].pc = "buffers" /\ s \in Unprocessed(l) /\ ~infer[l][s].isShared
    /\ ~backup[l][s].has
    /\ ReadThrough
    /\ \/ /\ backup' = [backup EXCEPT ![l][s] = Info(BackupBuf(s), TRUE, TRUE, TRUE)]
          /\ infer' = [infer EXCEPT ![l][s] = LoadedEntry(@, OwnBuf(l, s))]
          /\ mem' = [mem EXCEPT ![BackupBuf(s)] = Pristine, ![OwnBuf(l, s)] = Pristine]
          /\ UNCHANGED <<ctl, faults>>
       \/ /\ faults < MaxFaults /\ faults' = faults + 1
          /\ backup' = [backup EXCEPT ![l][s] = Info(BackupBuf(s), FALSE, FALSE, FALSE)]
          /\ mem' = [mem EXCEPT ![BackupBuf(s)] = Pristine]
          /\ AbortLoad(l)
          /\ UNCHANGED infer
    /\ UNCHANGED <<elf, indexes, mbr, io, dev, lock, loads>>

\* Relocations are applied only if no scratch buffer is missing.
BuffersLoaded(l) ==
    /\ ctl[l].pc = "buffers" /\ Unprocessed(l) = {}
    /\ \/ /\ mbr[l].scratch = << >>
          /\ ctl' = [ctl EXCEPT ![l] = MoveTo(@, "reloc", 1)]
          /\ UNCHANGED <<mbr, io>>
       \/ /\ mbr[l].scratch # << >>
          /\ ctl' = [ctl EXCEPT ![l] = Idle]
          /\ mbr' = [mbr EXCEPT ![l].loaded = TRUE]
          /\ io' = [io EXCEPT ![l] = NoIO]
    /\ UNCHANGED <<elf, indexes, rd, infer, backup, buffers, bounds>>

-----------------------------------------------------------------------------
(* applyRelocations *)

(***************************************************************************)
(* The value written for section r: a runtime symbol, the address of the    *)
(* symbol's section, or, where that section has no address, the runtime     *)
(* symbol for its type.  A type that is not in the list leaves the index at *)
(* the end of the list: the read goes past the table.                       *)
(***************************************************************************)
SymValue(l, r) ==
    LET q == elf[r].sym IN
    IF elf[r].rt THEN RtVal(mbr[l].symTab, q)
    ELSE IF Has(l, q) /\ dev[infer[l][q].buf] # NullAddr
           THEN MemVal(dev[infer[l][q].buf])
    ELSE IF elf[q].type \in SymbolSectionTypes THEN RtTypeVal(mbr[l].symTab, elf[q].type)
    ELSE Garbage

LinksSymtab(r) == elf[r].link \in SecIdx /\ elf[elf[r].link].type = "SHT_SYMTAB"

\* Faulty variant: the backup is patched.
TargetBufBackup(l, r) == backup[l][elf[r].info].buf
TargetBuf(l, r) == infer[l][elf[r].info].buf

\* The data read before and between the checks: the section's, then its table's.
RelocReads(r) == {r} \cup (IF ~elf[r].rt /\ LinksSymtab(r) THEN {elf[r].link} ELSE {})

RelocLock(l) ==
    /\ ctl[l].pc = "reloc" /\ ctl[l].pos <= Len(relocIdx)
    /\ LET r == relocIdx[ctl[l].pos]
           refused == (~elf[r].rt /\ ~LinksSymtab(r)) \/ NoTarget(l, r)
       IN /\ Fetch(RelocReads(r))
          /\ \/ refused /\ Throw(l) /\ UNCHANGED lock
             \/ /\ ~refused
                /\ lock' = Locked(TargetBuf(l, r))
                /\ ctl' = [ctl EXCEPT ![l].pc = "relocPatch"]
                /\ UNCHANGED <<infer, backup, mbr, io>>
    /\ UNCHANGED <<elf, indexes, mem, dev, bounds>>

\* An entry is refused when its own checks fail, or when the target has no memory
\* (size 0); the entries before it have been written.
EntryRefused(l, r) == elf[r].bad \/ dev[TargetBuf(l, r)] = NullAddr

RelocPatch(l) ==
    /\ ctl[l].pc = "relocPatch"
    /\ LET r == relocIdx[ctl[l].pos]  b == TargetBuf(l, r) IN
         /\ lock' = Unlocked(b)
         /\ \/ /\ EntryRefused(l, r)
               /\ mem' = [mem EXCEPT ![b] = Patch(@, r, Partial)]
               /\ Throw(l)
            \/ /\ ~EntryRefused(l, r)
               /\ mem' = [mem EXCEPT ![b] = Patch(@, r, SymValue(l, r))]
               /\ ctl' = [ctl EXCEPT ![l] = MoveTo(@, "reloc", ctl[l].pos + 1)]
               /\ UNCHANGED <<infer, backup, mbr, io>>
    /\ UNCHANGED <<elf, indexes, rd, dev, bounds>>

\* The end of load(), of a copy, and of updateSharedScratchBuffers.
RelocDone(l) ==
    /\ ctl[l].pc = "reloc" /\ ctl[l].pos > Len(relocIdx)
    /\ ctl' = [ctl EXCEPT ![l] = Idle]
    /\ mbr' = [mbr EXCEPT ![l].loaded = TRUE]
    /\ io' = [io EXCEPT ![l] = NoIO]
    /\ UNCHANGED <<elf, indexes, rd, infer, backup, buffers, bounds>>

\* The calls in which a section's data is read for the first time.
Reading(l) ==
    \/ AtSection(l, "Relocate") /\ elf[ctl[l].pos].jit /\ ctl[l].pos \notin rd.cached
    \/ AtSection(l, "RegisterUserIO") /\ ctl[l].pos \notin rd.cached
    \/ ctl[l].pc = "buffers" /\ \E s \in Unprocessed(l) : infer[l][s].isShared
    \/ /\ ctl[l].pc = "reloc" /\ ctl[l].pos <= Len(relocIdx)
       /\ ~(RelocReads(relocIdx[ctl[l].pos]) \subseteq rd.cached)

\* readInternal throws, for want of memory or because the file ends before the section:
\* the exception leaves the call, and what load() has registered stays registered.
ReadThrows(l) ==
    /\ ReadsFail /\ faults < MaxFaults
    /\ Reading(l)
    /\ Throw(l)
    /\ faults' = faults + 1
    /\ UNCHANGED <<elf, indexes, rd, buffers, loads>>

-----------------------------------------------------------------------------
(* Copies, and reloadNewBuffers *)

\* The sections reloadNewBuffers restores from their backup.
\* Faulty variant: nothing is restored.
ReloadedNone(map) == {}
Reloaded(map) == {s \in SecIdx : map[s].has /\ map[s].hasData /\ ~map[s].isShared}

\* Memory of the new allocations: blank, and empty where scratch is shared.
CopyInto(l, m, o, t) ==
    LET inferMap == copyBufferMap(l, infer[l], infer[m])
        fresh == {OwnBuf(l, s) : s \in {q \in SecIdx : inferMap[q].buf = OwnBuf(l, q)}}
        empty == {OwnBuf(l, mbr[m].scratch[i]) : i \in DOMAIN mbr[m].scratch}
    IN
    /\ infer' = [infer EXCEPT ![l] = inferMap]
    /\ backup' = [backup EXCEPT ![l] = copyBufferMap(l, @, backup[m])]
    /\ mbr' = [mbr EXCEPT ![l] = [mbr[m] EXCEPT !.symTab = t]]
    /\ mem' = [b \in BufIds |-> IF b \in fresh THEN Blank ELSE mem[b]]
    /\ dev' = [b \in BufIds |-> IF b \in empty THEN NullAddr
                                ELSE IF b \in fresh THEN b ELSE dev[b]]
    /\ ctl' = [ctl EXCEPT ![l] = At("reload", o, 0, Reloaded(inferMap), NoArg)]
    /\ UNCHANGED <<elf, indexes, rd, io, lock, bounds>>

\* The copy constructors: with the source's runtime symbol table, or another one.
\* A failing allocation leaves nothing behind.
Clone(l, m, t) ==
    /\ ctl[l].pc = "absent" /\ CopySource(m)
    /\ CopyInto(l, m, "clone", t)

\* operator=
Assign(l, m) ==
    /\ l # m /\ ctl[l].pc = "idle" /\ CopySource(m)
    /\ CopyInto(l, m, "assign", mbr[m].symTab)

\* Every section to restore has its backup: a key that is missing would throw.
ReloadLock(l, s) ==
    /\ ctl[l].pc = "reload" /\ s \in ctl[l].todo /\ backup[l][s].has
    /\ lock' = Locked(backup[l][s].buf)
    /\ ctl' = [ctl EXCEPT ![l] = Holding(@, s)]
    /\ UNCHANGED <<elf, indexes, rd, infer, backup, mbr, io, mem, dev, bounds>>

ReloadCopy(l) ==
    /\ ctl[l].pc = "reloadCopy"
    /\ LET s == ctl[l].cur IN
         /\ mem' = [mem EXCEPT ![infer[l][s].buf] = mem[backup[l][s].buf]]
         /\ lock' = Unlocked(backup[l][s].buf)
         /\ ctl' = [ctl EXCEPT ![l] = Restored(@, s)]
    /\ UNCHANGED <<elf, indexes, rd, infer, backup, mbr, io, dev, bounds>>

\* The buffers that resetBuffer is called on.  Faulty variant: in every operation.
ResetBufsAlways(l) == {OwnBuf(l, mbr[l].scratch[i]) : i \in DOMAIN mbr[l].scratch}
ResetBufs(l) == {OwnBuf(l, mbr[l].scratch[i]) :
                    i \in {j \in DOMAIN mbr[l].scratch : ctl[l].op = "scratch"}}

\* What follows the reload: relocations, for a scratch update after the scratch
\* entries have been pointed at the buffers supplied.
ReloadDone(l) ==
    /\ ctl[l].pc = "reload" /\ ctl[l].todo = {}
    /\ dev' = [b \in BufIds |-> IF b \in ResetBufs(l) THEN <<ctl[l].arg, b[2]>> ELSE dev[b]]
    /\ ctl' = [ctl EXCEPT ![l] = MoveTo(@, "reloc", 1)]
    /\ UNCHANGED <<elf, indexes, rd, infer, backup, mbr, io, mem, lock, bounds>>

-----------------------------------------------------------------------------
(* Operations on a loaded loader *)

\* reloadNewBuffers comes first, so that relocations start from the pristine image.
\* Faulty variant: they are applied on top of the old ones.
RestoredForScratchNone(l) == {}
RestoredForScratch(l) == Reloaded(infer[l])

\* With a wrong number of buffers, or nothing to update, no state changes.
UpdateSharedScratchBuffers(l, a) ==
    /\ ctl[l].pc = "idle" /\ mbr[l].loaded /\ mbr[l].scratch # << >>
    /\ ctl' = [ctl EXCEPT ![l] = At("reload", "scratch", 0, RestoredForScratch(l), a)]
    /\ UNCHANGED <<elf, indexes, rd, infer, backup, mbr, io, buffers, bounds>>

ApplyJitRelocations(l, u) ==
    /\ ctl[l].pc = "idle" /\ mbr[l].loaded
    /\ ctl' = [ctl EXCEPT ![l] = At("jit", "jit", 1, {}, u)]
    /\ UNCHANGED <<elf, indexes, rd, infer, backup, mbr, io, buffers, bounds>>

JitLock(l) ==
    /\ ctl[l].pc = "jit" /\ ctl[l].pos <= Len(jitIdx)
    /\ LET r == jitIdx[ctl[l].pos]
           refused == elf[r].rt \/ ~LinksSymtab(r) \/ elf[r].io = "none" \/ NoTarget(l, r)
       IN /\ Fetch(RelocReads(r))
          /\ \/ refused /\ Throw(l) /\ UNCHANGED lock
             \/ /\ ~refused
                /\ lock' = Locked(TargetBuf(l, r))
                /\ ctl' = [ctl EXCEPT ![l].pc = "jitPatch"]
                /\ UNCHANGED <<infer, backup, mbr, io>>
    /\ UNCHANGED <<elf, indexes, mem, dev, bounds>>

JitPatch(l) ==
    /\ ctl[l].pc = "jitPatch"
    /\ LET r == jitIdx[ctl[l].pos]  b == TargetBuf(l, r) IN
         /\ lock' = Unlocked(b)
         /\ \/ /\ EntryRefused(l, r)
               /\ mem' = [mem EXCEPT ![b] = Patch(@, r, Partial)]
               /\ Throw(l)
            \/ /\ ~EntryRefused(l, r)
               /\ mem' = [mem EXCEPT ![b] = Patch(@, r, UserVal(ctl[l].arg, elf[r].io))]
               /\ ctl' = [ctl EXCEPT ![l] = MoveTo(@, "jit", ctl[l].pos + 1)]
               /\ UNCHANGED <<infer, backup, mbr, io>>
    /\ UNCHANGED <<elf, indexes, rd, dev, bounds>>

JitDone(l) ==
    /\ ctl[l].pc = "jit" /\ ctl[l].pos > Len(jitIdx)
    /\ ctl' = [ctl EXCEPT ![l] = Idle]
    /\ io' = [io EXCEPT ![l] = IF @ = Broken THEN Broken ELSE ctl[l].arg]
    /\ UNCHANGED <<elf, indexes, rd, infer, backup, mbr, buffers, bounds>>

-----------------------------------------------------------------------------
LoadStep(l) ==
    \/ LoadProgbits(l) \/ LoadNobits(l) \/ LoadRela(l) \/ LoadSymtab(l)
    \/ LoadOther(l) \/ SectionsDone(l) \/ UpdateSharedBuffers(l) \/ SharingDone(l)
    \/ \E s \in SecIdx : LoadSharedBuffer(l, s) \/ LoadOwnBuffer(l, s)
    \/ BuffersLoaded(l)

PatchStep(l) ==
    \/ RelocLock(l) \/ RelocPatch(l) \/ RelocDone(l)
    \/ \E s \in SecIdx : ReloadLock(l, s)
    \/ ReloadCopy(l) \/ ReloadDone(l)
    \/ JitLock(l) \/ JitPatch(l) \/ JitDone(l)
    \/ ReadThrows(l)

ClientStep(l) ==
    \/ Construct(l) \/ Destroy(l)
    \/ \E b \in BOOLEAN : SetInferencesMayBeRunInParallel(l, b)
    \/ \E t \in SymTabs : StartLoad(l, t)
    \/ \E m \in Loaders, t \in SymTabs : Clone(l, m, t)
    \/ \E m \in Loaders : Assign(l, m)
    \/ \E a \in ScratchSets : UpdateSharedScratchBuffers(l, a)
    \/ \E u \in UserIO : ApplyJitRelocations(l, u)

Next ==
    \/ \E l \in Loaders : LoadStep(l) \/ PatchStep(l) \/ ClientStep(l)
    \/ DeleteAccessor

Spec == Init /\ [][Next]_vars

\* Each call runs in a thread of its own, and none of them waits for another.
Fairness == \A l \in Loaders : WF_vars(LoadStep(l) \/ PatchStep(l))
FairSpec == Spec /\ Fairness

-----------------------------------------------------------------------------
(* Properties *)

\* Types of the variables.
TypeOK ==
    /\ elf \in Blobs
    /\ relocIdx \in Seq(SecIdx) /\ jitIdx \in Seq(SecIdx)
    /\ rd \in ReaderState
    /\ ctl \in [Loaders -> Control]
    /\ infer \in [Loaders -> [SecIdx -> Entry]]
    /\ backup \in [Loaders -> [SecIdx -> Entry]]
    /\ mbr \in [Loaders -> Members]
    /\ io \in [Loaders -> UserIO \cup {NoIO, Broken}]
    /\ mem \in [BufIds -> Contents] /\ dev \in [BufIds -> Addrs]
    /\ lock \in [BufIds -> Int]
    /\ loads \in 0 .. MaxLoads /\ faults \in 0 .. MaxFaults

\* The section's buffer is in use by two loaders at once.
SharedBy(l, m, s) ==
    /\ l # m /\ infer[l][s].has /\ infer[m][s].has
    /\ infer[l][s].buf = infer[m][s].buf /\ infer[l][s].buf # NullBuf(s)

\* vpux_loader.cpp:654-667, 747-749: a buffer that two loaders run from is not the target of
\* any relocation section of the blob, JIT or not, and is read-only.
Isolation ==
    \A l, m \in Loaders, s \in SecIdx :
        SharedBy(l, m, s) => s \notin RelaTargets(elf) /\ ~elf[s].write

\* The images copies are restored from, and the buffers loaders share, never carry a
\* patch: relocations do not reach what the AccessManager may have emplaced in the
\* blob itself.
ImagesPristine ==
    \A s \in SecIdx : mem[DataBuf(s)].patch = Unpatched /\ mem[BackupBuf(s)].patch = Unpatched

\* vpux_loader.cpp:714-719: however many calls of load() failed before, a loaded
\* blob has each of its relocation sections registered once.
RegisteredOnce ==
    (\E l \in Loaders : mbr[l].loaded) =>
        LET q == relocIdx \o jitIdx IN \A i, j \in DOMAIN q : q[i] = q[j] => i = j

\* The scratch buffers have been supplied (or were never shared).
ScratchReady(l) ==
    \A i \in DOMAIN mbr[l].scratch : dev[infer[l][mbr[l].scratch[i]].buf] # NullAddr

\* What section r should have written into the buffer of section s of loader l.
Expected(l, s, r) ==
    IF ~IsRela(elf, r) \/ elf[r].info # s THEN << >>
    ELSE IF ~elf[r].jit THEN <<SymValue(l, r)>>
    ELSE IF io[l] = NoIO THEN << >> ELSE <<UserVal(io[l], elf[r].io)>>

\* Between calls the image of a loaded loader is its blob, relocated exactly once
\* against the loader's own buffers and the user buffers of the last inference, in
\* whatever order loads, copies, scratch updates and JIT relocations came before.
ImageCorrect ==
    \A l \in Loaders :
        ctl[l].pc = "idle" /\ mbr[l].loaded /\ io[l] # Broken /\ ScratchReady(l) =>
            \A s \in SecIdx : infer[l][s].has /\ infer[l][s].hasData =>
                LET c == mem[infer[l][s].buf] IN
                c.fill /\ \A r \in SecIdx : c.patch[r] = Expected(l, s, r)

\* The buffer a loader holds a lock on.
HeldBuf(l) ==
    CASE ctl[l].pc = "relocPatch" -> {TargetBuf(l, relocIdx[ctl[l].pos])}
      [] ctl[l].pc = "jitPatch"   -> {TargetBuf(l, jitIdx[ctl[l].pos])}
      [] ctl[l].pc = "reloadCopy" -> {backup[l][ctl[l].cur].buf}
      [] OTHER                    -> {}

\* Every lock has a holder: no call, and no exception out of one, leaks a lock.
LocksHaveHolders ==
    \A b \in BufIds : lock[b] = Counted(b) * Cardinality({l \in Loaders : b \in HeldBuf(l)})

\* buffer_manager.hpp:31-32: the lock counter is never incremented from 1 nor
\* decremented from 0.
LockContract == \A b \in BufIds : lock[b] \in 0 .. 1

\* vpux_loader.cpp:712-713, 731-732: once load() has completed the AccessManager can
\* be deleted; nothing reads through it later.
NoDanglingRead == ~rd.dangling

\* vpux_loader.cpp:755-757: relocations are not triggered while scratch allocations
\* are empty.
RelocatesWithScratchOnly ==
    \A l \in Loaders : ctl[l].pc = "relocPatch" => ScratchReady(l)

\* What a loader runs from, and where.
Image(l) == [s \in SecIdx |-> <<infer[l][s].buf, mem[infer[l][s].buf], dev[infer[l][s].buf]>>]

\* A step that leaves a loaded loader between calls leaves its image alone.
KeepsImages ==
    \A l \in Loaders :
        ctl[l].pc = "idle" /\ mbr[l].loaded /\ ctl'[l].pc = "idle" => Image(l)' = Image(l)

\* A loaded loader between two calls keeps its image, whatever other loaders do.
ImageStable == [][KeepsImages]_vars

\* Every call returns or throws.
CallsEnd ==
    \A l \in Loaders : ctl[l].pc \notin {"idle", "absent"} ~> ctl[l].pc \in {"idle", "absent"}

-----------------------------------------------------------------------------
(***************************************************************************)
(* The inductive invariant behind Isolation and ImagesPristine.  Isolation  *)
(* speaks of finished loaders only; why it holds is that a section cannot   *)
(* get the reader's buffer before every relocation section has been         *)
(* registered and has taken its target out of the shared ones.              *)
(***************************************************************************)
Present(l) == ctl[l].pc # "absent"

\* Position, argument, members and entries fit the operation a loader is in.
ControlOK(c, m, map) ==
    /\ c.pc \in {"share", "reloc", "relocPatch", "jit", "jitPatch"} => c.pos >= 1
    /\ c.pc \in {"jit", "jitPatch"} => c.arg \in UserIO
    /\ c.op = "scratch" => c.arg \in ScratchSets
    /\ c.pc \in {"section", "share", "buffers"} => ~m.loaded
    /\ c.pc = "reloadCopy" => c.cur \in c.todo
    /\ c.pc \in {"reload", "reloadCopy"} => \A s \in c.todo : ~map[s].isShared
ControlInv == \A l \in Loaders : ControlOK(ctl[l], mbr[l], infer[l])

\* While a loader patches, its position is inside the vector and the target exists.
PatchOK(l) ==
    /\ ctl[l].pc = "relocPatch" =>
          ctl[l].pos <= Len(relocIdx) /\ ~NoTarget(l, relocIdx[ctl[l].pos])
    /\ ctl[l].pc = "jitPatch" =>
          ctl[l].pos <= Len(jitIdx) /\ ~NoTarget(l, jitIdx[ctl[l].pos])
PatchInv == \A l \in Loaders : PatchOK(l)

\* A loader that is not loaded has no copies.
AloneInv ==
    \A l, m \in Loaders : l # m /\ Present(l) /\ ~mbr[l].loaded => ~Present(m)

Registered(r) ==
    \/ \E i \in 1 .. Len(relocIdx) : relocIdx[i] = r
    \/ \E i \in 1 .. Len(jitIdx) : jitIdx[i] = r

\* Only relocation sections are registered, and the loop leaves none out.
LoopOK(c) ==
    \A r \in SecIdx : IsRela(elf, r) =>
        /\ c.pc = "section" /\ r < c.pos => Registered(r)
        /\ c.pc = "share" => Registered(r)
RegisteredInv ==
    /\ \A i \in 1 .. Len(relocIdx) : IsRela(elf, relocIdx[i])
    /\ \A i \in 1 .. Len(jitIdx) : IsRela(elf, jitIdx[i])
    /\ \A l \in Loaders : LoopOK(ctl[l])

\* Targets already looked at are not shared; once all are, none is.
SharingOK(c, map) ==
    /\ c.pc = "share" =>
          \A i \in 1 .. Len(CheckedForSharing) :
             LET t == elf[CheckedForSharing[i]].info IN
             i < c.pos /\ t \in SecIdx => ~map[t].isShared
    /\ c.pc = "buffers" => \A s \in SecIdx : map[s].isShared => s \notin RelaTargets(elf)
SharingInv == \A l \in Loaders : SharingOK(ctl[l], infer[l])

\* Which buffer an entry for section s of loader l can hold.
EntryOK(l, s, e) ==
    /\ e.buf \in {NullBuf(s), OwnBuf(l, s), DataBuf(s)}
    /\ e.buf = DataBuf(s) => e.isShared /\ e.isProcessed
    /\ e.isShared => e.buf # OwnBuf(l, s) /\ ~elf[s].write
    /\ e.isShared /\ e.isProcessed => s \notin RelaTargets(elf)
EntryInv == \A l \in Loaders, s \in SecIdx : EntryOK(l, s, infer[l][s])

SharingIInv ==
    /\ ControlInv /\ PatchInv /\ AloneInv /\ RegisteredInv /\ SharingInv /\ EntryInv
    /\ ImagesPristine
=============================================================================
