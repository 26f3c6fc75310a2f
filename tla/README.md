# A TLA+ model of the NPU ELF library

The repository holds the library that puts a compiled network (an ELF blob) into
NPU memory. The compiler side writes a blob (`core/writer`); the driver side
opens it (`core/reader`, `core/accessor`), loads its sections into device
buffers and relocates them (`loader`), and wraps the result in the structure the
firmware starts from (`hpi_component`). Paths below are relative to
`src/vpux_elf/`.

## 1. Inventory

| Component | State | Operations | Interacts with |
|---|---|---|---|
| `VPUXLoader` (`loader/src/vpux_loader.cpp`) | two buffer containers (infer, backup), runtime symbol table, index vectors of relocation sections, list of shared scratch sections, `m_loaded`, `m_inferencesMayBeRunInParallel` | constructor, `load`, two copy constructors, `operator=`, `applyJitRelocations`, `updateSharedScratchBuffers`, `getEntry`, `getSectionsOfType` | shares Reader, index vectors, backup and read-only buffers with its copies; calls the BufferManager |
| `DeviceBufferContainer`, `ManagedBuffer` (`loader/src`) | map from section index to buffer and flags (has data, shared, processed); device address | `safeInit`, copy, lock, load, `resetBuffer` | BufferManager |
| `Reader`, `AccessManager` (`core/include`) | section headers; per section a lazily filled data buffer | `getSection`, `getData`, `getDataBuffer`, `readInternal` | the blob, the BufferManager |
| `BufferManager` (interface, driver) | allocations, a lock counter per buffer | `allocate`, `deallocate`, `lock`, `unlock`, `copy` | implemented outside |
| `HostParsedInference` (`hpi_component`) | a list of loaders, the parsed-inference and entries buffers, metadata, platform info | constructor (checks), `load`, copies, moves, `applyInputOutput`, `updateSharedScratchBuffers` | one loader per tile on 37XX, otherwise one |
| `Writer` (`core/src/writer`) | sections, string tables, symbols, relocations | add and finalize sections, `prepareWriter`, `generateELF` | |
| Serialization (`loader/include/vpux_headers/serial_*`) | a table of elements with sizes | serialize, deserialize | metadata and platform info |
| Relocation functions (`loader/src/vpux_loader.cpp:28-408`) | none | 27 functions on one word | documented in `core/include/vpux_elf/types/vpu_extensions.hpp` |
| Versions, platform (`core/src/utils/version.cpp`, `loader/src/platform.cpp`) | none | compatibility decision, tile count | `HostParsedInference` constructor |

What is hard here. A loader is copied once for every inference that may run at
the same time, and the copies share much: which buffers may be shared is decided
by a flag that three places in `load()` set, far from where the sharing happens.
Each copy and each scratch update patches again what was patched before. Calls
throw in the middle and can be repeated. The driver may answer a request for
scratch with an empty buffer and supply it later, which moves relocation out of
`load()`. The client may delete the AccessManager after `load()`, so what has not
been read by then must never be read. `PROJECT.json` lists these hazards at their
lines.

## 2. Plan

Done:

1. `VPUXLoader` with containers, reader cache and lock counters, its inductive
   invariant and proofs.
2. `HostParsedInference`: admission, entries, replicas per tile, copies and moves.
3. `Writer`: layout of the file, and relocations followed to their symbols across
   the sort in `SymbolSection::finalize`; the layout proved for all inputs.
4. `Serialization` of metadata between compilers and drivers of different age.
5. `LinkedImages`, an abstract specification of loaders as values of their own, and
   `VPUXLoaderRefinement`, which shows that `VPUXLoader` implements it.
6. `Relocation`: the relocation functions bit by bit, and the loops over entries.
7. `Reader`: files, access managers, buffers, and the cache that copies share.

8. Proofs of every invariant and action property of the loader, the reader and
   `HostParsedInference`, and of the step simulation that `VPUXLoaderRefinement`
   asks for.
9. Proofs of the invariants of `Relocation`, and of what the writer and the
   serialization are for: what is written reads back, relocations lead to their
   symbols, a driver reads what the compiler wrote.

Every safety property that a passing run checks is the statement of a theorem. Left to
TLC is liveness (`CallsEnd`); what the models leave out is in section 11.

The modules:

| Module | Extends or uses | About |
|---|---|---|
| `ElfFile` | | what the loader sees of a section header |
| `VPUXLoader` | `ElfFile` | the loader, its containers, reader cache, driver |
| `LinkedImages` | | what a loader promises |
| `VPUXLoaderRefinement` | `VPUXLoader`, instance of `LinkedImages` | the refinement mapping |
| `VPUXLoaderSafety`, `VPUXLoaderLocks` | `VPUXLoader` | proofs: types and isolation, locks |
| `VPUXLoaderImages` | `VPUXLoaderLocks`, `VPUXLoaderRefinement` | proofs: images, the refinement |
| `Relocation`, `RelocationProofs` | | one section's bits under relocation, and its proofs |
| `Reader`, `ReaderProofs` | | the reader down to the access managers and buffers, and its proofs |
| `HostParsedInference`, `HostParsedInferenceProofs` | | objects made of loaders, and their proofs |
| `Writer`, `WriterProofs` | | the writer and its proofs |
| `Serialization`, `SerializationProofs` | | metadata and its proofs |
| `MC...` | | blobs, files and networks of the runs |

## 3. The loader model

`ElfFile` holds what the loader looks at in a section header. A relocation section
stands for the block of its entries, which are applied together under one lock to
one target: `acc` says that its type accumulates into the word, `bad` that some
entry fails a check.

`VPUXLoader` has one action for each iteration of each loop of the code, so calls
on different loaders interleave between sections; one loader is used by one thread
at a time.

| Code | Model |
|---|---|
| `m_inferBufferContainer`, `m_backupBufferContainer` | `infer[l]`, `backup[l]`: entry per section |
| `m_relocationSectionIndexes`, `m_jitRelocations` (shared pointers) | `relocIdx`, `jitIdx` |
| the shared Reader and its `mDataBuffer` cache, the AccessManager | `rd` |
| other members | `mbr[l]` |
| the bytes of each `ManagedBuffer`, its `DeviceBuffer`, its lock counter | `mem`, `dev`, `lock` |
| program counter of the call a loader is in | `ctl[l]` |
| constructor, destructor | `Construct`, `Destroy` |
| `load()` | `StartLoad`, `LoadProgbits` ... `LoadOther`, `SectionsDone`, `UpdateSharedBuffers`, `SharingDone`, `LoadSharedBuffer`, `LoadOwnBuffer`, `BuffersLoaded` |
| copy constructors, `operator=` | `Clone`, `Assign`, then `ReloadLock`/`ReloadCopy`/`ReloadDone` and the relocation steps |
| `applyRelocations` | `RelocLock`, `RelocPatch`, `RelocDone` |
| `updateSharedScratchBuffers` | `UpdateSharedScratchBuffers`, then the reload and relocation steps |
| `applyJitRelocations` | `ApplyJitRelocations`, `JitLock`, `JitPatch`, `JitDone` |

Contents of a buffer are abstracted to whether the section's bytes are there and,
per relocation section, the values it has written since: a sequence for an
accumulating type (so that applying it twice shows), the last value otherwise.
`io` is a history variable: the user buffers of the last successful
`applyJitRelocations`, reset by a reload. `Broken` marks a loader out of whose
patching an exception came; nothing is claimed of its image.

Assumptions. A BufferManager allocation may fail (`MaxFaults`) and may be empty
(`DriverSharesScratch`); its `copy` and `lock` do not throw; sizes agree. A read
through the AccessManager may fail where `ReadsFail` says so; otherwise reads
succeed while the AccessManager exists. Loaders are copied from loaded
ones, as `HostParsedInference` does. Loaders assigned to each other come from one
blob. Two exceptions have no action: that of an allocation in `operator=`, which
copies the containers in place, and that of a read for a backup buffer.

With `ReadsFail = TRUE` and a second `load()`, `RegisteredOnce` does not hold: a
read that fails before the first buffer entry exists leaves relocation sections in
the vectors, and the retry registers them again (a hazard in `PROJECT.json`; no
text of the repository promises otherwise).

### What a loader promises

`LinkedImages` has one variable: per loader, its status, the call it is in, the
runtime symbols, user buffers and scratch memory it was last given, whether it is
sound (no exception came out of its patching) and whether its image is linked for
exactly these. A call is two steps, its begin and its return or failure. A step
changes one loader. A copy starts from the blob, with neither the user buffers nor
the scratch memory of its source; new scratch drops the user buffers; an exception
leaves a copy gone, a `load()` as if not called, and anything else unsound until
scratch is supplied again or the loader is assigned to.

`VPUXLoaderRefinement` maps the detailed state to it. Between calls the value is
read off the buffers: `linked` is true when every section that has data holds its
bytes, patched once by every section that targets it, with the values of the
present addresses (`ImageLinked`); within a call it is what the call was given. So
the refinement says that whatever the loops of several loaders write to what they
share, the outcome of each call is that of a loader alone. The abstract step
`Return` ends in a linked value (unless scratch is missing or the loader unsound),
so an action that returns with an image not linked as asked is no step of
`LinkedImages`.

## 4. HostParsedInference

`HostParsedInference` takes a loader as its results: the blob and the runtime
symbol table its image was made from, the user buffers and scratch patched in
last. Each call is one step, since an object is used by one thread and what
objects share is not written after `load()`; a call that throws half way is an
action of its own that leaves what had been done. A loader out of whose patching an
exception came has the user buffers `Broken`, as in `VPUXLoader`.

| Code | Model |
|---|---|
| members of an object | `obj[o]`; `ready` says that the last call that makes a parsed inference returned |
| the `VPUXLoader` objects | `ldr` |
| contents of the entries and parsed-inference buffers | `mem`; freed when the last holder is gone (`Held`) |
| constructor and its checks | `Construct`, `Accepted` |
| `load()` | `LoadSingle`, `LoadReplicas`, and `LoadSingleThrows`, `LoadReplicasThrows` |
| copy constructor, `operator=` | `Copy`, `Assign`, `AssignThrows` (common body `CloneInto`) |
| moves | `Move`, `MoveAssign` |
| destructor | `Destroy` |
| `applyInputOutput` | `ApplyInputOutput`, `ApplyInputOutputThrows` |
| `updateSharedScratchBuffers` | `UpdateSharedScratchBuffers`, `UpdateSharedScratchBuffersThrows` (common body `RelocateFront`) |

`applyInputOutput` patches loader by loader. When one throws, with some of its entries
written, those before it have the new user buffers and those behind it the old ones,
and the object can still be run. A wrong number of user buffers or an entry that is
refused shows in the first loader, since all have the same entries; the copy of a
vector of buffers may fail in any, so the position is free. `ReplicasAgree` therefore
claims that the images of an object have the same user buffers unless an exception came
out of the patching of one of them, and again once a call returns. The comment in
`applyInputOutput` (`vpux_hpi.cpp:417-418`) promises the same relocation for all copies
without exception. The code does not keep that: without `HalfPatched`, `ReplicasAgree`
is violated in three calls, by a 37XX network on one tile that is built, loaded, and whose
first inference throws in the first loader.

Only 40XX networks on more than half of the tiles ask the driver for scratch that
is shared (`SharesScratch`), and these have one loader; that is why
`updateSharedScratchBuffers`, which reaches only the first loader, keeps replicas
in agreement about scratch (`ReplicasAgree`). Runtime symbol tables are made per tile, and the
performance metrics buffer is shared by copies.

Assumptions. The client does not call `load()` again once there is a parsed
inference (`ReloadsLoaded = FALSE`), and copies only objects that are ready. With
`ReloadsLoaded = TRUE` `MapsOwnImages` is violated: on 37XX the second call frees
the entries before the loader refuses it. In `hpi` the client assigns only to
objects without loaders (moved-from ones); `AssignsLoaded` lifts this in
`hpi_assign`. `VPU_MAX_TILES` comes from the firmware headers (2 and 6).

## 5. Writer

| Code | Model |
|---|---|
| `m_sections` with header, `m_data`, write offset, symbols or relocations | `sections` |
| `m_sectionHeaders`, `m_totalBinarySize` | `headers`, `total` |
| the entries in `m_data` of symbol and relocation sections | `written` |
| the storage | `file`: which byte of what was written at an offset last |
| `addSymbolSection`, `addRelocationSection`, `addEmptySection`, `addBinaryDataSection`, `addSymbolEntry`, `addRelocationEntry` with the setters of what they return | the `Add...` actions |
| `setSectionToPatch` with `setSymbolTable` or `setSpecialSymbolTable` | `SetSymbolTable`, `SetSpecialSymbolTable` |
| `st_info`, `r_info` and what packs them | `elf64STInfo`, `elf64RInfo`, ...; `Packed` when a relocation is written |
| `prepareWriter` | `StartPrepare`, `FinalizeSection`, `StartLayout`, `LayoutSection` |
| client's allocation, `setSectionsStartAddr`, `appendData` | `Allocate`, `SetSectionsStartAddr`, `AppendData` |
| `generateELF` | `StartGenerate`, `SerializeSection`, `WriteHeaders` |

Sizes are in units; the ELF header and a section header have the same size, as in
ELF64 (64 bytes), which is why the headers may be written right behind the ELF
header although the layout aligns their offset. All sections but the first and all
symbols but the first have names. `r_info` has 64 relocation types instead of
2^32. A relocation section may be added before or after the table and the section
it refers to. `VPU_RT_SYMTAB` is an index beyond all sections, as in the file.

Assumptions: `prepareWriter` is called once and
nothing is added afterwards; start addresses are set after it; by then a relocation
section has a section to patch (its `finalize` dereferences it) and either a table
or the runtime's; a relocation uses a symbol of its section's table or a runtime
symbol; symbols are related to data sections. `appendData` may come before or after `generateELF`
and is refused beyond the section's size.

## 6. Serialization

`Serialization` follows one struct from the compiler to the driver: `Measure` and
`Resize` are `calculateBufferSize` and the allocation, `SerializeElement` an
iteration of `serialize`, `StartDeserialize`, `DeserializeElement` and
`EndDeserialize` are `deserialize`. A unit of the buffer says which unit of which
item or descriptor it holds, so reading anything else than was written there as a
whole shows. `Deliver` gives the buffer to a driver with a struct of its own, of
any elements, and may cut off its end. A throw ends the run in `short` (while
writing) or `refused` (while reading; the half-filled struct is dropped by
`MetadataSerialization::deserialize`). Items are identified, not valued. 64-bit
overflow of a descriptor's fields is left out: descriptors are those `serialize`
writes.

## 7. Relocation

`VPUXLoader` reduces a relocation section to the value it writes. `Relocation`
takes one section's buffer and looks at the bits. A word is the set of its one
bits; the operators of C are set operations and the arithmetic of their width is
defined on them (`WordArithmetic` of `MCRelocation` compares it with that of the
naturals). Each of the 27 functions is a definition of the function's name, and
`relocationMap` the table from types to them.

| Code | Model |
|---|---|
| the buffer of the section, the addresses of the others | `mem`, `base` |
| the entries and the symbols of the blob | `blob` |
| `applyRelocations` after a reload | `applyRelocations`, `RelocEntry`, `RelocDone` |
| `applyJitRelocations` | `applyJitRelocations`, `JitEntry`, `JitDone` |
| the checks of an entry | `EntryRefused` |

A refused entry throws after those before it have been written; a later call
starts over. `FollowsFormulas` compares with the formulas in the comments of
`vpu_extensions.hpp`, written a second time as which bit of S + A goes to which bit
of the destination (`Formula`), literally: where a formula looks like a slip of the
pen it is not corrected.

`BlobsAssumption` states what the loader takes for granted of a blob: entries lie
whole inside the section, symbol indexes inside the table (the check admits one
more), and JIT entries are of types that overwrite their field. `Documented` is the
set of types whose formula is compared. Five are not in it, because code and
formula differ (`Differing`; lines are those of `vpu_extensions.hpp`):

- `R_VPU_DISP40_RTM` (32): the formula clears the low 40 bits of the destination first,
  the code ORs into them;
- `R_VPU_DISP4_MULTICAST_OFFSET_CMP` (80): the formula masks the offset with 0xf, the
  code writes whether it is not 0;
- `R_VPU_LO_21_RSHIFT_4` (125): the formula assigns, the code keeps the upper 11 bits;
- `R_VPU_16_LSB_21_RSHIFT_5_LSHIFT_16` (145): the formula assigns to `Dst[13:15]`, the
  code patches bits 16 to 31;
- `R_VPU_32_BIT_OR_B21_B26_UNSET_LOW_16` (161): the formula has the logical
  `&& 0xFFFF`, whose result is 0 or 1, the code the bitwise `&`.

With any one of them in `Documented`, `FollowsFormulas` is violated by a single entry. For
all others function and formula are proved equal (section 10), with
one proviso: `R_VPU_64_LSHIFT` by 64 bits or more, which C leaves undefined and the
model takes modulo 64. `R_VPU_64_BIT_OR_B21_B26_UNSET` uses a mask of 32 bits, so the
upper half of S + A is dropped; the formula is read the same way.

## 8. Reader

`Reader` goes down from `Reader::getSection` to the bytes of the file. Bytes are
named by their offset, so a buffer holds an interval of offsets or garbage.

| Code | Model |
|---|---|
| the file; kind, emplacement and factory of the AccessManager | `file`, `mgr` |
| `mSectionHeaders`, `mSectionsCache`, `mDataBuffer` | `table`, `cache`, `data` |
| the `ManagedBuffer`s: kind, address, room, lock, owners | `bufs` |
| the user buffer descriptors of the loader | `users` |
| the stream's failbit | `failed` |
| the call each thread is in | `thr` |
| constructor of `Reader` | `ReadHeader`, `ReadTable`, `ReadNames` |
| the loop of the `VPUXLoader` constructor, `earlyFetchIO`, `registerUserIO` | `RegisterSection` |
| `getData`, `getDataBuffer` | `getData`, `getDataBuffer`, then `readInternal`, `CopyIn`, `Publish`, `Done` |
| end of `load()` | `LoadDone` |

The owner thread constructs and loads; from `LoadDone` on other threads use the
same `Reader` through copies. Nothing in the code is locked, so the interesting
properties, `PointersLive` and `CacheSettled`, rest on what was read before: the
constructor enters every section into the cache, and `load()` reads every table
that copies ask for. With `SharesScratch = TRUE` it does not, and `PointersLive` is
violated: two copies fill one cache entry, and the second destroys the buffer the
first is using. `loader_accessor` reports the same omission from another side.

Assumptions: a driver's buffer is aligned and as large as requested; offsets do not
wrap at 2^64; a stream that fails once stays failed and delivers nothing.

## 9. Runs

The loader runs use `MCVPUXLoader`, which defines two whole blobs (relocation sections after
and before their targets; an accumulating relocation; a read-only section that
only a JIT relocation targets; a section that stays shared; scratch and CMX
symbols) and twelve small ones, two of them whole and ten refused at each throw.

| Run | Checks | Shows |
|---|---|---|
| `loader` | `Isolation`, `ImageCorrect`, `RegisteredOnce`, `LockContract`, `NoDanglingRead`, `ImageStable` | two loaders, one failing allocation and a second `load()`, two runtime symbol tables, two sets of user buffers |
| `loader_calls` | `TypeOK`, `ImagesPristine`, `LocksHaveHolders`, `CallsEnd`, `ImplementsLinkedImages` | every refused blob and two whole small ones, scratch supplied late and twice, failing allocations and reads: every call ends, no throw leaves a lock, each loader behaves as a value of its own |
| `loader_accessor` (violation) | `NoDanglingRead` | with shared scratch, relocation data is read after `load()` |
| `loader_empty_scratch` (violation) | `RelocatesWithScratchOnly` | a copy relocates while scratch is empty |
| `loader_locks` (violation) | `LockContract` | with managed CPU-only buffers, two copies lock one backup |
| `relocations` | `TypeOK`, `NeighboursKept`, `LastInferenceWins`, `FollowsFormulas` | each type alone, packed registers, refused entries, under three passes of reloads and inferences; 22 types follow their formula |
| `reader` | `TypeOK`, `PointersLive`, `WellPlaced`, `UserBuffersKnown`, `DeliversSection`, `LockedWhileCopied`, `CacheSettled` | whole, cut and refused files behind every kind of access manager, two threads, a failing stream |
| `hpi` | `TypeOK`, `MapsOwnImages`, `RunApart`, `TablesMatchTiles`, `ReplicasAgree`, `ParallelFits` | two objects, networks for one and all tiles of both architectures, refused ones, two sets of user buffers, failures half way |
| `hpi_assign` (violation) | `MapsOwnImages` | assignment to a loaded object starts the old network |
| `writer` | `TypeOK`, `ReadsBack`, `LayoutSound`, `EverythingFits`, `RelocationsFindSymbols` | every file of up to three client sections, symbols added in order of binding |
| `writer_symbols` (violation) | `RelocationsFindSymbols` | a local symbol behind a global one shifts indexes |
| `serialization` | `TypeOK`, `BufferSuffices`, `ReadsWhatWasWritten`, `AdditionsAccepted` | every pair of structs of up to three elements, vectors of up to two items, 0, 1 or 5 units lost |

Bounds. Two loaders are enough for every property about a pair; `loader_locks`
needs a source and two copies. `MaxLoads = 2` allows one failed call and its retry,
`MaxFaults = 1` the failure. Ten sections hold the smallest blob in which
accumulation, section-order independence, JIT-only targets and sharing occur
together. Symmetry over loaders is used where no temporal property is checked. `loader_calls`
(114,000 states, two minutes) has blobs of six sections, so that liveness and
refinement can be checked with two scratch sets.
In `relocations` (17,600 states) three passes are a reload, an inference and another of
either kind; addresses have multicast bits, lie beyond 4 GB, and one is all ones but
for its low bits; a buffer of 8 bytes holds one 64-bit register or fields of two
32-bit ones.
In `reader` (1.2 million states) files end at each boundary that is checked, one byte
short for the last section; two heap addresses are off the default alignment of 64 and
off the largest one; four buffers are room for two threads with two each.
In `hpi` (264,000 states) two objects suffice for every property about a pair; two sets
of user buffers are old and new ones; `MaxIds = 9` is room
for a loaded pair of replicas and a copy of it, with a failed call before. In `writer`
(1.3 million states) three
client sections are a table, its relocations and a data section, or data sections
around one without data; sizes 0, 2, 3 and alignments 0 and 8 give sections that
take no space, padding and none, and header sizes smaller than the alignment.
In `serialization` three elements are a first, a middle and a last one; items of
size 1 and 3 need padding before the next descriptor (alignment 2). A loss of 1
may be padding or data, one of 5 also reaches a descriptor. All of these may stop
(an object that is never used, a finished file), so deadlock is not checked there;
it is in the loader runs.

Fairness. `FairSpec` has weak fairness of each loader's own steps: each call runs
in its caller's thread and the code waits for no other thread (locks are counters
of the driver, not mutexes).

The violations are disagreements between a comment and the code; each is
described under `findings` in `PROJECT.json`.

## 10. Proofs

`VPUXLoaderSafety` holds lemmas about the operators, the type invariant and the
inductive invariant of sharing, for every set of blobs, any number of loaders and any
driver behaviour the constants allow:

- `TypeCorrect`: `Spec => []TypeOK`;
- `LoadersIsolated`: `Spec => []Isolation`;
- `BackupsPristine`: `Spec => []ImagesPristine`;
- `InductiveInvariant`: `Spec => [](TypeOK /\ SharingIInv)`, from which they follow.

The argument. `Isolation` talks of finished entries only and is not inductive: a
section gets the reader's buffer in `loadBuffers`, long after the relocation
sections were seen. `SharingIInv` carries the fact across: while the loop over the
sections runs, every relocation section before the position is registered
(`RegisteredInv`); while `updateSharedBuffers` runs, the targets of the vector up
to the position are not shared; once it is through, no target is
(`SharingInv`); an entry with the reader's buffer is shared, processed, read-only
and no target (`EntryInv`); a loader that is not loaded is alone, so nobody else
registers sections meanwhile (`AloneInv`). `ImagesPristine` needs the same facts:
a relocation writes to its target's entry (`PatchInv`), which is therefore the
loader's own buffer, and a reload writes only to entries that are not shared
(`ControlInv`). The assumptions used are those named in the modules; TLC evaluates
them in every run.

`VPUXLoaderLocks` is about what loaders that are called at the same time do to each
other:

- `NoLockLeaks`: `Spec => []LocksHaveHolders`;
- `LocksNeverNest`: `~ManagedBackups => (Spec => []LockContract)`;
- `ImagesStable`: `Spec => ImageStable`, an action property;
- `ReadsNeverDangle`: `~DriverSharesScratch => (Spec => []NoDanglingRead)`;
- `LockInvariant`: `Spec => [](TypeOK /\ LockIInv)`.

The argument. A counter is the number of loaders that hold the lock, a finite set of
them (`HoldersInv`), and a loader holds the locks that its program counter says. So
that a lock is taken and released on the same buffer, nothing may replace the entry
in between: an absent loader owns nothing (`AbsentInv`), a processed section has a
buffer and once the buffers are loaded all are processed (`ProcessedInv`), and the
entry of the backup map that a reload copies from exists and holds the shared backup
buffer or one of the loader's own (`BackupInv`). With `SharingIInv`, two loaders then
lock the same buffer only if it is a backup. `ImageStable` follows because a step of
another loader writes to that loader's own buffers or to a backup; the Reader's buffers,
which copies share, are only filled while there is a single loader (`AloneInv`). For `NoDanglingRead`, `CacheInv` says which sections
the reader has cached at each stage of `load()`: every one that later calls look at.
Its hypothesis and that of `LockContract` are needed: `loader_accessor` and
`loader_locks` show the violations without them.

`VPUXLoaderImages` shows what the loader is for:

- `RelocationsRegisteredOnce`: `NoRetriedRead => (Spec => []RegisteredOnce)`;
- `ImagesCorrect`: `NoRetriedRead /\ JitOverwrites => (Spec => []ImageCorrect)`;
- `LoadersAreLinkedImages`: `NoRetriedRead /\ JitOverwrites => (Spec => ImplementsLinkedImages)`.

The argument. `OnceInv`: sections are registered in ascending order while the loop
runs; a `load()` that threw after it registered some has left an entry on which the
next call stops (`Doomed`), before it registers again what would count. A read that
throws is the exception, hence `NoRetriedRead`: reads do not fail, or `load()` is called
once. `SourceInv`: what a reload restores from, and what is shared, has been read.
`StageInv` says of each buffer and each relocation section what that section has
written into it so far, from the stage of the call and the position in its vector; at
the stage "between calls" this is `ImageCorrect`. `JitOverwrites` says of the blobs that
a JIT relocation section has no accumulating type (`OR`, `SUM`): an inference patches
its user buffers over those of the one before without a reload between. For the
refinement each action is shown to be the begin, the end or the failure of one
loader's call, or a stutter: `OpInv` relates the operation to the program counter,
`SuppliedInv` says which scratch memory a loader has, and `ValueOK` reads the abstract
value off them case by case; `ImageCorrect` says that the value a call ends in is
linked, so that it is a `Return`.

`WriterProofs` shows, for any number of sections, sizes and alignments:

- `WriterTypeCorrect`: `Spec => []TypeOK`;
- `LayoutIsSound`: `Spec => []LayoutSound`;
- `GenerateFits`: `Spec => []EverythingFits`;
- `WriterInvariant`: `Spec => [](TypeOK /\ LayoutIInv)`, from which they follow;
- `WhatIsWrittenReadsBack`: `Spec => []ReadsBack`;
- `RelocationsLeadToSymbols`: `Spec => []RelocationsFindSymbols`, if `LocalsFirst`.

The argument. `LayoutSound` is about headers and is kept by the loop because each
section is placed at or behind `total`, behind which nothing has been placed:
`alignUp` returns no less than it is given and a multiple of the alignment
(`AlignUpFacts`). The steps before the layout must hand over sections without an
offset (`UnplacedInv`). `EverythingFits` compares the length of `m_data` with a
layout made from the sizes in the headers: `DataInv` says that the two agree but
for a string table without strings, whose one byte at offset 0 is inside the file
because the headers are (`ProgressInv`); `HeaderInv` says that only sections that
take space have an offset. The proof uses that the two header sizes are equal and
positive, and of the bounds that `MaxSections` is at least the three sections of the
constructor. Linking and packing concern neither sizes nor offsets (`LinkedFinishes`).

`ReadsBack` speaks of the finished file only. `FileInv` says during `generateELF` that
every section copied so far is in its place unit by unit; the next copy, or the headers,
cannot overwrite it because `LayoutSound` keeps their places apart. `appendData` may
come at any time after the layout, so `FileInv` is about sections whose data is
there to be copied.

A relocation is packed in `finalize` with the index its symbol has then, so the proof
follows two things. `LinksInv`: what the client linked stays as it was, through later
additions (sections keep their kind and index, tables only grow), and each entry's
`r_info` unpacks to what was asked for. `EntriesInv`: what `prepareWriter`'s first
loop has written of a section is what the section held. The order of `finalize` is that
of the sections: a table may be sorted before or after the relocations that refer to it
are packed, and leads them astray unless the sort moves nothing. `LocalsFirst` (symbols
come in the order of their bindings, as the ELF format has them) says that it does not:
the rank of a symbol is then its index. The hypothesis is needed:
`writer_symbols` shows the violation without it.

`SerializationProofs` shows, for structs of any number of elements and any sizes:

- `SerialTypeCorrect`: `Spec => []TypeOK`, in which the descriptor at hand is one;
- `SerializeFits`: `Spec => []BufferSuffices`;
- `SerialReadsWhatWasWritten`: `Spec => []ReadsWhatWasWritten`;
- `SerialAdditionsAccepted`: `Spec => []AdditionsAccepted`;
- `SerialInvariant`: `Spec => []IInv`, from which the first two follow.

The argument. The size is a sum over the elements, which the prover cannot unfold
as a recursive definition; `RoomInv` says instead that there is a table of partial
sums, extended by each `Measure`. All sums are multiples of the alignment, so
aligning an offset that is at most such a sum stays at most it (`AlignUpFacts`),
and `RoomForElement` carries `offset <= p[pos]` over a step. `CellInv` says that the buffer
holds nothing but what elements with a descriptor wrote.

What a driver reads needs the opposite, that all of it is there. `ChainInv` says of each
descriptor where it and its items lie, that the next one is behind them and that, as far
as the buffer goes, every unit holds what was written: what `serialize` writes for an
element lies at or behind `offset`, so it disturbs no earlier one. `DriverInv` says that
the driver has the descriptor of its next element in hand, or none when the
compiler knew fewer, and that each element behind it got all its items or the default. A
check in `deserialize` that passes is what puts the whole of the items into the
buffer (`ItemBytes` is the arithmetic of their places), and one that fails means that the
buffer was cut or that an element changed its kind or size, which is `AdditionsAccepted`.

`RelocationProofs` shows, for every blob, any addresses and any number of passes:

- `RelocationTypeCorrect`: `Spec => []TypeOK`;
- `RelocationKeepsNeighbours`: `Spec => []NeighboursKept`;
- `RelocationLastInferenceWins`: `Spec => []LastInferenceWins`;
- `RelocationFollowsFormulas`: `Spec => []FollowsFormulas`, if `Conforms`.

The argument. Each of the 27 functions is shown to stay inside its word and to change
nothing but its field (`ResultFacts`), and those of the JIT types to give a field that
does not depend on what it held (`OverwritingFacts`); from these follows what one entry
does to the whole buffer (`RelocateFacts`). `LoopOK` relates the loops' position to the
phase. `BlobsAssumption` is used for the place of an entry and for the types of JIT
entries: a JIT entry of an accumulating type would add to the inference before.

`FormulaFacts` compares each function with the formula of its type bit by bit: on every
word, symbol, size and addend they are equal, for all types but the five of section 7
(`Conform`).
What the formulas make of the image is a recursive function of the position (`Patched`)
and a shift count is the number of a word, a fold; that such functions exist is shown by a least counterexample (`PatchedFacts`, `NumberType`), since the library's
induction theorems cannot be instantiated. `Follows` says how far the loops are:
during a reload the buffer is the formulas' image up to the position; afterwards it is
that image outside the JIT fields whatever inferences ran or failed; during an inference it
is the inference's image where its entries have been. At the end of a pass every JIT field
has been, which gives `FollowsFormulas`. `Conforms` says that the formulas compared are
those of conforming types and that no blob shifts by 64 bits or more; the constants of
`relocations` meet it.

`ReaderProofs` shows, for every file, every AccessManager and any number of threads:

- `TypeCorrect`: `Spec => []TypeOK`;
- `LocksOnlyWhileCopying`: `Spec => []LockedWhileCopied`;
- `BuffersWellPlaced`: `Spec => []WellPlaced`;
- `UserBuffersFound`: `Spec => []UserBuffersKnown`;
- `CacheUndisturbed`: `Spec => CacheSettled`;
- `PointersStayGood`: `~SharesScratch => (Spec => []PointersLive)`;
- `SectionsDelivered`: `~SharesScratch => (Spec => []DeliversSection)`;
- `ReaderInvariant` and `SharedReaderInvariant`, from which they follow.

The argument. A buffer that a call fills, or has returned to its caller, is owned by that
call, and one in `mDataBuffer` by its section alone (`OwnedInv`), so calls of different
threads do not touch each other's buffers; each lock and each place is then
a matter of one thread. The constructor caches every header before anybody else may
call (`CacheInv`), and meets each table of user buffers (`UsersInv`). Pointers and
contents need more: once the Reader is shared every table is in `mDataBuffer`
(`SharedInv`), so that no thread replaces a buffer that another one reads, and every
buffer holds the section asked for (`FilledInv`). That is why both have the hypothesis that
`load()` reads every table: `~SharesScratch` (section 8). That a buffer fits behind the
next aligned address is arithmetic of its own, proved as lemmas about the alignment.

`HostParsedInferenceProofs` shows, for every set of networks and any number of objects:

- `TypeCorrect`: `Spec => []TypeOK`;
- under `Tame`: `RunsApart` (`RunApart`), `ImagesMapped` (`MapsOwnImages`), `TablesMatch`
  (`TablesMatchTiles`), `ReplicasHaveTheSame` (`ReplicasAgree`) and `ParallelHasRoom`
  (`ParallelFits`), each as `Tame => (Spec => []...)`;
- `ObjectInvariant`: `Spec => []HInv`, from which they follow.

The argument. Every loader has one owner, no parsed-inference or entries buffer is a
loader's, and no two runnable objects need the same buffer (`ApartInv`): moves hand
ids over, everything else draws fresh ones (`IdsInv`). An object is `Sound` when its
loaders are images of its network with the table of their tiles, agree on user buffers
or have one that is `Broken` (`Alike`), and the buffers that the firmware starts from
lead to them; a call that throws half way in a replica leaves that one `Broken`, and the
next that returns leaves none. Each call is shown to
change one object, or to move from one to another, to leave the others' buffers alone
(so they stay sound, by `ApartInv`), and to leave its own object sound or not ready;
the last step is the only one that needs the client to be `Tame`:
neither `AssignsLoaded` nor `ReloadsLoaded`. Both are needed: `hpi_assign` shows the
violation by an assignment, section 4 the one by a second `load()`.

`HistoryAssumption`, `ScratchNamesAssumption` and `SectionAssumption` keep names apart
that only the models have: the value "no user buffers", the marks of scratch sets and
the section as an owner of its buffer.

Only model-checked: `CallsEnd`, since liveness is out of the prover's reach, and
`WordArithmetic` of `MCRelocation`, which compares the arithmetic on sets of bits with
that of the naturals over small words. `CallsEnd` and the refinement are checked in
`loader_calls` with failing reads and retried loads as well, for the blobs of that run.

## 11. Not modelled

- Getters, which change no state (`getBuffersForAllEntries`, `getSectionsOfType`,
  versions and sizes of the library, the contents of metadata structs).
- What the driver does with memory it is given back: deallocation, and the buffer
  an `AllocatedDeviceBuffer` forgets in `resetBuffer`; a driver whose `copy` or
  `lock` throws, or that returns more than it was asked for.
- A failing allocation while one `VPUXLoader` is assigned to another, and a failing read
  for a backup buffer.
- 64-bit wrap of file offsets and 16-bit wrap of section counts: files of the models
  are small.
- Of the writer: the contents of strings, symbols' values and sizes, relocation
  offsets and addends, addresses and flags, which are copied through; `expandData`,
  which has no user; a second `prepareWriter`.
- Logging, error texts, formatting and parsing of versions.
- The FlatBuffers schemas (data declarations of another format), the examples and
  the build.
