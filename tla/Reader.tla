------------------------------- MODULE Reader -------------------------------
(***************************************************************************)
(* Reader and what lies below it: an AccessManager over memory (DDR) or a   *)
(* file (FS), its buffer factory, and the ManagedBuffers it hands out.      *)
(* VPUXLoader builds one Reader, caches every Section while it constructs,  *)
(* reads the tables it needs later while it loads, and from then on shares  *)
(* the Reader with its copies, which call it from threads of their own.     *)
(* Nothing in the Reader is locked.                                         *)
(*                                                                          *)
(* Bytes are named by their offset in the file, so that what a buffer holds *)
(* is an interval of offsets.                                               *)
(***************************************************************************)
EXTENDS Integers, FiniteSets

CONSTANTS
    Files,          \* the files of the instance
    Managers,       \* configurations of the AccessManager
    Threads,        \* the threads that use the Reader
    Owner,          \* the one that constructs and loads
    SharesScratch,  \* load() leaves ordinary relocations to a later call
    HeapAddrs,      \* addresses that the heap may return
    MaxBuffers,     \* bound: buffers alive at once
    MaxFaults       \* bound: failing operations of the file stream

EhdrSize == 64
ShdrSize == 64
mDefaultSafeAlignment == 64

SectionTypes == {"SHT_NULL", "SHT_PROGBITS", "SHT_NOBITS", "SHT_RELA", "SHT_SYMTAB",
                 "SHT_STRTAB", "VPU_SHT_CMX_METADATA", "VPU_SHT_CMX_WORKSPACE"}

\* VPU_SHF_USERINPUT, VPU_SHF_USEROUTPUT and VPU_SHF_PROFOUTPUT.
UserKinds == {"input", "output", "profiling"}

\* jit: VPU_SHF_JIT; io: the flag that earlyFetchIO finds first; npu: hasNPUAccess.
Shdr == [type : SectionTypes, offset : Nat, size : Nat, entsize : Nat, align : Nat,
         jit : BOOLEAN, io : UserKinds \cup {"none"}, npu : BOOLEAN]
NullShdr == [type |-> "SHT_NULL", offset |-> 0, size |-> 0, entsize |-> 0, align |-> 0,
             jit |-> FALSE, io |-> "none", npu |-> FALSE]

\* size is the length of the file; the rest is in its ELF header, and the table at shoff.
File == [size : Nat, magic : BOOLEAN, shentsize : Nat, shoff : Nat, shnum : Nat,
         shstrndx : Nat, table : [Nat -> Shdr]]
Manager == [kind : {"DDR", "FS"}, emplace : {"standard", "never", "always"},
            factory : {"allocated", "dynamic", "hybrid"}, blob : Nat]

ASSUME ThreadsAssumption == Owner \in Threads /\ SharesScratch \in BOOLEAN
\* A section's mDataBuffer owns buffers under a name of its own.
ASSUME SectionAssumption == "section" \notin Threads
ASSUME BoundsAssumption == MaxBuffers \in Nat /\ MaxFaults \in Nat
ASSUME FilesAssumption ==
    \A f \in Files : /\ {f.size, f.shentsize, f.shoff, f.shnum, f.shstrndx} \subseteq Nat
                     /\ DOMAIN f.table = 0 .. f.shnum - 1
                     /\ \A s \in DOMAIN f.table : f.table[s] \in Shdr
ASSUME ManagersAssumption == Managers \subseteq Manager /\ HeapAddrs \subseteq Nat

VARIABLES
    file,     \* the file, and how it is accessed
    mgr,
    phase,    \* where the Reader and the loader around it are
    table,    \* mSectionHeaders
    users,    \* per kind of user buffer: how many descriptors the loader has
    cache,    \* mSectionsCache: the sections that have an entry
    data,     \* per section: the buffer in mDataBuffer, or 0
    bufs,     \* the ManagedBuffers
    thr,      \* per thread: the call it is in
    failed,   \* the file stream's failbit, which nothing clears
    faults

vars == <<file, mgr, phase, table, users, cache, data, bufs, thr, failed, faults>>

-----------------------------------------------------------------------------
(* Buffers *)

BufIds == 1 .. MaxBuffers
Secs == 0 .. file.shnum - 1

Nothing == [from |-> 0, len |-> 0, garbage |-> TRUE]
NoBuf == [kind |-> "none", addr |-> 0, room |-> 0, size |-> 0, align |-> 0,
          holds |-> Nothing, lock |-> 0, owners |-> {}]

\* value && ((value & (value - 1)) == 0): no odd divisor but 1.
isPowerOfTwo(n) == n # 0 /\ \A d \in 2 .. n : d % 2 = 1 => n % d # 0
alignUp(n, a) == IF n # 0 /\ a # 0 THEN ((n + a - 1) \div a) * a ELSE n

\* StaticBuffer: what lies in memory at the address, up to the end of the blob.
StaticBuffer(h) ==
    [NoBuf EXCEPT !.kind = "static", !.addr = mgr.blob + h.offset, !.size = h.size,
                  !.room = file.size - h.offset, !.align = h.align,
                  !.holds = [from |-> h.offset, len |-> h.size, garbage |-> FALSE]]

\* DynamicBuffer: a vector with room to align the start.  Its last two checks, that the
\* aligned buffer lies in the vector, never fail: that is what WellPlaced says.
\* Faulty variant: the requested alignment is not looked at.
bufferAlignmentDefault(h) == mDefaultSafeAlignment
bufferAlignment(h) ==
    IF h.align < mDefaultSafeAlignment THEN mDefaultSafeAlignment ELSE h.align
DynamicBuffer(h, base) ==
    LET capacity == alignUp(h.size, mDefaultSafeAlignment) + bufferAlignment(h)
        aligned == alignUp(base, bufferAlignment(h))
    IN [NoBuf EXCEPT !.kind = "dynamic", !.addr = aligned, !.size = h.size,
                     !.room = base + capacity - aligned, !.align = h.align]

\* AllocatedDeviceBuffer: the driver's memory, aligned as requested.
AllocatedDeviceBuffer(h) ==
    [NoBuf EXCEPT !.kind = "device", !.size = h.size, !.room = h.size, !.align = h.align]

\* DDR*Emplace::canEmplace.  A file is never emplaced.
canEmplace(h) ==
    /\ mgr.kind = "DDR"
    /\ \/ mgr.emplace = "always"
       \/ /\ mgr.emplace = "standard"
          /\ h.align # 0 => isPowerOfTwo(h.align) /\ (mgr.blob + h.offset) % h.align = 0

\* getAllocatedBuffer of the factory; npu says whether the flags ask for NPU access.
FromDriver(npu) == mgr.factory = "allocated" \/ (mgr.factory = "hybrid" /\ npu)

\* The checks of readInternal and readExternal.
InBounds(offset, size) == offset + size <= file.size

\* hasMemoryFootprint, and the condition in getDataBuffer.
hasMemoryFootprint(t) == t \notin {"SHT_NOBITS", "VPU_SHT_CMX_METADATA", "VPU_SHT_CMX_WORKSPACE"}

-----------------------------------------------------------------------------
(* Reader(bufferManager, accessor), and the loop of VPUXLoader's constructor *)

Idle == [pc |-> "idle", call |-> "none", sec |-> 0, buf |-> 0, npu |-> FALSE]

Init ==
    /\ file \in Files /\ mgr \in Managers
    /\ phase = "header"
    /\ table = << >> /\ cache = {} /\ data = << >>
    /\ users = [k \in UserKinds |-> 0]
    /\ bufs = [b \in BufIds |-> NoBuf]
    /\ thr = [t \in Threads |-> Idle]
    /\ failed = FALSE /\ faults = 0

HeaderAccepted ==
    /\ InBounds(0, EhdrSize)
    /\ ~failed /\ file.magic
    /\ file.shentsize = ShdrSize /\ file.shoff >= EhdrSize
    /\ file.shnum # 0 /\ file.shstrndx < file.shnum

\* A header that could not be read is what the memory held before: no ELF header.
ReadHeader ==
    /\ phase = "header"
    /\ phase' = IF HeaderAccepted THEN "table" ELSE "refused"
    /\ UNCHANGED <<file, mgr, users, table, cache, data, bufs, thr, failed, faults>>

\* The vector is zeroed before it is read into.
ReadTable ==
    /\ phase = "table"
    /\ \/ ~InBounds(file.shoff, file.shnum * ShdrSize) /\ phase' = "refused" /\ UNCHANGED <<table, data>>
       \/ /\ InBounds(file.shoff, file.shnum * ShdrSize)
          /\ phase' = "names"
          /\ table' = IF failed THEN [s \in Secs |-> NullShdr] ELSE file.table
          /\ data' = [s \in Secs |-> 0]
    /\ UNCHANGED <<file, mgr, users, cache, bufs, thr, failed, faults>>

ReadNames ==
    /\ phase = "names"
    /\ LET h == table[file.shstrndx] IN
       phase' = IF file.shstrndx = 0 \/ InBounds(h.offset, h.size) THEN "register" ELSE "refused"
    /\ UNCHANGED <<file, mgr, users, table, cache, data, bufs, thr, failed, faults>>

\* getEntriesNum, which throws where there are no entries of a fixed size.
getEntriesNum(h) == h.size \div h.entsize

\* Faulty variant: a second table of the same kind replaces the descriptors.
UserIOReadNever(k) == FALSE
UserIORead(k) == users[k] # 0

\* earlyFetchIO reads the symbol tables of user buffers, through a copy of the Section
\* that keeps nothing; registerUserIO makes a descriptor for each symbol but the first.
EarlyFetched(h) == h.type = "SHT_SYMTAB" /\ h.io \in UserKinds
EarlyRefused(h) == UserIORead(h.io) \/ h.entsize = 0 \/ ~InBounds(h.offset, h.size)
registerUserIO(h) ==
    IF getEntriesNum(h) <= 1 THEN users ELSE [users EXCEPT ![h.io] = getEntriesNum(h) - 1]

\* The constructor of VPUXLoader looks at every section, so each gets its entry in the
\* cache.  Faulty variant: the last section is left out.
LastRegisteredEarly == file.shnum - 2
LastRegistered == file.shnum - 1

RegisterSection ==
    /\ phase = "register"
    /\ LET s == Cardinality(cache) IN
       \/ /\ s <= LastRegistered
          /\ cache' = cache \cup {s}
          /\ \/ ~EarlyFetched(table[s]) /\ UNCHANGED <<phase, users>>
             \/ EarlyFetched(table[s]) /\ EarlyRefused(table[s]) /\ phase' = "refused" /\ UNCHANGED users
             \/ /\ EarlyFetched(table[s]) /\ ~EarlyRefused(table[s])
                /\ users' = registerUserIO(table[s]) /\ UNCHANGED phase
       \/ /\ s > LastRegistered
          /\ phase' = "loading"
          /\ UNCHANGED <<cache, users>>
    /\ UNCHANGED <<file, mgr, table, data, bufs, thr, failed, faults>>

-----------------------------------------------------------------------------
(* Calls of getData and getDataBuffer *)

\* The sections that are read with getData, and those of them that load() reads: JIT
\* relocations and symbol tables in its loop, the others when it applies them.
Tables == {s \in Secs : table[s].type \in {"SHT_RELA", "SHT_SYMTAB"}}
FetchedByLoad ==
    {s \in Tables : table[s].type = "SHT_SYMTAB" \/ table[s].jit \/ ~SharesScratch}

MayCall(t) ==
    /\ thr[t].pc = "idle"
    /\ phase = "shared" \/ (phase = "loading" /\ t = Owner)

At(t, pc, c, s, b, n) ==
    thr' = [thr EXCEPT ![t] = [pc |-> pc, call |-> c, sec |-> s, buf |-> b, npu |-> n]]

\* Faulty variant: the data is read again although it is there.
HasDataNever(s) == FALSE
HasData(s) == data[s] # 0

\* getSection(s).getData(); its callers ask for tables.
getData(t, s) ==
    /\ MayCall(t) /\ s \in Tables
    /\ cache' = cache \cup {s}
    /\ \/ HasData(s) /\ At(t, "using", "data", s, data[s], FALSE)
       \/ ~HasData(s) /\ At(t, "read", "data", s, 0, table[s].npu)
    /\ UNCHANGED <<file, mgr, users, phase, table, data, bufs, failed, faults>>

\* getSection(s).getDataBuffer(cpuOnlyAccess), which returns a buffer of its own.
getDataBuffer(t, s, cpuOnlyAccess) ==
    /\ MayCall(t) /\ hasMemoryFootprint(table[s].type)
    /\ cache' = cache \cup {s}
    /\ At(t, "read", "buffer", s, 0, table[s].npu /\ ~cpuOnlyAccess)
    /\ UNCHANGED <<file, mgr, users, phase, table, data, bufs, failed, faults>>

Free == {b \in BufIds : bufs[b].kind = "none"}
NewBuf == CHOOSE b \in Free : \A c \in Free : b <= c
Take(t, b) == [b EXCEPT !.owners = {t}]

\* readInternal: refused, emplaced, or allocated and locked.
readInternal(t) ==
    LET h == table[thr[t].sec]
        throw == thr' = [thr EXCEPT ![t] = Idle] /\ UNCHANGED bufs
        holding(b, pc) == /\ bufs' = [bufs EXCEPT ![NewBuf] = Take(t, b)]
                          /\ thr' = [thr EXCEPT ![t].pc = pc, ![t].buf = NewBuf]
    IN
    /\ thr[t].pc = "read" /\ Free # {}
    /\ \/ ~InBounds(h.offset, h.size) /\ throw
       \/ /\ InBounds(h.offset, h.size)
          /\ \/ canEmplace(h) /\ holding(StaticBuffer(h), "publish")
             \/ /\ ~canEmplace(h) /\ FromDriver(thr[t].npu)
                /\ holding([AllocatedDeviceBuffer(h) EXCEPT !.lock = 1], "copy")
             \/ /\ ~canEmplace(h) /\ ~FromDriver(thr[t].npu)
                /\ \/ ~isPowerOfTwo(h.align) /\ throw
                   \/ /\ isPowerOfTwo(h.align)
                      /\ \E base \in HeapAddrs : holding(DynamicBuffer(h, base), "copy")
    /\ UNCHANGED <<file, mgr, users, phase, table, cache, data, failed, faults>>

\* The lock guard at the end of readInternal; only device buffers count their locks.
\* Faulty variants: it does not unlock; it unlocks what was not locked.
UnlockedNever(b) == b
UnlockedAny(b) == [b EXCEPT !.lock = @ - 1]
Unlocked(b) == [b EXCEPT !.lock = IF b.kind = "device" THEN @ - 1 ELSE @]

\* memcpy, or the stream's seek and read, whose state is not looked at.
\* Faulty variant: the stream is not moved to the section.
CopiedUnsought(h) == [from |-> 0, len |-> h.size, garbage |-> failed]
Copied(h) == [from |-> h.offset, len |-> h.size, garbage |-> failed]

CopyIn(t) ==
    LET h == table[thr[t].sec]  b == thr[t].buf IN
    /\ thr[t].pc = "copy"
    /\ bufs' = [bufs EXCEPT ![b] = Unlocked([@ EXCEPT !.holds = Copied(h)])]
    /\ thr' = [thr EXCEPT ![t].pc = "publish"]
    /\ UNCHANGED <<file, mgr, users, phase, table, cache, data, failed, faults>>

\* A buffer that nobody owns any more is destroyed.
Dropped(b, who) ==
    IF b.owners \subseteq {who} THEN NoBuf ELSE [b EXCEPT !.owners = @ \ {who}]

\* mDataBuffer takes the buffer over and lets go of the one it had, or the caller of
\* getDataBuffer keeps it.
Publish(t) ==
    LET s == thr[t].sec  new == thr[t].buf  old == data[s] IN
    /\ thr[t].pc = "publish"
    /\ \/ /\ thr[t].call = "data"
          /\ data' = [data EXCEPT ![s] = new]
          /\ bufs' = [b \in BufIds |-> CASE b = new -> [bufs[b] EXCEPT !.owners = {"section"}]
                                         [] b = old -> Dropped(bufs[b], "section")
                                         [] OTHER   -> bufs[b]]
       \/ thr[t].call = "buffer" /\ UNCHANGED <<data, bufs>>
    /\ thr' = [thr EXCEPT ![t].pc = "using"]
    /\ UNCHANGED <<file, mgr, users, phase, table, cache, failed, faults>>

\* The caller is done with the pointer, or destroys its buffer.
Done(t) ==
    /\ thr[t].pc = "using"
    /\ bufs' = IF thr[t].call = "buffer" THEN [bufs EXCEPT ![thr[t].buf] = Dropped(@, t)] ELSE bufs
    /\ thr' = [thr EXCEPT ![t] = Idle]
    /\ UNCHANGED <<file, mgr, users, phase, table, cache, data, failed, faults>>

\* load() has completed: copies can be made, and used in other threads.
LoadDone ==
    /\ phase = "loading" /\ thr[Owner].pc = "idle"
    /\ \A s \in FetchedByLoad : data[s] # 0
    /\ phase' = "shared"
    /\ UNCHANGED <<file, mgr, users, table, cache, data, bufs, thr, failed, faults>>

\* The stream of an FSAccessManager fails.
StreamFails ==
    /\ mgr.kind = "FS" /\ ~failed /\ faults < MaxFaults
    /\ failed' = TRUE /\ faults' = faults + 1
    /\ UNCHANGED <<file, mgr, users, phase, table, cache, data, bufs, thr>>

Next ==
    \/ ReadHeader \/ ReadTable \/ ReadNames \/ RegisterSection \/ LoadDone \/ StreamFails
    \/ \E t \in Threads :
          \/ \E s \in DOMAIN data : getData(t, s)
          \/ \E s \in DOMAIN data, c \in BOOLEAN : getDataBuffer(t, s, c)
          \/ readInternal(t) \/ CopyIn(t) \/ Publish(t) \/ Done(t)

Spec == Init /\ [][Next]_vars

-----------------------------------------------------------------------------
(* Properties *)

\* Types of the variables.
TypeOK ==
    /\ file \in Files /\ mgr \in Managers
    /\ phase \in {"header", "table", "names", "register", "loading", "shared", "refused"}
    /\ cache \subseteq Secs /\ users \in [UserKinds -> Nat]
    /\ \A s \in DOMAIN data : data[s] \in BufIds \cup {0}
    /\ \A b \in BufIds : bufs[b].lock \in 0 .. 1 /\ bufs[b].owners \subseteq Threads \cup {"section"}
    /\ \A t \in Threads : thr[t].buf \in BufIds \cup {0}
    /\ failed \in BOOLEAN /\ faults \in 0 .. MaxFaults

Using(t) == thr[t].pc = "using"

\* A caller that has got data has all bytes of its section and nothing else, of a file
\* that has them, unless the stream failed before.
DeliversSection ==
    \A t \in Threads : Using(t) =>
        LET h == file.table[thr[t].sec]  c == bufs[thr[t].buf].holds IN
        \/ failed
        \/ ~c.garbage /\ c.from = h.offset /\ c.len = h.size /\ c.from + c.len <= file.size

\* reader.hpp:54-60, 76: whoever holds a pointer of getData can use it: its buffer is not
\* replaced or destroyed, whatever other threads call.
PointersLive ==
    \A t \in Threads : Using(t) => bufs[thr[t].buf].kind # "none" /\ bufs[thr[t].buf].owners # {}

\* managed_buffer.cpp:77-102: a CPU buffer starts where its section may start and ends
\* inside its memory (emplaced without a look at the alignment, only the latter).
WellPlaced ==
    \A b \in BufIds : bufs[b].kind \in {"static", "dynamic"} =>
        /\ bufs[b].size <= bufs[b].room
        /\ mgr.emplace # "always" /\ bufs[b].align # 0 => bufs[b].addr % bufs[b].align = 0

\* accessor.hpp:168-171: a device buffer is locked while its data is copied in, by the one
\* thread that has it, and at no other time.
LockedWhileCopied ==
    \A b \in BufIds :
        bufs[b].lock = (IF bufs[b].kind = "device" /\ \E t \in Threads : thr[t].pc = "copy" /\ thr[t].buf = b
                        THEN 1 ELSE 0)

\* vpux_loader.cpp:1136-1152: a constructed loader has a descriptor for each user buffer
\* of the file; no table of user buffers has been left out, or replaced by a later one.
UserBuffersKnown ==
    phase \in {"loading", "shared"} =>
        \A s \in Secs : EarlyFetched(table[s]) =>
            users[table[s].io] >= getEntriesNum(table[s]) - 1
            /\ \A r \in Secs \ {s} : EarlyFetched(table[r]) /\ table[r].io = table[s].io =>
                   getEntriesNum(table[s]) <= 1 \/ getEntriesNum(table[r]) <= 1

\* Once the Reader is shared nothing is inserted into the unlocked mSectionsCache.
CacheSettled == [][phase = "shared" => cache' = cache]_vars
=============================================================================
