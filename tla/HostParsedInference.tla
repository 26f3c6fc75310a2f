------------------------ MODULE HostParsedInference ------------------------
(***************************************************************************)
(* HostParsedInference: the objects a driver keeps per network and per      *)
(* inference.  Each owns VPUXLoader objects (one per tile when a 37XX       *)
(* network uses fewer tiles than there are, otherwise one), a buffer with   *)
(* copies of their entry sections, and the structure the firmware starts    *)
(* from.  Objects are copied, moved, assigned and destroyed; a call that    *)
(* throws leaves behind what it had done.                                   *)
(*                                                                          *)
(* A loader is seen here by its results only: which blob and runtime symbol *)
(* table its image was made from and what was patched in last (VPUXLoader   *)
(* has the steps).  Each call is one step: an object is used by one thread, *)
(* and what objects share is not written after load().                      *)
(***************************************************************************)
EXTENDS Integers, Sequences, FiniteSets

CONSTANTS
    Objects,         \* names for HostParsedInference objects
    Blobs,           \* compiled networks
    Configs,         \* HPIConfigs passed to the constructor
    UserIO,          \* sets of user buffers
    ScratchSets,     \* sets of scratch buffers the driver supplies
    LibraryELF,      \* per architecture: getELFLibABIVersion
    LibraryMI,       \* per architecture: getStaticMIVersion
    AssignsLoaded,   \* the client also assigns to objects that own loaders
    ReloadsLoaded,   \* the client also calls load() on loaded objects
    MaxIds           \* bound: loaders and buffers ever made

ArchKinds == {"UNKNOWN", "VPUX30XX", "VPUX37XX", "VPUX40XX"}
Supported == {"VPUX37XX", "VPUX40XX"}
Versions == [major : Nat, minor : Nat]

\* What the constructor and load() look at: number of sections of three types, the
\* versions in the notes (major 0 for no note), the slices asked for, the entry symbol.
Blob == [arch : ArchKinds, tiles : Nat, elfAbi : Versions, mi : Versions,
         netdesc : Nat, platform : Nat, perf : Nat, entry : BOOLEAN, scratch : BOOLEAN]
Config == [arch : ArchKinds, nnVersion : Versions]

ASSUME HpiBlobsAssumption == Blobs \subseteq Blob /\ Configs \subseteq Config
ASSUME HpiLibraryAssumption == /\ LibraryELF \in [Supported -> Versions]
                               /\ LibraryMI \in [Supported -> Versions]
ASSUME HpiBoundsAssumption == MaxIds \in Nat /\ AssignsLoaded \in BOOLEAN
                              /\ ReloadsLoaded \in BOOLEAN

VARIABLES
    obj,    \* per object: its members
    ldr,    \* per loader: its image
    mem,    \* per buffer: the copied entries, or the parsed inference
    next    \* loaders and buffers made so far

vars == <<obj, ldr, mem, next>>

Ids == 1..MaxIds
NoBuf == 0
NoBlob == [arch |-> "UNKNOWN"]
NoIO == "noio"
NoScratch == "noscratch"
Broken == "broken"      \* an exception came out of the patching, as in VPUXLoader
NoTable == -1
Blank == [kind |-> "blank"]

-----------------------------------------------------------------------------
(* Admission: the constructor's checks *)

\* Version::checkValidity and checkVersionCompatibility
CheckValidity(v) == v.major > 0
CheckVersionCompatibility(expected, received) ==
    /\ CheckValidity(expected) /\ CheckValidity(received)
    /\ expected.major = received.major
    /\ expected.minor >= received.minor

GetHardwareTileCount(arch) ==
    CASE arch = "UNKNOWN" -> 0 [] arch = "VPUX40XX" -> 6 [] OTHER -> 2

\* getArchTilesCount: VPU_MAX_TILES of the firmware's headers.
GetArchTilesCount(arch) == IF arch = "VPUX37XX" THEN 2 ELSE 6

\* Faulty variant: the tile count is not checked.
TilesAcceptedAlways(b) == TRUE
TilesAccepted(b) == b.tiles <= GetHardwareTileCount(b.arch)

ExpectedMI(c) ==
    IF CheckValidity(c.nnVersion) THEN c.nnVersion ELSE LibraryMI[c.arch]

Accepted(b, c) ==
    /\ c.arch \in Supported
    /\ CheckVersionCompatibility(LibraryELF[c.arch], b.elfAbi)
    /\ b.netdesc = 1 /\ b.platform = 1
    /\ b.arch = c.arch
    /\ CheckVersionCompatibility(ExpectedMI(c), b.mi)
    /\ TilesAccepted(b)

\* Faulty variant: compares with all tiles, not half of them.
MayBeRunInParallelWide(b) ==
    ~(b.tiles > GetHardwareTileCount(b.arch) /\ b.arch \notin {"VPUX30XX", "VPUX37XX"})
MayBeRunInParallel(b) ==
    ~(b.tiles > GetHardwareTileCount(b.arch) \div 2 /\ b.arch \notin {"VPUX30XX", "VPUX37XX"})

-----------------------------------------------------------------------------
(* Loaders, symbol tables and the parsed inference *)

NewLoader(b) ==
    [blob |-> b, table |-> NoTable, loaded |-> FALSE, io |-> NoIO,
     scratch |-> NoScratch, parallel |-> MayBeRunInParallel(b)]

\* VPUXLoader::load, and the copy constructors: a copy has new buffers, relocated
\* anew with its table, and neither user buffers nor supplied scratch.
LoadedWith(l, t) == [l EXCEPT !.loaded = TRUE, !.table = t]
CloneOf(l, t) == [l EXCEPT !.table = t, !.io = NoIO, !.scratch = NoScratch]

\* getSymbolTable: 37XX has a table per tile and one for all tiles; 40XX has one.
\* TileOf is the tile whose memory, FIFO or barriers a symbol of a 37XX table names.
NTabs == GetArchTilesCount("VPUX37XX") + 1
RuntimeSymbols == {"SLICE_BASE_ADDR", "RTM_IVAR", "RTM_ACT", "RTM_DMA0", "RTM_DMA1",
                   "FIFO_BASE", "BARRIERS_START"}
TileOf(table, symbol) == IF table = 1 \/ (table = 2 /\ symbol = "RTM_DMA1") THEN 1 ELSE 0
GetSymbolTable(arch, index) == IF arch = "VPUX37XX" THEN index ELSE 0
TableAccepted(arch, index) == arch = "VPUX37XX" => index <= NTabs

\* One loader for each tile, because the network may be run on any of them.
Replicated(b) == b.arch = "VPUX37XX" /\ b.tiles < GetArchTilesCount(b.arch)

\* setHostParsedInference; at is the loader, or the buffer, where entries start.  Without
\* metrics in the blob setDefaultPerformanceMetrics puts in those of the library.
SetHostParsedInference(b, where, at, count, perf) ==
    [kind |-> "hpi", where |-> where, at |-> at, count |-> count, slices |-> b.tiles,
     metrics |-> IF perf THEN "blob" ELSE "default"]

Members == [blob : Blobs \cup {NoBlob}, loaders : Seq(Ids), parsed : Ids \cup {NoBuf},
            entries : Ids \cup {NoBuf}, perf : BOOLEAN, ready : BOOLEAN]
NoObject == [blob |-> NoBlob, loaders |-> << >>, parsed |-> NoBuf, entries |-> NoBuf,
             perf |-> FALSE, ready |-> FALSE]
Image == [blob : Blobs, table : {NoTable} \cup Nat, loaded : BOOLEAN,
          io : UserIO \cup {NoIO, Broken},
          scratch : ScratchSets \cup {NoScratch, Broken}, parallel : BOOLEAN]
Exists(o) == obj[o] # NoObject
Ready == {o \in Objects : obj[o].ready}
Front(o) == obj[o].loaders[1]
Owned(o) == {obj[o].loaders[i] : i \in 1..Len(obj[o].loaders)}

\* Loaders die with the object that owns them, buffers with the last one that holds them.
Surviving(images) ==
    [x \in Ids |-> IF \E o \in Objects : x \in Owned(o)' THEN images[x] ELSE Blank]
Held(buffers) ==
    [x \in Ids |-> IF \E o \in Objects : x \in {obj'[o].parsed, obj'[o].entries}
                   THEN buffers[x] ELSE Blank]

Init ==
    /\ obj = [o \in Objects |-> NoObject]
    /\ ldr = [x \in Ids |-> Blank]
    /\ mem = [x \in Ids |-> Blank]
    /\ next = 0

-----------------------------------------------------------------------------
(* Construction and load *)

\* A constructor that throws leaves no object.
Construct(o, b, c) ==
    /\ ~Exists(o) /\ next < MaxIds
    /\ Accepted(b, c)
    /\ obj' = [obj EXCEPT ![o] = [NoObject EXCEPT !.blob = b, !.loaders = <<next + 1>>]]
    /\ ldr' = [ldr EXCEPT ![next + 1] = NewLoader(b)]
    /\ next' = next + 1
    /\ UNCHANGED mem

MayLoad(o) == obj[o].loaders # << >> /\ (ReloadsLoaded \/ obj[o].parsed = NoBuf)

\* One loader: the table is chosen by the slice count, the entry used in place.
\* The end is that of load(): perfMetrics is read after the struct is allocated.
LoadSingle(o) ==
    LET b == obj[o].blob
        perf == b.perf = 1
    IN  /\ MayLoad(o) /\ ~Replicated(b) /\ next < MaxIds
        /\ ~ldr[Front(o)].loaded /\ b.entry
        /\ TableAccepted(b.arch, b.tiles)
        /\ ldr' = [ldr EXCEPT ![Front(o)] = LoadedWith(@, GetSymbolTable(b.arch, b.tiles))]
        /\ obj' = [obj EXCEPT ![o].parsed = next + 1, ![o].perf = perf,
                              ![o].ready = b.perf <= 1]
        /\ mem' = [mem EXCEPT ![next + 1] =
                      IF b.perf <= 1
                      THEN SetHostParsedInference(b, "entry", Front(o), 1, perf) ELSE Blank]
        /\ next' = next + 1

\* load() throws before that: no entry symbol, or no memory for the struct.
LoadSingleThrows(o) ==
    LET b == obj[o].blob IN
    /\ MayLoad(o) /\ ~Replicated(b)
    /\ ~ldr[Front(o)].loaded
    /\ TableAccepted(b.arch, b.tiles)
    /\ ldr' = [ldr EXCEPT ![Front(o)] = LoadedWith(@, GetSymbolTable(b.arch, b.tiles))]
    /\ UNCHANGED <<obj, mem, next>>

(***************************************************************************)
(* One loader per tile: entries is allocated first (next + 1), tile 0 loads *)
(* the first loader, the other tiles copy it with their table.              *)
(***************************************************************************)
TileLoaders(o, n) == [i \in 1..n |-> IF i = 1 THEN Front(o) ELSE next + i]
TileTable(i) == GetSymbolTable("VPUX37XX", i - 1)
TileImages(o, n) ==
    [x \in Ids |->
        IF x = Front(o) THEN LoadedWith(ldr[x], TileTable(1))
        ELSE IF x \in next + 2 .. next + n
             THEN CloneOf(LoadedWith(ldr[Front(o)], TileTable(1)), TileTable(x - next))
        ELSE ldr[x]]

LoadReplicas(o) ==
    LET b == obj[o].blob
        n == GetArchTilesCount(b.arch)
        perf == b.perf = 1
    IN  /\ MayLoad(o) /\ Replicated(b) /\ next + n + 1 <= MaxIds
        /\ ~ldr[Front(o)].loaded /\ b.entry
        /\ ldr' = TileImages(o, n)
        /\ obj' = [obj EXCEPT ![o].loaders = TileLoaders(o, n), ![o].entries = next + 1,
                              ![o].parsed = next + n + 1, ![o].perf = perf,
                              ![o].ready = b.perf <= 1]
        /\ mem' = Held([mem EXCEPT
                           ![next + 1] = [kind |-> "entries", of |-> TileLoaders(o, n)],
                           ![next + n + 1] =
                               IF b.perf <= 1
                               THEN SetHostParsedInference(b, "entries", next + 1, n, perf)
                               ELSE Blank])
        /\ next' = next + n + 1

\* load() throws with k tiles done: in the first loader's load() (also because an
\* earlier call had loaded it), for want of an entry, or in an allocation.
LoadReplicasThrows(o, k) ==
    LET b == obj[o].blob IN
    /\ MayLoad(o) /\ Replicated(b) /\ next + 1 <= MaxIds
    /\ IF ldr[Front(o)].loaded \/ k = 0
       THEN /\ obj' = [obj EXCEPT ![o].entries = next + 1]
            /\ mem' = Held(mem)
            /\ next' = next + 1
            /\ UNCHANGED ldr
       ELSE /\ b.entry \/ k = 1
            /\ next + k <= MaxIds
            /\ ldr' = TileImages(o, k)
            /\ obj' = [obj EXCEPT ![o].entries = next + 1,
                                  ![o].loaders = TileLoaders(o, k)]
            /\ mem' = Held([mem EXCEPT ![next + 1] = [kind |-> "entries",
                                                      of |-> TileLoaders(o, k)]])
            /\ next' = next + k

-----------------------------------------------------------------------------
(* Copies and moves *)

(***************************************************************************)
(* The body the copy constructor and operator= have in common.  mine are    *)
(* the loaders the object has already; the clones go behind them, while     *)
(* loaders[idx] and loaders.front() are read from the start.                *)
(***************************************************************************)
Clones(s) == IF Replicated(obj[s].blob) THEN Len(obj[s].loaders) ELSE 1
CloneSource(s, i) == ldr[obj[s].loaders[i]]
CloneImages(s, n) ==
    [x \in Ids |-> IF x \in next + 2 .. next + 1 + n
                   THEN CloneOf(CloneSource(s, x - next - 1), CloneSource(s, x - next - 1).table)
                   ELSE ldr[x]]
\* Faulty variant: room is made with resize, which leaves null loaders in front.
WithClonesResized(mine, n) == [i \in 1..n |-> NoBuf] \o [i \in 1..n |-> next + 1 + i]
WithClones(mine, n) == mine \o [i \in 1..n |-> next + 1 + i]

\* Faulty variant: the source's entries are kept.
NewEntriesShared(o, s) == obj[s].entries
NewEntries(o, s) == IF Replicated(obj[s].blob) THEN next + 1 ELSE obj[o].entries

CloneInto(o, s, mine) ==
    LET b == obj[s].blob
        n == Clones(s)
        all == WithClones(mine, n)
        e == NewEntries(o, s)
        p == next + n + 2
    IN  /\ p <= MaxIds
        /\ ldr' = CloneImages(s, n)
        /\ obj' = [obj EXCEPT ![o] =
                      [blob |-> b, loaders |-> all, parsed |-> p, entries |-> e,
                       perf |-> obj[s].perf, ready |-> TRUE]]
        /\ mem' = Held(
               IF Replicated(b)
               THEN [mem EXCEPT
                        ![e] = [kind |-> "entries", of |-> [i \in 1..n |-> all[i]]],
                        ![p] = SetHostParsedInference(b, "entries", e, n, obj[s].perf)]
               ELSE [mem EXCEPT
                        ![p] = SetHostParsedInference(b, "entry", all[1], 1, obj[s].perf)])
        /\ next' = p

\* A copy constructor that throws leaves no object.
Copy(o, s) == ~Exists(o) /\ s \in Ready /\ CloneInto(o, s, << >>)

MayAssign(o, s) ==
    /\ Exists(o) /\ s \in Ready /\ o # s
    /\ AssignsLoaded \/ obj[o].loaders = << >>
Assign(o, s) == MayAssign(o, s) /\ CloneInto(o, s, obj[o].loaders)

\* operator= throws with k clones made, or (e) for want of memory for the entries; the
\* members assigned before keep their values.
AssignThrows(o, s, k, e) ==
    /\ MayAssign(o, s)
    /\ k <= Clones(s) /\ next + 1 + k <= MaxIds
    /\ e = NewEntries(o, s) \/ (k = 0 /\ e = obj[o].entries)
    /\ ldr' = CloneImages(s, k)
    /\ obj' = [obj EXCEPT ![o] =
                  [@ EXCEPT !.blob = obj[s].blob, !.perf = obj[s].perf, !.entries = e,
                            !.loaders = WithClones(obj[o].loaders, k), !.ready = FALSE]]
    /\ mem' = Held(mem)
    /\ next' = next + 1 + k

\* Both moves: the loaders change hands, the buffers are shared from then on.
\* Faulty variant: the source keeps its loaders.
MovedFromKeeps(s) == obj[s]
MovedFrom(s) == [obj[s] EXCEPT !.loaders = << >>, !.ready = FALSE]
Moved(o, s) ==
    /\ Exists(s) /\ o # s
    /\ obj' = [obj EXCEPT ![o] = obj[s], ![s] = MovedFrom(s)]
    /\ ldr' = Surviving(ldr)
    /\ mem' = Held(mem)
    /\ UNCHANGED next
Move(o, s) == ~Exists(o) /\ Moved(o, s)
MoveAssign(o, s) == Exists(o) /\ Moved(o, s)

Destroy(o) ==
    /\ Exists(o)
    /\ obj' = [obj EXCEPT ![o] = NoObject]
    /\ ldr' = Surviving(ldr)
    /\ mem' = Held(mem)
    /\ UNCHANGED next

-----------------------------------------------------------------------------
(* Inference *)

\* Faulty variant: only the first loader is patched.
PatchedByFront(o) == {Front(o)}
PatchedBy(o) == Owned(o)
ApplyInputOutput(o, u) ==
    /\ o \in Ready
    /\ ldr' = [x \in Ids |-> IF x \in PatchedBy(o) THEN [ldr[x] EXCEPT !.io = u] ELSE ldr[x]]
    /\ UNCHANGED <<obj, mem, next>>

(***************************************************************************)
(* applyJitRelocations throws in the loader at position k, with some of its *)
(* entries written: those before it have the new buffers, those behind it   *)
(* the old ones, and the object can still be run.  Too few user buffers or  *)
(* an entry that is refused show in the first loader, since all have the    *)
(* same entries; the copy of a vector of buffers may fail in any.           *)
(***************************************************************************)
ApplyInputOutputThrows(o, u, k) ==
    /\ o \in Ready /\ k \in 1..Len(obj[o].loaders)
    /\ ldr' = [x \in Ids |->
                  IF x = obj[o].loaders[k] THEN [ldr[x] EXCEPT !.io = Broken]
                  ELSE IF \E i \in 1..k - 1 : x = obj[o].loaders[i]
                       THEN [ldr[x] EXCEPT !.io = u]
                  ELSE ldr[x]]
    /\ UNCHANGED <<obj, mem, next>>

\* The loader has asked the driver for sharable scratch only if inferences may not run in
\* parallel; otherwise there is nothing to update.
\* Faulty variant: the driver shares scratch whatever the loader asks for.
SharesScratchAlways(l) == l.blob.scratch
SharesScratch(l) == l.blob.scratch /\ ~l.parallel
RelocateFront(o, k, u) ==
    /\ o \in Ready /\ SharesScratch(ldr[Front(o)])
    /\ ldr' = [ldr EXCEPT ![Front(o)].scratch = k, ![Front(o)].io = u]
    /\ UNCHANGED <<obj, mem, next>>

\* Restores and relocates the first loader, which drops its user buffers; the restore or
\* a relocation may throw.
UpdateSharedScratchBuffers(o, k) == RelocateFront(o, k, NoIO)
UpdateSharedScratchBuffersThrows(o) == RelocateFront(o, Broken, Broken)

Next ==
    \E o \in Objects :
        \/ \E b \in Blobs, c \in Configs : Construct(o, b, c)
        \/ LoadSingle(o)
        \/ LoadSingleThrows(o)
        \/ LoadReplicas(o)
        \/ \E k \in 0..GetArchTilesCount("VPUX37XX") : LoadReplicasThrows(o, k)
        \/ \E s \in Objects : \/ Copy(o, s)
                              \/ Assign(o, s)
                              \/ \E k \in 0..GetArchTilesCount("VPUX37XX"),
                                    e \in {obj[o].entries, NewEntries(o, s)} :
                                     AssignThrows(o, s, k, e)
                              \/ Move(o, s)
                              \/ MoveAssign(o, s)
        \/ Destroy(o)
        \/ \E u \in UserIO : ApplyInputOutput(o, u)
        \/ \E u \in UserIO, k \in 1..GetArchTilesCount("VPUX37XX") :
               ApplyInputOutputThrows(o, u, k)
        \/ \E k \in ScratchSets : UpdateSharedScratchBuffers(o, k)
        \/ UpdateSharedScratchBuffersThrows(o)

Spec == Init /\ [][Next]_vars

-----------------------------------------------------------------------------
(* Properties *)

TypeOK ==
    /\ obj \in [Objects -> Members]
    /\ ldr \in [Ids -> Image \cup {Blank}]
    /\ DOMAIN mem = Ids
    /\ next \in 0..MaxIds

\* What the firmware starts from: the buffer it is in, and the images behind it.
Parsed(o) == mem[obj[o].parsed]
Started(o) ==
    IF Parsed(o).where = "entries" THEN SubSeq(mem[Parsed(o).at].of, 1, Parsed(o).count)
    ELSE <<Parsed(o).at>>

\* The structure of an object that load(), a copy or an assignment returned leads the
\* firmware to the object's own loaders, one by one, through memory the object keeps
\* alive, and speaks of the network they hold, whatever was moved, copied, assigned,
\* destroyed or half done before (vpux_hpi.cpp 192-373).
MapsOwnImages ==
    \A o \in Ready :
        /\ Parsed(o).where = "entries" => Parsed(o).at = obj[o].entries
        /\ Started(o) = obj[o].loaders
        /\ Parsed(o).slices = obj[o].blob.tiles
        /\ \A i \in 1..Len(obj[o].loaders) :
               LET l == ldr[obj[o].loaders[i]] IN l.loaded /\ l.blob = obj[o].blob

\* Two objects that can be run have nothing in common that the firmware reads and the
\* host writes: no loader, no entries, no structure (vpux_hpi.cpp 252-290, 339-370).
Footprint(o) ==
    {obj[o].parsed, Parsed(o).at} \cup Owned(o)
RunApart == \A o, p \in Ready : o # p => Footprint(o) \cap Footprint(p) = {}

\* A network for one tile has for tile i an image that names nothing of another tile,
\* one for all tiles has the table for all of them; no index is outside the array of
\* tables although getSymbolTable admits one too many (hpi_3720.cpp 113).
TablesMatchTiles ==
    \A o \in Ready : obj[o].blob.arch = "VPUX37XX" =>
        \A i \in 1..Len(obj[o].loaders) :
            LET t == ldr[obj[o].loaders[i]].table IN
            /\ t \in 0..NTabs - 1
            /\ IF Replicated(obj[o].blob) THEN \A y \in RuntimeSymbols : TileOf(t, y) = i - 1
                                         ELSE t = NTabs - 1

\* All images of an object are patched with the same user buffers, since nobody knows
\* which of them will be run (vpux_hpi.cpp 417-418), unless a call threw half way in one
\* of them; the next call that returns gives all of them the same again.  They have the
\* same scratch always: that only the first loader gets it (425) is right because of
\* 186-187: no network with replicas asks for sharable scratch.
HalfPatched(o) == \E i \in 1..Len(obj[o].loaders) : ldr[obj[o].loaders[i]].io = Broken
ReplicasAgree ==
    \A o \in Ready : \A i \in 1..Len(obj[o].loaders) :
        /\ HalfPatched(o) \/ ldr[obj[o].loaders[i]].io = ldr[Front(o)].io
        /\ ldr[obj[o].loaders[i]].scratch = ldr[Front(o)].scratch

\* A 40XX network whose inferences may be run in parallel leaves room for a second one;
\* the flag reaches every copy although only the first loader is told
\* (vpux_hpi.cpp 186-189).
ParallelFits ==
    \A o \in Ready : \A i \in 1..Len(obj[o].loaders) :
        obj[o].blob.arch = "VPUX40XX" /\ ldr[obj[o].loaders[i]].parallel
            => 2 * obj[o].blob.tiles <= GetHardwareTileCount(obj[o].blob.arch)
=============================================================================
