--------------------- MODULE HostParsedInferenceProofs ---------------------
(***************************************************************************)
(* Proof that an object that can be run leads the firmware to its own       *)
(* images and to no other, whatever was moved, copied, assigned, destroyed  *)
(* or half done before (HostParsedInference), for every set of networks and *)
(* any number of objects.  What runnable objects promise is proved for a    *)
(* client that is Tame: it neither assigns to objects that own loaders nor  *)
(* loads an object twice.                                                   *)
(***************************************************************************)
EXTENDS HostParsedInference, SequenceTheorems, TLAPS

\* The loaders that members m own, and the buffers that a runnable object needs.
OwnedBy(m) == {m.loaders[i] : i \in 1..Len(m.loaders)}
Needs(m) == {m.parsed} \cup (IF Replicated(m.blob) THEN {m.entries} ELSE {})

\* Types, and ids that have been given out.
IdsInv ==
    /\ TypeOK
    /\ \A o \in Objects :
          /\ OwnedBy(obj[o]) \subseteq 1..next /\ obj[o].parsed \in 0..next /\ obj[o].entries \in 0..next
          /\ \A x \in OwnedBy(obj[o]) : ldr[x] \in Image
          /\ obj[o].ready => obj[o].loaders # << >> /\ obj[o].blob \in Blobs
          /\ obj[o].loaders # << >> => obj[o].blob \in Blobs

\* A loader has one owner, and what runnable objects need is not shared.
ApartInv ==
    \A o, p \in Objects :
        /\ o # p => OwnedBy(obj[o]) \cap OwnedBy(obj[p]) = {}
        /\ obj[o].parsed \notin OwnedBy(obj[p]) /\ obj[o].entries \notin OwnedBy(obj[p])
        /\ o # p /\ obj[o].ready /\ obj[p].ready => Needs(obj[o]) \cap Needs(obj[p]) = {}

\* What the constructor has let pass.
Admitted(b) == b \in Blobs /\ b.arch \in Supported /\ TilesAccepted(b)

\* An image of network b; scratch that inferences in parallel would spoil is not shared.
ImageOf(l, b) ==
    /\ l \in Image /\ l.blob = b /\ (l.parallel <=> MayBeRunInParallel(b))
    /\ l.parallel => l.scratch = NoScratch
    /\ ~l.loaded => l.io = NoIO

\* The table that the image for the i-th tile is relocated with.
TableFor(b, i) == IF b.arch # "VPUX37XX" THEN 0 ELSE IF Replicated(b) THEN i - 1 ELSE b.tiles
Replicas(b) == IF Replicated(b) THEN 2 ELSE 1

\* Images with the same user buffers, unless an exception came out of the patching of one.
Alike(m) ==
    \/ \E i \in 1..Len(m.loaders) : ldr[m.loaders[i]].io = Broken
    \/ \A i \in 1..Len(m.loaders) : ldr[m.loaders[i]].io = ldr[m.loaders[1]].io

\* A runnable object: its images, and the structure that leads to them.
Runnable(m) ==
    /\ Len(m.loaders) = Replicas(m.blob)
    /\ \A i \in 1..Len(m.loaders) :
          LET l == ldr[m.loaders[i]] IN l.loaded /\ l.table = TableFor(m.blob, i)
    /\ Alike(m)
Leads(m) ==
    /\ m.parsed # NoBuf /\ mem[m.parsed].slices = m.blob.tiles
    /\ IF Replicated(m.blob)
       THEN /\ mem[m.parsed].where = "entries" /\ m.entries # NoBuf
            /\ mem[m.parsed].at = m.entries /\ mem[m.parsed].count = 2
            /\ mem[m.entries].of = m.loaders
       ELSE mem[m.parsed].where = "entry" /\ mem[m.parsed].at = m.loaders[1]

\* What is true of every object's members.
Sound(m) ==
    /\ m = NoObject \/ Admitted(m.blob)
    /\ \A x \in OwnedBy(m) : ImageOf(ldr[x], m.blob)
    /\ m.loaders # << >> /\ ~ldr[m.loaders[1]].loaded => Len(m.loaders) = 1
    /\ m.ready => Runnable(m) /\ Leads(m)
SoundInv == \A o \in Objects : Sound(obj[o])

-----------------------------------------------------------------------------
(* Members, images and networks *)

\* The fields of an object.
LEMMA MembersFacts ==
    ASSUME NEW m \in Members
    PROVE  /\ m.blob \in Blobs \cup {NoBlob} /\ m.loaders \in Seq(Ids) /\ Len(m.loaders) \in Nat
           /\ m.parsed \in Ids \cup {NoBuf} /\ m.entries \in Ids \cup {NoBuf}
           /\ m.perf \in BOOLEAN /\ m.ready \in BOOLEAN
           /\ \A i \in 1..Len(m.loaders) : m.loaders[i] \in Ids
           /\ OwnedBy(m) \subseteq Ids
BY DEF Members, OwnedBy

\* Where there is a loader there is a first one.
LEMMA FirstLoader ==
    ASSUME NEW m \in Members, m.loaders # << >>
    PROVE  Len(m.loaders) >= 1 /\ m.loaders[1] \in OwnedBy(m)
<1>1. m.loaders \in Seq(Ids)
  BY MembersFacts
<1>2. Len(m.loaders) \in Nat /\ Len(m.loaders) # 0
  BY <1>1, EmptySeq
<1> QED BY <1>2 DEF OwnedBy

\* An object that does not exist has nothing.
LEMMA NoObjectFacts ==
    /\ NoObject \in Members /\ OwnedBy(NoObject) = {} /\ NoObject.loaders = << >>
    /\ NoObject.parsed = NoBuf /\ NoObject.entries = NoBuf /\ NoObject.ready = FALSE
    /\ NoObject.perf = FALSE /\ NoObject.blob = NoBlob
<1>1. /\ NoObject.loaders = << >> /\ NoObject.parsed = NoBuf /\ NoObject.entries = NoBuf
      /\ NoObject.ready = FALSE /\ NoObject.perf = FALSE /\ NoObject.blob = NoBlob
  BY DEF NoObject
<1>2. << >> \in Seq(Ids) /\ Len(<< >>) = 0
  BY EmptySeq
<1>3. NoObject \in Members
  BY <1>2 DEF NoObject, Members
<1>4. OwnedBy(NoObject) = {}
  BY <1>1, <1>2 DEF OwnedBy
<1> QED BY <1>1, <1>3, <1>4

\* Networks of 37XX for one tile get two loaders.
LEMMA ReplicatedFacts ==
    ASSUME NEW b \in Blobs
    PROVE  /\ GetArchTilesCount("VPUX37XX") = 2 /\ NTabs = 3
           /\ b.arch \in ArchKinds /\ b.tiles \in Nat
           /\ Replicated(b) <=> b.arch = "VPUX37XX" /\ b.tiles < 2
           /\ Replicated(b) => GetArchTilesCount(b.arch) = 2
BY HpiBlobsAssumption DEF GetArchTilesCount, NTabs, Replicated, Blob

\* The fields of an image.
LEMMA ImageFacts ==
    ASSUME NEW l \in Image
    PROVE  /\ l.blob \in Blobs /\ l.table \in {NoTable} \cup Nat /\ l.loaded \in BOOLEAN
           /\ l.io \in UserIO \cup {NoIO, Broken} /\ l.scratch \in ScratchSets \cup {NoScratch, Broken} /\ l.parallel \in BOOLEAN
BY DEF Image

\* A new loader.
LEMMA NewLoaderFacts ==
    ASSUME NEW b \in Blobs, NEW l, l = NewLoader(b)
    PROVE  ImageOf(l, b) /\ l.loaded = FALSE
<1>1. PICK p : p = MayBeRunInParallel(b)
  OBVIOUS
<1>2. p \in BOOLEAN
  BY <1>1 DEF MayBeRunInParallel
<1>3. l = [blob |-> b, table |-> NoTable, loaded |-> FALSE, io |-> NoIO, scratch |-> NoScratch, parallel |-> p]
  BY <1>1 DEF NewLoader
<1>4. /\ l \in Image /\ l.blob = b /\ l.parallel = p /\ l.scratch = NoScratch /\ l.io = NoIO /\ l.loaded = FALSE
  BY <1>2, <1>3 DEF Image
<1> QED BY <1>1, <1>4 DEF ImageOf

\* One that load() has loaded.
LEMMA LoadedFacts ==
    ASSUME NEW l \in Image, NEW t \in Nat, NEW k, k = LoadedWith(l, t)
    PROVE  /\ k \in Image /\ k.blob = l.blob /\ k.table = t /\ k.loaded
           /\ k.io = l.io /\ k.scratch = l.scratch /\ k.parallel = l.parallel
           /\ \A b : ImageOf(l, b) => ImageOf(k, b)
<1>1. /\ k \in Image /\ k.blob = l.blob /\ k.table = t /\ k.loaded
      /\ k.io = l.io /\ k.scratch = l.scratch /\ k.parallel = l.parallel
  BY DEF LoadedWith, Image
<1>2. ASSUME NEW b, ImageOf(l, b) PROVE ImageOf(k, b)
  BY <1>1, <1>2 DEF ImageOf
<1> QED BY <1>1, <1>2

\* And a copy.
LEMMA CloneFacts ==
    ASSUME NEW l \in Image, NEW t \in {NoTable} \cup Nat, NEW k, k = CloneOf(l, t)
    PROVE  /\ k \in Image /\ k.blob = l.blob /\ k.table = t /\ (k.loaded <=> l.loaded)
           /\ k.io = NoIO /\ k.scratch = NoScratch /\ k.parallel = l.parallel
           /\ \A b : ImageOf(l, b) => ImageOf(k, b)
<1>1. /\ k \in Image /\ k.blob = l.blob /\ k.table = t /\ (k.loaded <=> l.loaded)
      /\ k.io = NoIO /\ k.scratch = NoScratch /\ k.parallel = l.parallel
  BY DEF CloneOf, Image
<1>2. ASSUME NEW b, ImageOf(l, b) PROVE ImageOf(k, b)
  BY <1>1, <1>2 DEF ImageOf
<1> QED BY <1>1, <1>2

\* The loaders that copies are put into: those there are, and n more.
LEMMA WithClonesFacts ==
    ASSUME NEW mine \in Seq(Ids), NEW n \in Nat, next \in Nat, next + 1 + n <= MaxIds
    PROVE  /\ WithClones(mine, n) \in Seq(Ids) /\ Len(WithClones(mine, n)) = Len(mine) + n
           /\ \A i \in 1..Len(mine) : WithClones(mine, n)[i] = mine[i]
           /\ \A i \in 1..n : WithClones(mine, n)[Len(mine) + i] = next + 1 + i
<1> DEFINE new == [i \in 1..n |-> next + 1 + i]
<1>1. \A i \in 1..n : next + 1 + i \in Ids
  BY HpiBoundsAssumption DEF Ids
<1>2. new \in Seq(Ids) /\ Len(new) = n
  BY <1>1
<1>3. \A i \in 1..n : new[i] = next + 1 + i
  OBVIOUS
<1> HIDE DEF new
<1>4. /\ mine \o new \in Seq(Ids) /\ Len(mine \o new) = Len(mine) + n /\ Len(mine) \in Nat
      /\ \A i \in 1..Len(mine) + n : (mine \o new)[i] = IF i <= Len(mine) THEN mine[i] ELSE new[i - Len(mine)]
  <2>1. /\ mine \o new \in Seq(Ids) /\ Len(mine \o new) = Len(mine) + Len(new)
        /\ \A i \in 1..Len(mine) + Len(new) :
              (mine \o new)[i] = IF i <= Len(mine) THEN mine[i] ELSE new[i - Len(mine)]
    BY <1>2, ConcatProperties, Zenon
  <2>2. Len(mine) \in Nat
    BY LenProperties
  <2> QED BY <1>2, <2>1, <2>2
<1>5. WithClones(mine, n) = mine \o new
  BY DEF WithClones, new
<1>6. \A i \in 1..Len(mine) : (mine \o new)[i] = mine[i]
  BY <1>4
<1>7. ASSUME NEW i \in 1..n PROVE (mine \o new)[Len(mine) + i] = next + 1 + i
  <2>1. Len(mine) + i \in 1..Len(mine) + n /\ ~(Len(mine) + i <= Len(mine)) /\ (Len(mine) + i) - Len(mine) = i
    BY <1>4
  <2> QED BY <1>3, <1>4, <2>1
<1> QED BY <1>4, <1>5, <1>6, <1>7

\* The loaders of the first n tiles.
LEMMA TileLoadersFacts ==
    ASSUME NEW o \in Objects, NEW n \in 1..2, Front(o) \in Ids, next \in Nat, next + n <= MaxIds
    PROVE  /\ TileLoaders(o, n) \in Seq(Ids) /\ Len(TileLoaders(o, n)) = n
           /\ TileLoaders(o, n)[1] = Front(o)
           /\ n = 2 => TileLoaders(o, n)[2] = next + 2
<1>1. \A i \in 1..n : (IF i = 1 THEN Front(o) ELSE next + i) \in Ids
  BY HpiBoundsAssumption DEF Ids
<1>2. TileLoaders(o, n) \in Seq(Ids) /\ Len(TileLoaders(o, n)) = n
  BY <1>1 DEF TileLoaders
<1> QED BY <1>2 DEF TileLoaders

-----------------------------------------------------------------------------
(* A call of one object *)

\* Ids that a step gives out.
Fresh == next + 1 .. next'

\* The call changes object o, which has members m then: it owns loaders that it had or
\* that are new, which are images, and no other object loses anything.
Changes(o, m) ==
    /\ obj' = [obj EXCEPT ![o] = m] /\ m \in Members
    /\ next' \in next..MaxIds /\ ldr' \in [Ids -> Image \cup {Blank}] /\ DOMAIN mem' = Ids
    /\ OwnedBy(m) \subseteq OwnedBy(obj[o]) \cup Fresh /\ \A x \in OwnedBy(m) : ldr'[x] \in Image
    /\ m.parsed \in {obj[o].parsed, NoBuf} \cup Fresh /\ m.entries \in {obj[o].entries, NoBuf} \cup Fresh
    /\ m.parsed \notin OwnedBy(m) /\ m.entries \notin OwnedBy(m)
    /\ m.loaders # << >> => m.blob \in Blobs
    /\ m.ready => /\ m.loaders # << >>
                  /\ Needs(m) \subseteq (IF obj[o].ready THEN Needs(obj[o]) ELSE {}) \cup Fresh
    /\ \A p \in Objects \ {o} :
          /\ \A x \in OwnedBy(obj[p]) : ldr'[x] = ldr[x]
          /\ \A x \in {obj[p].parsed, obj[p].entries} \ {NoBuf} : mem'[x] = mem[x]

\* Facts about ids that TypeOK gives.
LEMMA TypeFacts ==
    ASSUME IdsInv
    PROVE  /\ obj \in [Objects -> Members] /\ ldr \in [Ids -> Image \cup {Blank}] /\ DOMAIN mem = Ids
           /\ next \in Nat /\ MaxIds \in Nat /\ next <= MaxIds
           /\ \A o \in Objects : obj[o] \in Members /\ OwnedBy(obj[o]) \subseteq 1..next
BY HpiBoundsAssumption DEF IdsInv, TypeOK

\* Such a step keeps the ids in order,
LEMMA ChangeIds ==
    ASSUME IdsInv, NEW o \in Objects, NEW m, Changes(o, m)
    PROVE  IdsInv'
<1>1. /\ obj \in [Objects -> Members] /\ next \in Nat /\ MaxIds \in Nat /\ m \in Members
      /\ next' \in Nat /\ next <= next' /\ next' <= MaxIds /\ obj' = [obj EXCEPT ![o] = m]
  BY TypeFacts DEF Changes
<1>2. obj'[o] = m /\ \A p \in Objects : p # o => obj'[p] = obj[p]
  BY <1>1
<1>3. TypeOK'
  <2>1. obj' \in [Objects -> Members]
    BY <1>1
  <2> QED BY <1>1, <2>1 DEF TypeOK, Changes
<1>4. /\ OwnedBy(m) \subseteq 1..next' /\ m.parsed \in 0..next' /\ m.entries \in 0..next'
      /\ \A x \in OwnedBy(m) : ldr'[x] \in Image
      /\ m.ready => m.loaders # << >> /\ m.blob \in Blobs
      /\ m.loaders # << >> => m.blob \in Blobs
  <2>1. OwnedBy(obj[o]) \subseteq 1..next /\ obj[o].parsed \in 0..next /\ obj[o].entries \in 0..next
    BY DEF IdsInv
  <2>2. OwnedBy(m) \subseteq OwnedBy(obj[o]) \cup Fresh
    BY DEF Changes
  <2>3. m.parsed \in {obj[o].parsed, NoBuf} \cup Fresh /\ m.entries \in {obj[o].entries, NoBuf} \cup Fresh
    BY DEF Changes
  <2>4. OwnedBy(m) \subseteq 1..next'
    BY <1>1, <2>1, <2>2 DEF Fresh
  <2>5. m.parsed \in 0..next' /\ m.entries \in 0..next'
    BY <1>1, <2>1, <2>3 DEF Fresh, NoBuf
  <2> QED BY <2>4, <2>5 DEF Changes
<1>5. ASSUME NEW p \in Objects, p # o
      PROVE  /\ OwnedBy(obj[p]) \subseteq 1..next' /\ obj[p].parsed \in 0..next' /\ obj[p].entries \in 0..next'
             /\ \A x \in OwnedBy(obj[p]) : ldr'[x] \in Image
             /\ obj[p].ready => obj[p].loaders # << >> /\ obj[p].blob \in Blobs
             /\ obj[p].loaders # << >> => obj[p].blob \in Blobs
  <2>1. /\ OwnedBy(obj[p]) \subseteq 1..next /\ obj[p].parsed \in 0..next /\ obj[p].entries \in 0..next
        /\ \A x \in OwnedBy(obj[p]) : ldr[x] \in Image
        /\ obj[p].ready => obj[p].loaders # << >> /\ obj[p].blob \in Blobs
        /\ obj[p].loaders # << >> => obj[p].blob \in Blobs
    BY DEF IdsInv
  <2>2. \A x \in OwnedBy(obj[p]) : ldr'[x] = ldr[x]
    BY <1>5 DEF Changes
  <2> QED BY <1>1, <2>1, <2>2
<1>6. ASSUME NEW p \in Objects
      PROVE  /\ OwnedBy(obj'[p]) \subseteq 1..next' /\ obj'[p].parsed \in 0..next' /\ obj'[p].entries \in 0..next'
             /\ \A x \in OwnedBy(obj'[p]) : ldr'[x] \in Image
             /\ obj'[p].ready => obj'[p].loaders # << >> /\ obj'[p].blob \in Blobs
             /\ obj'[p].loaders # << >> => obj'[p].blob \in Blobs
  BY <1>2, <1>4, <1>5
<1>7. \A p \in Objects : OwnedBy(obj[p])' = OwnedBy(obj'[p])
  BY DEF OwnedBy
<1> QED BY <1>3, <1>6, <1>7 DEF IdsInv

\* and objects apart.
LEMMA ChangeApart ==
    ASSUME IdsInv, ApartInv, NEW o \in Objects, NEW m, Changes(o, m)
    PROVE  ApartInv'
<1>1. /\ obj \in [Objects -> Members] /\ next \in Nat /\ next' \in Nat /\ next <= next'
      /\ obj' = [obj EXCEPT ![o] = m]
  BY TypeFacts DEF Changes
<1>2. obj'[o] = m /\ \A p \in Objects : p # o => obj'[p] = obj[p]
  BY <1>1
<1>3. /\ OwnedBy(m) \subseteq OwnedBy(obj[o]) \cup Fresh
      /\ m.parsed \in {obj[o].parsed, NoBuf} \cup Fresh /\ m.entries \in {obj[o].entries, NoBuf} \cup Fresh
      /\ m.parsed \notin OwnedBy(m) /\ m.entries \notin OwnedBy(m)
      /\ m.ready => Needs(m) \subseteq (IF obj[o].ready THEN Needs(obj[o]) ELSE {}) \cup Fresh
  BY DEF Changes
<1>4. ASSUME NEW p \in Objects
      PROVE  OwnedBy(obj[p]) \subseteq 1..next /\ obj[p].parsed \in 0..next /\ obj[p].entries \in 0..next
  BY DEF IdsInv
<1>5. \A x \in Fresh : x \notin 0..next
  BY <1>1 DEF Fresh
<1>6. \A p \in Objects : Needs(obj[p]) \subseteq 0..next
  BY <1>4 DEF Needs
<1>7. ASSUME NEW p \in Objects, p # o
      PROVE  /\ OwnedBy(m) \cap OwnedBy(obj[p]) = {}
             /\ m.parsed \notin OwnedBy(obj[p]) /\ m.entries \notin OwnedBy(obj[p])
             /\ obj[p].parsed \notin OwnedBy(m) /\ obj[p].entries \notin OwnedBy(m)
             /\ m.ready /\ obj[p].ready => Needs(m) \cap Needs(obj[p]) = {}
  <2>1. /\ OwnedBy(obj[o]) \cap OwnedBy(obj[p]) = {}
        /\ obj[o].parsed \notin OwnedBy(obj[p]) /\ obj[o].entries \notin OwnedBy(obj[p])
        /\ obj[p].parsed \notin OwnedBy(obj[o]) /\ obj[p].entries \notin OwnedBy(obj[o])
        /\ obj[o].ready /\ obj[p].ready => Needs(obj[o]) \cap Needs(obj[p]) = {}
    BY <1>7 DEF ApartInv
  <2>2. NoBuf \notin 1..next /\ 1..next \subseteq 0..next
    BY <1>1 DEF NoBuf
  <2>3. OwnedBy(m) \cap OwnedBy(obj[p]) = {}
    BY <1>3, <1>4, <1>5, <2>1, <2>2
  <2>4. m.parsed \notin OwnedBy(obj[p]) /\ m.entries \notin OwnedBy(obj[p])
    BY <1>3, <1>4, <1>5, <2>1, <2>2
  <2>5. obj[p].parsed \notin OwnedBy(m) /\ obj[p].entries \notin OwnedBy(m)
    BY <1>3, <1>4, <1>5, <2>1
  <2>6. m.ready /\ obj[p].ready => Needs(m) \cap Needs(obj[p]) = {}
    BY <1>3, <1>5, <1>6, <2>1
  <2> QED BY <2>3, <2>4, <2>5, <2>6
<1>8. ASSUME NEW p \in Objects, NEW q \in Objects
      PROVE  /\ p # q => OwnedBy(obj'[p]) \cap OwnedBy(obj'[q]) = {}
             /\ obj'[p].parsed \notin OwnedBy(obj'[q]) /\ obj'[p].entries \notin OwnedBy(obj'[q])
             /\ p # q /\ obj'[p].ready /\ obj'[q].ready => Needs(obj'[p]) \cap Needs(obj'[q]) = {}
  <2>1. CASE p = o /\ q = o
    BY <1>2, <1>3, <2>1
  <2>2. CASE p = o /\ q # o
    BY <1>2, <1>7, <2>2
  <2>3. CASE p # o /\ q = o
    BY <1>2, <1>7, <2>3
  <2>4. CASE p # o /\ q # o
    BY <1>2, <2>4 DEF ApartInv
  <2> QED BY <2>1, <2>2, <2>3, <2>4
<1>9. \A p \in Objects : OwnedBy(obj[p])' = OwnedBy(obj'[p]) /\ Needs(obj[p])' = Needs(obj'[p])
  BY DEF OwnedBy, Needs
<1> QED BY <1>8, <1>9 DEF ApartInv

\* What is said of an object's members stays true where its images and buffers do.
LEMMA SoundStays ==
    ASSUME NEW m, Sound(m), \A x \in OwnedBy(m) : ldr'[x] = ldr[x],
           \A x \in {m.parsed, m.entries} \ {NoBuf} : mem'[x] = mem[x],
           m.loaders # << >> => m.loaders[1] \in OwnedBy(m),
           m.ready => m.loaders # << >>
    PROVE  Sound(m)'
<1>1. \A x \in OwnedBy(m)' : ImageOf(ldr'[x], m.blob)
  BY DEF Sound, OwnedBy
<1>2. m.loaders # << >> /\ ~ldr'[m.loaders[1]].loaded => Len(m.loaders) = 1
  BY DEF Sound
<1>3. ASSUME m.ready PROVE Runnable(m)' /\ Leads(m)'
  <2>1. Runnable(m) /\ Leads(m)
    BY <1>3 DEF Sound
  <2>2. \A i \in 1..Len(m.loaders) : ldr'[m.loaders[i]] = ldr[m.loaders[i]]
    BY DEF OwnedBy
  <2>3. ldr'[m.loaders[1]] = ldr[m.loaders[1]]
    BY <1>3
  <2>4. Runnable(m)'
    <3>1. Alike(m)'
      BY <2>1, <2>2, <2>3 DEF Runnable, Alike
    <3> QED BY <2>1, <2>2, <3>1 DEF Runnable
  <2>5. mem'[m.parsed] = mem[m.parsed] /\ (Replicated(m.blob) => mem'[m.entries] = mem[m.entries])
    BY <2>1 DEF Leads
  <2>6. Leads(m)'
    BY <2>1, <2>5 DEF Leads
  <2> QED BY <2>4, <2>6
<1> QED BY <1>1, <1>2, <1>3 DEF Sound, OwnedBy

\* So only the object that the call is of has to be looked at.
LEMMA ChangeSound ==
    ASSUME IdsInv, SoundInv, NEW o \in Objects, NEW m, Changes(o, m), Sound(m)'
    PROVE  SoundInv'
<1>1. obj'[o] = m /\ \A p \in Objects : p # o => obj'[p] = obj[p]
  BY TypeFacts DEF Changes
<1>2. ASSUME NEW p \in Objects PROVE Sound(obj[p])'
  <2>1. PICK k : k = obj'[p]
    OBVIOUS
  <2>2. Sound(k)'
    <3>1. CASE p = o
      BY <1>1, <2>1, <3>1
    <3>2. CASE p # o
      <4>1. k = obj[p] /\ k \in Members
        BY <1>1, <2>1, <3>2, TypeFacts
      <4>2. /\ Sound(k)
            /\ \A x \in OwnedBy(k) : ldr'[x] = ldr[x]
            /\ \A x \in {k.parsed, k.entries} \ {NoBuf} : mem'[x] = mem[x]
            /\ k.ready => k.loaders # << >>
        BY <3>2, <4>1 DEF SoundInv, Changes, IdsInv
      <4>3. k.loaders # << >> => k.loaders[1] \in OwnedBy(k)
        BY <4>1, FirstLoader
      <4> QED BY <4>2, <4>3, SoundStays
    <3> QED BY <3>1, <3>2
  <2> QED BY <2>1, <2>2 DEF Sound, Runnable, Alike, Leads, OwnedBy
<1> QED BY <1>2 DEF SoundInv

-----------------------------------------------------------------------------
(* What each call does *)

\* The client neither assigns to objects that own loaders nor loads an object twice.
Tame == ~AssignsLoaded /\ ~ReloadsLoaded

\* A call of o, which leaves it sound if the client is tame.
Does(o) == \E m : Changes(o, m) /\ (Tame /\ SoundInv => Sound(m)')

\* Buffers that somebody holds are kept.
LEMMA HeldFacts ==
    ASSUME NEW B, mem' = Held(B)
    PROVE  /\ DOMAIN mem' = Ids
           /\ \A p \in Objects : \A x \in {obj'[p].parsed, obj'[p].entries} \cap Ids : mem'[x] = B[x]
BY DEF Held

\* So are loaders that somebody owns.
LEMMA SurvivingFacts ==
    ASSUME NEW L, ldr' = Surviving(L)
    PROVE  /\ \A p \in Objects : \A x \in OwnedBy(obj'[p]) \cap Ids : ldr'[x] = L[x]
           /\ L \in [Ids -> Image \cup {Blank}] => ldr' \in [Ids -> Image \cup {Blank}]
<1>1. ldr' = [x \in Ids |-> IF \E o \in Objects : x \in OwnedBy(obj'[o]) THEN L[x] ELSE Blank]
  BY DEF Surviving, Owned, OwnedBy
<1> QED BY <1>1

\* The constructor makes an object with one loader.
LEMMA ConstructDoes ==
    ASSUME IdsInv, ApartInv, NEW o \in Objects, NEW b \in Blobs, NEW c \in Configs, Construct(o, b, c)
    PROVE  Does(o)
<1>1. PICK m : m = [NoObject EXCEPT !.blob = b, !.loaders = <<next + 1>>]
  OBVIOUS
<1>2. PICK l : l = NewLoader(b)
  OBVIOUS
<1>3. /\ obj[o] = NoObject /\ next < MaxIds /\ Accepted(b, c) /\ obj' = [obj EXCEPT ![o] = m]
      /\ ldr' = [ldr EXCEPT ![next + 1] = l] /\ next' = next + 1 /\ mem' = mem
  BY <1>1, <1>2 DEF Construct, Exists
<1>4. /\ next \in Nat /\ MaxIds \in Nat /\ ldr \in [Ids -> Image \cup {Blank}] /\ DOMAIN mem = Ids
      /\ \A p \in Objects : OwnedBy(obj[p]) \subseteq 1..next
  BY TypeFacts
<1>5. next + 1 \in Ids /\ next' \in next..MaxIds /\ next + 1 \in Fresh /\ next + 1 \notin 1..next /\ next + 1 # NoBuf
  BY <1>3, <1>4 DEF Ids, Fresh, NoBuf
<1>6. m = [blob |-> b, loaders |-> <<next + 1>>, parsed |-> NoBuf, entries |-> NoBuf, perf |-> FALSE, ready |-> FALSE]
  BY <1>1 DEF NoObject
<1>7. <<next + 1>> \in Seq(Ids) /\ Len(<<next + 1>>) = 1 /\ <<next + 1>>[1] = next + 1
  BY <1>5
<1>8. /\ m.blob = b /\ m.loaders = <<next + 1>> /\ m.parsed = NoBuf /\ m.entries = NoBuf /\ m.perf = FALSE
      /\ m.ready = FALSE /\ Len(m.loaders) = 1
  BY <1>6, <1>7
<1>9. m \in Members
  BY <1>6, <1>7 DEF Members
<1>10. OwnedBy(m) = {next + 1}
  BY <1>7, <1>8 DEF OwnedBy
<1>11. l \in Image /\ ImageOf(l, b) /\ l.loaded = FALSE
  BY <1>2, NewLoaderFacts DEF ImageOf
<1>12. ldr'[next + 1] = l /\ ldr' \in [Ids -> Image \cup {Blank}] /\ \A x \in 1..next : ldr'[x] = ldr[x]
  BY <1>3, <1>4, <1>5, <1>11
<1>13. Changes(o, m)
  <2>1. \A p \in Objects \ {o} : \A x \in OwnedBy(obj[p]) : ldr'[x] = ldr[x]
    BY <1>4, <1>12
  <2> QED BY <1>3, <1>4, <1>5, <1>8, <1>9, <1>10, <1>11, <1>12, <2>1 DEF Changes
<1>14. Sound(m)'
  <2>1. Admitted(b)
    BY <1>3 DEF Accepted, Admitted
  <2>2. \A x \in OwnedBy(m) : ImageOf(ldr'[x], m.blob)
    BY <1>8, <1>10, <1>11, <1>12
  <2> QED BY <1>8, <2>1, <2>2 DEF Sound, OwnedBy, Admitted
<1> QED BY <1>13, <1>14 DEF Does

\* Several fields of one object are changed one after the other.
LEMMA SingleFields ==
    ASSUME NEW f \in [Objects -> Members], NEW o \in Objects, NEW p, NEW q, NEW r
    PROVE  [f EXCEPT ![o].parsed = p, ![o].perf = q, ![o].ready = r]
           = [f EXCEPT ![o] = [f[o] EXCEPT !.parsed = p, !.perf = q, !.ready = r]]
<1>1. PICK k : k = [f[o] EXCEPT !.parsed = p]
  OBVIOUS
<1>2. PICK g : g = [f EXCEPT ![o].parsed = p]
  OBVIOUS
<1>3. g = [f EXCEPT ![o] = k]
  BY <1>1, <1>2
<1>4. DOMAIN g = Objects /\ \A u \in Objects : g[u] = IF u = o THEN k ELSE f[u]
  BY <1>3
<1>5. PICK k2 : k2 = [k EXCEPT !.perf = q]
  OBVIOUS
<1>6. PICK h : h = [g EXCEPT ![o].perf = q]
  OBVIOUS
<1>7. h = [g EXCEPT ![o] = k2]
  BY <1>4, <1>5, <1>6
<1>8. DOMAIN h = Objects /\ \A u \in Objects : h[u] = IF u = o THEN k2 ELSE f[u]
  BY <1>4, <1>7
<1>9. PICK k3 : k3 = [k2 EXCEPT !.ready = r]
  OBVIOUS
<1>10. [h EXCEPT ![o].ready = r] = [h EXCEPT ![o] = k3]
  BY <1>8, <1>9
<1>11. [h EXCEPT ![o] = k3] = [f EXCEPT ![o] = k3]
  BY <1>8
<1>12. k3 = [f[o] EXCEPT !.parsed = p, !.perf = q, !.ready = r]
  BY <1>1, <1>5, <1>9
<1>13. [f EXCEPT ![o].parsed = p, ![o].perf = q, ![o].ready = r] = [h EXCEPT ![o].ready = r]
  BY <1>2, <1>6
<1> QED BY <1>10, <1>11, <1>12, <1>13

\* The two sides of the next lemma, named so that it can be used without unfolding them.
FieldByField(f, o, l, e, p, q, r) ==
    [f EXCEPT ![o].loaders = l, ![o].entries = e, ![o].parsed = p, ![o].perf = q, ![o].ready = r]
AllFields(m, l, e, p, q, r) ==
    [m EXCEPT !.loaders = l, !.entries = e, !.parsed = p, !.perf = q, !.ready = r]

\* The same for a load with replicas, which also gives the object new loaders and entries.
LEMMA ReplicaFields ==
    ASSUME NEW f \in [Objects -> Members], NEW o \in Objects, NEW l \in Seq(Ids), NEW e \in Ids,
           NEW p, NEW q, NEW r
    PROVE  FieldByField(f, o, l, e, p, q, r) = [f EXCEPT ![o] = AllFields(f[o], l, e, p, q, r)]
<1>1. PICK k : k = [f[o] EXCEPT !.loaders = l]
  OBVIOUS
<1>2. PICK g : g = [f EXCEPT ![o].loaders = l]
  OBVIOUS
<1>3. g = [f EXCEPT ![o] = k]
  BY <1>1, <1>2
<1>4. DOMAIN g = Objects /\ \A u \in Objects : g[u] = IF u = o THEN k ELSE f[u]
  BY <1>3
<1>5. PICK k2 : k2 = [k EXCEPT !.entries = e]
  OBVIOUS
<1>6. PICK h : h = [g EXCEPT ![o].entries = e]
  OBVIOUS
<1>7. h = [g EXCEPT ![o] = k2]
  BY <1>4, <1>5, <1>6
<1>8. h = [f EXCEPT ![o] = k2]
  BY <1>4, <1>7
<1>9. k \in Members /\ k2 \in Members
  BY <1>1, <1>5 DEF Members
<1>10. h \in [Objects -> Members] /\ h[o] = k2
  BY <1>8, <1>9
<1>11. [h EXCEPT ![o].parsed = p, ![o].perf = q, ![o].ready = r]
       = [h EXCEPT ![o] = [h[o] EXCEPT !.parsed = p, !.perf = q, !.ready = r]]
  BY <1>10, SingleFields
<1>12. PICK m : m = [k2 EXCEPT !.parsed = p, !.perf = q, !.ready = r]
  OBVIOUS
<1>13. [h EXCEPT ![o] = m] = [f EXCEPT ![o] = m]
  BY <1>8, <1>10
<1>14. m = AllFields(f[o], l, e, p, q, r)
  <2>1. m = [f[o] EXCEPT !.loaders = l, !.entries = e, !.parsed = p, !.perf = q, !.ready = r]
    BY <1>1, <1>5, <1>12
  <2> QED BY <2>1, Zenon DEF AllFields
<1>15. FieldByField(f, o, l, e, p, q, r) = [h EXCEPT ![o].parsed = p, ![o].perf = q, ![o].ready = r]
  <2>1. h = [[f EXCEPT ![o].loaders = l] EXCEPT ![o].entries = e]
    BY <1>2, <1>6
  <2> QED BY <2>1 DEF FieldByField
<1> QED BY <1>10, <1>11, <1>12, <1>13, <1>14, <1>15

\* An object with a loader, beside the others.
LEMMA OwnerFacts ==
    ASSUME IdsInv, ApartInv, NEW o \in Objects, obj[o].loaders # << >>
    PROVE  /\ Front(o) = obj[o].loaders[1] /\ Front(o) \in OwnedBy(obj[o]) /\ Front(o) \in 1..next /\ Front(o) \in Ids
           /\ ldr[Front(o)] \in Image /\ Len(obj[o].loaders) \in Nat /\ Len(obj[o].loaders) >= 1
           /\ obj[o].blob \in Blobs /\ obj[o] # NoObject
           /\ \A p \in Objects \ {o} : Front(o) \notin OwnedBy(obj[p])
<1>1. /\ obj[o] \in Members /\ OwnedBy(obj[o]) \subseteq 1..next /\ next \in Nat /\ MaxIds \in Nat /\ next <= MaxIds
  BY TypeFacts
<1>2. Len(obj[o].loaders) >= 1 /\ obj[o].loaders[1] \in OwnedBy(obj[o]) /\ Len(obj[o].loaders) \in Nat
  BY <1>1, FirstLoader, MembersFacts
<1>3. 1..next \subseteq Ids
  BY <1>1 DEF Ids
<1>4. obj[o].blob \in Blobs /\ \A x \in OwnedBy(obj[o]) : ldr[x] \in Image
  BY DEF IdsInv
<1>5. obj[o] # NoObject
  BY NoObjectFacts
<1>6. \A p \in Objects \ {o} : OwnedBy(obj[o]) \cap OwnedBy(obj[p]) = {}
  BY DEF ApartInv
<1> QED BY <1>1, <1>2, <1>3, <1>4, <1>5, <1>6 DEF Front

\* What others hold is none of the new buffers.
LEMMA OthersHold ==
    ASSUME IdsInv, ApartInv, NEW o \in Objects
    PROVE  \A p \in Objects \ {o} :
              /\ OwnedBy(obj[p]) \subseteq 1..next /\ OwnedBy(obj[p]) \cap OwnedBy(obj[o]) = {}
              /\ {obj[p].parsed, obj[p].entries} \subseteq 0..next
              /\ {obj[p].parsed, obj[p].entries} \cap OwnedBy(obj[o]) = {}
BY DEF IdsInv, ApartInv

\* The structure that load() or a copy puts into memory.
LEMMA StructureFacts ==
    ASSUME NEW b, NEW where, NEW at, NEW count, NEW perf, NEW s,
           s = SetHostParsedInference(b, where, at, count, perf)
    PROVE  s.where = where /\ s.at = at /\ s.count = count /\ s.slices = b.tiles
BY DEF SetHostParsedInference

\* load() of a network with one loader.
LEMMA LoadSingleDoes ==
    ASSUME IdsInv, ApartInv, NEW o \in Objects, LoadSingle(o)
    PROVE  Does(o)
<1>1. PICK b : b = obj[o].blob
  OBVIOUS
<1>2. PICK h : h = Front(o)
  OBVIOUS
<1>3. PICK q : q = (b.perf = 1)
  OBVIOUS
<1>4. PICK r : r = (b.perf <= 1)
  OBVIOUS
<1>5. PICK t : t = GetSymbolTable(b.arch, b.tiles)
  OBVIOUS
<1>6. PICK l : l = LoadedWith(ldr[h], t)
  OBVIOUS
<1>7. PICK s : s = SetHostParsedInference(b, "entry", h, 1, q)
  OBVIOUS
<1>8. /\ obj[o].loaders # << >> /\ ~Replicated(b) /\ next < MaxIds /\ ~ldr[h].loaded
      /\ ldr' = [ldr EXCEPT ![h] = l] /\ next' = next + 1
      /\ mem' = [mem EXCEPT ![next + 1] = IF r THEN s ELSE Blank]
      /\ obj' = [obj EXCEPT ![o].parsed = next + 1, ![o].perf = q, ![o].ready = r]
  BY <1>1, <1>2, <1>3, <1>4, <1>5, <1>6, <1>7 DEF LoadSingle, MayLoad
<1>9. q \in BOOLEAN /\ r \in BOOLEAN
  BY <1>3, <1>4
<1>10. /\ obj \in [Objects -> Members] /\ next \in Nat /\ MaxIds \in Nat /\ ldr \in [Ids -> Image \cup {Blank}]
       /\ DOMAIN mem = Ids
  BY TypeFacts
<1>11. /\ next + 1 \in Ids /\ next' \in next..MaxIds /\ next + 1 \in Fresh /\ next + 1 \notin 0..next
       /\ next + 1 # NoBuf /\ 1..next \subseteq 0..next
  BY <1>8, <1>10 DEF Ids, Fresh, NoBuf
<1>12. PICK m \in Members :
          /\ obj' = [obj EXCEPT ![o] = m]
          /\ m.blob = obj[o].blob /\ m.loaders = obj[o].loaders /\ m.entries = obj[o].entries
          /\ m.parsed = next + 1 /\ m.perf = q /\ m.ready = r
  <2>1. PICK f : f = obj
    OBVIOUS
  <2>2. PICK n : n = next + 1
    OBVIOUS
  <2>3. obj' = [f EXCEPT ![o].parsed = n, ![o].perf = q, ![o].ready = r] /\ f \in [Objects -> Members] /\ n \in Ids
    BY <1>8, <1>10, <1>11, <2>1, <2>2
  <2>4. PICK m : m = [f[o] EXCEPT !.parsed = n, !.perf = q, !.ready = r]
    OBVIOUS
  <2>5. obj' = [f EXCEPT ![o] = m]
    BY <2>3, <2>4, SingleFields
  <2>6. /\ m \in Members /\ m.blob = f[o].blob /\ m.loaders = f[o].loaders /\ m.entries = f[o].entries
        /\ m.parsed = n /\ m.perf = q /\ m.ready = r
    BY <1>9, <2>3, <2>4 DEF Members
  <2> QED BY <2>1, <2>2, <2>5, <2>6
<1>13. /\ h = obj[o].loaders[1] /\ h \in OwnedBy(obj[o]) /\ h \in 1..next /\ h \in Ids /\ ldr[h] \in Image
       /\ b \in Blobs /\ obj[o] # NoObject /\ \A p \in Objects \ {o} : h \notin OwnedBy(obj[p])
  BY <1>1, <1>2, <1>8, OwnerFacts
<1>14. t \in Nat /\ (t = TableFor(b, 1))
  BY <1>5, <1>8, <1>13, ReplicatedFacts DEF GetSymbolTable, TableFor
<1>15. /\ l \in Image /\ l.blob = ldr[h].blob /\ l.table = t /\ l.loaded
       /\ \A c : ImageOf(ldr[h], c) => ImageOf(l, c)
  <2>1. PICK k \in Image : k = ldr[h]
    BY <1>13
  <2>2. l = LoadedWith(k, t)
    BY <1>6, <2>1
  <2>3. /\ l \in Image /\ l.blob = k.blob /\ l.table = t /\ l.loaded
        /\ \A c : ImageOf(k, c) => ImageOf(l, c)
    BY <1>14, <2>2, LoadedFacts
  <2> QED BY <2>1, <2>3
<1>16. OwnedBy(m) = OwnedBy(obj[o])
  BY <1>12 DEF OwnedBy
<1>17. /\ ldr'[h] = l /\ ldr' \in [Ids -> Image \cup {Blank}] /\ \A x \in Ids \ {h} : ldr'[x] = ldr[x]
       /\ mem'[next + 1] = (IF r THEN s ELSE Blank) /\ DOMAIN mem' = Ids /\ \A x \in Ids \ {next + 1} : mem'[x] = mem[x]
  BY <1>8, <1>10, <1>11, <1>13, <1>15
<1>18. 1..next \subseteq Ids /\ \A x \in 1..next : x # next + 1
  BY <1>8, <1>10 DEF Ids
<1>19. /\ OwnedBy(obj[o]) \subseteq 1..next /\ obj[o].entries \in 0..next
       /\ \A x \in OwnedBy(obj[o]) : ldr[x] \in Image
  BY DEF IdsInv
<1>20. Changes(o, m)
  <2>1. \A p \in Objects \ {o} : \A x \in OwnedBy(obj[p]) : ldr'[x] = ldr[x]
    BY <1>13, <1>17, <1>18, OthersHold
  <2>2. \A p \in Objects \ {o} : \A x \in {obj[p].parsed, obj[p].entries} \ {NoBuf} : mem'[x] = mem[x]
    <3>1. \A x \in 0..next : x # NoBuf => x \in 1..next
      BY <1>10 DEF NoBuf
    <3> QED BY <1>17, <1>18, <3>1, OthersHold
  <2>3. \A x \in OwnedBy(m) : ldr'[x] \in Image
    BY <1>15, <1>16, <1>17, <1>18, <1>19
  <2>4. m.parsed \notin OwnedBy(m) /\ m.entries \notin OwnedBy(m)
    BY <1>11, <1>12, <1>16, <1>19 DEF ApartInv
  <2>5. Needs(m) \subseteq Fresh
    BY <1>1, <1>8, <1>11, <1>12 DEF Needs
  <2> QED BY <1>1, <1>8, <1>11, <1>12, <1>13, <1>16, <1>17, <2>1, <2>2, <2>3, <2>4, <2>5 DEF Changes
<1>21. ASSUME SoundInv PROVE Sound(m)'
  <2>1. Sound(obj[o])
    BY <1>21 DEF SoundInv
  <2>2. Admitted(b) /\ (\A x \in OwnedBy(obj[o]) : ImageOf(ldr[x], b)) /\ Len(obj[o].loaders) = 1
    BY <1>1, <1>8, <1>13, <2>1 DEF Sound
  <2>3. \A x \in OwnedBy(m) : ImageOf(ldr'[x], m.blob)
    BY <1>1, <1>12, <1>13, <1>15, <1>16, <1>17, <1>18, <1>19, <2>2
  <2>4. m.blob = b /\ m.loaders[1] = h /\ Len(m.loaders) = 1
    BY <1>1, <1>12, <1>13, <2>2
  <2>5. Runnable(m)'
    <3>1. Alike(m)'
      BY <2>4 DEF Alike
    <3> QED BY <1>8, <1>14, <1>15, <1>17, <2>4, <3>1 DEF Runnable, Replicas
  <2>6. ASSUME m.ready PROVE Leads(m)'
    <3>1. mem'[m.parsed] = s
      BY <1>12, <1>17, <2>6
    <3>2. s.where = "entry" /\ s.at = h /\ s.slices = b.tiles
      BY <1>7, StructureFacts
    <3> QED BY <1>8, <1>11, <1>12, <2>4, <3>1, <3>2 DEF Leads
  <2> QED BY <2>2, <2>3, <2>4, <2>5, <2>6 DEF Sound, OwnedBy, Admitted
<1> QED BY <1>20, <1>21 DEF Does

\* A call that only changes the images of its object.
LEMMA ImagesChange ==
    ASSUME IdsInv, ApartInv, NEW o \in Objects, NEW m, m = obj[o],
           obj' = obj, mem' = mem, next' = next, ldr' \in [Ids -> Image \cup {Blank}],
           \A x \in Ids \ OwnedBy(m) : ldr'[x] = ldr[x], \A x \in OwnedBy(m) : ldr'[x] \in Image
    PROVE  Changes(o, m)
<1>1. /\ obj \in [Objects -> Members] /\ m \in Members /\ ldr \in [Ids -> Image \cup {Blank}] /\ DOMAIN mem = Ids
      /\ next \in Nat /\ MaxIds \in Nat /\ next <= MaxIds
  BY TypeFacts
<1>2. obj' = [obj EXCEPT ![o] = m]
  BY <1>1
<1>3. /\ m.parsed \notin OwnedBy(m) /\ m.entries \notin OwnedBy(m)
      /\ m.loaders # << >> => m.blob \in Blobs
      /\ m.ready => m.loaders # << >>
  BY DEF IdsInv, ApartInv
<1>4. ASSUME NEW p \in Objects \ {o}, NEW x \in OwnedBy(obj[p]) PROVE ldr'[x] = ldr[x]
  <2>1. x \in 1..next /\ x \notin OwnedBy(m)
    <3>1. OwnedBy(obj[p]) \subseteq 1..next /\ OwnedBy(obj[p]) \cap OwnedBy(obj[o]) = {}
      BY OthersHold
    <3>2. OwnedBy(obj[o]) = OwnedBy(m)
      OBVIOUS
    <3> QED BY <3>1, <3>2
  <2>2. x \in Ids
    BY <1>1, <2>1 DEF Ids
  <2> QED BY <2>1, <2>2
<1>5. OwnedBy(m) = OwnedBy(obj[o]) /\ (m.ready => Needs(m) \subseteq IF obj[o].ready THEN Needs(obj[o]) ELSE {})
  OBVIOUS
<1>6. next' \in next..MaxIds /\ DOMAIN mem' = Ids /\ \A p \in Objects : \A x : mem'[x] = mem[x]
  BY <1>1
<1> QED BY <1>1, <1>2, <1>3, <1>4, <1>5, <1>6 DEF Changes

\* load() of such a network that throws.
LEMMA LoadSingleThrowsDoes ==
    ASSUME IdsInv, ApartInv, NEW o \in Objects, LoadSingleThrows(o)
    PROVE  Does(o)
<1>1. PICK m : m = obj[o]
  OBVIOUS
<1>2. PICK h : h = Front(o)
  OBVIOUS
<1>3. PICK t : t = GetSymbolTable(m.blob.arch, m.blob.tiles)
  OBVIOUS
<1>4. PICK k : k = ldr[h]
  OBVIOUS
<1>5. PICK l : l = LoadedWith(k, t)
  OBVIOUS
<1>6. /\ m.loaders # << >> /\ (ReloadsLoaded \/ m.parsed = NoBuf) /\ ~Replicated(m.blob)
      /\ ldr' = [ldr EXCEPT ![h] = l] /\ obj' = obj /\ mem' = mem /\ next' = next
  BY <1>1, <1>2, <1>3, <1>4, <1>5 DEF LoadSingleThrows, MayLoad
<1>7. /\ h = m.loaders[1] /\ h \in OwnedBy(m) /\ h \in Ids /\ k \in Image
      /\ m.blob \in Blobs /\ m # NoObject
  BY <1>1, <1>2, <1>4, <1>6, OwnerFacts
<1>8. t \in Nat
  BY <1>3, <1>7, ReplicatedFacts DEF GetSymbolTable
<1>9. l \in Image /\ l.loaded /\ \A b : ImageOf(k, b) => ImageOf(l, b)
  BY <1>5, <1>7, <1>8, LoadedFacts
<1>10. /\ ldr'[h] = l /\ ldr' \in [Ids -> Image \cup {Blank}] /\ \A x \in Ids \ {h} : ldr'[x] = ldr[x]
       /\ OwnedBy(m) \subseteq Ids /\ \A x \in OwnedBy(m) : ldr[x] \in Image
  BY <1>1, <1>6, <1>7, <1>9, TypeFacts, MembersFacts DEF IdsInv
<1>11. Changes(o, m)
  BY <1>1, <1>6, <1>7, <1>9, <1>10, ImagesChange
<1>12. ASSUME Tame, SoundInv PROVE Sound(m)'
  <2>1. Sound(m)
    BY <1>1, <1>12 DEF SoundInv
  <2>2. ~m.ready
    BY <1>6, <1>12, <2>1 DEF Sound, Leads, Tame
  <2>3. \A x \in OwnedBy(m) : ImageOf(ldr'[x], m.blob)
    BY <1>4, <1>7, <1>9, <1>10, <2>1 DEF Sound
  <2> QED BY <1>7, <1>9, <1>10, <2>1, <2>2, <2>3 DEF Sound, OwnedBy
<1> QED BY <1>11, <1>12 DEF Does

\* The user buffers of an inference.
LEMMA ApplyInputOutputDoes ==
    ASSUME IdsInv, ApartInv, NEW o \in Objects, NEW u \in UserIO, ApplyInputOutput(o, u)
    PROVE  Does(o)
<1>1. PICK m : m = obj[o]
  OBVIOUS
<1>2. /\ m.ready /\ obj' = obj /\ mem' = mem /\ next' = next
      /\ ldr' = [x \in Ids |-> IF x \in OwnedBy(m) THEN [ldr[x] EXCEPT !.io = u] ELSE ldr[x]]
  BY <1>1 DEF ApplyInputOutput, PatchedBy, Owned, OwnedBy, Ready
<1>3. m \in Members /\ OwnedBy(m) \subseteq Ids /\ m.loaders # << >> /\ \A x \in OwnedBy(m) : ldr[x] \in Image
  BY <1>1, <1>2, TypeFacts, MembersFacts DEF IdsInv
<1>4. ASSUME NEW x \in OwnedBy(m)
      PROVE  /\ ldr'[x] \in Image /\ ldr'[x].io = u /\ ldr'[x].blob = ldr[x].blob /\ ldr'[x].table = ldr[x].table
             /\ (ldr'[x].loaded <=> ldr[x].loaded) /\ ldr'[x].scratch = ldr[x].scratch
             /\ (ldr'[x].parallel <=> ldr[x].parallel)
  <2>1. ldr'[x] = [ldr[x] EXCEPT !.io = u] /\ ldr[x] \in Image
    BY <1>2, <1>3
  <2> QED BY <2>1 DEF Image
<1>5. ldr' \in [Ids -> Image \cup {Blank}] /\ \A x \in Ids \ OwnedBy(m) : ldr'[x] = ldr[x]
  <2>1. \A x \in Ids \ OwnedBy(m) : ldr'[x] = ldr[x] /\ ldr[x] \in Image \cup {Blank}
    BY <1>2, TypeFacts
  <2>2. \A x \in Ids : (IF x \in OwnedBy(m) THEN [ldr[x] EXCEPT !.io = u] ELSE ldr[x]) \in Image \cup {Blank}
    BY <1>2, <1>4, <2>1
  <2> QED BY <1>2, <2>1, <2>2
<1>6. Changes(o, m)
  BY <1>1, <1>2, <1>4, <1>5, ImagesChange
<1>7. ASSUME SoundInv PROVE Sound(m)'
  <2>1. Sound(m) /\ Runnable(m) /\ Leads(m)
    BY <1>1, <1>2, <1>7 DEF SoundInv, Sound
  <2>2. \A i \in 1..Len(m.loaders) : m.loaders[i] \in OwnedBy(m)
    BY DEF OwnedBy
  <2>3. m.loaders[1] \in OwnedBy(m)
    BY <1>3, FirstLoader
  <2>4. \A x \in OwnedBy(m) : ldr[x].loaded
    BY <2>1 DEF Runnable, OwnedBy
  <2>5. \A x \in OwnedBy(m) : ImageOf(ldr'[x], m.blob)
    BY <1>4, <2>1, <2>4 DEF Sound, ImageOf
  <2>6. Runnable(m)'
    <3>1. Alike(m)'
      BY <1>4, <2>2, <2>3 DEF Alike
    <3> QED BY <1>4, <2>1, <2>2, <3>1 DEF Runnable
  <2>7. Leads(m)'
    BY <1>2, <2>1 DEF Leads
  <2>8. ldr'[m.loaders[1]].loaded
    BY <1>4, <2>3, <2>4
  <2> QED BY <2>1, <2>5, <2>6, <2>7, <2>8 DEF Sound, OwnedBy
<1> QED BY <1>6, <1>7 DEF Does

\* The user buffers of an inference that throws: the loader that threw is broken.
LEMMA ApplyInputOutputThrowsDoes ==
    ASSUME IdsInv, ApartInv, NEW o \in Objects, NEW u \in UserIO, NEW k \in Nat,
           ApplyInputOutputThrows(o, u, k)
    PROVE  Does(o)
<1>1. PICK m : m = obj[o]
  OBVIOUS
<1>2. PICK h : h = m.loaders[k]
  OBVIOUS
<1>3. PICK before : before = {x \in Ids : \E i \in 1..k - 1 : x = m.loaders[i]}
  OBVIOUS
<1>4. /\ m.ready /\ k \in 1..Len(m.loaders) /\ obj' = obj /\ mem' = mem /\ next' = next
      /\ ldr' = [x \in Ids |-> IF x = h THEN [ldr[x] EXCEPT !.io = Broken]
                              ELSE IF x \in before THEN [ldr[x] EXCEPT !.io = u] ELSE ldr[x]]
  BY <1>1, <1>2, <1>3 DEF ApplyInputOutputThrows, Ready
<1>5. /\ m \in Members /\ OwnedBy(m) \subseteq Ids /\ m.loaders # << >> /\ Len(m.loaders) \in Nat
      /\ \A x \in OwnedBy(m) : ldr[x] \in Image
  BY <1>1, <1>4, TypeFacts, MembersFacts DEF IdsInv
<1>6. h \in OwnedBy(m) /\ before \subseteq OwnedBy(m)
  <2>1. 1..k - 1 \subseteq 1..Len(m.loaders)
    BY <1>4, <1>5
  <2> QED BY <1>2, <1>3, <1>4, <2>1 DEF OwnedBy
<1>7. ASSUME NEW x \in OwnedBy(m)
      PROVE  /\ ldr'[x] \in Image /\ ldr'[x].blob = ldr[x].blob /\ ldr'[x].table = ldr[x].table
             /\ (ldr'[x].loaded <=> ldr[x].loaded) /\ ldr'[x].scratch = ldr[x].scratch
             /\ (ldr'[x].parallel <=> ldr[x].parallel) /\ (x = h => ldr'[x].io = Broken)
  <2>1. PICK l \in Image : l = ldr[x]
    BY <1>5
  <2>2. CASE x = h
    <3>1. ldr'[x] = [l EXCEPT !.io = Broken]
      BY <1>4, <1>5, <2>1, <2>2
    <3> QED BY <2>1, <3>1 DEF Image
  <2>3. CASE x # h /\ x \in before
    <3>1. ldr'[x] = [l EXCEPT !.io = u]
      BY <1>4, <1>5, <2>1, <2>3
    <3> QED BY <2>1, <2>3, <3>1 DEF Image
  <2>4. CASE x # h /\ x \notin before
    <3>1. ldr'[x] = l
      BY <1>4, <1>5, <2>1, <2>4
    <3> QED BY <2>1, <2>4, <3>1
  <2> QED BY <2>2, <2>3, <2>4
<1>8. ldr' \in [Ids -> Image \cup {Blank}] /\ \A x \in Ids \ OwnedBy(m) : ldr'[x] = ldr[x]
  <2>1. \A x \in Ids \ OwnedBy(m) : ldr'[x] = ldr[x] /\ ldr[x] \in Image \cup {Blank}
    BY <1>4, <1>6, TypeFacts
  <2>2. \A x \in Ids : ldr'[x] \in Image \cup {Blank}
    BY <1>7, <2>1
  <2>3. ldr' = [x \in Ids |-> ldr'[x]]
    BY <1>4
  <2> QED BY <2>1, <2>2, <2>3
<1>9. Changes(o, m)
  BY <1>1, <1>4, <1>7, <1>8, ImagesChange
<1>10. ASSUME SoundInv PROVE Sound(m)'
  <2>1. Sound(m) /\ Runnable(m) /\ Leads(m)
    BY <1>1, <1>4, <1>10 DEF SoundInv, Sound
  <2>2. \A i \in 1..Len(m.loaders) : m.loaders[i] \in OwnedBy(m)
    BY DEF OwnedBy
  <2>3. m.loaders[1] \in OwnedBy(m)
    BY <1>5, FirstLoader
  <2>4. \A x \in OwnedBy(m) : ldr[x].loaded
    BY <2>1 DEF Runnable, OwnedBy
  <2>5. \A x \in OwnedBy(m) : ImageOf(ldr'[x], m.blob)
    BY <1>7, <2>1, <2>4 DEF Sound, ImageOf
  <2>6. Runnable(m)'
    <3>1. Alike(m)'
      BY <1>2, <1>4, <1>6, <1>7 DEF Alike
    <3> QED BY <1>7, <2>1, <2>2, <3>1 DEF Runnable
  <2>7. Leads(m)'
    BY <1>4, <2>1 DEF Leads
  <2>8. ldr'[m.loaders[1]].loaded
    BY <1>7, <2>3, <2>4
  <2> QED BY <2>1, <2>5, <2>6, <2>7, <2>8 DEF Sound, OwnedBy
<1> QED BY <1>9, <1>10 DEF Does

\* Scratch that the driver changes under the first loader, which is the only one then.
LEMMA RelocateFrontDoes ==
    ASSUME IdsInv, ApartInv, NEW o \in Objects, NEW k \in ScratchSets \cup {Broken},
           NEW u \in {NoIO, Broken}, RelocateFront(o, k, u)
    PROVE  Does(o)
<1>1. PICK m : m = obj[o]
  OBVIOUS
<1>2. PICK h : h = Front(o)
  OBVIOUS
<1>3. PICK l : l = ldr[h]
  OBVIOUS
<1>4. PICK n : n = [l EXCEPT !.scratch = k, !.io = u]
  OBVIOUS
<1>5. /\ m.ready /\ ~l.parallel /\ obj' = obj /\ mem' = mem /\ next' = next
      /\ ldr' = [ldr EXCEPT ![h].scratch = k, ![h].io = u]
  BY <1>1, <1>2, <1>3 DEF RelocateFront, SharesScratch, Ready
<1>6. m \in Members /\ OwnedBy(m) \subseteq Ids /\ m.loaders # << >> /\ \A x \in OwnedBy(m) : ldr[x] \in Image
  BY <1>1, <1>5, TypeFacts, MembersFacts DEF IdsInv
<1>7. h = m.loaders[1] /\ h \in OwnedBy(m) /\ h \in Ids /\ l \in Image /\ m.blob \in Blobs
  BY <1>1, <1>2, <1>3, <1>6, OwnerFacts
<1>8. /\ n \in Image /\ n.scratch = k /\ n.io = u /\ n.blob = l.blob /\ n.table = l.table
      /\ (n.loaded <=> l.loaded) /\ (n.parallel <=> l.parallel)
  BY <1>4, <1>7 DEF Image
<1>9. ldr' = [ldr EXCEPT ![h] = n]
  <2>1. PICK f : f = ldr
    OBVIOUS
  <2>2. DOMAIN f = Ids /\ f[h] = l /\ f = [x \in Ids |-> f[x]]
    BY <1>3, <2>1, TypeFacts
  <2>3. PICK g : g = [f EXCEPT ![h].scratch = k]
    OBVIOUS
  <2>4. g = [f EXCEPT ![h] = [l EXCEPT !.scratch = k]]
    BY <2>2, <2>3
  <2>5. [g EXCEPT ![h].io = u] = [f EXCEPT ![h] = n]
    <3>1. g[h] = [l EXCEPT !.scratch = k] /\ DOMAIN g = Ids
      BY <1>7, <2>2, <2>4
    <3>2. [g EXCEPT ![h].io = u] = [g EXCEPT ![h] = n]
      BY <1>4, <3>1
    <3> QED BY <2>2, <2>4, <3>1, <3>2
  <2>6. ldr' = [g EXCEPT ![h].io = u]
    BY <1>5, <2>1, <2>3
  <2> QED BY <2>1, <2>5, <2>6
<1>10. /\ ldr'[h] = n /\ ldr' \in [Ids -> Image \cup {Blank}] /\ \A x \in Ids \ {h} : ldr'[x] = ldr[x]
  BY <1>7, <1>8, <1>9, TypeFacts
<1>11. Changes(o, m)
  <2>1. /\ \A x \in Ids \ OwnedBy(m) : ldr'[x] = ldr[x]
        /\ \A x \in OwnedBy(m) : ldr'[x] \in Image
    BY <1>6, <1>7, <1>8, <1>10
  <2> QED BY <1>1, <1>5, <1>10, <2>1, ImagesChange
<1>12. ASSUME SoundInv PROVE Sound(m)'
  <2>1. Sound(m) /\ Runnable(m) /\ Leads(m) /\ ImageOf(l, m.blob)
    BY <1>1, <1>3, <1>5, <1>7, <1>12 DEF SoundInv, Sound
  <2>2. ~Replicated(m.blob)
    BY <1>5, <1>7, <2>1, ReplicatedFacts DEF ImageOf, MayBeRunInParallel
  <2>3. Len(m.loaders) = 1 /\ l.loaded
    BY <1>3, <1>7, <2>1, <2>2 DEF Runnable, Replicas
  <2>4. ImageOf(n, m.blob) /\ n.loaded
    BY <1>5, <1>8, <2>1, <2>3 DEF ImageOf
  <2>5. \A x \in OwnedBy(m) : ImageOf(ldr'[x], m.blob)
    BY <1>6, <1>10, <2>1, <2>4 DEF Sound
  <2>6. Runnable(m)'
    <3>1. ldr'[m.loaders[1]] = n /\ l.table = TableFor(m.blob, 1)
      BY <1>3, <1>7, <1>10, <2>1, <2>3 DEF Runnable
    <3>2. Alike(m)'
      BY <2>3 DEF Alike
    <3> QED BY <1>8, <2>1, <2>3, <2>4, <3>1, <3>2 DEF Runnable
  <2>7. Leads(m)'
    BY <1>5, <2>1 DEF Leads
  <2> QED BY <1>7, <1>10, <2>1, <2>4, <2>5, <2>6, <2>7 DEF Sound, OwnedBy
<1> QED BY <1>11, <1>12 DEF Does

\* The call and the one that throws.
LEMMA UpdateSharedScratchBuffersDoes ==
    ASSUME IdsInv, ApartInv, NEW o \in Objects,
           (\E k \in ScratchSets : UpdateSharedScratchBuffers(o, k)) \/ UpdateSharedScratchBuffersThrows(o)
    PROVE  Does(o)
<1>1. ASSUME NEW k \in ScratchSets, UpdateSharedScratchBuffers(o, k) PROVE Does(o)
  BY <1>1, RelocateFrontDoes DEF UpdateSharedScratchBuffers
<1>2. ASSUME UpdateSharedScratchBuffersThrows(o) PROVE Does(o)
  BY <1>2, RelocateFrontDoes DEF UpdateSharedScratchBuffersThrows
<1> QED BY <1>1, <1>2

\* Where a call drops buffers that nobody holds, the others keep theirs.
LEMMA HeldStays ==
    ASSUME IdsInv, NEW o \in Objects, NEW m, obj'[o] = m, \A p \in Objects : p # o => obj'[p] = obj[p],
           NEW B, mem' = Held(B), \A x \in 1..next : B[x] = mem[x]
    PROVE  /\ DOMAIN mem' = Ids
           /\ \A p \in Objects \ {o} : \A x \in {obj[p].parsed, obj[p].entries} \ {NoBuf} : mem'[x] = mem[x]
           /\ \A x \in {m.parsed, m.entries} \cap Ids : mem'[x] = B[x]
<1>1. obj'[o] = m /\ \A p \in Objects : p # o => obj'[p] = obj[p]
  OBVIOUS
<1>2. /\ DOMAIN mem' = Ids
      /\ \A p \in Objects : \A x \in {obj'[p].parsed, obj'[p].entries} \cap Ids : mem'[x] = B[x]
  BY HeldFacts
<1>3. ASSUME NEW p \in Objects \ {o}, NEW x \in {obj[p].parsed, obj[p].entries} \ {NoBuf}
      PROVE  mem'[x] = mem[x]
  <2>1. next \in Nat /\ MaxIds \in Nat /\ next <= MaxIds
    BY TypeFacts
  <2>2. x \in 0..next /\ x # NoBuf
    BY DEF IdsInv
  <2>3. x \in 1..next /\ x \in Ids
    BY <2>1, <2>2 DEF NoBuf, Ids
  <2> QED BY <1>1, <1>2, <2>3
<1> QED BY <1>1, <1>2, <1>3

\* The images after n tiles have been loaded.
LEMMA TileImagesFacts ==
    ASSUME IdsInv, NEW o \in Objects, NEW n \in 1..2, NEW h, h = Front(o), h \in 1..next, ldr[h] \in Image,
           next + n <= MaxIds, ldr' = TileImages(o, n)
    PROVE  /\ ldr' \in [Ids -> Image \cup {Blank}]
           /\ \A x \in 1..next \ {h} : ldr'[x] = ldr[x]
           /\ ldr'[h] \in Image /\ ldr'[h].loaded /\ ldr'[h].table = 0 /\ ldr'[h].io = ldr[h].io
           /\ \A c : ImageOf(ldr[h], c) => ImageOf(ldr'[h], c)
           /\ n = 2 => /\ ldr'[next + 2] \in Image /\ ldr'[next + 2].loaded /\ ldr'[next + 2].table = 1
                       /\ ldr'[next + 2].io = NoIO
                       /\ \A c : ImageOf(ldr[h], c) => ImageOf(ldr'[next + 2], c)
<1>1. next \in Nat /\ MaxIds \in Nat /\ next <= MaxIds /\ ldr \in [Ids -> Image \cup {Blank}]
  BY TypeFacts
<1>2. PICK k : k = ldr[h]
  OBVIOUS
<1>3. PICK l : l = LoadedWith(k, 0)
  OBVIOUS
<1>4. PICK c2 : c2 = CloneOf(l, 1)
  OBVIOUS
<1>5. /\ l \in Image /\ l.loaded /\ l.table = 0 /\ l.io = k.io /\ \A c : ImageOf(k, c) => ImageOf(l, c)
  BY <1>2, <1>3, LoadedFacts
<1>6. /\ c2 \in Image /\ c2.loaded /\ c2.table = 1 /\ c2.io = NoIO /\ \A c : ImageOf(l, c) => ImageOf(c2, c)
  <2>1. PICK t : t = 1
    OBVIOUS
  <2>2. t \in {NoTable} \cup Nat /\ c2 = CloneOf(l, t) /\ l \in Image
    BY <1>4, <1>5, <2>1
  <2>3. /\ c2 \in Image /\ (c2.loaded <=> l.loaded) /\ c2.table = t /\ c2.io = NoIO
        /\ \A c : ImageOf(l, c) => ImageOf(c2, c)
    BY <2>2, CloneFacts
  <2> QED BY <1>5, <2>1, <2>3
<1>7. TileTable(1) = 0 /\ TileTable(2) = 1
  BY DEF TileTable, GetSymbolTable
<1>8. ldr' = [x \in Ids |-> IF x = h THEN LoadedWith(ldr[x], 0)
                            ELSE IF x \in next + 2 .. next + n THEN CloneOf(LoadedWith(ldr[h], 0), TileTable(x - next))
                            ELSE ldr[x]]
  BY <1>7 DEF TileImages
<1>9. ASSUME NEW x \in Ids
      PROVE  ldr'[x] = IF x = h THEN l ELSE IF n = 2 /\ x = next + 2 THEN c2 ELSE ldr[x]
  <2>1. CASE x = h
    BY <1>2, <1>3, <1>8, <2>1
  <2>2. CASE x # h /\ n = 2 /\ x = next + 2
    <3>1. x \in next + 2 .. next + n /\ x - next = 2
      BY <1>1, <2>2
    <3> QED BY <1>2, <1>3, <1>4, <1>7, <1>8, <2>2, <3>1
  <2>3. CASE x # h /\ ~(n = 2 /\ x = next + 2)
    <3>1. x \notin next + 2 .. next + n
      BY <1>1, <2>3 DEF Ids
    <3> QED BY <1>8, <2>3, <3>1
  <2> QED BY <2>1, <2>2, <2>3
<1>10. DOMAIN ldr' = Ids /\ ldr' = [x \in Ids |-> ldr'[x]]
  BY <1>8
<1>11. ldr' \in [Ids -> Image \cup {Blank}]
  <2>1. \A x \in Ids : ldr'[x] \in Image \cup {Blank}
    BY <1>1, <1>5, <1>6, <1>9
  <2> QED BY <1>10, <2>1
<1>12. h \in Ids /\ 1..next \subseteq Ids /\ \A x \in 1..next : x # next + 2
  BY <1>1 DEF Ids
<1>13. n = 2 => next + 2 \in Ids /\ next + 2 # h
  BY <1>1 DEF Ids
<1>14. ldr'[h] = l /\ (\A x \in 1..next \ {h} : ldr'[x] = ldr[x]) /\ (n = 2 => ldr'[next + 2] = c2)
  BY <1>9, <1>12, <1>13
<1> QED BY <1>2, <1>5, <1>6, <1>11, <1>14

\* load() of a network that gets a loader for each tile.
LEMMA LoadReplicasDoes ==
    ASSUME IdsInv, ApartInv, NEW o \in Objects, LoadReplicas(o)
    PROVE  Does(o)
<1>1. PICK b : b = obj[o].blob
  OBVIOUS
<1>2. PICK h : h = Front(o)
  OBVIOUS
<1>3. PICK q : q = (b.perf = 1)
  OBVIOUS
<1>4. PICK r : r = (b.perf <= 1)
  OBVIOUS
<1>5. PICK T : T = TileLoaders(o, 2)
  OBVIOUS
<1>6. PICK s : s = SetHostParsedInference(b, "entries", next + 1, 2, q)
  OBVIOUS
<1>7. PICK B : B = [mem EXCEPT ![next + 1] = [kind |-> "entries", of |-> T],
                               ![next + 3] = IF r THEN s ELSE Blank]
  OBVIOUS
<1>8. obj[o].loaders # << >> /\ Replicated(b)
  BY <1>1 DEF LoadReplicas, MayLoad
<1>9. /\ h = obj[o].loaders[1] /\ h \in OwnedBy(obj[o]) /\ h \in 1..next /\ h \in Ids /\ ldr[h] \in Image
      /\ b \in Blobs /\ obj[o] # NoObject /\ \A p \in Objects \ {o} : h \notin OwnedBy(obj[p])
  BY <1>1, <1>2, <1>8, OwnerFacts
<1>10. GetArchTilesCount(b.arch) = 2
  BY <1>8, <1>9, ReplicatedFacts
<1>11. /\ obj \in [Objects -> Members] /\ next \in Nat /\ MaxIds \in Nat /\ DOMAIN mem = Ids
  BY TypeFacts
<1>12. /\ next + 3 <= MaxIds /\ ~ldr[h].loaded /\ ldr' = TileImages(o, 2) /\ next' = next + 3
       /\ mem' = Held(B)
       /\ obj' = [obj EXCEPT ![o].loaders = T, ![o].entries = next + 1, ![o].parsed = next + 3,
                             ![o].perf = q, ![o].ready = r]
  <2>1. next + 2 + 1 = next + 3
    BY <1>11
  <2> QED BY <1>1, <1>2, <1>3, <1>4, <1>5, <1>6, <1>7, <1>10, <2>1 DEF LoadReplicas
<1>13. /\ next + 1 \in Ids /\ next + 2 \in Ids /\ next + 3 \in Ids /\ next' \in next..MaxIds
       /\ next + 1 \in Fresh /\ next + 2 \in Fresh /\ next + 3 \in Fresh
       /\ next + 1 \notin 1..next /\ next + 2 \notin 1..next /\ next + 3 \notin 1..next
       /\ next + 1 # NoBuf /\ next + 3 # NoBuf /\ next + 1 # next + 2 /\ next + 3 # next + 2 /\ next + 1 # next + 3
  BY <1>11, <1>12 DEF Ids, Fresh, NoBuf
<1>14. T \in Seq(Ids) /\ Len(T) = 2 /\ T[1] = h /\ T[2] = next + 2
  <2>1. PICK n : n = 2
    OBVIOUS
  <2>2. n \in 1..2 /\ Front(o) \in Ids /\ next \in Nat /\ next + n <= MaxIds /\ T = TileLoaders(o, n)
    BY <1>2, <1>5, <1>9, <1>11, <1>12, <2>1
  <2>3. T \in Seq(Ids) /\ Len(T) = n /\ T[1] = Front(o) /\ (n = 2 => T[2] = next + 2)
    BY <2>2, TileLoadersFacts
  <2> QED BY <1>2, <2>1, <2>3
<1>15. PICK m \in Members :
          /\ obj' = [obj EXCEPT ![o] = m]
          /\ m.blob = b /\ m.loaders = T /\ m.entries = next + 1
          /\ m.parsed = next + 3 /\ m.perf = q /\ m.ready = r
  <2>1. PICK f : f = obj
    OBVIOUS
  <2>2. PICK e : e = next + 1
    OBVIOUS
  <2>3. PICK n : n = next + 3
    OBVIOUS
  <2>4. /\ obj' = [f EXCEPT ![o].loaders = T, ![o].entries = e, ![o].parsed = n, ![o].perf = q, ![o].ready = r]
        /\ f \in [Objects -> Members] /\ e \in Ids /\ n \in Ids
    BY <1>11, <1>12, <1>13, <2>1, <2>2, <2>3
  <2>5. PICK m : m = [f[o] EXCEPT !.loaders = T, !.entries = e, !.parsed = n, !.perf = q, !.ready = r]
    OBVIOUS
  <2>6. obj' = [f EXCEPT ![o] = m]
    <3>1. T \in Seq(Ids) /\ e \in Ids /\ f \in [Objects -> Members]
      BY <1>14, <2>4
    <3>2. FieldByField(f, o, T, e, n, q, r) = [f EXCEPT ![o] = AllFields(f[o], T, e, n, q, r)]
      BY <3>1, ReplicaFields
    <3>3. obj' = FieldByField(f, o, T, e, n, q, r)
      BY <2>4, Zenon DEF FieldByField
    <3>4. m = AllFields(f[o], T, e, n, q, r)
      BY <2>5, Zenon DEF AllFields
    <3> QED BY <3>2, <3>3, <3>4
  <2>7. q \in BOOLEAN /\ r \in BOOLEAN
    BY <1>3, <1>4
  <2>8. /\ m \in Members /\ m.blob = f[o].blob /\ m.loaders = T /\ m.entries = e
        /\ m.parsed = n /\ m.perf = q /\ m.ready = r
    BY <1>14, <2>4, <2>5, <2>7 DEF Members
  <2> QED BY <1>1, <2>1, <2>2, <2>3, <2>6, <2>8
<1>16. OwnedBy(m) = {h, next + 2}
  <2>1. OwnedBy(m) = {T[i] : i \in 1..2}
    BY <1>14, <1>15 DEF OwnedBy
  <2>2. 1..2 = {1, 2}
    OBVIOUS
  <2> QED BY <1>14, <2>1, <2>2
<1>17. PICK n : n = 2
  OBVIOUS
<1>18. /\ ldr' \in [Ids -> Image \cup {Blank}]
       /\ \A x \in 1..next \ {h} : ldr'[x] = ldr[x]
       /\ ldr'[h] \in Image /\ ldr'[h].loaded /\ ldr'[h].table = 0 /\ ldr'[h].io = ldr[h].io
       /\ \A c : ImageOf(ldr[h], c) => ImageOf(ldr'[h], c)
       /\ ldr'[next + 2] \in Image /\ ldr'[next + 2].loaded /\ ldr'[next + 2].table = 1
       /\ ldr'[next + 2].io = NoIO
       /\ \A c : ImageOf(ldr[h], c) => ImageOf(ldr'[next + 2], c)
  <2>1. n \in 1..2 /\ next + n <= MaxIds /\ ldr' = TileImages(o, n)
    BY <1>11, <1>12, <1>17
  <2>2. h = Front(o) /\ h \in 1..next /\ ldr[h] \in Image
    BY <1>2, <1>9
  <2>3. /\ ldr' \in [Ids -> Image \cup {Blank}]
        /\ \A x \in 1..next \ {h} : ldr'[x] = ldr[x]
        /\ ldr'[h] \in Image /\ ldr'[h].loaded /\ ldr'[h].table = 0 /\ ldr'[h].io = ldr[h].io
        /\ \A c : ImageOf(ldr[h], c) => ImageOf(ldr'[h], c)
        /\ n = 2 => /\ ldr'[next + 2] \in Image /\ ldr'[next + 2].loaded /\ ldr'[next + 2].table = 1
                    /\ ldr'[next + 2].io = NoIO
                    /\ \A c : ImageOf(ldr[h], c) => ImageOf(ldr'[next + 2], c)
    BY <2>1, <2>2, TileImagesFacts
  <2> QED BY <1>17, <2>3
<1>19. /\ \A x \in 1..next : B[x] = mem[x]
       /\ B[next + 1] = [kind |-> "entries", of |-> T] /\ B[next + 3] = (IF r THEN s ELSE Blank)
  <2>1. 1..next \subseteq Ids
    BY <1>11, <1>12 DEF Ids
  <2> QED BY <1>7, <1>11, <1>13, <2>1
<1>20. /\ DOMAIN mem' = Ids
       /\ \A p \in Objects \ {o} : \A x \in {obj[p].parsed, obj[p].entries} \ {NoBuf} : mem'[x] = mem[x]
       /\ mem'[next + 1] = [kind |-> "entries", of |-> T] /\ mem'[next + 3] = (IF r THEN s ELSE Blank)
  <2>1. /\ DOMAIN mem' = Ids
        /\ \A p \in Objects \ {o} : \A x \in {obj[p].parsed, obj[p].entries} \ {NoBuf} : mem'[x] = mem[x]
        /\ \A x \in {m.parsed, m.entries} \cap Ids : mem'[x] = B[x]
    <3>1. mem' = Held(B)
      BY <1>12
    <3>2. obj'[o] = m /\ \A p \in Objects : p # o => obj'[p] = obj[p]
      BY <1>11, <1>15
    <3>3. \A x \in 1..next : B[x] = mem[x]
      BY <1>19
    <3> QED BY <3>1, <3>2, <3>3, HeldStays
  <2> QED BY <1>13, <1>15, <1>19, <2>1
<1>21. Changes(o, m)
  <2>1. \A p \in Objects \ {o} : \A x \in OwnedBy(obj[p]) : ldr'[x] = ldr[x]
    BY <1>9, <1>18, OthersHold
  <2>2. \A x \in OwnedBy(m) : ldr'[x] \in Image
    BY <1>16, <1>18
  <2>3. m.parsed \notin OwnedBy(m) /\ m.entries \notin OwnedBy(m)
    BY <1>9, <1>13, <1>15, <1>16
  <2>4. Needs(m) \subseteq Fresh
    BY <1>13, <1>15 DEF Needs
  <2>5. OwnedBy(m) \subseteq OwnedBy(obj[o]) \cup Fresh /\ m.loaders # << >>
    BY <1>9, <1>13, <1>14, <1>15, <1>16
  <2>6. obj' = [obj EXCEPT ![o] = m]
    BY <1>15
  <2> QED BY <1>9, <1>13, <1>15, <1>18, <1>20, <2>1, <2>2, <2>3, <2>4, <2>5, <2>6 DEF Changes
<1>22. ASSUME SoundInv PROVE Sound(m)'
  <2>1. Sound(obj[o])
    BY <1>22 DEF SoundInv
  <2>2. Admitted(b) /\ ImageOf(ldr[h], b)
    BY <1>1, <1>9, <2>1 DEF Sound
  <2>3. ldr'[h].io = NoIO
    BY <1>12, <1>18, <2>2 DEF ImageOf
  <2>4. \A x \in OwnedBy(m) : ImageOf(ldr'[x], m.blob)
    BY <1>15, <1>16, <1>18, <2>2
  <2>5. Runnable(m)'
    <3>1. b.arch = "VPUX37XX"
      BY <1>8, <1>9, ReplicatedFacts
    <3>2. TableFor(b, 1) = 0 /\ TableFor(b, 2) = 1 /\ Replicas(b) = 2
      BY <1>8, <3>1 DEF TableFor, Replicas
    <3>3. \A i \in 1..2 : /\ ldr'[T[i]].loaded /\ ldr'[T[i]].table = TableFor(b, i)
                         /\ ldr'[T[i]].io = ldr'[T[1]].io
      <4>1. ldr'[T[1]].loaded /\ ldr'[T[1]].table = TableFor(b, 1)
        BY <1>14, <1>18, <3>2
      <4>2. ldr'[T[2]].loaded /\ ldr'[T[2]].table = TableFor(b, 2) /\ ldr'[T[2]].io = ldr'[T[1]].io
        BY <1>14, <1>18, <2>3, <3>2
      <4>3. \A i \in 1..2 : i = 1 \/ i = 2
        OBVIOUS
      <4> QED BY <4>1, <4>2, <4>3
    <3>4. m.blob = b /\ m.loaders = T /\ Len(T) = 2
      BY <1>14, <1>15
    <3>5. Alike(m)'
      BY <3>3, <3>4 DEF Alike
    <3> QED BY <3>2, <3>3, <3>4, <3>5 DEF Runnable
  <2>6. ASSUME m.ready PROVE Leads(m)'
    <3>1. mem'[m.parsed] = s /\ mem'[m.entries].of = T
      BY <1>15, <1>20, <2>6
    <3>2. s.where = "entries" /\ s.at = next + 1 /\ s.count = 2 /\ s.slices = b.tiles
      BY <1>6, StructureFacts
    <3> QED BY <1>8, <1>13, <1>15, <3>1, <3>2 DEF Leads
  <2>7. ldr'[m.loaders[1]].loaded /\ m.blob = b
    BY <1>14, <1>15, <1>18
  <2> QED BY <2>2, <2>4, <2>5, <2>6, <2>7 DEF Sound, OwnedBy, Admitted
<1> QED BY <1>21, <1>22 DEF Does

\* Two fields of one object.
LEMMA EntriesFields ==
    ASSUME NEW f \in [Objects -> Members], NEW o \in Objects, NEW e, NEW l
    PROVE  [f EXCEPT ![o].entries = e, ![o].loaders = l] = [f EXCEPT ![o] = [f[o] EXCEPT !.entries = e, !.loaders = l]]
<1>1. PICK k : k = [f[o] EXCEPT !.entries = e]
  OBVIOUS
<1>2. PICK g : g = [f EXCEPT ![o].entries = e]
  OBVIOUS
<1>3. g = [f EXCEPT ![o] = k]
  BY <1>1, <1>2
<1>4. DOMAIN g = Objects /\ \A u \in Objects : g[u] = IF u = o THEN k ELSE f[u]
  BY <1>3
<1>5. PICK k2 : k2 = [k EXCEPT !.loaders = l]
  OBVIOUS
<1>6. [g EXCEPT ![o].loaders = l] = [g EXCEPT ![o] = k2]
  BY <1>4, <1>5
<1>7. [g EXCEPT ![o] = k2] = [f EXCEPT ![o] = k2]
  BY <1>4
<1>8. k2 = [f[o] EXCEPT !.entries = e, !.loaders = l]
  BY <1>1, <1>5
<1>9. [f EXCEPT ![o].entries = e, ![o].loaders = l] = [g EXCEPT ![o].loaders = l]
  BY <1>2
<1> QED BY <1>6, <1>7, <1>8, <1>9

\* That load() when it throws before any tile is done,
LEMMA LoadReplicasThrowsEarly ==
    ASSUME IdsInv, ApartInv, NEW o \in Objects, obj[o].loaders # << >>,
           ReloadsLoaded \/ obj[o].parsed = NoBuf, next + 1 <= MaxIds,
           obj' = [obj EXCEPT ![o].entries = next + 1], mem' = Held(mem), next' = next + 1, ldr' = ldr
    PROVE  Does(o)
<1>1. PICK e : e = next + 1
  OBVIOUS
<1>2. PICK m : m = [obj[o] EXCEPT !.entries = e]
  OBVIOUS
<1>3. /\ obj \in [Objects -> Members] /\ next \in Nat /\ MaxIds \in Nat /\ ldr \in [Ids -> Image \cup {Blank}]
      /\ obj[o] \in Members
  BY TypeFacts
<1>4. e \in Ids /\ next' \in next..MaxIds /\ e \in Fresh /\ e \notin 0..next /\ e # NoBuf /\ 1..next \subseteq 0..next
  BY <1>1, <1>3 DEF Ids, Fresh, NoBuf
<1>5. /\ m \in Members /\ m.blob = obj[o].blob /\ m.loaders = obj[o].loaders /\ m.entries = e
      /\ m.parsed = obj[o].parsed /\ (m.ready <=> obj[o].ready)
  BY <1>2, <1>3, <1>4 DEF Members
<1>6. obj' = [obj EXCEPT ![o] = m] /\ obj'[o] = m /\ \A p \in Objects : p # o => obj'[p] = obj[p]
  BY <1>1, <1>2, <1>3
<1>7. /\ DOMAIN mem' = Ids
      /\ \A p \in Objects \ {o} : \A x \in {obj[p].parsed, obj[p].entries} \ {NoBuf} : mem'[x] = mem[x]
  <2>1. PICK B : B = mem
    OBVIOUS
  <2>2. mem' = Held(B) /\ \A x \in 1..next : B[x] = mem[x]
    BY <2>1
  <2> QED BY <1>6, <2>2, HeldStays
<1>8. OwnedBy(m) = OwnedBy(obj[o])
  BY <1>5 DEF OwnedBy
<1>9. /\ OwnedBy(obj[o]) \subseteq 1..next /\ (\A x \in OwnedBy(obj[o]) : ldr[x] \in Image)
      /\ obj[o].parsed \notin OwnedBy(obj[o]) /\ obj[o].blob \in Blobs
  BY DEF IdsInv, ApartInv
<1>10. m.ready => Needs(m) \subseteq (IF obj[o].ready THEN Needs(obj[o]) ELSE {}) \cup Fresh
  BY <1>4, <1>5 DEF Needs
<1>11. Changes(o, m)
  <2>1. m.parsed \notin OwnedBy(m) /\ m.entries \notin OwnedBy(m)
    BY <1>4, <1>5, <1>8, <1>9
  <2>2. OwnedBy(m) \subseteq OwnedBy(obj[o]) \cup Fresh /\ \A x \in OwnedBy(m) : ldr'[x] \in Image
    BY <1>8, <1>9
  <2>3. m.parsed = obj[o].parsed /\ m.entries \in Fresh /\ m.blob \in Blobs /\ m.loaders # << >>
    BY <1>4, <1>5, <1>9
  <2>4. obj' = [obj EXCEPT ![o] = m]
    BY <1>6
  <2> QED BY <1>3, <1>4, <1>5, <1>7, <1>10, <2>1, <2>2, <2>3, <2>4 DEF Changes
<1>12. ASSUME Tame, SoundInv PROVE Sound(m)'
  <2>1. Sound(obj[o])
    BY <1>12 DEF SoundInv
  <2>2. ~m.ready
    BY <1>5, <1>12, <2>1 DEF Sound, Leads, Tame
  <2>3. obj[o] # NoObject
    BY NoObjectFacts
  <2>4. Admitted(m.blob) /\ \A x \in OwnedBy(m) : ImageOf(ldr'[x], m.blob)
    BY <1>5, <1>8, <2>1, <2>3 DEF Sound
  <2>5. ~ldr'[m.loaders[1]].loaded => Len(m.loaders) = 1
    BY <1>5, <2>1 DEF Sound
  <2> QED BY <2>2, <2>4, <2>5 DEF Sound, OwnedBy, Admitted
<1> QED BY <1>11, <1>12 DEF Does

\* and after n tiles.
LEMMA LoadReplicasThrowsLate ==
    ASSUME IdsInv, ApartInv, NEW o \in Objects, obj[o].loaders # << >>,
           ReloadsLoaded \/ obj[o].parsed = NoBuf, NEW n \in 1..2, next + n <= MaxIds,
           NEW T, T = TileLoaders(o, n),
           obj' = [obj EXCEPT ![o].entries = next + 1, ![o].loaders = T],
           mem' = Held([mem EXCEPT ![next + 1] = [kind |-> "entries", of |-> T]]),
           next' = next + n, ldr' = TileImages(o, n)
    PROVE  Does(o)
<1>1. PICK e : e = next + 1
  OBVIOUS
<1>2. PICK m : m = [obj[o] EXCEPT !.entries = e, !.loaders = T]
  OBVIOUS
<1>3. PICK h : h = Front(o)
  OBVIOUS
<1>4. /\ obj \in [Objects -> Members] /\ next \in Nat /\ MaxIds \in Nat /\ next <= MaxIds /\ DOMAIN mem = Ids
      /\ obj[o] \in Members
  BY TypeFacts
<1>5. e \in Ids /\ next' \in next..MaxIds /\ e \in Fresh /\ e \notin 0..next /\ e # NoBuf /\ 1..next \subseteq 0..next
  BY <1>1, <1>4 DEF Ids, Fresh, NoBuf
<1>6. /\ h \in OwnedBy(obj[o]) /\ h \in 1..next /\ h \in Ids /\ ldr[h] \in Image
      /\ obj[o].blob \in Blobs /\ obj[o] # NoObject /\ \A p \in Objects \ {o} : h \notin OwnedBy(obj[p])
  BY <1>3, OwnerFacts
<1>7. T \in Seq(Ids) /\ Len(T) = n /\ T[1] = h /\ (n = 2 => T[2] = next + 2)
  BY <1>3, <1>4, <1>6, TileLoadersFacts
<1>8. /\ m \in Members /\ m.blob = obj[o].blob /\ m.loaders = T /\ m.entries = e
      /\ m.parsed = obj[o].parsed /\ (m.ready <=> obj[o].ready)
  BY <1>2, <1>4, <1>5, <1>7 DEF Members
<1>9. obj' = [obj EXCEPT ![o] = m] /\ obj'[o] = m /\ \A p \in Objects : p # o => obj'[p] = obj[p]
  <2>1. PICK f : f = obj
    OBVIOUS
  <2>2. f \in [Objects -> Members]
    BY <1>4, <2>1
  <2>3. [f EXCEPT ![o].entries = e, ![o].loaders = T] = [f EXCEPT ![o] = [f[o] EXCEPT !.entries = e, !.loaders = T]]
    BY <2>2, EntriesFields
  <2>4. obj' = [f EXCEPT ![o].entries = e, ![o].loaders = T]
    BY <1>1, <2>1
  <2>5. obj' = [f EXCEPT ![o] = m]
    BY <1>2, <2>1, <2>3, <2>4
  <2> QED BY <2>1, <2>2, <2>5
<1>10. /\ ldr' \in [Ids -> Image \cup {Blank}]
       /\ \A x \in 1..next \ {h} : ldr'[x] = ldr[x]
       /\ ldr'[h] \in Image /\ ldr'[h].loaded
       /\ \A c : ImageOf(ldr[h], c) => ImageOf(ldr'[h], c)
       /\ n = 2 => ldr'[next + 2] \in Image /\ \A c : ImageOf(ldr[h], c) => ImageOf(ldr'[next + 2], c)
  BY <1>3, <1>6, TileImagesFacts
<1>11. h \in OwnedBy(m) /\ \A x \in OwnedBy(m) : x = h \/ (n = 2 /\ x = next + 2)
  <2>1. OwnedBy(m) = {T[i] : i \in 1..n}
    BY <1>7, <1>8 DEF OwnedBy
  <2>2. 1 \in 1..n /\ \A i \in 1..n : i = 1 \/ (n = 2 /\ i = 2)
    OBVIOUS
  <2> QED BY <1>7, <2>1, <2>2
<1>12. n = 2 => next + 2 \in Fresh /\ next + 2 # e /\ next + 2 \notin 0..next
  BY <1>1, <1>4 DEF Fresh
<1>13. /\ DOMAIN mem' = Ids
       /\ \A p \in Objects \ {o} : \A x \in {obj[p].parsed, obj[p].entries} \ {NoBuf} : mem'[x] = mem[x]
  <2>1. PICK B : B = [mem EXCEPT ![next + 1] = [kind |-> "entries", of |-> T]]
    OBVIOUS
  <2>2. \A x \in 1..next : B[x] = mem[x]
    <3>1. \A x \in 1..next : x \in Ids /\ x # next + 1
      BY <1>4 DEF Ids
    <3> QED BY <1>4, <2>1, <3>1
  <2>3. mem' = Held(B)
    BY <2>1
  <2> QED BY <1>9, <2>2, <2>3, HeldStays
<1>14. /\ OwnedBy(obj[o]) \subseteq 1..next /\ obj[o].parsed \in 0..next
       /\ obj[o].parsed \notin OwnedBy(obj[o]) /\ (obj[o].ready => obj[o].loaders # << >>)
  BY DEF IdsInv, ApartInv
<1>15. Changes(o, m)
  <2>1. m.parsed \notin OwnedBy(m) /\ m.entries \notin OwnedBy(m)
    BY <1>5, <1>6, <1>8, <1>11, <1>12, <1>14
  <2>2. OwnedBy(m) \subseteq OwnedBy(obj[o]) \cup Fresh /\ \A x \in OwnedBy(m) : ldr'[x] \in Image
    BY <1>6, <1>10, <1>11, <1>12
  <2>3. m.parsed = obj[o].parsed /\ m.entries \in Fresh /\ m.blob \in Blobs
    BY <1>5, <1>6, <1>8
  <2>4. m.loaders # << >>
    BY <1>7, <1>8
  <2>5. m.ready => Needs(m) \subseteq (IF obj[o].ready THEN Needs(obj[o]) ELSE {}) \cup Fresh
    BY <1>5, <1>8 DEF Needs
  <2>6. \A p \in Objects \ {o} : \A x \in OwnedBy(obj[p]) : ldr'[x] = ldr[x]
    BY <1>6, <1>10, OthersHold
  <2>7. obj' = [obj EXCEPT ![o] = m]
    BY <1>9
  <2> QED BY <1>5, <1>8, <1>10, <1>13, <2>1, <2>2, <2>3, <2>4, <2>5, <2>6, <2>7 DEF Changes
<1>16. ASSUME Tame, SoundInv PROVE Sound(m)'
  <2>1. Sound(obj[o])
    BY <1>16 DEF SoundInv
  <2>2. ~m.ready
    BY <1>8, <1>16, <2>1 DEF Sound, Leads, Tame
  <2>3. Admitted(m.blob) /\ ImageOf(ldr[h], m.blob)
    BY <1>6, <1>8, <2>1 DEF Sound
  <2>4. \A x \in OwnedBy(m) : ImageOf(ldr'[x], m.blob)
    BY <1>10, <1>11, <2>3
  <2>5. ldr'[m.loaders[1]].loaded
    BY <1>7, <1>8, <1>10
  <2> QED BY <2>2, <2>3, <2>4, <2>5 DEF Sound, OwnedBy, Admitted
<1> QED BY <1>15, <1>16 DEF Does

\* load() of such a network that throws.
LEMMA LoadReplicasThrowsDoes ==
    ASSUME IdsInv, ApartInv, NEW o \in Objects, NEW k \in 0..2, LoadReplicasThrows(o, k)
    PROVE  Does(o)
<1>1. obj[o].loaders # << >> /\ (ReloadsLoaded \/ obj[o].parsed = NoBuf) /\ next + 1 <= MaxIds
  BY DEF LoadReplicasThrows, MayLoad
<1>2. CASE ldr[Front(o)].loaded \/ k = 0
  <2>1. obj' = [obj EXCEPT ![o].entries = next + 1] /\ mem' = Held(mem) /\ next' = next + 1 /\ ldr' = ldr
    BY <1>2 DEF LoadReplicasThrows
  <2> QED BY <1>1, <2>1, LoadReplicasThrowsEarly
<1>3. CASE ~(ldr[Front(o)].loaded \/ k = 0)
  <2>1. PICK T : T = TileLoaders(o, k)
    OBVIOUS
  <2>2. /\ next + k <= MaxIds /\ next' = next + k /\ ldr' = TileImages(o, k)
        /\ obj' = [obj EXCEPT ![o].entries = next + 1, ![o].loaders = T]
        /\ mem' = Held([mem EXCEPT ![next + 1] = [kind |-> "entries", of |-> T]])
    BY <1>3, <2>1 DEF LoadReplicasThrows
  <2>3. k \in 1..2
    BY <1>3
  <2> QED BY <1>1, <2>1, <2>2, <2>3, LoadReplicasThrowsLate
<1> QED BY <1>2, <1>3

\* The images after n loaders of s have been copied.
LEMMA CloneImagesFacts ==
    ASSUME IdsInv, NEW s \in Objects, NEW n \in Nat, n <= Len(obj[s].loaders), next + 1 + n <= MaxIds,
           ldr' = CloneImages(s, n)
    PROVE  /\ ldr' \in [Ids -> Image \cup {Blank}]
           /\ \A x \in 1..next : ldr'[x] = ldr[x]
           /\ \A i \in 1..n :
                 /\ ldr'[next + 1 + i] \in Image
                 /\ ldr[obj[s].loaders[i]] \in Image
                 /\ ldr'[next + 1 + i].loaded <=> ldr[obj[s].loaders[i]].loaded
                 /\ ldr'[next + 1 + i].table = ldr[obj[s].loaders[i]].table /\ ldr'[next + 1 + i].io = NoIO
                 /\ \A c : ImageOf(ldr[obj[s].loaders[i]], c) => ImageOf(ldr'[next + 1 + i], c)
<1>1. /\ next \in Nat /\ MaxIds \in Nat /\ next <= MaxIds /\ ldr \in [Ids -> Image \cup {Blank}]
      /\ obj[s] \in Members /\ Len(obj[s].loaders) \in Nat
  BY TypeFacts, MembersFacts
<1>2. ASSUME NEW i \in 1..n PROVE ldr[obj[s].loaders[i]] \in Image
  <2>1. i \in 1..Len(obj[s].loaders)
    BY <1>1
  <2>2. obj[s].loaders[i] \in OwnedBy(obj[s])
    BY <2>1 DEF OwnedBy
  <2> QED BY <2>2 DEF IdsInv
<1>3. ldr' = [x \in Ids |-> IF x \in next + 2 .. next + 1 + n
                            THEN CloneOf(ldr[obj[s].loaders[x - next - 1]], ldr[obj[s].loaders[x - next - 1]].table)
                            ELSE ldr[x]]
  BY DEF CloneImages, CloneSource
<1>4. ASSUME NEW i \in 1..n
      PROVE  /\ next + 1 + i \in Ids
             /\ ldr'[next + 1 + i] = CloneOf(ldr[obj[s].loaders[i]], ldr[obj[s].loaders[i]].table)
  <2>1. PICK x : x = next + 1 + i
    OBVIOUS
  <2>2. x \in Ids /\ x \in next + 2 .. next + 1 + n /\ x - next - 1 = i
    BY <1>1, <2>1 DEF Ids
  <2> QED BY <1>3, <2>1, <2>2
<1>5. ASSUME NEW i \in 1..n
      PROVE  /\ ldr'[next + 1 + i] \in Image
             /\ ldr'[next + 1 + i].loaded <=> ldr[obj[s].loaders[i]].loaded
             /\ ldr'[next + 1 + i].table = ldr[obj[s].loaders[i]].table /\ ldr'[next + 1 + i].io = NoIO
             /\ \A c : ImageOf(ldr[obj[s].loaders[i]], c) => ImageOf(ldr'[next + 1 + i], c)
  <2>1. PICK l : l = ldr[obj[s].loaders[i]]
    OBVIOUS
  <2>2. PICK t : t = l.table
    OBVIOUS
  <2>3. PICK k : k = CloneOf(l, t)
    OBVIOUS
  <2>4. l \in Image /\ t \in {NoTable} \cup Nat
    BY <1>2, <2>1, <2>2, ImageFacts
  <2>5. /\ k \in Image /\ k.table = t /\ (k.loaded <=> l.loaded) /\ k.io = NoIO
        /\ \A c : ImageOf(l, c) => ImageOf(k, c)
    BY <2>3, <2>4, CloneFacts
  <2>6. ldr'[next + 1 + i] = k
    BY <1>4, <2>1, <2>2, <2>3
  <2> QED BY <2>1, <2>2, <2>5, <2>6
<1>6. ASSUME NEW x \in Ids PROVE ldr'[x] \in Image \cup {Blank}
  <2>1. CASE x \in next + 2 .. next + 1 + n
    <3>1. PICK i : i = x - next - 1
      OBVIOUS
    <3>2. i \in 1..n /\ next + 1 + i = x
      BY <1>1, <2>1, <3>1
    <3> QED BY <1>5, <3>2
  <2>2. CASE x \notin next + 2 .. next + 1 + n
    BY <1>1, <1>3, <2>2
  <2> QED BY <2>1, <2>2
<1>7. ldr' \in [Ids -> Image \cup {Blank}]
  <2>1. ldr' = [x \in Ids |-> ldr'[x]]
    BY <1>3
  <2> QED BY <1>6, <2>1
<1>8. \A x \in 1..next : ldr'[x] = ldr[x]
  <2>1. \A x \in 1..next : x \in Ids /\ x \notin next + 2 .. next + 1 + n
    BY <1>1 DEF Ids
  <2> QED BY <1>3, <2>1
<1> QED BY <1>2, <1>5, <1>7, <1>8

\* The loaders of an object to which n were added.
LEMMA ClonesOwned ==
    ASSUME IdsInv, NEW o \in Objects, NEW n \in Nat, next + 1 + n <= MaxIds,
           NEW all, all = WithClones(obj[o].loaders, n), NEW m, m.loaders = all
    PROVE  /\ all \in Seq(Ids) /\ Len(all) = Len(obj[o].loaders) + n /\ Len(obj[o].loaders) \in Nat
           /\ \A x \in OwnedBy(m) : x \in OwnedBy(obj[o]) \/ \E i \in 1..n : x = next + 1 + i
           /\ obj[o].loaders # << >> => all[1] = obj[o].loaders[1] /\ all[1] \in OwnedBy(obj[o])
           /\ obj[o].loaders = << >> => \A i \in 1..n : all[i] = next + 1 + i
<1>1. next \in Nat /\ obj[o] \in Members /\ obj[o].loaders \in Seq(Ids) /\ Len(obj[o].loaders) \in Nat
  BY TypeFacts, MembersFacts
<1>2. PICK mine : mine = obj[o].loaders
  OBVIOUS
<1>3. /\ all \in Seq(Ids) /\ Len(all) = Len(mine) + n
      /\ \A i \in 1..Len(mine) : all[i] = mine[i]
      /\ \A i \in 1..n : all[Len(mine) + i] = next + 1 + i
  <2>1. mine \in Seq(Ids) /\ all = WithClones(mine, n)
    BY <1>1, <1>2
  <2>2. /\ WithClones(mine, n) \in Seq(Ids) /\ Len(WithClones(mine, n)) = Len(mine) + n
        /\ \A i \in 1..Len(mine) : WithClones(mine, n)[i] = mine[i]
        /\ \A i \in 1..n : WithClones(mine, n)[Len(mine) + i] = next + 1 + i
    BY <1>1, <2>1, WithClonesFacts
  <2> QED BY <2>1, <2>2
<1>4. ASSUME NEW x \in OwnedBy(m) PROVE x \in OwnedBy(obj[o]) \/ \E i \in 1..n : x = next + 1 + i
  <2>1. PICK j \in 1..Len(all) : x = all[j]
    BY <1>4 DEF OwnedBy
  <2>2. CASE j <= Len(mine)
    <3>1. j \in 1..Len(mine)
      BY <1>1, <1>2, <1>3, <2>2
    <3> QED BY <1>2, <1>3, <2>1, <3>1 DEF OwnedBy
  <2>3. CASE ~(j <= Len(mine))
    <3>1. PICK i : i = j - Len(mine)
      OBVIOUS
    <3>2. i \in 1..n /\ Len(mine) + i = j
      BY <1>1, <1>2, <1>3, <2>3, <3>1
    <3> QED BY <1>3, <2>1, <3>2
  <2> QED BY <2>2, <2>3
<1>5. ASSUME mine # << >> PROVE all[1] = mine[1] /\ mine[1] \in OwnedBy(obj[o])
  <2>1. Len(mine) >= 1 /\ mine[1] \in OwnedBy(obj[o])
    BY <1>1, <1>2, <1>5, FirstLoader
  <2>2. 1 \in 1..Len(mine)
    BY <1>1, <1>2, <2>1
  <2> QED BY <1>3, <2>1, <2>2
<1>6. ASSUME mine = << >> PROVE \A i \in 1..n : all[i] = next + 1 + i
  <2>1. Len(mine) = 0
    BY <1>6
  <2>2. \A i \in 1..n : Len(mine) + i = i
    BY <2>1
  <2> QED BY <1>3, <2>2
<1> QED BY <1>1, <1>2, <1>3, <1>4, <1>5, <1>6

\* How many are copied.
LEMMA ClonesFacts ==
    ASSUME IdsInv, NEW s \in Objects, obj[s].loaders # << >>, NEW n, n = Clones(s)
    PROVE  /\ n \in Nat /\ n >= 1 /\ n <= Len(obj[s].loaders)
           /\ ~Replicated(obj[s].blob) => n = 1
           /\ Replicated(obj[s].blob) => n = Len(obj[s].loaders)
<1>1. Len(obj[s].loaders) \in Nat /\ Len(obj[s].loaders) >= 1
  BY TypeFacts, MembersFacts, FirstLoader
<1> QED BY <1>1 DEF Clones

\* Copying: the copy constructor, where the object has nothing yet, and operator=.
LEMMA CloneIntoDoes ==
    ASSUME IdsInv, ApartInv, NEW o \in Objects, NEW s \in Objects, o # s, obj[s].ready,
           Tame => obj[o].loaders = << >>, CloneInto(o, s, obj[o].loaders)
    PROVE  Does(o)
<1>1. PICK b : b = obj[s].blob
  OBVIOUS
<1>2. PICK n : n = Clones(s)
  OBVIOUS
<1>3. PICK all : all = WithClones(obj[o].loaders, n)
  OBVIOUS
<1>4. PICK e : e = NewEntries(o, s)
  OBVIOUS
<1>5. PICK p : p = next + n + 2
  OBVIOUS
<1>6. PICK q : q = obj[s].perf
  OBVIOUS
<1>7. PICK m : m = [blob |-> b, loaders |-> all, parsed |-> p, entries |-> e, perf |-> q, ready |-> TRUE]
  OBVIOUS
<1>8. PICK tiles : tiles = [kind |-> "entries", of |-> [i \in 1..n |-> all[i]]]
  OBVIOUS
<1>9. PICK many : many = SetHostParsedInference(b, "entries", e, n, q)
  OBVIOUS
<1>10. PICK one : one = SetHostParsedInference(b, "entry", all[1], 1, q)
  OBVIOUS
<1>11. PICK B : B = IF Replicated(b) THEN [mem EXCEPT ![e] = tiles, ![p] = many] ELSE [mem EXCEPT ![p] = one]
  OBVIOUS
<1>12. p <= MaxIds /\ ldr' = CloneImages(s, n) /\ obj' = [obj EXCEPT ![o] = m] /\ mem' = Held(B) /\ next' = p
  BY <1>1, <1>2, <1>3, <1>4, <1>5, <1>6, <1>7, <1>8, <1>9, <1>10, <1>11 DEF CloneInto
<1>13. /\ obj \in [Objects -> Members] /\ next \in Nat /\ MaxIds \in Nat /\ next <= MaxIds /\ DOMAIN mem = Ids
       /\ obj[s] \in Members /\ obj[o] \in Members
  BY TypeFacts
<1>14. obj[s].loaders # << >> /\ b \in Blobs /\ q \in BOOLEAN
  BY <1>1, <1>6, <1>13, MembersFacts DEF IdsInv
<1>15. /\ n \in Nat /\ n >= 1 /\ n <= Len(obj[s].loaders)
       /\ ~Replicated(b) => n = 1
       /\ Replicated(b) => n = Len(obj[s].loaders)
  BY <1>1, <1>2, <1>14, ClonesFacts
<1>16. next + 1 + n <= MaxIds
  BY <1>5, <1>12, <1>13, <1>15
<1>17. e = (IF Replicated(b) THEN next + 1 ELSE obj[o].entries)
  BY <1>1, <1>4 DEF NewEntries
<1>18. /\ OwnedBy(obj[o]) \subseteq 1..next /\ obj[o].entries \in 0..next
       /\ obj[o].entries \notin OwnedBy(obj[o]) /\ \A x \in OwnedBy(obj[o]) : ldr[x] \in Image
  BY DEF IdsInv, ApartInv
<1>19. /\ p \in Ids /\ next' \in next..MaxIds /\ p \in Fresh /\ p \notin 0..next /\ p # NoBuf
       /\ next + 1 \in Ids /\ next + 1 \in Fresh /\ next + 1 \notin 0..next /\ p # next + 1 /\ next + 1 # NoBuf
       /\ 1..next \subseteq 0..next /\ 1..next \subseteq Ids
  BY <1>5, <1>12, <1>13, <1>15 DEF Ids, Fresh, NoBuf
<1>20. ASSUME NEW i \in 1..n PROVE next + 1 + i \in Fresh /\ next + 1 + i \notin 0..next /\ next + 1 + i # p /\ next + 1 + i # next + 1
  BY <1>5, <1>12, <1>13, <1>15 DEF Fresh
<1>21. e \in Ids \cup {NoBuf} /\ (Replicated(b) => e \in Ids /\ e # NoBuf /\ e # p)
  <2>1. obj[o].entries \in Ids \cup {NoBuf}
    BY <1>13, MembersFacts
  <2> QED BY <1>17, <1>19, <2>1
<1>22. m.blob = b /\ m.loaders = all /\ m.parsed = p /\ m.entries = e /\ m.perf = q /\ m.ready
  BY <1>7
<1>23. /\ all \in Seq(Ids) /\ Len(all) = Len(obj[o].loaders) + n /\ Len(obj[o].loaders) \in Nat
       /\ \A x \in OwnedBy(m) : x \in OwnedBy(obj[o]) \/ \E i \in 1..n : x = next + 1 + i
       /\ obj[o].loaders = << >> => \A i \in 1..n : all[i] = next + 1 + i
  BY <1>3, <1>15, <1>16, <1>22, ClonesOwned
<1>24. m \in Members
  <2>1. b \in Blobs \cup {NoBlob} /\ all \in Seq(Ids) /\ p \in Ids \cup {NoBuf} /\ e \in Ids \cup {NoBuf} /\ q \in BOOLEAN
    BY <1>14, <1>19, <1>21, <1>23
  <2> QED BY <1>7, <2>1 DEF Members
<1>25. /\ ldr' \in [Ids -> Image \cup {Blank}]
       /\ \A x \in 1..next : ldr'[x] = ldr[x]
       /\ \A i \in 1..n :
             /\ ldr'[next + 1 + i] \in Image
             /\ ldr[obj[s].loaders[i]] \in Image
             /\ ldr'[next + 1 + i].loaded <=> ldr[obj[s].loaders[i]].loaded
             /\ ldr'[next + 1 + i].table = ldr[obj[s].loaders[i]].table /\ ldr'[next + 1 + i].io = NoIO
             /\ \A c : ImageOf(ldr[obj[s].loaders[i]], c) => ImageOf(ldr'[next + 1 + i], c)
  BY <1>12, <1>15, <1>16, CloneImagesFacts
<1>26. obj'[o] = m /\ \A u \in Objects : u # o => obj'[u] = obj[u]
  BY <1>12, <1>13
<1>27. /\ \A x \in 1..next : B[x] = mem[x]
       /\ Replicated(b) => B[e] = tiles /\ B[p] = many
       /\ ~Replicated(b) => B[p] = one
  <2>1. CASE Replicated(b)
    <3>1. B = [mem EXCEPT ![e] = tiles, ![p] = many] /\ e = next + 1
      BY <1>11, <1>17, <2>1
    <3>2. \A x \in 1..next : x \in Ids /\ x # e /\ x # p
      BY <1>19, <3>1
    <3> QED BY <1>13, <1>19, <2>1, <3>1, <3>2
  <2>2. CASE ~Replicated(b)
    <3>1. B = [mem EXCEPT ![p] = one]
      BY <1>11, <2>2
    <3>2. \A x \in 1..next : x \in Ids /\ x # p
      BY <1>19
    <3> QED BY <1>13, <1>19, <2>2, <3>1, <3>2
  <2> QED BY <2>1, <2>2
<1>28. /\ DOMAIN mem' = Ids
       /\ \A u \in Objects \ {o} : \A x \in {obj[u].parsed, obj[u].entries} \ {NoBuf} : mem'[x] = mem[x]
       /\ \A x \in {m.parsed, m.entries} \cap Ids : mem'[x] = B[x]
  <2>1. mem' = Held(B) /\ \A x \in 1..next : B[x] = mem[x]
    BY <1>12, <1>27
  <2> QED BY <1>26, <2>1, HeldStays
<1>29. Changes(o, m)
  <2>1. OwnedBy(m) \subseteq OwnedBy(obj[o]) \cup Fresh
    BY <1>20, <1>23
  <2>2. \A x \in OwnedBy(m) : ldr'[x] \in Image
    BY <1>18, <1>23, <1>25
  <2>3. m.parsed \notin OwnedBy(m)
    BY <1>18, <1>19, <1>20, <1>22, <1>23
  <2>4. m.entries \notin OwnedBy(m)
    <3>1. CASE Replicated(b)
      BY <1>17, <1>18, <1>19, <1>20, <1>22, <1>23, <3>1
    <3>2. CASE ~Replicated(b)
      BY <1>17, <1>18, <1>19, <1>20, <1>22, <1>23, <3>2
    <3> QED BY <3>1, <3>2
  <2>5. m.loaders # << >>
    BY <1>15, <1>22, <1>23
  <2>6. Needs(m) \subseteq Fresh
    BY <1>17, <1>19, <1>22 DEF Needs
  <2>7. m.parsed \in Fresh /\ m.entries \in {obj[o].entries} \cup Fresh /\ m.blob \in Blobs
    BY <1>14, <1>17, <1>19, <1>22
  <2>8. \A u \in Objects \ {o} : \A x \in OwnedBy(obj[u]) : ldr'[x] = ldr[x]
    BY <1>25, OthersHold
  <2>9. obj' = [obj EXCEPT ![o] = m]
    BY <1>12
  <2> QED BY <1>19, <1>24, <1>25, <1>28, <2>1, <2>2, <2>3, <2>4, <2>5, <2>6, <2>7, <2>8, <2>9 DEF Changes
<1>30. ASSUME Tame, SoundInv PROVE Sound(m)'
  <2>1. obj[o].loaders = << >> /\ Sound(obj[s]) /\ Runnable(obj[s])
    BY <1>30 DEF SoundInv, Sound
  <2>2. Admitted(b) /\ \A x \in OwnedBy(obj[s]) : ImageOf(ldr[x], b)
    BY <1>1, <1>14, <2>1, NoObjectFacts DEF Sound
  <2>3. \A i \in 1..n : i \in 1..Len(obj[s].loaders) /\ obj[s].loaders[i] \in OwnedBy(obj[s])
    <3>1. Len(obj[s].loaders) \in Nat
      BY <1>13, MembersFacts
    <3> QED BY <1>15, <3>1 DEF OwnedBy
  <2>4. Len(obj[s].loaders) = Replicas(b) /\ n = Replicas(b) /\ (Replicated(b) => n = 2)
    BY <1>1, <1>15, <2>1 DEF Runnable, Replicas
  <2>5. Len(all) = n /\ \A i \in 1..n : all[i] = next + 1 + i
    <3>1. Len(obj[o].loaders) = 0
      BY <2>1
    <3> QED BY <1>15, <1>23, <2>1, <3>1
  <2>6. OwnedBy(m) = {all[i] : i \in 1..n}
    BY <1>22, <2>5 DEF OwnedBy
  <2>7. \A x \in OwnedBy(m) : ImageOf(ldr'[x], m.blob)
    BY <1>22, <1>25, <2>2, <2>3, <2>5, <2>6
  <2>8. \A i \in 1..n : /\ ldr'[all[i]].loaded /\ ldr'[all[i]].table = TableFor(b, i)
                        /\ ldr'[all[i]].io = NoIO
    <3>1. ASSUME NEW i \in 1..n PROVE ldr[obj[s].loaders[i]].loaded /\ ldr[obj[s].loaders[i]].table = TableFor(b, i)
      BY <1>1, <2>1, <2>3 DEF Runnable
    <3> QED BY <1>25, <2>5, <3>1
  <2>9. 1 \in 1..n
    BY <1>15
  <2>10. Runnable(m)'
    <3>1. Alike(m)'
      BY <1>22, <2>5, <2>8, <2>9 DEF Alike
    <3> QED BY <1>22, <2>4, <2>5, <2>8, <2>9, <3>1 DEF Runnable
  <2>11. Leads(m)'
    <3>1. mem'[p] = B[p] /\ (Replicated(b) => mem'[e] = B[e])
      BY <1>19, <1>21, <1>22, <1>28
    <3>2. CASE Replicated(b)
      <4>1. mem'[p] = many /\ mem'[e].of = [i \in 1..n |-> all[i]]
        <5>1. tiles.of = [i \in 1..n |-> all[i]]
          BY <1>8
        <5>2. mem'[p] = many /\ mem'[e] = tiles
          BY <1>27, <3>1, <3>2
        <5> QED BY <5>1, <5>2
      <4>2. many.where = "entries" /\ many.at = e /\ many.count = n /\ many.slices = b.tiles
        BY <1>9, StructureFacts
      <4>3. [i \in 1..n |-> all[i]] = all
        BY <1>23, <2>5
      <4> QED BY <1>19, <1>21, <1>22, <2>4, <3>2, <4>1, <4>2, <4>3 DEF Leads
    <3>3. CASE ~Replicated(b)
      <4>1. mem'[p] = one
        BY <1>27, <3>1, <3>3
      <4>2. one.where = "entry" /\ one.at = all[1] /\ one.slices = b.tiles
        BY <1>10, StructureFacts
      <4> QED BY <1>19, <1>22, <3>3, <4>1, <4>2 DEF Leads
    <3> QED BY <3>2, <3>3
  <2>12. ldr'[m.loaders[1]].loaded
    BY <1>22, <2>8, <2>9
  <2> QED BY <1>22, <2>2, <2>7, <2>10, <2>11, <2>12 DEF Sound, OwnedBy, Admitted
<1> QED BY <1>29, <1>30 DEF Does

\* The copy constructor,
LEMMA CopyDoes ==
    ASSUME IdsInv, ApartInv, NEW o \in Objects, NEW s \in Objects, Copy(o, s)
    PROVE  Does(o)
<1>1. obj[o] = NoObject /\ obj[s].ready /\ CloneInto(o, s, << >>)
  BY DEF Copy, Exists, Ready
<1>2. obj[o].loaders = << >> /\ o # s
  BY <1>1, NoObjectFacts
<1>3. CloneInto(o, s, obj[o].loaders)
  BY <1>1, <1>2
<1> QED BY <1>1, <1>2, <1>3, CloneIntoDoes

\* and operator=.
LEMMA AssignDoes ==
    ASSUME IdsInv, ApartInv, NEW o \in Objects, NEW s \in Objects, Assign(o, s)
    PROVE  Does(o)
<1>1. obj[s].ready /\ o # s /\ CloneInto(o, s, obj[o].loaders) /\ (Tame => obj[o].loaders = << >>)
  BY DEF Assign, MayAssign, Ready, Tame
<1> QED BY <1>1, CloneIntoDoes

\* operator= that throws leaves o with n clones and without a structure to start from.
LEMMA AssignThrowsDoes ==
    ASSUME IdsInv, ApartInv, NEW o \in Objects, NEW s \in Objects, NEW n \in 0..2, NEW e, AssignThrows(o, s, n, e)
    PROVE  Does(o)
<1>1. PICK b : b = obj[s].blob
  OBVIOUS
<1>2. PICK q : q = obj[s].perf
  OBVIOUS
<1>3. PICK all : all = WithClones(obj[o].loaders, n)
  OBVIOUS
<1>4. PICK m : m = [obj[o] EXCEPT !.blob = b, !.perf = q, !.entries = e, !.loaders = all, !.ready = FALSE]
  OBVIOUS
<1>5. /\ obj[s].ready /\ o # s /\ (Tame => obj[o].loaders = << >>)
      /\ n <= Clones(s) /\ next + 1 + n <= MaxIds /\ (e = NewEntries(o, s) \/ e = obj[o].entries)
      /\ ldr' = CloneImages(s, n) /\ mem' = Held(mem) /\ next' = next + 1 + n
  BY DEF AssignThrows, MayAssign, Ready, Tame
<1>6. /\ obj \in [Objects -> Members] /\ next \in Nat /\ MaxIds \in Nat /\ next <= MaxIds /\ DOMAIN mem = Ids
      /\ obj[s] \in Members /\ obj[o] \in Members
  BY TypeFacts
<1>7. obj' = [obj EXCEPT ![o] = m] /\ obj'[o] = m /\ \A u \in Objects : u # o => obj'[u] = obj[u]
  <2>1. obj' = [obj EXCEPT ![o] = m]
    BY <1>1, <1>2, <1>3, <1>4 DEF AssignThrows
  <2> QED BY <1>6, <2>1
<1>8. obj[s].loaders # << >> /\ b \in Blobs /\ q \in BOOLEAN
  BY <1>1, <1>2, <1>5, <1>6, MembersFacts DEF IdsInv
<1>9. n <= Len(obj[s].loaders) /\ Len(obj[s].loaders) \in Nat
  <2>1. PICK k : k = Clones(s)
    OBVIOUS
  <2>2. k \in Nat /\ k <= Len(obj[s].loaders)
    BY <1>8, <2>1, ClonesFacts
  <2>3. Len(obj[s].loaders) \in Nat
    BY <1>6, MembersFacts
  <2> QED BY <1>5, <2>1, <2>2, <2>3
<1>10. /\ OwnedBy(obj[o]) \subseteq 1..next /\ obj[o].entries \in 0..next /\ obj[o].parsed \in 0..next
       /\ obj[o].entries \notin OwnedBy(obj[o]) /\ obj[o].parsed \notin OwnedBy(obj[o])
       /\ \A x \in OwnedBy(obj[o]) : ldr[x] \in Image
  BY DEF IdsInv, ApartInv
<1>11. /\ next + 1 \in Ids /\ next + 1 \in Fresh /\ next + 1 \notin 0..next /\ next' \in next..MaxIds
       /\ 1..next \subseteq 0..next /\ 1..next \subseteq Ids
  BY <1>5, <1>6 DEF Ids, Fresh
<1>12. ASSUME NEW i \in 1..n PROVE next + 1 + i \in Fresh /\ next + 1 + i \notin 0..next /\ next + 1 + i # next + 1
  BY <1>5, <1>6 DEF Fresh
<1>13. e = next + 1 \/ e = obj[o].entries
  BY <1>5 DEF NewEntries
<1>14. e \in Ids \cup {NoBuf}
  BY <1>6, <1>11, <1>13, MembersFacts
<1>15. n \in Nat /\ (n = 0 \/ 1 \in 1..n)
  OBVIOUS
<1>16. PICK w : w = [loaders |-> all]
  OBVIOUS
<1>17. /\ all \in Seq(Ids) /\ Len(all) = Len(obj[o].loaders) + n /\ Len(obj[o].loaders) \in Nat
       /\ \A x \in OwnedBy(w) : x \in OwnedBy(obj[o]) \/ \E i \in 1..n : x = next + 1 + i
       /\ obj[o].loaders = << >> => \A i \in 1..n : all[i] = next + 1 + i
  <2>1. w.loaders = all
    BY <1>16
  <2> QED BY <1>3, <1>5, <1>15, <2>1, ClonesOwned
<1>18. /\ m \in Members /\ m.blob = b /\ m.loaders = all /\ m.parsed = obj[o].parsed /\ m.entries = e
       /\ ~m.ready
  BY <1>4, <1>6, <1>8, <1>14, <1>17 DEF Members
<1>19. OwnedBy(m) = OwnedBy(w)
  BY <1>16, <1>18 DEF OwnedBy
<1>20. /\ ldr' \in [Ids -> Image \cup {Blank}]
       /\ \A x \in 1..next : ldr'[x] = ldr[x]
       /\ \A i \in 1..n :
             /\ ldr'[next + 1 + i] \in Image
             /\ ldr[obj[s].loaders[i]] \in Image
             /\ ldr'[next + 1 + i].loaded <=> ldr[obj[s].loaders[i]].loaded
             /\ ldr'[next + 1 + i].table = ldr[obj[s].loaders[i]].table /\ ldr'[next + 1 + i].io = NoIO
             /\ \A c : ImageOf(ldr[obj[s].loaders[i]], c) => ImageOf(ldr'[next + 1 + i], c)
  BY <1>5, <1>9, <1>15, CloneImagesFacts
<1>21. /\ DOMAIN mem' = Ids
       /\ \A u \in Objects \ {o} : \A x \in {obj[u].parsed, obj[u].entries} \ {NoBuf} : mem'[x] = mem[x]
  <2>1. PICK B : B = mem
    OBVIOUS
  <2>2. mem' = Held(B) /\ \A x \in 1..next : B[x] = mem[x]
    BY <1>5, <2>1
  <2> QED BY <1>7, <2>2, HeldStays
<1>22. Changes(o, m)
  <2>1. OwnedBy(m) \subseteq OwnedBy(obj[o]) \cup Fresh /\ \A x \in OwnedBy(m) : ldr'[x] \in Image
    BY <1>10, <1>12, <1>17, <1>19, <1>20
  <2>2. m.parsed \notin OwnedBy(m)
    BY <1>10, <1>12, <1>17, <1>18, <1>19
  <2>3. m.entries \notin OwnedBy(m)
    BY <1>10, <1>11, <1>12, <1>13, <1>17, <1>18, <1>19
  <2>4. m.parsed = obj[o].parsed /\ m.entries \in {obj[o].entries} \cup Fresh /\ m.blob \in Blobs
    BY <1>8, <1>11, <1>13, <1>18
  <2>5. \A u \in Objects \ {o} : \A x \in OwnedBy(obj[u]) : ldr'[x] = ldr[x]
    BY <1>20, OthersHold
  <2>6. obj' = [obj EXCEPT ![o] = m]
    BY <1>7
  <2> QED BY <1>11, <1>18, <1>20, <1>21, <2>1, <2>2, <2>3, <2>4, <2>5, <2>6 DEF Changes
<1>23. ASSUME Tame, SoundInv PROVE Sound(m)'
  <2>1. obj[o].loaders = << >> /\ Sound(obj[s]) /\ Runnable(obj[s])
    BY <1>5, <1>23 DEF SoundInv, Sound
  <2>2. Admitted(b) /\ \A x \in OwnedBy(obj[s]) : ImageOf(ldr[x], b)
    BY <1>1, <1>8, <2>1, NoObjectFacts DEF Sound
  <2>3. \A i \in 1..n : i \in 1..Len(obj[s].loaders) /\ obj[s].loaders[i] \in OwnedBy(obj[s])
    BY <1>9 DEF OwnedBy
  <2>4. OwnedBy(obj[o]) = {}
    BY <2>1 DEF OwnedBy
  <2>5. \A x \in OwnedBy(m) : ImageOf(ldr'[x], m.blob)
    <3>1. ASSUME NEW i \in 1..n PROVE ImageOf(ldr'[next + 1 + i], b)
      <4>1. ImageOf(ldr[obj[s].loaders[i]], b)
        BY <2>2, <2>3
      <4> QED BY <1>20, <4>1
    <3>2. \A x \in OwnedBy(m) : \E i \in 1..n : x = next + 1 + i
      BY <1>17, <1>19, <2>4
    <3> QED BY <1>18, <3>1, <3>2
  <2>6. Len(all) = n
    <3>1. Len(obj[o].loaders) = 0
      BY <2>1
    <3> QED BY <1>15, <1>17, <3>1
  <2>7. n # 0 => ldr'[all[1]].loaded
    <3>1. ASSUME n # 0 PROVE ldr'[all[1]].loaded
      <4>1. 1 \in 1..n
        BY <1>15, <3>1
      <4>2. ldr[obj[s].loaders[1]].loaded
        BY <2>1, <2>3, <4>1 DEF Runnable
      <4> QED BY <1>17, <1>20, <2>1, <4>1, <4>2
    <3> QED BY <3>1
  <2>8. all # << >> => n # 0
    BY <1>17, <2>6, EmptySeq
  <2> QED BY <1>18, <2>2, <2>5, <2>7, <2>8 DEF Sound, OwnedBy, Admitted
<1> QED BY <1>22, <1>23 DEF Does

\* The destructor.
LEMMA DestroyDoes ==
    ASSUME IdsInv, ApartInv, NEW o \in Objects, Destroy(o)
    PROVE  Does(o)
<1>1. PICK m : m = NoObject
  OBVIOUS
<1>2. obj' = [obj EXCEPT ![o] = m] /\ ldr' = Surviving(ldr) /\ mem' = Held(mem) /\ next' = next
  BY <1>1 DEF Destroy
<1>3. /\ obj \in [Objects -> Members] /\ next \in Nat /\ MaxIds \in Nat /\ next <= MaxIds
      /\ ldr \in [Ids -> Image \cup {Blank}]
  BY TypeFacts
<1>4. /\ m \in Members /\ OwnedBy(m) = {} /\ m.loaders = << >> /\ m.parsed = NoBuf /\ m.entries = NoBuf /\ ~m.ready
  BY <1>1, NoObjectFacts
<1>5. obj'[o] = m /\ \A u \in Objects : u # o => obj'[u] = obj[u]
  BY <1>2, <1>3
<1>6. PICK L : L = ldr
  OBVIOUS
<1>7. PICK B : B = mem
  OBVIOUS
<1>8. /\ \A u \in Objects : \A x \in OwnedBy(obj'[u]) \cap Ids : ldr'[x] = L[x]
      /\ L \in [Ids -> Image \cup {Blank}] => ldr' \in [Ids -> Image \cup {Blank}]
  <2>1. ldr' = Surviving(L)
    BY <1>2, <1>6
  <2> QED BY <2>1, SurvivingFacts
<1>9. /\ DOMAIN mem' = Ids
      /\ \A u \in Objects \ {o} : \A x \in {obj[u].parsed, obj[u].entries} \ {NoBuf} : mem'[x] = mem[x]
  <2>1. mem' = Held(B) /\ \A x \in 1..next : B[x] = mem[x]
    BY <1>2, <1>7
  <2> QED BY <1>5, <2>1, HeldStays
<1>10. \A u \in Objects \ {o} : \A x \in OwnedBy(obj[u]) : ldr'[x] = ldr[x]
  <2>1. \A u \in Objects : OwnedBy(obj[u]) \subseteq Ids
    BY <1>3, MembersFacts
  <2> QED BY <1>5, <1>6, <1>8, <2>1
<1>11. Changes(o, m)
  BY <1>2, <1>3, <1>4, <1>6, <1>8, <1>9, <1>10 DEF Changes
<1>12. Sound(m)'
  BY <1>1, <1>4 DEF Sound, OwnedBy
<1> QED BY <1>11, <1>12 DEF Does

\* A move: o has what s had, and s no loaders.
LEMMA MovedFacts ==
    ASSUME IdsInv, ApartInv, NEW o \in Objects, NEW s \in Objects, Moved(o, s)
    PROVE  /\ o # s /\ next' = next /\ obj[s] # NoObject
           /\ obj' \in [Objects -> Members] /\ ldr' \in [Ids -> Image \cup {Blank}] /\ DOMAIN mem' = Ids
           /\ obj'[o] = obj[s] /\ \A p \in Objects \ {o, s} : obj'[p] = obj[p]
           /\ obj'[s].loaders = << >> /\ ~obj'[s].ready /\ obj'[s].parsed = obj[s].parsed
           /\ obj'[s].entries = obj[s].entries /\ obj'[s].blob = obj[s].blob /\ OwnedBy(obj'[s]) = {}
           /\ \A p \in Objects : \A x \in OwnedBy(obj'[p]) : ldr'[x] = ldr[x]
           /\ \A p \in Objects : \A x \in {obj'[p].parsed, obj'[p].entries} \ {NoBuf} : mem'[x] = mem[x]
<1>1. PICK k : k = obj[s]
  OBVIOUS
<1>2. PICK w : w = [k EXCEPT !.loaders = << >>, !.ready = FALSE]
  OBVIOUS
<1>3. /\ o # s /\ k # NoObject /\ obj' = [obj EXCEPT ![o] = k, ![s] = w]
      /\ ldr' = Surviving(ldr) /\ mem' = Held(mem) /\ next' = next
  BY <1>1, <1>2 DEF Moved, MovedFrom, Exists
<1>4. obj \in [Objects -> Members] /\ k \in Members /\ ldr \in [Ids -> Image \cup {Blank}]
  BY <1>1, TypeFacts
<1>5. << >> \in Seq(Ids) /\ Len(<< >>) = 0
  BY EmptySeq
<1>6. /\ w \in Members /\ w.loaders = << >> /\ ~w.ready /\ w.parsed = k.parsed /\ w.entries = k.entries
      /\ w.blob = k.blob
  BY <1>2, <1>4, <1>5 DEF Members
<1>7. OwnedBy(w) = {}
  BY <1>5, <1>6 DEF OwnedBy
<1>8. /\ obj' \in [Objects -> Members] /\ obj'[o] = k /\ obj'[s] = w /\ \A p \in Objects \ {o, s} : obj'[p] = obj[p]
  BY <1>3, <1>4, <1>6
<1>9. PICK L : L = ldr
  OBVIOUS
<1>10. PICK B : B = mem
  OBVIOUS
<1>11. /\ \A p \in Objects : \A x \in OwnedBy(obj'[p]) \cap Ids : ldr'[x] = L[x]
       /\ L \in [Ids -> Image \cup {Blank}] => ldr' \in [Ids -> Image \cup {Blank}]
  <2>1. ldr' = Surviving(L)
    BY <1>3, <1>9
  <2> QED BY <2>1, SurvivingFacts
<1>12. /\ DOMAIN mem' = Ids
       /\ \A p \in Objects : \A x \in {obj'[p].parsed, obj'[p].entries} \cap Ids : mem'[x] = B[x]
  <2>1. mem' = Held(B)
    BY <1>3, <1>10
  <2> QED BY <2>1, HeldFacts
<1>13. ASSUME NEW p \in Objects
       PROVE  /\ \A x \in OwnedBy(obj'[p]) : ldr'[x] = ldr[x]
              /\ \A x \in {obj'[p].parsed, obj'[p].entries} \ {NoBuf} : mem'[x] = mem[x]
  <2>1. PICK m : m = obj'[p]
    OBVIOUS
  <2>2. m \in Members
    BY <1>8, <2>1
  <2>3. OwnedBy(m) \subseteq Ids /\ m.parsed \in Ids \cup {NoBuf} /\ m.entries \in Ids \cup {NoBuf}
    BY <2>2, MembersFacts
  <2>4. \A x \in OwnedBy(m) : x \in OwnedBy(obj'[p]) \cap Ids
    BY <2>1, <2>3
  <2>5. \A x \in {m.parsed, m.entries} \ {NoBuf} : x \in {obj'[p].parsed, obj'[p].entries} \cap Ids
    BY <2>1, <2>3
  <2> QED BY <1>9, <1>10, <1>11, <1>12, <2>1, <2>4, <2>5
<1> QED BY <1>1, <1>3, <1>4, <1>6, <1>7, <1>8, <1>9, <1>11, <1>12, <1>13

\* It keeps the ids in order and objects apart,
LEMMA MovedApart ==
    ASSUME IdsInv, ApartInv, NEW o \in Objects, NEW s \in Objects, Moved(o, s)
    PROVE  IdsInv' /\ ApartInv'
<1> DEFINE from(p) == IF p = o THEN s ELSE p
<1>1. /\ o # s /\ next' = next
      /\ obj' \in [Objects -> Members] /\ ldr' \in [Ids -> Image \cup {Blank}] /\ DOMAIN mem' = Ids
      /\ obj'[o] = obj[s] /\ \A p \in Objects \ {o, s} : obj'[p] = obj[p]
      /\ obj'[s].loaders = << >> /\ ~obj'[s].ready /\ obj'[s].parsed = obj[s].parsed
      /\ obj'[s].entries = obj[s].entries /\ obj'[s].blob = obj[s].blob /\ OwnedBy(obj'[s]) = {}
      /\ \A p \in Objects : \A x \in OwnedBy(obj'[p]) : ldr'[x] = ldr[x]
  BY MovedFacts
<1>2. ASSUME NEW p \in Objects
      PROVE  /\ from(p) \in Objects
             /\ obj'[p].parsed = obj[from(p)].parsed /\ obj'[p].entries = obj[from(p)].entries
             /\ p # s => obj'[p] = obj[from(p)]
             /\ OwnedBy(obj'[p]) \subseteq OwnedBy(obj[from(p)])
  <2>1. CASE p = o
    BY <1>1, <2>1
  <2>2. CASE p = s
    BY <1>1, <2>2
  <2>3. CASE p \in Objects \ {o, s}
    BY <1>1, <2>3
  <2> QED BY <2>1, <2>2, <2>3
<1>3. TypeOK'
  BY <1>1 DEF IdsInv, TypeOK
<1>4. ASSUME NEW p \in Objects
      PROVE  /\ OwnedBy(obj'[p]) \subseteq 1..next' /\ obj'[p].parsed \in 0..next' /\ obj'[p].entries \in 0..next'
             /\ \A x \in OwnedBy(obj'[p]) : ldr'[x] \in Image
             /\ obj'[p].ready => obj'[p].loaders # << >> /\ obj'[p].blob \in Blobs
             /\ obj'[p].loaders # << >> => obj'[p].blob \in Blobs
  <2>1. /\ OwnedBy(obj[from(p)]) \subseteq 1..next /\ obj[from(p)].parsed \in 0..next /\ obj[from(p)].entries \in 0..next
        /\ \A x \in OwnedBy(obj[from(p)]) : ldr[x] \in Image
        /\ obj[from(p)].ready => obj[from(p)].loaders # << >> /\ obj[from(p)].blob \in Blobs
        /\ obj[from(p)].loaders # << >> => obj[from(p)].blob \in Blobs
    BY <1>2 DEF IdsInv
  <2>2. CASE p = s
    BY <1>1, <1>2, <2>1, <2>2
  <2>3. CASE p # s
    BY <1>1, <1>2, <2>1, <2>3
  <2> QED BY <2>2, <2>3
<1>5. ASSUME NEW p \in Objects, NEW q \in Objects
      PROVE  /\ p # q => OwnedBy(obj'[p]) \cap OwnedBy(obj'[q]) = {}
             /\ obj'[p].parsed \notin OwnedBy(obj'[q]) /\ obj'[p].entries \notin OwnedBy(obj'[q])
             /\ p # q /\ obj'[p].ready /\ obj'[q].ready => Needs(obj'[p]) \cap Needs(obj'[q]) = {}
  <2>1. obj'[p].parsed \notin OwnedBy(obj'[q]) /\ obj'[p].entries \notin OwnedBy(obj'[q])
    BY <1>2 DEF ApartInv
  <2>2. CASE p = s \/ q = s
    BY <1>1, <2>1, <2>2
  <2>3. CASE p # s /\ q # s
    <3>1. p # q => from(p) # from(q)
      BY <2>3
    <3>2. obj'[p] = obj[from(p)] /\ obj'[q] = obj[from(q)] /\ from(p) \in Objects /\ from(q) \in Objects
      BY <1>2, <2>3
    <3> HIDE DEF from
    <3> QED BY <2>1, <3>1, <3>2 DEF ApartInv
  <2> QED BY <2>2, <2>3
<1>6. \A p \in Objects : OwnedBy(obj[p])' = OwnedBy(obj'[p]) /\ Needs(obj[p])' = Needs(obj'[p])
  BY DEF OwnedBy, Needs
<1> QED BY <1>3, <1>4, <1>5, <1>6 DEF IdsInv, ApartInv

\* and every object sound.
LEMMA MovedSound ==
    ASSUME IdsInv, ApartInv, SoundInv, NEW o \in Objects, NEW s \in Objects, Moved(o, s)
    PROVE  SoundInv'
<1>1. /\ o # s /\ obj[s] # NoObject
      /\ obj'[o] = obj[s] /\ (\A p \in Objects \ {o, s} : obj'[p] = obj[p])
      /\ obj'[s].loaders = << >> /\ ~obj'[s].ready /\ obj'[s].blob = obj[s].blob /\ OwnedBy(obj'[s]) = {}
      /\ \A p \in Objects : \A x \in OwnedBy(obj'[p]) : ldr'[x] = ldr[x]
      /\ \A p \in Objects : \A x \in {obj'[p].parsed, obj'[p].entries} \ {NoBuf} : mem'[x] = mem[x]
  BY MovedFacts
<1>2. ASSUME NEW p \in Objects PROVE Sound(obj[p])'
  <2>1. PICK m : m = obj'[p]
    OBVIOUS
  <2>2. Sound(m)'
    <3>1. CASE p = s
      <4>1. Admitted(m.blob)
        BY <1>1, <2>1, <3>1 DEF SoundInv, Sound
      <4>2. m.loaders = << >> /\ ~m.ready /\ OwnedBy(m) = {}
        BY <1>1, <2>1, <3>1
      <4> QED BY <4>1, <4>2 DEF Sound, OwnedBy, Admitted
    <3>2. CASE p # s
      <4>1. PICK q \in Objects : m = obj[q]
        <5>1. CASE p = o
          BY <1>1, <2>1, <5>1
        <5>2. CASE p # o
          BY <1>1, <2>1, <3>2, <5>2
        <5> QED BY <5>1, <5>2
      <4>2. Sound(m) /\ m \in Members /\ (m.ready => m.loaders # << >>)
        BY <4>1, TypeFacts DEF SoundInv, IdsInv
      <4>3. m.loaders # << >> => m.loaders[1] \in OwnedBy(m)
        BY <4>2, FirstLoader
      <4>4. /\ \A x \in OwnedBy(m) : ldr'[x] = ldr[x]
            /\ \A x \in {m.parsed, m.entries} \ {NoBuf} : mem'[x] = mem[x]
        BY <1>1, <2>1
      <4> QED BY <4>2, <4>3, <4>4, SoundStays
    <3> QED BY <3>1, <3>2
  <2> QED BY <2>1, <2>2 DEF Sound, Runnable, Alike, Leads, OwnedBy
<1> QED BY <1>2 DEF SoundInv

-----------------------------------------------------------------------------
(* The invariant *)

HInv == IdsInv /\ ApartInv /\ (Tame => SoundInv)

\* No object has been made.
LEMMA InitHInv ==
    ASSUME Init
    PROVE  HInv
<1>1. obj = [o \in Objects |-> NoObject] /\ ldr = [x \in Ids |-> Blank] /\ mem = [x \in Ids |-> Blank] /\ next = 0
  BY DEF Init
<1>2. /\ NoObject \in Members /\ OwnedBy(NoObject) = {} /\ NoObject.loaders = << >>
      /\ NoObject.parsed = NoBuf /\ NoObject.entries = NoBuf /\ ~NoObject.ready
  BY NoObjectFacts
<1>3. TypeOK
  BY <1>1, <1>2, HpiBoundsAssumption DEF TypeOK
<1>4. IdsInv
  BY <1>1, <1>2, <1>3 DEF IdsInv, NoBuf
<1>5. ApartInv
  BY <1>1, <1>2 DEF ApartInv
<1>6. SoundInv
  <2>1. Sound(NoObject)
    BY <1>2 DEF Sound
  <2> QED BY <1>1, <2>1 DEF SoundInv
<1> QED BY <1>4, <1>5, <1>6 DEF HInv

\* A call of one object keeps the invariant.
LEMMA DoesKeeps ==
    ASSUME HInv, NEW o \in Objects, Does(o)
    PROVE  HInv'
<1>1. PICK m : Changes(o, m) /\ (Tame /\ SoundInv => Sound(m)')
  BY DEF Does
<1>2. IdsInv' /\ ApartInv'
  BY <1>1, ChangeIds, ChangeApart DEF HInv
<1>3. ASSUME Tame PROVE SoundInv'
  BY <1>1, <1>3, ChangeSound DEF HInv
<1>4. Tame' <=> Tame
  BY DEF Tame
<1> QED BY <1>2, <1>3, <1>4 DEF HInv

\* Every call keeps it.
LEMMA NextHInv ==
    ASSUME HInv, [Next]_vars
    PROVE  HInv'
<1>1. IdsInv /\ ApartInv
  BY DEF HInv
<1>2. CASE UNCHANGED vars
  <2>1. obj' = obj /\ ldr' = ldr /\ mem' = mem /\ next' = next
    BY <1>2 DEF vars
  <2>2. \A p \in Objects : OwnedBy(obj[p])' = OwnedBy(obj[p]) /\ Needs(obj[p])' = Needs(obj[p])
    BY <2>1 DEF OwnedBy, Needs
  <2>3. IdsInv'
    <3>1. TypeOK'
      BY <1>1, <2>1 DEF IdsInv, TypeOK
    <3> QED BY <1>1, <2>1, <2>2, <3>1 DEF IdsInv
  <2>4. ApartInv'
    BY <1>1, <2>1, <2>2 DEF ApartInv
  <2>5. ASSUME SoundInv, NEW p \in Objects PROVE Sound(obj[p])'
    <3>1. PICK m : m = obj[p]
      OBVIOUS
    <3>2. Sound(m) /\ m \in Members /\ (m.ready => m.loaders # << >>)
      BY <1>1, <2>5, <3>1, TypeFacts DEF SoundInv, IdsInv
    <3>3. m.loaders # << >> => m.loaders[1] \in OwnedBy(m)
      BY <3>2, FirstLoader
    <3>4. Sound(m)'
      BY <2>1, <3>2, <3>3, SoundStays
    <3> QED BY <2>1, <3>1, <3>4 DEF Sound, Runnable, Alike, Leads, OwnedBy
  <2>6. SoundInv => SoundInv'
    BY <2>5 DEF SoundInv
  <2> QED BY <2>3, <2>4, <2>6 DEF HInv, Tame
<1>3. ASSUME NEW o \in Objects, NEW s \in Objects, Moved(o, s) PROVE HInv'
  <2>1. IdsInv' /\ ApartInv'
    BY <1>1, <1>3, MovedApart
  <2>2. ASSUME Tame PROVE SoundInv'
    BY <1>1, <1>3, <2>2, MovedSound DEF HInv
  <2>3. Tame' <=> Tame
    BY DEF Tame
  <2> QED BY <2>1, <2>2, <2>3 DEF HInv
<1>4. CASE Next
  <2>1. PICK o \in Objects :
            \/ \E b \in Blobs, c \in Configs : Construct(o, b, c)
            \/ LoadSingle(o)
            \/ LoadSingleThrows(o)
            \/ LoadReplicas(o)
            \/ \E k \in 0..GetArchTilesCount("VPUX37XX") : LoadReplicasThrows(o, k)
            \/ \E s \in Objects : \/ Copy(o, s)
                                  \/ Assign(o, s)
                                  \/ \E k \in 0..GetArchTilesCount("VPUX37XX"),
                                        e \in {obj[o].entries, NewEntries(o, s)} :
                                         AssignThrows(o, s, k, e)
                                  \/ Move(o, s)
                                  \/ MoveAssign(o, s)
            \/ Destroy(o)
            \/ \E u \in UserIO : ApplyInputOutput(o, u)
            \/ \E u \in UserIO, k \in 1..GetArchTilesCount("VPUX37XX") :
                   ApplyInputOutputThrows(o, u, k)
            \/ \E k \in ScratchSets : UpdateSharedScratchBuffers(o, k)
            \/ UpdateSharedScratchBuffersThrows(o)
    BY <1>4 DEF Next
  <2>2. GetArchTilesCount("VPUX37XX") = 2
    BY DEF GetArchTilesCount
  <2>3. CASE \E b \in Blobs, c \in Configs : Construct(o, b, c)
    BY <1>1, <2>3, ConstructDoes, DoesKeeps
  <2>4. CASE LoadSingle(o)
    BY <1>1, <2>4, LoadSingleDoes, DoesKeeps
  <2>5. CASE LoadSingleThrows(o)
    BY <1>1, <2>5, LoadSingleThrowsDoes, DoesKeeps
  <2>6. CASE LoadReplicas(o)
    BY <1>1, <2>6, LoadReplicasDoes, DoesKeeps
  <2>7. CASE \E k \in 0..GetArchTilesCount("VPUX37XX") : LoadReplicasThrows(o, k)
    BY <1>1, <2>2, <2>7, LoadReplicasThrowsDoes, DoesKeeps
  <2>8. CASE \E s \in Objects : Copy(o, s)
    BY <1>1, <2>8, CopyDoes, DoesKeeps
  <2>9. CASE \E s \in Objects : Assign(o, s)
    BY <1>1, <2>9, AssignDoes, DoesKeeps
  <2>10. CASE \E s \in Objects : \E k \in 0..GetArchTilesCount("VPUX37XX"),
                 e \in {obj[o].entries, NewEntries(o, s)} : AssignThrows(o, s, k, e)
    BY <1>1, <2>2, <2>10, AssignThrowsDoes, DoesKeeps
  <2>11. CASE \E s \in Objects : Move(o, s) \/ MoveAssign(o, s)
    BY <1>3, <2>11 DEF Move, MoveAssign
  <2>12. CASE Destroy(o)
    BY <1>1, <2>12, DestroyDoes, DoesKeeps
  <2>13. CASE \E u \in UserIO : ApplyInputOutput(o, u)
    BY <1>1, <2>13, ApplyInputOutputDoes, DoesKeeps
  <2>14. CASE \E u \in UserIO, k \in 1..GetArchTilesCount("VPUX37XX") : ApplyInputOutputThrows(o, u, k)
    <3>1. 1..GetArchTilesCount("VPUX37XX") \subseteq Nat
      BY <2>2
    <3> QED BY <1>1, <2>14, <3>1, ApplyInputOutputThrowsDoes, DoesKeeps
  <2>15. CASE (\E k \in ScratchSets : UpdateSharedScratchBuffers(o, k)) \/ UpdateSharedScratchBuffersThrows(o)
    BY <1>1, <2>15, UpdateSharedScratchBuffersDoes, DoesKeeps
  <2> QED BY <2>1, <2>3, <2>4, <2>5, <2>6, <2>7, <2>8, <2>9, <2>10, <2>11, <2>12, <2>13, <2>14, <2>15
<1> QED BY <1>2, <1>4

\* Whatever is called in whatever order, ids are in order, every loader has one owner and
\* no two runnable objects need the same buffer; and every object is sound, provided that
\* the client is tame.
THEOREM ObjectInvariant == Spec => []HInv
<1> QED BY InitHInv, NextHInv, PTL DEF Spec

\* The state keeps its types, also when the client assigns to loaded objects or loads an
\* object twice.
THEOREM TypeCorrect == Spec => []TypeOK
<1>1. HInv => TypeOK
  BY DEF HInv, IdsInv
<1> QED BY <1>1, ObjectInvariant, PTL

-----------------------------------------------------------------------------
(* What the invariant gives for an object that can be run *)

\* The facts about a runnable object that the properties are about.
LEMMA RunnableFacts ==
    ASSUME HInv, Tame, NEW o \in Ready, NEW m, m = obj[o]
    PROVE  /\ o \in Objects /\ m \in Members /\ m.ready /\ Runnable(m) /\ Leads(m)
           /\ Admitted(m.blob) /\ m.blob \in Blobs /\ Len(m.loaders) \in Nat /\ Len(m.loaders) >= 1
           /\ Front(o) = m.loaders[1] /\ Owned(o) = OwnedBy(m)
           /\ \A i \in 1..Len(m.loaders) : ImageOf(ldr[m.loaders[i]], m.blob)
<1>1. o \in Objects /\ m \in Members /\ m.ready /\ m.loaders # << >> /\ m.blob \in Blobs
  BY TypeFacts DEF Ready, HInv, IdsInv
<1>2. Sound(m) /\ Runnable(m) /\ Leads(m)
  BY <1>1 DEF HInv, SoundInv, Sound
<1>3. Len(m.loaders) \in Nat /\ Len(m.loaders) >= 1
  BY <1>1, FirstLoader, MembersFacts
<1>4. m # NoObject
  BY <1>1, NoObjectFacts
<1>5. Admitted(m.blob) /\ \A i \in 1..Len(m.loaders) : ImageOf(ldr[m.loaders[i]], m.blob)
  BY <1>2, <1>4 DEF Sound, OwnedBy
<1> QED BY <1>1, <1>2, <1>3, <1>5 DEF Front, Owned, OwnedBy

\* Two runnable objects have nothing in common that the firmware reads and the host
\* writes, provided that the client neither assigns to objects that own loaders nor loads
\* an object twice.
THEOREM RunsApart == Tame => (Spec => []RunApart)
<1> SUFFICES ASSUME Tame PROVE Spec => []RunApart
  OBVIOUS
<1>1. ASSUME HInv PROVE RunApart
  <2>1. ASSUME NEW o \in Ready PROVE Footprint(o) \subseteq Needs(obj[o]) \cup OwnedBy(obj[o])
    <3>1. PICK m : m = obj[o]
      OBVIOUS
    <3>2. /\ m \in Members /\ Leads(m) /\ Owned(o) = OwnedBy(m) /\ Len(m.loaders) \in Nat /\ Len(m.loaders) >= 1
      BY <1>1, <2>1, <3>1, RunnableFacts
    <3>3. 1 \in 1..Len(m.loaders)
      BY <3>2
    <3>4. m.loaders[1] \in OwnedBy(m)
      BY <3>3 DEF OwnedBy
    <3>5. mem[m.parsed].at \in Needs(m) \cup OwnedBy(m)
      BY <3>2, <3>4 DEF Leads, Needs
    <3> QED BY <3>1, <3>2, <3>5 DEF Footprint, Parsed, Needs
  <2>2. ASSUME NEW o \in Ready, NEW p \in Ready, o # p PROVE Footprint(o) \cap Footprint(p) = {}
    <3>1. o \in Objects /\ p \in Objects /\ obj[o].ready /\ obj[p].ready
      BY <2>2 DEF Ready
    <3>2. /\ OwnedBy(obj[o]) \cap OwnedBy(obj[p]) = {} /\ Needs(obj[o]) \cap Needs(obj[p]) = {}
          /\ Needs(obj[o]) \cap OwnedBy(obj[p]) = {} /\ Needs(obj[p]) \cap OwnedBy(obj[o]) = {}
      BY <1>1, <2>2, <3>1 DEF HInv, ApartInv, Needs
    <3> QED BY <2>1, <2>2, <3>2
  <2> QED BY <2>2 DEF RunApart
<1> QED BY <1>1, ObjectInvariant, PTL

\* What the firmware starts from leads it to the object's own images, one by one.
THEOREM ImagesMapped == Tame => (Spec => []MapsOwnImages)
<1> SUFFICES ASSUME Tame PROVE Spec => []MapsOwnImages
  OBVIOUS
<1>1. ASSUME HInv, NEW o \in Ready
      PROVE  /\ Parsed(o).where = "entries" => Parsed(o).at = obj[o].entries
             /\ Started(o) = obj[o].loaders
             /\ Parsed(o).slices = obj[o].blob.tiles
             /\ \A i \in 1..Len(obj[o].loaders) :
                    LET l == ldr[obj[o].loaders[i]] IN l.loaded /\ l.blob = obj[o].blob
  <2>1. PICK m : m = obj[o]
    OBVIOUS
  <2>2. /\ m \in Members /\ Runnable(m) /\ Leads(m) /\ Len(m.loaders) \in Nat
        /\ \A i \in 1..Len(m.loaders) : ImageOf(ldr[m.loaders[i]], m.blob)
    BY <1>1, <2>1, RunnableFacts
  <2>3. m.loaders \in Seq(Ids)
    BY <2>2, MembersFacts
  <2>4. PICK s : s = mem[m.parsed]
    OBVIOUS
  <2>5. Parsed(o) = s
    BY <2>1, <2>4 DEF Parsed
  <2>6. \A i \in 1..Len(m.loaders) : ldr[m.loaders[i]].loaded /\ ldr[m.loaders[i]].blob = m.blob
    BY <2>2 DEF Runnable, ImageOf
  <2>7. CASE Replicated(m.blob)
    <3>1. s.where = "entries" /\ s.at = m.entries /\ s.count = 2 /\ mem[m.entries].of = m.loaders /\ s.slices = m.blob.tiles
      BY <2>2, <2>4, <2>7 DEF Leads
    <3>2. Len(m.loaders) = 2
      BY <2>2, <2>7 DEF Runnable, Replicas
    <3>3. SubSeq(m.loaders, 1, 2) = m.loaders
      BY <2>3, <3>2
    <3>4. Started(o) = m.loaders
      BY <2>5, <3>1, <3>3 DEF Started
    <3> QED BY <2>1, <2>5, <2>6, <3>1, <3>4
  <2>8. CASE ~Replicated(m.blob)
    <3>1. s.where = "entry" /\ s.at = m.loaders[1] /\ s.slices = m.blob.tiles
      BY <2>2, <2>4, <2>8 DEF Leads
    <3>2. Len(m.loaders) = 1
      BY <2>2, <2>8 DEF Runnable, Replicas
    <3>3. <<m.loaders[1]>> = m.loaders
      BY <2>3, <3>2
    <3>4. Started(o) = m.loaders
      BY <2>5, <3>1, <3>3 DEF Started
    <3> QED BY <2>1, <2>5, <2>6, <3>1, <3>4
  <2> QED BY <2>7, <2>8
<1>2. HInv => MapsOwnImages
  BY <1>1 DEF MapsOwnImages
<1> QED BY <1>2, ObjectInvariant, PTL

\* Every image is relocated with the table of the tiles it may run on.
THEOREM TablesMatch == Tame => (Spec => []TablesMatchTiles)
<1> SUFFICES ASSUME Tame PROVE Spec => []TablesMatchTiles
  OBVIOUS
<1>1. ASSUME HInv, NEW o \in Ready, obj[o].blob.arch = "VPUX37XX", NEW i \in 1..Len(obj[o].loaders)
      PROVE  LET t == ldr[obj[o].loaders[i]].table IN
             /\ t \in 0..NTabs - 1
             /\ IF Replicated(obj[o].blob) THEN \A y \in RuntimeSymbols : TileOf(t, y) = i - 1
                                           ELSE t = NTabs - 1
  <2>1. PICK m : m = obj[o]
    OBVIOUS
  <2>2. Runnable(m) /\ Admitted(m.blob) /\ m.blob \in Blobs
    BY <1>1, <2>1, RunnableFacts
  <2>3. NTabs = 3 /\ m.blob.tiles \in Nat /\ (Replicated(m.blob) <=> m.blob.arch = "VPUX37XX" /\ m.blob.tiles < 2)
    BY <2>2, ReplicatedFacts
  <2>4. PICK t : t = ldr[m.loaders[i]].table
    OBVIOUS
  <2>5. t = (IF Replicated(m.blob) THEN i - 1 ELSE m.blob.tiles)
    BY <1>1, <2>1, <2>2, <2>4 DEF Runnable, TableFor
  <2>6. CASE Replicated(m.blob)
    <3>1. i = 1 \/ i = 2
      BY <2>1, <2>2, <2>6 DEF Runnable, Replicas
    <3>2. t \in 0..2 /\ \A y \in RuntimeSymbols : TileOf(t, y) = i - 1
      BY <2>5, <2>6, <3>1 DEF TileOf
    <3> QED BY <2>1, <2>3, <2>4, <2>6, <3>2
  <2>7. CASE ~Replicated(m.blob)
    <3>1. m.blob.tiles <= 2
      BY <1>1, <2>1, <2>2 DEF Admitted, TilesAccepted, GetHardwareTileCount
    <3>2. t = 2
      BY <1>1, <2>1, <2>3, <2>5, <2>7, <3>1
    <3> QED BY <2>1, <2>3, <2>4, <2>7, <3>2
  <2> QED BY <2>6, <2>7
<1>2. HInv => TablesMatchTiles
  BY <1>1 DEF TablesMatchTiles
<1> QED BY <1>2, ObjectInvariant, PTL

\* All images of a runnable object have the same scratch, and the same user buffers unless
\* an exception came out of the patching of one of them and no call has returned since.
THEOREM ReplicasHaveTheSame == Tame => (Spec => []ReplicasAgree)
<1> SUFFICES ASSUME Tame PROVE Spec => []ReplicasAgree
  OBVIOUS
<1>1. ASSUME HInv, NEW o \in Ready, NEW i \in 1..Len(obj[o].loaders)
      PROVE  /\ HalfPatched(o) \/ ldr[obj[o].loaders[i]].io = ldr[Front(o)].io
             /\ ldr[obj[o].loaders[i]].scratch = ldr[Front(o)].scratch
  <2>1. PICK m : m = obj[o]
    OBVIOUS
  <2>2. /\ Runnable(m) /\ m.blob \in Blobs /\ Front(o) = m.loaders[1] /\ Len(m.loaders) \in Nat /\ Len(m.loaders) >= 1
        /\ \A j \in 1..Len(m.loaders) : ImageOf(ldr[m.loaders[j]], m.blob)
    BY <1>1, <2>1, RunnableFacts
  <2>3. HalfPatched(o) \/ ldr[m.loaders[i]].io = ldr[m.loaders[1]].io
    BY <1>1, <2>1, <2>2 DEF Runnable, Alike, HalfPatched
  <2>4. ldr[m.loaders[i]].scratch = ldr[m.loaders[1]].scratch
    <3>1. CASE Replicated(m.blob)
      <4>1. m.blob.arch = "VPUX37XX"
        BY <2>2, <3>1, ReplicatedFacts
      <4>2. MayBeRunInParallel(m.blob)
        BY <4>1 DEF MayBeRunInParallel
      <4>3. \A j \in 1..Len(m.loaders) : ldr[m.loaders[j]].scratch = NoScratch
        BY <2>2, <4>2 DEF ImageOf
      <4>4. 1 \in 1..Len(m.loaders) /\ i \in 1..Len(m.loaders)
        BY <1>1, <2>1, <2>2
      <4> QED BY <4>3, <4>4
    <3>2. CASE ~Replicated(m.blob)
      <4>1. Len(m.loaders) = 1
        BY <2>2, <3>2 DEF Runnable, Replicas
      <4>2. i = 1
        BY <1>1, <2>1, <4>1
      <4> QED BY <4>2
    <3> QED BY <3>1, <3>2
  <2> QED BY <2>1, <2>2, <2>3, <2>4
<1>2. HInv => ReplicasAgree
  BY <1>1 DEF ReplicasAgree
<1> QED BY <1>2, ObjectInvariant, PTL

\* A network whose inferences may be run in parallel leaves room for a second one.
THEOREM ParallelHasRoom == Tame => (Spec => []ParallelFits)
<1> SUFFICES ASSUME Tame PROVE Spec => []ParallelFits
  OBVIOUS
<1>1. ASSUME HInv, NEW o \in Ready, NEW i \in 1..Len(obj[o].loaders),
             obj[o].blob.arch = "VPUX40XX", ldr[obj[o].loaders[i]].parallel
      PROVE  2 * obj[o].blob.tiles <= GetHardwareTileCount(obj[o].blob.arch)
  <2>1. PICK m : m = obj[o]
    OBVIOUS
  <2>2. m.blob \in Blobs /\ ImageOf(ldr[m.loaders[i]], m.blob)
    BY <1>1, <2>1, RunnableFacts
  <2>3. MayBeRunInParallel(m.blob)
    BY <1>1, <2>1, <2>2 DEF ImageOf
  <2>4. GetHardwareTileCount(m.blob.arch) = 6 /\ m.blob.tiles \in Nat
    BY <1>1, <2>1, <2>2, ReplicatedFacts DEF GetHardwareTileCount
  <2>5. m.blob.tiles <= 3
    BY <1>1, <2>1, <2>3, <2>4 DEF MayBeRunInParallel
  <2> QED BY <2>1, <2>4, <2>5
<1>2. HInv => ParallelFits
  BY <1>1 DEF ParallelFits
<1> QED BY <1>2, ObjectInvariant, PTL

=============================================================================
