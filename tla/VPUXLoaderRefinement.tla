------------------------ MODULE VPUXLoaderRefinement ------------------------
(* VPUXLoader implements LinkedImages. *)
EXTENDS VPUXLoader

ASSUME ScratchNamesAssumption == ScratchSets \cap {"own", "missing"} = {}

\* Every section's bytes, relocated once by every section that targets it.
ImageLinked(l) ==
    \A s \in SecIdx : infer[l][s].has /\ infer[l][s].hasData =>
        LET c == mem[infer[l][s].buf] IN
        c.fill /\ \A r \in SecIdx : c.patch[r] = Expected(l, s, r)

\* Where the scratch sections are: in the loader's own memory, in the set the driver
\* supplied, or nowhere.
ScratchOf(l) ==
    IF mbr[l].scratch = << >> THEN "own"
    ELSE IF ~ScratchReady(l) THEN "missing"
    ELSE dev[infer[l][mbr[l].scratch[1]].buf][1]

Plain == [status |-> "absent", op |-> "none", tab |-> NoArg, io |-> NoIO, scratch |-> "own",
          sound |-> TRUE, linked |-> FALSE]
AsUser(x) == IF x = Broken THEN NoIO ELSE x

\* The value of a loader between calls is read off its image; within a call it is what
\* the call was given.
ValueOf(l) ==
    LET c == ctl[l]
        busy == [Plain EXCEPT !.status = "busy", !.op = c.op, !.tab = mbr[l].symTab]
    IN CASE c.pc = "absent" -> Plain
         [] c.pc = "idle" /\ ~mbr[l].loaded -> [Plain EXCEPT !.status = "made"]
         [] c.pc = "idle" /\ mbr[l].loaded ->
               [status |-> "loaded", op |-> "none", tab |-> mbr[l].symTab, io |-> AsUser(io[l]),
                scratch |-> ScratchOf(l), sound |-> io[l] # Broken,
                linked |-> io[l] # Broken /\ ScratchReady(l) /\ ImageLinked(l)]
         [] c.op = "load" -> busy
         [] c.op \in {"clone", "assign"} -> [busy EXCEPT !.op = "copy", !.scratch = ScratchOf(l)]
         [] c.op = "scratch" -> [busy EXCEPT !.scratch = c.arg]
         [] c.op = "jit" -> [busy EXCEPT !.scratch = ScratchOf(l), !.sound = io[l] # Broken,
                                         !.io = IF io[l] = Broken THEN NoIO ELSE c.arg]

Abstract == INSTANCE LinkedImages WITH obj <- [l \in Loaders |-> ValueOf(l)]

\* vpux_loader.cpp:499-571, 602-767, 1193-1206: whatever is shared between loaders and
\* however their loops interleave, each behaves as a value of its own that is linked for
\* what its last calls asked for.
ImplementsLinkedImages == Abstract!Spec
=============================================================================
