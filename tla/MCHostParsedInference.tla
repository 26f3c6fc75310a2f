------------------------ MODULE MCHostParsedInference ------------------------
(* Blobs and constants for checking HostParsedInference. *)
EXTENDS HostParsedInference, TLC

V(major, minor) == [major |-> major, minor |-> minor]
MCLibraryELF == [a \in Supported |-> V(1, 2)]
MCLibraryMI == [a \in Supported |-> V(7, 0)]

Network(arch, tiles) ==
    [arch |-> arch, tiles |-> tiles, elfAbi |-> V(1, 0), mi |-> V(7, 0), netdesc |-> 1,
     platform |-> 1, perf |-> 0, entry |-> TRUE, scratch |-> FALSE]

OneTile == [Network("VPUX37XX", 1) EXCEPT !.scratch = TRUE]
TwoTiles == [Network("VPUX37XX", 2) EXCEPT !.perf = 1]
ThreeTiles == Network("VPUX37XX", 3)
Wide == [Network("VPUX40XX", 4) EXCEPT !.scratch = TRUE]

\* Networks that run; networks of which load() throws late; networks the constructor
\* refuses, each at another check.
Running == {OneTile, TwoTiles, Wide}
LateThrows == {[OneTile EXCEPT !.perf = 2], [Wide EXCEPT !.entry = FALSE]}
Refused ==
    {ThreeTiles, Network("VPUX30XX", 1),
     [OneTile EXCEPT !.netdesc = 0], [OneTile EXCEPT !.platform = 2],
     [OneTile EXCEPT !.elfAbi = V(1, 3)], [OneTile EXCEPT !.elfAbi = V(0, 0)],
     [OneTile EXCEPT !.mi = V(6, 0)]}
Networks == Running \cup LateThrows \cup Refused

Defaults == {[arch |-> a, nnVersion |-> V(0, 0)] : a \in Supported}
AllConfigs == Defaults \cup {[arch |-> "VPUX37XX", nnVersion |-> V(7, 1)],
                             [arch |-> "VPUX30XX", nnVersion |-> V(0, 0)]}

Perms == Permutations(Objects)
=============================================================================
