---------------------------- MODULE LinkedImages ----------------------------
(***************************************************************************)
(* What VPUXLoader promises its driver, without buffers, sharing, backups   *)
(* or loops.  A loader is a value of its own: a call on one of them changes *)
(* no other.  A call that returns leaves an image that is linked for exactly *)
(* what the driver has asked for: the runtime symbols, the scratch memory   *)
(* and the user buffers of the last call; a call that throws leaves a loader *)
(* that is gone (a copy), as before (load) or unsound until it is relocated *)
(* anew.                                                                    *)
(***************************************************************************)
EXTENDS Naturals

CONSTANTS Loaders, SymTabs, UserIO, ScratchSets, NoArg, NoIO

Own == "own"            \* scratch allocated by the loader itself
Missing == "missing"    \* scratch the driver has still to supply

VARIABLE obj            \* per loader: what can be relied on

Value == [status : {"absent", "made", "busy", "loaded"},
          op : {"none", "load", "copy", "scratch", "jit"},
          tab : SymTabs \cup {NoArg}, io : UserIO \cup {NoIO},
          scratch : ScratchSets \cup {Own, Missing}, sound : BOOLEAN, linked : BOOLEAN]
Nobody == [status |-> "absent", op |-> "none", tab |-> NoArg, io |-> NoIO, scratch |-> Own,
           sound |-> TRUE, linked |-> FALSE]
Made == [Nobody EXCEPT !.status = "made"]

Init == obj = [l \in Loaders |-> Nobody]

Become(l, v) == obj' = [obj EXCEPT ![l] = v]

Make(l) ==
    /\ \A m \in Loaders : obj[m] = Nobody
    /\ Become(l, Made)

Destroy(l) ==
    /\ obj[l].status \in {"made", "loaded"}
    /\ Become(l, Nobody)

-----------------------------------------------------------------------------
(* A call begins: what it is meant to result in *)

Begun(v, op) == [v EXCEPT !.status = "busy", !.op = op, !.linked = FALSE]

Load(l, t) ==
    /\ obj[l] = Made
    /\ Become(l, [Begun(Made, "load") EXCEPT !.tab = t])

\* The copy of a loader, an unsound one too, starts from the image in the blob: it has
\* neither the user buffers nor the scratch memory of its source.
Copy(l, m, t) ==
    /\ l # m /\ obj[l].status \in {"absent", "loaded"}
    /\ \/ obj[m].status = "loaded"
       \/ obj[m].status = "busy" /\ obj[m].op \in {"scratch", "jit"}
    /\ Become(l, [Begun(Nobody, "copy") EXCEPT
                     !.tab = t, !.scratch = IF obj[m].scratch = Own THEN Own ELSE Missing])

\* New scratch memory; the user buffers have to be applied again.
Supply(l, a) ==
    /\ obj[l].status = "loaded" /\ obj[l].scratch # Own
    /\ Become(l, [Begun(obj[l], "scratch") EXCEPT !.scratch = a, !.io = NoIO, !.sound = TRUE])

Infer(l, u) ==
    /\ obj[l].status = "loaded"
    /\ Become(l, [Begun(obj[l], "jit") EXCEPT !.io = IF obj[l].sound THEN u ELSE NoIO])

-----------------------------------------------------------------------------
(* It returns, or throws *)

\* Only load() finds out whether the driver shares scratch memory.
Returned(v, s) ==
    [v EXCEPT !.status = "loaded", !.op = "none", !.scratch = s,
              !.linked = v.sound /\ s # Missing]
Return(l) ==
    /\ obj[l].status = "busy"
    /\ \E s \in IF obj[l].op = "load" THEN {Own, Missing} ELSE {obj[l].scratch} :
          Become(l, Returned(obj[l], s))

Unsound(v) == [v EXCEPT !.status = "loaded", !.op = "none", !.sound = FALSE, !.io = NoIO]
Fail(l) ==
    /\ obj[l].status = "busy"
    /\ \/ obj[l].op = "load" /\ Become(l, Made)
       \/ obj[l].op = "copy" /\ Become(l, Nobody)
       \/ obj[l].op # "load" /\ Become(l, Unsound(obj[l]))

Next ==
    \E l \in Loaders :
        \/ Make(l) \/ Destroy(l) \/ Return(l) \/ Fail(l)
        \/ \E t \in SymTabs : Load(l, t)
        \/ \E m \in Loaders, t \in SymTabs : Copy(l, m, t)
        \/ \E a \in ScratchSets : Supply(l, a)
        \/ \E u \in UserIO : Infer(l, u)

Spec == Init /\ [][Next]_obj
=============================================================================
