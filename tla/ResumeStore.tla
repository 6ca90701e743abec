---------------------------- MODULE ResumeStore ----------------------------
(***************************************************************************)
(* What the resume database promises its callers: a map from torrent ids   *)
(* to specifications.  Write replaces a specification as a whole, the      *)
(* smaller writes replace one field of a specification that is there, and  *)
(* nothing else (no failed call, no crash, no restart) changes the map.    *)
(***************************************************************************)
CONSTANTS
    Ids,
    Specs,         \* the specifications callers write
    Fields,
    Later(_),      \* the values a field is given after the first write
    Kept(_),       \* what is kept of a specification
    NoSpec

VARIABLE store

Init == store = [i \in Ids |-> NoSpec]

Write(i, spec) == store' = [store EXCEPT ![i] = Kept(spec)]

WriteField(i, f, v) ==
    /\ store[i] # NoSpec
    /\ store' = [store EXCEPT ![i][f] = v]

Next ==
    \E i \in Ids :
        \/ \E spec \in Specs : Write(i, spec)
        \/ \E f \in Fields : \E v \in Later(f) : WriteField(i, f, v)

Spec == Init /\ [][Next]_store
=============================================================================
