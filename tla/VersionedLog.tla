---------------------------- MODULE VersionedLog -----------------------------
(***************************************************************************)
(* What guard G20 promises a reader of the trail: each artifact path is a  *)
(* log of versions.  A run appends a version, which is incomplete until it *)
(* is sealed with its payload or abandoned for ever; a version is sealed   *)
(* only while it is the last one; a sealed version never changes and no    *)
(* version is ever dropped.                                                *)
(***************************************************************************)
EXTENDS Sequences, Naturals

CONSTANTS Paths, Payloads, Torn

VARIABLE versions     \* [Paths -> Seq(Payloads \cup {Torn})]

Init == versions = [p \in Paths |-> << >>]

Start(p) == versions' = [versions EXCEPT ![p] = Append(@, Torn)]

Seal(p, d) ==
    /\ versions[p] # << >>
    /\ versions[p][Len(versions[p])] = Torn
    /\ versions' = [versions EXCEPT ![p][Len(versions[p])] = d]

Next == \E p \in Paths : Start(p) \/ \E d \in Payloads : Seal(p, d)

Spec == Init /\ [][Next]_versions
==============================================================================
