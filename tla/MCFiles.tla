------------------------------- MODULE MCFiles --------------------------------
(***************************************************************************)
(* The files of a trail, as the stages write them (ArtifactStore) and as   *)
(* the garbage collector removes and renames them (Retention).  The first  *)
(* looks into a write and the second at finished files, so a behaviour     *)
(* follows one of the two, its focus, and the other stands still.          *)
(***************************************************************************)
EXTENDS ArtifactStore

CONSTANTS Kinds, Tickers, BadTickers, Gone, MaxDate, MaxWrites

VARIABLES focus, files, writes, open, phase, todo, renames, upset, mixed

Gc == INSTANCE Retention WITH disk <- files

gcVars  == <<files, writes, open, phase, todo, renames, upset, mixed>>
allVars == <<focus, vars, gcVars>>

ASSUME RetentionAssumption == Gc!BoundsAssumption /\ Gc!ScopeAssumption

MCInit == Init /\ Gc!Init /\ focus \in {"store", "gc"}

MCNext ==
    \/ focus = "store" /\ Next    /\ UNCHANGED <<focus, gcVars>>
    \/ focus = "gc"    /\ Gc!Next /\ UNCHANGED <<focus, vars>>

MCSpec == MCInit /\ [][MCNext]_allVars

------------------------------------------------------------------------------
(* Retention: what the registry calls evidence survives every clean-up.    *)
EvidenceSurvives == Gc!EvidenceSurvives

(* Retention: a clean-up that ends leaves nothing to the next.             *)
OnePassSettles == Gc!OnePassSettles

(* Retention: the copy that a plan keeps is the newest.                    *)
NewestCopyKept == Gc!NewestCopyKept
==============================================================================
