------------------------------ MODULE Retention ------------------------------
(***************************************************************************)
(* The retention GC of telemetry/: the registry of artifact kinds          *)
(* (telemetry_registry.py), the classifier and planner (telemetry_gc.py)   *)
(* and the executor that unlinks, then renames                             *)
(* (applications/telemetry_gc.py).  It is started by hand, takes no lock,  *)
(* and works from names alone; stages go on writing while it runs.         *)
(*                                                                         *)
(* A file is a canonical name (kind, scope, date) and the collision number *)
(* n of the artifact store, 0 for the canonical name itself.  Its content  *)
(* is the number of the write that made it, so that a later write has a    *)
(* greater number.                                                         *)
(***************************************************************************)
EXTENDS Naturals, FiniteSets, FiniteSetsExt

CONSTANTS
    Kinds,      \* the kinds of file that are tried
    Tickers,    \* ticker directories with a valid name (KR_003550)
    BadTickers, \* ticker directories that violate TICKER_ID_RE (088350)
    Gone,       \* kinds whose producer module is no longer in the repository
    MaxDate,    \* bound: dates 1 .. MaxDate
    MaxWrites   \* bound: files written

NoScope == "-"
NoDate  == 0
NoWrite == 0

Entry(class, scoped, dated, exact) ==
    [class |-> class, scoped |-> scoped, dated |-> dated, exact |-> exact]

(* The registry.  `scoped`: a ticker directory that must be well-formed;   *)
(* `dated`: the name carries a date; `exact`: the glob is a plain name     *)
(* (thesis.json), which a collision copy (thesis.1.json) does not match.   *)
Registry ==
  [positions_account_summary    |-> Entry("snapshot",  FALSE, TRUE,  FALSE),
   positions_account_derived    |-> Entry("snapshot",  FALSE, TRUE,  FALSE),
   positions_ticker_balance     |-> Entry("snapshot",  TRUE,  TRUE,  FALSE),
   positions_ticker_thesis_json |-> Entry("state",     TRUE,  FALSE, TRUE),
   positions_ticker_thesis_md   |-> Entry("state",     TRUE,  FALSE, TRUE),
   positions_ticker_drift       |-> Entry("snapshot",  TRUE,  TRUE,  FALSE),
   positions_ticker_expiry      |-> Entry("snapshot",  TRUE,  TRUE,  FALSE),
   nav_history                  |-> Entry("permanent", TRUE,  FALSE, FALSE),
   external_signal_intake       |-> Entry("permanent", TRUE,  FALSE, FALSE),
   segments_vector_store        |-> Entry("binary",    FALSE, FALSE, TRUE),
   audit_violations             |-> Entry("permanent", FALSE, TRUE,  FALSE),
   audit_breadth                |-> Entry("permanent", FALSE, TRUE,  FALSE),
   audit_subsidiaries           |-> Entry("permanent", FALSE, TRUE,  FALSE),
   audit_shadow_state           |-> Entry("state",     FALSE, FALSE, TRUE),
   audit_shadow_trade_log       |-> Entry("permanent", FALSE, FALSE, FALSE),
   audit_scheduler_state        |-> Entry("snapshot",  FALSE, TRUE,  FALSE),
   policy_draft_intake          |-> Entry("ephemeral", TRUE,  TRUE,  FALSE),
   policy_draft_profile         |-> Entry("ephemeral", TRUE,  TRUE,  FALSE),
   logs_cron                    |-> Entry("ephemeral", FALSE, TRUE,  FALSE)]

Registered == DOMAIN Registry

BoundsAssumption == MaxDate \in Nat /\ MaxWrites \in Nat
ScopeAssumption ==
    Tickers \cap BadTickers = {} /\ NoScope \notin Tickers \cup BadTickers

Dates  == 1 .. MaxDate
Writes == 1 .. MaxWrites

(* The canonical names there can be; a name no glob matches is one file.   *)
Scoped(k) == k \in Registered /\ Registry[k].scoped
Dated(k)  == k \in Registered /\ Registry[k].dated
Exact(k)  == k \in Registered /\ Registry[k].exact
Canonicals ==
    UNION {[kind : {k},
            scope : IF Scoped(k) THEN Tickers \cup BadTickers ELSE {NoScope},
            date : IF Dated(k) THEN Dates ELSE {NoDate}] : k \in Kinds}

Suffixes == 0 .. MaxWrites
Names    == Canonicals \X Suffixes

VARIABLES
    disk,     \* [Names -> the write that made the file, NoWrite: no such file]
    writes,   \* files written so far
    open,     \* the write under way
    phase,    \* the GC: "idle", "delete" or "rename"
    todo,     \* names its plan deletes and that it has not yet come to
    renames,  \* canonicals its plan normalizes: canonical -> its winner's suffix
    upset,    \* history: some GC was killed half-way, or a stage wrote beside it
    mixed     \* history: a stage wrote while the GC under way was at work

vars == <<disk, writes, open, phase, todo, renames, upset, mixed>>

Files   == {f \in DOMAIN disk : disk[f] # NoWrite}
Of(c)   == {n \in Suffixes : disk[<<c, n>>] # NoWrite}
Present == {f[1] : f \in Files}

TypeOK ==
    /\ disk \in [Names -> Writes \cup {NoWrite}]
    /\ writes \in 0 .. MaxWrites
    /\ open \in Writes \cup {NoWrite}
    /\ phase \in {"idle", "delete", "rename"}
    /\ todo \subseteq Names
    /\ renames \subseteq Names
    /\ upset \in BOOLEAN /\ mixed \in BOOLEAN

Init ==
    /\ disk = [f \in Names |-> NoWrite]
    /\ writes = 0
    /\ open = NoWrite
    /\ phase = "idle"
    /\ todo = {} /\ renames = {}
    /\ upset = FALSE /\ mixed = FALSE

------------------------------------------------------------------------------
(* producer_exists: the module named in the entry is a file or a package.  *)
ProducerExists(k) == k \notin Gone

(* classify(rel): the verdict on one file, from its name.                  *)
Verdict(c, n) ==
    IF \/ c.kind \notin Registered
       \/ Exact(c.kind) /\ n > 0
       \/ c.scope \in BadTickers              THEN "orphan"
    ELSE IF ~ProducerExists(c.kind)           THEN "legacy"
    ELSE "candidate"

(* The files of a canonical name are judged by the first of them in the    *)
(* sorted walk: a digit sorts before the suffix, so stem.1.json comes      *)
(* before stem.json.                                                       *)
FirstOf(c) == IF Of(c) = {0} THEN 0 ELSE Min(Of(c) \ {0})

Survivors == {c \in Present : Verdict(c, FirstOf(c)) = "candidate"}

Class(c) == Registry[c.kind].class

(* Mutant: superseded whatever the retention class.                        *)
SupersededOfAnyClass ==
    {c \in Survivors : \E d \in Survivors : /\ d.kind = c.kind /\ d.scope = c.scope
                                            /\ d.date > c.date}

(* SNAPSHOT: only the latest date of a (kind, scope) is kept.              *)
Superseded ==
    {c \in Survivors : /\ Class(c) = "snapshot"
                       /\ \E d \in Survivors : /\ d.kind = c.kind /\ d.scope = c.scope
                                               /\ d.date > c.date}

(* EPHEMERAL: dated files older than the cutoff of --keep-logs-days.       *)
AgedOut(cutoff) ==
    {c \in Survivors : /\ Class(c) = "ephemeral" /\ c.date # NoDate
                       /\ c.date < cutoff}

Kept(cutoff) == Survivors \ (Superseded \cup AgedOut(cutoff))

(* Mutant: the first copy wins.                                            *)
WinnerIsFirst(c) == Min(Of(c))
(* The collision copy with the greatest number takes the canonical name.   *)
Winner(c) == Max(Of(c))

(* Mutant: of a name that is dropped only the winner is planned.           *)
PlanDeleteWinnerOnly(cutoff) ==
    LET kept == Kept(cutoff)
    IN  {f \in Files : f[1] \notin kept <=> f[2] = Winner(f[1])}

PlanDelete(cutoff) ==
    LET kept == Kept(cutoff)
    IN  {f \in Files : f[1] \notin kept \/ f[2] # Winner(f[1])}
PlanNormalize(cutoff) ==
    {<<c, Winner(c)>> : c \in {k \in Kept(cutoff) : Winner(k) > 0}}

------------------------------------------------------------------------------
(* A stage writes: the artifact store takes the first free suffix of the   *)
(* canonical name and fills the file some time later.                      *)
BeginWrite(c) ==
    /\ open = NoWrite
    /\ writes < MaxWrites
    /\ writes' = writes + 1
    /\ open' = writes + 1
    /\ LET n == Min(Suffixes \ Of(c))
       IN  disk' = [disk EXCEPT ![<<c, n>>] = writes + 1]
    /\ mixed' = (mixed \/ phase # "idle")
    /\ UNCHANGED <<phase, todo, renames, upset>>

(* The write returns, or its process dies and leaves the file torn.        *)
EndWrite ==
    /\ open # NoWrite
    /\ open' = NoWrite
    /\ UNCHANGED <<disk, writes, phase, todo, renames, upset, mixed>>

(* --apply: the tree is walked and planned at once, then the plan is       *)
(* executed name by name.  (Without --apply nothing changes.)              *)
Scan(cutoff) ==
    /\ phase = "idle"
    /\ todo' = PlanDelete(cutoff)
    /\ renames' = PlanNormalize(cutoff)
    /\ phase' = "delete"
    /\ mixed' = (open # NoWrite)
    /\ UNCHANGED <<disk, writes, open, upset>>

(* `if p.exists(): p.unlink()`                                             *)
Delete(f) ==
    /\ phase = "delete"
    /\ f \in todo
    /\ disk' = [disk EXCEPT ![f] = NoWrite]
    /\ todo' = todo \ {f}
    /\ UNCHANGED <<writes, open, phase, renames, upset, mixed>>

DeletesDone ==
    /\ phase = "delete"
    /\ todo = {}
    /\ phase' = "rename"
    /\ UNCHANGED <<disk, writes, open, todo, renames, upset, mixed>>

(* `if src.exists(): src.rename(dst)` replaces whatever dst is by then.    *)
Rename(f) ==
    /\ phase = "rename"
    /\ f \in renames
    /\ disk' = IF disk[f] = NoWrite THEN disk
               ELSE [disk EXCEPT ![<<f[1], 0>>] = disk[f], ![f] = NoWrite]
    /\ renames' = renames \ {f}
    /\ UNCHANGED <<writes, open, phase, todo, upset, mixed>>

RenamesDone ==
    /\ phase = "rename"
    /\ renames = {}
    /\ phase' = "idle"
    /\ upset' = (upset \/ mixed)
    /\ UNCHANGED <<disk, writes, open, todo, renames, mixed>>

Die ==
    /\ phase # "idle"
    /\ phase' = "idle"
    /\ todo' = {} /\ renames' = {}
    /\ upset' = TRUE
    /\ UNCHANGED <<disk, writes, open, mixed>>

Next ==
    \/ \E c \in Canonicals : BeginWrite(c)
    \/ EndWrite
    \/ \E cutoff \in Dates \cup {NoDate} : Scan(cutoff)
    \/ \E f \in todo : Delete(f)
    \/ DeletesDone
    \/ \E f \in renames : Rename(f)
    \/ RenamesDone
    \/ Die

Spec == Init /\ [][Next]_vars

------------------------------------------------------------------------------
Sound(c) == c.kind \in Registered \ Gone /\ c.scope \notin BadTickers

(* Evidence is not lost to a clean-up: a PERMANENT name that has a file    *)
(* keeps one through any GC, killed anywhere, and any write beside it; of  *)
(* a SNAPSHOT the same holds for the newest date there is.                 *)
Evidence ==
    {c \in Present : /\ Sound(c)
                     /\ \/ Class(c) = "permanent"
                        \/ /\ Class(c) = "snapshot"
                           /\ \A d \in Present :
                                d.kind = c.kind /\ d.scope = c.scope => d.date <= c.date}
EvidenceSurvives == [][\A c \in Evidence : c \in Present']_vars

(* A GC that came to its end with no write beside it leaves nothing for    *)
(* the next one, whatever earlier GCs were killed half-way.                *)
OnePassSettles ==
    (phase = "rename" /\ renames = {} /\ ~mixed) =>
        PlanDelete(NoDate) = {} /\ PlanNormalize(NoDate) = {}

(* "The newest copy is kept": as long as no GC was killed half-way and no  *)
(* stage wrote beside one, what a plan deletes of a name it keeps is older *)
(* than the copy it keeps.  (Afterwards the greatest suffix may be older.) *)
(* A plain name is no such name: with a copy beside it all of it goes, see *)
(* StateSurvives.                                                          *)
NewestCopyKept ==
    (phase = "delete" /\ ~upset /\ ~mixed) =>
        \A f \in todo : f[1] \in Survivors /\ ~Exact(f[1].kind) /\ disk[f] # NoWrite =>
            \/ f[1] \in Superseded \/ Class(f[1]) = "ephemeral"
            \/ \E n \in Of(f[1]) : <<f[1], n>> \notin todo /\ disk[<<f[1], n>>] > disk[f]

(* The registry says of STATE: a living file that the GC never prunes,     *)
(* only normalizes.                                                        *)
StateSurvives ==
    [][\A c \in Present : Sound(c) /\ Class(c) = "state" => c \in Present']_vars
==============================================================================
