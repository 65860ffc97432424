------------------------------ MODULE DailyRun -------------------------------
(***************************************************************************)
(* The chain of a trading day: run_daily_local.sh and the phases of        *)
(* daily_pipeline.sh.  Stages are processes that meet only in files: each  *)
(* opens its inputs by their canonical names and writes its own output     *)
(* through the artifact store, so that a second output of a date gets a    *)
(* suffix.  Launches follow one another (RunLock for the daily run; a      *)
(* person who starts a phase by hand waits for it); within a launch any    *)
(* stage may fail, die while writing, or find a torn input.                *)
(*                                                                         *)
(* An artifact is named after the stage that writes it.  What a stage read *)
(* is remembered by the launch that had written it.                        *)
(***************************************************************************)
EXTENDS Naturals, Sequences

CONSTANTS
    MaxDay,       \* bound: dates 1 .. MaxDay
    MaxLaunches,  \* bound: launches over all dates
    MaxFaults,    \* bound: failed, torn and killed steps
    MaxAge,       \* --max-age-days of the constituents cache
    Kinds         \* the ways to launch that are tried

(* What each stage opens by its canonical name.  The macro breadth lies    *)
(* outside the trail and is overwritten; all else is of the date (the      *)
(* summaries of earlier dates that derive scans are in DrawdownBrake).     *)
DeriveReads   == {"summary"}
MacroReads    == {"breadth"}
ScreenerReads == {"universe"}
CatalystReads == {"universe", "screener"}
Stage4Reads   == {"macro", "universe", "screener", "catalyst"}
SizingReads   == {"thesis", "macro", "derived"}
SyncReads     == {"thesis"}
LinkerReads   == {"catalyst"}
BriefReads    == {"macro", "universe", "screener", "catalyst", "thesis", "sizing",
                  "falsifier", "linker", "expiry"}
AuditReads    == {"catalyst", "sizing", "linker", "universe", "screener"}

Inputs ==
  [summary   |-> {},           derived   |-> DeriveReads,    macro    |-> MacroReads,
   universe  |-> {},           screener  |-> ScreenerReads,  catalyst |-> CatalystReads,
   thesis    |-> Stage4Reads,  sizing    |-> SizingReads,    sync     |-> SyncReads,
   falsifier |-> {},           linker    |-> LinkerReads,    expiry   |-> {},
   brief     |-> BriefReads,   audit     |-> AuditReads]

Artifacts == DOMAIN Inputs

(* The readers without a try around json.load: a torn input ends them.     *)
CatalystStrict == {"universe", "screener"}
SizingStrict   == {"thesis", "macro"}
Strict(a) == IF a = "catalyst" THEN CatalystStrict
             ELSE IF a = "sizing" THEN SizingStrict ELSE {}

Pre  == <<"summary", "derived", "spx", "breadth", "macro", "universe", "screener",
          "catalyst", "gate">>
Post == <<"sizing", "sync", "falsifier", "linker", "expiry">>

(* Mutant: Stage 5 runs before Stage 4 has written its candidates.         *)
StepsSizingFirst ==
  [all    |-> Pre \o Post,
   pre    |-> Pre,
   post   |-> Post,
   daily  |-> Pre \o Post \o <<"thesis">> \o <<"brief", "notify", "audit">>,
   thesis |-> <<"thesis">>,
   brief  |-> <<"brief">>,
   audit  |-> <<"audit">>]

(* daily_pipeline.sh by its three phases, run_daily_local.sh ("daily"),    *)
(* and the skills and the audit when a person starts them alone.           *)
Steps ==
  [all    |-> Pre \o Post,
   pre    |-> Pre,
   post   |-> Post,
   daily  |-> Pre \o <<"thesis">> \o Post \o <<"brief", "notify", "audit">>,
   thesis |-> <<"thesis">>,
   brief  |-> <<"brief">>,
   audit  |-> <<"audit">>]

ASSUME BoundsAssumption ==
    /\ MaxDay \in Nat /\ MaxLaunches \in Nat /\ MaxFaults \in Nat /\ MaxAge \in Nat
    /\ Kinds \subseteq DOMAIN Steps

Days     == 1 .. MaxDay
Launches == 1 .. MaxLaunches
Nobody   == 0                   \* "launch" that wrote a missing file

VARIABLES
    today,      \* the date in Seoul
    spx,        \* _spx_constituents.json and its suffixed versions
    breadth,    \* the launch whose breadth.yaml is in place
    trail,      \* [Days \X Artifacts -> sequence of versions]
    sent,       \* [Days -> the briefs that were sent, by their launches]
    launch,     \* the launch under way
    launches,   \* launches so far
    faults,     \* faults so far
    clean       \* history: the first launch of a date, if it was a daily run without a fault

vars == <<today, spx, breadth, trail, sent, launch, launches, faults, clean>>

Outcomes == {"ok", "fresh", "refused", "skipped", "failed", "torn", "raised"}

NoLaunch == [no |-> Nobody, kind |-> "none", date |-> 0, did |-> << >>, first |-> FALSE]

Init ==
    /\ today = 1
    /\ spx \in {<< >>, <<[day |-> 0, ok |-> TRUE]>>}
    /\ breadth = Nobody
    /\ trail = [d \in Days |-> [a \in Artifacts |-> << >>]]
    /\ sent = [d \in Days |-> << >>]
    /\ launch = NoLaunch
    /\ launches = 0
    /\ faults = 0
    /\ clean = [d \in Days |-> Nobody]

-----------------------------------------------------------------------------
Idle      == launch = NoLaunch
MyTrail   == trail[launch.date]
Program   == Steps[launch.kind]
Done      == Len(launch.did)                    \* steps that came to an outcome

(* Mutant: the shell stops at the first stage that fails (set -e).         *)
RunningUntilFailure ==
    ~Idle /\ Done < Len(Program) /\ \A i \in 1 .. Done : launch.did[i] # "failed"

Running == ~Idle /\ Done < Len(Program)
At(step)  == Running /\ Program[Done + 1] = step

(* Readers open the name without a suffix: the first version, whole or     *)
(* torn.                                                                   *)
Canonical(versions) == versions[1]

(* Mutant: the reader opens the newest suffix.                             *)
WrittenByNewest(b) ==
    IF b = "breadth" THEN breadth
    ELSE IF MyTrail[b] = << >> THEN Nobody
    ELSE MyTrail[b][Len(MyTrail[b])].by

WrittenBy(b) ==
    IF b = "breadth" THEN breadth
    ELSE IF MyTrail[b] = << >> THEN Nobody
    ELSE Canonical(MyTrail[b]).by

IsTorn(b) == b # "breadth" /\ MyTrail[b] # << >> /\ ~Canonical(MyTrail[b]).ok

Write(a, whole) ==
    trail' = [trail EXCEPT ![launch.date][a] =
                Append(@, [by |-> launch.no, ok |-> whole,
                           saw |-> [b \in Inputs[a] |-> WrittenBy(b)]])]

(* The shell goes on with the next step whatever this one did.             *)
Advance(outcome) ==
    launch' = [launch EXCEPT !.did = Append(@, outcome)]

Fault == faults < MaxFaults /\ faults' = faults + 1

-----------------------------------------------------------------------------
Launch(kind, d) ==
    /\ Idle
    /\ launches < MaxLaunches
    /\ d <= today                                  \* --date, today by default
    /\ launches' = launches + 1
    /\ launch' = [no |-> launches + 1, kind |-> kind, date |-> d, did |-> << >>,
                  first |-> \A a \in Artifacts : trail[d][a] = << >>]
    /\ UNCHANGED <<today, spx, breadth, trail, sent, faults, clean>>

Unreadable(a) == \E b \in Strict(a) : IsTorn(b)

RunStage(a) ==
    /\ At(a)
    /\ ~Unreadable(a)
    /\ Write(a, TRUE)
    /\ Advance("ok")
    /\ UNCHANGED <<today, spx, breadth, sent, launches, faults, clean>>

StageRaises(a) ==
    /\ At(a)
    /\ Unreadable(a)
    /\ Advance("raised")
    /\ UNCHANGED <<today, spx, breadth, trail, sent, launches, faults, clean>>

(* An exception, a missing network, a language model that does not answer. *)
StageFails(a) ==
    /\ At(a)
    /\ Fault
    /\ Advance("failed")
    /\ UNCHANGED <<today, spx, breadth, trail, sent, launches, clean>>

(* The stage dies between open("w") and the end of its dump.               *)
StageTears(a) ==
    /\ At(a)
    /\ ~Unreadable(a)
    /\ Fault
    /\ Write(a, FALSE)
    /\ Advance("torn")
    /\ UNCHANGED <<today, spx, breadth, sent, launches, clean>>

-----------------------------------------------------------------------------
(* The refresh of the constituents tests the age of the canonical file and *)
(* writes with the artifact store: to the canonical name only if no file   *)
(* has it.  A torn file has no age.                                        *)
Fresh == spx # << >> /\ Canonical(spx).ok /\ today - Canonical(spx).day < MaxAge

RefreshSkips ==
    /\ At("spx")
    /\ Fresh
    /\ Advance("fresh")
    /\ UNCHANGED <<today, spx, breadth, trail, sent, launches, faults, clean>>

Refresh(whole) ==
    /\ At("spx")
    /\ ~Fresh
    /\ spx' = Append(spx, [day |-> today, ok |-> whole])
    /\ IF whole THEN Advance("ok") /\ UNCHANGED faults ELSE Advance("torn") /\ Fault
    /\ UNCHANGED <<today, breadth, trail, sent, launches, clean>>

RefreshFails ==
    /\ At("spx")
    /\ ~Fresh
    /\ Fault
    /\ Advance("failed")
    /\ UNCHANGED <<today, spx, breadth, trail, sent, launches, clean>>

(* Mutant: --no-overwrite as the default.                                  *)
FetchBreadthKeepsFile ==
    /\ At("breadth")
    /\ IF spx # << >> /\ Canonical(spx).ok
         THEN breadth' = (IF breadth = Nobody THEN launch.no ELSE breadth) /\ Advance("ok")
         ELSE Advance("raised") /\ UNCHANGED breadth
    /\ UNCHANGED <<today, spx, trail, sent, launches, faults, clean>>

(* Stage 0a raises without a readable list, else replaces breadth.yaml by  *)
(* a rename.                                                               *)
FetchBreadth ==
    /\ At("breadth")
    /\ IF spx # << >> /\ Canonical(spx).ok
         THEN breadth' = launch.no /\ Advance("ok")
         ELSE Advance("raised") /\ UNCHANGED breadth
    /\ UNCHANGED <<today, spx, trail, sent, launches, faults, clean>>

FetchBreadthFails ==
    /\ At("breadth")
    /\ Fault
    /\ Advance("failed")
    /\ UNCHANGED <<today, spx, breadth, trail, sent, launches, clean>>

(* `if python ... | tee` without pipefail tests tee: the branch that would *)
(* exit is not taken, whatever the validator says of the ingested signals. *)
Gate(verdict) ==
    /\ At("gate")
    /\ Advance(verdict)
    /\ UNCHANGED <<today, spx, breadth, trail, sent, launches, faults, clean>>

(* The brief under the canonical name is sent, if there is one.            *)
Notify ==
    /\ At("notify")
    /\ IF MyTrail["brief"] = << >>
         THEN Advance("skipped") /\ UNCHANGED sent
         ELSE Advance("ok") /\ sent' = [sent EXCEPT ![launch.date] = Append(@, WrittenBy("brief"))]
    /\ UNCHANGED <<today, spx, breadth, trail, launches, faults, clean>>

Undisturbed == \A i \in DOMAIN launch.did : launch.did[i] \in {"ok", "fresh", "refused"}

Finish ==
    /\ ~Idle /\ ~Running
    /\ clean' = IF launch.kind = "daily" /\ launch.first /\ Undisturbed
                THEN [clean EXCEPT ![launch.date] = launch.no] ELSE clean
    /\ launch' = NoLaunch
    /\ UNCHANGED <<today, spx, breadth, trail, sent, launches, faults>>

(* The machine sleeps or the shell is killed between two stages.           *)
Kill ==
    /\ Running
    /\ Fault
    /\ launch' = NoLaunch
    /\ UNCHANGED <<today, spx, breadth, trail, sent, launches, clean>>

NewDay ==
    /\ Idle
    /\ today < MaxDay
    /\ today' = today + 1
    /\ UNCHANGED <<spx, breadth, trail, sent, launch, launches, faults, clean>>

Stage(a) == RunStage(a) \/ StageRaises(a) \/ StageFails(a) \/ StageTears(a)

Next ==
    \/ \E kind \in Kinds, d \in Days : Launch(kind, d)
    \/ \E a \in Artifacts : Stage(a)
    \/ RefreshSkips \/ RefreshFails
    \/ \E whole \in BOOLEAN : Refresh(whole)
    \/ FetchBreadth \/ FetchBreadthFails
    \/ \E verdict \in {"ok", "refused"} : Gate(verdict)
    \/ Notify
    \/ Finish \/ Kill \/ NewDay

Spec == Init /\ [][Next]_vars

-----------------------------------------------------------------------------
(* Types; `saw` of a version is about the inputs of its stage.             *)
Seen     == UNION {[Inputs[a] -> Launches \cup {Nobody}] : a \in Artifacts}
Versions == [by : Launches, ok : BOOLEAN, saw : Seen]

TypeOK ==
    /\ today \in Nat
    /\ spx \in Seq([day : Nat, ok : BOOLEAN])
    /\ breadth \in Launches \cup {Nobody}
    /\ trail \in [Days -> [Artifacts -> Seq(Versions)]]
    /\ \A d \in Days, a \in Artifacts : \A i \in DOMAIN trail[d][a] :
         trail[d][a][i].saw \in [Inputs[a] -> Launches \cup {Nobody}]
    /\ sent \in [Days -> Seq(Launches)]
    /\ launch = NoLaunch \/ launch \in [no : Launches, kind : Kinds, date : Days,
                                         did : Seq(Outcomes), first : BOOLEAN]
    /\ launches \in 0 .. MaxLaunches
    /\ faults \in 0 .. MaxFaults
    /\ clean \in [Days -> Launches \cup {Nobody}]

(* The files of a date tell one story: whatever a version says it read, it *)
(* read from the version that stands under the canonical name to this day, *)
(* or the file was not there yet.  (The suffix of a rerun against readers  *)
(* that open the plain name, over partial launches, reruns and kills.)     *)
OneStory ==
    \A d \in Days, a \in Artifacts : \A i \in DOMAIN trail[d][a] :
      \A b \in Inputs[a] \ {"breadth"} :
        LET seen == trail[d][a][i].saw[b]
        IN  seen = Nobody \/ (trail[d][b] # << >> /\ Canonical(trail[d][b]).by = seen)

(* A date whose first launch was a daily run without a fault is complete:  *)
(* under every canonical name stands a whole artifact of that run which    *)
(* saw all of its inputs, the brief that was sent first is that run's, and *)
(* no later launch changes any of it.  (The order of the chain.)           *)
CleanDayIsComplete ==
    \A d \in Days : clean[d] # Nobody =>
      /\ \A a \in Artifacts :
           /\ trail[d][a] # << >>
           /\ Canonical(trail[d][a]) = [by |-> clean[d], ok |-> TRUE,
                                        saw |-> [b \in Inputs[a] |-> clean[d]]]
      /\ sent[d] # << >> /\ sent[d][1] = clean[d]

Did(step, outcomes) ==
    \E i \in DOMAIN launch.did : Program[i] = step /\ launch.did[i] \in outcomes

(* breadth.yaml has no date that anyone tests: a regime may rest on the    *)
(* breadth of another launch only if this launch's own fetch failed.       *)
StaleBreadthOnlyByFault ==
    Did("macro", {"ok"}) =>
      LET mine == MyTrail["macro"]
      IN  mine[Len(mine)].saw["breadth"] # launch.no => Did("breadth", {"failed", "raised"})

(* A launch that came to its end tried every stage of its phase, and each  *)
(* stage left a whole artifact unless it failed itself or an input of its  *)
(* own is torn: the failure of one stage stops no other.                   *)
FailureDoesNotSpread ==
    (~Idle /\ ~Running) =>
      \A i \in DOMAIN Program :
        LET a == Program[i]
        IN  a \in Artifacts =>
              \/ \E v \in DOMAIN MyTrail[a] : MyTrail[a][v].by = launch.no /\ MyTrail[a][v].ok
              \/ Did(a, {"failed", "torn"})
              \/ \E b \in Inputs[a] : IsTorn(b)

(* daily_pipeline.sh promises that an error of the external signals keeps  *)
(* Stage 4 from reading them.                                              *)
RefusedSignalsBlockStage4 ==
    ~(Did("gate", {"refused"}) /\ Did("thesis", {"ok"}))
==============================================================================
