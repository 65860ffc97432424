-------------------------- MODULE Pipeline_proofs --------------------------
(***************************************************************************)
(* Proofs about the chain of a day (DailyRun) and about the four parts of  *)
(* the research side (Research): what the files of a date say, where a     *)
(* failure ends, and what the scan of filings, the stages that describe    *)
(* the companies, the segment index and the cached figures may be trusted  *)
(* with.                                                                   *)
(***************************************************************************)
EXTENDS DailyRun, Research, NatSets, FiniteSetTheorems, TLAPS

(* ----- The chain of a day: its type invariant, that the files of a date  *)
(* tell one story, that a failure stops no later stage, that a regime      *)
(* rests on old breadth only after a failed fetch, and that a date whose   *)
(* first launch was an undisturbed daily run is complete and stays so.     *)

LEMMA InputsAreFiles ==
  ASSUME NEW a \in Artifacts PROVE Inputs[a] \subseteq Artifacts \cup {"breadth"}
BY DEF Artifacts, Inputs, DeriveReads, MacroReads, ScreenerReads, CatalystReads, Stage4Reads,
       SizingReads, SyncReads, LinkerReads, BriefReads, AuditReads

LEMMA BreadthIsNoArtifact == "breadth" \notin Artifacts
BY DEF Artifacts, Inputs

-----------------------------------------------------------------------------
(* The launch under way has the fields of its record.                      *)
LaunchRecord == [no : Launches, kind : Kinds, date : Days,
                 did : Seq(Outcomes), first : BOOLEAN]

LEMMA RunningTyped == ASSUME TypeOK, Running PROVE launch \in LaunchRecord
BY DEF TypeOK, Running, Idle, LaunchRecord

LEMMA AdvanceTyped ==
  ASSUME TypeOK, Running, NEW o \in Outcomes, Advance(o)
  PROVE  launch' \in LaunchRecord /\ launch'.date = launch.date /\ launch'.no = launch.no
<1>1. launch \in LaunchRecord
  BY RunningTyped
<1>2. launch' = [launch EXCEPT !.did = Append(@, o)]
  BY DEF Advance
<1>3. Append(launch.did, o) \in Seq(Outcomes)
  BY <1>1 DEF LaunchRecord
<1> QED
  BY <1>1, <1>2, <1>3 DEF LaunchRecord

(* A reader finds the launch that wrote the file, or nobody.               *)
LEMMA WrittenByTyped ==
  ASSUME TypeOK, Running, NEW b \in Artifacts \cup {"breadth"}
  PROVE  WrittenBy(b) \in Launches \cup {Nobody}
<1>1. CASE b = "breadth"
  BY <1>1 DEF WrittenBy, TypeOK
<1>2. CASE b # "breadth" /\ MyTrail[b] = << >>
  BY <1>2 DEF WrittenBy
<1>3. CASE b # "breadth" /\ MyTrail[b] # << >>
  <2>1. MyTrail[b] \in Seq(Versions)
    BY <1>3, RunningTyped DEF TypeOK, MyTrail, LaunchRecord
  <2>2. Canonical(MyTrail[b]) \in Versions
    BY <1>3, <2>1 DEF Canonical
  <2> QED
    BY <1>3, <2>2 DEF WrittenBy, Versions
<1> QED
  BY <1>1, <1>2, <1>3

(* What a write appends, and that it changes nothing else.                 *)
NewVersion(a, whole) == [by |-> launch.no, ok |-> whole,
                         saw |-> [b \in Inputs[a] |-> WrittenBy(b)]]

LEMMA WriteEffect ==
  ASSUME TypeOK, Running, NEW a \in Artifacts, NEW whole \in BOOLEAN, Write(a, whole)
  PROVE  /\ NewVersion(a, whole) \in Versions
         /\ NewVersion(a, whole).saw \in [Inputs[a] -> Launches \cup {Nobody}]
         /\ trail' \in [Days -> [Artifacts -> Seq(Versions)]]
         /\ trail'[launch.date][a] = Append(trail[launch.date][a], NewVersion(a, whole))
         /\ \A d \in Days, c \in Artifacts :
              d # launch.date \/ c # a => trail'[d][c] = trail[d][c]
<1>1. launch \in LaunchRecord
  BY RunningTyped
<1>2. [b \in Inputs[a] |-> WrittenBy(b)] \in [Inputs[a] -> Launches \cup {Nobody}]
  BY InputsAreFiles, WrittenByTyped
<1>3. [b \in Inputs[a] |-> WrittenBy(b)] \in Seen
  BY <1>2 DEF Seen
<1>4. NewVersion(a, whole) \in Versions
  BY <1>1, <1>3 DEF NewVersion, Versions, LaunchRecord
<1>5. trail' = [trail EXCEPT ![launch.date][a] = Append(@, NewVersion(a, whole))]
  BY DEF Write, NewVersion
<1>6. launch.date \in Days /\ trail[launch.date] \in [Artifacts -> Seq(Versions)]
  BY <1>1 DEF LaunchRecord, TypeOK
<1> DEFINE v == NewVersion(a, whole)
<1>7. Append(trail[launch.date][a], v) \in Seq(Versions)
  BY <1>4, <1>6
<1> HIDE DEF v
<1> QED
  BY <1>2, <1>4, <1>5, <1>6, <1>7 DEF TypeOK, v, NewVersion

-----------------------------------------------------------------------------
(* What a step does to the trail and to the launch: it writes the version  *)
(* of the current stage, or only comes to an outcome, or leaves the trail  *)
(* alone while a launch begins, ends or sleeps.                            *)
Writes == \E a \in Artifacts, whole \in BOOLEAN :
            At(a) /\ Write(a, whole) /\ Advance(IF whole THEN "ok" ELSE "torn")

Passes == /\ trail' = trail
          /\ Running
          /\ \E o \in Outcomes :
               /\ Advance(o)
               /\ Program[Done + 1] \in Artifacts =>
                    o = "failed" \/ (o = "raised" /\ Unreadable(Program[Done + 1]))

Begins == /\ trail' = trail
          /\ launches < MaxLaunches
          /\ \E kind \in Kinds, d \in Days, f \in BOOLEAN :
               launch' = [no |-> launches + 1, kind |-> kind, date |-> d, did |-> << >>, first |-> f]

Rests  == trail' = trail /\ launch' \in {launch, NoLaunch}

LEMMA StepsByEffect ==
  ASSUME TypeOK, [Next]_vars PROVE Writes \/ Passes \/ Begins \/ Rests
<1>1. ASSUME NEW kind \in Kinds, NEW d \in Days, Launch(kind, d) PROVE Begins
  BY <1>1 DEF Launch, Begins
<1>2. ASSUME NEW a \in Artifacts, Stage(a) PROVE Writes \/ Passes
  <2>1. CASE RunStage(a)
    BY <2>1 DEF RunStage, Writes
  <2>2. CASE StageRaises(a)
    BY <2>2 DEF StageRaises, Passes, At, Outcomes
  <2>3. CASE StageFails(a)
    BY <2>3 DEF StageFails, Passes, At, Outcomes
  <2>4. CASE StageTears(a)
    BY <2>4 DEF StageTears, Writes
  <2> QED
    BY <1>2, <2>1, <2>2, <2>3, <2>4 DEF Stage
<1> DEFINE Other == RefreshSkips \/ RefreshFails \/ (\E whole \in BOOLEAN : Refresh(whole))
                      \/ FetchBreadth \/ FetchBreadthFails
                      \/ (\E verdict \in {"ok", "refused"} : Gate(verdict)) \/ Notify
<1>3. ASSUME Other PROVE Passes
  <2>1. {"spx", "breadth", "gate", "notify"} \cap Artifacts = {}
    BY DEF Artifacts, Inputs
  <2>2. /\ trail' = trail
        /\ \E step \in {"spx", "breadth", "gate", "notify"} : At(step)
        /\ \E o \in Outcomes : Advance(o)
    BY <1>3 DEF RefreshSkips, RefreshFails, Refresh, FetchBreadth, FetchBreadthFails, Gate,
                Notify, Outcomes
  <2> QED
    BY <2>1, <2>2 DEF Passes, At
<1>4. ASSUME Finish \/ Kill \/ NewDay \/ UNCHANGED vars PROVE Rests
  BY <1>4 DEF Finish, Kill, NewDay, vars, Rests
<1> QED
  BY <1>1, <1>2, <1>3, <1>4 DEF Next

(* The trail and the launch keep their types.                              *)
LogType == /\ trail \in [Days -> [Artifacts -> Seq(Versions)]]
           /\ \A d \in Days, a \in Artifacts : \A i \in DOMAIN trail[d][a] :
                trail[d][a][i].saw \in [Inputs[a] -> Launches \cup {Nobody}]

LEMMA LogTypeStep == ASSUME TypeOK, [Next]_vars PROVE LogType'
<1>1. CASE trail' = trail
  BY <1>1 DEF TypeOK, LogType
<1>2. CASE Writes
  <2>1. PICK a \in Artifacts, whole \in BOOLEAN : At(a) /\ Write(a, whole)
    BY <1>2 DEF Writes
  <2>2. Running
    BY <2>1 DEF At
  <2> DEFINE v == NewVersion(a, whole)
  <2>3. /\ v.saw \in [Inputs[a] -> Launches \cup {Nobody}]
        /\ trail' \in [Days -> [Artifacts -> Seq(Versions)]]
        /\ trail'[launch.date][a] = Append(trail[launch.date][a], v)
        /\ \A d \in Days, c \in Artifacts :
             d # launch.date \/ c # a => trail'[d][c] = trail[d][c]
    BY <2>1, <2>2, WriteEffect
  <2> HIDE DEF v
  <2>4. ASSUME NEW d \in Days, NEW c \in Artifacts, NEW i \in DOMAIN trail'[d][c]
        PROVE  trail'[d][c][i].saw \in [Inputs[c] -> Launches \cup {Nobody}]
    <3>1. trail[d][c] \in Seq(Versions)
      BY DEF TypeOK
    <3>2. CASE d = launch.date /\ c = a
      <4>1. i \in DOMAIN trail[d][c] \/ i = Len(trail[d][c]) + 1
        BY <3>1, <3>2, <2>3
      <4>2. CASE i \in DOMAIN trail[d][c]
        <5>1. trail[d][c][i].saw \in [Inputs[c] -> Launches \cup {Nobody}]
          BY <4>2 DEF TypeOK
        <5>2. trail'[d][c][i] = trail[d][c][i]
          BY <4>2, <3>1, <3>2, <2>3
        <5> QED
          BY <5>1, <5>2
      <4>3. CASE i = Len(trail[d][c]) + 1
        BY <4>3, <3>1, <3>2, <2>3
      <4> QED
        BY <4>1, <4>2, <4>3
    <3>3. CASE d # launch.date \/ c # a
      <4>1. trail'[d][c] = trail[d][c]
        BY <3>3, <2>3
      <4>2. i \in DOMAIN trail[d][c]
        BY <4>1
      <4>3. trail[d][c][i].saw \in [Inputs[c] -> Launches \cup {Nobody}]
        BY <4>2 DEF TypeOK
      <4> QED
        BY <4>1, <4>3
    <3>4. (d = launch.date /\ c = a) \/ (d # launch.date \/ c # a)
      OBVIOUS
    <3> QED
      BY <3>2, <3>3, <3>4, Zenon
  <2> QED
    BY <2>3, <2>4 DEF LogType
<1> QED
  BY <1>1, <1>2, StepsByEffect DEF Passes, Begins, Rests

LEMMA LaunchTypeStep ==
  ASSUME TypeOK, [Next]_vars PROVE launch' = NoLaunch \/ launch' \in LaunchRecord
<1>1. CASE Writes
  BY <1>1, AdvanceTyped DEF Writes, At, Outcomes
<1>2. CASE Passes
  BY <1>2, AdvanceTyped DEF Passes
<1>3. CASE Begins
  BY <1>3, BoundsAssumption DEF Begins, LaunchRecord, TypeOK, Launches
<1>4. CASE Rests
  BY <1>4 DEF Rests, TypeOK, LaunchRecord
<1> QED
  BY <1>1, <1>2, <1>3, <1>4, StepsByEffect

(* Type correctness, for any number of dates, launches and faults.         *)
THEOREM TypeCorrect == Spec => []TypeOK
<1>1. Init => TypeOK
  <2> SUFFICES ASSUME Init PROVE TypeOK
    OBVIOUS
  <2>1. today \in Nat /\ spx \in Seq([day : Nat, ok : BOOLEAN])
    <3>1. << >> \in Seq([day : Nat, ok : BOOLEAN])
      OBVIOUS
    <3>2. [day |-> 0, ok |-> TRUE] \in [day : Nat, ok : BOOLEAN]
      OBVIOUS
    <3>3. <<[day |-> 0, ok |-> TRUE]>> \in Seq([day : Nat, ok : BOOLEAN])
      BY <3>2
    <3> QED
      BY <3>1, <3>3 DEF Init
  <2>2. trail \in [Days -> [Artifacts -> Seq(Versions)]]
    BY DEF Init
  <2>3. ASSUME NEW d \in Days, NEW a \in Artifacts, NEW i \in DOMAIN trail[d][a] PROVE FALSE
    BY DEF Init
  <2>4. sent \in [Days -> Seq(Launches)] /\ clean \in [Days -> Launches \cup {Nobody}]
    BY DEF Init
  <2> QED
    BY <2>1, <2>2, <2>3, <2>4, BoundsAssumption DEF Init, TypeOK
<1>2. TypeOK /\ [Next]_vars => TypeOK'
  <2> SUFFICES ASSUME TypeOK, [Next]_vars PROVE TypeOK'
    OBVIOUS
  <2>1. LogType' /\ (launch' = NoLaunch \/ launch' \in LaunchRecord)
    BY LogTypeStep, LaunchTypeStep
  <2>2. /\ today' \in Nat
        /\ spx' \in Seq([day : Nat, ok : BOOLEAN])
        /\ breadth' \in Launches \cup {Nobody}
        /\ sent' \in [Days -> Seq(Launches)]
        /\ launches' \in 0 .. MaxLaunches
        /\ faults' \in 0 .. MaxFaults
        /\ clean' \in [Days -> Launches \cup {Nobody}]
    <3> USE BoundsAssumption
    <3>0. Running => launch \in LaunchRecord
      BY RunningTyped
    <3>1. ASSUME NEW kind \in Kinds, NEW d \in Days, Launch(kind, d) PROVE <2>2!:
      BY <3>1 DEF Launch, TypeOK
    <3>2. ASSUME NEW a \in Artifacts, Stage(a) PROVE <2>2!:
      <4>1. /\ UNCHANGED <<today, spx, breadth, sent, launches, clean>>
            /\ UNCHANGED faults \/ Fault
        BY <3>2 DEF Stage, RunStage, StageRaises, StageFails, StageTears
      <4>2. faults' \in 0 .. MaxFaults
        BY <4>1 DEF Fault, TypeOK
      <4> QED
        BY <4>1, <4>2 DEF TypeOK
    <3>3. ASSUME RefreshSkips \/ RefreshFails PROVE <2>2!:
      BY <3>3 DEF RefreshSkips, RefreshFails, Fault, TypeOK
    <3>4. ASSUME NEW whole \in BOOLEAN, Refresh(whole) PROVE <2>2!:
      <4>1. spx' \in Seq([day : Nat, ok : BOOLEAN])
        <5>1. [day |-> today, ok |-> whole] \in [day : Nat, ok : BOOLEAN]
          BY DEF TypeOK
        <5> QED
          BY <3>4, <5>1 DEF Refresh, TypeOK
      <4>2. faults' \in 0 .. MaxFaults
        BY <3>4 DEF Refresh, Fault, TypeOK
      <4> QED
        BY <3>4, <4>1, <4>2 DEF Refresh, TypeOK
    <3>5. ASSUME FetchBreadth \/ FetchBreadthFails PROVE <2>2!:
      BY <3>5, <3>0 DEF FetchBreadth, FetchBreadthFails, At, LaunchRecord, Fault, TypeOK
    <3>6. ASSUME NEW verdict \in {"ok", "refused"}, Gate(verdict) PROVE <2>2!:
      BY <3>6 DEF Gate, TypeOK
    <3>7. ASSUME Notify PROVE <2>2!:
      <4>1. launch \in LaunchRecord /\ "brief" \in Artifacts
        BY <3>7, <3>0 DEF Notify, At, Artifacts, Inputs
      <4>2. MyTrail["brief"] # << >> => WrittenBy("brief") \in Launches
        <5>1. MyTrail["brief"] \in Seq(Versions)
          BY <4>1 DEF MyTrail, TypeOK, LaunchRecord
        <5>2. MyTrail["brief"] # << >> => Canonical(MyTrail["brief"]) \in Versions
          BY <5>1 DEF Canonical
        <5> QED
          BY <5>2 DEF WrittenBy, Versions
      <4>3. /\ UNCHANGED <<today, spx, breadth, launches, faults, clean>>
            /\ sent' = sent \/ (/\ MyTrail["brief"] # << >>
                               /\ sent' = [sent EXCEPT ![launch.date] = Append(@, WrittenBy("brief"))])
        BY <3>7 DEF Notify
      <4>4. sent' \in [Days -> Seq(Launches)]
        <5>1. launch.date \in Days /\ sent \in [Days -> Seq(Launches)]
          BY <4>1 DEF LaunchRecord, TypeOK
        <5>2. CASE MyTrail["brief"] # << >>
          <6> DEFINE w == WrittenBy("brief")
          <6>1. Append(sent[launch.date], w) \in Seq(Launches)
            BY <4>2, <5>1, <5>2
          <6>2. sent' = sent \/ sent' = [sent EXCEPT ![launch.date] = Append(@, w)]
            BY <4>3
          <6> HIDE DEF w
          <6> QED
            BY <5>1, <6>1, <6>2
        <5> QED
          BY <4>3, <5>1, <5>2
      <4> QED
        BY <4>3, <4>4 DEF TypeOK
    <3>8. ASSUME Finish PROVE <2>2!:
      <4>1. launch \in LaunchRecord
        BY <3>8 DEF Finish, Idle, TypeOK, LaunchRecord
      <4>2. launch.no \in Launches
        BY <4>1 DEF LaunchRecord
      <4>3. clean' \in {clean, [clean EXCEPT ![launch.date] = launch.no]}
        BY <3>8 DEF Finish
      <4>4. clean' \in [Days -> Launches \cup {Nobody}]
        BY <4>2, <4>3 DEF TypeOK
      <4> QED
        BY <3>8, <4>4 DEF Finish, TypeOK
    <3>9. ASSUME Kill \/ NewDay \/ UNCHANGED vars PROVE <2>2!:
      BY <3>9 DEF Kill, NewDay, Fault, vars, TypeOK
    <3> QED
      BY <3>1, <3>2, <3>3, <3>4, <3>5, <3>6, <3>7, <3>8, <3>9 DEF Next
  <2> QED
    BY <2>1, <2>2 DEF TypeOK, LogType, LaunchRecord
<1> QED
  BY <1>1, <1>2, PTL DEF Spec

-----------------------------------------------------------------------------
(* The first version of a file stays the first: a step leaves the log of a *)
(* file alone or adds to its end.                                          *)
LEMMA CanonicalStays ==
  ASSUME TypeOK, [Next]_vars, NEW d \in Days, NEW c \in Artifacts, trail[d][c] # << >>
  PROVE  trail'[d][c] # << >> /\ Canonical(trail'[d][c]) = Canonical(trail[d][c])
<1>1. CASE trail'[d][c] = trail[d][c]
  BY <1>1
<1>2. CASE Writes
  <2>1. PICK a \in Artifacts, whole \in BOOLEAN : At(a) /\ Write(a, whole)
    BY <1>2 DEF Writes
  <2> DEFINE v == NewVersion(a, whole)
  <2>2. /\ v \in Versions
        /\ trail'[launch.date][a] = Append(trail[launch.date][a], v)
        /\ d # launch.date \/ c # a => trail'[d][c] = trail[d][c]
    BY <2>1, WriteEffect DEF At
  <2> HIDE DEF v
  <2>3. trail[d][c] \in Seq(Versions)
    BY DEF TypeOK
  <2>4. CASE d = launch.date /\ c = a
    BY <2>2, <2>3, <2>4 DEF Canonical
  <2> QED
    BY <1>1, <2>2, <2>4
<1> QED
  BY <1>1, <1>2, StepsByEffect DEF Passes, Begins, Rests

(* What one version saw of one file, in the words of OneStory.             *)
Agrees(d, b, seen) == seen = Nobody \/ (trail[d][b] # << >> /\ Canonical(trail[d][b]).by = seen)

(* The files of a date tell one story, for any number of launches, faults  *)
(* and dates.  No strengthening beyond the types is needed: a version sees *)
(* the canonical name as it is, and that name never changes its content.   *)
THEOREM OneStoryAlways == Spec => []OneStory
<1>1. Init => OneStory
  BY DEF Init, OneStory
<1>2. TypeOK /\ OneStory /\ [Next]_vars => OneStory'
  <2> SUFFICES ASSUME TypeOK, OneStory, [Next]_vars,
                      NEW d \in Days, NEW c \in Artifacts, NEW i \in DOMAIN trail'[d][c],
                      NEW b \in Inputs[c] \ {"breadth"}
               PROVE  Agrees(d, b, trail[d][c][i].saw[b])'
    BY DEF OneStory, Agrees
  <2>0. b \in Artifacts
    BY InputsAreFiles
  <2>1. ASSUME i \in DOMAIN trail[d][c], trail'[d][c][i] = trail[d][c][i]
        PROVE  Agrees(d, b, trail[d][c][i].saw[b])'
    <3> DEFINE seen == trail[d][c][i].saw[b]
    <3>1. Agrees(d, b, seen)
      BY <2>1 DEF OneStory, Agrees
    <3>2. trail'[d][c][i].saw[b] = seen
      BY <2>1
    <3>3. CASE seen = Nobody
      BY <3>2, <3>3 DEF Agrees
    <3>4. CASE trail[d][b] # << >> /\ Canonical(trail[d][b]).by = seen
      BY <2>0, <3>2, <3>4, CanonicalStays DEF Agrees
    <3> QED
      BY <3>1, <3>3, <3>4 DEF Agrees
  <2>2. CASE Writes
    <3>1. PICK a \in Artifacts, whole \in BOOLEAN : At(a) /\ Write(a, whole)
      BY <2>2 DEF Writes
    <3> DEFINE v == NewVersion(a, whole)
    <3>2. /\ trail'[launch.date][a] = Append(trail[launch.date][a], v)
          /\ d # launch.date \/ c # a => trail'[d][c] = trail[d][c]
      BY <3>1, WriteEffect DEF At
    <3>3. trail[d][c] \in Seq(Versions)
      BY DEF TypeOK
    <3>4. CASE d = launch.date /\ c = a /\ i = Len(trail[d][c]) + 1
      <4>1. trail'[d][c][i] = v
        <5> HIDE DEF v
        <5> QED
          BY <3>2, <3>3, <3>4
      <4>2. v.saw[b] = WrittenBy(b)
        BY <3>4 DEF NewVersion
      <4>3. WrittenBy(b) = Nobody \/ (trail[d][b] # << >> /\ Canonical(trail[d][b]).by = WrittenBy(b))
        BY <3>4 DEF WrittenBy, MyTrail
      <4> HIDE DEF v
      <4> QED
        BY <2>0, <4>1, <4>2, <4>3, CanonicalStays DEF Agrees
    <3>5. CASE ~(d = launch.date /\ c = a /\ i = Len(trail[d][c]) + 1)
      <4> HIDE DEF v
      <4>1. i \in DOMAIN trail[d][c] /\ trail'[d][c][i] = trail[d][c][i]
        <5>1. CASE d # launch.date \/ c # a
          BY <3>2, <5>1
        <5>2. CASE d = launch.date /\ c = a
          <6>1. trail'[d][c] = Append(trail[d][c], v) /\ i # Len(trail[d][c]) + 1
            BY <3>2, <3>5, <5>2
          <6>2. i \in 1 .. Len(trail[d][c]) + 1
            BY <3>3, <6>1
          <6> QED
            BY <3>3, <6>1, <6>2
        <5> QED
          BY <5>1, <5>2
      <4> QED
        BY <2>1, <4>1
    <3> QED
      BY <3>4, <3>5
  <2>3. CASE trail' = trail
    BY <2>1, <2>3
  <2> QED
    BY <2>2, <2>3, StepsByEffect DEF Passes, Begins, Rests
<1> QED
  BY <1>1, <1>2, TypeCorrect, PTL DEF Spec

-----------------------------------------------------------------------------
StepNames == {"summary", "derived", "spx", "breadth", "macro", "universe", "screener", "catalyst",
              "gate", "thesis", "sizing", "sync", "falsifier", "linker", "expiry", "brief",
              "notify", "audit"}

LEMMA ProgramsAreSequences == ASSUME NEW kind \in Kinds PROVE Steps[kind] \in Seq(StepNames)
<1>1. Pre \in Seq(StepNames)
  BY DEF Pre, StepNames
<1>2. Post \in Seq(StepNames)
  BY DEF Post, StepNames
<1>3. /\ <<"thesis">> \in Seq(StepNames) /\ <<"brief">> \in Seq(StepNames)
      /\ <<"audit">> \in Seq(StepNames) /\ <<"brief", "notify", "audit">> \in Seq(StepNames)
  BY DEF StepNames
<1>4. ASSUME NEW s \in Seq(StepNames), NEW t \in Seq(StepNames) PROVE s \o t \in Seq(StepNames)
  OBVIOUS
<1>5. /\ Pre \o Post \in Seq(StepNames)
      /\ Pre \o <<"thesis">> \o Post \o <<"brief", "notify", "audit">> \in Seq(StepNames)
  BY <1>1, <1>2, <1>3, <1>4
<1>6. kind \in {"all", "pre", "post", "daily", "thesis", "brief", "audit"}
  BY BoundsAssumption DEF Steps
<1> HIDE DEF StepNames
<1>7. Steps[kind] \in {Pre \o Post, Pre, Post,
                      Pre \o <<"thesis">> \o Post \o <<"brief", "notify", "audit">>,
                      <<"thesis">>, <<"brief">>, <<"audit">>}
  <2>1. kind = "all" => Steps[kind] = Pre \o Post
    BY DEF Steps
  <2>2. kind = "daily" =>
          Steps[kind] = Pre \o <<"thesis">> \o Post \o <<"brief", "notify", "audit">>
    BY DEF Steps
  <2>3. /\ kind = "pre" => Steps[kind] = Pre
        /\ kind = "post" => Steps[kind] = Post
    BY DEF Steps
  <2>4. /\ kind = "thesis" => Steps[kind] = <<"thesis">>
        /\ kind = "brief" => Steps[kind] = <<"brief">>
        /\ kind = "audit" => Steps[kind] = <<"audit">>
    BY DEF Steps
  <2> QED
    BY <1>6, <2>1, <2>2, <2>3, <2>4
<1> QED
  BY <1>1, <1>2, <1>3, <1>5, <1>7

LEMMA StrictIsInput == ASSUME NEW a \in Artifacts PROVE Strict(a) \subseteq Inputs[a]
BY DEF Strict, CatalystStrict, SizingStrict, Inputs, CatalystReads, SizingReads

(* Each step that came to an outcome left a whole artifact, or has an      *)
(* excuse, from the moment it ended.                                       *)
HasOwn(a)  == \E v \in DOMAIN MyTrail[a] : MyTrail[a][v].by = launch.no /\ MyTrail[a][v].ok
Excused(i) == \/ HasOwn(Program[i])
              \/ launch.did[i] \in {"failed", "torn"}
              \/ \E b \in Inputs[Program[i]] : IsTorn(b)

Accounted == ~Idle => /\ Done <= Len(Program)
                      /\ \A i \in 1 .. Done : Program[i] \in Artifacts => Excused(i)

(* An excuse lasts as long as the launch.                                  *)
LEMMA ExcuseStays ==
  ASSUME TypeOK, [Next]_vars, Running, NEW o \in Outcomes, Advance(o),
         NEW i \in 1 .. Done, Program[i] \in Artifacts, Excused(i)
  PROVE  Excused(i)'
<1> DEFINE a == Program[i]
           d == launch.date
<1>1. launch \in LaunchRecord
  BY RunningTyped
<1>2. /\ launch'.no = launch.no /\ launch'.date = d /\ launch'.kind = launch.kind
      /\ launch'.did = Append(launch.did, o)
  BY <1>1 DEF Advance, LaunchRecord
<1>3. Program' = Program
  BY <1>2 DEF Program
<1>4. launch'.did[i] = launch.did[i]
  BY <1>1, <1>2 DEF LaunchRecord, Done
<1>5. ASSUME HasOwn(a)
      PROVE  \E v \in DOMAIN trail'[d][a] : trail'[d][a][v].by = launch.no /\ trail'[d][a][v].ok
  <2>1. d \in Days /\ trail[d][a] \in Seq(Versions)
    BY <1>1 DEF LaunchRecord, TypeOK
  <2>2. PICK v \in DOMAIN trail[d][a] : trail[d][a][v].by = launch.no /\ trail[d][a][v].ok
    BY <1>5 DEF HasOwn, MyTrail
  <2>3. v \in DOMAIN trail'[d][a] /\ trail'[d][a][v] = trail[d][a][v]
    <3>1. CASE trail' = trail
      BY <3>1
    <3>2. CASE Writes
      <4>1. PICK c \in Artifacts, whole \in BOOLEAN : At(c) /\ Write(c, whole)
        BY <3>2 DEF Writes
      <4> DEFINE nv == NewVersion(c, whole)
      <4>2. /\ trail'[d][c] = Append(trail[d][c], nv)
            /\ c # a => trail'[d][a] = trail[d][a]
        BY <2>1, <4>1, WriteEffect DEF At
      <4> HIDE DEF nv
      <4> QED
        BY <2>1, <4>2, SMTT(30)
    <3> QED
      BY <3>1, <3>2, StepsByEffect DEF Passes, Begins, Rests
  <2> QED
    BY <2>2, <2>3
<1>6. ASSUME NEW b \in Inputs[a], IsTorn(b) PROVE IsTorn(b)'
  <2>1. b \in Artifacts /\ d \in Days
    BY <1>1, <1>6, InputsAreFiles DEF IsTorn, LaunchRecord
  <2> QED
    BY <1>2, <1>6, <2>1, CanonicalStays DEF IsTorn, MyTrail
<1>7. CASE HasOwn(Program[i])
  BY <1>2, <1>3, <1>5, <1>7 DEF Excused, HasOwn, MyTrail
<1>8. CASE launch.did[i] \in {"failed", "torn"}
  BY <1>4, <1>8 DEF Excused
<1>9. CASE \E b \in Inputs[Program[i]] : IsTorn(b)
  BY <1>3, <1>6, <1>9 DEF Excused
<1> QED
  BY <1>7, <1>8, <1>9 DEF Excused

(* The step under way earns its excuse as it ends.                         *)
LEMMA ExcuseEarned ==
  ASSUME TypeOK, [Next]_vars, Running, Writes \/ Passes,
         NEW n \in Nat, n = Done + 1, Program[n] \in Artifacts
  PROVE  Excused(n)'
<1> DEFINE a == Program[n]
           d == launch.date
<1>1. launch \in LaunchRecord
  BY RunningTyped
<1>2. d \in Days /\ trail[d][a] \in Seq(Versions)
  BY <1>1 DEF LaunchRecord, TypeOK
<1>3. ASSUME NEW o, Advance(o)
      PROVE  /\ launch'.no = launch.no /\ launch'.date = d /\ launch'.did[n] = o
             /\ Program' = Program
  BY <1>1, <1>3 DEF Advance, LaunchRecord, Program, Done
<1>4. CASE Writes
  <2>1. PICK c \in Artifacts, whole \in BOOLEAN :
          At(c) /\ Write(c, whole) /\ Advance(IF whole THEN "ok" ELSE "torn")
    BY <1>4 DEF Writes
  <2>2. c = a
    BY <2>1 DEF At
  <2>3. CASE whole
    <3> DEFINE v == NewVersion(a, whole)
    <3>1. v.by = launch.no /\ v.ok
      BY <2>3 DEF NewVersion
    <3>2. trail'[d][a] = Append(trail[d][a], v) /\ v \in Versions
      BY <2>1, <2>2, WriteEffect
    <3> HIDE DEF v
    <3>3. LET k == Len(trail[d][a]) + 1
          IN  k \in DOMAIN trail'[d][a] /\ trail'[d][a][k] = v
      BY <1>2, <3>2
    <3>4. \E k \in DOMAIN trail'[d][a] : trail'[d][a][k].by = launch.no /\ trail'[d][a][k].ok
      BY <3>1, <3>3
    <3> QED
      BY <1>3, <2>1, <3>4 DEF Excused, HasOwn, MyTrail
  <2>4. CASE ~whole
    BY <1>3, <2>1, <2>4 DEF Excused
  <2> QED
    BY <2>3, <2>4
<1>5. CASE Passes
  <2>1. PICK o \in Outcomes : Advance(o) /\ (o = "failed" \/ (o = "raised" /\ Unreadable(a)))
    BY <1>5 DEF Passes
  <2>2. trail' = trail
    BY <1>5 DEF Passes
  <2>3. CASE o = "failed"
    BY <1>3, <2>1, <2>3 DEF Excused
  <2>4. CASE Unreadable(a)
    <3>1. PICK b \in Inputs[a] : IsTorn(b)
      BY <2>4, StrictIsInput DEF Unreadable
    <3>2. IsTorn(b)'
      BY <1>3, <2>1, <2>2, <3>1 DEF IsTorn, MyTrail
    <3> QED
      BY <1>3, <2>1, <3>1, <3>2 DEF Excused
  <2> QED
    BY <2>1, <2>3, <2>4
<1> QED
  BY <1>4, <1>5

LEMMA AccountedStep == ASSUME TypeOK, Accounted, [Next]_vars PROVE Accounted'
<1>1. CASE Writes \/ Passes
  <2>1. Running /\ \E o \in Outcomes : Advance(o)
    BY <1>1 DEF Writes, Passes, At, Outcomes
  <2>2. PICK o \in Outcomes : Advance(o)
    BY <2>1
  <2>3. launch \in LaunchRecord
    BY <2>1, RunningTyped
  <2>4. Program' = Program /\ Done' = Done + 1 /\ Done \in Nat
    BY <2>2, <2>3 DEF Advance, LaunchRecord, Program, Done
  <2>5. Done < Len(Program) /\ Len(Program) \in Nat
    BY <2>1, <2>3, ProgramsAreSequences DEF Running, Program, LaunchRecord
  <2>6. ASSUME NEW i \in 1 .. Done', Program'[i] \in Artifacts PROVE Excused(i)'
    <3>1. CASE i = Done + 1
      BY <1>1, <2>1, <2>4, <2>6, <3>1, ExcuseEarned, Done + 1 \in Nat
    <3>2. CASE i \in 1 .. Done
      BY <2>1, <2>2, <2>4, <2>6, <3>2, ExcuseStays DEF Accounted, Running
    <3> QED
      BY <2>4, <3>1, <3>2
  <2> QED
    BY <2>4, <2>5, <2>6 DEF Accounted
<1>2. CASE Begins
  <2>1. PICK kind \in Kinds : launch'.kind = kind /\ launch'.did = << >>
    BY <1>2 DEF Begins
  <2>2. Done' = 0 /\ Len(Program') \in Nat
    BY <2>1, ProgramsAreSequences DEF Done, Program
  <2> QED
    BY <2>2 DEF Accounted
<1>3. CASE Rests
  BY <1>3 DEF Rests, Accounted, Idle, Done, Program, Excused, HasOwn, IsTorn, MyTrail
<1> QED
  BY <1>1, <1>2, <1>3, StepsByEffect

(* A launch that came to its end tried every stage, and a stage without a  *)
(* whole artifact of this launch failed itself or had a torn input, for    *)
(* any number of faults.  Accounted says so of every step that is over.    *)
THEOREM FailureDoesNotSpreadAlways == Spec => []FailureDoesNotSpread
<1>1. Init => Accounted
  BY DEF Init, Accounted, Idle
<1>2. TypeOK /\ Accounted => FailureDoesNotSpread
  <2> SUFFICES ASSUME TypeOK, Accounted, ~Idle, ~Running,
                      NEW i \in DOMAIN Program, Program[i] \in Artifacts
               PROVE  \/ HasOwn(Program[i])
                      \/ Did(Program[i], {"failed", "torn"})
                      \/ \E b \in Inputs[Program[i]] : IsTorn(b)
    BY DEF FailureDoesNotSpread, HasOwn
  <2>1. launch \in LaunchRecord
    BY DEF TypeOK, Idle, LaunchRecord
  <2>2. Program \in Seq(StepNames) /\ Done \in Nat
    BY <2>1, ProgramsAreSequences DEF Program, Done, LaunchRecord
  <2>3. i \in 1 .. Done
    BY <2>2 DEF Accounted, Running
  <2>4. Excused(i) /\ i \in DOMAIN launch.did
    BY <2>1, <2>3 DEF Accounted, Done, LaunchRecord
  <2> QED
    BY <2>4 DEF Excused, Did
<1> QED
  BY <1>1, <1>2, AccountedStep, TypeCorrect, PTL DEF Spec

-----------------------------------------------------------------------------
(* In every program with a macro stage the breadth is fetched just before. *)
LEMMA PrePlaces ==
  ASSUME NEW kind \in Kinds, NEW i \in DOMAIN Steps[kind]
  PROVE  /\ Steps[kind][i] = "breadth" => i = 4
         /\ Steps[kind][i] = "macro" => i = 5 /\ Steps[kind][4] = "breadth"
<1>1. kind \in {"all", "pre", "post", "daily", "thesis", "brief", "audit"}
  BY BoundsAssumption DEF Steps
<1>2. CASE kind = "all"
  <2>1. Steps[kind] = Pre \o Post
    BY <1>2 DEF Steps
  <2> QED BY <2>1 DEF Pre, Post
<1>3. CASE kind = "pre"
  <2>1. Steps[kind] = Pre
    BY <1>3 DEF Steps
  <2> QED BY <2>1 DEF Pre
<1>4. CASE kind = "post"
  <2>1. Steps[kind] = Post
    BY <1>4 DEF Steps
  <2> QED BY <2>1 DEF Post
<1>5. CASE kind = "daily"
  <2>1. Steps[kind] = Pre \o <<"thesis">> \o Post \o <<"brief", "notify", "audit">>
    BY <1>5 DEF Steps
  <2> QED BY <2>1 DEF Pre, Post
<1>6. CASE kind \in {"thesis", "brief", "audit"}
  BY <1>6 DEF Steps
<1> QED
  BY <1>1, <1>2, <1>3, <1>4, <1>5, <1>6

(* The daily program, step by step.                                       *)
LEMMA DailyProgram ==
  LET s == Steps["daily"]
  IN  /\ Len(s) = 18
      /\ s[1] = "summary" /\ s[2] = "derived" /\ s[3] = "spx"
      /\ s[4] = "breadth" /\ s[5] = "macro" /\ s[6] = "universe"
      /\ s[7] = "screener" /\ s[8] = "catalyst" /\ s[9] = "gate"
      /\ s[10] = "thesis" /\ s[11] = "sizing" /\ s[12] = "sync"
      /\ s[13] = "falsifier" /\ s[14] = "linker" /\ s[15] = "expiry"
      /\ s[16] = "brief" /\ s[17] = "notify" /\ s[18] = "audit"
<1>1. Steps["daily"] = Pre \o <<"thesis">> \o Post \o <<"brief", "notify", "audit">>
  BY DEF Steps
<1> QED
  BY <1>1 DEF Pre, Post

-----------------------------------------------------------------------------
(* What a step does to the breadth and to the briefs that were sent.       *)
LEMMA BreadthStep ==
  ASSUME TypeOK, [Next]_vars
  PROVE  /\ breadth' = breadth \/ (At("breadth") /\ breadth' = launch.no)
         /\ At("breadth") /\ (Writes \/ Passes) =>
              breadth' = launch.no \/ Advance("failed") \/ Advance("raised")
         /\ sent' = sent \/ (Notify /\ MyTrail["brief"] # << >>)
<1>1. ASSUME NEW a \in Artifacts, Stage(a)
      PROVE  breadth' = breadth /\ sent' = sent /\ ~At("breadth")
  BY <1>1, BreadthIsNoArtifact
  DEF Stage, RunStage, StageRaises, StageFails, StageTears, At
<1>2. ASSUME NEW kind \in Kinds, NEW d \in Days, Launch(kind, d)
      PROVE  breadth' = breadth /\ sent' = sent /\ ~At("breadth")
  BY <1>2 DEF Launch, At, Running
<1>3. CASE RefreshSkips \/ RefreshFails \/ (\E whole \in BOOLEAN : Refresh(whole))
           \/ (\E verdict \in {"ok", "refused"} : Gate(verdict)) \/ Notify
  BY <1>3 DEF RefreshSkips, RefreshFails, Refresh, Gate, Notify, At
<1>4. CASE FetchBreadth \/ FetchBreadthFails
  BY <1>4 DEF FetchBreadth, FetchBreadthFails
<1>5. CASE Finish \/ Kill \/ NewDay \/ UNCHANGED vars
  <2>1. breadth' = breadth /\ sent' = sent /\ launch' \in {launch, NoLaunch}
    BY <1>5 DEF Finish, Kill, NewDay, vars
  <2>2. ASSUME Writes \/ Passes PROVE FALSE
    <3>1. Running /\ \E o \in Outcomes : Advance(o)
      BY <2>2 DEF Writes, Passes, At, Outcomes
    <3>2. PICK o \in Outcomes : Advance(o)
      BY <3>1
    <3>3. launch \in LaunchRecord /\ launch' \in LaunchRecord
      BY <3>1, <3>2, RunningTyped, AdvanceTyped
    <3>4. launch' # launch
      BY <3>2, <3>3 DEF Advance, LaunchRecord
    <3>5. launch' # NoLaunch
      BY <3>3 DEF LaunchRecord, NoLaunch, Nobody, Launches
    <3> QED  BY <2>1, <3>4, <3>5
  <2> QED  BY <2>1, <2>2
<1> QED
  BY <1>1, <1>2, <1>3, <1>4, <1>5 DEF Next

(* What is over of the launch stays over.                                  *)
LEMMA AdvanceKeeps ==
  ASSUME TypeOK, Running, NEW o \in Outcomes, Advance(o)
  PROVE  /\ launch \in LaunchRecord /\ launch' \in LaunchRecord
         /\ launch'.no = launch.no /\ launch'.date = launch.date /\ launch'.kind = launch.kind
         /\ launch'.first = launch.first
         /\ Program' = Program /\ Done \in Nat /\ Done' = Done + 1
         /\ DOMAIN launch.did = 1 .. Done /\ DOMAIN launch'.did = 1 .. Done + 1
         /\ \A i \in 1 .. Done : launch'.did[i] = launch.did[i]
         /\ launch'.did[Done + 1] = o
<1>1. launch \in LaunchRecord /\ launch' \in LaunchRecord
  BY RunningTyped, AdvanceTyped
<1> QED
  BY <1>1 DEF Advance, LaunchRecord, Program, Done

(* Breadth and regime of the launch under way: a fetch that did not fail   *)
(* left this launch's breadth, and a regime saw it.                        *)
FetchFailed == Did("breadth", {"failed", "raised"})
Fetched ==
  ~Idle =>
    /\ \A i \in DOMAIN launch.did : Program[i] = "breadth" => FetchFailed \/ breadth = launch.no
    /\ \A i \in DOMAIN launch.did : Program[i] = "macro" /\ launch.did[i] = "ok" =>
         \/ FetchFailed
         \/ /\ MyTrail["macro"] # << >>
            /\ MyTrail["macro"][Len(MyTrail["macro"])].saw["breadth"] = launch.no

(* The invariant of the breadth, by the three kinds of steps.              *)
LEMMA FetchedStep == ASSUME TypeOK, Fetched, [Next]_vars PROVE Fetched'
<1>1. CASE Writes \/ Passes
  <2>1. PICK o \in Outcomes : Running /\ Advance(o)
    BY <1>1 DEF Writes, Passes, At, Outcomes
  <2> DEFINE n == Done + 1
  <2>2. /\ launch \in LaunchRecord /\ launch' \in LaunchRecord
        /\ launch'.no = launch.no /\ launch'.date = launch.date
        /\ Program' = Program /\ Done \in Nat
        /\ DOMAIN launch.did = 1 .. Done /\ DOMAIN launch'.did = 1 .. n
        /\ \A i \in 1 .. Done : launch'.did[i] = launch.did[i]
        /\ launch'.did[n] = o
    BY <2>1, AdvanceKeeps
  <2>3. ~Idle /\ n \in DOMAIN Program /\ 1 .. Done \subseteq DOMAIN Program
    <3>1. Program \in Seq(StepNames)
      BY <2>2, ProgramsAreSequences DEF Program, LaunchRecord
    <3> QED  BY <2>1, <2>2, <3>1 DEF Running
  <2>4. \A i \in DOMAIN Program : /\ Program[i] = "breadth" => i = 4
                                 /\ Program[i] = "macro" => i = 5 /\ Program[4] = "breadth"
    BY <2>2, PrePlaces DEF Program, LaunchRecord
  <2>5. FetchFailed => FetchFailed'
    <3> SUFFICES ASSUME FetchFailed PROVE FetchFailed'
      OBVIOUS
    <3>1. PICK i \in DOMAIN launch.did :
            Program[i] = "breadth" /\ launch.did[i] \in {"failed", "raised"}
      BY DEF FetchFailed, Did
    <3> QED  BY <2>2, <3>1 DEF FetchFailed, Did
  <2>6. ASSUME NEW i \in 1 .. n, Program[i] = "breadth" PROVE FetchFailed' \/ breadth' = launch'.no
    <3>1. CASE i = n
      <4>1. At("breadth")
        BY <2>1, <2>6, <3>1 DEF At
      <4>2. breadth' = launch.no \/ Advance("failed") \/ Advance("raised")
        BY <1>1, <4>1, BreadthStep
      <4>3. ASSUME NEW f \in {"failed", "raised"}, Advance(f) PROVE FetchFailed'
        <5>1. launch'.did[n] = f
          BY <2>1, <4>3, AdvanceKeeps DEF Outcomes
        <5> QED  BY <2>2, <2>6, <3>1, <4>3, <5>1 DEF FetchFailed, Did
      <4> QED  BY <2>2, <4>2, <4>3
    <3>2. CASE i # n
      <4>1. i \in 1 .. Done
        BY <2>2, <2>6, <3>2
      <4>2. FetchFailed \/ breadth = launch.no
        BY <2>2, <2>3, <2>6, <4>1 DEF Fetched
      <4> QED  BY <2>2, <2>5, <4>2, BreadthStep
    <3> QED  BY <3>1, <3>2
  <2> DEFINE Saw(t) == t # << >> /\ t[Len(t)].saw["breadth"] = launch.no
  <2>7. ASSUME NEW i \in 1 .. n, Program[i] = "macro", launch'.did[i] = "ok"
        PROVE  FetchFailed' \/ Saw(trail'[launch.date]["macro"])
    <3>1. CASE i = n
      <4>1. "macro" \in Artifacts /\ "breadth" \in Inputs["macro"]
        BY DEF Artifacts, Inputs, MacroReads
      <4>2. n = 5 /\ Program[4] = "breadth"
        BY <2>3, <2>4, <2>7, <3>1
      <4>3. FetchFailed \/ breadth = launch.no
        BY <2>2, <2>3, <4>2 DEF Fetched
      <4>4. o = "ok" /\ ~Passes
        <5>1. o = "ok" BY <2>2, <2>7, <3>1
        <5>2. ASSUME Passes PROVE FALSE
          <6>1. PICK p \in Outcomes : Advance(p) /\ p # "ok"
            BY <2>7, <3>1, <4>1, <5>2 DEF Passes
          <6>2. launch'.did[n] = p BY <2>1, <6>1, AdvanceKeeps
          <6> QED  BY <2>2, <5>1, <6>1, <6>2
        <5> QED  BY <5>1, <5>2
      <4>5. PICK whole \in BOOLEAN : Write("macro", whole)
        <5>1. PICK a \in Artifacts, whole \in BOOLEAN : At(a) /\ Write(a, whole)
          BY <1>1, <4>4 DEF Writes
        <5> QED  BY <2>7, <3>1, <5>1 DEF At
      <4> DEFINE v == NewVersion("macro", whole)
      <4>6. /\ trail'[launch.date]["macro"] = Append(trail[launch.date]["macro"], v)
            /\ v \in Versions /\ trail[launch.date]["macro"] \in Seq(Versions)
        BY <2>1, <2>2, <4>1, <4>5, WriteEffect DEF TypeOK, LaunchRecord
      <4>7. v.saw["breadth"] = breadth
        BY <4>1 DEF NewVersion, WrittenBy
      <4> HIDE DEF v
      <4>8. LET t == trail'[launch.date]["macro"] IN t # << >> /\ t[Len(t)] = v
        BY <4>6
      <4> QED  BY <2>5, <4>3, <4>7, <4>8
    <3>2. CASE i # n
      <4>1. i \in 1 .. Done
        BY <2>2, <2>7, <3>2
      <4>2. FetchFailed \/ Saw(trail[launch.date]["macro"])
        BY <2>2, <2>3, <2>7, <4>1 DEF Fetched, MyTrail
      <4>3. trail'[launch.date]["macro"] = trail[launch.date]["macro"]
        <5>1. Program[n] # "macro"
          BY <2>3, <2>4, <2>7, <3>2, <4>1
        <5>2. CASE Passes BY <5>2 DEF Passes
        <5>3. CASE Writes
          <6>1. PICK a \in Artifacts, whole \in BOOLEAN : At(a) /\ Write(a, whole)
            BY <5>3 DEF Writes
          <6>2. a # "macro" /\ "macro" \in Artifacts /\ launch.date \in Days
            BY <2>2, <5>1, <6>1 DEF At, Artifacts, Inputs, LaunchRecord
          <6> QED  BY <2>1, <6>1, <6>2, WriteEffect
        <5> QED  BY <1>1, <5>2, <5>3
      <4> QED  BY <2>5, <4>2, <4>3
    <3> QED  BY <3>1, <3>2
  <2> QED
    BY <2>2, <2>6, <2>7 DEF Fetched, MyTrail
<1>2. CASE Begins
  <2>1. DOMAIN launch'.did = {}
    BY <1>2 DEF Begins
  <2> QED  BY <2>1 DEF Fetched
<1>3. CASE Rests
  <2>1. CASE launch' = NoLaunch
    BY <2>1 DEF Fetched, Idle
  <2>2. CASE launch' = launch
    <3>1. trail' = trail /\ (breadth' = breadth \/ breadth' = launch.no)
      BY <1>3, BreadthStep DEF Rests
    <3> QED
      BY <2>2, <3>1 DEF Fetched, Idle, FetchFailed, Did, Program, MyTrail
  <2> QED  BY <1>3, <2>1, <2>2 DEF Rests
<1> QED
  BY <1>1, <1>2, <1>3, StepsByEffect

(* A regime rests on the breadth of another launch only if this launch's   *)
(* own fetch failed, for any launches, faults and ages.                    *)
THEOREM StaleBreadthOnlyByFaultAlways == Spec => []StaleBreadthOnlyByFault
<1>1. Init => Fetched
  BY DEF Init, Fetched, Idle
<1>2. Fetched => StaleBreadthOnlyByFault
  <2>1. ASSUME Idle PROVE ~Did("macro", {"ok"})
    <3>1. DOMAIN launch.did = {}
      BY <2>1 DEF Idle, NoLaunch
    <3> QED  BY <3>1 DEF Did
  <2> QED
    BY <2>1 DEF Fetched, StaleBreadthOnlyByFault, FetchFailed, Did
<1> QED
  BY <1>1, <1>2, FetchedStep, TypeCorrect, PTL DEF Spec

-----------------------------------------------------------------------------
(* A whole artifact of a launch, which saw all of its inputs of that one.  *)
WholeOf(versions, a, no) ==
  /\ versions # << >>
  /\ Canonical(versions) = [by |-> no, ok |-> TRUE, saw |-> [b \in Inputs[a] |-> no]]

(* A first daily launch that is undisturbed so far: what is over is whole, *)
(* and what is to come has no file yet.                                    *)
CleanSoFar ==
  ~Idle /\ launch.kind = "daily" /\ launch.first /\ Undisturbed =>
    /\ \A i \in 1 .. 18 : Program[i] \in Artifacts =>
         /\ i <= Done => WholeOf(MyTrail[Program[i]], Program[i], launch.no)
         /\ i > Done => MyTrail[Program[i]] = << >>
    /\ Done >= 4 => breadth = launch.no
    /\ IF Done >= 17 THEN sent[launch.date] # << >> /\ sent[launch.date][1] = launch.no
                     ELSE sent[launch.date] = << >>

(* No brief is sent that was not written.                                  *)
SentIsWritten == \A d \in Days : sent[d] # << >> => trail[d]["brief"] # << >>

CleanInv == SentIsWritten /\ CleanSoFar /\ CleanDayIsComplete

(* The inputs of a stage come before it in the daily program.              *)
LEMMA InputsComeBefore ==
  ASSUME NEW i \in 1 .. 18, Steps["daily"][i] \in Artifacts, NEW b \in Inputs[Steps["daily"][i]]
  PROVE  \E j \in 1 .. i - 1 : Steps["daily"][j] = b /\ (b = "breadth" <=> j = 4)
<1>1. i \in {1, 2, 5, 6, 7, 8} \cup {10, 11, 12, 13, 14, 15, 16, 18}
  BY DailyProgram DEF Artifacts, Inputs
<1>2. CASE i \in {1, 2, 5, 6}
  BY <1>2, DailyProgram DEF Inputs, DeriveReads, MacroReads
<1>3. CASE i \in {7, 8}
  BY <1>3, DailyProgram DEF Inputs, ScreenerReads, CatalystReads
<1>4. CASE i \in {10, 11}
  BY <1>4, DailyProgram DEF Inputs, Stage4Reads, SizingReads
<1>5. CASE i \in {12, 13, 14, 15}
  BY <1>5, DailyProgram DEF Inputs, SyncReads, LinkerReads
<1>6. CASE i = 16
  BY <1>6, DailyProgram DEF Inputs, BriefReads
<1>7. CASE i = 18
  BY <1>7, DailyProgram DEF Inputs, AuditReads
<1> QED
  BY <1>1, <1>2, <1>3, <1>4, <1>5, <1>6, <1>7

(* Which steps of the daily program write files; none comes twice.         *)
LEMMA DailyArtifacts ==
  ASSUME NEW i \in 1 .. 18
  PROVE  /\ Steps["daily"][i] \in Artifacts <=> i \notin {3, 4, 9, 17}
         /\ \A j \in 1 .. 18 : Steps["daily"][i] = Steps["daily"][j] => i = j
         /\ i = 4 <=> Steps["daily"][i] = "breadth"
         /\ i = 17 <=> Steps["daily"][i] = "notify"
         /\ i = 16 <=> Steps["daily"][i] = "brief"
<1>1. i \in {1, 2, 3, 4, 5, 6} \cup {7, 8, 9, 10, 11, 12} \cup {13, 14, 15, 16, 17, 18}
  OBVIOUS
<1>2. CASE i \in {1, 2, 3, 4, 5, 6}
  BY <1>2, DailyProgram DEF Artifacts, Inputs
<1>3. CASE i \in {7, 8, 9, 10, 11, 12}
  BY <1>3, DailyProgram DEF Artifacts, Inputs
<1>4. CASE i \in {13, 14, 15, 16, 17, 18}
  BY <1>4, DailyProgram DEF Artifacts, Inputs
<1> QED
  BY <1>1, <1>2, <1>3, <1>4

(* The places of all the artifacts.                                        *)
LEMMA DailyHasAll == ASSUME NEW a \in Artifacts PROVE \E i \in 1 .. 18 : Steps["daily"][i] = a
BY DailyProgram DEF Artifacts, Inputs

(* What a step of a launch does that comes to one of the good outcomes.    *)
LEMMA GoodStep ==
  ASSUME TypeOK, [Next]_vars, Running, Writes \/ Passes,
         NEW o \in {"ok", "fresh", "refused"}, Advance(o),
         NEW s, s = Program[Done + 1]
  PROVE  /\ IF s \in Artifacts THEN Write(s, TRUE) ELSE trail' = trail
         /\ breadth' = IF s = "breadth" THEN launch.no ELSE breadth
         /\ IF s = "notify"
              THEN /\ MyTrail["brief"] # << >>
                   /\ sent' = [sent EXCEPT ![launch.date] = Append(@, WrittenBy("brief"))]
              ELSE sent' = sent
<1>1. /\ launch \in LaunchRecord /\ launch'.did[Done + 1] = o
      /\ \A p \in Outcomes : Advance(p) => p = o
  <2>1. o \in Outcomes BY DEF Outcomes
  <2>2. ASSUME NEW p \in Outcomes, Advance(p) PROVE launch'.did[Done + 1] = p
    BY <2>2, AdvanceKeeps
  <2> QED  BY <2>1, <2>2, AdvanceKeeps
<1>2. At(s)
  BY DEF At
<1>3. IF s \in Artifacts THEN Write(s, TRUE) ELSE trail' = trail
  <2>1. CASE Writes
    <3>1. PICK a \in Artifacts, whole \in BOOLEAN :
            At(a) /\ Write(a, whole) /\ Advance(IF whole THEN "ok" ELSE "torn")
      BY <2>1 DEF Writes
    <3>2. a = s
      BY <3>1 DEF At
    <3>3. CASE ~whole
      <4>1. o = "torn"
        BY <1>1, <3>1, <3>3 DEF Outcomes
      <4> QED  BY <4>1
    <3> QED  BY <3>1, <3>2, <3>3
  <2>2. CASE Passes
    <3>1. PICK p \in Outcomes : Advance(p) /\ (s \in Artifacts => p \in {"failed", "raised"})
      BY <2>2 DEF Passes
    <3>2. p = o
      BY <1>1, <3>1
    <3> QED  BY <2>2, <3>1, <3>2 DEF Passes
  <2> QED  BY <2>1, <2>2
<1>4. breadth' = IF s = "breadth" THEN launch.no ELSE breadth
  <2>1. CASE s = "breadth"
    <3>1. breadth' = launch.no \/ Advance("failed") \/ Advance("raised")
      BY <1>2, <2>1, BreadthStep
    <3>2. ~Advance("failed") /\ ~Advance("raised")
      BY <1>1 DEF Outcomes
    <3> QED  BY <2>1, <3>1, <3>2
  <2>2. CASE s # "breadth"
    BY <2>2, BreadthStep DEF At
  <2> QED  BY <2>1, <2>2
<1>5. CASE s # "notify"
  <2>1. ~Notify
    BY <1>5 DEF Notify, At
  <2> QED  BY <1>3, <1>4, <1>5, <2>1, BreadthStep
<1>6. CASE s = "notify"
  <2>1. Notify
    <3>1. launch' # launch /\ launch' # NoLaunch
      <4>1. o \in Outcomes
        BY DEF Outcomes
      <4>2. launch' \in LaunchRecord /\ Done' = Done + 1 /\ Done \in Nat
        BY <4>1, AdvanceKeeps
      <4>3. launch'.no # Nobody
        BY <4>2 DEF LaunchRecord, Launches, Nobody
      <4>4. launch' # launch
        BY <4>2 DEF Done
      <4> QED  BY <4>3, <4>4 DEF NoLaunch
    <3>2. s \notin Artifacts /\ \A x : At(x) => x = s
      BY <1>6 DEF Artifacts, Inputs, At
    <3>3. ~Finish /\ ~Kill /\ ~NewDay /\ ~(UNCHANGED vars)
      BY <3>1 DEF Finish, Kill, NewDay, Running, vars
    <3>4. ~(\E kind \in Kinds, d \in Days : Launch(kind, d))
      BY DEF Launch, Running
    <3>5. ~(\E a \in Artifacts : Stage(a))
      BY <3>2 DEF Stage, RunStage, StageRaises, StageFails, StageTears
    <3>6. ~RefreshSkips /\ ~RefreshFails /\ ~(\E whole \in BOOLEAN : Refresh(whole))
          /\ ~FetchBreadth /\ ~FetchBreadthFails
          /\ ~(\E verdict \in {"ok", "refused"} : Gate(verdict))
      BY <1>6, <3>2 DEF RefreshSkips, RefreshFails, Refresh, FetchBreadth, FetchBreadthFails, Gate
    <3> QED  BY <3>3, <3>4, <3>5, <3>6 DEF Next
  <2>2. MyTrail["brief"] # << >>
    <3>1. ~Advance("skipped")
      BY <1>1 DEF Outcomes
    <3> QED  BY <2>1, <3>1 DEF Notify
  <2> QED  BY <1>3, <1>4, <1>6, <2>1, <2>2 DEF Notify
<1> QED
  BY <1>5, <1>6

(* The good step puts the artifact that is due under its name.             *)
LEMMA CleanSoFarAdvance ==
  ASSUME TypeOK, CleanSoFar, [Next]_vars, Writes \/ Passes PROVE CleanSoFar'
<1>1. PICK o \in Outcomes : Running /\ Advance(o)
  BY DEF Writes, Passes, At, Outcomes
<1> DEFINE d == launch.date
           no == launch.no
<1>2. /\ launch \in LaunchRecord /\ launch' \in LaunchRecord
      /\ launch'.no = launch.no /\ launch'.date = d
      /\ launch'.kind = launch.kind /\ launch'.first = launch.first
      /\ Program' = Program /\ Done \in Nat /\ Done' = Done + 1
      /\ DOMAIN launch.did = 1 .. Done /\ DOMAIN launch'.did = 1 .. Done + 1
      /\ \A i \in 1 .. Done : launch'.did[i] = launch.did[i]
      /\ launch'.did[Done + 1] = o
  BY <1>1, AdvanceKeeps
<1> SUFFICES ASSUME launch'.kind = "daily", launch'.first, Undisturbed'
             PROVE  /\ \A i \in 1 .. 18 : Program[i] \in Artifacts =>
                         /\ i <= Done + 1 => WholeOf(trail'[d][Program[i]], Program[i], no)
                         /\ i > Done + 1 => trail'[d][Program[i]] = << >>
                    /\ Done + 1 >= 4 => breadth' = no
                    /\ IF Done + 1 >= 17 THEN sent'[d] # << >> /\ sent'[d][1] = no
                                         ELSE sent'[d] = << >>
  BY <1>2 DEF CleanSoFar, MyTrail
<1>3. Undisturbed /\ o \in {"ok", "fresh", "refused"}
  BY <1>2 DEF Undisturbed
<1>4. Program = Steps["daily"] /\ ~Idle /\ d \in Days /\ no \in Launches
  BY <1>1, <1>2 DEF Program, Running, LaunchRecord
<1>5. PICK n \in 1 .. 18 : n = Done + 1
  <2>1. Len(Program) = 18
    BY <1>4, DailyProgram
  <2>2. Done < 18
    BY <1>1, <2>1 DEF Running
  <2>3. Done \in Nat
    BY <1>2
  <2>4. Done + 1 \in 1 .. 18
    BY <2>2, <2>3
  <2> HIDE DEF d, no
  <2> QED  BY <2>4, Zenon
<1>6. PICK prog : prog = Steps["daily"]
  OBVIOUS
<1> DEFINE s == prog[n]
<1>7. /\ \A i \in 1 .. 18 : prog[i] \in Artifacts =>
           /\ i < n => WholeOf(trail[d][prog[i]], prog[i], no)
           /\ i >= n => trail[d][prog[i]] = << >>
      /\ n > 4 => breadth = no
      /\ IF n > 17 THEN sent[d] # << >> /\ sent[d][1] = no
                   ELSE sent[d] = << >>
  <2>1. /\ \A i \in 1 .. 18 : Program[i] \in Artifacts =>
             /\ i <= Done => WholeOf(trail[d][Program[i]], Program[i], no)
             /\ i > Done => trail[d][Program[i]] = << >>
        /\ Done >= 4 => breadth = no
        /\ IF Done >= 17 THEN sent[d] # << >> /\ sent[d][1] = no
                         ELSE sent[d] = << >>
    BY <1>2, <1>3, <1>4 DEF CleanSoFar, MyTrail
  <2>2. Program = prog
    BY <1>4, <1>6
  <2>3. /\ \A i \in 1 .. 18 : (i < n => i <= Done) /\ (i >= n => i > Done)
        /\ n > 4 => Done >= 4
        /\ n > 17 <=> Done >= 17
    <3>1. Done \in Nat
      BY <1>2
    <3>2. n = Done + 1
      BY <1>5
    <3> HIDE DEF d, no, s
    <3>3. \A i \in 1 .. 18 : (i < n => i <= Done) /\ (i >= n => i > Done)
      BY <3>1, <3>2
    <3> QED  BY <3>1, <3>2, <3>3
  <2> QED  BY <2>1, <2>2, <2>3
<1>8. /\ IF s \in Artifacts THEN Write(s, TRUE) ELSE trail' = trail
      /\ breadth' = IF s = "breadth" THEN no ELSE breadth
      /\ IF s = "notify"
           THEN sent' = [sent EXCEPT ![d] = Append(@, WrittenBy("brief"))]
           ELSE sent' = sent
  BY <1>1, <1>3, <1>4, <1>5, <1>6, GoodStep
<1>9. \A i, j \in 1 .. 18 : /\ prog[i] \in Artifacts <=> i \notin {3, 4, 9, 17}
                            /\ prog[i] = prog[j] => i = j
                            /\ i = 4 <=> prog[i] = "breadth"
                            /\ i = 17 <=> prog[i] = "notify"
                            /\ i = 16 <=> prog[i] = "brief"
  BY <1>6, DailyArtifacts
<1>10. n >= 4 => breadth' = no
  BY <1>7, <1>8, <1>9, SMTT(30)
<1>11. ASSUME NEW i \in 1 .. 18, prog[i] \in Artifacts
       PROVE  /\ i <= n => WholeOf(trail'[d][prog[i]], prog[i], no)
              /\ i > n => trail'[d][prog[i]] = << >>
  <2>1. CASE s \notin Artifacts
    <3>1. i # n /\ trail' = trail
      BY <1>8, <1>11, <2>1
    <3>2. (i <= n => i < n) /\ (i > n => i >= n)
      BY <3>1
    <3> QED  BY <1>7, <1>11, <3>1, <3>2
  <2>2. CASE s \in Artifacts
    <3> DEFINE v == NewVersion(s, TRUE)
    <3>1. Write(s, TRUE)
      BY <1>8, <2>2
    <3>2. /\ trail'[d][s] = Append(trail[d][s], v)
          /\ \A c \in Artifacts : c # s => trail'[d][c] = trail[d][c]
          /\ v \in Versions
      <4>1. PICK a \in Artifacts : a = s
        BY <2>2
      <4>2. /\ NewVersion(a, TRUE) \in Versions
            /\ trail'[d][a] = Append(trail[d][a], NewVersion(a, TRUE))
            /\ \A e \in Days, c \in Artifacts :
                 e # d \/ c # a => trail'[e][c] = trail[e][c]
        BY <1>1, <3>1, <4>1, WriteEffect
      <4> QED  BY <1>4, <4>1, <4>2
    <3>3. CASE i = n
      <4>1. trail[d][s] = << >>
        <5>1. n \in 1 .. 18 /\ n >= n
          OBVIOUS
        <5> HIDE DEF s
        <5>2. s = prog[n]
          BY DEF s
        <5> QED  BY <1>7, <2>2, <5>1, <5>2
      <4>2. v = [by |-> no, ok |-> TRUE, saw |-> [b \in Inputs[s] |-> no]]
        <5>1. ASSUME NEW b \in Inputs[s] PROVE WrittenBy(b) = no
          <6>1. PICK j \in 1 .. n - 1 : prog[j] = b /\ (b = "breadth" <=> j = 4)
            <7>1. Steps["daily"][n] \in Artifacts /\ b \in Inputs[Steps["daily"][n]]
              BY <1>6, <2>2, <5>1
            <7>2. \E j \in 1 .. n - 1 : Steps["daily"][j] = b /\ (b = "breadth" <=> j = 4)
              BY <7>1, InputsComeBefore
            <7> QED  BY <1>6, <7>2
          <6>2. CASE b = "breadth"
            BY <1>7, <6>1, <6>2 DEF WrittenBy
          <6>3. CASE b # "breadth"
            <7>1. b \in Artifacts
              BY <2>2, <5>1, <6>3, InputsAreFiles
            <7>2. j \in 1 .. 18 /\ j < n
              BY <6>1
            <7>3. WholeOf(trail[d][b], b, no)
              BY <1>7, <6>1, <7>1, <7>2
            <7> QED  BY <6>3, <7>3 DEF WholeOf, WrittenBy, MyTrail
          <6> QED  BY <6>2, <6>3
        <5>2. [b \in Inputs[s] |-> WrittenBy(b)] = [b \in Inputs[s] |-> no]
          BY <5>1
        <5> QED  BY <5>2 DEF NewVersion
      <4> HIDE DEF v
      <4>3. trail'[d][s] # << >> /\ Canonical(trail'[d][s]) = v
        BY <3>2, <4>1 DEF Canonical
      <4> QED  BY <3>3, <4>2, <4>3 DEF WholeOf
    <3>4. CASE i # n
      <4>1. prog[i] # s
        BY <1>9, <3>4
      <4>2. trail'[d][prog[i]] = trail[d][prog[i]]
        BY <1>11, <3>2, <4>1
      <4>3. (i <= n => i < n) /\ (i > n => i >= n)
        BY <3>4
      <4> QED  BY <1>7, <1>11, <4>2, <4>3
    <3> QED  BY <3>3, <3>4
  <2> QED  BY <2>1, <2>2
<1>12. IF n >= 17 THEN sent'[d] # << >> /\ sent'[d][1] = no ELSE sent'[d] = << >>
  <2>1. CASE n # 17
    BY <1>7, <1>8, <1>9, <2>1
  <2>2. CASE n = 17
    <3>1. prog[16] = "brief" /\ "brief" \in Artifacts /\ s = "notify"
      BY <1>9, <2>2
    <3>2. WholeOf(trail[d]["brief"], "brief", no)
      BY <1>7, <2>2, <3>1
    <3>3. WrittenBy("brief") = no
      BY <3>2 DEF WholeOf, WrittenBy, MyTrail
    <3>4. sent[d] = << >> /\ sent \in [Days -> Seq(Launches)]
      BY <1>7, <2>2 DEF TypeOK
    <3>5. sent'[d] = Append(<< >>, no)
      BY <1>4, <1>8, <3>1, <3>3, <3>4
    <3> QED  BY <2>2, <3>5
  <2> QED  BY <2>1, <2>2
<1> QED
  BY <1>4, <1>5, <1>6, <1>10, <1>11, <1>12

(* A running step that comes to an outcome writes or passes.               *)
LEMMA AdvancesByEffect ==
  ASSUME TypeOK, [Next]_vars, Running, \E o \in Outcomes : Advance(o) PROVE Writes \/ Passes
<1>1. PICK o \in Outcomes : Advance(o)
  OBVIOUS
<1>2. launch' \in LaunchRecord /\ Done' = Done + 1 /\ Done \in Nat
  BY <1>1, AdvanceKeeps
<1>3. launch' # launch
  BY <1>2 DEF Done
<1>4. launch'.no # Nobody
  BY <1>2 DEF LaunchRecord, Launches, Nobody
<1>5. launch'.did # << >>
  BY <1>2 DEF Done
<1> QED
  BY <1>3, <1>4, <1>5, StepsByEffect DEF Begins, Rests, NoLaunch

(* The other steps begin a launch on a date without files, or end one.     *)
LEMMA CleanSoFarStep == ASSUME TypeOK, SentIsWritten, CleanSoFar, [Next]_vars PROVE CleanSoFar'
<1>1. CASE Writes \/ Passes
  BY <1>1, CleanSoFarAdvance
<1>2. ASSUME NEW kind \in Kinds, NEW d \in Days, Launch(kind, d) PROVE CleanSoFar'
  <2>1. /\ launch'.date = d /\ launch'.did = << >>
        /\ launch'.first <=> \A a \in Artifacts : trail[d][a] = << >>
        /\ trail' = trail /\ sent' = sent
    BY <1>2 DEF Launch
  <2>2. Done' = 0
    BY <2>1 DEF Done
  <2>3. "brief" \in Artifacts
    BY DEF Artifacts, Inputs
  <2>4. launch'.first => sent'[d] = << >>
    BY <2>1, <2>3 DEF SentIsWritten
  <2>5. \A i \in 1 .. 18 : ~(i <= 0)
    OBVIOUS
  <2> QED
    BY <2>1, <2>2, <2>4, <2>5, SMTT(30) DEF CleanSoFar, MyTrail
<1>3. CASE Finish \/ Kill
  BY <1>3 DEF Finish, Kill, CleanSoFar, Idle
<1>4. CASE NewDay
  BY <1>4 DEF NewDay, CleanSoFar, Idle
<1>5. CASE UNCHANGED vars
  BY <1>5 DEF vars, CleanSoFar, Idle, Undisturbed, Program, Done, MyTrail
<1>6. ASSUME NEW a \in Artifacts, Stage(a) PROVE Writes \/ Passes
  <2>1. Running /\ \E o \in Outcomes : Advance(o)
    BY <1>6 DEF Stage, RunStage, StageRaises, StageFails, StageTears, At, Outcomes
  <2> QED  BY <2>1, AdvancesByEffect
<1>7. ASSUME \/ RefreshSkips \/ RefreshFails \/ \E whole \in BOOLEAN : Refresh(whole)
             \/ FetchBreadth \/ FetchBreadthFails
             \/ \E verdict \in {"ok", "refused"} : Gate(verdict)
             \/ Notify
      PROVE  Writes \/ Passes
  <2>1. Running /\ \E o \in Outcomes : Advance(o)
    BY <1>7 DEF RefreshSkips, RefreshFails, Refresh, FetchBreadth, FetchBreadthFails, Gate, Notify,
                At, Outcomes
  <2> QED  BY <2>1, AdvancesByEffect
<1> QED
  BY <1>1, <1>2, <1>3, <1>4, <1>5, <1>6, <1>7 DEF Next

(* Notify sends only a brief that stands under the canonical name.         *)
LEMMA SentStep == ASSUME TypeOK, SentIsWritten, [Next]_vars PROVE SentIsWritten'
<1> SUFFICES ASSUME NEW d \in Days, sent'[d] # << >> PROVE trail'[d]["brief"] # << >>
  BY DEF SentIsWritten
<1>1. "brief" \in Artifacts
  BY DEF Artifacts, Inputs
<1>2. trail[d]["brief"] # << >>
  <2>1. CASE sent' = sent
    BY <2>1 DEF SentIsWritten
  <2>2. CASE Notify /\ MyTrail["brief"] # << >>
    BY <2>2 DEF Notify, SentIsWritten, TypeOK, MyTrail
  <2> QED  BY <2>1, <2>2, BreadthStep
<1> QED
  BY <1>1, <1>2, CanonicalStays

(* A brief that was sent first stays the first.                            *)
LEMMA FirstSentStays ==
  ASSUME TypeOK, [Next]_vars, NEW d \in Days, sent[d] # << >>
  PROVE  sent'[d] # << >> /\ sent'[d][1] = sent[d][1]
<1>1. sent[d] \in Seq(Launches)
  BY DEF TypeOK
<1>2. CASE sent' = sent
  BY <1>2
<1>3. CASE Notify /\ MyTrail["brief"] # << >>
  <2>1. sent' \in {sent, [sent EXCEPT ![launch.date] = Append(@, WrittenBy("brief"))]}
    BY <1>3 DEF Notify
  <2>2. sent'[d] = sent[d] \/ sent'[d] = Append(sent[d], WrittenBy("brief"))
    BY <2>1 DEF TypeOK
  <2> QED  BY <1>1, <2>2
<1> QED
  BY <1>2, <1>3, BreadthStep

(* Finish notes a date as complete when it is, and the first stays first.  *)
LEMMA CleanDayStep ==
  ASSUME TypeOK, CleanSoFar, CleanDayIsComplete, [Next]_vars PROVE CleanDayIsComplete'
<1> SUFFICES ASSUME NEW d \in Days, clean'[d] # Nobody
             PROVE  /\ \A a \in Artifacts : WholeOf(trail'[d][a], a, clean'[d])
                    /\ sent'[d] # << >> /\ sent'[d][1] = clean'[d]
  BY DEF CleanDayIsComplete, WholeOf
<1>1. /\ \A a \in Artifacts : WholeOf(trail[d][a], a, clean'[d])
      /\ sent[d] # << >> /\ sent[d][1] = clean'[d]
  <2>1. CASE clean'[d] = clean[d]
    BY <2>1 DEF CleanDayIsComplete, WholeOf
  <2>2. CASE clean'[d] # clean[d]
    <3>1. /\ Finish /\ launch.kind = "daily" /\ launch.first /\ Undisturbed
          /\ clean' = [clean EXCEPT ![launch.date] = launch.no]
      BY <2>2 DEF Next, Launch, Stage, RunStage, StageRaises, StageFails, StageTears, RefreshSkips,
                  RefreshFails, Refresh, FetchBreadth, FetchBreadthFails, Gate, Notify, Finish,
                  Kill, NewDay, vars
    <3>2. d = launch.date /\ clean'[d] = launch.no
      BY <2>2, <3>1 DEF TypeOK
    <3>3. ~Idle /\ ~Running /\ Program = Steps["daily"]
      BY <3>1 DEF Finish, Program
    <3>4. Done >= 18 /\ Done \in Nat
      <4>1. Len(Program) = 18
        BY <3>3, DailyProgram
      <4>2. Done \in Nat
        BY <3>3 DEF TypeOK, Idle, Done
      <4> QED  BY <3>3, <4>1, <4>2 DEF Running
    <3>5. Done >= 17 /\ \A i \in 1 .. 18 : i <= Done
      BY <3>4
    <3>6. sent[d] # << >> /\ sent[d][1] = launch.no
      BY <3>1, <3>2, <3>3, <3>5 DEF CleanSoFar
    <3>7. ASSUME NEW a \in Artifacts PROVE WholeOf(trail[d][a], a, launch.no)
      <4>1. PICK i \in 1 .. 18 : Program[i] = a
        BY <3>3, DailyHasAll
      <4> QED  BY <3>1, <3>2, <3>3, <3>5, <4>1 DEF CleanSoFar, MyTrail
    <3> QED  BY <3>2, <3>6, <3>7
  <2> QED  BY <2>1, <2>2
<1>2. \A a \in Artifacts : trail'[d][a] # << >> /\ Canonical(trail'[d][a]) = Canonical(trail[d][a])
  BY <1>1, CanonicalStays DEF WholeOf
<1> QED
  BY <1>1, <1>2, FirstSentStays DEF WholeOf

(* A date whose first launch was an undisturbed daily run is complete, and *)
(* nothing that is launched later changes it.                              *)
THEOREM CleanDayIsCompleteAlways == Spec => []CleanDayIsComplete
<1>1. Init => CleanInv
  BY DEF Init, CleanInv, SentIsWritten, CleanSoFar, CleanDayIsComplete, Idle
<1>2. TypeOK /\ CleanInv /\ [Next]_vars => CleanInv'
  BY CleanSoFarStep, SentStep, CleanDayStep DEF CleanInv
<1>3. CleanInv => CleanDayIsComplete
  BY DEF CleanInv
<1> QED
  BY <1>1, <1>2, <1>3, TypeCorrect, PTL DEF Spec

-----------------------------------------------------------------------------
(* ----- The segment index.                                                *)

(* The operators of FiniteSets are the same from within an instance.       *)
LEMMA LayerSets ==
  \A S : /\ Layer!IsFiniteSet(S) <=> IsFiniteSet(S)
         /\ Layer!Cardinality(S) = Cardinality(S)
  BY DEF IsFiniteSet, Cardinality, Layer!IsFiniteSet, Layer!Cardinality

(* x is an element of the list.                                            *)
In(x, list) == \E i \in DOMAIN list : list[i] = x

(* As many different members as a set has are all of them.                 *)
LEMMA OneOfEach ==
  ASSUME NEW S, IsFiniteSet(S), NEW q \in [1 .. Cardinality(S) -> S],
         \A i, j \in 1 .. Cardinality(S) : q[i] = q[j] => i = j
  PROVE  \A x \in S : \E i \in 1 .. Cardinality(S) : q[i] = x
<1> DEFINE n == Cardinality(S)
           T == {q[i] : i \in 1 .. n}
<1>1. n \in Nat
  BY FS_CardinalityType
<1>2. q \in Surjection(1 .. n, T) /\ q \in Injection(1 .. n, T)
  BY DEF Surjection, Injection, IsInjective
<1>3. q \in Bijection(1 .. n, T)
  BY <1>2 DEF Bijection
<1>4. T \subseteq S
  OBVIOUS
<1> HIDE DEF T
<1>5. ExistsBijection(1 .. n, T)
  BY <1>3 DEF ExistsBijection
<1>6. IsFiniteSet(T) /\ Cardinality(T) = n
  BY <1>1, <1>4, <1>5, FS_Subset, FS_CountingElements
<1>7. T = S
  <2> HIDE DEF n
  <2>1. Cardinality(T) = Cardinality(S)
    BY <1>6 DEF n
  <2> QED BY <1>4, <2>1, FS_Subset
<1> QED
  BY <1>7 DEF T

(* A set put in a list.                                                    *)
LEMMA ListOfSet ==
  ASSUME NEW S, IsFiniteSet(S)
  PROVE  Layer!SetToSeq(S) \in Seq(S) /\ \A x : In(x, Layer!SetToSeq(S)) <=> x \in S
<1> DEFINE n == Cardinality(S)
           B == {f \in [1 .. n -> S] : Layer!IsInjective(f)}
           q == Layer!SetToSeq(S)
<1>1. n \in Nat
  BY FS_CardinalityType
<1>2. PICK f \in Bijection(1 .. n, S) : TRUE
  <2>1. ExistsBijection(1 .. n, S)
    BY <1>1, FS_CardinalityType
  <2> QED BY <2>1 DEF ExistsBijection
<1>3. f \in B
  BY <1>2 DEF Bijection, Injection, Layer!IsInjective, IsInjective
<1>4. q \in B
  <2>1. q = CHOOSE g \in [1 .. n -> S] : Layer!IsInjective(g)
    BY LayerSets DEF Layer!SetToSeq
  <2> HIDE DEF q, n
  <2> QED BY <1>3, <2>1
<1> HIDE DEF q, B
<1>5. q \in [1 .. n -> S] /\ \A i, j \in 1 .. n : q[i] = q[j] => i = j
  BY <1>4 DEF B, Layer!IsInjective
<1>6. \A x \in S : \E i \in 1 .. n : q[i] = x
  BY <1>5, OneOfEach
<1> HIDE DEF n
<1>7. q \in Seq(S) /\ DOMAIN q = 1 .. n
  BY <1>1, <1>5
<1> QED
  BY <1>5, <1>6, <1>7 DEF q, In

(* Two lists, one after the other.                                         *)
LEMMA Joined ==
  ASSUME NEW X, NEW s \in Seq(X), NEW u \in Seq(X)
  PROVE  s \o u \in Seq(X) /\ \A x : In(x, s \o u) <=> In(x, s) \/ In(x, u)
<1>1. s \o u \in Seq(X) /\ DOMAIN (s \o u) = 1 .. Len(s) + Len(u) /\ Len(s) \in Nat /\ Len(u) \in Nat
      /\ DOMAIN s = 1 .. Len(s) /\ DOMAIN u = 1 .. Len(u)
  OBVIOUS
<1>2. \A i \in DOMAIN s : i \in DOMAIN (s \o u) /\ (s \o u)[i] = s[i]
  BY <1>1
<1>3. \A i \in DOMAIN u : i + Len(s) \in DOMAIN (s \o u) /\ (s \o u)[i + Len(s)] = u[i]
  BY <1>1
<1>4. \A i \in DOMAIN (s \o u) : \/ i \in DOMAIN s
                                 \/ i - Len(s) \in DOMAIN u /\ (s \o u)[i] = u[i - Len(s)]
  BY <1>1
<1> QED
  BY <1>1, <1>2, <1>3, <1>4 DEF In

(* What the vectors have to be: a ticker's text, an anchor, the mean of    *)
(* the seeds, of the model in use.                                         *)
Wanted(key, row) ==
    \/ \E t \in Tickers : /\ text[t] # None /\ key = <<"ticker", t>>
                          /\ row = [model |-> model, of |-> {text[t]}]
    \/ \E k \in DOMAIN Anchors : /\ key = <<"concept", k>>
                                 /\ row = [model |-> model, of |-> {Anchors[k]}]
    \/ \E k \in DOMAIN Seeds : /\ Layer!SeedTexts(k) # {} /\ key = <<"concept", k>>
                               /\ row = [model |-> model, of |-> Layer!SeedTexts(k)]

(* One vector per key.                                                     *)
LEMMA WantedOnce ==
  \A key, x, y : Wanted(key, x) /\ Wanted(key, y) => x = y
  BY ResearchAssumption DEF Wanted, Layer!ConceptsAssumption

(* It is there already, or a write of the build under way brings it.       *)
Pending(list, key) == \E w : In(w, list) /\ w.table = "vectors" /\ w.key = key

(* What the build under way has stored or will store covers what is        *)
(* wanted.                                                                 *)
LayerInv ==
    /\ DOMAIN vectors = Layer!Keys /\ vectors = [key \in DOMAIN vectors |-> vectors[key]]
    /\ \E X : queue \in Seq(X)
    /\ \A i \in DOMAIN queue : /\ queue[i].table = "end" => i = Len(queue)
                               /\ queue[i].table = "vectors" => /\ queue[i].key \in Layer!Keys
                                                                /\ Wanted(queue[i].key, queue[i].row)
    /\ queue # << >> /\ queue[Len(queue)].row = TRUE =>
          \A key, row : Wanted(key, row) => vectors[key] = row \/ Pending(queue, key)
    /\ queue # << >> => /\ ~current /\ queue[Len(queue)].table = "end"
                        /\ queue[Len(queue)].row \in BOOLEAN
    /\ current => \A key, row : Wanted(key, row) => vectors[key] = row

(* The values of a function on a finite set are finitely many.             *)
LEMMA FiniteValues ==
  ASSUME NEW S, IsFiniteSet(S), NEW f, DOMAIN f = S, f = [x \in DOMAIN f |-> f[x]]
  PROVE  IsFiniteSet({f[x] : x \in S})
<1> DEFINE T == {f[x] : x \in S}
<1>1. f \in Surjection(S, T)
  BY DEF Surjection
<1> HIDE DEF T
<1>2. IsFiniteSet(T)
  BY <1>1, FS_Surjection
<1> QED BY <1>2 DEF T

(* The writes of a build are finitely many.                                *)
LEMMA WritesFinite ==
  /\ IsFiniteSet({[table |-> "scalars", key |-> t, row |-> rows[t]] : t \in {t \in Tickers : rows[t] # None}})
  /\ IsFiniteSet(Layer!TickerWrites) /\ IsFiniteSet(Layer!AnchorWrites) /\ IsFiniteSet(Layer!SeedWrites)
<1>1. IsFiniteSet(Tickers) /\ IsFiniteSet(DOMAIN Anchors) /\ IsFiniteSet(DOMAIN Seeds)
  <2>1. Layer!IsFiniteSet(Tickers) /\ Layer!IsFiniteSet(Layer!Concepts)
        /\ DOMAIN Anchors \subseteq Layer!Concepts /\ DOMAIN Seeds \subseteq Layer!Concepts
    BY ResearchAssumption DEF Layer!ConceptsAssumption, Layer!Concepts
  <2> QED BY <2>1, LayerSets, FS_Subset
<1>2. IsFiniteSet({[table |-> "scalars", key |-> t, row |-> rows[t]] : t \in {t \in Tickers : rows[t] # None}})
  <2> DEFINE S == {t \in Tickers : rows[t] # None}
             f == [t \in S |-> [table |-> "scalars", key |-> t, row |-> rows[t]]]
  <2>1. IsFiniteSet(S)
    BY <1>1, FS_Subset
  <2>2. {[table |-> "scalars", key |-> t, row |-> rows[t]] : t \in S} = {f[t] : t \in S}
    OBVIOUS
  <2>0. DOMAIN f = S /\ f = [x \in DOMAIN f |-> f[x]]
    OBVIOUS
  <2> HIDE DEF S, f
  <2>3. IsFiniteSet({f[t] : t \in S})
    BY <2>0, <2>1, FiniteValues
  <2> QED BY <2>2, <2>3 DEF S
<1>3. IsFiniteSet(Layer!TickerWrites)
  <2> DEFINE S == {t \in Tickers : /\ text[t] # None
                                   /\ \/ t \in Layer!SeedTickers
                                      \/ ~Layer!HasFreshVector(<<"ticker", t>>, {text[t]})}
             f == [t \in S |-> [table |-> "vectors", key |-> <<"ticker", t>>,
                                row |-> [model |-> model, of |-> {text[t]}]]]
  <2>1. IsFiniteSet(S)
    BY <1>1, FS_Subset
  <2>2. Layer!TickerWrites = {f[t] : t \in S}
    BY DEF Layer!TickerWrites
  <2>0. DOMAIN f = S /\ f = [x \in DOMAIN f |-> f[x]]
    OBVIOUS
  <2> HIDE DEF S, f
  <2> QED BY <2>0, <2>1, <2>2, FiniteValues
<1>4. IsFiniteSet(Layer!AnchorWrites)
  <2> DEFINE S == {k \in DOMAIN Anchors : ~Layer!HasFreshVector(<<"concept", k>>, {Anchors[k]})}
             f == [k \in S |-> [table |-> "vectors", key |-> <<"concept", k>>,
                                row |-> [model |-> model, of |-> {Anchors[k]}]]]
  <2>1. IsFiniteSet(S)
    BY <1>1, FS_Subset
  <2>2. Layer!AnchorWrites = {f[k] : k \in S}
    BY DEF Layer!AnchorWrites
  <2>0. DOMAIN f = S /\ f = [x \in DOMAIN f |-> f[x]]
    OBVIOUS
  <2> HIDE DEF S, f
  <2> QED BY <2>0, <2>1, <2>2, FiniteValues
<1>5. IsFiniteSet(Layer!SeedWrites)
  <2> DEFINE S == {k \in DOMAIN Seeds : Layer!SeedTexts(k) # {}}
             f == [k \in S |-> [table |-> "vectors", key |-> <<"concept", k>>,
                                row |-> [model |-> model, of |-> Layer!SeedTexts(k)]]]
  <2>1. IsFiniteSet(S)
    BY <1>1, FS_Subset
  <2>2. Layer!SeedWrites = {f[k] : k \in S}
    BY DEF Layer!SeedWrites
  <2>0. DOMAIN f = S /\ f = [x \in DOMAIN f |-> f[x]]
    OBVIOUS
  <2> HIDE DEF S, f
  <2> QED BY <2>0, <2>1, <2>2, FiniteValues
<1> QED
  BY <1>2, <1>3, <1>4, <1>5

(* The writes to the table of vectors are wanted, and what is wanted and   *)
(* not there is among them.                                                *)
LEMMA WritesWanted ==
  ASSUME DOMAIN vectors = Layer!Keys
  PROVE  LET all == Layer!TickerWrites \cup Layer!AnchorWrites \cup Layer!SeedWrites
         IN  /\ \A w \in all : w.table = "vectors" /\ w.key \in Layer!Keys /\ Wanted(w.key, w.row)
             /\ \A key, row : Wanted(key, row) =>
                   vectors[key] = row \/ \E w \in all : w.key = key
<1> DEFINE all == Layer!TickerWrites \cup Layer!AnchorWrites \cup Layer!SeedWrites
<1>1. ASSUME NEW w \in Layer!TickerWrites
      PROVE  w.table = "vectors" /\ w.key \in Layer!Keys /\ Wanted(w.key, w.row)
  <2>1. PICK t \in Tickers : text[t] # None /\ w = [table |-> "vectors", key |-> <<"ticker", t>>,
                                   row |-> [model |-> model, of |-> {text[t]}]]
    BY DEF Layer!TickerWrites
  <2>2. w.table = "vectors" /\ w.key = <<"ticker", t>> /\ w.row = [model |-> model, of |-> {text[t]}]
    BY <2>1
  <2> QED BY <2>1, <2>2 DEF Layer!Keys, Wanted
<1>2. ASSUME NEW w \in Layer!AnchorWrites
      PROVE  w.table = "vectors" /\ w.key \in Layer!Keys /\ Wanted(w.key, w.row)
  <2>1. PICK k \in DOMAIN Anchors : w = [table |-> "vectors", key |-> <<"concept", k>>,
                                         row |-> [model |-> model, of |-> {Anchors[k]}]]
    BY DEF Layer!AnchorWrites
  <2>2. w.table = "vectors" /\ w.key = <<"concept", k>> /\ w.row = [model |-> model, of |-> {Anchors[k]}]
    BY <2>1
  <2> QED BY <2>2 DEF Layer!Keys, Layer!Concepts, Wanted
<1>3. ASSUME NEW w \in Layer!SeedWrites
      PROVE  w.table = "vectors" /\ w.key \in Layer!Keys /\ Wanted(w.key, w.row)
  <2>1. PICK k \in DOMAIN Seeds : Layer!SeedTexts(k) # {} /\ w = [table |-> "vectors", key |-> <<"concept", k>>,
                                         row |-> [model |-> model, of |-> Layer!SeedTexts(k)]]
    BY DEF Layer!SeedWrites
  <2>2. w.table = "vectors" /\ w.key = <<"concept", k>> /\ w.row = [model |-> model, of |-> Layer!SeedTexts(k)]
    BY <2>1
  <2> QED BY <2>1, <2>2 DEF Layer!Keys, Layer!Concepts, Wanted
<1>4. ASSUME NEW key, NEW row, Wanted(key, row), vectors[key] # row
      PROVE  \E w \in all : w.key = key
  <2>1. ASSUME NEW t \in Tickers, text[t] # None, key = <<"ticker", t>>, row = [model |-> model, of |-> {text[t]}]
        PROVE  \E w \in all : w.key = key
    <3>1. ~Layer!HasFreshVector(<<"ticker", t>>, {text[t]})
      BY <1>4, <2>1 DEF Layer!HasFreshVector
    <3>2. [table |-> "vectors", key |-> <<"ticker", t>>, row |-> [model |-> model, of |-> {text[t]}]] \in Layer!TickerWrites
      BY <2>1, <3>1 DEF Layer!TickerWrites
    <3> QED BY <2>1, <3>2
  <2>2. ASSUME NEW k \in DOMAIN Anchors, key = <<"concept", k>>, row = [model |-> model, of |-> {Anchors[k]}]
        PROVE  \E w \in all : w.key = key
    <3>1. ~Layer!HasFreshVector(<<"concept", k>>, {Anchors[k]})
      BY <1>4, <2>2 DEF Layer!HasFreshVector
    <3>2. [table |-> "vectors", key |-> <<"concept", k>>, row |-> [model |-> model, of |-> {Anchors[k]}]] \in Layer!AnchorWrites
      BY <2>2, <3>1 DEF Layer!AnchorWrites
    <3> QED BY <2>2, <3>2
  <2>3. ASSUME NEW k \in DOMAIN Seeds, Layer!SeedTexts(k) # {}, key = <<"concept", k>>
        PROVE  \E w \in all : w.key = key
    <3>1. [table |-> "vectors", key |-> <<"concept", k>>, row |-> [model |-> model, of |-> Layer!SeedTexts(k)]] \in Layer!SeedWrites
      BY <2>3 DEF Layer!SeedWrites
    <3> QED BY <2>3, <3>1
  <2> HIDE DEF all
  <2> QED BY <1>4, <2>1, <2>2, <2>3 DEF Wanted
<1> QED
  BY <1>1, <1>2, <1>3, <1>4

(* A build starts: its queue has every write that is due, and its end.     *)
LEMMA BuildStarts ==
  ASSUME LayerInv, NEW embedded \in BOOLEAN, Layer!StartBuild(embedded)
  PROVE  LayerInv'
<1> DEFINE S1 == {[table |-> "scalars", key |-> t, row |-> rows[t]] : t \in {t \in Tickers : rows[t] # None}}
           S2 == Layer!TickerWrites
           S3 == Layer!AnchorWrites
           S4 == Layer!SeedWrites
           end == [table |-> "end", key |-> None, row |-> embedded]
           A == Layer!SetToSeq(S1)
           B == Layer!SetToSeq(S2)
           C == Layer!SetToSeq(S3)
           D == Layer!SetToSeq(S4)
           mid == IF embedded THEN B \o C \o D ELSE << >>
           X == S1 \cup S2 \cup S3 \cup S4 \cup {end}
           q == queue'
<1>1. DOMAIN vectors = Layer!Keys /\ vectors = [key \in DOMAIN vectors |-> vectors[key]]
  BY DEF LayerInv
<1>2. /\ \A w \in S2 \cup S3 \cup S4 : w.table = "vectors" /\ w.key \in Layer!Keys /\ Wanted(w.key, w.row)
      /\ \A key, row : Wanted(key, row) =>
            vectors[key] = row \/ \E w \in S2 \cup S3 \cup S4 : w.key = key
  BY <1>1, WritesWanted
<1>3. /\ \A w \in S1 : w.table = "scalars"
      /\ end.table = "end" /\ end.row = embedded
  OBVIOUS
<1>4. q = A \o mid \o <<end>>
  BY DEF Layer!StartBuild, Layer!ScalarWrites
<1>5. /\ vectors' = vectors /\ ~current' /\ \A key, row : Wanted(key, row)' <=> Wanted(key, row)
  BY DEF Layer!StartBuild, Wanted, Layer!SeedTexts
<1>6. /\ A \in Seq(S1) /\ B \in Seq(S2) /\ C \in Seq(S3) /\ D \in Seq(S4)
      /\ \A x : /\ In(x, A) <=> x \in S1
                /\ In(x, B) <=> x \in S2
                /\ In(x, C) <=> x \in S3
                /\ In(x, D) <=> x \in S4
  <2> HIDE DEF S2, S3, S4
  <2>1. IsFiniteSet(S1) /\ IsFiniteSet(S2) /\ IsFiniteSet(S3) /\ IsFiniteSet(S4)
    BY WritesFinite DEF S2, S3, S4
  <2> HIDE DEF S1
  <2> QED BY <2>1, ListOfSet
<1> HIDE DEF S1, S2, S3, S4, end, A, B, C, D, q
<1>7. A \in Seq(X) /\ B \in Seq(X) /\ C \in Seq(X) /\ D \in Seq(X) /\ end \in X /\ <<end>> \in Seq(X)
  BY <1>6
<1> HIDE DEF X
<1>8. /\ mid \in Seq(X) /\ \A x : In(x, mid) => x \in S2 \cup S3 \cup S4
      /\ embedded => \A x \in S2 \cup S3 \cup S4 : In(x, mid)
  <2>1. CASE embedded
    <3>1. B \o C \in Seq(X) /\ \A x : In(x, B \o C) <=> In(x, B) \/ In(x, C)
      BY <1>7, Joined
    <3>2. (B \o C) \o D \in Seq(X) /\ \A x : In(x, (B \o C) \o D) <=> In(x, B \o C) \/ In(x, D)
      BY <1>7, <3>1, Joined
    <3>3. mid = (B \o C) \o D
      BY <2>1
    <3> HIDE DEF mid
    <3> QED BY <1>6, <3>1, <3>2, <3>3
  <2>2. CASE ~embedded
    <3>1. mid = << >> /\ << >> \in Seq(X) /\ DOMAIN << >> = {}
      BY <2>2
    <3> HIDE DEF mid
    <3> QED BY <2>2, <3>1 DEF In
  <2> QED BY <2>1, <2>2
<1> HIDE DEF mid
<1>9. /\ A \o mid \in Seq(X) /\ q \in Seq(X) /\ q # << >> /\ q[Len(q)] = end /\ Len(q) \in DOMAIN q
      /\ \A i \in DOMAIN q : i = Len(q) \/ (i \in DOMAIN (A \o mid) /\ q[i] = (A \o mid)[i])
      /\ \A i \in DOMAIN (A \o mid) : i \in DOMAIN q /\ q[i] = (A \o mid)[i]
      /\ \A x : In(x, A \o mid) <=> In(x, A) \/ In(x, mid)
  <2> DEFINE z == A \o mid
  <2>1. z \in Seq(X) /\ \A x : In(x, z) <=> In(x, A) \/ In(x, mid)
    BY <1>7, <1>8, Joined
  <2>2. q = z \o <<end>>
    BY <1>4
  <2> HIDE DEF z
  <2>3. /\ q \in Seq(X) /\ q # << >> /\ q[Len(q)] = end /\ Len(q) \in DOMAIN q
        /\ \A i \in DOMAIN q : i = Len(q) \/ (i \in DOMAIN z /\ q[i] = z[i])
        /\ \A i \in DOMAIN z : i \in DOMAIN q /\ q[i] = z[i]
    BY <1>7, <2>1, <2>2
  <2> QED BY <2>1, <2>3 DEF z
<1>10. \A i \in DOMAIN q : /\ q[i].table = "end" => i = Len(q)
                           /\ q[i].table = "vectors" => q[i].key \in Layer!Keys /\ Wanted(q[i].key, q[i].row)
  <2> SUFFICES ASSUME NEW i \in DOMAIN q
               PROVE  /\ q[i].table = "end" => i = Len(q)
                      /\ q[i].table = "vectors" => q[i].key \in Layer!Keys /\ Wanted(q[i].key, q[i].row)
    OBVIOUS
  <2>1. CASE i = Len(q)
    BY <1>3, <1>9, <2>1
  <2>2. CASE i # Len(q)
    <3>1. In(q[i], A \o mid)
      BY <1>9, <2>2 DEF In
    <3>2. q[i] \in S1 \/ q[i] \in S2 \cup S3 \cup S4
      BY <1>6, <1>8, <1>9, <3>1
    <3> QED BY <1>2, <1>3, <3>2
  <2> QED BY <2>1, <2>2
<1>11. ASSUME embedded, NEW key, NEW row, Wanted(key, row), vectors[key] # row
       PROVE  Pending(q, key)
  <2>1. PICK w \in S2 \cup S3 \cup S4 : w.key = key
    BY <1>2, <1>11
  <2>2. In(w, q) /\ w.table = "vectors"
    <3>1. In(w, A \o mid)
      BY <1>8, <1>9, <1>11
    <3> QED BY <1>2, <1>9, <3>1 DEF In
  <2> QED BY <2>1, <2>2 DEF Pending
<1>12. q[Len(q)].row = embedded /\ q[Len(q)].table = "end"
  BY <1>3, <1>9
<1> QED
  BY <1>1, <1>5, <1>9, <1>10, <1>11, <1>12 DEF LayerInv, q, Pending, In

(* One write: its row is the one wanted, and the others stay pending.      *)
LEMMA BuildWrites ==
  ASSUME LayerInv, Layer!Write
  PROVE  LayerInv'
<1> DEFINE w == Head(queue)
           q == queue'
           n == Len(queue)
           new == vectors'
           cur == current'
<1>1. /\ DOMAIN vectors = Layer!Keys /\ vectors = [key \in DOMAIN vectors |-> vectors[key]]
      /\ \A i \in DOMAIN queue : /\ queue[i].table = "end" => i = n
                                 /\ queue[i].table = "vectors" => /\ queue[i].key \in Layer!Keys
                                                                  /\ Wanted(queue[i].key, queue[i].row)
      /\ queue[n].row = TRUE => \A key, row : Wanted(key, row) => vectors[key] = row \/ Pending(queue, key)
      /\ ~current /\ queue[n].table = "end" /\ queue[n].row \in BOOLEAN
  BY DEF LayerInv, Layer!Write
<1>2. PICK X : queue \in Seq(X) /\ queue # << >>
  BY DEF LayerInv, Layer!Write
<1>3. /\ n \in Nat /\ n # 0 /\ DOMAIN queue = 1 .. n /\ w = queue[1] /\ 1 \in DOMAIN queue
      /\ q = Tail(queue) /\ q \in Seq(X) /\ Len(q) = n - 1 /\ DOMAIN q = 1 .. n - 1
      /\ \A i \in 1 .. n - 1 : q[i] = queue[i + 1] /\ i + 1 \in DOMAIN queue
  BY <1>2 DEF Layer!Write
<1>4. /\ new = IF w.table = "vectors" THEN [vectors EXCEPT ![w.key] = w.row] ELSE vectors
      /\ cur = (w.table = "end" /\ w.row)
      /\ \A key, row : Wanted(key, row)' <=> Wanted(key, row)
  BY DEF Layer!Write, Wanted, Layer!SeedTexts
<1> HIDE DEF w, q, n, new, cur
<1>5. DOMAIN new = Layer!Keys /\ new = [key \in DOMAIN new |-> new[key]]
  BY <1>1, <1>4
<1>6. \A key, row : Wanted(key, row) /\ vectors[key] = row => new[key] = row
  <2> SUFFICES ASSUME NEW key, NEW row, Wanted(key, row), vectors[key] = row PROVE new[key] = row
    OBVIOUS
  <2>1. CASE w.table = "vectors"
    <3>1. w.key \in Layer!Keys /\ Wanted(w.key, w.row)
      BY <1>1, <1>3, <2>1
    <3>2. w.key = key => w.row = row
      BY <3>1, WantedOnce
    <3>3. new = [vectors EXCEPT ![w.key] = w.row]
      BY <1>4, <2>1
    <3> QED BY <1>1, <3>1, <3>2, <3>3
  <2> QED BY <1>4, <2>1
<1>7. \A key, row : Wanted(key, row) /\ Pending(queue, key) => new[key] = row \/ Pending(q, key)
  <2> SUFFICES ASSUME NEW key, NEW row, Wanted(key, row), Pending(queue, key)
               PROVE  new[key] = row \/ Pending(q, key)
    OBVIOUS
  <2>1. PICK i \in DOMAIN queue : queue[i].table = "vectors" /\ queue[i].key = key
    BY DEF Pending, In
  <2>2. CASE i = 1
    <3>1. w.table = "vectors" /\ w.key = key /\ w.key \in Layer!Keys /\ Wanted(w.key, w.row)
      BY <1>1, <1>3, <2>1, <2>2
    <3>2. w.row = row
      BY <3>1, WantedOnce
    <3>3. new = [vectors EXCEPT ![w.key] = w.row]
      BY <1>4, <3>1
    <3> QED BY <1>1, <3>1, <3>2, <3>3
  <2>3. CASE i # 1
    <3>1. i - 1 \in 1 .. n - 1 /\ q[i - 1] = queue[i]
      BY <1>3, <2>3
    <3> QED BY <1>3, <2>1, <3>1 DEF Pending, In
  <2> QED BY <2>2, <2>3
<1>8. q # << >> => n # 1 /\ Len(q) = n - 1 /\ n - 1 \in 1 .. n - 1 /\ q[Len(q)] = queue[n]
  BY <1>3
<1>9. \A i \in DOMAIN q : /\ q[i].table = "end" => i = Len(q)
                          /\ q[i].table = "vectors" => q[i].key \in Layer!Keys /\ Wanted(q[i].key, q[i].row)
  BY <1>1, <1>3
<1>10. q # << >> => ~cur
  BY <1>1, <1>3, <1>4, <1>8
<1>11. q # << >> /\ q[Len(q)].row = TRUE =>
          \A key, row : Wanted(key, row) => new[key] = row \/ Pending(q, key)
  BY <1>1, <1>6, <1>7, <1>8
<1>12. cur => \A key, row : Wanted(key, row) => new[key] = row
  <2> SUFFICES ASSUME cur, NEW key, NEW row, Wanted(key, row) PROVE new[key] = row
    OBVIOUS
  <2>1. n = 1 /\ queue[n].row = TRUE
    BY <1>1, <1>3, <1>4
  <2>2. ~Pending(q, key)
    BY <1>3, <2>1 DEF Pending, In
  <2> QED BY <1>1, <1>6, <1>7, <2>1, <2>2
<1>13. q # << >> => q[Len(q)].table = "end" /\ q[Len(q)].row \in BOOLEAN
  BY <1>1, <1>8
<1> QED
  <2>1. \E Y : queue' \in Seq(Y)
    BY <1>3 DEF q
  <2> QED BY <1>4, <1>5, <1>9, <1>10, <1>11, <1>12, <1>13, <2>1 DEF LayerInv, q, new, cur, Pending, In

(* The invariant at the start, and under every step.                       *)
LEMMA LayerInvInit == Layer!Init => LayerInv
<1> SUFFICES ASSUME Layer!Init PROVE LayerInv
  OBVIOUS
<1>1. DOMAIN vectors = Layer!Keys /\ vectors = [key \in DOMAIN vectors |-> vectors[key]]
      /\ queue = << >> /\ ~current
  BY DEF Layer!Init
<1>2. queue \in Seq({}) /\ DOMAIN queue = {}
  BY <1>1
<1> QED BY <1>1, <1>2 DEF LayerInv

(* Every step of the build, of the registry and of the texts keeps it.     *)
LEMMA LayerInvStep ==
  focus = "layer" /\ LayerInv /\ [ResearchNext]_researchVars => LayerInv' /\ focus' = "layer"
<1> SUFFICES ASSUME focus = "layer", LayerInv, [ResearchNext]_researchVars PROVE LayerInv' /\ focus' = "layer"
  OBVIOUS
<1>1. focus' = "layer" /\ (Layer!Next \/ UNCHANGED layerVars)
  BY DEF ResearchNext, researchVars
<1> SUFFICES LayerInv'
  BY <1>1
<1>2. CASE UNCHANGED <<model, text, vectors, queue, current>>
  <2>1. /\ vectors' = vectors /\ queue' = queue /\ current' = current
        /\ \A key, row : Wanted(key, row)' <=> Wanted(key, row)
    BY <1>2 DEF Wanted, Layer!SeedTexts
  <2>2. \A key : Pending(queue, key)' <=> Pending(queue, key)
    BY <2>1 DEF Pending, In
  <2> QED BY <2>1, <2>2 DEF LayerInv
<1>3. CASE Layer!Change
  <2>1. queue = << >> /\ queue' = << >> /\ vectors' = vectors /\ ~current'
    BY <1>3 DEF Layer!Change
  <2>2. << >> \in Seq({}) /\ DOMAIN << >> = {}
    OBVIOUS
  <2>3. DOMAIN vectors = Layer!Keys /\ vectors = [key \in DOMAIN vectors |-> vectors[key]]
    BY DEF LayerInv
  <2> QED BY <2>1, <2>2, <2>3 DEF LayerInv
<1>4. ASSUME NEW embedded \in BOOLEAN, Layer!StartBuild(embedded) PROVE LayerInv'
  BY <1>4, BuildStarts
<1>5. CASE Layer!Write
  BY <1>5, BuildWrites
<1>6. CASE Layer!Die
  <2>1. queue # << >> /\ queue' = << >> /\ vectors' = vectors /\ current' = current
    BY <1>6 DEF Layer!Die
  <2>2. << >> \in Seq({}) /\ DOMAIN << >> = {}
    OBVIOUS
  <2>3. /\ DOMAIN vectors = Layer!Keys /\ vectors = [key \in DOMAIN vectors |-> vectors[key]]
        /\ ~current
    BY <2>1 DEF LayerInv
  <2>4. ~current'
    BY <2>1, <2>3, Zenon
  <2> QED BY <2>1, <2>2, <2>3, <2>4 DEF LayerInv
<1>7. CASE Layer!Forget \/ (\E t \in Tickers, p \in Policies : Layer!Resolve(t, p))
  BY <1>2, <1>7 DEF Layer!Resolve, Layer!Forget
<1>8. CASE Layer!Next
  BY <1>3, <1>4, <1>5, <1>6, <1>7, <1>8 DEF Layer!Next
<1>9. CASE UNCHANGED layerVars
  BY <1>2, <1>9 DEF layerVars
<1> QED
  BY <1>1, <1>8, <1>9

(* A behaviour keeps to the component it began with.                       *)
LEMMA OtherFocus ==
  ASSUME [ResearchNext]_researchVars PROVE focus' = focus
  BY DEF ResearchNext, researchVars

(* So it holds as long as the index is looked at.                          *)
LEMMA LayerInvAlways == ResearchSpec => [](focus = "layer" => LayerInv)
<1>1. ResearchInit => (focus = "layer" => LayerInv)
  BY LayerInvInit DEF ResearchInit
<1>2. (focus = "layer" => LayerInv) /\ [ResearchNext]_researchVars => (focus = "layer" => LayerInv)'
  BY LayerInvStep, OtherFocus
<1> QED
  BY <1>1, <1>2, PTL DEF ResearchSpec

(* An index build that ended whole leaves nothing stale (build.py): until  *)
(* the texts, the universe or the model change, every ticker with a text   *)
(* and every concept has the vector of today's text under the model in     *)
(* use, whatever killed builds, failed batches and other models left.      *)
THEOREM IndexIsCurrentAlways == ResearchSpec => []IndexIsCurrent
<1>1. (focus = "layer" => LayerInv) => IndexIsCurrent
  <2> SUFFICES ASSUME LayerInv, current PROVE Layer!IndexIsCurrent
    BY DEF IndexIsCurrent, Layer!IndexIsCurrent
  <2>1. \A key, row : Wanted(key, row) => vectors[key] = row
    BY DEF LayerInv
  <2> QED BY <2>1 DEF Wanted, Layer!IndexIsCurrent
<1> QED
  BY <1>1, LayerInvAlways, PTL

-----------------------------------------------------------------------------
(* ----- The figures of a company.                                         *)

(* What a snapshot says of a year, against one report.                     *)
FiguresOf(y, figures, book) ==
    \A k \in 1 .. 3 :
        /\ figures[k].fiscal = y - 3 + k
        /\ figures[k].amount # None =>
              /\ figures[k].amount.of = figures[k].fiscal
              /\ Figures!Contains(book, figures[k].amount.row)
              /\ figures[k].amount.row.id \/ \A r \in Figures!ToSet(book) :
                                                r.sj = figures[k].amount.row.sj => ~r.id

(* ... and against all that is filed.                                      *)
Sound(y, figures, on) ==
    /\ y \in DOMAIN reports
    /\ \E book \in Figures!ToSet(reports[y]) : FiguresOf(y, figures, book)
    /\ (y + 1) * YearDays + Deadline <= on
    /\ on < (y + 2) * YearDays + Deadline

(* A payload of the schema of today says nothing else.                     *)
Payload(p) ==
    \E y, figures, on, got :
        /\ p = [schema |-> 4, year |-> y, figures |-> figures, on |-> on, signals |-> got]
        /\ Sound(y, figures, on)

(* The reports so far, and every payload on its way from the request       *)
(* through the cache to a verdict, say what was filed for their year.      *)
FiguresInv ==
    /\ now \in Nat
    /\ \A y \in DOMAIN reports : reports[y] \in Seq(Seq(Figures!Row)) \ {<< >>}
    /\ file = None \/ file.schema # 4 \/ Sound(file.year, file.figures, file.on)
    /\ at \in {"signals", "write", "fill"} => Payload(draft)
    /\ used # None => Sound(used.year, used.figures, used.on)

(* The row an account is found in is one of the statement, by id if there  *)
(* is one.                                                                 *)
LEMMA PickedRow ==
  ASSUME NEW book \in Seq(Figures!Row), NEW sj, Figures!Pick(book, sj) # << >>
  PROVE  \E i \in DOMAIN book :
            /\ Figures!Pick(book, sj) = <<book[i]>> /\ book[i].sj = sj
            /\ book[i].id \/ \A j \in DOMAIN book : book[j].sj = sj => ~book[j].id
<1> DEFINE ids   == {i \in DOMAIN book : book[i].sj = sj /\ book[i].id}
           names == {i \in DOMAIN book : book[i].sj = sj /\ book[i].name}
           found == IF ids # {} THEN ids ELSE names
           L == Len(book)
           f == [v \in 1 .. L |-> L - v]
           m == CHOOSE i \in found : \A j \in found : i <= j
<1>1. Figures!Pick(book, sj) = IF found = {} THEN << >> ELSE <<book[m]>>
  BY DEF Figures!Pick
<1>2. L \in Nat /\ DOMAIN book = 1 .. L /\ found \subseteq 1 .. L
  OBVIOUS
<1>3. found # {}
  BY <1>1
<1>4. m \in found
  <2>1. \A v \in found : f[v] \in Nat /\ f[v] = L - v /\ v \in Nat
    <3> HIDE DEF found, L
    <3> QED BY <1>2
  <2> HIDE DEF f, found, L
  <2>2. PICK x \in found : \A y \in found : f[y] <= f[x]
    BY <1>2, <1>3, <2>1, ArgMaxExists
  <2>3. \A y \in found : x <= y
    BY <1>2, <2>1, <2>2
  <2> QED BY <2>3
<1>5. \A i \in found : book[i].sj = sj /\ (book[i].id \/ ids = {})
  OBVIOUS
<1>6. ids = {} => \A j \in DOMAIN book : book[j].sj = sj => ~book[j].id
  OBVIOUS
<1> HIDE DEF m, found, ids, names, L
<1> QED
  BY <1>1, <1>2, <1>3, <1>4, <1>5, <1>6

(* The report that is due.                                                 *)
LEMMA DueYear ==
  ASSUME NEW d \in Nat
  PROVE  LET y == Figures!BsnsYear(d)
         IN  /\ (y + 1) * YearDays + Deadline <= d
             /\ d < (y + 2) * YearDays + Deadline
             /\ y \in Int
<1> DEFINE n == YearDays
           q == d \div n
           r == d % n
           y == Figures!BsnsYear(d)
<1>1. n \in Nat \ {0} /\ Deadline \in Nat /\ Deadline <= n
  BY ResearchAssumption DEF Figures!FiguresAssumption
<1>2. y = IF r < Deadline THEN q - 2 ELSE q - 1
  BY DEF Figures!BsnsYear, Figures!Year
<1> HIDE DEF n, y
<1>3. q \in Nat /\ r \in Nat /\ r < n /\ d = n * q + r
  BY <1>1
<1> HIDE DEF q, r
<1>4. (q - 1) * n = n * q - n /\ q * n = n * q /\ (q + 1) * n = n * q + n /\ n * q \in Nat
  BY <1>1, <1>3
<1> DEFINE u == n * q
<1>5. CASE r < Deadline
  <2>1. y + 1 = q - 1 /\ y + 2 = q /\ y \in Int
    BY <1>2, <1>3, <1>5
  <2>2. (y + 1) * n = u - n /\ (y + 2) * n = u
    BY <1>4, <2>1
  <2>3. u \in Nat /\ d = u + r
    BY <1>3, <1>4
  <2> HIDE DEF u
  <2>4. (y + 1) * n + Deadline <= d /\ d < (y + 2) * n + Deadline
    BY <1>1, <1>3, <1>5, <2>2, <2>3
  <2> QED BY <2>1, <2>4 DEF n, y
<1>6. CASE ~(r < Deadline)
  <2>1. y + 1 = q /\ y + 2 = q + 1 /\ y \in Int
    BY <1>2, <1>3, <1>6
  <2>2. (y + 1) * n = u /\ (y + 2) * n = u + n
    BY <1>4, <2>1
  <2>3. u \in Nat /\ d = u + r
    BY <1>3, <1>4
  <2> HIDE DEF u
  <2>4. (y + 1) * n + Deadline <= d /\ d < (y + 2) * n + Deadline
    BY <1>1, <1>3, <1>6, <2>2, <2>3
  <2> QED BY <2>1, <2>4 DEF n, y
<1> QED
  BY <1>5, <1>6

(* The filings a report yields are those of its year: each figure is in a  *)
(* row of the report, of the statement found, by id if one has it.         *)
LEMMA FilingsSound ==
  ASSUME NEW d \in Nat, Figures!BsnsYear(d) \in DOMAIN reports,
         \A x \in DOMAIN reports : reports[x] \in Seq(Seq(Figures!Row)) \ {<< >>}
  PROVE  LET y == Figures!BsnsYear(d)
         IN  Sound(y, Figures!BuildFilings(Figures!Last(reports[y]), y), d)
<1> DEFINE y == Figures!BsnsYear(d)
           book == Figures!Last(reports[y])
           is == Figures!Pick(book, "IS")
           cis == Figures!Pick(book, "CIS")
           found == is \o cis
           g == Figures!BuildFilings(book, y)
<1>1. book \in Seq(Figures!Row) /\ book \in Figures!ToSet(reports[y])
  <2>1. reports[y] \in Seq(Seq(Figures!Row)) /\ reports[y] # << >>
    OBVIOUS
  <2>2. book = reports[y][Len(reports[y])] /\ Len(reports[y]) \in DOMAIN reports[y]
    BY <2>1 DEF Figures!Last
  <2> QED BY <2>1, <2>2 DEF Figures!ToSet
<1>2. (y + 1) * YearDays + Deadline <= d /\ d < (y + 2) * YearDays + Deadline /\ y \in Int
  BY DueYear
<1>3. g = [k \in 1 .. 3 |-> [fiscal |-> Figures!Label(k, y),
                             amount |-> IF found = << >> THEN None ELSE Figures!Extract(found[1], y)[k]]]
  BY DEF Figures!BuildFilings
<1>4. y \in DOMAIN reports
  OBVIOUS
<1> HIDE DEF y, g
<1>5. found # << >> =>
        \E sj : \E i \in DOMAIN book :
          /\ found[1] = book[i] /\ book[i].sj = sj
          /\ book[i].id \/ \A j \in DOMAIN book : book[j].sj = sj => ~book[j].id
  <2> HIDE DEF book, is, cis, found
  <2>1. is = << >> \/ \E i \in DOMAIN book :
            /\ is = <<book[i]>> /\ book[i].sj = "IS"
            /\ book[i].id \/ \A j \in DOMAIN book : book[j].sj = "IS" => ~book[j].id
    BY <1>1, PickedRow DEF is
  <2>2. cis = << >> \/ \E i \in DOMAIN book :
            /\ cis = <<book[i]>> /\ book[i].sj = "CIS"
            /\ book[i].id \/ \A j \in DOMAIN book : book[j].sj = "CIS" => ~book[j].id
    BY <1>1, PickedRow DEF cis
  <2>3. CASE is = << >> /\ cis = << >>
    BY <2>3 DEF found
  <2>4. CASE is = << >> /\ cis # << >>
    <3>1. PICK i \in DOMAIN book :
            /\ cis = <<book[i]>> /\ book[i].sj = "CIS"
            /\ book[i].id \/ \A j \in DOMAIN book : book[j].sj = "CIS" => ~book[j].id
      BY <2>2, <2>4
    <3>2. found = << >> \o <<book[i]>>
      BY <2>4, <3>1 DEF found
    <3>3. found[1] = book[i]
      BY <3>2
    <3> QED BY <3>1, <3>3
  <2>5. CASE is # << >>
    <3>1. PICK i \in DOMAIN book :
            /\ is = <<book[i]>> /\ book[i].sj = "IS"
            /\ book[i].id \/ \A j \in DOMAIN book : book[j].sj = "IS" => ~book[j].id
      BY <2>1, <2>5
    <3>2. cis = << >> \/ \E r : cis = <<r>>
      BY <2>2
    <3>3. found[1] = book[i]
      BY <3>1, <3>2 DEF found
    <3> QED BY <3>1, <3>3
  <2> QED BY <2>3, <2>4, <2>5
<1>6. SUFFICES ASSUME NEW k \in 1 .. 3
      PROVE  /\ g[k].fiscal = y - 3 + k
             /\ g[k].amount # None =>
                  /\ g[k].amount.of = g[k].fiscal
                  /\ Figures!Contains(book, g[k].amount.row)
                  /\ g[k].amount.row.id \/ \A r \in Figures!ToSet(book) :
                                              r.sj = g[k].amount.row.sj => ~r.id
  <2>1. FiguresOf(y, g, book) => Sound(y, g, d)
    BY <1>1, <1>2, <1>4 DEF Sound
  <2> QED BY <2>1 DEF FiguresOf, y, g
<1>7. g[k].fiscal = y - 3 + k
  BY <1>3 DEF Figures!Label
<1> SUFFICES ASSUME g[k].amount # None
             PROVE  /\ g[k].amount.of = g[k].fiscal
                    /\ Figures!Contains(book, g[k].amount.row)
                    /\ g[k].amount.row.id \/ \A r \in Figures!ToSet(book) :
                                                r.sj = g[k].amount.row.sj => ~r.id
  BY <1>7
<1> HIDE DEF found
<1>8. found # << >> /\ g[k].amount = Figures!Extract(found[1], y)[k]
  BY <1>3
<1>9. g[k].amount = [of |-> y - 3 + k, row |-> found[1]]
  BY <1>8 DEF Figures!Extract
<1>10. PICK i \in DOMAIN book :
          /\ found[1] = book[i]
          /\ book[i].id \/ \A j \in DOMAIN book : book[j].sj = book[i].sj => ~book[j].id
  BY <1>5, <1>8
<1>11. g[k].amount.of = g[k].fiscal /\ g[k].amount.row = book[i]
  BY <1>7, <1>9, <1>10
<1>12. DOMAIN book = 1 .. Len(book)
  BY <1>1
<1> QED
  BY <1>10, <1>11, <1>12 DEF Figures!Contains, Figures!ToSet

(* A report more, and those before are still there.                        *)
LEMMA AppendGrows ==
  ASSUME NEW T, NEW s \in Seq(T), NEW e \in T
  PROVE  /\ Append(s, e) \in Seq(T) /\ Append(s, e) # << >>
         /\ Figures!ToSet(s) \subseteq Figures!ToSet(Append(s, e))
<1> DEFINE n == Append(s, e)
<1>1. n \in Seq(T) /\ Len(n) = Len(s) + 1 /\ \A i \in 1 .. Len(s) : n[i] = s[i]
  OBVIOUS
<1>2. Len(s) \in Nat /\ DOMAIN s = 1 .. Len(s) /\ DOMAIN n = 1 .. Len(n)
  BY <1>1
<1>3. n # << >>
  BY <1>1, <1>2
<1> HIDE DEF n
<1> QED
  BY <1>1, <1>2, <1>3 DEF Figures!ToSet, n

(* What is filed stays filed, even when it is corrected: no statement made *)
(* of it becomes wrong.                                                    *)
LEMMA FiledStays ==
  ASSUME \A y \in DOMAIN reports :
            /\ y \in DOMAIN reports'
            /\ Figures!ToSet(reports[y]) \subseteq Figures!ToSet(reports'[y])
  PROVE  \A y, figures, on : Sound(y, figures, on) => Sound(y, figures, on)'
<1> SUFFICES ASSUME NEW y, NEW figures, NEW on, Sound(y, figures, on) PROVE Sound(y, figures, on)'
  OBVIOUS
<1>1. y \in DOMAIN reports' /\ Figures!ToSet(reports[y]) \subseteq Figures!ToSet(reports'[y])
  BY DEF Sound
<1> QED
  BY <1>1 DEF Sound, FiguresOf

(* Nothing is filed at first, and an old file is of another schema.        *)
LEMMA FiguresInvInit == Figures!Init => FiguresInv
<1> SUFFICES ASSUME Figures!Init PROVE FiguresInv
  OBVIOUS
<1>1. now \in Nat /\ reports = << >> /\ at = "idle" /\ used = None /\ (file = None \/ file.schema # 4)
  BY ResearchAssumption DEF Figures!Init, Figures!FiguresAssumption
<1>2. DOMAIN reports = {}
  BY <1>1
<1> QED
  BY <1>1, <1>2 DEF FiguresInv

(* Every filing, request, write, rename and death keeps it.                *)
LEMMA FiguresInvStep ==
  focus = "figures" /\ FiguresInv /\ [ResearchNext]_researchVars => FiguresInv' /\ focus' = "figures"
<1> SUFFICES ASSUME focus = "figures", FiguresInv, [ResearchNext]_researchVars
             PROVE  FiguresInv' /\ focus' = "figures"
  OBVIOUS
<1>1. focus' = "figures" /\ (Figures!Next \/ UNCHANGED figureVars)
  BY DEF ResearchNext, researchVars
<1> SUFFICES FiguresInv'
  BY <1>1
<1> USE DEF FiguresInv
<1>2. reports' = reports => \A y, figures, on : Sound(y, figures, on) => Sound(y, figures, on)'
  BY FiledStays
<1>3. reports' = reports => \A p : Payload(p) => Payload(p)'
  BY <1>2 DEF Payload
<1>4. CASE Figures!NewDay
  <2>1. /\ now' \in Nat /\ reports' = reports /\ file' = file /\ at' = "idle" /\ used' = None
    BY <1>4 DEF Figures!NewDay
  <2> QED BY <1>2, <2>1
<1>5. ASSUME NEW y, NEW book \in Books, Figures!FileReport(y, book) PROVE FiguresInv'
  <2>1. /\ at' = "idle" /\ used' = None /\ now' = now /\ file' = file
        /\ reports' = [x \in DOMAIN reports \cup {y} |->
                         IF x = y THEN Append(Figures!Filed(y), book) ELSE reports[x]]
    BY <1>5 DEF Figures!FileReport
  <2> DEFINE old == Figures!Filed(y)
             new == Append(old, book)
  <2>2. old \in Seq(Seq(Figures!Row)) /\ (y \in DOMAIN reports => old = reports[y])
    BY DEF Figures!Filed
  <2>3. book \in Seq(Figures!Row)
    BY ResearchAssumption DEF Figures!FiguresAssumption
  <2>6. /\ new \in Seq(Seq(Figures!Row)) /\ new # << >>
        /\ Figures!ToSet(old) \subseteq Figures!ToSet(new)
    BY <2>2, <2>3, AppendGrows
  <2>7. \A x \in DOMAIN reports :
           /\ x \in DOMAIN reports'
           /\ Figures!ToSet(reports[x]) \subseteq Figures!ToSet(reports'[x])
    <3> HIDE DEF old, new
    <3>1. \A x \in DOMAIN reports : x \in DOMAIN reports'
      BY <2>1
    <3>2. \A x \in DOMAIN reports : x # y => reports'[x] = reports[x]
      BY <2>1
    <3>3. y \in DOMAIN reports => reports'[y] = new
      BY <2>1 DEF old, new
    <3> QED BY <2>2, <2>6, <3>1, <3>2, <3>3
  <2>4. \A x \in DOMAIN reports' : reports'[x] \in Seq(Seq(Figures!Row)) \ {<< >>}
    <3> HIDE DEF old, new
    <3>1. \A x \in DOMAIN reports' : reports'[x] = (IF x = y THEN new ELSE reports[x])
                                     /\ (x = y \/ x \in DOMAIN reports)
      BY <2>1 DEF old, new
    <3> QED BY <2>6, <3>1
  <2>5. \A x, figures, on : Sound(x, figures, on) => Sound(x, figures, on)'
    BY <2>7, FiledStays
  <2> QED BY <2>1, <2>4, <2>5
<1>6. CASE Figures!UseCache
  <2>1. /\ file # None /\ file.schema = 4 /\ at' = "idle"
        /\ now' = now /\ reports' = reports /\ file' = file
        /\ used' = [year |-> file.year, figures |-> file.figures, on |-> file.on,
                    signals |-> {s \in file.signals : Figures!Visible(s)}]
    BY <1>6 DEF Figures!UseCache, Figures!Readable
  <2>2. Sound(file.year, file.figures, file.on)
    BY <2>1
  <2>3. used'.year = file.year /\ used'.figures = file.figures /\ used'.on = file.on
    BY <2>1
  <2>4. Sound(file.year, file.figures, file.on)'
    BY <1>2, <2>1, <2>2
  <2>5. Sound(used.year, used.figures, used.on)'
    BY <2>1, <2>3, <2>4
  <2> QED BY <2>1, <2>4, <2>5
<1>7. CASE Figures!FetchFilings
  <2> DEFINE y == Figures!BsnsYear(now)
             g == Figures!BuildFilings(Figures!Last(reports[y]), y)
  <2>1. /\ y \in DOMAIN reports /\ at' = "signals"
        /\ draft' = [schema |-> 4, year |-> y, figures |-> g, on |-> now, signals |-> {}]
        /\ now' = now /\ reports' = reports /\ file' = file /\ used' = used
    BY <1>7 DEF Figures!FetchFilings
  <2>2. Sound(y, g, now)
    BY <2>1, FilingsSound
  <2> HIDE DEF y, g
  <2>3. Payload(draft')
    BY <2>1, <2>2 DEF Payload
  <2>4. Payload(draft)'
    BY <1>3, <2>1, <2>3
  <2> QED BY <1>2, <2>1, <2>4
<1>8. CASE Figures!FetchSignals
  <2>1. PICK got :
        /\ draft' = [draft EXCEPT !.signals = Figures!OldSignals \cup got]
        /\ at = "signals" /\ at' = "write"
        /\ now' = now /\ reports' = reports /\ file' = file /\ used' = used
    BY <1>8 DEF Figures!FetchSignals
  <2>2. PICK y, figures, on, old :
        /\ draft = [schema |-> 4, year |-> y, figures |-> figures, on |-> on, signals |-> old]
        /\ Sound(y, figures, on)
    BY <2>1 DEF Payload
  <2> DEFINE all == Figures!OldSignals \cup got
  <2>3. draft' = [draft EXCEPT !.signals = all]
    BY <2>1
  <2> HIDE DEF all
  <2>4. draft' = [schema |-> 4, year |-> y, figures |-> figures, on |-> on, signals |-> all]
    BY <2>2, <2>3
  <2>5. Payload(draft')
    BY <2>2, <2>4 DEF Payload
  <2>6. Payload(draft)'
    BY <1>3, <2>1, <2>5
  <2> QED BY <1>2, <2>1, <2>6
<1>9. CASE Figures!OpenTmp
  <2>1. /\ at = "write" /\ at' = "fill" /\ draft' = draft
        /\ now' = now /\ reports' = reports /\ file' = file /\ used' = used
    BY <1>9 DEF Figures!OpenTmp
  <2>2. Payload(draft)'
    BY <1>3, <2>1
  <2> QED BY <1>2, <2>1, <2>2
<1>10. CASE Figures!Rename
  <2>1. /\ at = "fill" /\ at' = "look" /\ file' = draft
        /\ now' = now /\ reports' = reports /\ used' = used
    BY <1>10 DEF Figures!Rename
  <2>2. PICK y, figures, on, got :
        /\ draft = [schema |-> 4, year |-> y, figures |-> figures, on |-> on, signals |-> got]
        /\ Sound(y, figures, on)
    BY <2>1 DEF Payload
  <2>3. file'.year = y /\ file'.figures = figures /\ file'.on = on
    BY <2>1, <2>2
  <2>4. Sound(file.year, file.figures, file.on)'
    BY <1>2, <2>1, <2>2, <2>3
  <2> QED BY <1>2, <2>1, <2>4
<1>11. CASE /\ at' \notin {"signals", "write", "fill"}
            /\ UNCHANGED <<now, reports, file, used>>
  BY <1>2, <1>11
<1>12. CASE Figures!GoPublic \/ (\E kind \in SignalKinds : Figures!FileSignal(kind))
            \/ Figures!StartBatch \/ Figures!LoadIndex \/ Figures!Unknown \/ Figures!Die
  <2>1. /\ at' \notin {"signals", "write", "fill"}
        /\ UNCHANGED <<now, reports, file, used>>
    BY <1>12 DEF Figures!GoPublic, Figures!FileSignal, Figures!StartBatch, Figures!LoadIndex,
                 Figures!Unknown, Figures!Die
  <2> QED BY <1>11, <2>1
<1>13. CASE UNCHANGED figureVars
  <2>1. UNCHANGED <<now, reports, file, used, at, draft>>
    BY <1>13 DEF figureVars
  <2> QED BY <1>2, <1>3, <2>1
<1> QED
  BY <1>1, <1>4, <1>5, <1>6, <1>7, <1>8, <1>9, <1>10, <1>12, <1>13 DEF Figures!Next

(* The figure a verdict takes for a year is the one reported for that year *)
(* (dart_adapter.py, _extract_3y and build_filings), all of them in one    *)
(* report filed for it, though one may have corrected that since; the year *)
(* was due when it was fetched and no later one was, whatever batches died *)
(* between the request and the rename.                                     *)
THEOREM FiguresAreOfTheirYearAlways == ResearchSpec => []FiguresAreOfTheirYear
<1>1. ResearchInit => (focus = "figures" => FiguresInv)
  BY FiguresInvInit DEF ResearchInit
<1>2. (focus = "figures" => FiguresInv) /\ [ResearchNext]_researchVars => (focus = "figures" => FiguresInv)'
  BY FiguresInvStep, OtherFocus
<1>3. (focus = "figures" => FiguresInv) => FiguresAreOfTheirYear
  <2> SUFFICES ASSUME FiguresInv, used # None PROVE Figures!FiguresAreOfTheirYear
    BY DEF FiguresAreOfTheirYear, Figures!FiguresAreOfTheirYear
  <2>1. Sound(used.year, used.figures, used.on)
    BY DEF FiguresInv
  <2> QED BY <2>1 DEF Sound, FiguresOf, Figures!FiguresAreOfTheirYear
<1> QED
  BY <1>1, <1>2, <1>3, PTL DEF ResearchSpec

-----------------------------------------------------------------------------
(* ----- The days of universe and catalyst.                                *)

(* The operators of FiniteSets are the same from within an instance.       *)
LEMMA StagesSets ==
  \A S : Stages!Cardinality(S) = Cardinality(S)
  BY DEF Cardinality, Stages!Cardinality

(* The last and the first of some days.                                    *)
LEMMA ChosenDay ==
  ASSUME NEW L \in Nat, NEW S \in SUBSET (0 .. L), S # {}
  PROVE  /\ Stages!Latest(S) \in S /\ \A e \in S : e <= Stages!Latest(S)
         /\ Stages!Soonest(S) \in S /\ \A e \in S : e >= Stages!Soonest(S)
<1>1. \E d \in S : \A e \in S : e <= d
  BY BoundedExtremes
<1>2. \E d \in S : \A e \in S : e >= d
  <2>1. PICK d \in S : \A e \in S : d <= e
    BY BoundedExtremes
  <2>2. \A e \in S : e >= d
    BY <2>1
  <2> QED BY <2>2
<1> QED
  BY <1>1, <1>2 DEF Stages!Latest, Stages!Soonest

(* The sessions that are returned are the last ones.                       *)
LEMMA SessionsAreLast ==
  ASSUME day \in Nat
  PROVE  /\ Stages!Sessions \subseteq (1 .. day) \ holidays
         /\ \A s \in Stages!Sessions, d \in (1 .. day) \ holidays : s <= d => d \in Stages!Sessions
<1> DEFINE open == (1 .. day) \ holidays
           later(d) == {e \in open : e > d}
<1>1. Stages!Sessions = {d \in open : Cardinality(later(d)) < Rows}
  BY StagesSets DEF Stages!Sessions
<1>2. SUFFICES ASSUME NEW s \in open, Cardinality(later(s)) < Rows, NEW d \in open, s <= d
               PROVE  Cardinality(later(d)) < Rows
  BY <1>1
<1>3. IsFiniteSet(later(s))
  <2>1. later(s) \in SUBSET (1 .. day)
    OBVIOUS
  <2>2. IsFiniteSet(1 .. day)
    BY FS_Interval
  <2> HIDE DEF later
  <2> QED BY <2>1, <2>2, FS_Subset
<1>4. later(d) \subseteq later(s)
  <2>1. \A e \in open : e > d => e > s
    BY <1>2
  <2> QED BY <2>1
<1>5. /\ Cardinality(later(d)) <= Cardinality(later(s))
      /\ Cardinality(later(d)) \in Nat /\ Cardinality(later(s)) \in Nat
  <2> HIDE DEF later
  <2> QED BY <1>3, <1>4, FS_Subset, FS_CardinalityType
<1>6. Rows \in Nat
  BY ResearchAssumption DEF Stages!DiscoveryAssumption
<1> HIDE DEF later
<1> QED
  BY <1>2, <1>5, <1>6

(* The two sessions around the day of a filing have one between them.      *)
LEMMA AroundStraddles ==
  ASSUME day \in Nat, NEW d \in Nat, None \notin {Stages!Around(d)[1], Stages!Around(d)[2]}
  PROVE  LET from == Stages!Around(d)[1]
             to   == Stages!Around(d)[2]
         IN  /\ from < d /\ d < to
             /\ Cardinality({s \in 1 .. day : d <= s /\ s < to /\ s \notin holidays}) = 1
<1> DEFINE S == Stages!Sessions
           i == Stages!Anchor(d)
           A == Stages!Around(d)
           from == A[1]
           to == A[2]
<1>1. /\ S \subseteq (1 .. day) \ holidays
      /\ \A s \in S, e \in (1 .. day) \ holidays : s <= e => e \in S
  BY SessionsAreLast
<1>2. A = IF i = None THEN <<None, None>>
          ELSE <<IF Stages!Before(i) = {} THEN None ELSE Stages!Latest(Stages!Before(i)),
                 IF Stages!After(i) = {} THEN None ELSE Stages!Soonest(Stages!After(i))>>
  BY DEF Stages!Around
<1>3. i = IF d \in S THEN d ELSE IF Stages!After(d) = {} THEN None ELSE Stages!Soonest(Stages!After(d))
  BY DEF Stages!Anchor
<1>4. \A x : /\ Stages!Before(x) = {s \in S : s < x} /\ Stages!After(x) = {s \in S : s > x}
  BY DEF Stages!Before, Stages!After
<1> HIDE DEF S, i, A
<1>5. i # None /\ Stages!Before(i) # {} /\ Stages!After(i) # {}
  BY <1>2 DEF A
<1>6. from = Stages!Latest(Stages!Before(i)) /\ to = Stages!Soonest(Stages!After(i))
  BY <1>2, <1>5
<1>7. \A x : Stages!Before(x) \in SUBSET (0 .. day) /\ Stages!After(x) \in SUBSET (0 .. day)
  <2>1. S \subseteq 0 .. day
    BY <1>1
  <2> QED BY <1>4, <2>1
<1>8. from \in S /\ from < i
  BY <1>4, <1>5, <1>6, <1>7, ChosenDay
<1>9. to \in S /\ to > i /\ \A s \in S : s > i => to <= s
  <2>1. to \in Stages!After(i) /\ \A e \in Stages!After(i) : e >= to
    BY <1>5, <1>6, <1>7, ChosenDay
  <2> QED BY <1>1, <1>4, <2>1
<1>10. i \in S /\ d <= i /\ \A s \in S : d <= s /\ s < i => FALSE
  <2>1. CASE d \in S
    <3>1. i = d
      BY <1>3, <2>1
    <3>2. S \subseteq Nat
      BY <1>1
    <3> QED BY <2>1, <3>1, <3>2
  <2>2. CASE d \notin S
    <3>1. Stages!After(d) # {} /\ i = Stages!Soonest(Stages!After(d))
      BY <1>3, <1>5, <2>2
    <3>2. i \in Stages!After(d) /\ \A e \in Stages!After(d) : e >= i
      BY <1>7, <3>1, ChosenDay
    <3>3. S \subseteq Nat
      BY <1>1
    <3>4. \A s \in S : d <= s => s \in Stages!After(d)
      <4>1. \A s \in S : d <= s => s > d
        BY <2>2, <3>3
      <4> QED BY <1>4, <4>1
    <3>5. i \in S /\ d < i
      BY <1>4, <3>2, <3>3
    <3> QED BY <3>2, <3>3, <3>4, <3>5
  <2> QED BY <2>1, <2>2
<1>11. from \in Nat /\ to \in Nat /\ i \in Nat /\ i \in (1 .. day) \ holidays
  <2>1. i \in (1 .. day) \ holidays
    BY <1>1, <1>10
  <2>2. S \subseteq Nat
    BY <1>1
  <2> QED BY <1>8, <1>9, <1>10, <2>1, <2>2
<1>12. from < d /\ d < to
  BY <1>8, <1>9, <1>10, <1>11
<1>13. {s \in 1 .. day : d <= s /\ s < to /\ s \notin holidays} = {i}
  <2>1. i \in {s \in 1 .. day : d <= s /\ s < to /\ s \notin holidays}
    BY <1>9, <1>10, <1>11
  <2>2. ASSUME NEW s \in 1 .. day, d <= s, s < to, s \notin holidays PROVE s = i
    <3>1. s \in S
      BY <1>1, <1>8, <1>11, <1>12, <2>2
    <3>2. ~(s < i) /\ ~(s > i)
      BY <1>9, <1>10, <1>11, <2>2, <3>1
    <3> QED BY <1>11, <3>2
  <2> QED BY <2>1, <2>2
<1>14. Cardinality({i}) = 1
  BY FS_Singleton
<1> HIDE DEF from, to
<1> QED
  BY <1>12, <1>13, <1>14 DEF from, to, A

(* What a parent's premium is at given capitalisations.                    *)
PremiumAt(p, q) ==
    LET Sum[S \in SUBSET DOMAIN Subsidiaries[p]] ==
          IF S = {} THEN 0
          ELSE LET c == CHOOSE c \in S : TRUE
               IN  (q[c] * Subsidiaries[p][c]) \div 100 + Sum[S \ {c}]
    IN  Stages!Premium(q[p], Sum[DOMAIN Subsidiaries[p]])

(* The true premium of a day is that of its market.                        *)
LEMMA TrueAt ==
  \A p, d : Stages!TruePremium(p, d) = PremiumAt(p, market[d])
  BY DEF Stages!TruePremium, PremiumAt

(* A day that is over keeps its premium.                                   *)
LEMMA TrueLater ==
  ASSUME NEW p, NEW d, market'[d] = market[d]
  PROVE  Stages!TruePremium(p, d)' = Stages!TruePremium(p, d)
<1>1. Stages!TruePremium(p, d)' = PremiumAt(p, market'[d])
  BY DEF Stages!TruePremium, PremiumAt
<1> QED
  BY <1>1, TrueAt

(* A line made of the whole sum on its own day has that day's premium.     *)
LEMMA SnapshotTrue ==
  ASSUME NEW p, NEW came, Stages!Whole(p, Stages!Snapshot(p, came))
  PROVE  Stages!Snapshot(p, came).premium = Stages!TruePremium(p, day)
<1>1. came = DOMAIN Subsidiaries[p] /\ date = day
  BY DEF Stages!Whole, Stages!Snapshot
<1>2. Stages!NavOf(p, DOMAIN Subsidiaries[p]) =
        LET Sum[S \in SUBSET DOMAIN Subsidiaries[p]] ==
              IF S = {} THEN 0
              ELSE LET c == CHOOSE c \in S : TRUE
                   IN  (market[day][c] * Subsidiaries[p][c]) \div 100 + Sum[S \ {c}]
        IN  Sum[DOMAIN Subsidiaries[p]]
  BY DEF Stages!NavOf, Stages!Owned, Stages!MarketCap
<1>3. Stages!TruePremium(p, day) = Stages!Premium(market[day][p], Stages!NavOf(p, DOMAIN Subsidiaries[p]))
  BY <1>2 DEF Stages!TruePremium
<1> QED
  BY <1>1, <1>3 DEF Stages!Snapshot, Stages!MarketCap

(* The lines of a parent's history are of days that have been, one a day,  *)
(* and one of a whole sum made on its day has the premium of that day.     *)
History(p) ==
    /\ \E X : nav[p] \in Seq(X)
    /\ \A k \in DOMAIN nav[p] :
          /\ nav[p][k].date \in 1 .. day
          /\ Stages!Whole(p, nav[p][k]) =>
                nav[p][k].premium = Stages!TruePremium(p, nav[p][k].date)
          /\ \A j \in DOMAIN nav[p] : nav[p][j].date = nav[p][k].date => j = k

(* Days have a market, runs are made for days that have been, and the      *)
(* histories are as above.                                                 *)
StagesInv ==
    /\ day \in Nat /\ 1 .. day \subseteq DOMAIN market
    /\ date = None \/ date \in 1 .. day
    /\ nav = [p \in Stages!Parents |-> nav[p]]
    /\ \A p \in Stages!Parents : History(p)
    /\ Stages!NarrowingIsTrue
    /\ Stages!PanicStraddlesFiling

(* The two lines that a narrowing compares.                                *)
LEMMA RecentLines ==
  ASSUME day \in Nat, NEW p, History(p), Cardinality(Stages!Recent(p)) >= 2
  PROVE  \E j, k \in DOMAIN nav[p] :
            /\ Stages!Earliest(p) = nav[p][j] /\ Stages!Newest(p) = nav[p][k]
            /\ nav[p][j].date < nav[p][k].date
            /\ nav[p][k].date <= nav[p][j].date + Lookback
<1> DEFINE R == Stages!Recent(p)
           lines == nav[p]
           at_(k) == lines[k].date
           T == {at_(k) : k \in DOMAIN lines}
           D == {at_(k) : k \in R}
           L == Len(lines)
<1>1. \A k \in DOMAIN lines : /\ at_(k) \in 1 .. day
                              /\ \A j \in DOMAIN lines : at_(j) = at_(k) => j = k
  BY DEF History
<1>2. R \subseteq DOMAIN lines /\ \A k \in R : at_(k) + Lookback >= Stages!Latest(T)
  BY DEF Stages!Recent, Stages!Dates
<1>3. DOMAIN lines = 1 .. L /\ L \in Nat
  BY DEF History
<1>4. PICK a, b \in R : a # b
  <2>1. SUFFICES ASSUME \A a, b \in R : a = b PROVE FALSE
    OBVIOUS
  <2>2. Cardinality(R) >= 2
    OBVIOUS
  <2> HIDE DEF R
  <2>3. CASE R = {}
    BY <2>2, <2>3, FS_EmptySet
  <2>4. CASE R # {}
    <3>1. PICK a : R = {a}
      BY <2>1, <2>4
    <3> QED BY <2>2, <3>1, FS_Singleton
  <2> QED BY <2>3, <2>4
<1>5. D # {} /\ D \in SUBSET (0 .. day) /\ T # {} /\ T \in SUBSET (0 .. day) /\ D \subseteq T
  <2>1. \A k \in DOMAIN lines : at_(k) \in 0 .. day
    BY <1>1
  <2> HIDE DEF R, at_, lines
  <2> QED BY <1>2, <1>4, <2>1
<1>6. PICK lo \in D : \A e \in D : lo <= e
  <2> HIDE DEF D
  <2> QED BY <1>5, BoundedExtremes
<1>7. PICK hi \in D : \A e \in D : e <= hi
  <2> HIDE DEF D
  <2> QED BY <1>5, BoundedExtremes
<1>8. PICK j \in R : at_(j) = lo
  OBVIOUS
<1>9. PICK k \in R : at_(k) = hi
  OBVIOUS
<1>10. \A i \in R : /\ at_(i) \in Nat /\ lo <= at_(i) /\ at_(i) <= hi
                    /\ (at_(i) = at_(j) => i = j) /\ (at_(i) = at_(k) => i = k)
  <2> HIDE DEF at_, lines, R
  <2> QED BY <1>1, <1>2, <1>6, <1>7, <1>8, <1>9
<1>11. lo \in Nat /\ hi \in Nat /\ \A i \in R : i \in Nat
  <2> HIDE DEF at_, lines, R
  <2> QED BY <1>2, <1>3, <1>8, <1>9, <1>10
<1>12. Stages!Earliest(p) = lines[CHOOSE x \in R : \A i \in R : \/ at_(x) < at_(i)
                                                                \/ at_(x) = at_(i) /\ x <= i]
  BY DEF Stages!Earliest
<1>13. Stages!Newest(p) = lines[CHOOSE x \in R : \A i \in R : \/ at_(x) > at_(i)
                                                              \/ at_(x) = at_(i) /\ x >= i]
  BY DEF Stages!Newest
<1> HIDE DEF R
<1>14. \A i \in R : at_(j) < at_(i) \/ (at_(j) = at_(i) /\ j <= i)
  <2> HIDE DEF at_, lines
  <2> QED BY <1>8, <1>10, <1>11
<1>15. \A i \in R : at_(k) > at_(i) \/ (at_(k) = at_(i) /\ k >= i)
  <2> HIDE DEF at_, lines
  <2> QED BY <1>9, <1>10, <1>11
<1>16. PICK x \in R : Stages!Earliest(p) = lines[x] /\ at_(x) = lo
  <2> DEFINE x == CHOOSE x \in R : \A i \in R : at_(x) < at_(i) \/ (at_(x) = at_(i) /\ x <= i)
  <2>1. x \in R /\ \A i \in R : at_(x) < at_(i) \/ (at_(x) = at_(i) /\ x <= i)
    BY <1>14
  <2>2. Stages!Earliest(p) = lines[x]
    BY <1>12
  <2> HIDE DEF x, at_, lines
  <2>3. at_(x) = lo
    BY <1>8, <1>10, <1>11, <2>1
  <2> QED BY <2>1, <2>2, <2>3
<1>17. PICK y \in R : Stages!Newest(p) = lines[y] /\ at_(y) = hi
  <2> DEFINE y == CHOOSE y \in R : \A i \in R : at_(y) > at_(i) \/ (at_(y) = at_(i) /\ y >= i)
  <2>1. y \in R /\ \A i \in R : at_(y) > at_(i) \/ (at_(y) = at_(i) /\ y >= i)
    BY <1>15
  <2>2. Stages!Newest(p) = lines[y]
    BY <1>13
  <2> HIDE DEF y, at_, lines
  <2>3. at_(y) = hi
    BY <1>9, <1>10, <1>11, <2>1
  <2> QED BY <2>1, <2>2, <2>3
<1>18. lo < hi
  <2>1. at_(a) # at_(b)
    <3> HIDE DEF at_, lines
    <3> QED BY <1>1, <1>2, <1>4
  <2>2. at_(a) \in Nat /\ at_(b) \in Nat
    BY <1>4, <1>10
  <2> HIDE DEF at_, lines
  <2> QED BY <1>4, <1>10, <1>11, <2>1, <2>2
<1>19. hi <= lo + Lookback
  <2>1. at_(x) + Lookback >= Stages!Latest(T)
    BY <1>2, <1>16
  <2>2. Stages!Latest(T) \in T /\ \A e \in T : e <= Stages!Latest(T)
    <3> HIDE DEF T
    <3> QED BY <1>5, ChosenDay
  <2>3. hi <= Stages!Latest(T) /\ Stages!Latest(T) \in Nat
    <3>1. hi \in T
      <4> HIDE DEF T, D
      <4> QED BY <1>5, <1>7
    <3>2. T \subseteq Nat
      <4> HIDE DEF T, D
      <4> QED BY <1>5
    <3> HIDE DEF T, D
    <3> QED BY <2>2, <3>1, <3>2
  <2>4. Lookback \in Nat
    BY ResearchAssumption DEF Stages!DiscoveryAssumption
  <2>5. at_(x) = lo
    BY <1>16
  <2> HIDE DEF at_, lines, T
  <2> QED BY <1>11, <2>1, <2>3, <2>4, <2>5
<1> QED
  BY <1>2, <1>16, <1>17, <1>18, <1>19

(* A scan's candidates of the two kinds.                                   *)
LEMMA ScanIsTrue ==
  ASSUME StagesInv, Stages!ScanCatalysts
  PROVE  Stages!NarrowingIsTrue' /\ Stages!PanicStraddlesFiling'
<1>1. /\ day \in Nat /\ (date = None \/ date \in 1 .. day)
      /\ \A p \in Stages!Parents : History(p)
  BY DEF StagesInv
<1>2. PICK got \in SUBSET {f \in Archive : f.day <= day}, quoted \in SUBSET {f.ticker : f \in Archive} :
        \A c \in scan'.candidates :
            c.event \in Stages!TreasuryEvents(got) \cup Stages!SpinOffMergerEvents(got)
                          \cup Stages!ActivistEvents(got) \cup Stages!IndexEvents(got)
                          \cup Stages!PanicEvents(got, quoted) \cup Stages!NarrowingEvents
  BY DEF Stages!ScanCatalysts, Stages!Primary
<1>3. /\ day' = day /\ holidays' = holidays /\ market' = market /\ nav' = nav
  BY DEF Stages!ScanCatalysts
<1>4. SUFFICES ASSUME NEW e \in Stages!Candidates'
      PROVE  /\ e.kind = "nav_narrowing" /\ Stages!Whole(e.ticker, e.from) /\ Stages!Whole(e.ticker, e.to) =>
                  /\ e.from.date < e.to.date /\ e.to.date <= e.from.date + Lookback
                  /\ Stages!TruePremium(e.ticker, e.to.date)' - Stages!TruePremium(e.ticker, e.from.date)'
                        >= Narrowing
             /\ e.kind = "earnings_panic" =>
                  /\ e.from < e.of.day /\ e.of.day < e.to
                  /\ Cardinality({s \in 1 .. day : e.of.day <= s /\ s < e.to /\ s \notin holidays}) = 1
  BY <1>3, StagesSets DEF Stages!NarrowingIsTrue, Stages!PanicStraddlesFiling, Stages!Whole
<1>5. \/ e \in Stages!TreasuryEvents(got) \cup Stages!SpinOffMergerEvents(got)
                 \cup Stages!ActivistEvents(got) \cup Stages!IndexEvents(got)
      \/ e \in Stages!PanicEvents(got, quoted)
      \/ e \in Stages!NarrowingEvents
  <2>1. PICK c \in scan'.candidates : e = c.event
    BY <1>4 DEF Stages!Candidates
  <2> QED BY <1>2, <2>1
<1>6. CASE e \in Stages!TreasuryEvents(got) \cup Stages!SpinOffMergerEvents(got)
                   \cup Stages!ActivistEvents(got) \cup Stages!IndexEvents(got)
  <2>1. e.kind \in {"treasury", "spin_off", "merger", "activist", "index_deletion"}
    BY <1>6 DEF Stages!TreasuryEvents, Stages!SpinOffMergerEvents, Stages!ActivistEvents,
                Stages!IndexEvents, Stages!Event
  <2> QED BY <2>1
<1>7. CASE e \in Stages!PanicEvents(got, quoted)
  <2> DEFINE mk(f) == [Stages!Event(f, "earnings_panic", "b") EXCEPT !.from = Stages!Around(f.day)[1],
                                                                     !.to = Stages!Around(f.day)[2]]
             G == {f \in got :
                     /\ f.ty \in {"I", "E"} /\ "earnings" \in f.names /\ f.ticker \in Stages!InUniverse \cap quoted
                     /\ None \notin {Stages!Around(f.day)[1], Stages!Around(f.day)[2]}
                     /\ Stages!RoundDiv(10000 * market[Stages!Around(f.day)[2]][f.ticker],
                                        market[Stages!Around(f.day)[1]][f.ticker]) <= 10000 - Panic}
  <2>1. Stages!PanicEvents(got, quoted) = {mk(f) : f \in G}
    BY DEF Stages!PanicEvents
  <2>2. \A f \in G : f \in got /\ None \notin {Stages!Around(f.day)[1], Stages!Around(f.day)[2]}
    OBVIOUS
  <2>3. PICK f \in got :
          /\ e = [Stages!Event(f, "earnings_panic", "b") EXCEPT !.from = Stages!Around(f.day)[1],
                                                                !.to = Stages!Around(f.day)[2]]
          /\ None \notin {Stages!Around(f.day)[1], Stages!Around(f.day)[2]}
    <3>1. PICK f \in G : e = mk(f)
      <4> HIDE DEF G, mk
      <4> QED BY <1>7, <2>1
    <3> HIDE DEF G
    <3> QED BY <2>2, <3>1
  <2> HIDE DEF G, mk
  <2>4. /\ e.kind = "earnings_panic" /\ e.of = f
        /\ e.from = Stages!Around(f.day)[1] /\ e.to = Stages!Around(f.day)[2]
    BY <2>3 DEF Stages!Event
  <2>5. f.day \in Nat
    BY ResearchAssumption DEF Stages!DiscoveryAssumption
  <2>6. /\ e.from < f.day /\ f.day < e.to
        /\ Cardinality({s \in 1 .. day : f.day <= s /\ s < e.to /\ s \notin holidays}) = 1
    BY <1>1, <2>3, <2>4, <2>5, AroundStraddles
  <2> QED BY <2>4, <2>6
<1>8. CASE e \in Stages!NarrowingEvents
  <2>1. PICK p \in Stages!Parents :
          /\ e = [kind |-> "nav_narrowing", class |-> "a", ticker |-> p, of |-> None,
                  from |-> Stages!Earliest(p), to |-> Stages!Newest(p)]
          /\ Stages!Cardinality(Stages!Recent(p)) >= 2
          /\ Stages!Newest(p).premium - Stages!Earliest(p).premium >= Narrowing
    BY <1>8 DEF Stages!NarrowingEvents, Stages!Rise
  <2>2. PICK j, k \in DOMAIN nav[p] :
            /\ Stages!Earliest(p) = nav[p][j] /\ Stages!Newest(p) = nav[p][k]
            /\ nav[p][j].date < nav[p][k].date
            /\ nav[p][k].date <= nav[p][j].date + Lookback
    BY <1>1, <2>1, StagesSets, RecentLines
  <2>3. e.kind = "nav_narrowing" /\ e.ticker = p /\ e.from = nav[p][j] /\ e.to = nav[p][k]
    BY <2>1, <2>2
  <2> SUFFICES ASSUME Stages!Whole(p, nav[p][j]), Stages!Whole(p, nav[p][k])
               PROVE  Stages!TruePremium(p, nav[p][k].date)' - Stages!TruePremium(p, nav[p][j].date)'
                        >= Narrowing
    <3>1. nav[p][k].date' = nav[p][k].date /\ nav[p][j].date' = nav[p][j].date
      BY <1>3
    <3> QED BY <1>3, <2>2, <2>3, <3>1
  <2>4. /\ nav[p][j].premium = Stages!TruePremium(p, nav[p][j].date)
        /\ nav[p][k].premium = Stages!TruePremium(p, nav[p][k].date)
    BY <1>1 DEF History
  <2>5. \A d : Stages!TruePremium(p, d)' = Stages!TruePremium(p, d)
    BY <1>3, TrueLater
  <2> QED BY <1>3, <2>1, <2>2, <2>4, <2>5
<1> QED
  BY <1>5, <1>6, <1>7, <1>8

(* The invariant at the start, and under every step.                       *)
LEMMA StagesInvInit == Stages!Init => StagesInv
<1> SUFFICES ASSUME Stages!Init PROVE StagesInv
  OBVIOUS
<1>1. /\ day = 1 /\ DOMAIN market = {1} /\ date = None /\ scan = None
      /\ nav = [p \in Stages!Parents |-> << >>]
  BY DEF Stages!Init
<1>2. day \in Nat /\ 1 .. day \subseteq DOMAIN market
  BY <1>1
<1>3. Stages!Candidates = {}
  BY <1>1 DEF Stages!Candidates
<1>4. ASSUME NEW p \in Stages!Parents PROVE History(p)
  <2>1. nav[p] = << >> /\ << >> \in Seq({}) /\ DOMAIN << >> = {}
    BY <1>1
  <2> QED BY <2>1 DEF History
<1>5. nav = [p \in Stages!Parents |-> nav[p]]
  BY <1>1
<1>6. Stages!NarrowingIsTrue /\ Stages!PanicStraddlesFiling
  BY <1>3 DEF Stages!NarrowingIsTrue, Stages!PanicStraddlesFiling
<1> QED
  BY <1>1, <1>2, <1>4, <1>5, <1>6 DEF StagesInv

(* A history stays one while the market goes on.                           *)
LEMMA HistoryStays ==
  ASSUME NEW p, History(p), day \in Nat, day' \in Nat, day <= day', nav'[p] = nav[p],
         \A d \in 1 .. day : market'[d] = market[d]
  PROVE  History(p)'
<1>1. ASSUME NEW k \in DOMAIN nav[p], Stages!Whole(p, nav[p][k])
      PROVE  nav[p][k].premium = Stages!TruePremium(p, nav[p][k].date)'
  <2> DEFINE d == nav[p][k].date
  <2>1. d \in 1 .. day /\ nav[p][k].premium = Stages!TruePremium(p, d)
    BY <1>1 DEF History
  <2>2. market'[d] = market[d]
    BY <2>1
  <2>3. Stages!TruePremium(p, d)' = PremiumAt(p, market'[d'])
    BY DEF Stages!TruePremium, PremiumAt
  <2>4. PremiumAt(p, market[d]) = Stages!TruePremium(p, d)
    BY TrueAt
  <2> QED BY <2>1, <2>2, <2>3, <2>4
<1>2. PICK X : nav[p] \in Seq(X)
  BY DEF History
<1>3. \A k \in DOMAIN nav[p] : nav[p][k].date \in 1 .. day'
  BY DEF History
<1>4. /\ \E Y : nav'[p] \in Seq(Y)
      /\ \A k \in DOMAIN nav'[p] :
          /\ nav'[p][k].date \in 1 .. day'
          /\ Stages!Whole(p, nav'[p][k]) =>
                nav'[p][k].premium = Stages!TruePremium(p, nav[p][k].date)'
          /\ \A j \in DOMAIN nav'[p] : nav'[p][j].date = nav'[p][k].date => j = k
  BY <1>1, <1>2, <1>3 DEF History
<1> QED
  BY <1>4 DEF History, Stages!Whole

(* What the candidates say stays true while scan and its day stay.         *)
LEMMA CandidatesStay ==
  ASSUME StagesInv, UNCHANGED <<day, holidays, market>>, scan' = scan \/ scan' = None
  PROVE  Stages!NarrowingIsTrue' /\ Stages!PanicStraddlesFiling'
<1>1. \A e \in Stages!Candidates' : e \in Stages!Candidates
  BY DEF Stages!Candidates
<1>2. \A p, d : Stages!TruePremium(p, d)' = Stages!TruePremium(p, d)
  BY TrueLater
<1>3. Stages!NarrowingIsTrue'
  <2> SUFFICES ASSUME NEW e \in Stages!Candidates', e.kind = "nav_narrowing",
                      Stages!Whole(e.ticker, e.from), Stages!Whole(e.ticker, e.to)
               PROVE  /\ e.from.date < e.to.date /\ e.to.date <= e.from.date + Lookback
                      /\ Stages!TruePremium(e.ticker, e.to.date)' - Stages!TruePremium(e.ticker, e.from.date)'
                            >= Narrowing
    BY DEF Stages!NarrowingIsTrue, Stages!Whole
  <2> QED BY <1>1, <1>2 DEF StagesInv, Stages!NarrowingIsTrue
<1>4. Stages!PanicStraddlesFiling'
  BY <1>1 DEF StagesInv, Stages!PanicStraddlesFiling
<1> QED
  BY <1>3, <1>4

(* A day's line is appended once.                                          *)
LEMMA EnrichKeeps ==
  ASSUME StagesInv, NEW p \in Stages!Parents, Stages!Enrich(p)
  PROVE  nav' = [x \in Stages!Parents |-> nav'[x]] /\ \A x \in Stages!Parents : History(x)'
<1>1. /\ day \in Nat /\ date \in 1 .. day
      /\ day' = day /\ market' = market
      /\ nav = [x \in Stages!Parents |-> nav[x]]
      /\ \A x \in Stages!Parents : History(x)
  BY DEF StagesInv, Stages!Enrich
<1>2. \A x \in Stages!Parents : nav'[x] = nav[x] => History(x)'
  BY <1>1, HistoryStays
<1>3. CASE nav' = nav
  BY <1>1, <1>2, <1>3
<1>4. CASE nav' # nav
  <2>1. PICK came : /\ nav' = [nav EXCEPT ![p] = Append(@, Stages!Snapshot(p, came))]
                    /\ ~Stages!Already(p)
    BY <1>4 DEF Stages!Enrich
  <2> DEFINE s == Stages!Snapshot(p, came)
             old == nav[p]
             n == Len(old)
  <2>2. /\ nav' = [x \in Stages!Parents |-> nav'[x]]
        /\ \A x \in Stages!Parents : x # p => nav'[x] = nav[x]
        /\ nav'[p] = Append(old, s)
    BY <1>1, <2>1
  <2>3. PICK X : old \in Seq(X)
    BY <1>1 DEF History
  <2>4. s.date = date /\ (Stages!Whole(p, s) => s.made = date /\ s.made = day)
    BY DEF Stages!Snapshot, Stages!Whole
  <2>5. Stages!Whole(p, s) => s.premium = Stages!TruePremium(p, day)
    BY SnapshotTrue
  <2> HIDE DEF s
  <2>6. /\ n \in Nat /\ DOMAIN old = 1 .. n
        /\ Append(old, s) \in Seq(X \cup {s})
        /\ DOMAIN Append(old, s) = 1 .. n + 1
        /\ Append(old, s)[n + 1] = s
        /\ \A k \in 1 .. n : Append(old, s)[k] = old[k]
    BY <2>3
  <2>7. \A k \in DOMAIN old : old[k].date # date
    BY <2>1 DEF Stages!Already
  <2>8. \A d : Stages!TruePremium(p, d)' = Stages!TruePremium(p, d)
    BY <1>1, TrueLater
  <2> DEFINE new == Append(old, s)
  <2>9. \A k \in 1 .. n :
          /\ old[k].date \in 1 .. day
          /\ Stages!Whole(p, old[k]) => old[k].premium = Stages!TruePremium(p, old[k].date)
          /\ \A j \in 1 .. n : old[j].date = old[k].date => j = k
    BY <1>1, <2>6 DEF History
  <2>10. nav'[p] = new
    BY <2>2
  <2> HIDE DEF new, old, n
  <2>11. ASSUME NEW k \in 1 .. n + 1
         PROVE  /\ new[k].date \in 1 .. day
                /\ Stages!Whole(p, new[k]) => new[k].premium = Stages!TruePremium(p, new[k].date)
                /\ \A j \in 1 .. n + 1 : new[j].date = new[k].date => j = k
    <3>1. CASE k = n + 1
      <4>1. new[k] = s
        BY <2>6, <3>1 DEF new
      <4>2. \A j \in 1 .. n + 1 : j # k => j \in 1 .. n /\ new[j] = old[j]
        BY <2>6, <3>1 DEF new
      <4>3. \A j \in 1 .. n + 1 : new[j].date = date => j = k
        BY <2>6, <2>7, <4>2
      <4>4. Stages!Whole(p, new[k]) => new[k].premium = Stages!TruePremium(p, new[k].date)
        BY <2>4, <2>5, <4>1
      <4> QED BY <1>1, <2>4, <4>1, <4>3, <4>4
    <3>2. CASE k # n + 1
      <4>1. k \in 1 .. n /\ new[k] = old[k]
        BY <2>6, <3>2 DEF new
      <4>2. \A j \in 1 .. n + 1 : \/ j \in 1 .. n /\ new[j] = old[j]
                                  \/ j = n + 1 /\ new[j] = s
        BY <2>6 DEF new
      <4>3. \A j \in 1 .. n + 1 : new[j].date = new[k].date => j = k
        BY <2>4, <2>6, <2>7, <2>9, <4>1, <4>2
      <4> QED BY <2>9, <4>1, <4>3
    <3> QED BY <3>1, <3>2
  <2>12. DOMAIN nav'[p] = 1 .. n + 1 /\ \E Y : nav'[p] \in Seq(Y)
    BY <2>6, <2>10 DEF new
  <2>13. /\ \E Y : nav'[p] \in Seq(Y)
         /\ \A k \in DOMAIN nav'[p] :
             /\ nav'[p][k].date \in 1 .. day'
             /\ Stages!Whole(p, nav'[p][k]) =>
                   nav'[p][k].premium = Stages!TruePremium(p, nav[p][k].date)'
             /\ \A j \in DOMAIN nav'[p] : nav'[p][j].date = nav'[p][k].date => j = k
    <3> SUFFICES ASSUME NEW k \in DOMAIN nav'[p]
                 PROVE  /\ nav'[p][k].date \in 1 .. day'
                        /\ Stages!Whole(p, nav'[p][k]) =>
                              nav'[p][k].premium = Stages!TruePremium(p, nav[p][k].date)'
                        /\ \A j \in DOMAIN nav'[p] : nav'[p][j].date = nav'[p][k].date => j = k
      BY <2>12
    <3>1. Stages!TruePremium(p, nav[p][k].date)' = Stages!TruePremium(p, nav'[p][k].date)
      BY <1>1 DEF Stages!TruePremium
    <3> QED BY <1>1, <2>10, <2>11, <2>12, <3>1
  <2>14. History(p)'
    BY <2>13 DEF History, Stages!Whole
  <2> QED BY <1>2, <2>2, <2>14
<1> QED
  BY <1>3, <1>4

(* Every day, run and death keeps it.                                      *)
LEMMA StagesInvStep ==
  focus = "stages" /\ StagesInv /\ [ResearchNext]_researchVars => StagesInv' /\ focus' = "stages"
<1> SUFFICES ASSUME focus = "stages", StagesInv, [ResearchNext]_researchVars
             PROVE  StagesInv' /\ focus' = "stages"
  OBVIOUS
<1>1. focus' = "stages" /\ (Stages!Next \/ UNCHANGED stageVars)
  BY DEF ResearchNext, researchVars
<1> SUFFICES StagesInv'
  BY <1>1
<1>2. /\ day \in Nat /\ 1 .. day \subseteq DOMAIN market
      /\ date = None \/ date \in 1 .. day
      /\ nav = [p \in Stages!Parents |-> nav[p]]
      /\ \A p \in Stages!Parents : History(p)
  BY DEF StagesInv
<1>3. CASE /\ UNCHANGED <<day, holidays, market, nav, scan>>
           /\ date' = None \/ date' \in 1 .. day
  <2>1. \A p \in Stages!Parents : History(p)'
    BY <1>2, <1>3, HistoryStays
  <2>2. Stages!NarrowingIsTrue' /\ Stages!PanicStraddlesFiling'
    BY <1>3, CandidatesStay
  <2> QED BY <1>2, <1>3, <2>1, <2>2 DEF StagesInv
<1>4. CASE Stages!NewDay
  <2>1. /\ day' = day + 1 /\ day' \in Nat /\ date' = date /\ date = None /\ nav' = nav /\ scan' = None
    BY <1>2, <1>4 DEF Stages!NewDay
  <2>2. 1 .. day' = DOMAIN market' /\ \A d \in 1 .. day : market'[d] = market[d]
    <3>1. PICK caps : market' = [d \in 1 .. day + 1 |-> IF d <= day THEN market[d] ELSE caps]
      BY <1>4 DEF Stages!NewDay
    <3> QED BY <1>2, <2>1, <3>1
  <2>3. \A p \in Stages!Parents : History(p)'
    BY <1>2, <2>1, <2>2, HistoryStays
  <2>4. Stages!Candidates' = {}
    BY <2>1 DEF Stages!Candidates
  <2>5. Stages!NarrowingIsTrue' /\ Stages!PanicStraddlesFiling'
    BY <2>4 DEF Stages!NarrowingIsTrue, Stages!PanicStraddlesFiling
  <2> QED BY <1>2, <2>1, <2>2, <2>3, <2>5 DEF StagesInv
<1>5. ASSUME NEW d \in 1 .. day, Stages!StartBuild(d) PROVE StagesInv'
  BY <1>3, <1>5 DEF Stages!StartBuild
<1>6. ASSUME NEW p \in Stages!Parents, Stages!Enrich(p) PROVE StagesInv'
  <2>1. UNCHANGED <<day, holidays, market, date, scan>>
    BY <1>6 DEF Stages!Enrich
  <2>2. Stages!NarrowingIsTrue' /\ Stages!PanicStraddlesFiling'
    BY <2>1, CandidatesStay
  <2>3. nav' = [x \in Stages!Parents |-> nav'[x]] /\ \A x \in Stages!Parents : History(x)'
    BY <1>6, EnrichKeeps
  <2> QED BY <1>2, <2>1, <2>2, <2>3 DEF StagesInv
<1>7. CASE Stages!WriteUniverse \/ Stages!DieBuilding \/ \E passed \in Verdicts : Stages!Screen(passed)
  <2>1. UNCHANGED <<day, holidays, market, nav, scan>> /\ (date' = None \/ date' = date)
    BY <1>7 DEF Stages!WriteUniverse, Stages!DieBuilding, Stages!Screen
  <2> QED BY <1>2, <1>3, <2>1
<1>8. CASE Stages!ScanCatalysts
  <2>1. UNCHANGED <<day, holidays, market, nav, date>>
    BY <1>8 DEF Stages!ScanCatalysts
  <2>2. Stages!NarrowingIsTrue' /\ Stages!PanicStraddlesFiling'
    BY <1>8, ScanIsTrue
  <2>3. \A p \in Stages!Parents : History(p)'
    BY <1>2, <2>1, HistoryStays
  <2> QED BY <1>2, <2>1, <2>2, <2>3 DEF StagesInv
<1>9. CASE UNCHANGED stageVars
  BY <1>2, <1>3, <1>9 DEF stageVars
<1> QED
  BY <1>1, <1>4, <1>5, <1>6, <1>7, <1>8, <1>9 DEF Stages!Next

(* So it holds as long as the stages are looked at.                        *)
LEMMA StagesInvAlways == ResearchSpec => [](focus = "stages" => StagesInv)
<1>1. ResearchInit => (focus = "stages" => StagesInv)
  BY StagesInvInit DEF ResearchInit
<1>2. (focus = "stages" => StagesInv) /\ [ResearchNext]_researchVars => (focus = "stages" => StagesInv)'
  BY StagesInvStep, OtherFocus
<1> QED
  BY <1>1, <1>2, PTL DEF ResearchSpec

(* A narrowing of a holding company's discount that is reported happened   *)
(* in the market (nav_history.py, detect_narrowing): between two lines of  *)
(* whole sums, each made on its own day, the premium did rise, within the  *)
(* look back, whatever runs were repeated, cut short or made for an        *)
(* earlier day in between.                                                 *)
THEOREM NarrowingIsTrueAlways == ResearchSpec => []NarrowingIsTrue
<1>1. (focus = "stages" => StagesInv) => NarrowingIsTrue
  BY DEF StagesInv, NarrowingIsTrue
<1> QED
  BY <1>1, StagesInvAlways, PTL

(* An earnings panic compares the last session before the filing with one  *)
(* after it (_kis_around and evaluate_announcement): one session, that of  *)
(* the filing or the first after it, lies from the filing up to the later. *)
THEOREM PanicStraddlesFilingAlways == ResearchSpec => []PanicStraddlesFiling
<1>1. (focus = "stages" => StagesInv) => PanicStraddlesFiling
  BY DEF StagesInv, PanicStraddlesFiling
<1> QED
  BY <1>1, StagesInvAlways, PTL

-----------------------------------------------------------------------------
(* ----- The folding of the segments' profiles.                            *)

(* q lists each member of M, in the order of B.                            *)
Follows(q, n, M, B) ==
    /\ q \in [1 .. n -> M]
    /\ \A x \in M : \E i \in 1 .. n : q[i] = x
    /\ \A i, j \in 1 .. n : i < j => <<q[i], q[j]>> \in B

(* Two lists of the same members that both follow one order are the same.  *)
LEMMA OneOrder ==
  ASSUME NEW n \in Nat, NEW M, NEW B,
         \A a, b \in M : ~(<<a, b>> \in B /\ <<b, a>> \in B),
         NEW q, Follows(q, n, M, B), NEW r, Follows(r, n, M, B)
  PROVE  q = r
<1> USE DEF Follows
<1> DEFINE S == {m \in 0 .. n : \A i \in 1 .. m : q[i] = r[i]}
<1>1. 0 \in S
  OBVIOUS
<1>2. ASSUME NEW m \in 1 .. n, m - 1 \in S PROVE m \in S
  <2>1. \A i \in 1 .. n : i < m => q[i] = r[i]
    BY <1>2
  <2>2. q[m] = r[m]
    <3>1. SUFFICES ASSUME q[m] # r[m] PROVE FALSE
      OBVIOUS
    <3>2. PICK j \in 1 .. n : r[j] = q[m]
      OBVIOUS
    <3>3. PICK k \in 1 .. n : q[k] = r[m]
      OBVIOUS
    <3>4. m < j
      <4>1. j # m
        BY <3>1, <3>2
      <4>2. j < m => <<q[j], q[m]>> \in B /\ q[j] = q[m]
        BY <2>1, <3>2
      <4>3. ~(j < m)
        BY <4>2
      <4> QED BY <4>1, <4>3
    <3>5. m < k
      <4>1. k # m
        BY <3>1, <3>3
      <4>2. k < m => <<r[k], r[m]>> \in B /\ r[k] = r[m]
        BY <2>1, <3>3
      <4>3. ~(k < m)
        BY <4>2
      <4> QED BY <4>1, <4>3
    <3>6. <<r[m], r[j]>> \in B /\ <<q[m], q[k]>> \in B
      BY <3>4, <3>5
    <3> QED BY <3>2, <3>3, <3>6
  <2>3. \A i \in 1 .. m : i = m \/ (i \in 1 .. n /\ i < m)
    OBVIOUS
  <2>4. \A i \in 1 .. m : q[i] = r[i]
    BY <2>1, <2>2, <2>3
  <2>5. m \in 0 .. n
    OBVIOUS
  <2> QED BY <2>4, <2>5
<1>3. n \in S
  <2>1. \A i \in 0 .. n : i \in S
    <3> HIDE DEF S
    <3> QED BY <1>1, <1>2, RangeInduction
  <2> HIDE DEF S
  <2> QED BY <2>1
<1> QED
  BY <1>3

(* The ranks of segments are comparable.                                   *)
LEMMA RankType ==
  ASSUME NEW p \in Policies, NEW s \in DOMAIN p.segments
  PROVE  \E depth \in Nat, priority \in Int : Layer!Rank(s, p.segments) = <<depth, priority>>
<1> DEFINE segs == p.segments
           C == Layer!Chain(s, segs)
<1>1. IsFiniteSet(DOMAIN segs) /\ segs[s].priority \in Int
  BY ResearchAssumption, LayerSets DEF Layer!PoliciesAssumption
<1>2. C \subseteq DOMAIN segs
  BY DEF Layer!Chain
<1> HIDE DEF C, segs
<1>3. Cardinality(C) \in Nat
  BY <1>1, <1>2, FS_Subset, FS_CardinalityType
<1>4. Layer!Rank(s, segs) = <<Cardinality(C), segs[s].priority>>
  BY LayerSets DEF Layer!Rank, C
<1> QED
  BY <1>1, <1>3, <1>4 DEF segs

(* Without a conflict the ranks leave one order.                           *)
LEMMA OrdersAreOne ==
  ASSUME NEW p \in Policies, NEW matched \in SUBSET DOMAIN p.segments,
         ~Layer!Conflict(matched, p.segments),
         NEW q \in Layer!Orders(matched, p.segments), NEW r \in Layer!Orders(matched, p.segments)
  PROVE  q = r
<1> DEFINE segs == p.segments
           n == Cardinality(matched)
           rank(s) == Layer!Rank(s, segs)
           B == {e \in matched \X matched : Layer!Precedes(rank(e[1]), rank(e[2]))}
<1>1. IsFiniteSet(matched)
  <2>1. IsFiniteSet(DOMAIN segs)
    BY ResearchAssumption, LayerSets DEF Layer!PoliciesAssumption
  <2> HIDE DEF segs
  <2> QED BY <2>1, FS_Subset DEF segs
<1>2. n \in Nat
  BY <1>1, FS_CardinalityType
<1>3. \A s \in matched : \E depth \in Nat, priority \in Int : rank(s) = <<depth, priority>>
  BY RankType
<1>4. \A s, o \in matched : s # o => rank(s) # rank(o)
  BY DEF Layer!Conflict
<1>5. \A x \in Layer!SetToSeqs(matched) :
         x \in [1 .. n -> matched] /\ \A i, j \in 1 .. n : i # j => x[i] # x[j]
  BY LayerSets DEF Layer!SetToSeqs
<1>6. \A x \in Layer!Orders(matched, segs) :
         /\ x \in [1 .. n -> matched] /\ \A i, j \in 1 .. n : x[i] = x[j] => i = j
         /\ \A i, j \in 1 .. n : Layer!Precedes(rank(x[i]), rank(x[j])) => i < j
  <2> SUFFICES ASSUME NEW x \in Layer!Orders(matched, segs)
               PROVE  /\ x \in [1 .. n -> matched] /\ \A i, j \in 1 .. n : x[i] = x[j] => i = j
                      /\ \A i, j \in 1 .. n : Layer!Precedes(rank(x[i]), rank(x[j])) => i < j
    OBVIOUS
  <2>1. x \in Layer!SetToSeqs(matched) /\ DOMAIN x = 1 .. n
    BY <1>5 DEF Layer!Orders
  <2>2. \A i, j \in DOMAIN x : Layer!Precedes(rank(x[i]), rank(x[j])) => i < j
    BY DEF Layer!Orders
  <2> QED BY <1>5, <2>1, <2>2
<1> HIDE DEF rank, n
<1>7. \A s, o \in matched :
         /\ s # o => Layer!Precedes(rank(s), rank(o)) \/ Layer!Precedes(rank(o), rank(s))
         /\ ~(Layer!Precedes(rank(s), rank(o)) /\ Layer!Precedes(rank(o), rank(s)))
  <2> SUFFICES ASSUME NEW s \in matched, NEW o \in matched
               PROVE  /\ s # o => Layer!Precedes(rank(s), rank(o)) \/ Layer!Precedes(rank(o), rank(s))
                      /\ ~(Layer!Precedes(rank(s), rank(o)) /\ Layer!Precedes(rank(o), rank(s)))
    OBVIOUS
  <2>1. PICK a \in Nat, b \in Int : rank(s) = <<a, b>>
    BY <1>3
  <2>2. PICK c \in Nat, d \in Int : rank(o) = <<c, d>>
    BY <1>3
  <2>3. /\ Layer!Precedes(rank(s), rank(o)) <=> a < c \/ (a = c /\ b < d)
        /\ Layer!Precedes(rank(o), rank(s)) <=> c < a \/ (c = a /\ d < b)
    BY <2>1, <2>2 DEF Layer!Precedes
  <2>4. s # o => a # c \/ b # d
    BY <1>4, <2>1, <2>2
  <2> QED BY <2>3, <2>4
<1>8. \A x \in Layer!Orders(matched, segs) :
         /\ \A i, j \in 1 .. n : i < j => <<x[i], x[j]>> \in B
         /\ \A y \in matched : \E i \in 1 .. n : x[i] = y
  <2> SUFFICES ASSUME NEW x \in Layer!Orders(matched, segs)
               PROVE  /\ \A i, j \in 1 .. n : i < j => <<x[i], x[j]>> \in B
                      /\ \A y \in matched : \E i \in 1 .. n : x[i] = y
    OBVIOUS
  <2>1. ASSUME NEW i \in 1 .. n, NEW j \in 1 .. n, i < j
        PROVE  <<x[i], x[j]>> \in B
    <3>1. x[i] \in matched /\ x[j] \in matched /\ x[i] # x[j]
      BY <1>2, <1>6, <2>1
    <3>2. ~Layer!Precedes(rank(x[j]), rank(x[i]))
      BY <1>2, <1>6, <2>1
    <3> QED BY <1>7, <3>1, <3>2
  <2>2. \A y \in matched : \E i \in 1 .. n : x[i] = y
    BY <1>1, <1>6, OneOfEach DEF n
  <2> QED BY <2>1, <2>2
<1>9. \A a, b \in matched : ~(<<a, b>> \in B /\ <<b, a>> \in B)
  BY <1>7
<1> HIDE DEF B, segs
<1>10. q \in Layer!Orders(matched, segs) /\ r \in Layer!Orders(matched, segs)
  BY DEF segs
<1>11. q \in [1 .. n -> matched] /\ r \in [1 .. n -> matched]
  BY <1>6, <1>10
<1>12. Follows(q, n, matched, B) /\ Follows(r, n, matched, B)
  BY <1>8, <1>10, <1>11 DEF Follows
<1> QED
  BY <1>2, <1>9, <1>12, OneOrder

(* A resolution has one result.                                            *)
LEMMA OneResult ==
  ASSUME NEW p \in Policies, NEW t, NEW matched \in SUBSET DOMAIN p.segments
  PROVE  Layer!Cardinality(Layer!Resolutions(p, t, matched)) <= 1
<1> DEFINE R == Layer!Resolutions(p, t, matched)
<1>1. \A x, y \in R : x = y
  <2>1. CASE Layer!Conflict(matched, p.segments)
    BY <2>1 DEF Layer!Resolutions
  <2>2. CASE ~Layer!Conflict(matched, p.segments)
    <3>1. \A q, r \in Layer!Orders(matched, p.segments) : q = r
      BY <2>2, OrdersAreOne
    <3>2. R = {Layer!FoldLeft(Layer!Merge, Layer!Nothing, Layer!Steps(q, p, t)) :
                  q \in Layer!Orders(matched, p.segments)}
      BY <2>2 DEF Layer!Resolutions
    <3> QED BY <3>1, <3>2
  <2> QED BY <2>1, <2>2
<1> HIDE DEF R
<1>2. R = {} \/ \E x : R = {x}
  BY <1>1
<1>3. Cardinality(R) <= 1
  <2>1. CASE R = {}
    <3>1. Cardinality(R) = 0
      BY <2>1, FS_EmptySet
    <3> QED BY <3>1
  <2>2. CASE \E x : R = {x}
    <3>1. Cardinality(R) = 1
      BY <2>2, FS_Singleton
    <3> QED BY <3>1
  <2> QED BY <1>2, <2>1, <2>2
<1> QED
  BY <1>3, LayerSets DEF R

(* The profile of a ticker does not depend on the order in which the       *)
(* registry lists the segments (order_matched, MergeEngine): the ranks of  *)
(* those that match leave one order, or the resolver refuses.              *)
THEOREM MergeIgnoresListingAlways == ResearchSpec => []MergeIgnoresListing
<1>1. ResearchInit => MergeIgnoresListing
  BY DEF ResearchInit, Layer!Init, MergeIgnoresListing, Layer!MergeIgnoresListing
<1>2. MergeIgnoresListing /\ [ResearchNext]_researchVars => MergeIgnoresListing'
  <2> SUFFICES ASSUME MergeIgnoresListing, [ResearchNext]_researchVars, focus = "layer"
               PROVE  Layer!MergeIgnoresListing'
    BY OtherFocus DEF MergeIgnoresListing
  <2>1. Layer!Next \/ answer' = answer
    BY DEF ResearchNext, researchVars, layerVars
  <2>2. CASE answer' = answer \/ answer' = None
    BY <2>2 DEF MergeIgnoresListing, Layer!MergeIgnoresListing
  <2>3. ASSUME NEW t \in Tickers, NEW p \in Policies, Layer!Resolve(t, p)
        PROVE  Layer!MergeIgnoresListing'
    <3>1. PICK matched \in SUBSET DOMAIN p.segments : answer'.results = Layer!Resolutions(p, t, matched)
      BY <2>3 DEF Layer!Resolve
    <3>2. Layer!Cardinality(answer'.results) <= 1
      BY <3>1, OneResult
    <3> QED BY <3>2 DEF Layer!MergeIgnoresListing
  <2>4. CASE Layer!Change \/ (\E e \in BOOLEAN : Layer!StartBuild(e)) \/ Layer!Write \/ Layer!Die \/ Layer!Forget
    <3>1. answer' = None
      BY <2>4 DEF Layer!Change, Layer!StartBuild, Layer!Write, Layer!Die, Layer!Forget
    <3> QED BY <2>2, <3>1
  <2> QED BY <2>1, <2>2, <2>3, <2>4 DEF Layer!Next
<1> QED
  BY <1>1, <1>2, PTL DEF ResearchSpec

-----------------------------------------------------------------------------
(* ----- The selectors of the segments.                                    *)

(* f solves st over S: at each selector of S it has the value that st      *)
(* computes from f itself.                                                 *)
Solves(f, st, S) == \A s \in S : f[s] = st[s][f]

(* A value of a selector that depends on those of its parts exists.        *)
LEMMA RecursionExists ==
  ASSUME NEW V, V # {}, NEW st,
         \A s \in Selectors : \A f \in [Selectors -> V] : st[s][f] \in V,
         \A s \in Selectors : \A f, g \in [Selectors -> V] :
            (\A part \in Layer!Parts(s) : f[part] = g[part]) => st[s][f] = st[s][g]
  PROVE  \E f \in [Selectors -> V] : Solves(f, st, Selectors)
<1> DEFINE Closed(S) == \A s \in S : Layer!Parts(s) \subseteq S
           Good == {S \in SUBSET Selectors : Closed(S) /\ \E f \in [Selectors -> V] : Solves(f, st, S)}
           L == Cardinality(Selectors)
           K == {Cardinality(S) : S \in Good}
<1>1. /\ IsFiniteSet(Selectors)
      /\ \A S \in SUBSET Selectors : S # {} => \E s \in S : Layer!Parts(s) \cap S = {}
      /\ \A s \in Selectors : Layer!Parts(s) \subseteq Selectors
  BY ResearchAssumption, LayerSets DEF Layer!SelectorsAssumption
<1>2. L \in Nat /\ \A S \in SUBSET Selectors : IsFiniteSet(S) /\ Cardinality(S) \in Nat /\ Cardinality(S) <= L
  BY <1>1, FS_Subset, FS_CardinalityType
<1>3. {} \in Good
  <2>1. PICK v \in V : TRUE
    OBVIOUS
  <2>2. [s \in Selectors |-> v] \in [Selectors -> V]
    BY <2>1
  <2> QED BY <2>2 DEF Solves
<1>4. K # {} /\ K \in SUBSET (0 .. L)
  <2>1. \A S \in Good : S \in SUBSET Selectors
    OBVIOUS
  <2> HIDE DEF Good, L
  <2>2. \A S \in Good : Cardinality(S) \in 0 .. L
    BY <1>2, <2>1
  <2> QED BY <1>3, <2>2
<1>5. PICK m \in K : \A e \in K : e <= m
  <2> HIDE DEF K, L
  <2> QED BY <1>2, <1>4, BoundedExtremes
<1>6. PICK S \in Good : Cardinality(S) = m
  OBVIOUS
<1>7. PICK f \in [Selectors -> V] : Solves(f, st, S)
  BY <1>6
<1>8. S \subseteq Selectors /\ Closed(S)
  BY <1>6
<1>9. CASE S = Selectors
  BY <1>7, <1>9
<1>10. CASE S # Selectors
  <2>1. PICK new \in Selectors \ S : Layer!Parts(new) \cap (Selectors \ S) = {}
    BY <1>1, <1>8, <1>10
  <2> DEFINE T == S \cup {new}
             g == [s \in Selectors |-> IF s = new THEN st[new][f] ELSE f[s]]
  <2>2. Layer!Parts(new) \subseteq S
    BY <1>1, <2>1
  <2>3. g \in [Selectors -> V] /\ g[new] = st[new][f] /\ \A s \in S : g[s] = f[s]
    BY <1>8, <2>1
  <2> HIDE DEF g
  <2>4. st[new][g] = st[new][f]
    BY <2>1, <2>2, <2>3
  <2>5. \A s \in S : st[s][g] = st[s][f]
    <3> SUFFICES ASSUME NEW s \in S PROVE st[s][g] = st[s][f]
      OBVIOUS
    <3>1. s \in Selectors /\ \A part \in Layer!Parts(s) : g[part] = f[part]
      BY <1>8, <2>3
    <3> QED BY <2>3, <3>1
  <2>6. Solves(g, st, T)
    BY <1>7, <2>3, <2>4, <2>5 DEF Solves
  <2>7. T \in Good
    BY <1>8, <2>1, <2>2, <2>3, <2>6
  <2>8. Cardinality(T) = m + 1 /\ m \in Nat
    BY <1>2, <1>6, <1>8, <2>1, FS_AddElement
  <2>9. Cardinality(T) <= m
    <3> HIDE DEF T, Good
    <3> QED BY <1>5, <2>7
  <2> QED BY <2>8, <2>9
<1> QED
  BY <1>9, <1>10

(* The leaves of a selector.                                               *)
LEMMA LeavesOf ==
  \A s \in Selectors :
     Layer!Leaves[s] = IF Layer!Parts(s) = {} THEN {s}
                       ELSE UNION {Layer!Leaves[part] : part \in Layer!Parts(s)}
<1> DEFINE V == SUBSET Selectors
           G(s, f) == IF Layer!Parts(s) = {} THEN {s} ELSE UNION {f[part] : part \in Layer!Parts(s)}
           st == [s \in Selectors |-> [f \in [Selectors -> V] |-> G(s, f)]]
<1>1. \A s \in Selectors : Layer!Parts(s) \subseteq Selectors
  BY ResearchAssumption DEF Layer!SelectorsAssumption
<1>2. \A s \in Selectors : \A f \in [Selectors -> V] : st[s][f] = G(s, f) /\ G(s, f) \in V
  <2> SUFFICES ASSUME NEW s \in Selectors, NEW f \in [Selectors -> V] PROVE st[s][f] = G(s, f) /\ G(s, f) \in V
    OBVIOUS
  <2>1. st[s][f] = G(s, f)
    OBVIOUS
  <2>2. \A part \in Layer!Parts(s) : f[part] \subseteq Selectors
    BY <1>1
  <2> QED BY <2>1, <2>2
<1>3. \A s \in Selectors : \A f, g \in [Selectors -> V] :
            (\A part \in Layer!Parts(s) : f[part] = g[part]) => G(s, f) = G(s, g)
  <2> SUFFICES ASSUME NEW s \in Selectors, NEW f \in [Selectors -> V], NEW g \in [Selectors -> V],
                      \A part \in Layer!Parts(s) : f[part] = g[part]
               PROVE  G(s, f) = G(s, g)
    OBVIOUS
  <2>1. {f[part] : part \in Layer!Parts(s)} = {g[part] : part \in Layer!Parts(s)}
    OBVIOUS
  <2> QED BY <2>1
<1>4. {} \in V
  OBVIOUS
<1> HIDE DEF V, st
<1>5. PICK f \in [Selectors -> V] : Solves(f, st, Selectors)
  <2> HIDE DEF G
  <2>1. V # {} /\ \A s \in Selectors : \A f \in [Selectors -> V] : st[s][f] \in V
    BY <1>2, <1>4
  <2>2. \A s \in Selectors : \A f, g \in [Selectors -> V] :
            (\A part \in Layer!Parts(s) : f[part] = g[part]) => st[s][f] = st[s][g]
    BY <1>2, <1>3
  <2> QED BY <2>1, <2>2, RecursionExists
<1>6. f = [s \in Selectors |-> G(s, f)]
  <2>1. \A s \in Selectors : f[s] = G(s, f)
    BY <1>2, <1>5 DEF Solves
  <2> HIDE DEF G
  <2> QED BY <1>5, <2>1
<1>7. Layer!Leaves = CHOOSE h : h = [s \in Selectors |-> G(s, h)]
  BY DEF Layer!Leaves
<1>8. Layer!Leaves = [s \in Selectors |-> G(s, Layer!Leaves)]
  <2> HIDE DEF G
  <2> QED BY <1>6, <1>7
<1> QED
  BY <1>8

(* Whether a selector is plain, from whether its parts are.                *)
PlainBy(s, f) ==
    IF s.type = "not" THEN \A l \in Layer!Leaves[s.inner] : l.type # "top_k"
    ELSE \A part \in Layer!Parts(s) : f[part]

(* The recursion of Plain has one value for every selector.                *)
LEMMA PlainOf ==
  \A s \in Selectors : Layer!Plain[s] = PlainBy(s, Layer!Plain)
<1> DEFINE st == [s \in Selectors |-> [f \in [Selectors -> BOOLEAN] |-> PlainBy(s, f)]]
           e == CHOOSE h : h = [s \in Selectors |-> PlainBy(s, h)]
<1>1. \A s, f : PlainBy(s, f) \in BOOLEAN
  <2> SUFFICES ASSUME NEW s, NEW f PROVE PlainBy(s, f) \in BOOLEAN
    OBVIOUS
  <2>1. CASE s.type = "not"
    BY <2>1 DEF PlainBy
  <2>2. CASE s.type # "not"
    BY <2>2 DEF PlainBy
  <2> QED BY <2>1, <2>2
<1>2. \A s \in Selectors : \A f \in [Selectors -> BOOLEAN] : st[s][f] = PlainBy(s, f) /\ st[s][f] \in BOOLEAN
  BY <1>1
<1> HIDE DEF st
<1>3. \A s \in Selectors : \A f, g \in [Selectors -> BOOLEAN] :
         (\A part \in Layer!Parts(s) : f[part] = g[part]) => st[s][f] = st[s][g]
  <2> SUFFICES ASSUME NEW s \in Selectors, NEW f \in [Selectors -> BOOLEAN], NEW g \in [Selectors -> BOOLEAN],
                      \A part \in Layer!Parts(s) : f[part] = g[part]
               PROVE  PlainBy(s, f) = PlainBy(s, g)
    BY <1>2
  <2>1. PlainBy(s, f) <=> PlainBy(s, g)
    BY DEF PlainBy
  <2>2. PlainBy(s, f) \in BOOLEAN /\ PlainBy(s, g) \in BOOLEAN
    BY <1>1
  <2> QED BY <2>1, <2>2
<1>4. PICK f \in [Selectors -> BOOLEAN] : Solves(f, st, Selectors)
  <2>1. \A s \in Selectors : \A f \in [Selectors -> BOOLEAN] : st[s][f] \in BOOLEAN
    BY <1>2
  <2>2. BOOLEAN # {}
    OBVIOUS
  <2> QED BY <1>3, <2>1, <2>2, RecursionExists
<1>5. f = [s \in Selectors |-> PlainBy(s, f)]
  BY <1>2, <1>4 DEF Solves
<1>6. e = [s \in Selectors |-> PlainBy(s, e)]
  BY <1>5
<1>7. Layer!Plain = e
  BY DEF Layer!Plain, PlainBy
<1> HIDE DEF e
<1> QED
  BY <1>6, <1>7

(* The value of a selector, from those of its parts.                       *)
Worth(s, f, t, members) ==
    LET parts == {f[part] : part \in Layer!Parts(s)}
    IN  CASE s.type = "and" -> Layer!Combine(parts, "false", "true")
          [] s.type = "or"  -> Layer!Combine(parts, "true", "false")
          [] s.type = "not" -> Layer!Negate(f[s.inner])
          [] OTHER          -> Layer!Leaf(s, t, members)

(* The values of a selector.                                               *)
Truths == {"true", "false", "unknown"}

(* It is one of the three, and nothing but the parts matters to it.        *)
LEMMA WorthLocal ==
  ASSUME NEW s, NEW t, NEW members, NEW f, NEW g,
         \A part \in Layer!Parts(s) : f[part] = g[part]
  PROVE  Worth(s, f, t, members) \in Truths /\ Worth(s, f, t, members) = Worth(s, g, t, members)
<1>1. Layer!Leaf(s, t, members) \in Truths
  BY DEF Layer!Leaf, Truths
<1>2. {f[part] : part \in Layer!Parts(s)} = {g[part] : part \in Layer!Parts(s)}
  OBVIOUS
<1>3. s.type = "not" => f[s.inner] = g[s.inner]
  BY DEF Layer!Parts
<1>4. \A S : Layer!Combine(S, "false", "true") \in Truths /\ Layer!Combine(S, "true", "false") \in Truths
  BY DEF Layer!Combine, Truths
<1>5. \A v : Layer!Negate(v) \in Truths
  BY DEF Layer!Negate, Truths
<1> QED
  BY <1>1, <1>2, <1>3, <1>4, <1>5 DEF Worth

(* The recursion of evaluate has one value for every selector.             *)
LEMMA Evaluated ==
  ASSUME NEW t, NEW members
  PROVE  \E f \in [Selectors -> Truths] :
            /\ \A s \in Selectors : f[s] = Worth(s, f, t, members)
            /\ \A s \in Selectors : Layer!Evaluate(s, t, members) = f[s]
<1> DEFINE st == [s \in Selectors |-> [f \in [Selectors -> Truths] |-> Worth(s, f, t, members)]]
           e == CHOOSE h : h = [s \in Selectors |-> Worth(s, h, t, members)]
<1>1. \A s \in Selectors : \A f \in [Selectors -> Truths] :
         st[s][f] = Worth(s, f, t, members) /\ st[s][f] \in Truths
  BY WorthLocal
<1>2. Truths # {}
  BY DEF Truths
<1> HIDE DEF st
<1>3. \A s \in Selectors : \A f, g \in [Selectors -> Truths] :
         (\A part \in Layer!Parts(s) : f[part] = g[part]) => st[s][f] = st[s][g]
  BY <1>1, WorthLocal
<1>4. PICK f \in [Selectors -> Truths] : Solves(f, st, Selectors)
  <2>1. \A s \in Selectors : \A f \in [Selectors -> Truths] : st[s][f] \in Truths
    BY <1>1
  <2> QED BY <1>2, <1>3, <2>1, RecursionExists
<1>5. f = [s \in Selectors |-> Worth(s, f, t, members)]
  BY <1>1, <1>4 DEF Solves
<1>6. e = [s \in Selectors |-> Worth(s, e, t, members)]
  BY <1>5
<1>7. \A s : Layer!Evaluate(s, t, members) = e[s]
  BY DEF Layer!Evaluate, Worth
<1> HIDE DEF e
<1>8. e \in [Selectors -> Truths] /\ \A s \in Selectors : e[s] = Worth(s, e, t, members)
  <2>1. \A s \in Selectors : e[s] = Worth(s, e, t, members) /\ e[s] \in Truths
    BY <1>6, WorthLocal
  <2> QED BY <1>6, <2>1
<1> QED
  BY <1>7, <1>8

(* The two-valued reading of a selector, from that of its parts.           *)
Truth(s, f, told, guess) ==
    CASE s.type = "and" -> \A part \in Layer!Parts(s) : f[part]
      [] s.type = "or"  -> \E part \in Layer!Parts(s) : f[part]
      [] s.type = "not" -> ~f[s.inner]
      [] OTHER -> IF told[s] = "unknown" THEN s \in guess ELSE told[s] = "true"

(* It is a truth value, and nothing but the parts matters to it.           *)
LEMMA TruthBoolean ==
  ASSUME NEW s, NEW f, NEW told, NEW guess
  PROVE  Truth(s, f, told, guess) \in BOOLEAN
<1>1. CASE s.type = "and"
  BY <1>1 DEF Truth
<1>2. CASE s.type = "or"
  BY <1>2 DEF Truth
<1>3. CASE s.type = "not"
  BY <1>3 DEF Truth
<1>4. CASE s.type \notin {"and", "or", "not"}
  <2>1. CASE told[s] = "unknown"
    <3>1. (s \in guess) = TRUE \/ (s \in guess) = FALSE
      OBVIOUS
    <3> DEFINE b == s \in guess
    <3>2. b \in BOOLEAN
      BY <3>1, Zenon
    <3>3. Truth(s, f, told, guess) = b
      BY <1>4, <2>1, Zenon DEF Truth
    <3> QED BY <3>2, <3>3, Zenon
  <2>2. CASE told[s] # "unknown"
    BY <1>4, <2>2 DEF Truth
  <2> QED BY <2>1, <2>2
<1> QED
  BY <1>1, <1>2, <1>3, <1>4

(* Nothing but the parts matters to the truth of a selector either.        *)
LEMMA TruthLocal ==
  ASSUME NEW s \in Selectors, NEW told, NEW guess,
         NEW f \in [Selectors -> BOOLEAN], NEW g \in [Selectors -> BOOLEAN],
         \A part \in Layer!Parts(s) : f[part] = g[part]
  PROVE  Truth(s, f, told, guess) = Truth(s, g, told, guess)
<1>1. s.type = "not" => f[s.inner] = g[s.inner]
  BY DEF Layer!Parts
<1>2. Truth(s, f, told, guess) \in BOOLEAN /\ Truth(s, g, told, guess) \in BOOLEAN
  BY TruthBoolean
<1>3. Truth(s, f, told, guess) <=> Truth(s, g, told, guess)
  <2>1. CASE s.type = "and"
    BY <2>1 DEF Truth
  <2>2. CASE s.type = "or"
    BY <2>2 DEF Truth
  <2>3. CASE s.type = "not"
    BY <1>1, <2>3 DEF Truth
  <2>4. CASE s.type \notin {"and", "or", "not"}
    BY <2>4 DEF Truth
  <2> QED BY <2>1, <2>2, <2>3, <2>4
<1> QED
  BY <1>2, <1>3

(* The recursion of the reference has one value for every selector, too.   *)
LEMMA Held ==
  ASSUME NEW told, NEW guess
  PROVE  \E f \in [Selectors -> BOOLEAN] :
            /\ \A s \in Selectors : f[s] = Truth(s, f, told, guess)
            /\ \A s \in Selectors : Layer!Holds(s, told, guess) = f[s]
<1> DEFINE st == [s \in Selectors |-> [f \in [Selectors -> BOOLEAN] |-> Truth(s, f, told, guess)]]
           e == CHOOSE h : h = [s \in Selectors |-> Truth(s, h, told, guess)]
<1>1. \A s \in Selectors : \A f \in [Selectors -> BOOLEAN] :
         st[s][f] = Truth(s, f, told, guess) /\ st[s][f] \in BOOLEAN
  BY TruthBoolean
<1> HIDE DEF st
<1>2. \A s \in Selectors : \A f, g \in [Selectors -> BOOLEAN] :
         (\A part \in Layer!Parts(s) : f[part] = g[part]) => st[s][f] = st[s][g]
  BY <1>1, TruthLocal
<1>3. PICK f \in [Selectors -> BOOLEAN] : Solves(f, st, Selectors)
  <2>1. \A s \in Selectors : \A f \in [Selectors -> BOOLEAN] : st[s][f] \in BOOLEAN
    BY <1>1
  <2>2. BOOLEAN # {}
    OBVIOUS
  <2> QED BY <1>2, <2>1, <2>2, RecursionExists
<1>4. f = [s \in Selectors |-> Truth(s, f, told, guess)]
  BY <1>1, <1>3 DEF Solves
<1>5. e = [s \in Selectors |-> Truth(s, e, told, guess)]
  BY <1>4
<1>6. \A s : Layer!Holds(s, told, guess) = e[s]
  BY DEF Layer!Holds, Truth
<1> HIDE DEF e
<1>7. e \in [Selectors -> BOOLEAN] /\ \A s \in Selectors : e[s] = Truth(s, e, told, guess)
  <2>1. \A s \in Selectors : e[s] = Truth(s, e, told, guess) /\ e[s] \in BOOLEAN
    BY <1>5, TruthBoolean
  <2> QED BY <1>5, <2>1
<1> QED
  BY <1>6, <1>7

(* The leaves of a selector are selectors.                                 *)
LEMMA LeavesAreSelectors ==
  \A s \in Selectors : Layer!Leaves[s] \subseteq Selectors
<1> DEFINE Wrong == {s \in Selectors : ~(Layer!Leaves[s] \subseteq Selectors)}
<1>1. /\ \A S \in SUBSET Selectors : S # {} => \E s \in S : Layer!Parts(s) \cap S = {}
      /\ \A s \in Selectors : Layer!Parts(s) \subseteq Selectors
  BY ResearchAssumption DEF Layer!SelectorsAssumption
<1>2. SUFFICES ASSUME NEW s \in Wrong, Layer!Parts(s) \cap Wrong = {} PROVE FALSE
  <2>1. Wrong \in SUBSET Selectors
    OBVIOUS
  <2>2. SUFFICES ASSUME Wrong # {} PROVE FALSE
    OBVIOUS
  <2> HIDE DEF Wrong
  <2> QED BY <1>1, <2>1, <2>2
<1>3. \A part \in Layer!Parts(s) : Layer!Leaves[part] \subseteq Selectors
  BY <1>1, <1>2
<1>4. s \in Selectors /\ ~(Layer!Leaves[s] \subseteq Selectors)
  OBVIOUS
<1> HIDE DEF Wrong
<1>5. CASE Layer!Parts(s) = {}
  <2>1. Layer!Leaves[s] = {s}
    BY <1>4, <1>5, LeavesOf
  <2> QED BY <1>4, <2>1
<1>6. CASE Layer!Parts(s) # {}
  <2>1. Layer!Leaves[s] = UNION {Layer!Leaves[part] : part \in Layer!Parts(s)}
    BY <1>4, <1>6, LeavesOf
  <2> QED BY <1>3, <1>4, <2>1
<1> QED
  BY <1>5, <1>6

(* What is known of a leaf is its value, but for a top-k leaf that is      *)
(* false where nothing is known.                                           *)
LEMMA KnownLeaf ==
  ASSUME NEW l \in Selectors, NEW t \in Tickers, NEW members,
         \A c \in Layer!Concepts : t \in members[c] => Layer!Score(t, c) # None
  PROVE  \/ Layer!Known(l, t, members) = Layer!Leaf(l, t, members)
         \/ /\ l.type = "top_k" /\ Layer!Known(l, t, members) = "unknown"
            /\ Layer!Leaf(l, t, members) = "false"
<1>1. CASE l.type = "top_k"
  <2>1. l.concept \in Layer!Concepts
    BY <1>1, ResearchAssumption DEF Layer!SelectorsAssumption
  <2>2. CASE Layer!Score(t, l.concept) = None
    <3>1. t \notin members[l.concept]
      BY <2>1, <2>2
    <3> QED BY <1>1, <2>2, <3>1 DEF Layer!Known, Layer!Leaf
  <2>3. CASE Layer!Score(t, l.concept) # None
    BY <1>1, <2>3 DEF Layer!Known
  <2> QED BY <2>2, <2>3
<1>2. CASE l.type = "semantic"
  BY <1>2 DEF Layer!Known, Layer!Leaf
<1>3. CASE l.type = "threshold"
  BY <1>3 DEF Layer!Known, Layer!Leaf
<1>4. CASE l.type \notin {"threshold", "semantic", "top_k"}
  BY <1>4 DEF Layer!Known, Layer!Leaf
<1> QED
  BY <1>1, <1>2, <1>3, <1>4

(* A plain selector that is true holds however its unknown leaves are      *)
(* guessed; and without a top-k leaf, one that is false does not.          *)
LEMMA SelectorSound ==
  ASSUME NEW sel \in Selectors, NEW t, NEW members, NEW told, NEW guess,
         \A l \in Layer!Leaves[sel] :
            \/ told[l] = Layer!Leaf(l, t, members)
            \/ l.type = "top_k" /\ told[l] = "unknown" /\ Layer!Leaf(l, t, members) = "false",
         Layer!Plain[sel], Layer!Evaluate(sel, t, members) = "true"
  PROVE  Layer!Holds(sel, told, guess)
<1>1. PICK f \in [Selectors -> Truths] :
         /\ \A s \in Selectors : f[s] = Worth(s, f, t, members)
         /\ \A s \in Selectors : Layer!Evaluate(s, t, members) = f[s]
  BY Evaluated
<1>2. PICK h \in [Selectors -> BOOLEAN] :
         /\ \A s \in Selectors : h[s] = Truth(s, h, told, guess)
         /\ \A s \in Selectors : Layer!Holds(s, told, guess) = h[s]
  BY Held
<1> DEFINE Sharp(s) == \A l \in Layer!Leaves[s] : l.type # "top_k"
           Up(s) == f[s] = "true" => h[s]
           Down(s) == f[s] = "false" => ~h[s]
           Right(s) == (Layer!Plain[s] => Up(s)) /\ (Sharp(s) => Up(s) /\ Down(s))
           Wrong == {s \in Selectors : Layer!Leaves[s] \subseteq Layer!Leaves[sel] /\ ~Right(s)}
<1>3. /\ \A S \in SUBSET Selectors : S # {} => \E s \in S : Layer!Parts(s) \cap S = {}
      /\ \A s \in Selectors : Layer!Parts(s) \subseteq Selectors
  BY ResearchAssumption DEF Layer!SelectorsAssumption
<1>4. SUFFICES ASSUME NEW s \in Wrong, Layer!Parts(s) \cap Wrong = {} PROVE FALSE
  <2>1. SUFFICES ASSUME ~Right(sel) PROVE FALSE
    BY <1>1, <1>2
  <2>2. sel \in Wrong /\ Wrong \in SUBSET Selectors
    BY <2>1
  <2> HIDE DEF Wrong
  <2> QED BY <1>3, <2>2
<1>5. s \in Selectors /\ Layer!Leaves[s] \subseteq Layer!Leaves[sel] /\ ~Right(s)
  OBVIOUS
<1>6. ASSUME NEW part \in Layer!Parts(s)
      PROVE  part \in Selectors /\ Right(part) /\ f[part] \in Truths /\ Layer!Leaves[part] \subseteq Layer!Leaves[s]
  <2>1. part \in Selectors /\ part \notin Wrong
    BY <1>3, <1>4, <1>5
  <2>2. Layer!Leaves[s] = UNION {Layer!Leaves[x] : x \in Layer!Parts(s)}
    BY <1>5, LeavesOf
  <2>3. Layer!Leaves[part] \subseteq Layer!Leaves[s]
    BY <2>2
  <2> HIDE DEF Right
  <2> QED BY <1>5, <2>1, <2>3
<1>7. f[s] = Worth(s, f, t, members) /\ h[s] = Truth(s, h, told, guess) /\ Layer!Plain[s] = PlainBy(s, Layer!Plain)
  BY <1>1, <1>2, <1>5, PlainOf
<1> HIDE DEF Wrong
<1>8. ASSUME Sharp(s), NEW part \in Layer!Parts(s)
      PROVE  Up(part) /\ Down(part)
  <2>1. Sharp(part)
    BY <1>6, <1>8
  <2> QED BY <1>6, <2>1
<1>9. ASSUME Layer!Plain[s], s.type # "not", NEW part \in Layer!Parts(s)
      PROVE  Up(part)
  <2>1. Layer!Plain[part]
    BY <1>7, <1>9 DEF PlainBy
  <2> QED BY <1>6, <2>1
<1>10. \A part \in Layer!Parts(s) : f[part] \in {"true", "false", "unknown"}
  BY <1>6 DEF Truths
<1> DEFINE P == {f[part] : part \in Layer!Parts(s)}
<1>11. CASE s.type = "and"
  <2>1. f[s] = Layer!Combine(P, "false", "true")
    BY <1>7, <1>11 DEF Worth
  <2>2. h[s] = (\A part \in Layer!Parts(s) : h[part])
    BY <1>7, <1>11 DEF Truth
  <2>3. f[s] = "true" => \A part \in Layer!Parts(s) : f[part] = "true"
    BY <1>10, <2>1 DEF Layer!Combine
  <2>4. f[s] = "false" => \E part \in Layer!Parts(s) : f[part] = "false"
    BY <2>1 DEF Layer!Combine
  <2>5. Layer!Plain[s] => Up(s)
    BY <1>9, <1>11, <2>2, <2>3
  <2>6. Sharp(s) => Up(s) /\ Down(s)
    BY <1>8, <2>2, <2>3, <2>4
  <2> QED BY <1>5, <2>5, <2>6
<1>12. CASE s.type = "or"
  <2>1. f[s] = Layer!Combine(P, "true", "false")
    BY <1>7, <1>12 DEF Worth
  <2>2. h[s] = (\E part \in Layer!Parts(s) : h[part])
    BY <1>7, <1>12 DEF Truth
  <2>3. f[s] = "false" => \A part \in Layer!Parts(s) : f[part] = "false"
    BY <1>10, <2>1 DEF Layer!Combine
  <2>4. f[s] = "true" => \E part \in Layer!Parts(s) : f[part] = "true"
    BY <2>1 DEF Layer!Combine
  <2>5. Layer!Plain[s] => Up(s)
    BY <1>9, <1>12, <2>2, <2>4
  <2>6. Sharp(s) => Up(s) /\ Down(s)
    BY <1>8, <2>2, <2>3, <2>4
  <2> QED BY <1>5, <2>5, <2>6
<1>13. CASE s.type = "not"
  <2>1. s.inner \in Layer!Parts(s)
    BY <1>13 DEF Layer!Parts
  <2>2. f[s] = Layer!Negate(f[s.inner])
    BY <1>7, <1>13 DEF Worth
  <2>3. h[s] = ~h[s.inner]
    BY <1>7, <1>13 DEF Truth
  <2>4. /\ f[s] = "true" => f[s.inner] = "false"
        /\ f[s] = "false" => f[s.inner] = "true"
    BY <2>2 DEF Layer!Negate
  <2>5. Layer!Plain[s] => Sharp(s.inner)
    BY <1>7, <1>13 DEF PlainBy
  <2>6. Sharp(s.inner) => Up(s.inner) /\ Down(s.inner)
    BY <1>6, <2>1
  <2>7. Layer!Plain[s] => Up(s)
    BY <2>3, <2>4, <2>5, <2>6
  <2>8. Sharp(s) => Up(s) /\ Down(s)
    BY <1>8, <2>1, <2>3, <2>4
  <2> QED BY <1>5, <2>7, <2>8
<1>14. CASE s.type \notin {"and", "or", "not"}
  <2>1. Layer!Parts(s) = {}
    BY <1>14 DEF Layer!Parts
  <2>2. s \in Layer!Leaves[sel] /\ Layer!Leaves[s] = {s}
    BY <1>5, <2>1, LeavesOf
  <2>3. f[s] = Layer!Leaf(s, t, members)
    BY <1>7, <1>14 DEF Worth
  <2>4. told[s] # "unknown" => h[s] = (told[s] = "true")
    BY <1>7, <1>14 DEF Truth
  <2>5. \/ told[s] = f[s]
        \/ s.type = "top_k" /\ told[s] = "unknown" /\ f[s] = "false"
    BY <2>2, <2>3
  <2>6. Up(s)
    BY <2>4, <2>5
  <2>7. Sharp(s) => Down(s)
    <3>1. Sharp(s) => s.type # "top_k"
      BY <2>2
    <3> QED BY <2>4, <2>5, <3>1
  <2> QED BY <1>5, <2>6, <2>7
<1> QED
  BY <1>11, <1>12, <1>13, <1>14

(* Missing values make nobody a member of a segment (evaluate, of the      *)
(* segment registry): when a selector without a top-k leaf under a         *)
(* negation is true of a ticker, it is true however the embeddings that    *)
(* failed and the attributes that were never written turn out.             *)
THEOREM MembershipIsSoundAlways == ResearchSpec => []MembershipIsSound
<1>1. ResearchInit => MembershipIsSound
  BY DEF ResearchInit, Layer!Init, MembershipIsSound, Layer!MembershipIsSound
<1>2. MembershipIsSound /\ [ResearchNext]_researchVars => MembershipIsSound'
  <2> SUFFICES ASSUME MembershipIsSound, [ResearchNext]_researchVars, focus = "layer"
               PROVE  Layer!MembershipIsSound'
    BY OtherFocus DEF MembershipIsSound
  <2>1. Layer!Next \/ UNCHANGED layerVars
    BY DEF ResearchNext, researchVars
  <2>2. UNCHANGED <<scalars, vectors>> =>
          \A l, t, members : Layer!Known(l, t, members)' = Layer!Known(l, t, members)
    BY DEF Layer!Known, Layer!Leaf, Layer!Score
  <2>3. CASE answer' = None
    BY <2>3 DEF Layer!MembershipIsSound
  <2>4. CASE UNCHANGED layerVars
    <3>1. answer' = answer /\ UNCHANGED <<scalars, vectors>>
      BY <2>4 DEF layerVars
    <3> QED BY <2>2, <3>1 DEF MembershipIsSound, Layer!MembershipIsSound, Layer!Certain
  <2>5. ASSUME NEW t \in Tickers, NEW p \in Policies, Layer!Resolve(t, p)
        PROVE  Layer!MembershipIsSound'
    <3>1. PICK members \in [Layer!Concepts -> SUBSET Tickers] :
            /\ answer'.ticker = t /\ answer'.policy = p /\ answer'.members = members
            /\ answer'.matched = {s \in DOMAIN p.segments :
                                     Layer!Evaluate(p.segments[s].selector, t, members) = "true"}
            /\ \A c \in Layer!Concepts :
                  IF Layer!TopKUsages(p.segments, c) = {} THEN members[c] = {}
                  ELSE members[c] \in Layer!TopK(c, Layer!Largest(Layer!TopKUsages(p.segments, c)))
      BY <2>5 DEF Layer!Resolve
    <3>2. \A l, u, m : Layer!Known(l, u, m)' = Layer!Known(l, u, m)
      BY <2>2, <2>5 DEF Layer!Resolve
    <3>3. \A c \in Layer!Concepts : t \in members[c] => Layer!Score(t, c) # None
      BY <3>1 DEF Layer!TopK
    <3>4. SUFFICES ASSUME NEW s \in answer'.matched, Layer!Plain[p.segments[s].selector],
                          NEW guess \in SUBSET Layer!Leaves[p.segments[s].selector]
                   PROVE  Layer!Holds(p.segments[s].selector,
                                [l \in Layer!Leaves[p.segments[s].selector] |-> Layer!Known(l, t, members)], guess)
      BY <3>1, <3>2 DEF Layer!MembershipIsSound, Layer!Certain
    <3> DEFINE sel == p.segments[s].selector
               told == [l \in Layer!Leaves[sel] |-> Layer!Known(l, t, members)]
    <3>5. s \in DOMAIN p.segments /\ Layer!Evaluate(sel, t, members) = "true"
      BY <3>1
    <3>6. sel \in Selectors /\ Layer!Plain[sel]
      BY <3>4, <3>5, ResearchAssumption DEF Layer!PoliciesAssumption
    <3>7. ASSUME NEW l \in Layer!Leaves[sel]
          PROVE  \/ told[l] = Layer!Leaf(l, t, members)
                 \/ l.type = "top_k" /\ told[l] = "unknown" /\ Layer!Leaf(l, t, members) = "false"
      <4>1. told[l] = Layer!Known(l, t, members)
        OBVIOUS
      <4>2. l \in Selectors
        BY <3>6, LeavesAreSelectors
      <4> HIDE DEF told, sel
      <4> QED BY <3>3, <4>1, <4>2, KnownLeaf
    <3> HIDE DEF told, sel
    <3>8. Layer!Holds(sel, told, guess)
      BY <3>5, <3>6, <3>7, SelectorSound
    <3> QED BY <3>8 DEF told, sel
  <2>6. CASE Layer!Change \/ (\E e \in BOOLEAN : Layer!StartBuild(e)) \/ Layer!Write \/ Layer!Die \/ Layer!Forget
    <3>1. answer' = None
      BY <2>6 DEF Layer!Change, Layer!StartBuild, Layer!Write, Layer!Die, Layer!Forget
    <3> QED BY <2>3, <3>1
  <2> QED BY <2>1, <2>4, <2>5, <2>6 DEF Layer!Next
<1> QED
  BY <1>1, <1>2, PTL DEF ResearchSpec

-----------------------------------------------------------------------------
(* ----- The scan of the disclosure list.                                  *)

(* Cardinality is the same from within the instance.                       *)
LEMMA ScanSets ==
  \A S : Scan!Cardinality(S) = Cardinality(S)
  BY DEF Cardinality, Scan!Cardinality

(* A standing filing is an event, or its page is past the last one read.   *)
Settled(i) == events[i] > 0 \/ Scan!Newer(i) >= MaxPages * PageSize

(* The filings a complete scan answers for.                                *)
Standing(i) == i \in 1 .. base /\ filed[i].hit /\ filed[i].day >= Scan!First(span)

(* The windows before the current one are settled; in it, the pages so far *)
(* are.                                                                    *)
Unread(i) == Scan!Above(Scan!Listed(win, Scan!WindowEnd), i) \div PageSize >= page - 1

(* As long as the scan has lost nothing, a filing it answers for stands in *)
(* a window still to come, on a page still to be read, or is settled.      *)
ScanInv ==
    /\ filed \in Seq(Scan!Filing) /\ Len(filed) <= MaxFilings
    /\ base \in Nat /\ base <= Len(filed) /\ span \in Nat /\ who \in Consumers
    /\ events \in [1 .. MaxFilings -> Nat]
    /\ page \in Nat \ {0} /\ win \in Int
    /\ outcome \in {"scanning", "complete"} =>
          \A i : Standing(i) /\ filed[i].day < win => Settled(i)
    /\ outcome = "scanning" =>
          /\ IF who \in OneCompany THEN win = Scan!First(span)
             ELSE \E k \in Nat : win = Scan!First(span) + k * Window
          /\ \A i : Standing(i) /\ filed[i].day \in win .. Scan!WindowEnd =>
                events[i] > 0 \/ Unread(i)
    /\ outcome = "complete" => win = Today + 1

(* What the scan's parameters are.                                         *)
LEMMA ScanConstants ==
  /\ Today \in Nat /\ Window \in Nat /\ Window # 0 /\ PageSize \in Nat /\ PageSize # 0
  /\ MaxPages \in Nat /\ MaxFilings \in Nat /\ \A c \in Consumers : Reach[c] \in Nat
  /\ \A a \in Archives : a \in Seq(Scan!Filing) /\ Len(a) <= MaxFilings
  /\ MaxPages * PageSize \in Nat
<1>1. /\ Today \in Nat /\ Window \in Nat /\ Window # 0 /\ PageSize \in Nat /\ PageSize # 0
      /\ MaxPages \in Nat /\ MaxFilings \in Nat /\ \A c \in Consumers : Reach[c] \in Nat
      /\ \A a \in Archives : a \in Seq(Scan!Filing) /\ Len(a) <= MaxFilings
  BY ResearchAssumption DEF Scan!ScanAssumption
<1> QED
  BY <1>1

(* A filing of the list, and how many are above it.                        *)
LEMMA AboveType ==
  ASSUME filed \in Seq(Scan!Filing), NEW a, NEW b, NEW i
  PROVE  /\ Scan!Above(Scan!Listed(a, b), i) = Cardinality({j \in Scan!Listed(a, b) : j > i})
         /\ Scan!Above(Scan!Listed(a, b), i) \in Nat
         /\ IsFiniteSet(Scan!Listed(a, b)) /\ Cardinality(Scan!Listed(a, b)) \in Nat
         /\ Scan!Listed(a, b) \subseteq 1 .. Len(filed)
         /\ i \in Scan!Listed(a, b) => Scan!Above(Scan!Listed(a, b), i) < Cardinality(Scan!Listed(a, b))
<1> DEFINE W == Scan!Listed(a, b)
           U == {j \in W : j > i}
<1>1. W \subseteq 1 .. Len(filed) /\ Len(filed) \in Nat
  BY DEF Scan!Listed
<1>2. Scan!Above(W, i) = Cardinality(U)
  BY ScanSets DEF Scan!Above
<1>3. U \subseteq W /\ (i \in W => i \notin U)
  <2>1. i \in W => i \in Nat
    BY <1>1
  <2> QED BY <2>1
<1> HIDE DEF W, U
<1>4. IsFiniteSet(W) /\ Cardinality(W) \in Nat
  <2>1. IsFiniteSet(1 .. Len(filed))
    BY <1>1, FS_Interval
  <2> QED BY <1>1, <2>1, FS_Subset, FS_CardinalityType
<1>5. IsFiniteSet(U) /\ Cardinality(U) \in Nat /\ Cardinality(U) <= Cardinality(W)
      /\ (Cardinality(U) = Cardinality(W) => U = W)
  BY <1>3, <1>4, FS_Subset, FS_CardinalityType
<1>6. i \in W => Cardinality(U) < Cardinality(W)
  BY <1>3, <1>4, <1>5
<1> QED
  BY <1>1, <1>2, <1>4, <1>5, <1>6 DEF W, U

(* How many filings of its window are newer than one.                      *)
LEMMA NewerType ==
  ASSUME filed \in Seq(Scan!Filing), NEW i \in Nat
  PROVE  LET N == {j \in i + 1 .. Len(filed) : filed[j].day \in Scan!WindowOf(i)}
         IN  /\ Scan!Newer(i) = Cardinality(N) /\ Scan!Newer(i) \in Nat
             /\ IsFiniteSet(N)
<1> DEFINE N == {j \in i + 1 .. Len(filed) : filed[j].day \in Scan!WindowOf(i)}
<1>1. N \subseteq i + 1 .. Len(filed) /\ Len(filed) \in Nat /\ i + 1 \in Int
  OBVIOUS
<1>2. Scan!Newer(i) = Cardinality(N)
  BY ScanSets DEF Scan!Newer
<1> HIDE DEF N
<1>3. IsFiniteSet(N)
  <2>1. IsFiniteSet(i + 1 .. Len(filed))
    BY <1>1, FS_Interval
  <2> QED BY <1>1, <2>1, FS_Subset
<1> QED
  BY <1>2, <1>3, FS_CardinalityType DEF N

(* Within the current window, newer and above are the same.                *)
LEMMA NewerIsAbove ==
  ASSUME ScanInv, outcome = "scanning", NEW i \in 1 .. Len(filed),
         filed[i].day \in win .. Scan!WindowEnd
  PROVE  Scan!Newer(i) = Scan!Above(Scan!Listed(win, Scan!WindowEnd), i)
<1> DEFINE day_(j) == filed[j].day
           F == Scan!First(span)
           E == Scan!WindowEnd
           N == {j \in i + 1 .. Len(filed) : day_(j) \in Scan!WindowOf(i)}
           W == Scan!Listed(win, E)
           U == {j \in W : j > i}
<1>1. /\ filed \in Seq(Scan!Filing) /\ span \in Nat /\ win \in Int
      /\ IF who \in OneCompany THEN win = F ELSE \E k \in Nat : win = F + k * Window
  BY DEF ScanInv
<1>2. /\ DOMAIN filed = 1 .. Len(filed) /\ Len(filed) \in Nat
      /\ \A j \in 1 .. Len(filed) : day_(j) \in 0 .. Today
  <2>1. \A j \in 1 .. Len(filed) : filed[j] \in Scan!Filing
    BY <1>1
  <2>2. \A f \in Scan!Filing : f.day \in 0 .. Today
    BY DEF Scan!Filing
  <2> QED BY <1>1, <2>1, <2>2
<1>3. F = Today - span /\ F \in Int
  BY <1>1, ScanConstants DEF Scan!First
<1>4. \A j \in 1 .. Len(filed) : day_(j) \in Scan!WindowOf(i) <=> day_(j) \in win .. E
  <2>1. CASE who \in OneCompany
    <3>1. Scan!WindowOf(i) = F .. Today
      BY <2>1 DEF Scan!WindowOf
    <3>2. E = Today
      BY <2>1 DEF Scan!WindowEnd
    <3>3. win = F
      BY <1>1, <2>1
    <3> QED BY <3>1, <3>2, <3>3
  <2>2. CASE who \notin OneCompany
    <3>1. PICK k \in Nat : win = F + k * Window
      BY <1>1, <2>2
    <3> DEFINE d == day_(i)
               r == d - win
               x == k * Window
    <3>2. x \in Nat /\ win = F + x
      BY <3>1, ScanConstants
    <3>3. E = IF win + Window - 1 < Today THEN win + Window - 1 ELSE Today
      BY <2>2 DEF Scan!WindowEnd
    <3>4. d \in win .. E /\ d \in 0 .. Today
      BY <1>2
    <3> HIDE DEF d, E, F
    <3>5. r \in 0 .. (Window - 1) /\ d - F = x + r /\ d - F \in Nat
      <4> HIDE DEF x
      <4> QED BY <1>1, <1>3, <3>2, <3>3, <3>4, ScanConstants
    <3>6. x = Window * k
      BY ScanConstants
    <3>7. (d - F) \div Window = k
      <4> DEFINE a == d - F
      <4>1. a = Window * k + r /\ a \in Nat
        <5> HIDE DEF r
        <5> QED BY <3>5, <3>6
      <4> HIDE DEF a, r
      <4>2. a \div Window = k
        BY <3>1, <3>5, <4>1, ScanConstants, DivisionUnique
      <4> QED BY <4>2 DEF a
    <3>8. Scan!WindowOf(i) = F + k * Window .. F + (k + 1) * Window - 1
      BY <2>2, <3>7 DEF Scan!WindowOf, d, F
    <3>9. (k + 1) * Window = x + Window
      BY ScanConstants
    <3> HIDE DEF x
    <3>10. Scan!WindowOf(i) = win .. win + Window - 1
      BY <1>3, <3>2, <3>8, <3>9, ScanConstants DEF x
    <3> HIDE DEF day_
    <3> QED BY <1>1, <1>2, <3>3, <3>10, ScanConstants
  <2> QED BY <2>1, <2>2
<1>5. W = {j \in 1 .. Len(filed) : day_(j) \in win .. E}
  BY <1>2 DEF Scan!Listed
<1>6. \A j : j \in i + 1 .. Len(filed) <=> j \in 1 .. Len(filed) /\ j > i
  BY <1>2
<1>7. N = U
  <2> HIDE DEF day_, E, W
  <2> QED BY <1>4, <1>5, <1>6
<1>8. Scan!Newer(i) = Cardinality(N) /\ Scan!Above(W, i) = Cardinality(U)
  <2> HIDE DEF day_, E
  <2>1. i \in Nat
    OBVIOUS
  <2>2. Scan!Newer(i) = Cardinality(N)
    BY <1>1, <2>1, NewerType DEF day_
  <2>3. Scan!Above(W, i) = Cardinality(U)
    BY <1>1, AboveType
  <2> QED BY <2>2, <2>3
<1> HIDE DEF N, U
<1> QED
  BY <1>7, <1>8

(* A new filing only moves the others down the list.                       *)
LEMMA FiledAbove ==
  ASSUME filed \in Seq(Scan!Filing), filed' \in Seq(Scan!Filing), Len(filed) <= Len(filed'),
         \A i \in 1 .. Len(filed) : filed'[i] = filed[i],
         who' = who, span' = span
  PROVE  /\ \A i \in 1 .. Len(filed) : Scan!Newer(i)' >= Scan!Newer(i) /\ Scan!Newer(i) \in Nat
                                       /\ Scan!Newer(i)' \in Nat
         /\ \A a, b, i : LET old == Scan!Above(Scan!Listed(a, b), i)
                         IN  old' >= old /\ old \in Nat /\ old' \in Nat
<1>1. /\ DOMAIN filed = 1 .. Len(filed) /\ Len(filed) \in Nat
      /\ DOMAIN filed' = 1 .. Len(filed') /\ Len(filed') \in Nat
  OBVIOUS
<1>2. ASSUME NEW i \in 1 .. Len(filed)
      PROVE  Scan!Newer(i)' >= Scan!Newer(i) /\ Scan!Newer(i) \in Nat /\ Scan!Newer(i)' \in Nat
  <2> DEFINE N == {j \in i + 1 .. Len(filed) : filed[j].day \in Scan!WindowOf(i)}
             M == {j \in i + 1 .. Len(filed') : filed'[j].day \in Scan!WindowOf(i)}
  <2>1. Scan!WindowOf(i)' = Scan!WindowOf(i)
    BY <1>2 DEF Scan!WindowOf
  <2>2. Scan!Newer(i) = Cardinality(N)
    BY ScanSets DEF Scan!Newer
  <2>3. Scan!Newer(i)' = Cardinality(M)
    BY <2>1, ScanSets DEF Scan!Newer
  <2>4. \A j \in i + 1 .. Len(filed) : j \in i + 1 .. Len(filed') /\ filed'[j] = filed[j]
    BY <1>1
  <2>5. N \subseteq M
    BY <2>4
  <2>6. M \subseteq i + 1 .. Len(filed') /\ i + 1 \in Int
    OBVIOUS
  <2> HIDE DEF N, M
  <2>7. IsFiniteSet(M)
    <3>1. IsFiniteSet(i + 1 .. Len(filed'))
      BY <1>1, <2>6, FS_Interval
    <3> QED BY <2>6, <3>1, FS_Subset
  <2>8. /\ Cardinality(N) <= Cardinality(M) /\ Cardinality(N) \in Nat /\ Cardinality(M) \in Nat
    BY <2>5, <2>7, FS_Subset, FS_CardinalityType
  <2> QED BY <2>2, <2>3, <2>8
<1>3. ASSUME NEW a, NEW b, NEW i
      PROVE  LET old == Scan!Above(Scan!Listed(a, b), i)
             IN  old' >= old /\ old \in Nat /\ old' \in Nat
  <2> DEFINE N == {j \in Scan!Listed(a, b) : j > i}
             M == {j \in Scan!Listed(a, b)' : j > i}
             old == Scan!Above(Scan!Listed(a, b), i)
  <2>1. old = Cardinality(N) /\ old' = Cardinality(M)
    BY ScanSets DEF Scan!Above
  <2>2. Scan!Listed(a, b) \subseteq Scan!Listed(a, b)' /\ Scan!Listed(a, b)' \subseteq 1 .. Len(filed')
    BY <1>1 DEF Scan!Listed
  <2>3. N \subseteq M /\ M \subseteq 1 .. Len(filed')
    BY <2>2
  <2> HIDE DEF N, M, old
  <2>4. IsFiniteSet(M)
    <3>1. IsFiniteSet(1 .. Len(filed'))
      BY <1>1, FS_Interval
    <3> QED BY <2>3, <3>1, FS_Subset
  <2>5. /\ Cardinality(N) <= Cardinality(M) /\ Cardinality(N) \in Nat /\ Cardinality(M) \in Nat
    BY <2>3, <2>4, FS_Subset, FS_CardinalityType
  <2> QED BY <2>1, <2>5 DEF old
<1> QED
  BY <1>2, <1>3

(* Before the first page of a window, nothing of it has been missed.       *)
LEMMA FirstPage ==
  ASSUME filed' \in Seq(Scan!Filing), page' = 1, NEW i
  PROVE  Unread(i)'
<1> DEFINE a == Scan!Above(Scan!Listed(win, Scan!WindowEnd), i)
           S == {j \in Scan!Listed(win, Scan!WindowEnd)' : j > i}
<1>1. a' = Cardinality(S)
  BY ScanSets DEF Scan!Above
<1>2. S \subseteq 1 .. Len(filed')
  BY DEF Scan!Listed
<1> HIDE DEF S, a
<1>3. a' \in Nat
  <2>1. Len(filed') \in Nat
    OBVIOUS
  <2>2. IsFiniteSet(1 .. Len(filed'))
    BY <2>1, FS_Interval
  <2> QED BY <1>1, <1>2, <2>2, FS_Subset, FS_CardinalityType
<1>4. a' \div PageSize \in Nat
  <2>1. \A x \in Nat : x \div PageSize \in Nat
    BY ScanConstants
  <2> QED BY <1>3, <2>1
<1>5. a' \div PageSize >= page' - 1
  <2> DEFINE x == a' \div PageSize
  <2> HIDE DEF x
  <2>1. x \in Nat => x >= page' - 1
    OBVIOUS
  <2> QED BY <1>4, <2>1 DEF x
<1> QED
  BY <1>5 DEF Unread, a

(* The invariant when an attempt begins.                                   *)
LEMMA AttemptStarts ==
  ASSUME filed' \in Seq(Scan!Filing), Len(filed') <= MaxFilings, base' = Len(filed'),
         who' \in Consumers, span' \in Nat, win' = Today - span',
         events' = Scan!NoEvents, page' = 1, outcome' = "scanning"
  PROVE  ScanInv'
<1>1. Scan!First(span)' = Today - span' /\ win' \in Int /\ Len(filed') \in Nat
  BY ScanConstants DEF Scan!First
<1>2. events' \in [1 .. MaxFilings -> Nat]
  BY DEF Scan!NoEvents
<1>3. IF who' \in OneCompany THEN win' = Scan!First(span)'
      ELSE \E k \in Nat : win' = Scan!First(span)' + k * Window
  <2>1. win' = Scan!First(span)' + 0 * Window
    BY <1>1, ScanConstants
  <2> QED BY <1>1, <2>1
<1>4. ASSUME NEW i, Standing(i)'
      PROVE  filed[i].day' >= win' /\ Unread(i)'
  <2>1. filed[i].day' >= win'
    BY <1>1, <1>4 DEF Standing, Scan!First
  <2>2. Unread(i)'
    BY FirstPage
  <2> QED BY <2>1, <2>2
<1>5. \A i : Standing(i)' /\ filed[i].day' < win' => Settled(i)'
  <2> SUFFICES ASSUME NEW i, Standing(i)', filed[i].day' < win' PROVE FALSE
    OBVIOUS
  <2>1. filed[i].day' >= win' /\ filed[i].day' \in Int
    <3>1. i \in 1 .. Len(filed')
      BY DEF Standing
    <3>2. filed'[i] \in Scan!Filing
      BY <3>1
    <3>3. \A f \in Scan!Filing : f.day \in 0 .. Today
      BY DEF Scan!Filing
    <3> QED BY <1>4, <3>2, <3>3
  <2> QED BY <1>1, <2>1
<1> QED
  BY <1>1, <1>2, <1>3, <1>4, <1>5 DEF ScanInv

(* The first request has everything before it.                             *)
LEMMA ScanInvInit == Scan!Init => ScanInv
<1> SUFFICES ASSUME Scan!Init PROVE ScanInv
  OBVIOUS
<1>1. /\ filed \in Seq(Scan!Filing) /\ Len(filed) <= MaxFilings /\ base = Len(filed)
      /\ who \in Consumers /\ span \in Nat /\ win = Today - span
      /\ events = Scan!NoEvents /\ page = 1 /\ outcome = "scanning"
  BY ScanConstants DEF Scan!Init, Scan!First
<1>2. Scan!First(span) = Today - span /\ win \in Int /\ Len(filed) \in Nat
  BY <1>1, ScanConstants DEF Scan!First
<1>3. events \in [1 .. MaxFilings -> Nat]
  BY <1>1 DEF Scan!NoEvents
<1>4. IF who \in OneCompany THEN win = Scan!First(span)
      ELSE \E k \in Nat : win = Scan!First(span) + k * Window
  <2>1. win = Scan!First(span) + 0 * Window
    BY <1>1, <1>2, ScanConstants
  <2> QED BY <1>1, <1>2, <2>1
<1>5. ASSUME NEW i, Standing(i) PROVE filed[i].day >= win /\ filed[i].day \in Int /\ Unread(i)
  <2>1. filed[i].day >= win
    BY <1>1, <1>2, <1>5 DEF Standing
  <2>2. filed[i].day \in Int
    <3>1. i \in 1 .. Len(filed)
      BY <1>1, <1>5 DEF Standing
    <3>2. filed[i] \in Scan!Filing
      BY <1>1, <3>1
    <3>3. \A f \in Scan!Filing : f.day \in 0 .. Today
      BY DEF Scan!Filing
    <3> QED BY <3>2, <3>3
  <2> DEFINE a == Scan!Above(Scan!Listed(win, Scan!WindowEnd), i)
             x == a \div PageSize
  <2>3. a \in Nat
    BY <1>1, AboveType
  <2>4. x \in Nat
    BY <2>3, ScanConstants
  <2> HIDE DEF x
  <2>5. x >= page - 1
    BY <1>1, <2>4
  <2> QED BY <2>1, <2>2, <2>5 DEF Unread, x
<1>6. \A i : ~(Standing(i) /\ filed[i].day < win)
  BY <1>2, <1>5
<1> QED
  BY <1>1, <1>2, <1>3, <1>4, <1>5, <1>6 DEF ScanInv

(* A filing moves no other to a page that was read.                        *)
LEMMA FileKeeps ==
  ASSUME ScanInv, NEW hit \in BOOLEAN, Scan!File(hit)
  PROVE  ScanInv'
<1> DEFINE new == [day |-> Today, hit |-> hit]
           n == Len(filed)
<1>1. /\ filed \in Seq(Scan!Filing) /\ n <= MaxFilings
      /\ base \in Nat /\ base <= n /\ span \in Nat /\ who \in Consumers
      /\ events \in [1 .. MaxFilings -> Nat]
      /\ page \in Nat \ {0} /\ win \in Int
  BY DEF ScanInv
<1>2. /\ outcome = "scanning" /\ n < MaxFilings /\ filed' = Append(filed, new)
      /\ who' = who /\ span' = span /\ win' = win /\ page' = page /\ events' = events
      /\ base' = base /\ outcome' = outcome
  BY DEF Scan!File
<1>3. new \in Scan!Filing
  BY ScanConstants DEF Scan!Filing
<1>4. /\ n \in Nat /\ filed' \in Seq(Scan!Filing) /\ Len(filed') = n + 1
      /\ \A i \in 1 .. n : filed'[i] = filed[i]
  <2> HIDE DEF new
  <2> QED BY <1>1, <1>2, <1>3
<1>5. Len(filed') <= MaxFilings
  BY <1>2, <1>4, ScanConstants
<1> HIDE DEF new, n
<1>6. \A i : Standing(i)' => i \in 1 .. n /\ filed'[i] = filed[i] /\ Standing(i)
  <2>1. \A i \in 1 .. base : i \in 1 .. n
    BY <1>1, <1>4
  <2> QED BY <1>2, <1>4, <2>1 DEF Standing, Scan!First
<1>7. \A i \in 1 .. n : Scan!Newer(i)' >= Scan!Newer(i) /\ Scan!Newer(i) \in Nat /\ Scan!Newer(i)' \in Nat
  BY <1>1, <1>2, <1>4, FiledAbove DEF n
<1>8. \A i \in 1 .. n : Settled(i) => Settled(i)'
  BY <1>2, <1>7, ScanConstants DEF Settled
<1>9. Scan!WindowEnd' = Scan!WindowEnd
  BY <1>2 DEF Scan!WindowEnd
<1>10. \A i : Unread(i) => Unread(i)'
  <2> SUFFICES ASSUME NEW i, Unread(i) PROVE Unread(i)'
    OBVIOUS
  <2> DEFINE a == Scan!Above(Scan!Listed(win, Scan!WindowEnd), i)
  <2>1. \A x, y : LET old == Scan!Above(Scan!Listed(x, y), i)
                  IN  old' >= old /\ old \in Nat /\ old' \in Nat
    BY <1>1, <1>2, <1>4, FiledAbove DEF n
  <2>2. PICK w, e : w = win /\ e = Scan!WindowEnd
    OBVIOUS
  <2>3. a = Scan!Above(Scan!Listed(w, e), i) /\ a' = Scan!Above(Scan!Listed(w, e), i)'
    BY <1>2, <1>9, <2>2 DEF Scan!Above, Scan!Listed
  <2> HIDE DEF a
  <2>4. a' >= a /\ a \in Nat /\ a' \in Nat
    BY <2>1, <2>3
  <2>5. a \div PageSize <= a' \div PageSize /\ a \div PageSize \in Nat /\ a' \div PageSize \in Nat
    BY <2>4, ScanConstants, DivisionMonotone
  <2>6. a \div PageSize >= page - 1
    BY DEF Unread, a
  <2>7. a' \div PageSize >= page' - 1
    <3> DEFINE x == a \div PageSize
               y == a' \div PageSize
    <3>1. x <= y /\ x \in Nat /\ y \in Nat /\ x >= page - 1 /\ page' = page
      BY <1>2, <2>5, <2>6
    <3> HIDE DEF x, y
    <3>2. y >= page' - 1
      BY <1>1, <3>1
    <3> QED BY <3>2 DEF y
  <2> QED BY <2>7 DEF Unread, a
<1>11. \A i : Standing(i)' /\ filed[i].day' < win' => Settled(i)'
  BY <1>2, <1>6, <1>8 DEF ScanInv
<1>12. IF who' \in OneCompany THEN win' = Scan!First(span)'
       ELSE \E k \in Nat : win' = Scan!First(span)' + k * Window
  <2>1. Scan!First(span)' = Scan!First(span)
    BY <1>2 DEF Scan!First
  <2>2. IF who \in OneCompany THEN win = Scan!First(span)
        ELSE \E k \in Nat : win = Scan!First(span) + k * Window
    BY <1>2 DEF ScanInv
  <2> QED BY <1>2, <2>1, <2>2
<1>13. \A i : Standing(i)' /\ filed[i].day' \in win' .. Scan!WindowEnd' => events'[i] > 0 \/ Unread(i)'
  BY <1>2, <1>6, <1>9, <1>10 DEF ScanInv
<1>14. base' <= Len(filed')
  BY <1>1, <1>2, <1>4
<1> QED
  BY <1>1, <1>2, <1>4, <1>5, <1>11, <1>12, <1>13, <1>14 DEF ScanInv

(* A page that arrives: what was to be read of it is read, and after the   *)
(* last page of a window nothing that stood in it is left.                 *)
LEMMA ReceiveKeeps ==
  ASSUME ScanInv, Scan!Receive
  PROVE  ScanInv'
<1> DEFINE E == Scan!WindowEnd
           list == Scan!Listed(win, E)
           items == Scan!Page(list, page)
           F == Scan!First(span)
           above(i) == Scan!Above(list, i)
<1>1. /\ filed \in Seq(Scan!Filing) /\ Len(filed) <= MaxFilings
      /\ base \in Nat /\ base <= Len(filed) /\ span \in Nat /\ who \in Consumers
      /\ events \in [1 .. MaxFilings -> Nat]
      /\ page \in Nat \ {0} /\ win \in Int
      /\ \A i : Standing(i) /\ filed[i].day < win => Settled(i)
      /\ IF who \in OneCompany THEN win = F ELSE \E k \in Nat : win = F + k * Window
      /\ \A i : Standing(i) /\ filed[i].day \in win .. E => events[i] > 0 \/ Unread(i)
  BY DEF ScanInv, Scan!Receive
<1>2. /\ filed' = filed /\ who' = who /\ span' = span /\ base' = base
      /\ events' = Scan!Matched(items)
      /\ outcome = "scanning"
      /\ ~Scan!LastPage(list) => page' = page + 1 /\ win' = win /\ outcome' = outcome
      /\ Scan!LastPage(list) => /\ page' = 1 /\ win' = E + 1
                                /\ outcome' = IF E = Today THEN "complete" ELSE outcome
  BY DEF Scan!Receive
<1>3. /\ events' \in [1 .. MaxFilings -> Nat]
      /\ \A i \in 1 .. MaxFilings : events[i] > 0 => events'[i] > 0
      /\ \A i \in 1 .. MaxFilings : i \in items /\ filed[i].hit => events'[i] > 0
  <2> HIDE DEF items
  <2>1. events' = [i \in 1 .. MaxFilings |->
                      IF i \in items /\ filed[i].hit /\ (who \in OneCompany \/ events[i] = 0)
                      THEN events[i] + 1 ELSE events[i]]
    BY <1>1, <1>2 DEF Scan!Matched
  <2> QED BY <1>1, <2>1
<1>4. \A i : /\ Standing(i)' <=> Standing(i)
             /\ Scan!Newer(i)' = Scan!Newer(i)
             /\ Standing(i) => /\ i \in 1 .. MaxFilings /\ i \in 1 .. Len(filed) /\ filed[i].hit
                               /\ filed[i].day \in Int /\ filed[i].day <= Today
  <2>1. \A i : Standing(i)' <=> Standing(i)
    BY <1>2 DEF Standing, Scan!First
  <2>2. \A i : Scan!Newer(i)' = Scan!Newer(i)
    BY <1>2 DEF Scan!Newer, Scan!WindowOf, Scan!First
  <2>3. \A i : Standing(i) => i \in 1 .. MaxFilings /\ i \in 1 .. Len(filed) /\ filed[i].hit
    <3>1. Len(filed) \in Nat
      BY <1>1
    <3> QED BY <1>1, <3>1, ScanConstants DEF Standing
  <2>4. \A i \in 1 .. Len(filed) : filed[i].day \in Int /\ filed[i].day <= Today
    <3>1. \A i \in 1 .. Len(filed) : filed[i] \in Scan!Filing
      BY <1>1
    <3>2. \A f \in Scan!Filing : f.day \in 0 .. Today
      BY DEF Scan!Filing
    <3>3. \A x \in 0 .. Today : x \in Int /\ x <= Today
      BY ScanConstants
    <3> QED BY <3>1, <3>2, <3>3
  <2> QED BY <2>1, <2>2, <2>3, <2>4
<1>5. \A i : above(i) \in Nat /\ above(i) \div PageSize \in Nat
  <2>1. \A x \in Nat : x \div PageSize \in Nat
    BY ScanConstants
  <2>2. \A i : above(i) \in Nat
    BY <1>1, AboveType
  <2> HIDE DEF above
  <2> QED BY <2>1, <2>2
<1>6. ASSUME NEW i, Standing(i), filed[i].day \in win .. E
      PROVE  events'[i] > 0 \/ above(i) \div PageSize >= page
  <2>1. i \in list
    BY <1>1, <1>4, <1>6 DEF Scan!Listed
  <2>2. above(i) \div PageSize = page - 1 => i \in items
    BY <2>1 DEF Scan!Page
  <2>3. events[i] > 0 \/ above(i) \div PageSize >= page - 1
    BY <1>1, <1>6 DEF Unread
  <2> DEFINE x == above(i) \div PageSize
  <2>4. x \in Nat
    BY <1>5
  <2> HIDE DEF x
  <2>5. x >= page - 1 => x = page - 1 \/ x >= page
    BY <1>1, <2>4
  <2> HIDE DEF items
  <2> QED BY <1>3, <1>4, <1>6, <2>2, <2>3, <2>5 DEF x
<1>7. E \in Int /\ E <= Today
  BY <1>1, ScanConstants DEF Scan!WindowEnd
<1>8. \A i \in 1 .. MaxFilings : events'[i] \in Nat
  BY <1>3
<1>9. CASE ~Scan!LastPage(list)
  <2>1. page' = page + 1 /\ win' = win /\ outcome' = "scanning" /\ page' \in Nat \ {0}
    BY <1>1, <1>2, <1>9
  <2>2. E' = E /\ F' = F
    BY <1>2, <2>1 DEF Scan!WindowEnd, Scan!First
  <2>3. \A i : Unread(i)' <=> above(i) \div PageSize >= page
    <3> SUFFICES ASSUME NEW i PROVE Unread(i)' <=> above(i) \div PageSize >= page
      OBVIOUS
    <3>1. Scan!Above(Scan!Listed(win, Scan!WindowEnd), i)' = above(i)
      BY <1>2, <2>1, <2>2 DEF Scan!Above, Scan!Listed
    <3>2. page' - 1 = page
      BY <1>1, <2>1
    <3> HIDE DEF above
    <3> QED BY <3>1, <3>2 DEF Unread
  <2>4. \A i : Standing(i)' /\ filed[i].day' < win' => Settled(i)'
    <3> SUFFICES ASSUME NEW i, Standing(i), filed[i].day < win PROVE Settled(i)'
      BY <1>2, <1>4, <2>1
    <3>1. Settled(i) /\ i \in 1 .. MaxFilings
      BY <1>1, <1>4
    <3> QED BY <1>3, <1>4, <3>1 DEF Settled
  <2>5. \A i : Standing(i)' /\ filed[i].day' \in win' .. E' => events'[i] > 0 \/ Unread(i)'
    <3> SUFFICES ASSUME NEW i, Standing(i), filed[i].day \in win .. E PROVE events'[i] > 0 \/ Unread(i)'
      BY <1>2, <1>4, <2>1, <2>2
    <3> QED BY <1>6, <2>3
  <2>6. IF who' \in OneCompany THEN win' = F' ELSE \E k \in Nat : win' = F' + k * Window
    BY <1>1, <1>2, <2>1, <2>2
  <2> HIDE DEF E, F
  <2> QED BY <1>1, <1>2, <1>3, <2>1, <2>4, <2>5, <2>6 DEF ScanInv, E, F
<1>10. CASE Scan!LastPage(list)
  <2>1. page' = 1 /\ win' = E + 1 /\ page' \in Nat \ {0} /\ win' \in Int
    BY <1>2, <1>7, <1>10
  <2>2. ASSUME NEW i, Standing(i), filed[i].day \in win .. E
        PROVE  Settled(i)'
    <3>1. CASE events'[i] > 0
      BY <3>1 DEF Settled
    <3>2. CASE above(i) \div PageSize >= page
      <4>1. i \in list
        BY <1>1, <1>4, <2>2 DEF Scan!Listed
      <4>2. above(i) < Cardinality(list) /\ Cardinality(list) \in Nat
        BY <1>1, <4>1, AboveType
      <4>3. Scan!TotalPage(list) = (Cardinality(list) + PageSize - 1) \div PageSize
        BY ScanSets DEF Scan!TotalPage
      <4> DEFINE a == above(i)
                 x == a \div PageSize
                 total == Scan!TotalPage(list)
      <4>4. a \in Nat /\ x \in Nat
        BY <1>5
      <4> HIDE DEF list
      <4>5. x < total /\ total \in Nat
        <5> DEFINE n == Cardinality(list)
        <5>1. n \in Nat /\ a < n /\ a \in Nat
          BY <4>2, <4>4
        <5> HIDE DEF n, a
        <5>2. a \div PageSize < (n + PageSize - 1) \div PageSize
              /\ (n + PageSize - 1) \div PageSize \in Nat
          BY <5>1, ScanConstants, PartsCover
        <5> QED BY <4>3, <5>2 DEF n
      <4>6. page >= total \/ page >= MaxPages
        BY <1>10 DEF Scan!LastPage
      <4>7. x >= page
        BY <3>2
      <4>8. a = PageSize * x + (a % PageSize) /\ a % PageSize \in Nat
        <5> HIDE DEF a
        <5> QED BY <4>4, ScanConstants DEF x
      <4> HIDE DEF total, x, a
      <4>9. x >= MaxPages
        BY <1>1, <4>4, <4>5, <4>6, <4>7, ScanConstants
      <4>10. PageSize * x >= MaxPages * PageSize /\ PageSize * x \in Nat
        <5>1. PICK d \in Nat : x = MaxPages + d
          <6>1. x - MaxPages \in Nat /\ x = MaxPages + (x - MaxPages)
            BY <4>4, <4>9, ScanConstants
          <6> QED BY <6>1
        <5>2. PageSize * (MaxPages + d) = MaxPages * PageSize + PageSize * d /\ PageSize * d \in Nat
          BY ScanConstants
        <5> QED BY <5>1, <5>2, ScanConstants
      <4>11. a >= MaxPages * PageSize
        <5> DEFINE u == PageSize * x
                   v == MaxPages * PageSize
                   w == a % PageSize
        <5>1. u >= v /\ u \in Nat /\ v \in Nat /\ w \in Nat /\ a = u + w
          BY <4>8, <4>10, ScanConstants
        <5> HIDE DEF u, v, w
        <5>2. a >= v
          BY <5>1
        <5> QED BY <5>2 DEF v
      <4>12. Scan!Newer(i) = a
        BY <1>2, <1>4, <2>2, NewerIsAbove DEF a, list
      <4> QED BY <1>4, <4>11, <4>12 DEF Settled
    <3> QED BY <1>6, <2>2, <3>1, <3>2
  <2>3. \A i : Standing(i)' /\ filed[i].day' < win' => Settled(i)'
    <3> SUFFICES ASSUME NEW i, Standing(i), filed[i].day < E + 1 PROVE Settled(i)'
      BY <1>2, <1>4, <2>1
    <3>1. CASE filed[i].day < win
      <4>1. Settled(i) /\ i \in 1 .. MaxFilings
        BY <1>1, <1>4, <3>1
      <4> QED BY <1>3, <1>4, <4>1 DEF Settled
    <3>2. CASE ~(filed[i].day < win)
      <4>1. filed[i].day \in win .. E
        <5> HIDE DEF E
        <5> QED BY <1>1, <1>4, <1>7, <3>2
      <4> QED BY <2>2, <4>1
    <3> QED BY <3>1, <3>2
  <2>4. CASE E = Today
    <3>1. outcome' = "complete" /\ win' = Today + 1
      BY <1>2, <1>10, <2>1, <2>4
    <3> HIDE DEF E, F
    <3> QED BY <1>1, <1>2, <1>3, <2>1, <2>3, <3>1 DEF ScanInv
  <2>5. CASE E # Today
    <3>1. outcome' = "scanning" /\ F' = F
      BY <1>2, <1>10, <2>5 DEF Scan!First
    <3>2. who \notin OneCompany /\ E = win + Window - 1
      BY <2>5 DEF Scan!WindowEnd
    <3>3. \E k \in Nat : win' = F' + k * Window
      <4>1. PICK k \in Nat : win = F + k * Window
        BY <1>1, <3>2
      <4>2. (k + 1) * Window = k * Window + Window /\ k + 1 \in Nat /\ k * Window \in Nat
        BY ScanConstants
      <4>3. F \in Int
        BY <1>1, ScanConstants DEF Scan!First
      <4> DEFINE x == k * Window
      <4>4. win' = F + x + Window
        <5>1. x \in Nat /\ win = F + x /\ win' = E + 1
          BY <2>1, <4>1, <4>2
        <5> HIDE DEF x, F, E
        <5> QED BY <1>1, <3>2, <4>3, <5>1, ScanConstants
      <4>5. win' = F + (k + 1) * Window
        <5> HIDE DEF F
        <5> QED BY <4>2, <4>3, <4>4, ScanConstants
      <4> QED BY <3>1, <4>2, <4>5
    <3>4. \A i : Unread(i)'
      BY <1>1, <1>2, <2>1, FirstPage
    <3> HIDE DEF E, F
    <3> QED BY <1>1, <1>2, <1>3, <2>1, <2>3, <3>1, <3>2, <3>3, <3>4 DEF ScanInv, F
  <2> QED BY <2>4, <2>5
<1> QED
  BY <1>9, <1>10

(* Every filing, page, failure and shortened span keeps it.                *)
LEMMA ScanInvStep ==
  focus = "scan" /\ ScanInv /\ [ResearchNext]_researchVars => ScanInv' /\ focus' = "scan"
<1> SUFFICES ASSUME focus = "scan", ScanInv, [ResearchNext]_researchVars PROVE ScanInv' /\ focus' = "scan"
  OBVIOUS
<1>1. focus' = "scan" /\ (Scan!Next \/ UNCHANGED scanVars)
  BY DEF ResearchNext, researchVars
<1> SUFFICES ScanInv'
  BY <1>1
<1>2. CASE UNCHANGED <<filed, who, span, win, page, events, base, outcome>>
  <2>1. \A i : (Standing(i)' <=> Standing(i)) /\ (Settled(i)' <=> Settled(i)) /\ (Unread(i)' <=> Unread(i))
    BY <1>2 DEF Standing, Settled, Unread, Scan!First, Scan!Newer, Scan!WindowOf, Scan!Above,
                Scan!Listed, Scan!WindowEnd
  <2>2. Scan!First(span)' = Scan!First(span) /\ Scan!WindowEnd' = Scan!WindowEnd
    BY <1>2 DEF Scan!First, Scan!WindowEnd
  <2> QED BY <1>2, <2>1, <2>2 DEF ScanInv
<1>3. ASSUME NEW hit \in BOOLEAN, Scan!File(hit) PROVE ScanInv'
  BY <1>3, FileKeeps
<1>4. CASE Scan!Receive
  BY <1>4, ReceiveKeeps
<1>5. CASE Scan!DegradeNow
  <2>1. /\ filed \in Seq(Scan!Filing) /\ Len(filed) <= MaxFilings /\ who \in Consumers
    BY DEF ScanInv
  <2>2. /\ filed' = filed /\ who' = who /\ outcome' = "scanning" /\ base' = Len(filed)
        /\ span' = Scan!Half /\ win' = Scan!First(Scan!Half) /\ page' = 1 /\ events' = Scan!NoEvents
    BY <1>5 DEF Scan!DegradeNow
  <2>3. Scan!Half \in Nat
    <3>1. Reach[who] \in Nat
      BY <2>1, ScanConstants
    <3> QED BY <3>1 DEF Scan!Half
  <2>4. win' = Today - span'
    BY <2>2 DEF Scan!First
  <2> QED BY <2>1, <2>2, <2>3, <2>4, AttemptStarts
<1>6. CASE Scan!GiveUp
  <2>1. /\ outcome' = "failed" /\ (events' = events \/ events' = Scan!NoEvents)
        /\ UNCHANGED <<filed, who, span, win, page, base>>
    BY <1>6 DEF Scan!GiveUp
  <2>2. events' \in [1 .. MaxFilings -> Nat]
    BY <2>1 DEF ScanInv, Scan!NoEvents
  <2> QED BY <2>1, <2>2 DEF ScanInv
<1>7. CASE Scan!AskAgain
  BY <1>2, <1>7 DEF Scan!AskAgain
<1>8. CASE UNCHANGED scanVars
  BY <1>2, <1>8 DEF scanVars
<1> QED
  BY <1>1, <1>3, <1>4, <1>5, <1>6, <1>7, <1>8 DEF Scan!Next

(* No shift between two pages hides a filing that stood when the scan of   *)
(* DART's list began (iter_disclosures): a complete scan made an event of  *)
(* each hit of its span, unless so many newer filings stood in its window  *)
(* that its page is past the last one that is read.                        *)
THEOREM StandingFilingSeenAlways == ResearchSpec => []StandingFilingSeen
<1>1. ResearchInit => (focus = "scan" => ScanInv)
  BY ScanInvInit DEF ResearchInit
<1>2. (focus = "scan" => ScanInv) /\ [ResearchNext]_researchVars => (focus = "scan" => ScanInv)'
  BY ScanInvStep, OtherFocus
<1>3. (focus = "scan" => ScanInv) => StandingFilingSeen
  <2> SUFFICES ASSUME ScanInv, outcome = "complete", NEW i \in 1 .. base,
                      filed[i].hit, filed[i].day >= Scan!First(span)
               PROVE  events[i] > 0 \/ Scan!Newer(i) >= MaxPages * PageSize
    BY DEF StandingFilingSeen, Scan!StandingFilingSeen
  <2>1. i \in 1 .. Len(filed) /\ filed \in Seq(Scan!Filing) /\ win = Today + 1
    BY DEF ScanInv
  <2>2. filed[i].day <= Today /\ filed[i].day \in Int
    <3>1. filed[i] \in Scan!Filing
      BY <2>1
    <3>2. \A f \in Scan!Filing : f.day \in 0 .. Today
      BY DEF Scan!Filing
    <3> QED BY <3>1, <3>2, ScanConstants
  <2>3. Standing(i) /\ filed[i].day < win
    BY <2>1, <2>2, ScanConstants DEF Standing
  <2>4. Settled(i)
    BY <2>3 DEF ScanInv
  <2> QED BY <2>4 DEF Settled
<1> QED
  BY <1>1, <1>2, <1>3, PTL DEF ResearchSpec
=============================================================================
