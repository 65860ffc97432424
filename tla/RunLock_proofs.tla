--------------------------- MODULE RunLock_proofs ----------------------------
(***************************************************************************)
(* The PID lock excludes duplicate runs, for any number of launches, kills *)
(* and PID reuses, provided no launch starts inside the lock window of     *)
(* another (Spaced).  Without that proviso TLC shows the opposite.         *)
(*                                                                         *)
(* And of the calendar that a launch reads: a day that was once known to   *)
(* be closed stays closed, through any number of refreshes; and of the     *)
(* regime: a streak does not reach across a report of another regime.      *)
(***************************************************************************)
EXTENDS MCLaunch, NatSets, FiniteSetTheorems, TLAPS

(* At most one launch is taking the lock.                                  *)
OneInWindow ==
    \A l, m \in Launches : pc[l] \in Window /\ pc[m] \in Window => l = m

(* A launch about to call kill -0 has read the PID of the run, if any.     *)
ReadTheRun ==
    \A l, m \in Launches : pc[l] = "kill0" /\ pc[m] = "run" => prev[l] = m

(* A launch about to write its PID has found that no run is alive.         *)
FoundNone ==
    \A l, m \in Launches : pc[l] \in {"truncate", "echo"} => pc[m] # "run"

Inv == TypeOK /\ OneInWindow /\ RunHoldsLock /\ ReadTheRun /\ FoundNone

LEMMA InvInit == Init => Inv
  BY SentinelAssumption
  DEF Init, Inv, TypeOK, OneInWindow, RunHoldsLock, ReadTheRun, FoundNone,
      States, Window

LEMMA InvStep == ASSUME Spaced PROVE Inv /\ [Next]_vars => Inv'
<1> SUFFICES ASSUME Inv, [Next]_vars PROVE Inv'
  OBVIOUS
<1> USE SentinelAssumption DEF Goto
<1>0. TypeOK /\ OneInWindow /\ RunHoldsLock /\ ReadTheRun /\ FoundNone
  BY DEF Inv
(* Where a single launch moves from s to t, everybody else stays.          *)
<1>m. ASSUME NEW l \in Launches, NEW s \in States, Goto(l, s)
      PROVE  /\ pc' \in [Launches -> States]
             /\ pc'[l] = s
             /\ \A m \in Launches : m # l => pc'[m] = pc[m]
  BY <1>m, <1>0 DEF TypeOK
<1>1. ASSUME NEW l \in Launches, Start(l) PROVE Inv'
  <2>1. pc' \in [Launches -> States] /\ pc'[l] = "test"
        /\ \A m \in Launches : m # l => pc'[m] = pc[m]
    BY <1>m, <1>1 DEF Start, States, Window
  <2> QED
    BY <1>0, <1>1, <2>1
    DEF Start, Inv, TypeOK, OneInWindow, RunHoldsLock, ReadTheRun, FoundNone, Window
<1>2. ASSUME NEW l \in Launches, Test(l) PROVE Inv'
  <2>1. CASE lock = NoFile
    <3>1. pc' \in [Launches -> States] /\ pc'[l] = "truncate"
          /\ \A m \in Launches : m # l => pc'[m] = pc[m]
      BY <1>m, <1>2, <2>1 DEF Test, States, Window
    <3>2. \A m \in Launches : pc'[m] # "run"
      BY <3>1, <1>0, <2>1 DEF RunHoldsLock
    <3> QED
      BY <1>0, <1>2, <3>1, <3>2
      DEF Test, Inv, TypeOK, OneInWindow, RunHoldsLock, ReadTheRun, FoundNone, Window
  <2>2. CASE lock # NoFile
    <3>1. pc' \in [Launches -> States] /\ pc'[l] = "cat"
          /\ \A m \in Launches : m # l => pc'[m] = pc[m]
      BY <1>m, <1>2, <2>2 DEF Test, States, Window
    <3> QED
      BY <1>0, <1>2, <3>1
      DEF Test, Inv, TypeOK, OneInWindow, RunHoldsLock, ReadTheRun, FoundNone, Window
  <2> QED  BY <2>1, <2>2
<1>3. ASSUME NEW l \in Launches, Cat(l) PROVE Inv'
  <2>1. pc' \in [Launches -> States] /\ pc'[l] = "kill0"
        /\ \A m \in Launches : m # l => pc'[m] = pc[m]
    BY <1>m, <1>3 DEF Cat, States, Window
  <2>2. prev' \in [Launches -> Launches \cup {Empty}]
    BY <1>0, <1>3 DEF Cat, TypeOK
  <2>3. ReadTheRun'
    <3> SUFFICES ASSUME NEW k \in Launches, NEW m \in Launches,
                        pc'[k] = "kill0", pc'[m] = "run"
                 PROVE  prev'[k] = m
      BY DEF ReadTheRun
    <3>1. k = l
      BY <1>0, <1>3, <2>1 DEF Cat, OneInWindow, Window
    <3>2. lock = m
      BY <1>0, <2>1 DEF RunHoldsLock
    <3> QED  BY <3>1, <3>2, <1>0, <1>3 DEF Cat, TypeOK
  <2> QED
    BY <1>0, <1>3, <2>1, <2>2, <2>3
    DEF Cat, Inv, TypeOK, OneInWindow, RunHoldsLock, FoundNone, Window
<1>4. ASSUME NEW l \in Launches, Skip(l) PROVE Inv'
  <2>1. pc' \in [Launches -> States] /\ pc'[l] = "done"
        /\ \A m \in Launches : m # l => pc'[m] = pc[m]
    BY <1>m, <1>4 DEF Skip, States
  <2> QED
    BY <1>0, <1>4, <2>1
    DEF Skip, Inv, TypeOK, OneInWindow, RunHoldsLock, ReadTheRun, FoundNone, Window
<1>5. ASSUME NEW l \in Launches, FoundStale(l) PROVE Inv'
  <2>1. pc' \in [Launches -> States] /\ pc'[l] = "truncate"
        /\ \A m \in Launches : m # l => pc'[m] = pc[m]
    BY <1>m, <1>5 DEF FoundStale, States, Window
  <2>2. \A m \in Launches : pc[m] # "run"
    BY <1>0, <1>5 DEF FoundStale, ReadTheRun, Alive
  <2> QED
    BY <1>0, <1>5, <2>1, <2>2
    DEF FoundStale, Inv, TypeOK, OneInWindow, RunHoldsLock, ReadTheRun, FoundNone, Window
<1>6. ASSUME NEW l \in Launches, Truncate(l) PROVE Inv'
  <2>1. pc' \in [Launches -> States] /\ pc'[l] = "echo"
        /\ \A m \in Launches : m # l => pc'[m] = pc[m]
    BY <1>m, <1>6 DEF Truncate, States, Window
  <2>2. \A m \in Launches : pc'[m] # "run"
    BY <1>0, <1>6, <2>1 DEF Truncate, FoundNone
  <2> QED
    BY <1>0, <1>6, <2>1, <2>2
    DEF Truncate, Inv, TypeOK, OneInWindow, RunHoldsLock, ReadTheRun, FoundNone, Window
<1>7. ASSUME NEW l \in Launches, Echo(l) PROVE Inv'
  <2>1. pc' \in [Launches -> States] /\ pc'[l] = "run"
        /\ \A m \in Launches : m # l => pc'[m] = pc[m]
    BY <1>m, <1>7 DEF Echo, States
  <2>2. \A m \in Launches : m # l => pc'[m] # "run" /\ pc'[m] \notin Window
    BY <1>0, <1>7, <2>1 DEF Echo, FoundNone, OneInWindow, Window
  <2> QED
    BY <1>0, <1>7, <2>1, <2>2
    DEF Echo, Inv, TypeOK, OneInWindow, RunHoldsLock, ReadTheRun, FoundNone, Window
<1>8. ASSUME NEW l \in Launches, Exit(l) PROVE Inv'
  <2>1. pc' \in [Launches -> States] /\ pc'[l] = "done"
        /\ \A m \in Launches : m # l => pc'[m] = pc[m]
    BY <1>m, <1>8 DEF Exit, States
  <2>2. \A m \in Launches : pc'[m] # "run"
    BY <1>0, <1>8, <2>1 DEF Exit, RunHoldsLock
  <2> QED
    BY <1>0, <1>8, <2>1, <2>2
    DEF Exit, Inv, TypeOK, OneInWindow, RunHoldsLock, ReadTheRun, FoundNone, Window
<1>9. ASSUME NEW l \in Launches, Kill(l) PROVE Inv'
  <2>1. pc' \in [Launches -> States] /\ pc'[l] = "dead"
        /\ \A m \in Launches : m # l => pc'[m] = pc[m]
    BY <1>m, <1>9 DEF Kill, States
  <2> QED
    BY <1>0, <1>9, <2>1
    DEF Kill, Inv, TypeOK, OneInWindow, RunHoldsLock, ReadTheRun, FoundNone, Window
<1>10. ASSUME NEW l \in Launches, Reuse(l) \/ Release(l) PROVE Inv'
  <2>1. pc' = pc /\ lock' = lock /\ prev' = prev /\ reused' \subseteq Launches
    BY <1>0, <1>10 DEF Reuse, Release, TypeOK
  <2> QED
    BY <1>0, <2>1 DEF Inv, TypeOK, OneInWindow, RunHoldsLock, ReadTheRun, FoundNone
<1>11. CASE UNCHANGED vars
  BY <1>0, <1>11
  DEF vars, Inv, TypeOK, OneInWindow, RunHoldsLock, ReadTheRun, FoundNone
<1>12. CASE Next
  BY <1>1, <1>2, <1>3, <1>4, <1>5, <1>6, <1>7, <1>8, <1>9, <1>10, <1>12 DEF Next, Take
<1> QED
  BY <1>11, <1>12

LEMMA InvAlways == ASSUME Spaced PROVE Spec => []Inv
  BY InvInit, InvStep, PTL DEF Spec

(* While a run is under way the lock file holds its PID: neither a launch  *)
(* that skips nor the trap of another run takes it away.                   *)
THEOREM RunHoldsLockAlways == ASSUME Spaced PROVE Spec => []RunHoldsLock
<1>1. Inv => RunHoldsLock
  BY DEF Inv
<1> QED
  BY <1>1, InvAlways, PTL

(* Two daily runs are never under way at once.                             *)
THEOREM MutualExclusionAlways == ASSUME Spaced PROVE Spec => []MutualExclusion
<1>1. Inv => MutualExclusion
  BY DEF Inv, RunHoldsLock, MutualExclusion
<1> QED
  BY <1>1, InvAlways, PTL

------------------------------------------------------------------------------
(* The calendar.  Whatever is cached, fetched or announced is a holiday;   *)
(* that the cache only grows follows from the merge.                       *)
CalInv == cache \subseteq Holidays /\ official \subseteq Holidays /\ fetched \subseteq Holidays

(* A bounded set of integers that is not empty has a greatest one.         *)
LEMMA GreatestInteger ==
  ASSUME NEW L \in Nat, NEW d \in Int, NEW S \in SUBSET (-L .. d), S # {}
  PROVE  \E x \in S : \A y \in S : x >= y
<1> DEFINE W == {d - s : s \in S}
<1>1. W \subseteq Nat /\ W # {}
  OBVIOUS
<1>2. PICK w \in W : \A v \in W : w <= v
  <2> DEFINE R == {ss \in Nat \X Nat : ss[1] < ss[2]}
  <2>1. IsWellFoundedOn(R, Nat)
    BY LessThanWellFounded
  <2>2. PICK w \in W : \A v \in W : ~(<<v, w>> \in R)
    <3> HIDE DEF R, W
    <3> QED  BY <1>1, <2>1, WFMin
  <2>3. ASSUME NEW v \in W PROVE w <= v
    <3>1. v \in Nat /\ w \in Nat /\ ~(<<v, w>> \in R)
      BY <1>1, <2>2
    <3> QED  BY <3>1
  <2> QED  BY <2>3
<1>3. PICK x \in S : w = d - x
  OBVIOUS
<1>4. ASSUME NEW y \in S PROVE x >= y
  <2>1. d - y \in W /\ x \in Int /\ y \in Int
    OBVIOUS
  <2>2. d - x <= d - y
    BY <1>2, <1>3, <2>1
  <2> QED  BY <2>1, <2>2
<1> QED
  BY <1>4

(* The first day of the week before date 0 is open in any cache, so a date *)
(* is always normalized to an open one.                                    *)
LEMMA NormalizedIsOpen ==
  ASSUME NEW known \in SUBSET Nat, NEW e \in Nat
  PROVE  Krx!Open(Krx!Normalize(e, known), known)
<1> DEFINE S == {x \in -WeekDays .. e : Krx!Open(x, known)}
<1>1. -WeekDays \in S
  <2>1. (-WeekDays) % WeekDays = 0 /\ -WeekDays \notin Nat /\ -WeekDays \in Int
    BY CalendarAssumption
  <2> QED  BY <2>1, CalendarAssumption DEF Krx!Open
<1>2. \E x \in S : \A y \in S : x >= y
  <2>1. S \in SUBSET (-WeekDays .. e) /\ S # {} /\ WeekDays \in Nat /\ e \in Int
    BY <1>1, CalendarAssumption
  <2> HIDE DEF S
  <2> QED  BY <2>1, GreatestInteger
<1>3. Krx!Normalize(e, known) \in S
  <2>1. Krx!Normalize(e, known) = CHOOSE x \in S : \A y \in S : x >= y
    BY DEF Krx!Normalize, Krx!Max
  <2> HIDE DEF S
  <2> QED  BY <1>2, <2>1
<1> QED
  BY <1>3

LEMMA CalInit == Krx!Init => CalInv
  BY CalendarAssumption DEF Krx!Init, CalInv

(* Only the rename changes the cache, and it only adds to it.              *)
LEMMA CalStep == CalInv /\ [Krx!Next]_calendarVars => CalInv' /\ cache \subseteq cache'
<1> SUFFICES ASSUME CalInv, [Krx!Next]_calendarVars PROVE CalInv' /\ cache \subseteq cache'
  OBVIOUS
<1>1. CASE Krx!NewYear \/ Krx!AutoSkips \/ Krx!FetchFails \/ Krx!OpenTmp \/ Krx!Die \/ Krx!Return
  BY <1>1 DEF CalInv, Krx!NewYear, Krx!AutoSkips, Krx!FetchFails, Krx!OpenTmp, Krx!Die, Krx!Return
<1>2. ASSUME NEW d \in Holidays, Krx!Announce(d) PROVE CalInv' /\ cache \subseteq cache'
  BY <1>2 DEF CalInv, Krx!Announce
<1>3. CASE Krx!AutoStarts \/ \E ys \in {{y} : y \in Krx!Years} : Krx!StartsFor(ys)
  BY <1>3 DEF CalInv, Krx!AutoStarts, Krx!StartsFor
<1>4. ASSUME NEW y \in 0 .. LastYear + Ahead, Krx!Fetch(y) PROVE CalInv' /\ cache \subseteq cache'
  BY <1>4 DEF CalInv, Krx!Fetch
<1>5. CASE Krx!Rename
  BY <1>5 DEF CalInv, Krx!Rename, Krx!Merged
<1>6. CASE UNCHANGED calendarVars
  BY <1>6 DEF CalInv, calendarVars
<1> QED
  BY <1>1, <1>2, <1>3, <1>4, <1>5, <1>6 DEF Krx!Next

(* A day that was once known to be closed is open to no later run, and no  *)
(* date is normalized to it: any years, holidays, announcements, answers   *)
(* that miss some, and refreshes that die.                                 *)
THEOREM ClosedStaysClosedAlways == MCSpec => ClosedStaysClosed
<1>1. MCInit => CalInv
  BY CalInit DEF MCInit
<1>2. [MCNext]_allVars => [Krx!Next]_calendarVars
  BY DEF MCNext, allVars, Locking
<1>3. CalInv /\ [MCNext]_allVars => CalInv'
  BY <1>2, CalStep
<1>4. CalInv /\ [MCNext]_allVars => [Krx!StaysClosed]_(Krx!vars)
  <2> SUFFICES ASSUME CalInv, [MCNext]_allVars PROVE Krx!StaysClosed
    OBVIOUS
  <2>1. CalInv' /\ cache \subseteq cache'
    BY <1>2, CalStep
  <2>2. ASSUME NEW d \in Holidays, ~Krx!Open(d, cache) PROVE ~Krx!Open(d, cache')
    BY <2>1, <2>2 DEF Krx!Open
  <2>3. ASSUME NEW e \in Holidays PROVE Krx!Open(Krx!Normalize(e, cache'), cache')
    <3>1. cache' \in SUBSET Nat /\ e \in Nat
      BY <2>1, CalendarAssumption DEF CalInv
    <3> QED  BY <3>1, NormalizedIsOpen
  <2> QED  BY <2>2, <2>3 DEF Krx!StaysClosed
<1> QED
  BY <1>1, <1>3, <1>4, PTL DEF MCSpec, ClosedStaysClosed, Krx!ClosedStaysClosed

------------------------------------------------------------------------------
(* The regime.  A directory is hurt exactly when its report is torn;       *)
(* otherwise the report is what the first run said.                        *)
Told ==
  /\ date \in Stage0!Dates
  /\ report = [x \in Stage0!Dates |-> report[x]] /\ word = [x \in Stage0!Dates |-> word[x]]
  /\ hurt \subseteq Stage0!Dates
  /\ \A x \in Stage0!Dates : /\ x \in hurt => report[x] = "torn"
                             /\ x \notin hurt => report[x] = word[x]
                             /\ word[x] # "torn"

(* The two names of Cardinality are one.                                   *)
LEMMA SameSize == ASSUME NEW S PROVE Stage0!Cardinality(S) = Cardinality(S)
BY DEF Stage0!Cardinality, Cardinality

(* And what was said last does not bridge another report.                  *)
StreakInv == Told /\ Stage0!StreakNotBridged

(* What a run may find is a regime.                                        *)
LEMMA FindingsAreRegimes ==
  ASSUME NEW regime \in Stage0!Findings PROVE regime \in Stage0!Regimes
<1> SUFFICES ASSUME NEW m \in Markets, NEW down \in Outages
             PROVE  Stage0!Classify(Stage0!Votes(m, down)) \in Stage0!Regimes
  BY DEF Stage0!Findings
<1> DEFINE votes == Stage0!Votes(m, down)
<1>1. votes \subseteq {"mid_cycle", "late_cycle", "crisis"}
  BY DEF Stage0!Votes, Stage0!CurveVote, Stage0!OasVote, Stage0!VixVote, Stage0!BreadthVote
<1>2. CASE votes = {}
  BY <1>2 DEF Stage0!Classify, Stage0!Regimes
<1>3. CASE votes # {}
  <2>1. \E r \in votes : \A v \in votes : Stage0!Severity[v] <= Stage0!Severity[r]
    <3> HIDE DEF votes
    <3>1. /\ Stage0!Severity["mid_cycle"] = 1 /\ Stage0!Severity["late_cycle"] = 2
          /\ Stage0!Severity["crisis"] = 3
      BY DEF Stage0!Severity
    <3>2. CASE "crisis" \in votes
      BY <1>1, <3>1, <3>2
    <3>3. CASE "crisis" \notin votes /\ "late_cycle" \in votes
      BY <1>1, <3>1, <3>3
    <3>4. CASE "crisis" \notin votes /\ "late_cycle" \notin votes
      <4>1. votes = {"mid_cycle"}
        BY <1>1, <1>3, <3>4
      <4> QED  BY <3>1, <4>1
    <3> QED  BY <3>2, <3>3, <3>4
  <2>2. Stage0!Classify(votes) \in votes
    <3> HIDE DEF votes
    <3> QED  BY <1>3, <2>1 DEF Stage0!Classify
  <2> QED  BY <1>1, <2>2 DEF Stage0!Regimes
<1> QED
  BY <1>2, <1>3

(* The last trading day up to a day is not after it, is there if the day   *)
(* is, and is not before that of an earlier day.                           *)
LEMMA NormalFacts ==
  ASSUME NEW a \in Int, NEW b \in Int, a <= b, b <= LastDate
  PROVE  /\ Stage0!Normal(a) \in {0} \cup Stage0!Dates
         /\ a >= 1 => Stage0!Normal(a) \in Stage0!Dates
         /\ Stage0!Normal(a) <= Stage0!Normal(b)
<1> DEFINE open(x) == {0} \cup (1 .. x \ Closed)
<1>0. LastDate \in Nat /\ 1 \notin Closed
  BY RegimesAssumption DEF Stage0!RegimeAssumption
<1>1. ASSUME NEW x \in Int, x <= LastDate
      PROVE  Stage0!Normal(x) \in open(x) /\ \A y \in open(x) : Stage0!Normal(x) >= y
  <2>1. open(x) \in SUBSET (0 .. LastDate) /\ open(x) # {}
    BY <1>0, <1>1
  <2>2. Stage0!Normal(x) = CHOOSE z \in open(x) : \A y \in open(x) : z >= y
    BY DEF Stage0!Normal, Stage0!Max
  <2> HIDE DEF open
  <2>3. open(x) \in SUBSET (-0 .. LastDate) /\ 0 \in Nat /\ LastDate \in Int
    BY <1>0, <2>1
  <2>4. \E z \in open(x) : \A y \in open(x) : z >= y
    BY <2>1, <2>3, GreatestInteger
  <2> QED  BY <2>2, <2>4
<1>2. Stage0!Normal(a) \in open(a) /\ \A y \in open(a) : Stage0!Normal(a) >= y
  BY <1>0, <1>1
<1>3. \A y \in open(b) : Stage0!Normal(b) >= y
  BY <1>1
<1>4. open(a) \subseteq open(b) /\ open(a) \subseteq {0} \cup Stage0!Dates
  BY <1>0 DEF Stage0!Dates
<1>5. a >= 1 => Stage0!Normal(a) # 0
  <2> SUFFICES ASSUME a >= 1 PROVE Stage0!Normal(a) # 0
    OBVIOUS
  <2>1. 1 \in open(a)
    BY <1>0
  <2> QED  BY <1>2, <2>1
<1> QED
  BY <1>2, <1>3, <1>4, <1>5

(* A step back leads to a date, or before all dates; the step to a later   *)
(* directory is the earlier one; and a run writes into a date's directory. *)
LEMMA PlaceFacts ==
  ASSUME NEW d \in Stage0!Dates, NEW exported \in BOOLEAN
  PROVE  /\ Stage0!Place(d, 0, exported) \in Stage0!Dates
         /\ \A k \in Stage0!Steps : Stage0!Place(d, k, exported) \in {0} \cup Stage0!Dates
         /\ \A k, j \in Stage0!Steps :
               k <= j => Stage0!Place(d, j, exported) <= Stage0!Place(d, k, exported)
<1>1. d \in Nat /\ LastDate \in Nat /\ d <= LastDate /\ d >= 1 /\ Require \in Nat
  BY RegimesAssumption DEF Stage0!Dates, Stage0!RegimeAssumption
<1>2. CASE exported
  BY <1>1, <1>2 DEF Stage0!Place
<1>3. CASE ~exported
  <2>1. Stage0!Normal(d - 0) \in Stage0!Dates
    BY <1>1, NormalFacts
  <2>2. ASSUME NEW k \in Stage0!Steps, NEW j \in Stage0!Steps, k <= j
        PROVE  /\ Stage0!Normal(d - k) \in {0} \cup Stage0!Dates
               /\ Stage0!Normal(d - j) <= Stage0!Normal(d - k)
    <3>1. k \in Nat /\ j \in Nat
      BY <1>1 DEF Stage0!Steps
    <3>2. d - j \in Int /\ d - k \in Int /\ d - j <= d - k /\ d - k <= LastDate
      BY <1>1, <2>2, <3>1
    <3> QED  BY <3>2, NormalFacts
  <2>3. \A k \in Stage0!Steps : k <= k
    BY <1>1 DEF Stage0!Steps
  <2> QED  BY <1>3, <2>1, <2>2, <2>3 DEF Stage0!Place
<1> QED
  BY <1>2, <1>3

(* The streak ends before a report that says something else: at no step of *)
(* it is the directory that one or an earlier one.                         *)
LEMMA StreakStops ==
  ASSUME Told, NEW d \in Stage0!Dates, NEW exported \in BOOLEAN,
         NEW regime, regime \notin {None, "torn"}, NEW j \in Stage0!Steps,
         Stage0!Place(d, j, exported) # 0,
         word[Stage0!Place(d, j, exported)] \notin {None, regime},
         Stage0!Place(d, j, exported) \notin hurt,
         NEW steps \in SUBSET Stage0!Steps,
         \A k \in Stage0!Steps :
            /\ Stage0!Place(d, k, exported) # 0
            /\ word[Stage0!Place(d, k, exported)] = regime
            /\ Stage0!Place(d, k, exported) \notin hurt
            /\ Stage0!Place(d, k, exported) > Stage0!Place(d, j, exported)
            => k \in steps
  PROVE  Stage0!Streak(d, regime, exported) <= 1 + Cardinality(steps)
<1> DEFINE at(k)   == Stage0!Place(d, k, exported)
           legible == Stage0!Legible(d, exported)
           run     == {k \in legible : \A i \in legible : i <= k => report[at(i)] = regime}
<1>1. /\ \A k \in Stage0!Steps : at(k) \in {0} \cup Stage0!Dates
      /\ \A k, i \in Stage0!Steps : k <= i => at(i) <= at(k)
  BY PlaceFacts
<1>2. Stage0!Steps \subseteq Nat /\ Stage0!Dates \subseteq Nat /\ IsFiniteSet(Stage0!Steps)
  <2>1. Require + 4 \in Int /\ LastDate \in Nat
    BY RegimesAssumption DEF Stage0!RegimeAssumption
  <2>2. IsFiniteSet(1 .. Require + 4)
    BY <2>1, FS_Interval
  <2> QED  BY <2>1, <2>2 DEF Stage0!Steps, Stage0!Dates
<1>3. at(j) \in Stage0!Dates /\ report[at(j)] = word[at(j)] /\ word[at(j)] # "torn"
  BY <1>1 DEF Told
<1>4. j \in legible
  BY <1>3 DEF Stage0!Legible
<1>5. ASSUME NEW k \in run PROVE k \in steps
  <2>1. k \in Stage0!Steps /\ at(k) # 0 /\ report[at(k)] = regime
    <3>1. k \in legible /\ k \in Nat /\ \A i \in legible : i <= k => report[at(i)] = regime
      BY <1>2, <1>5 DEF Stage0!Legible
    <3> QED  BY <3>1 DEF Stage0!Legible
  <2>2. at(k) \in Stage0!Dates
    BY <1>1, <2>1
  <2>3. word[at(k)] = regime /\ at(k) \notin hurt
    BY <2>1, <2>2 DEF Told
  <2>4. ~(j <= k)
    BY <1>3, <1>4, <1>5
  <2>5. at(j) <= at(k)
    BY <1>1, <1>2, <2>1, <2>4
  <2>6. at(k) # at(j)
    BY <2>3
  <2>7. at(k) > at(j)
    <3>1. at(k) \in Nat /\ at(j) \in Nat
      BY <1>2, <1>3, <2>2
    <3> HIDE DEF at
    <3> QED  BY <2>5, <2>6, <3>1
  <2> QED  BY <2>1, <2>3, <2>7
<1>6. Cardinality(run) <= Cardinality(steps) /\ Cardinality(run) \in Nat /\ Cardinality(steps) \in Nat
  <2>1. run \subseteq steps
    BY <1>5
  <2> HIDE DEF run
  <2>2. IsFiniteSet(steps)
    BY <1>2, FS_Subset
  <2> QED  BY <2>1, <2>2, FS_Subset, FS_CardinalityType
<1>7. Stage0!Streak(d, regime, exported) = 1 + Cardinality(run)
  BY SameSize DEF Stage0!Streak
<1> HIDE DEF run
<1> QED
  BY <1>6, <1>7

(* No report yet, and nothing said.                                        *)
LEMMA StreakInit == Stage0!Init => StreakInv
  BY RegimesAssumption
  DEF Stage0!Init, StreakInv, Told, Stage0!StreakNotBridged, Stage0!RegimeAssumption, Stage0!Dates

(* A run tells the first that ends, a death tears only what is not there.  *)
LEMMA ToldStep == ASSUME Told, [Stage0!Next]_regimeVars PROVE Told'
<1>0. 1 .. date \subseteq Stage0!Dates /\ None # "torn"
  BY RegimesAssumption DEF Told, Stage0!Dates, Stage0!RegimeAssumption
<1>1. CASE Stage0!NextDate
  BY <1>1, RegimesAssumption
  DEF Stage0!NextDate, Told, Stage0!Dates, Stage0!RegimeAssumption
<1>2. CASE Stage0!Rest \/ UNCHANGED regimeVars
  BY <1>2 DEF Stage0!Rest, regimeVars, Told
<1>3. ASSUME NEW d \in 1 .. date, NEW exported \in BOOLEAN, NEW regime \in Stage0!Findings,
             Stage0!Run(d, exported, regime)
      PROVE  Told'
  <2> DEFINE into == Stage0!Place(d, 0, exported)
  <2>1. /\ report' = [report EXCEPT ![into] = IF @ = None THEN regime ELSE @]
        /\ word' = [word EXCEPT ![into] = IF @ = None THEN regime ELSE @]
        /\ date' = date /\ hurt' = hurt
    BY <1>3 DEF Stage0!Run
  <2>2. regime # "torn" /\ regime # None
    BY FindingsAreRegimes, RegimesAssumption DEF Stage0!Regimes, Stage0!RegimeAssumption
  <2>3. into \in Stage0!Dates
    BY <1>0, PlaceFacts
  <2> HIDE DEF into
  <2> QED  BY <1>0, <2>1, <2>2, <2>3 DEF Told
<1>4. ASSUME NEW d \in 1 .. date, NEW exported \in BOOLEAN, Stage0!DieWriting(d, exported)
      PROVE  Told'
  <2> DEFINE into == Stage0!Place(d, 0, exported)
  <2>1. /\ report' = [report EXCEPT ![into] = IF @ = None THEN "torn" ELSE @]
        /\ hurt' = IF word[into] = None THEN hurt \cup {into} ELSE hurt
        /\ date' = date /\ word' = word
    BY <1>4 DEF Stage0!DieWriting
  <2>2. into \in Stage0!Dates
    BY <1>0, PlaceFacts
  <2> HIDE DEF into
  <2> QED  BY <1>0, <2>1, <2>2 DEF Told
<1> QED
  BY <1>1, <1>2, <1>3, <1>4 DEF Stage0!Next

(* Only a run says anything.  Where it writes the first report of a        *)
(* directory, that one says the same as itself.                            *)
LEMMA StreakStep == StreakInv /\ [Stage0!Next]_regimeVars => StreakInv'
<1> SUFFICES ASSUME StreakInv, [Stage0!Next]_regimeVars PROVE StreakInv'
  OBVIOUS
<1>1. Told /\ Told'
  BY ToldStep DEF StreakInv
<1>2. CASE said' = None
  BY <1>1, <1>2 DEF StreakInv, Stage0!StreakNotBridged
<1>3. CASE UNCHANGED regimeVars
  BY <1>1, <1>3 DEF StreakInv, Stage0!StreakNotBridged, regimeVars
<1>4. ASSUME NEW d \in 1 .. date, NEW exported \in BOOLEAN, NEW regime \in Stage0!Findings,
             Stage0!Run(d, exported, regime)
      PROVE  StreakInv'
  <2> DEFINE at(k) == Stage0!Place(d, k, exported)
             same  == {k \in Stage0!Steps : at(k) # 0 /\ word'[at(k)] = regime /\ at(k) \notin hurt'}
  <2>1. /\ word' = [word EXCEPT ![at(0)] = IF @ = None THEN regime ELSE @] /\ hurt' = hurt
        /\ said'.on = d /\ said'.exported = exported /\ said'.regime = regime
        /\ said'.streak = Stage0!Streak(d, regime, exported)
    BY <1>4 DEF Stage0!Run
  <2>2. regime \notin {None, "torn"}
    BY FindingsAreRegimes, RegimesAssumption DEF Stage0!Regimes, Stage0!RegimeAssumption
  <2>3. d \in Stage0!Dates
    BY <1>1, RegimesAssumption DEF Told, Stage0!Dates, Stage0!RegimeAssumption
  <2>4. \A k \in Stage0!Steps : at(k) \in {0} \cup Stage0!Dates
    BY <2>3, PlaceFacts
  <2>5. \A x \in Stage0!Dates : word[x] = regime => word'[x] = regime
    BY <1>1, <2>1, <2>2 DEF Told
  <2>6. \A x \in Stage0!Dates : word'[x] \notin {None, regime} => word[x] = word'[x]
    BY <1>1, <2>1 DEF Told
  <2>7. ASSUME NEW j \in Stage0!Steps,
               at(j) # 0, word'[at(j)] \notin {None, regime}, at(j) \notin hurt'
        PROVE  said'.streak <= 1 + Cardinality({k \in same : at(k) > at(j)})
    <3> DEFINE steps == {k \in same : at(k) > at(j)}
    <3>1. steps \in SUBSET Stage0!Steps
      OBVIOUS
    <3>2. word[at(j)] \notin {None, regime} /\ at(j) \notin hurt
      BY <2>1, <2>4, <2>6, <2>7
    <3>3. ASSUME NEW k \in Stage0!Steps, at(k) # 0, word[at(k)] = regime, at(k) \notin hurt,
                 at(k) > at(j)
          PROVE  k \in steps
      BY <2>1, <2>4, <2>5, <3>3
    <3> HIDE DEF steps
    <3>4. Stage0!Streak(d, regime, exported) <= 1 + Cardinality(steps)
      BY <1>1, <2>2, <2>3, <2>7, <3>1, <3>2, <3>3, StreakStops
    <3> QED  BY <2>1, <3>4 DEF steps
  <2>8. Stage0!StreakNotBridged'
    BY <2>1, <2>7, SameSize DEF Stage0!StreakNotBridged
  <2> QED  BY <1>1, <2>8 DEF StreakInv
<1>5. CASE Stage0!NextDate \/ Stage0!Rest
  BY <1>2, <1>5 DEF Stage0!NextDate, Stage0!Rest
<1>6. ASSUME NEW d \in 1 .. date, NEW exported \in BOOLEAN, Stage0!DieWriting(d, exported)
      PROVE  StreakInv'
  BY <1>2, <1>6 DEF Stage0!DieWriting
<1> QED
  BY <1>3, <1>4, <1>5, <1>6 DEF Stage0!Next

(* A streak does not reach across a report of another regime, by hand or   *)
(* in the chain, for any dates, closed days, markets, outages, length of   *)
(* the alert and deaths.                                                   *)
THEOREM StreakNotBridgedAlways == MCSpec => []StreakNotBridged
<1>1. MCInit => StreakInv
  BY StreakInit DEF MCInit
<1>2. StreakInv /\ [MCNext]_allVars => StreakInv'
  <2>1. [MCNext]_allVars => [Stage0!Next]_regimeVars
    BY DEF MCNext, allVars, Locking
  <2> QED  BY <2>1, StreakStep
<1>3. StreakInv => StreakNotBridged
  BY DEF StreakInv, StreakNotBridged
<1> QED
  BY <1>1, <1>2, <1>3, PTL DEF MCSpec
==============================================================================
