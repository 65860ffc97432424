----------------------------- MODULE Account_proofs -----------------------------
(***************************************************************************)
(* Proofs about the account.  The drawdown brake, for every number of      *)
(* days, any account values, lookback and threshold, and any runs and      *)
(* faults: its types, that the runs of a date agree, that no brake is put  *)
(* on without evidence, and that the peak is lost only by age.  The        *)
(* sessions with KIS, for any number of stages and sessions and any        *)
(* policy: that a token sent is living and a summary honest, as parts of   *)
(* the composition.                                                        *)
(***************************************************************************)
EXTENDS MCAccount, NatSets, SequenceTheorems

USE DrawdownAssumption

LEMMA LatestOf ==
  ASSUME NEW ds \in SUBSET Days, ds # {}
  PROVE  Latest(ds) \in ds /\ \A e \in ds : e <= Latest(ds)
<1> DEFINE self == [d \in Days |-> d]
<1>1. \A d \in ds : self[d] \in Nat
  BY DEF Days
<1>2. \E x \in ds : \A y \in ds : self[y] <= self[x]
  BY <1>1, ArgMaxExists DEF Days
<1>3. \E x \in ds : \A y \in ds : y <= x
  BY <1>2
<1> QED
  BY <1>3 DEF Latest

\* The first of some artifacts stays the first when another one is written.
LEMMA FirstStays ==
  ASSUME NEW S, NEW q \in Seq(S), NEW x \in S
  PROVE  /\ Append(q, x) # <<>>
         /\ q # <<>> => Head(Append(q, x)) = Head(q)
         /\ q = <<>> => Head(Append(q, x)) = x
         /\ q # <<>> => Head(q) \in S
OBVIOUS

--------------------------------------------------------------------------------
(* What a derivation finds. *)

First(e) == Head(summaries[e])

UsableOn(e) == HasSummary(e) /\ Usable(First(e))

\* A drawdown at the threshold comes with the two dates that show it.
Evidence(d) ==
  \E e, f \in Days :
    /\ e <= f /\ f <= d /\ e + Lookback >= d
    /\ HasSummary(e) /\ HasSummary(f)
    /\ {First(e), First(f)} \cap {None, Torn, 0} = {}
    /\ (First(e) - First(f)) * Unit + First(e) >= Threshold * First(e)

\* The peak of a state derived on day d was seen by then, and no earlier summary
\* of its window is higher.
PeakSeen(d, s) ==
  s.peak # None => s.at \in Days /\ s.at <= d /\ UsableOn(s.at) /\ s.peak = First(s.at)

PeakCovers(d, s) ==
  \A f \in Window(d) : f < d /\ UsableOn(f) => s.peak # None /\ First(f) <= s.peak

LEMMA SummaryTypes ==
  ASSUME TypeOK, NEW e \in Days, HasSummary(e)
  PROVE  /\ First(e) \in Summary
         /\ Usable(First(e)) => First(e) \in (Assets \cup Readings) /\ First(e) \in Nat \ {0}
<1>1. summaries[e] \in Seq(Summary) /\ summaries[e] # <<>>
  BY DEF TypeOK, HasSummary
<1>2. First(e) \in Summary
  <2> HIDE DEF Summary
  <2> QED BY <1>1 DEF First
<1> QED
  BY <1>2 DEF Usable, Summary

LEMMA DrawdownBounds ==
  ASSUME NEW p \in Nat \ {0}, NEW c \in Nat \ {0}
  PROVE  /\ Drawdown(p, c) \in Nat
         /\ Drawdown(p, c) >= Threshold => (p - c) * Unit + p >= Threshold * p
<1>1. CASE c >= p
  BY <1>1 DEF Drawdown
<1>2. CASE c < p
  <2> DEFINE a == (p - c) * Unit
             r == RoundDiv(a, p)
  <2>1. a \in Nat
    BY <1>2
  <2>2. r \in Nat /\ 2 * (p * r) <= 2 * a + p
    BY <2>1, RoundDivBounds
  <2>3. Drawdown(p, c) = r
    BY <1>2 DEF Drawdown
  <2> HIDE DEF a, r
  <2>4. ASSUME r >= Threshold PROVE a + p >= Threshold * p
    <3>1. Threshold * p <= p * r /\ p * r \in Nat /\ Threshold * p \in Nat
      BY <2>2, <2>4
    <3> QED BY <2>1, <2>2, <3>1
  <2> QED
    BY <2>2, <2>3, <2>4 DEF a
<1> QED
  BY <1>1, <1>2

LEMMA DeriveStateFacts ==
  ASSUME TypeOK, NEW d \in Days
  PROVE  LET s == DeriveState(d) IN
         /\ s \in Derived
         /\ s.drawdown # None /\ s.drawdown >= Threshold => Evidence(d)
         /\ PeakSeen(d, s)
         /\ PeakCovers(d, s)
<1> DEFINE scanned == {e \in Window(d) : HasSummary(e)}
           total(e) == Canonical(summaries[e])
           valid == {e \in scanned : Usable(total(e))}
           atPeak == {e \in valid : \A f \in valid : total(f) <= total(e)}
           s == DeriveState(d)
           top == Latest(atPeak)
           read == total(Current(scanned))
<1>1. /\ scanned \subseteq Days
      /\ \A e \in scanned : HasSummary(e) /\ total(e) = First(e) /\ e <= d /\ e + Lookback >= d
  BY DEF Window, Canonical, HasSummary, First
<1>2. \A e \in valid : e \in scanned /\ UsableOn(e) /\ total(e) = First(e)
                      /\ First(e) \in Nat \ {0} /\ First(e) \in Assets \cup Readings
  BY <1>1, SummaryTypes DEF UsableOn
<1>3. \A f \in Window(d) : UsableOn(f) => f \in valid
  BY DEF UsableOn, Canonical, HasSummary, First
<1>4. CASE scanned = {}
  <2>1. s = [peak |-> None, at |-> None, drawdown |-> None]
    BY <1>4 DEF DeriveState
  <2>2. \A f \in Window(d) : ~UsableOn(f)
    BY <1>3, <1>4
  <2> QED
    BY <2>1, <2>2 DEF Derived, PeakSeen, PeakCovers
<1>5. CASE scanned # {} /\ valid = {}
  <2>1. s.peak = None /\ s.at = None /\ s.drawdown = None /\ s \in Derived
    BY <1>5 DEF DeriveState, Drawdown, Derived
  <2>2. \A f \in Window(d) : ~UsableOn(f)
    BY <1>3, <1>5
  <2> QED
    BY <2>1, <2>2 DEF PeakSeen, PeakCovers
<1>6. CASE scanned # {} /\ valid # {}
  <2>1. top \in atPeak
    <3> DEFINE value == [e \in Days |-> total(e)]
    <3>1. valid \subseteq 1..LastDay /\ \A e \in valid : value[e] = total(e) /\ value[e] \in Nat
      BY <1>1, <1>2 DEF Days
    <3>2. \E x \in valid : \A y \in valid : value[y] <= value[x]
      <4> HIDE DEF value, valid
      <4> QED BY <1>6, <3>1, ArgMaxExists
    <3>3. atPeak # {} /\ atPeak \in SUBSET Days
      BY <1>1, <3>1, <3>2
    <3> HIDE DEF atPeak
    <3> QED BY <3>3, LatestOf
  <2>2. top \in valid /\ \A f \in valid : total(f) <= total(top)
    BY <2>1
  <2>3. Current(scanned) \in scanned /\ \A e \in scanned : e <= Current(scanned)
    BY <1>1, <1>6, LatestOf DEF Current
  <2>4. s = [peak |-> total(top), at |-> top,
             drawdown |-> IF read = Torn THEN None
                          ELSE Drawdown(total(top), IF Usable(read) THEN read ELSE None)]
    BY <1>6 DEF DeriveState
  <2>5. total(top) \in Nat \ {0} /\ total(top) = First(top) /\ total(top) \in Assets \cup Readings
        /\ UsableOn(top) /\ top \in Days /\ top <= d /\ top + Lookback >= d /\ total(top) # None
    BY <1>1, <1>2, <2>2
  <2>6. PeakSeen(d, s) /\ PeakCovers(d, s)
    BY <1>2, <1>3, <2>2, <2>4, <2>5 DEF PeakSeen, PeakCovers
  <2>7. Usable(read) => /\ Current(scanned) \in valid /\ read = First(Current(scanned))
                       /\ read \in Nat \ {0}
    BY <1>2, <2>3
  <2>8. /\ s.drawdown \in Nat \cup {None}
        /\ s.drawdown # None => Usable(read) /\ s.drawdown = Drawdown(total(top), read)
    <3>1. CASE ~Usable(read)
      BY <2>4, <3>1 DEF Drawdown
    <3>2. CASE Usable(read)
      <4>1. read # Torn
        BY <3>2 DEF Usable
      <4>2. s.drawdown = Drawdown(total(top), read)
        BY <2>4, <3>2, <4>1
      <4> QED BY <2>5, <2>7, <3>2, <4>2, DrawdownBounds
    <3> QED BY <3>1, <3>2
  <2>9. s.drawdown # None /\ s.drawdown >= Threshold => Evidence(d)
    <3> SUFFICES ASSUME s.drawdown # None, s.drawdown >= Threshold PROVE Evidence(d)
      OBVIOUS
    <3> DEFINE f == Current(scanned)
    <3>1. /\ Usable(read) /\ f \in valid /\ read = First(f) /\ read \in Nat \ {0}
          /\ Drawdown(total(top), read) >= Threshold
      BY <2>7, <2>8
    <3>2. (First(top) - First(f)) * Unit + First(top) >= Threshold * First(top)
      BY <2>5, <3>1, DrawdownBounds
    <3>3. top <= f /\ f <= d /\ f \in Days /\ HasSummary(f) /\ HasSummary(top)
      BY <1>1, <1>2, <2>2, <2>3 DEF UsableOn
    <3>4. {First(top), First(f)} \cap {None, Torn, 0} = {}
      BY <2>5, <3>1 DEF Usable, UsableOn
    <3> HIDE DEF top, f
    <3> QED
      BY <2>5, <3>2, <3>3, <3>4 DEF Evidence
  <2> QED
    BY <2>4, <2>5, <2>6, <2>8, <2>9 DEF Derived
<1> QED
  BY <1>4, <1>5, <1>6

--------------------------------------------------------------------------------
(* Types. *)

LEMMA TypeInit == Init => TypeOK
<1> SUFFICES ASSUME Init PROVE TypeOK
  OBVIOUS
<1>1. day \in Days /\ 1..day = 1..1
  BY DEF Init, Days
<1>2. summaries \in [Days -> Seq(Summary)] /\ derived \in [Days -> Seq(Derived \cup {Torn})]
      /\ sized \in [Days -> Seq(Decision)]
  BY DEF Init
<1> QED
  BY <1>1, <1>2 DEF Init, TypeOK

LEMMA LoadedType ==
  ASSUME TypeOK, NEW d \in Days
  PROVE  LoadDerived(d) \in {None} \cup Derived
<1>1. derived[d] \in Seq(Derived \cup {Torn})
  BY DEF TypeOK
<1>2. derived[d] # <<>> => Head(derived[d]) \in Derived \cup {Torn}
  <2> HIDE DEF Derived
  <2> QED BY <1>1
<1> QED
  BY <1>2 DEF LoadDerived, Canonical

LEMMA TypeStep == TypeOK /\ [Next]_vars => TypeOK'
<1> SUFFICES ASSUME TypeOK, [Next]_vars PROVE TypeOK'
  OBVIOUS
<1>1. CASE NextDay
  <2>1. PICK a \in Assets : assets' = Append(assets, a)
    BY <1>1 DEF NextDay
  <2>2. day' = day + 1 /\ day \in Nat \ {0} /\ day' \in Days
    BY <1>1 DEF NextDay, TypeOK, Days
  <2>3. assets \in Seq(Assets) /\ Len(assets) = day
    BY <2>2 DEF TypeOK
  <2>4. Append(assets, a) \in Seq(Assets) /\ Len(Append(assets, a)) = day + 1
    BY <2>3
  <2>5. assets' \in [1..day' -> Assets]
    BY <2>1, <2>2, <2>4, LenProperties
  <2> QED
    BY <1>1, <2>2, <2>5 DEF NextDay, TypeOK
<1>2. CASE StartRun
  BY <1>2 DEF StartRun, TypeOK
<1>3. CASE Sync
  <2>1. PICK total \in {assets[day]} \cup Readings \cup {None, Torn} :
           /\ total # assets[day] => faults < MaxFaults
           /\ summaries' = [summaries EXCEPT ![day] = Append(@, total)]
           /\ faults' = IF total = assets[day] THEN faults ELSE faults + 1
    BY <1>3 DEF Sync
  <2>2. day \in Days /\ assets[day] \in Assets
    BY DEF TypeOK, Days
  <2>3. total \in Summary /\ faults' \in 0..MaxFaults
    BY <2>1, <2>2 DEF Summary, TypeOK
  <2>4. Append(summaries[day], total) \in Seq(Summary)
    <3>1. summaries[day] \in Seq(Summary)
      BY <2>2 DEF TypeOK
    <3> HIDE DEF Summary
    <3> QED BY <2>3, <3>1
  <2>5. summaries' \in [Days -> Seq(Summary)]
    BY <2>1, <2>2, <2>4 DEF TypeOK
  <2> QED
    BY <1>3, <2>3, <2>5 DEF Sync, TypeOK
<1>4. CASE Derive
  <2>1. PICK state \in {DeriveState(day), Torn} :
           /\ state = Torn => faults < MaxFaults
           /\ derived' = [derived EXCEPT ![day] = Append(@, state)]
           /\ faults' = IF state = Torn THEN faults + 1 ELSE faults
    BY <1>4 DEF Derive
  <2>2. day \in Days
    BY DEF TypeOK
  <2>3. state \in Derived \cup {Torn} /\ faults' \in 0..MaxFaults
    BY <2>1, <2>2, DeriveStateFacts DEF TypeOK
  <2>4. Append(derived[day], state) \in Seq(Derived \cup {Torn})
    <3>1. derived[day] \in Seq(Derived \cup {Torn})
      BY <2>2 DEF TypeOK
    <3> HIDE DEF Derived
    <3> QED BY <2>3, <3>1
  <2>5. derived' \in [Days -> Seq(Derived \cup {Torn})]
    BY <2>1, <2>2, <2>4 DEF TypeOK
  <2> QED
    BY <1>4, <2>3, <2>5 DEF Derive, TypeOK
<1>5. CASE Size
  <2> DEFINE decision == [seen |-> LoadDerived(day), brake |-> BrakeFrom(LoadDerived(day))]
  <2>1. day \in Days
    BY DEF TypeOK
  <2>2. BrakeFrom(LoadDerived(day)) \in BOOLEAN
    BY DEF BrakeFrom
  <2>3. decision \in Decision
    BY <2>1, <2>2, LoadedType DEF Decision
  <2>4. Append(sized[day], decision) \in Seq(Decision)
    <3>1. sized[day] \in Seq(Decision)
      BY <2>1 DEF TypeOK
    <3> HIDE DEF decision, Decision
    <3> QED BY <2>3, <3>1
  <2>5. sized' \in [Days -> Seq(Decision)]
    BY <1>5, <2>1, <2>4 DEF Size, TypeOK
  <2> QED
    BY <1>5, <2>5 DEF Size, TypeOK
<1>6. CASE StageDies
  BY <1>6 DEF StageDies, TypeOK
<1>7. CASE UNCHANGED vars
  BY <1>7 DEF vars, TypeOK
<1> QED
  BY <1>1, <1>2, <1>3, <1>4, <1>5, <1>6, <1>7 DEF Next

(* The types of the artifacts: a peak is a total some call gave, and a     *)
(* drawdown is a natural number or unknown, never negative.                *)
THEOREM TypeCorrect == Spec => []TypeOK
BY TypeInit, TypeStep, PTL DEF Spec

--------------------------------------------------------------------------------
(* Across runs and days. *)

\* What a derived state of day d says is borne out by the first summaries.
BorneOut(d, s) ==
  /\ s.drawdown # None /\ s.drawdown >= Threshold => Evidence(d)
  /\ PeakSeen(d, s)
  /\ PeakCovers(d, s)

\* Nothing is derived for a day to come.
NothingAhead == \A d \in Days : d > day => derived[d] = <<>>

DerivedBorneOut ==
  \A d \in Days : \A i \in DOMAIN derived[d] :
    derived[d][i] # Torn => BorneOut(d, derived[d][i])

\* What a decision has seen is still the canonical derived state.
SeenStays ==
  \A d \in Days : \A i \in DOMAIN sized[d] :
    /\ sized[d][i].seen # None => derived[d] # <<>> /\ sized[d][i].seen = LoadDerived(d)
    /\ sized[d][i].brake => BrakeFrom(sized[d][i].seen)

DaysInv == NothingAhead /\ DerivedBorneOut /\ SeenStays /\ SameDayAgrees

\* A new artifact of a day is the last of it and moves none of the others.
LEMMA Appended ==
  ASSUME NEW S, NEW q \in Seq(S), NEW x \in S
  PROVE  /\ DOMAIN Append(q, x) = 1..(Len(q) + 1) /\ Len(q) \in Nat /\ DOMAIN q = 1..Len(q)
         /\ Append(q, x)[Len(q) + 1] = x
         /\ \A i \in 1..Len(q) : Append(q, x)[i] = q[i]
OBVIOUS

LEMMA SyncKeeps ==
  ASSUME TypeOK, TypeOK', DaysInv, Sync
  PROVE  DaysInv'
<1>1. /\ day \in Days /\ UNCHANGED <<day, derived, sized>>
      /\ \A e \in Days : e # day => summaries'[e] = summaries[e]
  BY DEF Sync, TypeOK
<1>2. \A e \in Days : HasSummary(e) => HasSummary(e)' /\ First(e)' = First(e)
  <2>1. PICK total : summaries' = [summaries EXCEPT ![day] = Append(@, total)]
                     /\ total \in {assets[day]} \cup Readings \cup {None, Torn}
    BY DEF Sync
  <2>2. summaries[day] \in Seq(Summary) /\ total \in Summary
    BY <1>1, <2>1 DEF TypeOK, Summary, Days
  <2>3. summaries[day] # <<>> => /\ Append(summaries[day], total) # <<>>
                                 /\ Head(Append(summaries[day], total)) = Head(summaries[day])
    <3> HIDE DEF Summary
    <3> QED BY <2>2, FirstStays
  <2>4. summaries'[day] = Append(summaries[day], total)
    BY <1>1, <2>1 DEF TypeOK
  <2> QED
    BY <1>1, <2>3, <2>4 DEF HasSummary, First
<1>3. \A d \in Days : Evidence(d) => Evidence(d)'
  <2> SUFFICES ASSUME NEW d \in Days, Evidence(d) PROVE Evidence(d)'
    OBVIOUS
  <2>1. PICK e \in Days, f \in Days :
          /\ e <= f /\ f <= d /\ e + Lookback >= d
          /\ HasSummary(e) /\ HasSummary(f)
          /\ {First(e), First(f)} \cap {None, Torn, 0} = {}
          /\ (First(e) - First(f)) * Unit + First(e) >= Threshold * First(e)
    BY DEF Evidence
  <2>2. /\ HasSummary(e)' /\ HasSummary(f)'
        /\ First(e)' = First(e) /\ First(f)' = First(f)
    BY <1>2, <2>1
  <2> QED
    BY <2>1, <2>2 DEF Evidence
<1>4. \A d \in Days : \A s : PeakSeen(d, s) => PeakSeen(d, s)'
  BY <1>2 DEF PeakSeen, UsableOn
<1>5. \A d \in Days : \A s : derived[d] # <<>> /\ PeakCovers(d, s) => PeakCovers(d, s)'
  <2> SUFFICES ASSUME NEW d \in Days, NEW s, derived[d] # <<>>, PeakCovers(d, s),
                      NEW f \in Window(d), f < d, UsableOn(f)'
               PROVE  s.peak # None /\ First(f)' <= s.peak
    BY DEF PeakCovers, Window
  <2>1. f \in Days /\ f # day
    BY <1>1 DEF DaysInv, NothingAhead, Window, Days
  <2>2. UsableOn(f) /\ First(f)' = First(f)
    BY <1>1, <2>1 DEF UsableOn, HasSummary, First
  <2> QED
    BY <2>2 DEF PeakCovers
<1>6. NothingAhead' /\ SeenStays' /\ SameDayAgrees'
  BY <1>1 DEF DaysInv, NothingAhead, SeenStays, SameDayAgrees, LoadDerived
<1>7. DerivedBorneOut'
  <2> SUFFICES ASSUME NEW d \in Days, NEW i \in DOMAIN derived[d], derived[d][i] # Torn
               PROVE  BorneOut(d, derived[d][i])'
    BY <1>1 DEF DerivedBorneOut
  <2>1. BorneOut(d, derived[d][i]) /\ derived[d] # <<>> /\ derived'[d][i] = derived[d][i]
    BY <1>1 DEF DaysInv, DerivedBorneOut
  <2> DEFINE s == derived[d][i]
  <2>2. /\ s.drawdown # None /\ s.drawdown >= Threshold => Evidence(d)
        /\ PeakSeen(d, s) /\ PeakCovers(d, s) /\ derived[d] # <<>> /\ derived'[d][i] = s
    BY <2>1 DEF BorneOut
  <2>3. PeakSeen(d, s)' /\ PeakCovers(d, s)' /\ (Evidence(d) => Evidence(d)')
    BY <1>1, <1>3, <1>4, <1>5, <2>2 DEF PeakSeen, PeakCovers
  <2> QED
    BY <2>2, <2>3 DEF BorneOut
<1> QED
  BY <1>6, <1>7 DEF DaysInv

LEMMA DeriveKeeps ==
  ASSUME TypeOK, TypeOK', DaysInv, Derive
  PROVE  DaysInv'
<1>1. /\ day \in Days /\ UNCHANGED <<day, summaries, sized>>
      /\ \A d \in Days : d # day => derived'[d] = derived[d]
  BY DEF Derive, TypeOK
<1>2. PICK state \in {DeriveState(day), Torn} : derived' = [derived EXCEPT ![day] = Append(@, state)]
  BY DEF Derive
<1>3. state \in Derived \cup {Torn} /\ (state # Torn => BorneOut(day, state))
  BY <1>1, <1>2, DeriveStateFacts DEF BorneOut
<1>4. derived[day] \in Seq(Derived \cup {Torn}) /\ derived'[day] = Append(derived[day], state)
  BY <1>1, <1>2 DEF TypeOK
<1>5. /\ derived'[day] # <<>>
      /\ derived[day] # <<>> => Head(derived'[day]) = Head(derived[day])
      /\ DOMAIN derived'[day] = 1..(Len(derived[day]) + 1) /\ Len(derived[day]) \in Nat
      /\ DOMAIN derived[day] = 1..Len(derived[day])
      /\ derived'[day][Len(derived[day]) + 1] = state
      /\ \A i \in 1..Len(derived[day]) : derived'[day][i] = derived[day][i]
  <2> HIDE DEF Derived
  <2> QED BY <1>3, <1>4, FirstStays, Appended
<1>6. NothingAhead'
  BY <1>1 DEF DaysInv, NothingAhead, TypeOK, Days
<1>7. \A d \in Days : \A s : BorneOut(d, s)' = BorneOut(d, s)
  BY <1>1 DEF BorneOut, Evidence, PeakSeen, PeakCovers, UsableOn, HasSummary, First
<1>8. DerivedBorneOut'
  <2>1. \A d \in Days : \A i \in DOMAIN derived'[d] :
           derived'[d][i] # Torn => BorneOut(d, derived'[d][i])
    <3> SUFFICES ASSUME NEW d \in Days, NEW i \in DOMAIN derived'[d], derived'[d][i] # Torn
                 PROVE  BorneOut(d, derived'[d][i])
      OBVIOUS
    <3>1. CASE d # day
      BY <1>1, <3>1 DEF DaysInv, DerivedBorneOut
    <3>2. CASE d = day /\ i = Len(derived[day]) + 1
      BY <1>3, <1>5, <3>2
    <3>3. CASE d = day /\ i # Len(derived[day]) + 1
      <4>1. i \in DOMAIN derived[day] /\ derived'[day][i] = derived[day][i]
        BY <1>5, <3>3
      <4> QED BY <3>3, <4>1 DEF DaysInv, DerivedBorneOut
    <3> QED BY <3>1, <3>2, <3>3
  <2> QED BY <1>1, <2>1 DEF DerivedBorneOut, BorneOut, Evidence, PeakSeen, PeakCovers,
                            UsableOn, HasSummary, First
<1>9. SeenStays'
  <2>1. \A d \in Days : derived[d] # <<>> => derived'[d] # <<>> /\ LoadDerived(d)' = LoadDerived(d)
    BY <1>1, <1>5 DEF LoadDerived, Canonical
  <2> QED
    BY <1>1, <2>1 DEF DaysInv, SeenStays
<1>10. SameDayAgrees'
  BY <1>1 DEF DaysInv, SameDayAgrees
<1> QED
  BY <1>6, <1>8, <1>9, <1>10 DEF DaysInv

LEMMA SizeKeeps ==
  ASSUME TypeOK, TypeOK', DaysInv, Size
  PROVE  DaysInv'
<1> DEFINE decision == [seen |-> LoadDerived(day), brake |-> BrakeFrom(LoadDerived(day))]
<1>1. /\ day \in Days /\ UNCHANGED <<day, summaries, derived>>
      /\ \A d \in Days : d # day => sized'[d] = sized[d]
      /\ sized'[day] = Append(sized[day], decision)
  BY DEF Size, TypeOK
<1>2. sized[day] \in Seq(Decision) /\ decision \in Decision
  <2>1. BrakeFrom(LoadDerived(day)) \in BOOLEAN
    BY DEF BrakeFrom
  <2> QED
    BY <1>1, <2>1, LoadedType DEF Decision, TypeOK
<1>3. NothingAhead' /\ DerivedBorneOut'
  BY <1>1 DEF DaysInv, NothingAhead, DerivedBorneOut, BorneOut, Evidence, PeakSeen, PeakCovers,
              UsableOn, HasSummary, First
<1>4. /\ DOMAIN sized'[day] = 1..(Len(sized[day]) + 1) /\ Len(sized[day]) \in Nat
      /\ DOMAIN sized[day] = 1..Len(sized[day])
      /\ sized'[day][Len(sized[day]) + 1] = decision
      /\ \A i \in DOMAIN sized[day] : sized'[day][i] = sized[day][i]
  <2> HIDE DEF decision, Decision
  <2> QED BY <1>1, <1>2, Appended
<1>5. LoadDerived(day) # None => derived[day] # <<>>
  BY DEF LoadDerived, Canonical
<1>6. SeenStays'
  <2> SUFFICES ASSUME NEW d \in Days, NEW i \in DOMAIN sized'[d]
               PROVE  /\ sized'[d][i].seen # None => derived[d] # <<>> /\ sized'[d][i].seen = LoadDerived(d)
                      /\ sized'[d][i].brake => BrakeFrom(sized'[d][i].seen)
    BY <1>1 DEF SeenStays, LoadDerived, BrakeFrom
  <2>1. CASE d = day /\ i = Len(sized[day]) + 1
    BY <1>4, <1>5, <2>1
  <2>2. CASE i \in DOMAIN sized[d]
    <3>1. sized'[d][i] = sized[d][i]
      BY <1>1, <1>4, <2>2
    <3> QED BY <2>2, <3>1 DEF DaysInv, SeenStays
  <2> QED
    BY <1>1, <1>4, <2>1, <2>2
<1>7. SameDayAgrees'
  <2> SUFFICES ASSUME NEW d \in Days, NEW i \in DOMAIN sized'[d], NEW j \in DOMAIN sized'[d],
                      i < j, sized'[d][i].seen # None
               PROVE  sized'[d][j].seen = sized'[d][i].seen
    BY DEF SameDayAgrees
  <2>1. CASE d # day
    BY <1>1, <2>1 DEF DaysInv, SameDayAgrees
  <2>2. CASE d = day /\ j \in DOMAIN sized[day]
    BY <1>4, <2>2 DEF DaysInv, SameDayAgrees
  <2>3. CASE d = day /\ j = Len(sized[day]) + 1
    <3>1. i \in DOMAIN sized[day] /\ sized'[day][i] = sized[day][i]
      BY <1>4, <2>3
    <3>2. sized[day][i].seen = LoadDerived(day)
      BY <1>1, <2>3, <3>1 DEF DaysInv, SeenStays
    <3>3. sized'[day][j].seen = LoadDerived(day)
      BY <1>4, <2>3
    <3> QED BY <2>3, <3>1, <3>2, <3>3
  <2> QED
    BY <1>4, <2>1, <2>2, <2>3
<1> QED
  BY <1>3, <1>6, <1>7 DEF DaysInv

LEMMA DaysInvInit == Init => DaysInv
BY DEF Init, DaysInv, NothingAhead, DerivedBorneOut, SeenStays, SameDayAgrees

LEMMA DaysInvStep == TypeOK /\ TypeOK' /\ DaysInv /\ [Next]_vars => DaysInv'
<1> SUFFICES ASSUME TypeOK, TypeOK', DaysInv, [Next]_vars PROVE DaysInv'
  OBVIOUS
<1>1. ASSUME UNCHANGED <<summaries, derived, sized>>, day' >= day PROVE DaysInv'
  <2>1. NothingAhead' /\ SeenStays' /\ SameDayAgrees'
    BY <1>1 DEF DaysInv, NothingAhead, SeenStays, SameDayAgrees, LoadDerived, TypeOK, Days
  <2>2. DerivedBorneOut'
    BY <1>1 DEF DaysInv, DerivedBorneOut, BorneOut, Evidence, PeakSeen, PeakCovers,
                UsableOn, HasSummary, First
  <2> QED
    BY <2>1, <2>2 DEF DaysInv
<1>2. day \in Nat
  BY DEF TypeOK, Days
<1> QED
  BY <1>1, <1>2, SyncKeeps, DeriveKeeps, SizeKeeps DEF Next, NextDay, StartRun, StageDies, vars

LEMMA DaysInvAlways == Spec => [](TypeOK /\ DaysInv)
BY TypeInit, TypeStep, DaysInvInit, DaysInvStep, PTL DEF Spec

(* Once a Stage 5 run of a date has seen the derived state, every later one *)
(* of that date acts on the same, for any interleaving of syncs, derivations*)
(* and deaths between them.                                                *)
THEOREM SameDayAgreesAlways == Spec => []SameDayAgrees
<1>1. DaysInv => SameDayAgrees
  BY DEF DaysInv
<1> QED
  BY <1>1, DaysInvAlways, PTL

(* A braked run has behind it two dates of the window whose first summaries *)
(* show the loss, for every threshold and lookback.                        *)
THEOREM NoFalseBrakeAlways == Spec => []NoFalseBrake
<1>1. TypeOK /\ DaysInv => NoFalseBrake
  <2> SUFFICES ASSUME TypeOK, DaysInv, NEW d \in 1..day, NEW i \in DOMAIN sized[d], sized[d][i].brake
               PROVE  Evidence(d)
    BY DEF NoFalseBrake, Evidence, First
  <2>1. d \in Days
    BY DEF TypeOK, Days
  <2>2. /\ BrakeFrom(sized[d][i].seen) /\ sized[d][i].seen # None
        /\ derived[d] # <<>> /\ sized[d][i].seen = LoadDerived(d)
    BY <2>1 DEF DaysInv, SeenStays, BrakeFrom
  <2>3. derived[d] \in Seq(Derived \cup {Torn})
    BY <2>1 DEF TypeOK
  <2>4. 1 \in DOMAIN derived[d] /\ Head(derived[d]) = derived[d][1]
    <3> HIDE DEF Derived
    <3> QED BY <2>2, <2>3
  <2>5. LoadDerived(d) = derived[d][1] /\ derived[d][1] # Torn
    BY <2>2, <2>4 DEF LoadDerived, Canonical
  <2> QED
    BY <2>1, <2>2, <2>4, <2>5 DEF DaysInv, DerivedBorneOut, BorneOut, BrakeFrom
<1> QED
  BY <1>1, DaysInvAlways, PTL

(* From one date to the next the derived peak falls only when the date it  *)
(* was observed at has left the lookback window.                           *)
THEOREM PeakFallsOnlyByAgeAlways == Spec => []PeakFallsOnlyByAge
<1>1. TypeOK /\ DaysInv => PeakFallsOnlyByAge
  <2> SUFFICES ASSUME TypeOK, DaysInv, NEW d \in 1..(day - 1),
                      Canonical(derived[d]) \notin {None, Torn},
                      Canonical(derived[d + 1]) \notin {None, Torn},
                      Canonical(derived[d]).peak # None
               PROVE  \/ /\ Canonical(derived[d + 1]).peak # None
                         /\ Canonical(derived[d + 1]).peak >= Canonical(derived[d]).peak
                      \/ Canonical(derived[d]).at + Lookback < d + 1
    BY DEF PeakFallsOnlyByAge
  <2> DEFINE a == Canonical(derived[d])
             b == Canonical(derived[d + 1])
  <2>1. d \in Days /\ d + 1 \in Days /\ d \in Nat
    BY DEF TypeOK, Days
  <2>2. \A e \in Days : Canonical(derived[e]) \notin {None, Torn} => BorneOut(e, Canonical(derived[e]))
    <3> SUFFICES ASSUME NEW e \in Days, Canonical(derived[e]) \notin {None, Torn}
                 PROVE  BorneOut(e, Canonical(derived[e]))
      OBVIOUS
    <3>1. derived[e] \in Seq(Derived \cup {Torn}) /\ derived[e] # <<>>
          /\ Canonical(derived[e]) = Head(derived[e])
      BY DEF TypeOK, Canonical
    <3>2. 1 \in DOMAIN derived[e] /\ Head(derived[e]) = derived[e][1]
      <4> HIDE DEF Derived
      <4> QED BY <3>1
    <3> QED
      BY <3>1, <3>2 DEF DaysInv, DerivedBorneOut
  <2>3. a.at \in Days /\ a.at <= d /\ UsableOn(a.at) /\ a.peak = First(a.at)
    BY <2>1, <2>2 DEF BorneOut, PeakSeen
  <2>4. PeakCovers(d + 1, b)
    BY <2>1, <2>2 DEF BorneOut
  <2>5. CASE a.at + Lookback >= d + 1
    <3>1. a.at \in Window(d + 1) /\ a.at < d + 1
      BY <2>1, <2>3, <2>5 DEF Window, Days
    <3>2. b.peak # None /\ First(a.at) <= b.peak
      BY <2>3, <2>4, <3>1 DEF PeakCovers
    <3> QED
      BY <2>3, <3>2
  <2>6. CASE ~(a.at + Lookback >= d + 1)
    BY <2>1, <2>3, <2>6 DEF Days
  <2> QED
    BY <2>5, <2>6
<1> QED
  BY <1>1, DaysInvAlways, PTL

------------------------------------------------------------------------------
(* A token text on disk was stamped within one unit of its issue, and not  *)
(* in the future.                                                          *)
Dated(f) == f \in Kis!Token => f.born <= f.stamp /\ f.stamp <= f.born + 1 /\ f.stamp <= now

(* The steps at which a session holds a token.                             *)
Holding == {"receive", "dump", "replace", "call"}

(* A session is as old as one unit at most; a token it requested is its    *)
(* own, one it took from the cache had not outlived the ttl by more than   *)
(* the unit its stamp may be late.                                         *)
SessionInv(p) ==
  /\ step[p] # "idle" => since[p] <= now /\ now <= since[p] + 1
  /\ step[p] \in Holding => token[p] \in Nat /\ token[p] <= now
  /\ step[p] \in {"receive", "dump"} => since[p] <= token[p]
  /\ step[p] = "dump" => token[p] <= stamp[p] /\ stamp[p] <= token[p] + 1 /\ stamp[p] <= now
  /\ step[p] \in Holding => since[p] <= token[p] + TTL

SessionTypes ==
  /\ now \in Nat
  /\ step \in [Stages -> {"idle", "post", "write"} \cup Holding]
  /\ since \in [Stages -> Nat] /\ stamp \in [Stages -> Nat]
  /\ token \in [Stages -> Nat \cup {None}]

KisInv ==
  /\ SessionTypes
  /\ Dated(cache) /\ Dated(tmp)
  /\ \A p \in Stages : SessionInv(p)

\* The first state of the sessions satisfies it.
LEMMA KisInvInit == Kis!Init => KisInv
<1> SUFFICES ASSUME Kis!Init PROVE KisInv
  OBVIOUS
<1>1. ~(Absent \in Kis!Token)
  BY SessionAssumption DEF Kis!ParametersAssumption
<1> QED
  BY <1>1 DEF Kis!Init, KisInv, SessionTypes, Dated, SessionInv, Holding

\* What happens to a session in a step that touches no file: each of the
\* others is as it was, and its own part has to be shown.
LEMMA OneSession ==
  ASSUME KisInv, NEW p \in Stages, UNCHANGED <<now, cache, tmp>>, SessionTypes',
         \A q \in Stages \ {p} : /\ step'[q] = step[q] /\ since'[q] = since[q]
                                 /\ token'[q] = token[q] /\ stamp'[q] = stamp[q],
         SessionInv(p)'
  PROVE  KisInv'
<1>1. Dated(cache)' /\ Dated(tmp)'
  BY DEF KisInv, Dated
<1>2. ASSUME NEW q \in Stages, q # p PROVE SessionInv(q)'
  BY <1>2 DEF KisInv, SessionInv
<1> QED
  BY <1>1, <1>2 DEF KisInv

\* A session that ends leaves nothing that could break the invariant.
LEMMA LeaveKeeps ==
  ASSUME KisInv, NEW p \in Stages, Kis!Leave(p), UNCHANGED <<now, cache, tmp>>
  PROVE  KisInv'
<1>1. SessionTypes'
  BY DEF Kis!Leave, Kis!Goto, KisInv, SessionTypes, Holding
<1>2. SessionInv(p)'
  BY DEF Kis!Leave, Kis!Goto, KisInv, SessionTypes, SessionInv, Holding
<1> QED
  BY <1>1, <1>2, OneSession DEF Kis!Leave, Kis!Goto, KisInv, SessionTypes

\* A session starts: skipped, with the cached token, or with a request.
LEMMA StartKeeps ==
  ASSUME KisInv, NEW p \in Stages, Kis!Start(p)
  PROVE  KisInv'
<1> DEFINE skip == p \in Syncs /\ ~enabled
<1>1. CASE ~skip /\ Kis!Fresh(cache)
  <2>1. cache.born \in Nat /\ cache.stamp \in Nat /\ TTL \in Nat
    BY <1>1, SessionAssumption DEF Kis!Fresh, Kis!Token, Kis!ParametersAssumption
  <2>2. cache.born <= now /\ now <= cache.born + TTL
    BY <1>1, <2>1 DEF KisInv, Dated, Kis!Fresh, SessionTypes
  <2>3. /\ step' = [step EXCEPT ![p] = "call"]
        /\ since' = [since EXCEPT ![p] = now] /\ token' = [token EXCEPT ![p] = cache.born]
        /\ UNCHANGED <<now, cache, tmp, stamp>>
    BY <1>1 DEF Kis!Start, Kis!Goto
  <2>4. SessionTypes'
    BY <2>1, <2>3 DEF KisInv, SessionTypes, Holding
  <2>5. SessionInv(p)'
    BY <2>1, <2>2, <2>3 DEF KisInv, SessionTypes, SessionInv, Holding
  <2> QED
    BY <2>3, <2>4, <2>5, OneSession DEF KisInv, SessionTypes
<1>2. CASE skip \/ ~Kis!Fresh(cache)
  <2>1. PICK l \in {"write", "post"} :
          /\ step' = [step EXCEPT ![p] = l]
          /\ since' = [since EXCEPT ![p] = now] /\ token' = [token EXCEPT ![p] = None]
          /\ UNCHANGED <<now, cache, tmp, stamp>>
    BY <1>2 DEF Kis!Start, Kis!Goto
  <2>2. SessionTypes'
    BY <2>1 DEF KisInv, SessionTypes, Holding
  <2>3. SessionInv(p)'
    BY <2>1 DEF KisInv, SessionTypes, SessionInv, Holding
  <2> QED
    BY <2>1, <2>2, <2>3, OneSession DEF KisInv, SessionTypes
<1> QED
  BY <1>1, <1>2

\* The request for a token, answered or not.
LEMMA PostKeeps ==
  ASSUME KisInv, NEW p \in Stages,
         Kis!PostAgain(p) \/ Kis!PostFails(p) \/ Kis!PostSucceeds(p)
  PROVE  KisInv'
<1>1. CASE Kis!PostAgain(p)
  BY <1>1, OneSession DEF Kis!PostAgain, KisInv, SessionTypes, SessionInv
<1>2. CASE Kis!PostFails(p) /\ p \in Syncs
  <2>1. /\ step[p] = "post" /\ step' = [step EXCEPT ![p] = "write"]
        /\ UNCHANGED <<now, cache, tmp, since, token, stamp>>
    BY <1>2 DEF Kis!PostFails, Kis!Goto
  <2>2. SessionTypes' /\ SessionInv(p)'
    BY <2>1 DEF KisInv, SessionTypes, SessionInv, Holding
  <2> QED
    BY <2>1, <2>2, OneSession DEF KisInv, SessionTypes
<1>3. CASE Kis!PostFails(p) /\ p \notin Syncs
  BY <1>3, LeaveKeeps DEF Kis!PostFails
<1>4. CASE Kis!PostSucceeds(p)
  <2>1. /\ step[p] = "post" /\ step' = [step EXCEPT ![p] = "receive"]
        /\ token' = [token EXCEPT ![p] = now]
        /\ UNCHANGED <<now, cache, tmp, since, stamp>>
    BY <1>4 DEF Kis!PostSucceeds, Kis!Goto
  <2>2. SessionTypes' /\ SessionInv(p)'
    BY <2>1, SessionAssumption DEF KisInv, SessionTypes, SessionInv, Holding, Kis!ParametersAssumption
  <2> QED
    BY <2>1, <2>2, OneSession DEF KisInv, SessionTypes
<1> QED
  BY <1>1, <1>2, <1>3, <1>4

\* The answer is stamped and the temporary file opened.
LEMMA ReceiveKeeps ==
  ASSUME KisInv, NEW p \in Stages, Kis!Receive(p)
  PROVE  KisInv'
<1>1. /\ step[p] = "receive" /\ step' = [step EXCEPT ![p] = "dump"]
      /\ stamp' = [stamp EXCEPT ![p] = now] /\ tmp' = Torn
      /\ UNCHANGED <<now, cache, since, token>>
  BY DEF Kis!Receive, Kis!Goto
<1>2. SessionTypes'
  BY <1>1 DEF KisInv, SessionTypes, Holding
<1>3. Dated(cache)' /\ Dated(tmp)'
  BY <1>1, SessionAssumption DEF KisInv, Dated, Kis!ParametersAssumption
<1>4. ASSUME NEW q \in Stages PROVE SessionInv(q)'
  <2>1. CASE q = p
    BY <1>1, <2>1 DEF KisInv, SessionTypes, SessionInv, Holding
  <2>2. CASE q # p
    BY <1>1, <2>2 DEF KisInv, SessionTypes, SessionInv
  <2> QED
    BY <2>1, <2>2
<1> QED
  BY <1>2, <1>3, <1>4 DEF KisInv

\* The text goes to whichever file the descriptor leads to.
LEMMA DumpKeeps ==
  ASSUME KisInv, NEW p \in Stages, Kis!Dump(p)
  PROVE  KisInv'
<1> DEFINE own == [born |-> token[p], stamp |-> stamp[p]]
<1>1. /\ step[p] = "dump" /\ step' = [step EXCEPT ![p] = "replace"]
      /\ UNCHANGED <<now, since, token, stamp>>
      /\ cache' \in {cache, own, Torn} /\ tmp' \in {tmp, own, Torn}
  BY DEF Kis!Dump, Kis!Goto
<1>2. token[p] <= stamp[p] /\ stamp[p] <= token[p] + 1 /\ stamp[p] <= now
  BY <1>1 DEF KisInv, SessionInv
<1>3. own.born = token[p] /\ own.stamp = stamp[p]
  OBVIOUS
<1>4. Dated(cache)' /\ Dated(tmp)'
  <2>1. ~(Torn \in Kis!Token)
    BY SessionAssumption DEF Kis!ParametersAssumption
  <2>2. \A f \in {cache, tmp, own, Torn} : Dated(f)
    <3> HIDE DEF own
    <3> QED BY <1>2, <1>3, <2>1 DEF KisInv, Dated
  <2>3. \A f : Dated(f) => (f \in Kis!Token => f.born <= f.stamp /\ f.stamp <= f.born + 1 /\ f.stamp <= now')
    BY <1>1 DEF Dated
  <2> HIDE DEF own
  <2> QED
    BY <1>1, <2>2, <2>3 DEF Dated
<1>5. SessionTypes'
  BY <1>1 DEF KisInv, SessionTypes, Holding
<1>6. ASSUME NEW q \in Stages PROVE SessionInv(q)'
  <2>1. CASE q = p
    BY <1>1, <2>1 DEF KisInv, SessionTypes, SessionInv, Holding
  <2>2. CASE q # p
    BY <1>1, <2>2 DEF KisInv, SessionTypes, SessionInv
  <2> QED
    BY <2>1, <2>2
<1> QED
  BY <1>4, <1>5, <1>6 DEF KisInv

\* The temporary file becomes the cache, or is not there any more.
LEMMA ReplaceKeeps ==
  ASSUME KisInv, NEW p \in Stages, Kis!Replace(p) \/ Kis!ReplaceRaises(p)
  PROVE  KisInv'
<1>1. CASE Kis!Replace(p)
  <2>1. /\ step[p] = "replace" /\ step' = [step EXCEPT ![p] = "call"]
        /\ cache' = tmp /\ tmp' = Absent
        /\ UNCHANGED <<now, since, token, stamp>>
    BY <1>1 DEF Kis!Replace, Kis!Goto
  <2>2. SessionTypes'
    BY <2>1 DEF KisInv, SessionTypes, Holding
  <2>3. Dated(cache)' /\ Dated(tmp)'
    BY <2>1, SessionAssumption DEF KisInv, Dated, Kis!ParametersAssumption
  <2>4. ASSUME NEW q \in Stages PROVE SessionInv(q)'
    <3>1. CASE q = p
      BY <2>1, <3>1 DEF KisInv, SessionTypes, SessionInv, Holding
    <3>2. CASE q # p
      BY <2>1, <3>2 DEF KisInv, SessionTypes, SessionInv
    <3> QED
      BY <3>1, <3>2
  <2> QED
    BY <2>2, <2>3, <2>4 DEF KisInv
<1>2. CASE Kis!ReplaceRaises(p)
  BY <1>2, LeaveKeeps DEF Kis!ReplaceRaises
<1> QED
  BY <1>1, <1>2

\* The calls: the token and its session stay as they are, or the session ends.
LEMMA CallKeeps ==
  ASSUME KisInv, NEW p \in Stages,
         \/ Kis!Get(p) \/ Kis!Block(p) \/ Kis!GetSellable(p) \/ Kis!WriteSummary(p)
         \/ Kis!HavePrices(p) \/ Kis!Die(p)
  PROVE  KisInv'
<1>1. CASE Kis!Get(p)
  BY <1>1, OneSession DEF Kis!Get, KisInv, SessionTypes, SessionInv
<1>2. CASE Kis!GetSellable(p)
  <2>1. /\ step[p] = "call" /\ step' = [step EXCEPT ![p] = "write"]
        /\ UNCHANGED <<now, cache, tmp, since, token, stamp>>
    BY <1>2 DEF Kis!GetSellable, Kis!Goto
  <2>2. SessionTypes' /\ SessionInv(p)'
    BY <2>1 DEF KisInv, SessionTypes, SessionInv, Holding
  <2> QED
    BY <2>1, <2>2, OneSession DEF KisInv, SessionTypes
<1>3. CASE Kis!Block(p) \/ Kis!WriteSummary(p) \/ Kis!HavePrices(p) \/ Kis!Die(p)
  BY <1>3, LeaveKeeps DEF Kis!Block, Kis!WriteSummary, Kis!HavePrices, Kis!Die
<1> QED
  BY <1>1, <1>2, <1>3

\* Time passes only where every session began in the present unit.
LEMMA TickKeeps ==
  ASSUME KisInv, Kis!Tick
  PROVE  KisInv'
<1>1. /\ now' = now + 1 /\ \A p \in Stages : step[p] # "idle" => since[p] = now
      /\ UNCHANGED <<cache, tmp, step, since, token, stamp>>
  BY DEF Kis!Tick
<1>2. SessionTypes'
  BY <1>1 DEF KisInv, SessionTypes
<1>3. Dated(cache)' /\ Dated(tmp)'
  <2>1. \A f : f \in Kis!Token => f.born \in Nat /\ f.stamp \in Nat
    BY SessionAssumption DEF Kis!Token, Kis!ParametersAssumption
  <2> QED
    BY <1>1, <2>1 DEF KisInv, SessionTypes, Dated
<1>4. ASSUME NEW p \in Stages PROVE SessionInv(p)'
  BY <1>1 DEF KisInv, SessionTypes, SessionInv, Holding
<1> QED
  BY <1>2, <1>3, <1>4 DEF KisInv

\* Every step of the composition, of the sessions or of the days, keeps it.
LEMMA KisInvNext == KisInv /\ [MCNext]_allVars => KisInv'
<1> SUFFICES ASSUME KisInv, [MCNext]_allVars PROVE KisInv'
  OBVIOUS
<1>1. CASE UNCHANGED kisVars
  BY <1>1 DEF kisVars, KisInv, SessionTypes, Dated, SessionInv
<1>2. CASE Kis!Next
  BY <1>2, StartKeeps, PostKeeps, ReceiveKeeps, DumpKeeps, ReplaceKeeps, CallKeeps, TickKeeps
     DEF Kis!Next
<1> QED
  BY <1>1, <1>2 DEF MCNext, allVars

\* In a state of the invariant a session that sends a token sends a living one.
LEMMA KisInvImplies == KisInv => SentTokenIsLive
<1> SUFFICES ASSUME KisInv, NEW p \in Stages, Kis!Calling(p)
             PROVE  now - token[p] < Life
  BY DEF SentTokenIsLive, Kis!SentTokenIsLive
<1>1. step[p] = "call"
  BY DEF Kis!Calling
<1>2. /\ now \in Nat /\ since[p] \in Nat /\ token[p] \in Nat
      /\ now <= since[p] + 1 /\ since[p] <= token[p] + TTL
  BY <1>1 DEF KisInv, SessionTypes, SessionInv, Holding
<1>3. TTL \in Nat /\ Life \in Nat /\ TTL + 2 <= Life
  BY SessionAssumption DEF Kis!ParametersAssumption
<1> QED
  BY <1>2, <1>3

(* No stage sends a token that the server has dropped (kis/client.py): for *)
(* any number of racing and dying sessions, any ttl that leaves two units  *)
(* of the server's lifetime, and a clock of any length.                    *)
THEOREM SentTokenIsLiveAlways == MCSpec => []SentTokenIsLive
<1>1. MCInit => KisInv
  BY KisInvInit DEF MCInit
<1> QED
  BY <1>1, KisInvNext, KisInvImplies, PTL DEF MCSpec

------------------------------------------------------------------------------
(* Summaries: types, then what the calls made so far say of the rest.      *)
Report == [status : {"ok", "partial", "skipped"}, did : Seq({"full", "blank", "fail"}),
            total : {None, "balance", "assets"}, held : {0, 1}]

Skipped == [status |-> "skipped", did |-> << >>, total |-> None, held |-> 0]

Balanced(s) ==
  /\ Len(s.did) <= 4 /\ s.status # "skipped"
  /\ s.status = "ok" <=> \A i \in 1 .. Len(s.did) : s.did[i] # "fail"
  /\ s.held = 1 <=> Len(s.did) >= 1 /\ s.did[1] = "full"
  /\ s.total = "assets" => Len(s.did) >= 3 /\ s.did[1] # "full" /\ s.did[3] = "full"
  /\ s.total = None => Len(s.did) = 0 \/ s.did[1] # "full"

SyncInv(p) ==
  /\ step[p] \in {"post", "receive", "dump", "replace"} => summary[p] = Kis!NewSummary
  /\ step[p] = "call" => Balanced(summary[p])
  /\ step[p] = "write" =>
       \/ summary[p] = Skipped
       \/ Balanced(summary[p]) /\ Len(summary[p].did) = 4

SummaryInv ==
  /\ summary \in [Stages -> Report]
  /\ \A p \in Syncs : SyncInv(p)

\* A session starts with an empty summary, which has nothing to answer for.
LEMMA NewSummaryBalanced == Kis!NewSummary \in Report /\ Balanced(Kis!NewSummary)
<1>1. <<>> \in Seq({"full", "blank", "fail"}) /\ Len(<<>>) = 0
  OBVIOUS
<1>2. None \notin {"balance", "assets"}
  BY SessionAssumption DEF Kis!ParametersAssumption
<1> QED
  BY <1>1, <1>2 DEF Kis!NewSummary, Report, Balanced

\* Noting an answer appends it and changes nothing of the other answers.
LEMMA NotedTypes ==
  ASSUME NEW s \in Report, NEW call \in {"balance", "buyable", "assets", "realized", "price"},
         NEW a \in {"full", "blank", "fail"}, NEW t, t = Kis!Noted(s, call, a)
  PROVE  /\ t \in Report
         /\ Len(t.did) = Len(s.did) + 1 /\ t.did[Len(s.did) + 1] = a
         /\ \A i \in 1 .. Len(s.did) : t.did[i] = s.did[i]
         /\ t.status = IF a = "fail" THEN "partial" ELSE s.status
         /\ t.total = IF a = "full" /\ (call = "balance" \/ (call = "assets" /\ s.total = None))
                      THEN call ELSE s.total
         /\ t.held = IF call = "balance" /\ a = "full" THEN 1 ELSE s.held
<1> DEFINE status == IF a = "fail" THEN "partial" ELSE s.status
           total  == IF a = "full" /\ (call = "balance" \/ (call = "assets" /\ s.total = None))
                     THEN call ELSE s.total
           held   == IF call = "balance" /\ a = "full" THEN 1 ELSE s.held
           did    == Append(s.did, a)
<1>1. /\ did \in Seq({"full", "blank", "fail"}) /\ Len(did) = Len(s.did) + 1
      /\ did[Len(s.did) + 1] = a /\ \A i \in 1 .. Len(s.did) : did[i] = s.did[i]
  BY DEF Report
<1>2. t = [status |-> status, did |-> did, total |-> total, held |-> held]
  BY DEF Kis!Noted
<1>3. status \in {"ok", "partial", "skipped"} /\ total \in {None, "balance", "assets"} /\ held \in {0, 1}
  BY DEF Report
<1> HIDE DEF status, total, held, did
<1>4. [status |-> status, did |-> did, total |-> total, held |-> held] \in Report
  BY <1>1, <1>3 DEF Report
<1> QED
  BY <1>1, <1>2, <1>4 DEF status, total, held

\* The summary of a sync that had no token.
LEMMA SkippedSummary ==
  [Kis!NewSummary EXCEPT !.status = "skipped"] = Skipped /\ Skipped \in Report
<1>1. <<>> \in Seq({"full", "blank", "fail"})
  OBVIOUS
<1> QED
  BY <1>1 DEF Kis!NewSummary, Skipped, Report

\* The next call of a sync is known by the number of answers.
LEMMA NotedKeeps ==
  ASSUME NEW s \in Report, Balanced(s), Len(s.did) < 4,
         NEW a \in {"full", "blank", "fail"}
  PROVE  Balanced(Kis!Noted(s, Kis!AccountCalls[Len(s.did) + 1], a))
<1>1. PICK n \in {0, 1, 2, 3} : n = Len(s.did)
  <2>1. Len(s.did) \in Nat
    BY DEF Report
  <2>2. \A m \in Nat : m < 4 => m \in {0, 1, 2, 3}
    OBVIOUS
  <2> QED
    BY <2>1, <2>2
<1>2. PICK call \in {"balance", "buyable", "assets", "realized", "price"} :
        /\ call = Kis!AccountCalls[n + 1]
        /\ call = "balance" <=> n = 0
        /\ call = "assets" <=> n = 2
  <2>1. /\ Kis!AccountCalls[1] = "balance" /\ Kis!AccountCalls[2] = "buyable"
        /\ Kis!AccountCalls[3] = "assets" /\ Kis!AccountCalls[4] = "realized"
    BY DEF Kis!AccountCalls
  <2>2. CASE n = 0
    <3>1. n + 1 = 1
      BY <2>2
    <3> QED
      BY <2>1, <2>2, <3>1
  <2>3. CASE n = 1
    <3>1. n + 1 = 2
      BY <2>3
    <3> QED
      BY <2>1, <2>3, <3>1
  <2>4. CASE n = 2
    <3>1. n + 1 = 3
      BY <2>4
    <3> QED
      BY <2>1, <2>4, <3>1
  <2>5. CASE n = 3
    <3>1. n + 1 = 4
      BY <2>5
    <3> QED
      BY <2>1, <2>5, <3>1
  <2> QED
    BY <2>2, <2>3, <2>4, <2>5
<1> DEFINE t == Kis!Noted(s, call, a)
<1> HIDE DEF t
<1>3. /\ Len(t.did) = n + 1 /\ t.did[n + 1] = a
      /\ \A i \in 1 .. n : t.did[i] = s.did[i]
      /\ t.status = IF a = "fail" THEN "partial" ELSE s.status
      /\ t.total = IF a = "full" /\ (call = "balance" \/ (call = "assets" /\ s.total = None))
                   THEN call ELSE s.total
      /\ t.held = IF call = "balance" /\ a = "full" THEN 1 ELSE s.held
  <2>1. /\ Len(t.did) = Len(s.did) + 1 /\ t.did[Len(s.did) + 1] = a
        /\ \A i \in 1 .. Len(s.did) : t.did[i] = s.did[i]
        /\ t.status = IF a = "fail" THEN "partial" ELSE s.status
        /\ t.total = IF a = "full" /\ (call = "balance" \/ (call = "assets" /\ s.total = None))
                     THEN call ELSE s.total
        /\ t.held = IF call = "balance" /\ a = "full" THEN 1 ELSE s.held
    <3>1. t = Kis!Noted(s, call, a)
      BY DEF t
    <3> QED
      BY <3>1, NotedTypes
  <2> QED
    BY <1>1, <2>1
<1>4. s.status \in {"ok", "partial", "skipped"} /\ s.held \in {0, 1}
      /\ s.total \in {None, "balance", "assets"} /\ None \notin {"balance", "assets"}
  BY SessionAssumption DEF Report, Kis!ParametersAssumption
<1>5. Len(t.did) <= 4 /\ t.status # "skipped"
  BY <1>1, <1>3, <1>4 DEF Balanced
<1>6. t.status = "ok" <=> \A i \in 1 .. Len(t.did) : t.did[i] # "fail"
  <2>1. s.status = "ok" <=> \A i \in 1 .. n : s.did[i] # "fail"
    BY <1>1 DEF Balanced
  <2>2. 1 .. Len(t.did) = 1 .. n \cup {n + 1}
    BY <1>1, <1>3
  <2>3. (\A i \in 1 .. Len(t.did) : t.did[i] # "fail") <=>
          (a # "fail" /\ \A i \in 1 .. n : s.did[i] # "fail")
    BY <1>3, <2>2
  <2> QED
    BY <1>3, <2>1, <2>3
<1>7. n >= 1 => t.did[1] = s.did[1]
  BY <1>1, <1>3
<1>8. n >= 3 => t.did[3] = s.did[3]
  BY <1>1, <1>3
<1>9. /\ t.held = 1 <=> Len(t.did) >= 1 /\ t.did[1] = "full"
      /\ t.total = "assets" => Len(t.did) >= 3 /\ t.did[1] # "full" /\ t.did[3] = "full"
      /\ t.total = None => Len(t.did) = 0 \/ t.did[1] # "full"
  <2>1. /\ s.held = 1 <=> n >= 1 /\ s.did[1] = "full"
        /\ s.total = "assets" => n >= 3 /\ s.did[1] # "full" /\ s.did[3] = "full"
        /\ s.total = None => n = 0 \/ s.did[1] # "full"
    BY <1>1 DEF Balanced
  <2>2. CASE n = 0
    BY <1>2, <1>3, <1>4, <2>1, <2>2
  <2>3. CASE n = 2
    BY <1>2, <1>3, <1>4, <1>7, <2>1, <2>3
  <2>4. CASE n \in {1, 3}
    BY <1>2, <1>3, <1>4, <1>7, <1>8, <2>1, <2>4
  <2> QED
    BY <1>1, <2>2, <2>3, <2>4
<1> QED
  BY <1>1, <1>2, <1>5, <1>6, <1>9 DEF Balanced, t

\* No session, no summary.
LEMMA SummaryInvInit == Kis!Init => SummaryInv
<1> SUFFICES ASSUME Kis!Init PROVE SummaryInv
  OBVIOUS
<1>1. Syncs \subseteq Stages
  BY SessionAssumption DEF Kis!ParametersAssumption
<1> QED
  BY <1>1, NewSummaryBalanced DEF Kis!Init, SummaryInv, SyncInv

\* A step of one session leaves the summaries of the others alone.
LEMMA OneSummary ==
  ASSUME SummaryInv, NEW p \in Stages, summary' \in [Stages -> Report],
         \A q \in Stages \ {p} : step'[q] = step[q] /\ summary'[q] = summary[q],
         p \in Syncs => SyncInv(p)'
  PROVE  SummaryInv'
<1>1. ASSUME NEW q \in Syncs PROVE SyncInv(q)'
  <2>1. q \in Stages
    BY SessionAssumption DEF Kis!ParametersAssumption
  <2>2. CASE q # p
    BY <2>1, <2>2 DEF SummaryInv, SyncInv
  <2> QED
    BY <2>2
<1> QED
  BY <1>1 DEF SummaryInv

\* A session that ends takes its summary with it.
LEMMA LeaveKeepsSummaries ==
  ASSUME SummaryInv, SessionTypes, NEW p \in Stages, Kis!Leave(p)
  PROVE  SummaryInv'
<1>1. step' = [step EXCEPT ![p] = "idle"] /\ summary' = [summary EXCEPT ![p] = Kis!NewSummary]
  BY DEF Kis!Leave, Kis!Goto
<1>2. summary' \in [Stages -> Report]
  BY <1>1, NewSummaryBalanced DEF SummaryInv
<1>3. step'[p] = "idle"
  BY <1>1 DEF SessionTypes
<1> QED
  BY <1>1, <1>2, <1>3, OneSummary DEF SummaryInv, SessionTypes, SyncInv

\* Every step of the composition keeps the summaries in order.
LEMMA SummaryInvNext == SessionTypes /\ SummaryInv /\ [MCNext]_allVars => SummaryInv'
<1> SUFFICES ASSUME SessionTypes, SummaryInv, [MCNext]_allVars PROVE SummaryInv'
  OBVIOUS
<1> USE NewSummaryBalanced
<1>1. CASE UNCHANGED kisVars \/ Kis!Tick
  BY <1>1 DEF kisVars, Kis!Tick, SummaryInv, SyncInv
<1>2. ASSUME NEW p \in Stages, Kis!Start(p) PROVE SummaryInv'
  <2> DEFINE skip == p \in Syncs /\ ~enabled
             new == IF skip THEN Skipped ELSE Kis!NewSummary
             to == IF skip THEN "write" ELSE IF Kis!Fresh(cache) THEN "call" ELSE "post"
  <2>1. summary' = [summary EXCEPT ![p] = new] /\ step' = [step EXCEPT ![p] = to]
    BY <1>2, SkippedSummary DEF Kis!Start, Kis!Goto
  <2>2. new \in Report
    BY SkippedSummary
  <2> HIDE DEF new
  <2>3. summary' \in [Stages -> Report] /\ summary'[p] = new /\ step'[p] = to
    BY <2>1, <2>2 DEF SummaryInv, SessionTypes
  <2>4. SyncInv(p)'
    BY <2>3 DEF SyncInv, new
  <2> QED
    BY <2>1, <2>3, <2>4, OneSummary DEF SummaryInv, SessionTypes
<1>3. ASSUME NEW p \in Stages, Kis!PostAgain(p) PROVE SummaryInv'
  BY <1>3 DEF Kis!PostAgain, SummaryInv, SyncInv
<1>4. ASSUME NEW p \in Stages, Kis!PostFails(p) PROVE SummaryInv'
  <2>1. CASE p \in Syncs
    <3>1. /\ step[p] = "post" /\ step' = [step EXCEPT ![p] = "write"]
          /\ summary' = [summary EXCEPT ![p].status = "skipped"]
      BY <1>4, <2>1 DEF Kis!PostFails, Kis!Goto
    <3>2. summary[p] = Kis!NewSummary
      BY <2>1, <3>1 DEF SummaryInv, SyncInv
    <3>3. summary' = [summary EXCEPT ![p] = Skipped]
      BY <3>1, <3>2, SkippedSummary
    <3>4. summary' \in [Stages -> Report] /\ summary'[p] = Skipped /\ step'[p] = "write"
      BY <3>1, <3>3, SkippedSummary DEF SummaryInv, SessionTypes
    <3>5. SyncInv(p)'
      BY <3>4 DEF SyncInv
    <3> QED
      BY <3>1, <3>3, <3>4, <3>5, OneSummary DEF SummaryInv, SessionTypes
  <2>2. CASE p \notin Syncs
    BY <1>4, <2>2, LeaveKeepsSummaries DEF Kis!PostFails
  <2> QED
    BY <2>1, <2>2
<1>5. ASSUME NEW p \in Stages,
             Kis!PostSucceeds(p) \/ Kis!Receive(p) \/ Kis!Dump(p) \/ Kis!Replace(p)
      PROVE SummaryInv'
  <2>1. PICK l \in {"receive", "dump", "replace", "call"} :
          /\ step[p] \in {"post", "receive", "dump", "replace"} /\ step' = [step EXCEPT ![p] = l]
          /\ summary' = summary
    BY <1>5 DEF Kis!PostSucceeds, Kis!Receive, Kis!Dump, Kis!Replace, Kis!Goto
  <2>2. ASSUME p \in Syncs PROVE SyncInv(p)'
    BY <2>1, <2>2 DEF SummaryInv, SyncInv, SessionTypes
  <2> QED
    BY <2>1, <2>2, OneSummary DEF SummaryInv, SessionTypes
<1>6. ASSUME NEW p \in Stages, Kis!Get(p) PROVE SummaryInv'
  <2>1. step[p] = "call" /\ step' = step
        /\ Len(summary[p].did) < Len(Kis!Calls(p))
    BY <1>6 DEF Kis!Get, Kis!Calling
  <2>2. PICK a \in {"full", "blank", "fail"} :
          summary' = [summary EXCEPT ![p] = Kis!Noted(@, Kis!NextCall(p), a)]
    BY <1>6 DEF Kis!Get, Kis!Answers
  <2>3. Kis!NextCall(p) \in {"balance", "buyable", "assets", "realized", "price"}
    <3>1. Len(summary[p].did) \in Nat
      BY DEF SummaryInv, Report
    <3> QED
      BY <2>1, <3>1 DEF Kis!NextCall, Kis!Calls, Kis!AccountCalls
  <2>4. summary[p] \in Report
    BY DEF SummaryInv
  <2>5. Kis!Noted(summary[p], Kis!NextCall(p), a) \in Report
    BY <2>3, <2>4, NotedTypes
  <2>6. summary' \in [Stages -> Report]
    BY <2>2, <2>5 DEF SummaryInv
  <2>7. ASSUME p \in Syncs PROVE SyncInv(p)'
    <3>1. Balanced(summary[p]) /\ Len(summary[p].did) < 4
          /\ Kis!NextCall(p) = Kis!AccountCalls[Len(summary[p].did) + 1]
      BY <2>1, <2>7 DEF SummaryInv, SyncInv, Kis!NextCall, Kis!Calls, Kis!AccountCalls
    <3>2. Balanced(Kis!Noted(summary[p], Kis!NextCall(p), a))
      BY <2>4, <3>1, NotedKeeps
    <3>3. summary'[p] = Kis!Noted(summary[p], Kis!NextCall(p), a) /\ step'[p] = "call"
      BY <2>1, <2>2 DEF SummaryInv
    <3> QED
      BY <3>2, <3>3 DEF SyncInv
  <2> QED
    BY <2>1, <2>2, <2>6, <2>7, OneSummary DEF SummaryInv
<1>7. ASSUME NEW p \in Stages, Kis!GetSellable(p) PROVE SummaryInv'
  <2>1. /\ p \in Syncs /\ step[p] = "call" /\ step' = [step EXCEPT ![p] = "write"]
        /\ ~(Len(summary[p].did) < 4) /\ summary' = summary
    <3>1. p \in Syncs /\ step[p] = "call" /\ ~Kis!Calling(p)
      BY <1>7 DEF Kis!GetSellable
    <3>2. Kis!Calls(p) = Kis!AccountCalls /\ Len(Kis!AccountCalls) = 4
      BY <3>1 DEF Kis!Calls, Kis!AccountCalls
    <3> QED
      BY <1>7, <3>1, <3>2 DEF Kis!GetSellable, Kis!Goto, Kis!Calling
  <2>2. Balanced(summary[p]) /\ summary[p] \in Report
    BY <2>1 DEF SummaryInv, SyncInv
  <2>3. Len(summary[p].did) \in Nat /\ Len(summary[p].did) <= 4
    BY <2>2 DEF Report, Balanced
  <2>4. step'[p] = "write" /\ summary'[p] = summary[p] /\ Len(summary[p].did) = 4
    <3>1. ~(Len(summary[p].did) < 4)
      BY <2>1
    <3>2. \A m \in Nat : m <= 4 /\ ~(m < 4) => m = 4
      OBVIOUS
    <3>3. Len(summary[p].did) = 4
      BY <2>3, <3>1, <3>2
    <3> QED
      BY <2>1, <3>3 DEF SessionTypes
  <2>5. SyncInv(p)'
    BY <2>2, <2>4 DEF SyncInv
  <2> QED
    BY <2>1, <2>5, OneSummary DEF SummaryInv, SessionTypes
<1>8. ASSUME NEW p \in Stages, \/ Kis!ReplaceRaises(p) \/ Kis!Block(p) \/ Kis!WriteSummary(p)
                               \/ Kis!HavePrices(p) \/ Kis!Die(p)
      PROVE SummaryInv'
  BY <1>8, LeaveKeepsSummaries
     DEF Kis!ReplaceRaises, Kis!Block, Kis!WriteSummary, Kis!HavePrices, Kis!Die
<1>9. CASE Kis!Next
  BY <1>1, <1>2, <1>3, <1>4, <1>5, <1>6, <1>7, <1>8, <1>9 DEF Kis!Next
<1> QED
  BY <1>1, <1>9 DEF MCNext, allVars

\* A summary in order is honest.
LEMMA SummaryInvImplies == SummaryInv => SummaryIsHonest
<1> SUFFICES ASSUME SummaryInv, NEW p \in Syncs, step[p] = "write"
             PROVE  LET s == summary[p]
                        answered == /\ Len(s.did) = Len(Kis!AccountCalls)
                                    /\ \A i \in DOMAIN s.did : s.did[i] # "fail"
                    IN  /\ s.status = "ok" <=> answered
                        /\ s.total = "assets" => s.did[1] # "full" /\ s.did[3] = "full"
                        /\ s.held = 0 /\ s.status = "ok" => s.did[1] = "blank"
  BY DEF SummaryIsHonest, Kis!SummaryIsHonest
<1> DEFINE s == summary[p]
<1>1. p \in Stages /\ None \notin {"balance", "assets"}
  BY SessionAssumption DEF Kis!ParametersAssumption
<1>2. s \in Report
  BY <1>1 DEF SummaryInv
<1>3. Len(Kis!AccountCalls) = 4
  BY DEF Kis!AccountCalls
<1>4. CASE s = Skipped
  <2>1. s.status = "skipped" /\ s.did = <<>> /\ s.total = None
    BY <1>4 DEF Skipped
  <2>2. Len(s.did) = 0
    BY <2>1
  <2> QED
    BY <1>1, <1>3, <2>1, <2>2
<1>5. CASE Balanced(s) /\ Len(s.did) = 4
  <2>1. DOMAIN s.did = 1 .. 4 /\ s.did[1] \in {"full", "blank", "fail"} /\ s.held \in {0, 1}
    BY <1>2, <1>5 DEF Report
  <2>2. /\ s.status = "ok" <=> \A i \in 1 .. 4 : s.did[i] # "fail"
        /\ s.held = 1 <=> s.did[1] = "full"
        /\ s.total = "assets" => s.did[1] # "full" /\ s.did[3] = "full"
    BY <1>5 DEF Balanced
  <2> QED
    BY <1>3, <1>5, <2>1, <2>2
<1> QED
  BY <1>4, <1>5 DEF SummaryInv, SyncInv

(* positions_sync writes "ok" only of an account read whole, for any number *)
(* of syncs and any policy of calls.                                       *)
THEOREM SummaryIsHonestAlways == MCSpec => []SummaryIsHonest
<1>1. MCInit => KisInv /\ SummaryInv
  BY KisInvInit, SummaryInvInit DEF MCInit
<1>2. KisInv /\ SummaryInv /\ [MCNext]_allVars => KisInv' /\ SummaryInv'
  BY KisInvNext, SummaryInvNext DEF KisInv
<1> QED
  BY <1>1, <1>2, SummaryInvImplies, PTL DEF MCSpec
==============================================================================
