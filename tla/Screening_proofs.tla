--------------------------- MODULE Screening_proofs ---------------------------
(***************************************************************************)
(* Proofs about Screening, for any number of tickers, committers, commits  *)
(* and batches, any rule trees and any snapshots: the types; the order of  *)
(* the versions; the one policy behind a verdict, where what a tree makes  *)
(* of a snapshot is not opened; then the trees, by induction over their    *)
(* nodes, and what missing figures can do to a pass.                       *)
(***************************************************************************)
EXTENDS Screening, NatSets, SequenceTheorems, FiniteSetTheorems, TLAPS

USE ScreeningAssumption

LEMMA JudgeKinds ==
  ASSUME NEW s, NEW p
  PROVE  Judge(s, p) \in {"pass", "fail", "caution", "raises"}
BY DEF Judge, Evaluate

LEMMA ReplaceInSeq ==
  ASSUME NEW S, NEW q \in Seq(S), NEW i, NEW e \in S
  PROVE  /\ [q EXCEPT ![i] = e] \in Seq(S)
         /\ Len([q EXCEPT ![i] = e]) = Len(q)
<1>1. CASE i \in 1..Len(q)
  BY <1>1, ExceptSeq
<1>2. CASE i \notin 1..Len(q)
  <2>1. q = [n \in 1..Len(q) |-> q[n]]
    OBVIOUS
  <2>2. [q EXCEPT ![i] = e] = q
    BY <1>2, <2>1, Zenon
  <2> QED
    BY <2>2
<1> QED
  BY <1>1, <1>2

--------------------------------------------------------------------------------
(* Types. *)

\* The ticker at hand has no verdict yet.
AtHand == at \in {"gate", "rule"} => ticker \in left

TypeInv == TypeOK /\ AtHand

LEMMA LatestType ==
  ASSUME TypeOK, NEW t \in Tickers
  PROVE  Latest(t) \in Read
BY DEF TypeOK, Latest, Previous, Read

LEMMA LoadType ==
  ASSUME TypeOK, NEW t \in Tickers
  PROVE  Load(t) \in Read
BY LatestType DEF TypeOK, Load

LEMMA ConcludeTypes ==
  ASSUME TypeInv, NEW t \in Tickers, NEW kind \in {"pass", "fail", "caution", "unknown"},
         NEW s \in Snapshots \cup {None}, NEW r \in Read \cup {None},
         Conclude(t, kind, s, r), UNCHANGED <<policy, cache, entry>>,
         memo' \in [Tickers -> Read \cup {None}]
  PROVE  TypeInv'
<1>1. [kind |-> kind, snapshot |-> s, read |-> r, upto |-> Len(profiles[t])] \in VerdictOf
  BY DEF TypeInv, TypeOK, VerdictOf
<1>2. verdicts' \in [Tickers -> VerdictOf \cup {None}]
  BY <1>1 DEF Conclude, TypeInv, TypeOK
<1> QED
  BY <1>2 DEF Conclude, TypeInv, TypeOK, AtHand, policy, inputs

LEMMA CrashTypes ==
  ASSUME TypeInv, Crash, UNCHANGED policy
  PROVE  TypeInv'
BY DEF TypeInv, TypeOK, AtHand, Crash, policy, inputs

LEMMA TypeInit == Init => TypeInv
BY DEF Init, TypeInv, TypeOK, AtHand

LEMMA CommitTypes ==
  ASSUME TypeInv, NEW c \in Committers, CommitStep(c)
  PROVE  TypeInv'
<1>1. ASSUME NEW t \in Tickers, NEW d \in Drafts, BeginCommit(c, t, d) PROVE TypeInv'
  <2>1. [ticker |-> t, draft |-> d, version |-> Previous(t) + 1, at |-> "loaded",
         base |-> Len(acked)] \in Commit
    BY DEF TypeInv, TypeOK, Previous, Commit
  <2> QED
    BY <1>1, <2>1 DEF BeginCommit, TypeInv, TypeOK, AtHand, screen
<1>2. ASSUME OpenVersion(c) PROVE TypeInv'
  <2>1. com[c] \in Commit
    BY <1>2 DEF OpenVersion, TypeInv, TypeOK
  <2>2. com' \in [Committers -> Commit \cup {None}]
    <3>1. \A place \in {"listed", "hidden"} : [com[c] EXCEPT !.at = place] \in Commit
      BY <2>1 DEF Commit
    <3>2. PICK place \in {"listed", "hidden"} : com' = [com EXCEPT ![c] = [com[c] EXCEPT !.at = place]]
      BY <1>2 DEF OpenVersion
    <3>3. PICK moved \in Commit : com' = [com EXCEPT ![c] = moved]
      BY <3>1, <3>2
    <3> QED
      BY <3>3 DEF TypeInv, TypeOK
  <2>3. profiles' \in [Tickers -> Seq(Drafts \cup {Torn})]
    <3>1. com[c].ticker \in Tickers
      BY <2>1 DEF Commit
    <3>2. profiles \in [Tickers -> Seq(Drafts \cup {Torn})]
      BY DEF TypeInv, TypeOK
    <3>3. Append(profiles[com[c].ticker], Torn) \in Seq(Drafts \cup {Torn})
      BY <3>1, <3>2
    <3> QED
      BY <1>2, <3>1, <3>2, <3>3 DEF OpenVersion
  <2> QED
    BY <1>2, <2>2, <2>3 DEF OpenVersion, TypeInv, TypeOK, AtHand, screen
<1>3. ASSUME WriteVersion(c) PROVE TypeInv'
  <2>1. com[c] \in Commit
    BY <1>3 DEF WriteVersion, TypeInv, TypeOK
  <2>2. acked' \in Seq([ticker: Tickers, version: Nat \ {0}, base: Nat])
    BY <1>3, <2>1 DEF WriteVersion, TypeInv, TypeOK, Commit
  <2>3. profiles' \in [Tickers -> Seq(Drafts \cup {Torn})]
    <3>1. com[c].ticker \in Tickers /\ com[c].draft \in Drafts
      BY <2>1 DEF Commit
    <3>2. profiles \in [Tickers -> Seq(Drafts \cup {Torn})]
      BY DEF TypeInv, TypeOK
    <3>3. [profiles[com[c].ticker] EXCEPT ![com[c].version] = com[c].draft] \in Seq(Drafts \cup {Torn})
      BY <3>1, <3>2, ReplaceInSeq
    <3> QED
      BY <1>3, <3>1, <3>2, <3>3 DEF WriteVersion
  <2> QED
    BY <1>3, <2>2, <2>3 DEF WriteVersion, TypeInv, TypeOK, AtHand, screen
<1>4. ASSUME AbandonCommit(c) PROVE TypeInv'
  BY <1>4 DEF AbandonCommit, TypeInv, TypeOK, AtHand, screen
<1> QED
  BY <1>1, <1>2, <1>3, <1>4 DEF CommitStep

LEMMA BatchTypes ==
  ASSUME TypeInv, BatchStep
  PROVE  TypeInv'
<1>1. ASSUME StartBatch PROVE TypeInv'
  BY <1>1 DEF StartBatch, TypeInv, TypeOK, AtHand, policy
<1>2. ASSUME NEW t \in Tickers, TakeTicker(t) PROVE TypeInv'
  <2>1. ASSUME NEW figures \in Fetched, Take(t, figures), cache' \in [Tickers -> Fetched \cup {None}],
               UNCHANGED policy
        PROVE  TypeInv'
    <3>1. data' \in Snapshots
      BY <2>1, EnrichedAssumption, ScreeningAssumption DEF Take, Enriched
    <3>2. t \in left
      BY <1>2 DEF TakeTicker, RefetchIntoCache
    <3>3. entry' \in [Tickers -> Groups \cup {NoGroup}]
      BY <2>1 DEF Take, TypeInv, TypeOK
    <3> QED
      BY <2>1, <3>1, <3>2, <3>3 DEF Take, TypeInv, TypeOK, AtHand, policy, inputs
  <2>2. CASE Crash
    BY <1>2, <2>2, CrashTypes DEF TakeTicker, RefetchIntoCache
  <2>3. CASE cache[t] # None /\ Take(t, cache[t]) /\ UNCHANGED cache
    <3>1. cache[t] \in Fetched
      BY <2>3 DEF TypeInv, TypeOK
    <3> QED
      BY <1>2, <2>1, <2>3, <3>1 DEF TakeTicker, RefetchIntoCache, TypeInv, TypeOK
  <2>4. CASE \E figures \in Fetched : cache' = [cache EXCEPT ![t] = figures] /\ Take(t, figures)
    <3>1. PICK figures \in Fetched : cache' = [cache EXCEPT ![t] = figures] /\ Take(t, figures)
      BY <2>4
    <3>2. cache' \in [Tickers -> Fetched \cup {None}]
      BY <3>1 DEF TypeInv, TypeOK
    <3>3. UNCHANGED policy
      BY <1>2 DEF TakeTicker, RefetchIntoCache
    <3> QED
      BY <2>1, <3>1, <3>2, <3>3
  <2>5. CASE Conclude(t, "unknown", None, None) /\ UNCHANGED <<cache, entry, memo>>
    BY <1>2, <2>5, ConcludeTypes DEF TakeTicker, RefetchIntoCache, TypeInv, TypeOK
  <2> QED
    BY <1>2, <2>2, <2>3, <2>4, <2>5 DEF TakeTicker, RefetchIntoCache
<1>3. ASSUME Gate PROVE TypeInv'
  <2>1. ticker \in Tickers /\ data \in Snapshots \cup {None}
    BY <1>3 DEF Gate, TypeInv, TypeOK, AtHand
  <2>2. Load(ticker) \in Read
    BY <2>1, LoadType DEF TypeInv
  <2>3. CASE Crash
    BY <1>3, <2>3, CrashTypes DEF Gate
  <2>4. CASE memo' = [memo EXCEPT ![ticker] = Load(ticker)] /\ UNCHANGED <<cache, entry>>
    <3>1. memo' \in [Tickers -> Read \cup {None}]
      BY <2>1, <2>2, <2>4 DEF TypeInv, TypeOK
    <3>2. CASE at' = "rule" /\ UNCHANGED <<left, ticker, data, verdicts, inputs>>
      BY <1>3, <2>4, <3>1, <3>2 DEF Gate, TypeInv, TypeOK, AtHand, policy, inputs
    <3>3. CASE Conclude(ticker, "caution", data, Load(ticker))
      BY <1>3, <2>1, <2>2, <2>4, <3>1, <3>3, ConcludeTypes DEF Gate
    <3> QED
      BY <1>3, <2>3, <3>2, <3>3 DEF Gate
  <2> QED
    BY <1>3, <2>3, <2>4 DEF Gate
<1>4. ASSUME ApplyRule PROVE TypeInv'
  <2>1. ticker \in Tickers /\ data \in Snapshots \cup {None}
    BY <1>4 DEF ApplyRule, TypeInv, TypeOK, AtHand
  <2>2. RuleOf(ticker) \in Read
    BY <2>1, LoadType DEF TypeInv, RuleOf
  <2> DEFINE outcome == Judge(data, RuleOf(ticker).profile)
  <2>3. CASE Crash
    BY <1>4, <2>3, CrashTypes DEF ApplyRule
  <2>4. CASE outcome # "raises" /\ Conclude(ticker, outcome, data, RuleOf(ticker))
             /\ UNCHANGED <<cache, entry, memo>>
    <3>1. outcome \in {"pass", "fail", "caution", "unknown"}
      BY <2>4, JudgeKinds
    <3>2. memo' \in [Tickers -> Read \cup {None}]
      BY <2>4 DEF TypeInv, TypeOK
    <3>3. UNCHANGED policy
      BY <1>4 DEF ApplyRule
    <3> HIDE DEF outcome
    <3> QED
      BY <2>1, <2>2, <2>4, <3>1, <3>2, <3>3, ConcludeTypes
  <2> QED
    BY <1>4, <2>3, <2>4 DEF ApplyRule
<1>5. ASSUME Report PROVE TypeInv'
  BY <1>5 DEF Report, TypeInv, TypeOK, AtHand, policy, inputs
<1>6. ASSUME KillBatch PROVE TypeInv'
  BY <1>6, CrashTypes DEF KillBatch
<1> QED
  BY <1>1, <1>2, <1>3, <1>4, <1>5, <1>6 DEF BatchStep

LEMMA TypeStep == TypeInv /\ [Next]_vars => TypeInv'
<1> SUFFICES ASSUME TypeInv, [Next]_vars PROVE TypeInv'
  OBVIOUS
<1>1. CASE UNCHANGED vars
  BY <1>1 DEF TypeInv, TypeOK, AtHand, vars, policy, screen
<1> QED
  BY <1>1, CommitTypes, BatchTypes DEF Next

(* The type invariant of the registry and the screener: versions are       *)
(* sequences of drafts and torn files, verdicts are of the four kinds.     *)
THEOREM TypeCorrect == Spec => []TypeOK
<1>1. TypeInv => TypeOK
  BY DEF TypeInv
<1> QED
  BY <1>1, TypeInit, TypeStep, PTL DEF Spec

--------------------------------------------------------------------------------
(* Commits: what stands in the way of a number being given twice.          *)

\* Numbers run behind the listing by at most the file about to be opened, and a
\* commit is above all those that had returned when it read the listing.
CommitsFit ==
  \A c \in Committers : com[c] # None =>
    /\ com[c].version <= Len(profiles[com[c].ticker]) + 1
    /\ com[c].at # "loaded" => com[c].version <= Len(profiles[com[c].ticker])
    /\ com[c].base <= Len(acked)
    /\ \A i \in 1..com[c].base :
         acked[i].ticker = com[c].ticker => acked[i].version < com[c].version

\* A listed file under a writer is torn, and has one writer.
OpenTorn ==
  \A c \in Committers : com[c] # None /\ com[c].at = "listed" =>
    profiles[com[c].ticker][com[c].version] = Torn

OneWriter ==
  \A c, d \in Committers :
    /\ com[c] # None /\ com[d] # None
    /\ com[c].at = "listed" /\ com[d].at = "listed"
    /\ com[c].ticker = com[d].ticker /\ com[c].version = com[d].version
    => c = d

AckedFit ==
  \A i \in DOMAIN acked :
    acked[i].version <= Len(profiles[acked[i].ticker]) /\ acked[i].base < i

CommitInv == CommitsFit /\ OpenTorn /\ OneWriter /\ AckedFit /\ LaterCommitIsNewer

\* Versions are never lost, and a whole one never changes.
Grows ==
  \A t \in Tickers :
    /\ Len(profiles[t]) <= Len(profiles'[t])
    /\ \A n \in 1..Len(profiles[t]) :
         profiles[t][n] # Torn => profiles'[t][n] = profiles[t][n]

LEMMA AckedTypes ==
  ASSUME TypeInv
  PROVE  /\ Len(acked) \in Nat /\ DOMAIN acked = 1..Len(acked)
         /\ \A i \in 1..Len(acked) :
              acked[i].ticker \in Tickers /\ acked[i].version \in Nat \ {0} /\ acked[i].base \in Nat
         /\ \A t \in Tickers : Len(profiles[t]) \in Nat
<1> DEFINE Entry == [ticker: Tickers, version: Nat \ {0}, base: Nat]
<1>1. acked \in Seq(Entry) /\ profiles \in [Tickers -> Seq(Drafts \cup {Torn})]
  BY DEF TypeInv, TypeOK
<1>2. \A i \in 1..Len(acked) : acked[i] \in Entry
  BY <1>1, ElementOfSeq
<1>3. \A t \in Tickers : Len(profiles[t]) \in Nat
  BY <1>1
<1> HIDE DEF Entry
<1>4. Len(acked) \in Nat /\ DOMAIN acked = 1..Len(acked)
  BY <1>1
<1> QED
  BY <1>2, <1>3, <1>4 DEF Entry

LEMMA BeginKeeps ==
  ASSUME TypeInv, CommitInv, NEW c \in Committers, NEW t \in Tickers, NEW d \in Drafts,
         BeginCommit(c, t, d)
  PROVE  CommitInv'
<1> DEFINE new == [ticker |-> t, draft |-> d, version |-> Len(profiles[t]) + 1,
                   at |-> "loaded", base |-> Len(acked)]
<1>1. /\ com' = [com EXCEPT ![c] = new] /\ UNCHANGED <<profiles, acked>>
      /\ com'[c] = new /\ new # None
  <2>1. new \in Commit
    BY DEF TypeInv, TypeOK, Commit
  <2> QED
    BY <2>1 DEF BeginCommit, Previous, TypeInv, TypeOK
<1>2. \A e \in Committers : e # c => com'[e] = com[e]
  BY <1>1 DEF TypeInv, TypeOK
<1>3. CommitsFit'
  <2>1. Len(profiles[t]) \in Nat /\ Len(acked) \in Nat
    BY DEF TypeInv, TypeOK
  <2>2. \A i \in 1..Len(acked) : acked[i].version <= Len(profiles[acked[i].ticker])
                                /\ acked[i].version \in Nat
    BY AckedTypes DEF CommitInv, AckedFit
  <2> SUFFICES ASSUME NEW e \in Committers, com'[e] # None
               PROVE  (/\ com[e].version <= Len(profiles[com[e].ticker]) + 1
                       /\ com[e].at # "loaded" => com[e].version <= Len(profiles[com[e].ticker])
                       /\ com[e].base <= Len(acked)
                       /\ \A i \in 1..com[e].base :
                            acked[i].ticker = com[e].ticker => acked[i].version < com[e].version)'
    BY DEF CommitsFit
  <2>3. CASE e = c
    BY <1>1, <2>1, <2>2, <2>3
  <2>4. CASE e # c
    BY <1>1, <1>2, <2>4 DEF CommitInv, CommitsFit
  <2> QED
    BY <2>3, <2>4
<1>4. OpenTorn' /\ OneWriter'
  BY <1>1, <1>2 DEF CommitInv, OpenTorn, OneWriter
<1>5. AckedFit' /\ LaterCommitIsNewer'
  BY <1>1 DEF CommitInv, AckedFit, LaterCommitIsNewer
<1> QED
  BY <1>3, <1>4, <1>5 DEF CommitInv

LEMMA OpenKeeps ==
  ASSUME TypeInv, CommitInv, NEW c \in Committers, OpenVersion(c)
  PROVE  CommitInv' /\ Grows
<1> DEFINE t == com[c].ticker
<1>1. /\ com[c] \in Commit /\ com[c] # None /\ com[c].at = "loaded"
      /\ t \in Tickers /\ com[c].version \in Nat \ {0}
      /\ profiles \in [Tickers -> Seq(Drafts \cup {Torn})]
      /\ acked' = acked
  BY DEF OpenVersion, TypeInv, TypeOK, Commit
<1>2. \A e \in Committers : e # c => com'[e] = com[e]
  BY DEF OpenVersion, TypeInv, TypeOK
<1>3. \A e \in Committers : com[e] # None =>
         com[e].version \in Nat \ {0} /\ com[e].ticker \in Tickers /\ com[e].base \in Nat
  BY DEF TypeInv, TypeOK, Commit
<1>4. /\ com'[c].ticker = t /\ com'[c].version = com[c].version /\ com'[c].base = com[c].base
      /\ com'[c].at \in {"listed", "hidden"}
  <2>1. PICK place \in {"listed", "hidden"} : com' = [com EXCEPT ![c] = [com[c] EXCEPT !.at = place]]
    BY DEF OpenVersion
  <2>2. com'[c] = [com[c] EXCEPT !.at = place]
    BY <2>1 DEF TypeInv, TypeOK
  <2> QED
    BY <1>1, <2>2 DEF Commit
<1>5. CASE com[c].version <= Len(profiles[t]) /\ com'[c].at = "hidden" /\ UNCHANGED profiles
  <2>1. CommitsFit'
    BY <1>1, <1>2, <1>3, <1>4, <1>5 DEF CommitInv, CommitsFit
  <2>2. OpenTorn' /\ OneWriter'
    BY <1>1, <1>2, <1>4, <1>5 DEF CommitInv, OpenTorn, OneWriter
  <2>3. AckedFit' /\ LaterCommitIsNewer'
    BY <1>1, <1>5 DEF CommitInv, AckedFit, LaterCommitIsNewer
  <2>4. Grows
    BY <1>1, <1>5 DEF Grows
  <2> QED
    BY <2>1, <2>2, <2>3, <2>4 DEF CommitInv
<1>6. CASE /\ com[c].version > Len(profiles[t]) /\ com'[c].at = "listed"
           /\ profiles' = [profiles EXCEPT ![t] = Append(@, Torn)]
  <2>1. com[c].version = Len(profiles[t]) + 1
    <3>1. com[c].version <= Len(profiles[t]) + 1 /\ Len(profiles[t]) \in Nat
      BY <1>1, AckedTypes DEF CommitInv, CommitsFit
    <3> QED
      BY <1>1, <1>6, <3>1
  <2>2. /\ profiles'[t] = Append(profiles[t], Torn)
        /\ \A u \in Tickers : u # t => profiles'[u] = profiles[u]
    BY <1>1, <1>6
  <2>3. /\ Len(profiles'[t]) = Len(profiles[t]) + 1
        /\ profiles'[t][Len(profiles[t]) + 1] = Torn
        /\ \A n \in 1..Len(profiles[t]) : profiles'[t][n] = profiles[t][n]
    BY <1>1, <2>2
  <2>4. \A u \in Tickers : /\ Len(profiles[u]) \in Nat /\ Len(profiles'[u]) \in Nat
                           /\ Len(profiles[u]) <= Len(profiles'[u])
                           /\ \A n \in 1..Len(profiles[u]) : profiles'[u][n] = profiles[u][n]
    <3> SUFFICES ASSUME NEW u \in Tickers
                 PROVE  /\ Len(profiles[u]) \in Nat /\ Len(profiles'[u]) \in Nat
                        /\ Len(profiles[u]) <= Len(profiles'[u])
                        /\ \A n \in 1..Len(profiles[u]) : profiles'[u][n] = profiles[u][n]
      OBVIOUS
    <3>1. Len(profiles[u]) \in Nat
      BY AckedTypes
    <3>2. CASE u = t
      BY <2>3, <3>1, <3>2
    <3>3. CASE u # t
      BY <2>2, <3>1, <3>3
    <3> QED
      BY <3>2, <3>3
  <2>5. Grows
    BY <2>4 DEF Grows
  <2>6. \A e \in Committers : com[e] # None /\ com[e].at = "listed" =>
           com[e].version \in 1..Len(profiles[com[e].ticker])
    BY <1>1, <1>3 DEF CommitInv, CommitsFit
  <2>7. CommitsFit'
    <3> SUFFICES ASSUME NEW e \in Committers, com'[e] # None
                 PROVE  (/\ com[e].version <= Len(profiles[com[e].ticker]) + 1
                         /\ com[e].at # "loaded" => com[e].version <= Len(profiles[com[e].ticker])
                         /\ com[e].base <= Len(acked)
                         /\ \A i \in 1..com[e].base :
                              acked[i].ticker = com[e].ticker => acked[i].version < com[e].version)'
      BY DEF CommitsFit
    <3>1. CASE e = c
      BY <1>1, <1>4, <2>1, <2>3, <3>1 DEF CommitInv, CommitsFit
    <3>2. CASE e # c
      <4>1. /\ com'[e] = com[e] /\ com[e] # None
            /\ com[e].ticker \in Tickers /\ com[e].version \in Nat
        BY <1>2, <1>3, <3>2
      <4>2. Len(profiles[com[e].ticker]) <= Len(profiles'[com[e].ticker])
            /\ Len(profiles[com[e].ticker]) \in Nat /\ Len(profiles'[com[e].ticker]) \in Nat
        BY <2>4, <4>1
      <4>3. /\ com[e].version <= Len(profiles[com[e].ticker]) + 1
            /\ com[e].at # "loaded" => com[e].version <= Len(profiles[com[e].ticker])
            /\ com[e].base <= Len(acked)
            /\ \A i \in 1..com[e].base :
                 acked[i].ticker = com[e].ticker => acked[i].version < com[e].version
        BY <4>1 DEF CommitInv, CommitsFit
      <4> QED
        BY <1>1, <4>1, <4>2, <4>3
    <3> QED
      BY <3>1, <3>2
  <2>8. OpenTorn'
    <3> SUFFICES ASSUME NEW e \in Committers, com'[e] # None, com'[e].at = "listed"
                 PROVE  profiles'[com'[e].ticker][com'[e].version] = Torn
      BY DEF OpenTorn
    <3>1. CASE e = c
      BY <1>4, <2>1, <2>3, <3>1
    <3>2. CASE e # c
      BY SMTT(30), <1>2, <1>3, <2>4, <2>6, <3>2 DEF CommitInv, OpenTorn
    <3> QED
      BY <3>1, <3>2
  <2>9. OneWriter'
    <3>1. \A e \in Committers : e # c /\ com'[e] # None /\ com'[e].at = "listed" =>
             com'[e].ticker # t \/ com'[e].version # com[c].version
      BY <1>1, <1>2, <2>1, <2>6, AckedTypes
    <3> SUFFICES ASSUME NEW d \in Committers, NEW e \in Committers, d # e,
                        com'[d] # None, com'[e] # None,
                        com'[d].at = "listed", com'[e].at = "listed",
                        com'[d].ticker = com'[e].ticker, com'[d].version = com'[e].version
                 PROVE  FALSE
      BY DEF OneWriter
    <3>2. d # c /\ e # c
      BY <1>4, <3>1
    <3> QED
      BY <1>2, <3>2 DEF CommitInv, OneWriter
  <2>10. AckedFit' /\ LaterCommitIsNewer'
    <3>1. \A i \in DOMAIN acked : acked[i].ticker \in Tickers /\ acked[i].version \in Nat
      BY AckedTypes
    <3> QED
      BY <1>1, <2>4, <3>1 DEF CommitInv, AckedFit, LaterCommitIsNewer
  <2> QED
    BY <2>5, <2>7, <2>8, <2>9, <2>10 DEF CommitInv
<1>7. \/ com[c].version <= Len(profiles[t]) /\ com'[c].at = "hidden" /\ UNCHANGED profiles
      \/ /\ com[c].version > Len(profiles[t]) /\ com'[c].at = "listed"
         /\ profiles' = [profiles EXCEPT ![t] = Append(@, Torn)]
  <2>1. \A place \in {"listed", "hidden"} :
           com' = [com EXCEPT ![c] = [com[c] EXCEPT !.at = place]] => com'[c].at = place
    BY <1>1 DEF TypeInv, TypeOK, Commit
  <2> QED
    BY <2>1 DEF OpenVersion
<1> QED
  BY <1>5, <1>6, <1>7

LEMMA WriteKeeps ==
  ASSUME TypeInv, CommitInv, NEW c \in Committers, WriteVersion(c)
  PROVE  CommitInv' /\ Grows
<1> DEFINE t == com[c].ticker
           v == com[c].version
           entered == [ticker |-> t, version |-> v, base |-> com[c].base]
<1>1. /\ com[c] \in Commit /\ com[c] # None /\ com[c].at \in {"listed", "hidden"}
      /\ t \in Tickers /\ v \in Nat \ {0} /\ com[c].base \in Nat
      /\ com[c].draft \in Drafts
      /\ profiles \in [Tickers -> Seq(Drafts \cup {Torn})]
  BY DEF WriteVersion, TypeInv, TypeOK, Commit
<1>2. /\ com'[c] = None
      /\ \A e \in Committers : e # c => com'[e] = com[e]
  BY DEF WriteVersion, TypeInv, TypeOK
<1>3. /\ acked' = Append(acked, entered)
      /\ acked \in Seq([ticker: Tickers, version: Nat \ {0}, base: Nat])
  BY DEF WriteVersion, TypeInv, TypeOK
<1>4. /\ Len(acked) \in Nat /\ Len(acked') = Len(acked) + 1
      /\ DOMAIN acked = 1..Len(acked) /\ DOMAIN acked' = 1..(Len(acked) + 1)
      /\ acked'[Len(acked) + 1] = entered
      /\ \A i \in 1..Len(acked) : acked'[i] = acked[i]
  <2>1. entered \in [ticker: Tickers, version: Nat \ {0}, base: Nat]
    BY <1>1
  <2> QED
    BY <1>3, <2>1
<1>5. \A u \in Tickers : Len(profiles'[u]) = Len(profiles[u]) /\ Len(profiles[u]) \in Nat
  <2>1. CASE com[c].at = "hidden"
    BY <1>1, <2>1 DEF WriteVersion
  <2>2. CASE com[c].at = "listed"
    <3>1. profiles' = [profiles EXCEPT ![t] = [profiles[t] EXCEPT ![v] = com[c].draft]]
      BY <2>2 DEF WriteVersion
    <3>2. Len([profiles[t] EXCEPT ![v] = com[c].draft]) = Len(profiles[t])
      BY <1>1, ReplaceInSeq
    <3> QED
      BY <1>1, <3>1, <3>2
  <2> QED
    BY <1>1, <2>1, <2>2
<1>6. \A u \in Tickers, n \in Nat :
         (com[c].at = "hidden" \/ u # t \/ n # v) /\ n \in 1..Len(profiles[u])
           => profiles'[u][n] = profiles[u][n]
  BY <1>1 DEF WriteVersion
<1>7. \A e \in Committers : com[e] # None =>
         com[e].version \in Nat \ {0} /\ com[e].ticker \in Tickers /\ com[e].base \in Nat
  BY DEF TypeInv, TypeOK, Commit
<1>8. \A e \in Committers : com[e] # None /\ com[e].at = "listed" =>
         com[e].version \in 1..Len(profiles[com[e].ticker])
  BY <1>5, <1>7 DEF CommitInv, CommitsFit
<1>9. Grows
  <2>1. com[c].at = "listed" => profiles[t][v] = Torn
    BY <1>1 DEF CommitInv, OpenTorn
  <2>2. \A u \in Tickers : \A n \in 1..Len(profiles[u]) :
           profiles[u][n] # Torn => com[c].at = "hidden" \/ u # t \/ n # v
    BY <1>1, <2>1
  <2>3. \A u \in Tickers : \A n \in 1..Len(profiles[u]) :
           profiles[u][n] # Torn => profiles'[u][n] = profiles[u][n]
    BY <1>5, <1>6, <2>2
  <2> QED
    BY <1>5, <2>3 DEF Grows
<1>10. CommitsFit'
  <2> SUFFICES ASSUME NEW e \in Committers, com'[e] # None
               PROVE  (/\ com[e].version <= Len(profiles[com[e].ticker]) + 1
                       /\ com[e].at # "loaded" => com[e].version <= Len(profiles[com[e].ticker])
                       /\ com[e].base <= Len(acked)
                       /\ \A i \in 1..com[e].base :
                            acked[i].ticker = com[e].ticker => acked[i].version < com[e].version)'
    BY DEF CommitsFit
  <2>1. e # c /\ com'[e] = com[e]
    BY <1>2
  <2>2. /\ com[e].ticker \in Tickers
        /\ com[e].version <= Len(profiles[com[e].ticker]) + 1
        /\ com[e].at # "loaded" => com[e].version <= Len(profiles[com[e].ticker])
        /\ com[e].base <= Len(acked) /\ com[e].base \in Nat
        /\ \A i \in 1..com[e].base :
             acked[i].ticker = com[e].ticker => acked[i].version < com[e].version
    BY <1>7, <2>1 DEF CommitInv, CommitsFit
  <2>3. \A i \in 1..com[e].base : i \in 1..Len(acked) /\ acked'[i] = acked[i]
    BY <1>4, <2>2
  <2>4. Len(profiles'[com[e].ticker]) = Len(profiles[com[e].ticker])
    BY <1>5, <2>2
  <2>5. com[e].base <= Len(acked')
    BY <1>4, <2>2
  <2> QED
    BY <2>1, <2>2, <2>3, <2>4, <2>5
<1>11. OneWriter'
  BY <1>2 DEF CommitInv, OneWriter
<1>12. OpenTorn'
  <2> SUFFICES ASSUME NEW e \in Committers, com'[e] # None, com'[e].at = "listed"
               PROVE  profiles'[com'[e].ticker][com'[e].version] = Torn
    BY DEF OpenTorn
  <2>1. e # c /\ com'[e] = com[e]
    BY <1>2
  <2>2. com[c].at = "hidden" \/ com[e].ticker # t \/ com[e].version # v
    BY <1>1, <2>1 DEF CommitInv, OneWriter
  <2> QED
    BY <1>6, <1>7, <1>8, <2>1, <2>2 DEF CommitInv, OpenTorn
<1>13. AckedFit'
  <2> SUFFICES ASSUME NEW i \in 1..(Len(acked) + 1)
               PROVE  acked'[i].version <= Len(profiles'[acked'[i].ticker]) /\ acked'[i].base < i
    BY <1>4 DEF AckedFit
  <2>1. CASE i = Len(acked) + 1
    BY <1>1, <1>4, <1>5, <2>1 DEF CommitInv, CommitsFit
  <2>2. CASE i \in 1..Len(acked)
    <3>1. acked[i].ticker \in Tickers
      BY <2>2, AckedTypes
    <3> QED
      BY <1>4, <1>5, <2>2, <3>1 DEF CommitInv, AckedFit
  <2> QED
    BY <1>4, <2>1, <2>2
<1>14. LaterCommitIsNewer'
  <2> SUFFICES ASSUME NEW i \in 1..(Len(acked) + 1), NEW j \in 1..(Len(acked) + 1),
                      acked'[i].ticker = acked'[j].ticker, i <= acked'[j].base
               PROVE  acked'[i].version < acked'[j].version
    BY <1>4 DEF LaterCommitIsNewer
  <2>1. acked'[j].base < j /\ acked'[j].base \in Nat
    <3>1. CASE j = Len(acked) + 1
      BY <1>1, <1>4, <3>1 DEF CommitInv, CommitsFit
    <3>2. CASE j \in 1..Len(acked)
      BY <1>4, <3>2, AckedTypes DEF CommitInv, AckedFit
    <3> QED
      BY <1>4, <3>1, <3>2
  <2>2. i \in 1..Len(acked)
    BY <1>4, <2>1
  <2>3. CASE j = Len(acked) + 1
    BY SMTT(30), <1>1, <1>4, <2>2, <2>3 DEF CommitInv, CommitsFit
  <2>4. CASE j \in 1..Len(acked)
    BY <1>4, <2>2, <2>4 DEF CommitInv, LaterCommitIsNewer
  <2> QED
    BY <1>4, <2>3, <2>4
<1> QED
  BY <1>9, <1>10, <1>11, <1>12, <1>13, <1>14 DEF CommitInv

LEMMA CommitKeeps ==
  ASSUME TypeInv, CommitInv, NEW c \in Committers, CommitStep(c)
  PROVE  CommitInv' /\ Grows
<1>1. ASSUME profiles' = profiles PROVE Grows
  BY <1>1 DEF Grows, TypeInv, TypeOK
<1>2. ASSUME NEW t \in Tickers, NEW d \in Drafts, BeginCommit(c, t, d) PROVE CommitInv' /\ Grows
  BY <1>1, <1>2, BeginKeeps DEF BeginCommit
<1>3. ASSUME AbandonCommit(c) PROVE CommitInv' /\ Grows
  <2>1. /\ com'[c] = None /\ \A e \in Committers : e # c => com'[e] = com[e]
        /\ UNCHANGED <<profiles, acked>>
    BY <1>3 DEF AbandonCommit, TypeInv, TypeOK
  <2> QED
    BY <1>1, <2>1 DEF CommitInv, CommitsFit, OpenTorn, OneWriter, AckedFit, LaterCommitIsNewer
<1> QED
  BY <1>2, <1>3, OpenKeeps, WriteKeeps DEF CommitStep

(* The invariant of the registry, with all the steps of a batch.           *)
LEMMA CommitInvStep == TypeInv /\ CommitInv /\ [Next]_vars => CommitInv'
<1> SUFFICES ASSUME TypeInv, CommitInv, [Next]_vars PROVE CommitInv'
  OBVIOUS
<1>1. ASSUME UNCHANGED policy PROVE CommitInv'
  BY <1>1 DEF policy, CommitInv, CommitsFit, OpenTorn, OneWriter, AckedFit, LaterCommitIsNewer
<1>2. ASSUME BatchStep PROVE UNCHANGED policy
  BY <1>2 DEF BatchStep, StartBatch, TakeTicker, RefetchIntoCache, Gate, ApplyRule, Report, KillBatch, policy
<1> QED
  BY <1>1, <1>2, CommitKeeps DEF Next, vars

LEMMA CommitInvInit == Init => CommitInv
BY DEF Init, CommitInv, CommitsFit, OpenTorn, OneWriter, AckedFit, LaterCommitIsNewer

(* A policy that is committed after another one was in place has a higher  *)
(* number, whatever other commits, deaths and batches do in between.       *)
THEOREM LaterCommitIsNewerAlways == Spec => []LaterCommitIsNewer
<1>1. CommitInv => LaterCommitIsNewer
  BY DEF CommitInv
<1> QED
  BY <1>1, TypeInit, TypeStep, CommitInvInit, CommitInvStep, PTL DEF Spec

--------------------------------------------------------------------------------
(* The batch: what it remembers of a ticker's policy stays true of it.     *)

PolicyAt(t, n) == IF n = 0 THEN None ELSE profiles[t][n]

\* Nobody has a verdict before its turn.
Pending == \A t \in left : verdicts[t] = None

SinceFits == \A t \in Tickers : since[t] <= Len(profiles[t])

\* A remembered version was the latest during this batch, and is that still if whole.
Remembers(t) ==
  /\ since[t] <= memo[t].version /\ memo[t].version <= Len(profiles[t])
  /\ memo[t].profile # Torn => PolicyAt(t, memo[t].version) = memo[t].profile

MemoFits == \A t \in Tickers : memo[t] # None => Remembers(t)

UptoFits == \A t \in Tickers : verdicts[t] # None => verdicts[t].upto <= Len(profiles[t])

Suits(t, profile) == profile \in {None, Torn} \/ profile.req \subseteq Present(t)

\* The ticker that has passed the gate has what the remembered version asks for.
Gated == at = "rule" => memo[ticker] # None /\ Suits(ticker, memo[ticker].profile)

BatchInv == Pending /\ SinceFits /\ MemoFits /\ UptoFits /\ Gated /\ VerdictFromOnePolicy

\* Version n of t supports the verdict on it.
Supports(t, n) ==
  /\ PolicyAt(t, n) # Torn
  /\ PolicyAt(t, n) = None \/ PolicyAt(t, n).req \subseteq Present(t)
  /\ Judge(verdicts[t].snapshot, PolicyAt(t, n)) = verdicts[t].kind

LEMMA SupportedVerdicts ==
  VerdictFromOnePolicy <=>
    \A t \in Tickers :
      verdicts[t] # None /\ verdicts[t].kind \in {"pass", "fail"} =>
        \E n \in since[t]..verdicts[t].upto : Supports(t, n)
BY DEF VerdictFromOnePolicy, Supports, PolicyAt

(* Commits change no whole version, so they leave the batch what it knows. *)
LEMMA BatchInvUnderCommits ==
  ASSUME TypeInv, BatchInv, Grows, TypeInv', UNCHANGED screen
  PROVE  BatchInv'
<1>1. /\ UNCHANGED <<left, verdicts, since, memo, at, ticker, entry>>
      /\ \A t \in Tickers : Len(profiles[t]) \in Nat /\ Len(profiles'[t]) \in Nat
  BY AckedTypes DEF screen, TypeInv, TypeOK
<1>2. \A t \in Tickers : Len(profiles[t]) <= Len(profiles'[t])
  BY DEF Grows
<1>3. \A t \in Tickers : \A n \in 0..Len(profiles[t]) :
         PolicyAt(t, n) # Torn => PolicyAt(t, n)' = PolicyAt(t, n)
  BY <1>1 DEF Grows, PolicyAt
<1>4. Pending' /\ Gated'
  BY <1>1 DEF BatchInv, Pending, Gated, Suits, Present
<1>5. SinceFits' /\ UptoFits'
  <2>1. \A t \in Tickers : since[t] \in Nat
                           /\ (verdicts[t] # None => verdicts[t].upto \in Nat)
    BY DEF TypeInv, TypeOK, VerdictOf
  <2> QED
    BY <1>1, <1>2, <2>1 DEF BatchInv, SinceFits, UptoFits
<1>6. MemoFits'
  <2> SUFFICES ASSUME NEW t \in Tickers, memo[t] # None
               PROVE  Remembers(t)'
    BY <1>1 DEF MemoFits
  <2>1. memo[t].version \in Nat /\ Remembers(t)
    BY DEF TypeInv, TypeOK, Read, BatchInv, MemoFits
  <2>2. memo[t].version \in 0..Len(profiles[t]) /\ memo[t].version <= Len(profiles'[t])
    BY <1>1, <1>2, <2>1 DEF Remembers
  <2>3. memo[t].profile # Torn => PolicyAt(t, memo[t].version)' = memo[t].profile
    BY <1>1, <1>3, <2>1, <2>2 DEF Remembers
  <2> QED
    BY <1>1, <2>1, <2>2, <2>3 DEF Remembers
<1>7. VerdictFromOnePolicy'
  <2>1. \A t \in Tickers :
           verdicts[t] # None /\ verdicts[t].kind \in {"pass", "fail"} =>
             \E n \in since[t]..verdicts[t].upto : Supports(t, n)'
    <3> SUFFICES ASSUME NEW t \in Tickers, verdicts[t] # None, verdicts[t].kind \in {"pass", "fail"}
                 PROVE  \E n \in since[t]..verdicts[t].upto : Supports(t, n)'
      OBVIOUS
    <3>1. PICK n \in since[t]..verdicts[t].upto : Supports(t, n)
      BY SupportedVerdicts DEF BatchInv
    <3>2. since[t] \in Nat /\ verdicts[t].upto \in Nat /\ verdicts[t].upto <= Len(profiles[t])
      BY DEF BatchInv, UptoFits, TypeInv, TypeOK, VerdictOf
    <3>3. n \in 0..Len(profiles[t])
      BY <1>1, <3>2
    <3>4. PolicyAt(t, n)' = PolicyAt(t, n)
      BY <1>3, <3>1, <3>3 DEF Supports
    <3>5. Supports(t, n)'
      BY <1>1, <3>1, <3>4 DEF Supports, Present
    <3> QED
      BY <3>5
  <2> QED
    BY <1>1, <2>1 DEF VerdictFromOnePolicy, Supports, PolicyAt
<1> QED
  BY <1>4, <1>5, <1>6, <1>7 DEF BatchInv

LEMMA CrashKeeps ==
  ASSUME TypeInv, BatchInv, Crash, UNCHANGED policy
  PROVE  BatchInv'
<1>1. Pending' /\ MemoFits' /\ UptoFits' /\ Gated'
  BY DEF Crash, Pending, MemoFits, UptoFits, Gated
<1>2. SinceFits'
  BY DEF Crash, policy, inputs, BatchInv, SinceFits
<1>3. VerdictFromOnePolicy'
  BY DEF Crash, VerdictFromOnePolicy
<1> QED
  BY <1>1, <1>2, <1>3 DEF BatchInv

\* What _load gives is a version of this batch.
LEMMA LoadRemembers ==
  ASSUME TypeInv, BatchInv, NEW t \in Tickers
  PROVE  /\ Load(t) \in Read
         /\ since[t] <= Load(t).version /\ Load(t).version <= Len(profiles[t])
         /\ Load(t).profile # Torn => PolicyAt(t, Load(t).version) = Load(t).profile
<1>1. Load(t) \in Read
  BY LoadType DEF TypeInv
<1>2. CASE memo[t] # None
  BY <1>1, <1>2 DEF Load, BatchInv, MemoFits, Remembers
<1>3. CASE memo[t] = None
  <2>1. /\ Load(t).version = Len(profiles[t])
        /\ Load(t).profile = PolicyAt(t, Len(profiles[t]))
    BY <1>3 DEF Load, Latest, Previous, PolicyAt
  <2> QED
    BY <1>1, <2>1, AckedTypes DEF BatchInv, SinceFits
<1> QED
  BY <1>2, <1>3

\* A verdict that a version of the batch supports may be given.
LEMMA ConcludeKeeps ==
  ASSUME TypeInv, BatchInv, TypeInv', NEW t \in left, NEW kind, NEW s, NEW r,
         Conclude(t, kind, s, r), UNCHANGED <<policy, entry>>, MemoFits',
         kind \in {"pass", "fail"} =>
           \E n \in since[t]..Len(profiles[t]) :
             /\ PolicyAt(t, n) # Torn
             /\ PolicyAt(t, n) = None \/ PolicyAt(t, n).req \subseteq Present(t)
             /\ Judge(s, PolicyAt(t, n)) = kind
  PROVE  BatchInv'
<1> DEFINE verdict == [kind |-> kind, snapshot |-> s, read |-> r, upto |-> Len(profiles[t])]
<1>1. /\ t \in Tickers
      /\ verdicts'[t] = verdict
      /\ \A u \in Tickers : u # t => verdicts'[u] = verdicts[u]
      /\ left' = left \ {t} /\ at' = "next" /\ since' = since
      /\ UNCHANGED <<profiles, entry>>
  BY DEF Conclude, TypeInv, TypeOK, policy, inputs
<1>2. Pending' /\ Gated' /\ SinceFits'
  BY <1>1 DEF BatchInv, Pending, Gated, SinceFits, TypeInv, TypeOK
<1>3. UptoFits'
  BY <1>1, AckedTypes DEF BatchInv, UptoFits
<1>4. VerdictFromOnePolicy'
  <2>1. \A u \in Tickers :
           verdicts'[u] # None /\ verdicts'[u].kind \in {"pass", "fail"} =>
             \E n \in since[u]..verdicts'[u].upto : Supports(u, n)'
    <3> SUFFICES ASSUME NEW u \in Tickers, verdicts'[u] # None, verdicts'[u].kind \in {"pass", "fail"}
                 PROVE  \E n \in since[u]..verdicts'[u].upto : Supports(u, n)'
      OBVIOUS
    <3>1. CASE u = t
      <4>1. PICK n \in since[t]..Len(profiles[t]) :
               /\ PolicyAt(t, n) # Torn
               /\ PolicyAt(t, n) = None \/ PolicyAt(t, n).req \subseteq Present(t)
               /\ Judge(s, PolicyAt(t, n)) = kind
        BY <1>1, <3>1
      <4>2. PolicyAt(t, n)' = PolicyAt(t, n) /\ Present(t)' = Present(t)
        BY <1>1 DEF PolicyAt, Present
      <4>3. verdicts'[t].snapshot = s /\ verdicts'[t].kind = kind /\ verdicts'[t].upto = Len(profiles[t])
        BY <1>1
      <4>4. Supports(t, n)'
        BY <4>1, <4>2, <4>3 DEF Supports
      <4> QED
        BY <3>1, <4>3, <4>4
    <3>2. CASE u # t
      <4>1. PICK n \in since[u]..verdicts[u].upto : Supports(u, n)
        BY <1>1, <3>2, SupportedVerdicts DEF BatchInv
      <4>2. PolicyAt(u, n)' = PolicyAt(u, n) /\ Present(u)' = Present(u) /\ verdicts'[u] = verdicts[u]
        BY <1>1, <3>2 DEF PolicyAt, Present
      <4> QED
        BY <4>1, <4>2 DEF Supports
    <3> QED
      BY <3>1, <3>2
  <2> QED
    BY <1>1, <2>1 DEF VerdictFromOnePolicy, Supports, PolicyAt
<1> QED
  BY <1>2, <1>3, <1>4 DEF BatchInv

LEMMA TakeTickerKeeps ==
  ASSUME TypeInv, BatchInv, TypeInv', NEW t \in Tickers, TakeTicker(t)
  PROVE  BatchInv'
<1>1. t \in left /\ UNCHANGED policy
  BY DEF TakeTicker, RefetchIntoCache
<1>2. ASSUME NEW figures, Take(t, figures) PROVE BatchInv'
  <2>1. /\ UNCHANGED <<profiles, left, memo, verdicts, since>> /\ at' = "gate"
        /\ \A u \in Tickers : u # t => Present(u)' = Present(u)
    BY <1>1, <1>2 DEF Take, policy, inputs, Present, TypeInv, TypeOK
  <2>2. Pending' /\ SinceFits' /\ UptoFits' /\ Gated'
    BY <2>1 DEF BatchInv, Pending, SinceFits, UptoFits, Gated
  <2>3. MemoFits'
    BY <2>1 DEF BatchInv, MemoFits, Remembers, PolicyAt
  <2>4. verdicts[t] = None
    BY <1>1 DEF BatchInv, Pending
  <2>5. VerdictFromOnePolicy'
    BY <2>1, <2>4 DEF BatchInv, VerdictFromOnePolicy
  <2> QED
    BY <2>2, <2>3, <2>5 DEF BatchInv
<1>3. ASSUME Conclude(t, "unknown", None, None), UNCHANGED <<cache, entry, memo>> PROVE BatchInv'
  <2>1. MemoFits'
    BY <1>1, <1>3 DEF Conclude, policy, inputs, BatchInv, MemoFits, Remembers, PolicyAt
  <2> QED
    BY <1>1, <1>3, <2>1, ConcludeKeeps
<1> QED
  BY <1>1, <1>2, <1>3, CrashKeeps DEF TakeTicker, RefetchIntoCache

LEMMA GateKeeps ==
  ASSUME TypeInv, BatchInv, TypeInv', Gate
  PROVE  BatchInv'
<1> DEFINE read == Load(ticker)
<1>1. ticker \in left /\ ticker \in Tickers /\ UNCHANGED policy
  BY DEF Gate, TypeInv, TypeOK, AtHand
<1>2. /\ read # None /\ since[ticker] <= read.version /\ read.version <= Len(profiles[ticker])
      /\ read.profile # Torn => PolicyAt(ticker, read.version) = read.profile
  BY <1>1, LoadRemembers
<1>3. ASSUME memo' = [memo EXCEPT ![ticker] = read], since' = since
      PROVE  MemoFits'
  <2>1. /\ memo'[ticker] = read
        /\ \A u \in Tickers : u # ticker => memo'[u] = memo[u]
        /\ UNCHANGED profiles
    BY <1>1, <1>3 DEF TypeInv, TypeOK, policy
  <2>2. \A u \in Tickers : memo'[u] # None => Remembers(u)'
    <3> SUFFICES ASSUME NEW u \in Tickers, memo'[u] # None PROVE Remembers(u)'
      OBVIOUS
    <3>1. CASE u = ticker
      BY <1>2, <1>3, <2>1, <3>1 DEF Remembers, PolicyAt
    <3>2. CASE u # ticker
      BY <1>3, <2>1, <3>2 DEF BatchInv, MemoFits, Remembers, PolicyAt
    <3> QED
      BY <3>1, <3>2
  <2> QED
    BY <2>2 DEF MemoFits
<1>4. CASE Crash
  BY <1>1, <1>4, CrashKeeps
<1>5. CASE /\ memo' = [memo EXCEPT ![ticker] = read] /\ UNCHANGED <<cache, entry>>
           /\ Suits(ticker, read.profile)
           /\ at' = "rule" /\ UNCHANGED <<left, ticker, data, verdicts, inputs>>
  <2>1. UNCHANGED <<profiles, since, verdicts, left, entry, ticker>>
    BY <1>1, <1>5 DEF policy, inputs
  <2>2. Pending' /\ SinceFits' /\ UptoFits' /\ VerdictFromOnePolicy'
    BY <2>1 DEF BatchInv, Pending, SinceFits, UptoFits, VerdictFromOnePolicy, Present
  <2>3. MemoFits'
    BY <1>3, <1>5, <2>1
  <2>4. memo'[ticker] = read
    BY <1>1, <1>5 DEF TypeInv, TypeOK
  <2>5. Gated'
    BY <1>2, <1>5, <2>1, <2>4 DEF Gated, Suits, Present
  <2> QED
    BY <2>2, <2>3, <2>5 DEF BatchInv
<1>6. CASE /\ memo' = [memo EXCEPT ![ticker] = read] /\ UNCHANGED <<cache, entry>>
           /\ Conclude(ticker, "caution", data, read)
  <2>1. MemoFits'
    BY <1>3, <1>6 DEF Conclude, inputs
  <2> QED
    BY <1>1, <1>6, <2>1, ConcludeKeeps
<1> QED
  BY <1>4, <1>5, <1>6 DEF Gate, Suits

LEMMA ApplyRuleKeeps ==
  ASSUME TypeInv, BatchInv, TypeInv', ApplyRule
  PROVE  BatchInv'
<1> DEFINE read == Load(ticker)
           outcome == Judge(data, read.profile)
<1>1. ticker \in left /\ ticker \in Tickers /\ UNCHANGED policy
  BY DEF ApplyRule, TypeInv, TypeOK, AtHand
<1>2. /\ read \in Read /\ since[ticker] <= read.version /\ read.version <= Len(profiles[ticker])
      /\ read.profile # Torn => PolicyAt(ticker, read.version) = read.profile
  BY <1>1, LoadRemembers
<1>3. CASE Crash
  BY <1>1, <1>3, CrashKeeps
<1>4. CASE Conclude(ticker, outcome, data, read) /\ UNCHANGED <<cache, entry, memo>>
  <2>1. MemoFits'
    BY <1>1, <1>4 DEF Conclude, policy, inputs, BatchInv, MemoFits, Remembers, PolicyAt
  <2>2. Suits(ticker, read.profile)
    BY DEF ApplyRule, BatchInv, Gated, Load
  <2>3. outcome \in {"pass", "fail"} => read.profile # Torn
    BY DEF Judge
  <2>4. read.version \in since[ticker]..Len(profiles[ticker])
    BY <1>1, <1>2, AckedTypes DEF Read, TypeInv, TypeOK
  <2>5. outcome \in {"pass", "fail"} =>
          \E n \in since[ticker]..Len(profiles[ticker]) :
             /\ PolicyAt(ticker, n) # Torn
             /\ PolicyAt(ticker, n) = None \/ PolicyAt(ticker, n).req \subseteq Present(ticker)
             /\ Judge(data, PolicyAt(ticker, n)) = outcome
    BY <1>2, <2>2, <2>3, <2>4 DEF Suits
  <2> HIDE DEF outcome, read
  <2> QED
    BY <1>1, <1>4, <2>1, <2>5, ConcludeKeeps
<1> QED
  BY <1>3, <1>4 DEF ApplyRule, RuleOf

LEMMA BatchInvStep == TypeInv /\ CommitInv /\ BatchInv /\ TypeInv' /\ [Next]_vars => BatchInv'
<1> SUFFICES ASSUME TypeInv, CommitInv, BatchInv, TypeInv', [Next]_vars PROVE BatchInv'
  OBVIOUS
<1>1. ASSUME NEW c \in Committers, CommitStep(c) PROVE BatchInv'
  <2>1. UNCHANGED screen
    BY <1>1 DEF CommitStep, BeginCommit, OpenVersion, WriteVersion, AbandonCommit
  <2> QED
    BY <1>1, <2>1, CommitKeeps, BatchInvUnderCommits
<1>2. ASSUME StartBatch PROVE BatchInv'
  <2>1. /\ UNCHANGED profiles /\ at' = "next"
        /\ verdicts' = [t \in Tickers |-> None] /\ memo' = [t \in Tickers |-> None]
        /\ since' = [t \in Tickers |-> Len(profiles[t])] /\ left' = Tickers
    BY <1>2 DEF StartBatch, policy
  <2>2. SinceFits'
    BY <2>1, AckedTypes DEF SinceFits
  <2>3. Pending' /\ MemoFits' /\ UptoFits' /\ Gated' /\ VerdictFromOnePolicy'
    BY <2>1 DEF Pending, MemoFits, UptoFits, Gated, VerdictFromOnePolicy
  <2> QED
    BY <2>2, <2>3 DEF BatchInv
<1>3. ASSUME Report PROVE BatchInv'
  <2>1. /\ UNCHANGED <<profiles, entry, left, verdicts, since>> /\ at' = "done"
        /\ memo' = [t \in Tickers |-> None]
    BY <1>3 DEF Report, policy, inputs
  <2> QED
    BY <2>1 DEF BatchInv, Pending, SinceFits, MemoFits, UptoFits, Gated, VerdictFromOnePolicy, Present
<1>4. ASSUME KillBatch PROVE BatchInv'
  BY <1>4, CrashKeeps DEF KillBatch
<1>5. ASSUME UNCHANGED vars PROVE BatchInv'
  BY <1>5 DEF vars, policy, screen, BatchInv, Pending, SinceFits, MemoFits, Remembers, PolicyAt,
              UptoFits, Gated, Suits, VerdictFromOnePolicy, Present
<1> QED
  BY <1>1, <1>2, <1>3, <1>4, <1>5, TakeTickerKeeps, GateKeeps, ApplyRuleKeeps DEF Next, BatchStep

LEMMA BatchInvInit == Init => BatchInv
BY DEF Init, BatchInv, Pending, SinceFits, MemoFits, UptoFits, Gated, VerdictFromOnePolicy

(* A pass or a fail of the batch follows from one whole version of the     *)
(* ticker's policy that was the latest at some moment of the batch, or from *)
(* the default rules while it had none, whatever commits run beside it.    *)
THEOREM VerdictFromOnePolicyAlways == Spec => []VerdictFromOnePolicy
<1>1. TypeInv /\ CommitInv /\ BatchInv /\ [Next]_vars => (TypeInv /\ CommitInv /\ BatchInv)'
  BY TypeStep, CommitInvStep, BatchInvStep
<1>2. BatchInv => VerdictFromOnePolicy
  BY DEF BatchInv
<1> QED
  BY <1>1, <1>2, TypeInit, CommitInvInit, BatchInvInit, PTL DEF Spec

--------------------------------------------------------------------------------
(* The rule trees: the recursion over them, sums and extremes of scores.   *)

\* The subtrees of a tree are trees, and there are no more of them than children.
LEMMA SubtreesAreTrees ==
  ASSUME NEW tree \in Trees
  PROVE  /\ Subtrees(tree) \subseteq Trees
         /\ tree.type \in {"and", "or"} =>
              /\ Len(tree.children) \in Nat /\ DOMAIN tree.children = 1..Len(tree.children)
              /\ Subtrees(tree) = {tree.children[i] : i \in 1..Len(tree.children)}
         /\ tree.type = "weighted_sum" =>
              /\ Len(tree.children) \in Nat /\ DOMAIN tree.children = 1..Len(tree.children)
              /\ \A i \in 1..Len(tree.children) :
                   tree.children[i].rule \in Subtrees(tree) /\ tree.children[i].weight \in Int
<1>1. /\ tree.type \in {"and", "or"} => tree.children \in Seq(Trees)
      /\ tree.type = "weighted_sum" => tree.children \in Seq([rule: Trees, weight: Int])
      /\ tree.type = "not" => tree.inner \in Trees
  BY TreesAssumption DEF NodesAssumption
<1>2. CASE tree.type \in {"and", "or"}
  BY <1>1, <1>2 DEF Subtrees
<1>3. CASE tree.type = "weighted_sum"
  <2>1. /\ Len(tree.children) \in Nat /\ DOMAIN tree.children = 1..Len(tree.children)
        /\ \A i \in 1..Len(tree.children) : tree.children[i] \in [rule: Trees, weight: Int]
    <3> DEFINE Weighted == [rule: Trees, weight: Int]
    <3>1. tree.children \in Seq(Weighted)
      BY <1>1, <1>3
    <3> HIDE DEF Weighted
    <3>2. Len(tree.children) \in Nat /\ DOMAIN tree.children = 1..Len(tree.children)
      BY <3>1
    <3>3. \A i \in 1..Len(tree.children) : tree.children[i] \in Weighted
      BY <3>1, ElementOfSeq
    <3> QED
      BY <3>2, <3>3 DEF Weighted
  <2>2. \A i \in 1..Len(tree.children) :
          tree.children[i].rule \in Trees /\ tree.children[i].weight \in Int
    BY <2>1
  <2>3. Subtrees(tree) = {tree.children[i].rule : i \in 1..Len(tree.children)}
    BY <1>3, <2>1 DEF Subtrees
  <2> QED
    BY <1>3, <2>1, <2>2, <2>3
<1>4. CASE tree.type \notin {"and", "or", "weighted_sum"}
  BY <1>1, <1>4 DEF Subtrees
<1> QED
  BY <1>2, <1>3, <1>4

\* The nodes of a tree and what it makes of every snapshot, from those of its subtrees.
Grown(tree, h) ==
  <<{tree} \cup UNION {h[child][1] : child \in Subtrees(tree)},
    [s \in Snapshots |-> Outcome(s, tree, [child \in Subtrees(tree) |-> h[child][2][s]])]>>

\* h has at each tree of S what grows there from h itself.
Solves(h, S) == \A tree \in S : h[tree] = Grown(tree, h)

\* Only the subtrees matter.
LEMMA GrownFromSubtrees ==
  ASSUME NEW tree, NEW g, NEW h, \A child \in Subtrees(tree) : g[child] = h[child]
  PROVE  Grown(tree, g) = Grown(tree, h)
<1>1. {g[child][1] : child \in Subtrees(tree)} = {h[child][1] : child \in Subtrees(tree)}
  OBVIOUS
<1>2. \A s : [child \in Subtrees(tree) |-> g[child][2][s]] = [child \in Subtrees(tree) |-> h[child][2][s]]
  OBVIOUS
<1>3. [s \in Snapshots |-> Outcome(s, tree, [child \in Subtrees(tree) |-> g[child][2][s]])]
    = [s \in Snapshots |-> Outcome(s, tree, [child \in Subtrees(tree) |-> h[child][2][s]])]
  BY <1>2
<1> QED
  BY <1>1, <1>3 DEF Grown

\* The recursion over the trees has a solution: one for the largest set of trees
\* with their subtrees that has one, and a tree beyond it could be added.
LEMMA TreesGrow == \E h : Solves(h, Trees)
<1> DEFINE Closed(S) == \A tree \in S : Subtrees(tree) \subseteq S
           Good == {S \in SUBSET Trees : Closed(S) /\ \E h : Solves(h, S)}
           L == Cardinality(Trees)
           K == {Cardinality(S) : S \in Good}
<1>1. /\ IsFiniteSet(Trees)
      /\ \A S \in SUBSET Trees : S # {} => \E tree \in S : Subtrees(tree) \cap S = {}
      /\ \A tree \in Trees : Subtrees(tree) \subseteq Trees
  BY TreesAssumption, SubtreesAreTrees
<1>2. L \in Nat /\ \A S \in SUBSET Trees : IsFiniteSet(S) /\ Cardinality(S) \in Nat /\ Cardinality(S) <= L
  BY <1>1, FS_Subset, FS_CardinalityType
<1>3. {} \in Good
  BY DEF Solves
<1>4. K # {} /\ K \in SUBSET (0 .. L)
  <2>1. \A S \in Good : S \in SUBSET Trees
    OBVIOUS
  <2> HIDE DEF Good, L
  <2>2. \A S \in Good : Cardinality(S) \in 0 .. L
    BY <1>2, <2>1
  <2> QED BY <1>3, <2>2
<1>5. PICK m \in K : \A e \in K : e <= m
  <2> HIDE DEF K, L
  <2> QED BY <1>2, <1>4, BoundedExtremes
<1>6. PICK S \in Good : Cardinality(S) = m
  OBVIOUS
<1>7. PICK h : Solves(h, S)
  BY <1>6
<1>8. S \subseteq Trees /\ Closed(S)
  BY <1>6
<1>9. CASE S = Trees
  BY <1>7, <1>9
<1>10. CASE S # Trees
  <2>1. PICK new \in Trees \ S : Subtrees(new) \cap (Trees \ S) = {}
    BY <1>1, <1>8, <1>10
  <2> DEFINE T == S \cup {new}
             g == [tree \in T |-> IF tree = new THEN Grown(new, h) ELSE h[tree]]
  <2>2. Subtrees(new) \subseteq S
    BY <1>1, <2>1
  <2>3. g[new] = Grown(new, h) /\ \A tree \in S : g[tree] = h[tree]
    BY <1>8, <2>1
  <2> HIDE DEF g
  <2>4. Grown(new, g) = Grown(new, h)
    BY <2>2, <2>3, GrownFromSubtrees
  <2>5. \A tree \in S : Grown(tree, g) = Grown(tree, h)
    BY <1>8, <2>3, GrownFromSubtrees
  <2>6. Solves(g, T)
    BY <1>7, <2>3, <2>4, <2>5 DEF Solves
  <2>7. T \in Good
    BY <1>8, <2>1, <2>2, <2>6
  <2>8. Cardinality(T) = m + 1 /\ m \in Nat
    BY <1>2, <1>6, <1>8, <2>1, FS_AddElement
  <2>9. Cardinality(T) <= m
    <3> HIDE DEF T, Good
    <3> QED BY <1>5, <2>7
  <2> QED BY <2>8, <2>9
<1> QED
  BY <1>9, <1>10

\* The nodes of a tree, and the defining equation of its results.
LEMMA NodesOf ==
  \A tree \in Trees : Nodes[tree] = {tree} \cup UNION {Nodes[child] : child \in Subtrees(tree)}
<1> DEFINE G(tree, f) == {tree} \cup UNION {f[child] : child \in Subtrees(tree)}
<1>1. PICK h : Solves(h, Trees)
  BY TreesGrow
<1> DEFINE f == [tree \in Trees |-> h[tree][1]]
<1>2. f = [tree \in Trees |-> G(tree, f)]
  <2>1. ASSUME NEW tree \in Trees PROVE h[tree][1] = G(tree, f)
    <3>1. \A child \in Subtrees(tree) : f[child] = h[child][1]
      BY SubtreesAreTrees
    <3>2. h[tree] = Grown(tree, h)
      BY <1>1 DEF Solves
    <3>3. h[tree][1] = {tree} \cup UNION {h[child][1] : child \in Subtrees(tree)}
      BY <3>2 DEF Grown
    <3> HIDE DEF f
    <3> QED
      BY <3>1, <3>3
  <2> QED
    BY <2>1
<1>3. Nodes = CHOOSE f0 : f0 = [tree \in Trees |-> G(tree, f0)]
  BY DEF Nodes
<1>4. Nodes = [tree \in Trees |-> G(tree, Nodes)]
  <2> HIDE DEF f, G
  <2> QED BY <1>2, <1>3
<1> QED
  BY <1>4

\* What a tree makes of a snapshot follows from what its subtrees make of it.
LEMMA ResultOf ==
  ASSUME NEW tree \in Trees, NEW s \in Snapshots
  PROVE  Result[tree][s] = Outcome(s, tree, [child \in Subtrees(tree) |-> Result[child][s]])
<1> DEFINE G(x, f) == [y \in Snapshots |-> Outcome(y, x, [child \in Subtrees(x) |-> f[child][y]])]
<1>1. PICK h : Solves(h, Trees)
  BY TreesGrow
<1> DEFINE f == [x \in Trees |-> h[x][2]]
<1>2. f = [x \in Trees |-> G(x, f)]
  <2>1. ASSUME NEW x \in Trees PROVE h[x][2] = G(x, f)
    <3>1. \A child \in Subtrees(x) : f[child] = h[child][2]
      BY SubtreesAreTrees
    <3>2. h[x] = Grown(x, h)
      BY <1>1 DEF Solves
    <3>3. h[x][2] = [y \in Snapshots |-> Outcome(y, x, [child \in Subtrees(x) |-> h[child][2][y]])]
      BY <3>2 DEF Grown
    <3> HIDE DEF f
    <3>4. \A y : [child \in Subtrees(x) |-> h[child][2][y]] = [child \in Subtrees(x) |-> f[child][y]]
      BY <3>1
    <3> QED
      BY <3>3, <3>4
  <2> QED
    BY <2>1
<1>3. Result = CHOOSE f0 : f0 = [x \in Trees |-> G(x, f0)]
  BY DEF Result
<1>4. Result = [x \in Trees |-> G(x, Result)]
  <2> HIDE DEF f, G
  <2> QED BY <1>2, <1>3
<1>5. Result[tree] = G(tree, Result)
  <2> HIDE DEF G
  <2> QED BY <1>4
<1> HIDE DEF f
<1> QED
  BY <1>5, Zenon

\* The sum of a sequence of natural numbers is the last of its partial sums.
LEMMA TotalIsPartialSum ==
  ASSUME NEW L \in Nat, NEW a \in [1..L -> Nat]
  PROVE  \E f : PartialSums(f, a, L) /\ Total(a) = f[L] /\ Total(a) \in Nat
<1>1. a \in Seq(Nat) /\ Len(a) = L
  OBVIOUS
<1> DEFINE f == CHOOSE f0 : PartialSums(f0, a, L)
<1>2. \E f0 \in [0..L -> Nat] : PartialSums(f0, a, L)
  BY PartialSumsExist
<1>3. PartialSums(f, a, L)
  BY <1>2
<1>4. Total(a) = f[L]
  BY <1>1 DEF Total, PartialSums
<1> HIDE DEF f
<1>5. f[L] \in Nat
  BY <1>3, PartialSumsNat
<1> QED
  BY <1>3, <1>4, <1>5

\* Sums grow with their terms.
LEMMA TotalOrder ==
  ASSUME NEW L \in Nat, NEW a \in [1..L -> Nat], NEW b \in [1..L -> Nat],
         \A i \in 1..L : a[i] <= b[i]
  PROVE  Total(a) \in Nat /\ Total(b) \in Nat /\ Total(a) <= Total(b)
<1>1. PICK f : PartialSums(f, a, L) /\ Total(a) = f[L] /\ Total(a) \in Nat
  BY TotalIsPartialSum
<1>2. PICK h : PartialSums(h, b, L) /\ Total(b) = h[L] /\ Total(b) \in Nat
  BY TotalIsPartialSum
<1>3. \A n \in 0..L : f[n] <= h[n]
  BY <1>1, <1>2, PartialSumsOrder
<1> QED
  BY <1>1, <1>2, <1>3

\* The first L values of f.
ValuesTo(L, f) == {f[i] : i \in 1..L}

\* The numbers of a sequence have a smallest and a largest one.
LEMMA Extremes ==
  ASSUME NEW L \in Nat, NEW f, \A i \in 1..L : f[i] \in Nat, L # 0
  PROVE  /\ Min(ValuesTo(L, f)) \in Nat /\ Max(ValuesTo(L, f)) \in Nat
         /\ \E i \in 1..L : Min(ValuesTo(L, f)) = f[i]
         /\ \E i \in 1..L : Max(ValuesTo(L, f)) = f[i]
         /\ \A i \in 1..L : Min(ValuesTo(L, f)) <= f[i] /\ f[i] <= Max(ValuesTo(L, f))
<1> DEFINE S == ValuesTo(L, f)
           V == 1..L
<1>0. S = {f[i] : i \in 1..L}
  BY DEF ValuesTo
<1>1. PICK k \in V : \A i \in V : f[i] <= f[k]
  <2>1. V \subseteq 1..L /\ V # {} /\ \A i \in V : f[i] \in Nat
    BY 1 \in V
  <2> HIDE DEF V
  <2> QED BY <2>1, ArgMaxExists
<1>2. f[k] \in Nat /\ S \in SUBSET (0..f[k]) /\ S # {}
  BY <1>0, <1>1
<1>3. /\ \E d \in S : \A e \in S : e <= d
      /\ \E d \in S : \A e \in S : d <= e
  <2> HIDE DEF S
  <2> QED BY <1>2, BoundedExtremes
<1>4. \A e \in S : e \in Nat /\ \E i \in 1..L : e = f[i]
  BY <1>0
<1>5. \A i \in 1..L : f[i] \in S
  BY <1>0
<1> HIDE DEF S
<1>6. Max(S) \in S /\ \A e \in S : Max(S) >= e
  <2>1. \E d \in S : \A e \in S : d >= e
    BY <1>3, <1>4
  <2> QED BY <2>1 DEF Max
<1>7. Min(S) \in S /\ \A e \in S : Min(S) <= e
  BY <1>3 DEF Min
<1> QED
  BY <1>4, <1>5, <1>6, <1>7 DEF S

\* The lowest and the highest score grow with the scores.
LEMMA ScoresOrder ==
  ASSUME NEW L \in Nat, NEW f, NEW g, \A i \in 1..L : f[i] \in Nat /\ g[i] \in Nat /\ f[i] <= g[i]
  PROVE  /\ Lowest(ValuesTo(L, f)) \in Nat /\ Lowest(ValuesTo(L, g)) \in Nat
         /\ Highest(ValuesTo(L, f)) \in Nat /\ Highest(ValuesTo(L, g)) \in Nat
         /\ Lowest(ValuesTo(L, f)) <= Lowest(ValuesTo(L, g))
         /\ Highest(ValuesTo(L, f)) <= Highest(ValuesTo(L, g))
<1> DEFINE S == ValuesTo(L, f)
           T == ValuesTo(L, g)
<1>1. CASE L = 0
  <2>1. S = {} /\ T = {}
    BY <1>1 DEF ValuesTo
  <2> QED
    BY <2>1 DEF Lowest, Highest
<1>2. CASE L # 0
  <2>1. S # {} /\ T # {}
    BY <1>2, 1 \in 1..L DEF ValuesTo
  <2>2. /\ Min(S) \in Nat /\ Max(S) \in Nat /\ \A i \in 1..L : Min(S) <= f[i]
        /\ \E i \in 1..L : Max(S) = f[i]
    BY <1>2, Extremes
  <2>3. /\ Min(T) \in Nat /\ Max(T) \in Nat /\ \A i \in 1..L : g[i] <= Max(T)
        /\ \E i \in 1..L : Min(T) = g[i]
    BY <1>2, Extremes
  <2>4. /\ Lowest(S) = Min(S) /\ Highest(S) = Max(S)
        /\ Lowest(T) = Min(T) /\ Highest(T) = Max(T)
    BY <2>1 DEF Lowest, Highest
  <2> HIDE DEF S, T
  <2>5. Min(S) <= Min(T)
    <3>1. PICK i \in 1..L : Min(T) = g[i]
      BY <2>3
    <3> QED BY <2>2, <2>3, <3>1
  <2>6. Max(S) <= Max(T)
    <3>1. PICK i \in 1..L : Max(S) = f[i]
      BY <2>2
    <3> QED BY <2>2, <2>3, <3>1
  <2> QED
    BY <2>2, <2>3, <2>4, <2>5, <2>6 DEF S, T
<1> QED
  BY <1>1, <1>2

--------------------------------------------------------------------------------
(* What more knowledge does to the result of a tree.                       *)

\* What a return on invested capital is made of: equity and debt as they are, an income
\* that is known.
LEMMA RoicStays ==
  ASSUME NEW a, NEW b, a.total_debt = b.total_debt, a.total_equity = b.total_equity,
         a.operating_income # Missing => b.operating_income = a.operating_income,
         Roic(a) # Missing
  PROVE  Roic(b) = Roic(a)
<1>1. a.operating_income # Missing
  BY DEF Roic
<1> QED
  BY <1>1, Zenon DEF Roic

\* What Completes says of the years of two snapshots.
LEMMA YearsCompleted ==
  ASSUME NEW s \in Snapshots, NEW fuller \in Snapshots, NEW kept, Completes(fuller, s, kept)
  PROVE  /\ Len(fuller.annuals) = Len(s.annuals) /\ Len(s.annuals) \in Nat
         /\ DOMAIN s.annuals = 1..Len(s.annuals) /\ DOMAIN fuller.annuals = 1..Len(s.annuals)
         /\ \A i \in 1..Len(s.annuals) :
              /\ s.annuals[i] \in [Figures -> Int \cup {Missing}]
              /\ fuller.annuals[i] \in [Figures -> Int \cup {Missing}]
              /\ \A f \in Figures : /\ s.annuals[i][f] # Missing => fuller.annuals[i][f] = s.annuals[i][f]
                                    /\ f \in kept => fuller.annuals[i][f] = s.annuals[i][f]
<1> DEFINE Year == [Figures -> Int \cup {Missing}]
<1>1. s.annuals \in Seq(Year) /\ fuller.annuals \in Seq(Year)
  BY SnapshotsAssumption
<1> HIDE DEF Year
<1>2. Len(fuller.annuals) = Len(s.annuals)
  BY <1>1 DEF Completes
<1>3. \A i \in 1..Len(s.annuals) : s.annuals[i] \in Year /\ fuller.annuals[i] \in Year
  BY <1>1, <1>2
<1>4. Len(s.annuals) \in Nat /\ DOMAIN s.annuals = 1..Len(s.annuals)
  BY <1>1
<1>5. \A i \in 1..Len(s.annuals), f \in Figures :
        (s.annuals[i][f] = Missing /\ f \notin kept) \/ fuller.annuals[i][f] = s.annuals[i][f]
  BY <1>4 DEF Completes
<1> QED
  BY <1>1, <1>2, <1>3, <1>4, <1>5 DEF Completes, Year

\* A metric that has its value keeps it, but for a count of years.
LEMMA KnownStays ==
  ASSUME NEW s \in Snapshots, NEW fuller \in Snapshots, NEW kept, Completes(fuller, s, kept),
         NEW n \in Trees, n.type \in {"threshold", "scoring"}, ReadAsZero({n}) \subseteq kept,
         n.metric_path # "fcf_positive_years", Metric(s, n) # Missing
  PROVE  Metric(fuller, n) = Metric(s, n)
<1> DEFINE L == Len(s.annuals)
<1>1. /\ fuller.signals = s.signals
      /\ s.z_score # Missing => fuller.z_score = s.z_score
  BY DEF Completes
<1>2. /\ Len(fuller.annuals) = L /\ L \in Nat
      /\ \A i \in 1..L, f \in Figures :
           /\ s.annuals[i][f] # Missing => fuller.annuals[i][f] = s.annuals[i][f]
           /\ f \in kept => fuller.annuals[i][f] = s.annuals[i][f]
  BY YearsCompleted
<1>3. n.metric_path \in MetricPaths /\ n.period_years \in Nat \ {0}
  BY TreesAssumption DEF NodesAssumption
<1>4. CASE n.metric_path = "roic"
  <2>1. "total_debt" \in kept /\ "total_equity" \in kept
    BY <1>4 DEF ReadAsZero, Leaves
  <2> DEFINE years == n.period_years
  <2>2. /\ Metric(s, n) = RoicAverage(s.annuals, years)
        /\ Metric(fuller, n) = RoicAverage(fuller.annuals, years)
    BY <1>4 DEF Metric
  <2>3. ~(L < years \/ \E i \in 1..years : Roic(s.annuals[i]) = Missing)
    BY <2>2 DEF RoicAverage
  <2>4. ASSUME NEW i \in 1..years PROVE Roic(fuller.annuals[i]) = Roic(s.annuals[i])
    <3>1. i \in 1..L /\ Roic(s.annuals[i]) # Missing
      BY <1>2, <1>3, <2>3
    <3>2. {"total_debt", "total_equity", "operating_income"} \subseteq Figures
      BY DEF Figures
    <3> QED
      BY <1>2, <2>1, <3>1, <3>2, RoicStays
  <2>5. \A i \in 1..years : Roic(fuller.annuals[i]) # Missing
    BY <2>3, <2>4
  <2>6. [i \in 1..years |-> Roic(fuller.annuals[i])] = [i \in 1..years |-> Roic(s.annuals[i])]
    BY <2>4
  <2> QED
    BY <1>2, <2>2, <2>3, <2>5, <2>6 DEF RoicAverage
<1>5. CASE n.metric_path \in {"z_score", "signals.count"}
  BY <1>1, <1>5 DEF Metric
<1>6. CASE n.metric_path \in {"fcf_to_revenue", "debt_to_equity", "interest_coverage"}
  <2> DEFINE a == s.annuals[1]
             b == fuller.annuals[1]
  <2>1. s.annuals # <<>>
    BY <1>6 DEF Metric
  <2>2. fuller.annuals # <<>> /\ 1 \in 1..L
    BY <1>2, <2>1, SnapshotsAssumption
  <2>3. \A f \in Figures : /\ a[f] # Missing => b[f] = a[f]
                           /\ f \in kept => b[f] = a[f]
    BY <1>2, <2>2
  <2> HIDE DEF a, b
  <2>4. CASE n.metric_path = "fcf_to_revenue"
    <3>1. Metric(s, n) = FcfToRevenue(a) /\ Metric(fuller, n) = FcfToRevenue(b)
      BY <2>1, <2>2, <2>4 DEF Metric, a, b
    <3>2. a.fcf # Missing /\ a.revenue \notin {Missing, 0}
      BY <3>1 DEF FcfToRevenue
    <3>3. b.fcf = a.fcf /\ b.revenue = a.revenue
      BY <2>3, <3>2 DEF Figures
    <3> QED
      BY <3>1, <3>3, Zenon DEF FcfToRevenue
  <2>5. CASE n.metric_path = "debt_to_equity"
    <3>1. Metric(s, n) = DebtToEquity(a) /\ Metric(fuller, n) = DebtToEquity(b)
      BY <2>1, <2>2, <2>5 DEF Metric, a, b
    <3>2. a.total_equity # Missing
      BY <3>1 DEF DebtToEquity
    <3>3. "total_debt" \in kept
      BY <2>5 DEF ReadAsZero, Leaves
    <3>4. b.total_equity = a.total_equity /\ b.total_debt = a.total_debt
      BY <2>3, <3>2, <3>3 DEF Figures
    <3> QED
      BY <3>1, <3>4, Zenon DEF DebtToEquity
  <2>6. CASE n.metric_path = "interest_coverage"
    <3>1. Metric(s, n) = InterestCoverage(a) /\ Metric(fuller, n) = InterestCoverage(b)
      BY <2>1, <2>2, <2>6 DEF Metric, a, b
    <3>2. a.operating_income # Missing /\ a.finance_costs # Missing
      BY <3>1 DEF InterestCoverage
    <3>3. b.operating_income = a.operating_income /\ b.finance_costs = a.finance_costs
      BY <2>3, <3>2 DEF Figures
    <3> QED
      BY <3>1, <3>3, Zenon DEF InterestCoverage
  <2> QED
    BY <1>6, <2>4, <2>5, <2>6
<1> QED
  BY <1>3, <1>4, <1>5, <1>6 DEF MetricPaths

\* The years with positive cash flow, where a missing year does not count, grow no fewer.
LEMMA YearsGrow ==
  ASSUME NEW s \in Snapshots, NEW fuller \in Snapshots, NEW kept, Completes(fuller, s, kept),
         NEW n \in Trees, n.metric_path = "fcf_positive_years"
  PROVE  Metric(s, n) \in Nat /\ Metric(fuller, n) \in Nat /\ Metric(s, n) <= Metric(fuller, n)
<1> DEFINE L == Len(s.annuals)
           Good(annuals) == {i \in DOMAIN annuals : /\ i <= n.period_years /\ annuals[i].fcf # Missing
                                                    /\ annuals[i].fcf > 0}
<1>1. Metric(s, n) = Cardinality(Good(s.annuals)) /\ Metric(fuller, n) = Cardinality(Good(fuller.annuals))
  BY DEF Metric, FcfPositiveYears
<1>2. /\ L \in Nat /\ DOMAIN s.annuals = 1..L /\ DOMAIN fuller.annuals = 1..L
      /\ \A i \in 1..L : s.annuals[i].fcf # Missing => fuller.annuals[i].fcf = s.annuals[i].fcf
  BY YearsCompleted DEF Figures
<1>3. Good(s.annuals) \subseteq Good(fuller.annuals) /\ Good(fuller.annuals) \subseteq 1..L
  BY <1>2
<1>4. IsFiniteSet(1..L)
  BY <1>2, FS_Interval
<1> HIDE DEF Good, L
<1>5. IsFiniteSet(Good(fuller.annuals)) /\ IsFiniteSet(Good(s.annuals))
  BY <1>3, <1>4, FS_Subset
<1> QED
  BY <1>1, <1>3, <1>5, FS_Subset, FS_CardinalityType

\* b is no worse a result than a.
Better(a, b) ==
  /\ a.score \in Nat /\ b.score \in Nat /\ a.score <= b.score
  /\ a.passed => b.passed

\* A node that evaluates, and in which nothing turns better into worse.
Regular(n) ==
  /\ n.type \notin {"not", "profile_ref"}
  /\ n.type = "scoring" =>
       /\ n.method \in DOMAIN Methods
       /\ \A x \in DOMAIN Methods[n.method] : Methods[n.method][x] >= 0
  /\ n.type \in {"threshold", "scoring"} /\ n.metric_path = "fcf_positive_years" =>
       IF n.type = "threshold" THEN n.op \in {"ge", "gt"}
       ELSE \A x, y \in DOMAIN Methods[n.method] : x <= y => Methods[n.method][x] <= Methods[n.method][y]
  /\ n.type = "weighted_sum" =>
       /\ n.pass_score # Missing
       /\ \A i \in DOMAIN n.children : n.children[i].weight >= 0
       /\ ~(TotalWeight(n) <= 0)

\* A leaf that has its value keeps its result, or counts more years; one without it has
\* the worst.
LEMMA LeafBetter ==
  ASSUME NEW s \in Snapshots, NEW fuller \in Snapshots, NEW kept, Completes(fuller, s, kept),
         NEW n \in Trees, n.type \in {"threshold", "scoring", "signal_presence"}, Regular(n),
         ReadAsZero({n}) \subseteq kept, NEW r, NEW q
  PROVE  Better(Outcome(s, n, r), Outcome(fuller, n, q))
<1> DEFINE value == Metric(s, n)
           counts == n.metric_path = "fcf_positive_years"
<1>1. /\ fuller.signals = s.signals
      /\ n.type \in {"threshold", "scoring"} /\ ~counts /\ value # Missing => Metric(fuller, n) = value
  <2>1. fuller.signals = s.signals
    BY DEF Completes
  <2>2. ASSUME n.type \in {"threshold", "scoring"}, ~counts, value # Missing
        PROVE  Metric(fuller, n) = value
    BY <2>2, KnownStays
  <2> QED
    BY <2>1, <2>2
<1>0. counts => value \in Nat /\ Metric(fuller, n) \in Nat /\ value <= Metric(fuller, n)
  BY YearsGrow
<1>2. One \in Nat
  BY ScoresAssumption
<1>3. CASE n.type = "threshold"
  <2> DEFINE P(x) == x # Missing /\ Compare(n.op, x, n.threshold)
             x == Metric(fuller, n)
  <2>1. /\ Outcome(s, n, r).passed <=> P(value)
        /\ Outcome(s, n, r).score = IF P(value) THEN One ELSE 0
        /\ Outcome(fuller, n, q).passed <=> P(x)
        /\ Outcome(fuller, n, q).score = IF P(x) THEN One ELSE 0
    BY <1>3 DEF Outcome, Binary
  <2>2. P(value) => P(x)
    <3>1. CASE counts
      <4>1. n.op \in {"ge", "gt"} /\ n.threshold \in Int /\ Missing \notin Int
        BY <1>3, <3>1, TreesAssumption, SnapshotsAssumption DEF Regular, NodesAssumption
      <4> HIDE DEF value, x
      <4>2. x # Missing
        BY <1>0, <3>1, <4>1 DEF x
      <4>3. CASE n.op = "ge"
        <5>1. /\ Compare(n.op, value, n.threshold) <=> value >= n.threshold
              /\ Compare(n.op, x, n.threshold) <=> x >= n.threshold
          BY <4>3 DEF Compare
        <5> QED
          BY <1>0, <3>1, <4>1, <4>2, <5>1 DEF x
      <4>4. CASE n.op = "gt"
        <5>1. /\ Compare(n.op, value, n.threshold) <=> value > n.threshold
              /\ Compare(n.op, x, n.threshold) <=> x > n.threshold
          BY <4>4 DEF Compare
        <5> QED
          BY <1>0, <3>1, <4>1, <4>2, <5>1 DEF x
      <4> QED
        BY <4>1, <4>3, <4>4
    <3>2. CASE ~counts
      BY <1>1, <1>3, <3>2
    <3> QED
      BY <3>1, <3>2
  <2> HIDE DEF P, value, x
  <2> QED
    BY <1>2, <2>1, <2>2 DEF Better
<1>4. CASE n.type = "scoring"
  <2>1. \A y \in Snapshots : Metric(y, n) # Missing =>
          Metric(y, n) \in DOMAIN Methods[n.method] /\ Methods[n.method][Metric(y, n)] \in Nat
    BY <1>4, ScoresAssumption DEF Regular
  <2>2. ASSUME NEW y \in Snapshots, NEW z
        PROVE  LET x == Metric(y, n)
               IN  /\ x = Missing => ~Outcome(y, n, z).passed /\ Outcome(y, n, z).score = 0
                   /\ x # Missing => /\ Outcome(y, n, z).score = Methods[n.method][x]
                                     /\ Outcome(y, n, z).passed <=> Methods[n.method][x] >= n.pass_score
    BY <1>4 DEF Outcome, Binary, Scored
  <2>3. \A y \in Snapshots : \A z : Outcome(y, n, z).score \in Nat
    BY <2>1, <2>2
  <2>4. Outcome(s, n, r).score \in Nat /\ Outcome(fuller, n, q).score \in Nat
    BY <2>3
  <2>5. CASE value = Missing
    BY <2>2, <2>4, <2>5 DEF Better
  <2>6. CASE counts
    <3> DEFINE x == Metric(fuller, n)
    <3>1. value # Missing /\ x # Missing
      BY <1>0, <2>6, SnapshotsAssumption
    <3>2. Methods[n.method][value] <= Methods[n.method][x]
      BY <1>0, <1>4, <2>1, <2>6, <3>1 DEF Regular
    <3>3. n.pass_score \in Int
      BY <1>4, TreesAssumption DEF NodesAssumption
    <3>4. /\ Outcome(s, n, r).score = Methods[n.method][value]
          /\ Outcome(s, n, r).passed <=> Methods[n.method][value] >= n.pass_score
          /\ Outcome(fuller, n, q).score = Methods[n.method][x]
          /\ Outcome(fuller, n, q).passed <=> Methods[n.method][x] >= n.pass_score
      BY <2>2, <3>1
    <3> HIDE DEF value, x
    <3> QED
      BY <2>4, <3>2, <3>3, <3>4 DEF Better
  <2>7. CASE value # Missing /\ ~counts
    <3>1. Metric(fuller, n) = value
      BY <1>1, <1>4, <2>7
    <3>2. /\ Outcome(s, n, r).score = Outcome(fuller, n, q).score
          /\ Outcome(s, n, r).passed <=> Outcome(fuller, n, q).passed
      BY <2>2, <2>7, <3>1
    <3> QED
      BY <2>4, <3>2 DEF Better
  <2> QED
    BY <2>5, <2>6, <2>7
<1>5. CASE n.type = "signal_presence"
  <2> DEFINE b == s.signals \cap n.required_any_of # {}
  <2>1. /\ Outcome(s, n, r).passed <=> b
        /\ Outcome(s, n, r).score = IF b THEN One ELSE 0
        /\ Outcome(fuller, n, q).passed <=> b
        /\ Outcome(fuller, n, q).score = IF b THEN One ELSE 0
    BY <1>1, <1>5 DEF Outcome, Binary
  <2> HIDE DEF b
  <2> QED
    BY <1>2, <2>1 DEF Better
<1> QED
  BY <1>3, <1>4, <1>5

\* Better results of the subtrees make a better result of an and or an or.
LEMMA AndOrBetter ==
  ASSUME NEW s, NEW fuller, NEW n \in Trees, n.type \in {"and", "or"}, NEW r, NEW q,
         \A child \in Subtrees(n) : Better(r[child], q[child])
  PROVE  Better(Outcome(s, n, r), Outcome(fuller, n, q))
<1> DEFINE L == Len(n.children)
           f == [i \in 1..L |-> r[n.children[i]].score]
           g == [i \in 1..L |-> q[n.children[i]].score]
           S == ValuesTo(L, f)
           T == ValuesTo(L, g)
<1>1. L \in Nat /\ Subtrees(n) = {n.children[i] : i \in 1..L}
  BY SubtreesAreTrees
<1>2. \A i \in 1..L : f[i] \in Nat /\ g[i] \in Nat /\ f[i] <= g[i]
  BY <1>1 DEF Better
<1>3. /\ {r[child].score : child \in Subtrees(n)} = S
      /\ {q[child].score : child \in Subtrees(n)} = T
  <2> HIDE DEF L
  <2> QED BY <1>1 DEF ValuesTo
<1> HIDE DEF L, f, g
<1>4. /\ Lowest(S) \in Nat /\ Lowest(T) \in Nat /\ Lowest(S) <= Lowest(T)
      /\ Highest(S) \in Nat /\ Highest(T) \in Nat /\ Highest(S) <= Highest(T)
  BY <1>1, <1>2, ScoresOrder
<1> HIDE DEF S, T
<1>5. CASE n.type = "and"
  <2>1. /\ Outcome(s, n, r) =
             [passed |-> \A child \in Subtrees(n) : r[child].passed, score |-> Lowest(S)]
        /\ Outcome(fuller, n, q) =
             [passed |-> \A child \in Subtrees(n) : q[child].passed, score |-> Lowest(T)]
    BY <1>3, <1>5 DEF Outcome
  <2>2. (\A child \in Subtrees(n) : r[child].passed) => \A child \in Subtrees(n) : q[child].passed
    BY DEF Better
  <2> QED
    BY <1>4, <2>1, <2>2 DEF Better
<1>6. CASE n.type = "or"
  <2>1. /\ Outcome(s, n, r) =
             [passed |-> \E child \in Subtrees(n) : r[child].passed, score |-> Highest(S)]
        /\ Outcome(fuller, n, q) =
             [passed |-> \E child \in Subtrees(n) : q[child].passed, score |-> Highest(T)]
    BY <1>3, <1>6 DEF Outcome
  <2>2. (\E child \in Subtrees(n) : r[child].passed) => \E child \in Subtrees(n) : q[child].passed
    BY DEF Better
  <2> QED
    BY <1>4, <2>1, <2>2 DEF Better
<1> QED
  BY <1>5, <1>6

\* A product grows with its factor.
LEMMA ProductOrder ==
  ASSUME NEW a \in Nat, NEW b \in Nat, NEW w \in Nat, a <= b
  PROVE  a * w \in Nat /\ b * w \in Nat /\ a * w <= b * w
<1>1. PICK d \in Nat : b = a + d
  <2>1. b - a \in Nat /\ b = a + (b - a)
    OBVIOUS
  <2> QED BY <2>1
<1>2. b * w = a * w + d * w /\ d * w \in Nat /\ a * w \in Nat
  BY <1>1
<1> QED
  BY <1>2

\* So they do for a weighted sum of weights that are not negative.
LEMMA WeightedSumBetter ==
  ASSUME NEW s, NEW fuller, NEW n \in Trees, n.type = "weighted_sum", Regular(n), NEW r, NEW q,
         \A child \in Subtrees(n) : Better(r[child], q[child])
  PROVE  Better(Outcome(s, n, r), Outcome(fuller, n, q))
<1> DEFINE L == Len(n.children)
           w == [i \in 1..L |-> n.children[i].weight]
           f == [i \in 1..L |-> r[n.children[i].rule].score * n.children[i].weight]
           g == [i \in 1..L |-> q[n.children[i].rule].score * n.children[i].weight]
           W == Total(w)
           a == Total(f)
           b == Total(g)
           x == a \div W
           y == b \div W
<1>1. /\ L \in Nat /\ DOMAIN n.children = 1..L
      /\ \A i \in 1..L : n.children[i].rule \in Subtrees(n) /\ n.children[i].weight \in Nat
  BY SubtreesAreTrees DEF Regular
<1>2. n.pass_score \in Int
  BY TreesAssumption DEF NodesAssumption, Regular
<1>3. /\ Outcome(s, n, r) = Scored(x, n.pass_score)
      /\ Outcome(fuller, n, q) = Scored(y, n.pass_score)
      /\ TotalWeight(n) = W
  <2> HIDE DEF L
  <2> QED BY <1>1 DEF Outcome, TotalWeight
<1>4. \A i \in 1..L : f[i] \in Nat /\ g[i] \in Nat /\ f[i] <= g[i]
  <2> SUFFICES ASSUME NEW i \in 1..L PROVE f[i] \in Nat /\ g[i] \in Nat /\ f[i] <= g[i]
    OBVIOUS
  <2> DEFINE lo == r[n.children[i].rule].score
             hi == q[n.children[i].rule].score
             v == n.children[i].weight
  <2>1. lo \in Nat /\ hi \in Nat /\ lo <= hi /\ v \in Nat
    BY <1>1 DEF Better
  <2>2. f[i] = lo * v /\ g[i] = hi * v
    OBVIOUS
  <2> HIDE DEF f, g, lo, hi, v
  <2> QED
    BY <2>1, <2>2, ProductOrder
<1>5. w \in [1..L -> Nat] /\ f \in [1..L -> Nat] /\ g \in [1..L -> Nat]
  <2>1. w \in [1..L -> Nat]
    BY <1>1
  <2>2. f = [i \in 1..L |-> f[i]] /\ g = [i \in 1..L |-> g[i]]
    OBVIOUS
  <2> HIDE DEF f, g, L
  <2> QED BY <1>4, <2>1, <2>2
<1> HIDE DEF L, w, f, g, x, y
<1>6. a \in Nat /\ b \in Nat /\ a <= b
  BY <1>1, <1>4, <1>5, TotalOrder
<1>7. W \in Nat \ {0}
  <2>1. W \in Nat
    BY <1>1, <1>5, TotalIsPartialSum
  <2>2. ~(W <= 0)
    BY <1>3 DEF Regular
  <2> HIDE DEF W
  <2> QED BY <2>1, <2>2
<1> HIDE DEF a, b, W
<1>8. x <= y /\ x \in Nat /\ y \in Nat
  BY <1>6, <1>7, DivisionMonotone DEF x, y
<1>9. /\ Outcome(s, n, r).score = x /\ (Outcome(s, n, r).passed <=> x >= n.pass_score)
      /\ Outcome(fuller, n, q).score = y /\ (Outcome(fuller, n, q).passed <=> y >= n.pass_score)
  <2>1. \A z, p : Scored(z, p).score = z /\ (Scored(z, p).passed <=> z >= p)
    BY DEF Scored
  <2> QED BY <1>3, <2>1
<1> QED
  BY <1>2, <1>8, <1>9 DEF Better

\* Over trees of regular nodes, knowing more makes no result worse.
LEMMA ResultsBetter ==
  ASSUME NEW s \in Snapshots, NEW fuller \in Snapshots, NEW kept, Completes(fuller, s, kept),
         NEW rule \in Trees, \A n \in Nodes[rule] : Regular(n) /\ ReadAsZero({n}) \subseteq kept
  PROVE  Better(Result[rule][s], Result[rule][fuller])
<1> DEFINE Fine(tree) == \A n \in Nodes[tree] : Regular(n) /\ ReadAsZero({n}) \subseteq kept
           Wrong == {tree \in Trees : Fine(tree) /\ ~Better(Result[tree][s], Result[tree][fuller])}
<1>1. SUFFICES ASSUME Wrong # {} PROVE FALSE
  OBVIOUS
<1>2. PICK tree \in Wrong : Subtrees(tree) \cap Wrong = {}
  <2>1. Wrong \in SUBSET Trees
    OBVIOUS
  <2> HIDE DEF Wrong
  <2> QED BY <1>1, <2>1, TreesAssumption
<1>3. tree \in Trees /\ Fine(tree) /\ ~Better(Result[tree][s], Result[tree][fuller])
  OBVIOUS
<1>4. tree \in Nodes[tree] /\ \A child \in Subtrees(tree) : Nodes[child] \subseteq Nodes[tree]
  BY <1>3, NodesOf
<1>5. \A child \in Subtrees(tree) : Better(Result[child][s], Result[child][fuller])
  <2>1. \A child \in Subtrees(tree) : child \in Trees /\ Fine(child)
    BY <1>3, <1>4, SubtreesAreTrees
  <2> HIDE DEF Fine
  <2> QED BY <1>2, <2>1
<1> HIDE DEF Wrong
<1> DEFINE r == [child \in Subtrees(tree) |-> Result[child][s]]
           q == [child \in Subtrees(tree) |-> Result[child][fuller]]
<1>6. \A child \in Subtrees(tree) : Better(r[child], q[child])
  BY <1>5
<1>7. Result[tree][s] = Outcome(s, tree, r) /\ Result[tree][fuller] = Outcome(fuller, tree, q)
  BY <1>3, ResultOf
<1> HIDE DEF r, q
<1>8. Regular(tree) /\ ReadAsZero({tree}) \subseteq kept
  BY <1>3, <1>4
<1>9. CASE tree.type \in {"threshold", "scoring", "signal_presence"}
  BY <1>3, <1>7, <1>8, <1>9, LeafBetter
<1>10. CASE tree.type \in {"and", "or"}
  BY <1>3, <1>6, <1>7, <1>10, AndOrBetter
<1>11. CASE tree.type = "weighted_sum"
  BY <1>3, <1>6, <1>7, <1>8, <1>11, WeightedSumBetter
<1>12. tree.type \in {"threshold", "scoring", "signal_presence", "and", "or", "weighted_sum"}
  BY <1>3, <1>8, TreesAssumption DEF NodesAssumption, Regular
<1> QED
  BY <1>9, <1>10, <1>11, <1>12

\* One of some nodes reads no more figures as 0 than all of them.
LEMMA ReadAsZeroOf ==
  ASSUME NEW nodes, NEW n \in nodes
  PROVE  ReadAsZero({n}) \subseteq ReadAsZero(nodes)
BY DEF ReadAsZero, Leaves

\* The guards stand when more is known.
LEMMA GuardsStand ==
  ASSUME NEW s \in Snapshots, NEW fuller \in Snapshots, NEW kept, Completes(fuller, s, kept),
         ReadAsZero(Guards) \subseteq kept, GuardsHold(s)
  PROVE  GuardsHold(fuller)
<1> SUFFICES ASSUME NEW g \in Guards PROVE Result[g][fuller].passed
  BY DEF GuardsHold
<1> DEFINE r == [child \in Subtrees(g) |-> Result[child][s]]
           q == [child \in Subtrees(g) |-> Result[child][fuller]]
<1>1. g \in Trees /\ g.type = "threshold" /\ Regular(g)
  BY GuardsAssumption DEF Regular
<1>2. Result[g][s] = Outcome(s, g, r) /\ Result[g][fuller] = Outcome(fuller, g, q)
  BY <1>1, ResultOf
<1> HIDE DEF r, q
<1>3. ReadAsZero({g}) \subseteq kept
  BY ReadAsZeroOf
<1>4. Better(Result[g][s], Result[g][fuller])
  BY <1>1, <1>2, <1>3, LeafBetter
<1> QED
  BY <1>4 DEF Better, GuardsHold

\* A pass stands when more is known.
LEMMA PassStands ==
  ASSUME NEW s \in Snapshots, NEW fuller \in Snapshots, NEW rule \in Trees,
         Completes(fuller, s, ReadAsZero(Guards \cup Nodes[rule])),
         Build(rule) = "ok", AcceptedAtCommit(rule), Evaluate(s, rule) = "pass", Monotone(rule)
  PROVE  Evaluate(fuller, rule) = "pass"
<1> DEFINE kept == ReadAsZero(Guards \cup Nodes[rule])
<1>1. GuardsHold(s) /\ Result[rule][s].passed /\ \A n \in Nodes[rule] : ~Raises(s, n)
  BY DEF Evaluate
<1>2. GuardsHold(fuller)
  <2>1. ReadAsZero(Guards) \subseteq kept
    BY DEF ReadAsZero, Leaves
  <2> QED
    BY <1>1, <2>1, GuardsStand
<1>3. \A n \in Nodes[rule] : ~Raises(fuller, n)
  BY <1>1 DEF Raises, AcceptedAtCommit
<1>4. ASSUME NEW n \in Nodes[rule] PROVE Regular(n) /\ ReadAsZero({n}) \subseteq kept
  <2>1. /\ n.type # "profile_ref"
        /\ n.type = "scoring" => n.method \in DOMAIN Methods
        /\ n.type = "weighted_sum" => n.pass_score # Missing
    BY DEF Build
  <2>2. n.type = "weighted_sum" => ~(TotalWeight(n) <= 0)
    BY <1>1 DEF Raises
  <2>3. Regular(n)
    BY <2>1, <2>2 DEF Monotone, Regular, Leaves
  <2> QED
    BY <2>3, ReadAsZeroOf
<1>5. Better(Result[rule][s], Result[rule][fuller])
  <2> HIDE DEF kept
  <2> QED BY <1>4, ResultsBetter DEF kept
<1>6. Result[rule][fuller].passed
  BY <1>1, <1>5 DEF Better
<1> QED
  BY <1>2, <1>3, <1>6 DEF Evaluate

--------------------------------------------------------------------------------
(* The verdicts: a pass was judged on the snapshot and the version that it *)
(* names, which is none at all only while the ticker has no profile, and   *)
(* else a draft that the validator let through.                            *)

Accepted == {d \in Drafts : AcceptedAtCommit(d.rule)}

\* The policies at hand were accepted, on file and under way.
PolicyAccepted ==
  /\ \A t \in Tickers : \A n \in DOMAIN profiles[t] : profiles[t][n] \in Accepted \cup {Torn}
  /\ \A c \in Committers : com[c] # None => com[c].draft \in Accepted

\* What one load of a profile can give.
WholeRead(read) ==
  /\ read \in Read /\ read.profile \in Accepted \cup {Torn, None}
  /\ read.version = 0 <=> read.profile = None

\* What is remembered was loaded at once.
MemoWhole == \A t \in Tickers : memo[t] # None => WholeRead(memo[t])

\* A snapshot is at hand from the cache to the verdict.
DataAtHand == at \in {"gate", "rule"} => data \in Snapshots

\* A pass is what its snapshot and its policy make.
PassJudged ==
  \A t \in Tickers :
    verdicts[t] # None /\ verdicts[t].kind = "pass" =>
      /\ verdicts[t].snapshot \in Snapshots /\ WholeRead(verdicts[t].read)
      /\ Judge(verdicts[t].snapshot, verdicts[t].read.profile) = "pass"

\* The inductive invariant: the memo is part of it, since gate and rules read it.
PassInv == MemoWhole /\ DataAtHand /\ PassJudged

\* A load, from the memo or from the files, gives a version and what it holds.
LEMMA LoadWhole ==
  ASSUME TypeInv, PolicyAccepted, MemoWhole, NEW t \in Tickers
  PROVE  WholeRead(Load(t))
<1>1. CASE memo[t] # None
  BY <1>1 DEF Load, MemoWhole
<1>2. CASE memo[t] = None
  <2>1. Latest(t) \in Read
    BY LatestType DEF TypeInv
  <2>2. profiles[t] \in Seq(Drafts \cup {Torn})
    BY DEF TypeInv, TypeOK
  <2>3. Len(profiles[t]) \in Nat /\ \A n \in 1..Len(profiles[t]) : profiles[t][n] # None
    <3> DEFINE Versions == Drafts \cup {Torn}
    <3>1. None \notin Versions
      OBVIOUS
    <3> HIDE DEF Versions
    <3>2. \A n \in 1..Len(profiles[t]) : profiles[t][n] \in Versions
      BY <2>2, ElementOfSeq DEF Versions
    <3> QED
      BY <2>2, <3>1, <3>2
  <2>4. Latest(t).profile \in Accepted \cup {Torn, None}
    BY <2>2, <2>3 DEF Latest, Previous, PolicyAccepted
  <2> QED
    BY <1>2, <2>1, <2>3, <2>4 DEF Load, Latest, Previous, WholeRead
<1> QED
  BY <1>1, <1>2

\* A version on file stays, is new and torn, or is a draft that was accepted.
LEMMA PolicyAcceptedStep == TypeInv /\ PolicyAccepted /\ [Next]_vars => PolicyAccepted'
<1> SUFFICES ASSUME TypeInv, PolicyAccepted, [Next]_vars PROVE PolicyAccepted'
  OBVIOUS
<1>1. ASSUME UNCHANGED policy PROVE PolicyAccepted'
  BY <1>1 DEF policy, PolicyAccepted
<1>2. ASSUME NEW c \in Committers, NEW t \in Tickers, NEW d \in Drafts, BeginCommit(c, t, d)
      PROVE  PolicyAccepted'
  <2>1. d \in Accepted
    BY <1>2 DEF BeginCommit, Accepted
  <2>2. com'[c].draft = d /\ \A e \in Committers : e # c => com'[e] = com[e]
    BY <1>2 DEF BeginCommit, TypeInv, TypeOK
  <2> QED
    BY <1>2, <2>1, <2>2 DEF BeginCommit, PolicyAccepted
<1>3. ASSUME NEW c \in Committers, OpenVersion(c) PROVE PolicyAccepted'
  <2> DEFINE u == com[c].ticker
  <2>1. u \in Tickers /\ profiles[u] \in Seq(Drafts \cup {Torn}) /\ com[c] \in Commit
    BY <1>3 DEF OpenVersion, TypeInv, TypeOK, Commit
  <2>2. com'[c].draft = com[c].draft /\ \A e \in Committers : e # c => com'[e] = com[e]
    BY <1>3, <2>1 DEF OpenVersion, TypeInv, TypeOK, Commit
  <2>3. \A t \in Tickers : \A n \in DOMAIN profiles'[t] : profiles'[t][n] \in Accepted \cup {Torn}
    <3>1. CASE UNCHANGED profiles
      BY <3>1 DEF PolicyAccepted
    <3>2. CASE profiles' = [profiles EXCEPT ![u] = Append(@, Torn)]
      <4>1. profiles'[u] = Append(profiles[u], Torn) /\ \A t \in Tickers : t # u => profiles'[t] = profiles[t]
        BY <2>1, <3>2 DEF TypeInv, TypeOK
      <4>2. \A n \in DOMAIN profiles'[u] : profiles'[u][n] \in Accepted \cup {Torn}
        BY <2>1, <4>1 DEF PolicyAccepted
      <4> QED
        BY <4>1, <4>2 DEF PolicyAccepted
    <3> QED
      BY <1>3, <3>1, <3>2 DEF OpenVersion
  <2> QED
    BY <1>3, <2>2, <2>3 DEF OpenVersion, PolicyAccepted
<1>4. ASSUME NEW c \in Committers, WriteVersion(c) PROVE PolicyAccepted'
  <2>1. com[c].draft \in Accepted
    BY <1>4 DEF WriteVersion, PolicyAccepted
  <2>2. com'[c] = None /\ \A e \in Committers : e # c => com'[e] = com[e]
    BY <1>4 DEF WriteVersion, TypeInv, TypeOK
  <2>3. \A t \in Tickers : /\ DOMAIN profiles'[t] = DOMAIN profiles[t]
                          /\ \A n \in DOMAIN profiles[t] :
                               profiles'[t][n] \in {profiles[t][n], com[c].draft}
    BY <1>4 DEF WriteVersion, TypeInv, TypeOK
  <2> QED
    BY <2>1, <2>2, <2>3 DEF PolicyAccepted
<1>5. ASSUME NEW c \in Committers, AbandonCommit(c) PROVE PolicyAccepted'
  BY <1>5 DEF AbandonCommit, TypeInv, TypeOK, PolicyAccepted
<1> QED
  BY <1>1, <1>2, <1>3, <1>4, <1>5
     DEF vars, Next, CommitStep, BatchStep, StartBatch, TakeTicker, Gate, ApplyRule, Report, KillBatch

\* A crash leaves no snapshot at hand, nothing in the memo and no verdict.
LEMMA CrashKeepsPasses ==
  ASSUME PassInv, Crash
  PROVE  PassInv'
BY DEF Crash, PassInv, MemoWhole, DataAtHand, PassJudged

\* A verdict is added for one ticker; a pass among them is judged on the snapshot at hand.
LEMMA ConcludeKeepsPasses ==
  ASSUME TypeInv, PassInv, NEW t \in Tickers, NEW kind, NEW s, NEW read,
         Conclude(t, kind, s, read), MemoWhole',
         kind = "pass" => s \in Snapshots /\ WholeRead(read) /\ Judge(s, read.profile) = "pass"
  PROVE  PassInv'
<1> DEFINE verdict == [kind |-> kind, snapshot |-> s, read |-> read, upto |-> Len(profiles[t])]
<1>1. /\ verdicts' = [verdicts EXCEPT ![t] = verdict] /\ at' = "next"
      /\ verdict.kind = kind /\ verdict.snapshot = s /\ verdict.read = read
  BY DEF Conclude
<1> HIDE DEF verdict
<1>2. verdicts'[t] = verdict /\ \A u \in Tickers : u # t => verdicts'[u] = verdicts[u]
  BY <1>1 DEF TypeInv, TypeOK
<1>3. PassJudged'
  <2> SUFFICES ASSUME NEW u \in Tickers, verdicts'[u] # None, verdicts'[u].kind = "pass"
               PROVE  /\ verdicts'[u].snapshot \in Snapshots /\ WholeRead(verdicts'[u].read)
                      /\ Judge(verdicts'[u].snapshot, verdicts'[u].read.profile) = "pass"
    BY DEF PassJudged, WholeRead
  <2>1. CASE u = t
    BY <1>1, <1>2, <2>1
  <2>2. CASE u # t
    BY <1>2, <2>2 DEF PassInv, PassJudged
  <2> QED
    BY <2>1, <2>2
<1>4. DataAtHand'
  BY <1>1 DEF DataAtHand
<1> QED
  BY <1>3, <1>4 DEF PassInv

\* Every step of the batch and of the committers preserves the invariant.
LEMMA PassInvStep == TypeInv /\ PolicyAccepted /\ PassInv /\ [Next]_vars => PassInv'
<1> SUFFICES ASSUME TypeInv, PolicyAccepted, PassInv, [Next]_vars PROVE PassInv'
  OBVIOUS
<1>1. ASSUME UNCHANGED screen PROVE PassInv'
  BY <1>1 DEF screen, PassInv, MemoWhole, DataAtHand, PassJudged, WholeRead
<1>2. ASSUME StartBatch PROVE PassInv'
  BY <1>2 DEF StartBatch, PassInv, MemoWhole, DataAtHand, PassJudged
<1>3. ASSUME NEW t \in Tickers, TakeTicker(t) PROVE PassInv'
  <2>1. ASSUME NEW figures \in Fetched, Take(t, figures) PROVE PassInv'
    <3>1. data' \in Snapshots
      BY <2>1, EnrichedAssumption, ScreeningAssumption DEF Take, Enriched
    <3> QED
      BY <2>1, <3>1 DEF Take, PassInv, MemoWhole, DataAtHand, PassJudged, WholeRead
  <2>2. ASSUME Conclude(t, "unknown", None, None), UNCHANGED memo PROVE PassInv'
    <3>1. MemoWhole'
      BY <2>2 DEF PassInv, MemoWhole, WholeRead
    <3> QED
      BY <2>2, <3>1, ConcludeKeepsPasses
  <2>3. cache[t] # None => cache[t] \in Fetched
    BY DEF TypeInv, TypeOK
  <2> QED
    BY <1>3, <2>1, <2>2, <2>3, CrashKeepsPasses DEF TakeTicker, RefetchIntoCache
<1>4. ASSUME Gate PROVE PassInv'
  <2>1. ticker \in Tickers
    BY <1>4 DEF Gate, TypeInv, TypeOK, AtHand
  <2>2. CASE Crash
    BY <2>2, CrashKeepsPasses
  <2>3. CASE memo' = [memo EXCEPT ![ticker] = Load(ticker)]
    <3>1. WholeRead(Load(ticker))
      BY <2>1, LoadWhole DEF PassInv
    <3>2. MemoWhole'
      BY <2>1, <2>3, <3>1 DEF PassInv, MemoWhole, WholeRead, TypeInv, TypeOK
    <3>3. CASE at' = "rule" /\ UNCHANGED <<data, verdicts>>
      BY <1>4, <3>2, <3>3 DEF Gate, PassInv, DataAtHand, PassJudged, WholeRead
    <3>4. CASE Conclude(ticker, "caution", data, Load(ticker))
      BY <2>1, <3>2, <3>4, ConcludeKeepsPasses
    <3> QED
      BY <1>4, <2>2, <3>3, <3>4 DEF Gate
  <2> QED
    BY <1>4, <2>2, <2>3 DEF Gate
<1>5. ASSUME ApplyRule PROVE PassInv'
  <2> DEFINE read == Load(ticker)
             outcome == Judge(data, read.profile)
  <2>1. ticker \in Tickers /\ data \in Snapshots
    BY <1>5 DEF ApplyRule, TypeInv, TypeOK, AtHand, PassInv, DataAtHand
  <2>2. WholeRead(read)
    BY <2>1, LoadWhole DEF PassInv
  <2>3. CASE Crash
    BY <2>3, CrashKeepsPasses
  <2>4. CASE Conclude(ticker, outcome, data, read) /\ UNCHANGED memo
    <3>1. MemoWhole'
      BY <2>4 DEF PassInv, MemoWhole, WholeRead
    <3>2. outcome = Judge(data, read.profile)
      OBVIOUS
    <3> HIDE DEF outcome, read
    <3> QED
      BY <2>1, <2>2, <2>4, <3>1, <3>2, ConcludeKeepsPasses
  <2> QED
    BY <1>5, <2>3, <2>4 DEF ApplyRule, RuleOf
<1>6. ASSUME Report PROVE PassInv'
  BY <1>6 DEF Report, PassInv, MemoWhole, DataAtHand, PassJudged, WholeRead
<1>7. ASSUME KillBatch PROVE PassInv'
  BY <1>7, CrashKeepsPasses DEF KillBatch
<1>8. ASSUME NEW c \in Committers, CommitStep(c) PROVE PassInv'
  BY <1>1, <1>8 DEF CommitStep, BeginCommit, OpenVersion, WriteVersion, AbandonCommit
<1>9. ASSUME UNCHANGED vars PROVE PassInv'
  BY <1>1, <1>9 DEF vars
<1> QED
  BY <1>2, <1>3, <1>4, <1>5, <1>6, <1>7, <1>8, <1>9 DEF Next, BatchStep

\* A pass names rules that build, and that passed.
LEMMA PassedByItsRule ==
  ASSUME NEW s \in Snapshots, NEW read, WholeRead(read), Judge(s, read.profile) = "pass"
  PROVE  LET rule == IF read.version = 0 THEN DefaultRule ELSE read.profile.rule
         IN  /\ rule \in Trees /\ Build(rule) = "ok" /\ AcceptedAtCommit(rule)
             /\ Evaluate(s, rule) = "pass"
<1>1. CASE read.version = 0
  <2>1. read.profile = None /\ None # Torn
    BY <1>1 DEF WholeRead
  <2> QED
    BY <1>1, <2>1, RulesAssumption DEF Judge
<1>2. CASE read.version # 0
  <2>1. /\ read.profile # Torn /\ read.profile # None /\ read.profile \in Drafts
        /\ AcceptedAtCommit(read.profile.rule)
    BY <1>2 DEF WholeRead, Judge, Accepted
  <2>2. Build(read.profile.rule) \in {"invalid", "raises", "ok"}
    BY DEF Build
  <2>3. Build(read.profile.rule) = "ok" /\ Evaluate(s, read.profile.rule) = "pass"
    BY <2>1, <2>2 DEF Judge
  <2> QED
    BY <1>2, <2>1, <2>3, RulesAssumption
<1> QED
  BY <1>1, <1>2

(* No figure that was missing, once known, turns a pass into a breach of   *)
(* the hard guards, nor into a fail of monotone rules, whatever the rules  *)
(* of any ticker are and whichever version of them was in place; excepted  *)
(* are the figures that the guards, or the rules, read as 0.               *)
THEOREM PassSurvivesKnowledgeAlways == Spec => []PassSurvivesKnowledge
<1>1. Init => PassInv /\ PolicyAccepted
  BY DEF Init, PassInv, MemoWhole, DataAtHand, PassJudged, PolicyAccepted
<1>2. PassInv => PassSurvivesKnowledge
  <2> SUFFICES ASSUME PassInv, NEW t \in Tickers, verdicts[t] # None, verdicts[t].kind = "pass",
                      NEW fuller \in Snapshots
               PROVE  LET s == verdicts[t].snapshot
                          rule == IF verdicts[t].read.version = 0 THEN DefaultRule
                                  ELSE verdicts[t].read.profile.rule
                      IN  /\ Completes(fuller, s, ReadAsZero(Guards)) => GuardsHold(fuller)
                          /\ Monotone(rule) /\ Completes(fuller, s, ReadAsZero(Guards \cup Nodes[rule]))
                               => Evaluate(fuller, rule) = "pass"
    BY DEF PassSurvivesKnowledge
  <2> DEFINE s == verdicts[t].snapshot
             read == verdicts[t].read
             rule == IF read.version = 0 THEN DefaultRule ELSE read.profile.rule
  <2>1. s \in Snapshots /\ WholeRead(read) /\ Judge(s, read.profile) = "pass"
    BY DEF PassInv, PassJudged
  <2>2. /\ rule \in Trees /\ Build(rule) = "ok" /\ AcceptedAtCommit(rule)
        /\ Evaluate(s, rule) = "pass"
    BY <2>1, PassedByItsRule
  <2> HIDE DEF rule, s
  <2>3. GuardsHold(s)
    BY <2>2 DEF Evaluate
  <2>4. Completes(fuller, s, ReadAsZero(Guards)) => GuardsHold(fuller)
    BY <2>1, <2>3, GuardsStand
  <2>5. Monotone(rule) /\ Completes(fuller, s, ReadAsZero(Guards \cup Nodes[rule]))
          => Evaluate(fuller, rule) = "pass"
    BY <2>1, <2>2, PassStands
  <2> QED
    BY <2>4, <2>5 DEF rule, s
<1> QED
  BY <1>1, <1>2, TypeInit, TypeStep, PolicyAcceptedStep, PassInvStep, PTL DEF Spec
================================================================================
