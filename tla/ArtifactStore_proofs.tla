------------------------ MODULE ArtifactStore_proofs -------------------------
(***************************************************************************)
(* Proofs about the trail store for every set of writers and paths and     *)
(* every number of calls:                                                  *)
(*   - the type invariant and the absence of holes among the suffixes hold *)
(*     whatever the interleaving (no lock is assumed);                     *)
(*   - with serialized writers, an acknowledged artifact stays intact, no  *)
(*     complete artifact is ever changed (guard G20), and a path is the    *)
(*     log of versions that VersionedLog promises;                         *)
(*   - the garbage collector of telemetry/, killed anywhere and with       *)
(*     writes beside it, never removes what the registry calls evidence;   *)
(*     undisturbed, it settles the tree in one pass and keeps of a name    *)
(*     the newest copy.                                                    *)
(***************************************************************************)
EXTENDS MCFiles, NatSets, TLAPS

LEMMA TypeInit == Init => TypeOK
  BY BoundAssumption DEF Init, TypeOK, Names, Content, Suffixes, Ack

(* Every step keeps the types.                                             *)
LEMMA TypeStep == TypeOK /\ [Next]_vars => TypeOK'
<1> SUFFICES ASSUME TypeOK, [Next]_vars PROVE TypeOK'
  OBVIOUS
<1> USE BoundAssumption
<1>1. ASSUME NEW w \in Writers, NEW p \in Paths, Call(w, p) PROVE TypeOK'
  BY <1>1 DEF Call, TypeOK, Payloads, Suffixes
<1>2. ASSUME NEW w \in Writers, ProbeTaken(w) PROVE TypeOK'
  BY <1>2 DEF ProbeTaken, TypeOK, Suffixes
<1>3. ASSUME NEW w \in Writers, ProbeFree(w) PROVE TypeOK'
  BY <1>3 DEF ProbeFree, TypeOK
<1>4. ASSUME NEW w \in Writers, Open(w) PROVE TypeOK'
  BY <1>4 DEF Open, TypeOK, Content
<1>5. ASSUME NEW w \in Writers, Dump(w) PROVE TypeOK'
  <2>1. path[w] \in Paths /\ payload[w] \in Payloads /\ cand[w] \in Suffixes
    BY <1>5 DEF Dump, TypeOK
  <2>2. disk' \in [Names -> Content]
    BY <1>5, <2>1 DEF Dump, TypeOK, Content
  <2>3. acked' \in Seq(Ack)
    BY <1>5, <2>1 DEF Dump, TypeOK, Ack
  <2>4. raced' \in [Writers -> BOOLEAN]
    BY <1>5 DEF Dump, TypeOK
  <2> QED
    BY <1>5, <2>2, <2>3, <2>4 DEF Dump, Leave, TypeOK, Suffixes
<1>6. ASSUME NEW w \in Writers, Abort(w) PROVE TypeOK'
  BY <1>6 DEF Abort, Leave, TypeOK, Suffixes
<1>7. CASE UNCHANGED vars
  BY <1>7 DEF vars, TypeOK
<1> QED
  BY <1>1, <1>2, <1>3, <1>4, <1>5, <1>6, <1>7 DEF Next, Step

(* Type correctness of the store: in particular a writer in the middle of  *)
(* write_output_safely always has a path and an envelope.                  *)
THEOREM TypeCorrect == Spec => []TypeOK
  BY TypeInit, TypeStep, PTL DEF Spec

------------------------------------------------------------------------------
(* What the `while True` search has seen: every name before the candidate  *)
(* exists.  With it NoHole is inductive, for racing writers too.           *)
Probed == \A w \in Writers : pc[w] # "idle" =>
             \A n \in Suffixes : n < cand[w] => disk[<<path[w], n>>] # Absent

HoleInv == TypeOK /\ NoHole /\ Probed

(* Every step keeps HoleInv: names never disappear, and Open creates only  *)
(* a name all of whose predecessors were seen.                             *)
LEMMA HoleStep == HoleInv /\ [Next]_vars => HoleInv'
<1> SUFFICES ASSUME HoleInv, [Next]_vars PROVE HoleInv'
  OBVIOUS
<1> USE BoundAssumption
<1>t. TypeOK /\ TypeOK'
  BY TypeStep DEF HoleInv
<1>1. ASSUME NEW w \in Writers, NEW p \in Paths, Call(w, p) PROVE NoHole' /\ Probed'
  <2>1. NoHole'
    BY <1>1 DEF Call, HoleInv, NoHole
  <2>2. Probed'
    <3>1. cand'[w] = 0 /\ \A v \in Writers : v # w =>
              /\ pc'[v] = pc[v] /\ path'[v] = path[v] /\ cand'[v] = cand[v]
      BY <1>1, <1>t DEF Call, TypeOK
    <3> QED  BY <3>1, <1>1, <1>t DEF Call, HoleInv, Probed, Suffixes
  <2> QED  BY <2>1, <2>2
<1>2. ASSUME NEW w \in Writers, ProbeTaken(w) PROVE NoHole' /\ Probed'
  <2>1. NoHole'
    BY <1>2 DEF ProbeTaken, HoleInv, NoHole
  <2>2. Probed'
    <3>1. cand'[w] = cand[w] + 1 /\ \A v \in Writers : v # w => cand'[v] = cand[v]
      BY <1>2, <1>t DEF ProbeTaken, TypeOK
    <3>2. \A n \in Suffixes : n < cand[w] + 1 => n < cand[w] \/ n = cand[w]
      BY <1>t DEF TypeOK, Suffixes
    <3> QED  BY <3>1, <3>2, <1>2 DEF ProbeTaken, HoleInv, Probed, File
  <2> QED  BY <2>1, <2>2
<1>3. ASSUME NEW w \in Writers, ProbeFree(w) PROVE NoHole' /\ Probed'
  BY <1>3, <1>t DEF ProbeFree, HoleInv, NoHole, Probed, TypeOK
<1>4. ASSUME NEW w \in Writers, NEW c \in Content, c # Absent, pc[w] # "idle",
             disk' = [disk EXCEPT ![File(w)] = c]
      PROVE  NoHole' /\ \A f \in Names : disk[f] # Absent => disk'[f] # Absent
  <2>1. File(w) \in Names
    BY <1>4, <1>t DEF TypeOK, File, Names
  <2>2. \A f \in Names : disk'[f] = IF f = File(w) THEN c ELSE disk[f]
    BY <1>4, <1>t, <2>1 DEF TypeOK
  <2>3. ASSUME NEW p \in Paths, NEW n \in 1 .. MaxCalls, disk'[<<p, n>>] # Absent
        PROVE  disk'[<<p, n - 1>>] # Absent
    <3>1. <<p, n>> \in Names /\ <<p, n - 1>> \in Names /\ n - 1 \in Suffixes
      BY DEF Names, Suffixes
    <3>2. CASE <<p, n>> = File(w)
      <4>1. disk[<<p, n - 1>>] # Absent
        BY <3>1, <3>2, <1>4, <1>t DEF HoleInv, Probed, File, TypeOK, Suffixes
      <4> QED  BY <4>1, <2>2, <3>1, <1>4
    <3>3. CASE <<p, n>> # File(w)
      <4>1. disk[<<p, n>>] # Absent
        BY <3>3, <2>2, <2>3, <3>1
      <4>2. disk[<<p, n - 1>>] # Absent
        BY <4>1 DEF HoleInv, NoHole
      <4> QED  BY <4>2, <2>2, <3>1, <1>4
    <3> QED  BY <3>2, <3>3
  <2> QED  BY <2>2, <2>3, <1>4 DEF NoHole
<1>5. ASSUME NEW w \in Writers, Open(w) PROVE NoHole' /\ Probed'
  <2>1. NoHole' /\ \A f \in Names : disk[f] # Absent => disk'[f] # Absent
    BY <1>4, <1>5, SentinelAssumption DEF Open, Content
  <2>2. Probed'
    BY <1>5, <2>1, <1>t DEF Open, HoleInv, Probed, TypeOK, Names, Suffixes
  <2> QED  BY <2>1, <2>2
<1>6. ASSUME NEW w \in Writers, Dump(w) PROVE NoHole' /\ Probed'
  <2>1. PICK c \in {payload[w], Torn} : disk' = [disk EXCEPT ![File(w)] = c]
    BY <1>6 DEF Dump
  <2>2. c \in Content /\ c # Absent
    BY <1>6, <1>t, SentinelAssumption DEF Dump, TypeOK, Content
  <2>3. NoHole' /\ \A f \in Names : disk[f] # Absent => disk'[f] # Absent
    BY <1>4, <1>6, <2>1, <2>2 DEF Dump
  <2>4. Probed'
    BY <1>6, <2>3, <1>t DEF Dump, Leave, HoleInv, Probed, TypeOK, Names, Suffixes
  <2> QED  BY <2>3, <2>4
<1>7. ASSUME NEW w \in Writers, Abort(w) PROVE NoHole' /\ Probed'
  BY <1>7, <1>t DEF Abort, Leave, HoleInv, NoHole, Probed, TypeOK, Suffixes
<1>8. ASSUME UNCHANGED vars PROVE NoHole' /\ Probed'
  <2>1. disk' = disk /\ pc' = pc /\ path' = path /\ cand' = cand
    BY <1>8 DEF vars
  <2> QED  BY <2>1 DEF HoleInv, NoHole, Probed
<1>9. ASSUME Next PROVE NoHole' /\ Probed'
  BY <1>9, <1>1, <1>2, <1>3, <1>5, <1>6, <1>7 DEF Next, Step
<1> QED
  BY <1>t, <1>8, <1>9 DEF HoleInv

(* Whoever races or crashes, the suffixes of a path have no hole: the      *)
(* search of a later call stops at the first free name and skips nothing.  *)
THEOREM NoHoleAlways == Spec => []NoHole
<1>1. Init => HoleInv
  <2>1. Init => NoHole
    BY BoundAssumption DEF Init, NoHole, Names, Suffixes
  <2>2. Init => Probed
    BY DEF Init, Probed
  <2> QED  BY TypeInit, <2>1, <2>2 DEF HoleInv
<1>2. HoleInv => NoHole
  BY DEF HoleInv
<1> QED
  BY <1>1, <1>2, HoleStep, PTL DEF Spec

------------------------------------------------------------------------------
(* The strengthening for serialized writers.  At most one call is under    *)
(* way; the name it chose is free until it opens it and incomplete until   *)
(* it dumps; nobody else wrote the inode; what was acknowledged is there.  *)
OneCall     == \A v, w \in Writers : pc[v] # "idle" /\ pc[w] # "idle" => v = w
ChosenFree  == \A w \in Writers : pc[w] = "open" => disk[File(w)] = Absent
OpenedTorn  == \A w \in Writers : pc[w] = "dump" => disk[File(w)] = Torn /\ ~raced[w]

SerialInv == TypeOK /\ OneCall /\ ChosenFree /\ OpenedTorn /\ AckedDurable

LEMMA SerialInit == Init => SerialInv
<1> SUFFICES ASSUME Init PROVE SerialInv
  OBVIOUS
<1>1. TypeOK
  BY TypeInit
<1>2. OneCall /\ ChosenFree /\ OpenedTorn
  BY DEF Init, OneCall, ChosenFree, OpenedTorn
<1>3. AckedDurable
  BY DEF Init, AckedDurable
<1> QED
  BY <1>1, <1>2, <1>3 DEF SerialInv

(* What a step of a serialized writer does to the files: nothing that is   *)
(* complete changes, and the invariant is kept.                            *)
LEMMA SerialStep ==
  ASSUME Serialized, SerialInv, [Next]_vars
  PROVE  /\ SerialInv'
         /\ \A f \in Names : disk[f] \in Payloads => disk'[f] = disk[f]
<1> DEFINE Kept == \A f \in Names : disk[f] \in Payloads => disk'[f] = disk[f]
<1> DEFINE Rest == OneCall /\ ChosenFree /\ OpenedTorn /\ AckedDurable
<1> USE BoundAssumption, SentinelAssumption
<1>t. TypeOK /\ TypeOK' /\ Rest
  BY TypeStep DEF SerialInv
<1>a. ASSUME Kept, acked' = acked PROVE AckedDurable'
  <2> SUFFICES ASSUME NEW i \in DOMAIN acked
               PROVE  disk'[<<acked[i].path, acked[i].n>>] = acked[i].payload
    BY <1>a DEF AckedDurable
  <2>1. acked[i] \in Ack
    BY <1>t DEF TypeOK
  <2>2. <<acked[i].path, acked[i].n>> \in Names /\ acked[i].payload \in Payloads
    BY <2>1 DEF Ack, Names
  <2>3. disk[<<acked[i].path, acked[i].n>>] = acked[i].payload
    BY <1>t DEF AckedDurable
  <2> QED  BY <2>2, <2>3, <1>a
<1>1. ASSUME NEW w \in Writers, NEW p \in Paths, Call(w, p) PROVE Rest' /\ Kept
  <2>1. Kept /\ AckedDurable'
    BY <1>1, <1>a DEF Call
  <2>2. OneCall'
    BY <1>1, <1>t DEF Call, TypeOK, OneCall
  <2>3. ChosenFree' /\ OpenedTorn'
    BY <1>1, <1>t DEF Call, TypeOK, ChosenFree, OpenedTorn, File
  <2> QED  BY <2>1, <2>2, <2>3
<1>2. ASSUME NEW w \in Writers, ProbeTaken(w) PROVE Rest' /\ Kept
  <2>1. Kept /\ AckedDurable'
    BY <1>2, <1>a DEF ProbeTaken
  <2>2. OneCall'
    BY <1>2, <1>t DEF ProbeTaken, OneCall
  <2>3. ChosenFree' /\ OpenedTorn'
    BY <1>2, <1>t DEF ProbeTaken, TypeOK, ChosenFree, OpenedTorn, File
  <2> QED  BY <2>1, <2>2, <2>3
<1>3. ASSUME NEW w \in Writers, ProbeFree(w) PROVE Rest' /\ Kept
  <2>1. Kept /\ AckedDurable'
    BY <1>3, <1>a DEF ProbeFree
  <2>2. OneCall'
    BY <1>3, <1>t DEF ProbeFree, TypeOK, OneCall
  <2>3. ChosenFree' /\ OpenedTorn'
    BY <1>3, <1>t DEF ProbeFree, TypeOK, ChosenFree, OpenedTorn, File
  <2> QED  BY <2>1, <2>2, <2>3
<1>4. ASSUME NEW w \in Writers, Open(w) PROVE Rest' /\ Kept
  <2>1. File(w) \in Names /\ disk[File(w)] = Absent
    BY <1>4, <1>t DEF Open, TypeOK, File, Names, ChosenFree
  <2>2. Kept
    BY <1>4, <2>1, <1>t DEF Open, TypeOK
  <2>3. AckedDurable'
    BY <1>4, <2>2, <1>a DEF Open
  <2>4. OneCall'
    BY <1>4, <1>t DEF Open, TypeOK, OneCall
  <2>5. \A v \in Writers : v # w => pc'[v] = "idle"
    BY <1>4, <1>t DEF Open, TypeOK, OneCall
  <2>6. ChosenFree' /\ OpenedTorn'
    BY <1>4, <1>t, <2>1, <2>5 DEF Open, TypeOK, ChosenFree, OpenedTorn, File
  <2> QED  BY <2>2, <2>3, <2>4, <2>6
<1>5. ASSUME NEW w \in Writers, Dump(w) PROVE Rest' /\ Kept
  <2> DEFINE a == [path |-> path[w], n |-> cand[w], payload |-> payload[w]]
  <2>1. File(w) \in Names /\ disk[File(w)] = Torn
    BY <1>5, <1>t DEF Dump, TypeOK, File, Names, OpenedTorn
  <2>2. disk' = [disk EXCEPT ![File(w)] = payload[w]]
    BY <1>5, <1>t DEF Dump, OpenedTorn
  <2>3. Kept /\ disk'[File(w)] = payload[w]
    BY <2>1, <2>2, <1>t DEF TypeOK
  <2>4. \A v \in Writers : pc'[v] = "idle"
    BY <1>5, <1>t DEF Dump, Leave, TypeOK, OneCall
  <2>5. AckedDurable'
    <3> SUFFICES ASSUME NEW i \in DOMAIN acked'
                 PROVE  disk'[<<acked'[i].path, acked'[i].n>>] = acked'[i].payload
      BY DEF AckedDurable
    <3>1. acked' = Append(acked, a) /\ acked \in Seq(Ack) /\ a \in Ack
      BY <1>5, <1>t DEF Dump, TypeOK, Ack
    <3>2. CASE i \in DOMAIN acked
      <4>1. acked'[i] = acked[i] /\ acked[i] \in Ack
        BY <3>1, <3>2
      <4>2. <<acked[i].path, acked[i].n>> \in Names /\ acked[i].payload \in Payloads
        BY <4>1 DEF Ack, Names
      <4>3. disk[<<acked[i].path, acked[i].n>>] = acked[i].payload
        BY <3>2, <1>t DEF AckedDurable
      <4> QED  BY <4>1, <4>2, <4>3, <2>3
    <3>3. CASE i \notin DOMAIN acked
      <4>1. acked'[i] = a
        BY <3>1, <3>3
      <4> QED  BY <4>1, <2>3 DEF File
    <3> QED  BY <3>2, <3>3
  <2>6. OneCall' /\ ChosenFree' /\ OpenedTorn'
    BY <2>4 DEF OneCall, ChosenFree, OpenedTorn
  <2> QED  BY <2>3, <2>5, <2>6
<1>6. ASSUME NEW w \in Writers, Abort(w) PROVE Rest' /\ Kept
  <2>1. Kept /\ AckedDurable'
    BY <1>6, <1>a DEF Abort
  <2>2. \A v \in Writers : pc'[v] = "idle"
    BY <1>6, <1>t DEF Abort, Leave, TypeOK, OneCall
  <2> QED  BY <2>1, <2>2 DEF OneCall, ChosenFree, OpenedTorn
<1>7. ASSUME UNCHANGED vars PROVE Rest' /\ Kept
  <2>1. Kept /\ AckedDurable'
    BY <1>7, <1>a DEF vars
  <2> QED  BY <2>1, <1>7, <1>t DEF vars, OneCall, ChosenFree, OpenedTorn, File
<1>8. ASSUME Next PROVE Rest' /\ Kept
  BY <1>8, <1>1, <1>2, <1>3, <1>4, <1>5, <1>6 DEF Next, Step
<1> QED
  BY <1>t, <1>7, <1>8 DEF SerialInv

(* With serialized writers a path that write_output_safely returned to its *)
(* caller holds the caller's envelope for ever after.                      *)
THEOREM AckedDurableAlways == ASSUME Serialized PROVE Spec => []AckedDurable
<1>1. SerialInv /\ [Next]_vars => SerialInv'
  BY SerialStep
<1>2. SerialInv => AckedDurable
  BY DEF SerialInv
<1> QED
  BY <1>1, <1>2, SerialInit, PTL DEF Spec

(* G20 for serialized writers: no step changes a complete artifact.        *)
THEOREM NeverOverwrittenAlways == ASSUME Serialized PROVE Spec => NeverOverwritten
<1> DEFINE Kept == \A f \in Names : disk[f] \in Payloads => disk'[f] = disk[f]
<1>1. SerialInv /\ [Next]_vars => SerialInv' /\ [Kept]_vars
  BY SerialStep
<1> QED
  BY <1>1, SerialInit, PTL DEF Spec, NeverOverwritten

------------------------------------------------------------------------------
(* The refinement.  Without holes the names of a path that exist are the   *)
(* first ones, so that a path is a log; serialized writers fill the last.  *)

(* A set of natural numbers that is not empty has a least one.             *)
LEMMA LeastNumber ==
  ASSUME NEW S, S \subseteq Nat, S # {}
  PROVE  \E m \in S : \A n \in S : m <= n
<1> DEFINE R == {ss \in Nat \X Nat : ss[1] < ss[2]}
<1>1. PICK m \in S : \A n \in S : ~(<<n, m>> \in R)
  <2>1. IsWellFoundedOn(R, Nat)
    BY LessThanWellFounded
  <2> HIDE DEF R
  <2> QED  BY <2>1, WFMin
<1>2. ASSUME NEW n \in S PROVE m <= n
  <2>1. n \in Nat /\ m \in Nat /\ ~(<<n, m>> \in R)
    BY <1>1
  <2> QED  BY <2>1
<1> QED
  BY <1>2

(* The names of p that exist are those before k.                           *)
Filled(p, k) == \A n \in Suffixes : disk[<<p, n>>] # Absent <=> n < k

(* Without holes a path has such a k.                                      *)
LEMMA CountExists ==
  ASSUME NoHole, NEW p \in Paths
  PROVE  \E k \in 0 .. MaxCalls + 1 : Filled(p, k)
<1> DEFINE Free == {n \in Suffixes : disk[<<p, n>>] = Absent}
<1> USE BoundAssumption DEF Suffixes
<1>1. CASE Free = {}
  <2>1. Filled(p, MaxCalls + 1)
    BY <1>1 DEF Filled
  <2> QED  BY <2>1
<1>2. CASE Free # {}
  <2>1. PICK k \in Free : \A n \in Free : k <= n
    <3>1. Free \subseteq Nat
      OBVIOUS
    <3> HIDE DEF Free
    <3> QED  BY <1>2, <3>1, LeastNumber
  <2> DEFINE Beyond == {n \in Suffixes : n > k /\ disk[<<p, n>>] # Absent}
  <2>2. Beyond = {}
    <3> SUFFICES ASSUME Beyond # {} PROVE FALSE
      OBVIOUS
    <3>1. PICK m \in Beyond : \A n \in Beyond : m <= n
      <4>1. Beyond \subseteq Nat
        OBVIOUS
      <4> HIDE DEF Beyond
      <4> QED  BY <4>1, LeastNumber
    <3>2. m \in 1 .. MaxCalls /\ disk[<<p, m - 1>>] # Absent
      BY <3>1 DEF NoHole
    <3>3. m - 1 \in Suffixes /\ m - 1 >= k /\ m - 1 # k /\ m - 1 < m
      BY <3>1, <3>2
    <3>4. m - 1 \in Beyond
      BY <3>2, <3>3
    <3> QED  BY <3>1, <3>3, <3>4
  <2>3. Filled(p, k)
    BY <2>1, <2>2 DEF Filled
  <2> QED  BY <2>1, <2>3
<1> QED
  BY <1>1, <1>2

(* A path has one such k, before a step and after it.                      *)
LEMMA CountUnique ==
  ASSUME NEW D, NEW p, NEW i \in 0 .. MaxCalls + 1, NEW j \in 0 .. MaxCalls + 1,
         \A n \in Suffixes : D[<<p, n>>] # Absent <=> n < i,
         \A n \in Suffixes : D[<<p, n>>] # Absent <=> n < j
  PROVE  i = j
<1> USE BoundAssumption DEF Suffixes
<1>1. ASSUME i < j PROVE FALSE
  <2>1. i \in Suffixes
    BY <1>1
  <2>2. D[<<p, i>>] # Absent <=> i < i
    BY <2>1
  <2>3. D[<<p, i>>] # Absent <=> i < j
    BY <2>1
  <2> QED  BY <1>1, <2>2, <2>3
<1>2. ASSUME j < i PROVE FALSE
  <2>1. j \in Suffixes
    BY <1>2
  <2>2. D[<<p, j>>] # Absent <=> j < j
    BY <2>1
  <2>3. D[<<p, j>>] # Absent <=> j < i
    BY <2>1
  <2> QED  BY <1>2, <2>2, <2>3
<1> QED
  BY <1>1, <1>2

(* The count of a path is the k that its names bear out.                   *)
LEMMA CountIs ==
  ASSUME NEW p \in Paths, NEW k \in 0 .. MaxCalls + 1
  PROVE  /\ Filled(p, k) => Count(p) = k
         /\ Filled(p, k)' => Count(p)' = k
<1>1. ASSUME Filled(p, k) PROVE Count(p) = k
  <2>1. \A j \in 0 .. MaxCalls + 1 :
           (\A n \in Suffixes : disk[<<p, n>>] # Absent <=> n < j) => j = k
    BY <1>1, CountUnique DEF Filled
  <2> QED  BY <1>1, <2>1 DEF Count, Filled
<1>2. ASSUME Filled(p, k)' PROVE Count(p)' = k
  <2>1. \A j \in 0 .. MaxCalls + 1 :
           (\A n \in Suffixes : disk'[<<p, n>>] # Absent <=> n < j) => j = k
    BY <1>2, CountUnique DEF Filled
  <2> QED  BY <1>2, <2>1 DEF Count, Filled
<1> QED
  BY <1>1, <1>2

(* What a writer whose name is open still knows: it is the last one.       *)
LastOne == \A w \in Writers : pc[w] = "dump" => Filled(path[w], cand[w] + 1)

LogInv == HoleInv /\ SerialInv /\ LastOne

(* A step that creates or changes no file maps to a stutter.               *)
LEMMA SameFilesSameLog ==
  ASSUME disk' = disk PROVE Versions' = Versions
<1>1. ASSUME NEW p \in Paths PROVE Count(p)' = Count(p)
  BY DEF Count
<1> QED
  BY <1>1 DEF Versions

(* A step that leaves the names of a path alone leaves its log alone.      *)
LEMMA OtherPathsSame ==
  ASSUME NoHole, NEW p \in Paths, NEW f \in Names, f[1] # p, NEW c,
         \A g \in Names : disk'[g] = IF g = f THEN c ELSE disk[g]
  PROVE  Versions'[p] = Versions[p]
<1>1. \A n \in Suffixes : disk'[<<p, n>>] = disk[<<p, n>>]
  BY DEF Names
<1>2. Count(p)' = Count(p)
  BY <1>1 DEF Count
<1>3. Count(p) \in 0 .. MaxCalls + 1
  BY CountExists, CountIs
<1>4. \A i \in 1 .. Count(p) : i - 1 \in Suffixes
  BY <1>3, BoundAssumption DEF Suffixes
<1>5. Versions[p] = [i \in 1 .. Count(p) |-> disk[<<p, i - 1>>]]
  BY DEF Versions
<1>6. Versions'[p] = [i \in 1 .. Count(p)' |-> disk'[<<p, i - 1>>]]
  BY DEF Versions
<1> QED
  BY <1>1, <1>2, <1>4, <1>5, <1>6

(* A function on 1 .. n is a sequence.                                     *)
LEMMA FunctionIsSequence ==
  ASSUME NEW S, NEW n \in Nat, NEW f \in [1 .. n -> S]
  PROVE  f \in Seq(S) /\ Len(f) = n
  OBVIOUS

(* Open appends an incomplete version to its path.                         *)
LEMMA OpenStarts ==
  ASSUME LogInv, NEW w \in Writers, Open(w)
  PROVE  Log!Start(path[w]) /\ Filled(path[w], cand[w] + 1)'
<1>0. PICK q \in Paths, k \in Suffixes : q = path[w] /\ k = cand[w]
  BY DEF LogInv, HoleInv, TypeOK, Open
<1>1. TypeOK /\ NoHole /\ Probed /\ disk[<<q, k>>] = Absent
  BY <1>0 DEF LogInv, HoleInv, SerialInv, Open, ChosenFree, File
<1>2. disk' = [disk EXCEPT ![<<q, k>>] = Torn] /\ <<q, k>> \in Names
  BY <1>0 DEF Open, File, Names
<1>3. \A f \in Names : disk'[f] = IF f = <<q, k>> THEN Torn ELSE disk[f]
  BY <1>1, <1>2 DEF TypeOK
<1>4. PICK c \in 0 .. MaxCalls + 1 : Filled(q, c)
  BY <1>1, CountExists
<1>5. c = k
  <2>1. ~(k < c)
    BY <1>1, <1>4 DEF Filled
  <2>2. ~(c < k)
    <3> SUFFICES ASSUME c < k PROVE FALSE
      OBVIOUS
    <3>1. c \in Suffixes
      BY <1>1, BoundAssumption DEF Suffixes
    <3>2. disk[<<q, c>>] # Absent
      BY <1>0, <1>1, <3>1 DEF Probed, Open
    <3> QED  BY <1>4, <3>1, <3>2 DEF Filled
  <2> QED  BY <1>1, <2>1, <2>2, BoundAssumption DEF Suffixes
<1>6. Filled(q, k + 1)'
  <2> SUFFICES ASSUME NEW n \in Suffixes PROVE disk'[<<q, n>>] # Absent <=> n < k + 1
    BY DEF Filled
  <2>1. <<q, n>> \in Names /\ n \in Nat /\ k \in Nat
    BY <1>1, BoundAssumption DEF Names, Suffixes
  <2>2. CASE n = k
    BY <1>3, <2>1, <2>2, SentinelAssumption
  <2>3. CASE n # k
    <3>1. disk'[<<q, n>>] = disk[<<q, n>>]
      BY <1>3, <2>1, <2>3
    <3> QED  BY <1>4, <1>5, <2>1, <2>3, <3>1 DEF Filled
  <2> QED  BY <2>2, <2>3
<1>7. Count(q) = k /\ Count(q)' = k + 1
  <2>1. k \in 0 .. MaxCalls + 1 /\ k + 1 \in 0 .. MaxCalls + 1
    BY <1>1, BoundAssumption DEF Suffixes
  <2>2. Count(q) = k
    BY <1>1, <1>4, <1>5, CountIs
  <2>3. Count(q)' = k + 1
    BY <1>6, <2>1, CountIs
  <2> QED  BY <2>2, <2>3
<1>8. ASSUME NEW p \in Paths, p # q PROVE Versions'[p] = Versions[p]
  BY <1>1, <1>2, <1>3, <1>8, OtherPathsSame
<1>9. Versions'[q] = Append(Versions[q], Torn)
  <2>1. Versions[q] = [i \in 1 .. k |-> disk[<<q, i - 1>>]]
    BY <1>1, <1>7 DEF Versions
  <2>2. Versions'[q] = [i \in 1 .. k + 1 |-> disk'[<<q, i - 1>>]]
    BY <1>1, <1>7 DEF Versions
  <2>3. k \in Nat
    BY <1>1, BoundAssumption DEF Suffixes
  <2>4. \A i \in 1 .. k + 1 :
           disk'[<<q, i - 1>>] = IF i = k + 1 THEN Torn ELSE disk[<<q, i - 1>>]
    <3> SUFFICES ASSUME NEW i \in 1 .. k + 1
                 PROVE  disk'[<<q, i - 1>>] = IF i = k + 1 THEN Torn ELSE disk[<<q, i - 1>>]
      OBVIOUS
    <3>1. <<q, i - 1>> \in Names /\ (i - 1 = k <=> i = k + 1)
      BY <1>1, <2>3, BoundAssumption DEF Names, Suffixes
    <3> QED  BY <1>3, <3>1
  <2>5. Versions[q] \in Seq(Content) /\ Len(Versions[q]) = k
    <3>1. \A i \in 1 .. k : disk[<<q, i - 1>>] \in Content
      BY <1>1, BoundAssumption DEF TypeOK, Names, Suffixes
    <3>2. Versions[q] \in [1 .. k -> Content]
      BY <2>1, <3>1
    <3> QED  BY <2>3, <3>2, FunctionIsSequence
  <2>6. Append(Versions[q], Torn) = [i \in 1 .. k + 1 |-> IF i = k + 1 THEN Torn ELSE Versions[q][i]]
    BY <2>3, <2>5
  <2>7. \A i \in 1 .. k + 1 : i # k + 1 => Versions[q][i] = disk[<<q, i - 1>>]
    BY <2>1, <2>3
  <2> QED  BY <2>2, <2>4, <2>6, <2>7
<1>10. Versions' = [Versions EXCEPT ![q] = Append(@, Torn)]
  <2>1. Versions = [p \in Paths |-> Versions[p]] /\ Versions' = [p \in Paths |-> Versions'[p]]
    BY DEF Versions
  <2> QED  BY <1>8, <1>9, <2>1
<1>11. Filled(path[w], cand[w] + 1)'
  BY <1>0, <1>6 DEF Open
<1> QED
  BY <1>0, <1>10, <1>11 DEF Log!Start

(* Dump seals the last version of its path.                                *)
LEMMA DumpSeals ==
  ASSUME Serialized, LogInv, NEW w \in Writers, Dump(w)
  PROVE  \E d \in Payloads : Log!Seal(path[w], d)
<1>0. PICK q \in Paths, k \in Suffixes, d \in Payloads :
         q = path[w] /\ k = cand[w] /\ d = payload[w]
  BY DEF LogInv, HoleInv, TypeOK, Dump
<1>1. TypeOK /\ NoHole /\ Filled(q, k + 1) /\ disk[<<q, k>>] = Torn
  BY <1>0 DEF LogInv, HoleInv, SerialInv, LastOne, Dump, OpenedTorn, File
<1>2. disk' = [disk EXCEPT ![<<q, k>>] = d] /\ <<q, k>> \in Names
  BY <1>0 DEF Dump, File, Names, LogInv, SerialInv, OpenedTorn
<1>3. \A f \in Names : disk'[f] = IF f = <<q, k>> THEN d ELSE disk[f]
  BY <1>1, <1>2 DEF TypeOK
<1>4. Filled(q, k + 1)'
  <2> SUFFICES ASSUME NEW n \in Suffixes PROVE disk'[<<q, n>>] # Absent <=> n < k + 1
    BY DEF Filled
  <2>1. <<q, n>> \in Names /\ d # Absent /\ Torn # Absent
    BY SentinelAssumption DEF Names
  <2> QED  BY <1>1, <1>3, <2>1 DEF Filled
<1>5. Count(q) = k + 1 /\ Count(q)' = k + 1 /\ k \in Nat
  BY <1>1, <1>4, CountIs, BoundAssumption DEF Suffixes
<1>6. ASSUME NEW p \in Paths, p # q PROVE Versions'[p] = Versions[p]
  BY <1>1, <1>2, <1>3, <1>6, OtherPathsSame
<1>7. Versions[q] = [i \in 1 .. k + 1 |-> disk[<<q, i - 1>>]]
      /\ Versions'[q] = [i \in 1 .. k + 1 |-> disk'[<<q, i - 1>>]]
  BY <1>5 DEF Versions
<1>8. \A i \in 1 .. k + 1 : disk'[<<q, i - 1>>] = IF i = k + 1 THEN d ELSE disk[<<q, i - 1>>]
  <2> SUFFICES ASSUME NEW i \in 1 .. k + 1
               PROVE  disk'[<<q, i - 1>>] = IF i = k + 1 THEN d ELSE disk[<<q, i - 1>>]
    OBVIOUS
  <2>1. <<q, i - 1>> \in Names /\ (i - 1 = k <=> i = k + 1)
    BY <1>5, BoundAssumption DEF Names, Suffixes
  <2> QED  BY <1>3, <2>1
<1>9. Versions'[q] = [Versions[q] EXCEPT ![k + 1] = d]
  <2>1. [Versions[q] EXCEPT ![k + 1] = d] =
           [i \in 1 .. k + 1 |-> IF i = k + 1 THEN d ELSE disk[<<q, i - 1>>]]
    BY <1>7
  <2> QED  BY <1>7, <1>8, <2>1
<1>10. Versions' = [Versions EXCEPT ![q] = [Versions[q] EXCEPT ![k + 1] = d]]
  <2>1. Versions = [p \in Paths |-> Versions[p]] /\ Versions' = [p \in Paths |-> Versions'[p]]
    BY DEF Versions
  <2> QED  BY <1>6, <1>9, <2>1
<1>11. Len(Versions[q]) = k + 1 /\ Versions[q] # << >> /\ Versions[q][k + 1] = Torn
  <2>1. \A i \in 1 .. k + 1 : disk[<<q, i - 1>>] \in Content
    BY <1>1, <1>5, BoundAssumption DEF TypeOK, Names, Suffixes
  <2>2. Versions[q] \in Seq(Content) /\ Len(Versions[q]) = k + 1
    <3>1. Versions[q] \in [1 .. k + 1 -> Content]
      BY <1>7, <2>1
    <3> QED  BY <1>5, <3>1, FunctionIsSequence
  <2>3. Versions[q][k + 1] = disk[<<q, k>>]
    BY <1>5, <1>7
  <2> QED  BY <1>1, <1>5, <2>2, <2>3
<1> QED
  BY <1>0, <1>10, <1>11 DEF Log!Seal

(* Every step of serialized writers maps to a step or a stutter.           *)
LEMMA LogStep ==
  ASSUME Serialized, LogInv, [Next]_vars
  PROVE  LogInv' /\ [Log!Next]_Versions
<1>1. HoleInv' /\ SerialInv'
  BY HoleStep, SerialStep DEF LogInv
<1>2. ASSUME disk' = disk, \A v \in Writers : pc'[v] = "dump" =>
                pc[v] = "dump" /\ path'[v] = path[v] /\ cand'[v] = cand[v]
      PROVE  LastOne' /\ Versions' = Versions
  BY <1>2, SameFilesSameLog DEF LogInv, LastOne, Filled
<1>3. TypeOK
  BY DEF LogInv, HoleInv
<1>4. ASSUME NEW w \in Writers, \E p \in Paths : Call(w, p) PROVE LastOne' /\ Versions' = Versions
  BY <1>2, <1>3, <1>4 DEF Call, TypeOK
<1>5. ASSUME NEW w \in Writers, ProbeTaken(w) \/ ProbeFree(w) \/ Abort(w)
      PROVE  LastOne' /\ Versions' = Versions
  BY <1>2, <1>3, <1>5 DEF ProbeTaken, ProbeFree, Abort, Leave, TypeOK
<1>6. ASSUME NEW w \in Writers, Open(w) PROVE LastOne' /\ Log!Next
  <2>1. Log!Start(path[w]) /\ Filled(path[w], cand[w] + 1)' /\ path[w] \in Paths
    BY <1>3, <1>6, OpenStarts DEF TypeOK, Open
  <2>2. \A v \in Writers : v # w => pc'[v] # "dump"
    BY <1>3, <1>6 DEF LogInv, SerialInv, OneCall, Open, TypeOK
  <2>3. LastOne'
    BY <2>1, <2>2 DEF LastOne
  <2> QED  BY <2>1, <2>3 DEF Log!Next
<1>7. ASSUME NEW w \in Writers, Dump(w) PROVE LastOne' /\ Log!Next
  <2>1. \E d \in Payloads : Log!Seal(path[w], d) /\ path[w] \in Paths
    BY <1>3, <1>7, DumpSeals DEF TypeOK, Dump
  <2>2. \A v \in Writers : pc'[v] # "dump"
    BY <1>3, <1>7 DEF LogInv, SerialInv, OneCall, Dump, Leave, TypeOK
  <2> QED  BY <2>1, <2>2 DEF Log!Next, LastOne
<1>8. CASE UNCHANGED vars
  BY <1>1, <1>2, <1>8 DEF vars, LogInv
<1> QED
  BY <1>1, <1>4, <1>5, <1>6, <1>7, <1>8 DEF LogInv, Next, Step

(* Serialized writers implement the log of versions: what a reader of the  *)
(* trail sees of a path only grows, and only its last version is sealed.   *)
THEOREM RefinesLogAlways == ASSUME Serialized PROVE Spec => RefinesLog
<1>1. Init => LogInv
  <2> SUFFICES ASSUME Init PROVE LogInv
    OBVIOUS
  <2>1. NoHole /\ Probed /\ LastOne
    BY BoundAssumption DEF Init, NoHole, Names, Suffixes, Probed, LastOne
  <2> QED  BY TypeInit, SerialInit, <2>1 DEF HoleInv, LogInv
<1>2. Init => Log!Init
  <2> SUFFICES ASSUME Init PROVE Versions = [p \in Paths |-> << >>]
    BY DEF Log!Init
  <2>1. ASSUME NEW p \in Paths PROVE Count(p) = 0
    <3>1. Filled(p, 0)
      BY BoundAssumption DEF Init, Filled, Names, Suffixes
    <3> QED  BY <3>1, CountIs, BoundAssumption
  <2> QED  BY <2>1 DEF Versions
<1>3. LogInv /\ [Next]_vars => LogInv' /\ [Log!Next]_Versions
  BY LogStep
<1> QED
  BY <1>1, <1>2, <1>3, PTL DEF Spec, RefinesLog, Log!Spec
------------------------------------------------------------------------------
(* What kind, scope and date a retention rule compares.                    *)
Sibling(c, d) == c.kind = d.kind /\ c.scope = d.scope

(* A name with a copy that the plan under way does not take.               *)
Safe(c) == \E n \in Gc!Suffixes : files[<<c, n>>] # Gc!NoWrite /\ <<c, n>> \notin todo

(* While files are deleted, permanent names are safe, and of a snapshot a  *)
(* date that is not earlier is.                                            *)
Guarded ==
    \A c \in Gc!Present : Gc!Sound(c) =>
        /\ Gc!Class(c) = "permanent" => Safe(c)
        /\ Gc!Class(c) = "snapshot" =>
              \E d \in Gc!Canonicals : Sibling(c, d) /\ d.date >= c.date /\ Safe(d)

GcInv ==
    /\ files \in [Gc!Names -> Nat] /\ writes \in Nat
    /\ phase \in {"idle", "delete", "rename"}
    /\ phase = "delete" => Guarded /\ todo \subseteq Gc!Files
    /\ phase = "rename" => todo = {}
    /\ \A f \in renames : f \in Gc!Names /\ f[2] > 0

(* No permanent or snapshot kind of the registry has an exact name.        *)
LEMMA KindsOfEvidence ==
  \A k \in Gc!Registered :
     Gc!Registry[k].class \in {"permanent", "snapshot"} => Gc!Registry[k].exact = FALSE
  BY DEF Gc!Registered, Gc!Registry, Gc!Entry

(* A canonical name is its kind, scope and date.                           *)
LEMMA CanonicalRecords ==
  ASSUME NEW c \in Gc!Canonicals, NEW d \in Gc!Canonicals, Sibling(c, d), c.date = d.date
  PROVE  c = d
<1>1. PICK k \in Kinds : c \in [kind : {k}, scope : IF Gc!Scoped(k) THEN Tickers \cup BadTickers ELSE {Gc!NoScope},
                                date : IF Gc!Dated(k) THEN Gc!Dates ELSE {Gc!NoDate}]
  BY DEF Gc!Canonicals
<1>2. PICK l \in Kinds : d \in [kind : {l}, scope : IF Gc!Scoped(l) THEN Tickers \cup BadTickers ELSE {Gc!NoScope},
                                date : IF Gc!Dated(l) THEN Gc!Dates ELSE {Gc!NoDate}]
  BY DEF Gc!Canonicals
<1> HIDE DEF Gc!Canonicals
<1>3. k = l
  BY <1>1, <1>2 DEF Sibling
<1> QED
  BY <1>1, <1>2, <1>3 DEF Sibling

(* The date of a name, 0 if it has none, is a number.                      *)
LEMMA CanonicalDate ==
  ASSUME NEW c \in Gc!Canonicals, MaxDate \in Nat PROVE c.date \in Nat
  BY DEF Gc!Canonicals, Gc!Dates, Gc!NoDate

(* A set of numbers under a bound that is not empty has a greatest one.    *)
LEMMA BoundedMax ==
  ASSUME NEW L \in Nat, NEW V, V \subseteq 0 .. L, V # {}
  PROVE  \E x \in V : \A y \in V : x >= y
<1> DEFINE W == {v + 1 : v \in V}
           f == [w \in W |-> w]
<1>0. \A v \in V : v \in Nat /\ v <= L
  OBVIOUS
<1>1. W \subseteq 1 .. L + 1 /\ W # {} /\ L + 1 \in Nat
  <2>1. \A v \in V : v + 1 \in 1 .. L + 1
    BY <1>0
  <2>2. W # {}
    OBVIOUS
  <2> QED BY <2>1, <2>2
<1>5. \A w \in W : w \in Nat /\ f[w] = w
  BY <1>0
<1>6. \A w \in W : f[w] \in Nat
  BY <1>5
<1>2. PICK x \in W : \A y \in W : f[y] <= f[x]
  <2> HIDE DEF W, f
  <2> QED BY <1>1, <1>6, ArgMaxExists
<1>3. PICK v \in V : x = v + 1
  BY <1>2
<1>4. ASSUME NEW y \in V PROVE v >= y
  <2>1. y + 1 \in W
    OBVIOUS
  <2>2. y + 1 <= v + 1
    <3> HIDE DEF W, f
    <3> QED BY <1>2, <1>3, <1>5, <2>1
  <2> QED BY <1>0, <2>2
<1> QED
  BY <1>4

(* The copy that a plan keeps of a name is one of its files.               *)
LEMMA WinnerIsThere ==
  ASSUME MaxWrites \in Nat, NEW c \in Gc!Canonicals, files \in [Gc!Names -> Nat],
         c \in Gc!Present
  PROVE  Gc!Winner(c) \in Gc!Suffixes /\ files[<<c, Gc!Winner(c)>>] # Gc!NoWrite
<1>1. Gc!Of(c) # {} /\ Gc!Of(c) \subseteq 0 .. MaxWrites
  BY DEF Gc!Present, Gc!Files, Gc!Of, Gc!Names, Gc!Suffixes
<1>2. \E x \in Gc!Of(c) : \A y \in Gc!Of(c) : x >= y
  BY <1>1, BoundedMax
<1>3. Gc!Winner(c) \in Gc!Of(c)
  BY <1>2 DEF Gc!Winner, Gc!Max
<1> QED
  BY <1>3 DEF Gc!Of

(* The planner takes every evidence name for a candidate and rules on it.  *)
LEMMA EvidenceIsCandidate ==
  ASSUME NEW c \in Gc!Present, Gc!Sound(c), Gc!Class(c) \in {"permanent", "snapshot"}
  PROVE  c \in Gc!Survivors
<1>1. c.kind \in Gc!Registered /\ ~Gc!Exact(c.kind)
  BY KindsOfEvidence DEF Gc!Sound, Gc!Class, Gc!Exact
<1>2. \A n : Gc!Verdict(c, n) = "candidate"
  BY <1>1 DEF Gc!Verdict, Gc!Sound, Gc!ProducerExists
<1> QED
  BY <1>2 DEF Gc!Survivors

(* A plan leaves a copy of permanent names and of the newest snapshots.    *)
LEMMA ScanGuards ==
  ASSUME GcInv, Gc!BoundsAssumption, NEW cutoff, Gc!Scan(cutoff)
  PROVE  Guarded'
<1>1. files' = files /\ todo' = Gc!PlanDelete(cutoff)
  BY DEF Gc!Scan
<1>2. files \in [Gc!Names -> Nat] /\ MaxWrites \in Nat /\ MaxDate \in Nat
  BY DEF GcInv, Gc!BoundsAssumption
<1>3. Gc!Present \subseteq Gc!Canonicals
  BY <1>2 DEF Gc!Present, Gc!Files, Gc!Names
<1>4. ASSUME NEW c \in Gc!Present, c \in Gc!Kept(cutoff)
      PROVE  Safe(c)'
  <2>1. Gc!Winner(c) \in Gc!Suffixes /\ files[<<c, Gc!Winner(c)>>] # Gc!NoWrite
    BY <1>2, <1>3, <1>4, WinnerIsThere
  <2>2. <<c, Gc!Winner(c)>> \notin Gc!PlanDelete(cutoff)
    BY <1>4 DEF Gc!PlanDelete
  <2> QED
    BY <1>1, <2>1, <2>2 DEF Safe
<1>5. ASSUME NEW c \in Gc!Present, Gc!Sound(c), Gc!Class(c) = "permanent"
      PROVE  Safe(c)'
  <2>1. c \in Gc!Survivors
    BY <1>5, EvidenceIsCandidate
  <2>2. c \in Gc!Kept(cutoff)
    BY <1>5, <2>1 DEF Gc!Kept, Gc!Superseded, Gc!AgedOut
  <2> QED
    BY <1>4, <2>2
<1>6. ASSUME NEW c \in Gc!Present, Gc!Sound(c), Gc!Class(c) = "snapshot"
      PROVE  \E d \in Gc!Canonicals : Sibling(c, d) /\ d.date >= c.date /\ Safe(d)'
  <2> DEFINE Dated == {d.date : d \in {e \in Gc!Present : Sibling(c, e)}}
  <2>1. Dated \subseteq 0 .. MaxDate /\ c.date \in Dated
    <3>1. \A d \in Gc!Canonicals : d.date \in 0 .. MaxDate
      BY <1>2 DEF Gc!Canonicals, Gc!Dates, Gc!NoDate
    <3> QED
      BY <1>3, <3>1 DEF Sibling
  <2>2. PICK last \in Dated : \A e \in Dated : last >= e
    <3> HIDE DEF Dated
    <3> QED BY <1>2, <2>1, BoundedMax
  <2>3. PICK d \in Gc!Present : Sibling(c, d) /\ d.date = last
    BY <2>2
  <2>4. d \in Gc!Survivors
    BY <1>6, <2>3, EvidenceIsCandidate DEF Sibling, Gc!Sound, Gc!Class
  <2>8. \A x \in Dated : x \in Nat
    <3> HIDE DEF Dated
    <3> QED BY <1>2, <2>1
  <2>5. d \notin Gc!Superseded
    <3>1. ASSUME NEW e \in Gc!Survivors, Sibling(d, e), e.date > d.date PROVE FALSE
      <4>1. e \in Gc!Present /\ Sibling(c, e)
        BY <2>3, <3>1 DEF Sibling, Gc!Survivors
      <4>2. e.date \in Dated
        BY <4>1
      <4> HIDE DEF Dated
      <4>3. e.date \in Nat /\ d.date \in Nat
        BY <2>2, <2>3, <2>8, <4>2
      <4> QED
        BY <2>2, <2>3, <3>1, <4>2, <4>3
    <3> QED
      BY <3>1 DEF Gc!Superseded, Sibling
  <2>6. d \in Gc!Kept(cutoff)
    BY <1>6, <2>3, <2>4, <2>5 DEF Gc!Kept, Gc!AgedOut, Gc!Class, Sibling
  <2>7. d.date >= c.date
    BY <2>1, <2>2, <2>3
  <2> QED
    BY <1>3, <1>4, <2>3, <2>6, <2>7
<1>7. Gc!Present' = Gc!Present
  BY <1>1 DEF Gc!Present, Gc!Files
<1> QED
  BY <1>5, <1>6, <1>7 DEF Guarded

(* A name is present when one of its copies is.                            *)
LEMMA NamesOfCanonicals ==
  ASSUME files \in [Gc!Names -> Nat]
  PROVE  \A c : c \in Gc!Present <=>
            c \in Gc!Canonicals /\ \E n \in Gc!Suffixes : files[<<c, n>>] # Gc!NoWrite
<1> SUFFICES ASSUME NEW c
             PROVE  c \in Gc!Present <=>
                      c \in Gc!Canonicals /\ \E n \in Gc!Suffixes : files[<<c, n>>] # Gc!NoWrite
  OBVIOUS
<1>1. ASSUME c \in Gc!Present
      PROVE  c \in Gc!Canonicals /\ \E n \in Gc!Suffixes : files[<<c, n>>] # Gc!NoWrite
  <2>1. PICK f \in Gc!Names : files[f] # Gc!NoWrite /\ f[1] = c
    BY <1>1 DEF Gc!Present, Gc!Files
  <2>2. f = <<c, f[2]>> /\ c \in Gc!Canonicals /\ f[2] \in Gc!Suffixes
    BY <2>1 DEF Gc!Names
  <2> QED
    BY <2>1, <2>2
<1>2. ASSUME c \in Gc!Canonicals, NEW n \in Gc!Suffixes, files[<<c, n>>] # Gc!NoWrite
      PROVE  c \in Gc!Present
  <2>1. <<c, n>> \in Gc!Files
    BY <1>2 DEF Gc!Files, Gc!Names
  <2> QED
    BY <2>1 DEF Gc!Present
<1> QED
  BY <1>1, <1>2

(* While a plan is carried out, evidence has a copy that it does not take. *)
LEMMA EvidenceIsSafe ==
  ASSUME GcInv, phase = "delete", Gc!BoundsAssumption, NEW c \in Gc!Evidence
  PROVE  Safe(c)
<1>1. c \in Gc!Present /\ Gc!Sound(c) /\ c \in Gc!Canonicals
  BY NamesOfCanonicals DEF GcInv, Gc!Evidence
<1>2. CASE Gc!Class(c) = "permanent"
  BY <1>1, <1>2 DEF GcInv, Guarded
<1>3. CASE Gc!Class(c) = "snapshot" /\ \A d \in Gc!Present : Sibling(c, d) => d.date <= c.date
  <2>1. PICK d \in Gc!Canonicals : Sibling(c, d) /\ d.date >= c.date /\ Safe(d)
    BY <1>1, <1>3 DEF GcInv, Guarded
  <2>2. d \in Gc!Present
    BY <2>1, NamesOfCanonicals DEF GcInv, Safe
  <2>3. c.date \in Nat /\ d.date \in Nat
    BY <1>1, CanonicalDate DEF Gc!BoundsAssumption
  <2>4. d = c
    BY <1>1, <1>3, <2>1, <2>2, <2>3, CanonicalRecords
  <2> QED
    BY <2>1, <2>4
<1> QED
  BY <1>2, <1>3 DEF Gc!Evidence, Sibling

(* A write beside the GC takes a free name, which no plan holds.           *)
LEMMA BeginWriteKeeps ==
  ASSUME GcInv, Gc!BoundsAssumption, NEW c \in Gc!Canonicals, Gc!BeginWrite(c)
  PROVE  GcInv' /\ Gc!Evidence \subseteq Gc!Present'
<1> DEFINE n == Gc!Min(Gc!Suffixes \ Gc!Of(c))
<1>1. files' = [files EXCEPT ![<<c, n>>] = writes + 1]
  BY DEF Gc!BeginWrite
<1> HIDE DEF n
<1>2. files \in [Gc!Names -> Nat] /\ writes \in Nat /\ writes' \in Nat /\ writes + 1 # 0 /\ writes + 1 \in Nat
  BY DEF GcInv, Gc!BeginWrite
<1>3. files' \in [Gc!Names -> Nat]
  BY <1>1, <1>2
<1>4. \A f \in Gc!Names : files[f] # 0 => files'[f] # 0
  BY <1>1, <1>2
<1>5. \A f \in Gc!Names : f # <<c, n>> => files'[f] = files[f]
  BY <1>1, <1>2
<1>6. Gc!Present \subseteq Gc!Present' /\ Gc!Files \subseteq Gc!Files'
  BY <1>2, <1>3, <1>4 DEF Gc!Present, Gc!Files, Gc!NoWrite
<1>7. todo' = todo /\ phase' = phase /\ renames' = renames
  BY DEF Gc!BeginWrite
<1>8. ASSUME NEW d \in Gc!Canonicals, Safe(d) PROVE Safe(d)'
  BY <1>4, <1>7, <1>8 DEF Safe, Gc!NoWrite, Gc!Names
<1>9. ASSUME c \notin Gc!Present, phase = "delete" PROVE Safe(c)'
  <2>1. \A m \in Gc!Suffixes : files[<<c, m>>] = 0
    BY <1>2, <1>9, NamesOfCanonicals DEF Gc!NoWrite
  <2>2. Gc!Of(c) = {} /\ 0 \in Gc!Suffixes
    BY <2>1 DEF Gc!Of, Gc!NoWrite, Gc!Suffixes, Gc!BoundsAssumption
  <2>3. n \in Gc!Suffixes
    BY <2>2 DEF n, Gc!Min, Gc!Suffixes
  <2>4. <<c, n>> \in Gc!Names
    BY <2>3 DEF Gc!Names
  <2>5. <<c, n>> \notin todo
    BY <1>9, <2>1, <2>3 DEF GcInv, Gc!Files, Gc!NoWrite
  <2>6. files'[<<c, n>>] = writes + 1
    BY <1>1, <1>2, <2>4
  <2> QED
    BY <1>2, <1>7, <2>3, <2>5, <2>6 DEF Safe, Gc!NoWrite
<1>10. ASSUME NEW d \in Gc!Present', d \notin Gc!Present PROVE d = c
  <2>1. PICK m \in Gc!Suffixes : files'[<<d, m>>] # 0 /\ d \in Gc!Canonicals
    BY <1>3, <1>10 DEF Gc!Present, Gc!Files, Gc!Names, Gc!NoWrite
  <2>2. files[<<d, m>>] = 0
    BY <1>2, <1>10, <2>1, NamesOfCanonicals DEF Gc!NoWrite
  <2> QED
    BY <1>5, <2>1, <2>2 DEF Gc!Names
<1>11. phase' = "delete" => Guarded'
  <2> SUFFICES ASSUME phase = "delete", NEW d \in Gc!Present', Gc!Sound(d)
               PROVE  /\ Gc!Class(d) = "permanent" => Safe(d)'
                      /\ Gc!Class(d) = "snapshot" =>
                           \E e \in Gc!Canonicals : Sibling(d, e) /\ e.date >= d.date /\ Safe(e)'
    BY <1>7 DEF Guarded
  <2>1. CASE d \in Gc!Present
    <3>1. d \in Gc!Canonicals
      BY <1>2, <2>1, NamesOfCanonicals
    <3> QED
      BY <1>8, <2>1, <3>1 DEF GcInv, Guarded
  <2>2. CASE d \notin Gc!Present
    <3>1. d = c /\ Safe(c)'
      BY <1>9, <1>10, <2>2
    <3>2. c.date >= c.date
      BY CanonicalDate DEF Gc!BoundsAssumption
    <3> QED
      BY <3>1, <3>2 DEF Sibling
  <2> QED
    BY <2>1, <2>2
<1>12. GcInv'
  BY <1>2, <1>3, <1>6, <1>7, <1>11 DEF GcInv
<1> QED
  BY <1>6, <1>12 DEF Gc!Evidence

(* An unlink takes a file of the plan, never the last copy of evidence.    *)
LEMMA DeleteKeeps ==
  ASSUME GcInv, Gc!BoundsAssumption, NEW f \in todo, Gc!Delete(f)
  PROVE  GcInv' /\ Gc!Evidence \subseteq Gc!Present'
<1>1. /\ phase = "delete" /\ phase' = "delete" /\ writes' = writes /\ renames' = renames
      /\ files' = [files EXCEPT ![f] = 0] /\ todo' = todo \ {f}
  BY DEF Gc!Delete, Gc!NoWrite
<1>2. files \in [Gc!Names -> Nat] /\ files' \in [Gc!Names -> Nat] /\ Guarded /\ todo \subseteq Gc!Files
  BY <1>1 DEF GcInv
<1>3. ASSUME NEW d \in Gc!Canonicals, Safe(d) PROVE Safe(d)'
  BY <1>1, <1>2, <1>3 DEF Safe, Gc!Names, Gc!NoWrite
<1>4. Gc!Present' \subseteq Gc!Present
  BY <1>1, <1>2 DEF Gc!Present, Gc!Files, Gc!NoWrite
<1>5. Guarded'
  <2> SUFFICES ASSUME NEW d \in Gc!Present', Gc!Sound(d)
               PROVE  /\ Gc!Class(d) = "permanent" => Safe(d)'
                      /\ Gc!Class(d) = "snapshot" =>
                           \E e \in Gc!Canonicals : Sibling(d, e) /\ e.date >= d.date /\ Safe(e)'
    BY DEF Guarded
  <2>1. d \in Gc!Present /\ d \in Gc!Canonicals
    BY <1>2, <1>4, NamesOfCanonicals
  <2> QED
    BY <1>2, <1>3, <2>1 DEF Guarded
<1>6. todo' \subseteq Gc!Files'
  BY <1>1, <1>2 DEF Gc!Files, Gc!NoWrite
<1>7. ASSUME NEW d \in Gc!Evidence PROVE d \in Gc!Present'
  <2>1. d \in Gc!Canonicals
    BY <1>2, NamesOfCanonicals DEF Gc!Evidence
  <2>2. Safe(d)'
    BY <1>1, <1>3, <2>1, EvidenceIsSafe
  <2> QED
    BY <1>2, <2>1, <2>2 DEF Safe, Gc!Present, Gc!Files, Gc!Names
<1> QED
  BY <1>1, <1>2, <1>5, <1>6, <1>7 DEF GcInv

(* A rename takes the copy to the canonical name: the name stays present.  *)
LEMMA RenameKeeps ==
  ASSUME GcInv, Gc!BoundsAssumption, NEW f \in renames, Gc!Rename(f)
  PROVE  GcInv' /\ Gc!Evidence \subseteq Gc!Present'
<1>1. /\ phase = "rename" /\ phase' = phase /\ writes' = writes /\ todo' = todo
      /\ renames' = renames \ {f}
  BY DEF Gc!Rename
<1>2. /\ files \in [Gc!Names -> Nat] /\ todo = {}
      /\ f \in Gc!Names /\ f[2] > 0 /\ \A g \in renames : g \in Gc!Names /\ g[2] > 0
  BY <1>1 DEF GcInv
<1> DEFINE base == <<f[1], 0>>
<1>3. base \in Gc!Names /\ base # f /\ files[f] \in Nat /\ 0 \in Gc!Suffixes
  <2>1. f[1] \in Gc!Canonicals /\ f = <<f[1], f[2]>> /\ 0 \in Gc!Suffixes
    BY <1>2 DEF Gc!Names, Gc!Suffixes, Gc!BoundsAssumption
  <2> QED
    BY <1>2, <2>1 DEF Gc!Names
<1>4. CASE files[f] = 0
  <2>1. files' = files
    BY <1>4 DEF Gc!Rename, Gc!NoWrite
  <2>2. GcInv'
    BY <1>1, <1>2, <2>1 DEF GcInv
  <2> QED
    BY <2>1, <2>2 DEF Gc!Evidence, Gc!Present, Gc!Files
<1>5. CASE files[f] # 0
  <2>1. files' = [files EXCEPT ![base] = files[f], ![f] = 0]
    BY <1>5 DEF Gc!Rename, Gc!NoWrite
  <2> HIDE DEF base
  <2>2. files' \in [Gc!Names -> Nat]
    BY <1>2, <1>3, <2>1
  <2>3. files'[base] # 0 /\ \A g \in Gc!Names : g # f /\ files[g] # 0 => files'[g] # 0
    BY <1>2, <1>3, <1>5, <2>1
  <2>4. GcInv'
    BY <1>1, <1>2, <2>2 DEF GcInv
  <2>5. ASSUME NEW c \in Gc!Present PROVE c \in Gc!Present'
    <3>1. PICK n \in Gc!Suffixes : c \in Gc!Canonicals /\ files[<<c, n>>] # 0
      BY <1>2, NamesOfCanonicals DEF Gc!NoWrite
    <3>2. CASE <<c, n>> = f
      <4>1. base = <<c, 0>>
        BY <3>2 DEF base
      <4> QED
        BY <1>3, <2>2, <2>3, <4>1 DEF Gc!Present, Gc!Files, Gc!NoWrite
    <3>3. CASE <<c, n>> # f
      <4>1. <<c, n>> \in Gc!Names /\ files'[<<c, n>>] # 0
        BY <2>3, <3>1, <3>3 DEF Gc!Names
      <4> QED
        BY <2>2, <4>1 DEF Gc!Present, Gc!Files, Gc!NoWrite
    <3> QED
      BY <3>2, <3>3
  <2> QED
    BY <2>4, <2>5 DEF Gc!Evidence
<1> QED
  BY <1>4, <1>5

(* A scan changes no file, and its plan is guarded.                        *)
LEMMA ScanKeeps ==
  ASSUME GcInv, Gc!BoundsAssumption, NEW cutoff, Gc!Scan(cutoff)
  PROVE  GcInv' /\ Gc!Evidence \subseteq Gc!Present'
<1>1. /\ files' = files /\ writes' = writes /\ phase' = "delete"
      /\ todo' = Gc!PlanDelete(cutoff) /\ renames' = Gc!PlanNormalize(cutoff)
  BY DEF Gc!Scan
<1>2. files \in [Gc!Names -> Nat] /\ writes \in Nat /\ MaxWrites \in Nat
  BY DEF GcInv, Gc!BoundsAssumption
<1>3. todo' \subseteq Gc!Files'
  BY <1>1 DEF Gc!PlanDelete, Gc!Files
<1>4. ASSUME NEW c \in Gc!Kept(cutoff), Gc!Winner(c) > 0
      PROVE  <<c, Gc!Winner(c)>> \in Gc!Names
  <2>1. c \in Gc!Present /\ c \in Gc!Canonicals
    BY <1>2, NamesOfCanonicals DEF Gc!Kept, Gc!Survivors
  <2> QED
    BY <1>2, <2>1, WinnerIsThere DEF Gc!Names
<1>5. \A f \in renames' : f \in Gc!Names /\ f[2] > 0
  BY <1>1, <1>4 DEF Gc!PlanNormalize
<1>6. Guarded'
  BY ScanGuards
<1>7. GcInv'
  BY <1>1, <1>2, <1>3, <1>5, <1>6 DEF GcInv
<1> QED
  BY <1>1, <1>7 DEF Gc!Evidence, Gc!Present, Gc!Files

(* Every step of the GC, its death included, keeps evidence present.       *)
LEMMA GcStep ==
  ASSUME GcInv, Gc!BoundsAssumption, [Gc!Next]_gcVars
  PROVE  GcInv' /\ Gc!Evidence \subseteq Gc!Present'
<1>1. ASSUME NEW c \in Gc!Canonicals, Gc!BeginWrite(c)
      PROVE  GcInv' /\ Gc!Evidence \subseteq Gc!Present'
  BY <1>1, BeginWriteKeeps
<1>2. ASSUME NEW cutoff, Gc!Scan(cutoff) PROVE GcInv' /\ Gc!Evidence \subseteq Gc!Present'
  BY <1>2, ScanKeeps
<1>3. ASSUME NEW f \in todo, Gc!Delete(f) PROVE GcInv' /\ Gc!Evidence \subseteq Gc!Present'
  BY <1>3, DeleteKeeps
<1>4. ASSUME NEW f \in renames, Gc!Rename(f) PROVE GcInv' /\ Gc!Evidence \subseteq Gc!Present'
  BY <1>4, RenameKeeps
<1>5. CASE Gc!EndWrite \/ Gc!DeletesDone \/ Gc!RenamesDone \/ Gc!Die \/ UNCHANGED gcVars
  <2>1. files' = files /\ writes' = writes
    BY <1>5 DEF Gc!EndWrite, Gc!DeletesDone, Gc!RenamesDone, Gc!Die, gcVars
  <2>2. Gc!Present' = Gc!Present /\ Gc!Files' = Gc!Files
    BY <2>1 DEF Gc!Present, Gc!Files
  <2>3. \/ todo' = todo /\ phase' = phase /\ renames' = renames
        \/ phase' # "delete" /\ todo' = {} /\ phase' \in {"idle", "rename"} /\ renames' \subseteq renames
    BY <1>5 DEF Gc!EndWrite, Gc!DeletesDone, Gc!RenamesDone, Gc!Die, gcVars, GcInv
  <2>4. CASE todo' = todo /\ phase' = phase /\ renames' = renames
    <3>1. Guarded => Guarded'
      BY <2>1, <2>2, <2>4 DEF Guarded, Safe
    <3> QED
      BY <2>1, <2>2, <2>4, <3>1 DEF GcInv, Gc!Evidence
  <2>5. CASE phase' # "delete" /\ todo' = {} /\ phase' \in {"idle", "rename"} /\ renames' \subseteq renames
    BY <2>1, <2>2, <2>5 DEF GcInv, Gc!Evidence
  <2> QED
    BY <2>3, <2>4, <2>5
<1> QED
  BY <1>1, <1>2, <1>3, <1>4, <1>5 DEF Gc!Next

(* Whatever GC is started and killed, and whatever stages write meanwhile: *)
(* a name that is permanent, or the newest snapshot of its kind and scope, *)
(* is still there after every step, under one of its copies.               *)
THEOREM EvidenceSurvivesAlways == MCSpec => EvidenceSurvives
<1> USE RetentionAssumption
<1>1. MCInit => GcInv
  <2> SUFFICES ASSUME Gc!Init PROVE GcInv
    BY DEF MCInit
  <2> QED
    BY DEF Gc!Init, GcInv, Gc!NoWrite
<1>2. [MCNext]_allVars => [Gc!Next]_gcVars
  BY DEF MCNext, allVars
<1>3. GcInv /\ [MCNext]_allVars => GcInv'
  BY <1>2, GcStep
<1>4. GcInv /\ [MCNext]_allVars => [\A c \in Gc!Evidence : c \in Gc!Present']_(Gc!vars)
  BY <1>2, GcStep DEF Gc!vars, gcVars
<1> QED
  BY <1>1, <1>3, <1>4, PTL DEF MCSpec, EvidenceSurvives, Gc!EvidenceSurvives

------------------------------------------------------------------------------
(* The files that the plan under way does not take.                        *)
Left == Gc!Files \ todo

(* What a plan leaves: one copy of a name, to be renamed unless it has the *)
(* canonical name already, well-formed, and of a snapshot one date.        *)
Settled ==
    /\ \A f, g \in Left : f[1] = g[1] => f = g
    /\ \A f \in Left : f[2] > 0 => f \in renames
    /\ \A f \in Left : Gc!Verdict(f[1], 0) = "candidate"
    /\ \A f, g \in Left : Sibling(f[1], g[1]) /\ Gc!Class(f[1]) = "snapshot" =>
                             g[1].date <= f[1].date

SettleInv == phase # "idle" /\ ~mixed => Settled

(* The copies of a name are numbered in the order they were written in,    *)
(* with no number left out.                                                *)
Ordered ==
    \A c \in Gc!Canonicals : \A n \in Gc!Suffixes : files[<<c, n>>] # Gc!NoWrite =>
        /\ files[<<c, n>>] > n
        /\ \A m \in Gc!Suffixes : m < n =>
              files[<<c, m>>] # Gc!NoWrite /\ files[<<c, m>>] < files[<<c, n>>]

(* Why a plan takes a file.                                                *)
Newer(f) == \E n \in Gc!Suffixes :
                <<f[1], n>> \in Left /\ files[<<f[1], n>>] > files[f]
Later(f) == \E g \in Left : Sibling(f[1], g[1]) /\ g[1].date > f[1].date
Doomed(f) ==
    \/ Newer(f)
    \/ Gc!Exact(f[1].kind)
    \/ Gc!Verdict(f[1], 0) # "candidate"
    \/ Gc!Class(f[1]) = "ephemeral"
    \/ Gc!Class(f[1]) = "snapshot" /\ Later(f)

OrderInv ==
    /\ \A f \in Gc!Names : files[f] <= writes
    /\ ~upset =>
          /\ phase = "idle" => ~mixed /\ Ordered
          /\ phase = "delete" /\ ~mixed => \A f \in todo : Doomed(f)

(* The copies of a name, as a set of numbers, and the greatest of them.    *)
LEMMA WinnerIsGreatest ==
  ASSUME MaxWrites \in Nat, NEW c \in Gc!Canonicals, files \in [Gc!Names -> Nat],
         c \in Gc!Present
  PROVE  /\ Gc!Winner(c) \in Gc!Suffixes /\ files[<<c, Gc!Winner(c)>>] # Gc!NoWrite
         /\ \A n \in Gc!Suffixes : files[<<c, n>>] # Gc!NoWrite => n <= Gc!Winner(c)
<1>1. Gc!Of(c) # {} /\ Gc!Of(c) \subseteq 0 .. MaxWrites
  BY DEF Gc!Present, Gc!Files, Gc!Of, Gc!Names, Gc!Suffixes
<1>2. PICK x \in Gc!Of(c) : \A y \in Gc!Of(c) : x >= y
  BY <1>1, BoundedMax
<1>3. Gc!Winner(c) \in Gc!Of(c) /\ \A y \in Gc!Of(c) : Gc!Winner(c) >= y
  BY <1>2 DEF Gc!Winner, Gc!Max
<1>4. \A y \in Gc!Of(c) : y <= Gc!Winner(c)
  BY <1>1, <1>3
<1> QED
  BY <1>1, <1>3, <1>4 DEF Gc!Of, Gc!Suffixes

(* A name that passes under one of its copies passes under its own number, *)
(* and one without a plain name passes under every number.                 *)
LEMMA VerdictOfNames ==
  ASSUME NEW c
  PROVE  /\ \A n : Gc!Verdict(c, n) = "candidate" => Gc!Verdict(c, 0) = "candidate"
         /\ \A m, n : ~Gc!Exact(c.kind) => Gc!Verdict(c, m) = Gc!Verdict(c, n)
<1>1. ASSUME NEW n, Gc!Verdict(c, n) = "candidate" PROVE Gc!Verdict(c, 0) = "candidate"
  BY <1>1 DEF Gc!Verdict
<1>2. ASSUME NEW m, NEW n, ~Gc!Exact(c.kind) PROVE Gc!Verdict(c, m) = Gc!Verdict(c, n)
  BY <1>2 DEF Gc!Verdict
<1> QED
  BY <1>1, <1>2

(* What a scan leaves: of every name that is kept, its winner.             *)
LEMMA ScanLeaves ==
  ASSUME GcInv, Gc!BoundsAssumption, NEW cutoff, Gc!Scan(cutoff)
  PROVE  \A f : f \in Left' <=> f \in Gc!Files /\ f[1] \in Gc!Kept(cutoff) /\ f[2] = Gc!Winner(f[1])
<1>1. files' = files /\ todo' = Gc!PlanDelete(cutoff)
  BY DEF Gc!Scan
<1>2. Gc!Files' = Gc!Files
  BY <1>1 DEF Gc!Files
<1> QED
  BY <1>1, <1>2 DEF Left, Gc!PlanDelete

(* ... which is there for every name that is kept.                         *)
LEMMA KeptIsLeft ==
  ASSUME GcInv, Gc!BoundsAssumption, NEW cutoff, Gc!Scan(cutoff), NEW c \in Gc!Kept(cutoff)
  PROVE  /\ c \in Gc!Canonicals /\ c \in Gc!Present
         /\ Gc!Winner(c) \in Gc!Suffixes
         /\ <<c, Gc!Winner(c)>> \in Left'
<1>1. files \in [Gc!Names -> Nat] /\ MaxWrites \in Nat
  BY DEF GcInv, Gc!BoundsAssumption
<1>2. c \in Gc!Present /\ c \in Gc!Canonicals
  BY <1>1, NamesOfCanonicals DEF Gc!Kept, Gc!Survivors
<1>3. Gc!Winner(c) \in Gc!Suffixes /\ files[<<c, Gc!Winner(c)>>] # Gc!NoWrite
  BY <1>1, <1>2, WinnerIsThere
<1>4. <<c, Gc!Winner(c)>> \in Gc!Files
  BY <1>1, <1>2, <1>3 DEF Gc!Files, Gc!Names
<1> DEFINE f == <<c, Gc!Winner(c)>>
<1>5. f[1] = c /\ f[2] = Gc!Winner(c)
  OBVIOUS
<1> HIDE DEF f
<1>6. f \in Gc!Files
  BY <1>4 DEF f
<1>7. f \in Left'
  BY <1>5, <1>6, ScanLeaves
<1> QED
  BY <1>2, <1>3, <1>7 DEF f

(* A plan settles what it leaves.                                          *)
LEMMA ScanSettles ==
  ASSUME GcInv, Gc!BoundsAssumption, NEW cutoff, Gc!Scan(cutoff)
  PROVE  Settled'
<1>1. /\ \A f \in Left' : f \in Gc!Files /\ f[1] \in Gc!Kept(cutoff) /\ f[2] = Gc!Winner(f[1])
      /\ renames' = Gc!PlanNormalize(cutoff)
  BY ScanLeaves DEF Gc!Scan
<1>2. files \in [Gc!Names -> Nat]
  BY DEF GcInv
<1>3. \A f \in Left' : f \in Gc!Names /\ f = <<f[1], f[2]>>
  BY <1>1, <1>2 DEF Gc!Files, Gc!Names
<1>4. ASSUME NEW f \in Left', NEW g \in Left', f[1] = g[1] PROVE f = g
  BY <1>1, <1>3, <1>4
<1>5. ASSUME NEW f \in Left', f[2] > 0 PROVE f \in renames'
  <2>1. f = <<f[1], Gc!Winner(f[1])>> /\ Gc!Winner(f[1]) > 0 /\ f[1] \in Gc!Kept(cutoff)
    BY <1>1, <1>3, <1>5
  <2> QED
    BY <1>1, <2>1 DEF Gc!PlanNormalize
<1>6. ASSUME NEW f \in Left' PROVE Gc!Verdict(f[1], 0) = "candidate"
  <2>1. f[1] \in Gc!Survivors
    BY <1>1 DEF Gc!Kept
  <2> QED
    BY <2>1, VerdictOfNames DEF Gc!Survivors
<1>7. ASSUME NEW f \in Left', NEW g \in Left', Sibling(f[1], g[1]), Gc!Class(f[1]) = "snapshot"
      PROVE  g[1].date <= f[1].date
  <2>1. f[1] \in Gc!Survivors /\ f[1] \notin Gc!Superseded /\ g[1] \in Gc!Survivors
    BY <1>1 DEF Gc!Kept
  <2>2. ~(g[1].date > f[1].date)
    BY <1>7, <2>1 DEF Gc!Superseded, Sibling
  <2>3. f[1].date \in Nat /\ g[1].date \in Nat
    <3>1. f[1] \in Gc!Canonicals /\ g[1] \in Gc!Canonicals
      BY <1>3 DEF Gc!Names
    <3> QED
      BY <3>1, CanonicalDate DEF Gc!BoundsAssumption
  <2> QED
    BY <2>2, <2>3
<1>8. \A f \in Left' : Gc!Verdict(f[1], 0)' = Gc!Verdict(f[1], 0) /\ Gc!Class(f[1])' = Gc!Class(f[1])
  OBVIOUS
<1> QED
  BY <1>4, <1>5, <1>6, <1>7 DEF Settled

(* An unlink takes a file of the plan: what is left stays.                 *)
LEMMA DeleteLeaves ==
  ASSUME GcInv, NEW h \in todo, Gc!Delete(h)
  PROVE  Left' = Left
<1>1. files' = [files EXCEPT ![h] = 0] /\ todo' = todo \ {h} /\ files \in [Gc!Names -> Nat]
  BY DEF Gc!Delete, Gc!NoWrite, GcInv
<1>2. h \in Gc!Names
  BY DEF GcInv, Gc!Delete, Gc!Files
<1>3. Gc!Files' = Gc!Files \ {h}
  BY <1>1, <1>2 DEF Gc!Files, Gc!NoWrite
<1> QED
  BY <1>1, <1>3 DEF Left

(* A rename replaces a file that is left by one with the canonical name.   *)
LEMMA RenameSettles ==
  ASSUME GcInv, Gc!BoundsAssumption, Settled, NEW h \in renames, Gc!Rename(h)
  PROVE  Settled'
<1>1. phase = "rename" /\ todo' = todo /\ renames' = renames \ {h} /\ todo = {}
  BY DEF Gc!Rename, GcInv
<1>2. files \in [Gc!Names -> Nat] /\ h \in Gc!Names /\ h[2] > 0 /\ h = <<h[1], h[2]>>
  BY DEF GcInv, Gc!Names
<1>3. CASE files[h] = 0
  <2>1. files' = files
    BY <1>3 DEF Gc!Rename, Gc!NoWrite
  <2>2. Left' = Left /\ h \notin Left
    BY <1>1, <1>3, <2>1 DEF Left, Gc!Files, Gc!NoWrite
  <2> QED
    BY <1>1, <2>2 DEF Settled
<1>4. CASE files[h] # 0
  <2> DEFINE base == <<h[1], 0>>
  <2>1. files' = [files EXCEPT ![base] = files[h], ![h] = 0]
    BY <1>4 DEF Gc!Rename, Gc!NoWrite
  <2>2. base \in Gc!Names /\ base # h /\ base[1] = h[1] /\ base[2] = 0
    <3>1. h[1] \in Gc!Canonicals /\ 0 \in Gc!Suffixes
      BY <1>2 DEF Gc!Names, Gc!Suffixes, Gc!BoundsAssumption
    <3> QED
      BY <1>2, <3>1 DEF Gc!Names
  <2> HIDE DEF base
  <2>3. files[h] \in Nat /\ files' \in [Gc!Names -> Nat]
    BY <1>2, <2>1, <2>2
  <2>4. Left' = (Left \ {h}) \cup {base}
    BY <1>1, <1>2, <1>4, <2>1, <2>2, <2>3 DEF Left, Gc!Files, Gc!NoWrite
  <2>5. h \in Left
    BY <1>1, <1>2, <1>4 DEF Left, Gc!Files, Gc!NoWrite
  <2>6. \A f \in Left : f # h => f[1] # h[1]
    BY <2>5 DEF Settled
  <2>7. \A f \in Left' : f[1] \in {g[1] : g \in Left}
    BY <2>2, <2>4, <2>5
  <2>8. ASSUME NEW f \in Left', NEW g \in Left', f[1] = g[1] PROVE f = g
    BY <2>2, <2>4, <2>6, <2>8 DEF Settled
  <2>9. ASSUME NEW f \in Left', f[2] > 0 PROVE f \in renames'
    BY <1>1, <2>2, <2>4, <2>9 DEF Settled
  <2>10. ASSUME NEW f \in Left' PROVE Gc!Verdict(f[1], 0) = "candidate"
    BY <2>7 DEF Settled
  <2>11. ASSUME NEW f \in Left', NEW g \in Left', Sibling(f[1], g[1]), Gc!Class(f[1]) = "snapshot"
         PROVE  g[1].date <= f[1].date
    BY <2>7, <2>11 DEF Settled
  <2> QED
    BY <2>8, <2>9, <2>10, <2>11 DEF Settled
<1> QED
  BY <1>3, <1>4

(* Every step keeps what a GC that nobody writes beside leaves settled.    *)
LEMMA SettleStep ==
  ASSUME GcInv, SettleInv, Gc!BoundsAssumption, [Gc!Next]_gcVars
  PROVE  SettleInv'
<1>1. ASSUME NEW c \in Gc!Canonicals, Gc!BeginWrite(c) PROVE SettleInv'
  BY <1>1 DEF Gc!BeginWrite, SettleInv
<1>2. ASSUME NEW cutoff, Gc!Scan(cutoff) PROVE SettleInv'
  BY <1>2, ScanSettles DEF SettleInv
<1>3. ASSUME NEW f \in todo, Gc!Delete(f) PROVE SettleInv'
  <2>1. Left' = Left /\ renames' = renames /\ phase' = phase /\ mixed' = mixed
    BY <1>3, DeleteLeaves DEF Gc!Delete
  <2> QED
    BY <2>1 DEF SettleInv, Settled
<1>4. ASSUME NEW f \in renames, Gc!Rename(f) PROVE SettleInv'
  <2>1. phase = "rename" /\ mixed' = mixed
    BY <1>4 DEF Gc!Rename
  <2> QED
    BY <1>4, <2>1, RenameSettles DEF SettleInv
<1>5. CASE Gc!EndWrite \/ Gc!DeletesDone \/ UNCHANGED gcVars
  <2>1. /\ files' = files /\ todo' = todo /\ renames' = renames /\ mixed' = mixed
        /\ phase' # "idle" => phase # "idle"
    BY <1>5 DEF Gc!EndWrite, Gc!DeletesDone, gcVars
  <2>2. Left' = Left
    BY <2>1 DEF Left, Gc!Files
  <2> QED
    BY <2>1, <2>2 DEF SettleInv, Settled
<1>6. CASE Gc!RenamesDone \/ Gc!Die
  BY <1>6 DEF Gc!RenamesDone, Gc!Die, SettleInv
<1> QED
  BY <1>1, <1>2, <1>3, <1>4, <1>5, <1>6 DEF Gc!Next

(* Once the renames are done, a settled tree has nothing but canonical     *)
(* names, one file each.                                                   *)
LEMMA SettledIsCanonical ==
  ASSUME GcInv, Settled, phase = "rename", renames = {}
  PROVE  \A f \in Gc!Files : f[2] = 0 /\ f = <<f[1], 0>> /\ f[1] \in Gc!Canonicals
<1>1. Left = Gc!Files /\ files \in [Gc!Names -> Nat]
  BY DEF Left, GcInv
<1>2. \A f \in Gc!Files : f \in Gc!Names /\ f[2] \in Nat /\ f = <<f[1], f[2]>> /\ f[1] \in Gc!Canonicals
  BY <1>1 DEF Gc!Files, Gc!Names, Gc!Suffixes
<1>3. \A f \in Gc!Files : ~(f[2] > 0)
  BY <1>1 DEF Settled
<1> QED
  BY <1>2, <1>3

(* ... so that a plan made then is empty.                                  *)
LEMMA SettledPlansNothing ==
  ASSUME GcInv, Gc!BoundsAssumption, Settled, phase = "rename", renames = {}
  PROVE  Gc!PlanDelete(Gc!NoDate) = {} /\ Gc!PlanNormalize(Gc!NoDate) = {}
<1>1. Left = Gc!Files /\ files \in [Gc!Names -> Nat] /\ MaxWrites \in Nat /\ MaxDate \in Nat
  BY DEF Left, GcInv, Gc!BoundsAssumption
<1>2. \A f \in Gc!Files : f[2] = 0 /\ f = <<f[1], 0>> /\ f[1] \in Gc!Canonicals
  BY SettledIsCanonical
<1>3. ASSUME NEW c \in Gc!Present
      PROVE  c \in Gc!Canonicals /\ <<c, 0>> \in Gc!Files /\ Gc!Of(c) = {0}
  <2>1. PICK f \in Gc!Files : f[1] = c
    BY DEF Gc!Present
  <2>2. f = <<c, 0>> /\ c \in Gc!Canonicals
    BY <1>2, <2>1
  <2>3. \A n \in Gc!Suffixes : files[<<c, n>>] # Gc!NoWrite => n = 0
    <3>1. ASSUME NEW n \in Gc!Suffixes, files[<<c, n>>] # Gc!NoWrite PROVE n = 0
      <4>1. <<c, n>> \in Gc!Files
        BY <1>1, <2>2, <3>1 DEF Gc!Files, Gc!Names
      <4> QED
        BY <1>2, <4>1
    <3> QED
      BY <3>1
  <2>4. 0 \in Gc!Suffixes /\ files[<<c, 0>>] # Gc!NoWrite
    BY <1>1, <2>2 DEF Gc!Files, Gc!Suffixes
  <2> QED
    BY <2>1, <2>2, <2>3, <2>4 DEF Gc!Of
<1>4. ASSUME NEW c \in Gc!Present PROVE Gc!FirstOf(c) = 0 /\ Gc!Winner(c) = 0
  <2>1. Gc!Of(c) = {0}
    BY <1>3
  <2>2. Gc!FirstOf(c) = 0
    BY <2>1 DEF Gc!FirstOf
  <2>3. Gc!Winner(c) = CHOOSE x \in {0} : \A y \in {0} : x >= y
    BY <2>1, Zenon DEF Gc!Winner, Gc!Max
  <2>4. \E x \in {0} : \A y \in {0} : x >= y
    OBVIOUS
  <2> QED
    BY <2>2, <2>3, <2>4
<1>5. ASSUME NEW c \in Gc!Present PROVE c \in Gc!Kept(Gc!NoDate)
  <2>1. c \in Gc!Survivors
    <3> DEFINE f == <<c, 0>>
    <3>1. f \in Left /\ f[1] = c
      BY <1>1, <1>3
    <3> HIDE DEF f
    <3>2. Gc!Verdict(c, 0) = "candidate"
      BY <3>1 DEF Settled
    <3> QED
      BY <1>4, <3>2 DEF Gc!Survivors
  <2>2. c \notin Gc!Superseded
    <3>1. ASSUME NEW d \in Gc!Survivors, Sibling(c, d), Gc!Class(c) = "snapshot", d.date > c.date
          PROVE  FALSE
      <4> DEFINE f == <<c, 0>>
                 g == <<d, 0>>
      <4>1. f \in Left /\ g \in Left /\ f[1] = c /\ g[1] = d
        BY <1>1, <1>3 DEF Gc!Survivors
      <4> HIDE DEF f, g
      <4>2. d.date <= c.date
        BY <3>1, <4>1 DEF Settled
      <4>3. c \in Gc!Canonicals /\ d \in Gc!Canonicals
        BY <1>3 DEF Gc!Survivors
      <4>4. c.date \in Nat /\ d.date \in Nat
        BY <1>1, <4>3, CanonicalDate
      <4> QED
        BY <3>1, <4>2, <4>4
    <3> QED
      BY <3>1 DEF Gc!Superseded, Sibling
  <2>3. c \notin Gc!AgedOut(Gc!NoDate)
    <3>1. c.date \in Nat
      BY <1>1, <1>3, CanonicalDate
    <3> QED
      BY <3>1 DEF Gc!AgedOut, Gc!NoDate
  <2> QED
    BY <2>1, <2>2, <2>3 DEF Gc!Kept
<1>6. \A f \in Gc!Files : f[1] \in Gc!Present
  BY DEF Gc!Present
<1>7. Gc!PlanDelete(Gc!NoDate) = {}
  BY <1>2, <1>4, <1>5, <1>6 DEF Gc!PlanDelete
<1>8. \A c \in Gc!Kept(Gc!NoDate) : ~(Gc!Winner(c) > 0)
  <2>1. \A c \in Gc!Kept(Gc!NoDate) : c \in Gc!Present
    BY DEF Gc!Kept, Gc!Survivors
  <2> QED
    BY <1>4, <2>1
<1> QED
  BY <1>7, <1>8 DEF Gc!PlanNormalize

(* One pass of the GC is enough: when it has come to its end, whatever was *)
(* interrupted before and as long as no stage wrote beside it, the next    *)
(* plan is empty.                                                          *)
THEOREM OnePassSettlesAlways == MCSpec => []OnePassSettles
<1> USE RetentionAssumption
<1>1. MCInit => GcInv /\ SettleInv
  <2> SUFFICES ASSUME Gc!Init PROVE GcInv /\ SettleInv
    BY DEF MCInit
  <2> QED
    BY DEF Gc!Init, GcInv, SettleInv, Gc!NoWrite
<1>2. GcInv /\ SettleInv /\ [MCNext]_allVars => GcInv' /\ SettleInv'
  <2>1. [MCNext]_allVars => [Gc!Next]_gcVars
    BY DEF MCNext, allVars
  <2> QED
    BY <2>1, GcStep, SettleStep
<1>3. GcInv /\ SettleInv => OnePassSettles
  BY SettledPlansNothing DEF OnePassSettles, Gc!OnePassSettles, SettleInv
<1> QED
  BY <1>1, <1>2, <1>3, PTL DEF MCSpec

(* What a plan takes of a tree in order, it takes for a reason.            *)
LEMMA ScanDooms ==
  ASSUME GcInv, Gc!BoundsAssumption, Ordered, NEW cutoff, Gc!Scan(cutoff), NEW f \in todo'
  PROVE  Doomed(f)'
<1>1. files' = files /\ todo' = Gc!PlanDelete(cutoff) /\ files \in [Gc!Names -> Nat]
      /\ MaxWrites \in Nat /\ MaxDate \in Nat
  BY DEF Gc!Scan, GcInv, Gc!BoundsAssumption
<1>2. /\ f \in Gc!Files /\ f \in Gc!Names /\ files[f] # 0
      /\ f[1] \in Gc!Canonicals /\ f[2] \in Gc!Suffixes /\ f = <<f[1], f[2]>>
      /\ f[1] \in Gc!Present
      /\ f[1] \notin Gc!Kept(cutoff) \/ f[2] # Gc!Winner(f[1])
  BY <1>1 DEF Gc!PlanDelete, Gc!Files, Gc!Names, Gc!Present, Gc!NoWrite
<1> DEFINE c == f[1]
<1>3. CASE c \in Gc!Kept(cutoff)
  <2>1. /\ Gc!Winner(c) \in Gc!Suffixes /\ files[<<c, Gc!Winner(c)>>] # 0
        /\ f[2] <= Gc!Winner(c)
    BY <1>1, <1>2, WinnerIsGreatest DEF Gc!NoWrite
  <2>2. f[2] < Gc!Winner(c)
    BY <1>2, <1>3, <2>1 DEF Gc!Suffixes
  <2>3. files[<<c, f[2]>>] < files[<<c, Gc!Winner(c)>>]
    BY <1>2, <2>1, <2>2 DEF Ordered, Gc!NoWrite
  <2>4. files[<<c, f[2]>>] \in Nat /\ files[<<c, Gc!Winner(c)>>] \in Nat
    BY <1>1, <1>2, <2>1 DEF Gc!Names
  <2>5. files[<<c, Gc!Winner(c)>>] > files[f]
    BY <1>2, <2>3, <2>4
  <2>6. <<c, Gc!Winner(c)>> \in Left'
    BY <1>3, KeptIsLeft
  <2>7. Newer(f)'
    BY <1>1, <2>1, <2>5, <2>6 DEF Newer, Gc!Suffixes
  <2> QED
    BY <2>7 DEF Doomed
<1>4. CASE c \notin Gc!Survivors
  <2>1. Gc!Verdict(c, Gc!FirstOf(c)) # "candidate"
    BY <1>2, <1>4 DEF Gc!Survivors
  <2>2. Gc!Exact(c.kind) \/ Gc!Verdict(c, 0) # "candidate"
    BY <2>1, VerdictOfNames
  <2> QED
    BY <2>2 DEF Doomed
<1>5. CASE c \in Gc!AgedOut(cutoff)
  BY <1>5 DEF Gc!AgedOut, Doomed
<1>6. CASE c \in Gc!Superseded
  <2>1. Gc!Class(c) = "snapshot" /\ c \in Gc!Survivors
    BY <1>6 DEF Gc!Superseded
  <2>2. \A d \in Gc!Survivors : d \in Gc!Present /\ d \in Gc!Canonicals
    BY <1>1, NamesOfCanonicals DEF Gc!Survivors
  <2> DEFINE Dated == {d.date : d \in {e \in Gc!Survivors : Sibling(c, e)}}
  <2>3. Dated \subseteq 0 .. MaxDate /\ c.date \in Dated
    <3>1. \A d \in Gc!Canonicals : d.date \in 0 .. MaxDate
      BY <1>1 DEF Gc!Canonicals, Gc!Dates, Gc!NoDate
    <3> QED
      BY <2>1, <2>2, <3>1 DEF Sibling
  <2>4. PICK last \in Dated : \A e \in Dated : last >= e
    <3> HIDE DEF Dated
    <3> QED BY <1>1, <2>3, BoundedMax
  <2>5. \A x \in Dated : x \in Nat
    <3> HIDE DEF Dated
    <3> QED BY <1>1, <2>3
  <2>6. PICK d \in Gc!Survivors : Sibling(c, d) /\ d.date = last
    BY <2>4
  <2>7. \A e \in Gc!Survivors : Sibling(c, e) => e.date \in Nat /\ e.date <= d.date
    <3>1. ASSUME NEW e \in Gc!Survivors, Sibling(c, e) PROVE e.date \in Nat /\ e.date <= d.date
      <4>1. e.date \in Dated /\ d.date \in Dated
        BY <2>6, <3>1
      <4> HIDE DEF Dated
      <4> QED
        BY <2>4, <2>5, <2>6, <4>1
    <3> QED
      BY <3>1
  <2>8. d.date > c.date
    <3>1. PICK e \in Gc!Survivors : Sibling(c, e) /\ e.date > c.date
      BY <1>6 DEF Gc!Superseded, Sibling
    <3>2. e.date \in Nat /\ d.date \in Nat /\ e.date <= d.date /\ c.date \in Nat
      <4>1. Sibling(c, c) /\ c \in Gc!Survivors
        BY <2>1 DEF Sibling
      <4> QED
        BY <2>6, <2>7, <3>1, <4>1
    <3> QED
      BY <3>1, <3>2
  <2>9. d \in Gc!Kept(cutoff)
    <3>1. d \notin Gc!Superseded
      <4>1. ASSUME NEW e \in Gc!Survivors, Sibling(d, e), e.date > d.date PROVE FALSE
        <5>1. Sibling(c, e)
          BY <2>6, <4>1 DEF Sibling
        <5>2. e.date \in Nat /\ d.date \in Nat /\ e.date <= d.date
          BY <2>6, <2>7, <5>1
        <5> QED
          BY <4>1, <5>2
      <4> QED
        BY <4>1 DEF Gc!Superseded, Sibling
    <3>2. Gc!Class(d) = "snapshot"
      BY <2>1, <2>6 DEF Gc!Class, Sibling
    <3> QED
      BY <2>6, <3>1, <3>2 DEF Gc!Kept, Gc!AgedOut
  <2> DEFINE g == <<d, Gc!Winner(d)>>
  <2>10. g \in Left' /\ g[1] = d
    BY <2>9, KeptIsLeft
  <2> HIDE DEF g
  <2>11. Later(f)'
    BY <2>6, <2>8, <2>10 DEF Later
  <2> QED
    BY <2>1, <2>11 DEF Doomed
<1> QED
  BY <1>2, <1>3, <1>4, <1>5, <1>6 DEF Gc!Kept

(* A stage's write takes the next number of a name, and there is one.      *)
LEMMA WriteKeepsOrder ==
  ASSUME GcInv, Gc!BoundsAssumption, Ordered, \A f \in Gc!Names : files[f] <= writes,
         NEW c \in Gc!Canonicals, Gc!BeginWrite(c)
  PROVE  Ordered'
<1> DEFINE n == Gc!Min(Gc!Suffixes \ Gc!Of(c))
<1>1. files' = [files EXCEPT ![<<c, n>>] = writes + 1] /\ writes < MaxWrites
  BY DEF Gc!BeginWrite
<1>2. files \in [Gc!Names -> Nat] /\ writes \in Nat /\ MaxWrites \in Nat
  BY DEF GcInv, Gc!BoundsAssumption
<1>3. \A d \in Gc!Canonicals : \A m \in Gc!Suffixes :
         <<d, m>> \in Gc!Names /\ files[<<d, m>>] \in Nat /\ files[<<d, m>>] <= writes
  BY <1>2 DEF Gc!Names
<1>4. MaxWrites \in Gc!Suffixes /\ MaxWrites \notin Gc!Of(c)
  <2>1. MaxWrites \in Gc!Suffixes
    BY <1>2 DEF Gc!Suffixes
  <2>2. files[<<c, MaxWrites>>] <= writes /\ files[<<c, MaxWrites>>] \in Nat
    BY <1>3, <2>1
  <2>3. ~(files[<<c, MaxWrites>>] > MaxWrites)
    BY <1>1, <1>2, <2>2
  <2> QED
    BY <2>1, <2>3 DEF Ordered, Gc!Of
<1>5. /\ n \in Gc!Suffixes /\ n \notin Gc!Of(c)
      /\ \A m \in Gc!Suffixes : m < n => m \in Gc!Of(c)
  <2> DEFINE Free == Gc!Suffixes \ Gc!Of(c)
  <2>1. Free \subseteq Nat /\ Free # {}
    BY <1>2, <1>4 DEF Gc!Suffixes
  <2>2. \E x \in Free : \A y \in Free : x <= y
    <3> HIDE DEF Free
    <3> QED BY <2>1, LeastNumber
  <2>3. n \in Free /\ \A y \in Free : n <= y
    BY <2>2 DEF Gc!Min
  <2> QED
    BY <1>2, <2>3 DEF Gc!Suffixes
<1> HIDE DEF n
<1>6. n \in Nat /\ files[<<c, n>>] = 0 /\ \A m \in Gc!Suffixes : m \in Nat
  BY <1>2, <1>5 DEF Gc!Of, Gc!NoWrite, Gc!Suffixes
<1>7. /\ files'[<<c, n>>] = writes + 1
      /\ \A d \in Gc!Canonicals : \A m \in Gc!Suffixes :
            d # c \/ m # n => files'[<<d, m>>] = files[<<d, m>>]
  BY <1>1, <1>2, <1>3, <1>5
<1>8. writes + 1 > n
  <2>1. CASE n = 0
    BY <1>2, <2>1
  <2>2. CASE n # 0
    <3>1. n - 1 \in Gc!Suffixes /\ n - 1 < n
      BY <1>2, <1>5, <1>6, <2>2 DEF Gc!Suffixes
    <3>2. files[<<c, n - 1>>] > n - 1
      BY <1>5, <3>1 DEF Ordered, Gc!Of
    <3>3. files[<<c, n - 1>>] \in Nat /\ files[<<c, n - 1>>] <= writes
      BY <1>3, <3>1
    <3> QED
      BY <1>2, <1>6, <3>2, <3>3
  <2> QED
    BY <2>1, <2>2
<1>9. ASSUME NEW d \in Gc!Canonicals, NEW k \in Gc!Suffixes, files'[<<d, k>>] # 0
      PROVE  /\ files'[<<d, k>>] > k
             /\ \A m \in Gc!Suffixes : m < k =>
                   files'[<<d, m>>] # 0 /\ files'[<<d, m>>] < files'[<<d, k>>]
  <2>1. CASE d = c /\ k = n
    <3>1. \A m \in Gc!Suffixes : m < n =>
             files[<<c, m>>] # 0 /\ files[<<c, m>>] < writes + 1 /\ m # n
      BY <1>2, <1>3, <1>5, <1>6 DEF Gc!Of, Gc!NoWrite
    <3> QED
      BY <1>7, <1>8, <2>1, <3>1
  <2>2. CASE d # c \/ k # n
    <3>1. files[<<d, k>>] # 0 /\ files'[<<d, k>>] = files[<<d, k>>]
      BY <1>7, <1>9, <2>2
    <3>2. /\ files[<<d, k>>] > k
          /\ \A m \in Gc!Suffixes : m < k =>
                files[<<d, m>>] # 0 /\ files[<<d, m>>] < files[<<d, k>>]
      BY <3>1 DEF Ordered, Gc!NoWrite
    <3>3. \A m \in Gc!Suffixes : m < k => d # c \/ m # n
      BY <1>5, <1>6, <3>2
    <3> QED
      BY <1>7, <3>1, <3>2, <3>3
  <2> QED
    BY <2>1, <2>2
<1> QED
  BY <1>9 DEF Ordered, Gc!NoWrite, Gc!Canonicals, Gc!Suffixes

(* No file is younger than the last write.                                 *)
LEMMA AgeStep ==
  ASSUME GcInv, \A f \in Gc!Names : files[f] <= writes, Gc!BoundsAssumption, [Gc!Next]_gcVars
  PROVE  \A f \in Gc!Names : files'[f] <= writes'
<1>1. files \in [Gc!Names -> Nat] /\ writes \in Nat
  BY DEF GcInv
<1>2. ASSUME NEW c \in Gc!Canonicals, Gc!BeginWrite(c)
      PROVE  \A f \in Gc!Names : files'[f] <= writes'
  <2> DEFINE at == <<c, Gc!Min(Gc!Suffixes \ Gc!Of(c))>>
  <2>1. files' = [files EXCEPT ![at] = writes + 1] /\ writes' = writes + 1
    BY <1>2 DEF Gc!BeginWrite
  <2> HIDE DEF at
  <2> QED
    BY <1>1, <2>1
<1>3. ASSUME NEW h \in todo, Gc!Delete(h) PROVE \A f \in Gc!Names : files'[f] <= writes'
  BY <1>1, <1>3 DEF Gc!Delete, Gc!NoWrite
<1>4. ASSUME NEW h \in renames, Gc!Rename(h) PROVE \A f \in Gc!Names : files'[f] <= writes'
  <2> DEFINE base == <<h[1], 0>>
  <2>1. \/ files' = files
        \/ files' = [files EXCEPT ![base] = files[h], ![h] = 0]
    BY <1>4 DEF Gc!Rename, Gc!NoWrite
  <2>2. h \in Gc!Names /\ writes' = writes
    BY <1>4 DEF GcInv, Gc!Rename
  <2> HIDE DEF base
  <2> QED
    BY <1>1, <2>1, <2>2
<1>5. CASE files' = files /\ writes' = writes
  BY <1>5
<1> QED
  BY <1>2, <1>3, <1>4, <1>5 DEF Gc!Next, Gc!EndWrite, Gc!Scan, Gc!DeletesDone,
     Gc!RenamesDone, Gc!Die, gcVars

(* As long as nothing disturbs a GC, every step keeps the order of copies  *)
(* between two GCs and the reasons of the plan under way.                  *)
LEMMA OrderStep ==
  ASSUME GcInv, SettleInv, OrderInv, Gc!BoundsAssumption, [Gc!Next]_gcVars
  PROVE  OrderInv'
<1>1. \A f \in Gc!Names : files'[f] <= writes'
  BY AgeStep DEF OrderInv
<1>2. (\A f \in Gc!Names : files[f] <= writes)'
  BY <1>1 DEF Gc!Names, Gc!Canonicals, Gc!Suffixes
<1>3. SUFFICES ASSUME ~upset'
               PROVE  /\ phase' = "idle" => ~mixed' /\ Ordered'
                      /\ phase' = "delete" /\ ~mixed' => \A f \in todo' : Doomed(f)'
  BY <1>2 DEF OrderInv
<1>4. ~upset
  BY <1>3 DEF Gc!Next, Gc!BeginWrite, Gc!EndWrite, Gc!Scan, Gc!Delete, Gc!DeletesDone,
     Gc!Rename, Gc!RenamesDone, Gc!Die, gcVars
<1>5. ASSUME NEW c \in Gc!Canonicals, Gc!BeginWrite(c)
      PROVE  /\ phase' = "idle" => ~mixed' /\ Ordered'
             /\ phase' = "delete" => mixed'
  <2>1. phase' = phase /\ mixed' = (mixed \/ phase # "idle")
    BY <1>5 DEF Gc!BeginWrite
  <2>2. CASE phase = "idle"
    <3>1. ~mixed /\ Ordered
      BY <1>4, <2>2 DEF OrderInv
    <3>2. Ordered'
      BY <1>5, <3>1, WriteKeepsOrder DEF OrderInv
    <3> QED
      BY <2>1, <2>2, <3>1, <3>2
  <2>3. CASE phase # "idle"
    BY <2>1, <2>3
  <2> QED
    BY <2>2, <2>3
<1>6. ASSUME NEW cutoff, Gc!Scan(cutoff)
      PROVE  phase' = "delete" /\ \A f \in todo' : Doomed(f)'
  <2>1. phase = "idle" /\ phase' = "delete"
    BY <1>6 DEF Gc!Scan
  <2>2. Ordered
    BY <1>4, <2>1 DEF OrderInv
  <2> QED
    BY <1>6, <2>1, <2>2, ScanDooms
<1>7. ASSUME NEW h \in todo, Gc!Delete(h)
      PROVE  phase' = "delete" /\ (~mixed' => \A f \in todo' : Doomed(f)')
  <2>1. /\ phase = "delete" /\ phase' = "delete" /\ mixed' = mixed
        /\ files' = [files EXCEPT ![h] = 0] /\ todo' = todo \ {h}
    BY <1>7 DEF Gc!Delete, Gc!NoWrite
  <2>2. Left' = Left /\ h \notin Left
    BY <1>7, DeleteLeaves DEF Left
  <2>3. \A f \in Left \cup todo' : f \in Gc!Names /\ files'[f] = files[f]
    BY <2>1, <2>2 DEF GcInv, Left, Gc!Files
  <2>4. ASSUME NEW f \in todo', Doomed(f) PROVE Doomed(f)'
    <3>1. Newer(f) => Newer(f)'
      BY <2>2, <2>3 DEF Newer, Gc!Suffixes
    <3>2. Later(f) => Later(f)'
      BY <2>2 DEF Later
    <3> QED
      BY <2>4, <3>1, <3>2 DEF Doomed
  <2> QED
    BY <1>4, <2>1, <2>4 DEF OrderInv
<1>8. CASE Gc!RenamesDone
  <2>1. /\ phase = "rename" /\ renames = {} /\ phase' = "idle" /\ mixed' = mixed
        /\ files' = files /\ ~mixed
    BY <1>3, <1>8 DEF Gc!RenamesDone
  <2>2. \A f \in Gc!Files : f[2] = 0
    BY <2>1, SettledIsCanonical DEF SettleInv
  <2>3. files \in [Gc!Names -> Nat] /\ \A n \in Gc!Suffixes : n \in Nat
    BY DEF GcInv, Gc!Suffixes
  <2>4. ASSUME NEW c \in Gc!Canonicals, NEW n \in Gc!Suffixes, files[<<c, n>>] # Gc!NoWrite
        PROVE  n = 0 /\ files[<<c, n>>] > 0 /\ \A m \in Gc!Suffixes : ~(m < n)
    <3> DEFINE f == <<c, n>>
    <3>1. f \in Gc!Names /\ f[2] = n
      BY DEF Gc!Names
    <3>2. f \in Gc!Files /\ files[f] \in Nat /\ files[f] # 0
      BY <2>3, <2>4, <3>1 DEF Gc!Files, Gc!NoWrite
    <3> HIDE DEF f
    <3>3. n = 0 /\ files[f] > 0
      BY <2>2, <3>1, <3>2
    <3> QED
      BY <2>3, <3>3 DEF f
  <2>5. Ordered
    BY <2>4 DEF Ordered
  <2>6. Ordered'
    BY <2>1, <2>5 DEF Ordered, Gc!Canonicals, Gc!Suffixes
  <2> QED
    BY <2>1, <2>6
<1>9. CASE Gc!EndWrite \/ UNCHANGED gcVars
  <2>1. files' = files /\ todo' = todo /\ mixed' = mixed /\ phase' = phase
    BY <1>9 DEF Gc!EndWrite, gcVars
  <2>2. Ordered => Ordered'
    BY <2>1 DEF Ordered, Gc!Canonicals, Gc!Suffixes
  <2>3. Left' = Left
    BY <2>1 DEF Left, Gc!Files
  <2>4. \A f : Doomed(f) => Doomed(f)'
    BY <2>1, <2>3 DEF Doomed, Newer, Later, Gc!Suffixes
  <2> QED
    BY <1>4, <2>1, <2>2, <2>4 DEF OrderInv
<1>10. CASE Gc!DeletesDone \/ \E f \in renames : Gc!Rename(f)
  BY <1>10 DEF Gc!DeletesDone, Gc!Rename
<1>11. CASE Gc!Die
  BY <1>3, <1>11 DEF Gc!Die
<1> QED
  BY <1>5, <1>6, <1>7, <1>8, <1>9, <1>10, <1>11 DEF Gc!Next

(* What is doomed and still there is superseded, aged out or outdated.     *)
LEMMA DoomedIsOlder ==
  ASSUME GcInv, Gc!BoundsAssumption, NEW f \in todo, phase = "delete", Doomed(f),
         SettleInv, ~mixed,
         f[1] \in Gc!Survivors, ~Gc!Exact(f[1].kind)
  PROVE  \/ f[1] \in Gc!Superseded \/ Gc!Class(f[1]) = "ephemeral"
         \/ \E n \in Gc!Of(f[1]) : <<f[1], n>> \notin todo /\ files[<<f[1], n>>] > files[f]
<1>1. Gc!Verdict(f[1], 0) = "candidate"
  BY VerdictOfNames DEF Gc!Survivors
<1>2. CASE Newer(f)
  BY <1>2 DEF Newer, Left, Gc!Files, Gc!Of
<1>3. CASE Gc!Class(f[1]) = "snapshot" /\ Later(f)
  <2>1. PICK g \in Left : Sibling(f[1], g[1]) /\ g[1].date > f[1].date
    BY <1>3 DEF Later
  <2>2. g[1] \in Gc!Present
    BY <2>1 DEF Left, Gc!Present
  <2>3. ~Gc!Exact(g[1].kind)
    BY <2>1 DEF Sibling
  <2>4. Gc!Verdict(g[1], 0) = "candidate"
    BY DEF SettleInv, Settled
  <2>5. Gc!Verdict(g[1], Gc!FirstOf(g[1])) = "candidate"
    BY <2>3, <2>4, VerdictOfNames
  <2>6. g[1] \in Gc!Survivors
    BY <2>2, <2>5 DEF Gc!Survivors
  <2> QED
    BY <1>3, <2>1, <2>6 DEF Gc!Superseded, Sibling
<1> QED
  BY <1>1, <1>2, <1>3 DEF Doomed

(* The newest copy is kept: as long as no GC was killed half-way and no    *)
(* stage wrote beside one, a plan takes of a name it keeps only copies     *)
(* older than the one it leaves.                                           *)
THEOREM NewestCopyKeptAlways == MCSpec => []NewestCopyKept
<1> USE RetentionAssumption
<1> DEFINE Inv == GcInv /\ SettleInv /\ OrderInv
<1>1. MCInit => Inv
  <2> SUFFICES ASSUME Gc!Init PROVE Inv
    BY DEF MCInit
  <2>1. GcInv /\ SettleInv
    BY DEF Gc!Init, GcInv, SettleInv, Gc!NoWrite
  <2>2. \A f \in Gc!Names : files[f] = 0
    BY DEF Gc!Init, Gc!NoWrite
  <2>3. Ordered
    BY <2>2 DEF Ordered, Gc!NoWrite, Gc!Names
  <2> QED
    BY <2>1, <2>2, <2>3 DEF OrderInv, Gc!Init
<1>2. Inv /\ [MCNext]_allVars => Inv'
  <2>1. [MCNext]_allVars => [Gc!Next]_gcVars
    BY DEF MCNext, allVars
  <2> QED
    BY <2>1, GcStep, SettleStep, OrderStep
<1>3. Inv => NewestCopyKept
  BY DoomedIsOlder DEF NewestCopyKept, Gc!NewestCopyKept, OrderInv
<1> QED
  BY <1>1, <1>2, <1>3, PTL DEF MCSpec
==============================================================================
