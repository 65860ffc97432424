------------------------- MODULE ShadowAudit_proofs --------------------------
(***************************************************************************)
(* The shadow portfolio, for any numbers of runs, tiers, dates and trades. *)
(*                                                                         *)
(* First its files under crashes, when one process runs at a time          *)
(* (Serialized): the state file stays readable, no trade id is reused and  *)
(* no log is ahead of the state.  The order "rename, then append" is what  *)
(* the argument rests on.                                                  *)
(*                                                                         *)
(* Then its engine, for any prices, capital, slots and trail: money is     *)
(* conserved, the quarterly history is what the snapshots say, and a run   *)
(* made again does nothing.  The folds of the rules are opened once, as    *)
(* running sums and lists (Worth, Those, Enter); the rest of the argument  *)
(* is about what one update of a tier keeps.                               *)
(***************************************************************************)
EXTENDS MCShadow, NatSets, FiniteSetTheorems, TLAPS

LEMMA TypeInit == Init => TypeOK
  BY DEF Init, TypeOK, Fresh, Books, NoRows, Procs

LEMMA RowsType == ASSUME NEW w \in [base : Nat, n : Nat] PROVE Rows(w) \in Seq(Nat)
<1>1. \A i \in 1 .. w.n : w.base + i \in Nat
  OBVIOUS
<1>2. w.n \in Nat
  OBVIOUS
<1> QED
  BY <1>1, <1>2 DEF Rows

(* Every step keeps the types.                                             *)
LEMMA TypeStep == TypeOK /\ [Next]_vars => TypeOK'
<1> SUFFICES ASSUME TypeOK, [Next]_vars PROVE TypeOK'
  OBVIOUS
<1> USE BoundsAssumption DEF Goto
<1>1. ASSUME NEW i \in Inits, InitStart(i) \/ InitOpen(i) \/ InitDump(i) PROVE TypeOK'
  <2>1. Fresh \in Books
    BY DEF Fresh, Books
  <2>2. pc' \in [Procs -> {"new", "iopen", "idump", "engine", "open", "dump",
                           "replace", "append", "done", "dead"}]
    BY <1>1 DEF InitStart, InitOpen, InitDump, TypeOK, Procs
  <2> QED
    BY <1>1, <2>1, <2>2 DEF InitStart, InitOpen, InitDump, TypeOK
<1>2. ASSUME NEW r \in Runs, Load(r) PROVE TypeOK'
  <2>1. pc' \in [Procs -> {"new", "iopen", "idump", "engine", "open", "dump",
                           "replace", "append", "done", "dead"}]
    BY <1>2 DEF Load, TypeOK, Procs
  <2> QED  BY <1>2, <2>1 DEF Load, TypeOK, Readable
<1>3. ASSUME NEW r \in Runs, Engine(r) PROVE TypeOK'
  <2>1. pc' \in [Procs -> {"new", "iopen", "idump", "engine", "open", "dump",
                           "replace", "append", "done", "dead"}]
    BY <1>3 DEF Engine, TypeOK, Procs
  <2>2. PICK n \in [Tiers -> 0 .. MaxTrades] :
          /\ todo' = [todo EXCEPT ![r] =
                         [t \in Tiers |-> [base |-> mem[r].closed[t], n |-> n[t]]]]
          /\ mem' = [mem EXCEPT ![r] =
                        [snaps  |-> mem[r].snaps \cup {date[r]},
                         closed |-> [t \in Tiers |-> mem[r].closed[t] + n[t]]]]
    BY <1>3 DEF Engine
  <2>3. mem[r] \in Books /\ date[r] \in Dates
    BY DEF TypeOK
  <2>4. \A t \in Tiers : mem[r].closed[t] \in Nat /\ n[t] \in Nat
    BY <2>3 DEF Books
  <2>5. [t \in Tiers |-> [base |-> mem[r].closed[t], n |-> n[t]]]
           \in [Tiers -> [base : Nat, n : Nat]]
    BY <2>4
  <2>6. [snaps  |-> mem[r].snaps \cup {date[r]},
         closed |-> [t \in Tiers |-> mem[r].closed[t] + n[t]]] \in Books
    BY <2>3, <2>4 DEF Books
  <2>7. todo' \in [Runs -> [Tiers -> [base : Nat, n : Nat]]] /\ mem' \in [Runs -> Books]
    BY <2>2, <2>5, <2>6 DEF TypeOK
  <2> QED  BY <1>3, <2>1, <2>7 DEF Engine, TypeOK
<1>4. ASSUME NEW r \in Runs, ModeC(r) \/ Open(r) \/ Dump(r) \/ Replace(r) \/ Finish(r)
      PROVE  TypeOK'
  <2>1. pc' \in [Procs -> {"new", "iopen", "idump", "engine", "open", "dump",
                           "replace", "append", "done", "dead"}]
    BY <1>4 DEF ModeC, Open, Dump, Replace, Finish, TypeOK, Procs
  <2>2. mem[r] \in Books
    BY DEF TypeOK
  <2>3. /\ state' \in Books \cup {NoFile, Torn}
        /\ tmp' \in Books \cup {NoFile, Torn}
    BY <1>4, <2>2 DEF ModeC, Open, Dump, Replace, Finish, TypeOK
  <2>4. fd' \in [Runs -> {"tmp", "state", "gone"}]
    BY <1>4 DEF ModeC, Open, Dump, Replace, Finish, TypeOK
  <2> QED
    BY <1>4, <2>1, <2>3, <2>4 DEF ModeC, Open, Dump, Replace, Finish, TypeOK
<1>5. ASSUME NEW r \in Runs, NEW t \in Tiers, AppendTier(r, t) PROVE TypeOK'
  <2>1. todo[r][t] \in [base : Nat, n : Nat] /\ csv[t] \in Seq(Nat)
    BY DEF TypeOK
  <2>2. csv[t] \o Rows(todo[r][t]) \in Seq(Nat)
    BY <2>1, RowsType
  <2>3. csv' \in [Tiers -> Seq(Nat)]
    BY <1>5, <2>2 DEF AppendTier, TypeOK
  <2>4. todo' \in [Runs -> [Tiers -> [base : Nat, n : Nat]]]
    BY <1>5 DEF AppendTier, TypeOK
  <2> QED  BY <1>5, <2>3, <2>4 DEF AppendTier, TypeOK
<1>6. ASSUME NEW p \in Procs, Crash(p) PROVE TypeOK'
  BY <1>6 DEF Crash, TypeOK
<1>7. CASE UNCHANGED vars
  BY <1>7 DEF vars, TypeOK
<1> QED
  BY <1>1, <1>2, <1>3, <1>4, <1>5, <1>6, <1>7 DEF Next

(* Type correctness of the files and of every process, concurrent or not.  *)
THEOREM TypeCorrect == Spec => []TypeOK
  BY TypeInit, TypeStep, PTL DEF Spec

------------------------------------------------------------------------------
(* The strengthening, under Serialized.  At most one process is at work;   *)
(* what it read is still there, and what it has computed continues it.     *)
AtMostOne == \A p, q \in Procs : Active(p) /\ Active(q) => p = q

(* Computed, not yet saved: the new books extend the saved ones by the     *)
(* rows to append.                                                         *)
Extends(r) ==
    /\ Readable(state)
    /\ state.snaps \subseteq mem[r].snaps
    /\ \A t \in Tiers : /\ todo[r][t].base = state.closed[t]
                        /\ mem[r].closed[t] = state.closed[t] + todo[r][t].n

(* Saved: the rows to append are the last ones counted, and the log has    *)
(* none of them.                                                           *)
Owed(r) ==
    /\ Readable(state)
    /\ \A t \in Tiers : todo[r][t].n > 0 =>
          /\ todo[r][t].base + todo[r][t].n = state.closed[t]
          /\ \A i \in DOMAIN csv[t] : csv[t][i] <= todo[r][t].base

RunInv(r) ==
    /\ pc[r] = "engine" => Readable(state) /\ mem[r] = state
    /\ pc[r] \in {"open", "dump", "replace"} => Extends(r)
    /\ pc[r] = "dump" => fd[r] = "tmp"
    /\ pc[r] = "replace" => tmp = mem[r]
    /\ pc[r] = "append" => Owed(r)

InitInv(i) ==
    /\ pc[i] = "iopen" => state = NoFile
    /\ pc[i] = "idump" => state = Torn

Inv ==
    /\ TypeOK
    /\ AtMostOne
    /\ \A r \in Runs : RunInv(r)
    /\ \A i \in Inits : InitInv(i)
    /\ UniqueTradeIds
    /\ LogNeverAhead

LEMMA InvInit == Init => Inv
<1> SUFFICES ASSUME Init PROVE Inv
  OBVIOUS
<1>1. AtMostOne /\ (\A r \in Runs : RunInv(r)) /\ (\A i \in Inits : InitInv(i))
  BY DEF Init, AtMostOne, Active, RunInv, InitInv, Procs
<1>2. UniqueTradeIds /\ LogNeverAhead
  BY DEF Init, UniqueTradeIds, LogNeverAhead
<1> QED
  BY <1>1, <1>2, TypeInit DEF Inv

(* A process that starts finds nobody at work, and one at work is alone.   *)
LEMMA AlonePreserved ==
    ASSUME Serialized, Inv, [Next]_vars PROVE AtMostOne'
<1> USE DEF AtMostOne, Active, Goto, MayStart
<1>1. ASSUME NEW p \in Procs, NEW s, Goto(p, s), Active(p) \/ MayStart PROVE AtMostOne'
  BY <1>1, Serialized DEF Inv, TypeOK
<1>2. CASE UNCHANGED vars
  BY <1>2 DEF vars, Inv
<1>3. ASSUME NEW i \in Inits, InitStart(i) \/ InitOpen(i) \/ InitDump(i) PROVE AtMostOne'
  <2>1. i \in Procs
    BY DEF Procs
  <2> QED
    BY <1>1, <1>3, <2>1 DEF InitStart, InitOpen, InitDump
<1>4. ASSUME NEW r \in Runs, Load(r) \/ Engine(r) \/ ModeC(r) \/ Open(r) \/ Dump(r)
                             \/ Replace(r) \/ Finish(r)
      PROVE  AtMostOne'
  <2>1. r \in Procs
    BY DEF Procs
  <2> QED
    BY <1>1, <1>4, <2>1 DEF Load, Engine, ModeC, Open, Dump, Replace, Finish
<1>5. ASSUME NEW r \in Runs, NEW t \in Tiers, AppendTier(r, t) PROVE AtMostOne'
  BY <1>5 DEF AppendTier, Inv
<1>6. ASSUME NEW p \in Procs, Crash(p) PROVE AtMostOne'
  BY <1>1, <1>6 DEF Crash
<1> QED
  BY <1>2, <1>3, <1>4, <1>5, <1>6 DEF Next

(* The processes that did not move are not at work, so nothing is claimed  *)
(* of them.                                                                *)
LEMMA Others ==
    ASSUME Inv, NEW p \in Procs, NEW s, Goto(p, s), Active(p) \/ \A q \in Procs : ~Active(q)
    PROVE  /\ \A r \in Runs : r # p => RunInv(r)'
           /\ \A i \in Inits : i # p => InitInv(i)'
           /\ pc'[p] = s
  BY DEF Inv, TypeOK, AtMostOne, Active, Goto, RunInv, InitInv, Procs

(* Appending the rows base + 1 .. base + n to a log that is increasing and *)
(* nowhere above base: it stays increasing and nowhere above base + n.     *)
LEMMA AppendRows ==
    ASSUME NEW s \in Seq(Nat), NEW w \in [base : Nat, n : Nat],
           \A i, j \in DOMAIN s : i < j => s[i] < s[j],
           \A i \in DOMAIN s : s[i] <= w.base
    PROVE  /\ \A i, j \in DOMAIN (s \o Rows(w)) :
                i < j => (s \o Rows(w))[i] < (s \o Rows(w))[j]
           /\ \A i \in DOMAIN (s \o Rows(w)) : (s \o Rows(w))[i] <= w.base + w.n
<1> DEFINE l == s \o Rows(w)
<1>1. Rows(w) \in Seq(Nat) /\ Len(Rows(w)) = w.n
  BY RowsType DEF Rows
<1>2. w.base \in Nat /\ w.n \in Nat
  OBVIOUS
<1>3. l \in Seq(Nat) /\ Len(l) = Len(s) + w.n
  <2>1. \A r \in Seq(Nat) : s \o r \in Seq(Nat) /\ Len(s \o r) = Len(s) + Len(r)
    OBVIOUS
  <2> QED  BY <1>1, <2>1
<1>4. \A i \in 1 .. Len(s) : l[i] = s[i]
  <2>1. \A r \in Seq(Nat) : \A i \in 1 .. Len(s) : (s \o r)[i] = s[i]
    OBVIOUS
  <2> QED  BY <1>1, <2>1
<1>5. \A i \in Len(s) + 1 .. Len(s) + w.n : l[i] = w.base + (i - Len(s))
  <2>1. \A r \in Seq(Nat) : \A i \in Len(s) + 1 .. Len(s) + Len(r) :
          (s \o r)[i] = r[i - Len(s)]
    OBVIOUS
  <2>2. \A i \in 1 .. w.n : Rows(w)[i] = w.base + i
    BY DEF Rows
  <2>3. \A i \in Len(s) + 1 .. Len(s) + w.n : i - Len(s) \in 1 .. w.n
    BY <1>2
  <2> QED  BY <1>1, <2>1, <2>2, <2>3
<1>6. \A i \in 1 .. Len(s) : i \in DOMAIN s /\ s[i] \in Nat
  OBVIOUS
<1>7. ASSUME NEW i \in DOMAIN l PROVE i \in 1 .. Len(s) \/ i \in Len(s) + 1 .. Len(s) + w.n
  BY <1>2, <1>3
<1> HIDE DEF l
<1>8. \A i \in DOMAIN l : l[i] <= w.base + w.n
  BY <1>2, <1>4, <1>5, <1>6, <1>7
<1>9. ASSUME NEW i \in DOMAIN l, NEW j \in DOMAIN l, i < j PROVE l[i] < l[j]
  <2>1. CASE j \in 1 .. Len(s)
    <3>1. i \in 1 .. Len(s)
      BY <1>7, <1>9, <2>1
    <3> QED  BY <1>4, <1>6, <1>9, <2>1, <3>1
  <2>2. CASE j \in Len(s) + 1 .. Len(s) + w.n
    <3>1. CASE i \in 1 .. Len(s)
      BY <1>2, <1>4, <1>5, <1>6, <2>2, <3>1
    <3>2. CASE i \in Len(s) + 1 .. Len(s) + w.n
      BY <1>2, <1>5, <1>9, <2>2, <3>2
    <3> QED  BY <1>7, <3>1, <3>2
  <2> QED  BY <1>7, <2>1, <2>2
<1> QED
  BY <1>8, <1>9 DEF l

LEMMA InvStep == ASSUME Serialized, Inv, [Next]_vars PROVE Inv'
<1> DEFINE Work == (\A r \in Runs : RunInv(r)) /\ (\A i \in Inits : InitInv(i))
           Rest == UniqueTradeIds /\ LogNeverAhead
<1>1. SUFFICES Work' /\ Rest'
  BY TypeStep, AlonePreserved DEF Inv
<1> HIDE DEF Work, Rest
<1>2. Runs \subseteq Procs /\ Inits \subseteq Procs /\ Runs \cap Inits = {}
  BY ProcsAssumption DEF Procs
<1>3. Fresh \in Books /\ NoFile # Torn /\ NoFile \notin Books /\ Torn \notin Books
  BY SentinelAssumption DEF Fresh, Books
<1>4. ASSUME NEW i \in Inits, InitStart(i) \/ InitOpen(i) \/ InitDump(i) PROVE Work' /\ Rest'
  <2>1. PICK s : Goto(i, s)
    BY <1>4 DEF InitStart, InitOpen, InitDump
  <2>2. Active(i) \/ \A q \in Procs : ~Active(q)
    BY <1>4, Serialized DEF InitStart, InitOpen, InitDump, Active, MayStart
  <2>3. \A r \in Runs : RunInv(r)'
    BY <1>2, <2>1, <2>2, Others
  <2>4. InitInv(i)'
    BY <1>2, <1>4 DEF InitStart, InitOpen, InitDump, Goto, InitInv, Inv, TypeOK
  <2>5. Work'
    BY <1>2, <2>1, <2>2, <2>3, <2>4, Others DEF Work
  <2>6. ~Readable(state) => \A t \in Tiers : csv[t] = << >>
    BY DEF Inv, LogNeverAhead
  <2>7. state' = state \/ ~Readable(state)
    BY <1>3, <1>4 DEF InitStart, InitOpen, InitDump, Readable, Inv, InitInv
  <2>8. Rest'
    BY <1>4, <2>6, <2>7 DEF InitStart, InitOpen, InitDump, Rest, Inv, UniqueTradeIds,
                            LogNeverAhead, Readable
  <2> QED  BY <2>5, <2>8
<1>5. ASSUME NEW r \in Runs, Load(r) \/ ModeC(r) \/ Open(r) \/ Finish(r) PROVE Work' /\ Rest'
  <2>1. PICK s : Goto(r, s)
    BY <1>5 DEF Load, ModeC, Open, Finish
  <2>2. Active(r) \/ \A q \in Procs : ~Active(q)
    BY <1>5, Serialized DEF Load, ModeC, Open, Finish, Active, MayStart
  <2>3. RunInv(r)'
    BY <1>2, <1>5 DEF Load, ModeC, Open, Finish, Goto, RunInv, Extends, Readable, Inv, TypeOK
  <2>4. Work'
    BY <1>2, <2>1, <2>2, <2>3, Others DEF Work
  <2>5. Rest'
    BY <1>5 DEF Load, ModeC, Open, Finish, Rest, Inv, UniqueTradeIds, LogNeverAhead, Readable
  <2> QED  BY <2>4, <2>5
<1>6. ASSUME NEW r \in Runs, Engine(r) PROVE Work' /\ Rest'
  <2>1. Goto(r, "open") /\ Active(r)
    BY <1>6 DEF Engine, Active
  <2>2. PICK n \in [Tiers -> 0 .. MaxTrades] :
          /\ todo' = [todo EXCEPT ![r] =
                         [t \in Tiers |-> [base |-> mem[r].closed[t], n |-> n[t]]]]
          /\ mem' = [mem EXCEPT ![r] =
                        [snaps  |-> mem[r].snaps \cup {date[r]},
                         closed |-> [t \in Tiers |-> mem[r].closed[t] + n[t]]]]
    BY <1>6 DEF Engine
  <2>3. Readable(state) /\ mem[r] = state /\ state' = state
    BY <1>6 DEF Engine, Inv, RunInv
  <2>4. Extends(r)'
    BY <2>2, <2>3 DEF Extends, Readable, Inv, TypeOK
  <2>5. RunInv(r)'
    BY <1>2, <2>1, <2>4 DEF RunInv, Goto, Inv, TypeOK
  <2>6. Work'
    BY <1>2, <2>1, <2>5, Others DEF Work
  <2>7. Rest'
    BY <1>6 DEF Engine, Rest, Inv, UniqueTradeIds, LogNeverAhead, Readable
  <2> QED  BY <2>6, <2>7
<1>7. ASSUME NEW r \in Runs, Dump(r) PROVE Work' /\ Rest'
  <2>1. Goto(r, "replace") /\ Active(r)
    BY <1>7 DEF Dump, Active
  <2>2. tmp' = mem[r] /\ state' = state /\ Extends(r)
    BY <1>7 DEF Dump, Inv, RunInv
  <2>3. RunInv(r)'
    BY <1>2, <1>7, <2>1, <2>2 DEF Dump, RunInv, Goto, Extends, Readable, Inv, TypeOK
  <2>4. Work'
    BY <1>2, <2>1, <2>3, Others DEF Work
  <2>5. Rest'
    BY <1>7, <2>2 DEF Dump, Rest, Inv, UniqueTradeIds, LogNeverAhead, Readable
  <2> QED  BY <2>4, <2>5
<1>8. ASSUME NEW r \in Runs, Replace(r) PROVE Work' /\ Rest'
  <2>1. Active(r) /\ tmp = mem[r] /\ Extends(r) /\ mem[r] \in Books
    BY <1>8 DEF Replace, Active, Inv, RunInv, TypeOK
  <2>2. /\ Goto(r, "append")
        /\ state' = mem[r]
        /\ UNCHANGED <<csv, todo>>
    BY <1>3, <1>8, <2>1 DEF Replace
  <2>3. todo[r] \in [Tiers -> [base : Nat, n : Nat]] /\ state.closed \in [Tiers -> Nat]
    BY <2>1 DEF Inv, TypeOK, Extends, Readable, Books
  <2>4. \A t \in Tiers : \A i \in DOMAIN csv[t] :
          csv[t][i] \in Nat /\ csv[t][i] <= state.closed[t]
    BY DEF Inv, LogNeverAhead, TypeOK
  <2>5. Owed(r)'
    BY <2>1, <2>2, <2>3, <2>4 DEF Extends, Owed, Readable
  <2>6. RunInv(r)'
    BY <1>2, <2>2, <2>5 DEF RunInv, Goto, Inv, TypeOK
  <2>7. Work'
    BY <1>2, <2>1, <2>2, <2>6, Others DEF Work
  <2>8. ASSUME NEW t \in Tiers, NEW i \in DOMAIN csv[t] PROVE csv[t][i] <= mem[r].closed[t]
    <3>1. mem[r].closed[t] = state.closed[t] + todo[r][t].n
      BY <2>1 DEF Extends
    <3>2. todo[r][t].n \in Nat /\ state.closed[t] \in Nat
      BY <2>3
    <3> QED  BY <2>4, <3>1, <3>2
  <2>9. Rest'
    BY <2>1, <2>2, <2>8 DEF Rest, Inv, UniqueTradeIds, LogNeverAhead, Readable
  <2> QED  BY <2>7, <2>9
<1>9. ASSUME NEW r \in Runs, NEW t \in Tiers, AppendTier(r, t) PROVE Work' /\ Rest'
  <2> DEFINE w == todo[r][t]
  <2>1. /\ csv[t] \in Seq(Nat) /\ w \in [base : Nat, n : Nat]
        /\ Owed(r)
        /\ \A i, j \in DOMAIN csv[t] : i < j => csv[t][i] < csv[t][j]
    BY <1>9 DEF AppendTier, Inv, TypeOK, RunInv, UniqueTradeIds
  <2>2. w.base + w.n = state.closed[t] /\ \A i \in DOMAIN csv[t] : csv[t][i] <= w.base
    BY <1>9, <2>1 DEF AppendTier, Owed
  <2>3. /\ csv' = [csv EXCEPT ![t] = @ \o Rows(w)]
        /\ todo' = [todo EXCEPT ![r][t] = [base |-> 0, n |-> 0]]
        /\ UNCHANGED <<state, tmp, pc, date, mem, fd>>
        /\ pc[r] = "append"
    BY <1>9 DEF AppendTier
  <2>4. csv'[t] = csv[t] \o Rows(w) /\ \A u \in Tiers \ {t} : csv'[u] = csv[u]
    BY <2>3 DEF Inv, TypeOK
  <2>5. Rest'
    <3>1. UniqueTradeIds'
      BY <2>1, <2>2, <2>4, AppendRows DEF UniqueTradeIds, Inv
    <3>2. \A u \in Tiers : \A i \in DOMAIN csv'[u] : csv'[u][i] <= state.closed[u]
      <4>1. \A i \in DOMAIN csv'[t] : csv'[t][i] <= state.closed[t]
        BY <2>1, <2>2, <2>4, AppendRows
      <4>2. ASSUME NEW u \in Tiers \ {t}, NEW i \in DOMAIN csv'[u]
            PROVE  csv'[u][i] <= state.closed[u]
        BY <2>4, <4>2 DEF Inv, LogNeverAhead
      <4> QED  BY <4>1, <4>2
    <3> QED
      BY <2>1, <2>3, <3>1, <3>2 DEF Rest, LogNeverAhead, Owed, Readable
  <2>6. RunInv(r)'
    <3>1. /\ todo'[r][t] = [base |-> 0, n |-> 0]
          /\ \A u \in Tiers \ {t} : todo'[r][u] = todo[r][u]
      BY <2>3 DEF Inv, TypeOK
    <3>2. ASSUME NEW u \in Tiers, todo'[r][u].n > 0
          PROVE  /\ todo'[r][u].base + todo'[r][u].n = state.closed[u]
                 /\ \A i \in DOMAIN csv'[u] : csv'[u][i] <= todo'[r][u].base
      <4>1. u # t
        BY <3>1, <3>2
      <4> QED  BY <2>1, <2>4, <3>1, <3>2, <4>1 DEF Owed
    <3>3. Owed(r)'
      BY <2>1, <2>3, <3>2 DEF Owed, Readable
    <3> QED
      BY <2>3, <3>3 DEF RunInv
  <2>7. /\ \A q \in Runs : q # r => RunInv(q)'
        /\ \A i \in Inits : InitInv(i)'
    <3>1. \A q \in Procs : q # r => ~Active(q)
      BY <1>2, <2>3 DEF Inv, AtMostOne, Active
    <3> QED
      BY <1>2, <2>3, <3>1 DEF RunInv, InitInv, Active
  <2> QED  BY <2>5, <2>6, <2>7 DEF Work
<1>10. ASSUME NEW p \in Procs, Crash(p) PROVE Work' /\ Rest'
  <2>1. Goto(p, "dead") /\ Active(p)
    BY <1>10 DEF Crash
  <2>2. pc'[p] = "dead"
    BY <2>1, Others
  <2>3. Work'
    BY <1>2, <2>1, <2>2, Others DEF Work, RunInv, InitInv
  <2>4. Rest'
    BY <1>10 DEF Crash, Rest, Inv, UniqueTradeIds, LogNeverAhead, Readable
  <2> QED  BY <2>3, <2>4
<1>11. CASE UNCHANGED vars
  BY <1>11 DEF vars, Work, Rest, Inv, RunInv, InitInv, Extends, Owed, UniqueTradeIds,
               LogNeverAhead, Readable
<1> QED
  BY <1>4, <1>5, <1>6, <1>7, <1>8, <1>9, <1>10, <1>11 DEF Next

(* No trade id is used twice, whatever dies when, as long as one process   *)
(* runs at a time: the log is written after the state that counts it.      *)
THEOREM UniqueTradeIdsAlways == ASSUME Serialized PROVE Spec => []UniqueTradeIds
<1>1. Inv /\ [Next]_vars => Inv'
  BY InvStep
<1>2. Inv => UniqueTradeIds
  BY DEF Inv
<1> QED
  BY <1>1, <1>2, InvInit, PTL DEF Spec

(* No log records a trade the state file does not count.                   *)
THEOREM LogNeverAheadAlways == ASSUME Serialized PROVE Spec => []LogNeverAhead
<1>1. Inv /\ [Next]_vars => Inv'
  BY InvStep
<1>2. Inv => LogNeverAhead
  BY DEF Inv
<1> QED
  BY <1>1, <1>2, InvInit, PTL DEF Spec

(* What a step of the invariant's states may do to the state file: leave   *)
(* it, write one where none was readable, or extend it.                    *)
LEMMA FileStep ==
    ASSUME Serialized, Inv, [Next]_vars, Readable(state)
    PROVE  /\ Readable(state')
           /\ state.snaps \subseteq state'.snaps
           /\ \A t \in Tiers : state.closed[t] <= state'.closed[t]
<1>1. CASE state' = state
  BY <1>1 DEF Readable, Books
<1>2. CASE state' # state
  <2>1. PICK r \in Runs : Replace(r)
    <3>1. NoFile \notin Books /\ Torn \notin Books
      BY SentinelAssumption
    <3>2. \A i \in Inits : ~InitOpen(i) /\ ~InitDump(i)
      BY <3>1 DEF InitOpen, InitDump, Readable, Inv, InitInv
    <3>3. \A r \in Runs : Dump(r) => state' = state
      BY DEF Dump, Inv, RunInv
    <3> QED
      BY <1>2, <3>2, <3>3 DEF Next, vars, InitStart, Load, Engine, ModeC, Open, AppendTier,
                              Finish, Crash
  <2>2. tmp = mem[r] /\ Extends(r) /\ mem[r] \in Books
    BY <2>1 DEF Replace, Inv, RunInv, TypeOK
  <2>3. state' = mem[r]
    BY <1>2, <2>1, <2>2 DEF Replace
  <2>4. \A t \in Tiers : todo[r][t].n \in Nat /\ state.closed[t] \in Nat
    BY DEF Inv, TypeOK, Readable, Books
  <2> QED
    BY <2>2, <2>3, <2>4 DEF Extends, Readable
<1> QED
  BY <1>1, <1>2

(* A state file that parses keeps parsing.                                 *)
THEOREM StaysReadableAlways == ASSUME Serialized PROVE Spec => StaysReadable
<1>1. Inv /\ [Next]_vars => Inv'
  BY InvStep
<1>2. Inv /\ [Next]_vars => [Readable(state) => Readable(state')]_vars
  BY FileStep
<1> QED
  BY <1>1, <1>2, InvInit, PTL DEF Spec, StaysReadable

(* No step tears the state file or drops a snapshot or a counted trade.    *)
THEOREM HistoryAccumulatesAlways == ASSUME Serialized PROVE Spec => HistoryAccumulates
<1>1. Inv /\ [Next]_vars => Inv'
  BY InvStep
<1>2. Inv /\ [Next]_vars =>
        [Readable(state) =>
            /\ Readable(state')
            /\ state.snaps \subseteq state'.snaps
            /\ \A t \in Tiers : state.closed[t] <= state'.closed[t]]_vars
  BY FileStep
<1> QED
  BY <1>1, <1>2, InvInit, PTL DEF Spec, HistoryAccumulates
------------------------------------------------------------------------------
(* The engine.  A tier, the inputs of a run.                               *)
Holding == [ticker : Tickers, cost : Nat \ {0}, price : Nat \ {0}, entry : Nat]
Closure == [quarter : Nat, from : Nat, to : Nat]
Tier    == [cash : Nat, holdings : Seq(Holding), closed : Nat, nav : Nat,
            quarters : Seq(Closure)]
Input   == [date : Nat, prices : [Tickers -> Nat],
            catalysts : Seq([ticker : Tickers, primary : BOOLEAN]),
            recs : Seq([ticker : Tickers, quarters : Nat]),
            triggered : SUBSET Tickers, sample : Seq(Tickers)]

(* What the holdings are worth, and the fold that adds it up.              *)
Worth(in, hs) == Portfolio!SumOf(hs, LAMBDA h : Portfolio!Value(in, h))
WorthFold(in, hs, it) ==
    it = [S \in SUBSET DOMAIN hs |->
             IF S = {} THEN 0
             ELSE it[S \ {Greatest(S)}] + Portfolio!Value(in, hs[Greatest(S)])]

(* The worth of a list is that recursion on all its positions.             *)
LEMMA WorthIsFold ==
  \A in, hs : Worth(in, hs) = (CHOOSE it : WorthFold(in, hs, it))[DOMAIN hs]
  BY DEF Worth, WorthFold, Portfolio!SumOf, Portfolio!FoldLeft, Portfolio!MapThenFoldSet, Portfolio!Max, Greatest

(* A NAV is the cash and the worth of the holdings.                        *)
LEMMA NavIs == \A in, tier : Portfolio!Nav(in, tier) = tier.cash + Worth(in, tier.holdings)
  BY DEF Worth, Portfolio!Nav

(* The value of a holding is a number, its cost at its entry price.        *)
LEMMA ValueNat ==
  ASSUME NEW in \in Input, NEW h \in Holding
  PROVE  /\ Portfolio!Value(in, h) \in Nat
         /\ in.prices[h.ticker] = h.price => Portfolio!Value(in, h) = h.cost
<1> DEFINE p == in.prices[h.ticker]
           v == (h.cost * p) \div h.price
<1>1. p \in Nat /\ h.cost \in Nat /\ h.price \in Nat /\ h.price > 0 /\ h.price # 0
  BY DEF Input, Holding
<1>2. Portfolio!Value(in, h) = IF p # NoPrice THEN v ELSE h.cost
  BY DEF Portfolio!Value, Portfolio!Priced
<1> HIDE DEF p
<1>3. h.cost * p \in Nat
  BY <1>1
<1>4. v \in Nat
  <2> DEFINE w == h.cost * p
  <2> HIDE DEF w
  <2> SUFFICES w \div h.price \in Nat
    BY DEF w
  <2> QED BY <1>1, <1>3 DEF w
<1>5. p = h.price => v = h.cost
  <2> SUFFICES ASSUME p = h.price PROVE (h.cost * h.price) \div h.price = h.cost
    OBVIOUS
  <2> QED BY <1>1
<1> HIDE DEF v
<1> QED
  BY <1>1, <1>2, <1>4, <1>5 DEF p

(* Worth is a running sum over the holdings.                               *)
WorthRun(in, hs, f) ==
    /\ f \in [0 .. Len(hs) -> Nat] /\ f[0] = 0
    /\ \A n \in 1 .. Len(hs) : f[n] = f[n - 1] + Portfolio!Value(in, hs[n])

(* A worth as the last of its partial sums.                                *)
LEMMA WorthRuns ==
  ASSUME NEW in \in Input, NEW hs \in Seq(Holding)
  PROVE  \E f : WorthRun(in, hs, f) /\ Worth(in, hs) = f[Len(hs)]
<1> DEFINE L == Len(hs)
           V(n) == Portfolio!Value(in, hs[n])
           st == [n \in 1 .. L |-> [x \in Nat |-> x + V(n)]]
           it == CHOOSE x : WorthFold(in, hs, x)
           f == [n \in 0 .. L |-> it[1 .. n]]
<1>1. L \in Nat /\ DOMAIN hs = 1 .. L
  OBVIOUS
<1>2. \A n \in 1 .. L : V(n) \in Nat
  BY ValueNat
<1> HIDE DEF V, L
<1>3. st \in [1 .. L -> [Nat -> Nat]]
  BY <1>2
<1>4. PICK it0 \in [SUBSET (1 .. L) -> Nat] : FoldsRange(it0, L, 0, st)
  <2> HIDE DEF st
  <2> QED BY <1>1, <1>3, FoldExists
<1>5. \A S \in SUBSET (1 .. L) : S # {} => Greatest(S) \in S
  BY <1>1, GreatestIn
<1>6. WorthFold(in, hs, it0)
  <2>1. \A S \in SUBSET (1 .. L) : it0[S] = IF S = {} THEN 0 ELSE it0[S \ {Greatest(S)}] + V(Greatest(S))
    BY <1>4, <1>5 DEF FoldsRange
  <2> QED
    BY <1>1, <1>4, <2>1 DEF WorthFold, V
<1>7. WorthFold(in, hs, it)
  BY <1>6
<1> HIDE DEF it
<1>8. \A S \in SUBSET (1 .. L) : it[S] = IF S = {} THEN 0 ELSE it[S \ {Greatest(S)}] + V(Greatest(S))
  BY <1>1, <1>7 DEF WorthFold, V
<1>9. it[{}] = 0 /\ 1 .. 0 = {}
  <2>1. {} \in SUBSET (1 .. L)
    OBVIOUS
  <2>2. it[{}] = 0
    BY <1>8, <2>1, Zenon
  <2> QED BY <2>2
<1>10. \A n \in 1 .. L : it[1 .. n] = it[1 .. n - 1] + V(n)
  <2> SUFFICES ASSUME NEW n \in 1 .. L PROVE it[1 .. n] = it[1 .. n - 1] + V(n)
    OBVIOUS
  <2>1. Greatest(1 .. n) = n /\ (1 .. n) \ {n} = 1 .. n - 1 /\ 1 .. n # {}
    BY GreatestOfRange
  <2> QED BY <1>1, <1>8, <2>1, SMTT(30)
<1>11. f \in [0 .. L -> Nat]
  <2>1. \A n \in 1 .. L : it[1 .. n - 1] \in Nat => it[1 .. n] \in Nat
    BY <1>2, <1>10
  <2>2. L \in Nat /\ it[{}] = 0 /\ 0 \in Nat
    BY <1>1, <1>9
  <2>3. \A n \in 0 .. L : it[1 .. n] \in Nat
    BY <2>1, <2>2, FoldAlong
  <2> QED BY <2>3
<1>12. f[0] = 0 /\ (\A n \in 1 .. L : f[n] = f[n - 1] + V(n)) /\ f[L] = it[1 .. L]
  BY <1>1, <1>9, <1>10
<1>13. Worth(in, hs) = f[L]
  BY <1>1, <1>12, WorthIsFold DEF it
<1> HIDE DEF f
<1> QED
  BY <1>11, <1>12, <1>13 DEF WorthRun, L, V

(* No holdings are worth nothing; a holding more adds its value.           *)
LEMMA WorthNat ==
  ASSUME NEW in \in Input, NEW hs \in Seq(Holding)
  PROVE  Worth(in, hs) \in Nat /\ (hs = << >> => Worth(in, hs) = 0)
<1>1. PICK f : WorthRun(in, hs, f) /\ Worth(in, hs) = f[Len(hs)]
  BY WorthRuns
<1>2. Len(hs) \in 0 .. Len(hs) /\ (hs = << >> => Len(hs) = 0)
  OBVIOUS
<1> QED
  BY <1>1, <1>2 DEF WorthRun

(* One holding more is worth its value more.                               *)
LEMMA WorthAppend ==
  ASSUME NEW in \in Input, NEW hs \in Seq(Holding), NEW h \in Holding
  PROVE  Worth(in, Append(hs, h)) = Worth(in, hs) + Portfolio!Value(in, h)
<1> DEFINE L == Len(hs)
           more == Append(hs, h)
<1>1. more \in Seq(Holding) /\ Len(more) = L + 1 /\ L \in Nat /\ more[L + 1] = h
      /\ \A n \in 1 .. L : more[n] = hs[n] /\ n \in 1 .. L + 1
  OBVIOUS
<1>2. PICK f : WorthRun(in, hs, f) /\ Worth(in, hs) = f[L]
  BY WorthRuns
<1>3. PICK g : WorthRun(in, more, g) /\ Worth(in, more) = g[L + 1]
  <2> HIDE DEF more
  <2> QED BY <1>1, WorthRuns
<1> HIDE DEF more
<1> DEFINE S == {n \in 0 .. L : g[n] = f[n]}
<1>4. 0 \in S
  BY <1>1, <1>2, <1>3 DEF WorthRun
<1>5. \A n \in 1 .. L : n - 1 \in S => n \in S
  BY <1>1, <1>2, <1>3 DEF WorthRun
<1>6. L \in S
  <2> HIDE DEF S, L
  <2>1. \A n \in 0 .. L : n \in S
    BY <1>1, <1>4, <1>5, RangeInduction
  <2> QED BY <1>1, <2>1
<1>7. g[L + 1] = g[L] + Portfolio!Value(in, h)
  BY <1>1, <1>3 DEF WorthRun
<1> QED
  BY <1>2, <1>3, <1>6, <1>7 DEF more

(* The elements of a sequence that are in a set, picked one by one.        *)
ThoseFold(seq, S, f) ==
    f = [n \in 0 .. Len(seq) |->
            IF n = 0 THEN << >>
            ELSE IF seq[n] \in S THEN Append(f[n - 1], seq[n]) ELSE f[n - 1]]

(* The picked elements, as the recursion over the positions.               *)
LEMMA ThoseIsFold ==
  \A seq, S : Portfolio!Those(seq, S) = (CHOOSE f : ThoseFold(seq, S, f))[Len(seq)]
  BY DEF Portfolio!Those, ThoseFold

(* The lists picked from the first elements, one after the other.          *)
ThoseRun(seq, S, X, f) ==
    /\ f \in [0 .. Len(seq) -> Seq(X)] /\ f[0] = << >>
    /\ \A n \in 1 .. Len(seq) :
          /\ seq[n] \in S => f[n] = Append(f[n - 1], seq[n])
          /\ seq[n] \notin S => f[n] = f[n - 1]

(* The picked elements are the last of those lists.                        *)
LEMMA ThoseRuns ==
  ASSUME NEW X, NEW seq \in Seq(X), NEW S
  PROVE  \E f : ThoseRun(seq, S, X, f) /\ Portfolio!Those(seq, S) = f[Len(seq)]
<1> DEFINE L == Len(seq)
           next(x, n) == IF seq[n] \in S THEN Append(x, seq[n]) ELSE x
           st == [n \in 1 .. L |-> [x \in Seq(X) |-> next(x, n)]]
           f == CHOOSE g : ThoseFold(seq, S, g)
<1>1. L \in Nat /\ DOMAIN seq = 1 .. L /\ << >> \in Seq(X)
  OBVIOUS
<1>2. \A n \in 1 .. L : \A x \in Seq(X) : next(x, n) \in Seq(X)
  OBVIOUS
<1> HIDE DEF next, L
<1>3. st \in [1 .. L -> [Seq(X) -> Seq(X)]]
  BY <1>2
<1>4. PICK it \in [SUBSET (1 .. L) -> Seq(X)] : FoldsRange(it, L, << >>, st)
  <2> HIDE DEF st
  <2> QED BY <1>1, <1>3, FoldExists
<1> DEFINE g == [n \in 0 .. L |-> it[1 .. n]]
<1>5. \A T \in SUBSET (1 .. L) : T # {} => Greatest(T) \in T
  BY <1>1, GreatestIn
<1>6. \A T \in SUBSET (1 .. L) : it[T] = IF T = {} THEN << >> ELSE next(it[T \ {Greatest(T)}], Greatest(T))
  BY <1>4, <1>5 DEF FoldsRange
<1>7. g[0] = << >>
  <2>1. {} \in SUBSET (1 .. L) /\ 1 .. 0 = {} /\ 0 \in 0 .. L
    BY <1>1
  <2>2. it[{}] = << >>
    BY <1>6, <2>1, Zenon
  <2> QED BY <2>1, <2>2
<1>8. \A n \in 1 .. L : g[n] = next(g[n - 1], n)
  <2> SUFFICES ASSUME NEW n \in 1 .. L PROVE g[n] = next(g[n - 1], n)
    OBVIOUS
  <2>1. n \in Nat /\ n # 0 /\ 1 .. n \in SUBSET (1 .. L) /\ n \in 0 .. L /\ n - 1 \in 0 .. L
    BY <1>1
  <2>2. Greatest(1 .. n) = n /\ (1 .. n) \ {n} = 1 .. n - 1 /\ 1 .. n # {}
    BY <2>1, GreatestOfRange
  <2>3. it[1 .. n] = next(it[(1 .. n) \ {Greatest(1 .. n)}], Greatest(1 .. n))
    BY <1>6, <2>1, <2>2
  <2> QED BY <2>1, <2>2, <2>3
<1>9. ThoseFold(seq, S, g)
  <2>1. ASSUME NEW n \in 0 .. L
        PROVE  g[n] = IF n = 0 THEN << >> ELSE next(g[n - 1], n)
    <3>1. CASE n = 0
      BY <1>7, <3>1, Zenon
    <3>2. CASE n # 0
      <4>1. n \in 1 .. L
        BY <1>1, <3>2
      <4> HIDE DEF g
      <4> QED BY <1>8, <3>2, <4>1, Zenon
    <3> QED BY <3>1, <3>2
  <2>2. g = [n \in 0 .. L |-> g[n]]
    OBVIOUS
  <2> HIDE DEF g
  <2> QED BY <2>1, <2>2 DEF ThoseFold, L, next
<1>10. ThoseFold(seq, S, f)
  BY <1>9
<1> HIDE DEF f
<1>11. /\ f = [n \in 0 .. L |-> f[n]] /\ f[0] = << >>
       /\ \A n \in 1 .. L : f[n] = next(f[n - 1], n)
  <2>1. f = [n \in 0 .. L |-> IF n = 0 THEN << >> ELSE next(f[n - 1], n)]
    BY <1>10 DEF ThoseFold, L, next
  <2>2. \A n \in 0 .. L : f[n] = IF n = 0 THEN << >> ELSE next(f[n - 1], n)
    BY <2>1, Zenon
  <2>3. f = [n \in 0 .. L |-> f[n]]
    BY <2>1, <2>2
  <2>4. 0 \in 0 .. L /\ \A n \in 1 .. L : n \in 0 .. L /\ n # 0
    BY <1>1
  <2>5. f[0] = << >>
    BY <2>2, <2>4, Zenon
  <2>6. \A n \in 1 .. L : f[n] = next(f[n - 1], n)
    BY <2>2, <2>4, Zenon
  <2> QED BY <2>3, <2>5, <2>6
<1>12. \A n \in 0 .. L : f[n] \in Seq(X)
  <2> DEFINE Good == {n \in 0 .. L : f[n] \in Seq(X)}
  <2>1. 0 \in Good
    BY <1>1, <1>11
  <2>2. ASSUME NEW n \in 1 .. L, n - 1 \in Good PROVE n \in Good
    <3>1. n \in 0 .. L /\ f[n - 1] \in Seq(X)
      BY <1>1, <2>2
    <3> QED BY <1>2, <1>11, <3>1
  <2> HIDE DEF Good
  <2>3. \A n \in 0 .. L : n \in Good
    BY <1>1, <2>1, <2>2, RangeInduction
  <2> QED BY <2>3 DEF Good
<1>13. Portfolio!Those(seq, S) = f[L]
  BY ThoseIsFold DEF f, L
<1> QED
  BY <1>11, <1>12, <1>13 DEF ThoseRun, L, next

(* They are a sequence of the members of S; all of the sequence if all are *)
(* in S, none of it if none is.                                            *)
LEMMA ThoseAre ==
  ASSUME NEW X, NEW seq \in Seq(X), NEW S
  PROVE  /\ Portfolio!Those(seq, S) \in Seq(X)
         /\ Len(Portfolio!Those(seq, S)) <= Len(seq)
         /\ \A x : (\E i \in DOMAIN Portfolio!Those(seq, S) : Portfolio!Those(seq, S)[i] = x)
                     <=> x \in S /\ \E i \in DOMAIN seq : seq[i] = x
         /\ (\A i \in DOMAIN seq : seq[i] \in S) => Portfolio!Those(seq, S) = seq
         /\ (\A i \in DOMAIN seq : seq[i] \notin S) => Portfolio!Those(seq, S) = << >>
<1>1. PICK f : ThoseRun(seq, S, X, f) /\ Portfolio!Those(seq, S) = f[Len(seq)]
  BY ThoseRuns
<1> DEFINE L == Len(seq)
           Sound(n) == \A x : (\E i \in DOMAIN f[n] : f[n][i] = x)
                                <=> x \in S /\ \E i \in 1 .. n : seq[i] = x
           T == {n \in 0 .. L : Sound(n) /\ Len(f[n]) <= n}
<1>2. L \in Nat /\ f[0] = << >> /\ DOMAIN seq = 1 .. L
      /\ \A n \in 1 .. L : n - 1 \in 0 .. L /\ n \in 0 .. L /\ n - 1 \in Nat /\ 1 .. n = (1 .. n - 1) \cup {n}
  BY <1>1 DEF ThoseRun
<1>3. \A n \in 0 .. L : f[n] \in Seq(X) /\ Len(f[n]) \in Nat /\ DOMAIN f[n] = 1 .. Len(f[n])
  BY <1>1 DEF ThoseRun
<1>4. 0 \in T
  BY <1>2
<1>5. ASSUME NEW n \in 1 .. L, n - 1 \in T PROVE n \in T
  <2>1. Sound(n - 1) /\ Len(f[n - 1]) <= n - 1
    BY <1>5
  <2>2. CASE seq[n] \in S
    <3>1. f[n] = Append(f[n - 1], seq[n])
      BY <1>1, <2>2 DEF ThoseRun
    <3>2. /\ Len(f[n]) = Len(f[n - 1]) + 1 /\ f[n][Len(f[n - 1]) + 1] = seq[n]
          /\ \A i \in 1 .. Len(f[n - 1]) : f[n][i] = f[n - 1][i]
      BY <1>2, <1>3, <3>1
    <3>3. Sound(n)
      <4> SUFFICES ASSUME NEW x
                   PROVE  (\E i \in DOMAIN f[n] : f[n][i] = x) <=> x \in S /\ \E i \in 1 .. n : seq[i] = x
        OBVIOUS
      <4>1. (\E i \in DOMAIN f[n] : f[n][i] = x) <=> x = seq[n] \/ \E i \in DOMAIN f[n - 1] : f[n - 1][i] = x
        <5> DEFINE k == Len(f[n - 1])
        <5>1. k \in Nat /\ DOMAIN f[n - 1] = 1 .. k /\ DOMAIN f[n] = 1 .. k + 1
          BY <1>2, <1>3, <3>2
        <5>2. f[n][k + 1] = seq[n] /\ \A i \in 1 .. k : f[n][i] = f[n - 1][i]
          BY <3>2
        <5> HIDE DEF k
        <5>3. 1 .. k + 1 = (1 .. k) \cup {k + 1}
          BY <5>1
        <5> QED
          BY <5>1, <5>2, <5>3
      <4>2. (\E i \in 1 .. n : seq[i] = x) <=> x = seq[n] \/ \E i \in 1 .. n - 1 : seq[i] = x
        BY <1>2
      <4> QED
        BY <2>1, <2>2, <4>1, <4>2
    <3> HIDE DEF Sound
    <3> QED
      BY <1>2, <1>3, <2>1, <3>2, <3>3
  <2>3. CASE seq[n] \notin S
    <3>1. f[n] = f[n - 1]
      BY <1>1, <2>3 DEF ThoseRun
    <3>2. Sound(n)
      <4> SUFFICES ASSUME NEW x
                   PROVE  (\E i \in DOMAIN f[n] : f[n][i] = x) <=> x \in S /\ \E i \in 1 .. n : seq[i] = x
        OBVIOUS
      <4>2. (\E i \in 1 .. n : seq[i] = x) <=> x = seq[n] \/ \E i \in 1 .. n - 1 : seq[i] = x
        BY <1>2
      <4> QED
        BY <2>1, <2>3, <3>1, <4>2
    <3> HIDE DEF Sound
    <3> QED
      BY <1>2, <1>3, <2>1, <3>1, <3>2
  <2> QED
    BY <2>2, <2>3
<1>6. L \in T
  <2> HIDE DEF T, L
  <2>1. \A n \in 0 .. L : n \in T
    BY <1>2, <1>4, <1>5, RangeInduction
  <2> QED BY <1>2, <2>1
<1>7. ASSUME \A i \in DOMAIN seq : seq[i] \in S PROVE f[L] = seq
  <2> DEFINE U == {n \in 0 .. L : Len(f[n]) = n /\ \A i \in 1 .. n : f[n][i] = seq[i]}
  <2>1. 0 \in U
    BY <1>2
  <2>2. ASSUME NEW n \in 1 .. L, n - 1 \in U PROVE n \in U
    <3>1. f[n] = Append(f[n - 1], seq[n])
      BY <1>1, <1>2, <1>7 DEF ThoseRun
    <3>2. Len(f[n - 1]) = n - 1 /\ \A i \in 1 .. n - 1 : f[n - 1][i] = seq[i]
      BY <2>2
    <3> DEFINE z == f[n - 1]
    <3>3. z \in Seq(X) /\ Len(z) = n - 1 /\ seq[n] \in X /\ n \in Nat
      BY <1>2, <1>3, <3>2
    <3> HIDE DEF z
    <3>4. Len(Append(z, seq[n])) = n /\ Append(z, seq[n])[n] = seq[n]
          /\ \A i \in 1 .. n - 1 : Append(z, seq[n])[i] = z[i]
      BY <3>3
    <3>5. \A i \in 1 .. n : f[n][i] = seq[i]
      BY <1>2, <3>1, <3>2, <3>4 DEF z
    <3> QED
      BY <1>2, <3>1, <3>4, <3>5 DEF z
  <2>3. L \in U
    <3> HIDE DEF U, L
    <3>1. \A n \in 0 .. L : n \in U
      BY <1>2, <2>1, <2>2, RangeInduction
    <3> QED BY <1>2, <3>1
  <2> QED
    BY <1>2, <1>3, <2>3
<1>8. ASSUME \A i \in DOMAIN seq : seq[i] \notin S PROVE f[L] = << >>
  <2> DEFINE U == {n \in 0 .. L : f[n] = << >>}
  <2>1. 0 \in U
    BY <1>2
  <2>2. \A n \in 1 .. L : n - 1 \in U => n \in U
    BY <1>1, <1>2, <1>8 DEF ThoseRun
  <2>3. L \in U
    <3> HIDE DEF U, L
    <3>1. \A n \in 0 .. L : n \in U
      BY <1>2, <2>1, <2>2, RangeInduction
    <3> QED BY <1>2, <3>1
  <2> QED
    BY <2>3
<1> QED
  BY <1>1, <1>2, <1>3, <1>6, <1>7, <1>8

(* What is closed and what is kept are worth together what there was.      *)
LEMMA WorthSplit ==
  ASSUME NEW in \in Input, NEW hs \in Seq(Holding), NEW S, NEW R,
         \A i \in DOMAIN hs : hs[i] \in S <=> hs[i] \notin R
  PROVE  Worth(in, Portfolio!Those(hs, S)) + Worth(in, Portfolio!Those(hs, R)) = Worth(in, hs)
<1> DEFINE L == Len(hs)
<1>1. PICK f : ThoseRun(hs, S, Holding, f) /\ Portfolio!Those(hs, S) = f[L]
  BY ThoseRuns
<1>2. PICK g : ThoseRun(hs, R, Holding, g) /\ Portfolio!Those(hs, R) = g[L]
  BY ThoseRuns
<1>3. PICK w : WorthRun(in, hs, w) /\ Worth(in, hs) = w[L]
  BY WorthRuns
<1>4. L \in Nat /\ DOMAIN hs = 1 .. L /\ \A n \in 1 .. L : n \in 0 .. L /\ n - 1 \in 0 .. L /\ hs[n] \in Holding
  OBVIOUS
<1> DEFINE T == {n \in 0 .. L : Worth(in, f[n]) + Worth(in, g[n]) = w[n]}
<1>5. \A n \in 0 .. L : f[n] \in Seq(Holding) /\ g[n] \in Seq(Holding)
  BY <1>1, <1>2 DEF ThoseRun
<1>6. \A n \in 0 .. L : Worth(in, f[n]) \in Nat /\ Worth(in, g[n]) \in Nat
  BY <1>5, WorthNat
<1>7. 0 \in T
  <2>1. 0 \in 0 .. L /\ f[0] = << >> /\ g[0] = << >> /\ w[0] = 0
    BY <1>1, <1>2, <1>3, <1>4 DEF ThoseRun, WorthRun
  <2>2. Worth(in, f[0]) = 0 /\ Worth(in, g[0]) = 0
    BY <1>5, <2>1, WorthNat
  <2> QED BY <2>1, <2>2
<1>8. ASSUME NEW n \in 1 .. L, n - 1 \in T PROVE n \in T
  <2> DEFINE v == Portfolio!Value(in, hs[n])
  <2>1. v \in Nat /\ w[n] = w[n - 1] + v /\ Worth(in, f[n - 1]) + Worth(in, g[n - 1]) = w[n - 1]
    BY <1>3, <1>4, <1>8, ValueNat DEF WorthRun
  <2>2. CASE hs[n] \in S
    <3>1. f[n] = Append(f[n - 1], hs[n]) /\ g[n] = g[n - 1]
      BY <1>1, <1>2, <1>4, <2>2 DEF ThoseRun
    <3>2. Worth(in, f[n]) = Worth(in, f[n - 1]) + v
      BY <1>4, <1>5, <3>1, WorthAppend
    <3> HIDE DEF v
    <3>3. Worth(in, f[n]) + Worth(in, g[n]) = w[n]
      <4>1. Worth(in, f[n - 1]) \in Nat /\ Worth(in, g[n - 1]) \in Nat
        BY <1>4, <1>6
      <4> QED BY <2>1, <3>1, <3>2, <4>1
    <3> QED BY <1>4, <3>3
  <2>3. CASE hs[n] \notin S
    <3>1. g[n] = Append(g[n - 1], hs[n]) /\ f[n] = f[n - 1]
      BY <1>1, <1>2, <1>4, <2>3 DEF ThoseRun
    <3>2. Worth(in, g[n]) = Worth(in, g[n - 1]) + v
      BY <1>4, <1>5, <3>1, WorthAppend
    <3> HIDE DEF v
    <3>3. Worth(in, f[n]) + Worth(in, g[n]) = w[n]
      <4>1. Worth(in, f[n - 1]) \in Nat /\ Worth(in, g[n - 1]) \in Nat
        BY <1>4, <1>6
      <4> QED BY <2>1, <3>1, <3>2, <4>1
    <3> QED BY <1>4, <3>3
  <2> QED BY <2>2, <2>3
<1>9. L \in T
  <2> HIDE DEF T, L
  <2>1. \A n \in 0 .. L : n \in T
    BY <1>4, <1>7, <1>8, RangeInduction
  <2> QED BY <1>4, <2>1
<1> QED
  BY <1>1, <1>2, <1>3, <1>9

(* An entry at today's price moves cash into a holding of the same value.  *)
LEMMA OpenKeeps ==
  ASSUME NEW in \in Input, NEW tier \in Tier, NEW t \in Tickers, NEW alloc \in Nat,
         in.prices[t] # NoPrice, NoPrice = 0
  PROVE  LET new == Portfolio!Open(in, tier, t, alloc)
         IN  /\ new \in Tier
             /\ Portfolio!Nav(in, new) = Portfolio!Nav(in, tier)
             /\ new.closed = tier.closed /\ new.quarters = tier.quarters /\ new.nav = tier.nav
             /\ \/ new = tier /\ (alloc = 0 \/ tier.cash = 0)
                \/ /\ alloc # 0 /\ tier.cash # 0
                   /\ new.cash = tier.cash - (IF alloc <= tier.cash THEN alloc ELSE tier.cash)
                   /\ new.holdings = Append(tier.holdings,
                         [ticker |-> t, cost |-> IF alloc <= tier.cash THEN alloc ELSE tier.cash,
                          price |-> in.prices[t], entry |-> in.date])
<1> DEFINE paid == IF alloc <= tier.cash THEN alloc ELSE tier.cash
           h == [ticker |-> t, cost |-> paid, price |-> in.prices[t], entry |-> in.date]
           new == Portfolio!Open(in, tier, t, alloc)
<1>1. /\ tier.cash \in Nat /\ tier.holdings \in Seq(Holding) /\ tier.closed \in Nat /\ tier.nav \in Nat
      /\ tier.quarters \in Seq(Closure) /\ in.prices[t] \in Nat \ {0} /\ in.date \in Nat
  BY DEF Tier, Input
<1>2. paid \in Nat /\ paid <= tier.cash /\ (paid = 0 <=> alloc = 0 \/ tier.cash = 0)
  BY <1>1
<1>3. new = IF paid <= 0 THEN tier
            ELSE [tier EXCEPT !.cash = @ - paid, !.holdings = Append(@, h)]
  BY DEF Portfolio!Open
<1> HIDE DEF new
<1>4. CASE paid = 0
  <2>1. new = tier
    BY <1>3, <1>4
  <2> QED
    BY <1>2, <1>4, <2>1 DEF new
<1>5. CASE paid # 0
  <2>1. new = [tier EXCEPT !.cash = tier.cash - paid, !.holdings = Append(tier.holdings, h)]
    BY <1>2, <1>3, <1>5
  <2>2. h \in Holding
    BY <1>1, <1>2, <1>5 DEF Holding
  <2> HIDE DEF h
  <2>3. tier.cash - paid \in Nat /\ Append(tier.holdings, h) \in Seq(Holding)
    BY <1>1, <1>2, <2>2
  <2>4. new \in Tier /\ new.cash = tier.cash - paid /\ new.holdings = Append(tier.holdings, h)
        /\ new.closed = tier.closed /\ new.quarters = tier.quarters /\ new.nav = tier.nav
    BY <2>1, <2>3 DEF Tier
  <2>5. Portfolio!Value(in, h) = paid
    BY <2>2, ValueNat DEF h
  <2>6. Worth(in, new.holdings) = Worth(in, tier.holdings) + paid /\ Worth(in, tier.holdings) \in Nat
    BY <1>1, <2>2, <2>4, <2>5, WorthAppend, WorthNat
  <2> HIDE DEF paid
  <2>7. Portfolio!Nav(in, new) = Portfolio!Nav(in, tier)
    <3>1. /\ Portfolio!Nav(in, new) = new.cash + Worth(in, new.holdings)
          /\ Portfolio!Nav(in, tier) = tier.cash + Worth(in, tier.holdings)
      BY NavIs
    <3> DEFINE x == Worth(in, tier.holdings)
               y == Worth(in, new.holdings)
    <3>2. x \in Nat /\ y = x + paid /\ new.cash = tier.cash - paid
      BY <2>4, <2>6
    <3> HIDE DEF x, y
    <3>3. new.cash + y = tier.cash + x
      BY <1>1, <1>2, <3>2
    <3> QED BY <3>1, <3>3 DEF x, y
  <2> QED
    BY <1>2, <1>5, <2>4, <2>7 DEF new, h, paid
<1> QED
  BY <1>4, <1>5

(* One turn of the entry loop, and the loop.                               *)
Want == [ticker : Tickers, alloc : Nat]
Loop == [tier : Tier, held : SUBSET Tickers]
Turn(in, slots, acc, want) ==
    IF \/ Len(acc.tier.holdings) >= slots \/ want.ticker \in acc.held
       \/ ~Portfolio!Priced(in, want.ticker)
    THEN acc
    ELSE [tier |-> Portfolio!Open(in, acc.tier, want.ticker, want.alloc),
          held |-> acc.held \cup {want.ticker}]

(* The recursion of the entry loop, over sets of positions.                *)
EnterFold(in, tier, wants, slots, it) ==
    it = [T \in SUBSET DOMAIN wants |->
             IF T = {} THEN [tier |-> tier, held |-> Portfolio!Tickrs(tier.holdings)]
             ELSE Turn(in, slots, it[T \ {Greatest(T)}], wants[Greatest(T)])]

(* The tier after the entries, by that recursion.                          *)
LEMMA EnterIsFold ==
  \A in, tier, wants, slots : Portfolio!Enter(in, tier, wants, slots)
       = (CHOOSE it : EnterFold(in, tier, wants, slots, it))[DOMAIN wants].tier
  BY DEF Portfolio!Enter, EnterFold, Turn, Portfolio!FoldLeft, Portfolio!MapThenFoldSet,
         Portfolio!Max, Greatest

(* The states of the entry loop, turn by turn.                             *)
EnterRun(in, tier, wants, slots, f) ==
    /\ f \in [0 .. Len(wants) -> Loop]
    /\ f[0] = [tier |-> tier, held |-> Portfolio!Tickrs(tier.holdings)]
    /\ \A n \in 1 .. Len(wants) : f[n] = Turn(in, slots, f[n - 1], wants[n])

(* A turn keeps a loop typed.                                              *)
LEMMA TurnTypes ==
  ASSUME NEW in \in Input, NEW acc \in Loop, NEW want \in Want, NEW slots, NoPrice = 0
  PROVE  Turn(in, slots, acc, want) \in Loop
<1>1. acc.tier \in Tier /\ acc.held \in SUBSET Tickers /\ want.ticker \in Tickers /\ want.alloc \in Nat
  BY DEF Loop, Want
<1>2. CASE Turn(in, slots, acc, want) = acc
  BY <1>2
<1>3. CASE /\ Portfolio!Priced(in, want.ticker)
           /\ Turn(in, slots, acc, want) =
                [tier |-> Portfolio!Open(in, acc.tier, want.ticker, want.alloc),
                 held |-> acc.held \cup {want.ticker}]
  <2>1. Portfolio!Open(in, acc.tier, want.ticker, want.alloc) \in Tier
    BY <1>1, <1>3, OpenKeeps DEF Portfolio!Priced
  <2>2. acc.held \cup {want.ticker} \in SUBSET Tickers
    BY <1>1
  <2> QED
    BY <1>3, <2>1, <2>2 DEF Loop
<1> QED
  BY <1>2, <1>3 DEF Turn

(* The tier after the entries is that of the last turn.                    *)
LEMMA EnterRuns ==
  ASSUME NEW in \in Input, NEW tier \in Tier, NEW wants \in Seq(Want), NEW slots, NoPrice = 0
  PROVE  \E f : EnterRun(in, tier, wants, slots, f)
                /\ Portfolio!Enter(in, tier, wants, slots) = f[Len(wants)].tier
<1> DEFINE L == Len(wants)
           base == [tier |-> tier, held |-> Portfolio!Tickrs(tier.holdings)]
           next(x, n) == Turn(in, slots, x, wants[n])
           st == [n \in 1 .. L |-> [x \in Loop |-> next(x, n)]]
           it == CHOOSE x : EnterFold(in, tier, wants, slots, x)
           f == [n \in 0 .. L |-> it[1 .. n]]
<1>1. L \in Nat /\ DOMAIN wants = 1 .. L
  OBVIOUS
<1>0. base \in Loop
  <2>1. Portfolio!Tickrs(tier.holdings) \subseteq Tickers
    <3>1. tier.holdings \in Seq(Holding)
      BY DEF Tier
    <3>2. \A i \in DOMAIN tier.holdings : tier.holdings[i] \in Holding
      BY <3>1
    <3> QED BY <3>2 DEF Portfolio!Tickrs, Holding
  <2> QED BY <2>1 DEF Loop
<1>2. \A n \in 1 .. L : \A x \in Loop : next(x, n) \in Loop
  <2>1. \A n \in 1 .. L : wants[n] \in Want
    OBVIOUS
  <2> QED BY <2>1, TurnTypes
<1> HIDE DEF next, L, base
<1>3. st \in [1 .. L -> [Loop -> Loop]]
  BY <1>2
<1>4. PICK it0 \in [SUBSET (1 .. L) -> Loop] : FoldsRange(it0, L, base, st)
  <2> HIDE DEF st
  <2> QED BY <1>0, <1>1, <1>3, FoldExists
<1>5. \A T \in SUBSET (1 .. L) : T # {} => Greatest(T) \in T
  BY <1>1, GreatestIn
<1>6. EnterFold(in, tier, wants, slots, it0)
  <2>1. \A T \in SUBSET (1 .. L) : it0[T] = IF T = {} THEN base ELSE next(it0[T \ {Greatest(T)}], Greatest(T))
    BY <1>4, <1>5 DEF FoldsRange
  <2> QED
    BY <1>1, <1>4, <2>1 DEF EnterFold, next, base
<1>7. EnterFold(in, tier, wants, slots, it)
  BY <1>6
<1> HIDE DEF it
<1>8. \A T \in SUBSET (1 .. L) : it[T] = IF T = {} THEN base ELSE next(it[T \ {Greatest(T)}], Greatest(T))
  BY <1>1, <1>7 DEF EnterFold, next, base
<1>9. it[{}] = base /\ 1 .. 0 = {}
  <2>1. {} \in SUBSET (1 .. L)
    OBVIOUS
  <2>2. it[{}] = base
    BY <1>8, <2>1, Zenon
  <2> QED BY <2>2
<1>10. \A n \in 1 .. L : it[1 .. n] = next(it[1 .. n - 1], n)
  <2> SUFFICES ASSUME NEW n \in 1 .. L PROVE it[1 .. n] = next(it[1 .. n - 1], n)
    OBVIOUS
  <2>1. n \in Nat /\ n # 0 /\ 1 .. n \in SUBSET (1 .. L)
    BY <1>1
  <2>2. Greatest(1 .. n) = n /\ (1 .. n) \ {n} = 1 .. n - 1 /\ 1 .. n # {}
    BY <2>1, GreatestOfRange
  <2>3. it[1 .. n] = next(it[(1 .. n) \ {Greatest(1 .. n)}], Greatest(1 .. n))
    BY <1>8, <2>1, <2>2
  <2> QED BY <2>2, <2>3
<1>11. f \in [0 .. L -> Loop]
  <2>1. \A n \in 1 .. L : it[1 .. n - 1] \in Loop => it[1 .. n] \in Loop
    BY <1>2, <1>10
  <2>2. L \in Nat /\ it[{}] = base /\ base \in Loop
    BY <1>0, <1>1, <1>9
  <2>3. \A n \in 0 .. L : it[1 .. n] \in Loop
    BY <2>1, <2>2, FoldAlong
  <2> QED BY <2>3
<1>12. f[0] = base /\ (\A n \in 1 .. L : f[n] = next(f[n - 1], n)) /\ f[L] = it[1 .. L]
  BY <1>1, <1>9, <1>10
<1>13. Portfolio!Enter(in, tier, wants, slots) = f[L].tier
  BY <1>1, <1>12, EnterIsFold DEF it
<1> HIDE DEF f
<1> QED
  BY <1>11, <1>12, <1>13 DEF EnterRun, L, next, base

(* The entry loop makes no money and touches no book but cash and holdings. *)
LEMMA EnterKeeps ==
  ASSUME NEW in \in Input, NEW tier \in Tier, NEW wants \in Seq(Want), NEW slots, NoPrice = 0
  PROVE  LET new == Portfolio!Enter(in, tier, wants, slots)
         IN  /\ new \in Tier /\ Portfolio!Nav(in, new) = Portfolio!Nav(in, tier)
             /\ new.closed = tier.closed /\ new.quarters = tier.quarters
<1> DEFINE L == Len(wants)
           Like(x) == /\ Portfolio!Nav(in, x) = Portfolio!Nav(in, tier)
                      /\ x.closed = tier.closed /\ x.quarters = tier.quarters
<1>1. PICK f : EnterRun(in, tier, wants, slots, f) /\ Portfolio!Enter(in, tier, wants, slots) = f[L].tier
  BY EnterRuns
<1>2. L \in Nat /\ \A n \in 1 .. L : wants[n] \in Want
  OBVIOUS
<1>3. \A n \in 0 .. L : f[n] \in Loop /\ f[n].tier \in Tier
  BY <1>1 DEF EnterRun, Loop
<1> DEFINE T == {n \in 0 .. L : Like(f[n].tier)}
<1>4. 0 \in T
  BY <1>1, <1>2 DEF EnterRun
<1>5. ASSUME NEW n \in 1 .. L, n - 1 \in T PROVE n \in T
  <2> DEFINE acc == f[n - 1]
             want == wants[n]
  <2>1. acc \in Loop /\ acc.tier \in Tier /\ want \in Want /\ f[n] = Turn(in, slots, acc, want)
        /\ Like(acc.tier) /\ n \in 0 .. L
    BY <1>1, <1>2, <1>3, <1>5 DEF EnterRun
  <2> HIDE DEF acc, want, Like
  <2>2. CASE f[n] = acc
    BY <2>1, <2>2
  <2>3. CASE /\ Portfolio!Priced(in, want.ticker)
             /\ f[n].tier = Portfolio!Open(in, acc.tier, want.ticker, want.alloc)
    <3>1. want.ticker \in Tickers /\ want.alloc \in Nat
      BY <2>1 DEF Want
    <3> DEFINE new == Portfolio!Open(in, acc.tier, want.ticker, want.alloc)
    <3>2. in.prices[want.ticker] # NoPrice
      BY <2>3 DEF Portfolio!Priced
    <3>3. /\ Portfolio!Nav(in, new) = Portfolio!Nav(in, acc.tier)
          /\ new.closed = acc.tier.closed /\ new.quarters = acc.tier.quarters
      <4> DEFINE x == acc.tier
                 t == want.ticker
                 m == want.alloc
      <4>1. x \in Tier /\ t \in Tickers /\ m \in Nat /\ in.prices[t] # NoPrice
        BY <2>1, <3>1, <3>2
      <4> HIDE DEF x, t, m
      <4>2. /\ Portfolio!Nav(in, Portfolio!Open(in, x, t, m)) = Portfolio!Nav(in, x)
            /\ Portfolio!Open(in, x, t, m).closed = x.closed
            /\ Portfolio!Open(in, x, t, m).quarters = x.quarters
        BY <4>1, OpenKeeps
      <4> QED BY <4>2 DEF x, t, m
    <3> HIDE DEF new
    <3>4. Like(new)
      BY <2>1, <3>3 DEF Like
    <3>5. f[n].tier = new
      BY <2>3 DEF new
    <3> QED BY <2>1, <3>4, <3>5
  <2> QED
    BY <2>1, <2>2, <2>3 DEF Turn
<1>6. L \in T
  <2> HIDE DEF T, L
  <2>1. \A n \in 0 .. L : n \in T
    BY <1>2, <1>4, <1>5, RangeInduction
  <2> QED BY <1>2, <2>1
<1> QED
  BY <1>1, <1>2, <1>3, <1>6

(* Closing makes no money: what exits becomes cash at its value.           *)
LEMMA CloseKeeps ==
  ASSUME NEW in \in Input, NEW tier \in Tier, NEW key, NEW exits, NEW reason
  PROVE  LET new == Portfolio!CloseWhere(in, key, tier, exits, reason).tier
         IN  /\ new \in Tier /\ Portfolio!Nav(in, new) = Portfolio!Nav(in, tier)
             /\ new.quarters = tier.quarters
<1> DEFINE hs   == tier.holdings
           out  == Portfolio!Those(hs, exits)
           kept == Portfolio!Those(hs, Portfolio!ToSet(hs) \ exits)
           new  == Portfolio!CloseWhere(in, key, tier, exits, reason).tier
<1>1. /\ tier.cash \in Nat /\ hs \in Seq(Holding) /\ tier.closed \in Nat /\ tier.nav \in Nat
      /\ tier.quarters \in Seq(Closure)
  BY DEF Tier
<1>2. out \in Seq(Holding) /\ kept \in Seq(Holding)
  BY <1>1, ThoseAre
<1>3. Worth(in, out) \in Nat /\ Worth(in, kept) \in Nat /\ Len(out) \in Nat
  BY <1>2, WorthNat
<1>4. Worth(in, out) + Worth(in, kept) = Worth(in, hs)
  <2>1. \A i \in DOMAIN hs : hs[i] \in exits <=> hs[i] \notin Portfolio!ToSet(hs) \ exits
    BY DEF Portfolio!ToSet
  <2> QED BY <1>1, <2>1, WorthSplit
<1>5. new = [tier EXCEPT !.cash = @ + Worth(in, out), !.holdings = kept, !.closed = @ + Len(out)]
  BY DEF Portfolio!CloseWhere, Worth
<1>6. /\ new.cash = tier.cash + Worth(in, out) /\ new.holdings = kept /\ new.quarters = tier.quarters
      /\ new \in Tier
  <2> DEFINE w == Worth(in, out)
             l == Len(out)
  <2>1. /\ new = [tier EXCEPT !.cash = @ + w, !.holdings = kept, !.closed = @ + l]
        /\ w \in Nat /\ l \in Nat /\ kept \in Seq(Holding)
    BY <1>2, <1>3, <1>5
  <2> HIDE DEF w, l, kept, new, hs, out
  <2>2. new = [cash |-> tier.cash + w, holdings |-> kept, closed |-> tier.closed + l,
               nav |-> tier.nav, quarters |-> tier.quarters]
    BY <1>1, <2>1 DEF Tier
  <2>3. tier.cash + w \in Nat /\ tier.closed + l \in Nat
    BY <1>1, <2>1
  <2>4. /\ new.cash = tier.cash + w /\ new.holdings = kept /\ new.quarters = tier.quarters
        /\ new \in Tier
    BY <1>1, <2>1, <2>2, <2>3 DEF Tier
  <2> QED BY <2>4 DEF w
<1>7. Portfolio!Nav(in, new) = Portfolio!Nav(in, tier)
  <2>1. /\ Portfolio!Nav(in, new) = new.cash + Worth(in, new.holdings)
        /\ Portfolio!Nav(in, tier) = tier.cash + Worth(in, hs)
    BY NavIs
  <2> DEFINE x == Worth(in, out)
             y == Worth(in, kept)
  <2>2. /\ Portfolio!Nav(in, new) = (tier.cash + x) + y
        /\ Portfolio!Nav(in, tier) = tier.cash + (x + y) /\ x \in Nat /\ y \in Nat
    BY <1>3, <1>4, <1>6, <2>1
  <2> HIDE DEF x, y
  <2> QED BY <1>1, <2>2
<1> QED
  BY <1>6, <1>7

(* The candidates of tier_1 are known tickers.                             *)
SelectFold(seq, k, it) ==
    it = [T \in SUBSET DOMAIN seq |->
             IF T = {} THEN << >>
             ELSE IF \/ Len(it[T \ {Greatest(T)}]) >= k
                     \/ Portfolio!Contains(it[T \ {Greatest(T)}], seq[Greatest(T)].ticker)
                  THEN it[T \ {Greatest(T)}]
                  ELSE Append(it[T \ {Greatest(T)}], seq[Greatest(T)].ticker)]

(* The candidates of tier_1, as the recursion over sets of positions.      *)
LEMMA SelectIsFold ==
  \A cats, k : Portfolio!SelectTopK(cats, k)
       = (CHOOSE it : SelectFold(Portfolio!Primary(cats), k, it))[DOMAIN Portfolio!Primary(cats)]
  BY DEF Portfolio!SelectTopK, SelectFold, Portfolio!FoldLeft, Portfolio!MapThenFoldSet,
         Portfolio!Max, Greatest

(* The candidates of tier_1 are a list of tickers.                         *)
LEMMA SelectTypes ==
  ASSUME NEW cats \in Seq([ticker : Tickers, primary : BOOLEAN]), NEW k
  PROVE  Portfolio!SelectTopK(cats, k) \in Seq(Tickers)
<1> DEFINE X == [ticker : Tickers, primary : BOOLEAN]
           seq == Portfolio!Primary(cats)
           L == Len(seq)
           D == Seq(Tickers)
           next(x, n) == IF Len(x) >= k \/ Portfolio!Contains(x, seq[n].ticker) THEN x
                         ELSE Append(x, seq[n].ticker)
           st == [n \in 1 .. L |-> [x \in D |-> next(x, n)]]
           it == CHOOSE x : SelectFold(seq, k, x)
<1>0. seq \in Seq(X)
  BY ThoseAre DEF Portfolio!Primary
<1> HIDE DEF X, seq
<1>1. L \in Nat /\ DOMAIN seq = 1 .. L /\ \A n \in 1 .. L : seq[n] \in X
  BY <1>0
<1>2. \A n \in 1 .. L : \A x \in D : next(x, n) \in D
  BY <1>1 DEF X
<1>3. << >> \in D /\ st \in [1 .. L -> [D -> D]]
  BY <1>2
<1> HIDE DEF D, L
<1>4. PICK g \in [SUBSET (1 .. L) -> D] : FoldsRange(g, L, << >>, st)
  BY <1>1, <1>3, FoldExists
<1>5. SelectFold(seq, k, g)
  <2>1. ASSUME NEW T \in SUBSET (1 .. L), T # {}
        PROVE  g[T] = next(g[T \ {Greatest(T)}], Greatest(T))
    <3>1. Greatest(T) \in 1 .. L /\ T \ {Greatest(T)} \in SUBSET (1 .. L)
      BY <1>1, <2>1, GreatestIn
    <3>2. g[T] = st[Greatest(T)][g[T \ {Greatest(T)}]]
      BY <1>4, <2>1 DEF FoldsRange
    <3>3. g[T \ {Greatest(T)}] \in D
      BY <1>4, <3>1
    <3> QED BY <3>1, <3>2, <3>3
  <2>2. g[{}] = << >> /\ DOMAIN g = SUBSET (1 .. L)
    BY <1>4 DEF FoldsRange
  <2>3. g = [T \in SUBSET (1 .. L) |-> IF T = {} THEN << >>
                                       ELSE next(g[T \ {Greatest(T)}], Greatest(T))]
    BY <1>4, <2>1, <2>2
  <2> QED BY <1>1, <2>3 DEF SelectFold
<1>6. SelectFold(seq, k, it)
  BY <1>5
<1>7. /\ it[{}] = << >>
      /\ \A T \in SUBSET (1 .. L) : T # {} => it[T] = next(it[T \ {Greatest(T)}], Greatest(T))
  <2>1. it = [T \in SUBSET (1 .. L) |-> IF T = {} THEN << >>
                                       ELSE next(it[T \ {Greatest(T)}], Greatest(T))]
    BY <1>1, <1>6 DEF SelectFold
  <2> HIDE DEF it, next
  <2> QED BY <2>1
<1> HIDE DEF it
<1>8. ASSUME NEW n \in 1 .. L, it[1 .. n - 1] \in D PROVE it[1 .. n] \in D
  <2>1. Greatest(1 .. n) = n /\ (1 .. n) \ {n} = 1 .. n - 1 /\ 1 .. n # {}
        /\ 1 .. n \in SUBSET (1 .. L)
    BY <1>1, GreatestOfRange, SMTT(30)
  <2>2. it[1 .. n] = next(it[1 .. n - 1], n)
    BY <1>7, <2>1
  <2> QED BY <1>2, <1>8, <2>2
<1>9. \A n \in 0 .. L : it[1 .. n] \in D
  <2> HIDE DEF next
  <2> QED BY <1>1, <1>3, <1>7, <1>8, FoldAlong
<1>10. it[1 .. L] \in D
  BY <1>1, <1>9
<1> QED
  BY <1>1, <1>10, SelectIsFold DEF it, seq, D

(* A NAV is a natural number.                                              *)
LEMMA NavNat ==
  ASSUME NEW in \in Input, NEW tier \in Tier
  PROVE  Portfolio!Nav(in, tier) \in Nat
<1>1. tier.cash \in Nat /\ tier.holdings \in Seq(Holding)
  BY DEF Tier
<1>2. Worth(in, tier.holdings) \in Nat
  BY <1>1, WorthNat
<1> DEFINE w == Worth(in, tier.holdings)
<1>3. Portfolio!Nav(in, tier) = tier.cash + w
  BY NavIs
<1> HIDE DEF w
<1> QED BY <1>1, <1>2, <1>3 DEF w

(* A step of a run may have bought and sold in a tier, no more; at its end *)
(* the tier records the NAV it came with.                                  *)
Traded(in, tier, new) ==
    /\ new \in Tier /\ new.quarters = tier.quarters
    /\ Portfolio!Nav(in, new) = Portfolio!Nav(in, tier)
Kept(in, tier, new) == Traded(in, tier, new) /\ new.nav = Portfolio!Nav(in, tier)

(* Writing the NAV keeps the tier.                                         *)
LEMMA FinalizeKeeps ==
  ASSUME NEW in \in Input, NEW tier \in Tier, NEW new, Traded(in, tier, new)
  PROVE  Kept(in, tier, Portfolio!Finalize(in, new))
<1> DEFINE end == Portfolio!Finalize(in, new)
           v == Portfolio!Nav(in, new)
<1>1. new \in Tier /\ v \in Nat /\ v = Portfolio!Nav(in, tier)
  BY NavNat DEF Traded
<1>2. end = [new EXCEPT !.nav = v]
  BY DEF Portfolio!Finalize
<1>3. Portfolio!Nav(in, end) = end.cash + Worth(in, end.holdings)
      /\ v = new.cash + Worth(in, new.holdings)
  BY NavIs
<1> HIDE DEF end, v
<1>4. /\ end \in Tier /\ end.quarters = new.quarters /\ end.cash = new.cash
      /\ end.holdings = new.holdings /\ end.nav = v
  BY <1>1, <1>2 DEF Tier
<1>5. Portfolio!Nav(in, end) = v
  BY <1>3, <1>4
<1>6. new.quarters = tier.quarters
  BY DEF Traded
<1>7. Kept(in, tier, end)
  BY <1>1, <1>4, <1>5, <1>6 DEF Kept, Traded
<1> QED BY <1>7 DEF end

(* What Done leaves of a tier.                                             *)
LEMMA DoneIs ==
  \A in, x, r : Portfolio!Done(in, [tier |-> x, rows |-> r]).tier = Portfolio!Finalize(in, x)
  BY DEF Portfolio!Done

(* Close, then enter, then settle.                                         *)
LEMMA CloseEnterKeeps ==
  ASSUME NEW in \in Input, NEW tier \in Tier, NEW key, NEW exits, NEW reason, NoPrice = 0,
         NEW wants \in Seq(Want), NEW slots
  PROVE  LET closed == Portfolio!CloseWhere(in, key, tier, exits, reason)
         IN  Kept(in, tier, Portfolio!Done(in, [closed EXCEPT !.tier =
                 Portfolio!Enter(in, @, wants, slots)]).tier)
<1> DEFINE closed == Portfolio!CloseWhere(in, key, tier, exits, reason)
<1>1. PICK t, r : closed = [tier |-> t, rows |-> r]
  BY DEF Portfolio!CloseWhere
<1> HIDE DEF closed
<1> DEFINE new == Portfolio!Enter(in, t, wants, slots)
<1>2. t \in Tier /\ t.quarters = tier.quarters /\ Portfolio!Nav(in, t) = Portfolio!Nav(in, tier)
  <2>1. closed.tier = t
    BY <1>1
  <2> QED BY <2>1, CloseKeeps DEF closed
<1>3. Traded(in, tier, new)
  BY <1>2, EnterKeeps DEF Traded
<1> HIDE DEF new
<1>4. [closed EXCEPT !.tier = Portfolio!Enter(in, @, wants, slots)] = [tier |-> new, rows |-> r]
  BY <1>1 DEF new
<1>5. Kept(in, tier, Portfolio!Finalize(in, new))
  BY <1>3, FinalizeKeeps
<1> QED
  BY <1>4, <1>5, DoneIs DEF closed

(* A list of tickers with one amount for all of them.                      *)
LEMMA SameTypes ==
  ASSUME NEW alloc \in Nat, NEW ts \in Seq(Tickers)
  PROVE  Portfolio!Same(alloc, ts) \in Seq(Want)
<1>1. Len(ts) \in Nat /\ DOMAIN ts = 1 .. Len(ts) /\ \A i \in 1 .. Len(ts) : ts[i] \in Tickers
  OBVIOUS
<1>2. Portfolio!Same(alloc, ts) \in [1 .. Len(ts) -> Want]
  BY <1>1 DEF Portfolio!Same, Want
<1> QED BY <1>1, <1>2

(* Each tier of the engine keeps its money and its history.                *)
LEMMA UpdateKeeps ==
  ASSUME NEW in \in Input, NEW tier \in Tier, NEW k \in Portfolio!TierKeys,
         Tier0Tickers \in Seq(Tickers), TopK \in Nat \ {0}, NoPrice = 0
  PROVE  Kept(in, tier, Portfolio!Update(in, k, tier).tier)
<1>0. /\ in.catalysts \in Seq([ticker : Tickers, primary : BOOLEAN])
      /\ in.recs \in Seq([ticker : Tickers, quarters : Nat]) /\ in.sample \in Seq(Tickers)
  BY DEF Input
<1>1. Kept(in, tier, Portfolio!UpdateTier0(in, tier).tier)
  <2> DEFINE key == "tier_0_passive_index"
             closed == Portfolio!CloseWhere(in, key, tier, Portfolio!Held(tier), "rebalance")
             half == closed.tier.cash \div 2
             wants == Portfolio!Same(half, Tier0Tickers)
             slots == Len(Tier0Tickers)
             both == Portfolio!Done(in, [closed EXCEPT !.tier = Portfolio!Enter(in, @, wants, slots)])
             none == Portfolio!Done(in, [tier |-> tier, rows |-> << >>])
  <2>1. Kept(in, tier, both.tier)
    <3>1. closed.tier \in Tier
      BY CloseKeeps
    <3>2. half \in Nat
      BY <3>1, SMTT(30) DEF Tier
    <3> HIDE DEF half
    <3>3. wants \in Seq(Want)
      BY <3>2, SameTypes
    <3> HIDE DEF wants
    <3> QED BY <3>3, CloseEnterKeeps
  <2>2. Kept(in, tier, none.tier)
    <3>1. Traded(in, tier, tier)
      BY DEF Traded
    <3> QED BY <3>1, DoneIs, FinalizeKeeps
  <2>3. Portfolio!UpdateTier0(in, tier) = both \/ Portfolio!UpdateTier0(in, tier) = none
    BY DEF Portfolio!UpdateTier0
  <2> HIDE DEF both, none
  <2> QED BY <2>1, <2>2, <2>3
<1>2. ASSUME NEW key, NEW targets \in Seq(Tickers), NEW exits, NEW reason
      PROVE  Kept(in, tier, Portfolio!UpdateSlots(in, key, tier, targets, exits, reason).tier)
  <2> DEFINE closed == Portfolio!CloseWhere(in, key, tier, exits, reason)
             nav == Portfolio!Nav(in, closed.tier)
             alloc == nav \div TopK
             wants == Portfolio!Same(alloc, targets)
  <2>1. closed.tier \in Tier
    BY CloseKeeps
  <2>2. nav \in Nat
    BY <2>1, NavNat
  <2>3. alloc \in Nat
    <3> HIDE DEF nav
    <3> QED BY <2>2
  <2> HIDE DEF alloc
  <2>4. wants \in Seq(Want)
    BY <2>3, SameTypes
  <2> HIDE DEF wants
  <2>5. Portfolio!UpdateSlots(in, key, tier, targets, exits, reason)
          = Portfolio!Done(in, [closed EXCEPT !.tier = Portfolio!Enter(in, @, wants, TopK)])
    BY DEF Portfolio!UpdateSlots, wants, alloc
  <2> QED BY <2>4, <2>5, CloseEnterKeeps
<1>3. Kept(in, tier, Portfolio!UpdateTier1(in, tier).tier)
  <2>1. Portfolio!SelectTopK(in.catalysts, TopK) \in Seq(Tickers)
    BY <1>0, SelectTypes
  <2> QED BY <1>2, <2>1 DEF Portfolio!UpdateTier1
<1>4. Kept(in, tier, Portfolio!UpdateTier3(in, tier).tier)
  BY <1>0, <1>2 DEF Portfolio!UpdateTier3
<1>5. Kept(in, tier, Portfolio!UpdateTier2(in, tier).tier)
  <2> DEFINE key == "tier_2_llm_filtered"
             reason == "falsifier_triggered"
             exits == {h \in Portfolio!Held(tier) : h.ticker \in in.triggered}
             closed == Portfolio!CloseWhere(in, key, tier, exits, reason)
             nav == Portfolio!Nav(in, closed.tier)
             wants == [i \in DOMAIN in.recs |->
                         [ticker |-> in.recs[i].ticker, alloc |-> (nav * in.recs[i].quarters) \div 4]]
             slots == Len(closed.tier.holdings) + Len(wants)
             end == [closed EXCEPT !.tier = Portfolio!Enter(in, @, wants, slots)]
  <2>1. closed.tier \in Tier
    BY CloseKeeps
  <2>2. nav \in Nat
    BY <2>1, NavNat
  <2>3. wants \in Seq(Want)
    <3> HIDE DEF nav
    <3>1. /\ Len(in.recs) \in Nat /\ DOMAIN in.recs = 1 .. Len(in.recs)
          /\ \A i \in 1 .. Len(in.recs) : in.recs[i].ticker \in Tickers /\ in.recs[i].quarters \in Nat
      <4> DEFINE X == [ticker : Tickers, quarters : Nat]
                 recs == in.recs
      <4>1. recs \in Seq(X)
        BY <1>0
      <4> HIDE DEF X, recs
      <4>2. Len(recs) \in Nat /\ DOMAIN recs = 1 .. Len(recs) /\ \A i \in 1 .. Len(recs) : recs[i] \in X
        BY <4>1
      <4>3. \A x \in X : x.ticker \in Tickers /\ x.quarters \in Nat
        BY DEF X
      <4> QED BY <4>2, <4>3 DEF recs
    <3>2. ASSUME NEW n \in Nat PROVE (nav * n) \div 4 \in Nat
      <4> DEFINE x == nav * n
      <4>1. x \in Nat
        BY <2>2
      <4> HIDE DEF x
      <4>2. x \div 4 \in Nat
        BY <4>1
      <4> QED BY <4>2 DEF x
    <3>3. wants \in [1 .. Len(in.recs) -> Want]
      BY <3>1, <3>2 DEF Want
    <3> QED BY <3>1, <3>3
  <2>4. Portfolio!UpdateTier2(in, tier) = Portfolio!Done(in, end)
    <3>1. PICK t, r : closed = [tier |-> t, rows |-> r]
      BY DEF Portfolio!CloseWhere
    <3> QED BY <3>1 DEF Portfolio!UpdateTier2
  <2> HIDE DEF wants, slots, exits
  <2>5. Kept(in, tier, Portfolio!Done(in, end).tier)
    BY <2>3, CloseEnterKeeps
  <2> QED BY <2>4, <2>5
<1> QED
  BY <1>1, <1>3, <1>4, <1>5 DEF Portfolio!Update, Portfolio!TierKeys

(* The operators of FiniteSets are the same from within the instance.      *)
LEMMA SameFiniteSets ==
  \A S : /\ Portfolio!IsFiniteSet(S) <=> IsFiniteSet(S)
         /\ Portfolio!Cardinality(S) = Cardinality(S)
  BY DEF IsFiniteSet, Cardinality, Portfolio!IsFiniteSet, Portfolio!Cardinality

(* The seeded sample is a list of tickers, and so every input is typed.    *)
LEMMA SampleTypes ==
  ASSUME IsFiniteSet(Tickers), NEW S \in SUBSET Tickers
  PROVE  Portfolio!SetToSeq(S) \in Seq(Tickers)
<1> DEFINE n == Cardinality(S)
           B == {f \in [1 .. n -> S] : Portfolio!IsInjective(f)}
<1>1. IsFiniteSet(S) /\ n \in Nat
  BY FS_Subset, FS_CardinalityType
<1>2. PICK f \in Bijection(1 .. n, S) : TRUE
  <2>1. ExistsBijection(1 .. n, S)
    BY <1>1, FS_CardinalityType
  <2> QED BY <2>1 DEF ExistsBijection
<1>3. f \in B
  BY <1>2 DEF Bijection, Injection, Portfolio!IsInjective, IsInjective
<1>4. Portfolio!SetToSeq(S) \in [1 .. n -> S]
  <2>1. Portfolio!SetToSeq(S) = CHOOSE g \in [1 .. n -> S] : Portfolio!IsInjective(g)
    BY SameFiniteSets DEF Portfolio!SetToSeq
  <2> QED BY <1>3, <2>1
<1> QED BY <1>1, <1>4

(* Every input a run may find is typed.                                    *)
LEMMA InputsTyped == ASSUME NEW d \in Nat PROVE Portfolio!Inputs(d) \subseteq Input
<1> SUFFICES ASSUME NEW in \in Portfolio!Inputs(d) PROVE in \in Input
  OBVIOUS
<1> USE EngineAssumption DEF Portfolio!TrailsAssumption
<1>1. PICK t \in Trails :
        in \in [date : {d}, prices : {t.prices}, catalysts : {t.catalysts}, recs : {t.recs},
                triggered : {t.triggered}, sample : Portfolio!Samples(t.pool)]
  BY DEF Portfolio!Inputs
<1>2. in.sample \in Seq(Tickers)
  <2>1. PICK S \in SUBSET Portfolio!Pool(t.pool) : in.sample = Portfolio!SetToSeq(S)
    BY <1>1 DEF Portfolio!Samples
  <2>2. Portfolio!Pool(t.pool) \subseteq Tickers
    BY DEF Portfolio!Pool
  <2>3. S \in SUBSET Tickers /\ IsFiniteSet(Tickers)
    BY <2>2, SameFiniteSets
  <2> QED BY <2>1, <2>3, SampleTypes
<1>3. /\ t.prices \in [Tickers -> Nat] /\ t.triggered \in SUBSET Tickers
      /\ t.catalysts \in Seq([ticker : Tickers, primary : BOOLEAN])
      /\ t.recs \in Seq([ticker : Tickers, quarters : Nat])
  OBVIOUS
<1> QED
  BY <1>1, <1>2, <1>3 DEF Input

(* What the tiers are after the engine and before the rollover.            *)
Updated(in, ts) == [k \in EngineTiers |-> Portfolio!Update(in, k, ts[k]).tier]

(* The engine keeps the types, and the NAV of every tier.                  *)
LEMMA UpdatedKeeps ==
  ASSUME NEW in \in Input, NEW ts \in [EngineTiers -> Tier]
  PROVE  /\ Updated(in, ts) \in [EngineTiers -> Tier]
         /\ \A k \in EngineTiers : Kept(in, ts[k], Updated(in, ts)[k])
<1>1. ASSUME NEW k \in EngineTiers PROVE Kept(in, ts[k], Updated(in, ts)[k])
  <2>1. k \in Portfolio!TierKeys /\ ts[k] \in Tier
    BY EngineAssumption DEF Portfolio!TiersAssumption
  <2>2. Tier0Tickers \in Seq(Tickers) /\ TopK \in Nat \ {0} /\ NoPrice = 0
    BY EngineAssumption DEF Portfolio!TrailsAssumption, Portfolio!BoundsAssumption
  <2>3. Kept(in, ts[k], Portfolio!Update(in, k, ts[k]).tier)
    BY <2>1, <2>2, UpdateKeeps
  <2> QED BY <2>3 DEF Updated
<1>2. \A k \in EngineTiers : Updated(in, ts)[k] \in Tier
  BY <1>1 DEF Kept, Traded
<1> QED BY <1>1, <1>2 DEF Updated

(* A rollover adds an entry to the history of a tier, if anything.         *)
RollsOver(old, new) ==
    /\ new.cash = old.cash /\ new.holdings = old.holdings /\ new.closed = old.closed
    /\ new.nav = old.nav /\ new = [old EXCEPT !.quarters = new.quarters]

(* That is all a rollover does to a tier.                                  *)
LEMMA RolloverKeeps ==
  ASSUME NEW sn, NEW ts \in [EngineTiers -> Tier], NEW d
  PROVE  /\ DOMAIN Portfolio!Rollover(sn, ts, d) = EngineTiers
         /\ \A k \in EngineTiers : RollsOver(ts[k], Portfolio!Rollover(sn, ts, d)[k])
<1>1. \A k \in EngineTiers : \A x : RollsOver(ts[k], [ts[k] EXCEPT !.quarters = Append(@, x)])
  BY DEF RollsOver, Tier
<1>2. \A k \in EngineTiers : RollsOver(ts[k], ts[k])
  BY DEF RollsOver, Tier
<1> QED
  BY <1>1, <1>2 DEF Portfolio!Rollover

(* The NAV of a tier does not depend on its history.                       *)
LEMMA RollsOverNav ==
  ASSUME NEW in, NEW old, NEW new, RollsOver(old, new)
  PROVE  Portfolio!Nav(in, new) = Portfolio!Nav(in, old)
BY NavIs DEF RollsOver

(* The first and the last day of a bounded set of days are days of it.     *)
LEMMA FirstAndLast ==
  ASSUME NEW L \in Nat, NEW S \in SUBSET (0 .. L), S # {}
  PROVE  /\ Portfolio!MinOf(S) \in S /\ \A x \in S : Portfolio!MinOf(S) <= x
         /\ Portfolio!MaxOf(S) \in S /\ \A x \in S : x <= Portfolio!MaxOf(S)
<1> DEFINE V == {x + 1 : x \in S}
           f == [v \in V |-> v]
           g == [v \in V |-> (L + 1) - v]
<1>1. /\ V \subseteq 1 .. L + 1 /\ V # {} /\ L + 1 \in Nat
      /\ \A v \in V : f[v] \in Nat /\ g[v] \in Nat
  <2>1. V \subseteq 1 .. L + 1 /\ V # {} /\ L + 1 \in Nat
    OBVIOUS
  <2> HIDE DEF V
  <2>2. \A v \in V : v \in Nat /\ (L + 1) - v \in Nat
    BY <2>1
  <2>3. \A v \in V : f[v] = v /\ g[v] = (L + 1) - v
    OBVIOUS
  <2> HIDE DEF f, g
  <2> QED BY <2>1, <2>2, <2>3
<1> HIDE DEF f, g, V
<1>2. PICK p \in V : \A v \in V : f[v] <= f[p]
  BY <1>1, ArgMaxExists
<1>3. PICK q \in V : \A v \in V : g[v] <= g[q]
  BY <1>1, ArgMaxExists
<1>4. \A x \in S : x + 1 \in V /\ x \in Nat
  BY DEF V
<1>5. p - 1 \in S /\ q - 1 \in S
  BY <1>2, <1>3 DEF V
<1>6. \A x \in S : x <= p - 1 /\ q - 1 <= x
  BY <1>1, <1>2, <1>3, <1>4 DEF f, g
<1> QED
  BY <1>5, <1>6 DEF Portfolio!MinOf, Portfolio!MaxOf

(* A later day is in no earlier quarter.                                   *)
LEMMA QuarterOrder ==
  ASSUME NEW x \in Nat, NEW y \in Nat, x <= y
  PROVE  /\ Portfolio!Quarter(x) \in Nat /\ Portfolio!Quarter(y) \in Nat
         /\ Portfolio!Quarter(x) <= Portfolio!Quarter(y)
<1> DEFINE n == QuarterDays
           p == x \div n
           q == y \div n
           r == x % n
           s == y % n
<1>1. n \in Nat \ {0}
  BY EngineAssumption DEF Portfolio!BoundsAssumption
<1> HIDE DEF n
<1>2. p \in Nat /\ q \in Nat /\ x = n * p + r /\ y = n * q + s /\ r \in Nat /\ s \in Nat /\ s < n
  BY <1>1
<1> HIDE DEF p, q, r, s
<1>3. ASSUME q < p PROVE FALSE
  <2>1. n * p = n * (q + 1) + n * (p - (q + 1)) /\ n * (p - (q + 1)) >= 0
    BY <1>1, <1>2, <1>3
  <2>2. n * (q + 1) = n * q + n
    BY <1>1, <1>2
  <2> DEFINE u == n * q
             v == n * p
             w == n * (p - (q + 1))
  <2>3. u \in Int /\ v \in Int /\ w \in Int /\ v = (u + n) + w /\ w >= 0 /\ x = v + r /\ y = u + s
    BY <1>1, <1>2, <2>1, <2>2
  <2> HIDE DEF u, v, w
  <2> QED BY <1>1, <1>2, <2>3
<1>4. p <= q
  BY <1>2, <1>3
<1> QED
  BY <1>2, <1>4 DEF Portfolio!Quarter, p, q, n

(* The days of a quarter, and the quarters over on day t in which tier k   *)
(* began with something.                                                   *)
Of(sn, q)       == {d \in DOMAIN sn : Portfolio!Quarter(d) = q}
Start(sn, q, k) == sn[Portfolio!MinOf(Of(sn, q))][k]
Stop(sn, q, k)  == sn[Portfolio!MaxOf(Of(sn, q))][k]
Over(sn, t, k)  == {q \in {Portfolio!Quarter(d) : d \in DOMAIN sn} :
                       q < Portfolio!Quarter(t) /\ Start(sn, q, k) # 0}

(* The history of a tier lists them, in order and once.                    *)
Listed(sn, t, k, h) ==
    /\ Len(h) = Cardinality(Over(sn, t, k))
    /\ \A q \in Over(sn, t, k) : \E i \in DOMAIN h : h[i].quarter = q
    /\ \A i \in DOMAIN h :
          /\ h[i].quarter \in Over(sn, t, k)
          /\ \A j \in DOMAIN h : i < j => h[i].quarter < h[j].quarter
          /\ h[i].from = Start(sn, h[i].quarter, k)
          /\ h[i].to = Stop(sn, h[i].quarter, k)

(* The snapshots end today.                                                *)
Snapped(sn, t) ==
    /\ t \in Nat
    /\ DOMAIN sn \subseteq 0 .. t /\ (DOMAIN sn # {} => t \in DOMAIN sn)
    /\ \A d \in DOMAIN sn : sn[d] \in [EngineTiers -> Nat]

(* A snapshot of day d, no earlier than the last, leaves the quarters      *)
(* before that of d as they were.                                          *)
LEMMA SnapshotsKeep ==
  ASSUME NEW sn, NEW t, Snapped(sn, t), NEW d \in Nat, t <= d, NEW ts \in [EngineTiers -> Tier]
  PROVE  LET all == Portfolio!Snapshots(sn, ts, d)
         IN  /\ Snapped(all, d) /\ DOMAIN all = DOMAIN sn \cup {d}
             /\ \A q : q < Portfolio!Quarter(d) =>
                   /\ Of(all, q) = Of(sn, q)
                   /\ Of(sn, q) # {} => \A k : Start(all, q, k) = Start(sn, q, k)
                                               /\ Stop(all, q, k) = Stop(sn, q, k)
<1> DEFINE all == Portfolio!Snapshots(sn, ts, d)
<1>1. /\ DOMAIN all = DOMAIN sn \cup {d}
      /\ \A x \in DOMAIN sn : x # d => all[x] = sn[x]
      /\ all[d] = [k \in EngineTiers |-> ts[k].nav]
  BY DEF Portfolio!Snapshots
<1>2. /\ t \in Nat /\ DOMAIN sn \subseteq 0 .. t
      /\ \A x \in DOMAIN sn : sn[x] \in [EngineTiers -> Nat]
  BY DEF Snapped
<1> HIDE DEF all
<1>3. Snapped(all, d)
  <2>1. \A k \in EngineTiers : ts[k].nav \in Nat
    BY DEF Tier
  <2>2. all[d] \in [EngineTiers -> Nat]
    BY <1>1, <2>1
  <2>3. \A x \in DOMAIN all : all[x] \in [EngineTiers -> Nat]
    BY <1>1, <1>2, <2>2
  <2> QED BY <1>1, <1>2, <2>3 DEF Snapped
<1>4. ASSUME NEW q, q < Portfolio!Quarter(d)
      PROVE  /\ Of(all, q) = Of(sn, q)
             /\ Of(sn, q) # {} => \A k : Start(all, q, k) = Start(sn, q, k)
                                         /\ Stop(all, q, k) = Stop(sn, q, k)
  <2>1. q # Portfolio!Quarter(d)
    <3>1. Portfolio!Quarter(d) \in Nat
      BY QuarterOrder
    <3> QED BY <1>4, <3>1
  <2>2. Of(all, q) = Of(sn, q) /\ d \notin Of(sn, q)
    BY <1>1, <2>1 DEF Of
  <2>3. ASSUME Of(sn, q) # {}, NEW k
        PROVE  Start(all, q, k) = Start(sn, q, k) /\ Stop(all, q, k) = Stop(sn, q, k)
    <3>1. Of(sn, q) \in SUBSET (0 .. t) /\ Of(sn, q) \subseteq DOMAIN sn
      BY <1>2 DEF Of
    <3>2. Portfolio!MinOf(Of(sn, q)) \in Of(sn, q) /\ Portfolio!MaxOf(Of(sn, q)) \in Of(sn, q)
      BY <1>2, <2>3, <3>1, FirstAndLast
    <3> QED BY <1>1, <2>2, <3>1, <3>2 DEF Start, Stop
  <2> QED BY <2>2, <2>3
<1> QED
  BY <1>1, <1>3, <1>4 DEF all

(* So is the first and the last NAV of such a quarter, by name.            *)
LEMMA QuarterStays ==
  ASSUME NEW sn, NEW t, Snapped(sn, t), NEW d \in Nat, t <= d, NEW ts \in [EngineTiers -> Tier],
         NEW q, q < Portfolio!Quarter(d), Of(sn, q) # {}, NEW k
  PROVE  /\ Start(Portfolio!Snapshots(sn, ts, d), q, k) = Start(sn, q, k)
         /\ Stop(Portfolio!Snapshots(sn, ts, d), q, k) = Stop(sn, q, k)
<1> DEFINE all == Portfolio!Snapshots(sn, ts, d)
<1>1. \A r : r < Portfolio!Quarter(d) =>
                 (Of(sn, r) # {} => \A j : Start(all, r, j) = Start(sn, r, j)
                                           /\ Stop(all, r, j) = Stop(sn, r, j))
  BY SnapshotsKeep
<1> HIDE DEF all
<1>2. Start(all, q, k) = Start(sn, q, k) /\ Stop(all, q, k) = Stop(sn, q, k)
  BY <1>1
<1> QED BY <1>2 DEF all

(* The quarters over on day d, told from the snapshots before it.          *)
LEMMA OverAfter ==
  ASSUME NEW sn, NEW t, Snapped(sn, t), NEW d \in Nat, t <= d, NEW ts \in [EngineTiers -> Tier],
         NEW k, NEW q
  PROVE  q \in Over(Portfolio!Snapshots(sn, ts, d), d, k)
           <=> /\ Of(sn, q) # {} /\ q < Portfolio!Quarter(d)
               /\ Start(sn, q, k) # 0
<1> DEFINE all == Portfolio!Snapshots(sn, ts, d)
<1>1. /\ DOMAIN all = DOMAIN sn \cup {d}
      /\ q < Portfolio!Quarter(d) => Of(all, q) = Of(sn, q)
      /\ q < Portfolio!Quarter(d) /\ Of(sn, q) # {} => Start(all, q, k) = Start(sn, q, k)
  BY SnapshotsKeep
<1> HIDE DEF all
<1>2. q \in {Portfolio!Quarter(x) : x \in DOMAIN all} <=> Of(all, q) # {}
  BY DEF Of
<1> QED
  BY <1>1, <1>2 DEF Over, all

(* A history that lists what was over lists what is over after a day that  *)
(* ends no quarter.                                                        *)
LEMMA ListedStays ==
  ASSUME NEW sn, NEW t, Snapped(sn, t), NEW d \in Nat, t <= d, NEW ts \in [EngineTiers -> Tier],
         NEW k, NEW h, Listed(sn, t, k, h),
         Over(Portfolio!Snapshots(sn, ts, d), d, k) = Over(sn, t, k)
  PROVE  Listed(Portfolio!Snapshots(sn, ts, d), d, k, h)
<1> DEFINE all == Portfolio!Snapshots(sn, ts, d)
<1>1. ASSUME NEW q \in Over(sn, t, k)
      PROVE  Start(all, q, k) = Start(sn, q, k) /\ Stop(all, q, k) = Stop(sn, q, k)
  <2>1. Of(sn, q) # {} /\ q < Portfolio!Quarter(d)
    BY OverAfter
  <2> QED BY <2>1, QuarterStays
<1> HIDE DEF all
<1>2. \A i \in DOMAIN h : h[i].quarter \in Over(sn, t, k)
  BY DEF Listed
<1>3. \A i \in DOMAIN h : /\ h[i].from = Start(all, h[i].quarter, k)
                          /\ h[i].to = Stop(all, h[i].quarter, k)
  BY <1>1, <1>2 DEF Listed
<1>4. Over(all, d, k) = Over(sn, t, k)
  BY DEF all
<1>5. Listed(all, d, k, h)
  BY <1>3, <1>4 DEF Listed
<1> QED BY <1>5 DEF all

(* What a run's rollover leaves of the history of a tier lists the         *)
(* quarters that are over after the run.                                   *)
LEMMA HistoryStep ==
  ASSUME NEW sn, NEW t, Snapped(sn, t), NEW d \in Nat, t <= d, NEW ts \in [EngineTiers -> Tier],
         NEW k \in EngineTiers, Listed(sn, t, k, ts[k].quarters)
  PROVE  /\ Portfolio!Rollover(sn, ts, d)[k] \in Tier
         /\ Listed(Portfolio!Snapshots(sn, ts, d), d, k, Portfolio!Rollover(sn, ts, d)[k].quarters)
<1> DEFINE all == Portfolio!Snapshots(sn, ts, d)
           prev == {x \in DOMAIN sn : x < d}
           q == Portfolio!Quarter(Portfolio!MaxOf(prev))
           h == ts[k].quarters
           e == [quarter |-> q, from |-> Start(all, q, k), to |-> Stop(all, q, k)]
           skip == (\E i \in DOMAIN h : h[i].quarter = q) \/ Start(all, q, k) = 0
           new == Portfolio!Rollover(sn, ts, d)[k]
           Q(x) == Portfolio!Quarter(x)
<1> SUFFICES new \in Tier /\ Listed(all, d, k, new.quarters)
  OBVIOUS
<1>1. new = IF prev = {} \/ q = Q(d) \/ skip THEN ts[k]
            ELSE [ts[k] EXCEPT !.quarters = Append(h, e)]
  BY DEF Portfolio!Rollover, Of, Start, Stop
<1>2. t \in Nat /\ DOMAIN sn \subseteq 0 .. t /\ ts[k] \in Tier /\ (DOMAIN sn # {} => t \in DOMAIN sn)
  BY DEF Snapped
<1>3. Q(t) \in Nat /\ Q(d) \in Nat /\ Q(t) <= Q(d)
      /\ \A x \in DOMAIN sn : Q(x) \in Nat /\ Q(x) <= Q(t)
  BY <1>2, QuarterOrder
<1>4. /\ \A r : r \in Over(all, d, k) <=> Of(sn, r) # {} /\ r < Q(d) /\ Start(sn, r, k) # 0
      /\ \A r : r \in Over(sn, t, k) <=> Of(sn, r) # {} /\ r < Q(t) /\ Start(sn, r, k) # 0
  <2>1. \A r : r \in {Portfolio!Quarter(x) : x \in DOMAIN sn} <=> Of(sn, r) # {}
    BY DEF Of
  <2> QED BY <2>1, OverAfter DEF Over
<1>5. \A r : Of(sn, r) # {} => r \in Nat /\ r <= Q(t)
  BY <1>3 DEF Of
<1>6. Listed(sn, t, k, h)
  OBVIOUS
<1>7. prev # {} => /\ Portfolio!MaxOf(prev) \in prev /\ \A x \in prev : x <= Portfolio!MaxOf(prev)
  <2>1. prev \in SUBSET (0 .. t)
    BY <1>2
  <2> HIDE DEF prev
  <2> QED BY <1>2, <2>1, FirstAndLast
<1> HIDE DEF all, prev, q, h, e, skip, new, Q
<1>8. ASSUME Over(all, d, k) = Over(sn, t, k), new = ts[k]
      PROVE  new \in Tier /\ Listed(all, d, k, new.quarters)
  BY <1>2, <1>6, <1>8, ListedStays DEF all, h
<1>9. ASSUME Q(t) = Q(d) PROVE Over(all, d, k) = Over(sn, t, k)
  BY <1>4, <1>9
<1>10. CASE prev = {}
  <2>1. \A x \in DOMAIN sn : x = d /\ x = t
    BY <1>2, <1>10 DEF prev
  <2>2. \A r : Of(sn, r) # {} => r = Q(t) /\ r = Q(d)
    BY <2>1 DEF Of, Q
  <2>3. Over(all, d, k) = Over(sn, t, k)
    BY <1>3, <1>4, <2>2
  <2> QED BY <1>1, <1>8, <1>10, <2>3
<1>11. CASE prev # {}
  <2>1. /\ Portfolio!MaxOf(prev) \in DOMAIN sn /\ Portfolio!MaxOf(prev) < d
        /\ \A x \in prev : x <= Portfolio!MaxOf(prev)
    BY <1>7, <1>11 DEF prev
  <2>2. q \in Nat /\ q <= Q(t) /\ Of(sn, q) # {}
    BY <1>3, <2>1 DEF q, Q, Of
  <2>3. CASE q = Q(d)
    <3>1. Q(t) = Q(d)
      BY <1>3, <2>2, <2>3
    <3> QED BY <1>1, <1>8, <1>9, <2>3, <3>1
  <2>4. CASE q # Q(d) /\ t = d
    <3>1. q < Q(d) /\ Q(t) = Q(d)
      BY <1>3, <2>2, <2>4 DEF Q
    <3>2. Start(all, q, k) = Start(sn, q, k)
      BY <2>2, <3>1, QuarterStays DEF all, Q
    <3>3. Start(sn, q, k) # 0 => q \in Over(sn, t, k)
      BY <1>4, <2>2, <3>1
    <3>4. skip
      BY <1>6, <3>2, <3>3 DEF skip, Listed
    <3> QED BY <1>1, <1>8, <1>9, <3>1, <3>4
  <2>5. CASE q # Q(d) /\ t < d
    <3>1. prev = DOMAIN sn /\ t \in prev /\ Portfolio!MaxOf(prev) = t
      <4>1. prev = DOMAIN sn
        BY <1>2, <2>5 DEF prev
      <4>2. t \in prev
        BY <1>2, <1>11, <4>1
      <4>3. Portfolio!MaxOf(prev) \in 0 .. t /\ t <= Portfolio!MaxOf(prev)
        BY <1>2, <2>1, <4>2
      <4> QED BY <1>2, <4>1, <4>2, <4>3
    <3>2. q = Q(t) /\ q < Q(d)
      BY <1>3, <2>5, <3>1 DEF q, Q
    <3>3. Start(all, q, k) = Start(sn, q, k) /\ Stop(all, q, k) = Stop(sn, q, k)
      BY <2>2, <3>2, QuarterStays DEF all, Q
    <3>4. \A i \in DOMAIN h : h[i].quarter \in Nat /\ h[i].quarter < q
      BY <1>4, <1>5, <1>6, <3>2 DEF Listed
    <3>5. q \notin Over(sn, t, k)
      BY <1>4, <2>2, <3>2
    <3>6. CASE Start(sn, q, k) = 0
      <4>1. Over(all, d, k) = Over(sn, t, k)
        <5>1. \A r : Of(sn, r) # {} /\ r < Q(d) /\ Start(sn, r, k) # 0 => r < Q(t)
          BY <1>3, <1>5, <3>2, <3>6
        <5>2. \A r : Of(sn, r) # {} /\ r < Q(t) => r < Q(d)
          BY <1>3, <1>5
        <5> QED BY <1>4, <5>1, <5>2
      <4> QED BY <1>1, <1>8, <3>3, <3>6, <4>1 DEF skip
    <3>7. CASE Start(sn, q, k) # 0
      <4>1. Over(all, d, k) = Over(sn, t, k) \cup {q}
        <5>1. \A r : Of(sn, r) # {} => (r < Q(d) <=> r < Q(t) \/ r = q)
          BY <1>3, <1>5, <3>2
        <5> QED BY <1>4, <2>2, <3>2, <3>7, <5>1
      <4>2. ~skip
        BY <2>2, <3>3, <3>4, <3>7 DEF skip
      <4>3. new = [ts[k] EXCEPT !.quarters = Append(h, e)]
        BY <1>1, <1>11, <2>5, <4>2
      <4>4. h \in Seq(Closure)
        BY <1>2 DEF Tier, h
      <4>5. e \in Closure
        <5>1. Of(sn, q) \in SUBSET (0 .. t) /\ Of(sn, q) \subseteq DOMAIN sn
          BY <1>2 DEF Of
        <5>2. Portfolio!MinOf(Of(sn, q)) \in Of(sn, q) /\ Portfolio!MaxOf(Of(sn, q)) \in Of(sn, q)
          BY <1>2, <2>2, <5>1, FirstAndLast
        <5>3. Start(sn, q, k) \in Nat /\ Stop(sn, q, k) \in Nat
          BY <5>1, <5>2 DEF Start, Stop, Snapped
        <5> QED BY <2>2, <3>3, <5>3 DEF e, Closure
      <4> DEFINE g == Append(h, e)
                 n == Len(h)
      <4>6. /\ n \in Nat /\ DOMAIN h = 1 .. n /\ DOMAIN g = 1 .. n + 1 /\ Len(g) = n + 1
            /\ g[n + 1] = e /\ \A i \in 1 .. n : g[i] = h[i] /\ i \in 1 .. n + 1
            /\ g \in Seq(Closure) /\ n + 1 \in 1 .. n + 1
        BY <4>4, <4>5
      <4>7. new \in Tier /\ new.quarters = g
        <5> HIDE DEF g
        <5>1. new = [ts[k] EXCEPT !.quarters = g]
          BY <4>3 DEF g
        <5> QED BY <1>2, <4>6, <5>1 DEF Tier
      <4> HIDE DEF g, n
      <4>8. Len(g) = Cardinality(Over(all, d, k))
        <5>1. IsFiniteSet(Over(sn, t, k))
          <6>1. Over(sn, t, k) \in SUBSET (0 .. Q(t))
            BY <1>3, <1>4, <1>5
          <6>2. IsFiniteSet(0 .. Q(t))
            BY <1>3, FS_Interval
          <6> QED BY <6>1, <6>2, FS_Subset
        <5>2. Cardinality(Over(all, d, k)) = Cardinality(Over(sn, t, k)) + 1
          BY <3>5, <4>1, <5>1, FS_AddElement
        <5> QED BY <1>6, <4>6, <5>2 DEF Listed, n
      <4>9. \A r \in Over(all, d, k) : \E i \in DOMAIN g : g[i].quarter = r
        <5>1. g[n + 1].quarter = q
          BY <4>6 DEF e
        <5>2. \A r \in Over(sn, t, k) : \E i \in 1 .. n : g[i].quarter = r
          BY <1>6, <4>6 DEF Listed
        <5> QED BY <4>1, <4>6, <5>1, <5>2
      <4>10. ASSUME NEW i \in DOMAIN g
             PROVE  /\ g[i].quarter \in Over(all, d, k)
                    /\ \A j \in DOMAIN g : i < j => g[i].quarter < g[j].quarter
                    /\ g[i].from = Start(all, g[i].quarter, k)
                    /\ g[i].to = Stop(all, g[i].quarter, k)
        <5>1. CASE i \in 1 .. n
          <6>1. g[i] = h[i] /\ h[i].quarter \in Over(sn, t, k)
            BY <1>6, <4>6, <5>1 DEF Listed
          <6>2. \A j \in 1 .. n : i < j => g[i].quarter < g[j].quarter
            BY <1>6, <4>6, <5>1 DEF Listed
          <6>3. g[i].quarter < g[n + 1].quarter
            BY <3>4, <4>6, <5>1, <6>1 DEF e
          <6>4. \A j \in DOMAIN g : j \in 1 .. n \/ j = n + 1
            BY <4>6
          <6>5. Of(sn, h[i].quarter) # {} /\ h[i].quarter < Q(d)
            BY <1>4, <4>1, <6>1
          <6>6. /\ Start(all, h[i].quarter, k) = Start(sn, h[i].quarter, k)
                /\ Stop(all, h[i].quarter, k) = Stop(sn, h[i].quarter, k)
            BY <6>5, QuarterStays DEF all, Q
          <6>7. h[i].from = Start(sn, h[i].quarter, k) /\ h[i].to = Stop(sn, h[i].quarter, k)
            BY <1>6, <4>6, <5>1 DEF Listed
          <6> QED BY <4>1, <6>1, <6>2, <6>3, <6>4, <6>6, <6>7
        <5>2. CASE i = n + 1
          <6>1. g[i] = e
            BY <4>6, <5>2
          <6>2. \A j \in DOMAIN g : ~(i < j)
            BY <4>6, <5>2
          <6> QED BY <4>1, <6>1, <6>2 DEF e
        <5> QED BY <4>6, <5>1, <5>2
      <4>11. Listed(all, d, k, g)
        BY <4>8, <4>9, <4>10 DEF Listed
      <4> QED BY <4>7, <4>11
    <3> QED BY <3>6, <3>7
  <2> QED BY <1>2, <2>3, <2>4, <2>5
<1> QED
  BY <1>10, <1>11

(* The invariant of the engine: tiers and snapshots typed, the last        *)
(* snapshot is today's, and each tier's history lists what is over.        *)
EngineInv ==
    /\ tiers \in [EngineTiers -> Tier]
    /\ Snapped(snaps, today)
    /\ \A k \in EngineTiers : Listed(snaps, today, k, tiers[k].quarters)

(* The empty books satisfy it.                                             *)
LEMMA EngineInit == Portfolio!Init => EngineInv
<1> SUFFICES ASSUME Portfolio!Init PROVE EngineInv
  OBVIOUS
<1>1. Capital \in Nat
  BY EngineAssumption DEF Portfolio!BoundsAssumption
<1>2. Portfolio!EmptyTier \in Tier /\ Portfolio!EmptyTier.quarters = << >>
  BY <1>1 DEF Portfolio!EmptyTier, Tier
<1>3. /\ tiers \in [EngineTiers -> Tier] /\ snaps = << >> /\ today = 0
      /\ \A k \in EngineTiers : tiers[k].quarters = << >>
  BY <1>2 DEF Portfolio!Init
<1>4. DOMAIN snaps = {}
  BY <1>3
<1>5. \A k : Over(snaps, today, k) = {}
  BY <1>4 DEF Over
<1>6. \A k : Listed(snaps, today, k, << >>)
  BY <1>5, FS_EmptySet DEF Listed
<1> QED
  BY <1>3, <1>4, <1>6 DEF EngineInv, Snapped

(* What one run does to the engine.                                        *)
LEMMA EngineRuns ==
  ASSUME NEW d \in today .. MaxDate, NEW in \in Portfolio!Inputs(d), Portfolio!Run(in), EngineInv
  PROVE  /\ d \in Nat /\ today <= d /\ in \in Input /\ in.date = d
         /\ tiers' = Portfolio!Rollover(snaps, Updated(in, tiers), d)
         /\ snaps' = Portfolio!Snapshots(snaps, Updated(in, tiers), d)
         /\ today' = d /\ last' = in
<1>1. d \in Nat /\ today <= d
  BY EngineAssumption DEF EngineInv, Snapped, Portfolio!BoundsAssumption
<1>2. in \in Input
  BY <1>1, InputsTyped
<1>3. in.date = d
  BY DEF Portfolio!Inputs
<1>4. /\ tiers' = Portfolio!Rollover(snaps, Updated(in, tiers), in.date)
      /\ snaps' = Portfolio!Snapshots(snaps, Updated(in, tiers), in.date)
  <2> DEFINE new == [k \in EngineTiers |-> [j \in EngineTiers |-> Portfolio!Update(in, j, tiers[j])][k].tier]
  <2>1. /\ tiers' = Portfolio!Rollover(snaps, new, in.date)
        /\ snaps' = Portfolio!Snapshots(snaps, new, in.date)
    BY DEF Portfolio!Run, Portfolio!RunDailyUpdate
  <2>2. new = Updated(in, tiers)
    BY DEF Updated
  <2> HIDE DEF new
  <2> QED BY <2>1, <2>2
<1> QED
  BY <1>1, <1>2, <1>3, <1>4 DEF Portfolio!Run

(* Every run keeps the invariant, and the NAV of every tier.               *)
LEMMA EngineStep ==
  ASSUME NEW d \in today .. MaxDate, NEW in \in Portfolio!Inputs(d), Portfolio!Run(in), EngineInv
  PROVE  /\ EngineInv'
         /\ \A k \in EngineTiers : Portfolio!Nav(last', tiers'[k]) = Portfolio!Nav(last', tiers[k])
<1> DEFINE ts == Updated(in, tiers)
<1>1. /\ d \in Nat /\ today <= d /\ in \in Input /\ today' = d /\ last' = in
      /\ tiers' = Portfolio!Rollover(snaps, ts, d) /\ snaps' = Portfolio!Snapshots(snaps, ts, d)
  BY EngineRuns
<1>2. tiers \in [EngineTiers -> Tier] /\ Snapped(snaps, today)
      /\ \A k \in EngineTiers : Listed(snaps, today, k, tiers[k].quarters)
  BY DEF EngineInv
<1>3. ts \in [EngineTiers -> Tier] /\ \A k \in EngineTiers : Kept(in, tiers[k], ts[k])
  BY <1>1, <1>2, UpdatedKeeps
<1> HIDE DEF ts
<1>4. /\ \A k \in EngineTiers : RollsOver(ts[k], tiers'[k])
      /\ tiers' = [k \in EngineTiers |-> tiers'[k]]
  <2>1. /\ DOMAIN tiers' = EngineTiers /\ \A k \in EngineTiers : RollsOver(ts[k], tiers'[k])
    BY <1>1, <1>3, RolloverKeeps
  <2>2. tiers' = [k \in EngineTiers |-> tiers'[k]]
    BY <1>1, <1>3, <2>1 DEF Portfolio!Rollover
  <2> QED BY <2>1, <2>2
<1>5. ASSUME NEW k \in EngineTiers
      PROVE  tiers'[k] \in Tier /\ Listed(snaps', d, k, tiers'[k].quarters)
  <2>1. Listed(snaps, today, k, ts[k].quarters)
    BY <1>2, <1>3 DEF Kept, Traded
  <2>2. /\ Portfolio!Rollover(snaps, ts, d)[k] \in Tier
        /\ Listed(Portfolio!Snapshots(snaps, ts, d), d, k, Portfolio!Rollover(snaps, ts, d)[k].quarters)
    BY <1>1, <1>2, <1>3, <2>1, HistoryStep
  <2> QED BY <1>1, <2>2
<1>6. Snapped(snaps', d)
  BY <1>1, <1>2, <1>3, SnapshotsKeep
<1>7. EngineInv'
  <2>1. tiers' \in [EngineTiers -> Tier]
    BY <1>4, <1>5
  <2>2. Snapped(snaps', today') /\ \A k \in EngineTiers : Listed(snaps', today', k, tiers'[k].quarters)
    BY <1>1, <1>5, <1>6
  <2> QED BY <2>1, <2>2 DEF EngineInv
<1>8. ASSUME NEW k \in EngineTiers
      PROVE  Portfolio!Nav(last', tiers'[k]) = Portfolio!Nav(last', tiers[k])
  <2>1. Portfolio!Nav(in, tiers'[k]) = Portfolio!Nav(in, ts[k])
    BY <1>4, RollsOverNav
  <2>2. Portfolio!Nav(in, ts[k]) = Portfolio!Nav(in, tiers[k])
    BY <1>3 DEF Kept, Traded
  <2> QED BY <1>1, <2>1, <2>2
<1> QED
  BY <1>7, <1>8

(* Every step of either half keeps it.                                     *)
LEMMA EngineInvStep == EngineInv /\ [MCNext]_allVars => EngineInv'
<1> SUFFICES ASSUME EngineInv, [MCNext]_allVars PROVE EngineInv'
  OBVIOUS
<1>1. CASE UNCHANGED <<tiers, snaps, today>>
  BY <1>1 DEF EngineInv
<1>2. ASSUME NEW d \in today .. MaxDate, NEW in \in Portfolio!Inputs(d), Portfolio!Run(in)
      PROVE EngineInv'
  BY <1>2, EngineStep
<1>3. CASE Portfolio!Next
  BY <1>1, <1>2, <1>3 DEF Portfolio!Next, Portfolio!ModeC
<1> QED
  BY <1>1, <1>3 DEF MCNext, allVars, engineVars

(* So it holds along every behaviour.                                      *)
LEMMA EngineInvAlways == MCSpec => []EngineInv
<1>1. MCInit => EngineInv
  BY EngineInit DEF MCInit
<1> QED
  BY <1>1, EngineInvStep, PTL DEF MCSpec

(* Trading creates and destroys no money (run_daily_update.py): for any    *)
(* tickers, prices, capital, slots and trail, a run leaves the NAV of each *)
(* tier, at the prices of the run, what it was before its exits, entries   *)
(* and rebalances, divisions that leave a remainder included.              *)
THEOREM NavConservedAlways == MCSpec => NavConserved
<1> DEFINE Conserves == last' # last =>
                \A k \in EngineTiers : Portfolio!Nav(last', tiers'[k]) = Portfolio!Nav(last', tiers[k])
<1>1. EngineInv /\ [MCNext]_allVars => [Conserves]_engineVars
  <2> SUFFICES ASSUME EngineInv, MCNext, last' # last PROVE Conserves
    BY DEF allVars, engineVars
  <2>1. CASE UNCHANGED last
    BY <2>1
  <2>2. ASSUME NEW d \in today .. MaxDate, NEW in \in Portfolio!Inputs(d), Portfolio!Run(in)
        PROVE Conserves
    BY <2>2, EngineStep
  <2>3. CASE Portfolio!Next
    BY <2>1, <2>2, <2>3 DEF Portfolio!Next, Portfolio!ModeC
  <2> QED
    BY <2>1, <2>3 DEF MCNext, engineVars
<1>2. MCSpec => [][Conserves]_engineVars
  <2> HIDE DEF Conserves
  <2> QED
    BY <1>1, EngineInvAlways, PTL DEF MCSpec
<1> QED
  BY <1>2 DEF NavConserved, Portfolio!NavConserved, Portfolio!vars, engineVars

(* The quarterly history is what the snapshots say (run_daily_update.py,   *)
(* _record_snapshot_and_quarter): each tier has, in order and once, every  *)
(* quarter that had a run and is over, the ones it began with nothing left *)
(* out, whatever days are run, skipped or run again.                       *)
THEOREM QuarterHistoryAlways == MCSpec => []QuarterHistory
<1>1. EngineInv => QuarterHistory
  BY SameFiniteSets DEF EngineInv, Listed, Over, Start, Stop, Of, QuarterHistory, Portfolio!QuarterHistory
<1> QED
  BY <1>1, EngineInvAlways, PTL

(* ----- A run of the same day again.                                      *)

(* What a turn of the entry loop may do: pass over, try and buy nothing,   *)
(* or buy.                                                                 *)
Paid(tier, want) == IF want.alloc <= tier.cash THEN want.alloc ELSE tier.cash
Bought(in, tier, want) == [ticker |-> want.ticker, cost |-> Paid(tier, want),
                           price |-> in.prices[want.ticker], entry |-> in.date]
Passes(in, slots, acc, want, new) ==
    /\ new = acc
    /\ \/ Len(acc.tier.holdings) >= slots \/ want.ticker \in acc.held
       \/ ~Portfolio!Priced(in, want.ticker)
Tries(in, acc, want, new) ==
    /\ Portfolio!Priced(in, want.ticker) /\ new.held = acc.held \cup {want.ticker}
    /\ new.tier = acc.tier /\ (want.alloc = 0 \/ acc.tier.cash = 0)
Buys(in, acc, want, new) ==
    /\ Portfolio!Priced(in, want.ticker) /\ new.held = acc.held \cup {want.ticker}
    /\ want.alloc # 0 /\ acc.tier.cash # 0
    /\ new.tier.cash = acc.tier.cash - Paid(acc.tier, want)
    /\ new.tier.holdings = Append(acc.tier.holdings, Bought(in, acc.tier, want))

(* A turn does one of the three.                                           *)
LEMMA TurnIs ==
  ASSUME NEW in \in Input, NEW acc \in Loop, NEW want \in Want, NEW slots, NoPrice = 0
  PROVE  LET new == Turn(in, slots, acc, want)
         IN  Passes(in, slots, acc, want, new) \/ Tries(in, acc, want, new) \/ Buys(in, acc, want, new)
<1> DEFINE new == Turn(in, slots, acc, want)
           pass == \/ Len(acc.tier.holdings) >= slots \/ want.ticker \in acc.held
                   \/ ~Portfolio!Priced(in, want.ticker)
           tier == acc.tier
           t == want.ticker
           m == want.alloc
           opened == Portfolio!Open(in, tier, t, m)
<1>1. CASE pass
  BY <1>1 DEF Turn, Passes
<1>2. CASE ~pass
  <2>1. /\ Portfolio!Priced(in, t) /\ new.held = acc.held \cup {t} /\ new.tier = opened
    BY <1>2 DEF Turn
  <2>2. tier \in Tier /\ t \in Tickers /\ m \in Nat /\ in.prices[t] # NoPrice
    BY <2>1 DEF Loop, Want, Portfolio!Priced
  <2> HIDE DEF new, tier, t, m
  <2>3. \/ opened = tier /\ (m = 0 \/ tier.cash = 0)
        \/ /\ m # 0 /\ tier.cash # 0
           /\ opened.cash = tier.cash - (IF m <= tier.cash THEN m ELSE tier.cash)
           /\ opened.holdings = Append(tier.holdings,
                 [ticker |-> t, cost |-> IF m <= tier.cash THEN m ELSE tier.cash,
                  price |-> in.prices[t], entry |-> in.date])
    BY <2>2, OpenKeeps
  <2> HIDE DEF opened
  <2>4. CASE opened = tier /\ (m = 0 \/ tier.cash = 0)
    BY <2>1, <2>4 DEF Tries, tier, t, m, new
  <2>5. CASE /\ m # 0 /\ tier.cash # 0
             /\ opened.cash = tier.cash - (IF m <= tier.cash THEN m ELSE tier.cash)
             /\ opened.holdings = Append(tier.holdings,
                   [ticker |-> t, cost |-> IF m <= tier.cash THEN m ELSE tier.cash,
                    price |-> in.prices[t], entry |-> in.date])
    BY <2>1, <2>5 DEF Buys, Bought, Paid, tier, t, m, new
  <2> QED BY <2>3, <2>4, <2>5
<1> QED
  BY <1>1, <1>2

(* The loop spends and never sells: cash falls, holdings only grow.        *)
Grows(old, new) ==
    /\ new.cash <= old.cash /\ Len(old.holdings) <= Len(new.holdings)
    /\ Portfolio!Tickrs(old.holdings) \subseteq Portfolio!Tickrs(new.holdings)

(* The loop only grows what its parts grow.                                *)
LEMMA GrowsTogether ==
  ASSUME NEW x \in Tier, NEW y \in Tier, NEW z \in Tier, Grows(x, y), Grows(y, z)
  PROVE  Grows(x, z)
<1>1. /\ x.cash \in Nat /\ y.cash \in Nat /\ z.cash \in Nat
      /\ x.holdings \in Seq(Holding) /\ y.holdings \in Seq(Holding) /\ z.holdings \in Seq(Holding)
  BY DEF Tier
<1>2. Len(x.holdings) \in Nat /\ Len(y.holdings) \in Nat /\ Len(z.holdings) \in Nat
  BY <1>1
<1> QED
  BY <1>1, <1>2 DEF Grows

(* A turn adds one holding at most.                                        *)
LEMMA TurnGrows ==
  ASSUME NEW in \in Input, NEW acc \in Loop, NEW want \in Want, NEW slots, NoPrice = 0
  PROVE  LET new == Turn(in, slots, acc, want)
         IN  Grows(acc.tier, new.tier) /\ Len(new.tier.holdings) <= Len(acc.tier.holdings) + 1
<1> DEFINE new == Turn(in, slots, acc, want)
           tier == acc.tier
           hs == tier.holdings
           bt == Bought(in, tier, want)
<1>1. tier \in Tier /\ tier.cash \in Nat /\ hs \in Seq(Holding) /\ want.alloc \in Nat
  BY DEF Loop, Tier, Want
<1>2. Passes(in, slots, acc, want, new) \/ Tries(in, acc, want, new) \/ Buys(in, acc, want, new)
  BY TurnIs
<1> SUFFICES Grows(tier, new.tier) /\ Len(new.tier.holdings) <= Len(hs) + 1
  OBVIOUS
<1> HIDE DEF new, bt
<1>3. CASE new.tier = tier
  BY <1>1, <1>3 DEF Grows
<1>4. CASE Buys(in, acc, want, new)
  <2>1. new.tier.cash = tier.cash - Paid(tier, want) /\ new.tier.holdings = Append(hs, bt)
    BY <1>4 DEF Buys, bt
  <2>2. Paid(tier, want) \in Nat
    BY <1>1 DEF Paid
  <2>3. /\ Len(hs) \in Nat /\ Len(Append(hs, bt)) = Len(hs) + 1 /\ DOMAIN hs = 1 .. Len(hs)
        /\ DOMAIN Append(hs, bt) = 1 .. Len(hs) + 1 /\ \A i \in 1 .. Len(hs) : Append(hs, bt)[i] = hs[i]
    BY <1>1
  <2>4. Portfolio!Tickrs(hs) \subseteq Portfolio!Tickrs(Append(hs, bt))
    <3>1. \A i \in DOMAIN hs : i \in DOMAIN Append(hs, bt) /\ Append(hs, bt)[i] = hs[i]
      BY <2>3
    <3> HIDE DEF hs
    <3> QED BY <3>1 DEF Portfolio!Tickrs
  <2> QED BY <1>1, <2>1, <2>2, <2>3, <2>4 DEF Grows
<1> QED
  BY <1>2, <1>3, <1>4 DEF Passes, Tries

(* The loop adds one holding per turn at most, and sells none.             *)
LEMMA LoopGrows ==
  ASSUME NEW in \in Input, NEW tier \in Tier, NEW wants \in Seq(Want), NEW slots, NoPrice = 0,
         NEW f, EnterRun(in, tier, wants, slots, f)
  PROVE  /\ \A n \in 0 .. Len(wants) : /\ Grows(f[n].tier, f[Len(wants)].tier)
                                       /\ Len(f[n].tier.holdings) <= Len(tier.holdings) + n
<1> DEFINE L == Len(wants)
           Up(n) == \A m \in 0 .. n : Grows(f[m].tier, f[n].tier)
           Few(n) == Len(f[n].tier.holdings) <= Len(tier.holdings) + n
           T == {n \in 0 .. L : Up(n) /\ Few(n)}
<1>1. L \in Nat /\ \A n \in 1 .. L : wants[n] \in Want /\ n - 1 \in 0 .. L /\ n \in 0 .. L
  OBVIOUS
<1>2. \A n \in 0 .. L : f[n] \in Loop /\ f[n].tier \in Tier
  BY DEF EnterRun, Loop
<1>3. \A x \in Tier : Len(x.holdings) \in Nat /\ x.cash \in Nat
  BY DEF Tier
<1>4. 0 \in T
  <2>1. f[0].tier = tier
    BY DEF EnterRun
  <2>2. Grows(tier, tier)
    BY <1>3 DEF Grows
  <2> QED BY <1>1, <1>3, <2>1, <2>2
<1>5. ASSUME NEW n \in 1 .. L, n - 1 \in T PROVE n \in T
  <2>1. f[n] = Turn(in, slots, f[n - 1], wants[n]) /\ f[n - 1] \in Loop /\ wants[n] \in Want
    BY <1>1, <1>2 DEF EnterRun
  <2>2. /\ Grows(f[n - 1].tier, f[n].tier)
        /\ Len(f[n].tier.holdings) <= Len(f[n - 1].tier.holdings) + 1
    BY <2>1, TurnGrows
  <2>3. f[n].tier \in Tier /\ f[n - 1].tier \in Tier
    BY <1>1, <1>2
  <2>4. ASSUME NEW m \in 0 .. n PROVE Grows(f[m].tier, f[n].tier)
    <3>1. CASE m = n
      BY <1>3, <2>3, <3>1 DEF Grows
    <3>2. CASE m \in 0 .. n - 1
      <4>1. Grows(f[m].tier, f[n - 1].tier) /\ f[m].tier \in Tier
        BY <1>1, <1>2, <1>5, <3>2
      <4> QED BY <2>2, <2>3, <4>1, GrowsTogether
    <3> QED BY <3>1, <3>2
  <2>5. Few(n)
    <3>1. Len(f[n - 1].tier.holdings) <= Len(tier.holdings) + (n - 1)
      BY <1>5
    <3>2. Len(tier.holdings) \in Nat /\ Len(f[n - 1].tier.holdings) \in Nat /\ Len(f[n].tier.holdings) \in Nat
      BY <1>3, <2>3
    <3> DEFINE u == Len(f[n - 1].tier.holdings)
               v == Len(f[n].tier.holdings)
               w == Len(tier.holdings)
    <3>3. u <= w + (n - 1) /\ v <= u + 1 /\ u \in Nat /\ v \in Nat /\ w \in Nat /\ n \in Nat
      BY <1>1, <2>2, <3>1, <3>2
    <3> HIDE DEF u, v, w
    <3>4. v <= w + n
      BY <3>3
    <3> QED BY <3>4 DEF v, w
  <2> QED BY <1>1, <2>4, <2>5
<1>6. \A n \in 0 .. L : n \in T
  <2> HIDE DEF T, L
  <2> QED BY <1>1, <1>4, <1>5, RangeInduction
<1> QED
  BY <1>1, <1>6

(* Entering the same wants again, on what the first time left, enters      *)
(* nothing.                                                                *)
LEMMA EnterAgain ==
  ASSUME NEW in \in Input, NEW tier \in Tier, NEW wants \in Seq(Want), NEW slots \in Nat,
         NoPrice = 0, NEW again \in Nat,
         again = slots \/ slots >= Len(tier.holdings) + Len(wants),
         NEW x \in Tier,
         x.cash = Portfolio!Enter(in, tier, wants, slots).cash,
         x.holdings = Portfolio!Enter(in, tier, wants, slots).holdings
  PROVE  Portfolio!Enter(in, x, wants, again) = x
<1> DEFINE L == Len(wants)
<1>1. PICK f : EnterRun(in, tier, wants, slots, f) /\ Portfolio!Enter(in, tier, wants, slots) = f[L].tier
  BY EnterRuns
<1>2. PICK g : EnterRun(in, x, wants, again, g) /\ Portfolio!Enter(in, x, wants, again) = g[L].tier
  BY EnterRuns
<1>3. L \in Nat /\ \A n \in 1 .. L : wants[n] \in Want /\ n - 1 \in 0 .. L /\ n \in 0 .. L
  OBVIOUS
<1>4. \A n \in 0 .. L : /\ f[n] \in Loop /\ f[n].tier \in Tier /\ g[n] \in Loop
                        /\ Len(f[n].tier.holdings) \in Nat /\ f[n].tier.cash \in Nat
  <2>1. \A n \in 0 .. L : f[n] \in Loop /\ f[n].tier \in Tier /\ g[n] \in Loop
    BY <1>1, <1>2 DEF EnterRun, Loop
  <2>2. \A y \in Tier : Len(y.holdings) \in Nat /\ y.cash \in Nat
    BY DEF Tier
  <2> QED BY <2>1, <2>2
<1>5. /\ x.cash = f[L].tier.cash /\ x.holdings = f[L].tier.holdings
      /\ x.cash \in Nat /\ Len(x.holdings) \in Nat /\ Len(tier.holdings) \in Nat
  BY <1>1 DEF Tier
<1>6. \A n \in 0 .. L : Grows(f[n].tier, x) /\ Len(f[n].tier.holdings) <= Len(tier.holdings) + n
  BY <1>1, <1>5, LoopGrows DEF Grows
<1> DEFINE T == {n \in 0 .. L : g[n].tier = x
                                /\ (Len(x.holdings) >= again \/ f[n].held \subseteq g[n].held)
                                /\ Portfolio!Tickrs(x.holdings) \subseteq g[n].held}
<1>7. 0 \in T
  <2>1. f[0].held = Portfolio!Tickrs(tier.holdings) /\ g[0].tier = x
        /\ g[0].held = Portfolio!Tickrs(x.holdings) /\ f[0].tier = tier
    BY <1>1, <1>2 DEF EnterRun
  <2>2. Portfolio!Tickrs(tier.holdings) \subseteq Portfolio!Tickrs(x.holdings)
    BY <1>3, <1>6, <2>1 DEF Grows
  <2> QED BY <1>3, <2>1, <2>2
<1>8. ASSUME NEW n \in 1 .. L, n - 1 \in T PROVE n \in T
  <2> DEFINE fa == f[n - 1]
             fb == f[n]
             ga == g[n - 1]
             gb == g[n]
             want == wants[n]
  <2>1. /\ fb = Turn(in, slots, fa, want) /\ gb = Turn(in, again, ga, want)
        /\ fa \in Loop /\ ga \in Loop /\ want \in Want
    BY <1>1, <1>2, <1>3, <1>4 DEF EnterRun
  <2>2. /\ ga.tier = x /\ (Len(x.holdings) >= again \/ fa.held \subseteq ga.held)
        /\ Portfolio!Tickrs(x.holdings) \subseteq ga.held
        /\ n \in 0 .. L
    BY <1>3, <1>8
  <2>3. /\ Grows(fa.tier, x) /\ Grows(fb.tier, x)
        /\ Len(fa.tier.holdings) <= Len(tier.holdings) + (n - 1)
        /\ Len(fa.tier.holdings) \in Nat /\ fa.tier.cash \in Nat /\ fb.tier \in Tier
    BY <1>3, <1>4, <1>6
  <2>4. Passes(in, slots, fa, want, fb) \/ Tries(in, fa, want, fb) \/ Buys(in, fa, want, fb)
    BY <2>1, TurnIs
  <2>5. Passes(in, again, ga, want, gb) \/ Tries(in, ga, want, gb) \/ Buys(in, ga, want, gb)
    BY <2>1, TurnIs
  <2> HIDE DEF fa, fb, ga, gb, want
  <2> SUFFICES gb.tier = x /\ (Len(x.holdings) >= again \/ fb.held \subseteq gb.held)
               /\ Portfolio!Tickrs(x.holdings) \subseteq gb.held
    BY <2>2 DEF gb, fb
  <2>8. CASE Len(x.holdings) >= again
    <3>1. gb = ga
      BY <2>1, <2>2, <2>8 DEF Turn
    <3> QED BY <2>2, <2>8, <3>1
  <2>6. CASE ~(Len(x.holdings) >= again) /\ (want.ticker \in ga.held \/ ~Portfolio!Priced(in, want.ticker))
    <3>1. gb = ga
      BY <2>1, <2>6 DEF Turn
    <3>2. fb.held \subseteq ga.held
      <4>1. CASE want.ticker \in ga.held
        BY <2>2, <2>4, <2>6, <4>1 DEF Passes, Tries, Buys
      <4>2. CASE ~Portfolio!Priced(in, want.ticker)
        BY <2>2, <2>4, <2>6, <4>2 DEF Passes, Tries, Buys
      <4> QED BY <2>6, <4>1, <4>2
    <3> QED BY <2>2, <3>1, <3>2
  <2>7. CASE ~(Len(x.holdings) >= again) /\ want.ticker \notin ga.held /\ Portfolio!Priced(in, want.ticker)
    <3>1. CASE Passes(in, slots, fa, want, fb)
      <4>1. Len(fa.tier.holdings) >= slots
        BY <2>2, <2>7, <3>1 DEF Passes
      <4>2. again = slots
        BY <1>3, <1>5, <2>3, <4>1
      <4>3. Len(x.holdings) >= again
        BY <1>5, <2>3, <4>1, <4>2, SMTT(30) DEF Grows
      <4> QED BY <2>7, <4>3
    <3>2. CASE Tries(in, fa, want, fb)
      <4>1. want.alloc = 0 \/ x.cash = 0
        BY <1>5, <2>3, <3>2 DEF Tries, Grows
      <4>2. ~Buys(in, ga, want, gb) /\ ~Passes(in, again, ga, want, gb)
        BY <2>2, <2>7, <4>1 DEF Buys, Passes
      <4>3. Tries(in, ga, want, gb)
        BY <2>5, <4>2
      <4> QED BY <2>2, <2>7, <3>2, <4>3 DEF Tries
    <3>3. CASE Buys(in, fa, want, fb)
      <4> DEFINE hs == fa.tier.holdings
                 bt == Bought(in, fa.tier, want)
      <4>1. hs \in Seq(Holding) /\ bt.ticker = want.ticker /\ fb.tier.holdings = Append(hs, bt)
        BY <2>1, <3>3 DEF Loop, Tier, Bought, Buys
      <4> HIDE DEF hs, bt
      <4>2. Len(hs) + 1 \in DOMAIN Append(hs, bt) /\ Append(hs, bt)[Len(hs) + 1] = bt
        BY <4>1
      <4>3. want.ticker \in Portfolio!Tickrs(fb.tier.holdings)
        BY <4>1, <4>2 DEF Portfolio!Tickrs
      <4> QED BY <2>2, <2>3, <2>7, <4>3 DEF Grows
    <3> QED BY <2>4, <3>1, <3>2, <3>3
  <2> QED BY <2>8, <2>6, <2>7
<1>9. L \in T
  <2> HIDE DEF T, L
  <2>1. \A n \in 0 .. L : n \in T
    BY <1>3, <1>7, <1>8, RangeInduction
  <2> QED BY <1>3, <2>1
<1> QED
  BY <1>2, <1>9

(* What is picked is in the set it is picked from.                         *)
LEMMA ThoseOnly ==
  ASSUME NEW X, NEW seq \in Seq(X), NEW S, NEW x,
         \E i \in DOMAIN Portfolio!Those(seq, S) : Portfolio!Those(seq, S)[i] = x
  PROVE  x \in S
<1>1. (\E i \in DOMAIN Portfolio!Those(seq, S) : Portfolio!Those(seq, S)[i] = x)
         <=> x \in S /\ \E i \in DOMAIN seq : seq[i] = x
  BY ThoseAre
<1> QED BY <1>1

(* What the entry loop holds at its end was held before, or entered today. *)
LEMMA EnterHolds ==
  ASSUME NEW in \in Input, NEW tier \in Tier, NEW wants \in Seq(Want), NEW slots, NoPrice = 0
  PROVE  \A h \in Portfolio!Held(Portfolio!Enter(in, tier, wants, slots)) :
            \/ h \in Portfolio!Held(tier)
            \/ h.entry = in.date /\ \E j \in DOMAIN wants : h.ticker = wants[j].ticker
<1> DEFINE L == Len(wants)
           New(h) == h.entry = in.date /\ \E j \in DOMAIN wants : h.ticker = wants[j].ticker
           Fine(x) == \A h \in Portfolio!Held(x) : h \in Portfolio!Held(tier) \/ New(h)
<1>1. PICK f : EnterRun(in, tier, wants, slots, f) /\ Portfolio!Enter(in, tier, wants, slots) = f[L].tier
  BY EnterRuns
<1>2. L \in Nat /\ \A n \in 1 .. L : wants[n] \in Want /\ n \in DOMAIN wants /\ n - 1 \in 0 .. L /\ n \in 0 .. L
  OBVIOUS
<1>3. \A n \in 0 .. L : f[n] \in Loop
  BY <1>1 DEF EnterRun
<1> DEFINE T == {n \in 0 .. L : Fine(f[n].tier)}
<1>4. 0 \in T
  BY <1>1, <1>2 DEF EnterRun
<1>5. ASSUME NEW n \in 1 .. L, n - 1 \in T PROVE n \in T
  <2> DEFINE acc == f[n - 1]
             new == f[n]
             want == wants[n]
  <2>1. new = Turn(in, slots, acc, want) /\ acc \in Loop /\ want \in Want /\ Fine(acc.tier)
    BY <1>1, <1>2, <1>3, <1>5 DEF EnterRun
  <2>2. Passes(in, slots, acc, want, new) \/ Tries(in, acc, want, new) \/ Buys(in, acc, want, new)
    BY <2>1, TurnIs
  <2>3. \A h : h.entry = in.date /\ h.ticker = want.ticker => New(h)
    BY <1>2
  <2> SUFFICES Fine(new.tier)
    BY <1>2
  <2> HIDE DEF new, acc, want, New
  <2>4. CASE new.tier = acc.tier
    BY <2>1, <2>4
  <2>5. CASE Buys(in, acc, want, new)
    <3> DEFINE hs == acc.tier.holdings
               bt == Bought(in, acc.tier, want)
    <3>1. hs \in Seq(Holding) /\ new.tier.holdings = Append(hs, bt)
          /\ bt.entry = in.date /\ bt.ticker = want.ticker
      BY <2>1, <2>5 DEF Loop, Tier, Buys, Bought
    <3> HIDE DEF hs, bt
    <3>2. New(bt)
      BY <2>3, <3>1
    <3>3. \A i \in DOMAIN Append(hs, bt) : Append(hs, bt)[i] = bt \/ \E j \in DOMAIN hs : Append(hs, bt)[i] = hs[j]
      BY <3>1
    <3>4. \A h \in Portfolio!Held(new.tier) : h = bt \/ h \in Portfolio!Held(acc.tier)
      BY <3>1, <3>3 DEF Portfolio!Held, Portfolio!ToSet, hs
    <3> QED BY <2>1, <3>2, <3>4
  <2> QED BY <2>2, <2>4, <2>5 DEF Passes, Tries
<1>6. L \in T
  <2> HIDE DEF T, L
  <2>1. \A n \in 0 .. L : n \in T
    BY <1>2, <1>4, <1>5, RangeInduction
  <2> QED BY <1>2, <2>1
<1> QED
  BY <1>1, <1>6

(* What a tier still holds after its exits is what did not exit; where     *)
(* nothing exits nothing changes.                                          *)
LEMMA CloseHolds ==
  ASSUME NEW in, NEW tier \in Tier, NEW key, NEW exits, NEW reason
  PROVE  \A h \in Portfolio!Held(Portfolio!CloseWhere(in, key, tier, exits, reason).tier) :
            h \in Portfolio!Held(tier) /\ h \notin exits
<1> DEFINE hs == tier.holdings
           rest == Portfolio!ToSet(hs) \ exits
           kept == Portfolio!Those(hs, rest)
<1>1. hs \in Seq(Holding)
  BY DEF Tier
<1>2. \A x : (\E i \in DOMAIN kept : kept[i] = x) => x \in rest
  <2> HIDE DEF hs, rest
  <2> QED BY <1>1, ThoseOnly
<1>3. Portfolio!CloseWhere(in, key, tier, exits, reason).tier.holdings = kept
  BY DEF Portfolio!CloseWhere, Tier
<1> HIDE DEF kept
<1> QED
  BY <1>2, <1>3 DEF Portfolio!Held, Portfolio!ToSet

(* When no holding exits, nothing is closed and no row is written.         *)
LEMMA CloseNone ==
  ASSUME NEW in \in Input, NEW tier \in Tier, NEW key, NEW exits, NEW reason,
         \A h \in Portfolio!Held(tier) : h \notin exits
  PROVE  Portfolio!CloseWhere(in, key, tier, exits, reason) = [tier |-> tier, rows |-> << >>]
<1> DEFINE hs == tier.holdings
           rest == Portfolio!ToSet(hs) \ exits
           out == Portfolio!Those(hs, exits)
           kept == Portfolio!Those(hs, rest)
           row(i) == [tier |-> key, seq |-> tier.closed + i, ticker |-> out[i].ticker,
                      entry |-> out[i].entry, exit |-> in.date, reason |-> reason]
<1>1. hs \in Seq(Holding) /\ tier.cash \in Nat /\ tier.closed \in Nat
  BY DEF Tier
<1>2. (\A i \in DOMAIN hs : hs[i] \notin exits) /\ (\A i \in DOMAIN hs : hs[i] \in rest)
  BY DEF Portfolio!Held, Portfolio!ToSet
<1>3. out = << >> /\ kept = hs
  BY <1>1, <1>2, ThoseAre
<1>4. Worth(in, out) = 0 /\ Len(out) = 0
  <2>1. << >> \in Seq(Holding)
    OBVIOUS
  <2> QED BY <1>3, <2>1, WorthNat
<1>5. Portfolio!CloseWhere(in, key, tier, exits, reason)
        = [tier |-> [tier EXCEPT !.cash = @ + Worth(in, out), !.holdings = kept, !.closed = @ + Len(out)],
           rows |-> [i \in 1 .. Len(out) |-> row(i)]]
  BY DEF Portfolio!CloseWhere, Worth
<1>6. [tier EXCEPT !.cash = @ + Worth(in, out), !.holdings = kept, !.closed = @ + Len(out)] = tier
  <2> DEFINE w == Worth(in, out)
             n == Len(out)
  <2>1. w = 0 /\ n = 0
    BY <1>4
  <2> SUFFICES [tier EXCEPT !.cash = @ + w, !.holdings = kept, !.closed = @ + n] = tier
    OBVIOUS
  <2> HIDE DEF w, n, kept
  <2>2. tier.cash + w = tier.cash /\ tier.closed + n = tier.closed /\ kept = tier.holdings
    BY <1>1, <1>3, <2>1
  <2> QED BY <2>2 DEF Tier
<1>7. [i \in 1 .. Len(out) |-> row(i)] = << >>
  <2> HIDE DEF row
  <2>1. 1 .. Len(out) = {}
    BY <1>4
  <2> QED BY <2>1
<1> HIDE DEF out, kept, row
<1> QED
  BY <1>5, <1>6, <1>7

(* A second pass of the same exits and entries, on what the first left.    *)
LEMMA CloseEnterAgain ==
  ASSUME NEW in \in Input, NEW tier \in Tier, NEW x \in Tier, NoPrice = 0,
         NEW key, NEW exits, NEW reason, NEW exits2,
         NEW wants \in Seq(Want), NEW slots \in Nat, NEW again \in Nat,
         LET closed == Portfolio!CloseWhere(in, key, tier, exits, reason).tier
             end == Portfolio!Enter(in, closed, wants, slots)
         IN  /\ x.cash = end.cash /\ x.holdings = end.holdings
             /\ again = slots \/ slots >= Len(closed.holdings) + Len(wants),
         x.nav = Portfolio!Nav(in, tier),
         \A h \in Portfolio!Held(x) : h \notin exits2
  PROVE  LET closed == Portfolio!CloseWhere(in, key, x, exits2, reason)
         IN  Portfolio!Done(in, [closed EXCEPT !.tier = Portfolio!Enter(in, @, wants, again)])
               = [tier |-> x, rows |-> << >>]
<1> DEFINE first == Portfolio!CloseWhere(in, key, tier, exits, reason).tier
           end == Portfolio!Enter(in, first, wants, slots)
           closed == Portfolio!CloseWhere(in, key, x, exits2, reason)
<1>1. first \in Tier /\ Portfolio!Nav(in, first) = Portfolio!Nav(in, tier)
  BY CloseKeeps
<1>2. x.cash = end.cash /\ x.holdings = end.holdings
      /\ (again = slots \/ slots >= Len(first.holdings) + Len(wants))
  OBVIOUS
<1>3. closed = [tier |-> x, rows |-> << >>]
  BY CloseNone
<1> HIDE DEF first, closed
<1>4. Portfolio!Enter(in, x, wants, again) = x
  BY <1>1, <1>2, EnterAgain
<1>5. Portfolio!Nav(in, x) = x.nav
  <2>1. Portfolio!Nav(in, end) = Portfolio!Nav(in, first)
    BY <1>1, EnterKeeps
  <2>2. Portfolio!Nav(in, x) = Portfolio!Nav(in, end)
    BY <1>2, NavIs
  <2> QED BY <1>1, <2>1, <2>2
<1>6. Portfolio!Finalize(in, x) = x
  BY <1>5 DEF Portfolio!Finalize, Tier
<1> HIDE DEF end
<1>7. Portfolio!Done(in, [closed EXCEPT !.tier = Portfolio!Enter(in, @, wants, again)])
        = [tier |-> x, rows |-> << >>]
  <2>1. [closed EXCEPT !.tier = Portfolio!Enter(in, @, wants, again)] = [tier |-> x, rows |-> << >>]
    BY <1>3, <1>4
  <2>2. Portfolio!Done(in, [tier |-> x, rows |-> << >>]) = [tier |-> x, rows |-> << >>]
    BY <1>6 DEF Portfolio!Done
  <2> QED BY <2>1, <2>2
<1> QED
  BY <1>7 DEF closed

(* The state after a run: what a first pass left of a tier, rolled over,   *)
(* is what a second pass leaves it.                                        *)
LEMMA PassAgain ==
  ASSUME NEW in \in Input, NEW tier \in Tier, NEW x \in Tier, NoPrice = 0,
         NEW key, NEW exits, NEW reason, NEW exits2,
         NEW wants \in Seq(Want), NEW slots \in Nat, NEW again \in Nat,
         LET closed == Portfolio!CloseWhere(in, key, tier, exits, reason)
         IN  /\ RollsOver(Portfolio!Done(in, [closed EXCEPT !.tier =
                              Portfolio!Enter(in, @, wants, slots)]).tier, x)
             /\ again = slots \/ slots >= Len(closed.tier.holdings) + Len(wants),
         \A h \in Portfolio!Held(tier) : h \notin exits => h \notin exits2,
         \A h : h.entry = in.date /\ (\E j \in DOMAIN wants : h.ticker = wants[j].ticker)
                   => h \notin exits2
  PROVE  LET first  == Portfolio!CloseWhere(in, key, tier, exits, reason).tier
             closed == Portfolio!CloseWhere(in, key, x, exits2, reason)
         IN  /\ closed = [tier |-> x, rows |-> << >>]
             /\ Portfolio!Nav(in, x) = Portfolio!Nav(in, first)
             /\ Portfolio!Done(in, [closed EXCEPT !.tier = Portfolio!Enter(in, @, wants, again)])
                  = [tier |-> x, rows |-> << >>]
<1> DEFINE whole  == Portfolio!CloseWhere(in, key, tier, exits, reason)
           first  == whole.tier
           end    == Portfolio!Enter(in, first, wants, slots)
           closed == Portfolio!CloseWhere(in, key, x, exits2, reason)
<1>1. first \in Tier /\ Portfolio!Nav(in, first) = Portfolio!Nav(in, tier)
  BY CloseKeeps
<1>2. PICK r : whole = [tier |-> first, rows |-> r]
  BY DEF Portfolio!CloseWhere
<1>3. \A h \in Portfolio!Held(first) : h \in Portfolio!Held(tier) /\ h \notin exits
  BY CloseHolds
<1>4. /\ RollsOver(Portfolio!Done(in, [whole EXCEPT !.tier = Portfolio!Enter(in, @, wants, slots)]).tier, x)
      /\ again = slots \/ slots >= Len(first.holdings) + Len(wants)
  OBVIOUS
<1> HIDE DEF whole, first
<1>5. /\ end \in Tier /\ Portfolio!Nav(in, end) = Portfolio!Nav(in, first)
      /\ \A h \in Portfolio!Held(end) : \/ h \in Portfolio!Held(first)
                                        \/ h.entry = in.date /\ \E j \in DOMAIN wants : h.ticker = wants[j].ticker
  BY <1>1, EnterKeeps, EnterHolds
<1>6. RollsOver(Portfolio!Finalize(in, end), x)
  <2>1. [whole EXCEPT !.tier = Portfolio!Enter(in, @, wants, slots)] = [tier |-> end, rows |-> r]
    BY <1>2
  <2> QED BY <1>4, <2>1, DoneIs
<1> HIDE DEF end, closed
<1>7. x.cash = end.cash /\ x.holdings = end.holdings /\ x.nav = Portfolio!Nav(in, end)
  BY <1>5, <1>6 DEF RollsOver, Portfolio!Finalize, Tier
<1>8. \A h \in Portfolio!Held(x) : h \notin exits2
  <2>1. Portfolio!Held(x) = Portfolio!Held(end)
    BY <1>7 DEF Portfolio!Held
  <2> QED BY <1>3, <1>5, <2>1
<1>9. closed = [tier |-> x, rows |-> << >>]
  BY <1>8, CloseNone DEF closed
<1>10. Portfolio!Nav(in, x) = Portfolio!Nav(in, first) /\ x.nav = Portfolio!Nav(in, tier)
  <2>1. Portfolio!Nav(in, x) = Portfolio!Nav(in, end)
    BY <1>7, NavIs
  <2> QED BY <1>1, <1>5, <1>7, <2>1
<1>11. Portfolio!Done(in, [closed EXCEPT !.tier = Portfolio!Enter(in, @, wants, again)])
         = [tier |-> x, rows |-> << >>]
  <2>1. x.cash = end.cash /\ x.holdings = end.holdings
        /\ (again = slots \/ slots >= Len(first.holdings) + Len(wants))
    BY <1>4, <1>7
  <2> QED BY <1>8, <1>10, <2>1, CloseEnterAgain DEF closed, first, whole, end
<1> QED
  BY <1>9, <1>10, <1>11 DEF first, closed, whole

(* tier_1 and tier_3 again.                                                *)
LEMMA SlotsAgain ==
  ASSUME NEW in \in Input, NEW tier \in Tier, NEW x \in Tier, NoPrice = 0, TopK \in Nat \ {0},
         NEW key, NEW targets \in Seq(Tickers), NEW exits, NEW reason, NEW exits2,
         RollsOver(Portfolio!UpdateSlots(in, key, tier, targets, exits, reason).tier, x),
         \A h \in Portfolio!Held(tier) : h \notin exits => h \notin exits2,
         \A h : h.entry = in.date => h \notin exits2
  PROVE  Portfolio!UpdateSlots(in, key, x, targets, exits2, reason) = [tier |-> x, rows |-> << >>]
<1> DEFINE first == Portfolio!CloseWhere(in, key, tier, exits, reason)
           nav == Portfolio!Nav(in, first.tier)
           wants == Portfolio!Same(nav \div TopK, targets)
           closed == Portfolio!CloseWhere(in, key, x, exits2, reason)
<1>1. first.tier \in Tier
  BY CloseKeeps
<1>2. nav \in Nat
  BY <1>1, NavNat
<1>3. wants \in Seq(Want)
  <2> HIDE DEF nav
  <2>1. nav \div TopK \in Nat
    BY <1>2
  <2> QED BY <2>1, SameTypes
<1>4. Portfolio!UpdateSlots(in, key, tier, targets, exits, reason)
        = Portfolio!Done(in, [first EXCEPT !.tier = Portfolio!Enter(in, @, wants, TopK)])
  BY DEF Portfolio!UpdateSlots
<1> HIDE DEF wants
<1>5. /\ closed = [tier |-> x, rows |-> << >>]
      /\ Portfolio!Nav(in, x) = nav
      /\ Portfolio!Done(in, [closed EXCEPT !.tier = Portfolio!Enter(in, @, wants, TopK)])
           = [tier |-> x, rows |-> << >>]
  <2>1. RollsOver(Portfolio!Done(in, [first EXCEPT !.tier =
                      Portfolio!Enter(in, @, wants, TopK)]).tier, x)
    BY <1>4
  <2>2. TopK \in Nat /\ (TopK = TopK \/ TopK >= Len(first.tier.holdings) + Len(wants))
    OBVIOUS
  <2>3. \A h : h.entry = in.date /\ (\E j \in DOMAIN wants : h.ticker = wants[j].ticker)
                  => h \notin exits2
    OBVIOUS
  <2> QED BY <1>3, <2>1, <2>2, <2>3, PassAgain, SMTT(60)
<1>6. Portfolio!Same(Portfolio!Nav(in, closed.tier) \div TopK, targets) = wants
  BY <1>5 DEF wants
<1> HIDE DEF nav
<1>7. Portfolio!UpdateSlots(in, key, x, targets, exits2, reason)
        = Portfolio!Done(in, [closed EXCEPT !.tier = Portfolio!Enter(in, @, wants, TopK)])
  BY <1>6 DEF Portfolio!UpdateSlots
<1> QED
  BY <1>5, <1>7

(* tier_1, tier_3 and tier_2: what exits the first time has exited, and    *)
(* what was entered today does not exit.                                   *)
LEMMA Tier1Again ==
  ASSUME NEW in \in Input, NEW tier \in Tier, NEW x \in Tier, NoPrice = 0, TopK \in Nat \ {0},
         MaxHoldDays \in Nat, RollsOver(Portfolio!UpdateTier1(in, tier).tier, x)
  PROVE  Portfolio!UpdateTier1(in, x) = [tier |-> x, rows |-> << >>]
<1> DEFINE active == Portfolio!Tickrs(Portfolio!Primary(in.catalysts))
           Out(y) == {h \in Portfolio!Held(y) : h.ticker \notin active /\ Portfolio!Age(h, in.date) > MaxHoldDays}
           targets == Portfolio!SelectTopK(in.catalysts, TopK)
<1>1. in.catalysts \in Seq([ticker : Tickers, primary : BOOLEAN]) /\ in.date \in Nat
  BY DEF Input
<1>2. targets \in Seq(Tickers)
  BY <1>1, SelectTypes
<1>3. /\ \A h \in Portfolio!Held(tier) : h \notin Out(tier) => h \notin Out(x)
      /\ \A h : h.entry = in.date => h \notin Out(x)
  BY <1>1 DEF Portfolio!Age
<1>4. \A y : Portfolio!UpdateTier1(in, y)
               = Portfolio!UpdateSlots(in, "tier_1_mechanical", y, targets, Out(y), "catalyst_inactive")
  BY DEF Portfolio!UpdateTier1
<1> HIDE DEF Out, targets
<1> QED
  BY <1>2, <1>3, <1>4, SlotsAgain

(* tier_3 again: the holdings bought today are not old.                    *)
LEMMA Tier3Again ==
  ASSUME NEW in \in Input, NEW tier \in Tier, NEW x \in Tier, NoPrice = 0, TopK \in Nat \ {0},
         MaxHoldDays \in Nat, RollsOver(Portfolio!UpdateTier3(in, tier).tier, x)
  PROVE  Portfolio!UpdateTier3(in, x) = [tier |-> x, rows |-> << >>]
<1> DEFINE Out(y) == {h \in Portfolio!Held(y) : Portfolio!Age(h, in.date) > MaxHoldDays}
<1>1. in.sample \in Seq(Tickers) /\ in.date \in Nat
  BY DEF Input
<1>2. /\ \A h \in Portfolio!Held(tier) : h \notin Out(tier) => h \notin Out(x)
      /\ \A h : h.entry = in.date => h \notin Out(x)
  BY <1>1 DEF Portfolio!Age
<1>3. \A y : Portfolio!UpdateTier3(in, y)
               = Portfolio!UpdateSlots(in, "tier_3_random", y, in.sample, Out(y), "30_day_holding_max")
  BY DEF Portfolio!UpdateTier3
<1> HIDE DEF Out
<1> QED
  BY <1>1, <1>2, <1>3, SlotsAgain

(* tier_2 again: no holding that stayed or came in is falsified.           *)
LEMMA Tier2Again ==
  ASSUME NEW in \in Input, NEW tier \in Tier, NEW x \in Tier, NoPrice = 0,
         Portfolio!Tickrs(in.recs) \cap in.triggered = {},
         RollsOver(Portfolio!UpdateTier2(in, tier).tier, x)
  PROVE  Portfolio!UpdateTier2(in, x) = [tier |-> x, rows |-> << >>]
<1> DEFINE key == "tier_2_llm_filtered"
           reason == "falsifier_triggered"
           Out(y) == {h \in Portfolio!Held(y) : h.ticker \in in.triggered}
           Closed(y) == Portfolio!CloseWhere(in, key, y, Out(y), reason)
           nav == Portfolio!Nav(in, Closed(tier).tier)
           Wants(n) == [i \in DOMAIN in.recs |->
                         [ticker |-> in.recs[i].ticker, alloc |-> (n * in.recs[i].quarters) \div 4]]
           Pass(y, w) == Portfolio!Done(in, [Closed(y) EXCEPT !.tier =
                             Portfolio!Enter(in, @, w, Len(@.holdings) + Len(w))])
<1>1. Closed(tier).tier \in Tier
  BY CloseKeeps
<1>2. nav \in Nat
  BY <1>1, NavNat
<1>3. Wants(nav) \in Seq(Want) /\ \A j \in DOMAIN Wants(nav) : Wants(nav)[j].ticker \in Portfolio!Tickrs(in.recs)
  <2> HIDE DEF nav
  <2>1. /\ Len(in.recs) \in Nat /\ DOMAIN in.recs = 1 .. Len(in.recs)
        /\ \A i \in 1 .. Len(in.recs) : in.recs[i].ticker \in Tickers /\ in.recs[i].quarters \in Nat
    <3> DEFINE X == [ticker : Tickers, quarters : Nat]
               recs == in.recs
    <3>1. recs \in Seq(X)
      BY DEF Input
    <3> HIDE DEF X, recs
    <3>2. Len(recs) \in Nat /\ DOMAIN recs = 1 .. Len(recs) /\ \A i \in 1 .. Len(recs) : recs[i] \in X
      BY <3>1
    <3>3. \A r \in X : r.ticker \in Tickers /\ r.quarters \in Nat
      BY DEF X
    <3> QED BY <3>2, <3>3 DEF recs
  <2>2. ASSUME NEW n \in Nat PROVE (nav * n) \div 4 \in Nat
    <3> DEFINE u == nav * n
    <3>1. u \in Nat
      BY <1>2
    <3> HIDE DEF u
    <3>2. u \div 4 \in Nat
      BY <3>1
    <3> QED BY <3>2 DEF u
  <2>3. Wants(nav) \in [1 .. Len(in.recs) -> Want]
    BY <2>1, <2>2 DEF Want
  <2>4. Wants(nav) \in Seq(Want)
    BY <2>1, <2>3
  <2>5. \A j \in DOMAIN Wants(nav) : Wants(nav)[j].ticker \in Portfolio!Tickrs(in.recs)
    BY DEF Portfolio!Tickrs
  <2> QED BY <2>4, <2>5
<1>4. \A y : Portfolio!UpdateTier2(in, y) = Pass(y, Wants(Portfolio!Nav(in, Closed(y).tier)))
  BY DEF Portfolio!UpdateTier2, Portfolio!CloseWhere
<1>5. /\ \A h \in Portfolio!Held(tier) : h \notin Out(tier) => h \notin Out(x)
      /\ \A h : h.ticker \in Portfolio!Tickrs(in.recs) => h \notin Out(x)
  OBVIOUS
<1> DEFINE wants == Wants(nav)
           slots == Len(Closed(tier).tier.holdings) + Len(wants)
           again == Len(x.holdings) + Len(wants)
<1>6. slots \in Nat /\ again \in Nat
  <2>1. \A y \in Tier : Len(y.holdings) \in Nat
    BY DEF Tier
  <2>2. Len(wants) \in Nat
    BY <1>3
  <2> QED BY <1>1, <2>1, <2>2
<1>7. RollsOver(Portfolio!Done(in, [Closed(tier) EXCEPT !.tier = Portfolio!Enter(in, @, wants, slots)]).tier, x)
  BY <1>4
<1> HIDE DEF Out, wants, slots, again, Wants
<1>8. /\ Closed(x) = [tier |-> x, rows |-> << >>]
      /\ Portfolio!Nav(in, x) = nav
      /\ Portfolio!Done(in, [Closed(x) EXCEPT !.tier = Portfolio!Enter(in, @, wants, again)])
           = [tier |-> x, rows |-> << >>]
  <2>1. slots >= Len(Closed(tier).tier.holdings) + Len(wants)
    <3>1. slots = Len(Closed(tier).tier.holdings) + Len(wants)
      BY DEF slots
    <3> QED BY <1>6, <3>1
  <2>2. wants \in Seq(Want) /\ \A h : h.entry = in.date /\ (\E j \in DOMAIN wants : h.ticker = wants[j].ticker)
                                        => h \notin Out(x)
    BY <1>3, <1>5 DEF wants
  <2>3. \A h \in Portfolio!Held(tier) : h \notin Out(tier) => h \notin Out(x)
    BY <1>5
  <2> DEFINE e1 == Out(tier)
             e2 == Out(x)
  <2>4. /\ RollsOver(Portfolio!Done(in, [Portfolio!CloseWhere(in, key, tier, e1, reason) EXCEPT
                        !.tier = Portfolio!Enter(in, @, wants, slots)]).tier, x)
        /\ again = slots \/ slots >= Len(Portfolio!CloseWhere(in, key, tier, e1, reason).tier.holdings) + Len(wants)
    BY <1>7, <2>1
  <2> HIDE DEF e1, e2, key, reason
  <2>5. /\ Portfolio!CloseWhere(in, key, x, e2, reason) = [tier |-> x, rows |-> << >>]
        /\ Portfolio!Nav(in, x) = Portfolio!Nav(in, Portfolio!CloseWhere(in, key, tier, e1, reason).tier)
        /\ Portfolio!Done(in, [Portfolio!CloseWhere(in, key, x, e2, reason) EXCEPT
                !.tier = Portfolio!Enter(in, @, wants, again)]) = [tier |-> x, rows |-> << >>]
    <3>1. /\ \A h \in Portfolio!Held(tier) : h \notin e1 => h \notin e2
          /\ \A h : h.entry = in.date /\ (\E j \in DOMAIN wants : h.ticker = wants[j].ticker) => h \notin e2
      BY <2>2, <2>3 DEF e1, e2
    <3> QED BY <1>6, <2>2, <2>4, <3>1, PassAgain
  <2> QED BY <2>5 DEF e1, e2, key, reason
<1> HIDE DEF Closed, nav
<1>9. Portfolio!UpdateTier2(in, x) = Pass(x, wants)
  <2>1. Closed(x).tier = x
    BY <1>8
  <2> QED BY <1>4, <1>8, <2>1 DEF wants
<1>10. Pass(x, wants) = Portfolio!Done(in, [Closed(x) EXCEPT !.tier = Portfolio!Enter(in, @, wants, again)])
  BY <1>8 DEF again
<1> QED
  BY <1>8, <1>9, <1>10

(* The NAV of tier_0 splits in two halves that the drift test accepts:     *)
(* always, but for the rounding of an odd and tiny amount of money.        *)
Halves(nav) == nav % 2 = 0 \/ Threshold[2] <= 2 * (Threshold[1] * nav)

(* A fresh index is half and half, at the prices of the day.               *)
LEMMA IndexIsHalves ==
  ASSUME NEW in \in Input, NEW first \in Tier, NoPrice = 0, first.holdings = << >>,
         Tier0Tickers \in Seq(Tickers), Len(Tier0Tickers) <= 2
  PROVE  \A h \in Portfolio!Held(Portfolio!Enter(in, first,
                 Portfolio!Same(first.cash \div 2, Tier0Tickers), Len(Tier0Tickers))) :
            h.cost = first.cash \div 2 /\ h.price = in.prices[h.ticker]
<1> DEFINE C == first.cash
           half == C \div 2
           wants == Portfolio!Same(half, Tier0Tickers)
           slots == Len(Tier0Tickers)
           L == Len(wants)
           Left(n) == IF n = 0 THEN C ELSE IF n = 1 THEN C - half ELSE C - (half + half)
           Even(x) == \A h \in Portfolio!Held(x) : h.cost = half /\ h.price = in.prices[h.ticker]
<1>1. C \in Nat /\ half \in Nat /\ half + half <= C
  <2>1. C \in Nat
    BY DEF Tier
  <2> HIDE DEF C
  <2> QED BY <2>1
<1> HIDE DEF C, half
<1>2. wants \in Seq(Want) /\ L = slots /\ slots \in Nat /\ \A i \in 1 .. L : wants[i].alloc = half
  <2>1. wants \in Seq(Want)
    BY <1>1, SameTypes
  <2>2. slots \in Nat /\ DOMAIN Tier0Tickers = 1 .. slots
    OBVIOUS
  <2>3. wants = [i \in 1 .. slots |-> [ticker |-> Tier0Tickers[i], alloc |-> half]]
    BY <2>2 DEF Portfolio!Same
  <2> HIDE DEF wants, slots
  <2> QED BY <2>1, <2>2, <2>3
<1>3. L \in Nat /\ L <= 2 /\ \A n \in 1 .. L : wants[n] \in Want /\ n - 1 \in 0 .. L /\ n \in 0 .. L
  BY <1>2
<1> HIDE DEF wants, slots
<1>4. PICK f : EnterRun(in, first, wants, slots, f)
               /\ Portfolio!Enter(in, first, wants, slots) = f[L].tier
  BY <1>2, EnterRuns
<1>5. \A n \in 0 .. L : f[n] \in Loop
  BY <1>4 DEF EnterRun
<1> DEFINE T == {n \in 0 .. L : Even(f[n].tier) /\ f[n].tier.cash >= Left(n)}
<1>6. 0 \in T
  <2>1. f[0].tier = first
    BY <1>4 DEF EnterRun
  <2>2. Portfolio!Held(first) = {}
    BY DEF Portfolio!Held, Portfolio!ToSet
  <2>3. first.cash >= C
    BY <1>1 DEF C
  <2> QED BY <1>3, <2>1, <2>2, <2>3
<1>7. ASSUME NEW n \in 1 .. L, n - 1 \in T PROVE n \in T
  <2> DEFINE acc == f[n - 1]
             new == f[n]
             want == wants[n]
  <2>1. /\ new = Turn(in, slots, acc, want) /\ acc \in Loop /\ want \in Want /\ want.alloc = half
        /\ Even(acc.tier) /\ acc.tier.cash >= Left(n - 1) /\ acc.tier.cash \in Nat
    BY <1>2, <1>3, <1>4, <1>5, <1>7 DEF EnterRun, Loop, Tier
  <2>2. Passes(in, slots, acc, want, new) \/ Tries(in, acc, want, new) \/ Buys(in, acc, want, new)
    BY <2>1, TurnIs
  <2> SUFFICES Even(new.tier) /\ new.tier.cash >= Left(n)
    BY <1>3
  <2> HIDE DEF new, acc, want
  <2>3. Left(n) \in Nat /\ Left(n - 1) \in Nat /\ half <= Left(n - 1) /\ Left(n - 1) - half = Left(n)
    BY <1>1, <1>3
  <2> HIDE DEF Left
  <2>4. CASE new.tier = acc.tier
    BY <1>1, <2>1, <2>3, <2>4
  <2>5. CASE Buys(in, acc, want, new)
    <3> DEFINE hs == acc.tier.holdings
               bt == Bought(in, acc.tier, want)
    <3>1. Paid(acc.tier, want) = half
      BY <1>1, <2>1, <2>3 DEF Paid
    <3>2. hs \in Seq(Holding) /\ new.tier.holdings = Append(hs, bt) /\ new.tier.cash = acc.tier.cash - half
          /\ bt.cost = half /\ bt.price = in.prices[bt.ticker]
      BY <2>1, <2>5, <3>1 DEF Loop, Tier, Buys, Bought
    <3> HIDE DEF hs, bt
    <3>3. \A i \in DOMAIN Append(hs, bt) : Append(hs, bt)[i] = bt \/ \E j \in DOMAIN hs : Append(hs, bt)[i] = hs[j]
      BY <3>2
    <3>4. \A h \in Portfolio!Held(new.tier) : h = bt \/ h \in Portfolio!Held(acc.tier)
      BY <3>2, <3>3 DEF Portfolio!Held, Portfolio!ToSet, hs
    <3>5. Even(new.tier)
      BY <2>1, <3>2, <3>4
    <3>6. new.tier.cash >= Left(n)
      BY <1>1, <2>1, <2>3, <3>2
    <3> QED BY <3>5, <3>6
  <2> QED BY <2>2, <2>4, <2>5 DEF Passes, Tries
<1>8. L \in T
  <2> HIDE DEF T, L
  <2>1. \A n \in 0 .. L : n \in T
    BY <1>3, <1>6, <1>7, RangeInduction
  <2> QED BY <1>3, <2>1
<1> QED
  BY <1>4, <1>8 DEF half, C, wants, slots

(* An index of halves has not drifted.                                     *)
LEMMA HalvesHold ==
  ASSUME NEW in \in Input, NEW x \in Tier, NEW C \in Nat, Portfolio!Nav(in, x) = C, Halves(C),
         \A h \in Portfolio!Held(x) : h.cost = C \div 2 /\ h.price = in.prices[h.ticker]
  PROVE  ~Portfolio!Drifted(in, x)
<1> DEFINE half == C \div 2
           V(h) == Portfolio!Value(in, h)
           gap(h) == IF 2 * V(h) > C THEN 2 * V(h) - C ELSE C - 2 * V(h)
<1>1. half \in Nat /\ (C = 2 * half \/ C = 2 * half + 1) /\ (C % 2 = 0 => C = 2 * half)
  OBVIOUS
<1>2. \A h \in Portfolio!Held(x) : V(h) = half
  <2>1. \A h \in Portfolio!Held(x) : h \in Holding
    BY DEF Portfolio!Held, Portfolio!ToSet, Tier
  <2> QED BY <2>1, ValueNat
<1>3. Threshold[1] \in Nat /\ Threshold[2] \in Nat
  BY EngineAssumption DEF Portfolio!BoundsAssumption
<1> HIDE DEF V, half
<1>4. \A h \in Portfolio!Held(x) : gap(h) = C - 2 * half
  BY <1>1, <1>2
<1>5. ~(Threshold[2] * (C - 2 * half) > 2 * Threshold[1] * C)
  <2> DEFINE u == Threshold[1] * C
  <2>1. u \in Nat /\ 2 * Threshold[1] * C = 2 * u
    BY <1>3
  <2>2. CASE C = 2 * half
    <3>1. Threshold[2] * (C - 2 * half) = 0
      BY <1>1, <1>3, <2>2
    <3> HIDE DEF u
    <3> QED BY <2>1, <3>1
  <2>3. CASE C = 2 * half + 1 /\ C # 2 * half
    <3>1. Threshold[2] * (C - 2 * half) = Threshold[2]
      BY <1>1, <1>3, <2>3
    <3>2. Threshold[2] <= 2 * u
      BY <1>1, <2>3 DEF Halves
    <3> HIDE DEF u
    <3> QED BY <1>3, <2>1, <3>1, <3>2
  <2> QED BY <1>1, <2>2, <2>3
<1> HIDE DEF gap
<1>6. Portfolio!Drifted(in, x)
        => \E h \in Portfolio!Held(x) : Threshold[2] * gap(h) > 2 * Threshold[1] * C
  BY DEF Portfolio!Drifted, gap, V
<1> QED
  BY <1>4, <1>5, <1>6

(* A tier without a trade, and with its NAV written, is as it was.         *)
LEMMA DoneNone ==
  ASSUME NEW in, NEW x \in Tier, x.nav = Portfolio!Nav(in, x)
  PROVE  Portfolio!Done(in, [tier |-> x, rows |-> << >>]) = [tier |-> x, rows |-> << >>]
<1>1. Portfolio!Finalize(in, x) = x
  BY DEF Portfolio!Finalize, Tier
<1> QED BY <1>1 DEF Portfolio!Done

(* tier_0 again: what was not rebalanced still need not be, and what was   *)
(* is half and half.                                                       *)
LEMMA Tier0Again ==
  ASSUME NEW in \in Input, NEW tier \in Tier, NEW x \in Tier, NoPrice = 0,
         Tier0Tickers \in Seq(Tickers), Len(Tier0Tickers) <= 2,
         RollsOver(Portfolio!UpdateTier0(in, tier).tier, x), Halves(x.nav)
  PROVE  Portfolio!UpdateTier0(in, x) = [tier |-> x, rows |-> << >>]
<1> DEFINE key == "tier_0_passive_index"
           reason == "rebalance"
           priced == \A t \in Portfolio!ToSet(Tier0Tickers) : Portfolio!Priced(in, t)
           Closed(y) == Portfolio!CloseWhere(in, key, y, Portfolio!Held(y), reason)
           slots == Len(Tier0Tickers)
           Wants(m) == Portfolio!Same(m \div 2, Tier0Tickers)
           Both(y, w) == Portfolio!Done(in, [Closed(y) EXCEPT !.tier = Portfolio!Enter(in, @, w, slots)])
           None(y) == Portfolio!Done(in, [tier |-> y, rows |-> << >>])
           due(y) == priced /\ (y.holdings = << >> \/ Portfolio!Drifted(in, y))
           first == Closed(tier).tier
           C == first.cash
           wants == Wants(C)
           end == Portfolio!Enter(in, first, wants, slots)
<1>1. \A y : /\ due(y) => Portfolio!UpdateTier0(in, y) = Both(y, Wants(Closed(y).tier.cash))
             /\ ~due(y) => Portfolio!UpdateTier0(in, y) = None(y)
  BY DEF Portfolio!UpdateTier0
<1>2. /\ first \in Tier /\ Portfolio!Nav(in, first) = Portfolio!Nav(in, tier) /\ slots \in Nat
      /\ first.holdings = << >> /\ C \in Nat
  <2>1. first \in Tier /\ Portfolio!Nav(in, first) = Portfolio!Nav(in, tier)
    BY CloseKeeps
  <2>2. \A h : h \notin Portfolio!Held(first)
    BY CloseHolds
  <2>3. first.holdings \in Seq(Holding) /\ first.cash \in Nat
    BY <2>1 DEF Tier
  <2> DEFINE hs == first.holdings
  <2>4. hs = << >>
    <3>1. \A i \in DOMAIN hs : hs[i] \in Portfolio!Held(first)
      BY DEF Portfolio!Held, Portfolio!ToSet
    <3>2. \A i : i \notin DOMAIN hs
      BY <2>2, <3>1
    <3>3. hs \in Seq(Holding)
      BY <2>3
    <3> HIDE DEF hs
    <3>4. Len(hs) \in Nat /\ DOMAIN hs = 1 .. Len(hs)
      BY <3>3
    <3>5. Len(hs) = 0
      <4>1. 1 \notin DOMAIN hs
        BY <3>2
      <4> QED BY <3>4, <4>1
    <3> QED BY <3>3, <3>5
  <2> HIDE DEF first
  <2> QED BY <2>1, <2>3, <2>4
<1>3. wants \in Seq(Want)
  <2> HIDE DEF C
  <2>1. C \div 2 \in Nat
    BY <1>2
  <2> QED BY <2>1, SameTypes
<1>4. RollsOver(None(tier).tier, x) => /\ x.cash = tier.cash /\ x.holdings = tier.holdings
                                       /\ x.nav = Portfolio!Nav(in, tier)
  <2> DEFINE v == Portfolio!Nav(in, tier)
             fin == [tier EXCEPT !.nav = v]
  <2>1. None(tier).tier = fin
    BY DoneIs DEF Portfolio!Finalize
  <2>2. fin.cash = tier.cash /\ fin.holdings = tier.holdings /\ fin.nav = v
    <3> HIDE DEF v
    <3> QED BY DEF Tier
  <2> HIDE DEF v, fin, None
  <2>3. RollsOver(fin, x) => x.cash = tier.cash /\ x.holdings = tier.holdings /\ x.nav = v
    BY <2>2 DEF RollsOver
  <2>4. RollsOver(None(tier).tier, x) => x.cash = tier.cash /\ x.holdings = tier.holdings /\ x.nav = v
    BY <2>1, <2>3
  <2> QED BY <2>4 DEF v
<1>5. CASE ~due(tier)
  <2>1. x.cash = tier.cash /\ x.holdings = tier.holdings /\ x.nav = Portfolio!Nav(in, tier)
    BY <1>1, <1>4, <1>5
  <2>2. Portfolio!Nav(in, x) = Portfolio!Nav(in, tier)
    BY <2>1, NavIs
  <2>3. ~due(x)
    BY <1>5, <2>1, <2>2 DEF Portfolio!Drifted, Portfolio!Held
  <2>4. None(x) = [tier |-> x, rows |-> << >>]
    BY <2>1, <2>2, DoneNone
  <2> HIDE DEF due, None
  <2> QED BY <1>1, <2>3, <2>4
<1>6. CASE due(tier)
  <2>1. RollsOver(Both(tier, wants).tier, x)
    BY <1>1, <1>6
  <2> HIDE DEF first, wants, C, due
  <2>2. \A h \in Portfolio!Held(end) : h.cost = C \div 2 /\ h.price = in.prices[h.ticker]
    BY <1>2, IndexIsHalves DEF wants, C
  <2>3. end \in Tier /\ Portfolio!Nav(in, end) = Portfolio!Nav(in, first)
    BY <1>2, <1>3, EnterKeeps
  <2>4. Portfolio!Nav(in, first) = C
    <3>1. << >> \in Seq(Holding)
      OBVIOUS
    <3>2. Portfolio!Nav(in, first) = C + Worth(in, << >>) /\ Worth(in, << >>) = 0
      BY <1>2, <3>1, NavIs, WorthNat DEF C
    <3> QED BY <1>2, <3>2
  <2>5. x.cash = end.cash /\ x.holdings = end.holdings /\ x.nav = C /\ Portfolio!Nav(in, x) = C
    <3>1. PICK r : Closed(tier) = [tier |-> first, rows |-> r]
      BY DEF Portfolio!CloseWhere, first
    <3> HIDE DEF Closed, end
    <3>2. Both(tier, wants) = Portfolio!Done(in, [tier |-> end, rows |-> r])
      BY <3>1 DEF end
    <3>3. RollsOver(Portfolio!Finalize(in, end), x)
      BY <2>1, <3>2, DoneIs
    <3>4. x.cash = end.cash /\ x.holdings = end.holdings /\ x.nav = Portfolio!Nav(in, end)
      BY <2>3, <3>3 DEF RollsOver, Portfolio!Finalize, Tier
    <3>5. Portfolio!Nav(in, x) = Portfolio!Nav(in, end)
      BY <3>4, NavIs
    <3> QED BY <2>3, <2>4, <3>4, <3>5
  <2>6. Portfolio!Held(x) = Portfolio!Held(end)
    BY <2>5 DEF Portfolio!Held
  <2>7. CASE ~due(x)
    <3>1. None(x) = [tier |-> x, rows |-> << >>]
      BY <2>5, DoneNone
    <3> HIDE DEF None
    <3> QED BY <1>1, <2>7, <3>1
  <2>8. CASE due(x)
    <3>1. Halves(C)
      BY <2>5
    <3>2. ~Portfolio!Drifted(in, x)
      BY <1>2, <2>2, <2>5, <2>6, <3>1, HalvesHold
    <3>3. x.holdings = << >>
      BY <2>8, <3>2 DEF due
    <3>4. Portfolio!Held(x) = {}
      BY <3>3 DEF Portfolio!Held, Portfolio!ToSet
    <3>5. Closed(x) = [tier |-> x, rows |-> << >>]
      BY <3>4, CloseNone
    <3>6. x.cash = C
      <4>1. << >> \in Seq(Holding)
        OBVIOUS
      <4>2. Portfolio!Nav(in, x) = x.cash + Worth(in, << >>) /\ Worth(in, << >>) = 0 /\ x.cash \in Nat
        BY <3>3, <4>1, NavIs, WorthNat DEF Tier
      <4> QED BY <2>5, <4>2
    <3>7. Both(x, wants) = [tier |-> x, rows |-> << >>]
      <4> DEFINE e1 == Portfolio!Held(tier)
                 e2 == Portfolio!Held(x)
      <4>1. e2 = {}
        BY <3>4
      <4>2. RollsOver(Portfolio!Done(in, [Portfolio!CloseWhere(in, key, tier, e1, reason) EXCEPT
                          !.tier = Portfolio!Enter(in, @, wants, slots)]).tier, x)
        BY <2>1
      <4> HIDE DEF e1, e2, key, reason, slots
      <4>3. Portfolio!Done(in, [Portfolio!CloseWhere(in, key, x, e2, reason) EXCEPT
                !.tier = Portfolio!Enter(in, @, wants, slots)]) = [tier |-> x, rows |-> << >>]
        BY <1>2, <1>3, <4>1, <4>2, PassAgain
      <4> QED BY <4>3 DEF e2, key, reason, slots
    <3>8. Wants(Closed(x).tier.cash) = wants
      BY <3>5, <3>6 DEF wants
    <3> HIDE DEF Both, Wants, Closed
    <3> QED BY <1>1, <2>8, <3>7, <3>8
  <2> QED BY <2>7, <2>8
<1> QED
  BY <1>5, <1>6

(* Every tier again.                                                       *)
LEMMA UpdateAgain ==
  ASSUME NEW in \in Input, NEW tier \in Tier, NEW x \in Tier, NEW k \in EngineTiers,
         Len(Tier0Tickers) <= 2, Portfolio!Tickrs(in.recs) \cap in.triggered = {},
         RollsOver(Portfolio!Update(in, k, tier).tier, x),
         k = "tier_0_passive_index" => Halves(x.nav)
  PROVE  Portfolio!Update(in, k, x) = [tier |-> x, rows |-> << >>]
<1>1. /\ k \in Portfolio!TierKeys /\ Tier0Tickers \in Seq(Tickers) /\ TopK \in Nat \ {0}
      /\ NoPrice = 0 /\ MaxHoldDays \in Nat
  BY EngineAssumption
     DEF Portfolio!TiersAssumption, Portfolio!TrailsAssumption, Portfolio!BoundsAssumption
<1>2. CASE k = "tier_0_passive_index"
  <2>1. \A y : Portfolio!Update(in, k, y) = Portfolio!UpdateTier0(in, y)
    BY <1>2 DEF Portfolio!Update
  <2> QED BY <1>1, <1>2, <2>1, Tier0Again
<1>3. CASE k = "tier_1_mechanical"
  <2>1. \A y : Portfolio!Update(in, k, y) = Portfolio!UpdateTier1(in, y)
    BY <1>3 DEF Portfolio!Update
  <2> QED BY <1>1, <2>1, Tier1Again
<1>4. CASE k = "tier_2_llm_filtered"
  <2>1. \A y : Portfolio!Update(in, k, y) = Portfolio!UpdateTier2(in, y)
    BY <1>4 DEF Portfolio!Update
  <2> QED BY <1>1, <2>1, Tier2Again
<1>5. CASE k = "tier_3_random"
  <2>1. \A y : Portfolio!Update(in, k, y) = Portfolio!UpdateTier3(in, y)
    BY <1>5 DEF Portfolio!Update
  <2> QED BY <1>1, <2>1, Tier3Again
<1> QED
  BY <1>1, <1>2, <1>3, <1>4, <1>5 DEF Portfolio!TierKeys

(* A rollover of a day whose snapshot is there finds nothing to add.       *)
LEMMA RolloverSettled ==
  ASSUME NEW sn, NEW t, Snapped(sn, t), t \in DOMAIN sn, NEW ts \in [EngineTiers -> Tier],
         Portfolio!Snapshots(sn, ts, t) = sn,
         \A k \in EngineTiers : Listed(sn, t, k, ts[k].quarters)
  PROVE  Portfolio!Rollover(sn, ts, t) = ts
<1> DEFINE prev == {x \in DOMAIN sn : x < t}
           q == Portfolio!Quarter(Portfolio!MaxOf(prev))
           Skip(k) == (\E i \in DOMAIN ts[k].quarters : ts[k].quarters[i].quarter = q) \/ Start(sn, q, k) = 0
           Entry(k) == [quarter |-> q, from |-> Start(sn, q, k), to |-> Stop(sn, q, k)]
<1>1. Portfolio!Rollover(sn, ts, t)
        = IF prev = {} THEN ts ELSE IF q = Portfolio!Quarter(t) THEN ts
          ELSE [k \in EngineTiers |-> IF Skip(k) THEN ts[k]
                                      ELSE [ts[k] EXCEPT !.quarters = Append(@, Entry(k))]]
  BY DEF Portfolio!Rollover, Of, Start, Stop
<1>2. ASSUME prev # {}, q # Portfolio!Quarter(t), NEW k \in EngineTiers PROVE Skip(k)
  <2>1. t \in Nat /\ prev \in SUBSET (0 .. t)
    BY DEF Snapped
  <2>2. Portfolio!MaxOf(prev) \in prev
    <3> HIDE DEF prev
    <3> QED BY <1>2, <2>1, FirstAndLast
  <2>3. Portfolio!MaxOf(prev) \in DOMAIN sn /\ Portfolio!MaxOf(prev) \in Nat /\ Portfolio!MaxOf(prev) <= t
    BY <2>1, <2>2
  <2>4. q \in Nat /\ q <= Portfolio!Quarter(t) /\ Portfolio!Quarter(t) \in Nat
    BY <2>1, <2>3, QuarterOrder
  <2>5. q < Portfolio!Quarter(t)
    BY <1>2, <2>4
  <2>6. Start(sn, q, k) # 0 => q \in Over(sn, t, k)
    BY <2>3, <2>5 DEF Over
  <2> HIDE DEF q
  <2> QED BY <2>6 DEF Listed
<1>3. ts = [k \in EngineTiers |-> ts[k]]
  OBVIOUS
<1> HIDE DEF q, Skip, Entry, prev
<1> QED
  BY <1>1, <1>2, <1>3

(* What the index is worth splits in two.                                  *)
IndexSplits ==
    "tier_0_passive_index" \in EngineTiers => Halves(tiers["tier_0_passive_index"].nav)

(* What a run leaves: its snapshot of the tiers, and no trade for the same *)
(* inputs to make.                                                         *)
RerunInv ==
    last # << >> =>
        /\ last \in Input /\ last.date = today /\ today \in DOMAIN snaps
        /\ snaps = [d \in DOMAIN snaps |-> snaps[d]]
        /\ snaps[today] = [k \in EngineTiers |-> tiers[k].nav]
        /\ \A k \in EngineTiers :
              /\ Portfolio!Tickrs(last.recs) \cap last.triggered = {}
              /\ k = "tier_0_passive_index" => Halves(tiers[k].nav)
              => Portfolio!Update(last, k, tiers[k]) = [tier |-> tiers[k], rows |-> << >>]

(* A run establishes it, whatever the state before.                        *)
LEMMA RerunRuns ==
  ASSUME NEW d \in today .. MaxDate, NEW in \in Portfolio!Inputs(d), Portfolio!Run(in), EngineInv,
         Len(Tier0Tickers) <= 2
  PROVE  RerunInv'
<1> DEFINE ts == Updated(in, tiers)
           new == tiers'
           sn == snaps'
<1>1. /\ d \in Nat /\ in \in Input /\ in.date = d /\ today' = d /\ last' = in
      /\ new = Portfolio!Rollover(snaps, ts, d) /\ sn = Portfolio!Snapshots(snaps, ts, d)
  BY EngineRuns
<1>2. tiers \in [EngineTiers -> Tier] /\ new \in [EngineTiers -> Tier]
  BY EngineStep DEF EngineInv
<1>3. ts \in [EngineTiers -> Tier] /\ \A k \in EngineTiers : ts[k] = Portfolio!Update(in, k, tiers[k]).tier
  BY <1>1, <1>2, UpdatedKeeps DEF Updated
<1> HIDE DEF ts
<1>4. \A k \in EngineTiers : RollsOver(ts[k], new[k])
  BY <1>1, <1>3, RolloverKeeps
<1>5. /\ d \in DOMAIN sn /\ sn = [x \in DOMAIN sn |-> sn[x]]
      /\ sn[d] = [k \in EngineTiers |-> ts[k].nav]
  BY <1>1 DEF Portfolio!Snapshots
<1>6. \A k \in EngineTiers : ts[k].nav = new[k].nav
  BY <1>4 DEF RollsOver
<1>7. ASSUME NEW k \in EngineTiers, Portfolio!Tickrs(in.recs) \cap in.triggered = {},
             k = "tier_0_passive_index" => Halves(new[k].nav)
      PROVE  Portfolio!Update(in, k, new[k]) = [tier |-> new[k], rows |-> << >>]
  <2>1. tiers[k] \in Tier /\ new[k] \in Tier
    BY <1>2
  <2>2. RollsOver(Portfolio!Update(in, k, tiers[k]).tier, new[k])
    BY <1>3, <1>4
  <2> HIDE DEF new
  <2> QED BY <1>1, <1>7, <2>1, <2>2, UpdateAgain
<1>8. sn[d] = [k \in EngineTiers |-> new[k].nav]
  BY <1>5, <1>6
<1> QED
  BY <1>1, <1>5, <1>7, <1>8 DEF RerunInv

(* The invariant of reruns, along a behaviour.                             *)
LEMMA RerunInvAlways == Len(Tier0Tickers) <= 2 => (MCSpec => []RerunInv)
<1> SUFFICES ASSUME Len(Tier0Tickers) <= 2 PROVE MCSpec => []RerunInv
  OBVIOUS
<1>1. MCInit => RerunInv
  BY DEF MCInit, Portfolio!Init, RerunInv
<1>2. EngineInv /\ RerunInv /\ [MCNext]_allVars => RerunInv'
  <2> SUFFICES ASSUME EngineInv, RerunInv, [MCNext]_allVars PROVE RerunInv'
    OBVIOUS
  <2>1. CASE UNCHANGED <<tiers, snaps, today, last>>
    BY <2>1 DEF RerunInv
  <2>2. ASSUME NEW d \in today .. MaxDate, NEW in \in Portfolio!Inputs(d), Portfolio!Run(in)
        PROVE RerunInv'
    BY <2>2, RerunRuns
  <2>3. CASE Portfolio!Next
    BY <2>1, <2>2, <2>3 DEF Portfolio!Next, Portfolio!ModeC
  <2> QED
    BY <2>1, <2>3 DEF MCNext, allVars, engineVars
<1> QED
  BY <1>1, <1>2, EngineInvAlways, PTL DEF MCSpec

(* A rerun of a date changes nothing (run_daily_update.py): for an index   *)
(* of at most two tickers, any prices, capital and trail, what a run left  *)
(* is left as it is by the same run made again, and no trade is closed,    *)
(* unless a ticker was both recommended and falsified.  IndexSplits only   *)
(* leaves out the states where the integers of the model round the halves  *)
(* of an odd and tiny index away from a half.                              *)
THEOREM RerunIsIdempotentAlways ==
    Len(Tier0Tickers) <= 2 => (MCSpec => [](IndexSplits => RerunIsIdempotent))
<1> SUFFICES ASSUME Len(Tier0Tickers) <= 2 PROVE MCSpec => [](IndexSplits => RerunIsIdempotent)
  OBVIOUS
<1>1. EngineInv /\ RerunInv => (IndexSplits => RerunIsIdempotent)
  <2> SUFFICES ASSUME EngineInv, RerunInv, IndexSplits, last # << >>,
                      Portfolio!Tickrs(last.recs) \cap last.triggered = {}
               PROVE  LET r == Portfolio!RunDailyUpdate(tiers, snaps, last)
                      IN  r.tiers = tiers /\ r.snaps = snaps /\ r.rows = << >>
    BY DEF RerunIsIdempotent, Portfolio!RerunIsIdempotent
  <2> DEFINE res == [k \in EngineTiers |-> Portfolio!Update(last, k, tiers[k])]
             new == [k \in EngineTiers |-> res[k].tier]
             rowsOf(k) == IF k \in EngineTiers THEN res[k].rows ELSE << >>
  <2>1. /\ last.date = today /\ today \in DOMAIN snaps
        /\ snaps = [d \in DOMAIN snaps |-> snaps[d]]
        /\ snaps[today] = [k \in EngineTiers |-> tiers[k].nav]
        /\ \A k \in EngineTiers : res[k] = [tier |-> tiers[k], rows |-> << >>]
    BY DEF RerunInv, IndexSplits
  <2>2. tiers \in [EngineTiers -> Tier] /\ Snapped(snaps, today)
        /\ \A k \in EngineTiers : Listed(snaps, today, k, tiers[k].quarters)
    BY DEF EngineInv
  <2>3. new = tiers /\ \A k : rowsOf(k) = << >>
    BY <2>1, <2>2
  <2>4. Portfolio!Snapshots(snaps, tiers, today) = snaps
    <3>1. DOMAIN snaps \cup {today} = DOMAIN snaps
      BY <2>1
    <3> QED BY <2>1, <3>1 DEF Portfolio!Snapshots
  <2>5. Portfolio!Rollover(snaps, tiers, today) = tiers
    BY <2>1, <2>2, <2>4, RolloverSettled
  <2>6. Portfolio!RunDailyUpdate(tiers, snaps, last)
          = [tiers |-> Portfolio!Rollover(snaps, new, last.date),
             snaps |-> Portfolio!Snapshots(snaps, new, last.date),
             rows  |-> rowsOf("tier_0_passive_index") \o rowsOf("tier_1_mechanical")
                       \o rowsOf("tier_2_llm_filtered") \o rowsOf("tier_3_random")]
    BY DEF Portfolio!RunDailyUpdate
  <2>7. << >> \o << >> \o << >> \o << >> = << >>
    OBVIOUS
  <2> HIDE DEF new, rowsOf
  <2> QED BY <2>1, <2>3, <2>4, <2>5, <2>6, <2>7
<1> QED
  BY <1>1, EngineInvAlways, RerunInvAlways, PTL
==============================================================================
