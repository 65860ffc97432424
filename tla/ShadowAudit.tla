----------------------------- MODULE ShadowAudit -----------------------------
(***************************************************************************)
(* The files of the shadow portfolio and the processes that write them:    *)
(* init_shadow_state creates state.json; each run of                       *)
(* domains.audit_integrity.main loads it, computes the day                 *)
(* (ShadowPortfolio), writes state.json.tmp, renames it over state.json    *)
(* and then appends the closed trades to one CSV per tier.  A process may  *)
(* die between any two of these steps; a later run starts from the files.  *)
(***************************************************************************)
EXTENDS Integers, Sequences, FiniteSets

CONSTANTS
    Runs,         \* invocations of domains.audit_integrity.main
    Inits,        \* invocations of init_shadow_state
    Dates,        \* trading dates
    Tiers,        \* tiers, one trade-log CSV each
    MaxTrades,    \* bound: trades a tier closes in one run
    Serialized,   \* TRUE: one invocation at a time
    NoFile, Torn  \* no such file; a file that does not parse

Procs == Runs \cup Inits

ASSUME BoundsAssumption == MaxTrades \in Nat /\ Serialized \in BOOLEAN
ASSUME ProcsAssumption == Runs \cap Inits = {}

(* What a readable state file says: which dates have a snapshot, and how   *)
(* many trades each tier has closed.                                       *)
Books == [snaps : SUBSET Dates, closed : [Tiers -> Nat]]
Fresh == [snaps |-> {}, closed |-> [t \in Tiers |-> 0]]

ASSUME SentinelAssumption == NoFile # Torn /\ NoFile \notin Books /\ Torn \notin Books

VARIABLES
    state,    \* state.json
    tmp,      \* state.json.tmp, one name for every process
    csv,      \* trade-log-{tier}.csv: the seq numbers of its rows, in order
    pc,       \* where each process is
    date,     \* the --date of each run
    mem,      \* the state object of each run
    todo,     \* rows each run has still to append: per tier [base, n]
    fd        \* what the open descriptor of each run refers to now

vars == <<state, tmp, csv, pc, date, mem, todo, fd>>

NoRows == [t \in Tiers |-> [base |-> 0, n |-> 0]]

TypeOK ==
    /\ state \in Books \cup {NoFile, Torn}
    /\ tmp \in Books \cup {NoFile, Torn}
    /\ csv \in [Tiers -> Seq(Nat)]
    /\ pc \in [Procs -> {"new", "iopen", "idump", "engine", "open", "dump",
                         "replace", "append", "done", "dead"}]
    /\ date \in [Runs -> Dates]
    /\ mem \in [Runs -> Books]
    /\ todo \in [Runs -> [Tiers -> [base : Nat, n : Nat]]]
    /\ fd \in [Runs -> {"tmp", "state", "gone"}]

Init ==
    /\ state = NoFile
    /\ tmp = NoFile
    /\ csv = [t \in Tiers |-> << >>]
    /\ pc = [p \in Procs |-> "new"]
    /\ date \in [Runs -> Dates]
    /\ mem = [r \in Runs |-> Fresh]
    /\ todo = [r \in Runs |-> NoRows]
    /\ fd = [r \in Runs |-> "tmp"]

Goto(p, s) == pc' = [pc EXCEPT ![p] = s]
Active(p)  == pc[p] \notin {"new", "done", "dead"}
MayStart   == Serialized => \A p \in Procs : ~Active(p)
Readable(s) == s \in Books

(* The rows base + 1 .. base + n of a tier.                                *)
Rows(w) == [i \in 1 .. w.n |-> w.base + i]

------------------------------------------------------------------------------
(* Mutated forms: plausible bugs of the actions below.                     *)

(* The trades logged before the state that counts them is saved.           *)
DumpLoggingFirst(r) ==
    /\ pc[r] = "dump"
    /\ fd[r] = "tmp"
    /\ tmp' = mem[r]
    /\ csv' = [t \in Tiers |-> csv[t] \o Rows(todo[r][t])]
    /\ todo' = [todo EXCEPT ![r] = NoRows]
    /\ Goto(r, "replace")
    /\ UNCHANGED <<state, date, mem, fd>>

(* Each day's snapshot replaces the accumulated ones.                      *)
EngineForgetting(r) ==
    /\ pc[r] = "engine"
    /\ mem' = [mem EXCEPT ![r].snaps = {date[r]}]
    /\ Goto(r, "open")
    /\ UNCHANGED <<state, tmp, csv, date, todo, fd>>

------------------------------------------------------------------------------
(* init_shadow_state.  With a state file there it exits 2; with --force it *)
(* writes state.{N}.json, which no reader opens, so nothing modelled here  *)
(* changes.                                                                *)
InitStart(i) ==
    /\ pc[i] = "new"
    /\ MayStart
    /\ Goto(i, IF state = NoFile THEN "iopen" ELSE "done")
    /\ UNCHANGED <<state, tmp, csv, date, mem, todo, fd>>

(* write_output_safely(state.json): open, then dump, in place.             *)
InitOpen(i) ==
    /\ pc[i] = "iopen"
    /\ state' = Torn
    /\ Goto(i, "idump")
    /\ UNCHANGED <<tmp, csv, date, mem, todo, fd>>

InitDump(i) ==
    /\ pc[i] = "idump"
    /\ state' = Fresh
    /\ Goto(i, "done")
    /\ UNCHANGED <<tmp, csv, date, mem, todo, fd>>

(* load_state: no file is Mode B, exit 2; a file that does not parse       *)
(* raises JSONDecodeError.  Neither writes anything.                       *)
Load(r) ==
    /\ pc[r] = "new"
    /\ MayStart
    /\ IF Readable(state)
       THEN /\ mem' = [mem EXCEPT ![r] = state]
            /\ Goto(r, "engine")
       ELSE /\ Goto(r, "done")
            /\ UNCHANGED mem
    /\ UNCHANGED <<state, tmp, csv, date, todo, fd>>

(* run_daily_update: each tier closes some trades, the date gets its       *)
(* snapshot.                                                               *)
Engine(r) ==
    /\ pc[r] = "engine"
    /\ \E n \in [Tiers -> 0 .. MaxTrades] :
          /\ todo' = [todo EXCEPT ![r] =
                         [t \in Tiers |-> [base |-> mem[r].closed[t], n |-> n[t]]]]
          /\ mem' = [mem EXCEPT ![r] =
                        [snaps  |-> mem[r].snaps \cup {date[r]},
                         closed |-> [t \in Tiers |-> mem[r].closed[t] + n[t]]]]
    /\ Goto(r, "open")
    /\ UNCHANGED <<state, tmp, csv, date, fd>>

(* No price could be cited: Mode C, nothing is saved, exit 0.              *)
ModeC(r) ==
    /\ pc[r] = "engine"
    /\ Goto(r, "done")
    /\ UNCHANGED <<state, tmp, csv, date, mem, todo, fd>>

(* save_state: tmp.open("w") ...                                           *)
Open(r) ==
    /\ pc[r] = "open"
    /\ tmp' = Torn
    /\ fd' = [fd EXCEPT ![r] = "tmp"]
    /\ Goto(r, "dump")
    /\ UNCHANGED <<state, csv, date, mem, todo>>

(* ... json.dump, into whatever the descriptor refers to by now ...        *)
Dump(r) ==
    /\ pc[r] = "dump"
    /\ tmp' = IF fd[r] = "tmp" THEN mem[r] ELSE tmp
    /\ state' = IF fd[r] = "state" THEN mem[r] ELSE state
    /\ Goto(r, "replace")
    /\ UNCHANGED <<csv, date, mem, todo, fd>>

(* ... os.replace(tmp, state).  A descriptor another run holds on the      *)
(* temporary file follows it; without the file, FileNotFoundError.         *)
Replace(r) ==
    /\ pc[r] = "replace"
    /\ IF tmp = NoFile
       THEN /\ Goto(r, "dead")
            /\ UNCHANGED <<state, tmp, fd>>
       ELSE /\ state' = tmp
            /\ tmp' = NoFile
            /\ fd' = [q \in Runs |->
                         IF q = r \/ pc[q] # "dump" THEN fd[q]
                         ELSE IF fd[q] = "tmp" THEN "state" ELSE "gone"]
            /\ Goto(r, "append")
    /\ UNCHANGED <<csv, date, mem, todo>>

(* append_closed_trades: one file after the other.                         *)
AppendTier(r, t) ==
    /\ pc[r] = "append"
    /\ todo[r][t].n > 0
    /\ csv' = [csv EXCEPT ![t] = @ \o Rows(todo[r][t])]
    /\ todo' = [todo EXCEPT ![r][t] = [base |-> 0, n |-> 0]]
    /\ UNCHANGED <<state, tmp, pc, date, mem, fd>>

Finish(r) ==
    /\ pc[r] = "append"
    /\ \A t \in Tiers : todo[r][t].n = 0
    /\ Goto(r, "done")
    /\ UNCHANGED <<state, tmp, csv, date, mem, todo, fd>>

(* The process dies; its files stay as they are.                           *)
Crash(p) ==
    /\ Active(p)
    /\ Goto(p, "dead")
    /\ UNCHANGED <<state, tmp, csv, date, mem, todo, fd>>

Next ==
    \/ \E i \in Inits : InitStart(i) \/ InitOpen(i) \/ InitDump(i)
    \/ \E r \in Runs :
          \/ Load(r) \/ Engine(r) \/ ModeC(r) \/ Open(r) \/ Dump(r) \/ Replace(r)
          \/ \E t \in Tiers : AppendTier(r, t)
          \/ Finish(r)
    \/ \E p \in Procs : Crash(p)

Spec == Init /\ [][Next]_vars

------------------------------------------------------------------------------
(* Trade ids are not reused: the rows of a CSV carry strictly increasing   *)
(* seq numbers, across crashes and reruns of the same date.                *)
UniqueTradeIds ==
    \A t \in Tiers : \A i, j \in DOMAIN csv[t] : i < j => csv[t][i] < csv[t][j]

(* No CSV records a trade that the saved state does not count.             *)
LogNeverAhead ==
    \A t \in Tiers : csv[t] # << >> =>
        /\ Readable(state)
        /\ \A i \in DOMAIN csv[t] : csv[t][i] <= state.closed[t]

(* save_state is atomic: a state file that parses never becomes one that   *)
(* does not, whatever process dies when.                                   *)
StaysReadable == [][Readable(state) => Readable(state')]_vars

(* "daily_snapshots are only accumulated": once there is a state file that *)
(* parses, no step, no run of an earlier date and no death leaves one that *)
(* does not parse, or that lacks a snapshot or a counted trade.            *)
HistoryAccumulates ==
    [][Readable(state) =>
          /\ Readable(state')
          /\ state.snaps \subseteq state'.snaps
          /\ \A t \in Tiers : state.closed[t] <= state'.closed[t]]_vars
==============================================================================
