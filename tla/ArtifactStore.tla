---------------------------- MODULE ArtifactStore ----------------------------
(***************************************************************************)
(* The trail store of the pipeline: write_output_safely and its YAML twin  *)
(* write_yaml_safely (infrastructure/_common/utils.py), guard G20 "never   *)
(* overwrite".  Every stage writes its envelope through this function: the *)
(* first run of a day takes the canonical name `stem.json`, each rerun the *)
(* first free `stem.N.json`.                                               *)
(*                                                                         *)
(* The probe (exists), the open("w") and the dump are three steps of the   *)
(* operating system, so two processes may interleave between any two of    *)
(* them and a process may die between any two of them.                     *)
(***************************************************************************)
EXTENDS Naturals, Sequences

CONSTANTS
    Writers,      \* processes that write artifacts (stages, LLM skills, CLIs)
    Paths,        \* canonical artifact paths, e.g. 05-sizing-recommendation.json
    MaxCalls,     \* bound: calls made, hence files of a path and suffixes
    Serialized,   \* TRUE: one writer at a time (the run lock of run_daily_local)
    Absent,       \* content of a name that does not exist
    Torn,         \* content of a file that is not complete JSON
    NoCall        \* no path, no payload: the writer is not in a call

(* Each call writes an envelope of its own (it carries generated_at): the  *)
(* payload is the number of the call.                                      *)
Payloads == 1 .. MaxCalls
Suffixes == 0 .. MaxCalls

ASSUME BoundAssumption == MaxCalls \in Nat
ASSUME SerializedAssumption == Serialized \in BOOLEAN
ASSUME SentinelAssumption ==
    /\ Absent # Torn
    /\ {Absent, Torn, NoCall} \cap Payloads = {}
    /\ NoCall \notin Paths

(* A file name: the canonical path is n = 0, `stem.n.json` otherwise.      *)
Names   == Paths \X Suffixes
Content == Payloads \cup {Absent, Torn}

VARIABLES
    disk,     \* content of each name
    pc,       \* where each writer is in write_output_safely
    path,     \* the out_path of the call under way
    cand,     \* the suffix being probed, then the one chosen (final_path)
    payload,  \* the envelope of the call under way
    calls,    \* calls made so far
    raced,    \* another writer dumped into the inode since this writer's open
    acked     \* history: the calls that returned, in order of return

vars == <<disk, pc, path, cand, payload, calls, raced, acked>>

Ack == [path : Paths, n : Suffixes, payload : Payloads]

TypeOK ==
    /\ disk \in [Names -> Content]
    /\ pc \in [Writers -> {"idle", "probe", "open", "dump"}]
    /\ path \in [Writers -> Paths \cup {NoCall}]
    /\ cand \in [Writers -> Suffixes]
    /\ payload \in [Writers -> Payloads \cup {NoCall}]
    /\ calls \in 0 .. MaxCalls
    /\ raced \in [Writers -> BOOLEAN]
    /\ acked \in Seq(Ack)
    /\ \A w \in Writers : pc[w] # "idle" => path[w] \in Paths /\ payload[w] \in Payloads

Init ==
    /\ disk = [f \in Names |-> Absent]
    /\ pc = [w \in Writers |-> "idle"]
    /\ path = [w \in Writers |-> NoCall]
    /\ cand = [w \in Writers |-> 0]
    /\ payload = [w \in Writers |-> NoCall]
    /\ calls = 0
    /\ raced = [w \in Writers |-> FALSE]
    /\ acked = << >>

File(w) == <<path[w], cand[w]>>

(* `return` or death: the locals of the call are gone.                     *)
Leave(w) ==
    /\ pc' = [pc EXCEPT ![w] = "idle"]
    /\ path' = [path EXCEPT ![w] = NoCall]
    /\ cand' = [cand EXCEPT ![w] = 0]
    /\ payload' = [payload EXCEPT ![w] = NoCall]

------------------------------------------------------------------------------
(* Mutated forms of the actions below: bugs the code could plausibly have. *)
(* No specification uses them; a property that survives all of them would  *)
(* say nothing about the code.                                             *)

(* The exists() test dropped: the canonical name is always taken.          *)
BlindProbeFree(w) ==
    /\ pc[w] = "probe"
    /\ pc' = [pc EXCEPT ![w] = "open"]
    /\ UNCHANGED <<disk, path, cand, payload, calls, raced, acked>>

DumpReturning(w, n, d) ==
    /\ pc[w] = "dump"
    /\ Leave(w)
    /\ disk' = [disk EXCEPT ![File(w)] = payload[w]]
    /\ acked' = Append(acked, [path |-> path[w], n |-> n, payload |-> d])
    /\ UNCHANGED <<calls, raced>>

(* A clean-up on failure that unlinks the file it was writing.             *)
AbortUnlinks(w) ==
    /\ pc[w] # "idle"
    /\ disk' = [disk EXCEPT ![File(w)] = Absent]
    /\ Leave(w)
    /\ UNCHANGED <<calls, raced, acked>>

------------------------------------------------------------------------------
(* A stage reaches its write_output_safely(out_path, envelope).            *)
Call(w, p) ==
    /\ pc[w] = "idle"
    /\ Serialized => \A v \in Writers : pc[v] = "idle"
    /\ calls < MaxCalls
    /\ calls' = calls + 1
    /\ pc' = [pc EXCEPT ![w] = "probe"]
    /\ path' = [path EXCEPT ![w] = p]
    /\ cand' = [cand EXCEPT ![w] = 0]
    /\ payload' = [payload EXCEPT ![w] = calls + 1]
    /\ UNCHANGED <<disk, raced, acked>>

(* `out_path.exists()` and the `while True` search for a free suffix.      *)
ProbeTaken(w) ==
    /\ pc[w] = "probe"
    /\ disk[File(w)] # Absent
    /\ cand[w] < MaxCalls
    /\ cand' = [cand EXCEPT ![w] = @ + 1]
    /\ UNCHANGED <<disk, pc, path, payload, calls, raced, acked>>

ProbeFree(w) ==
    /\ pc[w] = "probe"
    /\ disk[File(w)] = Absent
    /\ pc' = [pc EXCEPT ![w] = "open"]
    /\ UNCHANGED <<disk, path, cand, payload, calls, raced, acked>>

(* final_path.open("w"): creates the file or TRUNCATES the one that        *)
(* another writer created since the probe.                                 *)
Open(w) ==
    /\ pc[w] = "open"
    /\ disk' = [disk EXCEPT ![File(w)] = Torn]
    /\ pc' = [pc EXCEPT ![w] = "dump"]
    /\ raced' = [raced EXCEPT ![w] = FALSE]
    /\ UNCHANGED <<path, cand, payload, calls, acked>>

(* json.dump through this writer's own descriptor, then `return`.  If      *)
(* another descriptor wrote the same inode meanwhile, the longer text      *)
(* keeps its tail: the file holds this payload or is garbled.              *)
Dump(w) ==
    /\ pc[w] = "dump"
    /\ \E c \in {payload[w]} \cup (IF raced[w] THEN {Torn} ELSE {}) :
          disk' = [disk EXCEPT ![File(w)] = c]
    /\ raced' = [v \in Writers |->
                    \/ raced[v]
                    \/ v # w /\ pc[v] = "dump" /\ File(v) = File(w)]
    /\ acked' = Append(acked, [path |-> path[w], n |-> cand[w], payload |-> payload[w]])
    /\ Leave(w)
    /\ UNCHANGED calls

(* The process dies, or json.dump raises, anywhere in the call: what is on *)
(* disk stays as it is and nothing removes the incomplete file.            *)
Abort(w) ==
    /\ pc[w] # "idle"
    /\ Leave(w)
    /\ UNCHANGED <<disk, calls, raced, acked>>

Step(w) == ProbeTaken(w) \/ ProbeFree(w) \/ Open(w) \/ Dump(w)

Next ==
    \E w \in Writers :
        \/ \E p \in Paths : Call(w, p)
        \/ Step(w)
        \/ Abort(w)

Spec == Init /\ [][Next]_vars

------------------------------------------------------------------------------

(* G20: once an artifact is complete no later step changes it, by whatever *)
(* interleaving of writers, reruns and crashes.                            *)
NeverOverwritten ==
    [][\A f \in Names : disk[f] \in Payloads => disk'[f] = disk[f]]_vars

(* An acknowledged write is on disk, intact, under the returned name.      *)
AckedDurable ==
    \A i \in DOMAIN acked :
        disk[<<acked[i].path, acked[i].n>>] = acked[i].payload

(* The names of a path have no hole: what the `while True` search skips is *)
(* there, whoever crashed or raced.                                        *)
NoHole ==
    \A p \in Paths : \A n \in 1 .. MaxCalls :
        disk[<<p, n>>] # Absent => disk[<<p, n - 1>>] # Absent

------------------------------------------------------------------------------
(* Refinement: a path is a log of versions to which a run appends.         *)
Count(p)    == CHOOSE k \in 0 .. MaxCalls + 1 :
                  \A n \in Suffixes : disk[<<p, n>>] # Absent <=> n < k
Versions    == [p \in Paths |-> [i \in 1 .. Count(p) |-> disk[<<p, i - 1>>]]]
Log         == INSTANCE VersionedLog WITH versions <- Versions
RefinesLog  == Log!Spec

==============================================================================
