------------------------------- MODULE RunLock -------------------------------
(***************************************************************************)
(* The PID lock of applications/run_daily_local.sh, the launchd entry      *)
(* point of the daily run: test -f, cat, kill -0, echo $$ >, and an EXIT   *)
(* trap that removes the file.  Each is a system call of its own, so       *)
(* launches (launchd, a manual rerun) may interleave between them, and a   *)
(* launch may be killed anywhere without its trap (SIGKILL, power loss).   *)
(***************************************************************************)
EXTENDS FiniteSets

CONSTANTS
    Launches,    \* invocations of the script; an invocation is its own PID
    Spaced,      \* TRUE: a launch starts only while no other is taking the lock
    NoFile,      \* the lock file does not exist
    Empty        \* the lock file is there and holds no PID

ASSUME SpacedAssumption == Spaced \in BOOLEAN
ASSUME SentinelAssumption == NoFile # Empty /\ {NoFile, Empty} \cap Launches = {}

VARIABLES
    lock,     \* content of LOCK_FILE
    pc,       \* where each launch is
    prev,     \* prev_pid as the launch read it
    reused    \* PIDs of dead launches that unrelated processes got since

vars == <<lock, pc, prev, reused>>

(* Between the start of 0b and the moment the PID is in the file.          *)
Window == {"test", "cat", "kill0", "truncate", "echo"}
States == Window \cup {"new", "run", "done", "dead"}

TypeOK ==
    /\ lock \in Launches \cup {NoFile, Empty}
    /\ pc \in [Launches -> States]
    /\ prev \in [Launches -> Launches \cup {Empty}]
    /\ reused \subseteq Launches

Init ==
    /\ lock = NoFile
    /\ pc = [l \in Launches |-> "new"]
    /\ prev = [l \in Launches |-> Empty]
    /\ reused = {}

(* kill -0 succeeds: some process has this PID.                            *)
Alive(l) == pc[l] \in Window \cup {"run"} \/ l \in reused

Goto(l, s) == pc' = [pc EXCEPT ![l] = s]

------------------------------------------------------------------------------
(* Mutated forms: plausible bugs of the actions of the same name.          *)

(* The EXIT trap installed before the check: a launch that skips removes   *)
(* the lock of the run it found alive.                                     *)
SkipWithTrap(l) ==
    /\ pc[l] = "kill0"
    /\ prev[l] # Empty
    /\ Alive(prev[l])
    /\ lock' = NoFile
    /\ Goto(l, "done")
    /\ UNCHANGED <<prev, reused>>

(* "A lock file is there, so skip": the kill -0 forgotten.                 *)
SkipWithoutKill0(l) ==
    /\ pc[l] = "kill0"
    /\ Goto(l, "done")
    /\ UNCHANGED <<lock, prev, reused>>

------------------------------------------------------------------------------
Start(l) ==
    /\ pc[l] = "new"
    /\ Spaced => \A m \in Launches : pc[m] \notin Window
    /\ Goto(l, "test")
    /\ UNCHANGED <<lock, prev, reused>>

(* if [ -f "$LOCK_FILE" ]                                                  *)
Test(l) ==
    /\ pc[l] = "test"
    /\ Goto(l, IF lock = NoFile THEN "truncate" ELSE "cat")
    /\ UNCHANGED <<lock, prev, reused>>

(* prev_pid="$(cat "$LOCK_FILE" 2>/dev/null || echo "")"                   *)
Cat(l) ==
    /\ pc[l] = "cat"
    /\ prev' = [prev EXCEPT ![l] = IF lock \in Launches THEN lock ELSE Empty]
    /\ Goto(l, "kill0")
    /\ UNCHANGED <<lock, reused>>

(* [ -n "$prev_pid" ] && kill -0 "$prev_pid": skip, exit 0.  The trap is   *)
(* not installed yet, so the lock stays.                                   *)
Skip(l) ==
    /\ pc[l] = "kill0"
    /\ prev[l] # Empty
    /\ Alive(prev[l])
    /\ Goto(l, "done")
    /\ UNCHANGED <<lock, prev, reused>>

(* "stale lock — overwrite"                                                *)
FoundStale(l) ==
    /\ pc[l] = "kill0"
    /\ prev[l] # Empty => ~Alive(prev[l])
    /\ Goto(l, "truncate")
    /\ UNCHANGED <<lock, prev, reused>>

(* echo $$ > "$LOCK_FILE": the shell opens (and truncates), echo writes.   *)
Truncate(l) ==
    /\ pc[l] = "truncate"
    /\ lock' = Empty
    /\ Goto(l, "echo")
    /\ UNCHANGED <<prev, reused>>

Echo(l) ==
    /\ pc[l] = "echo"
    /\ lock' = l
    /\ Goto(l, "run")
    /\ UNCHANGED <<prev, reused>>

(* The run is over; the EXIT trap: rm -f "$LOCK_FILE".                     *)
Exit(l) ==
    /\ pc[l] = "run"
    /\ lock' = NoFile
    /\ Goto(l, "done")
    /\ UNCHANGED <<prev, reused>>

(* Killed without its trap: the file stays as it is.                       *)
Kill(l) ==
    /\ pc[l] \in Window \cup {"run"}
    /\ Goto(l, "dead")
    /\ UNCHANGED <<lock, prev, reused>>

(* The kernel gives the PID of a dead launch to an unrelated process,      *)
(* which exits some time later.                                            *)
Reuse(l) ==
    /\ pc[l] = "dead"
    /\ l \notin reused
    /\ reused' = reused \cup {l}
    /\ UNCHANGED <<lock, pc, prev>>

Release(l) ==
    /\ l \in reused
    /\ reused' = reused \ {l}
    /\ UNCHANGED <<lock, pc, prev>>

Take(l) == Test(l) \/ Cat(l) \/ Skip(l) \/ FoundStale(l) \/ Truncate(l) \/ Echo(l)

Next ==
    \E l \in Launches :
        Start(l) \/ Take(l) \/ Exit(l) \/ Kill(l) \/ Reuse(l) \/ Release(l)

(* A launch in 0b keeps executing.  Nothing is assumed of the run itself:  *)
(* it may hang for ever and hold the lock.                                 *)
Fairness == \A l \in Launches : WF_vars(Take(l))

Spec     == Init /\ [][Next]_vars
FairSpec == Spec /\ Fairness

------------------------------------------------------------------------------
(* The lock excludes duplicates: never two daily runs at once.             *)
MutualExclusion ==
    \A l, m \in Launches : pc[l] = "run" /\ pc[m] = "run" => l = m

(* A run holds the lock until it ends: no skip, kill or clean-up of another*)
(* launch takes the file away under it.                                    *)
RunHoldsLock == \A l \in Launches : pc[l] = "run" => lock = l

(* A stale lock never blocks: a launch that starts while no run is alive   *)
(* gets to run, unless it is killed itself or the stale PID was reused.    *)
StaleLockTaken ==
    \A l \in Launches :
        (pc[l] = "test" /\ \A m \in Launches \ {l} : ~Alive(m))
            ~> (pc[l] \in {"run", "dead"} \/ reused # {})
==============================================================================
