------------------------------- MODULE Screening -------------------------------
(***************************************************************************)
(* Policies and the screener.  Commits (domains/policy) add versions to a  *)
(* ticker's profile, v<N>.yaml, at any time and in several processes;      *)
(* Stage 2 (domains/screener) goes through the universe and gives each     *)
(* ticker a verdict from its financial cache, the universe's enrichments   *)
(* and the latest version of its profile.                                  *)
(*                                                                         *)
(* write_yaml_safely is one step up to the open (its probe and open are    *)
(* apart in ArtifactStore): a taken name gives v<N>.1.yaml, which no       *)
(* reader lists.  Between the open and the dump, and for ever when the     *)
(* writer dies there, the file is Torn: mostly empty, which serde refuses, *)
(* else a prefix, which may be no YAML at all.                             *)
(***************************************************************************)
EXTENDS ScreenRules

CONSTANTS Tickers, Committers,
          Drafts,          \* profiles a draft may ask for: [req, rule]
          DefaultRule,     \* the strategy's tree, for tickers without a profile
          Fetched,         \* what a fetch may bring: snapshots without enrichments
          Groups,          \* the universe's enrichment of a ticker: its z_score,
                           \* Missing (the group with a null), or NoGroup
          NoGroup, Torn, None,
          MaxCommits, MaxBatches   \* bounds

Commit == [ticker: Tickers, draft: Drafts, version: Nat \ {0},
           at: {"loaded", "listed", "hidden"}, base: Nat]

\* A version read by a batch; version 0 is no profile, for which profile is None.
Read == [version: Nat, profile: Drafts \cup {Torn, None}]

ASSUME ScreeningAssumption ==
  /\ MaxCommits \in Nat /\ MaxBatches \in Nat
  /\ Torn \notin Drafts /\ None \notin Drafts /\ Torn # None
  /\ None \notin Commit /\ None \notin Read /\ None \notin Tickers
  /\ Fetched \subseteq Snapshots /\ None \notin Fetched

\* The default strategy builds: otherwise main ends before it screens anyone.  Nobody
\* validates it, but the one in governance/policy would be accepted.
ASSUME RulesAssumption ==
  /\ DefaultRule \in Trees /\ Build(DefaultRule) = "ok" /\ AcceptedAtCommit(DefaultRule)
  /\ \A d \in Drafts : d.rule \in Trees

VARIABLES profiles,      \* profiles[t][n]: what v<n>.yaml of t holds
          com,           \* the commit each committer is at
          commits,       \* number of commits begun
          acked,         \* history: the commits that returned, in order
          cache,         \* the financial cache file of each ticker
          at,            \* where the batch is
          batches,       \* number of batches begun
          entry,         \* what Stage 1 says of each ticker
          left,          \* tickers without a verdict
          ticker,        \* the ticker at hand
          data,          \* its snapshot
          memo,          \* _load_cache
          verdicts,
          since          \* history: versions of each ticker when the batch began

policy == <<profiles, com, commits, acked>>
screen == <<cache, at, batches, entry, left, ticker, data, memo, verdicts, since>>
inputs == <<batches, since>>
vars == <<policy, screen>>

VerdictOf == [kind: {"pass", "fail", "caution", "unknown"}, snapshot: Snapshots \cup {None},
              read: Read \cup {None}, upto: Nat]

TypeOK ==
  /\ profiles \in [Tickers -> Seq(Drafts \cup {Torn})]
  /\ com \in [Committers -> Commit \cup {None}]
  /\ commits \in 0..MaxCommits
  /\ acked \in Seq([ticker: Tickers, version: Nat \ {0}, base: Nat])
  /\ cache \in [Tickers -> Fetched \cup {None}]
  /\ at \in {"idle", "next", "gate", "rule", "done"}
  /\ batches \in 0..MaxBatches
  /\ entry \in [Tickers -> Groups \cup {NoGroup}]
  /\ left \subseteq Tickers
  /\ ticker \in Tickers \cup {None}
  /\ data \in Snapshots \cup {None}
  /\ memo \in [Tickers -> Read \cup {None}]
  /\ verdicts \in [Tickers -> VerdictOf \cup {None}]
  /\ since \in [Tickers -> Nat]

--------------------------------------------------------------------------------
(* Commits. *)

\* Mutant: the highest number that can be read.
PreviousReadable(t) ==
  LET whole == {n \in DOMAIN profiles[t] : profiles[t][n] # Torn}
  IN  Max(whole \cup {0})

\* The highest number listed: v<n>.<k>.yaml is none.
Previous(t) == Len(profiles[t])

\* load_latest
Latest(t) ==
  LET n == Previous(t)
  IN  [version |-> n, profile |-> IF n = 0 THEN None ELSE profiles[t][n]]

\* commit_profile up to decide_commit: a draft that the validator refuses, and a
\* latest version that cannot be read, end it without a trace.
BeginCommit(c, t, d) ==
  /\ com[c] = None /\ commits < MaxCommits
  /\ AcceptedAtCommit(d.rule)
  /\ Latest(t).profile # Torn
  /\ com' = [com EXCEPT ![c] = [ticker |-> t, draft |-> d, version |-> Previous(t) + 1,
                                at |-> "loaded", base |-> Len(acked)]]
  /\ commits' = commits + 1
  /\ UNCHANGED <<profiles, acked, screen>>

\* registry.commit opens the file under its name, or under a suffix.
OpenVersion(c) ==
  /\ com[c] # None /\ com[c].at = "loaded"
  /\ \/ /\ com[c].version > Len(profiles[com[c].ticker])
        /\ profiles' = [profiles EXCEPT ![com[c].ticker] = Append(@, Torn)]
        /\ com' = [com EXCEPT ![c].at = "listed"]
     \/ /\ com[c].version <= Len(profiles[com[c].ticker])
        /\ com' = [com EXCEPT ![c].at = "hidden"]
        /\ UNCHANGED profiles
  /\ UNCHANGED <<commits, acked, screen>>

WriteVersion(c) ==
  /\ com[c] # None /\ com[c].at # "loaded"
  /\ profiles' = IF com[c].at = "hidden" THEN profiles
                 ELSE [profiles EXCEPT ![com[c].ticker][com[c].version] = com[c].draft]
  /\ acked' = Append(acked, [ticker |-> com[c].ticker, version |-> com[c].version, base |-> com[c].base])
  /\ com' = [com EXCEPT ![c] = None]
  /\ UNCHANGED <<commits, screen>>

\* A committer dies, or its writer raises.
AbandonCommit(c) ==
  /\ com[c] # None
  /\ com' = [com EXCEPT ![c] = None]
  /\ UNCHANGED <<profiles, commits, acked, screen>>

--------------------------------------------------------------------------------
(* The batch. *)

Running == at \in {"next", "gate", "rule"}

\* main up to run_screen, with a default strategy that builds; the memo and the
\* verdicts are new, the cache stays.
StartBatch ==
  /\ ~Running /\ batches < MaxBatches
  /\ at' = "next" /\ batches' = batches + 1
  /\ entry' = [t \in Tickers |-> NoGroup]
  /\ left' = Tickers /\ ticker' = None /\ data' = None
  /\ memo' = [t \in Tickers |-> None]
  /\ verdicts' = [t \in Tickers |-> None]
  /\ since' = [t \in Tickers |-> Len(profiles[t])]
  /\ UNCHANGED <<policy, cache>>

\* An exception that nobody catches: no report is written.
Crash ==
  /\ at' = "idle" /\ left' = {} /\ ticker' = None /\ data' = None
  /\ entry' = [t \in Tickers |-> NoGroup]
  /\ memo' = [t \in Tickers |-> None]
  /\ verdicts' = [t \in Tickers |-> None]
  /\ UNCHANGED <<cache, inputs>>

\* The verdict on t, and on to the next ticker.
Conclude(t, kind, snapshot, read) ==
  /\ verdicts' = [verdicts EXCEPT ![t] = [kind |-> kind, snapshot |-> snapshot, read |-> read,
                                          upto |-> Len(profiles[t])]]
  /\ left' = left \ {t}
  /\ at' = "next" /\ ticker' = None /\ data' = None
  /\ UNCHANGED inputs

Present(t) == IF entry[t] = NoGroup THEN {} ELSE {"spread_zscore"}

\* The snapshot with the enrichments of the run.
Enriched(figures, group) ==
  IF group = NoGroup THEN figures ELSE [figures EXCEPT !.z_score = group]

ASSUME EnrichedAssumption == \A f \in Fetched, g \in Groups : Enriched(f, g) \in Snapshots

\* The snapshot of t is at hand; what the universe says of t is found now.
Take(t, figures) ==
  /\ \E group \in Groups :
       /\ entry' = [entry EXCEPT ![t] = group]
       /\ data' = Enriched(figures, group)
  /\ at' = "gate" /\ ticker' = t
  /\ UNCHANGED <<left, memo, verdicts, inputs>>

\* A miss is fetched, once and for all: write_atomic renames, so that a reader finds
\* whole files only, and nothing asks how old they are.
RefetchIntoCache(t, figures) ==
  /\ cache[t] = None
  /\ cache' = [cache EXCEPT ![t] = figures]

\* The next ticker: get_snapshot raises when --date is not today or midnight has
\* passed; a miss stays unknown without a key, a corp_code or an answer.
TakeTicker(t) ==
  /\ at = "next" /\ t \in left
  /\ \/ Crash
     \/ /\ cache[t] # None
        /\ Take(t, cache[t])
        /\ UNCHANGED cache
     \/ \E figures \in Fetched : RefetchIntoCache(t, figures) /\ Take(t, figures)
     \/ /\ cache[t] = None
        /\ Conclude(t, "unknown", None, None)
        /\ UNCHANGED <<cache, entry, memo>>
  /\ UNCHANGED policy

\* _load: a file without a schema is remembered as corrupt, no YAML at all is an
\* exception that nobody catches.
Load(t) == IF memo[t] # None THEN memo[t] ELSE Latest(t)

\* profile_for and the completeness gate.
Gate ==
  /\ at = "gate"
  /\ LET read == Load(ticker)
         required == IF read.profile \in {None, Torn} THEN {} ELSE read.profile.req
     IN  \/ read.profile = Torn /\ Crash
         \/ /\ memo' = [memo EXCEPT ![ticker] = read]
            /\ \/ /\ required \subseteq Present(ticker)
                  /\ at' = "rule"
                  /\ UNCHANGED <<left, ticker, data, verdicts, inputs>>
               \/ /\ ~(required \subseteq Present(ticker))
                  /\ Conclude(ticker, "caution", data, read)
            /\ UNCHANGED <<cache, entry>>
  /\ UNCHANGED policy

\* Mutant: rule_for reads the registry again.
RuleReloaded(t) == Latest(t)

\* The version that rule_for builds from.
RuleOf(t) == Load(t)

\* rule_for and the evaluation.
Judge(snapshot, profile) ==
  IF profile = Torn THEN "caution"
  ELSE IF profile = None THEN Evaluate(snapshot, DefaultRule)
  ELSE CASE Build(profile.rule) = "invalid" -> "caution"
         [] Build(profile.rule) = "raises" -> "raises"
         [] OTHER -> Evaluate(snapshot, profile.rule)

ApplyRule ==
  /\ at = "rule"
  /\ LET read == RuleOf(ticker)
         outcome == Judge(data, read.profile)
     IN  \/ /\ outcome = "raises" /\ Crash
         \/ /\ outcome # "raises" /\ Conclude(ticker, outcome, data, read)
            /\ UNCHANGED <<cache, entry, memo>>
  /\ UNCHANGED policy

\* write_quality_filter
Report ==
  /\ at = "next" /\ left = {}
  /\ at' = "done"
  /\ memo' = [t \in Tickers |-> None]
  /\ UNCHANGED <<policy, cache, entry, left, ticker, data, verdicts, inputs>>

\* Any step of the batch may be its last.
KillBatch ==
  /\ Running
  /\ Crash /\ UNCHANGED policy

--------------------------------------------------------------------------------
Init ==
  /\ profiles = [t \in Tickers |-> <<>>]
  /\ com = [c \in Committers |-> None]
  /\ commits = 0 /\ acked = <<>>
  /\ cache \in [Tickers -> Fetched \cup {None}]
  /\ at = "idle" /\ batches = 0
  /\ entry = [t \in Tickers |-> NoGroup]
  /\ left = {} /\ ticker = None /\ data = None
  /\ memo = [t \in Tickers |-> None]
  /\ verdicts = [t \in Tickers |-> None]
  /\ since = [t \in Tickers |-> 0]

CommitStep(c) ==
  \/ \E t \in Tickers, d \in Drafts : BeginCommit(c, t, d)
  \/ OpenVersion(c) \/ WriteVersion(c) \/ AbandonCommit(c)

BatchStep ==
  \/ StartBatch \/ (\E t \in Tickers : TakeTicker(t))
  \/ Gate \/ ApplyRule \/ Report \/ KillBatch

Next == BatchStep \/ \E c \in Committers : CommitStep(c)

Spec == Init /\ [][Next]_vars

--------------------------------------------------------------------------------
(* A policy that is committed after another one was in place gets a higher *)
(* number, so that the listed order of a ticker's versions is the order of *)
(* decision for commits that do not overlap, with any deaths in between    *)
(* (next_version, load_latest).                                            *)
LaterCommitIsNewer ==
  \A i, j \in DOMAIN acked :
    acked[i].ticker = acked[j].ticker /\ i <= acked[j].base =>
      acked[i].version < acked[j].version

(* A pass or a fail follows from one whole policy: some version that was   *)
(* the latest at a moment of the batch before the verdict asks for no      *)
(* enrichment that the ticker lacks, and its rules give that verdict; the  *)
(* default rules stand for version 0 only, while a ticker has no profile.  *)
(* Commits may run between the completeness gate and the rules, or die and *)
(* leave a torn latest version (main._load, rule_for, profile_for).        *)
VerdictFromOnePolicy ==
  \A t \in Tickers :
    verdicts[t] # None /\ verdicts[t].kind \in {"pass", "fail"} =>
      \E n \in since[t]..verdicts[t].upto :
        LET profile == IF n = 0 THEN None ELSE profiles[t][n]
        IN  /\ profile # Torn
            /\ profile = None \/ profile.req \subseteq Present(t)
            /\ Judge(verdicts[t].snapshot, profile) = verdicts[t].kind

\* The leaves among some nodes that read a metric.
Leaves(nodes) == {n \in nodes : n.type \in {"threshold", "scoring"}}

\* Nothing in the tree turns a lower score, a fail or a smaller count into more: no
\* "not", no weight and no score below 0, no ceiling on the years with positive cash
\* flow, which missing years make fewer.  Commits check none of them.
Monotone(tree) ==
  \A n \in Nodes[tree] :
    /\ n.type # "not"
    /\ n.type = "weighted_sum" => \A i \in DOMAIN n.children : n.children[i].weight >= 0
    /\ n.type = "scoring" => \A x \in DOMAIN Methods[n.method] : Methods[n.method][x] >= 0
    /\ n \in Leaves({n}) /\ n.metric_path = "fcf_positive_years" =>
         IF n.type = "threshold" THEN n.op \in {"ge", "gt"}
         ELSE \A x, y \in DOMAIN Methods[n.method] : x <= y => Methods[n.method][x] <= Methods[n.method][y]

\* The figures that the leaves among some nodes read as 0 when they are missing.
ReadAsZero(nodes) ==
     {f \in {"total_debt"} : \E n \in Leaves(nodes) : n.metric_path \in {"debt_to_equity", "roic"}}
\cup {f \in {"total_equity"} : \E n \in Leaves(nodes) : n.metric_path = "roic"}

\* More is known in fuller than in s, but not of the figures in kept.
Completes(fuller, s, kept) ==
  /\ fuller.signals = s.signals /\ s.z_score \in {Missing, fuller.z_score}
  /\ DOMAIN fuller.annuals = DOMAIN s.annuals
  /\ \A i \in DOMAIN s.annuals, f \in Figures :
       (s.annuals[i][f] = Missing /\ f \notin kept) \/ fuller.annuals[i][f] = s.annuals[i][f]

(* Knowledge never turns a pass into a danger: had the missing figures of  *)
(* a ticker that passed been known, whatever they are, it would still hold *)
(* the hard guards, and still pass if its rules are monotone.  Excepted is *)
(* what domain/ticker reads as 0: missing debt, and for the return on      *)
(* invested capital missing equity too, which makes the return look higher *)
(* than it is.  It is what "data_missing" in rules/leaf and                *)
(* HardGuardWrapper are for.                                               *)
PassSurvivesKnowledge ==
  \A t \in Tickers :
    verdicts[t] # None /\ verdicts[t].kind = "pass" =>
      LET rule   == IF verdicts[t].read.version = 0 THEN DefaultRule ELSE verdicts[t].read.profile.rule
          always == ReadAsZero(Guards)
          kept   == ReadAsZero(Guards \cup Nodes[rule])
      IN  /\ \A s \in Snapshots : Completes(s, verdicts[t].snapshot, always) => GuardsHold(s)
          /\ Monotone(rule) =>
               \A s \in Snapshots : Completes(s, verdicts[t].snapshot, kept) => Evaluate(s, rule) = "pass"
================================================================================
