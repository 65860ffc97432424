----------------------------- MODULE KisSession ------------------------------
(***************************************************************************)
(* A session with the brokerage: the runtime policy that opens it, the     *)
(* OAuth token and its cache file shared by every stage (kis/client.py),   *)
(* the HTTP calls with their retries, and positions_sync, which makes one  *)
(* account summary of several answers.  Stages of two launches may hold    *)
(* sessions at once: they share secrets/.kis_token.json and its one .tmp   *)
(* name.                                                                   *)
(*                                                                         *)
(* Time is in units of half an hour: a session, some dozen calls with a    *)
(* timeout of 10 seconds, is assumed to be shorter than one unit.          *)
(***************************************************************************)
EXTENDS Naturals, FiniteSets, Sequences

CONSTANTS
    Stages,       \* processes that talk to KIS
    Syncs,        \* those that are positions_sync; the others fetch prices
    TTL,          \* TOKEN_TTL_SECONDS: 23 hours
    Life,         \* how long the server honours a token: 24 hours
    Retry,        \* retry of _post_json
    Switches,     \* what a policy layer may say of read_only_account.enabled
    MaxTime,      \* bound: the clock
    MaxSessions,  \* bound: sessions
    Absent, Torn, \* contents of a file that is not there, or not whole
    None          \* no value

(* The calls of a sync in their order, and the call of the other stages.   *)
AccountCalls == <<"balance", "buyable", "assets", "realized">>
Account      == {"balance", "buyable", "assets", "realized", "sellable"}
Calls(p)     == IF p \in Syncs THEN AccountCalls ELSE <<"price">>

VARIABLES
    now,       \* the clock
    enabled,   \* read_only_account.enabled as merged from its three layers
    lists,     \* [allowed, forbidden] of read_only_account, as sets of calls
    cache,     \* .kis_token.json
    tmp,       \* .kis_token.json.tmp
    pc,        \* where each stage is
    since,     \* when its session began
    tries,     \* retries of the token request so far
    token,     \* the token it holds: when the server issued it
    stamp,     \* issued_at_epoch it is about to write
    handle,    \* the file its open descriptor leads to
    summary,   \* the summary under construction
    sessions   \* sessions so far

vars == <<now, enabled, lists, cache, tmp, pc, since, tries, token, stamp, handle,
          summary, sessions>>

Token   == [born : 0 .. MaxTime, stamp : 0 .. MaxTime]
NewSummary == [status |-> "ok", did |-> << >>, total |-> None, held |-> 0]

(* The client's ttl leaves the server's lifetime one unit for a slow       *)
(* answer and one for the session that follows.                            *)
ParametersAssumption ==
    /\ Syncs \subseteq Stages
    /\ TTL \in Nat /\ Life \in Nat /\ Retry \in Nat /\ TTL + 2 <= Life
    /\ MaxTime \in Nat /\ MaxSessions \in Nat
    /\ Switches \subseteq BOOLEAN \cup {None}
    /\ Absent \notin Token /\ Torn \notin Token
    /\ None \notin {"balance", "assets"}

(* load_runtime_policy: the environment over the local file over the base; *)
(* a layer that does not say leaves the one below it.                      *)
Merged(base, local, env) ==
    IF env # None THEN env ELSE IF local # None THEN local ELSE base = TRUE

Init ==
    /\ now = 0
    /\ enabled \in {Merged(base, local, env) : base, local, env \in Switches}
    /\ lists \in {[allowed |-> Account, forbidden |-> {}],
                  [allowed |-> Account \ {"assets"}, forbidden |-> {"realized"}]}
    /\ cache = Absent /\ tmp = Absent
    /\ pc = [p \in Stages |-> "idle"]
    /\ since = [p \in Stages |-> 0]
    /\ tries = [p \in Stages |-> 0]
    /\ token = [p \in Stages |-> None]
    /\ stamp = [p \in Stages |-> 0]
    /\ handle = [p \in Stages |-> "none"]
    /\ summary = [p \in Stages |-> NewSummary]
    /\ sessions = 0

Goto(p, label) == pc' = [pc EXCEPT ![p] = label]

(* The stage ends, by return or by death: its locals are gone.             *)
Leave(p) ==
    /\ Goto(p, "idle")
    /\ since' = [since EXCEPT ![p] = 0]
    /\ tries' = [tries EXCEPT ![p] = 0]
    /\ token' = [token EXCEPT ![p] = None]
    /\ stamp' = [stamp EXCEPT ![p] = 0]
    /\ handle' = [handle EXCEPT ![p] = "none"]
    /\ summary' = [summary EXCEPT ![p] = NewSummary]

------------------------------------------------------------------------------
(* Mutant: the token is trusted for all of the server's day.               *)
FreshForADay(f) == f \in Token /\ now - f.stamp < Life
(* issue_access_token: a readable cache younger than its ttl is a hit.     *)
Fresh(f) == f \in Token /\ now - f.stamp < TTL

(* A session starts.  A sync with the gate closed writes a summary that    *)
(* says so; a hit in the cache gives the token at once.                    *)
Start(p) ==
    /\ pc[p] = "idle"
    /\ sessions < MaxSessions
    /\ sessions' = sessions + 1
    /\ since' = [since EXCEPT ![p] = now]
    /\ tries' = [tries EXCEPT ![p] = 0]
    /\ LET skip == p \in Syncs /\ ~enabled
       IN  /\ summary' = [summary EXCEPT ![p] =
                 IF skip THEN [NewSummary EXCEPT !.status = "skipped"] ELSE NewSummary]
           /\ Goto(p, IF skip THEN "write" ELSE IF Fresh(cache) THEN "call" ELSE "post")
           /\ token' = [token EXCEPT ![p] = IF ~skip /\ Fresh(cache) THEN cache.born ELSE None]
    /\ UNCHANGED <<now, enabled, lists, cache, tmp, stamp, handle>>

(* _post_json: a transient answer is tried again, at most Retry times.     *)
PostAgain(p) ==
    /\ pc[p] = "post"
    /\ tries[p] < Retry
    /\ tries' = [tries EXCEPT ![p] = @ + 1]
    /\ UNCHANGED <<now, enabled, lists, cache, tmp, pc, since, token, stamp, handle,
                   summary, sessions>>

(* A refusal, the last timeout, or an answer without a token: the sync     *)
(* writes "skipped", another stage goes without prices.                    *)
PostFails(p) ==
    /\ pc[p] = "post"
    /\ IF p \in Syncs
         THEN /\ summary' = [summary EXCEPT ![p].status = "skipped"]
              /\ Goto(p, "write")
              /\ UNCHANGED <<since, tries, token, stamp, handle>>
         ELSE Leave(p)
    /\ UNCHANGED <<now, enabled, lists, cache, tmp, sessions>>

(* The server issues a token.                                              *)
PostSucceeds(p) ==
    /\ pc[p] = "post"
    /\ token' = [token EXCEPT ![p] = now]
    /\ Goto(p, "receive")
    /\ UNCHANGED <<now, enabled, lists, cache, tmp, since, tries, stamp, handle, summary, sessions>>

(* The answer arrives: issued_at_epoch is the client's clock by now; then  *)
(* open(tmp, "w").                                                         *)
Receive(p) ==
    /\ pc[p] = "receive"
    /\ stamp' = [stamp EXCEPT ![p] = now]
    /\ tmp' = Torn
    /\ handle' = [handle EXCEPT ![p] = "tmp"]
    /\ Goto(p, "dump")
    /\ UNCHANGED <<now, enabled, lists, cache, since, tries, token, summary, sessions>>

(* json.dump through the descriptor, wherever the file is by now.  Two     *)
(* writers in one file leave one of their texts, or a mixture.             *)
Dump(p) ==
    /\ pc[p] = "dump"
    /\ \E text \in {[born |-> token[p], stamp |-> stamp[p]]} \cup
                   (IF \E q \in Stages \ {p} : handle[q] = handle[p] THEN {Torn} ELSE {}) :
          /\ cache' = IF handle[p] = "cache" THEN text ELSE cache
          /\ tmp'   = IF handle[p] = "tmp" THEN text ELSE tmp
    /\ Goto(p, "replace")
    /\ UNCHANGED <<now, enabled, lists, since, tries, token, stamp, handle, summary, sessions>>

(* tmp.replace(cache): descriptors follow the file.                        *)
Replace(p) ==
    /\ pc[p] = "replace"
    /\ tmp # Absent
    /\ cache' = tmp
    /\ tmp' = Absent
    /\ handle' = [q \in Stages |-> IF q = p THEN "none"
                                   ELSE IF handle[q] = "tmp" THEN "cache"
                                   ELSE "none"]
    /\ Goto(p, "call")
    /\ UNCHANGED <<now, enabled, lists, since, tries, token, stamp, summary, sessions>>

(* The other session has moved the file: FileNotFoundError, which no stage *)
(* expects.                                                                *)
ReplaceRaises(p) ==
    /\ pc[p] = "replace"
    /\ tmp = Absent
    /\ Leave(p)
    /\ UNCHANGED <<now, enabled, lists, cache, tmp, sessions>>

------------------------------------------------------------------------------
NextCall(p) == Calls(p)[Len(summary[p].did) + 1]
Calling(p)  == pc[p] = "call" /\ Len(summary[p].did) < Len(Calls(p))

(* _enforce_read_only_policy before the request, rt_cd after it.  A call   *)
(* outside the whitelist fails like one that the server refuses.           *)
Permitted(call) == call = "price" \/ (enabled /\ call \in lists.allowed)
Blocked(call)   == call \in lists.forbidden
(* An answer may lack the total; of the other calls only failure matters.  *)
Answers(call)   == IF ~Permitted(call) THEN {"fail"}
                   ELSE IF call \in {"balance", "assets"} THEN {"full", "blank", "fail"}
                   ELSE {"full", "fail"}

(* Mutant: an answered fallback makes the summary whole again.             *)
NotedForgiving(s, call, answer) ==
    [status |-> IF answer = "fail" THEN "partial" ELSE IF call = "assets" THEN "ok" ELSE s.status,
     did    |-> Append(s.did, answer),
     total  |-> IF answer = "full" /\ (call = "balance" \/ (call = "assets" /\ s.total = None))
                THEN call ELSE s.total,
     held   |-> IF call = "balance" /\ answer = "full" THEN 1 ELSE s.held]

(* What sync_account makes of an answer.  The account assets are only a    *)
(* fallback for a total that the balance did not give.                     *)
Noted(s, call, answer) ==
    [status |-> IF answer = "fail" THEN "partial" ELSE s.status,
     did    |-> Append(s.did, answer),
     total  |-> IF answer = "full" /\ (call = "balance" \/ (call = "assets" /\ s.total = None))
                THEN call ELSE s.total,
     held   |-> IF call = "balance" /\ answer = "full" THEN 1 ELSE s.held]

Get(p) ==
    /\ Calling(p)
    /\ ~Blocked(NextCall(p))
    /\ \E answer \in Answers(NextCall(p)) :
          summary' = [summary EXCEPT ![p] = Noted(@, NextCall(p), answer)]
    /\ UNCHANGED <<now, enabled, lists, cache, tmp, pc, since, tries, token, stamp, handle, sessions>>

(* KisAutoTradeBlocked ends the stage at once.                             *)
Block(p) ==
    /\ Calling(p)
    /\ Blocked(NextCall(p))
    /\ Leave(p)
    /\ UNCHANGED <<now, enabled, lists, cache, tmp, sessions>>

(* The sellable quantities of the holdings; a failure is a warning only.   *)
GetSellable(p) ==
    /\ p \in Syncs
    /\ pc[p] = "call" /\ ~Calling(p)
    /\ summary[p].held > 0 => ~Blocked("sellable")
    /\ Goto(p, "write")
    /\ UNCHANGED <<now, enabled, lists, cache, tmp, since, tries, token, stamp, handle,
                   summary, sessions>>

(* write_artifacts: the summary first, then a balance per holding.         *)
WriteSummary(p) ==
    /\ pc[p] = "write"
    /\ Leave(p)
    /\ UNCHANGED <<now, enabled, lists, cache, tmp, sessions>>

(* A stage that wanted prices has them, or falls back to other sources.    *)
HavePrices(p) ==
    /\ p \notin Syncs
    /\ pc[p] = "call" /\ ~Calling(p)
    /\ Leave(p)
    /\ UNCHANGED <<now, enabled, lists, cache, tmp, sessions>>

Die(p) ==
    /\ pc[p] # "idle"
    /\ Leave(p)
    /\ UNCHANGED <<now, enabled, lists, cache, tmp, sessions>>

(* Time passes; no session lasts longer than one unit.                     *)
Tick ==
    /\ now < MaxTime
    /\ \A p \in Stages : pc[p] # "idle" => since[p] = now
    /\ now' = now + 1
    /\ UNCHANGED <<enabled, lists, cache, tmp, pc, since, tries, token, stamp, handle,
                   summary, sessions>>

Next ==
    \/ \E p \in Stages :
         \/ Start(p) \/ PostAgain(p) \/ PostFails(p) \/ PostSucceeds(p) \/ Receive(p)
         \/ Dump(p) \/ Replace(p) \/ ReplaceRaises(p)
         \/ Get(p) \/ Block(p) \/ GetSellable(p) \/ WriteSummary(p) \/ HavePrices(p) \/ Die(p)
    \/ Tick

Spec == Init /\ [][Next]_vars

------------------------------------------------------------------------------
(* A token is never sent after the server has dropped it: not one from the *)
(* cache at the very end of its ttl, used through a slow session, nor one  *)
(* whose stamp is late because its answer was, nor one that two racing     *)
(* sessions left in the cache.                                             *)
SentTokenIsLive ==
    \A p \in Stages : Calling(p) => now - token[p] < Life

(* The summary is honest about what it lacks: it is "ok" only if every     *)
(* call was answered, a total comes from the fallback only where the       *)
(* balance gave none, and an account is shown without holdings only if the *)
(* balance was answered so or the status says that something is missing.   *)
SummaryIsHonest ==
    \A p \in Syncs : pc[p] = "write" =>
        LET s == summary[p]
            answered == Len(s.did) = Len(AccountCalls) /\ \A i \in DOMAIN s.did : s.did[i] # "fail"
        IN  /\ s.status = "ok" <=> answered
            /\ s.total = "assets" => s.did[1] # "full" /\ s.did[3] = "full"
            /\ s.held = 0 /\ s.status = "ok" => s.did[1] = "blank"
==============================================================================
