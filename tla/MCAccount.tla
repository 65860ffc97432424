------------------------------ MODULE MCAccount -------------------------------
(***************************************************************************)
(* The account: the sessions in which a stage reads it from KIS            *)
(* (KisSession), and what becomes of the summaries of earlier days: peak,  *)
(* drawdown and brake (DrawdownBrake).  The second sees of a session only  *)
(* the summary it left, so a behaviour follows one of the two, its focus,  *)
(* and the other stands still.                                             *)
(***************************************************************************)
EXTENDS DrawdownBrake

CONSTANTS Stages, Syncs, TTL, Life, Retry, Switches, MaxTime, MaxSessions, Absent

VARIABLES focus, now, enabled, lists, cache, tmp, step, since, tries, token, stamp, handle,
          summary, sessions

Kis == INSTANCE KisSession WITH pc <- step

kisVars == <<now, enabled, lists, cache, tmp, step, since, tries, token, stamp, handle,
             summary, sessions>>
allVars == <<focus, vars, kisVars>>

ASSUME SessionAssumption == Kis!ParametersAssumption

(* Of the part that stands still one initial state is enough.              *)
MCInit ==
    \/ /\ focus = "brake" /\ Init
       /\ Kis!Init /\ enabled /\ lists.forbidden = {}
    \/ /\ focus = "kis" /\ assets = <<CHOOSE x \in Assets : TRUE>>
       /\ Init /\ Kis!Init

MCNext ==
    \/ focus = "brake" /\ Next     /\ UNCHANGED <<focus, kisVars>>
    \/ focus = "kis"   /\ Kis!Next /\ UNCHANGED <<focus, vars>>

MCSpec == MCInit /\ [][MCNext]_allVars

------------------------------------------------------------------------------
(* KisSession: a token that is sent is one the server still honours.       *)
SentTokenIsLive == Kis!SentTokenIsLive

(* KisSession: a summary says "ok" only of an account that was read whole. *)
SummaryIsHonest == Kis!SummaryIsHonest
==============================================================================
