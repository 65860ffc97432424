----------------------------- MODULE ThesisCases ------------------------------
(***************************************************************************)
(* What Stage 3 and Stage 4 may hold for ThesisStore, with two tickers.    *)
(***************************************************************************)
CONSTANTS a, b, Missing, Torn

MCTickers == {a, b}

cand(t, v, k, cat, h) == [ticker |-> t, verdict |-> v, kind |-> k, category |-> cat, horizon |-> h]

(* A day of two new entries, one of a ticker twice, one of what 5a must    *)
(* leave alone (amended, rejected, not projectable), and none.             *)
MCStage4 ==
    {Missing, Torn,
     <<cand(a, "accepted", "new_entry", "time_cap", 1), cand(b, "accepted", "new_entry", "event_absence", 1)>>,
     <<cand(b, "accepted", "new_entry", "unknown", 1), cand(b, "accepted", "new_entry", "metric_trigger", 0),
       cand(b, "accepted", "new_entry", "time_cap", 1)>>,
     <<cand(a, "accepted", "amendment", "time_cap", 3), cand(b, "other", "new_entry", "event_presence", 1)>>}

MCStage3 == {Missing, {a}, {b}}
MCStage3Short == {Missing, {a}}
==============================================================================
