----------------------------- MODULE Disclosures ------------------------------
(***************************************************************************)
(* The scan of DART's disclosure list (dart/client.py) as its consumers    *)
(* drive it: universe's dart_disclosure_filter, which tries a shorter look *)
(* back after a failure, catalyst's detectors, which keep what they have,  *)
(* and the screener's capital signals, which drop it.                      *)
(*                                                                         *)
(* A scan reads one page per request while companies go on filing.  The    *)
(* list is the server's: newest first, so a new filing moves every later   *)
(* item of its window by one place between two requests of one scan.       *)
(***************************************************************************)
EXTENDS Integers, FiniteSets, Sequences

CONSTANTS
    Today,        \* the end of every scan, in days counted from the first filing
    Window,       \* max_window_days
    PageSize,     \* DART_PAGE_COUNT_MAX
    MaxPages,     \* max_pages of one window
    Retry,        \* retry of _dart_get
    Consumers,    \* the scanners
    Degrading,    \* dart_disclosure_filter with progressive_degrade
    Keeping,      \* the detectors: a failure keeps the events found so far
    OneCompany,   \* scans with a corp_code: one window, no deduplication
    Reach,        \* days a scan looks back, by consumer
    Archives,     \* filings that may stand when a scan begins
    MaxFilings    \* bound: filings

VARIABLES
    filed,    \* the filings in the order they were made: [day, hit]
    who,      \* the consumer that scans
    span,     \* days the current attempt looks back
    win,      \* first day of the window it reads
    page,     \* page_no of its next request
    tries,    \* retries of that request
    events,   \* how many events the consumer has made of each filing
    base,     \* filings standing when the attempt began
    outcome   \* "scanning", or how the scan ended

vars == <<filed, who, span, win, page, tries, events, base, outcome>>

(* A filing is a hit when it has a six-digit stock code, its name matches  *)
(* a keyword group and the consumer keeps it.                              *)
Filing == [day : 0 .. Today, hit : BOOLEAN]

(* Every window has a day, every page a place; the filings that stand, and *)
(* no more than may be made, were made by today.                           *)
ScanAssumption ==
    /\ Today \in Nat /\ Window \in Nat \ {0} /\ PageSize \in Nat \ {0} /\ MaxPages \in Nat
    /\ MaxFilings \in Nat
    /\ \A c \in Consumers : Reach[c] \in Nat
    /\ \A a \in Archives : a \in Seq(Filing) /\ Len(a) <= MaxFilings

First(days) == Today - days
(* The last day of the window that begins at win.                          *)
WindowEnd == IF who \in OneCompany THEN Today
             ELSE IF win + Window - 1 < Today THEN win + Window - 1 ELSE Today

(* What the server lists of a window: positions in filed, newest first, so *)
(* that a filing's page is given by how many of the list are newer.        *)
Listed(a, b)    == {i \in DOMAIN filed : filed[i].day \in a .. b}
Above(list, i)  == Cardinality({j \in list : j > i})
Page(list, n)   == {i \in list : Above(list, i) \div PageSize = n - 1}
TotalPage(list) == (Cardinality(list) + PageSize - 1) \div PageSize

NoEvents == [i \in 1 .. MaxFilings |-> 0]

Init ==
    /\ filed \in Archives
    /\ who \in Consumers
    /\ span = Reach[who] /\ win = First(span)
    /\ page = 1 /\ tries = 0 /\ events = NoEvents
    /\ base = Len(filed)
    /\ outcome = "scanning"

(* A company files, today.                                                 *)
File(hit) ==
    /\ outcome = "scanning" /\ Len(filed) < MaxFilings
    /\ filed' = Append(filed, [day |-> Today, hit |-> hit])
    /\ UNCHANGED <<who, span, win, page, tries, events, base, outcome>>

------------------------------------------------------------------------------

(* scan_disclosures: a hit not seen before is an event.  The screener's    *)
(* reader has no such check.                                               *)
Matched(items) ==
    [i \in DOMAIN events |->
        IF i \in items /\ filed[i].hit /\ (who \in OneCompany \/ events[i] = 0)
        THEN events[i] + 1 ELSE events[i]]

(* Mutant: the last page is taken for one past the last.                   *)
LastPageEarly(list) == page + 1 >= TotalPage(list)
(* iter_disclosures: when to stop paging a window.                         *)
LastPage(list) == page >= TotalPage(list) \/ page >= MaxPages

(* A page arrives; then the next page, the next window, or the end.        *)
Receive ==
    /\ outcome = "scanning"
    /\ LET list == Listed(win, WindowEnd)
       IN  /\ events' = Matched(Page(list, page))
           /\ IF ~LastPage(list)
              THEN page' = page + 1 /\ UNCHANGED <<win, outcome>>
              ELSE /\ page' = 1
                   /\ win' = WindowEnd + 1
                   /\ outcome' = IF WindowEnd = Today THEN "complete" ELSE outcome
    /\ tries' = 0
    /\ UNCHANGED <<filed, who, span, base>>

(* _open_with_retry: a 429, a 5xx or a timeout is asked again.             *)
AskAgain ==
    /\ outcome = "scanning" /\ tries < Retry
    /\ tries' = tries + 1
    /\ UNCHANGED <<filed, who, span, win, page, events, base, outcome>>

(* discover: after a failure half the look back is tried, from nothing.    *)
Half == IF Reach[who] \div 2 > 1 THEN Reach[who] \div 2 ELSE 1
DegradeNow ==
    /\ outcome = "scanning" /\ who \in Degrading
    /\ span = Reach[who] /\ Half # span
    /\ span' = Half /\ win' = First(Half)
    /\ page' = 1 /\ tries' = 0 /\ events' = NoEvents /\ base' = Len(filed)
    /\ UNCHANGED <<filed, who, outcome>>

(* DartUnavailable on the last attempt (a missing key, a status that is    *)
(* neither 000 nor 013, an answer that is no JSON, an HTTP error that is   *)
(* not transient, the last transient one): the events found so far stay    *)
(* the result, except for the screener, whose result is the empty list.    *)
GiveUp ==
    /\ outcome = "scanning"
    /\ who \in Degrading => span = Half
    /\ outcome' = "failed"
    /\ events' = IF who \in Degrading \cup Keeping THEN events ELSE NoEvents
    /\ UNCHANGED <<filed, who, span, win, page, tries, base>>

Next == \/ \E hit \in BOOLEAN : File(hit)
        \/ Receive
        \/ AskAgain
        \/ DegradeNow
        \/ GiveUp

Spec == Init /\ [][Next]_vars

------------------------------------------------------------------------------
(* How many filings of i's window are newer than i.                        *)
WindowOf(i) ==
    IF who \in OneCompany THEN First(span) .. Today
    ELSE LET k == (filed[i].day - First(span)) \div Window
         IN  First(span) + k * Window .. First(span) + (k + 1) * Window - 1
Newer(i) == Cardinality({j \in i + 1 .. Len(filed) : filed[j].day \in WindowOf(i)})

(* A complete scan has an event for every hit of its span that stood when  *)
(* the attempt began, whatever was filed meanwhile, unless so many newer   *)
(* filings stood in its window that its page is past MaxPages: paging from *)
(* the newest, the shift of a new filing can only repeat items.            *)
StandingFilingSeen ==
    outcome = "complete" =>
        \A i \in 1 .. base :
            filed[i].hit /\ filed[i].day >= First(span)
                => events[i] > 0 \/ Newer(i) >= MaxPages * PageSize
==============================================================================
