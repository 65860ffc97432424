------------------------------ MODULE Financials ------------------------------
(***************************************************************************)
(* A company's figures on their way from DART to the screener: the index   *)
(* of corporation codes, kept for a few days (dart/client.py), the annual  *)
(* report and the capital signals (screener/io/dart_adapter.py) and the    *)
(* company's file in the financial cache (screener/io/financial_cache.py). *)
(* One batch runs at a time, may fail at each request and may die; reports *)
(* and signals are filed on any day.                                       *)
(*                                                                         *)
(* An amount stands for the year and the row it was reported for.          *)
(***************************************************************************)
EXTENDS Integers, FiniteSets, Sequences, SequencesExt

CONSTANTS
    MaxNow,      \* bound: days
    MaxReports,  \* bound: reports of a year, with those that correct one
    MaxSignals,  \* bound: signals that are filed
    YearDays,    \* days of a year
    Deadline,    \* days of a year before the reports of the last one are due
    IndexTtl,    \* ttl_seconds of the index, in days
    FiguresTtl,  \* financials_ttl_days
    Grace,       \* staleness_grace_days
    SignalSpan,  \* days the scan for signals looks back
    Books,       \* what a report may say of an account: a sequence of rows
    Kinds,       \* signal types
    OldFiles,    \* cache files at the start
    None

VARIABLES
    now,       \* the day
    reports,   \* the annual reports that are filed: year -> books, the newest last
    signals,   \* the signals that are filed: [day, kind]
    listed,    \* day of the company's listing, or None
    index,     \* corp_index.json: [on, has], or None when there is none to read
    file,      \* KR_<code>.json, or None
    tmp,       \* KR_<code>.json.tmp
    at,        \* where the batch is
    known,     \* the batch has a corp_code
    denied,    \* the index could not be fetched
    draft,     \* the payload under way
    used       \* the snapshot that a verdict was given on, or None

vars == <<now, reports, signals, listed, index, file, tmp, at, known, denied, draft, used>>

Year(d) == d \div YearDays
(* A row names its statement; an account is found by id or by name; some   *)
(* of its three amounts may be blank.                                      *)
Row == [sj : {"IS", "CIS"}, id : BOOLEAN, name : BOOLEAN, blank : SUBSET (1 .. 3)]

(* Reports are due within the year, and no file at the start is of the     *)
(* schema of today.                                                        *)
FiguresAssumption ==
    /\ YearDays \in Nat \ {0} /\ Deadline \in 0 .. YearDays
    /\ Books \subseteq Seq(Row)
    /\ \A f \in OldFiles : f = None \/ f.schema # 4

Init ==
    /\ now = YearDays /\ reports = << >> /\ signals = {}
    /\ listed \in {None, 0}
    /\ index = None /\ file \in OldFiles /\ tmp = None
    /\ at = "idle" /\ known = FALSE /\ denied = FALSE /\ draft = None /\ used = None

NewDay ==
    /\ at = "idle" /\ now < MaxNow
    /\ now' = now + 1 /\ used' = None
    /\ UNCHANGED <<reports, signals, listed, index, file, tmp, at, known, denied, draft>>

(* A report of a year that is over or one that corrects it, a signal, the  *)
(* listing.                                                                *)
Filed(y) == IF y \in DOMAIN reports THEN reports[y] ELSE << >>
FileReport(y, book) ==
    /\ at = "idle" /\ used = None
    /\ y \in Year(now) - 2 .. Year(now) - 1 /\ Len(Filed(y)) < MaxReports
    /\ reports' = [x \in DOMAIN reports \cup {y} |->
                     IF x = y THEN Append(Filed(y), book) ELSE reports[x]]
    /\ UNCHANGED <<now, signals, listed, index, file, tmp, at, known, denied, draft, used>>
FileSignal(kind) ==
    /\ at = "idle" /\ used = None /\ Cardinality(signals) < MaxSignals
    /\ signals' = signals \cup {[day |-> now, kind |-> kind]}
    /\ UNCHANGED <<now, reports, listed, index, file, tmp, at, known, denied, draft, used>>
GoPublic ==
    /\ at = "idle" /\ used = None /\ listed = None
    /\ listed' = now
    /\ UNCHANGED <<now, reports, signals, index, file, tmp, at, known, denied, draft, used>>

------------------------------------------------------------------------------
StartBatch ==
    /\ at = "idle" /\ used = None
    /\ at' = "index" /\ known' = FALSE /\ denied' = FALSE /\ draft' = None
    /\ UNCHANGED <<now, reports, signals, listed, index, file, tmp, used>>

(* load_or_fetch_corp_code_index: a file that is read and not too old.     *)
IndexFresh == index # None /\ now - index.on < IndexTtl

LoadIndex ==
    /\ at = "index"
    /\ \/ IndexFresh /\ known' = index.has /\ denied' = FALSE /\ UNCHANGED index
       \/ /\ ~IndexFresh
          /\ index' = [on |-> now, has |-> listed # None]
          /\ known' = index'.has /\ denied' = FALSE
       \/ ~IndexFresh /\ known' = FALSE /\ denied' = TRUE /\ UNCHANGED index
    /\ at' = "look"
    /\ UNCHANGED <<now, reports, signals, listed, file, tmp, draft, used>>

(* filter_visible_signals: an event is dated at the last second of its     *)
(* day, and the clock stands at the market's close.                        *)
Visible(s) == s.day < now

Readable == file # None /\ file.schema = 4

(* get_snapshot of a file of today's schema, whatever its age.             *)
UseCache ==
    /\ at = "look" /\ Readable
    /\ used' = [year |-> file.year, figures |-> file.figures, on |-> file.on,
                signals |-> {s \in file.signals : Visible(s)}]
    /\ at' = "idle"
    /\ UNCHANGED <<now, reports, signals, listed, index, file, tmp, known, denied, draft>>

(* A miss: no code, no answer, or no report yet: the verdict is unknown.   *)
Unknown ==
    /\ at = "look" /\ ~Readable
    /\ at' = "idle"
    /\ UNCHANGED <<now, reports, signals, listed, index, file, tmp, known, denied, draft, used>>

(* determine_bsns_year                                                     *)
BsnsYear(d) == IF d % YearDays < Deadline THEN Year(d) - 2 ELSE Year(d) - 1

(* _pick_account: the first row of the statement with the id, else the     *)
(* first with the name.                                                    *)
Pick(book, sj) ==
    LET ids   == {i \in DOMAIN book : book[i].sj = sj /\ book[i].id}
        names == {i \in DOMAIN book : book[i].sj = sj /\ book[i].name}
        found == IF ids # {} THEN ids ELSE names
    IN  IF found = {} THEN << >>
        ELSE <<book[CHOOSE i \in found : \A j \in found : i <= j]>>

(* _extract_3y of a report: what was reported for the year before last,    *)
(* for last year and for its own; blank or no number is None.              *)
Extract(row, y) == [k \in 1 .. 3 |-> IF k \in row.blank THEN None ELSE [of |-> y - 3 + k, row |-> row]]

(* Mutant: the columns are taken from the newest to the oldest.            *)
NewestFirst(k, y) == y - k + 1
(* build_filings: the year the k-th filing is labelled with.               *)
Label(k, y) == y - 3 + k
(* The income statement before the comprehensive one.                      *)
BuildFilings(book, y) ==
    LET found == Pick(book, "IS") \o Pick(book, "CIS")
    IN  [k \in 1 .. 3 |-> [fiscal |-> Label(k, y),
                           amount |-> IF found = << >> THEN None ELSE Extract(found[1], y)[k]]]

(* DART answers for a year with the report that corrects the others.       *)
FetchFilings ==
    /\ at = "look" /\ ~Readable /\ known
    /\ LET y == BsnsYear(now)
       IN  /\ y \in DOMAIN reports
           /\ draft' = [schema |-> 4, year |-> y, figures |-> BuildFilings(Last(reports[y]), y),
                        on |-> now, signals |-> {}]
    /\ at' = "signals"
    /\ UNCHANGED <<now, reports, signals, listed, index, file, tmp, known, denied, used>>

(* detect_capital_signals_events, where a failure is an empty list, and    *)
(* merge_signal_events with what the old file holds.                       *)
OldSignals == IF file = None THEN {} ELSE file.signals
FetchSignals ==
    /\ at = "signals"
    /\ \E got \in {{}, {s \in signals : s.day + SignalSpan >= now}} :
          draft' = [draft EXCEPT !.signals = OldSignals \cup got]
    /\ at' = "write"
    /\ UNCHANGED <<now, reports, signals, listed, index, file, tmp, known, denied, used>>

(* write_atomic: the temporary file is opened, filled, and renamed.        *)
OpenTmp ==
    /\ at = "write"
    /\ tmp' = "torn" /\ at' = "fill"
    /\ UNCHANGED <<now, reports, signals, listed, index, file, known, denied, draft, used>>
Rename ==
    /\ at = "fill"
    /\ file' = draft /\ tmp' = None /\ at' = "look"
    /\ UNCHANGED <<now, reports, signals, listed, index, known, denied, draft, used>>

Die ==
    /\ at # "idle"
    /\ at' = "idle"
    /\ UNCHANGED <<now, reports, signals, listed, index, file, tmp, known, denied, draft, used>>

Next == \/ NewDay
        \/ \E y \in 0 .. Year(MaxNow), book \in Books : FileReport(y, book)
        \/ \E kind \in Kinds : FileSignal(kind)
        \/ GoPublic
        \/ StartBatch \/ LoadIndex \/ UseCache \/ Unknown
        \/ FetchFilings \/ FetchSignals \/ OpenTmp \/ Rename
        \/ Die

Spec == Init /\ [][Next]_vars

------------------------------------------------------------------------------
(* The figure a verdict takes for a year is the one that was reported for  *)
(* that year, all of them in one report, which may have been corrected     *)
(* since; its year was due when it was fetched and no later one was; no    *)
(* blank is filled in, and an id is preferred to a name within a statement.*)
FiguresAreOfTheirYear ==
    used # None =>
        /\ used.year \in DOMAIN reports
        /\ \E book \in ToSet(reports[used.year]) : \A k \in 1 .. 3 :
              LET f == used.figures[k]
              IN  /\ f.fiscal = used.year - 3 + k
                  /\ f.amount # None =>
                        /\ f.amount.of = f.fiscal
                        /\ Contains(book, f.amount.row)
                        /\ f.amount.row.id \/ \A r \in ToSet(book) :
                                                 r.sj = f.amount.row.sj => ~r.id
        /\ (used.year + 1) * YearDays + Deadline <= used.on
        /\ used.on < (used.year + 2) * YearDays + Deadline

(* The default strategy says of the figures that their cache is valid for  *)
(* financials_ttl_days, and that a stale one is allowed for the days of    *)
(* grace.                                                                  *)
CacheWithinValidity ==
    used # None => now - used.on < FiguresTtl + Grace
==============================================================================
