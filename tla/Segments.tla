------------------------------- MODULE Segments -------------------------------
(***************************************************************************)
(* The segment layer (_shared/segment_registry) and the vector store it    *)
(* reads (infrastructure/vectorstore).  An index build embeds the texts of *)
(* the universe's tickers and of the concepts and writes one row at a      *)
(* time, each committed alone; a resolver, in the universe stage or the    *)
(* screener, evaluates the segments' selectors in three-valued logic on    *)
(* what the index holds and folds the policies of those that match.        *)
(*                                                                         *)
(* A vector is the model that made it and the set of texts it is the mean  *)
(* of.  A policy is a set of segment definitions, read at one time.        *)
(***************************************************************************)
EXTENDS Integers, FiniteSets, Sequences, SequencesExt

CONSTANTS
    Tickers, Models, Texts,
    Anchors,      \* concepts with an anchor_text: concept -> text
    Seeds,        \* concepts with seed_tickers: concept -> tickers
    Values,       \* values of a selection attribute
    Selectors,    \* the selectors, with those they are made of
    Policies,     \* [segments, profiles, own]
    MaxIndexings, \* bound: index builds
    MaxChanges,   \* bound: changes of the world
    None          \* no value

Concepts == DOMAIN Anchors \cup DOMAIN Seeds

(* What a selector is made of.                                             *)
Parts(sel) ==
    CASE sel.type \in {"and", "or"} -> {sel.children[i] : i \in DOMAIN sel.children}
      [] sel.type = "not"           -> {sel.inner}
      [] OTHER                      -> {}

(* A concept with seeds has no anchor.  A selector is a tree that validate *)
(* lets through (a segment with another is skipped), over concepts there   *)
(* are.  A segment's priority is a number; its selector is one of these.   *)
ConceptsAssumption ==
    /\ IsFiniteSet(Tickers) /\ IsFiniteSet(Concepts)
    /\ DOMAIN Anchors \cap DOMAIN Seeds = {}
SelectorsAssumption ==
    /\ IsFiniteSet(Selectors)
    /\ \A sel \in Selectors : /\ Parts(sel) \subseteq Selectors
                              /\ sel.type \in {"semantic", "top_k"} => sel.concept \in Concepts
    /\ \A S \in SUBSET Selectors : S # {} => \E sel \in S : Parts(sel) \cap S = {}
PoliciesAssumption ==
    \A p \in Policies :
        /\ IsFiniteSet(DOMAIN p.segments)
        /\ \A s \in DOMAIN p.segments :
              p.segments[s].priority \in Int /\ p.segments[s].selector \in Selectors

VARIABLES
    model,      \* the model the embedding client asks for
    text,       \* what the text source has of each ticker, or None
    rows,       \* the day's tickers with their attribute, which may be None
    vectors,    \* table vectors: (kind, key) -> [model, of]
    scalars,    \* table scalars: ticker -> attribute
    queue,      \* writes the build under way has still to make
    current,    \* a build ended whole and nothing has changed since
    answer,     \* the last resolution
    indexings, changes

vars == <<model, text, rows, vectors, scalars, queue, current, answer, indexings, changes>>

Keys == ({"ticker"} \X Tickers) \cup ({"concept"} \X Concepts)
NoVector == [model |-> None, of |-> {}]

Init ==
    /\ model \in Models
    /\ text \in [Tickers -> Texts \cup {None}]
    /\ rows \in [Tickers -> Values \cup {None}]
    /\ vectors = [k \in Keys |-> NoVector]
    /\ scalars = [t \in Tickers |-> None]
    /\ queue = << >> /\ current = FALSE /\ answer = None
    /\ indexings = 0 /\ changes = 0

(* Another text, another attribute, another model.                         *)
Change ==
    /\ queue = << >> /\ changes < MaxChanges
    /\ \/ \E t \in Tickers, x \in Texts \cup {None} :
            text' = [text EXCEPT ![t] = x] /\ UNCHANGED <<model, rows>>
       \/ \E t \in Tickers, v \in Values \cup {None} :
            rows' = [rows EXCEPT ![t] = v] /\ UNCHANGED <<model, text>>
       \/ model' \in Models /\ UNCHANGED <<text, rows>>
    /\ changes' = changes + 1 /\ current' = FALSE /\ answer' = None
    /\ UNCHANGED <<vectors, scalars, queue, indexings>>

------------------------------------------------------------------------------
(* build_segment_index.                                                    *)
(* Mutant: has_fresh_vector compares the text only.                        *)
FreshText(key, of) == vectors[key].of = of
HasFreshVector(key, of) == vectors[key] = [model |-> model, of |-> of]

SeedTickers == UNION {Seeds[c] : c \in DOMAIN Seeds}
SeedTexts(c) == {text[s] : s \in {s \in Seeds[c] : text[s] # None}}

(* upsert_scalars merges over the old row: an absent attribute stays.      *)
ScalarWrites ==
    SetToSeq({[table |-> "scalars", key |-> t, row |-> rows[t]] :
                 t \in {t \in Tickers : rows[t] # None}})
(* A ticker with a text that is not fresh, or that is a seed.              *)
TickerWrites ==
    {[table |-> "vectors", key |-> <<"ticker", t>>, row |-> [model |-> model, of |-> {text[t]}]] :
        t \in {t \in Tickers : /\ text[t] # None
                               /\ \/ t \in SeedTickers
                                  \/ ~HasFreshVector(<<"ticker", t>>, {text[t]})}}
AnchorWrites ==
    {[table |-> "vectors", key |-> <<"concept", c>>, row |-> [model |-> model, of |-> {Anchors[c]}]] :
        c \in {c \in DOMAIN Anchors : ~HasFreshVector(<<"concept", c>>, {Anchors[c]})}}
(* The centroid of the seeds that have a text; none, and nothing is stored.*)
SeedWrites ==
    {[table |-> "vectors", key |-> <<"concept", c>>, row |-> [model |-> model, of |-> SeedTexts(c)]] :
        c \in {c \in DOMAIN Seeds : SeedTexts(c) # {}}}

(* embed is one batch: all of the vectors, or none.                        *)
StartBuild(embedded) ==
    /\ queue = << >> /\ indexings < MaxIndexings
    /\ indexings' = indexings + 1
    /\ queue' = ScalarWrites \o
          (IF embedded THEN SetToSeq(TickerWrites) \o SetToSeq(AnchorWrites) \o SetToSeq(SeedWrites)
           ELSE << >>) \o <<[table |-> "end", key |-> None, row |-> embedded]>>
    /\ current' = FALSE /\ answer' = None
    /\ UNCHANGED <<model, text, rows, vectors, scalars, changes>>

Write ==
    /\ queue # << >>
    /\ LET w == Head(queue)
       IN  /\ vectors' = IF w.table = "vectors" THEN [vectors EXCEPT ![w.key] = w.row] ELSE vectors
           /\ scalars' = IF w.table = "scalars" THEN [scalars EXCEPT ![w.key] = w.row] ELSE scalars
           /\ current' = (w.table = "end" /\ w.row)
    /\ queue' = Tail(queue) /\ answer' = None
    /\ UNCHANGED <<model, text, rows, indexings, changes>>

Die ==
    /\ queue # << >>
    /\ queue' = << >> /\ answer' = None
    /\ UNCHANGED <<model, text, rows, vectors, scalars, current, indexings, changes>>

------------------------------------------------------------------------------
(* The store's answers.  A cosine is undefined when one of the vectors is  *)
(* not there; it is computed whatever models made them.                    *)
Cosine(v, c) == IF None \in {v.model, c.model} THEN None
                ELSE IF v.model # c.model THEN 1
                ELSE IF v.of \subseteq c.of THEN 2 ELSE 0
Score(t, c)  == Cosine(vectors[<<"ticker", t>>], vectors[<<"concept", c>>])
(* top_k: the k nearest of all the tickers of the table, ties at will.     *)
TopK(c, k) ==
    LET have == {t \in Tickers : Score(t, c) # None}
    IN  {S \in SUBSET have :
            /\ Cardinality(S) = (IF Cardinality(have) < k THEN Cardinality(have) ELSE k)
            /\ \A s \in S, o \in have \ S : Score(s, c) >= Score(o, c)}

(* _topk_usages: one k for a concept, the largest of all its uses.         *)
Leaves[sel \in Selectors] ==
    IF Parts(sel) = {} THEN {sel} ELSE UNION {Leaves[part] : part \in Parts(sel)}
AllLeaves(segs) == UNION {Leaves[segs[s].selector] : s \in DOMAIN segs}
TopKUsages(segs, c) == {l.k : l \in {l \in AllLeaves(segs) : l.type = "top_k" /\ l.concept = c}}
Largest(S) == CHOOSE k \in S : \A j \in S : j <= k

(* attributes.compare: the order is for numbers only, and any two values   *)
(* are equal or not.  No operator of this name, or no number, is an error. *)
Comparable(l) == l.op \in {"eq", "ne"} \/ (l.op \in {"ge", "gt", "le", "lt"} /\ l.threshold # None)
Compare(op, lhs, rhs) ==
    CASE op = "eq" -> lhs = rhs
      [] op = "ne" -> lhs # rhs
      [] op = "ge" -> lhs >= rhs
      [] op = "gt" -> lhs > rhs
      [] op = "le" -> lhs <= rhs
      [] op = "lt" -> lhs < rhs

(* evaluate: the leaves of _eval_threshold and _eval_semantic; members is  *)
(* the top-k set of each concept, in which who has no vector is not.       *)
Leaf(l, t, members) ==
    LET lhs == IF l.type = "threshold" THEN scalars[t]
               ELSE IF l.type = "semantic" THEN Score(t, l.concept) ELSE None
        truth(b) == IF b THEN "true" ELSE "false"
    IN  CASE l.type = "top_k"                 -> truth(t \in members[l.concept])
          [] lhs = None \/ ~Comparable(l)     -> "unknown"
          [] OTHER                            -> truth(Compare(l.op, lhs, l.threshold))

(* Mutant: an unknown is taken for false before it is negated.             *)
NegateClosed(v) == IF v = "true" THEN "false" ELSE "true"
Negate(v) == CASE v = "true" -> "false" [] v = "false" -> "true" [] OTHER -> "unknown"
Combine(values, decisive, other) ==
    IF decisive \in values THEN decisive
    ELSE IF "unknown" \in values THEN "unknown" ELSE other
Evaluate(sel, t, members) ==
    LET value[s \in Selectors] ==
            LET parts == {value[part] : part \in Parts(s)}
            IN  CASE s.type = "and" -> Combine(parts, "false", "true")
                  [] s.type = "or"  -> Combine(parts, "true", "false")
                  [] s.type = "not" -> Negate(value[s.inner])
                  [] OTHER          -> Leaf(s, t, members)
    IN  value[sel]

------------------------------------------------------------------------------
(* ancestor_chain and detect_cycle: the ancestors by distance, which are   *)
(* still segments after as many steps as there are segments in a cycle.    *)
Ancestors(s, segs) ==
    LET up[n \in 0 .. Cardinality(DOMAIN segs)] ==
            IF n = 0 THEN s
            ELSE IF up[n - 1] \in DOMAIN segs THEN segs[up[n - 1]].parent ELSE up[n - 1]
    IN  up
Chain(s, segs)   == {Ancestors(s, segs)[n] : n \in 0 .. Cardinality(DOMAIN segs)} \cap DOMAIN segs
Cyclic(segs)     == \E s \in DOMAIN segs : Ancestors(s, segs)[Cardinality(DOMAIN segs)] \in DOMAIN segs
Rank(s, segs)    == <<Cardinality(Chain(s, segs)), segs[s].priority>>
Precedes(a, b)   == a[1] < b[1] \/ (a[1] = b[1] /\ a[2] < b[2])

(* Mutant: the first of the orders is taken, whatever the ranks.           *)
NoConflict(matched, segs) == FALSE
(* order_matched: by depth, then priority; two of one rank are an error.   *)
Conflict(matched, segs) ==
    \E s, o \in matched : s # o /\ Rank(s, segs) = Rank(o, segs)
Orders(matched, segs) ==
    {q \in SetToSeqs(matched) :
        \A i, j \in DOMAIN q : Precedes(Rank(q[i], segs), Rank(q[j], segs)) => i < j}

(* MergeEngine: the fold of the contributions.                             *)
CombineCutoff(acc, new, op) ==
    IF new = << >> THEN acc
    ELSE IF op = "replace" \/ acc = << >> THEN new ELSE <<op, acc, new>>
Merge(acc, step) ==
    [enrich |-> IF step.spec.enrich = "replace" THEN step.enrich ELSE acc.enrich \cup step.enrich,
     cutoff |-> CombineCutoff(acc.cutoff, step.cutoff, step.spec.cutoff)]
Nothing == [enrich |-> {}, cutoff |-> << >>]

(* resolve, after the default: the matched segments whose profile is       *)
(* registered, general to specific, then the ticker's own profile.         *)
Steps(order, p, t) ==
    LET of(s)  == p.profiles[p.segments[s].profile] @@ [spec |-> p.segments[s].spec]
        named  == SelectSeq(order, LAMBDA s : p.segments[s].profile \in DOMAIN p.profiles)
        union  == [spec |-> [enrich |-> "union", cutoff |-> "and"]]
    IN  [i \in DOMAIN named |-> of(named[i])]
        \o (IF t \in DOMAIN p.own THEN <<p.own[t] @@ union>> ELSE << >>)

(* What a stage makes of it: a conflict leaves the ticker without any      *)
(* enrichment, its own profile's included.                                 *)
Resolutions(p, t, matched) ==
    IF Conflict(matched, p.segments) THEN {[Nothing EXCEPT !.cutoff = <<"conflict">>]}
    ELSE {FoldLeft(Merge, Nothing, Steps(q, p, t)) : q \in Orders(matched, p.segments)}

(* _build_segment_resolver and resolve.                                    *)
Resolve(t, p) ==
    /\ answer = None
    /\ ~Cyclic(p.segments)
    /\ \E members \in {m \in [Concepts -> SUBSET Tickers] :
            \A c \in Concepts :
                IF TopKUsages(p.segments, c) = {} THEN m[c] = {}
                ELSE m[c] \in TopK(c, Largest(TopKUsages(p.segments, c)))} :
          LET matched == {s \in DOMAIN p.segments :
                             Evaluate(p.segments[s].selector, t, members) = "true"}
          IN  answer' = [ticker |-> t, policy |-> p, members |-> members, matched |-> matched,
                         results |-> Resolutions(p, t, matched)]
    /\ UNCHANGED <<model, text, rows, vectors, scalars, queue, current, indexings, changes>>

Forget ==
    /\ answer # None /\ answer' = None
    /\ UNCHANGED <<model, text, rows, vectors, scalars, queue, current, indexings, changes>>

Next == \/ Change
        \/ \E embedded \in BOOLEAN : StartBuild(embedded)
        \/ Write
        \/ Die
        \/ \E t \in Tickers, p \in Policies : Resolve(t, p)
        \/ Forget

Spec == Init /\ [][Next]_vars

------------------------------------------------------------------------------
(* After a build that ended whole, and until the texts, the universe or    *)
(* the model change, every ticker that has a text and every concept is     *)
(* represented by a vector of the model in use and of its text of today,   *)
(* whatever killed builds, failed batches and other models left before.    *)
IndexIsCurrent ==
    current =>
        /\ \A t \in Tickers : text[t] # None =>
              vectors[<<"ticker", t>>] = [model |-> model, of |-> {text[t]}]
        /\ \A c \in DOMAIN Anchors :
              vectors[<<"concept", c>>] = [model |-> model, of |-> {Anchors[c]}]
        /\ \A c \in DOMAIN Seeds : SeedTexts(c) # {} =>
              vectors[<<"concept", c>>] = [model |-> model, of |-> SeedTexts(c)]

(* What is known of a leaf: nothing without the attribute, or the vectors, *)
(* that it is about, for a top-k leaf too, and nothing if they do not      *)
(* compare.                                                                *)
Known(l, t, members) ==
    IF \/ l.type = "threshold" /\ scalars[t] = None
       \/ l.type \in {"semantic", "top_k"} /\ Score(t, l.concept) = None
       \/ l.type # "top_k" /\ ~Comparable(l)
    THEN "unknown" ELSE Leaf(l, t, members)

(* What a selector is worth when each of its unknown leaves is given a     *)
(* truth value: the ordinary two-valued reading.                           *)
Holds(sel, known, guess) ==
    LET holds[s \in Selectors] ==
            CASE s.type = "and" -> \A part \in Parts(s) : holds[part]
              [] s.type = "or"  -> \E part \in Parts(s) : holds[part]
              [] s.type = "not" -> ~holds[s.inner]
              [] OTHER -> IF known[s] = "unknown" THEN s \in guess ELSE known[s] = "true"
    IN  holds[sel]

(* The selector of a segment holds of the ticker however the values that   *)
(* are missing of it turn out.                                             *)
Certain(s) ==
    LET sel   == answer.policy.segments[s].selector
        known == [l \in Leaves[sel] |-> Known(l, answer.ticker, answer.members)]
    IN  \A guess \in SUBSET Leaves[sel] : Holds(sel, known, guess)

(* No top-k leaf stands under a negation.                                  *)
Plain[sel \in Selectors] ==
    IF sel.type = "not" THEN \A l \in Leaves[sel.inner] : l.type # "top_k"
    ELSE \A part \in Parts(sel) : Plain[part]

(* A ticker is a member of a segment only if its selector holds however    *)
(* the values that are missing turn out: an embedding that failed, an      *)
(* attribute that no build has written, or values that do not compare,     *)
(* make nobody a member, not even under a negation.  Excepted is a top-k   *)
(* leaf under a negation, which takes a missing vector for a far one       *)
(* (top_k, _eval_semantic).                                                *)
MembershipIsSound ==
    answer # None =>
        \A s \in answer.matched : Plain[answer.policy.segments[s].selector] => Certain(s)

(* The selectors are documented to take every missing embedding for        *)
(* unknown, a top-k leaf's too.                                            *)
MissingEmbeddingIsUnknown == answer # None => \A s \in answer.matched : Certain(s)

(* The profile of a ticker does not depend on the order in which the       *)
(* registry lists the segments: where ranks leave an order open that would *)
(* matter, the resolver refuses.                                           *)
MergeIgnoresListing ==
    answer # None => Cardinality(answer.results) <= 1
==============================================================================
