------------------------------ MODULE MCResearch ------------------------------
EXTENDS Research, TLC

(* The embedding models are interchangeable: no constant names one, and    *)
(* every property is an invariant.                                         *)
Symmetry == Permutations(Models)

MCReach == [c \in Consumers |-> IF c \in OneCompany THEN 3 ELSE 4]
(* Standing filings: up to one page and a half on an old day, in order.    *)
MCArchives ==
    {s \in UNION {[1 .. n -> [day : 0 .. Today, hit : BOOLEAN]] : n \in 2 .. 3} :
        \A i \in 1 .. Len(s) - 1 : s[i].day <= s[i + 1].day}

MCSubsidiaries == [p \in {"h"} |-> [c \in {"s", "t"} |-> 100]]
MCPrices == [c \in {"h", "s", "t"} |-> IF c = "s" THEN {8, 10} ELSE {10}]
MCArchive == {[ticker |-> "s", ty |-> "D", names |-> {"holding_5pct"}, day |-> 1],
              [ticker |-> "s", ty |-> "I", names |-> {"earnings"}, day |-> 1],
              [ticker |-> "s", ty |-> "I", names |-> {"earnings"}, day |-> 2]}

MCAnchors == [c \in {"ai"} |-> "x"]
MCSeeds   == [c \in {"toll"} |-> {"u"}]

Size      == [type |-> "threshold", op |-> "ge", threshold |-> 1]
Odd       == [type |-> "threshold", op |-> "lt", threshold |-> None]
Near      == [type |-> "semantic", op |-> "ge", concept |-> "ai", threshold |-> 2]
Toll      == [type |-> "semantic", op |-> "gt", concept |-> "toll", threshold |-> 0]
First     == [type |-> "top_k", concept |-> "ai", k |-> 1]
Not(l)    == [type |-> "not", inner |-> l]
And(l, m) == [type |-> "and", children |-> <<l, m>>]
Or(l, m)  == [type |-> "or", children |-> <<l, m>>]
Small     == [type |-> "or", children |-> <<Not(Size), Toll, Not(Odd)>>]

MCSelectors == {Size, Near, Toll, First, Not(Size), Odd, Not(Odd), Small, And(Near, Toll),
                Not(And(Near, Toll)), Or(First, Not(And(Near, Toll))), Not(First)}

Both == [enrich |-> "union", cutoff |-> "and"]
Sole == [enrich |-> "replace", cutoff |-> "replace"]
Segment(sel, parent, priority, spec) ==
    [selector |-> sel, parent |-> parent, priority |-> priority, spec |-> spec, profile |-> "p"]

(* One segment, with each form of selector; then families of two, whose    *)
(* members are related or not, ranked or not, and add or replace.          *)
Profiles == [n \in {"p", "q"} |-> [enrich |-> {n}, cutoff |-> <<n>>]]
Single   == {[segments |-> [s \in {"one"} |-> Segment(sel, "none", 1, Both)],
              profiles |-> Profiles, own |-> [t \in {"u"} |-> [enrich |-> {"own"}, cutoff |-> << >>]]] :
                sel \in {Small, Or(First, Not(And(Near, Toll))), Not(First)}}
Pairwise == {[segments |-> [s \in {"one", "two"} |->
                 IF s = "one" THEN Segment(First, "none", 1, Both)
                 ELSE [Segment(Size, place[1], place[2], Sole) EXCEPT !.profile = "q"]],
              profiles |-> Profiles, own |-> << >>] :
                place \in {<<"none", 1>>, <<"none", 2>>, <<"one", 1>>}}
MCPolicies == Single \cup Pairwise

Line(sj, id, blank) == [sj |-> sj, id |-> id, name |-> TRUE, blank |-> blank]
MCBooks == {<<Line("IS", FALSE, {1}), Line("IS", TRUE, {3}), Line("CIS", TRUE, {})>>,
            <<Line("CIS", FALSE, {})>>}
MCOldFiles == {None, [schema |-> 3, signals |-> {}]}
==============================================================================
