--------------------------- MODULE ModuleExports ---------------------------
(***************************************************************************)
(* Names of ES modules (quickjs.c): js_resolve_export finds the variable   *)
(* that an export stands for, through other modules and through stars;     *)
(* js_build_module_ns collects the names of a name space object.           *)
(***************************************************************************)
EXTENDS Integers, Sequences, SequencesExt, FiniteSets

CONSTANTS
    Modules,
    Names,     \* names of exports
    Locals,    \* local variables of a module
    Default,   \* the name "default", which stars do not pass on
    Kinds,     \* kinds of export entries beside "local" and "indirect"
    MaxStars   \* bound: star exports of a module

ExportsAssumption ==
    Kinds \subseteq {"alias", "ns"} /\ MaxStars \in Nat

VARIABLES
    entries,  \* m->export_entries by name
    stars,    \* m->star_export_entries
    answer    \* of the last resolution or name space

vars == <<entries, stars, answer>>

\* An entry exports a variable; another one's export; a variable that imports
\* it; or a name space object.
Entries ==
    [kind : {"local"}, of : Locals]
    \cup [kind : {"indirect"} \cup (Kinds \cap {"alias"}), of : Modules \X Names]
    \cup [kind : Kinds \cap {"ns"}, of : Modules]

NoEntry == [kind |-> "none"]
StarLists == {s \in UNION {[1..n -> Modules] : n \in 0..MaxStars} : IsInjective(s)}

\* js_resolve_export: what is found is a module and the local name of its entry.
NotFound == [res |-> "not found"]
Circular == [res |-> "circular"]
Ambiguous == [res |-> "ambiguous"]
FoundAt(m, e) == [res |-> "found", module |-> m, entry |-> e]
LocalName(e) == IF e.kind = "alias" THEN [kind |-> "import", of |-> e.of]
                ELSE IF e.kind = "ns" THEN "*" ELSE e.of

Answers ==
    {NotFound, Circular, Ambiguous}
    \cup [res : {"found"}, module : Modules, entry : Entries]

TypeOK ==
    /\ entries \in [Modules -> [Names -> Entries \cup {NoEntry}]]
    /\ stars \in [Modules -> StarLists]
    /\ \/ answer = [query |-> "none"]
       \/ answer.query = "export" /\ answer.m \in Modules /\ answer.result \in Answers
       \/ answer.query = "names" /\ answer.m \in Modules /\ answer.result \subseteq Names

Init ==
    /\ entries \in [Modules -> [Names -> Entries \cup {NoEntry}]]
    /\ stars \in [Modules -> StarLists]
    /\ answer = [query |-> "none"]

Has(m, n) == entries[m][n] # NoEntry

\* Mutant of Combined: the first star that finds the name.
CombinedFirst(one, other) ==
    IF other.res # "found" THEN one
    ELSE IF one.res # "found" THEN other
    ELSE one

\* Two stars: the same variable of the same module is not ambiguous.
Combined(one, other) ==
    IF other.res = "ambiguous" THEN other
    ELSE IF other.res # "found" THEN one
    ELSE IF one.res # "found" THEN other
    ELSE IF one.module = other.module /\ LocalName(one.entry) = LocalName(other.entry) THEN one
    ELSE Ambiguous

Passed(n) == n # Default

RECURSIVE Resolve1(_, _, _)

\* js_resolve_export1, with the resolve state it leaves behind.
Resolve1(m, n, seen) ==
    LET now == seen \cup {<<m, n>>}
        e == entries[m][n]
    IN IF <<m, n>> \in seen THEN [seen |-> seen, result |-> Circular]
       ELSE IF Has(m, n) THEN
            IF e.kind = "indirect" THEN Resolve1(e.of[1], e.of[2], now)
            ELSE [seen |-> now, result |-> FoundAt(m, e)]
       ELSE IF ~Passed(n) THEN [seen |-> now, result |-> NotFound]
       ELSE FoldLeft(LAMBDA s, m1 :
                        IF s.result = Ambiguous THEN s
                        ELSE LET r == Resolve1(m1, n, s.seen)
                             IN [seen |-> r.seen, result |-> Combined(s.result, r.result)],
                     [seen |-> now, result |-> NotFound], stars[m])

Resolve(m, n) == Resolve1(m, n, {}).result

\* js_inner_module_linking checks the indirect exports of a module.
Checked(m) ==
    \A n \in Names :
        entries[m][n].kind = "indirect" =>
            Resolve(entries[m][n].of[1], entries[m][n].of[2]).res = "found"
AllChecked == \A m \in Modules : Checked(m)

RECURSIVE Gathered(_, _, _)

\* get_exported_names: the names, and the modules it has been to.
Gathered(s, m, from_star) ==
    IF m \in s.modules THEN s
    ELSE FoldLeft(LAMBDA t, m1 : Gathered(t, m1, TRUE),
                  [modules |-> s.modules \cup {m},
                   names |-> s.names \cup {n \in Names : Has(m, n) /\ (from_star => Passed(n))}],
                  stars[m])

ExportedNames(m) == Gathered([modules |-> {}, names |-> {}], m, FALSE).names

Export(m, n) ==
    /\ answer' = [query |-> "export", m |-> m, n |-> n, result |-> Resolve(m, n)]
    /\ UNCHANGED <<entries, stars>>

\* js_build_module_ns: the names that are found.
Namespace(m) ==
    /\ AllChecked
    /\ answer' = [query |-> "names", m |-> m,
                  result |-> {n \in ExportedNames(m) : Resolve(m, n).res = "found"}]
    /\ UNCHANGED <<entries, stars>>

Next == \E m \in Modules : Namespace(m) \/ \E n \in Names : Export(m, n)

Spec == Init /\ [][Next]_vars

-----------------------------------------------------------------------------
(***************************************************************************)
(* What a name stands for, without an order of search: the variables at    *)
(* the ends of all ways over indirect exports and stars.                   *)
(***************************************************************************)

Follow(mn) ==
    LET e == entries[mn[1]][mn[2]]
    IN IF Has(mn[1], mn[2])
       THEN IF e.kind \in {"indirect", "alias"} THEN {e.of} ELSE {}
       ELSE IF mn[2] = Default THEN {} ELSE {<<m, mn[2]>> : m \in ToSet(stars[mn[1]])}

RECURSIVE Ways(_)
Ways(found) ==
    LET more == found \cup UNION {Follow(mn) : mn \in found}
    IN IF more = found THEN found ELSE Ways(more)

\* The bindings: a variable of a module, or the name space of a module.
Binding(mn) ==
    LET e == entries[mn[1]][mn[2]]
    IN IF e.kind = "local" THEN <<"variable", mn[1], e.of>> ELSE <<"ns", e.of, "*">>
Bindings(m, n) ==
    {Binding(mn) : mn \in {w \in Ways({<<m, n>>}) :
                             Has(w[1], w[2]) /\ entries[w[1]][w[2]].kind \in {"local", "ns"}}}

\* The search finds a name that stands for one variable, whatever cycles of
\* modules it meets and whatever it has seen before, and no other one.  The
\* name space object of linked modules has the names that an import would
\* find, and all that are gathered and left out are ambiguous: it is built
\* without an error.
SearchFinds ==
    /\ answer.query = "export" =>
          LET all == Bindings(answer.m, answer.n) IN
          /\ answer.result.res = "found" <=> Cardinality(all) = 1
          /\ answer.result.res = "ambiguous" <=> Cardinality(all) > 1
          /\ answer.result.res = "found" =>
                all = {<<"variable", answer.result.module, answer.result.entry.of>>}
    /\ answer.query = "names" =>
          /\ answer.result = {n \in Names : Cardinality(Bindings(answer.m, n)) = 1}
          /\ \A n \in ExportedNames(answer.m) : Bindings(answer.m, n) # {}
=============================================================================
