---------------------------- MODULE ViewPipeline ----------------------------
(***************************************************************************)
(* How a section of a view layout becomes rows: its functions are folded,  *)
(* in whatever order they were written, into buckets; the buckets are      *)
(* checked against one another and applied in one fixed order.             *)
(*                                                                         *)
(* A function is [fn, arg], the renders all named "as"; not(f(..)) is the  *)
(* function "not-f".  The graph is a sequence of entries                   *)
(* [type, layer, kind, intent, topics, people, day, bytes, short, active,  *)
(* status, indexed, score, head, actor, refs, actors, involves]: `status`  *)
(* is derived, `head` marks a live head of an actor chain and `actor` is   *)
(* the head a role is bound to, `refs` are the positions it cites.         *)
(* An involvement is [target, set, actors].                                *)
(***************************************************************************)
EXTENDS Integers, Sequences, FiniteSets, FiniteSetsExt, SequencesExt

CONSTANTS Nothing, Malformed        \* no value, and an argument that does not parse

At(list, positions) == [k \in DOMAIN positions |-> list[positions[k]]]
FirstOf(list, n) == SubSeq(list, 1, Min({n, Len(list)}))
After(list, n) == SubSeq(list, n + 1, Len(list))

-----------------------------------------------------------------------------
\* The buckets, and how a call adds to its own.
Flags == {"active", "indexed", "untagged", "brief"}
Disjunctions == {"kind", "intent", "participant"}
Unions == {"id", "not-kind", "not-intent"}
Latest == {"source", "layer", "type", "since", "topic", "not-layer", "not-topic", "rank", "n", "skip",
           "group", "expand", "name", "name-prefix", "stalled", "as"}
NewSectionSpec ==
    [b \in Flags \cup Disjunctions \cup Unions \cup Latest |->
        CASE b \in Flags -> FALSE
          [] b \in Disjunctions \cup Unions -> {}
          [] b = "source" -> "graph"
          [] OTHER -> Nothing]
Understood(f) == f.fn \in DOMAIN NewSectionSpec /\ f.arg # Malformed
ParseSectionFunction(s, f) ==
    [s EXCEPT ![f.fn] = CASE f.fn \in Flags -> TRUE
                          [] f.fn \in Disjunctions -> @ \cup {f.arg}
                          [] f.fn \in Unions -> @ \cup f.arg
                          [] OTHER -> f.arg]
ParseSection(section) == FoldLeft(ParseSectionFunction, NewSectionSpec, section)

\* A macro stands at the start of a section; what follows it is appended.
F(fn, arg) == [fn |-> fn, arg |-> arg]
Macros ==
    [top |-> <<F("active", {}), F("n", 2), F("rank", "heat"), F("name-prefix", "Top"), F("as", "list")>>,
     topic |-> <<F("topic", <<"ux">>), F("rank", "heat"), F("name-prefix", "Topic"), F("as", "list")>>,
     focus |-> <<F("kind", {"focus"}), F("active", {}), F("expand", "involvement"),
                 F("name-prefix", "Focus"), F("as", "focus-block")>>,
     decisions |-> <<F("active", {}), F("kind", {"plan", "directive"}), F("group", "kind"),
                     F("name-prefix", "Decisions"), F("as", "grouped")>>,
     insights |-> <<F("active", {}), F("kind", {"insight"}), F("since", 2), F("rank", "date"),
                    F("name-prefix", "Insights"), F("as", "list")>>,
     signals |-> <<F("active", {}), F("kind", {"gap", "question"}), F("group", "kind"),
                   F("name-prefix", "Signals"), F("as", "grouped")>>,
     done |-> <<F("kind", {"done"}), F("since", 2), F("rank", "date"), F("name-prefix", "Done"), F("as", "list")>>,
     contracts |-> <<F("active", {}), F("kind", {"contract"}), F("name-prefix", "Contracts"), F("as", "list")>>,
     aspirations |-> <<F("active", {}), F("kind", {"aspiration"}), F("name-prefix", "Aspirations"),
                       F("as", "list")>>,
     participants |-> <<F("active", {}), F("kind", {"actor"}), F("name-prefix", "Participants"),
                        F("as", "participants-block")>>,
     wip |-> <<F("source", "wip"), F("name-prefix", "WIP"), F("as", "wip-list")>>]
ExpandSection(section) ==
    IF section # <<>> /\ section[1].fn \in DOMAIN Macros
    THEN Macros[section[1].fn] \o Tail(section) ELSE section

-----------------------------------------------------------------------------
\* What no section may combine.
RefusedOfMarkers(s) ==
    {b \in {"active", "kind", "intent", "indexed", "not-kind", "not-intent", "brief", "layer", "since",
            "topic", "rank", "n", "skip", "group", "expand", "stalled", "not-layer", "not-topic"} :
        s[b] # NewSectionSpec[b]}
Set(s, b) == s[b] # Nothing
Excluded(s) ==
    \/ s["as"] = "counts" /\ (s["brief"] \/ \E b \in {"group", "expand", "rank", "n", "skip"} : Set(s, b))
    \/ s["as"] = "bodies" /\ s["brief"]
    \/ (Set(s, "group") \/ s["expand"] = "involvement") /\ \E b \in {"rank", "n", "skip"} : Set(s, b)
    \/ Set(s, "expand") /\ Set(s, "group")
    \/ Set(s, "stalled") /\ s["expand"] # "involvement"
Misshapen(s) ==
    \/ s["as"] = "wip-list"
    \/ Set(s, "group") /\ s["as"] # "grouped"
    \/ s["expand"] = "involvement" /\ s["as"] # "focus-block"
    \/ s["expand"] \in {"refs", "refs(inactive)"} /\ s["as"] # "list"
    \/ ~ Set(s, "group") /\ s["as"] = "grouped"
    \/ s["expand"] # "involvement" /\ s["as"] = "focus-block"
    \/ s["as"] = "participants-block" /\ \E b \in {"rank", "n", "skip"} : Set(s, b)

\* The header: a name wins, a prefix takes the ranking on, a ranking alone says "Top".
SectionHeader(s) ==
    CASE Set(s, "name") -> <<s["name"]>>
      [] ~ Set(s, "name") /\ Set(s, "name-prefix") /\ Set(s, "rank") -> <<s["name-prefix"], s["rank"]>>
      [] ~ Set(s, "name") /\ Set(s, "name-prefix") /\ ~ Set(s, "rank") -> <<s["name-prefix"]>>
      [] ~ Set(s, "name") /\ ~ Set(s, "name-prefix") /\ Set(s, "rank") -> <<"Top", s["rank"]>>
      [] OTHER -> <<>>

-----------------------------------------------------------------------------
\* Selection.
HasPrefix(topic, prefix) == IsPrefix(prefix, topic)
Bears(e, prefix) == \E t \in e.topics : HasPrefix(t, prefix)
Passes(s, e) ==
    /\ s["active"] => e.active
    /\ s["layer"] \in {Nothing, e.layer} /\ s["type"] \in {Nothing, e.type}
    /\ s["indexed"] => e.indexed
    /\ \A kinds \in s["kind"] : e.kind \in kinds
    /\ \A names \in s["participant"] : e.people \cap names # {}
    /\ \A intents \in s["intent"] : e.intent \in intents
    /\ e.kind \notin s["not-kind"] /\ e.intent \notin s["not-intent"]
    /\ e.layer # s["not-layer"]
    /\ Set(s, "since") => e.day >= s["since"]
    /\ Set(s, "topic") => Bears(e, s["topic"])
    /\ Set(s, "not-topic") => ~ Bears(e, s["not-topic"])
    /\ s["untagged"] => e.topics = {}
    /\ s["id"] # {} => e.short \in s["id"]
Ambiguous(g, s) == \E short \in s["id"] : Cardinality({i \in DOMAIN g : g[i].short = short}) > 1
Selected(g, s) == SelectSeq([i \in DOMAIN g |-> i], LAMBDA i : Passes(s, g[i]))

\* Filters that keep nothing leave no list at all; the enrolment filter, when it is
\* the last to apply, leaves an empty one.
LeavesNoList(g, s) ==
    LET before == {"active", "layer", "type", "indexed"}
        applied == {b \in DOMAIN s \ before : b \in Flags \cup Disjunctions \cup Unions
                                              \cup {"since", "topic", "not-layer", "not-topic"}
                                              /\ b # "brief" /\ s[b] # NewSectionSpec[b]}
    IN Selected(g, s) = <<>> /\ (s["indexed"] => applied # {})

\* Rankings keep the order of entries that tie.
Score(g, i, algorithm) ==
    LET e == g[i] IN
    CASE algorithm = "date" -> e.day
      [] algorithm = "in-degree" -> e.score.degree
      [] algorithm = "heat" -> e.score.heat
      [] algorithm = "add" -> e.score.heat + e.score.degree
      [] algorithm = "mult" -> e.score.heat * e.score.degree
ApplyRanking(g, list, algorithm) ==
    At(list, SetToSortSeq(DOMAIN list, LAMBDA m, n :
        \/ Score(g, list[m], algorithm) > Score(g, list[n], algorithm)
        \/ Score(g, list[m], algorithm) = Score(g, list[n], algorithm) /\ m < n))
\* Mutant: the page is cut out of the entries before they are ranked.
PagedFirst(g, s) ==
    LET skipped == IF Set(s, "skip") THEN After(Selected(g, s), s["skip"]) ELSE Selected(g, s)
        cut == IF Set(s, "n") THEN FirstOf(skipped, s["n"]) ELSE skipped
    IN IF Set(s, "rank") THEN ApplyRanking(g, cut, s["rank"]) ELSE cut
Page(g, s) ==
    LET ranked == IF Set(s, "rank") THEN ApplyRanking(g, Selected(g, s), s["rank"]) ELSE Selected(g, s)
        skipped == IF Set(s, "skip") THEN After(ranked, s["skip"]) ELSE ranked
    IN IF Set(s, "n") THEN FirstOf(skipped, s["n"]) ELSE skipped

-----------------------------------------------------------------------------
\* The shapes: what is shown is [shape, rows, dropped, pull].
Shown(shape, rows, dropped) == [shape |-> shape, rows |-> rows, dropped |-> dropped, pull |-> dropped > 0]
Capped(shape, rows, most) ==
    IF most > 0 THEN Shown(shape, FirstOf(rows, most), Max({Len(rows) - most, 0})) ELSE Shown(shape, rows, 0)

Participants(g, s) ==
    LET list == Page(g, s)
        heads == {i \in DOMAIN g : g[i].head /\ (LeavesNoList(g, s) \/ i \in ToSet(list))}
        Roles(i) == {r \in DOMAIN g : g[r].kind = "role" /\ g[r].active /\ g[r].actor = i}
    IN SetToSortSeq({[actor |-> i, roles |-> Roles(i)] : i \in heads}, LAMBDA a, b : a.actor < b.actor)

\* Whole bodies while they fit.
BodiesThatFit(g, list, bytes) ==
    Max({k \in 0 .. Len(list) : MapThenSumSet(LAMBDA n : g[list[n]].bytes, 1 .. k) <= bytes})

KeysOf(e, field) == IF field = "participant" THEN e.people ELSE {e[field]}
GroupBy(g, list, field) ==
    [key \in UNION {KeysOf(g[i], field) : i \in ToSet(list)} |->
        SelectSeq(list, LAMBDA i : key \in KeysOf(g[i], field))]

\* The targets of a focus still in scope: an entry no other closes or supersedes.
FocusTargets(g, i, threshold) ==
    LET row(inv) ==
            LET actors == IF inv.set THEN inv.actors ELSE g[i].actors
            IN [target |-> inv.target,
                state |-> CASE actors = {} -> "pull-available"
                            [] actors # {} /\ Score(g, inv.target, "heat") < threshold -> "stalled"
                            [] OTHER -> "driving"]
        live == SelectSeq(g[i].involves, LAMBDA inv :
                    inv.target \in DOMAIN g /\ g[inv.target].status \notin {"closed-by", "superseded-by"})
    IN [k \in DOMAIN live |-> row(live[k])]

IsInactiveStatus(status) == status \in {"closed-by", "superseded-by", "cascade-closed", "cascade-orphan"}
ExpandRefs(g, i, inactive, most) ==
    LET rows == SelectSeq(g[i].refs, LAMBDA r : inactive => r \in DOMAIN g /\ IsInactiveStatus(g[r].status))
    IN IF most > 0 THEN FirstOf(rows, most) ELSE rows

\* Rows by topic, most entries first, then hottest, then by label.
TopicCounts(g, list) ==
    LET With(t) == {i \in ToSet(list) : t \in g[i].topics}
        Warmth(t) == MapThenSumSet(LAMBDA i : Score(g, i, "heat"), With(t))
    IN SetToSortSeq({[label |-> t, count |-> Cardinality(With(t)), heat |-> Warmth(t)] :
                        t \in UNION {g[i].topics : i \in ToSet(list)}},
                    LAMBDA a, b : \/ a.count > b.count
                                  \/ a.count = b.count /\ a.heat > b.heat)

Refusal == [shape |-> "refused", rows |-> <<>>, dropped |-> 0, pull |-> FALSE]
Threshold(s) == IF Set(s, "stalled") THEN s["stalled"] ELSE 1
Entries(g, s, budget) ==
    LET list == Page(g, s)
        kept == IF budget.bytes = 0 THEN Len(list) ELSE BodiesThatFit(g, list, budget.bytes)
        Rows(i) == [entry |-> i,
                    refs |-> IF Set(s, "expand")
                             THEN ExpandRefs(g, i, s["expand"] = "refs(inactive)", budget.refs) ELSE <<>>]
        Focus(i) == [focus |-> i, targets |-> FocusTargets(g, i, Threshold(s))]
    IN CASE s["as"] = "counts" -> Shown("counts", TopicCounts(g, list), 0)
         [] s["as"] = "participants-block" ->
                Capped("participants-block", Participants(g, s), budget.items)
         [] s["as"] = "bodies" -> Shown("bodies", FirstOf(list, kept), Len(list) - kept)
         [] OTHER ->
                IF Set(s, "group") THEN Shown("grouped", GroupBy(g, list, s["group"]), 0)
                ELSE IF s["expand"] = "involvement"
                THEN Capped("focus-block", [k \in DOMAIN list |-> Focus(list[k])], budget.items)
                ELSE Shown("list", [k \in DOMAIN list |-> Rows(list[k])], 0)
ExecuteSection(g, markers, section, budget) ==
    LET s == ParseSection(section) IN
    IF section = <<>> \/ (\E k \in DOMAIN section : ~ Understood(section[k])) THEN Refusal
    ELSE IF s["as"] = Nothing THEN Refusal
    ELSE IF s["source"] = "wip"
    THEN IF RefusedOfMarkers(s) # {} \/ s["as"] # "wip-list" THEN Refusal
         ELSE Capped("wip-list", markers, budget.items)
    ELSE IF Excluded(s) \/ Misshapen(s) \/ Ambiguous(g, s) THEN Refusal
    ELSE Entries(g, s, budget)

\* Units matched, by which a caller tells an empty view.
MatchedCount(g, section, shown) ==
    CASE shown.shape = "grouped" -> MapThenSumSet(LAMBDA key : Len(shown.rows[key]), DOMAIN shown.rows)
      [] shown.shape = "counts" -> Len(Selected(g, ParseSection(section)))
      [] OTHER -> Len(shown.rows)

-----------------------------------------------------------------------------
NoBudget == [items |-> 0, bytes |-> 0, refs |-> 0]
Whole(g, markers, section) == ExecuteSection(g, markers, section, NoBudget)
Paged(section) == \E f \in ToSet(section) : f.fn \in {"n", "skip"}
Filters == {"active", "indexed", "untagged", "kind", "intent", "participant", "not-kind", "not-intent"}
Picked(shown) ==
    CASE shown.shape = "list" -> {row.entry : row \in ToSet(shown.rows)}
      [] shown.shape = "bodies" -> ToSet(shown.rows)
      [] shown.shape = "grouped" -> UNION {ToSet(shown.rows[key]) : key \in DOMAIN shown.rows}
      [] shown.shape = "focus-block" -> {row.focus : row \in ToSet(shown.rows)}
      [] OTHER -> {}

\* A view that is shown has the shape its render reads (validateRenderShape).
ShapeIsAsked(g, markers, section) ==
    Whole(g, markers, section).shape \in {"refused", ParseSection(section)["as"]}

\* Calls of different functions may change places (executeSection).
OrderIsFree(g, markers, section) ==
    \A k \in 1 .. Len(section) - 1 :
        section[k].fn # section[k + 1].fn =>
            Whole(g, markers, [section EXCEPT ![k] = section[k + 1], ![k + 1] = section[k]])
            = Whole(g, markers, section)

\* What a budget cuts is counted, comes last, and is there when the section is asked
\* for again without one (ViewBudget).
CutsAreCounted(g, markers, section, budget) ==
    LET some == ExecuteSection(g, markers, section, budget)
        all == Whole(g, markers, section)
    IN /\ some.shape = all.shape /\ some.pull = (some.dropped > 0)
       /\ some.shape \notin {"list", "grouped"} =>
            /\ IsPrefix(some.rows, all.rows)
            /\ Len(all.rows) = Len(some.rows) + some.dropped
       /\ some.shape = "list" => \A k \in DOMAIN some.rows : IsPrefix(some.rows[k].refs, all.rows[k].refs)

\* Pages put one after the other are the list (skip, n).
PagesTile(g, section, size) ==
    LET all == Whole(g, <<>>, section)
        At2(from) == Whole(g, <<>>, section \o <<F("skip", from), F("n", size)>>)
    IN all.shape = "list" /\ ~ Paged(section) => all.rows = FlattenSeq([k \in 1 .. Len(g) |-> At2((k - 1) * size).rows])

\* One more filter takes entries away and adds none, whatever else is asked.
FiltersNarrow(g, section) ==
    \A k \in DOMAIN section : section[k].fn \in Filters =>
        LET without == Whole(g, <<>>, SelectSeq(section, LAMBDA f : f # section[k]))
            with == Whole(g, <<>>, section)
        IN without.shape = with.shape /\ ~ Paged(section)
            => Picked(with) \subseteq Picked(without)

\* A row of counts leads to as many entries: those its topic selects (as-counts).
CountsLeadThere(g, section) ==
    LET counts == Whole(g, <<>>, section)
        listed(t) == Whole(g, <<>>, section \o <<F("as", "list"), F("topic", t)>>)
    IN counts.shape = "counts" /\ ~ Set(ParseSection(section), "topic") =>
        \A k \in DOMAIN counts.rows :
            LET t == counts.rows[k].label IN
            /\ counts.rows[k].count = Cardinality({i \in Picked(listed(t)) : t \in g[i].topics})
            /\ \A n \in 1 .. k : counts.rows[n].count >= counts.rows[k].count

\* A focus shows no target that is over, and none it does not name (expandInvolvement).
FocusIsOnWhatIsLeft(g, section) ==
    LET shown == Whole(g, <<>>, section) IN
    shown.shape = "focus-block" => \A row \in ToSet(shown.rows) : \A target \in ToSet(row.targets) :
        /\ g[target.target].status \notin {"closed-by", "superseded-by"}
        /\ \E inv \in ToSet(g[row.focus].involves) :
            inv.target = target.target /\ (target.state = "pull-available" => inv.set \/ g[row.focus].actors = {})

\* A macro is a section like any other: it is accepted as it stands, and goes by the
\* name the user gives it (ExpandMacros, resolveSectionHeader).
MacrosAreSections(g, markers) ==
    \A macro \in DOMAIN Macros :
        LET section == ExpandSection(<<F(macro, {})>>)
            named == ExpandSection(<<F(macro, {}), F("name", "Mine")>>)
        IN /\ Whole(g, markers, section).shape # "refused"
           /\ Whole(g, markers, named) = Whole(g, markers, section)
           /\ SectionHeader(ParseSection(named)) = <<"Mine">>
           /\ SectionHeader(ParseSection(section)) # <<>>

ViewAgrees(g, markers, section, budget) ==
    /\ ShapeIsAsked(g, markers, section)
    /\ OrderIsFree(g, markers, section)
    /\ CutsAreCounted(g, markers, section, budget)
    /\ PagesTile(g, section, 2)
    /\ FiltersNarrow(g, section)
    /\ CountsLeadThere(g, section)
    /\ FocusIsOnWhatIsLeft(g, section)

\* Found not to hold.
\* A block of participants none of whom passes the filters is empty
\* (participantsBlockFromEntries).
NobodyPassesNobodyShows(g, section) ==
    LET shown == Whole(g, <<>>, section) IN
    shown.shape = "participants-block" =>
        \A row \in ToSet(shown.rows) : Passes(ParseSection(section), g[row.actor])
\* Filters of entries are refused for markers, never ignored (rejectGraphPrimitivesForWip).
MarkersRefuseFilters(g, markers, section) ==
    Whole(g, markers, section).shape = "wip-list" =>
        \A f \in ToSet(section) : f.fn \in {"source", "as", "name", "name-prefix"}
\* A view that matched entries says so (ViewResult.MatchedCount).
MatchedIsTold(g, section, budget) ==
    LET shown == ExecuteSection(g, <<>>, section, budget) IN
    shown.shape \in {"list", "bodies", "grouped", "counts"} /\ Selected(g, ParseSection(section)) # <<>>
        /\ ~ Paged(section)
    => MatchedCount(g, section, shown) > 0
=============================================================================
