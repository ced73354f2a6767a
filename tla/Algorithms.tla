----------------------------- MODULE Algorithms -----------------------------
(***************************************************************************)
(* The algorithms of the program that keep no state, each evaluated on     *)
(* every one of a set of small inputs and compared with what it promises.  *)
(***************************************************************************)
EXTENDS Naturals, Sequences, FiniteSets, TLC

CONSTANTS A, B, Local, Shipped, Other, Third

VARIABLE input

\* Small webs: every way four entries can point at one another, in either order,
\* the last of them here, missing, in a repository that is not connected, or in one
\* that is.
Walks == INSTANCE GraphWalks
Nodes == 1 .. 4
Few(s) == {x \in SUBSET s : Cardinality(x) <= 2}
Web(edges, Order(_), last) ==
    [up |-> [i \in Nodes |-> IF i = 4 /\ last \in {"absent", "remote"} THEN <<>> ELSE Order(edges[i])],
     owner |-> [i \in Nodes |-> IF i < 4 THEN Local ELSE Other],
     absent |-> IF last = "absent" THEN {4} ELSE {}, remote |-> IF last = "remote" THEN {4} ELSE {}]
Limits == {[depth |-> 1, nodes |-> 0, children |-> 0], [depth |-> 3, nodes |-> 2, children |-> 0],
           [depth |-> 2, nodes |-> 0, children |-> 1], [depth |-> 3, nodes |-> 0, children |-> 0]}
TreeInputs ==
    \E edges \in [Nodes -> Few(Nodes)], last \in {"here", "absent", "remote"} :
        /\ \A i \in Nodes : i \notin edges[i]
        /\ \E limits \in Limits, primaries \in {<<1>>, <<1, 2>>} :
            input' = [kind |-> "tree", web |-> Web(edges, Walks!InOrder, last), limits |-> limits,
                     primaries |-> primaries]

\* What an entry here cites of two other repositories, and the repositories a
\* chain of declarations leads to.
CitationInputs ==
    \E edges \in [Nodes -> Few(Nodes)], hops \in 0 .. 2, fourth \in {Other, Shipped} :
        /\ \A i \in Nodes : i \notin edges[i]
        /\ input' = [kind |-> "cited", hops |-> hops, scope |-> {Other, Third},
                    web |-> [up |-> [i \in Nodes |-> Walks!InOrder(edges[i])],
                             owner |-> <<Local, Other, Third, fourth>>,
                             absent |-> {}, remote |-> {}]]
ClosureInputs ==
    \E declared \in [Nodes -> Few(Nodes)] :
        input' = [kind |-> "closure", declared |-> [i \in Nodes |-> Walks!InOrder(declared[i])]]

-----------------------------------------------------------------------------
\* Three entries, the first of each status, the second one closed or shipped with
\* the binary; five chunks of which some are stored.  The pool of chunks read
\* holds three.
Ranking == INSTANCE SearchRanking WITH NoVersion <- 0, Oversample <- 1, Pool <- 3,
    Window <- 3, Look <- 2
Chunk(e, body, near, summary, depth, version) ==
    [entry |-> e, body |-> body, near |-> near, summary |-> summary, depth |-> depth, version |-> version]
Chunks ==
    {Chunk(1, 1, 50, TRUE, 1, 2), Chunk(1, 2, 54, FALSE, 2, 1), Chunk(2, 3, 50, FALSE, 1, 0),
     Chunk(2, 4, 46, FALSE, 4, 1), Chunk(3, 5, 50, TRUE, 1, 1)}
Searches ==
    {[terms |-> t, phrase |-> p, limit |-> n, citations |-> n, superseded |-> s] :
        t \in {{}, {{A}}, {{A, B}}, {{A}, {B}}}, p \in {{}, {A, B}}, n \in 1 .. 2, s \in BOOLEAN}
SearchInputs ==
    \E words \in [1 .. 3 -> {<<A, B>>, <<B, B, B>>, <<>>}],
       chunks \in {{}} \cup {some \in SUBSET Chunks : Cardinality(some) >= 4},
       first \in {"open", "superseded-by", "cascade-orphan"}, shipped \in {{}, {2}},
       q \in {q \in Searches : q.terms # {} \/ q.phrase # {}} :
        /\ q.phrase = {} <=> chunks = {}
        /\ q.terms \in {{}, {{A, B}}} => words = <<<<A, B>>, <<A, B>>, <<B, B, B>>>>
        /\ shipped = {2} => words[3] = <<>> \/ q.terms = {}
        /\ q.superseded => first = "superseded-by"
        /\ input' = [kind |-> "search", query |-> q,
                    corpus |-> [words |-> words, status |-> <<first, "closed-by", "open">>,
                                passing |-> 1 .. 3, embedded |-> shipped,
                                current |-> <<2, 1, 1>>, chunks |-> chunks]]

SnippetInputs ==
    \E text \in [1 .. 7 -> {"blank", "first", "next"}], pos \in 0 .. 6 :
        /\ \A i \in 1 .. 7 : text[i] = "next" => i > 1 /\ text[i - 1] # "blank"
        /\ input' = [kind |-> "snippet", text |-> text, pos |-> pos]

-----------------------------------------------------------------------------
\* An actor, a role of his, a directive, an insight and a focus on these two, two
\* entries of which share a short name; every section of up to two calls before
\* its render.
Sections == INSTANCE ViewPipeline WITH Nothing <- Other, Malformed <- Third
Viewed(kind, type, topics, people, day, bytes, short) ==
    [kind |-> kind, type |-> type, layer |-> IF kind \in {"actor", "role"} THEN "process" ELSE "tactical",
     intent |-> IF kind = "directive" THEN "guiding" ELSE "none", topics |-> topics, people |-> people,
     day |-> day, bytes |-> bytes, short |-> short, active |-> TRUE, status |-> "open", indexed |-> FALSE,
     score |-> [heat |-> day % 2, degree |-> 4 - day], head |-> kind = "actor",
     actor |-> IF kind = "role" THEN 1 ELSE 0, refs |-> <<>>, actors |-> {}, involves |-> <<>>]
ViewedGraph(last) ==
    <<Viewed("actor", "signal", {}, {"ann"}, 1, 2, "x"),
      Viewed("role", "decision", {}, {"ann", "bob"}, 2, 1, "y"),
      [Viewed("directive", "decision", {<<"ux">>}, {"bob"}, 3, 4, "z") EXCEPT
        !.status = last, !.active = last = "open", !.refs = <<1, 4>>],
      [Viewed("insight", "signal", {<<"ux", "cli">>, <<"db">>}, {}, 2, 1, "x") EXCEPT
        !.indexed = TRUE, !.refs = <<3, 1, 3>>],
      [Viewed("focus", "decision", {<<"db">>}, {"bob"}, 4, 3, "w") EXCEPT
        !.actors = {"ann"},
        !.involves = <<[target |-> 3, set |-> FALSE, actors |-> {}], [target |-> 4, set |-> TRUE, actors |-> {}],
                       [target |-> 2, set |-> TRUE, actors |-> {"bob"}]>>]>>
QueryCalls ==
    <<Sections!F("active", {}), Sections!F("indexed", {}), Sections!F("untagged", {}), Sections!F("brief", {}),
     Sections!F("kind", {"actor", "insight"}), Sections!F("kind", {"focus"}), Sections!F("intent", {"guiding"}),
     Sections!F("participant", {"bob"}), Sections!F("layer", "tactical"), Sections!F("type", "signal"),
     Sections!F("not-kind", {"insight"}), Sections!F("not-intent", {"guiding"}), Sections!F("not-layer", "process"),
     Sections!F("not-topic", <<"db">>), Sections!F("topic", <<"ux">>), Sections!F("since", 2), Sections!F("id", {"z"}),
     Sections!F("id", {"x", "y"}), Sections!F("rank", "heat"), Sections!F("rank", "mult"), Sections!F("rank", "add"),
     Sections!F("rank", "in-degree"), Sections!F("rank", "date"), Sections!F("skip", 1), Sections!F("n", 2),
     Sections!F("group", "participant"), Sections!F("group", "kind"), Sections!F("expand", "refs"),
     Sections!F("expand", "refs(inactive)"), Sections!F("expand", "involvement"), Sections!F("stalled", 2),
     Sections!F("source", "wip"), Sections!F("since", Third)>>
Renders == {"list", "grouped", "counts", "bodies", "focus-block", "participants-block", "wip-list"}
Opening(render) ==
    IF render = "focus-block" THEN <<Sections!F("kind", {"focus"}), Sections!F("expand", "involvement")>>
    ELSE IF render = "wip-list" THEN <<Sections!F("source", "wip")>>
    ELSE IF render = "grouped" THEN <<Sections!F("group", "layer")>> ELSE <<>>
ViewInputs ==
    \E last \in {"open", "superseded-by"}, render \in Renders, first \in DOMAIN QueryCalls, second \in DOMAIN QueryCalls :
        /\ first <= second
        /\ render # "list" => last = "open"
        /\ input' = [kind |-> "view", graph |-> ViewedGraph(last),
                     budget |-> [items |-> 1, bytes |-> 3, refs |-> 2],
                     section |-> Opening(render) \o <<QueryCalls[first], QueryCalls[second], Sections!F("as", render)>>]

-----------------------------------------------------------------------------
\* What is evaluated next, and then one of its inputs.
Ahead(kind) == [kind |-> "none", next |-> kind]
Inputs == input \in {Ahead(kind) : kind \in {"walk", "search", "view"}}
Evaluate ==
    \/ input = Ahead("walk") /\ TreeInputs
    \/ input = Ahead("walk") /\ CitationInputs
    \/ input = Ahead("walk") /\ ClosureInputs
    \/ input = Ahead("search") /\ SearchInputs
    \/ input = Ahead("search") /\ SnippetInputs
    \/ input = Ahead("view") /\ ViewInputs
    \/ input.kind # "none" /\ input' = Ahead("nothing")
Agrees ==
    CASE input.kind = "none" -> TRUE
      [] input.kind = "tree" -> Walks!TreesAccountForAll(input.web, input.limits, input.primaries)
                                /\ Walks!OrderRespectsEdges(input.web)
      [] input.kind = "cited" -> Walks!CitationsAreNearest(input.web, input.scope, input.hops)
      [] input.kind = "closure" -> Walks!ClosureIsComplete(1, input.declared)
      [] input.kind = "search" -> Ranking!SearchAgrees(input.corpus, input.query)
      [] input.kind = "view" ->
            /\ Sections!ViewAgrees(input.graph, <<A, B>>, input.section, input.budget)
            /\ Sections!MacrosAreSections(input.graph, <<A, B>>)
      [] input.kind = "snippet" -> Ranking!SnippetHolds(input.text, input.pos)
=============================================================================
