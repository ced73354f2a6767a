----------------------------- MODULE GraphWalks -----------------------------
(***************************************************************************)
(* Traversals of the graph, with the order they visit entries in: the      *)
(* topological order, the bounded trees of show, what an export cites from *)
(* other repositories, and the closure of declared dependencies.           *)
(*                                                                         *)
(* A web is [up, owner, absent, remote]: `up` maps an entry to the IDs it  *)
(* points at, in order and without repetition; `owner` to its repository;  *)
(* `absent` are IDs no entry of the graph has, `remote` IDs in a           *)
(* repository that is not connected.  Entries are numbered by time.        *)
(***************************************************************************)
EXTENDS Integers, Sequences, FiniteSets, FiniteSetsExt, SequencesExt, TLC

CONSTANTS Local, Shipped            \* owners: this repository, the binary

Entries(web) == DOMAIN web.up \ (web.absent \cup web.remote)
InOrder(ids) == SetToSortSeq(ids, <)

\* Depth is the longest way down; an entry being computed counts as depth 0.
RECURSIVE ComputeDepth(_, _, _)
ComputeDepth(web, depth, id) ==
    IF id \in DOMAIN depth THEN depth
    ELSE LET Deeper(sofar, to) ==
                 LET d == ComputeDepth(web, sofar.depth, to)
                 IN [depth |-> d, most |-> Max({sofar.most, d[to] + 1})]
             below == FoldLeft(Deeper, [depth |-> (id :> 0) @@ depth, most |-> 0], web.up[id])
         IN [below.depth EXCEPT ![id] = below.most]
Depths(web) ==
    FoldLeft(LAMBDA depth, id : ComputeDepth(web, depth, id), <<>>, InOrder(Entries(web)))
TopologicalOrder(web) ==
    LET d == Depths(web)
    IN SetToSortSeq(Entries(web), LAMBDA i, j : d[i] < d[j] \/ (d[i] = d[j] /\ i < j))

-----------------------------------------------------------------------------
\* Reverse edges are those of the owning graph.
DownstreamChildren(web, id) ==
    InOrder({i \in Entries(web) : id \in ToSet(web.up[i]) /\ web.owner[i] = web.owner[id]})
UpstreamChildren(web, id) == web.up[id]

\* A walk is [visited, nodes, items, cut] under a plan [web, Next, depth, nodes,
\* children, rendered, primaries]; 0 is no limit on nodes or children.
Exhausted(plan, walk) == plan.nodes > 0 /\ walk.nodes >= plan.nodes
ChildCap(plan, n) == IF plan.children > 0 /\ n > plan.children THEN plan.children ELSE n
UnvisitedRefs(plan, walk, ids) == ToSet(ids) \ (walk.visited \cup plan.rendered)
\* What is hidden is named at the item it hangs from, or for the direction (0).
Truncate(plan, walk, at, ids) ==
    IF at = 0 THEN [walk EXCEPT !.cut = @ \cup UnvisitedRefs(plan, walk, ids)]
    ELSE [walk EXCEPT !.items[at].cut = @ \cup UnvisitedRefs(plan, walk, ids)]
Show(walk, id, depth, mark) ==
    [walk EXCEPT !.items = Append(@, [id |-> id, depth |-> depth, mark |-> mark, cut |-> {}])]

RECURSIVE Build(_, _, _, _), ExpandEach(_, _, _, _, _), ExpandSilently(_, _, _, _, _)
Build(plan, walk, id, depth) ==
    LET children == plan.next[id]
        limit == ChildCap(plan, Len(children))
        at == Len(walk.items) + 1
        opened == [Show(walk, id, depth, "full") EXCEPT !.visited = @ \cup {id}, !.nodes = @ + 1]
    IN CASE id \in plan.web.absent -> walk
         [] id \in plan.web.remote ->
                IF id \in plan.rendered \cup walk.visited THEN Show(walk, id, depth, "above")
                ELSE [Show(walk, id, depth, "unresolved") EXCEPT !.visited = @ \cup {id}]
         [] OTHER ->
                IF id \in plan.rendered THEN Show(walk, id, depth, "above")
                ELSE IF id \in plan.primaries THEN Show(walk, id, depth, "below")
                ELSE IF id \in walk.visited THEN Show(walk, id, depth, "above")
                ELSE IF depth >= plan.depth THEN Truncate(plan, opened, at, children)
                ELSE ExpandEach(plan, Truncate(plan, opened, at, SubSeq(children, limit + 1, Len(children))),
                                SubSeq(children, 1, limit), depth + 1, at)
\* Mutant: what the budget cuts off is not named.
ExpandSilently(plan, walk, ids, depth, at) ==
    IF ids = <<>> \/ Exhausted(plan, walk) THEN walk
    ELSE ExpandSilently(plan, Build(plan, walk, Head(ids), depth), Tail(ids), depth, at)
ExpandEach(plan, walk, ids, depth, at) ==
    IF ids = <<>> THEN walk
    ELSE IF Exhausted(plan, walk) THEN Truncate(plan, walk, at, ids)
    ELSE ExpandEach(plan, Build(plan, walk, Head(ids), depth), Tail(ids), depth, at)

ExpandDirection(plan, primary) ==
    LET children == plan.next[primary]
        limit == ChildCap(plan, Len(children))
        begun == [visited |-> {primary}, nodes |-> 0, items |-> <<>>, cut |-> {}]
        shown == ExpandEach(plan, begun, SubSeq(children, 1, limit), 1, 0)
    IN IF plan.depth = 0 THEN begun
       ELSE Truncate(plan, shown, 0, SubSeq(children, limit + 1, Len(children)))

\* One direction of a tree per limits [depth, nodes, children]; groups share what
\* is rendered, the two directions of a group do not see each other.
Plan(web, next, limits, rendered, primaries) ==
    [web |-> web, next |-> next,
     depth |-> limits.depth, nodes |-> limits.nodes, children |-> limits.children,
     rendered |-> rendered, primaries |-> primaries]
MarkRendered(walk) == {i.id : i \in {i \in ToSet(walk.items) : i.mark \notin {"above", "below"}}}
BuildShowTree(web, limits, rendered, primaries, primary) ==
    [primary |-> primary, before |-> rendered,
     up |-> ExpandDirection(Plan(web, [id \in DOMAIN web.up |-> UpstreamChildren(web, id)],
                                 limits, rendered, primaries), primary),
     down |-> ExpandDirection(Plan(web, [id \in DOMAIN web.up |-> DownstreamChildren(web, id)],
                                   limits, rendered, primaries), primary)]
ShowGroups(web, limits, primaries) ==
    LET Group(done, primary) ==
            LET tree == BuildShowTree(web, limits, done.rendered, ToSet(primaries), primary)
            IN [rendered |-> done.rendered \cup MarkRendered(tree.up) \cup MarkRendered(tree.down)
                             \cup {primary},
                groups |-> Append(done.groups, tree)]
    IN FoldLeft(Group, [rendered |-> {}, groups |-> <<>>], primaries).groups

-----------------------------------------------------------------------------
\* Breadth first, so an entry is first met by a shortest way.
RECURSIVE Follow(_, _, _, _, _)
Follow(web, scope, hops, queue, selected) ==
    IF queue = <<>> THEN selected
    ELSE LET step == Head(queue)
             found == IF step.depth >= hops THEN <<>>
                      ELSE SelectSeq(web.up[step.id], LAMBDA i :
                               /\ i \in Entries(web) \ selected
                               /\ web.owner[i] \in scope \ {Shipped})
             more == [k \in DOMAIN found |-> [id |-> found[k], depth |-> step.depth + 1]]
         IN Follow(web, scope, hops, Tail(queue) \o more, selected \cup ToSet(found))
\* What the local entries point at in other repositories, and what that points at.
CitedAcross(web, scope, hops) ==
    LET cited == {j \in Entries(web) :
                    /\ web.owner[j] \in scope \ {Shipped}
                    /\ \E i \in Entries(web) : web.owner[i] = Local /\ j \in ToSet(web.up[i])}
        first == InOrder(cited)
    IN Follow(web, scope, hops, [k \in DOMAIN first |-> [id |-> first[k], depth |-> 0]], cited)

RECURSIVE Reached(_, _, _, _)
Reached(declared, queue, seen, closure) ==
    IF queue = <<>> THEN closure
    ELSE IF Head(queue) \in seen THEN Reached(declared, Tail(queue), seen, closure)
    ELSE Reached(declared, Tail(queue) \o declared[Head(queue)], seen \cup {Head(queue)},
                 Append(closure, Head(queue)))
DependencyClosure(root, declared) == Reached(declared, declared[root], {root}, <<>>)

-----------------------------------------------------------------------------
\* Entries reachable by at most n steps through the nodes allowed.
Within(next, allowed, from, n) ==
    LET step[k \in Nat] ==
            IF k = 0 THEN from
            ELSE step[k - 1] \cup (allowed \cap UNION {ToSet(next[i]) : i \in step[k - 1]})
    IN step[n]
Reaches(web, i, j) == j \in Within(web.up, DOMAIN web.up, ToSet(web.up[i]), Cardinality(DOMAIN web.up))

\* An entry comes after everything it points at, cycles aside.
OrderRespectsEdges(web) ==
    LET order == TopologicalOrder(web) IN
    /\ ToSet(order) = Entries(web)
    /\ \A a, b \in DOMAIN order :
        order[b] \in ToSet(web.up[order[a]]) /\ ~ Reaches(web, order[b], order[a]) => b < a

\* Every entry a shown one points at is shown, marked as shown elsewhere, or named
\* as hidden; nothing is shown in full twice in a direction, or in two groups; the
\* budget holds; and an entry is marked as coming later only where it does, the
\* group's own primary aside.
TreesAccountForAll(web, limits, primaries) ==
    LET groups == ShowGroups(web, limits, primaries)
        Full(walk) == {k \in DOMAIN walk.items : walk.items[k].mark = "full"}
        Shown(walk) == {walk.items[k].id : k \in Full(walk)}
        Named(walk) == {i.id : i \in ToSet(walk.items)} \cup walk.cut
                       \cup UNION {i.cut : i \in ToSet(walk.items)}
        Accounts(walk, next, tree) ==
            limits.depth > 0 =>
            \A i \in Shown(walk) \cup {tree.primary} :
                ToSet(next[i]) \subseteq Named(walk) \cup tree.before \cup web.absent
                                         \cup {tree.primary}
        Sound(walk, next, tree, later) ==
            /\ Accounts(walk, next, tree)
            /\ Cardinality(Shown(walk)) = Cardinality(Full(walk))
            /\ Shown(walk) \cap tree.before = {}
            /\ limits.nodes > 0 => Cardinality(Full(walk)) <= limits.nodes
            /\ \A k \in DOMAIN walk.items :
                /\ walk.items[k].depth <= limits.depth
                /\ walk.items[k].mark = "below" => walk.items[k].id \in later \cup {tree.primary}
    IN \A n \in DOMAIN groups :
        LET later == {groups[m].primary : m \in n + 1 .. Len(groups)} IN
        /\ Sound(groups[n].up, web.up, groups[n], later)
        /\ Sound(groups[n].down, [i \in DOMAIN web.up |-> DownstreamChildren(web, i)], groups[n], later)

\* Found not to hold: an entry marked as coming later comes later (ShowTreeItem).
BelowIsLater(web, limits, primaries) ==
    LET groups == ShowGroups(web, limits, primaries) IN
    \A n \in DOMAIN groups : \A i \in ToSet(groups[n].up.items) \cup ToSet(groups[n].down.items) :
        i.mark = "below" => \E m \in n + 1 .. Len(groups) : groups[m].primary = i.id

\* The entries cited are those some chain of at most the given steps leads to.
CitationsAreNearest(web, scope, hops) ==
    LET allowed == {i \in Entries(web) : web.owner[i] \in scope \ {Shipped}}
        first == UNION {ToSet(web.up[i]) : i \in {i \in Entries(web) : web.owner[i] = Local}}
    IN CitedAcross(web, scope, hops) = Within(web.up, allowed, first \cap allowed, hops)

\* A closure lists every repository that can be reached, once, the root aside.
ClosureIsComplete(root, declared) ==
    LET closure == DependencyClosure(root, declared) IN
    /\ IsInjective(closure)
    /\ ToSet(closure) =
        Within(declared, DOMAIN declared, ToSet(declared[root]), Cardinality(DOMAIN declared)) \ {root}
=============================================================================
