------------------------------ MODULE Checkouts ------------------------------
(***************************************************************************)
(* One graph in several checkouts.  A capture is checked against what its  *)
(* checkout holds; captures that do not know of each other meet when a     *)
(* pull brings in the other checkout's entries; an upgrade of the binary   *)
(* brings in entries it ships.  Entries are never changed or removed.      *)
(***************************************************************************)
EXTENDS EntryRules

CONSTANTS
    Checkout,
    Offers(_),                      \* the drafts captured from a graph
    Shipped,                        \* the graph of each version of the binary
    MaxCaptures                     \* bound on the captures of a behaviour

VARIABLES
    entry,                          \* every entry captured, by ID
    known,                          \* the captured entries each checkout holds
    version,                        \* the binary each checkout runs
    base                            \* history: the graph each capture was checked against

vars == <<entry, known, version, base>>

\* An ID is the time of its capture.
Time == 10 * Cardinality(DOMAIN entry)
GraphOf(c) == MergeEmbedded([id \in known[c] |-> entry[id]], Shipped[version[c]])

Init ==
    /\ entry = <<>>
    /\ known = [c \in Checkout |-> {}]
    /\ version \in [Checkout -> {1}]
    /\ base = <<>>

Admits(g, d) == ValidateForWrite(g, d) = {} /\ MechanicalPreflight(g, <<>>, {}, d.entry) = {}

Capture(c) ==
    /\ Cardinality(DOMAIN entry) < MaxCaptures
    /\ \E d \in Offers(GraphOf(c)) :
        /\ Admits(GraphOf(c), d)
        /\ entry' = (Time + 10 :> d.entry) @@ entry
        /\ base' = (Time + 10 :> GraphOf(c)) @@ base
        /\ known' = [known EXCEPT ![c] = @ \cup {Time + 10}]
    /\ UNCHANGED version

Pull(c) ==
    /\ \E other \in Checkout : ~ known[other] \subseteq known[c]
    /\ known' = [known EXCEPT ![c] = UNION {known[o] : o \in Checkout}]
    /\ UNCHANGED <<entry, version, base>>

\* A version is out once the time of what it ships has passed.
Upgrade(c) ==
    /\ version[c] < Len(Shipped)
    /\ \A id \in DOMAIN Shipped[version[c] + 1] : id <= Time
    /\ version' = [version EXCEPT ![c] = @ + 1]
    /\ UNCHANGED <<entry, known, base>>

Next == \E c \in Checkout : Capture(c) \/ Pull(c) \/ Upgrade(c)
Spec == Init /\ [][Next]_vars
-----------------------------------------------------------------------------
\* The capture of i was checked against a graph that held j.
Saw(i, j) == i \in DOMAIN base /\ j \in DOMAIN base[i]
Concurrent(i, j) == ~ Saw(i, j) /\ ~ Saw(j, i)
\* It supersedes a chain that had ended, which pre-flight lets through.
Revives(g, e) == \E id \in e.supersedes : IsInactive(g, HeadOf(g, id))

\* Every checkout agrees with itself on what is open: the open set, computed from
\* the edges, holds exactly the entries whose derived status says they have work
\* left or stand, and the signals and focuses served as current are among them
\* (Graph.Filter, OpenSignals, ActiveFocuses, DerivedStatus).
OpenSetAgrees ==
    \A c \in Checkout :
        LET g == GraphOf(c) IN
        /\ Open(g) = {id \in DOMAIN g : DerivedStatus(g, id).kind \in {"open", "active", "none"}}
        /\ OpenSignals(g) \cup ActiveFocuses(g) \cup ActiveRoles(g) \subseteq Open(g)

\* A canonical is written once: an actor or procedure whose capture could see an
\* earlier holder of its name is in that holder's chain, in every checkout that
\* has what the capture saw (actorWriteOnceFindings, procedureWriteOnceFindings).
CanonicalsWrittenOnce ==
    \A c \in Checkout :
        LET g == GraphOf(c)
            seen == {i \in known[c] : DOMAIN base[i] \subseteq DOMAIN g}
            Holders(members) == \A i \in seen \cap members :
                LET chain == Chain(g, members, i)
                IN \A j \in DOMAIN base[i] \cap members : g[i].name = g[j].name => j \in chain
        IN Holders(Actors(g)) /\ Holders(Procedures(g))

\* An entry has two superseders only when neither was captured with the other in
\* sight, or one of them took up a chain that had ended (supersedeForkFindings,
\* against the forks lint looks for).
ForksAreConcurrent ==
    \A c \in Checkout :
        LET g == GraphOf(c) IN
        \A id \in DOMAIN g : \A i, j \in Superseders(g, id) :
            i # j => \/ Concurrent(i, j)
                     \/ \E k \in {i, j} \cap known[c] : Revives(base[k], entry[k])

\* A capture that pre-flight lets through leaves lint nothing new to report in its
\* checkout, the ended chains it may revive aside (MechanicalPreflight against
\* finders/lint.go).
LeavesLintClean ==
    \A c \in Checkout :
        known'[c] # known[c] /\ DOMAIN entry' # DOMAIN entry =>
            LET g == GraphOf(c)
                h == GraphOf(c)'
                i == Oldest(DOMAIN entry' \ DOMAIN entry)
            IN /\ RoleOrphans(h) \subseteq RoleOrphans(g)
               /\ CanonicalReuse(h, ActorChains(h)) \subseteq CanonicalReuse(g, ActorChains(g)) \cup {i}
               /\ ~ Revives(g, entry'[i]) => SupersedeForks(h) \subseteq SupersedeForks(g)

\* What the binary ships never takes over a procedure of the project: where one
\* chain holds the canonical after an upgrade and the execution head was a live
\* one of the project, it still is (resolveProcedureHead: the project head wins).
LeavesOverrides ==
    \A c \in Checkout :
        version'[c] # version[c] =>
            LET g == GraphOf(c)
                h == GraphOf(c)'
                OfProject(graph, id) == ~ graph[id].embedded /\ id \notin Closed(graph)
            IN \A name \in {g[i].name : i \in Procedures(g)} :
                /\ OfProject(g, ResolveProcedure(g, name))
                /\ Cardinality(ChainsForCanonical(h, ProcedureChains(h), name)) = 1
                => OfProject(h, ResolveProcedure(h, name))
\* Found not to hold, each in the graph of one checkout.
\* A reference reaches a live head when its chain has one (ResolvedRef.Head).
HeadsAreLive ==
    \A c \in Checkout : LET g == GraphOf(c) IN
        \A id \in Superseded(g) : HeadOf(g, id) \in Closed(g) => BranchHeads(g, id) = {}
\* An actor whose chain goes on is among the active ones (ActiveActorHeads).
LiveActorsActive ==
    \A c \in Checkout : LET g == GraphOf(c) IN
        \A chain \in ActorChains(g) :
            LiveHeads(g, chain) # {} => ActiveActorHeads(g) \cap chain # {}
\* A role shown as an orphan is one that lint reports (StatusCascadeOrphan).
OrphansReported ==
    \A c \in Checkout : LET g == GraphOf(c) IN
        \A id \in DOMAIN g : DerivedStatus(g, id).kind = "cascade-orphan" => id \in RoleOrphans(g)
\* What expand(refs(inactive)) shows is what the filter `active` leaves out
\* (isInactiveStatus).
InactiveIsInverse ==
    \A c \in Checkout : LET g == GraphOf(c) IN
        \A id \in DOMAIN g : IsInactive(g, id) <=> id \notin Open(g)
=============================================================================
