----------------------------- MODULE GraphModel -----------------------------
(***************************************************************************)
(* The graph of entries and what is derived from it: resolution through    *)
(* supersession, lifecycle status, the open set, identity chains and the   *)
(* lint checks.  A graph is a function from entry IDs to entries; IDs are  *)
(* numbers in the order of their timestamps.  An entry is immutable, so    *)
(* every fact here is a function of which entries a checkout holds.        *)
(***************************************************************************)
EXTENDS Naturals, Sequences, FiniteSets, SequencesExt

CONSTANTS
    NoName,                         \* an absent canonical, actor or kind of actor
    NoRepo                          \* of a reference within the graph

SignalKinds == {"gap", "fact", "question", "insight", "done", "actor", "annotation"}
DecisionKinds == {"directive", "activity", "plan", "contract", "aspiration", "role", "focus",
                  "procedure"}
RefKinds == {"grounded-in", "builds-on", "refines", "addresses", "surfaces", "surfaced-by",
             "depends-on", "required-by", "related"}
\* Their target may be an entry that does not exist yet.
ForwardRefKinds == {"surfaces", "required-by"}

TypeOf(e) == IF e.kind \in SignalKinds THEN "signal" ELSE "decision"
IsActor(e) == e.kind = "actor"
IsRole(e) == e.kind = "role"
IsProcedure(e) == e.kind = "procedure"
IsSettled(e) == e.kind = "directive" /\ e.intent = "settled"

\* An entry of a kind with nothing declared.
Plain(kind) ==
    [kind |-> kind, intent |-> "pending", refs |-> {}, closes |-> {}, supersedes |-> {},
     name |-> NoName, sort |-> NoName, aliases |-> {}, actor |-> NoName, people |-> {},
     topics |-> {}, embedded |-> FALSE, override |-> FALSE]

-----------------------------------------------------------------------------
Closers(g, id) == {i \in DOMAIN g : id \in g[i].closes}
Superseders(g, id) == {i \in DOMAIN g : id \in g[i].supersedes}
Referrers(g, id) == {i \in DOMAIN g : \E r \in g[i].refs : r.repo = NoRepo /\ r.to = id}
Downstream(g, id) ==
    (Referrers(g, id) \cup Closers(g, id) \cup Superseders(g, id)) \cap DOMAIN g

Closed(g) == {id \in DOMAIN g : Closers(g, id) # {}}
Superseded(g) == {id \in DOMAIN g : Superseders(g, id) # {}}

\* Indexes are built in load order: entries of the graph directory by ID, then
\* the entries shipped with the binary.
Oldest(ids) == CHOOSE i \in ids : \A j \in ids : i <= j
FirstLoaded(g, ids) ==
    LET local == {i \in ids : ~ g[i].embedded}
    IN Oldest(IF local # {} THEN local ELSE ids)

\* The walk follows the first superseder of each entry and stops at a repetition.
Trail(g, id) ==
    LET walk[n \in Nat] ==
            IF n = 0 THEN <<id>>
            ELSE LET way == walk[n - 1]
                     next == Superseders(g, Last(way))
                 IN IF next = {} \/ FirstLoaded(g, next) \in ToSet(way) THEN way
                    ELSE Append(way, FirstLoaded(g, next))
    IN walk[Cardinality(DOMAIN g)]
HeadOf(g, id) == Last(Trail(g, id))
Hops(g, id) == Len(Trail(g, id)) - 1

\* What a live head inherits: each reference with its distance.
LocalRefs(g) == {p \in UNION {{i} \X g[i].refs : i \in DOMAIN g} : p[2].repo = NoRepo}
InboundRefs(g, id) ==
    {[source |-> p[1], ref |-> p[2], hops |-> Hops(g, p[2].to)] :
        p \in {p \in LocalRefs(g) : HeadOf(g, p[2].to) = id}}

-----------------------------------------------------------------------------
\* Supersession chains among the members: connected through members only.
Neighbours(g, members, id) == members \cap (g[id].supersedes \cup Superseders(g, id))
Chain(g, members, id) ==
    LET reach[n \in Nat] ==
            IF n = 0 THEN {id}
            ELSE reach[n - 1] \cup UNION {Neighbours(g, members, i) : i \in reach[n - 1]}
    IN reach[Cardinality(members)]
ChainGroups(g, members) == {Chain(g, members, id) : id \in members}

ChainHeads(g, chain) == chain \ Superseded(g)
\* Mutant: a renamed chain forgets its earlier canonicals.
HeadCanonicals(g, chain) == {g[i].name : i \in ChainHeads(g, chain)} \ {NoName}
CanonicalHistory(g, chain) == {g[i].name : i \in chain} \ {NoName}
\* Superseding any member extends the chain.
ReusedBy(g, chain, name, supersedes) ==
    name \in CanonicalHistory(g, chain) /\ chain \cap supersedes = {}

Actors(g) == {id \in DOMAIN g : IsActor(g[id])}
ActorChains(g) == ChainGroups(g, Actors(g))
ActorHead(g, chain) == Oldest(ChainHeads(g, chain))
ActiveActorHeads(g) ==
    {ActorHead(g, chain) : chain \in {c \in ActorChains(g) : ChainHeads(g, c) # {}}} \ Closed(g)

\* The first chain that ever held the name; chains are ordered by their head,
\* those without one first.
ChainsForCanonical(g, chains, name) == {c \in chains : name \in CanonicalHistory(g, c)}
ChainForCanonical(g, name) ==
    LET held == ChainsForCanonical(g, ActorChains(g), name)
        headless == {c \in held : ChainHeads(g, c) = {}}
    IN IF headless # {} THEN CHOOSE c \in headless : \A o \in headless : Oldest(c) <= Oldest(o)
       ELSE CHOOSE c \in held : \A o \in held : ActorHead(g, c) <= ActorHead(g, o)
HasChain(g, name) == ChainsForCanonical(g, ActorChains(g), name) # {}

-----------------------------------------------------------------------------
NoEntry == 0
Status(kind, by) == [kind |-> kind, by |-> by]

\* A role follows the head of the chain its actor names.
DeriveRoleStatus(g, role) ==
    IF ~ HasChain(g, role.actor) THEN Status("cascade-orphan", NoEntry)
    ELSE LET chain == ChainForCanonical(g, role.actor)
         IN IF ChainHeads(g, chain) = {} THEN Status("cascade-orphan", NoEntry)
            ELSE LET closers == Closers(g, ActorHead(g, chain))
                 IN IF closers = {} THEN Status("active", NoEntry)
                    ELSE Status("cascade-closed", HeadOf(g, FirstLoaded(g, closers)))

DerivedStatus(g, id) ==
    LET e == g[id] IN
    IF Superseders(g, id) # {}
    THEN Status("superseded-by", HeadOf(g, FirstLoaded(g, Superseders(g, id))))
    ELSE IF IsSettled(e) THEN Status("settled", NoEntry)
    ELSE IF Closers(g, id) # {}
    THEN Status("closed-by", HeadOf(g, FirstLoaded(g, Closers(g, id))))
    ELSE IF IsRole(e) THEN DeriveRoleStatus(g, e)
    ELSE IF TypeOf(e) = "decision" THEN Status("active", NoEntry)
    ELSE Status(IF e.kind = "done" THEN "none" ELSE "open", NoEntry)

InactiveStatuses == {"closed-by", "superseded-by", "cascade-closed", "cascade-orphan"}
IsInactive(g, id) == DerivedStatus(g, id).kind \in InactiveStatuses

\* Mutant: the role cascade is left to the status.
OpenByEdges(g) ==
    {id \in DOMAIN g \ (Closed(g) \cup Superseded(g)) : ~ IsSettled(g[id])}
\* Filter with OpenOnly: computed from the edges, not from the status.
Open(g) ==
    {id \in DOMAIN g \ (Closed(g) \cup Superseded(g)) :
        /\ ~ IsSettled(g[id])
        /\ IsRole(g[id]) => DeriveRoleStatus(g, g[id]).kind = "active"}
OpenSignals(g) ==
    {id \in DOMAIN g : g[id].kind \in {"gap", "question"}} \ (Closed(g) \cup Superseded(g))
ActiveFocuses(g) == {id \in DOMAIN g : g[id].kind = "focus"} \ (Closed(g) \cup Superseded(g))
ActiveRoles(g) == {id \in DOMAIN g : IsRole(g[id]) /\ DerivedStatus(g, id).kind = "active"}

-----------------------------------------------------------------------------
Procedures(g) == {id \in DOMAIN g : IsProcedure(g[id])}
ProcedureChains(g) == ChainGroups(g, Procedures(g))
LiveHeads(g, chain) == ChainHeads(g, chain) \ Closed(g)

Newest(ids) == CHOOSE i \in ids : \A j \in ids : j <= i
\* Mutant: the newest head wins, whoever wrote it.
PickNewest(g, candidates) == IF candidates = {} THEN NoEntry ELSE Newest(candidates)
\* A head of the project before one of the binary, the newest of each.
PickHead(g, candidates) ==
    LET local == {i \in candidates : ~ g[i].embedded}
    IN IF candidates = {} THEN NoEntry
       ELSE Newest(IF local # {} THEN local ELSE candidates)
ProcedureHead(g, chain) ==
    PickHead(g, IF LiveHeads(g, chain) # {} THEN LiveHeads(g, chain) ELSE ChainHeads(g, chain))

\* Chains are ordered by their head, so the chain of the oldest head answers.
ResolveProcedure(g, name) ==
    LET held == ChainsForCanonical(g, ProcedureChains(g), name)
    IN IF held = {} THEN NoEntry ELSE Oldest({ProcedureHead(g, c) : c \in held})

-----------------------------------------------------------------------------
\* Lint: the entries each check warns on.
BranchHeads(g, id) == {HeadOf(g, s) : s \in Superseders(g, id)} \ Closed(g)
SupersedeForks(g) ==
    {id \in DOMAIN g : ~ IsProcedure(g[id]) /\ Cardinality(BranchHeads(g, id)) > 1}
CanonicalReuse(g, chains) ==
    {id \in UNION chains : Cardinality(ChainsForCanonical(g, chains, g[id].name)) > 1}
RoleOrphans(g) == {id \in DOMAIN g : IsRole(g[id]) /\ ~ HasChain(g, g[id].actor)}
UncoveredParticipants(g) ==
    {id \in DOMAIN g : /\ ~ g[id].embedded
                       /\ \E p \in g[id].people : ~ HasChain(g, p)}
AmbiguousAliases(g) ==
    {a \in ActiveActorHeads(g) :
        \E b \in ActiveActorHeads(g) \ {a} : g[a].aliases \cap g[b].aliases # {}}
ProcedureForks(g) ==
    UNION {LiveHeads(g, c) : c \in {c \in ProcedureChains(g) : Cardinality(LiveHeads(g, c)) > 1}}

\* The entries on disk shadow entries of the binary with the same ID.
MergeEmbedded(disk, shipped) == disk @@ shipped
=============================================================================
