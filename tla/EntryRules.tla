----------------------------- MODULE EntryRules -----------------------------
(***************************************************************************)
(* What an entry must satisfy: the rules of its construction, the rules on *)
(* its edges, and the mechanical pre-flight against the graph it joins.    *)
(* A check is a record of rules, TRUE where the draft breaks one.          *)
(*                                                                         *)
(* A draft is [type, layer, entry, declared, criteria, targets, labels]:   *)
(* `declared` are the per-kind fields it carries, `criteria` says its body *)
(* has an acceptance checklist, `targets` are those of its involvements,   *)
(* and `labels` are topic assignments [ok, members].                       *)
(***************************************************************************)
EXTENDS GraphModel

Broken(rules) == {r \in DOMAIN rules : rules[r]}

\* The fields each kind has of its own.
FieldsOf(kind) ==
    CASE kind = "directive" -> {"intent"}
      [] kind = "actor" -> {"canonical", "aliases", "actor_kind"}
      [] kind = "procedure" -> {"canonical", "class", "steps"}
      [] kind = "role" -> {"actor"}
      [] kind = "annotation" -> {"assignments"}
      [] kind = "focus" -> {"actors", "when", "involvement"}
      [] kind = "fact" -> {"index", "override"}
      [] OTHER -> {}
InlineTopics(kind) == IF kind = "annotation" THEN {} ELSE {"topics"}
IsKind(d, kind) == d.entry.kind = kind /\ d.type = TypeOf(d.entry)

\* The projection leaves out what does not belong to the kind and reports it.
Stray(d) ==
    d.declared \ (InlineTopics(d.entry.kind)
                  \cup IF d.type = TypeOf(d.entry) THEN FieldsOf(d.entry.kind) ELSE {})
ConstructFromEntry(d) == [d EXCEPT !.declared = @ \ Stray(d)]

ValidateKind(d) ==
    IF d.type = "signal" THEN d.entry.kind \notin SignalKinds ELSE d.entry.kind \notin DecisionKinds
ValidateAnnotation(d) ==
    \/ d.entry.refs = {} \/ d.labels = {}
    \/ \E l \in d.labels : ~ l.ok \/ ~ l.members \subseteq {r.to : r \in d.entry.refs}
ValidateFocus(g, d) == d.targets = {} \/ ~ d.targets \subseteq DOMAIN g

\* WriteOnly rules are waived for entries already on disk.
WriteOnly == {"unstated", "unchecked"}
Validate(g, d) == Broken(
    [kind |-> ValidateKind(d),
     unstated |-> IsKind(d, "directive") /\ "intent" \notin d.declared,
     canonical |-> (IsKind(d, "actor") \/ IsKind(d, "procedure")) /\ "canonical" \notin d.declared,
     alias |-> IsKind(d, "actor") /\ d.entry.name \in d.entry.aliases,
     actor |-> IsKind(d, "role") /\ "actor" \notin d.declared,
     layer |-> /\ IsKind(d, "actor") \/ IsKind(d, "role") \/ IsKind(d, "procedure")
               /\ d.layer # "process",
     anchor |-> IsKind(d, "done") /\ d.entry.closes = {} /\ d.entry.refs = {},
     unchecked |-> IsKind(d, "plan") /\ ~ d.criteria,
     assignments |-> IsKind(d, "annotation") /\ ValidateAnnotation(d),
     involvement |-> IsKind(d, "focus") /\ ValidateFocus(g, d)])

-----------------------------------------------------------------------------
\* Rules on the edges, against the entries the graph holds.
DanglingRefs(g, e) ==
    {r \in e.refs : r.repo = NoRepo /\ r.kind \notin ForwardRefKinds /\ r.to \notin DOMAIN g}
DanglingEdges(g, e) == (e.closes \cup e.supersedes) \ DOMAIN g
RefusedCloses(g, e) ==
    {id \in e.closes \cap DOMAIN g :
        \/ IsSettled(g[id])
        \/ e.kind \in {"question", "actor", "annotation"}
        \/ /\ TypeOf(e) = "decision" /\ TypeOf(g[id]) = "decision"
           /\ e.kind # "directive"}
RefusedSupersedes(g, e) ==
    {id \in e.supersedes \cap DOMAIN g : g[id].override \/ TypeOf(g[id]) # TypeOf(e)}
ValidateEdges(g, e) == Broken(
    [refs |-> DanglingRefs(g, e) # {},
     lifecycle |-> DanglingEdges(g, e) # {},
     closes |-> RefusedCloses(g, e) # {},
     supersedes |-> RefusedSupersedes(g, e) # {}])

\* Capture refuses on any finding; reading keeps those not waived.
ValidateForWrite(g, d) ==
    {"stray" : f \in Stray(d)} \cup ValidateEdges(g, d.entry) \cup Validate(g, ConstructFromEntry(d))
ReadWarnings(g, d) ==
    ({"stray" : f \in Stray(d)} \cup ValidateEdges(g, d.entry)
     \cup Validate(g, ConstructFromEntry(d))) \ WriteOnly

-----------------------------------------------------------------------------
\* Which reference kinds apply to a target of a class.
ClassifyRefTarget(g, id) ==
    IF IsInactive(g, id) THEN "retired"
    ELSE IF g[id].kind = "done" THEN "terminal-done"
    ELSE IF TypeOf(g[id]) = "decision" THEN "live-decision" ELSE "live-signal"
RefKindApplicability(kind, class) ==
    CASE kind = "refines" -> class \notin {"terminal-done", "retired"}
      [] kind = "addresses" -> class # "terminal-done"
      [] OTHER -> TRUE
AdmissibleRefKinds(class) == {k \in RefKinds : RefKindApplicability(k, class)}

\* A reference into another repository resolves in its cached graph, if there is one.
Resolves(members, r) == r.repo \in DOMAIN members /\ r.to \in DOMAIN members[r.repo]
OwnerOf(g, members, r) == IF r.repo = NoRepo THEN g ELSE members[r.repo]
RefKindFindings(e) == {r \in e.refs : r.kind \notin RefKinds}
RefKindApplicabilityFindings(g, members, e) ==
    {r \in e.refs :
        /\ r.kind \in RefKinds
        /\ IF r.repo = NoRepo THEN r.to \in DOMAIN g ELSE Resolves(members, r)
        /\ ~ RefKindApplicability(r.kind, ClassifyRefTarget(OwnerOf(g, members, r), r.to))}
CrossRepoResolutionFindings(members, declared, e) ==
    {r \in e.refs :
        /\ r.repo # NoRepo
        /\ r.repo \notin declared \/ (r.kind \notin ForwardRefKinds /\ ~ Resolves(members, r))}

\* Mutant: only the next hop is asked, and a superseded one counts as retired.
ForksAtTheNextHop(g, e) ==
    {id \in e.supersedes \cap Superseded(g) : ~ IsInactive(g, FirstLoaded(g, Superseders(g, id)))}
\* An entry supersedes the head of a chain unless the head is retired.
SupersedeForkFindings(g, e) ==
    {id \in e.supersedes \cap DOMAIN g :
        HeadOf(g, id) # id /\ ~ IsInactive(g, HeadOf(g, id))}

\* No names are checked before the first actor.
ActiveCanonicals(g) == {g[a].name : a \in ActiveActorHeads(g)} \ {NoName}
CoverageFindings(g, names) ==
    IF ActiveActorHeads(g) = {} THEN {} ELSE names \ ActiveCanonicals(g)

ActorWriteOnceFindings(g, e) == {c \in ActorChains(g) : ReusedBy(g, c, e.name, e.supersedes)}
ActorKindStabilityFindings(g, e) ==
    IF e.sort = NoName THEN {}
    ELSE {c \in ActorChains(g) :
            /\ c \cap e.supersedes # {}
            /\ \E prior \in c : g[prior].sort \notin {NoName, e.sort}}
RoleHeads(g, e) == {a \in ActiveActorHeads(g) : g[a].name = e.actor}
RoleFindings(g, e) ==
    \/ RoleHeads(g, e) = {}
    \/ ~ \E r \in e.refs : r.repo = NoRepo /\ r.to = Oldest(RoleHeads(g, e))
ProcedureWriteOnceFindings(g, e) ==
    {c \in ProcedureChains(g) : ReusedBy(g, c, e.name, e.supersedes)}

MechanicalPreflight(g, members, declared, e) == Broken(
    [drift |-> CoverageFindings(g, e.people) # {},
     refKind |-> RefKindFindings(e) # {},
     inapplicable |-> RefKindApplicabilityFindings(g, members, e) # {},
     fork |-> SupersedeForkFindings(g, e) # {},
     unresolved |-> CrossRepoResolutionFindings(members, declared, e) # {},
     reused |-> IsActor(e) /\ ActorWriteOnceFindings(g, e) # {},
     reclassified |-> IsActor(e) /\ ActorKindStabilityFindings(g, e) # {},
     unbound |-> IsRole(e) /\ RoleFindings(g, e),
     taken |-> IsProcedure(e) /\ ProcedureWriteOnceFindings(g, e) # {}])
=============================================================================
