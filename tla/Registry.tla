------------------------------- MODULE Registry -------------------------------
(***************************************************************************)
(* The predicates and commands procedures are built from (internal/engine/ *)
(* predicates.go and pkg/application/workflow_registry.go,                 *)
(* workflow_capture.go, workflow_document.go), as far as the capture, the  *)
(* implementation and the session-shell procedures use them.               *)
(*                                                                         *)
(* `check` is the verdict capturePreflightState folds from the stored log: *)
(* [current, accepted].  Graph lookups, the LLM and git are outside: a     *)
(* command that asks them may answer either way, or fail.                  *)
(***************************************************************************)
EXTENDS Engine

BaseBranch == "base"       \* the project's configured default branch

ASSUME BaseAssumption == BaseBranch \in Values

(***************************************************************************)
(* effectiveTarget: an explicit captureBranch, the branch the entry was    *)
(* published on, the session's branch binding, the base; in that order.  A *)
(* pre-flight result does not pin the branch before publication.           *)
(***************************************************************************)
EffectiveTarget(store, binding) ==
    CASE Has(store, "captureBranch") -> store.state["captureBranch"]
      [] /\ ~Has(store, "captureBranch")
         /\ store.eng.entry # None /\ store.eng.branch # None -> store.eng.branch
      [] OTHER -> IF binding # None THEN binding ELSE BaseBranch

(***************************************************************************)
(* Predicates.                                                             *)
(***************************************************************************)
\* Mutant: any confirmation will do, whatever was edited since.
PlaybackConfirmedOnce(store) == store.eng.confirmation # None

PlaybackConfirmed(store) ==
    /\ store.eng.confirmation # None
    /\ store.eng.confirmation.snapshot = store.state

\* "draftValidates" stands for assemble's conjunction of presence, graph and
\* construction checks over the draft.
Holds(p, store, check) ==
    \/ p = "draftValidates" /\ Has(store, "draft")
    \/ p = "noGuideFindings" /\ store.eng.guide = "clean"
    \/ p = "guideReviewed" /\ store.eng.reviewed = "yes"
    \/ p = "playbackConfirmed" /\ PlaybackConfirmed(store)
    \/ p = "noHighFindings" /\ store.eng.findings = "clean"
    \/ p = "capturePreflightCurrent" /\ check.current
    \/ p = "hasAnchor" /\ Has(store, "anchor")
    \/ p = "hasContract" /\ Has(store, "contract")
    \/ p = "hasDoneEntry" /\ Has(store, "doneEntry")
    \/ p = "hasWipMarker" /\ store.eng.marker # None

Satisfied(guard, store, check) == \A p \in guard : Holds(p, store, check)

(***************************************************************************)
(* Commands.  A prepared command records an intent before it acts; its     *)
(* effect is a publication keyed by that intent.                           *)
(***************************************************************************)
WorkflowCommands == {
    "writingGuide", "recordGuideReview", "requestGuideRecheck",
    "confirmPlayback", "preflightEntry", "recordOverride", "newEntry",
    "replaceSummary", "wipStart", "wipDone"}

ASSUME CommandsAssumption ==
    Commands \subseteq WorkflowCommands /\ None \notin WorkflowCommands

Prepared == {"newEntry", "replaceSummary", "wipStart", "wipDone"}

\* Whether Prepare succeeds on what the session holds.
PrepareSucceeds(command, store, check) ==
    \/ /\ command = "newEntry"                     \* verifyCapturePreflight
       /\ check.current /\ check.accepted
       /\ store.eng.branch # None
    \/ /\ command = "replaceSummary"
       /\ store.eng.entry # None
       /\ Has(store, "correction")
    \/ command = "wipStart" /\ Has(store, "anchor")
    \/ command = "wipDone" /\ store.eng.marker # None

\* The branch the intent records: newEntry takes the one pre-flight checked.
IntentBranch(command, store, target) ==
    IF command = "newEntry" THEN store.eng.branch ELSE target

NoWrites == [f \in {} |-> None]

\* The writes a command may end with.  ref is the running intent's, target
\* the effective target, step the position it runs at.
Writes(command, store, step, ref, target) ==
    CASE command = "writingGuide" ->
            IF store.eng.guide # None THEN {NoWrites}  \* one run per capture
            ELSE {[guide |-> g] : g \in {"clean", "findings"}}
      [] command = "recordGuideReview" -> {[reviewed |-> "yes"]}
      [] command = "requestGuideRecheck" -> {[guide |-> None, reviewed |-> None]}
      [] command = "confirmPlayback" ->
            {[confirmation |-> [step |-> step, snapshot |-> store.state]]}
      [] command = "preflightEntry" ->
            {[findings |-> f, override |-> None, branch |-> target] :
                f \in {"clean", "high"}}
      [] command = "recordOverride" -> {[override |-> "yes"]}
      [] command = "newEntry" -> {[entry |-> ref]}
      [] command = "replaceSummary" -> {NoWrites}
      [] command = "wipStart" -> {[marker |-> ref]}
      [] command = "wipDone" -> {[marker |-> None]}

\* The trust machinery writes only the store; the others reach outside.
CannotFail == {"recordGuideReview", "requestGuideRecheck", "confirmPlayback",
               "recordOverride"}
=============================================================================
