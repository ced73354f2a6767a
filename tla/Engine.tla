------------------------------- MODULE Engine -------------------------------
(***************************************************************************)
(* The data of the procedure engine (internal/engine): procedures, typed   *)
(* stores, instances, the session record, and the pure functions both the  *)
(* live session and the replay of its log call.                            *)
(*                                                                         *)
(* A store value is a model value or a string out of Values.  A procedure  *)
(* is data: Specs[p] has a class, a first step, the state fields it         *)
(* declares, and for every step its chooser, guard, op, transitions and    *)
(* options.  A guard is the set of predicates it conjoins; {} always       *)
(* holds, which is how "otherwise" is written.                             *)
(***************************************************************************)
EXTENDS Naturals, FiniteSets, Sequences

CONSTANTS
    None,         \* "not set": an absent store value, no intent, no command
    Procs,        \* canonical names of the procedures
    Specs,        \* their loaded specs (engine.Spec)
    Steps,        \* all step ids
    Commands,     \* names of the registered commands
    StateFields,  \* report-writable fields of all procedures
    Values,       \* what a state field can hold
    FieldValues,  \* and each of them in particular (the declared type)
    Branches,     \* branch names
    MaxInsts,     \* bound: instances a session starts
    MaxOps        \* bound: operations (mutation intents) a session records

ASSUME EngineAssumption ==
    /\ MaxInsts \in Nat /\ MaxOps \in Nat
    /\ None \notin Procs /\ None \notin Steps /\ None \notin Commands
    /\ None \notin Values /\ None \notin Nat
    /\ Branches \subseteq Values
    /\ FieldValues \in [StateFields -> SUBSET Values]

Insts == 1 .. MaxInsts
Refs == 1 .. MaxOps

EndCompleted == "end(completed)"
EndAbandoned == "end(abandoned)"
Ends == {EndCompleted, EndAbandoned}

(***************************************************************************)
(* What loading a spec checks (ParseSpec): steps lead to steps or ends,    *)
(* what an option collects or hands down is declared, only gates run ops.  *)
(* A step's options are those that can be taken: Answer and the replay     *)
(* take the first of a choice, so a choice has one.                        *)
(***************************************************************************)
StepsOf(proc) == DOMAIN Specs[proc].steps

WellFormedStep(proc, st) ==
    LET step == Specs[proc].steps[st]
        targets == StepsOf(proc) \cup Ends
    IN  /\ step.op \in Commands \cup {None}
        /\ step.chooser # "gate" => step.op = None
        /\ \A k \in DOMAIN step.transitions : step.transitions[k].to \in targets
        /\ \A o \in step.options :
            /\ o.to \in targets /\ o.call \in Commands \cup {None}
            /\ o.collect \subseteq StateFields /\ o.seed \subseteq StateFields
            /\ o.dispatch \in Procs \cup {None}
        /\ \A o1, o2 \in step.options : o1.choice = o2.choice => o1 = o2

ASSUME SpecsAssumption ==
    /\ Steps \cap Ends = {} /\ None \notin Ends
    /\ \A p \in Procs :
        /\ StepsOf(p) \subseteq Steps
        /\ Specs[p].first \in StepsOf(p)
        /\ Specs[p].fields \subseteq StateFields
        /\ \A st \in StepsOf(p) : WellFormedStep(p, st)

(***************************************************************************)
(* Stores.  `state` holds the report-writable values, `eng` the values     *)
(* commands write (provenance engine).  The state snapshot that            *)
(* confirmPlayback binds is a hash over the state values alone, so the     *)
(* values themselves stand for it.                                         *)
(***************************************************************************)
States == [StateFields -> Values \cup {None}]
Confirmations == [step : Steps, snapshot : States]

EngineValues == [
    confirmation : {None} \cup Confirmations,      \* playbackConfirmation
    findings     : {None, "clean", "high"},        \* pre-flight findings
    override     : {None, "yes"},                  \* preflightOverride
    branch       : {None} \cup Values,             \* resolvedCaptureBranch
    entry        : {None} \cup Refs,               \* entryId
    guide        : {None, "clean", "findings"},    \* guideFindings
    reviewed     : {None, "yes"},                  \* guideReviewed
    marker       : {None} \cup Refs]               \* wipMarker

EmptyState == [f \in StateFields |-> None]
EmptyEngine == [confirmation |-> None, findings |-> None, override |-> None,
                branch |-> None, entry |-> None, guide |-> None,
                reviewed |-> None, marker |-> None]

Stores == [state : States, eng : EngineValues]

\* WriteState: the reported fields replace those of the store.
WriteState(state, fields) ==
    [f \in StateFields |-> IF f \in DOMAIN fields THEN fields[f] ELSE state[f]]

\* A write of exactly the fields in d, each with a value of its type.
FieldWrites(d) == {w \in [d -> Values] : \A f \in d : w[f] \in FieldValues[f]}

Has(store, f) == f \in StateFields /\ store.state[f] # None

(***************************************************************************)
(* What a dispatching option hands to the next child: `proc` names the     *)
(* child it is meant for (None: any), `fields` the inherited fields.       *)
(***************************************************************************)
NoSeed == [proc |-> None, fields |-> {}]
Seeds == [proc : Procs \cup {None}, fields : SUBSET StateFields]

Statuses == {"unstarted", "running", "completed", "abandoned"}

Instances == [
    proc   : Procs \cup {None},
    parent : Insts \cup {None},
    store  : Stores,
    step   : Steps \cup {None},
    status : Statuses,
    opDone : BOOLEAN,
    interactionStep : Steps \cup {None},
    seed   : Seeds]

Unstarted == [proc |-> None, parent |-> None,
              store |-> [state |-> EmptyState, eng |-> EmptyEngine],
              step |-> None, status |-> "unstarted", opDone |-> FALSE,
              interactionStep |-> None, seed |-> NoSeed]

(***************************************************************************)
(* The session record.  `ref` stands for the log position of an intent:    *)
(* the n-th intent of a log has ref n.  intentStore is the store an intent *)
(* was recorded over; every attempt runs on a copy of it, and it is kept   *)
(* here only while the intent is pending, when the code reads it.          *)
(***************************************************************************)
Intents == [ref : Refs, inst : Insts, step : Steps, command : Commands,
            to : Steps \cup Ends \cup {None}, branch : Values \cup {None}]
Cancellations == [ref : Refs, inst : Insts]

Sessions == [
    insts      : [Insts -> Instances],
    counter    : 0 .. MaxInsts,
    intent     : {None} \cup Intents,
    intentStore : {None} \cup Stores,
    intentDone : BOOLEAN,
    cancelled  : {None} \cup Cancellations]

\* None is none of the values it stands in for.
ASSUME NoneAssumption ==
    /\ None \notin Intents /\ None \notin Stores /\ None \notin Cancellations
    /\ None \notin States /\ None \notin Confirmations

NewSession == [insts |-> [i \in Insts |-> Unstarted], counter |-> 0,
               intent |-> None, intentStore |-> None, intentDone |-> FALSE, cancelled |-> None]

Running(s, i) == s.insts[i].status = "running"
Started(s, i) == s.insts[i].status # "unstarted"
Pending(s) == s.intent # None /\ ~s.intentDone          \* PendingMutation
ShellClass(s, i) == Started(s, i) /\ Specs[s.insts[i].proc].class = "shell"
RunningShell(s) == \E i \in Insts : Running(s, i) /\ ShellClass(s, i)

StepOf(inst) == Specs[inst.proc].steps[inst.step]        \* currentStep
SpecStep(proc, step) == Specs[proc].steps[step]

(***************************************************************************)
(* Functions the live session and the replay share in the code.            *)
(***************************************************************************)
\* The next interaction on its instance ends a cancellation's currency.
ClearCancellation(cancelled, i) ==
    IF cancelled # None /\ cancelled.inst = i THEN None ELSE cancelled

\* The answered option's handoff replaces the instance's; a plain option
\* clears it.
RecordDispatchSeed(option) ==
    IF option.seed = {} THEN NoSeed
    ELSE [proc |-> option.dispatch, fields |-> option.seed]

\* A cancelled operation returns its instance to the interaction that led to
\* it, or closes it when none did.  Nothing that was applied is undone.
ApplyCancellation(s, i) ==
    LET inst == s.insts[i]
        back == inst.interactionStep
        returned == IF back = None
                    THEN [inst EXCEPT !.status = "abandoned", !.opDone = FALSE]
                    ELSE [inst EXCEPT !.step = back, !.opDone = FALSE]
    IN  [s EXCEPT !.insts[i] = returned,
                  !.cancelled = [ref |-> s.intent.ref, inst |-> s.intent.inst],
                  !.intentStore = None,
                  !.intentDone = TRUE]

\* The fields a child of procedure `proc` inherits from its parent: those the
\* parent's last answered junction handed down and that the parent holds.
SeedFromParent(s, parent, proc) ==
    IF parent = None THEN {}
    ELSE LET p == s.insts[parent]
         IN  IF p.seed.proc \in {None, proc}
             THEN {f \in p.seed.fields : p.store.state[f] # None}
             ELSE {}
=============================================================================
