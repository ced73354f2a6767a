---------------------------- MODULE SessionReplay ----------------------------
(***************************************************************************)
(* The fold that rebuilds a session from its event log (engine.            *)
(* ReplaySession, applyEvent): every stored event is applied from its      *)
(* logged values, no command runs again and no cascade is evaluated.       *)
(* Accepts says when the fold takes an event, Apply what it makes of it.   *)
(***************************************************************************)
EXTENDS Engine

(***************************************************************************)
(* Events.  Each is a record with its type, its instance and the values    *)
(* the code logs.                                                          *)
(***************************************************************************)
StartedEvent(i, proc, parent, step, seed) ==
    [type |-> "started", inst |-> i, proc |-> proc, parent |-> parent,
     step |-> step, seed |-> seed]
ReportEvent(i, step, fields) ==
    [type |-> "report", inst |-> i, step |-> step, fields |-> fields]
AnswerEvent(i, chooser, option, fields) ==
    [type |-> "chooser_answer", inst |-> i, chooser |-> chooser,
     choice |-> option.choice, fields |-> fields]
IntentEvent(i, ref, step, command, to, branch) ==
    [type |-> "mutation_intent", inst |-> i, ref |-> ref, step |-> step,
     command |-> command, to |-> to, branch |-> branch]
OutcomeEvent(i, ref, step, command, writes) ==
    [type |-> "mutation_outcome", inst |-> i, ref |-> ref, step |-> step,
     command |-> command, writes |-> writes]
CancelledEvent(i, ref, step, command, back) ==
    [type |-> "cancelled", inst |-> i, ref |-> ref, step |-> step,
     command |-> command, return |-> back]
ResultEvent(i, step, command, writes) ==
    [type |-> "op_result", inst |-> i, step |-> step, command |-> command,
     writes |-> writes]
TransitionEvent(i, to) == [type |-> "transition", inst |-> i, to |-> to]
EndEvent(i, end) ==
    [type |-> IF end = EndCompleted THEN "completed" ELSE "abandoned", inst |-> i]

\* labeled, read, served_blocks, reoriented and parked move no instance.
NoteEvent == [type |-> "note"]

(***************************************************************************)
(* Engine writes: a command's writes are logged by field and imported by   *)
(* field; a field the event does not name keeps its value.                 *)
(***************************************************************************)
Written(eng, writes, f) == IF f \in DOMAIN writes THEN writes[f] ELSE eng[f]

ImportWrites(eng, writes) == [
    confirmation |-> Written(eng, writes, "confirmation"),
    findings     |-> Written(eng, writes, "findings"),
    override     |-> Written(eng, writes, "override"),
    branch       |-> Written(eng, writes, "branch"),
    entry        |-> Written(eng, writes, "entry"),
    guide        |-> Written(eng, writes, "guide"),
    reviewed     |-> Written(eng, writes, "reviewed"),
    marker       |-> Written(eng, writes, "marker")]

(***************************************************************************)
(* When the fold refuses an event (or dereferences a missing step).        *)
(***************************************************************************)
OutcomeMatches(s, ev) ==                                  \* validateOutcome
    /\ Pending(s)
    /\ ev.ref = s.intent.ref
    /\ ev.inst = s.intent.inst
    /\ ev.step = s.intent.step
    /\ ev.command = s.intent.command

Accepts(s, ev) ==
    IF ev.type \in {"note", "started"} THEN TRUE
    ELSE /\ Started(s, ev.inst)                           \* replayInstance
         /\ ev.type = "report" => Running(s, ev.inst)
         /\ ev.type \in {"op_result", "mutation_outcome"} =>
                \/ Running(s, ev.inst)
                \/ ev.step # s.insts[ev.inst].step
         /\ ev.type = "mutation_intent" =>                \* restoreIntent
                ~Pending(s) /\ ev.step = s.insts[ev.inst].step
         /\ ev.type \in {"mutation_outcome", "cancelled"} => OutcomeMatches(s, ev)
         /\ ev.type = "cancelled" =>
                ev.return = s.insts[ev.inst].interactionStep

(***************************************************************************)
(* What an event makes of the session, one operator per event type.        *)
(***************************************************************************)
ApplyStarted(s, ev) ==
    [s EXCEPT
        !.counter = IF ev.inst > @ THEN ev.inst ELSE @,
        !.insts[ev.inst] =
            [proc |-> ev.proc, parent |-> ev.parent,
             store |-> [state |-> WriteState(EmptyState, ev.seed), eng |-> EmptyEngine],
             step |-> ev.step, status |-> "running", opDone |-> FALSE,
             interactionStep |-> None, seed |-> NoSeed]]

ApplyReport(s, ev) ==
    LET inst == s.insts[ev.inst]
    IN  [s EXCEPT
            !.insts[ev.inst] =
                [inst EXCEPT
                    !.store.state = WriteState(@, ev.fields),
                    !.interactionStep = IF StepOf(inst).op = None THEN inst.step ELSE @],
            !.cancelled = ClearCancellation(@, ev.inst)]

\* Mutant: the fold forgets the handoff an answer made.
ApplyAnswerWithoutSeed(s, ev) ==
    [s EXCEPT
        !.insts[ev.inst] =
            [s.insts[ev.inst] EXCEPT
                !.store.state = WriteState(@, ev.fields),
                !.interactionStep = s.insts[ev.inst].step],
        !.cancelled = ClearCancellation(@, ev.inst)]

\* The handoff is derived again from the spec, keyed by the logged choice.
ApplyAnswer(s, ev) ==
    LET inst == s.insts[ev.inst]
        answered == {o \in SpecStep(inst.proc, ev.chooser).options :
                        o.choice = ev.choice}
    IN  [s EXCEPT
            !.insts[ev.inst] =
                [inst EXCEPT
                    !.store.state = WriteState(@, ev.fields),
                    !.interactionStep = inst.step,
                    !.seed = IF answered = {} THEN @
                             ELSE RecordDispatchSeed(CHOOSE o \in answered : TRUE)],
            !.cancelled = ClearCancellation(@, ev.inst)]

ApplyIntent(s, ev) ==
    [s EXCEPT
        !.intent = [ref |-> ev.ref, inst |-> ev.inst, step |-> ev.step,
                    command |-> ev.command, to |-> ev.to, branch |-> ev.branch],
        !.intentStore = s.insts[ev.inst].store,
        !.intentDone = FALSE,
        !.cancelled = None]

\* An op_result and a mutation_outcome import the writes; the step's own op
\* is then done for this arrival.
ApplyResult(s, ev) ==
    LET inst == s.insts[ev.inst]
        done == ev.step = inst.step /\ StepOf(inst).op = ev.command
    IN  [s EXCEPT
            !.insts[ev.inst] = [inst EXCEPT !.store.eng = ImportWrites(@, ev.writes),
                                            !.opDone = @ \/ done],
            !.intentDone = @ \/ ev.type = "mutation_outcome",
            !.intentStore = IF ev.type = "mutation_outcome" THEN None ELSE @]

\* Mutant: the fold keeps the op of the step it left as done.
ApplyTransitionKeepingOpDone(s, ev) ==
    IF ev.to \in Ends THEN s ELSE [s EXCEPT !.insts[ev.inst] = [@ EXCEPT !.step = ev.to]]

\* A transition to an end moves nothing: the completed or abandoned event
\* after it carries the status.
ApplyTransition(s, ev) ==
    IF ev.to \in Ends THEN s
    ELSE [s EXCEPT !.insts[ev.inst] = [@ EXCEPT !.step = ev.to, !.opDone = FALSE]]

Apply(s, ev) ==
    CASE ev.type = "started"          -> ApplyStarted(s, ev)
      [] ev.type = "report"           -> ApplyReport(s, ev)
      [] ev.type = "chooser_answer"   -> ApplyAnswer(s, ev)
      [] ev.type = "mutation_intent"  -> ApplyIntent(s, ev)
      [] ev.type = "op_result"        -> ApplyResult(s, ev)
      [] ev.type = "mutation_outcome" -> ApplyResult(s, ev)
      [] ev.type = "cancelled"        -> ApplyCancellation(s, ev.inst)
      [] ev.type = "transition"       -> ApplyTransition(s, ev)
      [] ev.type = "completed"        -> [s EXCEPT !.insts[ev.inst] = [@ EXCEPT !.status = "completed"]]
      [] ev.type = "abandoned"        -> [s EXCEPT !.insts[ev.inst] = [@ EXCEPT !.status = "abandoned"]]
      [] ev.type = "note"             -> s
=============================================================================
