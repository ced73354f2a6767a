--------------------------- MODULE WorkflowSession ---------------------------
(***************************************************************************)
(* One durable workflow session driven by several handles.                 *)
(*                                                                         *)
(* The session is an append-only event log in a store that takes an append *)
(* only when the writer names the log's current version                    *)
(* (WorkflowSession.appendStoredEvents, SessionStore.Append).  A handle is *)
(* one in-memory replay of it, in one process (pkg/application             *)
(* WorkflowSession over engine.Session).  A call on a handle appends one   *)
(* event at a time and calls out between them: to the LLM, to the graph    *)
(* store, to git.  Any of these steps may be the last one a process takes. *)
(*                                                                         *)
(* The log is kept as what replaying it yields (ledger) and as what        *)
(* capturePreflightState folds from it (check).  Versions are kept as what *)
(* the compare-and-swap asks of them: fresh[h] says that the version h     *)
(* last observed is the store's.                                           *)
(***************************************************************************)
EXTENDS SessionReplay, Registry

CONSTANTS
    Handles,   \* the in-memory replays that may exist at a time
    Batches,   \* the field sets a report may carry
    Held       \* TRUE: a handle is kept between calls; FALSE: each call
               \* replays the log first (the MCP server)

VARIABLES
    ledger,    \* the session a replay of the stored log yields
    readable,  \* replaying the stored log meets no refusal
    check,     \* capturePreflightState of each instance, folded from the log
    ended,     \* SessionMetadata.Ended is set
    branch,    \* SessionMetadata.Branch, the session's branch binding
    lastRef,   \* operations recorded so far
    published, \* publications in the graph store, keyed by operation
    mem,       \* mem[h]: the live engine.Session of a handle
    fresh,     \* fresh[h]: h's observed version is the store's
    view,      \* view[h]: the branch binding h knows
    call,      \* call[h]: where a handle's call stands
    ops,       \* history: how each recorded operation stands
    evidence   \* history: what was confirmed and checked for each instance

logged == <<ledger, readable, check, ended, lastRef, ops, evidence>>
vars == <<ledger, readable, check, ended, branch, lastRef, published,
          mem, fresh, view, call, ops, evidence>>

-----------------------------------------------------------------------------
(***************************************************************************)
(* A call and its program counter.                                         *)
(*   closed   no replay in memory                                          *)
(*   idle     replayed, between calls                                      *)
(*   shell    ensureShell found no running shell                           *)
(*   cascade  about to look at inst's step                                 *)
(*   command  about to record the intent of fn                             *)
(*   verify   about to check the binding before publishing                 *)
(*   publish  past that check, preparing and publishing                    *)
(*   read     published, newEntry's read event is owed                     *)
(*   run      an unprepared command runs                                   *)
(*   outcome  the publication is made, its outcome is owed                 *)
(*   move     a transition is owed: the answered option's, a reopening     *)
(*   finish   a transition to an end is logged, the end event is owed      *)
(*   rebind   BindBranch's second attempt                                  *)
(*   done     the result is served, the call may still note what it served *)
(***************************************************************************)
PCs == {"closed", "idle", "shell", "cascade", "command", "verify",
        "publish", "read", "run", "outcome", "move", "finish", "rebind", "done"}
InCall == PCs \ {"closed", "idle"}

\* opening: the call is ensureShell's own start; retry: Retry runs the command.
Calls == [pc : PCs, inst : Insts \cup {None}, fn : Commands \cup {None},
          to : Steps \cup Ends \cup {None}, opening : BOOLEAN, retry : BOOLEAN]

NoCall(pc) == [pc |-> pc, inst |-> None, fn |-> None, to |-> None,
               opening |-> FALSE, retry |-> FALSE]
CallOn(i) == [NoCall("cascade") EXCEPT !.inst = i]

Checks == [current : BOOLEAN, accepted : BOOLEAN, branch : Values \cup {None}]
NoCheck == [current |-> FALSE, accepted |-> FALSE, branch |-> None]

\* What the user and the pre-flight said of an instance's draft.
Evidences == [confirmed : States \cup {None}, checked : States \cup {None},
              branch : Values \cup {None}, passed : BOOLEAN]
NoEvidence == [confirmed |-> None, checked |-> None, branch |-> None,
               passed |-> FALSE]

Publications == [ref : Refs, inst : Insts, command : Commands,
                 content : States, branch : Values \cup {None}]
OpStates == {"none", "pending", "done", "cancelled"}

TypeOK ==
    /\ ledger \in Sessions
    /\ readable \in BOOLEAN
    /\ check \in [Insts -> Checks]
    /\ ended \in BOOLEAN
    /\ branch \in Branches \cup {None}
    /\ lastRef \in 0 .. MaxOps
    /\ published \subseteq Publications
    /\ mem \in [Handles -> Sessions]
    /\ fresh \in [Handles -> BOOLEAN]
    /\ view \in [Handles -> Branches \cup {None}]
    /\ call \in [Handles -> Calls]
    /\ ops \in [Refs -> OpStates]
    /\ evidence \in [Insts -> Evidences]

\* The session exists and its log holds the session_meta event.
Init ==
    /\ ledger = NewSession
    /\ readable = TRUE
    /\ check = [i \in Insts |-> NoCheck]
    /\ ended = FALSE
    /\ branch = None
    /\ lastRef = 0
    /\ published = {}
    /\ mem = [h \in Handles |-> NewSession]
    /\ fresh = [h \in Handles |-> FALSE]
    /\ view = [h \in Handles |-> None]
    /\ call = [h \in Handles |-> NoCall("closed")]
    /\ ops = [r \in Refs |-> "none"]
    /\ evidence = [i \in Insts |-> NoEvidence]

-----------------------------------------------------------------------------
(***************************************************************************)
(* Appending one event.                                                    *)
(***************************************************************************)
\* captureDraftFields: a logged write of one of them ends a pre-flight's
\* currency.
DraftFields == {"draft", "captureBranch"}

\* Mutant: the branch a pre-flight looked at is not taken over.
CheckWithoutBranch(c, ev) ==
    CASE ev.type = "op_result" /\ ev.command = "preflightEntry" ->
            [c EXCEPT !.current = TRUE, !.accepted = ev.writes.findings # "high"]
      [] OTHER -> c

\* capturePreflightState's fold over the stored log, per instance.
CheckAfter(c, ev) ==
    CASE /\ ev.type \in {"report", "chooser_answer"}
         /\ DOMAIN ev.fields \cap DraftFields # {} ->
            [c EXCEPT !.current = FALSE, !.accepted = FALSE]
      [] ev.type = "op_result" /\ ev.command = "preflightEntry" ->
            [current |-> TRUE, accepted |-> ev.writes.findings # "high",
             branch |-> ev.writes.branch]
      [] ev.type = "op_result" /\ ev.command = "recordOverride" ->
            [c EXCEPT !.accepted = @ \/ c.current]
      [] OTHER -> c

\* The history of an instance: what the user confirmed or overrode, what the
\* pre-flight looked at.
EvidenceAfter(e, inst, ev) ==
    LET calls(fn) == /\ ev.type = "chooser_answer"
                     /\ \E o \in SpecStep(inst.proc, ev.chooser).options :
                            o.choice = ev.choice /\ o.call = fn
    IN  CASE calls("confirmPlayback") -> [e EXCEPT !.confirmed = inst.store.state]
          [] calls("recordOverride") -> [e EXCEPT !.passed = TRUE]
          [] ev.type = "op_result" /\ ev.command = "preflightEntry" ->
                [e EXCEPT !.checked = inst.store.state, !.branch = ev.writes.branch,
                          !.passed = ev.writes.findings = "clean"]
          [] ev.type \in {"completed", "abandoned"} -> NoEvidence
          [] OTHER -> e

OpsAfter(ev) ==
    CASE ev.type = "mutation_intent" -> [ops EXCEPT ![ev.ref] = "pending"]
      [] ev.type = "mutation_outcome" -> [ops EXCEPT ![ev.ref] = "done"]
      [] ev.type = "cancelled" -> [ops EXCEPT ![ev.ref] = "cancelled"]
      [] OTHER -> ops

\* Mutant: the terminal record is left for a later append.
EndsLater(ev) == FALSE

\* The shell leaving running ends the dialogue, in the same append.
EndsSession(ev) ==
    ev.type \in {"completed", "abandoned"} /\ ShellClass(ledger, ev.inst)

\* Mutant: the ended record is checked, the version is not.
VerifiedEndOnly(h) == ~ended

\* verifyBinding: the log is the one the handle observed, and has not ended.
VerifiedBinding(h) == fresh[h] /\ ~ended

AppendEvent(h, ev) ==
    /\ VerifiedBinding(h)
    /\ readable' = (readable /\ Accepts(ledger, ev))
    /\ ledger' = IF Accepts(ledger, ev) THEN Apply(ledger, ev) ELSE ledger
    /\ check' = IF ev.type = "note" THEN check
                ELSE [check EXCEPT ![ev.inst] = CheckAfter(@, ev)]
    /\ evidence' = IF ev.type = "note" THEN evidence
                   ELSE [evidence EXCEPT ![ev.inst] =
                            EvidenceAfter(@, ledger.insts[ev.inst], ev)]
    /\ ops' = OpsAfter(ev)
    /\ lastRef' = IF ev.type = "mutation_intent" THEN ev.ref ELSE lastRef
    /\ ended' = EndsSession(ev)
    /\ fresh' = [g \in Handles |-> g = h]

\* A live session appends an event, becomes m and goes on with call c.
Log(h, ev, m, c) ==
    /\ AppendEvent(h, ev)
    /\ mem' = [mem EXCEPT ![h] = m]
    /\ call' = [call EXCEPT ![h] = c]
    /\ UNCHANGED <<branch, view, published>>

\* A step of a call that appends nothing.
Go(h, c) ==
    /\ call' = [call EXCEPT ![h] = c]
    /\ UNCHANGED <<logged, branch, published, mem, fresh, view>>

\* The replay leaves memory: a crash, a session whose sink has failed.
Drop(h) ==
    /\ mem' = [mem EXCEPT ![h] = NewSession]
    /\ fresh' = [fresh EXCEPT ![h] = FALSE]
    /\ view' = [view EXCEPT ![h] = None]
    /\ call' = [call EXCEPT ![h] = NoCall("closed")]

\* A call is over.  The shell's own start hands the handle to its call.
Rest(h) ==
    IF Held \/ call[h].opening
    THEN /\ call' = [call EXCEPT ![h] = NoCall("idle")]
         /\ UNCHANGED <<mem, fresh, view>>
    ELSE Drop(h)

-----------------------------------------------------------------------------
(***************************************************************************)
(* Opening a handle.                                                       *)
(***************************************************************************)
At(h, pc) == call[h].pc = pc

\* RefreshWorkflow and LoadWorkflow replay the stored log; the latter also
\* stamps who attached, an append of its own.  OpenWorkflow is the same on
\* the log it just created.
Load(h) ==
    /\ At(h, "closed") /\ ~ended /\ readable
    /\ mem' = [mem EXCEPT ![h] = ledger]
    /\ view' = [view EXCEPT ![h] = branch]
    /\ \E stamp \in BOOLEAN :
         fresh' = [g \in Handles |-> g = h \/ (fresh[g] /\ ~stamp)]
    /\ call' = [call EXCEPT ![h] =
                  NoCall(IF RunningShell(ledger) THEN "idle" ELSE "shell")]
    /\ UNCHANGED <<logged, branch, published>>

\* Mutant: calls ignore an unfinished operation.
ProgressionUnchecked(m) == TRUE

\* checkProgression: the latest operation, if any, is resolved.
CheckProgression(m) == ~Pending(m)

\* Session.Start, from the started event on.
Start(h, proc, parent, opening) ==
    LET m == mem[h]
        i == m.counter + 1
        seed == SeedFromParent(m, parent, proc)
        first == Specs[proc].first
        values == [f \in seed |-> m.insts[parent].store.state[f]]
        inst == [Unstarted EXCEPT
                    !.proc = proc, !.parent = parent, !.step = first,
                    !.status = "running", !.store.state = WriteState(@, values)]
    IN  /\ CheckProgression(m)
        /\ i \in Insts
        /\ seed \subseteq Specs[proc].fields
        /\ Log(h, StartedEvent(i, proc, parent, first, values),
               [m EXCEPT !.counter = i, !.insts[i] = inst],
               [CallOn(i) EXCEPT !.opening = opening])

\* ensureShell
StartShell(h) ==
    /\ At(h, "shell")
    /\ \E p \in Procs : Specs[p].class = "shell" /\ Start(h, p, None, TRUE)

-----------------------------------------------------------------------------
(***************************************************************************)
(* The calls on a handle.  Those that move the dialogue are refused while  *)
(* an operation is unfinished.                                             *)
(***************************************************************************)
Ready(h) == At(h, "idle") /\ RunningShell(mem[h])

StartProcedure(h) ==
    /\ Ready(h)
    /\ \E p \in Procs, parent \in Insts :
        /\ Specs[p].class # "shell"
        /\ Started(mem[h], parent)
        /\ Start(h, p, parent, FALSE)

Report(h, i) ==
    LET m == mem[h]
        inst == m.insts[i]
    IN  /\ Ready(h) /\ CheckProgression(m) /\ Running(m, i)
        /\ \E d \in Batches : \E fields \in FieldWrites(d) :
            /\ d # {} /\ d \subseteq Specs[inst.proc].fields
            /\ Log(h, ReportEvent(i, inst.step, fields),
                   [m EXCEPT
                       !.insts[i] =
                           [inst EXCEPT
                               !.store.state = WriteState(@, fields),
                               !.interactionStep =
                                   IF StepOf(inst).op = None THEN inst.step ELSE @],
                       !.cancelled = ClearCancellation(@, i)],
                   CallOn(i))

\* Where runCommand begins: a prepared command first records its intent.
CommandCall(i, fn, to) ==
    [NoCall(IF fn \in Prepared THEN "command" ELSE "run") EXCEPT
        !.inst = i, !.fn = fn, !.to = to]
MoveCall(i, to) == [NoCall("move") EXCEPT !.inst = i, !.to = to]

Answer(h, i) ==
    LET m == mem[h]
        inst == m.insts[i]
    IN  /\ Ready(h) /\ CheckProgression(m) /\ Running(m, i)
        /\ StepOf(inst).chooser # "gate"
        /\ \E o \in StepOf(inst).options :
           \E fields \in UNION {FieldWrites(d) : d \in SUBSET o.collect} :
            /\ \A f \in o.required : WriteState(inst.store.state, fields)[f] # None
            /\ Log(h, AnswerEvent(i, inst.step, o, fields),
                   [m EXCEPT
                       !.insts[i] = [inst EXCEPT
                                        !.store.state = WriteState(@, fields),
                                        !.interactionStep = inst.step,
                                        !.seed = RecordDispatchSeed(o)],
                       !.cancelled = ClearCancellation(@, i)],
                   IF o.call = None THEN MoveCall(i, o.to)
                   ELSE CommandCall(i, o.call, o.to))

\* Mutant: a cancelled operation is taken up again by a retry.
RetryableCancelled(m, i) == m.intent # None /\ m.intent.inst = i

\* commandError and the refusal of a cancelled operation.
Retryable(m, i) == m.intent # None /\ m.intent.inst = i /\ m.cancelled = None

\* Retry continues the latest operation, or only the cascade behind it.
Retry(h, i) ==
    LET m == mem[h]
        intent == m.intent
    IN  /\ Ready(h)
        /\ Retryable(m, i)
        /\ Go(h, IF m.intentDone THEN CallOn(i)
                 ELSE [NoCall("verify") EXCEPT
                          !.inst = i, !.fn = intent.command, !.to = intent.to,
                          !.retry = TRUE])

Cancel(h, i) ==
    LET m == mem[h]
        intent == m.intent
    IN  /\ Ready(h) /\ Pending(m) /\ intent.inst = i /\ m.cancelled = None
        /\ Log(h, CancelledEvent(i, intent.ref, intent.step, intent.command,
                                 m.insts[i].interactionStep),
               ApplyCancellation(m, i), NoCall("done"))

Abandon(h, i) ==
    LET m == mem[h]
    IN  /\ At(h, "idle") /\ CheckProgression(m) /\ Running(m, i) /\ ~ShellClass(m, i)
        /\ Log(h, EndEvent(i, EndAbandoned),
               [m EXCEPT !.insts[i] = [@ EXCEPT !.status = "abandoned"]], NoCall("done"))

\* SetLabel before the operation, LogRead, RecordServed and Reorient with it.
Note(h) ==
    /\ call[h].pc \in {"idle", "done"}
    /\ Log(h, NoteEvent, mem[h], call[h])

\* Park: refused while an operation is unfinished, moves nothing.
Park(h, i) ==
    /\ At(h, "idle") /\ CheckProgression(mem[h])
    /\ Running(mem[h], i) /\ ~ShellClass(mem[h], i)
    /\ Log(h, NoteEvent, mem[h], NoCall("done"))

\* bindBranchOnce: the binding is metadata, appended past the engine's sink.
Bind(h, b) ==
    /\ VerifiedBinding(h)
    /\ branch' = b
    /\ view' = [view EXCEPT ![h] = b]
    /\ fresh' = [g \in Handles |-> g = h]
    /\ call' = [call EXCEPT ![h] = NoCall("done")]
    /\ UNCHANGED <<logged, published, mem>>

BindBranch(h) ==
    /\ call[h].pc \in {"idle", "rebind"}
    /\ \E b \in Branches \cup {None} : Bind(h, b)

\* A conflict takes over the stored version, and with it the branch, and
\* binds again; the replayed session stays what it was.
ResyncBinding(h) ==
    /\ At(h, "idle") /\ ~fresh[h] /\ ~ended
    /\ fresh' = [fresh EXCEPT ![h] = TRUE]
    /\ view' = [view EXCEPT ![h] = branch]
    /\ call' = [call EXCEPT ![h] = NoCall("rebind")]
    /\ UNCHANGED <<logged, branch, published, mem>>

\* The second attempt conflicts again, or the branch is not a branch.
RebindFails(h) ==
    /\ At(h, "rebind")
    /\ Rest(h)
    /\ UNCHANGED <<logged, branch, published>>

-----------------------------------------------------------------------------
(***************************************************************************)
(* The cascade: what an instance does at a step nobody has to answer.      *)
(***************************************************************************)
\* Mutant: the branch the check was made for is not compared.
VerdictOfAnyBranch(h, i) ==
    [current |-> check[i].current, accepted |-> check[i].current /\ check[i].accepted]

\* capturePreflightState: the fold over the log as stored now, for the
\* branch the instance would write to.
Verdict(h, i) ==
    LET s == mem[h].insts[i].store
        current == /\ check[i].current
                   /\ check[i].branch = EffectiveTarget(s, view[h])
    IN  [current |-> current, accepted |-> current /\ check[i].accepted]

OnGate(h) ==
    LET c == call[h]
    IN  /\ c.pc = "cascade"
        /\ Running(mem[h], c.inst)
        /\ StepOf(mem[h].insts[c.inst]).chooser = "gate"

GuardHolds(h, guard) ==
    Satisfied(guard, mem[h].insts[call[h].inst].store, Verdict(h, call[h].inst))

OpOwed(inst) == StepOf(inst).op # None /\ ~inst.opDone

\* The transition that fires is the first whose guard holds.
FirstFiring(h, transitions) ==
    {k \in DOMAIN transitions :
        /\ GuardHolds(h, transitions[k].when)
        /\ \A j \in 1 .. k - 1 : ~GuardHolds(h, transitions[j].when)}

\* Edit after confirm: the gate waits on playbackConfirmed and the recorded
\* confirmation is of another state.
ConfirmationStale(h, inst) ==
    LET confirmation == inst.store.eng.confirmation
    IN  /\ "playbackConfirmed" \in StepOf(inst).guard
        /\ ~Holds("playbackConfirmed", inst.store, Verdict(h, call[h].inst))
        /\ confirmation # None
        /\ confirmation.snapshot # inst.store.state

CascadeStops(h) ==
    LET inst == mem[h].insts[call[h].inst]
    IN  /\ At(h, "cascade")
        /\ ~OnGate(h)
           \/ /\ ~GuardHolds(h, StepOf(inst).guard)
              /\ ~ConfirmationStale(h, inst)
           \/ /\ GuardHolds(h, StepOf(inst).guard)
              /\ ~OpOwed(inst)
              /\ FirstFiring(h, StepOf(inst).transitions) = {}
        /\ Go(h, [NoCall("done") EXCEPT !.opening = call[h].opening])

ReopenPlayback(h) ==
    LET i == call[h].inst
        inst == mem[h].insts[i]
    IN  /\ OnGate(h)
        /\ ~GuardHolds(h, StepOf(inst).guard) /\ ConfirmationStale(h, inst)
        /\ Log(h, ResultEvent(i, inst.step, "reopenPlayback",
                              [confirmation |-> None]),
               [mem[h] EXCEPT !.insts[i] =
                                [inst EXCEPT !.store.eng.confirmation = None]],
               MoveCall(i, inst.store.eng.confirmation.step))

RunOp(h) ==
    LET i == call[h].inst
        inst == mem[h].insts[i]
    IN  /\ OnGate(h)
        /\ GuardHolds(h, StepOf(inst).guard) /\ OpOwed(inst)
        /\ Go(h, CommandCall(i, StepOf(inst).op, None))

\* Mutant: an end is taken for a step.
MovedToEnd(m, i, to) ==
    [m EXCEPT !.insts[i] = [@ EXCEPT !.step = to, !.opDone = FALSE]]

\* transitionTo: what the session is after the transition event.
Moved(m, i, to) ==
    IF to \in Ends THEN m
    ELSE [m EXCEPT !.insts[i] = [@ EXCEPT !.step = to, !.opDone = FALSE]]

AfterMove(i, to) ==
    IF to \in Ends THEN [NoCall("finish") EXCEPT !.inst = i, !.to = to] ELSE CallOn(i)

Advance(h) ==
    LET i == call[h].inst
        inst == mem[h].insts[i]
    IN  /\ OnGate(h)
        /\ GuardHolds(h, StepOf(inst).guard) /\ ~OpOwed(inst)
        /\ \E k \in FirstFiring(h, StepOf(inst).transitions) :
            LET to == StepOf(inst).transitions[k].to
            IN  Log(h, TransitionEvent(i, to), Moved(mem[h], i, to), AfterMove(i, to))

\* The transition an answered option or a reopening owes.
Move(h) ==
    LET c == call[h]
    IN  /\ At(h, "move")
        /\ Log(h, TransitionEvent(c.inst, c.to), Moved(mem[h], c.inst, c.to),
               AfterMove(c.inst, c.to))

\* The completed or abandoned event is an append after the transition's.
Finish(h) ==
    LET c == call[h]
        ending == IF c.to = EndCompleted THEN "completed" ELSE "abandoned"
    IN  /\ At(h, "finish")
        /\ Log(h, EndEvent(c.inst, c.to),
               [mem[h] EXCEPT !.insts[c.inst] = [@ EXCEPT !.status = ending]], CallOn(c.inst))

-----------------------------------------------------------------------------
(***************************************************************************)
(* runCommand.                                                             *)
(***************************************************************************)
Target(h, i) == EffectiveTarget(mem[h].insts[i].store, view[h])

\* Prepare, then the intent: the operation is on record before it acts.
RecordIntent(h) ==
    LET c == call[h]
        m == mem[h]
        s == m.insts[c.inst].store
        at == m.insts[c.inst].step
        ref == lastRef + 1
        to == IntentBranch(c.fn, s, Target(h, c.inst))
    IN  /\ At(h, "command")
        /\ PrepareSucceeds(c.fn, s, Verdict(h, c.inst))
        /\ ref \in Refs
        /\ Log(h, IntentEvent(c.inst, ref, at, c.fn, c.to, to),
               [m EXCEPT !.intent = [ref |-> ref, inst |-> c.inst, step |-> at,
                                     command |-> c.fn, to |-> c.to, branch |-> to],
                         !.intentStore = s,
                         !.intentDone = FALSE,
                         !.cancelled = None],
               [c EXCEPT !.pc = "verify"])

\* CreateEntry and PublishDocument check the binding once, then prepare and
\* publish on their own time.
VerifyBinding(h) ==
    /\ At(h, "verify") /\ VerifiedBinding(h)
    /\ Go(h, [call[h] EXCEPT !.pc = "publish"])

\* The keyed publication: the operation's first publication stands, a later
\* one finds it.
Publication(m) ==
    [ref |-> m.intent.ref, inst |-> m.intent.inst, command |-> m.intent.command,
     content |-> m.intentStore.state, branch |-> m.intent.branch]

PublishKeyed(m) ==
    published' = IF \E p \in published : p.ref = m.intent.ref THEN published
                 ELSE published \cup {Publication(m)}

Publish(h) ==
    /\ At(h, "publish")
    /\ PublishKeyed(mem[h])
    /\ call' = [call EXCEPT ![h].pc =
                  IF call[h].fn = "newEntry" THEN "read" ELSE "outcome"]
    /\ UNCHANGED <<logged, branch, mem, fresh, view>>

\* A finalizer fails after the publication: made, and reported as failed.
PublishThenFail(h) ==
    /\ At(h, "publish")
    /\ PublishKeyed(mem[h])
    /\ call' = [call EXCEPT ![h] = NoCall("done")]
    /\ UNCHANGED <<logged, branch, mem, fresh, view>>

\* runWorkflowNewEntry notes the entry it published as read.
LogPublishedRead(h) ==
    /\ At(h, "read")
    /\ Log(h, NoteEvent, mem[h], [call[h] EXCEPT !.pc = "outcome"])

\* Where a finished command leads: the answered option's transition, or on
\* with the cascade.
AfterCommand(c) == IF c.to # None THEN MoveCall(c.inst, c.to) ELSE CallOn(c.inst)

\* The outcome is logged, then the command's candidate store, a copy of the
\* one the intent was recorded over, becomes the instance's.
RecordOutcome(h) ==
    LET c == call[h]
        m == mem[h]
        i == c.inst
        inst == m.insts[i]
        intent == m.intent
        from == m.intentStore
    IN  /\ At(h, "outcome")
        /\ \E w \in Writes(c.fn, from, intent.step, intent.ref, intent.branch) :
            Log(h, OutcomeEvent(i, intent.ref, inst.step, c.fn, w),
                [m EXCEPT
                    !.insts[i] =
                        [inst EXCEPT !.store = [state |-> from.state,
                                                eng |-> ImportWrites(from.eng, w)],
                                     !.opDone = @ \/ c.to = None \/ c.retry],
                    !.intentStore = None,
                    !.intentDone = TRUE],
                AfterCommand(c))

\* A command without Prepare runs on a copy of the store; its writes are
\* logged and then become the instance's.
RunCommand(h) ==
    LET c == call[h]
        m == mem[h]
        i == c.inst
        inst == m.insts[i]
    IN  /\ At(h, "run")
        /\ \E w \in Writes(c.fn, inst.store, inst.step, None, Target(h, i)) :
            Log(h, ResultEvent(i, inst.step, c.fn, w),
                [m EXCEPT !.insts[i] = [inst EXCEPT !.store.eng = ImportWrites(@, w),
                                                    !.opDone = @ \/ c.to = None]],
                AfterCommand(c))

-----------------------------------------------------------------------------
(***************************************************************************)
(* How calls end, and what else happens to a session.                      *)
(***************************************************************************)
\* Mutant: a failed publication is taken for one already made.
FailedTakenForMade(c) ==
    IF c.pc = "publish" THEN [c EXCEPT !.pc = "outcome"] ELSE NoCall("done")

\* The error is the call's result.
OnFailure(c) == NoCall("done")

\* A graph read, Prepare, the binding check or the command fails.  What was
\* logged stands; a recorded operation is pending.
CallFails(h) ==
    /\ \/ OnGate(h)
       \/ call[h].pc \in {"command", "verify", "publish"}
       \/ At(h, "run") /\ call[h].fn \notin CannotFail
    /\ Go(h, OnFailure(call[h]))

Return(h) ==
    /\ At(h, "done")
    /\ Rest(h)
    /\ UNCHANGED <<logged, branch, published>>

\* An append refused because the log moved or ended: the engine's sink stays
\* failed and the replay is of no more use.  (Refused at the first append of
\* a call, it is gone like after a crash.)
AppendRefused(h) ==
    /\ call[h].pc \in InCall \ {"verify", "publish", "rebind"}
    /\ ~VerifiedBinding(h)
    /\ Drop(h)
    /\ UNCHANGED <<logged, branch, published>>

\* A crash, an append that fails, and an append that lands but is reported
\* as failed (the crash after it) all leave the log and nothing else.
Crash(h) ==
    /\ ~At(h, "closed")
    /\ Drop(h)
    /\ UNCHANGED <<logged, branch, published>>

\* AbandonWorkflowSession replays, abandons what runs and ends the session in
\* one append; an unfinished operation refuses it.
AbandonSession ==
    /\ ~ended /\ readable
    /\ ~Pending(ledger)
    /\ ledger' = [ledger EXCEPT !.insts = [i \in Insts |->
                    IF Running(ledger, i)
                    THEN [ledger.insts[i] EXCEPT !.status = "abandoned"]
                    ELSE ledger.insts[i]]]
    /\ ended' = TRUE
    /\ fresh' = [h \in Handles |-> FALSE]
    /\ UNCHANGED <<readable, check, branch, lastRef, published, mem, view, call,
                   ops, evidence>>

-----------------------------------------------------------------------------
\* What users, agents and operators may ask, in any order and at any time.
Ask(h) ==
    \/ Load(h) \/ StartProcedure(h) \/ Note(h) \/ BindBranch(h) \/ ResyncBinding(h)
    \/ \E i \in Insts : \/ Report(h, i) \/ Answer(h, i) \/ Retry(h, i)
                        \/ Cancel(h, i) \/ Abandon(h, i) \/ Park(h, i)

\* The steps the process takes by itself once a call is under way.
Proceed(h) ==
    \/ StartShell(h) \/ CascadeStops(h) \/ ReopenPlayback(h) \/ RunOp(h)
    \/ Advance(h) \/ Move(h) \/ Finish(h)
    \/ RecordIntent(h) \/ VerifyBinding(h) \/ Publish(h) \/ PublishThenFail(h)
    \/ LogPublishedRead(h) \/ RecordOutcome(h) \/ RunCommand(h)
    \/ CallFails(h) \/ RebindFails(h) \/ Return(h) \/ AppendRefused(h)

Next ==
    \/ \E h \in Handles : Ask(h) \/ Proceed(h) \/ Crash(h)
    \/ AbandonSession

Spec == Init /\ [][Next]_vars

\* A process that is running takes its next step; nobody has to call, and
\* crashes are not owed.
Fairness == \A h \in Handles : WF_vars(Proceed(h))
LiveSpec == Spec /\ Fairness
=============================================================================
