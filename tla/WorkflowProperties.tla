-------------------------- MODULE WorkflowProperties --------------------------
(***************************************************************************)
(* What a workflow session promises.                                       *)
(***************************************************************************)
EXTENDS WorkflowSession

-----------------------------------------------------------------------------
(***************************************************************************)
(* The log and the replay.                                                 *)
(***************************************************************************)
\* opDone of an instance that has ended, or whose owed transition is not yet
\* logged, is never read again.
OpDoneMatters(s, c, i) ==
    Running(s, i) /\ ~(c.inst = i /\ c.pc \in {"move", "finish"})

\* A live session m, where its call c stands, is the session s.
SameSession(m, s, c) ==
    /\ \A i \in Insts :
        /\ [m.insts[i] EXCEPT !.opDone = FALSE] = [s.insts[i] EXCEPT !.opDone = FALSE]
        /\ OpDoneMatters(s, c, i) => m.insts[i].opDone = s.insts[i].opDone
    /\ m.counter = s.counter
    /\ m.intent = s.intent
    /\ m.intentStore = s.intentStore
    /\ m.intentDone = s.intentDone
    /\ m.cancelled = s.cancelled

\* Replay (session.go:784-788): whatever the last event a process managed to
\* append, replaying the log yields the session that process held.
ReplayAgrees ==
    \A h \in Handles :
        fresh[h] /\ call[h].pc \notin {"closed", "rebind", "done"} =>
            SameSession(mem[h], ledger, call[h])

\* The log a process leaves behind, wherever it stopped, is one the replay
\* takes to its end (applyEvent refuses no event; mutation.go:257-305): no
\* interleaving of handles strands a session behind an unreplayable event.
LogReplays == readable

-----------------------------------------------------------------------------
(***************************************************************************)
(* The dialogue and its shell.                                             *)
(***************************************************************************)
\* ensureShell (workflow.go:1230-1247) and the terminal record written with
\* the shell's last event (1570-1577): a dialogue that has begun has exactly
\* one running shell until it ends, and none after, whoever raced to start
\* or conclude it.
OneShellUntilTheEnd ==
    LET shells == {i \in Insts : Running(ledger, i) /\ ShellClass(ledger, i)}
    IN  /\ \A i, j \in shells : i = j
        /\ ledger.counter > 0 => (ended <=> shells = {})

\* Neither conclude nor an abandon ends a dialogue over an unfinished
\* operation (checkProgression; AbandonWorkflowSession's refusal), however
\* long the ending call was under way.
NothingEndsPending == ended => ~Pending(ledger)

-----------------------------------------------------------------------------
(***************************************************************************)
(* Operations.                                                             *)
(***************************************************************************)
\* "Only its retry or cancellation is accepted" (mutation.go:37-43): while an
\* operation is unfinished, the next event that changes the session is the
\* one that resolves it.
OnlyResolvedWhilePending ==
    [][Pending(ledger) /\ ledger' # ledger
        => ops'[ledger.intent.ref] \in {"done", "cancelled"}]_vars

\* A cancelled operation is not taken up again on its own (mutation.go:188-190
\* and 128-144): its instance records another one only after somebody
\* reported or answered there.
CancelledAsksAgain ==
    [][\A r \in Refs :
        /\ ops[r] = "none" /\ ops'[r] = "pending"
        /\ ledger.cancelled # None
        => ledger'.intent.inst # ledger.cancelled.inst]_vars

\* The recorded operations and the publications behave as the protocol says.
Protocol == INSTANCE MutationProtocol
                WITH applied <- {p.ref : p \in published}
ImplementsProtocol == Protocol!Spec

-----------------------------------------------------------------------------
(***************************************************************************)
(* Captures.                                                               *)
(***************************************************************************)
\* A capture publishes what the user confirmed and the pre-flight looked at,
\* on the branch it looked at, and only after it passed there or the user
\* overrode it (confirmPlayback, playbackConfirmed, verifyCapturePreflight).
PublishesWhatWasAgreed ==
    Pending(ledger) /\ ledger.intent.command = "newEntry" =>
        LET e == evidence[ledger.intent.inst]
        IN  /\ e.confirmed = ledger.intentStore.state
            /\ e.checked = ledger.intentStore.state
            /\ e.branch = ledger.intent.branch
            /\ e.passed

\* An operation is recorded for the branch the session is bound to at that
\* moment (effectiveTargetSource, workflow_registry.go:507-522), not for one
\* bound when the draft was checked or when the handle was opened.
RecordedForTheDeclaredBranch ==
    [][\A r \in Refs :
        ops[r] = "none" /\ ops'[r] = "pending" =>
            ledger'.intent.branch =
                EffectiveTarget(ledger.insts[ledger'.intent.inst].store, branch)]_vars

-----------------------------------------------------------------------------
(***************************************************************************)
(* Progress.                                                               *)
(***************************************************************************)
\* Every call comes back: a cascade is never endless (preflight and write
\* hand over to each other, d-prc-cap) and no failure leaves a call behind.
CallsReturn ==
    \A h \in Handles : call[h].pc \in InCall ~> call[h].pc \in {"closed", "idle"}

-----------------------------------------------------------------------------
(***************************************************************************)
(* What comments of the code say and the code does not do.                 *)
(***************************************************************************)
\* MutationIntent.To (mutation.go:17-20): "a retry completes it, so the
\* instance never re-serves the answered chooser".  A session that is opened
\* after the command finished but before the transition was logged serves
\* the answered chooser again, and Retry no longer owes the transition.
AnsweredChooserNotReserved ==
    \A h \in Handles :
        LET m == mem[h]
        IN  /\ fresh[h] /\ call[h].pc = "idle"
            /\ m.intent # None /\ m.intent.to # None
            /\ ops[m.intent.ref] = "done"
            => ~(Running(m, m.intent.inst) /\ m.insts[m.intent.inst].step = m.intent.step)

\* user-dialogue (20260704-100000-d-prc-dlg.md:9-15): the shell's "resident
\* user junction pends through free dialogue [...] and its conclude path ends
\* the session for good".  A process that stops between the transition to wrap
\* and the shell's completed event leaves a shell that pends no junction when
\* the session is opened again, and nothing that can be asked moves it on.
JunctionPends ==
    \A h \in Handles :
        fresh[h] /\ call[h].pc = "idle" =>
            \A i \in Insts : Running(mem[h], i) /\ ShellClass(mem[h], i)
                => StepOf(mem[h].insts[i]).chooser # "gate"

\* appendStoredEvents (workflow.go:1517): it "refuses events computed before
\* another writer changed the session".  After BindBranch took over a newer
\* version, a kept handle's next events pass although they were computed
\* from the older session.
EventsComputedOnTheStoredSession ==
    [][\A h \in Handles :
        call[h].pc = "idle" /\ call'[h].pc = "cascade" /\ ledger' # ledger
        => SameSession(mem[h], ledger, call[h])]_vars
=============================================================================
