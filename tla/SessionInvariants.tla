-------------------------- MODULE SessionInvariants --------------------------
(***************************************************************************)
(* The inductive invariant of a workflow session whose handles live for    *)
(* one call (Held = FALSE, the way the MCP server uses them), as a         *)
(* conjunction of named parts.  The promises of WorkflowProperties follow  *)
(* from it; WorkflowSession_proofs proves them.                            *)
(***************************************************************************)
EXTENDS WorkflowProperties

\* A started instance is at a step of its own procedure, and so is every
\* place it may be sent back to.
GoodInstance(inst) ==
    inst.status # "unstarted" =>
        /\ inst.proc \in Procs
        /\ inst.step \in StepsOf(inst.proc)
        /\ inst.interactionStep \in StepsOf(inst.proc) \cup {None}
        /\ inst.store.eng.confirmation # None =>
                inst.store.eng.confirmation.step \in StepsOf(inst.proc)

\* An unfinished operation still finds its instance as it was recorded over:
\* running, at the same step, with the same store.
UnfinishedFinds(s) ==
    LET intent == s.intent
        inst == s.insts[intent.inst]
    IN  /\ Running(s, intent.inst)
        /\ intent.step = inst.step
        /\ s.intentStore = inst.store
        /\ s.cancelled = None
        /\ StepOf(inst).op = IF intent.to = None THEN intent.command ELSE None

GoodIntent(s) ==
    s.intent # None =>
        LET intent == s.intent
            proc == s.insts[intent.inst].proc
        IN  /\ Started(s, intent.inst)
            /\ intent.to \in StepsOf(proc) \cup Ends \cup {None}
            /\ intent.command \in Prepared
            /\ Pending(s) => UnfinishedFinds(s)

GoodSession(s) ==
    /\ s \in Sessions
    /\ \A i \in Insts : GoodInstance(s.insts[i])
    /\ \A i \in Insts : i > s.counter => ~Started(s, i)
    /\ GoodIntent(s)

\* What a call under way may rely on in its replay m.
OnInstance(m, c) == c.inst \in Insts /\ Started(m, c.inst)

\* A command that was asked for is the step's own op, or an answer's.
Asked(m, c) ==
    /\ Running(m, c.inst) /\ ~Pending(m) /\ ~c.retry
    /\ StepOf(m.insts[c.inst]).op = IF c.to = None THEN c.fn ELSE None
    /\ c.to \in StepsOf(m.insts[c.inst].proc) \cup Ends \cup {None}

OnOperation(m, c) ==
    /\ Pending(m)
    /\ m.intent.inst = c.inst /\ m.intent.command = c.fn /\ m.intent.to = c.to

CallFits(m, c) ==
    /\ c.pc \in {"cascade", "command", "verify", "publish", "read", "run",
                 "outcome", "move", "finish"} => OnInstance(m, c)
    /\ c.pc = "cascade" => ~Pending(m)
    /\ c.pc = "command" => Asked(m, c) /\ c.fn \in Commands \cap Prepared
    /\ c.pc = "run" => Asked(m, c) /\ c.fn \in Commands \ Prepared
    /\ c.pc \in {"verify", "publish", "read", "outcome"} => OnOperation(m, c)
    /\ c.pc = "move" =>
            /\ Running(m, c.inst) /\ ~Pending(m)
            /\ c.to \in StepsOf(m.insts[c.inst].proc) \cup Ends
    /\ c.pc = "finish" =>
            Running(m, c.inst) /\ ~Pending(m) /\ c.to \in Ends
    /\ c.pc = "rebind" => ~c.opening

\* The handle's replay is of the stored log: it observed the log's version
\* and its call still computes from it.
Current(h) ==
    /\ fresh[h] /\ call[h].pc \notin {"closed", "rebind"}
    /\ call[h].pc = "done" => call[h].opening

Agrees(h) == Current(h) => SameSession(mem[h], ledger, call[h]) /\ view[h] = branch

SessionInv ==
    /\ TypeOK
    /\ readable
    /\ GoodSession(ledger)
    /\ \A h \in Handles :
        GoodSession(mem[h]) /\ CallFits(mem[h], call[h]) /\ Agrees(h)
    /\ ended => ~Pending(ledger)

-----------------------------------------------------------------------------
\* A pre-flight verdict that is current is for the branch the instance's
\* store says was checked (runWorkflowPreflight writes both in one event,
\* capturePreflightState folds the one, Prepare of newEntry takes the other).
VerdictFits ==
    \A i \in Insts :
        check[i].current =>
            /\ Started(ledger, i)
            /\ check[i].branch = ledger.insts[i].store.eng.branch

-----------------------------------------------------------------------------
(***************************************************************************)
(* The dialogue.  A cancellation closes an instance no interaction led to  *)
(* (ApplyCancellation) without ending the dialogue.  An answer is such an  *)
(* interaction, so only a gate's own operation could close a shell: those  *)
(* of the shells that ship publish nothing.                                *)
(***************************************************************************)
ASSUME ShellAssumption ==
    \A p \in Procs : Specs[p].class = "shell" =>
        \A st \in StepsOf(p) : SpecStep(p, st).op \notin Prepared

\* A dialogue that has begun runs its shell; a handle that found none, and
\* whose version still stands, found a dialogue that has not begun.
ShellInv ==
    /\ OneShellUntilTheEnd
    /\ \A h \in Handles : At(h, "shell") /\ fresh[h] /\ ~ended => ledger.counter = 0

-----------------------------------------------------------------------------
(***************************************************************************)
(* Captures.  Agreed steps are the gates that wait for a confirmed         *)
(* playback, and the choosers that lead to one without a confirmation.     *)
(***************************************************************************)
Waits(proc, st) == st \in StepsOf(proc) /\ "playbackConfirmed" \in SpecStep(proc, st).guard

AgreedSteps(proc) ==
    {st \in StepsOf(proc) :
        \/ Waits(proc, st)
        \/ \E o \in SpecStep(proc, st).options :
                o.call # "confirmPlayback" /\ Waits(proc, o.to)}

Chooses(step) == step.chooser # "gate"

\* Where an answer may lead: only a confirmation, of just what is shown,
\* leads to the agreed steps, and it leads to the pre-flight.
DisciplinedOption(proc, st, o) ==
    /\ o.call \notin {"preflightEntry", "newEntry"}
    /\ o.call = "confirmPlayback" => o.collect = {} /\ st \notin AgreedSteps(proc)
    /\ o.to \in AgreedSteps(proc) =>
        \/ st \in AgreedSteps(proc)
        \/ o.call = "confirmPlayback" /\ SpecStep(proc, o.to).op = "preflightEntry"

\* A gate of the agreed steps waits for a confirmed playback; outside them
\* nothing is checked or published, and no transition leads to them.
DisciplinedGate(proc, st) ==
    LET step == SpecStep(proc, st)
    IN  /\ step.op \notin {"confirmPlayback", "recordOverride"}
        /\ st \in AgreedSteps(proc) => Waits(proc, st)
        /\ step.op \in {"preflightEntry", "newEntry"} => st \in AgreedSteps(proc)
        /\ st \notin AgreedSteps(proc) =>
            /\ \A k \in DOMAIN step.transitions :
                    step.transitions[k].to \notin AgreedSteps(proc)
            /\ step.op \in Prepared => AgreedSteps(proc) = {}

ASSUME CaptureAssumption ==
    \A p \in Procs : \A st \in StepsOf(p) :
        IF Chooses(SpecStep(p, st))
        THEN \A o \in SpecStep(p, st).options : DisciplinedOption(p, st, o)
        ELSE SpecStep(p, st).options = {} /\ DisciplinedGate(p, st)

Agreed(s, i) == s.insts[i].step \in AgreedSteps(s.insts[i].proc)

\* The confirmation in the store is the user's last one.
ConfirmedAsStored(i) ==
    LET confirmation == ledger.insts[i].store.eng.confirmation
    IN  confirmation # None => evidence[i].confirmed = confirmation.snapshot

\* At the agreed steps it is, and past the pre-flight what was checked is
\* what was confirmed.
AgreedSoFar(i) ==
    LET inst == ledger.insts[i]
    IN  Running(ledger, i) /\ Agreed(ledger, i) =>
            /\ ConfirmedAsStored(i)
            /\ \/ StepOf(inst).op = "preflightEntry" /\ ~inst.opDone
               \/ inst.store.eng.confirmation # None =>
                    evidence[i].checked = inst.store.eng.confirmation.snapshot

\* What the evidence says of an instance is what its store and the verdict say.
EvidenceFits(i) ==
    LET inst == ledger.insts[i]
    IN  /\ ~Started(ledger, i) => evidence[i] = NoEvidence /\ check[i] = NoCheck
        /\ inst.store.eng.confirmation # None =>
                inst.store.eng.confirmation.step \notin AgreedSteps(inst.proc)
        /\ Running(ledger, i) =>
            /\ evidence[i].branch = inst.store.eng.branch
            /\ check[i].current /\ check[i].accepted => evidence[i].passed

\* An operation an answer asked for was recorded where the answer was given.
AnswerFits(i, to) ==
    LET inst == ledger.insts[i]
    IN  /\ inst.interactionStep = inst.step
        /\ to \in AgreedSteps(inst.proc) => Agreed(ledger, i)

\* What a call under way relies on, past SessionInv.
CallAgrees(c) ==
    LET inst == ledger.insts[c.inst]
        playback == inst.store.eng.confirmation
    IN  /\ c.pc \in {"command", "run"} /\ c.to = None /\ Agreed(ledger, c.inst) =>
                PlaybackConfirmed(inst.store)
        /\ c.pc \in {"command", "run"} /\ c.to = None => c.fn = StepOf(inst).op
        /\ c.pc \in {"command", "run"} /\ c.to # None =>
                \E o \in StepOf(inst).options :
                    o.call = c.fn /\ o.to = c.to /\ inst.interactionStep = inst.step
        /\ c.pc = "run" /\ c.to # None =>
                /\ c.fn = "confirmPlayback" => evidence[c.inst].confirmed = inst.store.state
                /\ c.fn = "recordOverride" => evidence[c.inst].passed
        /\ c.pc = "move" /\ c.to \in AgreedSteps(inst.proc) =>
                \/ Agreed(ledger, c.inst) /\ StepOf(inst).op = None
                \/ /\ SpecStep(inst.proc, c.to).op = "preflightEntry"
                   /\ ConfirmedAsStored(c.inst)

AgreementInv ==
    /\ \A i \in Insts : AgreedSoFar(i) /\ EvidenceFits(i)
    /\ PublishesWhatWasAgreed
    /\ Pending(ledger) /\ ledger.intent.to # None =>
            AnswerFits(ledger.intent.inst, ledger.intent.to)
    /\ \A h \in Handles : Current(h) => CallAgrees(call[h])

-----------------------------------------------------------------------------
(***************************************************************************)
(* Operations.                                                             *)
(***************************************************************************)
\* The graph store holds operation r's publication.
Made(r) == \E p \in published : p.ref = r

\* The latest operation recorded is the one the log holds; those before it
\* are resolved, and what is reported done was made.
OperationInv ==
    /\ ledger.intent = None => lastRef = 0
    /\ ledger.intent # None => ledger.intent.ref = lastRef
    /\ \A r \in Refs :
        /\ ops[r] = "none" <=> r > lastRef
        /\ ops[r] = "pending" <=> r = lastRef /\ Pending(ledger)
        /\ ops[r] = "done" => Made(r)
    /\ \A h \in Handles :
        /\ mem[h].intent # None => mem[h].intent.ref <= lastRef
        /\ call[h].pc \in {"read", "outcome"} => Made(mem[h].intent.ref)

\* A cancellation is of the latest operation, and no call on the stored log
\* goes on at its instance.
CancelInv ==
    /\ ledger.cancelled # None =>
        ledger.intent # None /\ ledger.cancelled.inst = ledger.intent.inst
    /\ \A h \in Handles :
        Current(h) /\ ledger.cancelled # None => call[h].inst # ledger.cancelled.inst
=============================================================================
