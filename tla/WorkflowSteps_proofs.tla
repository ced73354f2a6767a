----------------------- MODULE WorkflowSteps_proofs -----------------------
(***************************************************************************)
(* What follows from the inductive invariant of a workflow session (module *)
(* WorkflowSession_proofs): what a step can do to a session whose latest   *)
(* operation is unfinished, the branch an operation is recorded for, the   *)
(* dialogue's shell, and what a capture publishes.                         *)
(***************************************************************************)
EXTENDS WorkflowSession_proofs

\* A handle that may append, and is neither opening, rebinding nor done, has
\* the operation the log has.
LEMMA SameOperation ==
    ASSUME SessionInv, NEW h \in Handles, VerifiedBinding(h),
           call[h].pc \notin {"closed", "rebind", "done"}
    PROVE  /\ mem[h].intent = ledger.intent
           /\ Pending(mem[h]) <=> Pending(ledger)
           /\ CallFits(mem[h], call[h])
  <1>1. SameSession(mem[h], ledger, call[h]) /\ CallFits(mem[h], call[h])
    BY LedgerFacts DEF VerifiedBinding
  <1> QED
    BY <1>1 DEF SameSession, Pending

\* Noting something leaves the stored session alone.
LEMMA NotesChangeNothing ==
    ASSUME NEW h \in Handles, NEW m, NEW c, Log(h, NoteEvent, m, c)
    PROVE  ledger' = ledger
  BY NoteFacts DEF Log, AppendEvent

\* The event that ends an operation is the one it is known by.
LEMMA PendingRef ==
    ASSUME SessionInv, Pending(ledger)
    PROVE  ledger.intent.ref \in Refs
  <1>1. ledger.intent \in Intents
    BY PendingFacts DEF SessionInv
  <1> QED
    BY <1>1 DEF Intents

\* What a call that moves the dialogue is refused over.
LEMMA RefusedWhilePending ==
    ASSUME SessionInv, Pending(ledger), NEW h \in Handles, At(h, "idle") \/ At(h, "shell"),
           VerifiedBinding(h)
    PROVE  ~CheckProgression(mem[h])
  BY SameOperation DEF At, CheckProgression

\* A procedure starts on the stored session, over no unfinished operation.
LEMMA StartChecks ==
    ASSUME NEW h, NEW proc, NEW parent, NEW opening, Start(h, proc, parent, opening)
    PROVE  VerifiedBinding(h) /\ CheckProgression(mem[h])
  BY DEF Start, Log, AppendEvent

\* Asked over an unfinished operation, only its cancellation changes the
\* stored session.
LEMMA AskWhilePending ==
    ASSUME SessionInv, Pending(ledger), NEW h \in Handles, Ask(h)
    PROVE  ledger' = ledger \/ ops'[ledger.intent.ref] = "cancelled"
  <1>1. CASE Load(h) \/ ResyncBinding(h) \/ BindBranch(h)
    BY <1>1 DEF Load, ResyncBinding, BindBranch, Bind, logged
  <1>2. CASE StartProcedure(h)
    <2>1. At(h, "idle") /\ VerifiedBinding(h) /\ CheckProgression(mem[h])
      BY <1>2, StartChecks DEF StartProcedure, Ready
    <2> QED
      BY <2>1, RefusedWhilePending
  <1>3. CASE Note(h)
    BY <1>3, NotesChangeNothing DEF Note
  <1>4. ASSUME NEW i \in Insts, Report(h, i) \/ Answer(h, i) \/ Abandon(h, i)
        PROVE  FALSE
    <2>1. At(h, "idle") /\ VerifiedBinding(h) /\ CheckProgression(mem[h])
      BY <1>4 DEF Report, Answer, Abandon, Ready, Log, AppendEvent
    <2> QED
      BY <2>1, RefusedWhilePending
  <1>5. ASSUME NEW i \in Insts, Retry(h, i) PROVE ledger' = ledger
    BY <1>5 DEF Retry, Go, logged
  <1>6. ASSUME NEW i \in Insts, Park(h, i) PROVE ledger' = ledger
    BY <1>6, NotesChangeNothing DEF Park
  <1>7. ASSUME NEW i \in Insts, Cancel(h, i)
        PROVE  ops'[ledger.intent.ref] = "cancelled"
    <2> DEFINE ev == CancelledEvent(i, mem[h].intent.ref, mem[h].intent.step,
                                    mem[h].intent.command, mem[h].insts[i].interactionStep)
    <2>1. At(h, "idle") /\ VerifiedBinding(h) /\ ops' = OpsAfter(ev)
      BY <1>7 DEF Cancel, Ready, Log, AppendEvent
    <2>2. mem[h].intent = ledger.intent
      BY <2>1, SameOperation DEF At
    <2>3. ev.type = "cancelled" /\ ev.ref = ledger.intent.ref
      BY <2>2 DEF CancelledEvent
    <2> HIDE DEF ev
    <2>4. ops \in [Refs -> OpStates] /\ ops' = [ops EXCEPT ![ledger.intent.ref] = "cancelled"]
      BY <2>1, <2>3 DEF OpsAfter, SessionInv, TypeOK
    <2> QED
      BY <2>4, PendingRef
  <1> QED
    BY <1>1, <1>2, <1>3, <1>4, <1>5, <1>6, <1>7 DEF Ask

\* Of the steps calls take by themselves, only the operation's outcome
\* changes a session whose operation is unfinished: a cascade, a transition
\* or another command is not under way on the stored session.
LEMMA ProceedWhilePending ==
    ASSUME SessionInv, Pending(ledger), NEW h \in Handles, Proceed(h)
    PROVE  ledger' = ledger \/ ops'[ledger.intent.ref] = "done"
  <1>1. CASE StartShell(h)
    <2>1. At(h, "shell") /\ VerifiedBinding(h) /\ CheckProgression(mem[h])
      BY <1>1, StartChecks DEF StartShell
    <2> QED
      BY <2>1, RefusedWhilePending
  <1>2. CASE CascadeStops(h) \/ RunOp(h) \/ VerifyBinding(h) \/ CallFails(h)
    BY <1>2 DEF CascadeStops, RunOp, VerifyBinding, CallFails, Go, logged
  <1>3. CASE Publish(h) \/ PublishThenFail(h) \/ RebindFails(h) \/ Return(h) \/ AppendRefused(h)
    BY <1>3 DEF Publish, PublishThenFail, RebindFails, Return, AppendRefused, logged
  <1>4. CASE \/ ReopenPlayback(h) \/ Advance(h) \/ Move(h) \/ Finish(h)
             \/ RecordIntent(h) \/ RunCommand(h)
    <2>1. /\ call[h].pc \in {"cascade", "move", "finish", "command", "run"}
          /\ VerifiedBinding(h)
      BY <1>4 DEF ReopenPlayback, Advance, Move, Finish, RecordIntent, RunCommand,
                  OnGate, At, Log, AppendEvent
    <2>2. Pending(mem[h]) /\ CallFits(mem[h], call[h])
      BY <2>1, SameOperation
    <2> QED
      BY <2>1, <2>2 DEF CallFits, Asked
  <1>5. CASE LogPublishedRead(h)
    BY <1>5, NotesChangeNothing DEF LogPublishedRead
  <1>6. CASE RecordOutcome(h)
    <2>1. PICK w : LET ev == OutcomeEvent(call[h].inst, mem[h].intent.ref,
                                          mem[h].insts[call[h].inst].step, call[h].fn, w)
                   IN  ops' = OpsAfter(ev) /\ VerifiedBinding(h) /\ At(h, "outcome")
      BY <1>6 DEF RecordOutcome, Log, AppendEvent
    <2> DEFINE ev == OutcomeEvent(call[h].inst, mem[h].intent.ref,
                                  mem[h].insts[call[h].inst].step, call[h].fn, w)
    <2>2. mem[h].intent = ledger.intent
      BY <2>1, SameOperation DEF At
    <2>3. ev.type = "mutation_outcome" /\ ev.ref = ledger.intent.ref
      BY <2>2 DEF OutcomeEvent
    <2>4. ops' = OpsAfter(ev)
      BY <2>1
    <2> HIDE DEF ev
    <2>5. ops \in [Refs -> OpStates] /\ ops' = [ops EXCEPT ![ledger.intent.ref] = "done"]
      BY <2>3, <2>4 DEF OpsAfter, SessionInv, TypeOK
    <2> QED
      BY <2>5, PendingRef
  <1> QED
    BY <1>1, <1>2, <1>3, <1>4, <1>5, <1>6 DEF Proceed

\* "Only its retry or cancellation is accepted" (mutation.go:37-43), for any
\* number of handles, procedures and operations: while an operation is
\* unfinished nothing but its own outcome or cancellation changes the
\* session.
THEOREM OnlyResolved == Held = FALSE => (Spec => OnlyResolvedWhilePending)
  <1> SUFFICES ASSUME Held = FALSE PROVE Spec => OnlyResolvedWhilePending
    OBVIOUS
  <1> DEFINE Resolves == Pending(ledger) /\ ledger' # ledger
                            => ops'[ledger.intent.ref] \in {"done", "cancelled"}
  <1>1. SessionInv /\ [Next]_vars => [Resolves]_vars
    <2> SUFFICES ASSUME SessionInv, Next, Pending(ledger), ledger' # ledger
                 PROVE  ops'[ledger.intent.ref] \in {"done", "cancelled"}
      OBVIOUS
    <2>1. ASSUME NEW h \in Handles, Crash(h) PROVE FALSE
      BY <2>1 DEF Crash, logged
    <2>2. ~AbandonSession
      BY DEF AbandonSession
    <2> QED
      BY <2>1, <2>2, AskWhilePending, ProceedWhilePending DEF Next
  <1>2. Spec => []SessionInv
    BY SessionInvariant
  <1> QED
    BY <1>1, <1>2, PTL DEF Spec, OnlyResolvedWhilePending
-----------------------------------------------------------------------------
(***************************************************************************)
(* How operations stand: each step records one, resolves one, cancels one, *)
(* makes one's publication, or leaves them all as they are.                *)
(***************************************************************************)
PlainTypes == {"started", "report", "chooser_answer", "op_result", "transition",
               "completed", "abandoned", "note"}

\* What the fold makes of the latest operation with any other event.
LEMMA PlainApply ==
    ASSUME NEW s \in Sessions, NEW ev, ev.type \in PlainTypes
    PROVE  /\ Apply(s, ev).intent = s.intent
           /\ Apply(s, ev).intentDone = s.intentDone
           /\ Apply(s, ev).cancelled =
                IF ev.type \in {"report", "chooser_answer"}
                THEN ClearCancellation(s.cancelled, ev.inst) ELSE s.cancelled
  <1>1. CASE ev.type = "started"
    <2>1. Apply(s, ev) = ApplyStarted(s, ev)
      BY <1>1, ApplyByType
    <2> QED
      BY <1>1, <2>1 DEF ApplyStarted, Sessions
  <1>2. CASE ev.type = "report"
    <2>1. Apply(s, ev) = ApplyReport(s, ev)
      BY <1>2, ApplyByType
    <2> QED
      BY <1>2, <2>1 DEF ApplyReport, Sessions
  <1>3. CASE ev.type = "chooser_answer"
    <2>1. Apply(s, ev) = ApplyAnswer(s, ev)
      BY <1>3, ApplyByType
    <2> QED
      BY <1>3, <2>1 DEF ApplyAnswer, Sessions
  <1>4. CASE ev.type = "op_result"
    <2>1. Apply(s, ev) = ApplyResult(s, ev)
      BY <1>4, ApplyByType
    <2>2. s.intentDone \in BOOLEAN
      BY DEF Sessions
    <2>3. (s.intentDone \/ ev.type = "mutation_outcome") = s.intentDone
      BY <1>4, <2>2
    <2>4. \E b : Apply(s, ev) = [s EXCEPT !.insts[ev.inst] = b,
                                        !.intentDone = s.intentDone,
                                        !.intentStore = s.intentStore]
      BY <1>4, <2>1, <2>3 DEF ApplyResult
    <2> QED
      BY <1>4, <2>4 DEF Sessions
  <1>5. CASE ev.type = "transition"
    <2>1. Apply(s, ev) = ApplyTransition(s, ev)
      BY <1>5, ApplyByType
    <2> QED
      BY <1>5, <2>1 DEF ApplyTransition, Sessions
  <1>6. CASE ev.type = "completed"
    <2>1. Apply(s, ev) = [s EXCEPT !.insts[ev.inst] = [@ EXCEPT !.status = "completed"]]
      BY <1>6, ApplyByType
    <2> QED
      BY <1>6, <2>1 DEF Sessions
  <1>8. CASE ev.type = "abandoned"
    <2>1. Apply(s, ev) = [s EXCEPT !.insts[ev.inst] = [@ EXCEPT !.status = "abandoned"]]
      BY <1>8, ApplyByType
    <2> QED
      BY <1>8, <2>1 DEF Sessions
  <1>7. CASE ev.type = "note"
    BY <1>7, ApplyByType
  <1> QED
    BY <1>1, <1>2, <1>3, <1>4, <1>5, <1>6, <1>7, <1>8 DEF PlainTypes

\* A step of h that leaves operations as they are, and no call on the stored
\* log at the instance of the cancelled one.
Uneventful(h) ==
    /\ UNCHANGED <<ops, lastRef, published>>
    /\ ledger'.intent = ledger.intent /\ ledger'.intentDone = ledger.intentDone
    /\ ledger'.cancelled \in {ledger.cancelled, None}
    /\ \A g \in Handles \ {h} :
        mem'[g] = mem[g] /\ call'[g] = call[g] /\ (fresh'[g] => fresh[g])
    /\ mem'[h].intent \in {mem[h].intent, ledger.intent, None}
    /\ call'[h].pc \in {"read", "outcome"} =>
        call[h].pc = "read" /\ mem'[h].intent = mem[h].intent
    /\ Current(h)' /\ ledger'.cancelled # None =>
        call'[h].inst # ledger'.cancelled.inst

LEMMA UneventfulKeeps ==
    ASSUME SessionInv, OperationInv, CancelInv, NEW h \in Handles, Uneventful(h)
    PROVE  OperationInv' /\ CancelInv'
  <1>0. lastRef \in Nat
    BY EngineAssumption DEF SessionInv, TypeOK
  <1>1. /\ ops' = ops /\ lastRef' = lastRef /\ published' = published
        /\ ledger'.intent = ledger.intent /\ (Pending(ledger') <=> Pending(ledger))
    BY DEF Uneventful, Pending
  <1>2. \A r : Made(r)' <=> Made(r)
    BY <1>1 DEF Made
  <1>3. ASSUME NEW g \in Handles, mem'[g].intent # None
        PROVE  mem'[g].intent.ref <= lastRef
    <2>1. CASE g # h
      BY <1>3, <2>1 DEF Uneventful, OperationInv
    <2>2. CASE g = h
      <3>1. /\ ledger.intent # None => ledger.intent.ref = lastRef
            /\ mem[h].intent # None => mem[h].intent.ref <= lastRef
        BY DEF OperationInv
      <3>2. mem'[h].intent \in {mem[h].intent, ledger.intent}
        BY <1>3, <2>2 DEF Uneventful
      <3> QED
        BY <1>0, <1>3, <2>2, <3>1, <3>2
    <2> QED
      BY <2>1, <2>2
  <1>4. ASSUME NEW g \in Handles, call'[g].pc \in {"read", "outcome"}
        PROVE  Made(mem[g].intent.ref) /\ mem'[g].intent = mem[g].intent
    BY <1>4 DEF Uneventful, OperationInv
  <1>5. ASSUME NEW g \in Handles, call'[g].pc \in {"read", "outcome"}
        PROVE  Made(mem[g].intent.ref)'
    BY <1>1, <1>4, <1>5 DEF Made
  <1>6. \A r \in Refs : /\ ops'[r] = "none" <=> r > lastRef'
                        /\ ops'[r] = "pending" <=> r = lastRef' /\ Pending(ledger')
                        /\ ops'[r] = "done" => Made(r)'
    BY <1>1, <1>2 DEF OperationInv
  <1>7. /\ ledger'.intent = None => lastRef' = 0
        /\ ledger'.intent # None => ledger'.intent.ref = lastRef'
    BY <1>1 DEF OperationInv
  <1>8. OperationInv'
    BY <1>1, <1>3, <1>5, <1>6, <1>7 DEF OperationInv
  <1>9. ASSUME NEW g \in Handles, Current(g)', ledger'.cancelled # None
        PROVE  call'[g].inst # ledger'.cancelled.inst
    BY <1>9 DEF Uneventful, CancelInv, Current
  <1> QED
    BY <1>8, <1>9 DEF CancelInv, Uneventful

\* An append of any other event is such a step, where the call goes on at an
\* instance that has not been cancelled.
LEMMA LogIsUneventful ==
    ASSUME SessionInv, SessionInv', CancelInv,
           NEW h \in Handles, NEW ev, NEW m, NEW c, Log(h, ev, m, c),
           ev.type \in PlainTypes,
           c.pc \in {"closed", "rebind", "done", "read", "outcome"} => m.intent = mem[h].intent,
           c.pc \in {"read", "outcome"} => call[h].pc = "read",
           \/ c.inst = None
           \/ /\ c.inst = call[h].inst /\ call[h].pc \notin {"closed", "rebind"}
              /\ call[h].pc = "done" => c = call[h]
           \/ c.inst = ev.inst /\ ev.type \in {"report", "chooser_answer"}
           \/ c.inst = ev.inst /\ ev.inst \in Insts /\ ~Started(ledger, ev.inst)
    PROVE  Uneventful(h)
  <1>1. /\ ledger \in Sessions /\ GoodIntent(ledger) /\ readable'
        /\ call \in [Handles -> Calls] /\ mem \in [Handles -> Sessions]
    BY DEF SessionInv, TypeOK, GoodSession
  <1>2. /\ ledger' = Apply(ledger, ev) /\ fresh[h] /\ \A g \in Handles : fresh'[g] <=> g = h
        /\ mem'[h] = m /\ call'[h] = c
        /\ \A g \in Handles \ {h} : mem'[g] = mem[g] /\ call'[g] = call[g]
        /\ published' = published
    BY <1>1 DEF Log, AppendEvent, VerifiedBinding
  <1>3. ops' = ops /\ lastRef' = lastRef
    BY DEF Log, AppendEvent, OpsAfter, PlainTypes
  <1>4. /\ ledger'.intent = ledger.intent /\ ledger'.intentDone = ledger.intentDone
        /\ ledger'.cancelled = IF ev.type \in {"report", "chooser_answer"}
                               THEN ClearCancellation(ledger.cancelled, ev.inst)
                               ELSE ledger.cancelled
    BY <1>1, <1>2, PlainApply
  <1>5. mem'[h].intent \in {mem[h].intent, ledger.intent}
    <2>1. CASE c.pc \in {"closed", "rebind", "done"}
      BY <1>2, <2>1
    <2>2. CASE c.pc \notin {"closed", "rebind", "done"}
      <3>1. Current(h)'
        BY <1>2, <2>2 DEF Current
      <3>2. SameSession(mem[h], ledger, call[h])'
        BY <3>1 DEF SessionInv, Agrees
      <3> QED
        BY <1>4, <3>2 DEF SameSession
    <2> QED
      BY <2>1, <2>2
  <1>6. ledger.cancelled # None =>
            /\ ledger.cancelled.inst = ledger.intent.inst
            /\ ledger.cancelled.inst \in Insts /\ Started(ledger, ledger.cancelled.inst)
    BY <1>1 DEF CancelInv, GoodIntent, Sessions, Cancellations
  <1>7. ASSUME Current(h)', ledger'.cancelled # None PROVE c.inst # ledger'.cancelled.inst
    <2>1. CASE c.inst = None
      BY <1>4, <1>6, <1>7, <2>1, EngineAssumption DEF ClearCancellation, Insts
    <2>2. CASE /\ c.inst = call[h].inst /\ call[h].pc \notin {"closed", "rebind"}
               /\ call[h].pc = "done" => c = call[h]
      <3>1. Current(h)
        BY <1>2, <1>7, <2>2 DEF Current
      <3> QED
        BY <1>4, <1>7, <2>2, <3>1 DEF CancelInv, ClearCancellation
    <2>3. CASE c.inst = ev.inst /\ ev.type \in {"report", "chooser_answer"}
      BY <1>4, <1>7, <2>3 DEF ClearCancellation
    <2>4. CASE c.inst = ev.inst /\ ev.inst \in Insts /\ ~Started(ledger, ev.inst)
      BY <1>4, <1>6, <1>7, <2>4 DEF ClearCancellation
    <2> QED
      BY <2>1, <2>2, <2>3, <2>4
  <1> QED
    BY <1>2, <1>3, <1>4, <1>5, <1>7 DEF Uneventful, ClearCancellation

\* So is a step that appends nothing.
LEMMA GoIsUneventful ==
    ASSUME SessionInv, CancelInv, NEW h \in Handles, NEW c, Go(h, c),
           c.pc \notin {"read", "outcome"},
           \/ c.inst = None
           \/ c.inst = call[h].inst /\ call[h].pc \notin {"closed", "rebind", "done"}
           \/ fresh[h] => ledger.cancelled = None
    PROVE  Uneventful(h)
  <1>1. ledger \in Sessions /\ call \in [Handles -> Calls]
    BY DEF SessionInv, TypeOK, GoodSession
  <1>2. /\ UNCHANGED <<ops, lastRef, published, ledger, mem, fresh>>
        /\ call'[h] = c /\ \A g \in Handles \ {h} : call'[g] = call[g]
    BY <1>1 DEF Go, logged

  <1>3. ledger.cancelled # None => ledger.cancelled.inst # None
    BY <1>1, EngineAssumption DEF Sessions, Cancellations, Insts
  <1>4. Current(h)' /\ ledger'.cancelled # None => c.inst # ledger'.cancelled.inst
    BY <1>2, <1>3 DEF Current, CancelInv
  <1> QED
    BY <1>2, <1>4 DEF Uneventful

\* So does a handle that goes.
LEMMA DropIsUneventful ==
    ASSUME SessionInv, NEW h \in Handles, Drop(h), UNCHANGED logged, UNCHANGED published
    PROVE  Uneventful(h)
  <1>1. /\ call \in [Handles -> Calls] /\ mem \in [Handles -> Sessions]
        /\ fresh \in [Handles -> BOOLEAN]
    BY DEF SessionInv, TypeOK
  <1>2. NoCall("closed").pc = "closed" /\ NewSession.intent = None
    BY DEF NoCall, NewSession
  <1>3. ~Current(h)' /\ mem'[h].intent = None /\ call'[h].pc = "closed"
    BY <1>1, <1>2 DEF Drop, Current
  <1>4. \A g \in Handles \ {h} :
            mem'[g] = mem[g] /\ call'[g] = call[g] /\ (fresh'[g] => fresh[g])
    BY <1>1 DEF Drop
  <1> QED
    BY <1>3, <1>4 DEF logged, Uneventful

LEMMA RestIsUneventful ==
    ASSUME SessionInv, NEW h \in Handles, Rest(h), UNCHANGED logged, UNCHANGED published
    PROVE  Uneventful(h)
  <1>1. CASE Held \/ call[h].opening
    <2>1. call \in [Handles -> Calls] /\ ledger \in Sessions
      BY DEF SessionInv, TypeOK, GoodSession
    <2>2. NoCall("idle").pc = "idle" /\ NoCall("idle").inst = None
      BY DEF NoCall
    <2>3. /\ UNCHANGED <<mem, fresh, ledger, ops, lastRef>> /\ call'[h] = NoCall("idle")
          /\ \A g \in Handles \ {h} : call'[g] = call[g]
      BY <1>1, <2>1 DEF Rest, logged
    <2>4. ledger.cancelled # None => ledger.cancelled.inst # None
      BY <2>1, EngineAssumption DEF Sessions, Cancellations, Insts
    <2> QED
      BY <2>2, <2>3, <2>4 DEF Uneventful
  <1>2. CASE ~(Held \/ call[h].opening)
    BY <1>2, DropIsUneventful DEF Rest
  <1> QED
    BY <1>1, <1>2
-----------------------------------------------------------------------------
\* A start is of an instance that has not started.
LEMMA StartIsUneventful ==
    ASSUME SessionInv, SessionInv', CancelInv, NEW h \in Handles, NEW proc, NEW parent,
           NEW opening \in BOOLEAN, call[h].pc \in {"shell", "idle"},
           Start(h, proc, parent, opening)
    PROVE  Uneventful(h)
  <1> DEFINE i == mem[h].counter + 1
             c == [CallOn(i) EXCEPT !.opening = opening]
  <1>1. PICK ev, m : Log(h, ev, m, c) /\ ev.type = "started" /\ ev.inst = i /\ i \in Insts
    BY DEF Start, StartedEvent
  <1>2. c.pc = "cascade" /\ c.inst = i
    BY DEF CallOn, NoCall
  <1>3. fresh[h]
    BY <1>1 DEF Log, AppendEvent, VerifiedBinding
  <1>4. mem[h].counter = ledger.counter
    BY <1>3, LedgerFacts DEF SameSession
  <1>5. ~Started(ledger, i)
    <2>1. ledger.counter \in Nat
      BY EngineAssumption DEF SessionInv, GoodSession, Sessions
    <2> QED
      BY <1>1, <1>4, <2>1 DEF SessionInv, GoodSession
  <1> HIDE DEF c, i
  <1> QED
    BY <1>1, <1>2, <1>5, LogIsUneventful DEF PlainTypes

\* Notes are of no operation.
LEMMA NoteIsUneventful ==
    ASSUME SessionInv, SessionInv', CancelInv, NEW h \in Handles, NEW c,
           Log(h, NoteEvent, mem[h], c),
           c.pc \in {"read", "outcome"} => call[h].pc = "read",
           \/ c.inst = None
           \/ /\ c.inst = call[h].inst /\ call[h].pc \notin {"closed", "rebind"}
              /\ call[h].pc = "done" => c = call[h]
    PROVE  Uneventful(h)
  <1> DEFINE ev == NoteEvent
  <1>1. ev.type = "note" /\ Log(h, ev, mem[h], c)
    BY DEF NoteEvent
  <1> HIDE DEF ev
  <1> QED
    BY <1>1, LogIsUneventful DEF PlainTypes

\* What is asked, but for a cancellation.
LEMMA AskIsUneventful ==
    ASSUME SessionInv, SessionInv', CancelInv, NEW h \in Handles, Ask(h),
           \A i \in Insts : ~Cancel(h, i)
    PROVE  Uneventful(h)
  <1>0. /\ call \in [Handles -> Calls] /\ fresh \in [Handles -> BOOLEAN]
        /\ mem \in [Handles -> Sessions] /\ ledger \in Sessions
        /\ \A pc : NoCall(pc).pc = pc /\ NoCall(pc).inst = None
    BY DEF SessionInv, TypeOK, GoodSession, NoCall
  <1>a. ledger.cancelled # None => ledger.cancelled.inst # None
    BY <1>0, EngineAssumption DEF Sessions, Cancellations, Insts
  <1>1. CASE Load(h)
    <2> DEFINE pc == IF RunningShell(ledger) THEN "idle" ELSE "shell"
    <2>1. /\ call' = [call EXCEPT ![h] = NoCall(pc)] /\ mem' = [mem EXCEPT ![h] = ledger]
          /\ \A g \in Handles \ {h} : fresh'[g] => fresh[g]
          /\ UNCHANGED logged /\ published' = published
      BY <1>1 DEF Load
    <2>2. call'[h] = NoCall(pc) /\ pc \notin {"read", "outcome"}
      BY <1>0, <2>1
    <2> HIDE DEF pc
    <2> QED
      BY <1>0, <1>a, <2>1, <2>2 DEF Uneventful, logged
  <1>2. CASE Note(h)
    <2>1. Log(h, NoteEvent, mem[h], call[h]) /\ call[h].pc \in {"idle", "done"}
      BY <1>2 DEF Note
    <2> QED
      BY <2>1, NoteIsUneventful
  <1>3. CASE BindBranch(h)
    <2>1. /\ call' = [call EXCEPT ![h] = NoCall("done")] /\ mem' = mem
          /\ fresh' = [g \in Handles |-> g = h] /\ UNCHANGED logged /\ published' = published
      BY <1>3 DEF BindBranch, Bind
    <2> QED
      BY <1>0, <1>a, <2>1 DEF Uneventful, logged
  <1>4. CASE ResyncBinding(h)
    <2>1. /\ call' = [call EXCEPT ![h] = NoCall("rebind")] /\ mem' = mem
          /\ fresh' = [fresh EXCEPT ![h] = TRUE] /\ UNCHANGED logged /\ published' = published
      BY <1>4 DEF ResyncBinding
    <2> QED
      BY <1>0, <1>a, <2>1 DEF Uneventful, logged
  <1>5. ASSUME NEW i \in Insts, Retry(h, i) PROVE Uneventful(h)
    <2>1. CallOn(i).pc = "cascade"
      BY DEF CallOn, NoCall
    <2> DEFINE c == [NoCall("verify") EXCEPT
                        !.inst = i, !.fn = mem[h].intent.command,
                        !.to = mem[h].intent.to, !.retry = TRUE]
    <2>2. c.pc = "verify"
      BY DEF NoCall
    <2>3. Go(h, CallOn(i)) \/ Go(h, c)
      BY <1>5 DEF Retry
    <2>4. mem[h].cancelled = None /\ call[h].pc = "idle"
      BY <1>5 DEF Retry, Retryable, Ready, At
    <2>5. fresh[h] => ledger.cancelled = None
      BY <2>4, LedgerFacts DEF SameSession
    <2> HIDE DEF c
    <2> QED
      BY <2>1, <2>2, <2>3, <2>5, GoIsUneventful
  <1>6. ASSUME NEW i \in Insts, Park(h, i) PROVE Uneventful(h)
    <2>1. Log(h, NoteEvent, mem[h], NoCall("done")) /\ call[h].pc = "idle"
      BY <1>6 DEF Park, At
    <2> QED
      BY <1>0, <2>1, NoteIsUneventful
  <1>7. CASE StartProcedure(h)
    <2>1. PICK proc, parent : Start(h, proc, parent, FALSE) /\ call[h].pc = "idle"
      BY <1>7 DEF StartProcedure, Ready, At
    <2> QED
      BY <2>1, StartIsUneventful
  <1>8. ASSUME NEW i \in Insts, Report(h, i) PROVE Uneventful(h)
    <2>0. PICK fields, m : Log(h, ReportEvent(i, mem[h].insts[i].step, fields), m, CallOn(i))
      BY <1>8 DEF Report
    <2> DEFINE ev == ReportEvent(i, mem[h].insts[i].step, fields)
    <2>1. Log(h, ev, m, CallOn(i)) /\ ev.type = "report" /\ ev.inst = i
      BY <2>0 DEF ReportEvent
    <2>2. CallOn(i).pc = "cascade" /\ CallOn(i).inst = i
      BY DEF CallOn, NoCall
    <2> HIDE DEF ev
    <2> QED
      BY <2>1, <2>2, LogIsUneventful DEF PlainTypes
  <1>9. ASSUME NEW i \in Insts, Answer(h, i) PROVE Uneventful(h)
    <2>0. PICK o, fields, m :
            Log(h, AnswerEvent(i, mem[h].insts[i].step, o, fields), m,
                IF o.call = None THEN MoveCall(i, o.to) ELSE CommandCall(i, o.call, o.to))
      BY <1>9 DEF Answer
    <2> DEFINE ev == AnswerEvent(i, mem[h].insts[i].step, o, fields)
               c == IF o.call = None THEN MoveCall(i, o.to)
                    ELSE CommandCall(i, o.call, o.to)
    <2>1. ev.type = "chooser_answer" /\ ev.inst = i
      BY DEF AnswerEvent
    <2>2. c.pc \in {"move", "command", "run"} /\ c.inst = i
      BY DEF MoveCall, CommandCall, NoCall
    <2>3. Log(h, ev, m, c)
      BY <2>0
    <2> HIDE DEF c, ev
    <2> QED
      BY <2>1, <2>2, <2>3, LogIsUneventful DEF PlainTypes
  <1>10. ASSUME NEW i \in Insts, Abandon(h, i) PROVE Uneventful(h)
    <2> DEFINE ev == EndEvent(i, EndAbandoned)
               m == [mem[h] EXCEPT !.insts[i] = [@ EXCEPT !.status = "abandoned"]]
    <2>1. Log(h, ev, m, NoCall("done"))
      BY <1>10 DEF Abandon
    <2>2. ev.type \in {"completed", "abandoned"}
      BY DEF EndEvent
    <2>3. m.intent = mem[h].intent
      BY <1>0 DEF Sessions
    <2> HIDE DEF ev, m
    <2> QED
      BY <1>0, <2>1, <2>2, <2>3, LogIsUneventful DEF PlainTypes
  <1> QED
    BY <1>1, <1>2, <1>3, <1>4, <1>5, <1>6, <1>7, <1>8, <1>9, <1>10 DEF Ask
\* What a call does by itself, but for its operation's steps.
LEMMA ProceedIsUneventful ==
    ASSUME SessionInv, SessionInv', CancelInv, NEW h \in Handles,
           \/ StartShell(h) \/ CascadeStops(h) \/ ReopenPlayback(h) \/ RunOp(h)
           \/ Advance(h) \/ Move(h) \/ Finish(h) \/ VerifyBinding(h)
           \/ LogPublishedRead(h) \/ RunCommand(h) \/ CallFails(h) \/ RebindFails(h)
           \/ Return(h) \/ AppendRefused(h) \/ Crash(h)
    PROVE  Uneventful(h)
  <1>0. /\ call \in [Handles -> Calls] /\ call[h] \in Calls
        /\ \A pc : NoCall(pc).pc = pc /\ NoCall(pc).inst = None
    BY DEF SessionInv, TypeOK, NoCall
  <1>a. \A i, to : AfterMove(i, to).inst = i /\ AfterMove(i, to).pc \in {"finish", "cascade"}
    BY DEF AfterMove, CallOn, NoCall
  <1>1. CASE StartShell(h)
    <2>1. PICK proc : Start(h, proc, None, TRUE) /\ call[h].pc = "shell"
      BY <1>1 DEF StartShell, At
    <2> QED
      BY <2>1, StartIsUneventful
  <1>2. CASE CascadeStops(h)
    <2> DEFINE c == [NoCall("done") EXCEPT !.opening = call[h].opening]
    <2>1. c.pc = "done" /\ c.inst = None
      BY DEF NoCall
    <2>2. Go(h, c)
      BY <1>2 DEF CascadeStops
    <2> HIDE DEF c
    <2> QED
      BY <2>1, <2>2, GoIsUneventful
  <1>3. CASE ReopenPlayback(h)
    <2> DEFINE i == call[h].inst
               inst == mem[h].insts[i]
               ev == ResultEvent(i, inst.step, "reopenPlayback", [confirmation |-> None])
               c == MoveCall(i, inst.store.eng.confirmation.step)
    <2>1. PICK m : Log(h, ev, m, c)
      BY <1>3 DEF ReopenPlayback
    <2>2. ev.type = "op_result" /\ call[h].pc = "cascade"
      BY <1>3 DEF ReopenPlayback, ResultEvent, OnGate
    <2>3. c.pc = "move" /\ c.inst = i
      BY DEF MoveCall, NoCall
    <2> HIDE DEF c, ev
    <2> QED
      BY <2>1, <2>2, <2>3, LogIsUneventful DEF PlainTypes
  <1>4. CASE RunOp(h)
    <2> DEFINE i == call[h].inst
               c == CommandCall(i, StepOf(mem[h].insts[i]).op, None)
    <2>1. Go(h, c) /\ call[h].pc = "cascade"
      BY <1>4 DEF RunOp, OnGate
    <2>2. c.pc \in {"command", "run"} /\ c.inst = i
      BY DEF CommandCall, NoCall
    <2> HIDE DEF c
    <2> QED
      BY <2>1, <2>2, GoIsUneventful
  <1>5. CASE Advance(h)
    <2>1. PICK to, m : Log(h, TransitionEvent(call[h].inst, to), m, AfterMove(call[h].inst, to))
      BY <1>5 DEF Advance
    <2> DEFINE ev == TransitionEvent(call[h].inst, to)
               c == AfterMove(call[h].inst, to)
    <2>2. ev.type = "transition" /\ call[h].pc = "cascade"
      BY <1>5 DEF TransitionEvent, Advance, OnGate
    <2>3. Log(h, ev, m, c) /\ c.inst = call[h].inst /\ c.pc \in {"finish", "cascade"}
      BY <1>a, <2>1
    <2> HIDE DEF ev, c
    <2> QED
      BY <2>2, <2>3, LogIsUneventful DEF PlainTypes
  <1>6. CASE Move(h)
    <2> DEFINE to == call[h].to
               ev == TransitionEvent(call[h].inst, to)
               c == AfterMove(call[h].inst, to)
    <2>1. PICK m : Log(h, ev, m, c)
      BY <1>6 DEF Move
    <2>2. ev.type = "transition" /\ call[h].pc = "move"
      BY <1>6 DEF TransitionEvent, Move, At
    <2>3. c.inst = call[h].inst /\ c.pc \in {"finish", "cascade"}
      BY <1>a
    <2> HIDE DEF ev, c
    <2> QED
      BY <2>1, <2>2, <2>3, LogIsUneventful DEF PlainTypes
  <1>7. CASE Finish(h)
    <2> DEFINE ev == EndEvent(call[h].inst, call[h].to)
               c == CallOn(call[h].inst)
    <2>1. PICK m : Log(h, ev, m, c)
      BY <1>7 DEF Finish
    <2>2. ev.type \in {"completed", "abandoned"} /\ call[h].pc = "finish"
      BY <1>7 DEF EndEvent, Finish, At
    <2>3. c.inst = call[h].inst /\ c.pc = "cascade"
      BY DEF CallOn, NoCall
    <2> HIDE DEF ev, c
    <2> QED
      BY <2>1, <2>2, <2>3, LogIsUneventful DEF PlainTypes
  <1>8. CASE VerifyBinding(h)
    <2> DEFINE c == [call[h] EXCEPT !.pc = "publish"]
    <2>1. c.pc = "publish" /\ c.inst = call[h].inst
      BY <1>0 DEF Calls
    <2>2. Go(h, c) /\ call[h].pc = "verify"
      BY <1>8 DEF VerifyBinding, At
    <2> HIDE DEF c
    <2> QED
      BY <2>1, <2>2, GoIsUneventful
  <1>9. CASE LogPublishedRead(h)
    <2> DEFINE c == [call[h] EXCEPT !.pc = "outcome"]
    <2>1. c.pc = "outcome" /\ c.inst = call[h].inst
      BY <1>0 DEF Calls
    <2>2. Log(h, NoteEvent, mem[h], c) /\ call[h].pc = "read"
      BY <1>9 DEF LogPublishedRead, At
    <2> HIDE DEF c
    <2> QED
      BY <2>1, <2>2, NoteIsUneventful
  <1>10. CASE RunCommand(h)
    <2> DEFINE i == call[h].inst
               c == AfterCommand(call[h])
    <2>1. PICK w, m : Log(h, ResultEvent(i, mem[h].insts[i].step, call[h].fn, w), m, c)
      BY <1>10 DEF RunCommand
    <2> DEFINE ev == ResultEvent(i, mem[h].insts[i].step, call[h].fn, w)
    <2>2. ev.type = "op_result" /\ call[h].pc = "run"
      BY <1>10 DEF ResultEvent, RunCommand, At
    <2>3. c.inst = i /\ c.pc \in {"move", "cascade"}
      BY DEF AfterCommand, MoveCall, CallOn, NoCall
    <2>4. Log(h, ev, m, c)
      BY <2>1
    <2> HIDE DEF ev, c
    <2> QED
      BY <2>2, <2>3, <2>4, LogIsUneventful DEF PlainTypes
  <1>11. CASE CallFails(h)
    <2>1. Go(h, NoCall("done"))
      BY <1>11 DEF CallFails, OnFailure
    <2> QED
      BY <1>0, <2>1, GoIsUneventful
  <1>12. CASE RebindFails(h) \/ Return(h)
    <2>1. Rest(h) /\ UNCHANGED logged /\ UNCHANGED published
      BY <1>12 DEF RebindFails, Return, logged
    <2> QED
      BY <2>1, RestIsUneventful
  <1>13. CASE AppendRefused(h) \/ Crash(h)
    <2>1. Drop(h) /\ UNCHANGED logged /\ UNCHANGED published
      BY <1>13 DEF AppendRefused, Crash, logged
    <2> QED
      BY <2>1, DropIsUneventful
  <1> QED
    BY <1>1, <1>2, <1>3, <1>4, <1>5, <1>6, <1>7, <1>8, <1>9, <1>10, <1>11, <1>12, <1>13
-----------------------------------------------------------------------------
(***************************************************************************)
(* The steps of an operation.                                              *)
(***************************************************************************)
\* runCommand records the next operation, over no unfinished one and not at
\* the instance of a cancelled one.
Begins(r, i) ==
    /\ r = lastRef + 1 /\ r \in Refs /\ lastRef' = r
    /\ ~Pending(ledger) /\ (ledger.cancelled # None => ledger.cancelled.inst # i)
    /\ ops' = [ops EXCEPT ![r] = "pending"] /\ published' = published
    /\ ledger'.intent # None /\ ledger'.intent.ref = r /\ ledger'.intent.inst = i
    /\ Pending(ledger') /\ ledger'.cancelled = None

\* h's call or request resolves the unfinished operation.
IsResolved(r, how) ==
    /\ Pending(ledger) /\ r = ledger.intent.ref /\ r \in Refs
    /\ ops' = [ops EXCEPT ![r] = how] /\ published' = published /\ lastRef' = lastRef
    /\ ledger'.intent = ledger.intent /\ ~Pending(ledger')

LEMMA RecordBegins ==
    ASSUME SessionInv, SessionInv', CancelInv, NEW h \in Handles, RecordIntent(h)
    PROVE  /\ Begins(lastRef + 1, call[h].inst)
           /\ mem'[h].intent = ledger'.intent /\ call'[h].pc = "verify"
           /\ \A g \in Handles \ {h} :
                mem'[g] = mem[g] /\ call'[g] = call[g] /\ ~fresh'[g]
  <1> DEFINE c == call[h]
             i == c.inst
             ref == lastRef + 1
             step == mem[h].insts[i].step
             to == IntentBranch(c.fn, mem[h].insts[i].store, Target(h, i))
             ev == IntentEvent(i, ref, step, c.fn, c.to, to)
             d == [c EXCEPT !.pc = "verify"]
  <1>1. PICK m : Log(h, ev, m, d)
    BY DEF RecordIntent
  <1>2. ref \in Refs /\ c.pc = "command"
    BY DEF RecordIntent, At
  <1>3. ev.type = "mutation_intent" /\ ev.ref = ref /\ ev.inst = i
    BY DEF IntentEvent
  <1>4. /\ call \in [Handles -> Calls] /\ mem \in [Handles -> Sessions] /\ c \in Calls
        /\ ledger \in Sessions /\ readable'
    BY DEF SessionInv, TypeOK, GoodSession
  <1>5. d.pc = "verify"
    BY <1>4 DEF Calls
  <1> HIDE DEF ev, d, ref
  <1>6. /\ fresh[h] /\ ledger' = Apply(ledger, ev) /\ \A g \in Handles : fresh'[g] <=> g = h
        /\ call'[h] = d /\ published' = published
        /\ \A g \in Handles \ {h} : mem'[g] = mem[g] /\ call'[g] = call[g]
    BY <1>1, <1>4 DEF Log, AppendEvent, VerifiedBinding
  <1>7. ops' = [ops EXCEPT ![ref] = "pending"] /\ lastRef' = ref
    BY <1>1, <1>3 DEF Log, AppendEvent, OpsAfter
  <1>8. ledger' = ApplyIntent(ledger, ev)
    BY <1>3, <1>6, ApplyByType
  <1>9. /\ ledger'.intent = [ref |-> ev.ref, inst |-> ev.inst, step |-> ev.step,
                             command |-> ev.command, to |-> ev.to, branch |-> ev.branch]
        /\ ledger'.cancelled = None /\ ~ledger'.intentDone
    BY <1>4, <1>8 DEF ApplyIntent, Sessions
  <1>10. ledger'.intent.ref = ref /\ ledger'.intent.inst = i
    BY <1>3, <1>9
  <1>11. Current(h) /\ Current(h)'
    BY <1>2, <1>5, <1>6 DEF Current
  <1>12. mem'[h].intent = ledger'.intent
    BY <1>11 DEF SessionInv, Agrees, SameSession
  <1>13. GoodSession(ledger) /\ GoodSession(ledger') /\ CallFits(mem'[h], call'[h])
    BY DEF SessionInv
  <1>14. ledger'.intent # None
    BY <1>5, <1>6, <1>12, <1>13 DEF CallFits, OnOperation, Pending
  <1>15. ~Pending(ledger)
    <2>1. CallFits(mem[h], c) /\ SameSession(mem[h], ledger, c)
      BY <1>11 DEF SessionInv, Agrees
    <2>2. ~Pending(mem[h])
      BY <1>2, <2>1 DEF CallFits, Asked
    <2> QED
      BY <2>1, <2>2 DEF SameSession, Pending
  <1>16. ledger.cancelled # None => ledger.cancelled.inst # i
    BY <1>11 DEF CancelInv
  <1>17. Pending(ledger')
    BY <1>9, <1>14 DEF Pending
  <1>18. Begins(ref, i)
    BY <1>2, <1>6, <1>7, <1>9, <1>10, <1>14, <1>15, <1>16, <1>17 DEF Begins, ref
  <1> QED
    BY <1>5, <1>6, <1>12, <1>18 DEF ref

LEMMA OutcomeResolves ==
    ASSUME SessionInv, SessionInv', NEW h \in Handles, RecordOutcome(h)
    PROVE  /\ IsResolved(mem[h].intent.ref, "done") /\ call[h].pc = "outcome"
           /\ mem'[h].intent = ledger.intent /\ call'[h].pc \notin {"read", "outcome"}
           /\ ledger'.cancelled = None
           /\ \A g \in Handles \ {h} :
                mem'[g] = mem[g] /\ call'[g] = call[g] /\ ~fresh'[g]
  <1> DEFINE c == call[h]
             i == c.inst
             ref == mem[h].intent.ref
             step == mem[h].insts[i].step
             d == AfterCommand(c)
  <1>1. PICK w, m : Log(h, OutcomeEvent(i, ref, step, c.fn, w), m, d)
    BY DEF RecordOutcome
  <1> DEFINE ev == OutcomeEvent(i, ref, step, c.fn, w)
  <1>2. /\ ev.type = "mutation_outcome" /\ ev.ref = ref /\ Log(h, ev, m, d)
        /\ c.pc = "outcome"
    BY <1>1 DEF OutcomeEvent, RecordOutcome, At
  <1>3. d.pc \in {"move", "cascade"}
    BY DEF AfterCommand, MoveCall, CallOn, NoCall
  <1>4. /\ call \in [Handles -> Calls] /\ mem \in [Handles -> Sessions]
        /\ ledger \in Sessions /\ readable'
    BY DEF SessionInv, TypeOK, GoodSession
  <1> HIDE DEF ev, d
  <1>5. /\ fresh[h] /\ ledger' = Apply(ledger, ev) /\ \A g \in Handles : fresh'[g] <=> g = h
        /\ call'[h] = d /\ published' = published
        /\ \A g \in Handles \ {h} : mem'[g] = mem[g] /\ call'[g] = call[g]
    BY <1>2, <1>4 DEF Log, AppendEvent, VerifiedBinding
  <1>6. ops' = [ops EXCEPT ![ref] = "done"] /\ lastRef' = lastRef
    BY <1>2 DEF Log, AppendEvent, OpsAfter
  <1>7. ledger' = ApplyResult(ledger, ev)
    <2>1. ev.type = "mutation_outcome"
      BY <1>2
    <2>2. Apply(ledger, ev) = ApplyResult(ledger, ev)
      BY ONLY <2>1, ApplyByType
    <2> QED
      BY <1>5, <2>2
  <1>8. /\ ledger'.intent = ledger.intent /\ ledger'.intentDone
        /\ ledger'.cancelled = ledger.cancelled
    BY <1>2, <1>4, <1>7 DEF ApplyResult, Sessions
  <1>9. Current(h) /\ Current(h)'
    BY <1>2, <1>3, <1>5 DEF Current
  <1>10. mem'[h].intent = ledger'.intent
    BY <1>9 DEF SessionInv, Agrees, SameSession
  <1>11. CallFits(mem[h], c) /\ SameSession(mem[h], ledger, c)
    BY <1>9 DEF SessionInv, Agrees
  <1>12. Pending(ledger) /\ mem[h].intent = ledger.intent
    BY <1>2, <1>11 DEF CallFits, OnOperation, SameSession, Pending
  <1>13. UnfinishedFinds(ledger) /\ ref \in Refs
    BY <1>12, PendingRef DEF SessionInv, GoodSession, GoodIntent, Pending
  <1>14. ledger.cancelled = None
    BY <1>13 DEF UnfinishedFinds
  <1>15. ~Pending(ledger')
    BY <1>8 DEF Pending
  <1>16. IsResolved(ref, "done")
    BY <1>5, <1>6, <1>8, <1>12, <1>13, <1>15 DEF IsResolved
  <1> QED
    BY <1>2, <1>3, <1>5, <1>8, <1>10, <1>14, <1>16

LEMMA CancelResolves ==
    ASSUME SessionInv, SessionInv', NEW h \in Handles, NEW i \in Insts, Cancel(h, i)
    PROVE  /\ IsResolved(ledger.intent.ref, "cancelled")
           /\ mem'[h].intent = ledger.intent /\ call'[h].pc = "done" /\ ~Current(h)'
           /\ ledger'.cancelled.inst = ledger.intent.inst
           /\ \A g \in Handles \ {h} :
                mem'[g] = mem[g] /\ call'[g] = call[g] /\ ~fresh'[g]
  <1> DEFINE intent == mem[h].intent
             ev == CancelledEvent(i, intent.ref, intent.step, intent.command,
                                  mem[h].insts[i].interactionStep)
             m == ApplyCancellation(mem[h], i)
  <1>1. /\ Log(h, ev, m, NoCall("done")) /\ call[h].pc = "idle"
        /\ Pending(mem[h])
    BY DEF Cancel, Ready, At
  <1>2. ev.type = "cancelled" /\ ev.ref = intent.ref /\ ev.inst = i
    BY DEF CancelledEvent
  <1>3. /\ call \in [Handles -> Calls] /\ mem \in [Handles -> Sessions]
        /\ ledger \in Sessions /\ readable'
    BY DEF SessionInv, TypeOK, GoodSession
  <1>4. \A s \in Sessions : /\ ApplyCancellation(s, i).intent = s.intent
                            /\ ApplyCancellation(s, i).intentDone
                            /\ ApplyCancellation(s, i).cancelled =
                                    [ref |-> s.intent.ref, inst |-> s.intent.inst]
    BY DEF ApplyCancellation, Sessions
  <1>5. m.intent = mem[h].intent
    BY <1>3, <1>4
  <1>6. NoCall("done").pc = "done" /\ ~NoCall("done").opening
    BY DEF NoCall
  <1> HIDE DEF ev, m
  <1>7. /\ fresh[h] /\ ledger' = Apply(ledger, ev) /\ \A g \in Handles : fresh'[g] <=> g = h
        /\ call'[h] = NoCall("done") /\ mem'[h] = m /\ published' = published
        /\ \A g \in Handles \ {h} : mem'[g] = mem[g] /\ call'[g] = call[g]
    BY <1>1, <1>3 DEF Log, AppendEvent, VerifiedBinding
  <1>8. ops' = [ops EXCEPT ![intent.ref] = "cancelled"] /\ lastRef' = lastRef
    BY <1>1, <1>2 DEF Log, AppendEvent, OpsAfter
  <1>9. ledger' = ApplyCancellation(ledger, i)
    BY <1>2, <1>7, ApplyByType
  <1>10. /\ ledger'.intent = ledger.intent /\ ~Pending(ledger')
         /\ ledger'.cancelled.inst = ledger.intent.inst
    <2>1. /\ ledger'.intent = ledger.intent /\ ledger'.intentDone
          /\ ledger'.cancelled = [ref |-> ledger.intent.ref, inst |-> ledger.intent.inst]
      BY <1>3, <1>4, <1>9
    <2> QED
      BY <2>1 DEF Pending
  <1>11. mem[h].intent = ledger.intent /\ Pending(ledger)
    BY <1>1, <1>7, LedgerFacts DEF SameSession, Pending
  <1>12. ledger.intent.ref \in Refs
    BY <1>11, PendingRef
  <1>13. IsResolved(ledger.intent.ref, "cancelled")
    BY <1>7, <1>8, <1>10, <1>11, <1>12 DEF IsResolved
  <1> QED
    BY <1>5, <1>6, <1>7, <1>10, <1>11, <1>13 DEF Current
\* Making a publication, once or again.
Makes(h, r) ==
    /\ UNCHANGED <<ops, lastRef, ledger>> /\ r = mem[h].intent.ref
    /\ call[h].pc = "publish" /\ mem[h].intent # None
    /\ Made(r)'
    /\ published' = published \/ \E p : p.ref = r /\ published' = published \cup {p}
    /\ mem' = mem /\ fresh' = fresh
    /\ call'[h].inst \in {call[h].inst, None}
    /\ \A g \in Handles \ {h} : call'[g] = call[g]

LEMMA PublishMakes ==
    ASSUME SessionInv, NEW h \in Handles, Publish(h) \/ PublishThenFail(h)
    PROVE  Makes(h, mem[h].intent.ref)
  <1>1. /\ call \in [Handles -> Calls] /\ call[h] \in Calls /\ call[h].pc = "publish"
    BY DEF SessionInv, TypeOK, Publish, PublishThenFail, At
  <1>2. mem[h].intent # None
    BY <1>1 DEF SessionInv, CallFits, OnOperation, Pending
  <1> DEFINE r == mem[h].intent.ref
             q == Publication(mem[h])
  <1>3. q.ref = r
    BY DEF Publication
  <1>4. published' = IF \E p \in published : p.ref = r THEN published ELSE published \cup {q}
    BY DEF Publish, PublishThenFail, PublishKeyed
  <1> HIDE DEF q
  <1>5. published' = published \/ published' = published \cup {q}
    BY <1>4
  <1>6. \E p \in published' : p.ref = r
    <2>1. CASE \E p \in published : p.ref = r
      BY <1>4, <2>1
    <2>2. CASE ~\E p \in published : p.ref = r
      BY <1>3, <1>4, <2>2
    <2> QED
      BY <2>1, <2>2
  <1>7. UNCHANGED <<ops, lastRef, ledger, mem, fresh>>
    BY DEF Publish, PublishThenFail, logged
  <1>8. /\ call'[h].inst \in {call[h].inst, None}
        /\ \A g \in Handles \ {h} : call'[g] = call[g]
    <2>1. CASE Publish(h)
      <3>1. call' = [call EXCEPT ![h].pc =
                        IF call[h].fn = "newEntry" THEN "read" ELSE "outcome"]
        BY <2>1 DEF Publish
      <3> QED
        BY <1>1, <3>1 DEF Calls
    <2>2. CASE PublishThenFail(h)
      <3>1. call' = [call EXCEPT ![h] = NoCall("done")]
        BY <2>2 DEF PublishThenFail
      <3> QED
        BY <1>1, <3>1 DEF NoCall
    <2> QED
      BY <2>1, <2>2
  <1>9. Made(r)'
    <2>1. mem' = mem
      BY <1>7
    <2> QED
      BY <1>6, <2>1 DEF Made
  <1> QED
    BY <1>1, <1>2, <1>3, <1>5, <1>7, <1>8, <1>9 DEF Makes

LEMMA MakesKeeps ==
    ASSUME SessionInv, OperationInv, CancelInv, NEW h \in Handles,
           Makes(h, mem[h].intent.ref)
    PROVE  OperationInv' /\ CancelInv'
  <1>1. /\ ops' = ops /\ lastRef' = lastRef /\ ledger' = ledger /\ mem' = mem /\ fresh' = fresh
        /\ \A g \in Handles \ {h} : call'[g] = call[g]
        /\ call[h].pc = "publish" /\ call'[h].inst \in {call[h].inst, None}
    BY DEF Makes
  <1>2. published \subseteq published'
    BY DEF Makes
  <1>3. \A r \in Refs : Made(r) => Made(r)'
    BY <1>2 DEF Made
  <1>4. ASSUME NEW g \in Handles, call'[g].pc \in {"read", "outcome"}
        PROVE  Made(mem[g].intent.ref)'
    <2>1. CASE g = h
      BY <1>1, <2>1 DEF Makes
    <2>2. CASE g # h
      <3>1. Made(mem[g].intent.ref)
        BY <1>1, <1>4, <2>2 DEF OperationInv
      <3> QED
        BY ONLY <1>1, <1>2, <3>1 DEF Made
    <2> QED
      BY <2>1, <2>2
  <1>5. OperationInv'
    BY <1>1, <1>3, <1>4 DEF OperationInv, Pending
  <1>6. ledger \in Sessions
    BY DEF SessionInv, GoodSession
  <1>7. ledger.cancelled # None => ledger.cancelled.inst # None
    BY <1>6, EngineAssumption DEF Sessions, Cancellations, Insts
  <1>8. ASSUME NEW g \in Handles, Current(g)', ledger.cancelled # None
        PROVE  call'[g].inst # ledger.cancelled.inst
    BY <1>1, <1>7, <1>8 DEF CancelInv, Current
  <1> QED
    BY <1>1, <1>5, <1>8 DEF CancelInv

LEMMA BeginsKeeps ==
    ASSUME SessionInv, OperationInv, CancelInv, NEW h \in Handles, NEW i,
           Begins(lastRef + 1, i), mem'[h].intent = ledger'.intent,
           call'[h].pc = "verify",
           \A g \in Handles \ {h} : mem'[g] = mem[g] /\ call'[g] = call[g] /\ ~fresh'[g]
    PROVE  OperationInv' /\ CancelInv'
  <1>0. lastRef \in Nat /\ ops \in [Refs -> OpStates] /\ Refs \subseteq Nat
    BY EngineAssumption DEF SessionInv, TypeOK, Refs
  <1>1. /\ lastRef' = lastRef + 1 /\ lastRef + 1 \in Refs /\ ~Pending(ledger)
        /\ ops' = [ops EXCEPT ![lastRef + 1] = "pending"] /\ published' = published
        /\ ledger'.intent # None /\ ledger'.intent.ref = lastRef' /\ Pending(ledger')
        /\ ledger'.cancelled = None
    BY DEF Begins
  <1>2. \A r \in Refs : /\ ops'[r] = "none" <=> r > lastRef'
                        /\ ops'[r] = "pending" <=> r = lastRef' /\ Pending(ledger')
                        /\ ops'[r] = "done" => Made(r)'
    <2>1. ASSUME NEW r \in Refs, r # lastRef + 1
          PROVE  /\ ops'[r] = "none" <=> r > lastRef'
                 /\ ops'[r] # "pending"
                 /\ ops'[r] = "done" => Made(r)'
      <3>1. ops'[r] = ops[r]
        BY <1>0, <1>1, <2>1
      <3>2. /\ ops[r] = "none" <=> r > lastRef
            /\ ops[r] # "pending"
            /\ ops[r] = "done" => Made(r)
        BY <1>1 DEF OperationInv
      <3>3. r > lastRef <=> r > lastRef'
        BY <1>0, <1>1, <2>1
      <3>4. Made(r)' <=> Made(r)
        BY <1>1 DEF Made
      <3> QED
        BY <3>1, <3>2, <3>3, <3>4
    <2>2. ops'[lastRef + 1] = "pending"
      BY <1>0, <1>1
    <2> QED
      BY <1>0, <1>1, <2>1, <2>2
  <1>3. ASSUME NEW g \in Handles, mem'[g].intent # None
        PROVE  mem'[g].intent.ref <= lastRef'
    <2>1. CASE g = h
      BY <1>0, <1>1, <2>1
    <2>2. CASE g # h
      <3>1. mem[g].intent # None /\ mem[g].intent.ref <= lastRef /\ mem'[g] = mem[g]
        BY <1>3, <2>2 DEF OperationInv
      <3>2. mem[g].intent.ref \in Nat
        BY <1>0, <3>1 DEF SessionInv, TypeOK, Sessions, Intents
      <3> QED
        BY <1>0, <1>1, <3>1, <3>2
    <2> QED
      BY <2>1, <2>2
  <1>4. ASSUME NEW g \in Handles, call'[g].pc \in {"read", "outcome"}
        PROVE  Made(mem[g].intent.ref)'
    <2>1. g # h
      BY <1>4
    <2>2. Made(mem[g].intent.ref) /\ mem'[g] = mem[g]
      BY <1>4, <2>1 DEF OperationInv
    <2> QED
      BY ONLY <1>1, <2>2 DEF Made
  <1>5. OperationInv'
    BY <1>1, <1>2, <1>3, <1>4 DEF OperationInv
  <1> QED
    BY <1>1, <1>5 DEF CancelInv

LEMMA ResolvedKeeps ==
    ASSUME SessionInv, OperationInv, NEW h \in Handles, NEW how \in {"done", "cancelled"},
           IsResolved(ledger.intent.ref, how), mem'[h].intent = ledger.intent,
           call'[h].pc \notin {"read", "outcome"}, how = "done" => Made(ledger.intent.ref),
           \A g \in Handles \ {h} : mem'[g] = mem[g] /\ call'[g] = call[g] /\ ~fresh'[g]
    PROVE  OperationInv'
  <1> DEFINE ref == ledger.intent.ref
  <1>0. lastRef \in Nat /\ ops \in [Refs -> OpStates] /\ Refs \subseteq Nat
    BY EngineAssumption DEF SessionInv, TypeOK, Refs
  <1>1. /\ lastRef' = lastRef /\ ref \in Refs /\ Pending(ledger) /\ ~Pending(ledger')
        /\ ops' = [ops EXCEPT ![ref] = how] /\ published' = published
        /\ ledger'.intent = ledger.intent
    BY DEF IsResolved
  <1>2. ref = lastRef /\ ledger.intent # None
    BY <1>1 DEF OperationInv, Pending
  <1>3. \A r : Made(r)' <=> Made(r)
    BY <1>1 DEF Made
  <1>4. \A r \in Refs : /\ ops'[r] = "none" <=> r > lastRef'
                        /\ ops'[r] = "pending" <=> r = lastRef' /\ Pending(ledger')
                        /\ ops'[r] = "done" => Made(r)'
    <2>1. ASSUME NEW r \in Refs, r # lastRef
          PROVE  /\ ops'[r] = "none" <=> r > lastRef
                 /\ ops'[r] # "pending"
                 /\ ops'[r] = "done" => Made(r)
      BY <1>0, <1>1, <1>2, <2>1 DEF OperationInv
    <2>2. ops'[lastRef] = how /\ ~(lastRef > lastRef)
      BY <1>0, <1>1, <1>2
    <2>3. how = "done" => Made(lastRef)
      BY <1>2
    <2> QED
      BY <1>1, <1>3, <2>1, <2>2, <2>3
  <1>5. ASSUME NEW g \in Handles, mem'[g].intent # None
        PROVE  mem'[g].intent.ref <= lastRef'
    BY <1>0, <1>1, <1>2, <1>5 DEF OperationInv
  <1>6. ASSUME NEW g \in Handles, call'[g].pc \in {"read", "outcome"}
        PROVE  Made(mem[g].intent.ref)'
    <2>1. g # h
      BY <1>6
    <2>2. Made(mem[g].intent.ref) /\ mem'[g] = mem[g]
      BY <1>6, <2>1 DEF OperationInv
    <2> QED
      BY ONLY <1>1, <2>2 DEF Made
  <1> QED
    BY <1>1, <1>2, <1>4, <1>5, <1>6 DEF OperationInv
-----------------------------------------------------------------------------
\* Every step is one of these.
LEMMA OperationSteps ==
    ASSUME SessionInv, SessionInv', CancelInv, Next
    PROVE  \/ AbandonSession
           \/ \E h \in Handles :
                \/ Uneventful(h)
                \/ RecordIntent(h)
                \/ RecordOutcome(h)
                \/ \E i \in Insts : Cancel(h, i)
                \/ Publish(h) \/ PublishThenFail(h)
  <1>1. ASSUME NEW h \in Handles, Ask(h)
        PROVE  Uneventful(h) \/ \E i \in Insts : Cancel(h, i)
    BY <1>1, AskIsUneventful
  <1>2. ASSUME NEW h \in Handles, Proceed(h) \/ Crash(h)
        PROVE  \/ Uneventful(h) \/ RecordIntent(h) \/ RecordOutcome(h)
               \/ Publish(h) \/ PublishThenFail(h)
    BY <1>2, ProceedIsUneventful DEF Proceed
  <1> QED
    BY <1>1, <1>2 DEF Next

\* An abandoned session leaves its operations as they are.
LEMMA AbandonSessionKeepsOperations ==
    ASSUME SessionInv, OperationInv, CancelInv, AbandonSession
    PROVE  OperationInv' /\ CancelInv'
  <1>1. ledger \in Sessions
    BY DEF SessionInv, GoodSession
  <1>2. \E insts : ledger' = [ledger EXCEPT !.insts = insts]
    BY DEF AbandonSession
  <1>3. /\ ledger'.intent = ledger.intent /\ ledger'.intentDone = ledger.intentDone
        /\ ledger'.cancelled = ledger.cancelled
    BY <1>1, <1>2 DEF Sessions
  <1>4. UNCHANGED <<ops, lastRef, published, mem, call>> /\ \A h \in Handles : ~fresh'[h]
    BY DEF AbandonSession
  <1>5. Pending(ledger') <=> Pending(ledger)
    BY <1>3 DEF Pending
  <1>6. OperationInv'
    BY <1>3, <1>4, <1>5 DEF OperationInv, Made
  <1>7. CancelInv'
    BY <1>3, <1>4 DEF CancelInv, Current
  <1> QED
    BY <1>6, <1>7

LEMMA StutterKeepsOperations ==
    ASSUME OperationInv, CancelInv, UNCHANGED vars
    PROVE  OperationInv' /\ CancelInv'
  <1>1. UNCHANGED <<ledger, ops, lastRef, published, mem, call, fresh>>
    BY DEF vars
  <1>2. OperationInv'
    BY <1>1 DEF OperationInv, Made, Pending
  <1>3. CancelInv'
    BY <1>1 DEF CancelInv, Current
  <1> QED
    BY <1>2, <1>3

\* What an outcome reports was made.
LEMMA OutcomeWasMade ==
    ASSUME SessionInv, SessionInv', OperationInv, NEW h \in Handles, RecordOutcome(h)
    PROVE  /\ IsResolved(ledger.intent.ref, "done") /\ Made(ledger.intent.ref)
           /\ mem[h].intent = ledger.intent
  <1>1. /\ IsResolved(mem[h].intent.ref, "done") /\ call[h].pc = "outcome"
        /\ mem'[h].intent = ledger.intent
    BY OutcomeResolves
  <1>2. Current(h)
    BY <1>1 DEF Current, RecordOutcome, Log, AppendEvent, VerifiedBinding
  <1>3. mem[h].intent = ledger.intent
    BY <1>2 DEF SessionInv, Agrees, SameSession
  <1> QED
    BY <1>1, <1>3 DEF OperationInv

LEMMA NextKeepsOperations ==
    ASSUME SessionInv, SessionInv', OperationInv, CancelInv, [Next]_vars
    PROVE  OperationInv' /\ CancelInv'
  <1>1. CASE UNCHANGED vars
    BY <1>1, StutterKeepsOperations
  <1>2. CASE AbandonSession
    BY <1>2, AbandonSessionKeepsOperations
  <1>3. ASSUME NEW h \in Handles, Uneventful(h) PROVE OperationInv' /\ CancelInv'
    BY <1>3, UneventfulKeeps
  <1>4. ASSUME NEW h \in Handles, RecordIntent(h) PROVE OperationInv' /\ CancelInv'
    BY <1>4, RecordBegins, BeginsKeeps
  <1>5. ASSUME NEW h \in Handles, RecordOutcome(h) PROVE OperationInv' /\ CancelInv'
    <2>1. /\ mem'[h].intent = ledger.intent /\ call'[h].pc \notin {"read", "outcome"}
          /\ ledger'.cancelled = None
          /\ \A g \in Handles \ {h} :
                mem'[g] = mem[g] /\ call'[g] = call[g] /\ ~fresh'[g]
      BY <1>5, OutcomeResolves
    <2>2. IsResolved(ledger.intent.ref, "done") /\ Made(ledger.intent.ref)
      BY <1>5, OutcomeWasMade
    <2>3. OperationInv'
      BY <2>1, <2>2, ResolvedKeeps
    <2> QED
      BY <2>1, <2>3 DEF CancelInv
  <1>6. ASSUME NEW h \in Handles, NEW i \in Insts, Cancel(h, i)
        PROVE  OperationInv' /\ CancelInv'
    <2>1. /\ IsResolved(ledger.intent.ref, "cancelled")
          /\ mem'[h].intent = ledger.intent /\ call'[h].pc = "done" /\ ~Current(h)'
          /\ ledger'.cancelled.inst = ledger.intent.inst
          /\ \A g \in Handles \ {h} :
                mem'[g] = mem[g] /\ call'[g] = call[g] /\ ~fresh'[g]
      BY <1>6, CancelResolves
    <2>2. OperationInv'
      BY <2>1, ResolvedKeeps
    <2>3. ledger'.intent = ledger.intent /\ ledger.intent # None
      BY <2>1 DEF IsResolved, Pending
    <2>4. \A g \in Handles : ~Current(g)'
      BY <2>1 DEF Current
    <2> QED
      BY <2>1, <2>2, <2>3, <2>4 DEF CancelInv
  <1>7. ASSUME NEW h \in Handles, Publish(h) \/ PublishThenFail(h)
        PROVE  OperationInv' /\ CancelInv'
    BY <1>7, PublishMakes, MakesKeeps
  <1> QED
    BY <1>1, <1>2, <1>3, <1>4, <1>5, <1>6, <1>7, OperationSteps

LEMMA InitOperations == Init => OperationInv /\ CancelInv
  <1> SUFFICES ASSUME Init PROVE OperationInv /\ CancelInv
    OBVIOUS
  <1>1. /\ ledger.intent = None /\ ledger.cancelled = None /\ lastRef = 0
        /\ \A r \in Refs : ops[r] = "none" /\ r > 0
        /\ \A h \in Handles : mem[h].intent = None /\ call[h].pc = "closed"
    BY EngineAssumption DEF Init, NewSession, NoCall, Refs
  <1> QED
    BY <1>1 DEF OperationInv, CancelInv, Pending

LEMMA OperationsInvariant == Held = FALSE => (Spec => [](OperationInv /\ CancelInv))
  <1> SUFFICES ASSUME Held = FALSE PROVE Spec => [](OperationInv /\ CancelInv)
    OBVIOUS
  <1>1. Init => OperationInv /\ CancelInv
    BY InitOperations
  <1>2. SessionInv /\ SessionInv' /\ (OperationInv /\ CancelInv) /\ [Next]_vars
            => (OperationInv /\ CancelInv)'
    BY NextKeepsOperations
  <1> QED
    BY <1>1, <1>2, SessionInvariant, PTL DEF Spec

-----------------------------------------------------------------------------
\* A cancelled operation is not taken up again by itself (mutation.go:188-190
\* and 128-144): whatever calls race, its instance records another operation
\* only after somebody reported or answered there.
THEOREM CancelledIsNotTakenUp == Held = FALSE => (Spec => CancelledAsksAgain)
  <1> SUFFICES ASSUME Held = FALSE PROVE Spec => CancelledAsksAgain
    OBVIOUS
  <1> DEFINE AsksAgain == \A r \in Refs :
                /\ ops[r] = "none" /\ ops'[r] = "pending"
                /\ ledger.cancelled # None
                => ledger'.intent.inst # ledger.cancelled.inst
  <1>1. SessionInv /\ SessionInv' /\ CancelInv /\ OperationInv /\ [Next]_vars => [AsksAgain]_vars
    <2> SUFFICES ASSUME SessionInv, SessionInv', CancelInv, OperationInv, Next, NEW r \in Refs,
                        ops[r] = "none", ops'[r] = "pending", ledger.cancelled # None
                 PROVE  ledger'.intent.inst # ledger.cancelled.inst
      OBVIOUS
    <2>0. ops \in [Refs -> OpStates]
      BY DEF SessionInv, TypeOK
    <2>1. ASSUME NEW h \in Handles, RecordIntent(h)
          PROVE  ledger'.intent.inst # ledger.cancelled.inst
      BY <2>1, RecordBegins DEF Begins
    <2>2. ASSUME NEW h \in Handles, Uneventful(h) PROVE FALSE
      BY <2>2 DEF Uneventful
    <2>3. ~AbandonSession
      BY DEF AbandonSession
    <2>4. ASSUME NEW h \in Handles, Publish(h) \/ PublishThenFail(h) PROVE FALSE
      BY <2>4 DEF Publish, PublishThenFail, logged
    <2>5. ASSUME NEW h \in Handles, RecordOutcome(h) PROVE FALSE
      <3>1. IsResolved(mem[h].intent.ref, "done")
        BY <2>5, OutcomeResolves
      <3> QED
        BY <2>0, <3>1 DEF IsResolved
    <2>6. ASSUME NEW h \in Handles, NEW i \in Insts, Cancel(h, i) PROVE FALSE
      <3>1. IsResolved(ledger.intent.ref, "cancelled")
        BY <2>6, CancelResolves
      <3> QED
        BY <2>0, <3>1 DEF IsResolved
    <2> QED
      BY <2>1, <2>2, <2>3, <2>4, <2>5, <2>6, OperationSteps
  <1>2. [](OperationInv /\ CancelInv) => []OperationInv /\ []CancelInv
    BY PTL
  <1> QED
    BY <1>1, <1>2, OperationsInvariant, SessionInvariant, PTL DEF Spec, CancelledAsksAgain

-----------------------------------------------------------------------------
(***************************************************************************)
(* The refinement: how the recorded operations stand, and whose            *)
(* publications exist, is a behaviour of MutationProtocol.                 *)
(***************************************************************************)
LEMMA RecordIsBegin ==
    ASSUME SessionInv, OperationInv, NEW i, Begins(lastRef + 1, i)
    PROVE  Protocol!Begin(lastRef + 1)
  <1>1. lastRef \in Nat /\ ops \in [Refs -> OpStates]
    BY EngineAssumption DEF SessionInv, TypeOK
  <1>2. /\ lastRef + 1 \in Refs /\ ~Pending(ledger) /\ published' = published
        /\ ops' = [ops EXCEPT ![lastRef + 1] = "pending"]
    BY DEF Begins
  <1>3. ops[lastRef + 1] = "none"
    BY <1>1, <1>2 DEF OperationInv
  <1>4. ASSUME NEW q \in Refs, q < lastRef + 1 PROVE ops[q] \in {"done", "cancelled"}
    <2>1. ~(q > lastRef)
      BY <1>1, <1>4 DEF Refs
    <2>2. ops[q] # "none" /\ ops[q] # "pending"
      BY <1>2, <2>1 DEF OperationInv
    <2> QED
      BY <1>1, <2>2 DEF OpStates
  <1> QED
    BY <1>2, <1>3, <1>4 DEF Protocol!Begin, Protocol!Ops, Refs

LEMMA MakeIsTake ==
    ASSUME SessionInv, OperationInv, NEW h \in Handles, Makes(h, mem[h].intent.ref)
    PROVE  \/ UNCHANGED <<ops, {p.ref : p \in published}>>
           \/ mem[h].intent.ref \in Refs /\ Protocol!Take(mem[h].intent.ref)
  <1> DEFINE r == mem[h].intent.ref
  <1>1. /\ ops' = ops /\ mem[h].intent # None
        /\ published' = published \/ \E p : p.ref = r /\ published' = published \cup {p}
    BY DEF Makes
  <1>2. r \in Refs /\ r <= lastRef /\ lastRef \in Nat /\ ops \in [Refs -> OpStates]
    BY <1>1, EngineAssumption DEF SessionInv, TypeOK, Sessions, Intents, OperationInv
  <1> HIDE DEF r
  <1>3. CASE published' = published
    BY <1>1, <1>3
  <1>4. CASE published' # published
    <2>1. PICK p : p.ref = r /\ published' = published \cup {p}
      BY <1>1, <1>4
    <2>2. {q.ref : q \in published'} = {q.ref : q \in published} \cup {r}
      BY <2>1
    <2>3. CASE r \in {q.ref : q \in published}
      BY <1>1, <2>2, <2>3
    <2>4. CASE r \notin {q.ref : q \in published}
      <3>1. ops[r] # "done"
        BY <1>2, <2>4 DEF OperationInv, Made
      <3>2. ops[r] # "none"
        BY <1>2 DEF OperationInv, Refs
      <3>3. ops[r] \in {"pending", "cancelled"}
        BY <1>2, <3>1, <3>2 DEF OpStates
      <3> QED
        BY <1>1, <1>2, <2>2, <2>4, <3>3 DEF Protocol!Take, r
    <2> QED
      BY <2>3, <2>4
  <1> QED
    BY <1>3, <1>4

LEMMA ResolveIsComplete ==
    ASSUME SessionInv, OperationInv, NEW how \in {"done", "cancelled"},
           IsResolved(ledger.intent.ref, how), how = "done" => Made(ledger.intent.ref)
    PROVE  /\ ledger.intent.ref \in Refs
           /\ \/ Protocol!Complete(ledger.intent.ref)
              \/ Protocol!Cancel(ledger.intent.ref)
  <1> DEFINE r == ledger.intent.ref
  <1>1. /\ r \in Refs /\ Pending(ledger) /\ published' = published
        /\ ops' = [ops EXCEPT ![r] = how]
    BY DEF IsResolved
  <1>2. ops[r] = "pending"
    BY <1>1 DEF OperationInv, Pending
  <1>3. how = "done" => r \in {p.ref : p \in published}
    BY DEF Made
  <1> QED
    BY <1>1, <1>2, <1>3 DEF Protocol!Complete, Protocol!Cancel

LEMMA NextIsProtocol ==
    ASSUME SessionInv, SessionInv', OperationInv, CancelInv, [Next]_vars
    PROVE  [Protocol!Next]_<<ops, {p.ref : p \in published}>>
  <1> DEFINE o == <<ops, {p.ref : p \in published}>>
  <1>0. Refs = Protocol!Ops
    BY DEF Refs, Protocol!Ops
  <1>1. CASE UNCHANGED vars
    BY <1>1 DEF vars
  <1>2. CASE AbandonSession
    BY <1>2 DEF AbandonSession
  <1>3. ASSUME NEW h \in Handles, Uneventful(h) PROVE UNCHANGED o
    BY <1>3 DEF Uneventful
  <1>4. ASSUME NEW h \in Handles, RecordIntent(h) PROVE Protocol!Next
    <2>1. Begins(lastRef + 1, call[h].inst)
      BY <1>4, RecordBegins
    <2>2. lastRef + 1 \in Refs
      BY <2>1 DEF Begins
    <2> QED
      BY <1>0, <2>1, <2>2, RecordIsBegin DEF Protocol!Next
  <1>5. ASSUME NEW h \in Handles, RecordOutcome(h) PROVE Protocol!Next
    BY <1>0, <1>5, OutcomeWasMade, ResolveIsComplete DEF Protocol!Next
  <1>6. ASSUME NEW h \in Handles, NEW i \in Insts, Cancel(h, i) PROVE Protocol!Next
    BY <1>0, <1>6, CancelResolves, ResolveIsComplete DEF Protocol!Next
  <1>7. ASSUME NEW h \in Handles, Publish(h) \/ PublishThenFail(h)
        PROVE  Protocol!Next \/ UNCHANGED o
    <2>1. Makes(h, mem[h].intent.ref)
      BY <1>7, PublishMakes
    <2>2. \/ UNCHANGED o
          \/ mem[h].intent.ref \in Refs /\ Protocol!Take(mem[h].intent.ref)
      BY <2>1, MakeIsTake
    <2>3. CASE UNCHANGED o
      BY <2>3
    <2>4. CASE mem[h].intent.ref \in Refs /\ Protocol!Take(mem[h].intent.ref)
      <3>1. PICK r \in Refs : r = mem[h].intent.ref
        BY <2>4
      <3>2. Protocol!Take(r)
        BY <2>4, <3>1 DEF Protocol!Take
      <3> QED
        BY <1>0, <3>2 DEF Protocol!Next
    <2> QED
      BY <2>2, <2>3, <2>4
  <1> QED
    BY <1>1, <1>2, <1>3, <1>4, <1>5, <1>6, <1>7, OperationSteps

\* Recording operations ahead of their effects does what it is for: each is
\* begun when the one before is resolved, its effect is made at most once and
\* only after it was begun, and one that is reported done has been made -
\* through crashes, retries, cancellations and racing handles.
THEOREM OperationsFollowProtocol == Held = FALSE => (Spec => ImplementsProtocol)
  <1> SUFFICES ASSUME Held = FALSE PROVE Spec => ImplementsProtocol
    OBVIOUS
  <1>1. Init => Protocol!Init
    BY DEF Init, Protocol!Init, Protocol!Ops, Refs
  <1>2. SessionInv /\ SessionInv' /\ OperationInv /\ CancelInv /\ [Next]_vars
            => [Protocol!Next]_<<ops, {p.ref : p \in published}>>
    BY NextIsProtocol
  <1>3. [](OperationInv /\ CancelInv) => []OperationInv /\ []CancelInv
    BY PTL
  <1> QED
    BY <1>1, <1>2, <1>3, OperationsInvariant, SessionInvariant, PTL
       DEF Spec, ImplementsProtocol, Protocol!Spec
-----------------------------------------------------------------------------
\* The branch an operation is recorded for.  It needs one more invariant: a verdict
\* that is current was reached for the branch the instance's store says pre-flight
\* checked (VerdictFits).

EventTypes == {"started", "report", "chooser_answer", "mutation_intent", "op_result",
               "mutation_outcome", "cancelled", "transition", "completed", "abandoned",
               "note"}
Results == {"op_result", "mutation_outcome"}

\* What an appended event says of branches: instances start once, and the
\* pre-flight's result, only it, names the branch it checked.
VerdictEvent(ev) ==
    /\ ev.type \in EventTypes
    /\ ev.type # "note" => ev.inst \in Insts
    /\ ev.type = "started" => ~Started(ledger, ev.inst)
    /\ ev.type \in Results =>
        ("branch" \in DOMAIN ev.writes
            <=> ev.type = "op_result" /\ ev.command = "preflightEntry")

-----------------------------------------------------------------------------
\* Only a command's result touches what commands wrote to a store before
\* (applyEvent).
LEMMA FoldKeepsEngine ==
    ASSUME NEW s \in Sessions, NEW ev, VerdictEvent(ev),
           ev.type \notin Results \cup {"started"}, NEW j \in Insts
    PROVE  /\ Apply(s, ev).insts[j].store.eng = s.insts[j].store.eng
           /\ Started(s, j) => Started(Apply(s, ev), j)
  <1> DEFINE t == Apply(s, ev)
             i == ev.inst
  <1>1. CASE ev.type = "note"
    BY <1>1, ApplyByType
  <1>2. CASE ev.type = "mutation_intent"
    <2>1. t = ApplyIntent(s, ev)
      BY <1>2, ApplyByType
    <2>2. t.insts = s.insts
      BY <2>1 DEF ApplyIntent, Sessions
    <2> QED
      BY <2>2 DEF Started
  <1>3. CASE ev.type \notin {"note", "mutation_intent"}
    <2>1. i \in Insts /\ s.insts[i] \in Instances /\ s.insts \in [Insts -> Instances]
      BY <1>3, InstanceFields DEF VerdictEvent, Sessions
    <2>2. PICK new : /\ t.insts = [s.insts EXCEPT ![i] = new]
                     /\ new.store.eng = s.insts[i].store.eng
                     /\ new.status = "unstarted" => s.insts[i].status = "unstarted"
      <3>1. CASE ev.type = "report"
        <4> DEFINE new == Reported(s.insts[i], ev.fields)
        <4>1. t = ApplyReport(s, ev)
          BY <3>1, ApplyByType
        <4>2. t.insts = [s.insts EXCEPT ![i] = new]
          BY <4>1 DEF ApplyReport, Reported, Sessions
        <4>3. new.store.eng = s.insts[i].store.eng /\ new.status = s.insts[i].status
          BY <2>1 DEF Reported, Instances, Stores
        <4> QED
          BY <4>2, <4>3
      <3>2. CASE ev.type = "chooser_answer"
        <4>1. t = ApplyAnswer(s, ev)
          BY <3>2, ApplyByType
        <4>2. PICK handoff : t.insts = [s.insts EXCEPT ![i] =
                                            Answered(s.insts[i], ev.fields, handoff)]
          BY <4>1 DEF ApplyAnswer, Answered, Sessions
        <4> DEFINE new == Answered(s.insts[i], ev.fields, handoff)
        <4>3. new.store.eng = s.insts[i].store.eng /\ new.status = s.insts[i].status
          BY <2>1 DEF Answered, Instances, Stores
        <4> QED
          BY <4>2, <4>3
      <3>3. CASE ev.type = "cancelled"
        <4> DEFINE new == Returned(s.insts[i])
        <4>1. t = ApplyCancellation(s, i)
          BY <3>3, ApplyByType
        <4>2. t.insts = [s.insts EXCEPT ![i] = new]
          BY <4>1 DEF ApplyCancellation, Returned, Sessions
        <4>3. new.store = s.insts[i].store
              /\ (new.status = s.insts[i].status \/ new.status = "abandoned")
          BY <2>1 DEF Returned, Instances
        <4> QED
          BY <4>2, <4>3
      <3>4. CASE ev.type = "transition"
        <4>1. t = ApplyTransition(s, ev)
          BY <3>4, ApplyByType
        <4>2. CASE ev.to \in Ends
          BY <2>1, <4>1, <4>2 DEF ApplyTransition
        <4>3. CASE ev.to \notin Ends
          <5> DEFINE new == [s.insts[i] EXCEPT !.step = ev.to, !.opDone = FALSE]
          <5>1. t.insts = [s.insts EXCEPT ![i] = new]
            BY <4>1, <4>3 DEF ApplyTransition, Sessions
          <5>2. new.store = s.insts[i].store /\ new.status = s.insts[i].status
            BY <2>1 DEF Instances
          <5> QED
            BY <5>1, <5>2
        <4> QED
          BY <4>2, <4>3
      <3>5. CASE ev.type = "completed"
        <4> DEFINE new == [s.insts[i] EXCEPT !.status = "completed"]
        <4>1. t = [s EXCEPT !.insts[i] = [@ EXCEPT !.status = "completed"]]
          BY <3>5, ApplyByType
        <4>2. t.insts = [s.insts EXCEPT ![i] = new]
          BY <4>1 DEF Sessions
        <4>3. new.store = s.insts[i].store /\ new.status = "completed"
          BY <2>1 DEF Instances
        <4> QED
          BY <4>2, <4>3
      <3>6. CASE ev.type = "abandoned"
        <4> DEFINE new == [s.insts[i] EXCEPT !.status = "abandoned"]
        <4>1. t = [s EXCEPT !.insts[i] = [@ EXCEPT !.status = "abandoned"]]
          BY <3>6, ApplyByType
        <4>2. t.insts = [s.insts EXCEPT ![i] = new]
          BY <4>1 DEF Sessions
        <4>3. new.store = s.insts[i].store /\ new.status = "abandoned"
          BY <2>1 DEF Instances
        <4> QED
          BY <4>2, <4>3
      <3> QED
        BY <1>3, <3>1, <3>2, <3>3, <3>4, <3>5, <3>6 DEF VerdictEvent, EventTypes, Results
    <2>3. CASE j = i
      <3>1. t.insts[j] = new
        BY <2>1, <2>2, <2>3
      <3> QED
        BY <2>2, <2>3, <3>1 DEF Started
    <2>4. CASE j # i
      <3>1. t.insts[j] = s.insts[j]
        BY <2>1, <2>2, <2>4
      <3> QED
        BY <3>1 DEF Started
    <2> QED
      BY <2>3, <2>4
  <1> QED
    BY <1>1, <1>2, <1>3

\* A command's result imports its writes into its instance, and touches no
\* other.
LEMMA FoldImports ==
    ASSUME NEW s \in Sessions, NEW ev, VerdictEvent(ev), ev.type \in Results,
           NEW j \in Insts
    PROVE  /\ Started(s, j) => Started(Apply(s, ev), j)
           /\ j # ev.inst => Apply(s, ev).insts[j] = s.insts[j]
           /\ j = ev.inst => Apply(s, ev).insts[j].store.eng.branch =
                                Written(s.insts[j].store.eng, ev.writes, "branch")
  <1> DEFINE t == Apply(s, ev)
             i == ev.inst
             done == ev.step = s.insts[i].step /\ StepOf(s.insts[i]).op = ev.command
             new == Imported(s.insts[i], ev.writes, done)
  <1>1. /\ i \in Insts /\ s.insts[i] \in Instances /\ s.insts \in [Insts -> Instances]
        /\ t = ApplyResult(s, ev)
    BY ApplyByType, InstanceFields DEF VerdictEvent, Sessions, Results
  <1>2. t.insts = [s.insts EXCEPT ![i] = new]
    BY <1>1 DEF ApplyResult, Imported, Sessions
  <1>3. new.status = s.insts[i].status
    BY <1>1 DEF Imported, Instances, Stores
  <1>4. new.store.eng = ImportWrites(s.insts[i].store.eng, ev.writes)
    BY <1>1 DEF Imported, Instances, Stores
  <1>5. new.store.eng.branch = Written(s.insts[i].store.eng, ev.writes, "branch")
    BY <1>4 DEF ImportWrites
  <1> HIDE DEF new, t
  <1>6. t.insts[i] = new /\ \A k \in Insts : k # i => t.insts[k] = s.insts[k]
    BY <1>1, <1>2
  <1> QED
    BY <1>3, <1>5, <1>6 DEF Started, t

-----------------------------------------------------------------------------
\* Appending an event keeps the verdicts' branches: an edit ends a verdict, a
\* pre-flight writes the branch to the store with the verdict, and nothing
\* else does either (capturePreflightState).
LEMMA AppendKeepsVerdicts ==
    ASSUME SessionInv, SessionInv', VerdictFits, NEW h \in Handles, NEW ev,
           AppendEvent(h, ev), VerdictEvent(ev)
    PROVE  VerdictFits'
  <1>1. ledger' = Apply(ledger, ev) /\ ledger \in Sessions
    BY DEF AppendEvent, SessionInv, GoodSession
  <1>2. /\ check \in [Insts -> Checks]
        /\ check' = IF ev.type = "note" THEN check
                    ELSE [check EXCEPT ![ev.inst] = CheckAfter(check[ev.inst], ev)]
    BY DEF AppendEvent, SessionInv, TypeOK
  <1>3. SUFFICES ASSUME NEW i \in Insts, check'[i].current
                 PROVE  /\ Started(ledger', i)
                        /\ check'[i].branch = ledger'.insts[i].store.eng.branch
    BY DEF VerdictFits
  <1>4. CASE ev.type \notin Results \cup {"started"}
    <2>1. check[i].current /\ check'[i].branch = check[i].branch
      BY <1>2, <1>3, <1>4 DEF CheckAfter, Checks, Results, VerdictEvent
    <2> QED
      BY <1>1, <1>4, <2>1, FoldKeepsEngine DEF VerdictFits
  <1>5. CASE ev.type = "started"
    <2>1. check'[i] = check[i]
      BY <1>2, <1>5 DEF CheckAfter, VerdictEvent
    <2>2. Started(ledger, i) /\ check[i].branch = ledger.insts[i].store.eng.branch
      BY <1>3, <2>1 DEF VerdictFits
    <2>3. i # ev.inst
      BY <1>5, <2>2 DEF VerdictEvent
    <2>4. ledger'.insts[i] = ledger.insts[i]
      <3>1. ledger' = ApplyStarted(ledger, ev)
        BY <1>1, <1>5, ApplyByType
      <3> QED
        BY <1>1, <2>3, <3>1 DEF ApplyStarted, Sessions
    <2> QED
      BY <2>1, <2>2, <2>4 DEF Started
  <1>6. CASE ev.type \in Results /\ i # ev.inst
    <2>1. check'[i] = check[i]
      BY <1>2, <1>6
    <2>2. ledger'.insts[i] = ledger.insts[i]
      BY <1>1, <1>6, FoldImports
    <2> QED
      BY <1>3, <2>1, <2>2 DEF VerdictFits, Started
  <1>7. CASE ev.type \in Results /\ i = ev.inst
    <2>1. /\ Started(ledger, i) => Started(ledger', i)
          /\ ledger'.insts[i].store.eng.branch =
                Written(ledger.insts[i].store.eng, ev.writes, "branch")
      BY <1>1, <1>7, FoldImports
    <2>2. check'[i] = CheckAfter(check[i], ev)
      BY <1>2, <1>7 DEF Results
    <2>3. CASE ev.type = "op_result" /\ ev.command = "preflightEntry"
      <3>1. Started(ledger, i)
        BY <1>7, <2>3, SessionInv' DEF AppendEvent, SessionInv, Accepts
      <3>2. check'[i].branch = ev.writes.branch
        BY <2>2, <2>3 DEF CheckAfter
      <3>3. ledger'.insts[i].store.eng.branch = ev.writes.branch
        BY <1>7, <2>1, <2>3 DEF Written, VerdictEvent
      <3> QED
        BY <2>1, <3>1, <3>2, <3>3
    <2>4. CASE ~(ev.type = "op_result" /\ ev.command = "preflightEntry")
      <3>1. check[i].current /\ check'[i].branch = check[i].branch
        BY <1>2, <1>3, <1>7, <2>2, <2>4 DEF CheckAfter, Checks, Results
      <3>2. ledger'.insts[i].store.eng.branch = ledger.insts[i].store.eng.branch
        BY <1>7, <2>1, <2>4 DEF Written, VerdictEvent
      <3> QED
        BY <2>1, <3>1, <3>2 DEF VerdictFits
    <2> QED
      BY <2>3, <2>4
  <1> QED
    BY <1>4, <1>5, <1>6, <1>7

-----------------------------------------------------------------------------
\* Of all commands the pre-flight alone writes the checked branch
\* (runWorkflowPreflight).
LEMMA OnlyPreflightWritesBranch ==
    ASSUME NEW command \in Commands, NEW store, NEW step, NEW ref, NEW target,
           NEW w \in Writes(command, store, step, ref, target)
    PROVE  "branch" \in DOMAIN w <=> command = "preflightEntry"
  BY CommandsAssumption DEF WorkflowCommands, Writes, NoWrites

\* A step that begins an operation, changes a verdict or changes the stored
\* session appends an event that says of branches what VerdictEvent asks,
\* or is the session's teardown.
Quiet == UNCHANGED <<ledger, check, ops>>
Appends(h) ==
    \E ev : /\ AppendEvent(h, ev) /\ VerdictEvent(ev)
            /\ ev.type = "mutation_intent" => RecordIntent(h)

\* Notes.
LEMMA NoteAppends ==
    ASSUME NEW h \in Handles, NEW m, NEW c, Log(h, NoteEvent, m, c) PROVE Appends(h)
  <1>1. NoteEvent.type = "note"
    BY DEF NoteEvent
  <1> QED
    BY <1>1 DEF Appends, Log, VerdictEvent, EventTypes, Results

\* A started event names an instance nobody started.
LEMMA StartAppends ==
    ASSUME SessionInv, NEW h \in Handles, call[h].pc \in {"shell", "idle"},
           NEW proc, NEW parent, NEW opening, Start(h, proc, parent, opening)
    PROVE  Appends(h)
  <1> DEFINE i == mem[h].counter + 1
  <1>1. PICK ev : ev.type = "started" /\ ev.inst = i /\ AppendEvent(h, ev)
    BY DEF Start, Log, StartedEvent
  <1>2. i \in Insts /\ fresh[h]
    BY <1>1 DEF Start, AppendEvent, VerifiedBinding
  <1>3. ledger.counter = mem[h].counter /\ GoodSession(ledger) /\ ledger \in Sessions
    BY <1>2, LedgerFacts DEF SameSession
  <1>4. ~Started(ledger, i)
    BY <1>2, <1>3 DEF GoodSession, Sessions
  <1> QED
    BY <1>1, <1>2, <1>4 DEF Appends, VerdictEvent, EventTypes, Results

\* A command's result names a branch just when the command is the
\* pre-flight.
LEMMA ResultAppends ==
    ASSUME NEW h \in Handles, NEW ev, AppendEvent(h, ev), ev.type \in Results,
           ev.inst \in Insts,
           "branch" \in DOMAIN ev.writes
               <=> ev.type = "op_result" /\ ev.command = "preflightEntry"
    PROVE  Appends(h)
  BY DEF Appends, VerdictEvent, EventTypes, Results

\* Every other event says nothing of branches.
LEMMA PlainAppends ==
    ASSUME NEW h \in Handles, NEW ev, AppendEvent(h, ev), ev.inst \in Insts,
           ev.type \in EventTypes \ (Results \cup {"started", "note"}),
           ev.type = "mutation_intent" => RecordIntent(h)
    PROVE  Appends(h)
  BY DEF Appends, VerdictEvent

\* What is asked.
LEMMA AskAppends ==
    ASSUME SessionInv, NEW h \in Handles, Ask(h) PROVE Quiet \/ Appends(h)
  <1>1. CASE Load(h) \/ ResyncBinding(h) \/ BindBranch(h)
    BY <1>1 DEF Load, ResyncBinding, BindBranch, Bind, logged, Quiet
  <1>2. CASE StartProcedure(h)
    <2>1. call[h].pc = "idle"
          /\ \E proc, parent : Start(h, proc, parent, FALSE)
      BY <1>2 DEF StartProcedure, Ready, At
    <2> QED
      BY <2>1, StartAppends
  <1>3. CASE Note(h)
    BY <1>3, NoteAppends DEF Note
  <1>4. ASSUME NEW i \in Insts, Report(h, i) PROVE Appends(h)
    <2>1. PICK ev : AppendEvent(h, ev) /\ ev.type = "report" /\ ev.inst = i
      BY <1>4 DEF Report, Log, ReportEvent
    <2> QED
      BY <2>1, PlainAppends DEF EventTypes, Results
  <1>5. ASSUME NEW i \in Insts, Answer(h, i) PROVE Appends(h)
    <2>1. PICK ev : AppendEvent(h, ev) /\ ev.type = "chooser_answer" /\ ev.inst = i
      BY <1>5 DEF Answer, Log, AnswerEvent
    <2> QED
      BY <2>1, PlainAppends DEF EventTypes, Results
  <1>6. ASSUME NEW i \in Insts, Retry(h, i) PROVE Quiet
    BY <1>6 DEF Retry, Go, logged, Quiet
  <1>7. ASSUME NEW i \in Insts, Cancel(h, i) PROVE Appends(h)
    <2>1. PICK ev : AppendEvent(h, ev) /\ ev.type = "cancelled" /\ ev.inst = i
      BY <1>7 DEF Cancel, Log, CancelledEvent
    <2> QED
      BY <2>1, PlainAppends DEF EventTypes, Results
  <1>8. ASSUME NEW i \in Insts, Abandon(h, i) PROVE Appends(h)
    <2>1. PICK ev : AppendEvent(h, ev) /\ ev.type = "abandoned" /\ ev.inst = i
      BY <1>8 DEF Abandon, Log, EndEvent, EndAbandoned, EndCompleted
    <2> QED
      BY <2>1, PlainAppends DEF EventTypes, Results
  <1>9. ASSUME NEW i \in Insts, Park(h, i) PROVE Appends(h)
    BY <1>9, NoteAppends DEF Park
  <1> QED
    BY <1>1, <1>2, <1>3, <1>4, <1>5, <1>6, <1>7, <1>8, <1>9 DEF Ask

\* What calls do by themselves.
LEMMA ProceedAppends ==
    ASSUME SessionInv, NEW h \in Handles, Proceed(h) PROVE Quiet \/ Appends(h)
  <1>1. CASE StartShell(h)
    <2>1. call[h].pc = "shell" /\ \E proc : Start(h, proc, None, TRUE)
      BY <1>1 DEF StartShell, At
    <2> QED
      BY <2>1, StartAppends
  <1>2. CASE CascadeStops(h) \/ RunOp(h) \/ VerifyBinding(h) \/ CallFails(h)
    BY <1>2 DEF CascadeStops, RunOp, VerifyBinding, CallFails, Go, logged, Quiet
  <1>3. CASE Publish(h) \/ PublishThenFail(h) \/ RebindFails(h) \/ Return(h) \/ AppendRefused(h)
    BY <1>3 DEF Publish, PublishThenFail, RebindFails, Return, AppendRefused, logged, Quiet
  <1>4. CASE LogPublishedRead(h)
    BY <1>4, NoteAppends DEF LogPublishedRead
  <1> DEFINE c == call[h]
  <1>5. c.pc \in {"cascade", "move", "finish", "command", "run", "outcome"} => c.inst \in Insts
    BY DEF SessionInv, CallFits, OnInstance
  <1>6. CASE Advance(h)
    <2>0. PICK to : AppendEvent(h, TransitionEvent(c.inst, to))
      BY <1>6 DEF Advance, Log
    <2>1. PICK ev : AppendEvent(h, ev) /\ ev.type = "transition" /\ ev.inst = c.inst
      BY <2>0 DEF TransitionEvent
    <2>2. c.inst \in Insts
      BY <1>5, <1>6 DEF Advance, OnGate
    <2> QED
      BY <2>1, <2>2, PlainAppends DEF EventTypes, Results
  <1>7. CASE Move(h)
    <2>1. PICK ev : AppendEvent(h, ev) /\ ev.type = "transition" /\ ev.inst = c.inst
      BY <1>7 DEF Move, Log, TransitionEvent
    <2>2. c.inst \in Insts
      BY <1>5, <1>7 DEF Move, At
    <2> QED
      BY <2>1, <2>2, PlainAppends DEF EventTypes, Results
  <1>8. CASE Finish(h)
    <2>1. PICK ev : /\ AppendEvent(h, ev) /\ ev.type \in {"completed", "abandoned"}
                    /\ ev.inst = c.inst
      BY <1>8 DEF Finish, Log, EndEvent
    <2>2. c.inst \in Insts
      BY <1>5, <1>8 DEF Finish, At
    <2> QED
      BY <2>1, <2>2, PlainAppends DEF EventTypes, Results
  <1>9. CASE RecordIntent(h)
    <2>1. PICK ev : AppendEvent(h, ev) /\ ev.type = "mutation_intent" /\ ev.inst = c.inst
      BY SMTT(30), <1>9 DEF RecordIntent, Log, IntentEvent
    <2>2. c.inst \in Insts
      BY <1>5, <1>9 DEF RecordIntent, At
    <2> QED
      BY <1>9, <2>1, <2>2, PlainAppends DEF EventTypes, Results
  <1>10. CASE ReopenPlayback(h)
    <2>0. PICK step : AppendEvent(h, ResultEvent(c.inst, step, "reopenPlayback",
                                                 [confirmation |-> None]))
      BY <1>10 DEF ReopenPlayback, Log
    <2>1. PICK ev : /\ AppendEvent(h, ev) /\ ev.type = "op_result" /\ ev.inst = c.inst
                    /\ ev.command = "reopenPlayback" /\ ev.writes = [confirmation |-> None]
      BY <2>0 DEF ResultEvent
    <2>2. c.inst \in Insts
      BY <1>5, <1>10 DEF ReopenPlayback, OnGate
    <2> QED
      BY <2>1, <2>2, ResultAppends DEF Results
  <1>11. CASE RunCommand(h)
    <2>1. c.inst \in Insts /\ c.fn \in Commands
      BY <1>5, <1>11 DEF RunCommand, At, SessionInv, CallFits
    <2>2. PICK w \in Writes(c.fn, mem[h].insts[c.inst].store, mem[h].insts[c.inst].step,
                            None, Target(h, c.inst)) :
            AppendEvent(h, ResultEvent(c.inst, mem[h].insts[c.inst].step, c.fn, w))
      BY <1>11 DEF RunCommand, Log
    <2>3. PICK ev : /\ AppendEvent(h, ev) /\ ev.type = "op_result" /\ ev.inst = c.inst
                    /\ ev.command = c.fn /\ ev.writes = w
      BY <2>2 DEF ResultEvent
    <2>4. "branch" \in DOMAIN w <=> c.fn = "preflightEntry"
      BY <2>1, <2>2, OnlyPreflightWritesBranch
    <2> QED
      BY <2>1, <2>3, <2>4, ResultAppends DEF Results
  <1>12. CASE RecordOutcome(h)
    <2>1. c.inst \in Insts /\ OnOperation(mem[h], c) /\ GoodSession(mem[h])
      BY <1>5, <1>12 DEF RecordOutcome, At, SessionInv, CallFits
    <2>2. c.fn \in Prepared /\ c.fn \in Commands
      <3>1. mem[h].intent \in Intents /\ mem[h].intent.command \in Prepared
        BY <2>1, PendingFacts DEF OnOperation
      <3> QED
        BY <2>1, <3>1 DEF OnOperation, Intents
    <2>3. PICK w \in Writes(c.fn, mem[h].intentStore, mem[h].intent.step,
                            mem[h].intent.ref, mem[h].intent.branch) :
            AppendEvent(h, OutcomeEvent(c.inst, mem[h].intent.ref,
                                        mem[h].insts[c.inst].step, c.fn, w))
      BY <1>12 DEF RecordOutcome, Log
    <2>4. PICK ev : /\ AppendEvent(h, ev) /\ ev.type = "mutation_outcome" /\ ev.inst = c.inst
                    /\ ev.writes = w
      BY <2>3 DEF OutcomeEvent
    <2>5. "branch" \notin DOMAIN w
      BY <2>2, <2>3, OnlyPreflightWritesBranch DEF Prepared
    <2> QED
      BY <2>1, <2>4, <2>5, ResultAppends DEF Results
  <1> QED
    BY <1>1, <1>2, <1>3, <1>4, <1>6, <1>7, <1>8, <1>9, <1>10, <1>11, <1>12 DEF Proceed

\* Every step keeps the verdicts' branches.
LEMMA NextKeepsVerdicts ==
    ASSUME Held = FALSE, SessionInv, VerdictFits, [Next]_vars PROVE VerdictFits'
  <1>1. SessionInv'
    BY NextPreserves
  <1>2. Quiet => VerdictFits'
    BY DEF Quiet, VerdictFits, Started
  <1>3. ASSUME NEW h \in Handles, Appends(h) PROVE VerdictFits'
    BY <1>1, <1>3, AppendKeepsVerdicts DEF Appends
  <1>4. CASE AbandonSession
    <2>1. ledger \in Sessions /\ check' = check
      BY <1>4 DEF AbandonSession, SessionInv, GoodSession
    <2>2. ASSUME NEW i \in Insts
          PROVE  /\ ledger'.insts[i].store = ledger.insts[i].store
                 /\ Started(ledger, i) => Started(ledger', i)
      <3>1. ledger'.insts[i] = IF Running(ledger, i)
                               THEN [ledger.insts[i] EXCEPT !.status = "abandoned"]
                               ELSE ledger.insts[i]
        BY <1>4, <2>1 DEF AbandonSession, Sessions
      <3>2. ledger.insts[i] \in Instances
        BY <2>1, InstanceFields
      <3> QED
        BY <3>1, <3>2 DEF Instances, Started
    <2> QED
      BY <2>1, <2>2 DEF VerdictFits
  <1>5. ASSUME NEW h \in Handles, Crash(h) PROVE Quiet
    BY <1>5 DEF Crash, logged, Quiet
  <1>6. UNCHANGED vars => Quiet
    BY DEF vars, Quiet
  <1> QED
    BY <1>2, <1>3, <1>4, <1>5, <1>6, AskAppends, ProceedAppends DEF Next

\* A current verdict is for the branch its instance's store names, for any
\* procedures, handles and bounds.
THEOREM VerdictsFit == Held = FALSE => (Spec => []VerdictFits)
  <1> SUFFICES ASSUME Held = FALSE PROVE Spec => []VerdictFits
    OBVIOUS
  <1>1. Init => VerdictFits
    BY DEF Init, VerdictFits, NoCheck
  <1>2. SessionInv /\ VerdictFits /\ [Next]_vars => VerdictFits'
    BY NextKeepsVerdicts
  <1> QED
    BY <1>1, <1>2, SessionInvariant, PTL DEF Spec

-----------------------------------------------------------------------------
\* An intent is recorded for the branch in force: the effective target now,
\* or the one pre-flight checked, which a current verdict says is the same.
LEMMA IntentForTarget ==
    ASSUME SessionInv, VerdictFits, NEW h \in Handles, RecordIntent(h)
    PROVE  ledger'.intent.branch =
                EffectiveTarget(ledger.insts[ledger'.intent.inst].store, branch)
  <1> DEFINE c == call[h]
             i == c.inst
             store == mem[h].insts[i].store
             to == IntentBranch(c.fn, store, Target(h, i))
  <1>1. /\ fresh[h] /\ c.pc = "command" /\ PrepareSucceeds(c.fn, store, Verdict(h, i))
        /\ \E ref, step : AppendEvent(h, IntentEvent(i, ref, step, c.fn, c.to, to))
    BY DEF RecordIntent, At, Log, AppendEvent, VerifiedBinding
  <1>2. /\ i \in Insts /\ mem[h] \in Sessions /\ ledger \in Sessions
        /\ SameSession(mem[h], ledger, c) /\ view[h] = branch
    <2>1. CallFits(mem[h], c)
      BY DEF SessionInv
    <2> QED
      BY <1>1, <2>1, LedgerFacts DEF CallFits, OnInstance
  <1>3. store = ledger.insts[i].store
    BY <1>2, SameFields
  <1>4. to = EffectiveTarget(store, branch)
    <2>1. CASE c.fn # "newEntry"
      BY <1>2, <2>1 DEF IntentBranch, Target
    <2>2. CASE c.fn = "newEntry"
      <3>1. check[i].current /\ check[i].branch = EffectiveTarget(store, view[h])
        BY <1>1, <2>2 DEF PrepareSucceeds, Verdict
      <3>2. check[i].branch = store.eng.branch
        BY <1>2, <1>3, <3>1 DEF VerdictFits
      <3> QED
        BY <1>2, <2>2, <3>1, <3>2 DEF IntentBranch
    <2> QED
      BY <2>1, <2>2
  <1> HIDE DEF to
  <1>5. PICK ev : /\ AppendEvent(h, ev) /\ ev.type = "mutation_intent" /\ ev.inst = i
                  /\ ev.branch = to
    BY <1>1 DEF IntentEvent
  <1>6. ledger' = Apply(ledger, ev)
    <2>1. readable'
      BY <1>2, RecordIntentPreserves DEF SessionInv
    <2> QED
      BY <1>5, <2>1 DEF AppendEvent
  <1>7. ledger' = ApplyIntent(ledger, ev)
    BY <1>5, <1>6, ApplyByType
  <1>8. ledger'.intent.branch = to /\ ledger'.intent.inst = i
    BY <1>2, <1>5, <1>7 DEF ApplyIntent, Sessions
  <1> QED
    BY <1>3, <1>4, <1>8

\* An operation is recorded for the branch in force at that moment
\* (effectiveTargetSource), for any procedures, handles, branches and
\* bounds: not for one bound when the draft was checked or when the handle
\* was opened.
THEOREM RecordedForBranch == Held = FALSE => (Spec => RecordedForTheDeclaredBranch)
  <1> SUFFICES ASSUME Held = FALSE PROVE Spec => RecordedForTheDeclaredBranch
    OBVIOUS
  <1> DEFINE ForBranch ==
        \A r \in Refs :
            ops[r] = "none" /\ ops'[r] = "pending" =>
                ledger'.intent.branch =
                    EffectiveTarget(ledger.insts[ledger'.intent.inst].store, branch)
  <1>1. SessionInv /\ VerdictFits /\ [Next]_vars => [ForBranch]_vars
    <2> SUFFICES ASSUME SessionInv, VerdictFits, Next,
                        NEW r \in Refs, ops[r] = "none", ops'[r] = "pending"
                 PROVE  ledger'.intent.branch =
                            EffectiveTarget(ledger.insts[ledger'.intent.inst].store, branch)
      OBVIOUS
    <2>1. ASSUME NEW h \in Handles, Appends(h) PROVE RecordIntent(h)
      <3>1. PICK ev : AppendEvent(h, ev) /\ (ev.type = "mutation_intent" => RecordIntent(h))
        BY <2>1 DEF Appends
      <3>2. ops' = OpsAfter(ev) /\ ops \in [Refs -> OpStates]
        BY <3>1 DEF AppendEvent, SessionInv, TypeOK
      <3>3. ev.type = "mutation_intent"
        BY <3>2 DEF OpsAfter
      <3> QED
        BY <3>1, <3>3
    <2>2. ~Quiet /\ ~AbandonSession
      BY DEF Quiet, AbandonSession
    <2>3. \A h \in Handles : ~Crash(h)
      BY DEF Crash, logged
    <2> QED
      BY <2>1, <2>2, <2>3, AskAppends, ProceedAppends, IntentForTarget DEF Next
  <1> QED
    BY <1>1, SessionInvariant, VerdictsFit, PTL DEF Spec, RecordedForTheDeclaredBranch
-----------------------------------------------------------------------------
(* The dialogue's shell, and what a capture publishes: a dialogue that has     *)
(* begun runs one shell until it ends (ShellInv), and a capture publishes what *)
(* was confirmed and checked (AgreementInv).  Both say of every appended event *)
(* what it makes of the instance it names; the first part states that once for *)
(* each kind of event.                                                         *)

-----------------------------------------------------------------------------
(***************************************************************************)
(* What an append makes of the log.                                        *)
(***************************************************************************)
\* Of the instances, an append changes at most i.
ChangesOnly(i) ==
    \A j \in Insts \ {i} :
        /\ ledger'.insts[j] = ledger.insts[j]
        /\ evidence'[j] = evidence[j] /\ check'[j] = check[j]

\* h appended an event about i; every other handle is behind now.
Appended(h, i, ev) ==
    /\ ev.inst = i /\ ev.type # "note"
    /\ VerifiedBinding(h) /\ ended' = EndsSession(ev)
    /\ ledger' = Apply(ledger, ev)
    /\ evidence'[i] = EvidenceAfter(evidence[i], ledger.insts[i], ev)
    /\ check'[i] = CheckAfter(check[i], ev)
    /\ \A j \in Insts \ {i} : evidence'[j] = evidence[j] /\ check'[j] = check[j]
    /\ \A g \in Handles : fresh'[g] <=> g = h

LEMMA LogAppends ==
    ASSUME SessionInv, SessionInv', NEW h \in Handles, NEW ev, NEW m, NEW c,
           Log(h, ev, m, c), NEW i \in Insts, ev.inst = i, ev.type # "note"
    PROVE  /\ Appended(h, i, ev)
           /\ call'[h] = c /\ \A g \in Handles \ {h} : call'[g] = call[g]
  <1>1. readable' /\ call \in [Handles -> Calls] /\ fresh \in [Handles -> BOOLEAN]
        /\ evidence \in [Insts -> Evidences] /\ check \in [Insts -> Checks]
    BY DEF SessionInv, TypeOK
  <1> QED
    BY <1>1 DEF Log, AppendEvent, Appended

\* What a handle's replay and the log have in common, where the handle may
\* append and i runs.
LEMMA Stands ==
    ASSUME SessionInv, NEW h \in Handles, fresh[h],
           call[h].pc \notin {"closed", "rebind", "done"},
           NEW i \in Insts, Running(mem[h], i)
    PROVE  LET b == mem[h].insts[i]
               l == ledger.insts[i]
           IN  /\ b.proc = l.proc /\ b.store = l.store /\ b.step = l.step
               /\ b.status = l.status /\ b.interactionStep = l.interactionStep
               /\ StepOf(b) = StepOf(l)
               /\ call[h].pc \notin {"move", "finish"} => b.opDone = l.opDone
               /\ l \in Instances /\ ledger \in Sessions /\ mem[h] \in Sessions
               /\ l.store \in Stores
               /\ Running(ledger, i) /\ Started(ledger, i)
               /\ l.proc \in Procs /\ l.step \in StepsOf(l.proc)
               /\ l.interactionStep \in StepsOf(l.proc) \cup {None}
               /\ StepOf(l) = SpecStep(l.proc, l.step)
               /\ WellFormedStep(l.proc, l.step)
               /\ mem[h].intent = ledger.intent /\ mem[h].intentStore = ledger.intentStore
               /\ Pending(mem[h]) <=> Pending(ledger)
               /\ GoodSession(ledger) /\ view[h] = branch
  <1>1. /\ SameSession(mem[h], ledger, call[h]) /\ GoodSession(ledger)
        /\ mem[h] \in Sessions /\ ledger \in Sessions /\ view[h] = branch
    BY LedgerFacts
  <1>2. ledger.insts[i] \in Instances /\ GoodInstance(ledger.insts[i])
    BY <1>1, InstanceFields DEF GoodSession
  <1>3. ledger.insts[i].store \in Stores
    BY <1>2 DEF Instances
  <1>4. ledger.insts[i].status = "running"
    BY <1>1, SameFields DEF Running
  <1>5. WellFormedStep(ledger.insts[i].proc, ledger.insts[i].step)
    BY <1>2, <1>4, StepFacts
  <1>6. /\ mem[h].insts[i].proc = ledger.insts[i].proc
        /\ mem[h].insts[i].store = ledger.insts[i].store
        /\ mem[h].insts[i].step = ledger.insts[i].step
        /\ mem[h].insts[i].status = ledger.insts[i].status
        /\ mem[h].insts[i].interactionStep = ledger.insts[i].interactionStep
        /\ Pending(mem[h]) <=> Pending(ledger)
    BY <1>1, SameFields
  <1>7. /\ Running(ledger, i) /\ Started(ledger, i)
        /\ StepOf(mem[h].insts[i]) = StepOf(ledger.insts[i])
        /\ StepOf(ledger.insts[i]) = SpecStep(ledger.insts[i].proc, ledger.insts[i].step)
    BY <1>4, <1>6 DEF StepOf, SpecStep, Running, Started
  <1>8. /\ ledger.insts[i].proc \in Procs
        /\ ledger.insts[i].step \in StepsOf(ledger.insts[i].proc)
        /\ ledger.insts[i].interactionStep \in StepsOf(ledger.insts[i].proc) \cup {None}
    BY <1>2, <1>4 DEF GoodInstance
  <1>9. /\ mem[h].intent = ledger.intent /\ mem[h].intentStore = ledger.intentStore
    BY <1>1 DEF SameSession
  <1>10. call[h].pc \notin {"move", "finish"} => mem[h].insts[i].opDone = ledger.insts[i].opDone
    BY RunningData
  <1> QED
    BY <1>1, <1>2, <1>3, <1>5, <1>6, <1>7, <1>8, <1>9, <1>10

\* Replacing one instance leaves the others and the latest operation alone.
LEMMA ReplacedElsewhere ==
    ASSUME NEW s \in Sessions, NEW i \in Insts, NEW new, NEW mark
    PROVE  /\ \A j \in Insts \ {i} : Replaced(s, i, new, mark).insts[j] = s.insts[j]
           /\ Replaced(s, i, new, mark).counter = s.counter
  BY DEF Replaced, Sessions

\* h appended ev and goes on with c; instance i is new, and no operation is
\* unfinished.
Rewritten(h, i, ev, new, c) ==
    /\ ledger'.insts[i] = new /\ ChangesOnly(i) /\ ~Pending(ledger')
    /\ ledger'.counter = ledger.counter
    /\ Appended(h, i, ev)
    /\ call'[h] = c /\ \A g \in Handles \ {h} : call'[g] = call[g]

\* h started instance i, and goes on with c.
Begun(h, i, ev, new, c) ==
    /\ ledger'.insts[i] = new /\ ChangesOnly(i) /\ ~Pending(ledger')
    /\ i = ledger.counter + 1 /\ ledger'.counter = i /\ ~Started(ledger, i)
    /\ Appended(h, i, ev)
    /\ call'[h] = c /\ \A g \in Handles \ {h} : call'[g] = call[g]

\* An append that replaces one instance, over no unfinished operation.
LEMMA Rewrites ==
    ASSUME SessionInv, SessionInv', NEW h \in Handles, NEW ev, NEW m, NEW c,
           Log(h, ev, m, c), NEW i \in Insts, ev.inst = i, ev.type # "note",
           NEW new, NEW mark, Apply(ledger, ev) = Replaced(ledger, i, new, mark),
           ~Pending(ledger)
    PROVE  Rewritten(h, i, ev, new, c)
  <1>1. ledger \in Sessions
    BY DEF SessionInv, GoodSession
  <1>2. /\ Appended(h, i, ev)
        /\ call'[h] = c /\ \A g \in Handles \ {h} : call'[g] = call[g]
    BY LogAppends
  <1>3. ledger' = Replaced(ledger, i, new, mark)
    BY <1>2 DEF Appended
  <1> QED
    BY <1>1, <1>2, <1>3, ReplacedFacts, ReplacedElsewhere
       DEF Appended, ChangesOnly, Rewritten

\* An append that resolves the latest operation.
LEMMA Resolves ==
    ASSUME SessionInv, SessionInv', NEW h \in Handles, NEW ev, NEW m, NEW c,
           Log(h, ev, m, c), NEW i \in Insts, ev.inst = i, ev.type # "note",
           NEW new, NEW mark, Apply(ledger, ev) = Resolved(ledger, i, new, mark)
    PROVE  Rewritten(h, i, ev, new, c)
  <1>1. ledger \in Sessions
    BY DEF SessionInv, GoodSession
  <1>2. /\ Appended(h, i, ev)
        /\ call'[h] = c /\ \A g \in Handles \ {h} : call'[g] = call[g]
    BY LogAppends
  <1>3. ledger' = Resolved(ledger, i, new, mark)
    BY <1>2 DEF Appended
  <1> QED
    BY <1>1, <1>2, <1>3, ResolvedFacts DEF Appended, ChangesOnly, Rewritten

\* A running instance of the log is at a step of its procedure.
LEMMA RunsWell ==
    ASSUME SessionInv, NEW i \in Insts, Running(ledger, i)
    PROVE  LET l == ledger.insts[i]
           IN  /\ l \in Instances /\ l.store \in Stores
               /\ l.proc \in Procs /\ l.step \in StepsOf(l.proc)
               /\ l.interactionStep \in StepsOf(l.proc) \cup {None}
               /\ WellFormedStep(l.proc, l.step)
               /\ StepOf(l) = SpecStep(l.proc, l.step)
  <1>1. ledger.insts[i] \in Instances /\ GoodInstance(ledger.insts[i])
    BY InstanceFields DEF SessionInv, GoodSession
  <1>2. ledger.insts[i].status # "unstarted"
    BY DEF Running
  <1>3. WellFormedStep(ledger.insts[i].proc, ledger.insts[i].step)
    BY <1>1, <1>2, StepFacts
  <1> QED
    BY <1>1, <1>2, <1>3 DEF Instances, GoodInstance, StepOf, SpecStep

\* A report (Session.Report).
LEMMA ReportRewrites ==
    ASSUME SessionInv, SessionInv', NEW h \in Handles, NEW i \in Insts, Report(h, i)
    PROVE  \E ev, fields : /\ Rewritten(h, i, ev, Reported(ledger.insts[i], fields), CallOn(i))
                           /\ ev.type = "report" /\ Running(ledger, i)
  <1>1. /\ fresh[h] /\ call[h].pc = "idle" /\ ~Pending(mem[h]) /\ Running(mem[h], i)
    BY DEF Report, Ready, At, CheckProgression, Log, AppendEvent, VerifiedBinding
  <1>2. PICK fields, m : Log(h, ReportEvent(i, mem[h].insts[i].step, fields), m, CallOn(i))
    BY DEF Report
  <1> DEFINE ev == ReportEvent(i, mem[h].insts[i].step, fields)
             new == Reported(ledger.insts[i], fields)
             mark == ClearCancellation(ledger.cancelled, i)
  <1>3. ev.inst = i /\ ev.type = "report" /\ Log(h, ev, m, CallOn(i))
    BY <1>2 DEF ReportEvent
  <1>4. Apply(ledger, ev) = Replaced(ledger, i, new, mark)
    <2>1. Apply(ledger, ev) = ApplyReport(ledger, ev)
      BY <1>3, ApplyByType
    <2> QED
      BY <2>1, ReportReplaces
  <1>5. ~Pending(ledger) /\ Running(ledger, i)
    BY <1>1, Stands
  <1> HIDE DEF ev, new, mark
  <1>6. Rewritten(h, i, ev, new, CallOn(i))
    BY <1>3, <1>4, <1>5, Rewrites
  <1> QED
    BY <1>3, <1>5, <1>6 DEF new

\* An answer goes on with what its option calls, or where it leads
\* (Session.Answer).
AnswerCall(i, o) ==
    IF o.call = None THEN MoveCall(i, o.to) ELSE CommandCall(i, o.call, o.to)

LEMMA AnswerRewrites ==
    ASSUME SessionInv, SessionInv', NEW h \in Handles, NEW i \in Insts, Answer(h, i)
    PROVE  LET l == ledger.insts[i]
           IN  \E ev, o, fields :
                /\ Rewritten(h, i, ev, Answered(l, fields, RecordDispatchSeed(o)), AnswerCall(i, o))
                /\ ev.type = "chooser_answer" /\ ev.chooser = l.step /\ ev.choice = o.choice
                /\ o \in SpecStep(l.proc, l.step).options
                /\ fields \in UNION {FieldWrites(d) : d \in SUBSET o.collect}
                /\ Running(ledger, i) /\ Chooses(SpecStep(l.proc, l.step))
  <1> DEFINE l == ledger.insts[i]
             b == mem[h].insts[i]
             st == l.step
  <1>1. /\ fresh[h] /\ call[h].pc = "idle" /\ ~Pending(mem[h]) /\ Running(mem[h], i)
        /\ StepOf(b).chooser # "gate"
    BY DEF Answer, Ready, At, CheckProgression, Log, AppendEvent, VerifiedBinding
  <1>2. PICK o, fields, m :
            /\ o \in StepOf(b).options
            /\ fields \in UNION {FieldWrites(d) : d \in SUBSET o.collect}
            /\ Log(h, AnswerEvent(i, b.step, o, fields), m, AnswerCall(i, o))
    BY DEF Answer, AnswerCall
  <1> DEFINE ev == AnswerEvent(i, st, o, fields)
             new == Answered(l, fields, RecordDispatchSeed(o))
             mark == ClearCancellation(ledger.cancelled, i)
  <1>3. /\ ~Pending(ledger) /\ Running(ledger, i) /\ WellFormedStep(l.proc, st)
        /\ b.step = st /\ StepOf(b) = SpecStep(l.proc, st) /\ StepOf(l) = SpecStep(l.proc, st)
    BY <1>1, Stands
  <1>4. /\ ev.inst = i /\ ev.type = "chooser_answer" /\ ev.chooser = st
        /\ ev.choice = o.choice /\ Log(h, ev, m, AnswerCall(i, o))
        /\ o \in SpecStep(l.proc, st).options
    BY <1>2, <1>3 DEF AnswerEvent
  <1>5. Apply(ledger, ev) = Replaced(ledger, i, new, mark)
    <2>1. Apply(ledger, ev) = ApplyAnswer(ledger, ev)
      BY <1>4, ApplyByType
    <2> QED
      BY <1>3, <1>4, <2>1, AnswerReplaces
  <1> HIDE DEF ev, new, mark
  <1>6. Rewritten(h, i, ev, new, AnswerCall(i, o))
    BY <1>3, <1>4, <1>5, Rewrites
  <1>7. Chooses(SpecStep(l.proc, st))
    BY <1>1, <1>3 DEF Chooses
  <1> QED
    BY <1>2, <1>3, <1>4, <1>6, <1>7 DEF new

-----------------------------------------------------------------------------
(***************************************************************************)
(* Captures: each step keeps AgreementInv.                                 *)
(***************************************************************************)
\* An append about i keeps the agreement if it does so for i and for the
\* call that made it: the other handles are behind.
LEMMA AppendKeeps ==
    ASSUME AgreementInv, NEW h \in Handles, NEW i \in Insts, NEW ev, NEW new, NEW c,
           Rewritten(h, i, ev, new, c) \/ Begun(h, i, ev, new, c),
           AgreedSoFar(i)', EvidenceFits(i)', CallAgrees(call[h])'
    PROVE  AgreementInv'
  <1>0. Appended(h, i, ev) /\ ChangesOnly(i) /\ ~Pending(ledger')
    BY DEF Rewritten, Begun
  <1>1. ASSUME NEW j \in Insts, j # i PROVE (AgreedSoFar(j) /\ EvidenceFits(j))'
    <2>1. AgreedSoFar(j) /\ EvidenceFits(j)
      BY DEF AgreementInv
    <2>2. ledger'.insts[j] = ledger.insts[j] /\ evidence'[j] = evidence[j] /\ check'[j] = check[j]
      BY <1>0, <1>1 DEF ChangesOnly
    <2> QED
      BY <2>1, <2>2 DEF AgreedSoFar, EvidenceFits, Running, Started, Agreed, ConfirmedAsStored
  <1>2. \A g \in Handles : Current(g)' => g = h
    BY <1>0 DEF Appended, Current
  <1> QED
    BY <1>0, <1>1, <1>2 DEF AgreementInv, PublishesWhatWasAgreed

\* A step of a call that leaves the log alone.
LEMMA QuietKeeps ==
    ASSUME AgreementInv, UNCHANGED <<ledger, evidence, check>>,
           NEW h \in Handles, \A g \in Handles \ {h} : Current(g)' => Current(g) /\ call'[g] = call[g],
           Current(h)' => CallAgrees(call[h])'
    PROVE  AgreementInv'
  <1>1. \A i \in Insts : (AgreedSoFar(i) /\ EvidenceFits(i))'
    BY DEF AgreementInv, AgreedSoFar, EvidenceFits, Running, Started, Agreed, ConfirmedAsStored
  <1>2. PublishesWhatWasAgreed'
    BY DEF AgreementInv, PublishesWhatWasAgreed, Pending
  <1>3. (Pending(ledger) /\ ledger.intent.to # None =>
            AnswerFits(ledger.intent.inst, ledger.intent.to))'
    BY DEF AgreementInv, Pending, AnswerFits, Agreed
  <1>4. ASSUME NEW g \in Handles \ {h}, Current(g)' PROVE CallAgrees(call[g])'
    <2>1. CallAgrees(call[g]) /\ call'[g] = call[g]
      BY <1>4 DEF AgreementInv
    <2>2. ledger' = ledger /\ evidence' = evidence
      OBVIOUS
    <2> QED
      BY ONLY <2>1, <2>2 DEF CallAgrees, Agreed, ConfirmedAsStored
  <1> QED
    BY <1>1, <1>2, <1>3, <1>4 DEF AgreementInv

\* What the discipline of capture procedures says of the step an instance is at.
LEMMA Discipline ==
    ASSUME NEW proc \in Procs, NEW st \in StepsOf(proc)
    PROVE  /\ Chooses(SpecStep(proc, st)) =>
                \A o \in SpecStep(proc, st).options : DisciplinedOption(proc, st, o)
           /\ ~Chooses(SpecStep(proc, st)) =>
                SpecStep(proc, st).options = {} /\ DisciplinedGate(proc, st)
           /\ Chooses(SpecStep(proc, st)) => SpecStep(proc, st).op = None
  <1>1. IF Chooses(SpecStep(proc, st))
        THEN \A o \in SpecStep(proc, st).options : DisciplinedOption(proc, st, o)
        ELSE SpecStep(proc, st).options = {} /\ DisciplinedGate(proc, st)
    BY CaptureAssumption
  <1>2. WellFormedStep(proc, st)
    BY SpecsAssumption
  <1>3. Chooses(SpecStep(proc, st)) => SpecStep(proc, st).op = None
    BY <1>2 DEF WellFormedStep, Chooses, SpecStep
  <1> QED
    BY <1>1, <1>3

\* An instance that stays where it is, with what it was confirmed and
\* checked for, agrees as far as it did.
LEMMA StaysAgreed ==
    ASSUME NEW i \in Insts, AgreedSoFar(i),
           ledger'.insts[i].proc = ledger.insts[i].proc,
           ledger'.insts[i].step = ledger.insts[i].step,
           ledger'.insts[i].status = ledger.insts[i].status,
           \/ ledger'.insts[i].opDone = ledger.insts[i].opDone
           \/ StepOf(ledger.insts[i]).op # "preflightEntry",
           ledger'.insts[i].store.eng.confirmation = ledger.insts[i].store.eng.confirmation,
           evidence'[i].confirmed = evidence[i].confirmed,
           evidence'[i].checked = evidence[i].checked
    PROVE  AgreedSoFar(i)'
  <1>1. StepOf(ledger'.insts[i]) = StepOf(ledger.insts[i])
    BY DEF StepOf
  <1>2. Running(ledger', i) /\ Agreed(ledger', i) => Running(ledger, i) /\ Agreed(ledger, i)
    BY DEF Running, Agreed
  <1>3. ConfirmedAsStored(i) => ConfirmedAsStored(i)'
    BY DEF ConfirmedAsStored
  <1> QED
    BY <1>1, <1>2, <1>3 DEF AgreedSoFar

\* A report changes neither where its instance stands nor what was confirmed
\* or checked.
LEMMA ReportKeeps ==
    ASSUME SessionInv, SessionInv', AgreementInv, NEW h \in Handles, NEW i \in Insts,
           Report(h, i)
    PROVE  AgreementInv'
  <1> DEFINE l == ledger.insts[i]
  <1>1. PICK ev, fields : /\ Rewritten(h, i, ev, Reported(l, fields), CallOn(i))
                          /\ ev.type = "report" /\ Running(ledger, i)
    BY ReportRewrites
  <1> DEFINE new == Reported(l, fields)
  <1>5. l \in Instances /\ l.store \in Stores
    BY InstanceFields DEF SessionInv, GoodSession, Instances
  <1>6. /\ new.proc = l.proc /\ new.step = l.step /\ new.status = l.status
        /\ new.opDone = l.opDone /\ new.store.eng = l.store.eng
    BY <1>5 DEF Reported, Instances, Stores
  <1> HIDE DEF new
  <1>7. Rewritten(h, i, ev, new, CallOn(i))
    BY <1>1 DEF new
  <1>8. /\ evidence'[i] = evidence[i]
        /\ check'[i].current /\ check'[i].accepted => check[i].current /\ check[i].accepted
    <2>1. check[i] \in Checks
      BY DEF SessionInv, TypeOK
    <2> QED
      BY <1>1, <1>7, <2>1 DEF Rewritten, Appended, EvidenceAfter, CheckAfter, Checks
  <1>9. AgreedSoFar(i) /\ EvidenceFits(i)
    BY DEF AgreementInv
  <1>10. AgreedSoFar(i)'
    BY <1>6, <1>7, <1>8, <1>9, StaysAgreed DEF Rewritten
  <1>11. EvidenceFits(i)'
    BY <1>1, <1>6, <1>7, <1>8, <1>9 DEF Rewritten, EvidenceFits, Running, Started
  <1>12. CallAgrees(call[h])'
    BY <1>7 DEF Rewritten, CallAgrees, CallOn, NoCall
  <1> QED
    BY <1>7, <1>10, <1>11, <1>12, AppendKeeps

\* What an answer that takes option o says of an instance.
AnswerEvidence(e, inst, o) ==
    CASE o.call = "confirmPlayback" -> [e EXCEPT !.confirmed = inst.store.state]
      [] o.call = "recordOverride" -> [e EXCEPT !.passed = TRUE]
      [] OTHER -> e

\* An answer is read by the option it takes (SpecStep's choice).
LEMMA AnsweredOption ==
    ASSUME NEW inst, NEW st, WellFormedStep(inst.proc, st), NEW o \in SpecStep(inst.proc, st).options,
           NEW ev, ev.type = "chooser_answer", ev.chooser = st, ev.choice = o.choice, NEW e
    PROVE  EvidenceAfter(e, inst, ev) = AnswerEvidence(e, inst, o)
  <1>1. \A p \in SpecStep(inst.proc, st).options : p.choice = o.choice => p = o
    BY DEF WellFormedStep, SpecStep
  <1>2. ASSUME NEW fn
        PROVE  (\E p \in SpecStep(inst.proc, ev.chooser).options :
                    p.choice = ev.choice /\ p.call = fn) <=> o.call = fn
    BY <1>1
  <1> QED
    BY <1>2 DEF EvidenceAfter, AnswerEvidence

\* A confirmation is the user's answer to just what the store holds; no other
\* answer leads to the agreed steps (Session.Answer, runCommand).
LEMMA AnswerKeeps ==
    ASSUME SessionInv, SessionInv', AgreementInv, NEW h \in Handles, NEW i \in Insts,
           Answer(h, i)
    PROVE  AgreementInv'
  <1> DEFINE l == ledger.insts[i]
             st == l.step
  <1>1. PICK ev, o, fields :
            /\ Rewritten(h, i, ev, Answered(l, fields, RecordDispatchSeed(o)), AnswerCall(i, o))
            /\ ev.type = "chooser_answer" /\ ev.chooser = l.step /\ ev.choice = o.choice
            /\ o \in SpecStep(l.proc, l.step).options
            /\ fields \in UNION {FieldWrites(d) : d \in SUBSET o.collect}
            /\ Running(ledger, i) /\ Chooses(SpecStep(l.proc, l.step))
    BY AnswerRewrites
  <1> DEFINE c == AnswerCall(i, o)
             new == Answered(l, fields, RecordDispatchSeed(o))
  <1>3. /\ l \in Instances /\ l.store \in Stores
        /\ l.proc \in Procs /\ st \in StepsOf(l.proc) /\ WellFormedStep(l.proc, st)
        /\ StepOf(l) = SpecStep(l.proc, st)
    BY <1>1, RunsWell
  <1>6. /\ new.proc = l.proc /\ new.step = st /\ new.status = l.status
        /\ new.opDone = l.opDone /\ new.store.eng = l.store.eng
        /\ new.interactionStep = st /\ new.store.state = WriteState(l.store.state, fields)
    BY <1>3 DEF Answered, Instances, Stores
  <1>7. /\ DisciplinedOption(l.proc, st, o) /\ StepOf(l).op = None
        /\ o.to \in StepsOf(l.proc) \cup Ends /\ o.to # None
    <2>2. o.to \in StepsOf(l.proc) \cup Ends
      BY <1>1, <1>3 DEF WellFormedStep, SpecStep
    <2>3. StepsOf(l.proc) \subseteq Steps
      BY <1>3, SpecsAssumption
    <2> QED
      BY <1>1, <1>3, <2>2, <2>3, Discipline, SpecsAssumption, EngineAssumption
  <1> HIDE DEF new, c
  <1>8. Rewritten(h, i, ev, new, c)
    BY <1>1 DEF new, c
  <1>9. /\ evidence'[i] = AnswerEvidence(evidence[i], l, o)
        /\ check'[i].current /\ check'[i].accepted => check[i].current /\ check[i].accepted
    <2>1. check[i] \in Checks
      BY DEF SessionInv, TypeOK
    <2>2. evidence'[i] = EvidenceAfter(evidence[i], l, ev) /\ check'[i] = CheckAfter(check[i], ev)
      BY <1>8 DEF Rewritten, Appended
    <2>3. check'[i].current /\ check'[i].accepted => check[i].current /\ check[i].accepted
      BY <1>1, <2>1, <2>2 DEF CheckAfter, Checks
    <2> QED
      BY <1>1, <1>3, <2>2, <2>3, AnsweredOption
  <1>10. /\ evidence[i] \in Evidences
         /\ evidence'[i].checked = evidence[i].checked /\ evidence'[i].branch = evidence[i].branch
         /\ o.call # "confirmPlayback" => evidence'[i].confirmed = evidence[i].confirmed
         /\ o.call = "confirmPlayback" => evidence'[i].confirmed = l.store.state
         /\ evidence[i].passed => evidence'[i].passed
         /\ o.call = "recordOverride" => evidence'[i].passed
    <2>1. evidence[i] \in Evidences
      BY DEF SessionInv, TypeOK
    <2> QED
      BY <1>9, <2>1 DEF Evidences, AnswerEvidence
  <1>11. AgreedSoFar(i) /\ EvidenceFits(i)
    BY DEF AgreementInv
  <1>12. AgreedSoFar(i)'
    <2>1. CASE o.call = "confirmPlayback"
      BY <1>6, <1>7, <1>8, <2>1 DEF DisciplinedOption, Rewritten, AgreedSoFar, Agreed
    <2>2. CASE o.call # "confirmPlayback"
      BY <1>6, <1>8, <1>10, <1>11, <2>2, StaysAgreed DEF Rewritten
    <2> QED
      BY <2>1, <2>2
  <1>13. EvidenceFits(i)'
    BY <1>1, <1>6, <1>8, <1>9, <1>10, <1>11 DEF Rewritten, EvidenceFits, Running, Started
  <1>14. CallAgrees(call[h])'
    <2>1. call'[h] = c /\ ledger'.insts[i] = new
      BY <1>8 DEF Rewritten
    <2>2. StepOf(new) = SpecStep(l.proc, st)
      BY <1>6 DEF StepOf, SpecStep
    <2>3. CASE o.call = None
      <3>1. c.pc = "move" /\ c.inst = i /\ c.to = o.to
        BY <2>3 DEF c, AnswerCall, MoveCall, NoCall
      <3>2. o.to \in AgreedSteps(l.proc) => st \in AgreedSteps(l.proc)
        BY <1>7, <2>3, CommandsAssumption DEF DisciplinedOption, WorkflowCommands
      <3> QED
        BY <1>3, <1>6, <1>7, <2>1, <2>2, <3>1, <3>2 DEF CallAgrees, Agreed
    <2>4. CASE o.call # None
      <3>1. c.pc \in {"command", "run"} /\ c.inst = i /\ c.to = o.to /\ c.fn = o.call
        BY <2>4 DEF c, AnswerCall, CommandCall, NoCall
      <3>2. o.call = "confirmPlayback" => new.store.state = l.store.state
        <4>1. SUFFICES ASSUME o.call = "confirmPlayback" PROVE DOMAIN fields = {}
          BY <1>3, <1>6 DEF WriteState, Stores, States
        <4>2. fields \in FieldWrites({})
          BY <1>1, <1>7, <4>1 DEF DisciplinedOption
        <4> QED
          BY <4>2 DEF FieldWrites
      <3> QED
        BY <1>1, <1>6, <1>7, <1>10, <2>1, <2>2, <3>1, <3>2 DEF CallAgrees
    <2> QED
      BY <2>3, <2>4
  <1> QED
    BY <1>8, <1>12, <1>13, <1>14, AppendKeeps
\* An instance that moves with what it was confirmed and checked for, and
\* comes to the agreed steps only from them and past the pre-flight, agrees.
LEMMA MovesAgreed ==
    ASSUME NEW i \in Insts, AgreedSoFar(i), Running(ledger, i),
           ledger'.insts[i].proc = ledger.insts[i].proc,
           StepOf(ledger.insts[i]).op = "preflightEntry" => ledger.insts[i].opDone,
           ledger'.insts[i].step \in AgreedSteps(ledger.insts[i].proc) => Agreed(ledger, i),
           ledger'.insts[i].store.eng.confirmation = ledger.insts[i].store.eng.confirmation,
           evidence'[i].confirmed = evidence[i].confirmed,
           evidence'[i].checked = evidence[i].checked
    PROVE  AgreedSoFar(i)'
  <1>1. Agreed(ledger', i) => Agreed(ledger, i)
    BY DEF Agreed
  <1>2. ConfirmedAsStored(i) => ConfirmedAsStored(i)'
    BY DEF ConfirmedAsStored
  <1> QED
    BY <1>1, <1>2 DEF AgreedSoFar

\* A cancellation (Session.Cancel).
LEMMA CancelRewrites ==
    ASSUME SessionInv, SessionInv', NEW h \in Handles, NEW i \in Insts, Cancel(h, i)
    PROVE  \E ev : /\ Rewritten(h, i, ev, Returned(ledger.insts[i]), NoCall("done"))
                   /\ ev.type = "cancelled" /\ Running(ledger, i)
                   /\ Pending(ledger) /\ ledger.intent.inst = i /\ UnfinishedFinds(ledger)
  <1> DEFINE m == mem[h]
             ev == CancelledEvent(i, m.intent.ref, m.intent.step, m.intent.command,
                                  m.insts[i].interactionStep)
             new == Returned(ledger.insts[i])
             mark == [ref |-> ledger.intent.ref, inst |-> ledger.intent.inst]
  <1>1. /\ fresh[h] /\ call[h].pc = "idle" /\ Pending(m) /\ m.intent.inst = i
        /\ Log(h, ev, ApplyCancellation(m, i), NoCall("done"))
    BY DEF Cancel, Ready, At, Log, AppendEvent, VerifiedBinding
  <1>2. /\ SameSession(m, ledger, call[h]) /\ GoodSession(m) /\ GoodSession(ledger)
    BY <1>1, LedgerFacts
  <1>3. Pending(ledger) /\ ledger.intent.inst = i
    BY <1>1, <1>2 DEF SameSession, Pending
  <1>4. UnfinishedFinds(ledger) /\ Running(ledger, i)
    BY <1>2, <1>3, PendingFacts
  <1>5. ev.inst = i /\ ev.type = "cancelled"
    BY DEF CancelledEvent
  <1> HIDE DEF ev
  <1>6. Apply(ledger, ev) = Resolved(ledger, i, new, mark)
    <2>1. Apply(ledger, ev) = ApplyCancellation(ledger, ev.inst)
      BY <1>5, ApplyByType
    <2> QED
      BY <1>5, <2>1, CancellationResolves
  <1> HIDE DEF new, mark
  <1>7. Rewritten(h, i, ev, new, NoCall("done"))
    BY <1>1, <1>5, <1>6, Resolves
  <1> QED
    BY <1>3, <1>4, <1>5, <1>7 DEF new

\* A cancelled operation returns its instance to the agreed steps only from
\* them.
LEMMA CancelKeeps ==
    ASSUME SessionInv, SessionInv', AgreementInv, NEW h \in Handles, NEW i \in Insts,
           Cancel(h, i)
    PROVE  AgreementInv'
  <1> DEFINE l == ledger.insts[i]
             new == Returned(l)
             c == NoCall("done")
  <1>1. PICK ev : /\ Rewritten(h, i, ev, new, c)
                  /\ ev.type = "cancelled" /\ Running(ledger, i)
                  /\ Pending(ledger) /\ ledger.intent.inst = i /\ UnfinishedFinds(ledger)
    BY CancelRewrites
  <1>2. /\ l \in Instances /\ l.proc \in Procs /\ l.step \in StepsOf(l.proc)
        /\ StepOf(l) = SpecStep(l.proc, l.step) /\ l.status = "running"
    BY <1>1, RunsWell DEF Running
  <1>3. /\ new.proc = l.proc /\ new.store = l.store /\ new.status # "unstarted"
        /\ new.step \in {l.step, l.interactionStep}
        /\ new.status = "running" => new.step = l.interactionStep
    BY <1>2 DEF Returned, Instances
  <1> HIDE DEF new
  <1>4. /\ evidence'[i] = evidence[i] /\ check'[i] = check[i] /\ ledger'.insts[i] = new
        /\ call'[h] = c
    BY <1>1 DEF Rewritten, Appended, EvidenceAfter, CheckAfter
  <1>5. AgreedSoFar(i) /\ EvidenceFits(i)
    BY DEF AgreementInv
  <1>6. ledger.intent.command \in Prepared /\ None \notin Prepared
        /\ StepOf(l).op = IF ledger.intent.to = None THEN ledger.intent.command ELSE None
    <2>1. ledger.intent.command \in Prepared
      BY <1>1 DEF SessionInv, GoodSession, GoodIntent, Pending
    <2> QED
      BY <1>1, <2>1, CommandsAssumption DEF UnfinishedFinds, WorkflowCommands, Prepared
  <1>7. StepOf(l).op # "preflightEntry"
    BY <1>6, CommandsAssumption DEF WorkflowCommands, Prepared
  <1>8. l.interactionStep \in AgreedSteps(l.proc) => Agreed(ledger, i)
    <2>1. CASE ledger.intent.to # None
      <3>1. l.interactionStep = l.step
        BY <1>1, <2>1 DEF AgreementInv, AnswerFits
      <3> QED
        BY <3>1 DEF Agreed
    <2>2. CASE ledger.intent.to = None
      <3>1. ~Chooses(SpecStep(l.proc, l.step)) /\ SpecStep(l.proc, l.step).op \in Prepared
        BY <1>2, <1>6, <2>2, Discipline
      <3>2. DisciplinedGate(l.proc, l.step)
        BY <1>2, <3>1, Discipline
      <3> QED
        BY <3>1, <3>2 DEF DisciplinedGate, Agreed
    <2> QED
      BY <2>1, <2>2
  <1>9. AgreedSoFar(i)'
    <2>1. CASE new.status = "running"
      BY <1>1, <1>3, <1>4, <1>5, <1>7, <1>8, <2>1, MovesAgreed
    <2>2. CASE new.status # "running"
      BY <1>4, <2>2 DEF AgreedSoFar, Running
    <2> QED
      BY <2>1, <2>2
  <1>10. EvidenceFits(i)'
    BY <1>1, <1>3, <1>4, <1>5 DEF EvidenceFits, Running, Started
  <1>11. CallAgrees(call[h])'
    BY <1>4 DEF CallAgrees, NoCall
  <1> QED
    BY <1>1, <1>9, <1>10, <1>11, AppendKeeps
-----------------------------------------------------------------------------
\* A completed or an abandoned event, of an instance that runs.
LEMMA EndRewrites ==
    ASSUME SessionInv, SessionInv', NEW h \in Handles, NEW i \in Insts, NEW ev, NEW m, NEW c,
           Log(h, ev, m, c), ev.inst = i, ev.type \in {"completed", "abandoned"},
           call[h].pc \notin {"closed", "rebind", "done"},
           Running(mem[h], i), ~Pending(mem[h])
    PROVE  /\ Rewritten(h, i, ev, [ledger.insts[i] EXCEPT !.status = ev.type], c)
           /\ Running(ledger, i)
  <1> DEFINE new == [ledger.insts[i] EXCEPT !.status = ev.type]
  <1>1. fresh[h]
    BY DEF Log, AppendEvent, VerifiedBinding
  <1>2. ~Pending(ledger) /\ Running(ledger, i) /\ ledger \in Sessions
    BY <1>1, Stands
  <1>3. Apply(ledger, ev) = [ledger EXCEPT !.insts[i] = new]
    <2>1. CASE ev.type = "completed"
      <3>1. Apply(ledger, ev) = [ledger EXCEPT !.insts[ev.inst] = [@ EXCEPT !.status = "completed"]]
        BY <2>1, ApplyByType
      <3> QED
        BY <2>1, <3>1
    <2>2. CASE ev.type = "abandoned"
      <3>1. Apply(ledger, ev) = [ledger EXCEPT !.insts[ev.inst] = [@ EXCEPT !.status = "abandoned"]]
        BY <2>2, ApplyByType
      <3> QED
        BY <2>2, <3>1
    <2> QED
      BY <2>1, <2>2
  <1> HIDE DEF new
  <1>4. Apply(ledger, ev) = Replaced(ledger, i, new, ledger.cancelled)
    BY <1>2, <1>3 DEF Replaced, Sessions
  <1>5. Rewritten(h, i, ev, new, c)
    BY <1>2, <1>4, Rewrites
  <1> QED
    BY <1>2, <1>5 DEF new

\* An instance that has ended owes nothing.
LEMMA EndKeeps ==
    ASSUME SessionInv, SessionInv', AgreementInv,
           NEW h \in Handles, NEW i \in Insts, NEW ev, NEW m, NEW c,
           Log(h, ev, m, c), ev.inst = i, ev.type \in {"completed", "abandoned"},
           call[h].pc \notin {"closed", "rebind", "done"}, c.pc \in {"cascade", "done"},
           Running(mem[h], i), ~Pending(mem[h])
    PROVE  AgreementInv'
  <1> DEFINE l == ledger.insts[i]
             new == [l EXCEPT !.status = ev.type]
  <1>1. Rewritten(h, i, ev, new, c) /\ Running(ledger, i)
    BY EndRewrites
  <1>2. l \in Instances
    BY <1>1, RunsWell
  <1>3. /\ new.proc = l.proc /\ new.store = l.store /\ new.status = ev.type
    BY <1>2 DEF Instances
  <1> HIDE DEF new
  <1>4. /\ ledger'.insts[i] = new /\ call'[h] = c
    BY <1>1 DEF Rewritten
  <1>5. EvidenceFits(i)
    BY DEF AgreementInv
  <1>6. AgreedSoFar(i)'
    BY <1>3, <1>4 DEF AgreedSoFar, Running
  <1>7. EvidenceFits(i)'
    BY <1>1, <1>3, <1>4, <1>5 DEF EvidenceFits, Running, Started
  <1>8. CallAgrees(call[h])'
    BY <1>4 DEF CallAgrees
  <1> QED
    BY <1>1, <1>6, <1>7, <1>8, AppendKeeps

\* Abandoning an instance (Session.Abandon).
LEMMA AbandonKeeps ==
    ASSUME SessionInv, SessionInv', AgreementInv, NEW h \in Handles, NEW i \in Insts,
           Abandon(h, i)
    PROVE  AgreementInv'
  <1> DEFINE ev == EndEvent(i, EndAbandoned)
  <1>1. PICK m : /\ Log(h, ev, m, NoCall("done"))
                 /\ call[h].pc = "idle" /\ ~Pending(mem[h]) /\ Running(mem[h], i)
    BY DEF Abandon, At, CheckProgression
  <1>2. ev.inst = i /\ ev.type \in {"completed", "abandoned"}
    BY DEF EndEvent
  <1>3. NoCall("done").pc = "done"
    BY DEF NoCall
  <1> HIDE DEF ev
  <1> QED
    BY <1>1, <1>2, <1>3, EndKeeps

\* The end event a transition to an end owes (transitionTo).
LEMMA FinishKeeps ==
    ASSUME SessionInv, SessionInv', AgreementInv, NEW h \in Handles, NEW i \in Insts,
           call[h].inst = i, Finish(h)
    PROVE  AgreementInv'
  <1> DEFINE ev == EndEvent(i, call[h].to)
  <1>1. PICK m : Log(h, ev, m, CallOn(i)) /\ call[h].pc = "finish"
    BY DEF Finish, At
  <1>2. ~Pending(mem[h]) /\ Running(mem[h], i)
    BY <1>1 DEF SessionInv, CallFits
  <1>3. ev.inst = i /\ ev.type \in {"completed", "abandoned"}
    BY DEF EndEvent
  <1>4. CallOn(i).pc = "cascade"
    BY DEF CallOn, NoCall
  <1> HIDE DEF ev
  <1> QED
    BY <1>1, <1>2, <1>3, <1>4, EndKeeps

-----------------------------------------------------------------------------
\* A start (Session.Start).
LEMMA StartBegins ==
    ASSUME SessionInv, SessionInv', NEW h \in Handles, NEW proc \in Procs,
           NEW parent \in Insts \cup {None}, NEW opening \in BOOLEAN,
           call[h].pc \in {"shell", "idle"}, Start(h, proc, parent, opening)
    PROVE  \E i, ev, values :
                /\ i \in Insts
                /\ Begun(h, i, ev, Fresh(proc, parent, Specs[proc].first, values),
                         [CallOn(i) EXCEPT !.opening = opening])
                /\ ev.type = "started"
  <1> DEFINE m == mem[h]
             i == m.counter + 1
             first == Specs[proc].first
             values == [f \in SeedFromParent(m, parent, proc) |-> m.insts[parent].store.state[f]]
             ev == StartedEvent(i, proc, parent, first, values)
             new == Fresh(proc, parent, first, values)
             c == [CallOn(i) EXCEPT !.opening = opening]
  <1>1. fresh[h] /\ ~Pending(m) /\ i \in Insts /\ \E n : Log(h, ev, n, c)
    BY DEF Start, CheckProgression, Log, AppendEvent, VerifiedBinding
  <1>2. /\ SameSession(m, ledger, call[h]) /\ GoodSession(ledger) /\ ledger \in Sessions
    BY <1>1, LedgerFacts
  <1>3. i = ledger.counter + 1 /\ ~Pending(ledger) /\ i > ledger.counter
    <2>1. m.counter = ledger.counter /\ (Pending(m) <=> Pending(ledger))
      BY <1>2 DEF SameSession, Pending
    <2>2. ledger.counter \in Nat
      BY <1>2 DEF Sessions
    <2> QED
      BY <1>1, <2>1, <2>2
  <1>4. ~Started(ledger, i)
    BY <1>1, <1>2, <1>3 DEF GoodSession
  <1>5. ev.inst = i /\ ev.type = "started"
    BY DEF StartedEvent
  <1>6. Apply(ledger, ev) = Opened(ledger, i, new)
    <2>1. Apply(ledger, ev) = ApplyStarted(ledger, ev)
      BY <1>5, ApplyByType
    <2> HIDE DEF values, first
    <2> QED
      BY <1>1, <1>2, <1>3, <2>1, StartedOpens
  <1> HIDE DEF ev, new, c
  <1>7. /\ Appended(h, i, ev)
        /\ call'[h] = c /\ \A g \in Handles \ {h} : call'[g] = call[g]
    <2>1. PICK n : Log(h, ev, n, c)
      BY <1>1
    <2> QED
      BY <1>1, <1>5, <2>1, LogAppends
  <1>8. ledger' = Opened(ledger, i, new)
    BY <1>6, <1>7 DEF Appended
  <1> HIDE DEF i
  <1>9. Begun(h, i, ev, new, c)
    BY <1>1, <1>2, <1>3, <1>4, <1>7, <1>8, OpenedFacts DEF Appended, ChangesOnly, Begun
  <1> QED
    BY <1>1, <1>5, <1>9 DEF new, c, first
\* A start (Session.Start): a new instance has been asked nothing.
LEMMA StartKeeps ==
    ASSUME SessionInv, SessionInv', AgreementInv, NEW h \in Handles, NEW proc \in Procs,
           NEW parent \in Insts \cup {None}, NEW opening \in BOOLEAN,
           call[h].pc \in {"shell", "idle"}, Start(h, proc, parent, opening)
    PROVE  AgreementInv'
  <1>1. PICK i, ev, values :
            /\ i \in Insts
            /\ Begun(h, i, ev, Fresh(proc, parent, Specs[proc].first, values),
                     [CallOn(i) EXCEPT !.opening = opening])
            /\ ev.type = "started"
    BY StartBegins
  <1> DEFINE new == Fresh(proc, parent, Specs[proc].first, values)
             c == [CallOn(i) EXCEPT !.opening = opening]
  <1>2. new.store.eng = EmptyEngine /\ new.status = "running"
    BY DEF Fresh
  <1>3. EmptyEngine.confirmation = None /\ EmptyEngine.branch = None
    BY DEF EmptyEngine
  <1>4. c.pc = "cascade"
    BY DEF CallOn, NoCall
  <1> HIDE DEF new, c
  <1>5. Begun(h, i, ev, new, c)
    BY <1>1 DEF new, c
  <1>6. evidence'[i] = NoEvidence /\ check'[i] = NoCheck
    <2>1. evidence[i] = NoEvidence /\ check[i] = NoCheck
      BY <1>1, <1>5 DEF AgreementInv, EvidenceFits, Begun
    <2> QED
      BY <1>1, <1>5, <2>1 DEF Begun, Appended, EvidenceAfter, CheckAfter
  <1>7. ledger'.insts[i] = new /\ call'[h] = c
    BY <1>5 DEF Begun
  <1>8. AgreedSoFar(i)'
    BY <1>2, <1>3, <1>7 DEF AgreedSoFar, ConfirmedAsStored
  <1>9. EvidenceFits(i)'
    BY <1>1, <1>2, <1>3, <1>6, <1>7 DEF EvidenceFits, Started, NoEvidence, NoCheck
  <1>10. CallAgrees(call[h])'
    BY <1>4, <1>7 DEF CallAgrees
  <1> QED
    BY <1>1, <1>5, <1>8, <1>9, <1>10, AppendKeeps

-----------------------------------------------------------------------------
\* The instance a finished command's writes make of b, at the step it ran at.
Finished(b, fn, w) == Imported(b, w, StepOf(b).op = fn)

\* The fold of a result logged where its instance stands finishes its command.
LEMMA ResultFinishes ==
    ASSUME NEW s \in Sessions, NEW i \in Insts, NEW fn, NEW w
    PROVE  ApplyResult(s, ResultEvent(i, s.insts[i].step, fn, w)) =
                Replaced(s, i, Finished(s.insts[i], fn, w), s.cancelled)
  <1>1. CASE StepOf(s.insts[i]).op = fn
    BY <1>1, ResultReplaces DEF Finished
  <1>2. CASE StepOf(s.insts[i]).op # fn
    BY <1>2, ResultReplaces DEF Finished
  <1> QED
    BY <1>1, <1>2

\* A reopening (reopenStalePlayback): the confirmation's step is owed again.
LEMMA ReopenPlaybackRewrites ==
    ASSUME SessionInv, SessionInv', NEW h \in Handles, NEW i \in Insts, call[h].inst = i,
           ReopenPlayback(h)
    PROVE  LET l == ledger.insts[i]
               was == l.store.eng.confirmation
           IN  \E ev :
                /\ Rewritten(h, i, ev, Finished(l, "reopenPlayback", [confirmation |-> None]),
                             MoveCall(i, was.step))
                /\ ev.type = "op_result" /\ ev.command = "reopenPlayback"
                /\ Running(ledger, i) /\ was # None
  <1> DEFINE l == ledger.insts[i]
             was == l.store.eng.confirmation
             c == MoveCall(i, was.step)
             ev == ResultEvent(i, l.step, "reopenPlayback", [confirmation |-> None])
             new == Finished(l, "reopenPlayback", [confirmation |-> None])
  <1>1. /\ fresh[h] /\ call[h].pc = "cascade" /\ Running(mem[h], i)
        /\ mem[h].insts[i].store.eng.confirmation # None
    BY DEF ReopenPlayback, OnGate, ConfirmationStale, Log, AppendEvent, VerifiedBinding
  <1>2. ~Pending(mem[h])
    BY <1>1 DEF SessionInv, CallFits
  <1>3. /\ ~Pending(ledger) /\ Running(ledger, i) /\ ledger \in Sessions
        /\ mem[h].insts[i].store = l.store /\ mem[h].insts[i].step = l.step
    BY <1>1, <1>2, Stands
  <1>4. \E m : Log(h, ev, m, c)
    BY <1>3 DEF ReopenPlayback
  <1>5. ev.inst = i /\ ev.type = "op_result" /\ ev.command = "reopenPlayback"
    BY DEF ResultEvent
  <1>6. Apply(ledger, ev) = Replaced(ledger, i, new, ledger.cancelled)
    <2>1. Apply(ledger, ev) = ApplyResult(ledger, ev)
      <3> HIDE DEF ev
      <3> QED
        BY <1>5, ApplyByType
    <2> QED
      BY <1>3, <2>1, ResultFinishes
  <1> HIDE DEF ev, new, c
  <1>8. Rewritten(h, i, ev, new, c)
    BY <1>3, <1>4, <1>5, <1>6, Rewrites
  <1> QED
    BY <1>1, <1>3, <1>5, <1>8 DEF new, c

\* A reopening leaves no confirmation, and leads where one was given.
LEMMA ReopenPlaybackKeeps ==
    ASSUME SessionInv, SessionInv', AgreementInv, NEW h \in Handles, NEW i \in Insts,
           call[h].inst = i, ReopenPlayback(h)
    PROVE  AgreementInv'
  <1> DEFINE l == ledger.insts[i]
             was == l.store.eng.confirmation
             c == MoveCall(i, was.step)
  <1>1. PICK ev :
            /\ Rewritten(h, i, ev, Finished(l, "reopenPlayback", [confirmation |-> None]), c)
            /\ ev.type = "op_result" /\ ev.command = "reopenPlayback"
            /\ Running(ledger, i) /\ was # None
    BY ReopenPlaybackRewrites
  <1> DEFINE new == Finished(l, "reopenPlayback", [confirmation |-> None])
  <1>2. l \in Instances /\ l.store \in Stores
    BY <1>1, RunsWell
  <1>3. /\ new.proc = l.proc /\ new.status = l.status /\ new.step = l.step
        /\ new.store.eng.confirmation = None /\ new.store.eng.branch = l.store.eng.branch
    BY <1>2 DEF Finished, Imported, ImportWrites, Written, Instances, Stores
  <1>4. c.pc = "move" /\ c.inst = i /\ c.to = was.step
    BY DEF MoveCall, NoCall
  <1> HIDE DEF new, c
  <1>5. Rewritten(h, i, ev, new, c)
    BY <1>1 DEF new
  <1>6. /\ evidence'[i] = evidence[i] /\ check'[i] = check[i]
        /\ ledger'.insts[i] = new /\ call'[h] = c
    BY <1>1, <1>5 DEF Rewritten, Appended, EvidenceAfter, CheckAfter
  <1>7. EvidenceFits(i)
    BY DEF AgreementInv
  <1>8. AgreedSoFar(i)'
    BY <1>3, <1>6 DEF AgreedSoFar, ConfirmedAsStored
  <1>9. EvidenceFits(i)'
    BY <1>1, <1>3, <1>6, <1>7 DEF EvidenceFits, Running, Started
  <1>10. was.step \notin AgreedSteps(l.proc)
    BY <1>1, <1>7 DEF EvidenceFits
  <1>11. CallAgrees(call[h])'
    BY <1>3, <1>4, <1>6, <1>10 DEF CallAgrees
  <1> QED
    BY <1>5, <1>8, <1>9, <1>11, AppendKeeps
-----------------------------------------------------------------------------
\* The instance a transition makes of b.
Brought(b, to) == IF to \in Ends THEN b ELSE [b EXCEPT !.step = to, !.opDone = FALSE]

\* A transition (transitionTo).
LEMMA TransitionRewrites ==
    ASSUME SessionInv, SessionInv', NEW h \in Handles, NEW i \in Insts, NEW to, NEW m, NEW c,
           call[h].pc \in {"cascade", "move"}, Running(mem[h], i), ~Pending(mem[h]),
           Log(h, TransitionEvent(i, to), m, c)
    PROVE  \E ev : /\ Rewritten(h, i, ev, Brought(ledger.insts[i], to), c)
                   /\ ev.type = "transition"
  <1> DEFINE l == ledger.insts[i]
             ev == TransitionEvent(i, to)
             new == Brought(l, to)
  <1>1. fresh[h]
    BY DEF Log, AppendEvent, VerifiedBinding
  <1>2. ~Pending(ledger) /\ Running(ledger, i) /\ ledger \in Sessions
    BY <1>1, Stands
  <1>3. ev.inst = i /\ ev.type = "transition" /\ ev.to = to /\ Log(h, ev, m, c)
    BY DEF TransitionEvent
  <1> HIDE DEF ev
  <1>4. Apply(ledger, ev) = Replaced(ledger, i, new, ledger.cancelled)
    <2>1. Apply(ledger, ev) = ApplyTransition(ledger, ev)
      BY <1>3, ApplyByType
    <2>2. CASE to \in Ends
      <3>1. Apply(ledger, ev) = ledger /\ new = l
        BY <1>3, <2>1, <2>2 DEF ApplyTransition, Brought
      <3> QED
        BY <1>2, <3>1 DEF Replaced, Sessions
    <2>3. CASE to \notin Ends
      <3>1. Apply(ledger, ev) = [ledger EXCEPT !.insts[i] = new]
        BY <1>3, <2>1, <2>3 DEF ApplyTransition, Brought
      <3> HIDE DEF new
      <3> QED
        BY <1>2, <3>1 DEF Replaced, Sessions
    <2> QED
      BY <2>2, <2>3
  <1> HIDE DEF new
  <1>5. Rewritten(h, i, ev, new, c)
    BY <1>2, <1>3, <1>4, Rewrites
  <1> QED
    BY <1>3, <1>5 DEF new

\* A transition comes to the agreed steps from them, or to the pre-flight
\* with a confirmation given.
LEMMA TransitionKeeps ==
    ASSUME SessionInv, SessionInv', AgreementInv,
           NEW h \in Handles, NEW i \in Insts, NEW to, NEW m,
           call[h].pc \in {"cascade", "move"}, Running(mem[h], i), ~Pending(mem[h]),
           Log(h, TransitionEvent(i, to), m, AfterMove(i, to)),
           to \in AgreedSteps(ledger.insts[i].proc) =>
            \/ /\ Agreed(ledger, i)
               /\ StepOf(ledger.insts[i]).op = "preflightEntry" => ledger.insts[i].opDone
            \/ /\ SpecStep(ledger.insts[i].proc, to).op = "preflightEntry"
               /\ ConfirmedAsStored(i)
    PROVE  AgreementInv'
  <1> DEFINE l == ledger.insts[i]
             new == Brought(l, to)
             c == AfterMove(i, to)
  <1>1. PICK ev : Rewritten(h, i, ev, new, c) /\ ev.type = "transition"
    BY TransitionRewrites
  <1>2. Running(ledger, i)
    BY Stands DEF Log, AppendEvent, VerifiedBinding
  <1>3. l \in Instances
    BY <1>2, RunsWell
  <1>4. /\ new.proc = l.proc /\ new.status = l.status /\ new.store = l.store
        /\ to \in Ends => new = l
        /\ to \notin Ends => new.step = to /\ ~new.opDone
    BY <1>3 DEF Brought, Instances
  <1>5. c.pc \in {"cascade", "finish"}
    BY DEF AfterMove, CallOn, NoCall
  <1> HIDE DEF new, c
  <1>6. /\ evidence'[i] = evidence[i] /\ check'[i] = check[i]
        /\ ledger'.insts[i] = new /\ call'[h] = c
    BY <1>1 DEF Rewritten, Appended, EvidenceAfter, CheckAfter
  <1>7. AgreedSoFar(i) /\ EvidenceFits(i)
    BY DEF AgreementInv
  <1>8. AgreedSoFar(i)'
    <2>1. CASE to \in Ends
      BY <1>4, <1>6, <1>7, <2>1, StaysAgreed
    <2>2. CASE to \notin Ends /\ to \notin AgreedSteps(l.proc)
      BY <1>4, <1>6, <2>2 DEF AgreedSoFar, Agreed
    <2>3. CASE /\ to \notin Ends /\ Agreed(ledger, i)
               /\ StepOf(l).op = "preflightEntry" => l.opDone
      BY <1>2, <1>4, <1>6, <1>7, <2>3, MovesAgreed
    <2>4. CASE /\ to \notin Ends /\ SpecStep(l.proc, to).op = "preflightEntry"
               /\ ConfirmedAsStored(i)
      BY <1>4, <1>6, <2>4 DEF AgreedSoFar, ConfirmedAsStored, StepOf, SpecStep
    <2> QED
      BY <2>1, <2>2, <2>3, <2>4
  <1>9. EvidenceFits(i)'
    BY <1>2, <1>4, <1>6, <1>7 DEF EvidenceFits, Running, Started
  <1>10. CallAgrees(call[h])'
    BY <1>5, <1>6 DEF CallAgrees
  <1> QED
    BY <1>1, <1>8, <1>9, <1>10, AppendKeeps

\* The transition an answer or a reopening owes (transitionTo).
LEMMA MoveKeeps ==
    ASSUME SessionInv, SessionInv', AgreementInv, NEW h \in Handles, NEW i \in Insts,
           call[h].inst = i, Move(h)
    PROVE  AgreementInv'
  <1> DEFINE to == call[h].to
  <1>1. /\ call[h].pc = "move" /\ fresh[h]
        /\ \E m : Log(h, TransitionEvent(i, to), m, AfterMove(i, to))
    BY DEF Move, At, Log, AppendEvent, VerifiedBinding
  <1>2. Running(mem[h], i) /\ ~Pending(mem[h])
    BY <1>1 DEF SessionInv, CallFits
  <1>3. CallAgrees(call[h])
    BY <1>1 DEF AgreementInv, Current
  <1>4. None # "preflightEntry"
    BY CommandsAssumption DEF WorkflowCommands
  <1>5. to \in AgreedSteps(ledger.insts[i].proc) =>
            \/ /\ Agreed(ledger, i)
               /\ StepOf(ledger.insts[i]).op = "preflightEntry" => ledger.insts[i].opDone
            \/ /\ SpecStep(ledger.insts[i].proc, to).op = "preflightEntry"
               /\ ConfirmedAsStored(i)
    BY <1>1, <1>3, <1>4 DEF CallAgrees
  <1> HIDE DEF to
  <1> QED
    BY <1>1, <1>2, <1>5, TransitionKeeps

\* The transition a gate fires (cascade): none of a gate outside the agreed
\* steps leads to them, and the pre-flight fires none before it has run.
LEMMA AdvanceKeeps ==
    ASSUME SessionInv, SessionInv', AgreementInv, NEW h \in Handles, NEW i \in Insts,
           call[h].inst = i, Advance(h)
    PROVE  AgreementInv'
  <1> DEFINE b == mem[h].insts[i]
             l == ledger.insts[i]
  <1>1. /\ call[h].pc = "cascade" /\ fresh[h] /\ Running(mem[h], i)
        /\ StepOf(b).chooser = "gate" /\ ~OpOwed(b)
    BY DEF Advance, OnGate, Log, AppendEvent, VerifiedBinding
  <1>2. ~Pending(mem[h])
    BY <1>1 DEF SessionInv, CallFits
  <1>3. PICK k \in DOMAIN StepOf(b).transitions :
            \E m : Log(h, TransitionEvent(i, StepOf(b).transitions[k].to), m,
                       AfterMove(i, StepOf(b).transitions[k].to))
    BY DEF Advance, FirstFiring
  <1>4. /\ StepOf(b) = SpecStep(l.proc, l.step) /\ StepOf(l) = SpecStep(l.proc, l.step)
        /\ b.opDone = l.opDone /\ l.proc \in Procs /\ l.step \in StepsOf(l.proc)
    BY <1>1, Stands
  <1> DEFINE to == StepOf(b).transitions[k].to
  <1>5. DisciplinedGate(l.proc, l.step)
    BY <1>1, <1>4, Discipline DEF Chooses
  <1>6. to \in AgreedSteps(l.proc) => Agreed(ledger, i)
    BY <1>3, <1>4, <1>5 DEF DisciplinedGate, Agreed
  <1>7. StepOf(l).op = "preflightEntry" => l.opDone
    BY <1>1, <1>4, CommandsAssumption DEF OpOwed, WorkflowCommands
  <1>8. \E m : Log(h, TransitionEvent(i, to), m, AfterMove(i, to))
    BY <1>3
  <1> HIDE DEF to
  <1> QED
    BY <1>1, <1>2, <1>6, <1>7, <1>8, TransitionKeeps
-----------------------------------------------------------------------------
\* What the writes of each command touch.
LEMMA WritesTouch ==
    ASSUME NEW store, NEW step, NEW target, NEW ref, NEW command \in Commands,
           NEW w \in Writes(command, store, step, ref, target)
    PROVE  /\ command # "confirmPlayback" => "confirmation" \notin DOMAIN w
           /\ command # "preflightEntry" => "branch" \notin DOMAIN w
           /\ command = "confirmPlayback" =>
                /\ "confirmation" \in DOMAIN w
                /\ w.confirmation = [step |-> step, snapshot |-> store.state]
           /\ command = "preflightEntry" =>
                "branch" \in DOMAIN w /\ w.findings \in {"clean", "high"}
  BY CommandsAssumption DEF WorkflowCommands, Writes, NoWrites

\* What a finished command makes of its instance.
LEMMA FinishedFields ==
    ASSUME NEW b \in Instances, NEW fn, NEW w
    PROVE  LET new == Finished(b, fn, w)
           IN  /\ new.proc = b.proc /\ new.status = b.status /\ new.step = b.step
               /\ new.interactionStep = b.interactionStep
               /\ new.store.state = b.store.state
               /\ StepOf(new) = StepOf(b)
               /\ StepOf(b).op # fn => (new.opDone <=> b.opDone)
               /\ new.store.eng.confirmation =
                    IF "confirmation" \in DOMAIN w THEN w.confirmation
                    ELSE b.store.eng.confirmation
               /\ new.store.eng.branch =
                    IF "branch" \in DOMAIN w THEN w.branch ELSE b.store.eng.branch
  <1> DEFINE new == Finished(b, fn, w)
             eng == ImportWrites(b.store.eng, w)
             done == b.opDone \/ StepOf(b).op = fn
  <1>1. b.store \in Stores
    BY DEF Instances
  <1>2. /\ eng.confirmation = IF "confirmation" \in DOMAIN w THEN w.confirmation
                              ELSE b.store.eng.confirmation
        /\ eng.branch = IF "branch" \in DOMAIN w THEN w.branch ELSE b.store.eng.branch
    BY DEF ImportWrites, Written
  <1>3. new = [b EXCEPT !.store.eng = eng, !.opDone = done]
    BY DEF Finished, Imported
  <1> HIDE DEF eng, new
  <1>4. /\ new.proc = b.proc /\ new.status = b.status /\ new.step = b.step
        /\ new.interactionStep = b.interactionStep
        /\ new.store.state = b.store.state /\ new.store.eng = eng
    BY <1>1, <1>3 DEF Instances, Stores
  <1>5. new.opDone <=> done
    BY <1>3 DEF Instances
  <1> QED
    BY <1>2, <1>4, <1>5 DEF new, StepOf

\* A command that neither confirms nor checks leaves the agreement as it is.
LEMMA CommandKeeps ==
    ASSUME SessionInv, AgreementInv, NEW h \in Handles, NEW i \in Insts, NEW ev, NEW fn, NEW w,
           NEW c, c.inst = i, Running(ledger, i),
           Rewritten(h, i, ev, Finished(ledger.insts[i], fn, w), AfterCommand(c)),
           "confirmation" \notin DOMAIN w, "branch" \notin DOMAIN w,
           evidence'[i] = evidence[i],
           check'[i].current /\ check'[i].accepted => evidence[i].passed,
           StepOf(ledger.insts[i]).op # "preflightEntry",
           c.to \in AgreedSteps(ledger.insts[i].proc) =>
                Agreed(ledger, i) /\ StepOf(ledger.insts[i]).op = None
    PROVE  AgreementInv'
  <1> DEFINE l == ledger.insts[i]
             new == Finished(l, fn, w)
             d == AfterCommand(c)
  <1>1. l \in Instances
    BY RunsWell
  <1>2. /\ new.proc = l.proc /\ new.status = l.status /\ new.step = l.step
        /\ new.store.eng.confirmation = l.store.eng.confirmation
        /\ new.store.eng.branch = l.store.eng.branch
        /\ StepOf(new) = StepOf(l)
    BY <1>1, FinishedFields
  <1>3. /\ d.pc \in {"cascade", "move"}
        /\ d.pc = "move" => d.inst = i /\ d.to = c.to
    BY DEF AfterCommand, MoveCall, CallOn, NoCall
  <1> HIDE DEF new, d
  <1>4. ledger'.insts[i] = new /\ call'[h] = d /\ Rewritten(h, i, ev, new, d)
    BY DEF Rewritten, new, d
  <1>5. AgreedSoFar(i) /\ EvidenceFits(i)
    BY DEF AgreementInv
  <1>6. AgreedSoFar(i)'
    BY <1>2, <1>4, <1>5, StaysAgreed
  <1>7. EvidenceFits(i)'
    BY <1>2, <1>4, <1>5 DEF EvidenceFits, Running, Started
  <1>8. CallAgrees(call[h])'
    BY <1>2, <1>3, <1>4 DEF CallAgrees, Agreed
  <1> QED
    BY <1>4, <1>6, <1>7, <1>8, AppendKeeps

\* An unprepared command (runCommand).
LEMMA RunCommandRewrites ==
    ASSUME SessionInv, SessionInv', NEW h \in Handles, NEW i \in Insts, call[h].inst = i,
           RunCommand(h)
    PROVE  LET l == ledger.insts[i]
               fn == call[h].fn
           IN  \E ev, w :
                /\ Rewritten(h, i, ev, Finished(l, fn, w), AfterCommand(call[h]))
                /\ ev.type = "op_result" /\ ev.command = fn /\ ev.writes = w
                /\ w \in Writes(fn, l.store, l.step, None, Target(h, i))
                /\ Running(ledger, i) /\ fn \in Commands \ Prepared
                /\ StepOf(l).op = IF call[h].to = None THEN fn ELSE None
  <1> DEFINE l == ledger.insts[i]
             b == mem[h].insts[i]
             fn == call[h].fn
             c == AfterCommand(call[h])
  <1>1. fresh[h] /\ call[h].pc = "run"
    BY DEF RunCommand, At, Log, AppendEvent, VerifiedBinding
  <1>2. /\ Running(mem[h], i) /\ ~Pending(mem[h]) /\ fn \in Commands \ Prepared
        /\ StepOf(b).op = IF call[h].to = None THEN fn ELSE None
    BY <1>1 DEF SessionInv, CallFits, Asked
  <1>3. /\ ~Pending(ledger) /\ Running(ledger, i) /\ ledger \in Sessions
        /\ b.store = l.store /\ b.step = l.step /\ StepOf(b) = StepOf(l)
    BY <1>1, <1>2, Stands
  <1>4. PICK w \in Writes(fn, l.store, l.step, None, Target(h, i)) :
            \E m : Log(h, ResultEvent(i, l.step, fn, w), m, c)
    BY <1>3 DEF RunCommand
  <1> DEFINE ev == ResultEvent(i, l.step, fn, w)
             new == Finished(l, fn, w)
  <1>5. ev.inst = i /\ ev.type = "op_result" /\ ev.command = fn /\ ev.writes = w
    BY DEF ResultEvent
  <1>6. Apply(ledger, ev) = Replaced(ledger, i, new, ledger.cancelled)
    <2>1. Apply(ledger, ev) = ApplyResult(ledger, ev)
      <3> HIDE DEF ev
      <3> QED
        BY <1>5, ApplyByType
    <2> QED
      BY <1>3, <2>1, ResultFinishes
  <1>7. \E m : Log(h, ev, m, c)
    BY <1>4
  <1> HIDE DEF ev, new, c
  <1>8. Rewritten(h, i, ev, new, c)
    BY <1>3, <1>5, <1>6, <1>7, Rewrites
  <1> QED
    BY <1>2, <1>3, <1>4, <1>5, <1>8 DEF new, c
\* A confirmation records just what is shown, outside the agreed steps, and
\* leads to the pre-flight (confirmPlayback).
LEMMA ConfirmationKeeps ==
    ASSUME SessionInv, SessionInv', AgreementInv, NEW h \in Handles, NEW i \in Insts,
           call[h].inst = i, RunCommand(h), call[h].fn = "confirmPlayback"
    PROVE  AgreementInv'
  <1> DEFINE l == ledger.insts[i]
             fn == call[h].fn
             to == call[h].to
             c == AfterCommand(call[h])
             step == SpecStep(l.proc, l.step)
  <1>1. PICK ev, w :
            /\ Rewritten(h, i, ev, Finished(l, fn, w), c)
            /\ ev.type = "op_result" /\ ev.command = fn /\ ev.writes = w
            /\ w \in Writes(fn, l.store, l.step, None, Target(h, i))
            /\ Running(ledger, i) /\ fn \in Commands \ Prepared
            /\ StepOf(l).op = IF to = None THEN fn ELSE None
    BY RunCommandRewrites
  <1> DEFINE new == Finished(l, fn, w)
  <1>2. /\ l \in Instances /\ l.proc \in Procs /\ l.step \in StepsOf(l.proc)
        /\ StepOf(l) = step
    BY <1>1, RunsWell
  <1>3. /\ "confirmation" \in DOMAIN w /\ "branch" \notin DOMAIN w
        /\ w.confirmation = [step |-> l.step, snapshot |-> l.store.state]
    BY <1>1, WritesTouch
  <1>4. /\ new.proc = l.proc /\ new.status = l.status /\ new.step = l.step
        /\ new.store.eng.confirmation = [step |-> l.step, snapshot |-> l.store.state]
        /\ new.store.eng.branch = l.store.eng.branch
    BY <1>2, <1>3, FinishedFields
  <1>5. CallAgrees(call[h]) /\ call[h].pc = "run"
    BY DEF RunCommand, At, Log, AppendEvent, VerifiedBinding, AgreementInv, Current
  <1>6. to # None
    <2>1. SUFFICES ASSUME to = None PROVE FALSE
      OBVIOUS
    <2>2. ~Chooses(step) /\ step.op = "confirmPlayback"
      BY <1>1, <1>2, <2>1, Discipline, EngineAssumption
    <2> QED
      BY <1>2, <2>2, Discipline DEF DisciplinedGate
  <1>7. PICK o \in step.options : o.call = "confirmPlayback" /\ o.to = to
    BY <1>2, <1>5, <1>6 DEF CallAgrees
  <1>8. DisciplinedOption(l.proc, l.step, o)
    <2>1. Chooses(step)
      BY <1>2, <1>7, Discipline
    <2> QED
      BY <1>2, <2>1, Discipline
  <1>9. l.step \notin AgreedSteps(l.proc)
    BY <1>7, <1>8 DEF DisciplinedOption
  <1>10. to \in AgreedSteps(l.proc) => SpecStep(l.proc, to).op = "preflightEntry"
    BY <1>7, <1>8, <1>9 DEF DisciplinedOption
  <1>11. evidence[i].confirmed = l.store.state
    BY <1>5, <1>6 DEF CallAgrees
  <1>12. c.pc = "move" /\ c.inst = i /\ c.to = to
    BY <1>6 DEF AfterCommand, MoveCall, NoCall
  <1> HIDE DEF new, c
  <1>13. /\ evidence'[i] = evidence[i] /\ check'[i] = check[i]
         /\ ledger'.insts[i] = new /\ call'[h] = c
    BY <1>1 DEF new, Rewritten, Appended, EvidenceAfter, CheckAfter
  <1>14. EvidenceFits(i)
    BY DEF AgreementInv
  <1>15. AgreedSoFar(i)'
    BY <1>4, <1>9, <1>13 DEF AgreedSoFar, Agreed
  <1>16. EvidenceFits(i)'
    BY <1>1, <1>4, <1>9, <1>13, <1>14 DEF EvidenceFits, Running, Started
  <1>17. CallAgrees(call[h])'
    <2>1. ConfirmedAsStored(i)'
      BY <1>4, <1>11, <1>13 DEF ConfirmedAsStored
    <2> QED
      BY <1>4, <1>10, <1>12, <1>13, <2>1 DEF CallAgrees
  <1>18. Rewritten(h, i, ev, new, c)
    BY <1>1 DEF new
  <1> QED
    BY <1>15, <1>16, <1>17, <1>18, AppendKeeps

\* A pre-flight runs at a gate whose playback is confirmed, and looks at what
\* was (runWorkflowPreflight).
LEMMA PreflightKeeps ==
    ASSUME SessionInv, SessionInv', AgreementInv, NEW h \in Handles, NEW i \in Insts,
           call[h].inst = i, RunCommand(h), call[h].fn = "preflightEntry"
    PROVE  AgreementInv'
  <1> DEFINE l == ledger.insts[i]
             fn == call[h].fn
             to == call[h].to
             c == AfterCommand(call[h])
             step == SpecStep(l.proc, l.step)
  <1>1. PICK ev, w :
            /\ Rewritten(h, i, ev, Finished(l, fn, w), c)
            /\ ev.type = "op_result" /\ ev.command = fn /\ ev.writes = w
            /\ w \in Writes(fn, l.store, l.step, None, Target(h, i))
            /\ Running(ledger, i) /\ fn \in Commands \ Prepared
            /\ StepOf(l).op = IF to = None THEN fn ELSE None
    BY RunCommandRewrites
  <1> DEFINE new == Finished(l, fn, w)
  <1>2. /\ l \in Instances /\ l.proc \in Procs /\ l.step \in StepsOf(l.proc)
        /\ StepOf(l) = step
    BY <1>1, RunsWell
  <1>3. /\ "confirmation" \notin DOMAIN w /\ "branch" \in DOMAIN w
        /\ w.findings \in {"clean", "high"}
    <2>1. fn = "preflightEntry" /\ fn \in Commands
      BY <1>1
    <2>2. w \in Writes(fn, l.store, l.step, None, Target(h, i))
      BY <1>1
    <2> HIDE DEF fn, l
    <2> QED
      BY <2>1, <2>2, WritesTouch
  <1>4. /\ new.proc = l.proc /\ new.status = l.status /\ new.step = l.step
        /\ new.store.state = l.store.state
        /\ new.store.eng.confirmation = l.store.eng.confirmation
        /\ new.store.eng.branch = w.branch
    BY <1>2, <1>3, FinishedFields
  <1>5. CallAgrees(call[h]) /\ call[h].pc = "run"
    BY DEF RunCommand, At, Log, AppendEvent, VerifiedBinding, AgreementInv, Current
  <1>6. to = None
    <2>1. SUFFICES ASSUME to # None PROVE FALSE
      OBVIOUS
    <2>2. PICK o \in step.options : o.call = "preflightEntry"
      BY <1>2, <1>5, <2>1 DEF CallAgrees
    <2>3. Chooses(step)
      BY <1>2, <2>2, Discipline
    <2> QED
      BY <1>2, <2>2, <2>3, Discipline DEF DisciplinedOption
  <1>7. Agreed(ledger, i)
    <2>1. ~Chooses(step) /\ step.op = "preflightEntry"
      BY <1>1, <1>2, <1>6, Discipline, EngineAssumption
    <2> QED
      BY <1>2, <2>1, Discipline DEF DisciplinedGate, Agreed
  <1>8. PlaybackConfirmed(l.store)
    BY <1>5, <1>6, <1>7 DEF CallAgrees
  <1>9. AgreedSoFar(i) /\ EvidenceFits(i) /\ ConfirmedAsStored(i)
    BY <1>1, <1>7 DEF AgreementInv, AgreedSoFar
  <1>10. c.pc = "cascade"
    BY <1>6 DEF AfterCommand, CallOn, NoCall
  <1> HIDE DEF new, c
  <1>11. ledger'.insts[i] = new /\ call'[h] = c /\ Rewritten(h, i, ev, new, c)
    BY <1>1 DEF new, Rewritten
  <1>12. /\ evidence'[i] = [evidence[i] EXCEPT !.checked = l.store.state, !.branch = w.branch,
                                              !.passed = w.findings = "clean"]
         /\ check'[i].accepted => w.findings # "high"
    <2>1. /\ evidence'[i] = EvidenceAfter(evidence[i], l, ev)
          /\ check'[i] = CheckAfter(check[i], ev)
      BY <1>11 DEF Rewritten, Appended
    <2>2. ev.type = "op_result" /\ ev.command = "preflightEntry" /\ ev.writes = w
      BY <1>1
    <2>3. evidence'[i] = [evidence[i] EXCEPT !.checked = l.store.state, !.branch = w.branch,
                                             !.passed = w.findings = "clean"]
      BY <2>1, <2>2 DEF EvidenceAfter
    <2>4. check'[i].accepted => w.findings # "high"
      <3>1. CheckAfter(check[i], ev) =
                [current |-> TRUE, accepted |-> w.findings # "high", branch |-> w.branch]
        BY <2>2 DEF CheckAfter
      <3>2. CheckAfter(check[i], ev).accepted = (w.findings # "high")
        BY <3>1
      <3> QED
        BY <2>1, <3>2
    <2> QED
      BY <2>3, <2>4
  <1>13. /\ evidence'[i].confirmed = evidence[i].confirmed
         /\ evidence'[i].checked = l.store.state /\ evidence'[i].branch = w.branch
         /\ evidence'[i].passed <=> w.findings = "clean"
    <2>1. evidence[i] \in Evidences
      BY DEF SessionInv, TypeOK
    <2> QED
      BY <1>12, <2>1 DEF Evidences
  <1>14. AgreedSoFar(i)'
    BY <1>4, <1>8, <1>9, <1>11, <1>13 DEF AgreedSoFar, ConfirmedAsStored, PlaybackConfirmed
  <1>15. EvidenceFits(i)'
    BY <1>1, <1>3, <1>4, <1>9, <1>11, <1>12, <1>13 DEF EvidenceFits, Running, Started
  <1>16. CallAgrees(call[h])'
    BY <1>10, <1>11 DEF CallAgrees
  <1> QED
    BY <1>11, <1>14, <1>15, <1>16, AppendKeeps

\* Every other unprepared command: an override was the user's answer.
LEMMA RunCommandKeeps ==
    ASSUME SessionInv, SessionInv', AgreementInv, NEW h \in Handles, NEW i \in Insts,
           call[h].inst = i, RunCommand(h)
    PROVE  AgreementInv'
  <1> DEFINE l == ledger.insts[i]
             fn == call[h].fn
             to == call[h].to
             c == AfterCommand(call[h])
             step == SpecStep(l.proc, l.step)
  <1>1. PICK ev, w :
            /\ Rewritten(h, i, ev, Finished(l, fn, w), c)
            /\ ev.type = "op_result" /\ ev.command = fn /\ ev.writes = w
            /\ w \in Writes(fn, l.store, l.step, None, Target(h, i))
            /\ Running(ledger, i) /\ fn \in Commands \ Prepared
            /\ StepOf(l).op = IF to = None THEN fn ELSE None
    BY RunCommandRewrites
  <1>2. CASE fn = "confirmPlayback"
    BY <1>2, ConfirmationKeeps
  <1>3. CASE fn = "preflightEntry"
    BY <1>3, PreflightKeeps
  <1>4. CASE fn \notin {"confirmPlayback", "preflightEntry"}
    <2>1. "confirmation" \notin DOMAIN w /\ "branch" \notin DOMAIN w
      <3>1. fn \in Commands /\ w \in Writes(fn, l.store, l.step, None, Target(h, i))
        BY <1>1
      <3> HIDE DEF fn, l
      <3> QED
        BY <1>4, <3>1, WritesTouch
    <2>2. /\ l.proc \in Procs /\ l.step \in StepsOf(l.proc) /\ StepOf(l) = step
      BY <1>1, RunsWell
    <2>3. CallAgrees(call[h])
      BY DEF RunCommand, At, Log, AppendEvent, VerifiedBinding, AgreementInv, Current
    <2>4. call[h].pc = "run"
      BY DEF RunCommand, At
    <2>5. evidence'[i] = evidence[i]
      BY <1>1, <1>4 DEF Rewritten, Appended, EvidenceAfter
    <2>6. StepOf(l).op # "preflightEntry"
      BY <1>1, <1>4, CommandsAssumption DEF WorkflowCommands
    <2>7. to \in AgreedSteps(l.proc) => Agreed(ledger, i) /\ StepOf(l).op = None
      <3>1. SUFFICES ASSUME to \in AgreedSteps(l.proc)
                     PROVE  Agreed(ledger, i) /\ StepOf(l).op = None
        OBVIOUS
      <3>2. to # None
        <4>1. to \in Steps
          BY <2>2, <3>1, SpecsAssumption DEF AgreedSteps
        <4> QED
          BY <4>1, EngineAssumption
      <3>3. PICK o \in step.options : o.call = fn /\ o.to = to
        BY <2>2, <2>3, <2>4, <3>2 DEF CallAgrees
      <3>4. Chooses(step)
        BY <2>2, <3>3, Discipline
      <3>5. DisciplinedOption(l.proc, l.step, o)
        BY <2>2, <3>3, <3>4, Discipline
      <3> QED
        BY <1>1, <1>4, <3>1, <3>2, <3>3, <3>5 DEF DisciplinedOption, Agreed
    <2>8. check'[i].current /\ check'[i].accepted => evidence[i].passed
      <3>1. EvidenceFits(i) /\ check[i] \in Checks
        BY DEF AgreementInv, SessionInv, TypeOK
      <3>2. check'[i] = CheckAfter(check[i], ev)
        BY <1>1 DEF Rewritten, Appended
      <3>3. CASE fn # "recordOverride"
        BY <1>1, <1>4, <3>1, <3>2, <3>3 DEF CheckAfter, EvidenceFits
      <3>4. CASE fn = "recordOverride"
        <4>1. to # None
          <5>1. SUFFICES ASSUME to = None PROVE FALSE
            OBVIOUS
          <5>2. ~Chooses(step) /\ step.op = "recordOverride"
            BY <1>1, <2>2, <3>4, <5>1, Discipline, EngineAssumption
          <5> QED
            BY <2>2, <5>2, Discipline DEF DisciplinedGate
        <4> QED
          BY <2>3, <2>4, <3>4, <4>1 DEF CallAgrees
      <3> QED
        BY <3>3, <3>4
    <2>9. Rewritten(h, i, ev, Finished(l, fn, w), AfterCommand(call[h]))
      BY <1>1
    <2> HIDE DEF fn
    <2> QED
      BY <1>1, <2>1, <2>5, <2>6, <2>7, <2>8, <2>9, CommandKeeps
  <1> QED
    BY <1>2, <1>3, <1>4
-----------------------------------------------------------------------------
\* The fold of an outcome logged where its instance stands resolves its
\* operation and finishes its command.
LEMMA OutcomeFinishes ==
    ASSUME NEW s \in Sessions, NEW i \in Insts, NEW ref, NEW fn, NEW w
    PROVE  ApplyResult(s, OutcomeEvent(i, ref, s.insts[i].step, fn, w)) =
                Resolved(s, i, Finished(s.insts[i], fn, w), s.cancelled)
  <1>1. CASE StepOf(s.insts[i]).op = fn
    BY <1>1, OutcomeReplaces DEF Finished
  <1>2. CASE StepOf(s.insts[i]).op # fn
    BY <1>2, OutcomeReplaces DEF Finished
  <1> QED
    BY <1>1, <1>2

\* An operation's outcome (runCommand).
LEMMA RecordOutcomeRewrites ==
    ASSUME SessionInv, SessionInv', NEW h \in Handles, NEW i \in Insts, call[h].inst = i,
           RecordOutcome(h)
    PROVE  LET fn == call[h].fn
           IN  \E ev, w :
                /\ Rewritten(h, i, ev, Finished(ledger.insts[i], fn, w), AfterCommand(call[h]))
                /\ ev.type = "mutation_outcome"
                /\ "confirmation" \notin DOMAIN w /\ "branch" \notin DOMAIN w
                /\ Running(ledger, i) /\ Pending(ledger) /\ UnfinishedFinds(ledger)
                /\ ledger.intent.inst = i /\ ledger.intent.to = call[h].to
                /\ ledger.intent.command = fn /\ fn \in Commands \cap Prepared
  <1> DEFINE l == ledger.insts[i]
             m == mem[h]
             b == m.insts[i]
             fn == call[h].fn
             c == AfterCommand(call[h])
  <1>1. fresh[h] /\ call[h].pc = "outcome"
    BY DEF RecordOutcome, At, Log, AppendEvent, VerifiedBinding
  <1>2. /\ SameSession(m, ledger, call[h]) /\ GoodSession(m) /\ CallFits(m, call[h])
        /\ GoodSession(ledger)
    BY <1>1, LedgerFacts
  <1>3. Pending(m) /\ m.intent.inst = i /\ m.intent.command = fn /\ m.intent.to = call[h].to
    BY <1>1, <1>2 DEF CallFits, OnOperation
  <1>4. /\ Pending(ledger) /\ ledger.intent.inst = i /\ ledger.intent.command = fn
        /\ ledger.intent.to = call[h].to
    BY <1>2, <1>3 DEF SameSession, Pending
  <1>5. /\ UnfinishedFinds(ledger) /\ Running(ledger, i) /\ fn \in Prepared
        /\ ledger.intent \in Intents /\ Running(m, i)
    BY <1>2, <1>3, <1>4, PendingFacts
  <1>6. fn \in Commands \cap Prepared
    BY <1>4, <1>5 DEF Intents
  <1>7. ledger \in Sessions /\ b.step = l.step
    BY <1>1, <1>5, Stands
  <1>8. PICK w, ref, s, at, br :
            /\ w \in Writes(fn, s, at, ref, br)
            /\ \E n : Log(h, OutcomeEvent(i, ref, l.step, fn, w), n, c)
    BY <1>7 DEF RecordOutcome
  <1>9. "confirmation" \notin DOMAIN w /\ "branch" \notin DOMAIN w
    <2>1. fn \in Commands /\ fn \notin {"confirmPlayback", "preflightEntry"}
      BY <1>6 DEF Prepared
    <2> HIDE DEF fn
    <2> QED
      BY <1>8, <2>1, WritesTouch
  <1> DEFINE ev == OutcomeEvent(i, ref, l.step, fn, w)
             new == Finished(l, fn, w)
  <1>10. ev.inst = i /\ ev.type = "mutation_outcome"
    BY DEF OutcomeEvent
  <1>11. Apply(ledger, ev) = Resolved(ledger, i, new, ledger.cancelled)
    <2>1. Apply(ledger, ev) = ApplyResult(ledger, ev)
      <3> HIDE DEF ev
      <3> QED
        BY <1>10, ApplyByType
    <2> QED
      BY <1>7, <2>1, OutcomeFinishes
  <1>12. \E n : Log(h, ev, n, c)
    BY <1>8
  <1> HIDE DEF ev, new, c
  <1>13. Rewritten(h, i, ev, new, c)
    BY <1>10, <1>11, <1>12, Resolves
  <1> QED
    BY <1>4, <1>5, <1>6, <1>9, <1>10, <1>13 DEF new, c

\* An operation's outcome touches neither confirmation nor verdict, and its
\* answer's transition comes to the agreed steps only from them.
LEMMA RecordOutcomeKeeps ==
    ASSUME SessionInv, SessionInv', AgreementInv, NEW h \in Handles, NEW i \in Insts,
           call[h].inst = i, RecordOutcome(h)
    PROVE  AgreementInv'
  <1> DEFINE l == ledger.insts[i]
             fn == call[h].fn
             to == call[h].to
  <1>1. PICK ev, w :
            /\ Rewritten(h, i, ev, Finished(l, fn, w), AfterCommand(call[h]))
            /\ ev.type = "mutation_outcome"
            /\ "confirmation" \notin DOMAIN w /\ "branch" \notin DOMAIN w
            /\ Running(ledger, i) /\ Pending(ledger) /\ UnfinishedFinds(ledger)
            /\ ledger.intent.inst = i /\ ledger.intent.to = to
            /\ ledger.intent.command = fn /\ fn \in Commands \cap Prepared
    BY RecordOutcomeRewrites
  <1>2. l.proc \in Procs
    BY <1>1, RunsWell
  <1>3. evidence'[i] = evidence[i] /\ check'[i] = check[i]
    BY <1>1 DEF Rewritten, Appended, EvidenceAfter, CheckAfter
  <1>4. StepOf(l).op = IF to = None THEN fn ELSE None
    BY <1>1 DEF UnfinishedFinds
  <1>5. StepOf(l).op # "preflightEntry"
    BY <1>1, <1>4, CommandsAssumption DEF WorkflowCommands, Prepared
  <1>6. to \in AgreedSteps(l.proc) => Agreed(ledger, i) /\ StepOf(l).op = None
    <2>1. SUFFICES ASSUME to \in AgreedSteps(l.proc)
                   PROVE  Agreed(ledger, i) /\ StepOf(l).op = None
      OBVIOUS
    <2>2. to # None
      <3>1. to \in Steps
        BY <1>2, <2>1, SpecsAssumption DEF AgreedSteps
      <3> QED
        BY <3>1, EngineAssumption
    <2>3. AnswerFits(i, to)
      BY <1>1, <2>2 DEF AgreementInv
    <2> QED
      BY <1>4, <2>1, <2>2, <2>3 DEF AnswerFits
  <1>7. check'[i].current /\ check'[i].accepted => evidence[i].passed
    BY <1>1, <1>3 DEF AgreementInv, EvidenceFits
  <1> HIDE DEF fn
  <1> QED
    BY <1>1, <1>3, <1>5, <1>6, <1>7, CommandKeeps
-----------------------------------------------------------------------------
\* h recorded an operation over the running instance i, and goes on with c.
RecordedOver(h, i, command, to, target, c) ==
    /\ ledger'.insts = ledger.insts /\ ledger'.counter = ledger.counter
    /\ ledger'.intent.inst = i /\ ledger'.intent.command = command
    /\ ledger'.intent.to = to /\ ledger'.intent.branch = target
    /\ ledger'.intentStore = ledger.insts[i].store
    /\ evidence' = evidence /\ check' = check /\ ended' = FALSE
    /\ \A g \in Handles : fresh'[g] <=> g = h
    /\ call'[h] = c /\ \A g \in Handles \ {h} : call'[g] = call[g]

\* Recording an intent (runCommand).
LEMMA RecordIntentRecords ==
    ASSUME SessionInv, SessionInv', NEW h \in Handles, NEW i \in Insts, call[h].inst = i,
           RecordIntent(h)
    PROVE  LET store == ledger.insts[i].store
               fn == call[h].fn
           IN  /\ RecordedOver(h, i, fn, call[h].to, IntentBranch(fn, store, Target(h, i)),
                               [call[h] EXCEPT !.pc = "verify"])
               /\ PrepareSucceeds(fn, store, Verdict(h, i))
               /\ Running(ledger, i) /\ ~Pending(ledger) /\ fn \in Commands \cap Prepared
               /\ StepOf(ledger.insts[i]).op = IF call[h].to = None THEN fn ELSE None
  <1> DEFINE l == ledger.insts[i]
             m == mem[h]
             fn == call[h].fn
             to == call[h].to
             target == IntentBranch(fn, l.store, Target(h, i))
             c == [call[h] EXCEPT !.pc = "verify"]
  <1>1. fresh[h] /\ ~ended /\ call[h].pc = "command"
    BY DEF RecordIntent, At, Log, AppendEvent, VerifiedBinding
  <1>2. /\ Running(m, i) /\ ~Pending(m) /\ fn \in Commands \cap Prepared
        /\ StepOf(m.insts[i]).op = IF to = None THEN fn ELSE None
    BY <1>1 DEF SessionInv, CallFits, Asked
  <1>3. /\ ~Pending(ledger) /\ Running(ledger, i) /\ ledger \in Sessions
        /\ m.insts[i].store = l.store /\ StepOf(m.insts[i]) = StepOf(l)
    BY <1>1, <1>2, Stands
  <1>4. PrepareSucceeds(fn, l.store, Verdict(h, i))
    BY <1>3 DEF RecordIntent
  <1>5. PICK ref, at, n : Log(h, IntentEvent(i, ref, at, fn, to, target), n, c)
    BY <1>3 DEF RecordIntent
  <1> DEFINE ev == IntentEvent(i, ref, at, fn, to, target)
  <1>6. /\ ev.inst = i /\ ev.type = "mutation_intent" /\ ev.command = fn /\ ev.to = to
        /\ ev.branch = target /\ Log(h, ev, n, c)
    BY <1>5 DEF IntentEvent
  <1> HIDE DEF ev, target, c, fn, to
  <1>7. /\ Appended(h, i, ev)
        /\ call'[h] = c /\ \A g \in Handles \ {h} : call'[g] = call[g]
    BY <1>6, LogAppends
  <1>8. ledger' = ApplyIntent(ledger, ev)
    BY <1>6, <1>7, ApplyByType DEF Appended
  <1>9. /\ ledger'.insts = ledger.insts /\ ledger'.counter = ledger.counter
        /\ ledger'.intent.inst = i /\ ledger'.intent.command = fn
        /\ ledger'.intent.to = to /\ ledger'.intent.branch = target
        /\ ledger'.intentStore = l.store
    BY <1>3, <1>6, <1>8 DEF ApplyIntent, Sessions
  <1>10. /\ evidence' = evidence /\ check' = check
    <2>1. evidence'[i] = evidence[i] /\ check'[i] = check[i]
      BY <1>6, <1>7 DEF Appended, EvidenceAfter, CheckAfter
    <2>2. /\ evidence \in [Insts -> Evidences] /\ check \in [Insts -> Checks]
          /\ evidence' \in [Insts -> Evidences] /\ check' \in [Insts -> Checks]
      BY DEF SessionInv, TypeOK
    <2>3. \A j \in Insts : evidence'[j] = evidence[j] /\ check'[j] = check[j]
      BY <1>7, <2>1 DEF Appended
    <2> QED
      BY <2>2, <2>3
  <1>11. ended' = FALSE
    BY <1>6, <1>7 DEF Appended, EndsSession
  <1>12. RecordedOver(h, i, fn, to, target, c)
    BY <1>7, <1>9, <1>10, <1>11 DEF RecordedOver, Appended
  <1> QED
    BY <1>2, <1>3, <1>4, <1>12 DEF target, c, fn, to

\* What an operation is recorded over was confirmed and checked
\* (verifyCapturePreflight at a gate that waits for the playback).
LEMMA RecordIntentKeeps ==
    ASSUME SessionInv, SessionInv', AgreementInv, NEW h \in Handles, NEW i \in Insts,
           call[h].inst = i, RecordIntent(h)
    PROVE  AgreementInv'
  <1> DEFINE l == ledger.insts[i]
             fn == call[h].fn
             to == call[h].to
             target == IntentBranch(fn, l.store, Target(h, i))
             c == [call[h] EXCEPT !.pc = "verify"]
             step == SpecStep(l.proc, l.step)
  <1>1. /\ RecordedOver(h, i, fn, to, target, c)
        /\ PrepareSucceeds(fn, l.store, Verdict(h, i))
        /\ Running(ledger, i) /\ fn \in Commands \cap Prepared
        /\ StepOf(l).op = IF to = None THEN fn ELSE None
    BY RecordIntentRecords
  <1>2. /\ l \in Instances /\ l.proc \in Procs /\ l.step \in StepsOf(l.proc)
        /\ StepOf(l) = step
    BY <1>1, RunsWell
  <1>3. CallAgrees(call[h])
    BY DEF RecordIntent, At, Log, AppendEvent, VerifiedBinding, AgreementInv, Current
  <1>4. call[h].pc = "command"
    BY DEF RecordIntent, At
  <1>5. AgreedSoFar(i) /\ EvidenceFits(i)
    BY DEF AgreementInv
  <1>6. to # None => \E o \in step.options : /\ o.call = fn /\ o.to = to
                                             /\ DisciplinedOption(l.proc, l.step, o)
                                             /\ l.interactionStep = l.step
    <2>1. SUFFICES ASSUME to # None
                   PROVE  \E o \in step.options : /\ o.call = fn /\ o.to = to
                                                  /\ DisciplinedOption(l.proc, l.step, o)
                                                  /\ l.interactionStep = l.step
      OBVIOUS
    <2>2. PICK o \in step.options : o.call = fn /\ o.to = to /\ l.interactionStep = l.step
      BY <1>2, <1>3, <1>4, <2>1 DEF CallAgrees
    <2>3. Chooses(step)
      BY <1>2, <2>2, Discipline
    <2>4. DisciplinedOption(l.proc, l.step, o)
      BY <1>2, <2>2, <2>3, Discipline
    <2> QED
      BY <2>2, <2>4
  <1>7. fn = "newEntry" =>
            /\ evidence[i].confirmed = l.store.state /\ evidence[i].checked = l.store.state
            /\ evidence[i].branch = target /\ evidence[i].passed
    <2>1. SUFFICES ASSUME fn = "newEntry"
                   PROVE  /\ evidence[i].confirmed = l.store.state
                          /\ evidence[i].checked = l.store.state
                          /\ evidence[i].branch = target /\ evidence[i].passed
      OBVIOUS
    <2>2. to = None
      BY <1>6, <2>1 DEF DisciplinedOption
    <2>3. Agreed(ledger, i)
      <3>1. ~Chooses(step) /\ step.op = "newEntry"
        BY <1>1, <1>2, <2>1, <2>2, Discipline, EngineAssumption
      <3> QED
        BY <1>2, <3>1, Discipline DEF DisciplinedGate, Agreed
    <2>4. PlaybackConfirmed(l.store)
      BY <1>3, <1>4, <2>2, <2>3 DEF CallAgrees
    <2>5. ConfirmedAsStored(i) /\ evidence[i].checked = l.store.eng.confirmation.snapshot
      BY <1>1, <1>5, <2>1, <2>2, <2>3, <2>4 DEF AgreedSoFar, PlaybackConfirmed
    <2>6. check[i].current /\ check[i].accepted
      BY <1>1, <2>1 DEF PrepareSucceeds, Verdict, Prepared
    <2>7. evidence[i].passed /\ evidence[i].branch = l.store.eng.branch
      BY <1>1, <1>5, <2>6 DEF EvidenceFits
    <2>8. target = l.store.eng.branch
      BY <2>1 DEF IntentBranch
    <2> QED
      BY <2>4, <2>5, <2>7, <2>8 DEF ConfirmedAsStored, PlaybackConfirmed
  <1>8. to # None => AnswerFits(i, to)
    <2>1. ASSUME NEW o \in step.options, o.call = fn, o.to = to, to \in AgreedSteps(l.proc),
                 DisciplinedOption(l.proc, l.step, o)
          PROVE  l.step \in AgreedSteps(l.proc)
      BY <1>1, <2>1 DEF DisciplinedOption, Prepared
    <2> QED
      BY <1>6, <2>1 DEF AnswerFits, Agreed
  <1>9. c.pc = "verify"
    <2>1. call[h] \in Calls
      BY DEF SessionInv, TypeOK
    <2> QED
      BY <2>1 DEF Calls
  <1> HIDE DEF fn, to, target, c
  <1>10. ASSUME NEW j \in Insts PROVE (AgreedSoFar(j) /\ EvidenceFits(j))'
    <2>1. AgreedSoFar(j) /\ EvidenceFits(j)
      BY DEF AgreementInv
    <2>2. /\ ledger'.insts[j] = ledger.insts[j] /\ evidence'[j] = evidence[j]
          /\ check'[j] = check[j]
      BY <1>1 DEF RecordedOver
    <2> QED
      BY <2>1, <2>2 DEF AgreedSoFar, EvidenceFits, Running, Started, Agreed, ConfirmedAsStored
  <1>11. PublishesWhatWasAgreed'
    BY <1>1, <1>7 DEF RecordedOver, PublishesWhatWasAgreed
  <1>12. (Pending(ledger) /\ ledger.intent.to # None =>
            AnswerFits(ledger.intent.inst, ledger.intent.to))'
    BY <1>1, <1>8 DEF RecordedOver, AnswerFits, Agreed
  <1>13. ASSUME NEW g \in Handles, Current(g)' PROVE CallAgrees(call[g])'
    <2>1. g = h
      BY <1>1, <1>13 DEF RecordedOver, Current
    <2>2. call'[g] = c
      BY <1>1, <2>1 DEF RecordedOver
    <2> QED
      BY <1>9, <2>2 DEF CallAgrees
  <1> QED
    BY <1>10, <1>11, <1>12, <1>13 DEF AgreementInv
-----------------------------------------------------------------------------
(***************************************************************************)
(* The steps that leave the log, its verdicts and its end as they are.     *)
(***************************************************************************)
QuietDialogue(h) ==
    /\ UNCHANGED <<ledger, evidence, check, ended>>
    /\ \A g \in Handles \ {h} : call'[g] = call[g] /\ (fresh'[g] => fresh[g])
    /\ call'[h].pc = "shell" => ~RunningShell(ledger)

\* A call that has nothing to run and no transition to make.
Settled(c) == c.pc \notin {"command", "run", "move"}

LEMMA GoIsQuiet ==
    ASSUME SessionInv, NEW h \in Handles, NEW c, Go(h, c), c.pc # "shell"
    PROVE  QuietDialogue(h) /\ call'[h] = c
  <1>1. call \in [Handles -> Calls]
    BY DEF SessionInv, TypeOK
  <1> QED
    BY <1>1 DEF Go, QuietDialogue, logged

LEMMA DropIsQuiet ==
    ASSUME SessionInv, NEW h \in Handles, Drop(h), UNCHANGED logged
    PROVE  QuietDialogue(h) /\ Settled(call'[h])
  <1>1. call \in [Handles -> Calls] /\ fresh \in [Handles -> BOOLEAN]
    BY DEF SessionInv, TypeOK
  <1>2. NoCall("closed").pc = "closed"
    BY DEF NoCall
  <1> QED
    BY <1>1, <1>2 DEF Drop, QuietDialogue, Settled, logged

LEMMA RestIsQuiet ==
    ASSUME SessionInv, NEW h \in Handles, Rest(h), UNCHANGED logged
    PROVE  QuietDialogue(h) /\ Settled(call'[h])
  <1>1. CASE Held \/ call[h].opening
    <2>1. call \in [Handles -> Calls] /\ fresh \in [Handles -> BOOLEAN]
      BY DEF SessionInv, TypeOK
    <2>2. NoCall("idle").pc = "idle"
      BY DEF NoCall
    <2> QED
      BY <1>1, <2>1, <2>2 DEF Rest, QuietDialogue, Settled, logged
  <1>2. CASE ~(Held \/ call[h].opening)
    BY <1>2, DropIsQuiet DEF Rest
  <1> QED
    BY <1>1, <1>2

\* A note changes only who is up to date.
LEMMA NoteIsQuiet ==
    ASSUME SessionInv, SessionInv', NEW h \in Handles, NEW m, NEW c,
           Log(h, NoteEvent, m, c), c.pc # "shell"
    PROVE  QuietDialogue(h) /\ call'[h] = c
  <1>1. call \in [Handles -> Calls] /\ readable'
    BY DEF SessionInv, TypeOK
  <1>2. ledger' = ledger /\ evidence' = evidence /\ check' = check
    BY <1>1, NoteFacts DEF Log, AppendEvent, NoteEvent
  <1>3. ended' = ended
    BY NoteFacts DEF Log, AppendEvent, VerifiedBinding, SessionInv, TypeOK
  <1> QED
    BY <1>1, <1>2, <1>3 DEF Log, AppendEvent, QuietDialogue

\* The session's own view of these steps.
LEMMA AskIsQuiet ==
    ASSUME SessionInv, SessionInv', NEW h \in Handles,
           \/ Load(h) \/ Note(h) \/ BindBranch(h) \/ ResyncBinding(h)
           \/ \E i \in Insts : Retry(h, i) \/ Park(h, i)
    PROVE  QuietDialogue(h) /\ Settled(call'[h])
  <1>0. /\ call \in [Handles -> Calls] /\ fresh \in [Handles -> BOOLEAN]
        /\ \A pc \in PCs : NoCall(pc).pc = pc
    BY DEF SessionInv, TypeOK, NoCall
  <1>1. CASE Load(h)
    <2>1. /\ call' = [call EXCEPT ![h] = NoCall(IF RunningShell(ledger) THEN "idle" ELSE "shell")]
          /\ \A g \in Handles \ {h} : fresh'[g] => fresh[g]
          /\ UNCHANGED logged
      BY <1>1 DEF Load
    <2> QED
      BY <1>0, <2>1 DEF QuietDialogue, Settled, PCs, logged
  <1>2. CASE Note(h)
    <2>1. Log(h, NoteEvent, mem[h], call[h]) /\ call[h].pc \in {"idle", "done"}
      BY <1>2 DEF Note
    <2> QED
      BY <2>1, NoteIsQuiet DEF Settled
  <1>3. CASE BindBranch(h)
    <2>1. /\ call' = [call EXCEPT ![h] = NoCall("done")]
          /\ fresh' = [g \in Handles |-> g = h] /\ UNCHANGED logged
      BY <1>3 DEF BindBranch, Bind
    <2> QED
      BY <1>0, <2>1 DEF QuietDialogue, Settled, PCs, logged
  <1>4. CASE ResyncBinding(h)
    <2>1. /\ call' = [call EXCEPT ![h] = NoCall("rebind")]
          /\ fresh' = [fresh EXCEPT ![h] = TRUE] /\ UNCHANGED logged
      BY <1>4 DEF ResyncBinding
    <2> QED
      BY <1>0, <2>1 DEF QuietDialogue, Settled, PCs, logged
  <1>5. ASSUME NEW i \in Insts, Retry(h, i) PROVE QuietDialogue(h) /\ Settled(call'[h])
    <2>1. CallOn(i).pc = "cascade"
      BY DEF CallOn, NoCall
    <2> DEFINE c == [NoCall("verify") EXCEPT
                        !.inst = i, !.fn = mem[h].intent.command,
                        !.to = mem[h].intent.to, !.retry = TRUE]
    <2>2. c.pc = "verify"
      BY DEF NoCall
    <2>3. Go(h, CallOn(i)) \/ Go(h, c)
      BY <1>5 DEF Retry
    <2> HIDE DEF c
    <2> QED
      BY <2>1, <2>2, <2>3, GoIsQuiet DEF Settled
  <1>6. ASSUME NEW i \in Insts, Park(h, i) PROVE QuietDialogue(h) /\ Settled(call'[h])
    <2>1. Log(h, NoteEvent, mem[h], NoCall("done")) /\ NoCall("done").pc = "done"
      BY <1>6 DEF Park, NoCall
    <2> QED
      BY <2>1, NoteIsQuiet DEF Settled
  <1> QED
    BY <1>1, <1>2, <1>3, <1>4, <1>5, <1>6

LEMMA ProceedIsQuiet ==
    ASSUME SessionInv, SessionInv', NEW h \in Handles,
           \/ CascadeStops(h) \/ VerifyBinding(h) \/ Publish(h) \/ PublishThenFail(h)
           \/ LogPublishedRead(h) \/ CallFails(h) \/ RebindFails(h) \/ Return(h)
           \/ AppendRefused(h) \/ Crash(h)
    PROVE  QuietDialogue(h) /\ Settled(call'[h])
  <1>0. call \in [Handles -> Calls] /\ call[h] \in Calls
    BY DEF SessionInv, TypeOK
  <1>1. CASE CascadeStops(h)
    <2> DEFINE c == [NoCall("done") EXCEPT !.opening = call[h].opening]
    <2>1. c.pc = "done"
      BY DEF NoCall
    <2>2. Go(h, c)
      BY <1>1 DEF CascadeStops
    <2> HIDE DEF c
    <2> QED
      BY <2>1, <2>2, GoIsQuiet DEF Settled
  <1>2. CASE VerifyBinding(h)
    <2>1. [call[h] EXCEPT !.pc = "publish"].pc = "publish"
      BY <1>0 DEF Calls
    <2>2. Go(h, [call[h] EXCEPT !.pc = "publish"])
      BY <1>2 DEF VerifyBinding
    <2> QED
      BY <2>1, <2>2, GoIsQuiet DEF Settled
  <1>3. CASE Publish(h)
    <2>1. /\ call' = [call EXCEPT ![h].pc = IF call[h].fn = "newEntry" THEN "read" ELSE "outcome"]
          /\ UNCHANGED <<logged, fresh>>
      BY <1>3 DEF Publish
    <2>2. /\ call'[h].pc \in {"read", "outcome"}
          /\ \A g \in Handles \ {h} : call'[g] = call[g]
      BY <1>0, <2>1 DEF Calls
    <2> QED
      BY <2>1, <2>2 DEF QuietDialogue, Settled, logged
  <1>4. CASE PublishThenFail(h)
    <2>1. call' = [call EXCEPT ![h] = NoCall("done")] /\ UNCHANGED <<logged, fresh>>
      BY <1>4 DEF PublishThenFail
    <2>2. NoCall("done").pc = "done"
      BY DEF NoCall
    <2> QED
      BY <1>0, <2>1, <2>2 DEF QuietDialogue, Settled, logged
  <1>5. CASE LogPublishedRead(h)
    <2>1. Log(h, NoteEvent, mem[h], [call[h] EXCEPT !.pc = "outcome"])
      BY <1>5 DEF LogPublishedRead
    <2>2. [call[h] EXCEPT !.pc = "outcome"].pc = "outcome"
      BY <1>0 DEF Calls
    <2> QED
      BY <2>1, <2>2, NoteIsQuiet DEF Settled
  <1>6. CASE CallFails(h)
    <2>1. Go(h, NoCall("done")) /\ NoCall("done").pc = "done"
      BY <1>6 DEF CallFails, OnFailure, NoCall
    <2> QED
      BY <2>1, GoIsQuiet DEF Settled
  <1>7. CASE RebindFails(h) \/ Return(h)
    BY <1>7, RestIsQuiet DEF RebindFails, Return
  <1>8. CASE AppendRefused(h) \/ Crash(h)
    BY <1>8, DropIsQuiet DEF AppendRefused, Crash
  <1> QED
    BY <1>1, <1>2, <1>3, <1>4, <1>5, <1>6, <1>7, <1>8
\* At a gate of the agreed steps the op runs only behind a confirmed playback.
LEMMA RunOpKeeps ==
    ASSUME SessionInv, AgreementInv, NEW h \in Handles, NEW i \in Insts,
           call[h].inst = i, RunOp(h)
    PROVE  AgreementInv'
  <1> DEFINE b == mem[h].insts[i]
             l == ledger.insts[i]
             c == CommandCall(i, StepOf(b).op, None)
  <1>1. call[h].pc = "cascade" /\ Running(mem[h], i) /\ StepOf(b).chooser = "gate"
    BY DEF RunOp, OnGate
  <1>2. Satisfied(StepOf(b).guard, b.store, Verdict(h, i)) /\ Go(h, c)
    BY DEF RunOp, GuardHolds
  <1>3. c.pc \in {"command", "run"} /\ c.inst = i /\ c.fn = StepOf(b).op /\ c.to = None
    BY DEF CommandCall, NoCall
  <1> HIDE DEF c
  <1>4. call \in [Handles -> Calls]
    BY DEF SessionInv, TypeOK
  <1>5. call'[h] = c /\ \A g \in Handles \ {h} : call'[g] = call[g]
    BY <1>2, <1>4 DEF Go
  <1>6. UNCHANGED <<ledger, evidence, check, fresh>>
    BY <1>2 DEF Go, logged
  <1>7. ASSUME fresh[h] PROVE CallAgrees(c)
    <2>1. /\ b.store = l.store /\ StepOf(b) = SpecStep(l.proc, l.step)
          /\ StepOf(l) = StepOf(b) /\ l.proc \in Procs /\ l.step \in StepsOf(l.proc)
      BY <1>1, <1>7, Stands
    <2>2. DisciplinedGate(l.proc, l.step)
      BY <1>1, <2>1, Discipline DEF Chooses
    <2>3. Agreed(ledger, i) => "playbackConfirmed" \in StepOf(b).guard
      BY <2>1, <2>2 DEF DisciplinedGate, Waits, Agreed
    <2>4. Agreed(ledger, i) => PlaybackConfirmed(l.store)
      BY <1>2, <2>1, <2>3 DEF Satisfied, Holds
    <2> QED
      BY <1>3, <2>1, <2>4 DEF CallAgrees
  <1>8. ASSUME Current(h)' PROVE CallAgrees(call[h])'
    <2>1. CallAgrees(c)
      BY <1>6, <1>7, <1>8 DEF Current
    <2> QED
      BY <1>5, <1>6, <2>1 DEF CallAgrees, Agreed, ConfirmedAsStored
  <1>9. \A g \in Handles \ {h} : Current(g)' => Current(g) /\ call'[g] = call[g]
    BY <1>5, <1>6 DEF Current
  <1> QED
    BY <1>6, <1>8, <1>9, QuietKeeps

\* A step that leaves the log alone and has nothing to run keeps the agreement.
LEMMA SettledKeeps ==
    ASSUME AgreementInv, NEW h \in Handles, QuietDialogue(h), Settled(call'[h])
    PROVE  AgreementInv'
  <1>1. CallAgrees(call[h])'
    BY DEF CallAgrees, Settled
  <1>2. \A g \in Handles \ {h} : Current(g)' => Current(g) /\ call'[g] = call[g]
    BY DEF QuietDialogue, Current
  <1> QED
    BY <1>1, <1>2, QuietKeeps DEF QuietDialogue

\* What an abandoned dialogue makes of its instances.
LEMMA AbandonSessionCloses ==
    ASSUME SessionInv, AbandonSession
    PROVE  /\ \A j \in Insts :
                /\ ~Running(ledger', j)
                /\ Started(ledger', j) <=> Started(ledger, j)
                /\ ledger'.insts[j].store = ledger.insts[j].store
                /\ ledger'.insts[j].proc = ledger.insts[j].proc
           /\ ~Pending(ledger') /\ ledger'.counter = ledger.counter
           /\ evidence' = evidence /\ check' = check /\ ended'
           /\ \A g \in Handles : ~fresh'[g]
  <1>1. ledger \in Sessions
    BY DEF SessionInv, GoodSession
  <1> DEFINE closing(i) == IF Running(ledger, i)
                           THEN [ledger.insts[i] EXCEPT !.status = "abandoned"]
                           ELSE ledger.insts[i]
             insts == [i \in Insts |-> closing(i)]
  <1>2. ledger' = [ledger EXCEPT !.insts = insts] /\ ~Pending(ledger)
    BY DEF AbandonSession
  <1>3. /\ ledger'.insts = insts /\ ledger'.counter = ledger.counter
        /\ ledger'.intent = ledger.intent /\ ledger'.intentDone = ledger.intentDone
    BY <1>1, <1>2 DEF Sessions
  <1>4. ASSUME NEW j \in Insts
        PROVE  /\ ~Running(ledger', j)
               /\ Started(ledger', j) <=> Started(ledger, j)
               /\ ledger'.insts[j].store = ledger.insts[j].store
               /\ ledger'.insts[j].proc = ledger.insts[j].proc
    <2>1. ledger'.insts[j] = closing(j) /\ ledger.insts[j] \in Instances
      BY <1>1, <1>3, InstanceFields
    <2> QED
      BY <2>1 DEF Instances, Running, Started
  <1>5. ~Pending(ledger')
    BY <1>2, <1>3 DEF Pending
  <1> QED
    BY <1>3, <1>4, <1>5 DEF AbandonSession

LEMMA AbandonSessionKeeps ==
    ASSUME SessionInv, AgreementInv, AbandonSession
    PROVE  AgreementInv'
  <1>1. ASSUME NEW j \in Insts PROVE (AgreedSoFar(j) /\ EvidenceFits(j))'
    <2>1. EvidenceFits(j)
      BY DEF AgreementInv
    <2> QED
      BY <2>1, AbandonSessionCloses DEF AgreedSoFar, EvidenceFits
  <1> QED
    BY <1>1, AbandonSessionCloses DEF AgreementInv, PublishesWhatWasAgreed, Current

\* Nothing has been confirmed, checked or asked for when a session opens.
LEMMA InitAgrees == Init => AgreementInv
  <1> SUFFICES ASSUME Init PROVE AgreementInv
    OBVIOUS
  <1>1. ~Pending(ledger)
    BY DEF Init, NewSession, Pending
  <1>2. ASSUME NEW j \in Insts PROVE AgreedSoFar(j) /\ EvidenceFits(j)
    <2>1. ledger.insts[j] = Unstarted /\ evidence[j] = NoEvidence /\ check[j] = NoCheck
      BY DEF Init, NewSession
    <2>2. Unstarted.status = "unstarted" /\ Unstarted.store.eng.confirmation = None
      BY DEF Unstarted, EmptyEngine
    <2> QED
      BY <2>1, <2>2 DEF AgreedSoFar, EvidenceFits, Running, Started
  <1>3. \A h \in Handles : ~Current(h)
    BY DEF Init, Current
  <1> QED
    BY <1>1, <1>2, <1>3 DEF AgreementInv, PublishesWhatWasAgreed

\* Whatever is asked keeps the agreement.
LEMMA AskKeeps ==
    ASSUME SessionInv, SessionInv', AgreementInv, NEW h \in Handles, Ask(h)
    PROVE  AgreementInv'
  <1>1. CASE \/ Load(h) \/ Note(h) \/ BindBranch(h) \/ ResyncBinding(h)
             \/ \E i \in Insts : Retry(h, i) \/ Park(h, i)
    BY <1>1, AskIsQuiet, SettledKeeps
  <1>2. CASE StartProcedure(h)
    BY <1>2, StartKeeps DEF StartProcedure, Ready, At
  <1>3. ASSUME NEW i \in Insts, Report(h, i) \/ Answer(h, i) \/ Cancel(h, i) \/ Abandon(h, i)
        PROVE  AgreementInv'
    BY <1>3, ReportKeeps, AnswerKeeps, CancelKeeps, AbandonKeeps
  <1> QED
    BY <1>1, <1>2, <1>3 DEF Ask

\* The instance a step of a call is about.
LEMMA CallInstance ==
    ASSUME SessionInv, NEW h \in Handles,
           \/ ReopenPlayback(h) \/ RunOp(h) \/ Advance(h) \/ Move(h) \/ Finish(h)
           \/ RecordIntent(h) \/ RecordOutcome(h) \/ RunCommand(h)
    PROVE  call[h].inst \in Insts
  <1>1. call[h].pc \in {"cascade", "command", "run", "outcome", "move", "finish"}
    BY DEF ReopenPlayback, RunOp, Advance, Move, Finish, RecordIntent, RecordOutcome,
           RunCommand, OnGate, At
  <1> QED
    BY <1>1 DEF SessionInv, CallFits, OnInstance

\* Every step of a call under way keeps the agreement.
LEMMA ProceedKeeps ==
    ASSUME SessionInv, SessionInv', AgreementInv, NEW h \in Handles,
           Proceed(h) \/ Crash(h)
    PROVE  AgreementInv'
  <1>1. CASE \/ CascadeStops(h) \/ VerifyBinding(h) \/ Publish(h) \/ PublishThenFail(h)
             \/ LogPublishedRead(h) \/ CallFails(h) \/ RebindFails(h) \/ Return(h)
             \/ AppendRefused(h) \/ Crash(h)
    BY <1>1, ProceedIsQuiet, SettledKeeps
  <1>2. CASE StartShell(h)
    BY <1>2, StartKeeps DEF StartShell, At
  <1>3. CASE \/ ReopenPlayback(h) \/ RunOp(h) \/ Advance(h) \/ Move(h) \/ Finish(h)
             \/ RecordIntent(h) \/ RecordOutcome(h) \/ RunCommand(h)
    BY <1>3, CallInstance, ReopenPlaybackKeeps, RunOpKeeps, AdvanceKeeps, MoveKeeps,
       FinishKeeps, RecordIntentKeeps, RecordOutcomeKeeps, RunCommandKeeps
  <1> QED
    BY <1>1, <1>2, <1>3 DEF Proceed

LEMMA StutterKeeps == AgreementInv /\ UNCHANGED vars => AgreementInv'
  <1> SUFFICES ASSUME AgreementInv, UNCHANGED vars PROVE AgreementInv'
    OBVIOUS
  <1>1. ASSUME NEW j \in Insts PROVE (AgreedSoFar(j) /\ EvidenceFits(j))'
    BY DEF AgreementInv, AgreedSoFar, EvidenceFits, Running, Started, Agreed,
           ConfirmedAsStored, vars
  <1>2. PublishesWhatWasAgreed'
    BY DEF AgreementInv, PublishesWhatWasAgreed, Pending, vars
  <1>3. (Pending(ledger) /\ ledger.intent.to # None =>
            AnswerFits(ledger.intent.inst, ledger.intent.to))'
    BY DEF AgreementInv, Pending, AnswerFits, Agreed, vars
  <1>4. ASSUME NEW g \in Handles, Current(g)' PROVE CallAgrees(call[g])'
    <2>1. CallAgrees(call[g]) /\ call' = call /\ ledger' = ledger /\ evidence' = evidence
      BY <1>4 DEF AgreementInv, Current, vars
    <2> QED
      BY ONLY <2>1 DEF CallAgrees, Agreed, ConfirmedAsStored
  <1> QED
    BY <1>1, <1>2, <1>3, <1>4 DEF AgreementInv

\* Every step of the specification keeps the agreement.
LEMMA NextKeeps ==
    ASSUME SessionInv, SessionInv', AgreementInv, [Next]_vars PROVE AgreementInv'
  BY AskKeeps, ProceedKeeps, AbandonSessionKeeps, StutterKeeps DEF Next

-----------------------------------------------------------------------------
\* A capture publishes just the draft the user confirmed and the pre-flight
\* looked at, on the branch it looked at, after it passed or was overridden
\* (confirmPlayback, playbackConfirmed, verifyCapturePreflight): whatever was
\* edited, cancelled, retried or raced over in between.
THEOREM CapturesPublishWhatWasAgreed == Held = FALSE => (Spec => []PublishesWhatWasAgreed)
  <1> SUFFICES ASSUME Held = FALSE PROVE Spec => []PublishesWhatWasAgreed
    OBVIOUS
  <1>1. Init => AgreementInv
    BY InitAgrees
  <1>2. SessionInv /\ SessionInv' /\ AgreementInv /\ [Next]_vars => AgreementInv'
    BY NextKeeps
  <1>3. AgreementInv => PublishesWhatWasAgreed
    BY DEF AgreementInv
  <1> QED
    BY <1>1, <1>2, <1>3, SessionInvariant, PTL DEF Spec
-----------------------------------------------------------------------------
(***************************************************************************)
(* The dialogue and its shell.                                             *)
(***************************************************************************)
\* The shells that run.
Shells == {i \in Insts : Running(ledger, i) /\ ShellClass(ledger, i)}

LEMMA ShellsPromise ==
    OneShellUntilTheEnd <=>
        /\ \A i, j \in Shells : i = j
        /\ ledger.counter > 0 => (ended <=> Shells = {})
  BY DEF OneShellUntilTheEnd, Shells

\* An append that ends nothing leaves the shells alone.
LEMMA RewriteKeepsShells ==
    ASSUME ShellInv, NEW h \in Handles, NEW i \in Insts, NEW ev, NEW new, NEW c,
           Rewritten(h, i, ev, new, c), ev.type \notin {"completed", "abandoned"},
           new.proc = ledger.insts[i].proc, new.status = ledger.insts[i].status,
           c.pc # "shell"
    PROVE  ShellInv'
  <1>1. /\ ledger'.insts[i] = new /\ ledger'.counter = ledger.counter
        /\ \A j \in Insts \ {i} : ledger'.insts[j] = ledger.insts[j]
        /\ ~ended /\ ~ended' /\ call'[h] = c /\ \A g \in Handles : fresh'[g] <=> g = h
    BY DEF Rewritten, Appended, ChangesOnly, VerifiedBinding, EndsSession
  <1>2. Shells' = Shells
    BY <1>1 DEF Shells, Running, ShellClass, Started
  <1>3. OneShellUntilTheEnd'
    BY <1>1, <1>2, ShellsPromise DEF ShellInv, OneShellUntilTheEnd, Shells
  <1> QED
    BY <1>1, <1>3 DEF ShellInv, At

\* The shell's end is the dialogue's.
LEMMA EndKeepsShells ==
    ASSUME SessionInv, ShellInv, NEW h \in Handles, NEW i \in Insts, NEW ev, NEW c,
           Rewritten(h, i, ev, [ledger.insts[i] EXCEPT !.status = ev.type], c),
           ev.type \in {"completed", "abandoned"}, Running(ledger, i), c.pc # "shell"
    PROVE  ShellInv'
  <1>1. /\ ledger'.insts[i] = [ledger.insts[i] EXCEPT !.status = ev.type]
        /\ ledger'.counter = ledger.counter
        /\ \A j \in Insts \ {i} : ledger'.insts[j] = ledger.insts[j]
        /\ ~ended /\ (ended' <=> ShellClass(ledger, i))
        /\ call'[h] = c /\ \A g \in Handles : fresh'[g] <=> g = h
    BY DEF Rewritten, Appended, ChangesOnly, VerifiedBinding, EndsSession
  <1>2. ledger.insts[i] \in Instances
    BY RunsWell
  <1>3. ledger'.insts[i].status = ev.type
    BY <1>1, <1>2 DEF Instances
  <1>4. Shells' = Shells \ {i}
    <2>1. i \notin Shells'
      BY <1>3 DEF Shells, Running
    <2>2. \A j \in Insts \ {i} : j \in Shells' <=> j \in Shells
      BY <1>1 DEF Shells, Running, ShellClass, Started
    <2>3. Shells' \subseteq Insts /\ Shells \subseteq Insts
      BY DEF Shells
    <2> QED
      BY <2>1, <2>2, <2>3
  <1>5. /\ \A j, k \in Shells : j = k
        /\ ledger.counter > 0 => Shells # {}
        /\ i \in Shells <=> ShellClass(ledger, i)
    BY <1>1 DEF ShellInv, OneShellUntilTheEnd, Shells
  <1>6. OneShellUntilTheEnd'
    BY <1>1, <1>4, <1>5 DEF OneShellUntilTheEnd, Shells
  <1> QED
    BY <1>1, <1>6 DEF ShellInv, At

\* A start is the dialogue's first, of its shell, or another's below it.
LEMMA StartKeepsShells ==
    ASSUME SessionInv, SessionInv', ShellInv, NEW h \in Handles, NEW proc \in Procs,
           NEW parent \in Insts \cup {None}, NEW opening \in BOOLEAN,
           Start(h, proc, parent, opening),
           \/ call[h].pc = "shell" /\ Specs[proc].class = "shell"
           \/ Ready(h) /\ Specs[proc].class # "shell"
    PROVE  ShellInv'
  <1>1. call[h].pc \in {"shell", "idle"} /\ fresh[h] /\ ~ended
    BY DEF Ready, At, Start, Log, AppendEvent, VerifiedBinding
  <1>2. PICK i, ev, values :
            /\ i \in Insts
            /\ Begun(h, i, ev, Fresh(proc, parent, Specs[proc].first, values),
                     [CallOn(i) EXCEPT !.opening = opening])
            /\ ev.type = "started"
    BY <1>1, StartBegins
  <1> DEFINE new == Fresh(proc, parent, Specs[proc].first, values)
             c == [CallOn(i) EXCEPT !.opening = opening]
  <1>3. new.proc = proc /\ new.status = "running" /\ c.pc # "shell"
    BY DEF Fresh, CallOn, NoCall
  <1> HIDE DEF new, c
  <1>4. /\ ledger'.insts[i] = new /\ ~Started(ledger, i)
        /\ ledger'.counter = i /\ i = ledger.counter + 1
        /\ \A j \in Insts \ {i} : ledger'.insts[j] = ledger.insts[j]
        /\ ~ended' /\ call'[h] = c /\ \A g \in Handles : fresh'[g] <=> g = h
    BY <1>2 DEF Begun, Appended, ChangesOnly, EndsSession, new, c
  <1>5. Shells' = IF Specs[proc].class = "shell" THEN Shells \cup {i} ELSE Shells
    BY <1>2, <1>3, <1>4 DEF Shells, Running, ShellClass, Started
  <1>6. CASE call[h].pc = "shell" /\ Specs[proc].class = "shell"
    <2>1. ledger.counter = 0
      BY <1>1, <1>6 DEF ShellInv, At
    <2>2. \A j \in Insts : j > 0
      BY DEF Insts
    <2>3. Shells = {}
      BY <2>1, <2>2 DEF Shells, SessionInv, GoodSession, Running, Started
    <2>4. Shells' = {i}
      BY <1>5, <1>6, <2>3
    <2>5. OneShellUntilTheEnd'
      BY <1>4, <2>4 DEF OneShellUntilTheEnd, Shells
    <2> QED
      BY <1>3, <1>4, <2>5 DEF ShellInv, At
  <1>7. CASE Ready(h) /\ Specs[proc].class # "shell"
    <2>1. Agrees(h) /\ Current(h)
      BY <1>1, <1>7 DEF SessionInv, Current, Ready, At
    <2>2. SameSession(mem[h], ledger, call[h]) /\ mem[h] \in Sessions /\ ledger \in Sessions
      BY <2>1 DEF Agrees, SessionInv, GoodSession
    <2>3. PICK j \in Insts : Running(mem[h], j) /\ ShellClass(mem[h], j)
      BY <1>7 DEF Ready, RunningShell
    <2>4. Running(ledger, j) /\ ShellClass(ledger, j)
      BY <2>2, <2>3, SameFields DEF Running, ShellClass, Started
    <2>5. Shells # {} /\ Shells' = Shells /\ \A k, l \in Shells : k = l
      BY <1>5, <1>7, <2>4 DEF ShellInv, OneShellUntilTheEnd, Shells
    <2>6. OneShellUntilTheEnd'
      BY <1>4, <2>5 DEF OneShellUntilTheEnd, Shells
    <2> QED
      BY <1>3, <1>4, <2>6 DEF ShellInv, At
  <1> QED
    BY <1>6, <1>7
\* A cancellation closes no shell: a gate's own operation is not a shell's, an
\* answered one goes back to its answer.
LEMMA CancelKeepsShells ==
    ASSUME SessionInv, SessionInv', AgreementInv, ShellInv,
           NEW h \in Handles, NEW i \in Insts, Cancel(h, i)
    PROVE  ShellInv'
  <1> DEFINE l == ledger.insts[i]
  <1>1. PICK ev :
            /\ Rewritten(h, i, ev, Returned(l), NoCall("done"))
            /\ ev.type = "cancelled" /\ Running(ledger, i)
            /\ Pending(ledger) /\ ledger.intent.inst = i /\ UnfinishedFinds(ledger)
    BY CancelRewrites
  <1>2. NoCall("done").pc = "done"
    BY DEF NoCall
  <1>3. /\ l \in Instances /\ l.proc \in Procs /\ l.step \in StepsOf(l.proc)
        /\ StepOf(l) = SpecStep(l.proc, l.step)
    BY <1>1, RunsWell
  <1>4. CASE l.interactionStep # None
    <2>1. Returned(l).proc = l.proc /\ Returned(l).status = l.status
      BY <1>3, <1>4 DEF Returned, Instances
    <2> QED
      BY <1>1, <1>2, <2>1, RewriteKeepsShells
  <1>5. CASE l.interactionStep = None
    <2>1. ledger.intent.to = None
      <3>1. ledger.intent.to # None => l.interactionStep = l.step
        BY <1>1 DEF AgreementInv, AnswerFits
      <3>2. l.step # None
        BY <1>3, SpecsAssumption, EngineAssumption
      <3> QED
        BY <1>5, <3>1, <3>2
    <2>2. StepOf(l).op = ledger.intent.command
      BY <1>1, <2>1 DEF UnfinishedFinds
    <2>3. ledger.intent.command \in Prepared
      BY <1>1 DEF SessionInv, GoodSession, GoodIntent, Pending
    <2>4. Specs[l.proc].class # "shell"
      BY <1>3, <2>2, <2>3, ShellAssumption
    <2>5. Returned(l).proc = l.proc /\ Returned(l).status = "abandoned"
      BY <1>3, <1>5 DEF Returned, Instances
    <2> DEFINE new == Returned(l)
    <2>6. new.proc = l.proc /\ new.status # "running"
      BY <2>5
    <2> HIDE DEF new
    <2>7. /\ ledger'.insts[i] = new /\ ledger'.counter = ledger.counter
          /\ \A j \in Insts \ {i} : ledger'.insts[j] = ledger.insts[j]
          /\ ~ended /\ ~ended' /\ call'[h].pc # "shell"
          /\ \A g \in Handles : fresh'[g] <=> g = h
      BY <1>1, <1>2 DEF Rewritten, Appended, ChangesOnly, VerifiedBinding, EndsSession, new
    <2>8. Shells' = Shells
      BY <2>4, <2>6, <2>7 DEF Shells, Running, ShellClass, Started
    <2>9. OneShellUntilTheEnd'
      BY <2>7, <2>8 DEF ShellInv, OneShellUntilTheEnd, Shells
    <2> QED
      BY <2>7, <2>9 DEF ShellInv, At
  <1> QED
    BY <1>4, <1>5

\* A step that leaves the log alone finds no shell only before the first.
LEMMA QuietKeepsShells ==
    ASSUME SessionInv, ShellInv, NEW h \in Handles, QuietDialogue(h) PROVE ShellInv'
  <1>1. /\ ledger' = ledger /\ ended' = ended
        /\ \A g \in Handles \ {h} : call'[g] = call[g] /\ (fresh'[g] => fresh[g])
        /\ call'[h].pc = "shell" => ~RunningShell(ledger)
    BY DEF QuietDialogue
  <1>2. OneShellUntilTheEnd'
    BY <1>1 DEF ShellInv, OneShellUntilTheEnd, Running, ShellClass, Started
  <1>3. ledger.counter \in Nat
    BY EngineAssumption DEF SessionInv, GoodSession, Sessions
  <1>4. ~RunningShell(ledger) /\ ~ended => ledger.counter = 0
    BY <1>3 DEF RunningShell, ShellInv, OneShellUntilTheEnd
  <1> QED
    BY <1>1, <1>2, <1>4 DEF ShellInv, At

\* RunOp has a command to run and is quiet all the same.
LEMMA RunOpIsQuiet ==
    ASSUME SessionInv, NEW h \in Handles, RunOp(h) PROVE QuietDialogue(h)
  <1> DEFINE i == call[h].inst
             c == CommandCall(i, StepOf(mem[h].insts[i]).op, None)
  <1>1. Go(h, c)
    BY DEF RunOp
  <1>2. c.pc # "shell"
    BY DEF CommandCall, NoCall
  <1> HIDE DEF c
  <1> QED
    BY <1>1, <1>2, GoIsQuiet

\* Recording an operation moves no instance.
LEMMA RecordKeepsShells ==
    ASSUME SessionInv, SessionInv', ShellInv, NEW h \in Handles, NEW i \in Insts,
           call[h].inst = i, RecordIntent(h)
    PROVE  ShellInv'
  <1> DEFINE c == [call[h] EXCEPT !.pc = "verify"]
             target == IntentBranch(call[h].fn, ledger.insts[i].store, Target(h, i))
  <1>1. RecordedOver(h, i, call[h].fn, call[h].to, target, c)
    BY RecordIntentRecords
  <1>2. call[h] \in Calls
    BY DEF SessionInv, TypeOK
  <1>3. c.pc = "verify"
    BY <1>2 DEF Calls
  <1> HIDE DEF c, target
  <1>4. /\ ledger'.insts = ledger.insts /\ ledger'.counter = ledger.counter
        /\ ~ended' /\ call'[h] = c /\ \A g \in Handles : fresh'[g] <=> g = h
    BY <1>1 DEF RecordedOver
  <1>5. ~ended
    BY DEF RecordIntent, Log, AppendEvent, VerifiedBinding
  <1>6. OneShellUntilTheEnd'
    BY <1>4, <1>5 DEF ShellInv, OneShellUntilTheEnd, Running, ShellClass, Started
  <1> QED
    BY <1>3, <1>4, <1>6 DEF ShellInv, At

\* Abandoning the session ends the shell with everything else.
LEMMA AbandonSessionKeepsShells ==
    ASSUME SessionInv, AbandonSession PROVE ShellInv'
  BY AbandonSessionCloses DEF ShellInv, OneShellUntilTheEnd

\* Whatever is asked keeps the shell.
LEMMA AskKeepsShells ==
    ASSUME SessionInv, SessionInv', AgreementInv, ShellInv, NEW h \in Handles, Ask(h)
    PROVE  ShellInv'
  <1>1. CASE \/ Load(h) \/ Note(h) \/ BindBranch(h) \/ ResyncBinding(h)
             \/ \E i \in Insts : Retry(h, i) \/ Park(h, i)
    BY <1>1, AskIsQuiet, QuietKeepsShells
  <1>2. CASE StartProcedure(h)
    BY <1>2, StartKeepsShells DEF StartProcedure
  <1>3. ASSUME NEW i \in Insts, Cancel(h, i) PROVE ShellInv'
    BY <1>3, CancelKeepsShells
  <1>4. ASSUME NEW i \in Insts, Report(h, i) PROVE ShellInv'
    <2>1. PICK ev, fields :
            /\ Rewritten(h, i, ev, Reported(ledger.insts[i], fields), CallOn(i))
            /\ ev.type = "report" /\ Running(ledger, i)
      BY <1>4, ReportRewrites
    <2>2. ledger.insts[i] \in Instances
      BY <2>1, RunsWell
    <2> DEFINE new == Reported(ledger.insts[i], fields)
    <2>3. new.proc = ledger.insts[i].proc /\ new.status = ledger.insts[i].status
      BY <2>2 DEF Reported, Instances
    <2>4. CallOn(i).pc = "cascade"
      BY DEF CallOn, NoCall
    <2> HIDE DEF new
    <2> QED
      BY <2>1, <2>3, <2>4, RewriteKeepsShells DEF new
  <1>5. ASSUME NEW i \in Insts, Answer(h, i) PROVE ShellInv'
    <2> DEFINE l == ledger.insts[i]
    <2>1. PICK ev, o, fields :
            /\ Rewritten(h, i, ev, Answered(l, fields, RecordDispatchSeed(o)), AnswerCall(i, o))
            /\ ev.type = "chooser_answer" /\ Running(ledger, i)
      BY <1>5, AnswerRewrites
    <2>2. l \in Instances
      BY <2>1, RunsWell
    <2> DEFINE new == Answered(l, fields, RecordDispatchSeed(o))
               c == AnswerCall(i, o)
    <2>3. new.proc = l.proc /\ new.status = l.status
      BY <2>2 DEF Answered, Instances
    <2>4. c.pc # "shell"
      BY DEF AnswerCall, MoveCall, CommandCall, NoCall
    <2>5. Rewritten(h, i, ev, new, c) /\ ev.type \notin {"completed", "abandoned"}
      BY <2>1
    <2> HIDE DEF new, c
    <2> QED
      BY <2>3, <2>4, <2>5, RewriteKeepsShells
  <1>6. ASSUME NEW i \in Insts, Abandon(h, i) PROVE ShellInv'
    <2> DEFINE ev == EndEvent(i, EndAbandoned)
               c == NoCall("done")
    <2>1. PICK m : Log(h, ev, m, c)
      BY <1>6 DEF Abandon
    <2>2. ev.inst = i /\ ev.type \in {"completed", "abandoned"} /\ c.pc = "done"
      BY DEF EndEvent, NoCall
    <2>3. call[h].pc = "idle" /\ Running(mem[h], i) /\ ~Pending(mem[h])
      BY <1>6 DEF Abandon, At, CheckProgression
    <2> HIDE DEF ev, c
    <2> QED
      BY <2>1, <2>2, <2>3, EndRewrites, EndKeepsShells
  <1> QED
    BY <1>1, <1>2, <1>3, <1>4, <1>5, <1>6 DEF Ask
\* A finished command's instance runs on, or rests, as it did.
LEMMA FinishedKeepsShells ==
    ASSUME SessionInv, ShellInv, NEW h \in Handles, NEW i \in Insts, NEW ev, NEW fn, NEW w,
           NEW c, Rewritten(h, i, ev, Finished(ledger.insts[i], fn, w), c),
           ev.type \in {"op_result", "mutation_outcome"}, c.pc # "shell"
    PROVE  ShellInv'
  <1>1. ledger.insts[i] \in Instances
    BY InstanceFields DEF SessionInv, GoodSession
  <1> DEFINE new == Finished(ledger.insts[i], fn, w)
  <1>2. new.proc = ledger.insts[i].proc /\ new.status = ledger.insts[i].status
    BY <1>1, FinishedFields
  <1> HIDE DEF new
  <1> QED
    BY <1>2, RewriteKeepsShells DEF new

\* A transition moves an instance within its procedure.
LEMMA TransitionKeepsShells ==
    ASSUME SessionInv, SessionInv', ShellInv, NEW h \in Handles, NEW i \in Insts,
           NEW to, NEW m, NEW c,
           call[h].pc \in {"cascade", "move"}, Running(mem[h], i), ~Pending(mem[h]),
           Log(h, TransitionEvent(i, to), m, c), c.pc # "shell"
    PROVE  ShellInv'
  <1>1. PICK ev : Rewritten(h, i, ev, Brought(ledger.insts[i], to), c) /\ ev.type = "transition"
    BY TransitionRewrites
  <1>2. ledger.insts[i] \in Instances
    BY InstanceFields DEF SessionInv, GoodSession
  <1> DEFINE new == Brought(ledger.insts[i], to)
  <1>3. new.proc = ledger.insts[i].proc /\ new.status = ledger.insts[i].status
    BY <1>2 DEF Brought, Instances
  <1> HIDE DEF new
  <1> QED
    BY <1>1, <1>3, RewriteKeepsShells DEF new

LEMMA AfterMoveRests == \A i, to : AfterMove(i, to).pc # "shell"
  BY DEF AfterMove, CallOn, NoCall

LEMMA AfterCommandRests == \A c : AfterCommand(c).pc # "shell"
  BY DEF AfterCommand, MoveCall, CallOn, NoCall

\* Every step of a call under way keeps the shell.
LEMMA ProceedKeepsShells ==
    ASSUME SessionInv, SessionInv', ShellInv, NEW h \in Handles, Proceed(h) \/ Crash(h)
    PROVE  ShellInv'
  <1>1. CASE \/ CascadeStops(h) \/ VerifyBinding(h) \/ Publish(h) \/ PublishThenFail(h)
             \/ LogPublishedRead(h) \/ CallFails(h) \/ RebindFails(h) \/ Return(h)
             \/ AppendRefused(h) \/ Crash(h)
    BY <1>1, ProceedIsQuiet, QuietKeepsShells
  <1>2. CASE StartShell(h)
    BY <1>2, StartKeepsShells DEF StartShell, At
  <1>3. CASE RunOp(h)
    BY <1>3, RunOpIsQuiet, QuietKeepsShells
  <1>4. CASE RecordIntent(h)
    BY <1>4, CallInstance, RecordKeepsShells
  <1>5. CASE RecordOutcome(h)
    <2>1. call[h].inst \in Insts
      BY <1>5, CallInstance
    <2>2. PICK ev, w :
            /\ Rewritten(h, call[h].inst, ev, Finished(ledger.insts[call[h].inst], call[h].fn, w),
                         AfterCommand(call[h]))
            /\ ev.type = "mutation_outcome"
      BY <1>5, <2>1, RecordOutcomeRewrites
    <2> QED
      BY <2>1, <2>2, AfterCommandRests, FinishedKeepsShells
  <1>6. CASE RunCommand(h)
    <2>1. call[h].inst \in Insts
      BY <1>6, CallInstance
    <2>2. PICK ev, w :
            /\ Rewritten(h, call[h].inst, ev, Finished(ledger.insts[call[h].inst], call[h].fn, w),
                         AfterCommand(call[h]))
            /\ ev.type = "op_result"
      BY <1>6, <2>1, RunCommandRewrites
    <2> QED
      BY <2>1, <2>2, AfterCommandRests, FinishedKeepsShells
  <1>7. CASE ReopenPlayback(h)
    <2> DEFINE i == call[h].inst
               c == MoveCall(i, ledger.insts[i].store.eng.confirmation.step)
               w == [confirmation |-> None]
    <2>1. i \in Insts
      BY <1>7, CallInstance
    <2>2. PICK ev : /\ Rewritten(h, i, ev, Finished(ledger.insts[i], "reopenPlayback", w), c)
                    /\ ev.type = "op_result"
      BY <1>7, <2>1, ReopenPlaybackRewrites
    <2>3. c.pc # "shell"
      BY DEF MoveCall, NoCall
    <2> HIDE DEF c, w
    <2> QED
      BY <2>1, <2>2, <2>3, FinishedKeepsShells
  <1>8. CASE Advance(h)
    <2> DEFINE i == call[h].inst
    <2>1. i \in Insts
      BY <1>8, CallInstance
    <2>2. call[h].pc = "cascade" /\ Running(mem[h], i)
      BY <1>8 DEF Advance, OnGate
    <2>3. ~Pending(mem[h])
      BY <2>2 DEF SessionInv, CallFits
    <2>4. PICK to, m : Log(h, TransitionEvent(i, to), m, AfterMove(i, to))
      BY <1>8 DEF Advance
    <2> QED
      BY <2>1, <2>2, <2>3, <2>4, AfterMoveRests, TransitionKeepsShells
  <1>9. CASE Move(h)
    <2> DEFINE i == call[h].inst
               to == call[h].to
    <2>1. i \in Insts
      BY <1>9, CallInstance
    <2>2. call[h].pc = "move"
      BY <1>9 DEF Move, At
    <2>3. ~Pending(mem[h]) /\ Running(mem[h], i)
      BY <2>2 DEF SessionInv, CallFits
    <2>4. PICK m : Log(h, TransitionEvent(i, to), m, AfterMove(i, to))
      BY <1>9 DEF Move
    <2> QED
      BY <2>1, <2>2, <2>3, <2>4, AfterMoveRests, TransitionKeepsShells
  <1>10. CASE Finish(h)
    <2> DEFINE i == call[h].inst
               ev == EndEvent(i, call[h].to)
               c == CallOn(i)
    <2>1. i \in Insts
      BY <1>10, CallInstance
    <2>2. PICK m : Log(h, ev, m, c) /\ call[h].pc = "finish"
      BY <1>10 DEF Finish, At
    <2>3. ~Pending(mem[h]) /\ Running(mem[h], i)
      BY <2>2 DEF SessionInv, CallFits
    <2>4. ev.inst = i /\ ev.type \in {"completed", "abandoned"} /\ c.pc = "cascade"
      BY DEF EndEvent, CallOn, NoCall
    <2> HIDE DEF ev, c, i
    <2> QED
      BY <2>1, <2>2, <2>3, <2>4, EndRewrites, EndKeepsShells
  <1> QED
    BY <1>1, <1>2, <1>3, <1>4, <1>5, <1>6, <1>7, <1>8, <1>9, <1>10 DEF Proceed

\* Every step of the specification keeps the shell.
LEMMA NextKeepsShells ==
    ASSUME SessionInv, SessionInv', AgreementInv, ShellInv, [Next]_vars PROVE ShellInv'
  <1>1. CASE UNCHANGED vars
    BY <1>1 DEF vars, ShellInv, OneShellUntilTheEnd, Running, ShellClass, Started, At
  <1>2. CASE Next
    BY <1>2, AskKeepsShells, ProceedKeepsShells, AbandonSessionKeepsShells DEF Next
  <1> QED
    BY <1>1, <1>2

-----------------------------------------------------------------------------
\* A dialogue that has begun has exactly one running shell until it ends, and
\* none after (ensureShell, the terminal record of appendStoredEvents): of
\* handles that race to start it the first wins, whoever ends it ends the
\* session with it, and no cancellation or failure leaves it without.
THEOREM DialogueHasOneShell == Held = FALSE => (Spec => []OneShellUntilTheEnd)
  <1> SUFFICES ASSUME Held = FALSE PROVE Spec => []OneShellUntilTheEnd
    OBVIOUS
  <1>1. Init => AgreementInv
    BY InitAgrees
  <1>2. Init => ShellInv
    BY DEF Init, NewSession, Unstarted, ShellInv, OneShellUntilTheEnd, Running
  <1>3. SessionInv /\ SessionInv' /\ AgreementInv /\ [Next]_vars => AgreementInv'
    BY NextKeeps
  <1>4. SessionInv /\ SessionInv' /\ AgreementInv /\ ShellInv /\ [Next]_vars => ShellInv'
    BY NextKeepsShells
  <1>5. ShellInv => OneShellUntilTheEnd
    BY DEF ShellInv
  <1> QED
    BY <1>1, <1>2, <1>3, <1>4, <1>5, SessionInvariant, PTL DEF Spec
=============================================================================
