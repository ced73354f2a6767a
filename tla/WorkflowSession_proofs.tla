------------------------ MODULE WorkflowSession_proofs ------------------------
(***************************************************************************)
(* Proofs about a workflow session: SessionInv (module SessionInvariants)  *)
(* is inductive under Held = FALSE, and the promises of WorkflowProperties *)
(* that follow from it.  One lemma per action says that it preserves the   *)
(* invariant; most of them rest on LogPreserves, which reduces a step that *)
(* appends an event to three questions: does the fold take the event, is   *)
(* the live session good afterwards, and is it what the fold makes of the  *)
(* log.                                                                    *)
(***************************************************************************)
EXTENDS SessionInvariants, TLAPS

USE EngineAssumption, NoneAssumption DEF Insts, Refs

-----------------------------------------------------------------------------
\* Writing typed fields into a state leaves a state (WriteState).
LEMMA WriteStateType ==
    ASSUME NEW state \in States, NEW fields,
           DOMAIN fields \subseteq StateFields,
           \A f \in DOMAIN fields : fields[f] \in Values \cup {None}
    PROVE  WriteState(state, fields) \in States
  BY DEF WriteState, States

\* What a report or an answer may write is typed.
LEMMA FieldWritesType ==
    ASSUME NEW d \in SUBSET StateFields, NEW fields \in FieldWrites(d)
    PROVE  /\ DOMAIN fields \subseteq StateFields
           /\ \A f \in DOMAIN fields : fields[f] \in Values \cup {None}
  BY DEF FieldWrites

\* A new instance's stores are typed.
LEMMA EmptyTypes == EmptyState \in States /\ EmptyEngine \in EngineValues
  BY DEF EmptyState, EmptyEngine, States, EngineValues

\* An instance nobody started is typed.
LEMMA InstanceTypes ==
    Unstarted \in Instances
  BY EmptyTypes DEF Unstarted, Instances, Stores, NoSeed, Seeds, Statuses

WritesTyped(w) ==
    /\ DOMAIN w \subseteq DOMAIN EmptyEngine
    /\ "confirmation" \in DOMAIN w => w.confirmation \in {None} \cup Confirmations
    /\ "findings" \in DOMAIN w => w.findings \in {None, "clean", "high"}
    /\ "override" \in DOMAIN w => w.override \in {None, "yes"}
    /\ "branch" \in DOMAIN w => w.branch \in {None} \cup Values
    /\ "entry" \in DOMAIN w => w.entry \in {None} \cup Refs
    /\ "guide" \in DOMAIN w => w.guide \in {None, "clean", "findings"}
    /\ "reviewed" \in DOMAIN w => w.reviewed \in {None, "yes"}
    /\ "marker" \in DOMAIN w => w.marker \in {None} \cup Refs

\* Importing typed engine writes leaves typed engine values (WriteEngine).
LEMMA ImportWritesType ==
    ASSUME NEW eng \in EngineValues, NEW w, WritesTyped(w)
    PROVE  ImportWrites(eng, w) \in EngineValues
  BY DEF ImportWrites, Written, WritesTyped, EngineValues

\* An instance always has a branch to write to (effectiveTargetSource).
LEMMA EffectiveTargetType ==
    ASSUME NEW store \in Stores, NEW b \in Branches \cup {None}
    PROVE  EffectiveTarget(store, b) \in Values
  BY BaseAssumption DEF EffectiveTarget, Has, Stores, States, EngineValues

\* Whatever a command answers is typed, whichever command it is.
LEMMA WritesType ==
    ASSUME NEW store \in Stores, NEW step \in Steps, NEW target \in Values \cup {None},
           NEW ref \in Refs \cup {None}, NEW command \in Commands,
           command \in Prepared => ref \in Refs,
           NEW w \in Writes(command, store, step, ref, target)
    PROVE  WritesTyped(w)
  BY CommandsAssumption DEF WorkflowCommands, Writes, WritesTyped, Stores, Confirmations, Prepared, NoWrites, EmptyEngine

-----------------------------------------------------------------------------
\* The instances of a session are instances.
LEMMA InstanceFields ==
    ASSUME NEW s \in Sessions, NEW i \in Insts
    PROVE  s.insts[i] \in Instances
  BY DEF Sessions

\* s with one instance replaced and the cancellation mark set.
Replaced(s, i, new, mark) == [s EXCEPT !.insts[i] = new, !.cancelled = mark]

\* Replacing one instance by one of the same procedure, while no operation
\* is unfinished, leaves a good session good.
LEMMA ReplaceGood ==
    ASSUME NEW s, GoodSession(s), ~Pending(s),
           NEW i \in Insts, Started(s, i),
           NEW new \in Instances, new.status # "unstarted",
           new.proc = s.insts[i].proc, GoodInstance(new),
           NEW mark \in {None} \cup Cancellations
    PROVE  /\ GoodSession(Replaced(s, i, new, mark))
           /\ ~Pending(Replaced(s, i, new, mark))
  <1> DEFINE t == Replaced(s, i, new, mark)
  <1>1. s \in Sessions
    BY DEF GoodSession
  <1>2. t \in Sessions
    BY <1>1 DEF Replaced, Sessions
  <1>3. /\ t.insts = [s.insts EXCEPT ![i] = new] /\ t.counter = s.counter
        /\ t.intent = s.intent /\ t.intentDone = s.intentDone
        /\ s.insts \in [Insts -> Instances]
    BY <1>1 DEF Replaced, Sessions
  <1>4. ~Pending(t)
    BY <1>3 DEF Pending
  <1>5. \A j \in Insts : GoodInstance(t.insts[j])
    BY <1>3 DEF GoodSession
  <1>6. \A j \in Insts : j > t.counter => ~Started(t, j)
    BY <1>3 DEF GoodSession, Started
  <1>7. \A j \in Insts : Started(s, j) => Started(t, j) /\ t.insts[j].proc = s.insts[j].proc
    BY <1>3 DEF Started
  <1>8. t.intent # None => t.intent.inst \in Insts
    BY <1>1, <1>3 DEF Sessions, Intents
  <1>9. GoodIntent(t)
    BY <1>3, <1>4, <1>7, <1>8 DEF GoodSession, GoodIntent
  <1> QED
    BY <1>2, <1>4, <1>5, <1>6, <1>9 DEF GoodSession

\* A live session and the replayed one stay the same when the same instance
\* of both is replaced by instances alike but for opDone that no longer matters.
LEMMA ReplaceSame ==
    ASSUME NEW m \in Sessions, NEW s \in Sessions, NEW c, SameSession(m, s, c),
           NEW i \in Insts, NEW newM \in Instances, NEW newS \in Instances,
           [newM EXCEPT !.opDone = FALSE] = [newS EXCEPT !.opDone = FALSE],
           NEW mark, NEW d,
           c.pc \in {"move", "finish"} => c.inst = i,
           \/ newM.opDone = newS.opDone
           \/ newS.status # "running"
           \/ d.inst = i /\ d.pc \in {"move", "finish"}
    PROVE  SameSession(Replaced(m, i, newM, mark), Replaced(s, i, newS, mark), d)
  <1> DEFINE u == Replaced(m, i, newM, mark)
             t == Replaced(s, i, newS, mark)
  <1>1. /\ u.insts = [m.insts EXCEPT ![i] = newM] /\ t.insts = [s.insts EXCEPT ![i] = newS]
        /\ u.counter = m.counter /\ t.counter = s.counter
        /\ u.intent = m.intent /\ t.intent = s.intent
        /\ u.intentStore = m.intentStore /\ t.intentStore = s.intentStore
        /\ u.intentDone = m.intentDone /\ t.intentDone = s.intentDone
        /\ u.cancelled = mark /\ t.cancelled = mark
        /\ m.insts \in [Insts -> Instances] /\ s.insts \in [Insts -> Instances]
    BY DEF Replaced, Sessions
  <1>2. ASSUME NEW j \in Insts
        PROVE  /\ [u.insts[j] EXCEPT !.opDone = FALSE] = [t.insts[j] EXCEPT !.opDone = FALSE]
               /\ OpDoneMatters(t, d, j) => u.insts[j].opDone = t.insts[j].opDone
    <2>1. CASE j = i
      BY <1>1, <2>1 DEF OpDoneMatters, Running
    <2>2. CASE j # i
      <3>1. u.insts[j] = m.insts[j] /\ t.insts[j] = s.insts[j]
        BY <1>1, <2>2
      <3>2. OpDoneMatters(t, d, j) => OpDoneMatters(s, c, j)
        BY <2>2, <3>1 DEF OpDoneMatters, Running
      <3> QED
        BY <3>1, <3>2 DEF SameSession
    <2> QED
      BY <2>1, <2>2
  <1> QED
    BY <1>1, <1>2 DEF SameSession

\* A live session that is the replayed one has its instances' fields, opDone
\* apart, and the same operation pending.
LEMMA SameFields ==
    ASSUME NEW m \in Sessions, NEW s \in Sessions, NEW c, SameSession(m, s, c),
           NEW i \in Insts
    PROVE  /\ m.insts[i].proc = s.insts[i].proc
           /\ m.insts[i].parent = s.insts[i].parent
           /\ m.insts[i].store = s.insts[i].store
           /\ m.insts[i].step = s.insts[i].step
           /\ m.insts[i].status = s.insts[i].status
           /\ m.insts[i].interactionStep = s.insts[i].interactionStep
           /\ m.insts[i].seed = s.insts[i].seed
           /\ Running(m, i) <=> Running(s, i)
           /\ Started(m, i) <=> Started(s, i)
           /\ Pending(m) <=> Pending(s)
  <1>1. m.insts[i] \in Instances /\ s.insts[i] \in Instances
    BY InstanceFields
  <1>2. [m.insts[i] EXCEPT !.opDone = FALSE] = [s.insts[i] EXCEPT !.opDone = FALSE]
    BY DEF SameSession
  <1>3. /\ m.insts[i].proc = s.insts[i].proc
        /\ m.insts[i].parent = s.insts[i].parent
        /\ m.insts[i].store = s.insts[i].store
        /\ m.insts[i].step = s.insts[i].step
        /\ m.insts[i].status = s.insts[i].status
        /\ m.insts[i].interactionStep = s.insts[i].interactionStep
        /\ m.insts[i].seed = s.insts[i].seed
    BY <1>1, <1>2 DEF Instances
  <1> QED
    BY <1>3 DEF SameSession, Running, Started, Pending

-----------------------------------------------------------------------------
\* What an appended event brings to the state kept beside the sessions.
EventFits(ev) ==
    /\ ev.type # "note" => ev.inst \in Insts
    /\ ev.type = "op_result" /\ ev.command = "preflightEntry" =>
            ev.writes.branch \in Values \cup {None}
    /\ ev.type \in {"mutation_intent", "mutation_outcome", "cancelled"} => ev.ref \in Refs

\* The pre-flight verdict folded over one more event is typed
\* (capturePreflightState).
LEMMA CheckAfterType ==
    ASSUME NEW c \in Checks, NEW ev, EventFits(ev)
    PROVE  CheckAfter(c, ev) \in Checks
  <1>1. CASE ev.type \in {"report", "chooser_answer"}
    BY <1>1 DEF CheckAfter, Checks
  <1>2. CASE ev.type = "op_result" /\ ev.command = "preflightEntry"
    BY <1>2 DEF CheckAfter, Checks, EventFits
  <1>3. CASE ev.type = "op_result" /\ ev.command = "recordOverride"
    BY <1>3 DEF CheckAfter, Checks
  <1>4. CASE /\ ev.type \notin {"report", "chooser_answer"}
             /\ ~(ev.type = "op_result" /\ ev.command \in {"preflightEntry", "recordOverride"})
    BY <1>4 DEF CheckAfter, Checks
  <1> QED
    BY <1>1, <1>2, <1>3, <1>4

\* The history of an instance stays typed over one more event.
LEMMA EvidenceAfterType ==
    ASSUME NEW e \in Evidences, NEW inst \in Instances, NEW ev, EventFits(ev)
    PROVE  EvidenceAfter(e, inst, ev) \in Evidences
  <1> DEFINE calls(fn) == /\ ev.type = "chooser_answer"
                          /\ \E o \in SpecStep(inst.proc, ev.chooser).options :
                                 o.choice = ev.choice /\ o.call = fn
  <1>1. inst.store.state \in States
    BY DEF Instances, Stores
  <1>2. NoEvidence \in Evidences
    BY DEF NoEvidence, Evidences
  <1> DEFINE a == [e EXCEPT !.confirmed = inst.store.state]
             b == [e EXCEPT !.passed = TRUE]
             d == [e EXCEPT !.checked = inst.store.state, !.branch = ev.writes.branch,
                            !.passed = ev.writes.findings = "clean"]
  <1>3. a \in Evidences /\ b \in Evidences
    BY <1>1 DEF Evidences
  <1>4. ev.type = "op_result" /\ ev.command = "preflightEntry" => d \in Evidences
    BY <1>1 DEF Evidences, EventFits
  <1>5. EvidenceAfter(e, inst, ev) =
            CASE calls("confirmPlayback") -> a
              [] calls("recordOverride") -> b
              [] ev.type = "op_result" /\ ev.command = "preflightEntry" -> d
              [] ev.type \in {"completed", "abandoned"} -> NoEvidence
              [] OTHER -> e
    BY DEF EvidenceAfter
  <1> HIDE DEF calls, a, b, d
  <1> QED
    BY <1>2, <1>3, <1>4, <1>5

\* Appending an event keeps the invariant when the fold takes the event and
\* the live session goes to what the fold makes of the log (appendStoredEvents).
LEMMA LogPreserves ==
    ASSUME SessionInv, NEW h \in Handles, NEW ev, NEW m, NEW c,
           Log(h, ev, m, c), EventFits(ev), c \in Calls,
           Accepts(ledger, ev),
           GoodSession(Apply(ledger, ev)), GoodSession(m), CallFits(m, c),
           EndsSession(ev) => ~Pending(Apply(ledger, ev)),
           /\ c.pc \notin {"closed", "rebind"}
           /\ c.pc = "done" => c.opening
           => SameSession(m, Apply(ledger, ev), c) /\ view[h] = branch
    PROVE  SessionInv'
  <1> USE DEF Log, AppendEvent
  <1>1. ledger' = Apply(ledger, ev) /\ readable'
    BY DEF SessionInv
  <1>2. mem' \in [Handles -> Sessions] /\ mem'[h] = m
    BY DEF SessionInv, TypeOK, GoodSession
  <1>3. call' \in [Handles -> Calls] /\ call'[h] = c
    BY DEF SessionInv, TypeOK
  <1>4. check' \in [Insts -> Checks]
    BY CheckAfterType DEF SessionInv, TypeOK, EventFits
  <1>5. evidence' \in [Insts -> Evidences]
    BY EvidenceAfterType, InstanceFields DEF SessionInv, TypeOK, EventFits
  <1>6. ops' \in [Refs -> OpStates]
    BY DEF OpsAfter, SessionInv, TypeOK, EventFits, OpStates
  <1>7. lastRef' \in 0 .. MaxOps
    BY DEF SessionInv, TypeOK, EventFits
  <1>8. ended' \in BOOLEAN /\ (ended' => ~Pending(ledger'))
    BY <1>1 DEF EndsSession
  <1>9. fresh' \in [Handles -> BOOLEAN] /\ \A g \in Handles : fresh'[g] => g = h
    OBVIOUS
  <1>10. TypeOK'
    BY <1>1, <1>2, <1>3, <1>4, <1>5, <1>6, <1>7, <1>8, <1>9
       DEF SessionInv, TypeOK, GoodSession
  <1>11. ASSUME NEW g \in Handles
         PROVE  GoodSession(mem'[g]) /\ CallFits(mem'[g], call'[g]) /\ Agrees(g)'
    <2>1. CASE g = h
      BY <1>1, <1>2, <1>3, <2>1 DEF Agrees, Current
    <2>2. CASE g # h
      <3>1. mem'[g] = mem[g] /\ call'[g] = call[g]
        BY <2>2 DEF SessionInv, TypeOK
      <3>2. ~fresh'[g]
        BY <1>9, <2>2
      <3> QED
        BY <3>1, <3>2 DEF SessionInv, Agrees, Current
    <2> QED
      BY <2>1, <2>2
  <1> QED
    BY <1>1, <1>8, <1>10, <1>11 DEF SessionInv

-----------------------------------------------------------------------------
\* An idle call is typed.
LEMMA NoCallType == \A pc \in PCs : NoCall(pc) \in Calls
  BY DEF NoCall, Calls

\* A session without events is good and has nothing pending.
LEMMA NewSessionGood == GoodSession(NewSession) /\ ~Pending(NewSession)
  <1>1. NewSession \in Sessions
    BY InstanceTypes DEF NewSession, Sessions
  <1>2. \A i \in Insts : NewSession.insts[i] = Unstarted
    BY DEF NewSession
  <1>3. NewSession.intent = None
    BY DEF NewSession
  <1> QED
    BY <1>1, <1>2, <1>3 DEF GoodSession, GoodInstance, GoodIntent, Started, Unstarted, Pending

\* A session that was just opened satisfies the invariant.
LEMMA InitInv == Init => SessionInv
  <1> SUFFICES ASSUME Init PROVE SessionInv
    OBVIOUS
  <1> USE DEF Init
  <1>1. NewSession \in Sessions
    BY NewSessionGood DEF GoodSession
  <1>2. NoCall("closed") \in Calls /\ NoCall("closed").pc = "closed"
    BY NoCallType DEF PCs, NoCall
  <1>3. NoCheck \in Checks /\ NoEvidence \in Evidences
    BY DEF NoCheck, Checks, NoEvidence, Evidences
  <1>4. TypeOK
    <2>1. fresh \in [Handles -> BOOLEAN]
      OBVIOUS
    <2>2. lastRef \in 0 .. MaxOps
      OBVIOUS
    <2>3. published \subseteq Publications
      OBVIOUS
    <2>4. ops \in [Refs -> OpStates]
      BY DEF OpStates
    <2>5. mem \in [Handles -> Sessions] /\ call \in [Handles -> Calls]
      BY <1>1, <1>2
    <2>6. check \in [Insts -> Checks] /\ evidence \in [Insts -> Evidences]
      BY <1>3
    <2>7. branch \in Branches \cup {None} /\ view \in [Handles -> Branches \cup {None}]
      OBVIOUS
    <2> QED
      BY <1>1, <2>1, <2>2, <2>3, <2>4, <2>5, <2>6, <2>7 DEF TypeOK
  <1>5. ASSUME NEW h \in Handles
        PROVE  GoodSession(mem[h]) /\ CallFits(mem[h], call[h]) /\ Agrees(h)
    BY <1>2, NewSessionGood DEF CallFits, Agrees, Current
  <1> QED
    BY <1>4, <1>5, NewSessionGood DEF SessionInv

\* Agreement does not depend on where a call stands unless it owes a
\* transition.
LEMMA SameElsewhere ==
    ASSUME NEW m, NEW s, NEW c, NEW d, SameSession(m, s, c),
           c.pc \notin {"move", "finish"}
    PROVE  SameSession(m, s, d)
  BY DEF SameSession, OpDoneMatters

\* A step that leaves the log, the other handles and the binding alone.
LEMMA QuietPreserves ==
    ASSUME SessionInv, NEW h \in Handles, UNCHANGED <<logged, branch>>,
           published' \subseteq Publications,
           NEW m, GoodSession(m), mem' = [mem EXCEPT ![h] = m],
           NEW c \in Calls, CallFits(m, c), call' = [call EXCEPT ![h] = c],
           fresh' \in [Handles -> BOOLEAN], view' \in [Handles -> Branches \cup {None}],
           \A g \in Handles \ {h} : (fresh'[g] => fresh[g]) /\ view'[g] = view[g],
           /\ fresh'[h] /\ c.pc \notin {"closed", "rebind"}
           /\ c.pc = "done" => c.opening
           => SameSession(m, ledger, c) /\ view'[h] = branch
    PROVE  SessionInv'
  <1>1. /\ ledger' = ledger /\ readable' = readable /\ check' = check /\ ended' = ended
        /\ lastRef' = lastRef /\ ops' = ops /\ evidence' = evidence /\ branch' = branch
    BY DEF logged
  <1>2. mem' \in [Handles -> Sessions] /\ mem'[h] = m
    BY DEF SessionInv, TypeOK, GoodSession
  <1>3. call' \in [Handles -> Calls] /\ call'[h] = c
    BY DEF SessionInv, TypeOK
  <1>4. TypeOK'
    BY <1>1, <1>2, <1>3 DEF SessionInv, TypeOK
  <1>5. ASSUME NEW g \in Handles
        PROVE  GoodSession(mem'[g]) /\ CallFits(mem'[g], call'[g]) /\ Agrees(g)'
    <2>1. CASE g = h
      BY <1>1, <1>2, <1>3, <2>1 DEF Agrees, Current
    <2>2. CASE g # h
      <3>1. mem'[g] = mem[g] /\ call'[g] = call[g]
        BY <2>2 DEF SessionInv, TypeOK
      <3>2. view'[g] = view[g] /\ (fresh'[g] => fresh[g])
        BY <2>2
      <3>3. Agrees(g)'
        BY <1>1, <3>1, <3>2 DEF SessionInv, Agrees, Current
      <3> QED
        BY <3>1, <3>3 DEF SessionInv
    <2> QED
      BY <2>1, <2>2
  <1> QED
    BY <1>1, <1>4, <1>5 DEF SessionInv

\* A step that appends nothing keeps the invariant when the replay fits where
\* the call goes.
LEMMA GoPreserves ==
    ASSUME SessionInv, NEW h \in Handles, NEW c \in Calls, Go(h, c),
           CallFits(mem[h], c),
           call[h].pc \notin {"move", "finish", "closed", "rebind"},
           call[h].pc = "done" => call[h].opening
    PROVE  SessionInv'
  <1>1. mem' = [mem EXCEPT ![h] = mem[h]]
    BY DEF Go, SessionInv, TypeOK
  <1>2. UNCHANGED <<logged, branch, published, fresh, view>> /\ call' = [call EXCEPT ![h] = c]
    BY DEF Go
  <1>3. fresh[h] => SameSession(mem[h], ledger, c) /\ view[h] = branch
    BY SameElsewhere DEF SessionInv, Agrees, Current
  <1>4. GoodSession(mem[h]) /\ TypeOK
    BY DEF SessionInv
  <1> QED
    BY <1>1, <1>2, <1>3, <1>4, QuietPreserves DEF TypeOK

\* Losing a replay keeps the invariant: a closed handle promises nothing.
LEMMA DropPreserves ==
    ASSUME SessionInv, NEW h \in Handles, Drop(h),
           UNCHANGED <<logged, branch, published>>
    PROVE  SessionInv'
  <1>1. NoCall("closed") \in Calls /\ NoCall("closed").pc = "closed"
    BY NoCallType DEF PCs, NoCall
  <1>2. CallFits(NewSession, NoCall("closed"))
    BY <1>1 DEF CallFits
  <1>3. TypeOK
    BY DEF SessionInv
  <1>4. /\ fresh' \in [Handles -> BOOLEAN] /\ view' \in [Handles -> Branches \cup {None}]
        /\ ~fresh'[h]
        /\ \A g \in Handles \ {h} : fresh'[g] = fresh[g] /\ view'[g] = view[g]
    BY <1>3 DEF Drop, TypeOK
  <1> QED
    BY <1>1, <1>2, <1>3, <1>4, NewSessionGood, QuietPreserves DEF Drop, TypeOK

-----------------------------------------------------------------------------
\* The step an instance stands at is a well-formed step of its procedure
\* (what ParseSpec checked).
LEMMA StepFacts ==
    ASSUME NEW inst, GoodInstance(inst), inst.status # "unstarted"
    PROVE  /\ inst.proc \in Procs /\ inst.step \in StepsOf(inst.proc)
           /\ StepsOf(inst.proc) \subseteq Steps
           /\ inst.step \in Steps /\ inst.step # None
           /\ WellFormedStep(inst.proc, inst.step)
  BY SpecsAssumption DEF GoodInstance

\* A recorded operation belongs to a started instance and a prepared command.
LEMMA PendingFacts ==
    ASSUME NEW m, GoodSession(m), Pending(m)
    PROVE  /\ m.intent \in Intents /\ m.intent.inst \in Insts
           /\ UnfinishedFinds(m) /\ Running(m, m.intent.inst)
           /\ m.intent.command \in Prepared
           /\ m.intentStore \in Stores
           /\ m.intent.to \in StepsOf(m.insts[m.intent.inst].proc) \cup Ends \cup {None}
  <1>1. m.intent \in Intents
    BY DEF GoodSession, Sessions, Pending
  <1>2. m.intent.inst \in Insts
    BY <1>1 DEF Intents
  <1>3. GoodIntent(m) /\ m.intent # None
    BY DEF GoodSession, Pending
  <1>4. UnfinishedFinds(m)
    BY <1>3 DEF GoodIntent
  <1>5. m.insts[m.intent.inst] \in Instances
    BY <1>2, InstanceFields DEF GoodSession
  <1>6. m.intentStore \in Stores
    BY <1>4, <1>5 DEF UnfinishedFinds, Instances
  <1> QED
    BY <1>1, <1>2, <1>3, <1>4, <1>6 DEF GoodIntent, UnfinishedFinds

\* Replaying the stored log keeps the invariant (LoadWorkflow,
\* RefreshWorkflow).
LEMMA LoadPreserves ==
    ASSUME SessionInv, NEW h \in Handles, Load(h) PROVE SessionInv'
  <1> DEFINE pc == IF RunningShell(ledger) THEN "idle" ELSE "shell"
  <1>1. NoCall(pc) \in Calls /\ NoCall(pc).pc \in {"idle", "shell"}
    BY NoCallType DEF PCs, NoCall
  <1>2. CallFits(ledger, NoCall(pc))
    BY <1>1 DEF CallFits
  <1>3. SameSession(ledger, ledger, NoCall(pc))
    BY DEF SameSession
  <1>4. /\ fresh' \in [Handles -> BOOLEAN] /\ view' \in [Handles -> Branches \cup {None}]
        /\ \A g \in Handles \ {h} : (fresh'[g] => fresh[g]) /\ view'[g] = view[g]
        /\ view'[h] = branch
    BY DEF Load, SessionInv, TypeOK
  <1>5. GoodSession(ledger) /\ published \subseteq Publications
    BY DEF SessionInv, TypeOK
  <1>6. /\ mem' = [mem EXCEPT ![h] = ledger] /\ call' = [call EXCEPT ![h] = NoCall(pc)]
        /\ UNCHANGED <<logged, branch>> /\ published' = published
    BY DEF Load
  <1> HIDE DEF pc
  <1> QED
    BY <1>1, <1>2, <1>3, <1>4, <1>5, <1>6, QuietPreserves

\* Retry keeps the invariant: what it continues is what was recorded.
LEMMA RetryPreserves ==
    ASSUME SessionInv, NEW h \in Handles, NEW i \in Insts, Retry(h, i)
    PROVE  SessionInv'
  <1> DEFINE m == mem[h]
             c == IF m.intentDone THEN CallOn(i)
                  ELSE [NoCall("verify") EXCEPT !.inst = i, !.fn = m.intent.command,
                            !.to = m.intent.to, !.retry = TRUE]
  <1>1. GoodSession(m) /\ At(h, "idle") /\ m.intent # None /\ m.intent.inst = i
    BY DEF SessionInv, Retry, Ready, Retryable
  <1>2. Go(h, c)
    BY DEF Retry
  <1>3. m.intent \in Intents
    BY <1>1 DEF GoodSession, Sessions
  <1>4. c \in Calls
    BY <1>3 DEF CallOn, NoCall, Calls, PCs, Intents
  <1>5. OnInstance(m, c)
    BY <1>1 DEF GoodSession, GoodIntent, OnInstance, CallOn, NoCall
  <1>6. CASE m.intentDone
    <2>1. c.pc = "cascade" /\ ~Pending(m)
      BY <1>6 DEF CallOn, NoCall, Pending
    <2>2. CallFits(m, c)
      BY <1>5, <2>1 DEF CallFits
    <2> HIDE DEF c
    <2> QED
      BY <1>1, <1>2, <1>4, <2>2, GoPreserves DEF At
  <1>7. CASE ~m.intentDone
    <2>1. c.pc = "verify" /\ OnOperation(m, c)
      BY <1>1, <1>7 DEF NoCall, Pending, OnOperation
    <2>2. CallFits(m, c)
      BY <1>5, <2>1 DEF CallFits
    <2> HIDE DEF c
    <2> QED
      BY <1>1, <1>2, <1>4, <2>2, GoPreserves DEF At
  <1> QED
    BY <1>6, <1>7

\* A cascade that has nothing more to do keeps the invariant.
LEMMA CascadeStopsPreserves ==
    ASSUME SessionInv, NEW h \in Handles, CascadeStops(h) PROVE SessionInv'
  <1> DEFINE c == [NoCall("done") EXCEPT !.opening = call[h].opening]
  <1>1. c \in Calls /\ c.pc = "done"
    BY DEF SessionInv, TypeOK, Calls, NoCall, PCs
  <1>2. CallFits(mem[h], c)
    BY <1>1 DEF CallFits
  <1>3. Go(h, c) /\ call[h].pc = "cascade"
    BY DEF CascadeStops, At
  <1> HIDE DEF c
  <1> QED
    BY <1>1, <1>2, <1>3, GoPreserves

\* A failing call keeps the invariant: nothing was appended.
LEMMA CallFailsPreserves ==
    ASSUME SessionInv, NEW h \in Handles, CallFails(h) PROVE SessionInv'
  <1>1. NoCall("done") \in Calls /\ NoCall("done").pc = "done"
    BY NoCallType DEF NoCall, PCs
  <1>2. CallFits(mem[h], NoCall("done"))
    BY <1>1 DEF CallFits
  <1>3. Go(h, NoCall("done")) /\ call[h].pc \in {"cascade", "command", "verify", "publish", "run"}
    BY DEF CallFails, OnFailure, OnGate, At
  <1> QED
    BY <1>1, <1>2, <1>3, GoPreserves

\* A gate asking for its op keeps the invariant: the op is the step's own.
LEMMA RunOpPreserves ==
    ASSUME SessionInv, NEW h \in Handles, RunOp(h) PROVE SessionInv'
  <1> DEFINE m == mem[h]
             i == call[h].inst
             inst == m.insts[i]
             c == CommandCall(i, StepOf(inst).op, None)
  <1>1. GoodSession(m) /\ CallFits(m, call[h]) /\ call[h].pc = "cascade"
    BY DEF SessionInv, RunOp, OnGate
  <1>2. i \in Insts /\ ~Pending(m) /\ Running(m, i) /\ OpOwed(inst) /\ Go(h, c)
    BY <1>1 DEF CallFits, OnInstance, RunOp, OnGate
  <1>3. GoodInstance(inst) /\ inst.status # "unstarted"
    BY <1>1, <1>2 DEF GoodSession, Running
  <1>4. StepOf(inst).op \in Commands
    BY <1>2, <1>3, StepFacts DEF WellFormedStep, StepOf, OpOwed
  <1>5. /\ c.inst = i /\ c.fn = StepOf(inst).op /\ c.to = None /\ c.retry = FALSE
        /\ c.pc = IF StepOf(inst).op \in Prepared THEN "command" ELSE "run"
        /\ c \in Calls
    BY <1>2, <1>4 DEF CommandCall, NoCall, Calls, PCs
  <1> HIDE DEF c
  <1>6. Asked(m, c) /\ OnInstance(m, c)
    BY <1>2, <1>3, <1>5 DEF Asked, OnInstance, Started
  <1>7. CallFits(m, c)
    BY <1>4, <1>5, <1>6 DEF CallFits
  <1> QED
    BY <1>1, <1>2, <1>5, <1>7, GoPreserves

\* The binding check before a publication keeps the invariant.
LEMMA VerifyBindingPreserves ==
    ASSUME SessionInv, NEW h \in Handles, VerifyBinding(h) PROVE SessionInv'
  <1> DEFINE c == [call[h] EXCEPT !.pc = "publish"]
  <1>1. CallFits(mem[h], call[h]) /\ call[h].pc = "verify" /\ call[h] \in Calls /\ Go(h, c)
    BY DEF SessionInv, TypeOK, VerifyBinding, At
  <1>2. c \in Calls /\ c.pc = "publish" /\ c.inst = call[h].inst /\ c.fn = call[h].fn
        /\ c.to = call[h].to
    BY <1>1 DEF Calls, PCs
  <1> HIDE DEF c
  <1>3. CallFits(mem[h], c)
    BY <1>1, <1>2 DEF CallFits, OnInstance, OnOperation
  <1> QED
    BY <1>1, <1>2, <1>3, GoPreserves

\* The publications stay typed (PublishDocument, CreateEntry).
LEMMA PublishKeyedType ==
    ASSUME SessionInv, NEW h \in Handles, call[h].pc = "publish", PublishKeyed(mem[h])
    PROVE  published' \subseteq Publications
  <1>1. GoodSession(mem[h]) /\ Pending(mem[h]) /\ published \subseteq Publications
    BY DEF SessionInv, TypeOK, CallFits, OnOperation
  <1>2. Publication(mem[h]) \in Publications
    BY <1>1, PendingFacts DEF Publication, Publications, Intents, Stores
  <1> QED
    BY <1>1, <1>2 DEF PublishKeyed

\* A publication keeps the invariant: it moves no session.
LEMMA PublishPreserves ==
    ASSUME SessionInv, NEW h \in Handles, Publish(h) PROVE SessionInv'
  <1> DEFINE c == [call[h] EXCEPT !.pc = IF call[h].fn = "newEntry" THEN "read" ELSE "outcome"]
  <1>1. CallFits(mem[h], call[h]) /\ call[h].pc = "publish" /\ call[h] \in Calls /\ TypeOK
        /\ GoodSession(mem[h])
    BY DEF SessionInv, TypeOK, Publish, At
  <1>2. c \in Calls /\ c.pc \in {"read", "outcome"} /\ c.inst = call[h].inst
        /\ c.fn = call[h].fn /\ c.to = call[h].to
    BY <1>1 DEF Calls, PCs
  <1>3. /\ call' = [call EXCEPT ![h] = c] /\ mem' = [mem EXCEPT ![h] = mem[h]]
        /\ UNCHANGED <<logged, branch, fresh, view>>
    BY <1>1 DEF Publish, TypeOK
  <1>4. published' \subseteq Publications
    BY <1>1, PublishKeyedType DEF Publish
  <1> HIDE DEF c
  <1>5. CallFits(mem[h], c)
    BY <1>1, <1>2 DEF CallFits, OnInstance, OnOperation
  <1>6. fresh[h] => SameSession(mem[h], ledger, c) /\ view[h] = branch
    BY <1>1, SameElsewhere DEF SessionInv, Agrees, Current
  <1> QED
    BY <1>1, <1>2, <1>3, <1>4, <1>5, <1>6, QuietPreserves DEF TypeOK

\* A publication reported as failed keeps the invariant.
LEMMA PublishThenFailPreserves ==
    ASSUME SessionInv, NEW h \in Handles, PublishThenFail(h) PROVE SessionInv'
  <1> DEFINE c == NoCall("done")
  <1>1. c \in Calls /\ c.pc = "done" /\ c.opening = FALSE
    BY NoCallType DEF NoCall, PCs
  <1>2. TypeOK /\ GoodSession(mem[h]) /\ call[h].pc = "publish"
    BY DEF SessionInv, PublishThenFail, At
  <1>3. /\ call' = [call EXCEPT ![h] = c] /\ mem' = [mem EXCEPT ![h] = mem[h]]
        /\ UNCHANGED <<logged, branch, fresh, view>>
    BY <1>2 DEF PublishThenFail, TypeOK
  <1>4. published' \subseteq Publications
    BY <1>2, PublishKeyedType DEF PublishThenFail
  <1> HIDE DEF c
  <1>5. CallFits(mem[h], c)
    BY <1>1 DEF CallFits
  <1> QED
    BY <1>1, <1>2, <1>3, <1>4, <1>5, QuietPreserves DEF TypeOK

\* A call that is over keeps the invariant.
LEMMA RestPreserves ==
    ASSUME SessionInv, Held = FALSE, NEW h \in Handles, call[h].pc \in {"done", "rebind"},
           Rest(h), UNCHANGED <<logged, branch, published>>
    PROVE  SessionInv'
  <1>1. CASE call[h].opening
    <2> DEFINE c == NoCall("idle")
    <2>1. c \in Calls /\ c.pc = "idle"
      BY NoCallType DEF NoCall, PCs
    <2>2. TypeOK /\ GoodSession(mem[h]) /\ call[h].pc = "done"
      BY <1>1 DEF SessionInv, CallFits
    <2>3. /\ call' = [call EXCEPT ![h] = c] /\ mem' = [mem EXCEPT ![h] = mem[h]]
          /\ UNCHANGED <<fresh, view>>
      BY <1>1, <2>2 DEF Rest, TypeOK
    <2> HIDE DEF c
    <2>4. CallFits(mem[h], c)
      BY <2>1 DEF CallFits
    <2>5. fresh[h] => SameSession(mem[h], ledger, c) /\ view[h] = branch
      BY <1>1, <2>2, SameElsewhere DEF SessionInv, Agrees, Current
    <2> QED
      BY <2>1, <2>2, <2>3, <2>4, <2>5, QuietPreserves DEF TypeOK
  <1>2. CASE ~call[h].opening
    BY <1>2, DropPreserves DEF Rest
  <1> QED
    BY <1>1, <1>2

\* Taking over the stored version without its events keeps the invariant,
\* because the call ends before the replay is used again (resyncBindingVersion).
LEMMA ResyncBindingPreserves ==
    ASSUME SessionInv, NEW h \in Handles, ResyncBinding(h) PROVE SessionInv'
  <1> DEFINE c == NoCall("rebind")
  <1>1. c \in Calls /\ c.pc = "rebind" /\ c.opening = FALSE
    BY NoCallType DEF NoCall, PCs
  <1>2. TypeOK /\ GoodSession(mem[h])
    BY DEF SessionInv
  <1>3. /\ call' = [call EXCEPT ![h] = c] /\ mem' = [mem EXCEPT ![h] = mem[h]]
        /\ UNCHANGED <<logged, branch, published>>
    BY <1>2 DEF ResyncBinding, TypeOK
  <1>4. /\ fresh' \in [Handles -> BOOLEAN] /\ view' \in [Handles -> Branches \cup {None}]
        /\ \A g \in Handles \ {h} : fresh'[g] = fresh[g] /\ view'[g] = view[g]
    BY <1>2 DEF ResyncBinding, TypeOK
  <1> HIDE DEF c
  <1>5. CallFits(mem[h], c)
    BY <1>1 DEF CallFits
  <1> QED
    BY <1>1, <1>2, <1>3, <1>4, <1>5, QuietPreserves DEF TypeOK

\* Binding a branch keeps the invariant for the same reason
\* (bindBranchOnce).
LEMMA BindPreserves ==
    ASSUME SessionInv, NEW h \in Handles, NEW b \in Branches \cup {None}, Bind(h, b)
    PROVE  SessionInv'
  <1> DEFINE c == NoCall("done")
  <1>1. c \in Calls /\ c.pc = "done" /\ c.opening = FALSE
    BY NoCallType DEF NoCall, PCs
  <1>2. TypeOK
    BY DEF SessionInv
  <1>3. /\ UNCHANGED <<ledger, readable, check, ended, lastRef, ops, evidence, published, mem>>
        /\ call' = [call EXCEPT ![h] = c] /\ fresh' = [g \in Handles |-> g = h]
        /\ branch' = b /\ view' = [view EXCEPT ![h] = b]
    BY DEF Bind, logged
  <1> HIDE DEF c
  <1>4. call' \in [Handles -> Calls]
    BY <1>1, <1>2, <1>3 DEF TypeOK
  <1>5. fresh' \in [Handles -> BOOLEAN]
    BY <1>3
  <1>6. TypeOK'
    BY <1>2, <1>3, <1>4, <1>5 DEF TypeOK
  <1>7. ASSUME NEW g \in Handles
        PROVE  CallFits(mem[g], call'[g]) /\ Agrees(g)'
    <2>1. CASE g = h
      BY <1>1, <1>2, <1>3, <2>1 DEF TypeOK, CallFits, Agrees, Current
    <2>2. CASE g # h
      BY <1>2, <1>3, <2>2 DEF TypeOK, SessionInv, Agrees, Current
    <2> QED
      BY <2>1, <2>2
  <1> QED
    BY <1>3, <1>6, <1>7 DEF SessionInv

\* Abandoning the session keeps the invariant: no operation is unfinished
\* and no handle is current afterwards.
LEMMA AbandonSessionPreserves ==
    ASSUME SessionInv, AbandonSession PROVE SessionInv'
  <1>1. TypeOK /\ GoodSession(ledger) /\ ~Pending(ledger) /\ ledger \in Sessions
    BY DEF SessionInv, AbandonSession, GoodSession
  <1> DEFINE closing(i) == IF Running(ledger, i)
                           THEN [ledger.insts[i] EXCEPT !.status = "abandoned"]
                           ELSE ledger.insts[i]
             insts == [i \in Insts |-> closing(i)]
  <1>2. ledger' = [ledger EXCEPT !.insts = insts]
    BY DEF AbandonSession
  <1>3. \A i \in Insts : closing(i) \in Instances
    BY <1>1, InstanceFields DEF Instances, Statuses
  <1>4. insts \in [Insts -> Instances]
    BY <1>3
  <1>5. /\ ledger' \in Sessions /\ ledger'.insts = insts /\ ledger'.counter = ledger.counter
        /\ ledger'.intent = ledger.intent /\ ledger'.intentDone = ledger.intentDone
    BY <1>1, <1>2, <1>4 DEF Sessions
  <1>6. ASSUME NEW i \in Insts
        PROVE  /\ GoodInstance(ledger'.insts[i])
               /\ ledger'.insts[i].proc = ledger.insts[i].proc
               /\ Started(ledger', i) <=> Started(ledger, i)
    <2>1. ledger'.insts[i] = closing(i) /\ ledger.insts[i] \in Instances
      BY <1>1, <1>5, InstanceFields
    <2>2. GoodInstance(ledger.insts[i])
      BY <1>1 DEF GoodSession
    <2> QED
      BY <2>1, <2>2 DEF GoodInstance, Instances, Running, Started
  <1>7. ~Pending(ledger')
    BY <1>1, <1>5 DEF Pending
  <1>8. ledger.intent # None => ledger.intent.inst \in Insts
    BY <1>1 DEF Sessions, Intents
  <1>9. GoodIntent(ledger')
    BY <1>1, <1>5, <1>6, <1>7, <1>8 DEF GoodSession, GoodIntent
  <1>10. GoodSession(ledger')
    BY <1>1, <1>5, <1>6, <1>9 DEF GoodSession
  <1>11. TypeOK'
    BY <1>1, <1>5 DEF AbandonSession, TypeOK
  <1>12. ASSUME NEW g \in Handles
         PROVE  GoodSession(mem'[g]) /\ CallFits(mem'[g], call'[g]) /\ Agrees(g)'
    BY DEF AbandonSession, SessionInv, Agrees, Current
  <1> QED
    BY <1>7, <1>10, <1>11, <1>12 DEF SessionInv, AbandonSession

-----------------------------------------------------------------------------
\* Which operator an event's type selects (applyEvent).
LEMMA ApplyByType ==
    ASSUME NEW s, NEW ev
    PROVE  /\ ev.type = "started" => Apply(s, ev) = ApplyStarted(s, ev)
           /\ ev.type = "report" => Apply(s, ev) = ApplyReport(s, ev)
           /\ ev.type = "chooser_answer" => Apply(s, ev) = ApplyAnswer(s, ev)
           /\ ev.type = "mutation_intent" => Apply(s, ev) = ApplyIntent(s, ev)
           /\ ev.type = "op_result" => Apply(s, ev) = ApplyResult(s, ev)
           /\ ev.type = "mutation_outcome" => Apply(s, ev) = ApplyResult(s, ev)
           /\ ev.type = "cancelled" => Apply(s, ev) = ApplyCancellation(s, ev.inst)
           /\ ev.type = "transition" => Apply(s, ev) = ApplyTransition(s, ev)
           /\ ev.type = "completed" =>
                Apply(s, ev) = [s EXCEPT !.insts[ev.inst] = [@ EXCEPT !.status = "completed"]]
           /\ ev.type = "abandoned" =>
                Apply(s, ev) = [s EXCEPT !.insts[ev.inst] = [@ EXCEPT !.status = "abandoned"]]
           /\ ev.type = "note" => Apply(s, ev) = s
  BY DEF Apply

\* What a handle under way knows of the log when it appends to it.
LEMMA LedgerFacts ==
    ASSUME SessionInv, NEW h \in Handles, fresh[h],
           call[h].pc \notin {"closed", "rebind"}, call[h].pc = "done" => call[h].opening
    PROVE  /\ SameSession(mem[h], ledger, call[h]) /\ view[h] = branch
           /\ GoodSession(mem[h]) /\ GoodSession(ledger)
           /\ mem[h] \in Sessions /\ ledger \in Sessions
           /\ call[h] \in Calls /\ CallFits(mem[h], call[h])
  BY DEF SessionInv, TypeOK, Agrees, Current, GoodSession

\* The fold takes every note and does nothing with it.
LEMMA NoteFacts ==
    /\ Accepts(ledger, NoteEvent) /\ Apply(ledger, NoteEvent) = ledger
    /\ EventFits(NoteEvent) /\ ~EndsSession(NoteEvent)
  BY ApplyByType DEF NoteEvent, Accepts, EventFits, EndsSession

\* Noting what was read or served keeps the invariant.
LEMMA NotePreserves ==
    ASSUME SessionInv, NEW h \in Handles, Note(h) PROVE SessionInv'
  <1>1. Log(h, NoteEvent, mem[h], call[h]) /\ fresh[h] /\ call[h].pc \in {"idle", "done"}
    BY DEF Note, Log, AppendEvent, VerifiedBinding
  <1>2. call[h] \in Calls /\ GoodSession(mem[h]) /\ GoodSession(ledger) /\ CallFits(mem[h], call[h])
    BY DEF SessionInv, TypeOK
  <1>3. Current(h) => SameSession(mem[h], ledger, call[h]) /\ view[h] = branch
    BY DEF SessionInv, Agrees
  <1> QED
    BY <1>1, <1>2, <1>3, NoteFacts, LogPreserves DEF Current

\* Parking an instance keeps the invariant.
LEMMA ParkPreserves ==
    ASSUME SessionInv, NEW h \in Handles, NEW i \in Insts, Park(h, i) PROVE SessionInv'
  <1>1. NoCall("done") \in Calls /\ NoCall("done").pc = "done" /\ NoCall("done").opening = FALSE
    BY NoCallType DEF NoCall, PCs
  <1>2. Log(h, NoteEvent, mem[h], NoCall("done"))
    BY DEF Park
  <1>3. GoodSession(mem[h]) /\ GoodSession(ledger)
    BY DEF SessionInv
  <1>4. CallFits(mem[h], NoCall("done"))
    BY <1>1 DEF CallFits
  <1> QED
    BY <1>1, <1>2, <1>3, <1>4, NoteFacts, LogPreserves

\* Noting a published entry as read keeps the invariant.
LEMMA LogPublishedReadPreserves ==
    ASSUME SessionInv, NEW h \in Handles, LogPublishedRead(h) PROVE SessionInv'
  <1> DEFINE c == [call[h] EXCEPT !.pc = "outcome"]
  <1>1. Log(h, NoteEvent, mem[h], c) /\ fresh[h] /\ call[h].pc = "read"
    BY DEF LogPublishedRead, At, Log, AppendEvent, VerifiedBinding
  <1>2. /\ SameSession(mem[h], ledger, call[h]) /\ view[h] = branch
        /\ GoodSession(mem[h]) /\ GoodSession(ledger)
        /\ call[h] \in Calls /\ CallFits(mem[h], call[h])
    BY <1>1, LedgerFacts
  <1>3. c \in Calls /\ c.pc = "outcome" /\ c.inst = call[h].inst /\ c.fn = call[h].fn
        /\ c.to = call[h].to
    BY <1>2 DEF Calls, PCs
  <1> HIDE DEF c
  <1>4. CallFits(mem[h], c)
    BY <1>1, <1>2, <1>3 DEF CallFits, OnInstance, OnOperation
  <1>5. SameSession(mem[h], ledger, c)
    BY <1>1, <1>2, SameElsewhere
  <1> QED
    BY <1>1, <1>2, <1>3, <1>4, <1>5, NoteFacts, LogPreserves

-----------------------------------------------------------------------------
\* The steps that log one event about one running instance and change it.
LEMMA ReplacePreserves ==
    ASSUME SessionInv, NEW h \in Handles, NEW ev, NEW i \in Insts,
           NEW newM \in Instances, NEW newS \in Instances,
           NEW mark \in {None} \cup Cancellations, NEW d \in Calls,
           call[h].pc \notin {"closed", "rebind", "done"},
           call[h].pc \in {"move", "finish"} => call[h].inst = i,
           ~Pending(mem[h]), Running(mem[h], i),
           newM.status # "unstarted", newM.proc = mem[h].insts[i].proc,
           GoodInstance(newM),
           [newM EXCEPT !.opDone = FALSE] = [newS EXCEPT !.opDone = FALSE],
           \/ newM.opDone = newS.opDone
           \/ newS.status # "running"
           \/ d.inst = i /\ d.pc \in {"move", "finish"},
           Log(h, ev, Replaced(mem[h], i, newM, mark), d),
           Apply(ledger, ev) = Replaced(ledger, i, newS, mark),
           EventFits(ev), Accepts(ledger, ev),
           CallFits(Replaced(mem[h], i, newM, mark), d)
    PROVE  SessionInv'
  <1>1. fresh[h]
    BY DEF Log, AppendEvent, VerifiedBinding
  <1>2. /\ SameSession(mem[h], ledger, call[h]) /\ view[h] = branch
        /\ GoodSession(mem[h]) /\ GoodSession(ledger)
        /\ mem[h] \in Sessions /\ ledger \in Sessions
    BY <1>1, LedgerFacts
  <1>3. ~Pending(ledger) /\ Running(ledger, i) /\ Started(ledger, i) /\ Started(mem[h], i)
        /\ ledger.insts[i].proc = mem[h].insts[i].proc
    BY <1>2, SameFields DEF Running, Started
  <1>4. /\ newS.status = newM.status /\ newS.proc = newM.proc /\ newS.step = newM.step
        /\ newS.interactionStep = newM.interactionStep /\ newS.store = newM.store
    BY DEF Instances
  <1>5. GoodInstance(newS)
    BY <1>4 DEF GoodInstance
  <1>6. GoodSession(Apply(ledger, ev)) /\ ~Pending(Apply(ledger, ev))
    BY <1>2, <1>3, <1>4, <1>5, ReplaceGood
  <1>7. GoodSession(Replaced(mem[h], i, newM, mark))
    BY <1>2, <1>3, ReplaceGood
  <1>8. SameSession(Replaced(mem[h], i, newM, mark), Replaced(ledger, i, newS, mark), d)
    BY <1>2, ReplaceSame
  <1> QED
    BY <1>2, <1>6, <1>7, <1>8, LogPreserves

\* Where a call stands after such a step.
LEMMA CallOnFits ==
    ASSUME NEW m, NEW i \in Insts, Started(m, i), ~Pending(m)
    PROVE  CallOn(i) \in Calls /\ CallFits(m, CallOn(i))
  <1>1. CallOn(i) \in Calls /\ CallOn(i).pc = "cascade" /\ CallOn(i).inst = i
    BY DEF CallOn, NoCall, Calls, PCs
  <1> QED
    BY <1>1 DEF CallFits, OnInstance

\* What follows a transition fits the session after it.
LEMMA AfterMoveFits ==
    ASSUME NEW m, NEW i \in Insts, Running(m, i), ~Pending(m), NEW to
    PROVE  AfterMove(i, to) \in Calls /\ CallFits(m, AfterMove(i, to))
  <1>1. CASE to \in Ends
    <2>1. /\ AfterMove(i, to) \in Calls /\ AfterMove(i, to).pc = "finish"
          /\ AfterMove(i, to).inst = i /\ AfterMove(i, to).to = to
      BY <1>1 DEF AfterMove, NoCall, Calls, PCs
    <2> QED
      BY <1>1, <2>1 DEF CallFits, OnInstance, Started, Running
  <1>2. CASE to \notin Ends
    BY <1>2, CallOnFits DEF AfterMove, Started, Running
  <1> QED
    BY <1>1, <1>2

\* Owing a transition to a step of the procedure fits a running instance.
LEMMA MoveCallFits ==
    ASSUME NEW m \in Sessions, NEW i \in Insts, Running(m, i), ~Pending(m),
           GoodInstance(m.insts[i]), NEW to \in StepsOf(m.insts[i].proc) \cup Ends
    PROVE  /\ MoveCall(i, to) \in Calls /\ CallFits(m, MoveCall(i, to))
           /\ MoveCall(i, to).pc = "move" /\ MoveCall(i, to).inst = i
  <1>1. to \in Steps \cup Ends
    BY StepFacts DEF Running
  <1>2. /\ MoveCall(i, to) \in Calls /\ MoveCall(i, to).pc = "move"
        /\ MoveCall(i, to).inst = i /\ MoveCall(i, to).to = to
    BY <1>1 DEF MoveCall, NoCall, Calls, PCs
  <1> QED
    BY <1>2 DEF CallFits, OnInstance, Started, Running

\* Asking for a command fits an instance whose step or answer asked for it.
LEMMA CommandCallFits ==
    ASSUME NEW m \in Sessions, NEW i \in Insts, Running(m, i), ~Pending(m),
           GoodInstance(m.insts[i]), NEW fn \in Commands,
           NEW to \in StepsOf(m.insts[i].proc) \cup Ends \cup {None},
           StepOf(m.insts[i]).op = IF to = None THEN fn ELSE None
    PROVE  CommandCall(i, fn, to) \in Calls /\ CallFits(m, CommandCall(i, fn, to))
  <1> DEFINE c == CommandCall(i, fn, to)
  <1>1. to \in Steps \cup Ends \cup {None}
    BY StepFacts DEF Running
  <1>2. /\ c \in Calls /\ c.inst = i /\ c.fn = fn /\ c.to = to /\ c.retry = FALSE
        /\ c.pc = IF fn \in Prepared THEN "command" ELSE "run"
    BY <1>1 DEF CommandCall, NoCall, Calls, PCs
  <1> HIDE DEF c
  <1>3. Asked(m, c) /\ OnInstance(m, c)
    BY <1>2 DEF Asked, OnInstance, Started, Running
  <1>4. CallFits(m, c)
    BY <1>2, <1>3 DEF CallFits
  <1> QED
    BY <1>2, <1>4 DEF c

-----------------------------------------------------------------------------
\* Clearing the cancellation mark leaves a typed mark (clearCancellation).
LEMMA ClearCancellationType ==
    ASSUME NEW m \in Sessions, NEW i \in Insts
    PROVE  ClearCancellation(m.cancelled, i) \in {None} \cup Cancellations
  BY DEF ClearCancellation, Sessions

\* What a call on an instance that is running in the replay starts from.
LEMMA RunningData ==
    ASSUME SessionInv, NEW h \in Handles, fresh[h],
           call[h].pc \notin {"closed", "rebind", "done"},
           NEW i \in Insts, Running(mem[h], i)
    PROVE  /\ mem[h] \in Sessions /\ ledger \in Sessions
           /\ SameSession(mem[h], ledger, call[h])
           /\ mem[h].insts[i] \in Instances /\ GoodInstance(mem[h].insts[i])
           /\ mem[h].insts[i].status = "running"
           /\ ledger.insts[i] \in Instances
           /\ ledger.insts[i].proc = mem[h].insts[i].proc
           /\ ledger.insts[i].step = mem[h].insts[i].step
           /\ ledger.insts[i].store = mem[h].insts[i].store
           /\ ledger.insts[i].status = mem[h].insts[i].status
           /\ StepOf(ledger.insts[i]) = StepOf(mem[h].insts[i])
           /\ Running(ledger, i) /\ Started(ledger, i) /\ Started(mem[h], i)
           /\ Pending(mem[h]) <=> Pending(ledger)
           /\ ledger.cancelled = mem[h].cancelled
           /\ call[h].pc \notin {"move", "finish"} =>
                ledger.insts[i].opDone = mem[h].insts[i].opDone
  <1>1. /\ mem[h] \in Sessions /\ ledger \in Sessions
        /\ SameSession(mem[h], ledger, call[h]) /\ GoodSession(mem[h])
    BY LedgerFacts
  <1>2. /\ mem[h].insts[i] \in Instances /\ ledger.insts[i] \in Instances
        /\ GoodInstance(mem[h].insts[i])
    BY <1>1, InstanceFields DEF GoodSession
  <1>3. /\ Running(ledger, i) /\ (Pending(mem[h]) <=> Pending(ledger))
        /\ ledger.insts[i].proc = mem[h].insts[i].proc
        /\ ledger.insts[i].step = mem[h].insts[i].step
        /\ ledger.insts[i].store = mem[h].insts[i].store
        /\ ledger.insts[i].status = mem[h].insts[i].status
    BY <1>1, SameFields
  <1>4. /\ ledger.cancelled = mem[h].cancelled
        /\ call[h].pc \notin {"move", "finish"} =>
                ledger.insts[i].opDone = mem[h].insts[i].opDone
    BY <1>1, <1>3 DEF SameSession, OpDoneMatters
  <1> QED
    BY <1>1, <1>2, <1>3, <1>4 DEF StepOf, Running, Started

\* The same, with the instances alike but for opDone.
LEMMA RunningFacts ==
    ASSUME SessionInv, NEW h \in Handles, fresh[h],
           call[h].pc \notin {"closed", "rebind", "done"},
           NEW i \in Insts, Running(mem[h], i)
    PROVE  /\ mem[h] \in Sessions /\ ledger \in Sessions
           /\ SameSession(mem[h], ledger, call[h])
           /\ mem[h].insts[i] \in Instances /\ GoodInstance(mem[h].insts[i])
           /\ mem[h].insts[i].status = "running"
           /\ ledger.insts[i] \in Instances
           /\ [mem[h].insts[i] EXCEPT !.opDone = FALSE] = [ledger.insts[i] EXCEPT !.opDone = FALSE]
           /\ ledger.insts[i].proc = mem[h].insts[i].proc
           /\ ledger.insts[i].step = mem[h].insts[i].step
           /\ ledger.insts[i].store = mem[h].insts[i].store
           /\ ledger.insts[i].status = mem[h].insts[i].status
           /\ StepOf(ledger.insts[i]) = StepOf(mem[h].insts[i])
           /\ Running(ledger, i) /\ Started(ledger, i) /\ Started(mem[h], i)
           /\ Pending(mem[h]) <=> Pending(ledger)
           /\ ledger.cancelled = mem[h].cancelled
           /\ call[h].pc \notin {"move", "finish"} =>
                ledger.insts[i].opDone = mem[h].insts[i].opDone
  <1>1. [mem[h].insts[i] EXCEPT !.opDone = FALSE] = [ledger.insts[i] EXCEPT !.opDone = FALSE]
    BY LedgerFacts DEF SameSession
  <1> QED
    BY <1>1, RunningData

\* The instance a report makes of b.
Reported(b, fields) ==
    [b EXCEPT !.store.state = WriteState(b.store.state, fields),
              !.interactionStep = IF StepOf(b).op = None THEN b.step ELSE b.interactionStep]

\* The fold of a report replaces the reported instance, and only it.
LEMMA ReportReplaces ==
    ASSUME NEW s, NEW i, NEW step, NEW fields
    PROVE  ApplyReport(s, ReportEvent(i, step, fields)) =
                Replaced(s, i, Reported(s.insts[i], fields), ClearCancellation(s.cancelled, i))
  BY DEF ApplyReport, ReportEvent, Replaced, Reported

\* A report keeps the invariant (Session.Report).
LEMMA ReportPreserves ==
    ASSUME SessionInv, NEW h \in Handles, NEW i \in Insts, Report(h, i)
    PROVE  SessionInv'
  <1> DEFINE m == mem[h]
             inst == m.insts[i]
             l == ledger.insts[i]
             mark == ClearCancellation(m.cancelled, i)
  <1>1. /\ fresh[h] /\ call[h].pc = "idle" /\ ~Pending(m) /\ Running(m, i)
    BY DEF Report, Ready, At, CheckProgression, Log, AppendEvent, VerifiedBinding
  <1>2. PICK d \in Batches :
            /\ d \subseteq Specs[inst.proc].fields
            /\ \E fields \in FieldWrites(d) :
                Log(h, ReportEvent(i, inst.step, fields),
                    Replaced(m, i, Reported(inst, fields), mark), CallOn(i))
    BY DEF Report, Replaced, Reported
  <1>3. PICK fields \in FieldWrites(d) :
            Log(h, ReportEvent(i, inst.step, fields),
                Replaced(m, i, Reported(inst, fields), mark), CallOn(i))
    BY <1>2
  <1> DEFINE ev == ReportEvent(i, inst.step, fields)
             newM == Reported(inst, fields)
             newS == Reported(l, fields)
  <1>4. /\ m \in Sessions /\ ledger \in Sessions /\ SameSession(m, ledger, call[h])
        /\ inst \in Instances /\ l \in Instances /\ GoodInstance(inst)
        /\ [inst EXCEPT !.opDone = FALSE] = [l EXCEPT !.opDone = FALSE]
        /\ l.opDone = inst.opDone /\ inst.status = "running"
        /\ Running(ledger, i) /\ Started(ledger, i) /\ ledger.cancelled = m.cancelled
    BY <1>1, RunningFacts
  <1>5. /\ inst.proc \in Procs /\ inst.step \in StepsOf(inst.proc) /\ inst.step \in Steps
        /\ Specs[inst.proc].fields \subseteq StateFields
    BY <1>4, StepFacts, SpecsAssumption
  <1>6. WriteState(inst.store.state, fields) \in States
    BY <1>2, <1>4, <1>5, FieldWritesType, WriteStateType DEF Instances, Stores
  <1>7. l = inst
    BY <1>4 DEF Instances
  <1>8. newM \in Instances /\ newS = newM
    BY <1>4, <1>5, <1>6, <1>7 DEF Reported, Instances, Stores
  <1>9. newM.status = "running" /\ newM.proc = inst.proc /\ GoodInstance(newM)
    BY <1>4, <1>5 DEF Reported, GoodInstance, Instances, Stores
  <1>10. mark \in {None} \cup Cancellations
    BY <1>4, ClearCancellationType
  <1>11. Apply(ledger, ev) = Replaced(ledger, i, newS, mark)
    <2>1. ev.type = "report"
      BY DEF ReportEvent
    <2>2. Apply(ledger, ev) = ApplyReport(ledger, ev)
      BY <2>1, ApplyByType
    <2>3. ApplyReport(ledger, ev) =
            Replaced(ledger, i, Reported(l, fields), ClearCancellation(ledger.cancelled, i))
      BY ReportReplaces
    <2> QED
      BY <1>4, <2>2, <2>3
  <1>12. EventFits(ev) /\ Accepts(ledger, ev)
    BY <1>4 DEF ReportEvent, EventFits, Accepts
  <1>13. CallOn(i) \in Calls /\ CallFits(Replaced(m, i, newM, mark), CallOn(i))
    <2>1. ~Pending(Replaced(m, i, newM, mark)) /\ Started(Replaced(m, i, newM, mark), i)
      BY <1>1, <1>4, <1>8, <1>9 DEF Replaced, Pending, Started, Sessions
    <2> QED
      BY <2>1, CallOnFits
  <1> HIDE DEF newM, newS, mark, ev
  <1> QED
    BY <1>1, <1>3, <1>8, <1>9, <1>10, <1>11, <1>12, <1>13, ReplacePreserves DEF newM, mark, ev

\* What a session with one instance replaced still says of that instance.
LEMMA ReplacedFacts ==
    ASSUME NEW m \in Sessions, NEW i \in Insts, NEW new, NEW mark
    PROVE  /\ Replaced(m, i, new, mark).insts[i] = new
           /\ Replaced(m, i, new, mark).intent = m.intent
           /\ Pending(Replaced(m, i, new, mark)) <=> Pending(m)
           /\ Running(Replaced(m, i, new, mark), i) <=> new.status = "running"
           /\ Started(Replaced(m, i, new, mark), i) <=> new.status # "unstarted"
  <1>1. /\ Replaced(m, i, new, mark).insts[i] = new
        /\ Replaced(m, i, new, mark).intent = m.intent
        /\ Replaced(m, i, new, mark).intentDone = m.intentDone
    BY DEF Replaced, Sessions
  <1> QED
    BY <1>1 DEF Pending, Running, Started

\* The instance an answer makes of b.
Answered(b, fields, handoff) ==
    [b EXCEPT !.store.state = WriteState(b.store.state, fields),
              !.interactionStep = b.step, !.seed = handoff]

\* The fold of an answer replaces the answering instance, and only it: the
\* handoff derived from the logged choice is the one the answer made.
LEMMA AnswerReplaces ==
    ASSUME NEW s, NEW i, NEW fields, NEW o \in StepOf(s.insts[i]).options,
           WellFormedStep(s.insts[i].proc, s.insts[i].step)
    PROVE  ApplyAnswer(s, AnswerEvent(i, s.insts[i].step, o, fields)) =
                Replaced(s, i, Answered(s.insts[i], fields, RecordDispatchSeed(o)),
                         ClearCancellation(s.cancelled, i))
  <1> DEFINE ev == AnswerEvent(i, s.insts[i].step, o, fields)
             answered == {p \in SpecStep(s.insts[i].proc, ev.chooser).options :
                            p.choice = ev.choice}
  <1>1. ev.inst = i /\ ev.fields = fields /\ ev.choice = o.choice
        /\ ev.chooser = s.insts[i].step
    BY DEF AnswerEvent
  <1>2. answered = {o}
    BY <1>1 DEF WellFormedStep, SpecStep, StepOf
  <1>3. answered # {} /\ (CHOOSE p \in answered : TRUE) = o
    BY <1>2
  <1>4. ApplyAnswer(s, ev) =
            Replaced(s, i,
                [s.insts[i] EXCEPT
                    !.store.state = WriteState(@, fields),
                    !.interactionStep = s.insts[i].step,
                    !.seed = IF answered = {} THEN @
                             ELSE RecordDispatchSeed(CHOOSE p \in answered : TRUE)],
                ClearCancellation(s.cancelled, i))
    <2> HIDE DEF ev
    <2> QED
      BY <1>1 DEF ApplyAnswer, Replaced
  <1> HIDE DEF answered
  <1> QED
    BY <1>3, <1>4 DEF Answered

\* The handoff of a well-formed option is typed (recordDispatchSeed).
LEMMA DispatchSeedType ==
    ASSUME NEW proc, NEW step, WellFormedStep(proc, step),
           NEW o \in Specs[proc].steps[step].options
    PROVE  RecordDispatchSeed(o) \in Seeds
  BY DEF WellFormedStep, RecordDispatchSeed, Seeds, NoSeed

\* An answer keeps the invariant (Session.Answer).
LEMMA AnswerPreserves ==
    ASSUME SessionInv, NEW h \in Handles, NEW i \in Insts, Answer(h, i)
    PROVE  SessionInv'
  <1> DEFINE m == mem[h]
             inst == m.insts[i]
             l == ledger.insts[i]
             mark == ClearCancellation(m.cancelled, i)
             next(o) == IF o.call = None THEN MoveCall(i, o.to)
                        ELSE CommandCall(i, o.call, o.to)
  <1>1. /\ fresh[h] /\ call[h].pc = "idle" /\ ~Pending(m) /\ Running(m, i)
        /\ StepOf(inst).chooser # "gate"
    BY DEF Answer, Ready, At, CheckProgression, Log, AppendEvent, VerifiedBinding
  <1>2. PICK o \in StepOf(inst).options :
            \E fields \in UNION {FieldWrites(d) : d \in SUBSET o.collect} :
                Log(h, AnswerEvent(i, inst.step, o, fields),
                    Replaced(m, i, Answered(inst, fields, RecordDispatchSeed(o)), mark),
                    next(o))
    BY DEF Answer, Replaced, Answered
  <1>3. PICK fields \in UNION {FieldWrites(d) : d \in SUBSET o.collect} :
            Log(h, AnswerEvent(i, inst.step, o, fields),
                Replaced(m, i, Answered(inst, fields, RecordDispatchSeed(o)), mark), next(o))
    BY <1>2
  <1>4. PICK d \in SUBSET o.collect : fields \in FieldWrites(d)
    BY <1>3
  <1> DEFINE ev == AnswerEvent(i, inst.step, o, fields)
             newM == Answered(inst, fields, RecordDispatchSeed(o))
  <1>5. /\ m \in Sessions /\ ledger \in Sessions
        /\ inst \in Instances /\ l \in Instances /\ GoodInstance(inst)
        /\ [inst EXCEPT !.opDone = FALSE] = [l EXCEPT !.opDone = FALSE]
        /\ l.opDone = inst.opDone /\ inst.status = "running"
        /\ Started(ledger, i) /\ ledger.cancelled = m.cancelled
    BY <1>1, RunningFacts
  <1>6. l = inst
    BY <1>5 DEF Instances
  <1>7. /\ WellFormedStep(inst.proc, inst.step) /\ inst.step \in StepsOf(inst.proc)
        /\ inst.step \in Steps
    BY <1>5, StepFacts
  <1>8. /\ o.collect \subseteq StateFields /\ o.to \in StepsOf(inst.proc) \cup Ends
        /\ o.call \in Commands \cup {None} /\ StepOf(inst).op = None
        /\ RecordDispatchSeed(o) \in Seeds
    BY <1>1, <1>2, <1>7, DispatchSeedType DEF WellFormedStep, StepOf
  <1>9. WriteState(inst.store.state, fields) \in States
    BY <1>4, <1>5, <1>8, FieldWritesType, WriteStateType DEF Instances, Stores
  <1>10. newM \in Instances
    BY <1>5, <1>7, <1>8, <1>9 DEF Answered, Instances, Stores
  <1>11. /\ newM.status = "running" /\ newM.proc = inst.proc /\ newM.step = inst.step
         /\ GoodInstance(newM)
    BY <1>5, <1>7 DEF Answered, GoodInstance, Instances, Stores
  <1>12. mark \in {None} \cup Cancellations
    BY <1>5, ClearCancellationType
  <1>13. Apply(ledger, ev) = Replaced(ledger, i, newM, mark)
    <2>1. ev.type = "chooser_answer"
      BY DEF AnswerEvent
    <2>2. Apply(ledger, ev) = ApplyAnswer(ledger, ev)
      BY <2>1, ApplyByType
    <2>3. ApplyAnswer(ledger, AnswerEvent(i, l.step, o, fields)) =
            Replaced(ledger, i, Answered(l, fields, RecordDispatchSeed(o)),
                     ClearCancellation(ledger.cancelled, i))
      BY <1>2, <1>6, <1>7, AnswerReplaces
    <2> QED
      BY <1>5, <1>6, <2>2, <2>3
  <1>14. EventFits(ev) /\ Accepts(ledger, ev)
    BY <1>5 DEF AnswerEvent, EventFits, Accepts
  <1> DEFINE t == Replaced(m, i, newM, mark)
  <1> HIDE DEF newM, mark
  <1>15. /\ t.insts[i] = newM /\ ~Pending(t) /\ Running(t, i) /\ t \in Sessions
    <2>1. GoodSession(m) /\ Started(m, i)
      BY <1>1 DEF SessionInv, Running, Started
    <2>2. GoodSession(t)
      BY <1>1, <1>5, <1>10, <1>11, <1>12, <2>1, ReplaceGood
    <2> QED
      BY <1>1, <1>5, <1>11, <2>2, ReplacedFacts DEF GoodSession
  <1>16. StepOf(newM).op = None
    BY <1>8, <1>11 DEF StepOf
  <1> HIDE DEF ev
  <1>17. next(o) \in Calls /\ CallFits(t, next(o))
    <2>1. CASE o.call = None
      BY <1>8, <1>11, <1>15, <2>1, MoveCallFits
    <2>2. CASE o.call # None
      <3>1. o.to # None
        BY <1>7, <1>8, SpecsAssumption, <1>5, StepFacts
      <3> QED
        BY <1>8, <1>11, <1>15, <1>16, <2>2, <3>1, CommandCallFits
    <2> QED
      BY <2>1, <2>2
  <1>18. newM.opDone = newM.opDone /\ Log(h, ev, t, next(o))
    BY <1>3 DEF newM, mark, ev
  <1> HIDE DEF next
  <1> QED
    BY <1>1, <1>10, <1>11, <1>12, <1>13, <1>14, <1>17, <1>18, ReplacePreserves

\* Abandoning an instance keeps the invariant (Session.Abandon).
LEMMA AbandonPreserves ==
    ASSUME SessionInv, NEW h \in Handles, NEW i \in Insts, Abandon(h, i)
    PROVE  SessionInv'
  <1> DEFINE m == mem[h]
             inst == m.insts[i]
             l == ledger.insts[i]
             ev == EndEvent(i, EndAbandoned)
             newM == [inst EXCEPT !.status = "abandoned"]
             newS == [l EXCEPT !.status = "abandoned"]
             d == NoCall("done")
  <1>1. /\ fresh[h] /\ call[h].pc = "idle" /\ ~Pending(m) /\ Running(m, i)
        /\ Log(h, ev, [m EXCEPT !.insts[i] = newM], d)
    BY DEF Abandon, At, CheckProgression, Log, AppendEvent, VerifiedBinding
  <1>2. /\ m \in Sessions /\ ledger \in Sessions
        /\ inst \in Instances /\ l \in Instances /\ GoodInstance(inst)
        /\ [inst EXCEPT !.opDone = FALSE] = [l EXCEPT !.opDone = FALSE]
        /\ l.opDone = inst.opDone /\ inst.status = "running"
        /\ Started(ledger, i) /\ ledger.cancelled = m.cancelled
    BY <1>1, RunningFacts
  <1>3. l = inst
    BY <1>2 DEF Instances
  <1>4. /\ newM \in Instances /\ newM.status = "abandoned" /\ newM.proc = inst.proc
        /\ GoodInstance(newM) /\ newS = newM
    BY <1>2, <1>3 DEF GoodInstance, Instances, Statuses
  <1>5. m.cancelled \in {None} \cup Cancellations
    BY <1>2 DEF Sessions
  <1>6. ev.type = "abandoned" /\ ev.inst = i
    BY DEF EndEvent, EndAbandoned, EndCompleted
  <1>7. EventFits(ev) /\ Accepts(ledger, ev)
    BY <1>2, <1>6 DEF EventFits, Accepts
  <1>8. Apply(ledger, ev) = [ledger EXCEPT !.insts[i] = newS]
    <2>1. Apply(ledger, ev) = [ledger EXCEPT !.insts[ev.inst] = [@ EXCEPT !.status = "abandoned"]]
      BY <1>6, ApplyByType
    <2> QED
      BY <1>6, <2>1
  <1>9. d \in Calls /\ d.pc = "done"
    BY NoCallType DEF NoCall, PCs
  <1> HIDE DEF newM, newS, ev, d
  <1>10. Log(h, ev, Replaced(m, i, newM, m.cancelled), d)
    <2>1. [m EXCEPT !.insts[i] = newM] = Replaced(m, i, newM, m.cancelled)
      BY <1>2 DEF Replaced, Sessions
    <2> QED
      BY <1>1, <2>1
  <1>11. Apply(ledger, ev) = Replaced(ledger, i, newM, m.cancelled)
    <2>1. [ledger EXCEPT !.insts[i] = newM] = Replaced(ledger, i, newM, ledger.cancelled)
      BY <1>2 DEF Replaced, Sessions
    <2> QED
      BY <1>2, <1>4, <1>8, <2>1
  <1>12. CallFits(Replaced(m, i, newM, m.cancelled), d)
    BY <1>9 DEF CallFits
  <1> QED
    BY <1>1, <1>4, <1>5, <1>7, <1>9, <1>10, <1>11, <1>12, ReplacePreserves

\* The end event after a transition to an end keeps the invariant
\* (transitionTo).
LEMMA FinishPreserves ==
    ASSUME SessionInv, NEW h \in Handles, Finish(h) PROVE SessionInv'
  <1> DEFINE m == mem[h]
             i == call[h].inst
             inst == m.insts[i]
             l == ledger.insts[i]
             ending == IF call[h].to = EndCompleted THEN "completed" ELSE "abandoned"
             ev == EndEvent(i, call[h].to)
             newM == [inst EXCEPT !.status = ending]
             newS == [l EXCEPT !.status = ending]
  <1>1. /\ fresh[h] /\ call[h].pc = "finish" /\ Log(h, ev, [m EXCEPT !.insts[i] = newM], CallOn(i))
    BY DEF Finish, At, Log, AppendEvent, VerifiedBinding
  <1>2. i \in Insts /\ Running(m, i) /\ ~Pending(m)
    BY <1>1 DEF SessionInv, CallFits, OnInstance
  <1>3. /\ m \in Sessions /\ ledger \in Sessions
        /\ inst \in Instances /\ l \in Instances /\ GoodInstance(inst)
        /\ [inst EXCEPT !.opDone = FALSE] = [l EXCEPT !.opDone = FALSE]
        /\ inst.status = "running"
        /\ Started(ledger, i) /\ ledger.cancelled = m.cancelled
    BY SMTT(30), <1>1, <1>2, RunningFacts
  <1>4. ending \in {"completed", "abandoned"}
    OBVIOUS
  <1>5. ev.type = ending /\ ev.inst = i
    BY DEF EndEvent
  <1> HIDE DEF ending
  <1>6. /\ newM \in Instances /\ newM.status = ending /\ newM.proc = inst.proc
        /\ GoodInstance(newM) /\ newS \in Instances /\ newS.status = ending
        /\ [newM EXCEPT !.opDone = FALSE] = [newS EXCEPT !.opDone = FALSE]
    <2>1. newM \in Instances /\ newS \in Instances
      BY ZenonT(40), <1>3, <1>4 DEF Instances, Statuses
    <2>2. /\ newM.status = ending /\ newM.proc = inst.proc /\ newM.step = inst.step
          /\ newM.store = inst.store /\ newM.interactionStep = inst.interactionStep
          /\ newS.status = ending
      BY <1>3 DEF Instances
    <2>3. [newM EXCEPT !.opDone = FALSE] = [newS EXCEPT !.opDone = FALSE]
      <3>1. [newM EXCEPT !.opDone = FALSE] = [[inst EXCEPT !.opDone = FALSE] EXCEPT !.status = ending]
        BY <1>3 DEF Instances
      <3>2. [newS EXCEPT !.opDone = FALSE] = [[l EXCEPT !.opDone = FALSE] EXCEPT !.status = ending]
        BY <1>3 DEF Instances
      <3> QED
        BY <1>3, <3>1, <3>2
    <2> HIDE DEF newM, newS
    <2> QED
      BY <1>3, <2>1, <2>2, <2>3 DEF GoodInstance
  <1>7. m.cancelled \in {None} \cup Cancellations
    BY <1>3 DEF Sessions
  <1>8. EventFits(ev) /\ Accepts(ledger, ev)
    BY <1>2, <1>3, <1>4, <1>5 DEF EventFits, Accepts
  <1>9. Apply(ledger, ev) = [ledger EXCEPT !.insts[i] = newS]
    <2>1. Apply(ledger, ev) = [ledger EXCEPT !.insts[ev.inst] = [@ EXCEPT !.status = ending]]
      <3> HIDE DEF ev
      <3>1. CASE ending = "completed"
        <4>1. Apply(ledger, ev) = [ledger EXCEPT !.insts[ev.inst] = [@ EXCEPT !.status = "completed"]]
          <5>1. ev.type = "completed"
            BY <1>5, <3>1
          <5> QED
            BY <5>1, ApplyByType
        <4> QED
          BY <3>1, <4>1
      <3>2. CASE ending = "abandoned"
        <4>1. Apply(ledger, ev) = [ledger EXCEPT !.insts[ev.inst] = [@ EXCEPT !.status = "abandoned"]]
          <5>1. ev.type = "abandoned"
            BY <1>5, <3>2
          <5> QED
            BY <5>1, ApplyByType
        <4> QED
          BY <3>2, <4>1
      <3> QED
        BY <1>4, <3>1, <3>2
    <2> QED
      BY <1>5, <2>1
  <1> HIDE DEF newM, newS, ev
  <1>10. Log(h, ev, Replaced(m, i, newM, m.cancelled), CallOn(i))
    <2>1. [m EXCEPT !.insts[i] = newM] = Replaced(m, i, newM, m.cancelled)
      BY <1>2, <1>3 DEF Replaced, Sessions
    <2> QED
      BY <1>1, <2>1
  <1>11. Apply(ledger, ev) = Replaced(ledger, i, newS, m.cancelled)
    <2>1. [ledger EXCEPT !.insts[i] = newS] = Replaced(ledger, i, newS, ledger.cancelled)
      BY <1>2, <1>3 DEF Replaced, Sessions
    <2> QED
      BY <1>3, <1>9, <2>1
  <1>12. CallOn(i) \in Calls /\ CallFits(Replaced(m, i, newM, m.cancelled), CallOn(i))
    BY <1>2, <1>3, <1>4, <1>6, ReplacedFacts, CallOnFits
  <1> QED
    BY <1>1, <1>2, <1>4, <1>6, <1>7, <1>8, <1>10, <1>11, <1>12, ReplacePreserves

\* A transition keeps the invariant, to a step and to an end (transitionTo).
LEMMA TransitionPreserves ==
    ASSUME SessionInv, NEW h \in Handles, NEW i \in Insts,
           NEW to \in StepsOf(mem[h].insts[i].proc) \cup Ends,
           call[h].pc \in {"cascade", "move"}, call[h].inst = i,
           Running(mem[h], i), ~Pending(mem[h]),
           Log(h, TransitionEvent(i, to), Moved(mem[h], i, to), AfterMove(i, to))
    PROVE  SessionInv'
  <1> DEFINE m == mem[h]
             inst == m.insts[i]
             l == ledger.insts[i]
             ev == TransitionEvent(i, to)
             d == AfterMove(i, to)
  <1>1. fresh[h]
    BY DEF Log, AppendEvent, VerifiedBinding
  <1>2. /\ m \in Sessions /\ ledger \in Sessions /\ SameSession(m, ledger, call[h])
        /\ inst \in Instances /\ l \in Instances /\ GoodInstance(inst)
        /\ [inst EXCEPT !.opDone = FALSE] = [l EXCEPT !.opDone = FALSE]
        /\ inst.status = "running" /\ l.proc = inst.proc
        /\ Started(ledger, i) /\ ledger.cancelled = m.cancelled
        /\ ~Pending(ledger)
    BY <1>1, RunningFacts
  <1>3. ev.type = "transition" /\ ev.inst = i /\ ev.to = to
    BY DEF TransitionEvent
  <1>4. EventFits(ev) /\ Accepts(ledger, ev) /\ ~EndsSession(ev)
    BY <1>2, <1>3 DEF EventFits, Accepts, EndsSession
  <1>5. Apply(ledger, ev) = Moved(ledger, i, to)
    <2>1. Apply(ledger, ev) = ApplyTransition(ledger, ev)
      BY <1>3, ApplyByType
    <2>2. ApplyTransition(ledger, ev) =
            IF ev.to \in Ends THEN ledger
            ELSE [ledger EXCEPT !.insts[ev.inst] = [@ EXCEPT !.step = ev.to, !.opDone = FALSE]]
      BY DEF ApplyTransition
    <2> HIDE DEF ev
    <2> QED
      BY <1>3, <2>1, <2>2 DEF Moved
  <1>6. CASE to \in Ends
    <2>1. Moved(m, i, to) = m /\ Apply(ledger, ev) = ledger
      BY <1>5, <1>6 DEF Moved
    <2>2. /\ d \in Calls /\ d.pc = "finish" /\ d.inst = i
      BY <1>6 DEF AfterMove, NoCall, Calls, PCs
    <2>3. CallFits(m, d)
      BY AfterMoveFits
    <2>4. GoodSession(m) /\ GoodSession(ledger) /\ view[h] = branch
      BY <1>1, LedgerFacts
    <2>5. SameSession(m, ledger, d)
      BY <1>2, <2>2 DEF SameSession, OpDoneMatters
    <2> HIDE DEF ev, d
    <2>6. Log(h, ev, m, d)
      BY <2>1 DEF ev, d
    <2> QED
      BY <1>4, <2>1, <2>2, <2>3, <2>4, <2>5, <2>6, LogPreserves
  <1>7. CASE to \notin Ends
    <2> DEFINE newM == [inst EXCEPT !.step = to, !.opDone = FALSE]
               newS == [l EXCEPT !.step = to, !.opDone = FALSE]
    <2>1. to \in StepsOf(inst.proc) /\ to \in Steps
      BY <1>2, <1>7, StepFacts
    <2>2. /\ newM \in Instances /\ newM.status = "running" /\ newM.proc = inst.proc
          /\ GoodInstance(newM) /\ newS \in Instances /\ newM.opDone = newS.opDone
          /\ [newM EXCEPT !.opDone = FALSE] = [newS EXCEPT !.opDone = FALSE]
      BY ZenonT(40), <1>2, <2>1 DEF GoodInstance, Instances
    <2>3. m.cancelled \in {None} \cup Cancellations
      BY <1>2 DEF Sessions
    <2>4. /\ Moved(m, i, to) = [m EXCEPT !.insts[i] = newM]
          /\ Moved(ledger, i, to) = [ledger EXCEPT !.insts[i] = newS]
      BY <1>7 DEF Moved
    <2> HIDE DEF newM, newS, ev, d
    <2>5. Log(h, ev, Replaced(m, i, newM, m.cancelled), d)
      <3>1. [m EXCEPT !.insts[i] = newM] = Replaced(m, i, newM, m.cancelled)
        BY <1>2 DEF Replaced, Sessions
      <3> QED
        BY <2>4, <3>1 DEF ev, d
    <2>6. Apply(ledger, ev) = Replaced(ledger, i, newS, m.cancelled)
      <3>1. [ledger EXCEPT !.insts[i] = newS] = Replaced(ledger, i, newS, ledger.cancelled)
        BY <1>2 DEF Replaced, Sessions
      <3> QED
        BY <1>2, <1>5, <2>4, <3>1
    <2>7. d \in Calls /\ CallFits(Replaced(m, i, newM, m.cancelled), d)
      BY <1>2, <2>2, ReplacedFacts, AfterMoveFits DEF d
    <2> QED
      BY <1>4, <2>2, <2>3, <2>5, <2>6, <2>7, ReplacePreserves
  <1> QED
    BY <1>6, <1>7

\* The transition an answer or a reopening owes keeps the invariant.
LEMMA MovePreserves ==
    ASSUME SessionInv, NEW h \in Handles, Move(h) PROVE SessionInv'
  <1>1. CallFits(mem[h], call[h]) /\ call[h].pc = "move"
    BY DEF SessionInv, Move, At
  <1> QED
    BY <1>1, TransitionPreserves DEF Move, CallFits, OnInstance

\* The transition a gate fires keeps the invariant (cascade).
LEMMA AdvancePreserves ==
    ASSUME SessionInv, NEW h \in Handles, Advance(h) PROVE SessionInv'
  <1> DEFINE m == mem[h]
             i == call[h].inst
             inst == m.insts[i]
  <1>1. /\ CallFits(m, call[h]) /\ call[h].pc = "cascade" /\ GoodSession(m)
        /\ Running(m, i)
    BY DEF SessionInv, Advance, OnGate
  <1>2. i \in Insts /\ ~Pending(m)
    BY <1>1 DEF CallFits, OnInstance
  <1>3. PICK k \in FirstFiring(h, StepOf(inst).transitions) :
            LET to == StepOf(inst).transitions[k].to
            IN  Log(h, TransitionEvent(i, to), Moved(m, i, to), AfterMove(i, to))
    BY DEF Advance
  <1>4. k \in DOMAIN StepOf(inst).transitions
    BY <1>3 DEF FirstFiring
  <1>5. WellFormedStep(inst.proc, inst.step)
    BY <1>1, <1>2, StepFacts DEF GoodSession, Running
  <1>6. StepOf(inst).transitions[k].to \in StepsOf(inst.proc) \cup Ends
    BY <1>4, <1>5 DEF WellFormedStep, StepOf
  <1> QED
    BY <1>1, <1>2, <1>3, <1>6, TransitionPreserves

-----------------------------------------------------------------------------
\* The instance the writes w of a command make of b.
Imported(b, w, done) ==
    [b EXCEPT !.store.eng = ImportWrites(b.store.eng, w), !.opDone = b.opDone \/ done]

\* Writes that record no confirmation of another procedure's step.
WritesFit(w, proc) ==
    "confirmation" \in DOMAIN w /\ w.confirmation # None
        => w.confirmation.step \in StepsOf(proc)

\* An instance that imported typed writes is typed and good.
LEMMA ImportedType ==
    ASSUME NEW b \in Instances, GoodInstance(b), NEW w, WritesTyped(w),
           WritesFit(w, b.proc), NEW done \in BOOLEAN
    PROVE  /\ Imported(b, w, done) \in Instances
           /\ Imported(b, w, done).status = b.status /\ Imported(b, w, done).proc = b.proc
           /\ Imported(b, w, done).step = b.step
           /\ Imported(b, w, done).store.state = b.store.state
           /\ Imported(b, w, done).store.eng = ImportWrites(b.store.eng, w)
           /\ Imported(b, w, done).opDone = (b.opDone \/ done)
           /\ Imported(b, w, done).interactionStep = b.interactionStep
           /\ GoodInstance(Imported(b, w, done))
  <1> DEFINE eng == ImportWrites(b.store.eng, w)
             new == Imported(b, w, done)
  <1>1. b.store \in Stores /\ b.store.eng \in EngineValues
    BY DEF Instances, Stores
  <1>2. eng \in EngineValues
    BY <1>1, ImportWritesType
  <1>3. eng.confirmation = IF "confirmation" \in DOMAIN w THEN w.confirmation
                           ELSE b.store.eng.confirmation
    BY DEF ImportWrites, Written
  <1>4. new = [b EXCEPT !.store.eng = eng, !.opDone = b.opDone \/ done]
    BY DEF Imported
  <1> HIDE DEF eng, new
  <1>5. /\ new \in Instances /\ new.status = b.status /\ new.proc = b.proc
        /\ new.step = b.step /\ new.store.state = b.store.state /\ new.store.eng = eng
        /\ new.opDone = (b.opDone \/ done) /\ new.interactionStep = b.interactionStep
    BY <1>1, <1>2, <1>4 DEF Instances, Stores
  <1>6. GoodInstance(new)
    BY <1>3, <1>5 DEF GoodInstance, WritesFit
  <1> QED
    BY <1>5, <1>6 DEF eng, new

\* Importing the same writes leaves instances alike but for opDone.
LEMMA ImportedSame ==
    ASSUME NEW b \in Instances, NEW l \in Instances, NEW w,
           [b EXCEPT !.opDone = FALSE] = [l EXCEPT !.opDone = FALSE],
           NEW done1, NEW done2
    PROVE  [Imported(b, w, done1) EXCEPT !.opDone = FALSE] =
                [Imported(l, w, done2) EXCEPT !.opDone = FALSE]
  <1>1. /\ b.proc = l.proc /\ b.parent = l.parent /\ b.store = l.store /\ b.step = l.step
        /\ b.status = l.status /\ b.interactionStep = l.interactionStep /\ b.seed = l.seed
    BY DEF Instances
  <1> QED
    BY <1>1 DEF Imported, Instances, Stores

\* The fold of an op_result replaces its instance, and only it.
LEMMA ResultReplaces ==
    ASSUME NEW s \in Sessions, NEW i \in Insts, NEW step, NEW fn, NEW w
    PROVE  ApplyResult(s, ResultEvent(i, step, fn, w)) =
                Replaced(s, i, Imported(s.insts[i], w,
                                        step = s.insts[i].step /\ StepOf(s.insts[i]).op = fn),
                         s.cancelled)
  <1> DEFINE ev == ResultEvent(i, step, fn, w)
             new == Imported(s.insts[i], w, step = s.insts[i].step /\ StepOf(s.insts[i]).op = fn)
  <1>1. /\ ev.type = "op_result" /\ ev.inst = i /\ ev.step = step /\ ev.command = fn
        /\ ev.writes = w
    BY DEF ResultEvent
  <1> HIDE DEF ev
  <1>2. ApplyResult(s, ev) =
            [s EXCEPT !.insts[i] = new,
                      !.intentDone = @ \/ ev.type = "mutation_outcome",
                      !.intentStore = IF ev.type = "mutation_outcome" THEN None ELSE @]
    BY <1>1 DEF ApplyResult, Imported
  <1> HIDE DEF new
  <1>3. ApplyResult(s, ev) = [s EXCEPT !.insts[i] = new]
    BY <1>1, <1>2 DEF Sessions
  <1>4. [s EXCEPT !.insts[i] = new] = Replaced(s, i, new, s.cancelled)
    BY DEF Replaced, Sessions
  <1> QED
    BY <1>3, <1>4 DEF ev, new

\* A command's result is logged and becomes its instance's.
LEMMA ResultPreserves ==
    ASSUME SessionInv, NEW h \in Handles, NEW i \in Insts,
           call[h].pc \in {"cascade", "run"}, Running(mem[h], i), ~Pending(mem[h]),
           NEW fn, NEW w, WritesTyped(w), WritesFit(w, mem[h].insts[i].proc),
           fn = "preflightEntry" => w.branch \in Values \cup {None},
           NEW done \in BOOLEAN, NEW d \in Calls,
           \/ done <=> StepOf(mem[h].insts[i]).op = fn
           \/ d.pc = "move" /\ d.inst = i,
           Log(h, ResultEvent(i, mem[h].insts[i].step, fn, w),
               Replaced(mem[h], i, Imported(mem[h].insts[i], w, done), mem[h].cancelled), d),
           CallFits(Replaced(mem[h], i, Imported(mem[h].insts[i], w, done),
                             mem[h].cancelled), d)
    PROVE  SessionInv'
  <1> DEFINE m == mem[h]
             inst == m.insts[i]
             l == ledger.insts[i]
  <1>1. fresh[h]
    BY DEF Log, AppendEvent, VerifiedBinding
  <1>2. /\ m \in Sessions /\ ledger \in Sessions
        /\ inst \in Instances /\ l \in Instances /\ GoodInstance(inst)
        /\ [inst EXCEPT !.opDone = FALSE] = [l EXCEPT !.opDone = FALSE]
        /\ inst.status = "running" /\ l.opDone = inst.opDone
        /\ Started(ledger, i) /\ ledger.cancelled = m.cancelled
    BY <1>1, RunningFacts
  <1>3. l = inst
    BY <1>2 DEF Instances
  <1>4. Running(ledger, i)
    BY <1>2, <1>3 DEF Running
  <1> DEFINE ev == ResultEvent(i, inst.step, fn, w)
             newM == Imported(inst, w, done)
             newS == Imported(l, w, inst.step = l.step /\ StepOf(l).op = fn)
  <1>5. /\ newM \in Instances /\ newM.status = "running" /\ newM.proc = inst.proc
        /\ GoodInstance(newM) /\ newM.opDone = (inst.opDone \/ done)
    BY <1>2, ImportedType
  <1> DEFINE own == StepOf(inst).op = fn
  <1>6. newS = Imported(inst, w, own) /\ own \in BOOLEAN
    BY <1>3
  <1>7. newS \in Instances /\ newS.opDone = (inst.opDone \/ own)
    <2> HIDE DEF own
    <2> QED
      BY SMTT(30), <1>2, <1>6, ImportedType
  <1>8. [newM EXCEPT !.opDone = FALSE] = [newS EXCEPT !.opDone = FALSE]
    BY SMTT(30), <1>2, <1>6, ImportedSame
  <1>9. m.cancelled \in {None} \cup Cancellations
    BY <1>2 DEF Sessions
  <1>10. /\ ev.type = "op_result" /\ ev.inst = i /\ ev.command = fn
         /\ ev.step = inst.step /\ ev.writes = w
    BY DEF ResultEvent
  <1>11. EventFits(ev) /\ Accepts(ledger, ev)
    BY <1>2, <1>4, <1>10 DEF EventFits, Accepts
  <1>12. Apply(ledger, ev) = Replaced(ledger, i, newS, m.cancelled)
    <2>1. Apply(ledger, ev) = ApplyResult(ledger, ev)
      BY <1>10, ApplyByType
    <2>2. ApplyResult(ledger, ev) = Replaced(ledger, i, newS, ledger.cancelled)
      BY <1>2, ResultReplaces
    <2> QED
      BY <1>2, <2>1, <2>2
  <1>13. Log(h, ev, Replaced(m, i, newM, m.cancelled), d)
    OBVIOUS
  <1>14. CallFits(Replaced(m, i, newM, m.cancelled), d)
    OBVIOUS
  <1>15. newM.opDone = newS.opDone \/ (d.inst = i /\ d.pc \in {"move", "finish"})
    BY <1>5, <1>7
  <1> HIDE DEF newM, newS, ev
  <1> QED
    BY <1>5, <1>7, <1>8, <1>9, <1>11, <1>12, <1>13, <1>14, <1>15, ReplacePreserves

\* Reopening a stale playback keeps the invariant (reopenStalePlayback).
LEMMA ReopenPlaybackPreserves ==
    ASSUME SessionInv, NEW h \in Handles, NEW i \in Insts, call[h].inst = i,
           ReopenPlayback(h)
    PROVE  SessionInv'
  <1> DEFINE m == mem[h]
             inst == m.insts[i]
             was == inst.store.eng.confirmation
             reopened == [inst EXCEPT !.store.eng.confirmation = None]
             d == MoveCall(i, was.step)
  <1>1. /\ fresh[h] /\ call[h].pc = "cascade" /\ Running(m, i) /\ was # None
        /\ Log(h, ResultEvent(i, inst.step, "reopenPlayback", [confirmation |-> None]),
               [m EXCEPT !.insts[i] = reopened], d)
    BY DEF ReopenPlayback, OnGate, ConfirmationStale, Log, AppendEvent, VerifiedBinding
  <1>2. ~Pending(m)
    BY <1>1 DEF SessionInv, CallFits, OnInstance
  <1>3. m \in Sessions /\ inst \in Instances /\ GoodInstance(inst) /\ inst.status = "running"
    BY <1>1, RunningFacts
  <1> DEFINE w == [confirmation |-> None]
  <1>4. WritesTyped(w) /\ WritesFit(w, inst.proc)
    BY DEF WritesTyped, WritesFit, EmptyEngine
  <1>5. reopened = Imported(inst, w, FALSE)
    <2>1. inst.store \in Stores /\ inst.store.eng \in EngineValues
      BY <1>3 DEF Instances, Stores
    <2>2. ImportWrites(inst.store.eng, w) = [inst.store.eng EXCEPT !.confirmation = None]
      <3>1. /\ "confirmation" \in DOMAIN w /\ w.confirmation = None
            /\ \A f \in {"findings", "override", "branch", "entry", "guide", "reviewed",
                         "marker"} : f \notin DOMAIN w
        OBVIOUS
      <3> HIDE DEF w
      <3> QED
        BY SMTT(30), <2>1, <3>1 DEF ImportWrites, Written, EngineValues
    <2> HIDE DEF w
    <2> QED
      BY <1>3, <2>1, <2>2 DEF Imported, Instances, Stores
  <1> HIDE DEF w, reopened
  <1>6. /\ reopened \in Instances /\ reopened.status = "running" /\ reopened.proc = inst.proc
        /\ GoodInstance(reopened)
    <2> DEFINE no == FALSE
    <2>1. no \in BOOLEAN /\ reopened = Imported(inst, w, no)
      BY <1>5
    <2> HIDE DEF no
    <2> QED
      BY <1>3, <1>4, <2>1, ImportedType
  <1>7. was.step \in StepsOf(reopened.proc)
    BY <1>1, <1>3, <1>6 DEF GoodInstance
  <1>8. m.cancelled \in {None} \cup Cancellations
    BY <1>3 DEF Sessions
  <1> DEFINE t == Replaced(m, i, reopened, m.cancelled)
  <1>9. [m EXCEPT !.insts[i] = reopened] = t
    BY <1>3 DEF Replaced, Sessions
  <1>10. t.insts[i] = reopened /\ ~Pending(t) /\ Running(t, i)
    BY <1>2, <1>3, <1>6, ReplacedFacts
  <1>11. t \in Sessions
    BY <1>3, <1>6, <1>8 DEF Replaced, Sessions
  <1>12. Log(h, ResultEvent(i, inst.step, "reopenPlayback", w), t, d)
    BY <1>1, <1>9 DEF w
  <1> HIDE DEF t
  <1>13. d \in Calls /\ CallFits(t, d) /\ d.pc = "move" /\ d.inst = i
    BY SMTT(30), <1>6, <1>7, <1>10, <1>11, MoveCallFits
  <1> HIDE DEF d
  <1> QED
    BY <1>1, <1>2, <1>4, <1>5, <1>12, <1>13, ResultPreserves DEF t

\* A command's writes are typed and record no confirmation at a step of
\* another procedure.
LEMMA WritesFacts ==
    ASSUME NEW store, NEW step, NEW target, NEW ref, NEW command \in Commands,
           NEW w \in Writes(command, store, step, ref, target)
    PROVE  /\ "confirmation" \in DOMAIN w /\ w.confirmation # None
                => w.confirmation.step = step
           /\ command = "preflightEntry" => w.branch = target
  BY CommandsAssumption DEF WorkflowCommands, Writes, NoWrites

\* What follows a finished command fits the session after it.
LEMMA AfterCommandFits ==
    ASSUME NEW m \in Sessions, NEW i \in Insts, Running(m, i), ~Pending(m),
           GoodInstance(m.insts[i]), NEW c, c.inst = i,
           c.to \in StepsOf(m.insts[i].proc) \cup Ends \cup {None}
    PROVE  /\ AfterCommand(c) \in Calls /\ CallFits(m, AfterCommand(c))
           /\ c.to # None => AfterCommand(c).pc = "move" /\ AfterCommand(c).inst = i
           /\ AfterCommand(c).pc \in {"move", "cascade"}
  <1>1. CASE c.to # None
    BY <1>1, MoveCallFits DEF AfterCommand
  <1>2. CASE c.to = None
    <2>1. CallOn(i) \in Calls /\ CallFits(m, CallOn(i))
      BY CallOnFits DEF Running, Started
    <2>2. CallOn(i).pc = "cascade"
      BY DEF CallOn, NoCall
    <2> QED
      BY <1>2, <2>1, <2>2 DEF AfterCommand
  <1> QED
    BY <1>1, <1>2

\* Running an unprepared command keeps the invariant (runCommand).
LEMMA RunCommandPreserves ==
    ASSUME SessionInv, NEW h \in Handles, NEW i \in Insts, call[h].inst = i,
           RunCommand(h)
    PROVE  SessionInv'
  <1> DEFINE m == mem[h]
             c == call[h]
             inst == m.insts[i]
             target == Target(h, i)
  <1>1. /\ c.pc = "run" /\ fresh[h] /\ CallFits(m, c)
        /\ view[h] \in Branches \cup {None}
    BY DEF SessionInv, TypeOK, RunCommand, At, Log, AppendEvent, VerifiedBinding
  <1>2. /\ Running(m, i) /\ ~Pending(m) /\ c.fn \in Commands /\ c.fn \notin Prepared
        /\ StepOf(inst).op = IF c.to = None THEN c.fn ELSE None
        /\ c.to \in StepsOf(inst.proc) \cup Ends \cup {None}
    BY <1>1 DEF CallFits, Asked
  <1>3. /\ m \in Sessions /\ inst \in Instances /\ GoodInstance(inst)
        /\ inst.status = "running"
    BY <1>1, <1>2, RunningFacts
  <1>4. inst.store \in Stores /\ inst.step \in StepsOf(inst.proc) /\ inst.step \in Steps
    BY <1>3, StepFacts DEF Instances
  <1>5. target \in Values
    BY <1>1, <1>4, EffectiveTargetType DEF Target
  <1> DEFINE done == c.to = None
             imported(w) == Imported(inst, w, done)
  <1>6. PICK w \in Writes(c.fn, inst.store, inst.step, None, target) :
            Log(h, ResultEvent(i, inst.step, c.fn, w),
                [m EXCEPT !.insts[i] = imported(w)], AfterCommand(c))
    BY DEF RunCommand, Imported
  <1>7. WritesTyped(w)
    BY <1>2, <1>4, <1>5, <1>6, WritesType
  <1>8. WritesFit(w, inst.proc) /\ (c.fn = "preflightEntry" => w.branch \in Values \cup {None})
    BY <1>2, <1>4, <1>5, <1>6, WritesFacts DEF WritesFit
  <1>9. done \in BOOLEAN /\ (done <=> StepOf(inst).op = c.fn)
    BY <1>2
  <1> DEFINE new == Imported(inst, w, done)
             t == Replaced(m, i, new, m.cancelled)
  <1>10. new \in Instances /\ new.status = "running" /\ new.proc = inst.proc /\ GoodInstance(new)
    <2> HIDE DEF done
    <2> QED
      BY <1>3, <1>7, <1>8, <1>9, ImportedType
  <1> HIDE DEF new
  <1>11. [m EXCEPT !.insts[i] = new] = t
    BY <1>3 DEF Replaced, Sessions
  <1>12. Log(h, ResultEvent(i, inst.step, c.fn, w), t, AfterCommand(c))
    BY <1>6, <1>11 DEF new
  <1>13. t.insts[i] = new /\ ~Pending(t) /\ Running(t, i)
    BY <1>2, <1>3, <1>10, ReplacedFacts
  <1>14. t \in Sessions
    BY <1>3, <1>10 DEF Replaced, Sessions
  <1> HIDE DEF t
  <1>15. AfterCommand(c) \in Calls /\ CallFits(t, AfterCommand(c))
    BY <1>2, <1>10, <1>13, <1>14, AfterCommandFits
  <1> HIDE DEF done, target
  <1> QED
    BY <1>1, <1>2, <1>7, <1>8, <1>9, <1>12, <1>15, ResultPreserves DEF t, new

-----------------------------------------------------------------------------
\* s with its operation resolved: one instance replaced, the mark set.
Resolved(s, i, new, mark) ==
    [s EXCEPT !.insts[i] = new, !.cancelled = mark, !.intentStore = None, !.intentDone = TRUE]

\* What a session with its operation resolved holds.
LEMMA ResolvedFacts ==
    ASSUME NEW s \in Sessions, NEW i \in Insts, NEW new, NEW mark
    PROVE  /\ Resolved(s, i, new, mark).insts[i] = new
           /\ \A j \in Insts : j # i => Resolved(s, i, new, mark).insts[j] = s.insts[j]
           /\ Resolved(s, i, new, mark).counter = s.counter
           /\ Resolved(s, i, new, mark).intent = s.intent
           /\ Resolved(s, i, new, mark).intentDone
           /\ Resolved(s, i, new, mark).intentStore = None
           /\ Resolved(s, i, new, mark).cancelled = mark
           /\ ~Pending(Resolved(s, i, new, mark))
           /\ Running(Resolved(s, i, new, mark), i) <=> new.status = "running"
           /\ Started(Resolved(s, i, new, mark), i) <=> new.status # "unstarted"
  <1>1. /\ Resolved(s, i, new, mark).insts[i] = new
        /\ \A j \in Insts : j # i => Resolved(s, i, new, mark).insts[j] = s.insts[j]
        /\ Resolved(s, i, new, mark).counter = s.counter
        /\ Resolved(s, i, new, mark).intent = s.intent
        /\ Resolved(s, i, new, mark).intentDone
        /\ Resolved(s, i, new, mark).intentStore = None
        /\ Resolved(s, i, new, mark).cancelled = mark
    BY DEF Resolved, Sessions
  <1> QED
    BY <1>1 DEF Pending, Running, Started

\* Resolving the pending operation leaves a good session good.
LEMMA ResolveGood ==
    ASSUME NEW s, GoodSession(s), NEW i \in Insts, Started(s, i),
           NEW new \in Instances, new.status # "unstarted",
           new.proc = s.insts[i].proc, GoodInstance(new),
           NEW mark \in {None} \cup Cancellations
    PROVE  GoodSession(Resolved(s, i, new, mark))
  <1> DEFINE t == Resolved(s, i, new, mark)
  <1>1. s \in Sessions
    BY DEF GoodSession
  <1>2. t \in Sessions
    BY <1>1 DEF Resolved, Sessions
  <1>3. /\ t.insts[i] = new /\ \A j \in Insts : j # i => t.insts[j] = s.insts[j]
        /\ t.counter = s.counter /\ t.intent = s.intent /\ ~Pending(t)
    BY <1>1, ResolvedFacts
  <1> HIDE DEF t
  <1>4. \A j \in Insts : GoodInstance(t.insts[j])
    BY <1>3 DEF GoodSession
  <1>5. \A j \in Insts : j > t.counter => ~Started(t, j)
    BY <1>3 DEF GoodSession, Started
  <1>6. \A j \in Insts : Started(s, j) => Started(t, j) /\ t.insts[j].proc = s.insts[j].proc
    BY <1>3 DEF Started
  <1>7. t.intent # None => t.intent.inst \in Insts
    BY <1>1, <1>3 DEF Sessions, Intents
  <1>8. GoodIntent(t)
    BY <1>3, <1>6, <1>7 DEF GoodSession, GoodIntent
  <1> QED
    BY <1>2, <1>4, <1>5, <1>8 DEF GoodSession, t

\* Resolving the same operation in a live session and in the replayed one
\* leaves them the same.
LEMMA ResolveSame ==
    ASSUME NEW m \in Sessions, NEW s \in Sessions, NEW c, SameSession(m, s, c),
           NEW i \in Insts, NEW newM \in Instances, NEW newS \in Instances,
           [newM EXCEPT !.opDone = FALSE] = [newS EXCEPT !.opDone = FALSE],
           NEW mark, NEW d,
           c.pc \notin {"move", "finish"},
           \/ newM.opDone = newS.opDone
           \/ newS.status # "running"
           \/ d.inst = i /\ d.pc \in {"move", "finish"}
    PROVE  SameSession(Resolved(m, i, newM, mark), Resolved(s, i, newS, mark), d)
  <1> DEFINE u == Resolved(m, i, newM, mark)
             t == Resolved(s, i, newS, mark)
  <1>1. /\ u.insts[i] = newM /\ \A j \in Insts : j # i => u.insts[j] = m.insts[j]
        /\ u.counter = m.counter /\ u.intent = m.intent /\ u.cancelled = mark
        /\ u.intentStore = None
    BY ResolvedFacts
  <1>2. /\ t.insts[i] = newS /\ \A j \in Insts : j # i => t.insts[j] = s.insts[j]
        /\ t.counter = s.counter /\ t.intent = s.intent /\ t.cancelled = mark
        /\ t.intentStore = None
    BY ResolvedFacts
  <1>3. u.intentDone = TRUE /\ t.intentDone = TRUE
    BY DEF Resolved, Sessions
  <1> HIDE DEF u, t
  <1>4. ASSUME NEW j \in Insts
        PROVE  /\ [u.insts[j] EXCEPT !.opDone = FALSE] = [t.insts[j] EXCEPT !.opDone = FALSE]
               /\ OpDoneMatters(t, d, j) => u.insts[j].opDone = t.insts[j].opDone
    <2>1. CASE j = i
      BY <1>1, <1>2, <2>1 DEF OpDoneMatters, Running
    <2>2. CASE j # i
      <3>1. u.insts[j] = m.insts[j] /\ t.insts[j] = s.insts[j]
        BY <1>1, <1>2, <2>2
      <3>2. OpDoneMatters(t, d, j) => OpDoneMatters(s, c, j)
        BY <2>2, <3>1 DEF OpDoneMatters, Running
      <3> QED
        BY <3>1, <3>2 DEF SameSession
    <2> QED
      BY <2>1, <2>2
  <1>5. m.counter = s.counter /\ m.intent = s.intent
    BY DEF SameSession
  <1> QED
    BY <1>1, <1>2, <1>3, <1>4, <1>5 DEF SameSession, u, t

\* The steps that log the event resolving an operation.
LEMMA ResolvePreserves ==
    ASSUME SessionInv, NEW h \in Handles, NEW ev, NEW i \in Insts,
           NEW newM \in Instances, NEW newS \in Instances,
           NEW mark \in {None} \cup Cancellations, NEW d \in Calls,
           call[h].pc \in {"idle", "outcome"}, Running(mem[h], i),
           newM.status # "unstarted", newM.proc = mem[h].insts[i].proc,
           GoodInstance(newM),
           [newM EXCEPT !.opDone = FALSE] = [newS EXCEPT !.opDone = FALSE],
           \/ newM.opDone = newS.opDone
           \/ newS.status # "running"
           \/ d.inst = i /\ d.pc \in {"move", "finish"},
           Log(h, ev, Resolved(mem[h], i, newM, mark), d),
           Apply(ledger, ev) = Resolved(ledger, i, newS, mark),
           EventFits(ev), Accepts(ledger, ev),
           CallFits(Resolved(mem[h], i, newM, mark), d)
    PROVE  SessionInv'
  <1>1. fresh[h]
    BY DEF Log, AppendEvent, VerifiedBinding
  <1>2. /\ SameSession(mem[h], ledger, call[h]) /\ view[h] = branch
        /\ GoodSession(mem[h]) /\ GoodSession(ledger)
        /\ mem[h] \in Sessions /\ ledger \in Sessions
    BY <1>1, LedgerFacts
  <1>3. Running(ledger, i) /\ Started(ledger, i) /\ Started(mem[h], i)
        /\ ledger.insts[i].proc = mem[h].insts[i].proc
    BY <1>2, SameFields DEF Running, Started
  <1>4. /\ newS.status = newM.status /\ newS.proc = newM.proc /\ newS.step = newM.step
        /\ newS.interactionStep = newM.interactionStep /\ newS.store = newM.store
    BY DEF Instances
  <1>5. GoodInstance(newS)
    BY <1>4 DEF GoodInstance
  <1>6. GoodSession(Apply(ledger, ev)) /\ ~Pending(Apply(ledger, ev))
    BY <1>2, <1>3, <1>4, <1>5, ResolveGood, ResolvedFacts
  <1>7. GoodSession(Resolved(mem[h], i, newM, mark))
    BY <1>2, <1>3, ResolveGood
  <1>8. SameSession(Resolved(mem[h], i, newM, mark), Resolved(ledger, i, newS, mark), d)
    BY <1>2, ResolveSame
  <1> QED
    BY <1>2, <1>6, <1>7, <1>8, LogPreserves

\* The instance a cancellation makes of b.
Returned(b) ==
    IF b.interactionStep = None
    THEN [b EXCEPT !.status = "abandoned", !.opDone = FALSE]
    ELSE [b EXCEPT !.step = b.interactionStep, !.opDone = FALSE]

\* The instance a cancellation returns is typed and good.
LEMMA ReturnedType ==
    ASSUME NEW b \in Instances, GoodInstance(b), b.status = "running"
    PROVE  /\ Returned(b) \in Instances /\ Returned(b).status # "unstarted"
           /\ Returned(b).proc = b.proc /\ GoodInstance(Returned(b))
  <1>1. CASE b.interactionStep = None
    BY <1>1 DEF Returned, GoodInstance, Instances, Statuses
  <1>2. CASE b.interactionStep # None
    <2>1. b.interactionStep \in StepsOf(b.proc) /\ b.interactionStep \in Steps
      BY <1>2, StepFacts DEF GoodInstance
    <2> QED
      BY <1>2, <2>1 DEF Returned, GoodInstance, Instances
  <1> QED
    BY <1>1, <1>2

\* A cancellation is a resolution of the operation (applyCancellation).
LEMMA CancellationResolves ==
    ASSUME NEW s, NEW i
    PROVE  ApplyCancellation(s, i) =
                Resolved(s, i, Returned(s.insts[i]),
                         [ref |-> s.intent.ref, inst |-> s.intent.inst])
  BY DEF ApplyCancellation, Resolved, Returned

\* A cancellation keeps the invariant (Session.Cancel).
LEMMA CancelPreserves ==
    ASSUME SessionInv, NEW h \in Handles, NEW i \in Insts, Cancel(h, i)
    PROVE  SessionInv'
  <1> DEFINE m == mem[h]
             inst == m.insts[i]
             l == ledger.insts[i]
             ev == CancelledEvent(i, m.intent.ref, m.intent.step, m.intent.command,
                                  inst.interactionStep)
             mark == [ref |-> m.intent.ref, inst |-> m.intent.inst]
             d == NoCall("done")
  <1>1. /\ fresh[h] /\ call[h].pc = "idle" /\ Pending(m) /\ m.intent.inst = i
        /\ Log(h, ev, ApplyCancellation(m, i), d)
    BY DEF Cancel, Ready, At, Log, AppendEvent, VerifiedBinding
  <1>2. /\ SameSession(m, ledger, call[h]) /\ GoodSession(m)
    BY <1>1, LedgerFacts
  <1>3. m.intent \in Intents /\ UnfinishedFinds(m) /\ Running(m, i)
    BY <1>1, <1>2, PendingFacts
  <1>4. /\ m \in Sessions /\ ledger \in Sessions
        /\ inst \in Instances /\ l \in Instances /\ GoodInstance(inst)
        /\ [inst EXCEPT !.opDone = FALSE] = [l EXCEPT !.opDone = FALSE]
        /\ inst.status = "running" /\ l.opDone = inst.opDone
        /\ Started(ledger, i) /\ Pending(ledger) /\ ledger.intent = m.intent
    BY <1>1, <1>2, <1>3, RunningFacts DEF SameSession
  <1>5. l = inst
    BY <1>4 DEF Instances
  <1>6. mark \in {None} \cup Cancellations
    BY <1>3 DEF Intents, Cancellations
  <1> DEFINE new == Returned(inst)
  <1>7. /\ new \in Instances /\ new.status # "unstarted" /\ new.proc = inst.proc
        /\ GoodInstance(new)
    BY <1>4, ReturnedType
  <1>8. /\ ev.type = "cancelled" /\ ev.inst = i /\ ev.ref = m.intent.ref
        /\ ev.step = m.intent.step /\ ev.command = m.intent.command
        /\ ev.return = inst.interactionStep
    BY DEF CancelledEvent
  <1>9. EventFits(ev) /\ Accepts(ledger, ev)
    BY SMTT(30), <1>1, <1>3, <1>4, <1>5, <1>8 DEF EventFits, Accepts, OutcomeMatches, Intents
  <1>10. Apply(ledger, ev) = Resolved(ledger, i, new, mark)
    <2>1. Apply(ledger, ev) = ApplyCancellation(ledger, i)
      <3>1. Apply(ledger, ev) = ApplyCancellation(ledger, ev.inst)
        BY <1>8, ApplyByType
      <3> QED
        BY <1>8, <3>1
    <2>2. ApplyCancellation(ledger, i) =
            Resolved(ledger, i, Returned(l), [ref |-> ledger.intent.ref, inst |-> ledger.intent.inst])
      BY CancellationResolves
    <2> QED
      BY <1>4, <1>5, <2>1, <2>2
  <1>11. Log(h, ev, Resolved(m, i, new, mark), d)
    <2>1. ApplyCancellation(m, i) = Resolved(m, i, new, mark)
      BY CancellationResolves
    <2> QED
      BY <1>1, <2>1
  <1>12. d \in Calls /\ d.pc = "done"
    BY NoCallType DEF NoCall, PCs
  <1> HIDE DEF new, mark, ev, d
  <1>13. CallFits(Resolved(m, i, new, mark), d)
    BY <1>12 DEF CallFits
  <1> QED
    BY <1>1, <1>3, <1>6, <1>7, <1>9, <1>10, <1>11, <1>12, <1>13, ResolvePreserves

\* The fold of an outcome resolves its operation with the writes over the
\* logged instance, which is the one the intent was recorded over.
LEMMA OutcomeReplaces ==
    ASSUME NEW s \in Sessions, NEW i \in Insts, NEW ref, NEW step, NEW fn, NEW w
    PROVE  ApplyResult(s, OutcomeEvent(i, ref, step, fn, w)) =
                Resolved(s, i, Imported(s.insts[i], w,
                                        step = s.insts[i].step /\ StepOf(s.insts[i]).op = fn),
                         s.cancelled)
  <1> DEFINE ev == OutcomeEvent(i, ref, step, fn, w)
             new == Imported(s.insts[i], w, step = s.insts[i].step /\ StepOf(s.insts[i]).op = fn)
  <1>1. /\ ev.type = "mutation_outcome" /\ ev.inst = i /\ ev.step = step /\ ev.command = fn
        /\ ev.writes = w
    BY DEF OutcomeEvent
  <1> HIDE DEF ev
  <1>2. ApplyResult(s, ev) =
            [s EXCEPT !.insts[i] = new,
                      !.intentDone = @ \/ ev.type = "mutation_outcome",
                      !.intentStore = IF ev.type = "mutation_outcome" THEN None ELSE @]
    BY <1>1 DEF ApplyResult, Imported
  <1> HIDE DEF new
  <1>3. ApplyResult(s, ev) = [s EXCEPT !.insts[i] = new, !.intentDone = TRUE, !.intentStore = None]
    BY <1>1, <1>2 DEF Sessions
  <1>4. [s EXCEPT !.insts[i] = new, !.intentDone = TRUE, !.intentStore = None]
            = Resolved(s, i, new, s.cancelled)
    BY DEF Resolved, Sessions
  <1> QED
    BY <1>3, <1>4 DEF ev, new

\* An operation's outcome keeps the invariant: the candidate store built
\* from the intent's is the one the fold builds from the log's.
LEMMA RecordOutcomePreserves ==
    ASSUME SessionInv, NEW h \in Handles, NEW i \in Insts, call[h].inst = i,
           RecordOutcome(h)
    PROVE  SessionInv'
  <1> DEFINE m == mem[h]
             c == call[h]
             intent == m.intent
             inst == m.insts[i]
             l == ledger.insts[i]
             done == c.to = None \/ c.retry
             from == m.intentStore
             result(w) == [m.insts[c.inst] EXCEPT
                              !.store = [state |-> from.state,
                                         eng |-> ImportWrites(from.eng, w)],
                              !.opDone = @ \/ c.to = None \/ c.retry]
  <1>1. /\ c.pc = "outcome" /\ fresh[h]
    BY DEF RecordOutcome, At, Log, AppendEvent, VerifiedBinding
  <1>2. /\ SameSession(m, ledger, c) /\ GoodSession(m) /\ CallFits(m, c) /\ c \in Calls
    BY <1>1, LedgerFacts
  <1>3. /\ Pending(m) /\ intent.inst = i /\ intent.command = c.fn /\ intent.to = c.to
    BY <1>1, <1>2 DEF CallFits, OnOperation
  <1>4. /\ intent \in Intents /\ UnfinishedFinds(m) /\ Running(m, i)
        /\ c.fn \in Prepared /\ m.intentStore \in Stores
        /\ c.to \in StepsOf(inst.proc) \cup Ends \cup {None}
    BY <1>2, <1>3, PendingFacts
  <1>5. /\ intent.step = inst.step /\ m.intentStore = inst.store /\ m.cancelled = None
        /\ StepOf(inst).op = IF c.to = None THEN c.fn ELSE None
    BY <1>3, <1>4 DEF UnfinishedFinds
  <1>6. /\ m \in Sessions /\ ledger \in Sessions
        /\ inst \in Instances /\ l \in Instances /\ GoodInstance(inst)
        /\ [inst EXCEPT !.opDone = FALSE] = [l EXCEPT !.opDone = FALSE]
        /\ inst.status = "running" /\ l.opDone = inst.opDone
        /\ Running(ledger, i) /\ Started(ledger, i) /\ Pending(ledger)
        /\ ledger.intent = m.intent /\ ledger.cancelled = m.cancelled
    <2>1. ledger.intent = m.intent
      BY <1>2 DEF SameSession
    <2> QED
      BY <1>1, <1>3, <1>4, <2>1, RunningFacts
  <1>7. l = inst
    BY <1>6 DEF Instances
  <1>8. /\ inst.store \in Stores /\ inst.step \in StepsOf(inst.proc) /\ inst.step \in Steps
        /\ c.fn \in Commands /\ intent.ref \in Refs /\ intent.branch \in Values \cup {None}
    BY <1>3, <1>4, <1>6, StepFacts DEF Instances, Intents
  <1>9. PICK w \in Writes(c.fn, from, intent.step, intent.ref, intent.branch) :
            Log(h, OutcomeEvent(c.inst, intent.ref, m.insts[c.inst].step, c.fn, w),
                [m EXCEPT !.insts[c.inst] = result(w), !.intentStore = None, !.intentDone = TRUE],
                AfterCommand(c))
    BY DEF RecordOutcome
  <1>10. WritesTyped(w)
    BY <1>5, <1>8, <1>9, WritesType
  <1>11. WritesFit(w, inst.proc)
    BY <1>5, <1>8, <1>9, WritesFacts DEF WritesFit
  <1> DEFINE ev == OutcomeEvent(i, intent.ref, inst.step, c.fn, w)
             newM == Imported(inst, w, done)
             own == inst.step = l.step /\ StepOf(l).op = c.fn
             newS == Imported(l, w, own)
             t == Resolved(m, i, newM, m.cancelled)
  <1>12. done \in BOOLEAN /\ own \in BOOLEAN /\ (c.to = None => done /\ own)
    BY <1>2, <1>5, <1>7 DEF Calls
  <1>13. result(w) = newM
    BY <1>5, <1>6, <1>8 DEF Imported, Instances, Stores
  <1> HIDE DEF done, own
  <1>14. /\ newM \in Instances /\ newM.status = "running" /\ newM.proc = inst.proc
         /\ GoodInstance(newM) /\ newM.opDone = (inst.opDone \/ done)
    BY <1>6, <1>10, <1>11, <1>12, ImportedType
  <1>15. newS \in Instances /\ newS.opDone = (inst.opDone \/ own)
    BY <1>6, <1>7, <1>10, <1>11, <1>12, ImportedType
  <1>16. [newM EXCEPT !.opDone = FALSE] = [newS EXCEPT !.opDone = FALSE]
    BY <1>6, ImportedSame
  <1>17. m.cancelled \in {None} \cup Cancellations
    BY <1>6 DEF Sessions
  <1>18. /\ ev.type = "mutation_outcome" /\ ev.inst = i /\ ev.ref = intent.ref
         /\ ev.step = inst.step /\ ev.command = c.fn
    BY DEF OutcomeEvent
  <1>19. EventFits(ev) /\ Accepts(ledger, ev)
    <2> HIDE DEF ev
    <2>1. OutcomeMatches(ledger, ev)
      BY <1>3, <1>5, <1>6, <1>18 DEF OutcomeMatches
    <2> QED
      BY <1>6, <1>8, <1>18, <2>1 DEF EventFits, Accepts
  <1>20. Apply(ledger, ev) = Resolved(ledger, i, newS, m.cancelled)
    <2>1. Apply(ledger, ev) = ApplyResult(ledger, ev)
      <3> HIDE DEF ev
      <3> QED
        BY <1>18, ApplyByType
    <2>2. ApplyResult(ledger, ev) = Resolved(ledger, i, newS, ledger.cancelled)
      BY <1>6, OutcomeReplaces DEF own
    <2> QED
      BY <1>6, <2>1, <2>2
  <1> HIDE DEF newM, newS, result
  <1>21. [m EXCEPT !.insts[i] = newM, !.intentStore = None, !.intentDone = TRUE] = t
    BY <1>6 DEF Resolved, Sessions
  <1> HIDE DEF ev
  <1>22. Log(h, ev, t, AfterCommand(c))
    BY <1>9, <1>13, <1>21 DEF ev
  <1>23. t.insts[i] = newM /\ ~Pending(t) /\ Running(t, i)
    BY <1>6, <1>14, ResolvedFacts
  <1>24. t \in Sessions
    BY <1>6, <1>14, <1>17 DEF Resolved, Sessions
  <1> HIDE DEF t
  <1>25. /\ AfterCommand(c) \in Calls /\ CallFits(t, AfterCommand(c))
         /\ c.to # None => AfterCommand(c).pc = "move" /\ AfterCommand(c).inst = i
    BY <1>4, <1>14, <1>23, <1>24, AfterCommandFits
  <1>26. newM.opDone = newS.opDone
         \/ (AfterCommand(c).inst = i /\ AfterCommand(c).pc \in {"move", "finish"})
    BY <1>12, <1>14, <1>15, <1>25
  <1> QED
    BY <1>1, <1>4, <1>14, <1>15, <1>16, <1>17, <1>19, <1>20, <1>22, <1>25, <1>26,
       ResolvePreserves DEF t

-----------------------------------------------------------------------------
\* The branch an intent records is typed.
LEMMA IntentBranchType ==
    ASSUME NEW fn, NEW store \in Stores, NEW target \in Values
    PROVE  IntentBranch(fn, store, target) \in Values \cup {None}
  BY DEF IntentBranch, Stores, EngineValues

\* s with the operation intent recorded over an instance's store.
Recorded(s, intent, store) ==
    [s EXCEPT !.intent = intent, !.intentStore = store, !.intentDone = FALSE,
              !.cancelled = None]

\* What a session with a new operation recorded holds.
LEMMA RecordedFacts ==
    ASSUME NEW s \in Sessions, NEW intent \in Intents, NEW store \in Stores
    PROVE  /\ Recorded(s, intent, store) \in Sessions
           /\ Recorded(s, intent, store).insts = s.insts
           /\ Recorded(s, intent, store).counter = s.counter
           /\ Recorded(s, intent, store).intent = intent
           /\ Recorded(s, intent, store).intentStore = store
           /\ ~Recorded(s, intent, store).intentDone
           /\ Recorded(s, intent, store).cancelled = None
           /\ Pending(Recorded(s, intent, store))
  <1>1. /\ Recorded(s, intent, store) \in Sessions
        /\ Recorded(s, intent, store).insts = s.insts
        /\ Recorded(s, intent, store).counter = s.counter
        /\ Recorded(s, intent, store).intent = intent
        /\ Recorded(s, intent, store).intentStore = store
        /\ ~Recorded(s, intent, store).intentDone
        /\ Recorded(s, intent, store).cancelled = None
    BY DEF Recorded, Sessions
  <1> QED
    BY <1>1 DEF Pending

\* Recording an operation over a running instance leaves a good session
\* good.
LEMMA RecordedGood ==
    ASSUME NEW s, GoodSession(s), NEW intent \in Intents, NEW store \in Stores,
           Running(s, intent.inst), store = s.insts[intent.inst].store,
           intent.step = s.insts[intent.inst].step, intent.command \in Prepared,
           intent.to \in StepsOf(s.insts[intent.inst].proc) \cup Ends \cup {None},
           StepOf(s.insts[intent.inst]).op = IF intent.to = None THEN intent.command ELSE None
    PROVE  GoodSession(Recorded(s, intent, store))
  <1> DEFINE i == intent.inst
             t == Recorded(s, intent, store)
  <1>1. s \in Sessions /\ i \in Insts
    BY DEF GoodSession, Intents
  <1>2. /\ t \in Sessions /\ t.insts = s.insts /\ t.counter = s.counter /\ t.intent = intent
        /\ t.intentStore = store /\ t.cancelled = None
    BY <1>1, RecordedFacts
  <1> HIDE DEF t
  <1>3. Running(t, i) /\ Started(t, i)
    BY <1>2 DEF Running, Started
  <1>4. UnfinishedFinds(t)
    BY <1>2, <1>3 DEF UnfinishedFinds
  <1>5. GoodIntent(t)
    BY <1>2, <1>3, <1>4 DEF GoodIntent
  <1> QED
    BY <1>2, <1>5 DEF GoodSession, Started, t

\* Recording an intent keeps the invariant (runCommand).
LEMMA RecordIntentPreserves ==
    ASSUME SessionInv, NEW h \in Handles, NEW i \in Insts, call[h].inst = i,
           RecordIntent(h)
    PROVE  SessionInv'
  <1> DEFINE m == mem[h]
             c == call[h]
             inst == m.insts[i]
             ref == lastRef + 1
             to == IntentBranch(c.fn, inst.store, Target(h, i))
             intent == [ref |-> ref, inst |-> i, step |-> inst.step,
                        command |-> c.fn, to |-> c.to, branch |-> to]
             ev == IntentEvent(i, ref, inst.step, c.fn, c.to, to)
             d == [c EXCEPT !.pc = "verify"]
  <1>1. /\ c.pc = "command" /\ fresh[h] /\ CallFits(m, c) /\ c \in Calls
        /\ view[h] \in Branches \cup {None} /\ ref \in Refs
    BY DEF SessionInv, TypeOK, RecordIntent, At, Log, AppendEvent, VerifiedBinding
  <1>21. Log(h, ev, Recorded(m, intent, inst.store), d)
    BY DEF RecordIntent, Recorded
  <1>2. /\ SameSession(m, ledger, c) /\ GoodSession(m) /\ GoodSession(ledger)
        /\ view[h] = branch
    BY <1>1, LedgerFacts
  <1>3. /\ Running(m, i) /\ ~Pending(m) /\ c.fn \in Prepared /\ c.fn \in Commands
        /\ StepOf(inst).op = IF c.to = None THEN c.fn ELSE None
        /\ c.to \in StepsOf(inst.proc) \cup Ends \cup {None}
        /\ c.to \in Steps \cup Ends \cup {None}
    BY <1>1 DEF CallFits, Asked, Calls
  <1>4. /\ m \in Sessions /\ ledger \in Sessions /\ inst \in Instances
        /\ GoodInstance(inst) /\ inst.status = "running"
        /\ ledger.insts[i].proc = inst.proc /\ ledger.insts[i].step = inst.step
        /\ ledger.insts[i].store = inst.store
        /\ StepOf(ledger.insts[i]) = StepOf(inst)
        /\ Running(ledger, i) /\ Started(ledger, i) /\ ~Pending(ledger)
    <2>1. fresh[h] /\ call[h].pc = "command" /\ Running(m, i)
      BY <1>1, <1>3
    <2> QED
      BY <1>3, <2>1, RunningData
  <1>5. inst.store \in Stores /\ inst.step \in Steps
    BY <1>4, StepFacts DEF Instances
  <1>6. Target(h, i) \in Values
    BY <1>1, <1>5, EffectiveTargetType DEF Target
  <1>7. to \in Values \cup {None}
    BY <1>5, <1>6, IntentBranchType
  <1> HIDE DEF to, ref
  <1>8. intent \in Intents
    BY <1>1, <1>3, <1>5, <1>7 DEF Intents
  <1>9. /\ intent.ref = ref /\ intent.inst = i /\ intent.step = inst.step
        /\ intent.command = c.fn /\ intent.to = c.to /\ intent.branch = to
    OBVIOUS
  <1>10. /\ ev.type = "mutation_intent" /\ ev.inst = i /\ ev.step = inst.step
         /\ ev.ref = ref /\ ev.command = c.fn /\ ev.to = c.to /\ ev.branch = to
    BY DEF IntentEvent
  <1>11. Apply(ledger, ev) = Recorded(ledger, intent, inst.store)
    <2>1. Apply(ledger, ev) = ApplyIntent(ledger, ev)
      <3> HIDE DEF ev
      <3> QED
        BY <1>10, ApplyByType
    <2>2. ApplyIntent(ledger, ev) =
            Recorded(ledger, [ref |-> ev.ref, inst |-> ev.inst, step |-> ev.step,
                              command |-> ev.command, to |-> ev.to, branch |-> ev.branch],
                     ledger.insts[ev.inst].store)
      BY DEF ApplyIntent, Recorded
    <2> HIDE DEF ev
    <2> QED
      BY <1>4, <1>10, <2>1, <2>2
  <1> HIDE DEF intent, ev
  <1>12. EventFits(ev) /\ Accepts(ledger, ev) /\ ~EndsSession(ev)
    BY <1>1, <1>4, <1>10 DEF EventFits, Accepts, EndsSession
  <1> DEFINE t == Recorded(m, intent, inst.store)
             s == Recorded(ledger, intent, inst.store)
  <1>13. /\ t.insts = m.insts /\ t.counter = m.counter /\ t.intent = intent
         /\ t.intentStore = inst.store /\ t.cancelled = None
         /\ Pending(t)
    BY <1>4, <1>5, <1>8, RecordedFacts
  <1>14. /\ s.insts = ledger.insts /\ s.counter = ledger.counter /\ s.intent = intent
         /\ s.intentStore = inst.store /\ s.cancelled = None
    BY <1>4, <1>5, <1>8, RecordedFacts
  <1>22. t.intentDone = FALSE /\ s.intentDone = FALSE
    BY <1>4 DEF Recorded, Sessions
  <1>15. GoodSession(t)
    BY <1>2, <1>3, <1>4, <1>5, <1>8, <1>9, RecordedGood
  <1>16. GoodSession(s)
    BY <1>2, <1>3, <1>4, <1>5, <1>8, <1>9, RecordedGood
  <1>17. /\ d \in Calls /\ d.pc = "verify" /\ d.inst = c.inst /\ d.fn = c.fn /\ d.to = c.to
    BY <1>1 DEF Calls, PCs
  <1> HIDE DEF t, s, d
  <1>18. SameSession(t, s, d)
    <2>1. ASSUME NEW j \in Insts
          PROVE  /\ [t.insts[j] EXCEPT !.opDone = FALSE] = [s.insts[j] EXCEPT !.opDone = FALSE]
                 /\ OpDoneMatters(s, d, j) => t.insts[j].opDone = s.insts[j].opDone
      <3>1. t.insts[j] = m.insts[j] /\ s.insts[j] = ledger.insts[j]
        BY <1>13, <1>14
      <3>2. /\ [m.insts[j] EXCEPT !.opDone = FALSE] = [ledger.insts[j] EXCEPT !.opDone = FALSE]
            /\ OpDoneMatters(ledger, c, j) => m.insts[j].opDone = ledger.insts[j].opDone
        BY <1>2 DEF SameSession
      <3>3. OpDoneMatters(s, d, j) => OpDoneMatters(ledger, c, j)
        BY <1>1, <3>1 DEF OpDoneMatters, Running
      <3> QED
        BY <3>1, <3>2, <3>3
    <2>2. m.counter = ledger.counter
      BY <1>2 DEF SameSession
    <2> QED
      BY <1>13, <1>14, <1>22, <2>1, <2>2 DEF SameSession
  <1>19. CallFits(t, d)
    <2>1. OnOperation(t, d) /\ OnInstance(t, d)
      BY <1>3, <1>9, <1>13, <1>17 DEF OnOperation, OnInstance, Running, Started
    <2> QED
      BY <1>17, <2>1 DEF CallFits
  <1>20. Log(h, ev, t, d) /\ Apply(ledger, ev) = s
    BY <1>21, <1>11 DEF t, s, ev, intent, d
  <1> QED
    BY <1>2, <1>12, <1>15, <1>16, <1>17, <1>18, <1>19, <1>20, LogPreserves

-----------------------------------------------------------------------------
\* A started instance, and s with it.
Fresh(proc, parent, step, values) ==
    [proc |-> proc, parent |-> parent,
     store |-> [state |-> WriteState(EmptyState, values), eng |-> EmptyEngine],
     step |-> step, status |-> "running", opDone |-> FALSE,
     interactionStep |-> None, seed |-> NoSeed]

Opened(s, i, new) == [s EXCEPT !.counter = i, !.insts[i] = new]

\* A started instance is typed and good.
LEMMA FreshType ==
    ASSUME NEW proc \in Procs, NEW parent \in Insts \cup {None}, NEW values,
           DOMAIN values \subseteq StateFields,
           \A f \in DOMAIN values : values[f] \in Values \cup {None}
    PROVE  /\ Fresh(proc, parent, Specs[proc].first, values) \in Instances
           /\ GoodInstance(Fresh(proc, parent, Specs[proc].first, values))
           /\ Fresh(proc, parent, Specs[proc].first, values).status = "running"
  <1> DEFINE state == WriteState(EmptyState, values)
             first == Specs[proc].first
  <1>1. state \in States
    BY EmptyTypes, WriteStateType
  <1>2. first \in StepsOf(proc) /\ first \in Steps
    BY SpecsAssumption
  <1>3. EmptyEngine \in EngineValues /\ EmptyEngine.confirmation = None
    BY EmptyTypes DEF EmptyEngine
  <1> HIDE DEF state, first
  <1> DEFINE b == [proc |-> proc, parent |-> parent,
                   store |-> [state |-> state, eng |-> EmptyEngine],
                   step |-> first, status |-> "running", opDone |-> FALSE,
                   interactionStep |-> None, seed |-> NoSeed]
  <1>4. b \in Instances
    BY <1>1, <1>2, <1>3 DEF Instances, Stores, Statuses, NoSeed, Seeds
  <1>5. GoodInstance(b) /\ b.status = "running"
    BY <1>2, <1>3 DEF GoodInstance
  <1> QED
    BY <1>4, <1>5 DEF Fresh, state, first

\* The same, as Start writes it.
FromUnstarted(proc, parent, step, values) ==
    [Unstarted EXCEPT
        !.proc = proc, !.parent = parent, !.step = step,
        !.status = "running", !.store.state = WriteState(@, values)]

\* The instance Start makes in memory is the one the fold makes of the
\* started event.
LEMMA UnstartedOpens ==
    ASSUME NEW proc \in Procs, NEW parent \in Insts \cup {None}, NEW step \in Steps,
           NEW values, WriteState(EmptyState, values) \in States,
           Fresh(proc, parent, step, values) \in Instances
    PROVE  FromUnstarted(proc, parent, step, values) = Fresh(proc, parent, step, values)
  <1> DEFINE state == WriteState(EmptyState, values)
             new == Fresh(proc, parent, step, values)
             u == Unstarted
             v == [u EXCEPT !.proc = proc, !.parent = parent, !.step = step,
                            !.status = "running", !.store.state = state]
  <1>1. /\ u.store.state = EmptyState /\ u.store.eng = EmptyEngine /\ u.opDone = FALSE
        /\ u.interactionStep = None /\ u.seed = NoSeed
    BY DEF Unstarted
  <1>2. u \in Instances /\ u.store \in Stores
    BY InstanceTypes DEF Instances
  <1>3. /\ new.proc = proc /\ new.parent = parent /\ new.step = step
        /\ new.status = "running" /\ new.store.state = state
        /\ new.store.eng = EmptyEngine /\ new.opDone = FALSE
        /\ new.interactionStep = None /\ new.seed = NoSeed
    BY DEF Fresh
  <1>4. new \in Instances /\ new.store \in Stores /\ state \in States
    BY DEF Instances
  <1> HIDE DEF state, new, u
  <1>5. v \in Instances /\ v.store \in Stores
    BY <1>2, <1>4 DEF Instances, Stores, Statuses
  <1>6. /\ v.proc = proc /\ v.parent = parent /\ v.step = step
        /\ v.status = "running" /\ v.store.state = state /\ v.store.eng = u.store.eng
        /\ v.opDone = u.opDone /\ v.interactionStep = u.interactionStep /\ v.seed = u.seed
    BY <1>2 DEF Instances, Stores
  <1> HIDE DEF v
  <1>7. v.store = new.store
    BY <1>1, <1>3, <1>4, <1>5, <1>6 DEF Stores
  <1>8. v = new
    BY <1>1, <1>3, <1>4, <1>5, <1>6, <1>7 DEF Instances
  <1> QED
    BY <1>1, <1>8 DEF v, u, state, new, FromUnstarted

\* A session with one more instance is typed.
LEMMA OpenedType ==
    ASSUME NEW s \in Sessions, NEW i \in Insts, NEW new \in Instances
    PROVE  Opened(s, i, new) \in Sessions
  <1>1. i \in 0 .. MaxInsts
    OBVIOUS
  <1>2. [s.insts EXCEPT ![i] = new] \in [Insts -> Instances]
    BY DEF Sessions
  <1> QED
    BY <1>1, <1>2 DEF Opened, Sessions

\* What a session with one more instance says of the others.
LEMMA OpenedFacts ==
    ASSUME NEW s \in Sessions, NEW i \in Insts, NEW new
    PROVE  /\ Opened(s, i, new).insts[i] = new
           /\ \A j \in Insts : j # i => Opened(s, i, new).insts[j] = s.insts[j]
           /\ Opened(s, i, new).counter = i
           /\ Opened(s, i, new).intent = s.intent
           /\ Opened(s, i, new).intentStore = s.intentStore
           /\ Opened(s, i, new).cancelled = s.cancelled
           /\ Pending(Opened(s, i, new)) <=> Pending(s)
  <1>1. /\ Opened(s, i, new).insts[i] = new
        /\ \A j \in Insts : j # i => Opened(s, i, new).insts[j] = s.insts[j]
        /\ Opened(s, i, new).counter = i
        /\ Opened(s, i, new).intent = s.intent
        /\ Opened(s, i, new).intentStore = s.intentStore
        /\ Opened(s, i, new).intentDone = s.intentDone
        /\ Opened(s, i, new).cancelled = s.cancelled
    BY DEF Opened, Sessions
  <1> QED
    BY <1>1 DEF Pending

\* Starting the next instance leaves a good session good.
LEMMA OpenedGood ==
    ASSUME NEW s, GoodSession(s), ~Pending(s), NEW i \in Insts, i = s.counter + 1,
           NEW new \in Instances, GoodInstance(new), new.status = "running"
    PROVE  GoodSession(Opened(s, i, new))
  <1> DEFINE t == Opened(s, i, new)
  <1>1. s \in Sessions /\ s.counter \in Nat /\ i > s.counter
    BY DEF GoodSession, Sessions
  <1>2. /\ t \in Sessions /\ t.insts[i] = new /\ t.counter = i /\ t.intent = s.intent
        /\ \A j \in Insts : j # i => t.insts[j] = s.insts[j]
        /\ ~Pending(t)
    BY <1>1, OpenedFacts, OpenedType
  <1> HIDE DEF t
  <1>3. ~Started(s, i)
    BY <1>1 DEF GoodSession
  <1>4. \A j \in Insts : GoodInstance(t.insts[j])
    BY <1>2 DEF GoodSession
  <1>5. \A j \in Insts : j > t.counter => ~Started(t, j)
    BY <1>1, <1>2 DEF GoodSession, Started
  <1>6. \A j \in Insts : Started(s, j) => Started(t, j) /\ t.insts[j].proc = s.insts[j].proc
    BY <1>2, <1>3 DEF Started
  <1>7. t.intent # None => t.intent.inst \in Insts
    BY <1>1, <1>2 DEF Sessions, Intents
  <1>8. GoodIntent(t)
    BY <1>2, <1>6, <1>7 DEF GoodSession, GoodIntent
  <1> QED
    BY <1>2, <1>4, <1>5, <1>8 DEF GoodSession, t

\* Starting the same instance in a live session and in the replayed one
\* leaves them the same.
LEMMA OpenedSame ==
    ASSUME NEW m \in Sessions, NEW s \in Sessions, NEW c, SameSession(m, s, c),
           c.pc \notin {"move", "finish"},
           NEW i \in Insts, NEW new \in Instances, NEW d
    PROVE  SameSession(Opened(m, i, new), Opened(s, i, new), d)
  <1> DEFINE u == Opened(m, i, new)
             t == Opened(s, i, new)
  <1>1. /\ u.insts[i] = new /\ \A j \in Insts : j # i => u.insts[j] = m.insts[j]
        /\ u.counter = i /\ u.intent = m.intent /\ u.intentStore = m.intentStore
        /\ u.cancelled = m.cancelled
    BY OpenedFacts
  <1>2. /\ t.insts[i] = new /\ \A j \in Insts : j # i => t.insts[j] = s.insts[j]
        /\ t.counter = i /\ t.intent = s.intent /\ t.intentStore = s.intentStore
        /\ t.cancelled = s.cancelled
    BY OpenedFacts
  <1>3. u.intentDone = m.intentDone /\ t.intentDone = s.intentDone
    BY DEF Opened, Sessions
  <1> HIDE DEF u, t
  <1>4. ASSUME NEW j \in Insts
        PROVE  /\ [u.insts[j] EXCEPT !.opDone = FALSE] = [t.insts[j] EXCEPT !.opDone = FALSE]
               /\ OpDoneMatters(t, d, j) => u.insts[j].opDone = t.insts[j].opDone
    <2>1. CASE j = i
      BY <1>1, <1>2, <2>1
    <2>2. CASE j # i
      <3>1. u.insts[j] = m.insts[j] /\ t.insts[j] = s.insts[j]
        BY <1>1, <1>2, <2>2
      <3>2. OpDoneMatters(t, d, j) => OpDoneMatters(s, c, j)
        BY <3>1 DEF OpDoneMatters, Running
      <3> QED
        BY <3>1, <3>2 DEF SameSession
    <2> QED
      BY <2>1, <2>2
  <1>5. /\ m.intent = s.intent /\ m.intentStore = s.intentStore
        /\ m.intentDone = s.intentDone /\ m.cancelled = s.cancelled
    BY DEF SameSession
  <1> QED
    BY <1>1, <1>2, <1>3, <1>4, <1>5 DEF SameSession, u, t

\* The fold of a started event opens its instance.
LEMMA StartedOpens ==
    ASSUME NEW s \in Sessions, NEW i \in Insts, i > s.counter,
           NEW proc, NEW parent, NEW step, NEW values
    PROVE  ApplyStarted(s, StartedEvent(i, proc, parent, step, values)) =
                Opened(s, i, Fresh(proc, parent, step, values))
  <1> DEFINE ev == StartedEvent(i, proc, parent, step, values)
             new == Fresh(proc, parent, step, values)
  <1>1. /\ ev.inst = i /\ ev.proc = proc /\ ev.parent = parent /\ ev.step = step
        /\ ev.seed = values
    BY DEF StartedEvent
  <1> HIDE DEF ev
  <1>2. ApplyStarted(s, ev) = [s EXCEPT !.counter = IF i > @ THEN i ELSE @, !.insts[i] = new]
    BY <1>1 DEF ApplyStarted, Fresh
  <1> HIDE DEF new
  <1>3. [s EXCEPT !.counter = IF i > @ THEN i ELSE @, !.insts[i] = new] = Opened(s, i, new)
    BY DEF Opened
  <1> QED
    BY <1>2, <1>3 DEF ev, new

\* What a child inherits is typed (seedFromParent).
LEMMA SeedType ==
    ASSUME NEW m \in Sessions, NEW parent \in Insts \cup {None}, NEW proc \in Procs,
           SeedFromParent(m, parent, proc) \subseteq Specs[proc].fields
    PROVE  LET values == [f \in SeedFromParent(m, parent, proc) |->
                            m.insts[parent].store.state[f]]
           IN  /\ DOMAIN values \subseteq StateFields
               /\ \A f \in DOMAIN values : values[f] \in Values \cup {None}
  <1>1. Specs[proc].fields \subseteq StateFields
    BY SpecsAssumption
  <1>2. CASE parent = None
    BY <1>1, <1>2 DEF SeedFromParent
  <1>3. CASE parent # None
    <2>1. m.insts[parent].store.state \in States
      BY <1>3, InstanceFields DEF Instances, Stores
    <2> QED
      BY <1>1, <2>1 DEF States
  <1> QED
    BY <1>2, <1>3

\* Starting a procedure keeps the invariant (Session.Start).
LEMMA StartPreserves ==
    ASSUME SessionInv, NEW h \in Handles, NEW proc \in Procs,
           NEW parent \in Insts \cup {None}, NEW opening \in BOOLEAN,
           call[h].pc \in {"shell", "idle"}, Start(h, proc, parent, opening)
    PROVE  SessionInv'
  <1> DEFINE m == mem[h]
             i == m.counter + 1
             seed == SeedFromParent(m, parent, proc)
             first == Specs[proc].first
             values == [f \in seed |-> m.insts[parent].store.state[f]]
             new == Fresh(proc, parent, first, values)
             ev == StartedEvent(i, proc, parent, first, values)
             d == [CallOn(i) EXCEPT !.opening = opening]
             inst == [Unstarted EXCEPT
                        !.proc = proc, !.parent = parent, !.step = first,
                        !.status = "running", !.store.state = WriteState(@, values)]
  <1>1. /\ fresh[h] /\ ~Pending(m) /\ i \in Insts /\ seed \subseteq Specs[proc].fields
    BY DEF Start, CheckProgression, Log, AppendEvent, VerifiedBinding
  <1>2. Log(h, ev, [m EXCEPT !.counter = i, !.insts[i] = inst], d)
    BY DEF Start
  <1>3. /\ SameSession(m, ledger, call[h]) /\ GoodSession(m) /\ GoodSession(ledger)
        /\ m \in Sessions /\ ledger \in Sessions /\ view[h] = branch
    BY <1>1, LedgerFacts
  <1>4. ledger.counter = m.counter /\ (Pending(ledger) <=> Pending(m)) /\ m.counter \in Nat
    BY <1>3 DEF SameSession, Pending, Sessions
  <1>5. /\ DOMAIN values \subseteq StateFields
        /\ \A f \in DOMAIN values : values[f] \in Values \cup {None}
    BY <1>1, <1>3, SeedType
  <1> HIDE DEF values
  <1>6. new \in Instances /\ GoodInstance(new) /\ new.status = "running"
    BY <1>5, FreshType
  <1>7. inst = new
    <2>1. first \in Steps
      BY SpecsAssumption
    <2>2. WriteState(EmptyState, values) \in States
      BY <1>5, EmptyTypes, WriteStateType
    <2>3. inst = FromUnstarted(proc, parent, first, values)
      BY DEF FromUnstarted
    <2> HIDE DEF inst
    <2> QED
      BY <1>6, <2>1, <2>2, <2>3, UnstartedOpens
  <1>8. ev.type = "started" /\ ev.inst = i
    BY DEF StartedEvent
  <1>9. EventFits(ev) /\ Accepts(ledger, ev) /\ ~EndsSession(ev)
    BY <1>1, <1>8 DEF EventFits, Accepts, EndsSession
  <1>10. Apply(ledger, ev) = Opened(ledger, i, new)
    <2>1. Apply(ledger, ev) = ApplyStarted(ledger, ev)
      <3> HIDE DEF ev
      <3> QED
        BY <1>8, ApplyByType
    <2>2. i > ledger.counter
      BY <1>4
    <2>3. ApplyStarted(ledger, ev) = Opened(ledger, i, new)
      BY <1>1, <1>3, <2>2, StartedOpens
    <2> QED
      BY <2>1, <2>3
  <1> HIDE DEF new, inst, ev
  <1>11. Log(h, ev, Opened(m, i, new), d)
    <2>1. [m EXCEPT !.counter = i, !.insts[i] = inst] = Opened(m, i, new)
      BY <1>7 DEF Opened
    <2> QED
      BY <1>2, <2>1
  <1>12. GoodSession(Opened(m, i, new)) /\ GoodSession(Opened(ledger, i, new))
    BY <1>1, <1>3, <1>4, <1>6, OpenedGood
  <1>13. SameSession(Opened(m, i, new), Opened(ledger, i, new), d)
    BY <1>1, <1>3, <1>6, OpenedSame
  <1>14. /\ d \in Calls /\ d.pc = "cascade" /\ d.inst = i
    BY <1>1 DEF CallOn, NoCall, Calls, PCs
  <1>15. CallFits(Opened(m, i, new), d)
    <2> DEFINE t == Opened(m, i, new)
    <2>1. t.insts[i] = new /\ ~Pending(t)
      BY <1>1, <1>3, <1>6, OpenedFacts
    <2> HIDE DEF t
    <2>2. CallFits(t, d)
      BY <1>1, <1>6, <1>14, <2>1 DEF CallFits, OnInstance, Started
    <2> QED
      BY <2>2 DEF t
  <1> HIDE DEF d
  <1> QED
    BY <1>3, <1>9, <1>10, <1>11, <1>12, <1>13, <1>14, <1>15, LogPreserves

\* Starting the session's shell keeps the invariant (ensureShell).
LEMMA ShellStartPreserves ==
    ASSUME SessionInv, NEW h \in Handles, StartShell(h) PROVE SessionInv'
  BY StartPreserves DEF StartShell, At

\* Starting a procedure under a parent keeps the invariant.
LEMMA ProcedureStartPreserves ==
    ASSUME SessionInv, NEW h \in Handles, StartProcedure(h) PROVE SessionInv'
  BY StartPreserves DEF StartProcedure, Ready, At

-----------------------------------------------------------------------------
\* What is left: a handle that goes, a call that ends.
LEMMA LeavePreserves ==
    ASSUME SessionInv, NEW h \in Handles, Crash(h) \/ AppendRefused(h)
    PROVE  SessionInv'
  BY DropPreserves DEF Crash, AppendRefused

\* Returning from a call keeps the invariant.
LEMMA ReturnPreserves ==
    ASSUME SessionInv, Held = FALSE, NEW h \in Handles, Return(h) \/ RebindFails(h)
    PROVE  SessionInv'
  BY RestPreserves DEF Return, RebindFails, At

\* Whatever a user, an agent or an operator asks keeps the invariant.
LEMMA AskPreserves ==
    ASSUME SessionInv, NEW h \in Handles, Ask(h) PROVE SessionInv'
  <1>1. CASE Load(h) \/ StartProcedure(h) \/ Note(h) \/ ResyncBinding(h)
    BY <1>1, LoadPreserves, ProcedureStartPreserves, NotePreserves, ResyncBindingPreserves
  <1>2. CASE BindBranch(h)
    BY <1>2, BindPreserves DEF BindBranch
  <1>3. ASSUME NEW i \in Insts,
               \/ Report(h, i) \/ Answer(h, i) \/ Retry(h, i)
               \/ Cancel(h, i) \/ Abandon(h, i) \/ Park(h, i)
        PROVE  SessionInv'
    BY <1>3, ReportPreserves, AnswerPreserves, RetryPreserves, CancelPreserves,
       AbandonPreserves, ParkPreserves
  <1> QED
    BY <1>1, <1>2, <1>3 DEF Ask

\* Every step of a call under way keeps the invariant.
LEMMA ProceedPreserves ==
    ASSUME SessionInv, Held = FALSE, NEW h \in Handles, Proceed(h) PROVE SessionInv'
  <1>1. CASE StartShell(h) \/ CascadeStops(h) \/ RunOp(h) \/ Advance(h) \/ Move(h) \/ Finish(h)
    BY <1>1, ShellStartPreserves, CascadeStopsPreserves, RunOpPreserves, AdvancePreserves,
       MovePreserves, FinishPreserves
  <1>2. CASE \/ VerifyBinding(h) \/ Publish(h) \/ PublishThenFail(h) \/ LogPublishedRead(h)
             \/ CallFails(h)
    BY <1>2, VerifyBindingPreserves, PublishPreserves, PublishThenFailPreserves,
       LogPublishedReadPreserves, CallFailsPreserves
  <1>3. CASE ReopenPlayback(h) \/ RecordIntent(h) \/ RecordOutcome(h) \/ RunCommand(h)
    <2>1. call[h].inst \in Insts
      <3>1. call[h].pc \in {"cascade", "command", "outcome", "run"}
        BY <1>3 DEF ReopenPlayback, RecordIntent, RecordOutcome, RunCommand, OnGate, At
      <3> QED
        BY <3>1 DEF SessionInv, CallFits, OnInstance
    <2> QED
      BY <1>3, <2>1, ReopenPlaybackPreserves, RecordIntentPreserves,
         RecordOutcomePreserves, RunCommandPreserves
  <1>4. CASE RebindFails(h) \/ Return(h) \/ AppendRefused(h)
    BY <1>4, ReturnPreserves, LeavePreserves
  <1> QED
    BY <1>1, <1>2, <1>3, <1>4 DEF Proceed

\* A step that changes nothing keeps the invariant.
LEMMA StutterPreserves == SessionInv /\ UNCHANGED vars => SessionInv'
  BY DEF SessionInv, TypeOK, vars, Agrees, Current

\* Every step of the specification keeps the invariant.
LEMMA NextPreserves ==
    ASSUME Held = FALSE, SessionInv, [Next]_vars PROVE SessionInv'
  BY AskPreserves, ProceedPreserves, LeavePreserves, AbandonSessionPreserves,
     StutterPreserves DEF Next

-----------------------------------------------------------------------------
\* While every call replays the log first (the MCP server's way), a session
\* stays within its inductive invariant: each replay in memory that observed
\* the log's version is the session the log holds, an unfinished operation
\* finds its instance as it was recorded over, and the log has no event its
\* replay would refuse.
THEOREM SessionInvariant == Held = FALSE => (Spec => []SessionInv)
  <1> SUFFICES ASSUME Held = FALSE PROVE Spec => []SessionInv
    OBVIOUS
  <1>1. Init => SessionInv
    BY InitInv
  <1>2. SessionInv /\ [Next]_vars => SessionInv'
    BY NextPreserves
  <1> QED
    BY <1>1, <1>2, PTL DEF Spec

\* Every variable keeps its type, for any procedures, handles and bounds.
THEOREM TypeCorrect == Held = FALSE => (Spec => []TypeOK)
  <1> SUFFICES ASSUME Held = FALSE PROVE Spec => []TypeOK
    OBVIOUS
  <1>1. SessionInv => TypeOK
    BY DEF SessionInv
  <1> QED
    BY <1>1, SessionInvariant, PTL

\* Wherever a process stops, replaying the log it left yields the session it
\* held (ReplaySession's promise, session.go:784-788).
THEOREM ReplayIsFaithful == Held = FALSE => (Spec => []ReplayAgrees)
  <1> SUFFICES ASSUME Held = FALSE PROVE Spec => []ReplayAgrees
    OBVIOUS
  <1>1. SessionInv => ReplayAgrees
    BY DEF SessionInv, ReplayAgrees, Agrees, Current
  <1> QED
    BY <1>1, SessionInvariant, PTL

\* No interleaving of handles leaves an event the replay refuses
\* (applyEvent, restoreIntent, validateOutcome).
THEOREM LogAlwaysReplays == Held = FALSE => (Spec => []LogReplays)
  <1> SUFFICES ASSUME Held = FALSE PROVE Spec => []LogReplays
    OBVIOUS
  <1>1. SessionInv => LogReplays
    BY DEF SessionInv, LogReplays
  <1> QED
    BY <1>1, SessionInvariant, PTL

\* No dialogue ends over an unfinished operation, however many calls are
\* under way when it ends (checkProgression, AbandonWorkflowSession).
THEOREM NoPendingEnd == Held = FALSE => (Spec => []NothingEndsPending)
  <1> SUFFICES ASSUME Held = FALSE PROVE Spec => []NothingEndsPending
    OBVIOUS
  <1>1. SessionInv => NothingEndsPending
    BY DEF SessionInv, NothingEndsPending
  <1> QED
    BY <1>1, SessionInvariant, PTL

=============================================================================
