---------------------------- MODULE CheckoutWrites ----------------------------
(***************************************************************************)
(* What the command line writes into one checkout: entries and their       *)
(* attachments, WIP markers, the schema stamp.  A command loads the graph, *)
(* writes its files one after the other and commits the paths it wrote;    *)
(* nothing locks the checkout between those steps, and a command that is   *)
(* killed or whose commit fails leaves the files it wrote.  A file holds   *)
(* what one of its commands wrote: entry text, a marker, the stamp.        *)
(***************************************************************************)
EXTENDS Naturals, FiniteSets

CONSTANTS
    Callers, Commands,      \* what may be run, [kind, type, stem, to, title, ref]
    Types, Stems,           \* an entry's file is named by both
    Original, First, Second, \* type and stems of the entries there are at first
    None,
    Filled, ByHand, Guess,  \* texts: a model's, the user's; the kind lint fills in
    EditsBetween,           \* the user edits only while no command runs
    MaxCalls, MaxFaults, MaxEdits

VARIABLES
    work, head,             \* the files on disk, the files the last commit records
    branch,                 \* the branch a WIP marker names
    call,                   \* the command each process is in
    notes                   \* history: commands, faults, edits; what was corrected by hand

vars == <<work, head, branch, call, notes>>

Entry(t, s) == [in |-> "graph", type |-> t, stem |-> s]
Attached(t, s) == [in |-> "attachments", type |-> t, stem |-> s]
Entries == {Entry(t, s) : t \in Types, s \in Stems}
Meta == [in |-> "meta", type |-> None, stem |-> None]
Marker == [in |-> "wip", type |-> None, stem |-> None]
Files == Entries \cup {Attached(t, s) : t \in Types, s \in Stems} \cup {Meta, Marker}
AttachmentOf(f) == Attached(f.type, f.stem)
Idle == [at |-> "idle"]
Old == 1
Current == 2

Graph == [f \in Entries |-> work[f]]
Present(g) == {f \in DOMAIN g : g[f] # None}
Titled == work[Meta] = Current
Downstream(g, f) == {e \in Present(g) : g[e].ref = f}

\* Two entries of one type, the second pointing at the first, which has an attachment.
Init ==
    /\ \E m \in {Old, Current}, texts \in [{First, Second} -> {None, ByHand}] :
        LET t == Original IN
        work = [f \in Files |->
            CASE f = Entry(t, First) -> [ref |-> None, title |-> None, summary |-> texts[First], kind |-> Guess]
              [] f = Entry(t, Second) -> [ref |-> Entry(t, First), title |-> None,
                                          summary |-> texts[Second], kind |-> None]
              [] f = Attached(t, First) -> ByHand
              [] f = Meta -> m
              [] OTHER -> None]
    /\ notes = [calls |-> 0, faults |-> 0, edits |-> 0, moved |-> FALSE, migrated |-> FALSE,
                hand |-> {f \in Entries : work[f] # None /\ work[f].summary = ByHand}]
    /\ head = work
    /\ branch = "none"
    /\ call = [p \in Callers |-> Idle]

In(p, kind, at) == call[p].at = at /\ call[p].kind \in kind
Goto(p, at) == call' = [call EXCEPT ![p].at = at]
Return(p) == call' = [call EXCEPT ![p] = Idle]
Fault == notes.faults < MaxFaults /\ notes' = [notes EXCEPT !.faults = @ + 1]
Write(p, f, content) == work' = [work EXCEPT ![f] = content]
Target(p) == Entry(call[p].type, call[p].stem)
Renamed(p) == Entry(call[p].to, call[p].stem)

\* The entries a fill would write (Summarize, TitleBackfill).
Planned(g, named) ==
    IF named # {} THEN named
    ELSE {f \in Present(g) : g[f].summary = None \/ (g[f].title = None /\ Titled)}
Begin(p) ==
    /\ call[p] = Idle /\ notes.calls < MaxCalls
    /\ \E c \in Commands :
        LET f == Entry(c.type, c.stem)
            to == Entry(c.to, c.stem)
            named == IF c.kind \in {"summarize", "explain"} THEN {f} ELSE {}
            inbound == Downstream(Graph, f)
            plan == CASE c.kind = "rewrite" -> inbound
                      [] c.kind = "lint" -> {e \in Present(Graph) : work[e].kind = None}
                      [] c.kind \in {"summarize", "explain", "fill"} -> Planned(Graph, named)
                      [] OTHER -> {}
            first == CASE c.kind = "rewrite" -> IF f = to THEN "target" ELSE "move"
                       [] c.kind \in {"summarize", "explain", "fill", "lint"} -> "write"
                       [] c.kind = "migrate" -> "stranded"
                       [] c.kind = "start" -> "mark"
                       [] c.kind = "done" -> "unmark"
                       [] c.kind = "new" -> "target"
        IN
        /\ c.kind \in {"rewrite", "summarize", "explain", "start"} => work[f] # None
        /\ c.kind = "rewrite" => (f = to \/ work[to] = None) /\ work[f].kind # c.to
        /\ c.kind = "new" => work[f] = None /\ work[c.ref] # None
        /\ c.kind = "done" => work[Marker] # None
        /\ call' = [call EXCEPT ![p] = [kind |-> c.kind, type |-> c.type, stem |-> c.stem, to |-> c.to,
            title |-> c.title, ref |-> c.ref, at |-> first, graph |-> Graph, titles |-> Titled,
            plan |-> plan, paths |-> {}, failed |-> FALSE, marker |-> work[Marker]]]
        /\ notes' = [notes EXCEPT !.calls = @ + 1, !.migrated = FALSE,
            !.moved = @ \/ (c.kind = "rewrite" /\ f # to),
            !.hand = @ \ (IF c.kind = "rewrite" THEN inbound \cup {f}
                          ELSE IF c.kind = "summarize" THEN {f} ELSE {})]
    /\ UNCHANGED <<work, head, branch>>

\* Killed, or an operation on the disk fails: what was written stays.
Stop(p) ==
    /\ call[p] # Idle
    /\ Fault /\ Return(p)
    /\ UNCHANGED <<work, head, branch>>
\* The user corrects a summary and commits the file.
Edit(f) ==
    /\ work[f] # None /\ notes.edits < MaxEdits
    /\ EditsBetween => \A p \in Callers : call[p] = Idle
    /\ work' = [work EXCEPT ![f].summary = ByHand]
    /\ head' = [head EXCEPT ![f] = [work[f] EXCEPT !.summary = ByHand]]
    /\ notes' = [notes EXCEPT !.edits = @ + 1, !.hand = @ \cup {f}, !.migrated = FALSE]
    /\ UNCHANGED <<branch, call>>
-----------------------------------------------------------------------------
\* RewriteEntry: `git mv` of the file and of its attachments, then the target, then
\* every entry that pointed at it, each as the loaded graph has it.
Move(p) ==
    /\ In(p, {"rewrite"}, "move")
    /\ IF work[Target(p)] = None \/ work[Renamed(p)] # None
       THEN Return(p) /\ UNCHANGED work
       ELSE /\ work' = [work EXCEPT ![Target(p)] = None, ![Renamed(p)] = work[Target(p)]]
            /\ Goto(p, "attachments")
    /\ UNCHANGED <<head, branch, notes>>
MoveAttachments(p) ==
    /\ In(p, {"rewrite"}, "attachments")
    /\ LET old == AttachmentOf(Target(p))  new == AttachmentOf(Renamed(p)) IN
        work' = IF work[old] = None THEN work
                ELSE [work EXCEPT ![old] = None, ![new] = work[old]]
    /\ Goto(p, "target")
    /\ UNCHANGED <<head, branch, notes>>
WriteTarget(p) ==
    /\ In(p, {"rewrite"}, "target")
    /\ work' = [work EXCEPT ![Renamed(p)] =
            [call[p].graph[Target(p)] EXCEPT !.kind = call[p].to, !.summary = None]]
    /\ call' = [call EXCEPT ![p].at = "write", ![p].paths = {Renamed(p)}]
    /\ UNCHANGED <<head, branch, notes>>

\* What a command writes over an entry it loaded.
Fixed(e) == [e EXCEPT !.kind = Guess]
Explained(e) == [e EXCEPT !.summary = ByHand]
Rewritten(p, f) ==
    LET e == call[p].graph[f] IN
    CASE call[p].kind = "rewrite" -> [e EXCEPT !.ref = Renamed(p), !.summary = None]
      [] call[p].kind = "lint" -> Fixed(e)
      [] call[p].kind = "explain" -> Explained(e)
      [] call[p].kind = "summarize" -> [e EXCEPT !.summary = Filled, !.title = IF call[p].titles THEN Filled ELSE @]
      [] OTHER -> [e EXCEPT !.summary = IF @ = None THEN Filled ELSE @,
                            !.title = IF call[p].titles THEN Filled ELSE @]
\* One file of the plan; a model may fail for one entry and answer for the others.
WriteFile(p) ==
    /\ call[p].at = "write"
    /\ \E f \in call[p].plan :
        \/ /\ work' = [work EXCEPT ![f] = Rewritten(p, f)]
           /\ call' = [call EXCEPT ![p].plan = @ \ {f}, ![p].paths = @ \cup {f}]
        \/ /\ call[p].kind \in {"summarize", "fill", "migrate"}
           /\ call' = [call EXCEPT ![p].plan = @ \ {f}, ![p].failed = TRUE]
           /\ UNCHANGED work
    /\ UNCHANGED <<head, branch, notes>>
AllWritten(p) ==
    /\ call[p].at = "write" /\ call[p].plan = {}
    /\ IF call[p].paths # {}
       THEN Goto(p, "commit") /\ UNCHANGED notes
       ELSE /\ Return(p)
            /\ notes' = [notes EXCEPT !.migrated = call[p].kind = "migrate" /\ ~ call[p].failed]
    /\ UNCHANGED <<work, head, branch>>

\* `git commit -- paths` records those paths as they are on disk; it refuses a path
\* git does not know, and a commit without a change.
Committed(paths) == [f \in Files |-> IF f \in paths THEN work[f] ELSE head[f]]
Committable(paths) ==
    /\ \A f \in paths : work[f] # None \/ head[f] # None
    /\ \E f \in paths : work[f] # head[f]
Commit(p) ==
    /\ call[p].at = "commit"
    /\ IF Committable(call[p].paths)
       THEN /\ head' = Committed(call[p].paths)
            /\ notes' = [notes EXCEPT !.migrated = call[p].kind = "migrate" /\ ~ call[p].failed]
            /\ IF call[p].kind \in {"start", "done"} /\ call[p].title
               THEN Goto(p, "branch") ELSE Return(p)
       ELSE Return(p) /\ UNCHANGED <<head, notes>>
    /\ UNCHANGED <<work, branch>>
-----------------------------------------------------------------------------
\* `sdd migrate`.  Titles a fill wrote and did not get to commit are committed first.
GainedTitle(f) == head[f].title = None /\ work[f].title # None
Stranded == {f \in Entries : work[f] # None /\ head[f] # None /\ GainedTitle(f)}
\* Mutant: the first look is skipped.
NothingStranded(p) ==
    /\ In(p, {"migrate"}, "stranded")
    /\ Goto(p, "owed")
    /\ UNCHANGED <<work, head, branch, notes>>
CommitStranded(p) ==
    /\ In(p, {"migrate"}, "stranded")
    /\ head' = Committed(Stranded)
    /\ Goto(p, "owed")
    /\ UNCHANGED <<work, branch, notes>>
\* The stamp comes before the fill: the fill writes titles.
NothingOwed(p) ==
    /\ In(p, {"migrate"}, "owed")
    /\ Titled /\ \A f \in Present(Graph) : work[f].title # None
    /\ Return(p)
    /\ notes' = [notes EXCEPT !.migrated = TRUE]
    /\ UNCHANGED <<work, head, branch>>
Stamp(p) ==
    /\ In(p, {"migrate"}, "owed")
    /\ ~ Titled
    /\ work' = [work EXCEPT ![Meta] = Current]
    /\ Goto(p, "stamped")
    /\ UNCHANGED <<head, branch, notes>>
CommitStamp(p) ==
    /\ In(p, {"migrate"}, "stamped")
    /\ IF Committable({Meta})
       THEN head' = Committed({Meta}) /\ (Goto(p, "owed") \/ Return(p))   \* or --stamp-only
       ELSE Return(p) /\ UNCHANGED head
    /\ UNCHANGED <<work, branch, notes>>
PlanFill(p) ==
    /\ In(p, {"migrate"}, "owed")
    /\ Titled /\ \E f \in Present(Graph) : work[f].title = None
    /\ call' = [call EXCEPT ![p].at = "write", ![p].graph = Graph, ![p].titles = TRUE,
                            ![p].plan = Planned(Graph, {})]
    /\ UNCHANGED <<work, head, branch, notes>>
-----------------------------------------------------------------------------
\* NewEntry writes the entry and then its attachments; a model may have given no text.
WriteEntry(p) ==
    /\ In(p, {"new"}, "target")
    /\ \E text \in {None, Filled} :
        work' = [work EXCEPT ![Target(p)] =
            [ref |-> call[p].ref, summary |-> text, kind |-> call[p].type,
             title |-> IF call[p].titles THEN text ELSE None]]
    /\ call' = [call EXCEPT ![p].at = "attach", ![p].paths = {Target(p)}]
    /\ UNCHANGED <<head, branch, notes>>
WriteAttachment(p) ==
    /\ In(p, {"new"}, "attach")
    /\ work' = [work EXCEPT ![AttachmentOf(Target(p))] = ByHand]
    /\ call' = [call EXCEPT ![p].at = "commit", ![p].paths = @ \cup {AttachmentOf(Target(p))}]
    /\ UNCHANGED <<head, branch, notes>>

\* StartWIP and FinishWIP: the marker, its commit, then the branch.
StartWIP(p) ==
    /\ In(p, {"start"}, "mark")
    /\ work' = [work EXCEPT ![Marker] = [branched |-> call[p].title]]
    /\ call' = [call EXCEPT ![p].at = "commit", ![p].paths = {Marker}]
    /\ UNCHANGED <<head, branch, notes>>
FinishWIP(p) ==
    /\ In(p, {"done"}, "unmark")
    /\ IF work[Marker] = None
       THEN Return(p) /\ UNCHANGED work
       ELSE /\ work' = [work EXCEPT ![Marker] = None]
            /\ call' = [call EXCEPT ![p].at = "commit", ![p].paths = {Marker},
                                    ![p].title = call[p].marker.branched]
    /\ UNCHANGED <<head, branch, notes>>
Branch(p) ==
    /\ call[p].at = "branch"
    /\ branch' = CASE call[p].kind = "start" /\ branch = "none" -> "open"
                   [] call[p].kind = "done" /\ branch = "merged" -> "none"
                   [] OTHER -> branch
    /\ Return(p)
    /\ UNCHANGED <<work, head, notes>>
MergeBranch ==
    /\ branch = "open" /\ branch' = "merged"
    /\ UNCHANGED <<work, head, call, notes>>

Step(p) ==
    \/ Begin(p) \/ Stop(p)
    \/ Move(p) \/ MoveAttachments(p) \/ WriteTarget(p) \/ WriteFile(p) \/ AllWritten(p) \/ Commit(p)
    \/ CommitStranded(p) \/ NothingOwed(p) \/ Stamp(p) \/ CommitStamp(p) \/ PlanFill(p)
    \/ WriteEntry(p) \/ WriteAttachment(p)
    \/ StartWIP(p) \/ FinishWIP(p) \/ Branch(p)
Next == (\E p \in Callers : Step(p)) \/ (\E f \in Entries : Edit(f)) \/ MergeBranch
Spec == Init /\ [][Next]_vars
-----------------------------------------------------------------------------
Quiet == \A p \in Callers : call[p] = Idle

\* After a migration that reported success, whatever was killed or failed before it,
\* every entry that is on disk and in the last commit has its title in that commit
\* (CommitStrandedTitles, the fill's commit of what it wrote).
MigratedIsCommitted ==
    notes.migrated => \A f \in Entries :
        work[f] # None /\ head[f] # None => head[f].title # None

\* Nothing is left uncommitted by calls that were not killed and whose commits did
\* not fail, whatever they did to each other and for whichever entries the model
\* failed; a rewrite that moves a file is the exception below (Summarize, Commit).
NothingLeftBehind == Quiet /\ notes.faults = 0 /\ ~ notes.moved => work = head

\* A summary the user corrected is replaced only by a command that names the entry
\* or rewrites it or what it points at (Summarize's plan and its title-only calls).
HandWorkSurvives == \A f \in notes.hand : work[f] # None /\ work[f].summary = ByHand

\* Calls that run to their end leave no reference to an entry that is gone
\* (RewriteEntry's inbound entries, ValidateForWrite).
ReferencesResolve ==
    Quiet /\ notes.faults = 0 => \A f \in Present(Graph) : work[f].ref # None => work[work[f].ref] # None

\* handler_summarize.go: "a summary corrected by hand survives the fill".
FillKeepsHandWork ==
    \A f \in Entries :
        work[f] # None /\ work[f].summary = ByHand /\ work'[f] # None /\ work'[f].summary # ByHand =>
            \E p \in Callers : /\ call[p] # Idle /\ call[p] # call'[p]
                               /\ call[p].kind \notin {"fill", "migrate"}
\* handler_rewrite.go: RewriteEntry "commits atomically".
RewriteIsCommitted == Quiet /\ notes.faults = 0 => work = head
=============================================================================
