----------------------------- MODULE ProjectSetup -----------------------------
(***************************************************************************)
(* `sdd init`: a run takes a repository from whatever an earlier run, an   *)
(* interrupted one or the user left to one that is set up, and commits     *)
(* what it wrote.  A run may stop before any write; the user edits or      *)
(* discards files between and during runs; runs may be of different        *)
(* releases.  A repository holds its own graph or, Pointing, names the     *)
(* project that does.  A file's content stands for its hash.               *)
(***************************************************************************)
EXTENDS Naturals, Sequences, FiniteSets, TLC

CONSTANTS
    AgentOrder,             \* the known agents; the first is the default
    Bundles,                \* what each release ships: its number -> [file -> content]
    Places,                 \* graph directories (or projects) a command may name
    Commands,               \* the commands users give
    Pointing,
    Mine, Unset,            \* what a user writes; no value
    MaxRuns, MaxEdits, MaxStops

VARIABLES
    made,                   \* directories
    tree, head,             \* each path's value, on disk and committed
    run,                    \* the current or last run
    notes                   \* history: counts, and agents rendered without a record

vars == <<made, tree, head, run, notes>>

Agents == {AgentOrder[i] : i \in DOMAIN AgentOrder}
Default == AgentOrder[1]
Releases == DOMAIN Bundles
Files == UNION {DOMAIN Bundles[v] : v \in Releases}
Sdd == ".sdd"

ConfigPath == <<"config">>
IgnorePath == <<"gitignore">>
MetaPath == <<"meta">>
BridgePaths == {<<"bridge", n>> : n \in {"AGENTS.md", "CLAUDE.md"}}
Registration(a) == <<"mcp", a>>
\* Skills of the project are part of the repository, the user's are not.
SkillPath(scope, a, f) == <<scope, a, f>>
SkillPaths == {"project", "user"} \X Agents \X Files
Tracked(p) == p[1] # "user"

NoConfig == [present |-> FALSE, place |-> Unset, branch |-> Unset, scope |-> Unset, agents |-> {}]
Missing == [content |-> Unset, stamp |-> Unset, version |-> 0]
Empty(p) ==
    CASE p = ConfigPath -> NoConfig [] p = IgnorePath -> {} [] p = MetaPath -> 0
      [] p \in SkillPaths -> Missing [] OTHER -> "absent"
Paths == {ConfigPath, IgnorePath, MetaPath} \cup BridgePaths
         \cup {Registration(a) : a \in Agents} \cup SkillPaths

Idle == [pc |-> "idle", cmd |-> <<>>, fresh |-> FALSE, scope |-> Unset, agents |-> {},
         recorded |-> {}, pending |-> {}, at |-> Unset, todo |-> <<>>, touched |-> {},
         raced |-> {}, repeat |-> FALSE]

Bare == [p \in Paths |-> Empty(p)]
Init ==
    /\ made = {}
    /\ \E own \in {{}, {<<"bridge", "CLAUDE.md">>}} :
        tree = [p \in own |-> "mine"] @@ Bare
    /\ head = tree
    /\ run = Idle
    /\ notes = [runs |-> 0, edits |-> 0, stops |-> 0, since |-> 0, unrecorded |-> {}]

-----------------------------------------------------------------------------
\* What an installed file is to the release that runs.
Render(v, f) == [content |-> Bundles[v][f], stamp |-> Bundles[v][f], version |-> v]
ComputeSkillStatus(embedded, installed) ==
    CASE installed = Missing -> "missing"
      [] installed.stamp = Unset -> IF installed.content = embedded THEN "pristine" ELSE "modified"
      [] installed.stamp # Unset /\ installed.content # installed.stamp -> "modified"
      [] installed.stamp = embedded /\ installed.content = embedded -> "current"
      [] OTHER -> "pristine"
ClassifySkillOrphan(installed) ==
    CASE installed.stamp = Unset -> "foreign"
      [] installed.stamp = installed.content -> "unmodified"
      [] OTHER -> "modified"
SkillStampIsAhead(stamped, binary) == stamped > binary

Installed(a, f) == tree[SkillPath(run.scope, a, f)]
StatusOf(a) == [f \in DOMAIN Bundles[run.cmd.binary] |->
                    ComputeSkillStatus(Bundles[run.cmd.binary][f], Installed(a, f))]
\* Mutant: only what the running release installed itself.
PrunableCurrent(a) == [f \in {f \in DOMAIN StatusOf(a) : StatusOf(a)[f] = "current"} |-> StatusOf(a)[f]]
Prunable(a) == [f \in {f \in DOMAIN StatusOf(a) : StatusOf(a)[f] # "missing"} |-> StatusOf(a)[f]]
Orphans(a) ==
    [f \in {f \in Files \ DOMAIN Bundles[run.cmd.binary] :
                /\ ClassifySkillOrphan(Installed(a, f)) # "foreign"
                /\ ~SkillStampIsAhead(Installed(a, f).version, run.cmd.binary)} |->
        ClassifySkillOrphan(Installed(a, f))]

-----------------------------------------------------------------------------
\* One command: [binary, place, branch, scope, agents, force, prompt, bump].
ResolveAgents(cmd, recorded) ==
    CASE cmd.agents # {} -> cmd.agents
      [] cmd.agents = {} /\ recorded # {} -> recorded
      [] OTHER -> {Default}
ResolveScope(cmd, recorded) ==
    CASE recorded # Unset -> recorded
      [] recorded = Unset /\ cmd.scope # Unset -> cmd.scope
      [] OTHER -> "user"
\* A pointing repository asks for the file, a project for the directory.
Fresh == IF Pointing THEN ~tree[ConfigPath].present ELSE Sdd \notin made
\* meta.json of a project that is pointed at is not in this repository.
WriteGate(cmd) == tree[MetaPath] <= cmd.binary
Begin(cmd) ==
    LET config == tree[ConfigPath]
    IN /\ run.pc \in {"idle", "done"} /\ notes.runs < MaxRuns
       /\ WriteGate(cmd)
       \* A scope that contradicts the recorded one is refused before anything is written.
       /\ cmd.scope # Unset => config.scope \in {Unset, cmd.scope}
       /\ run' = [Idle EXCEPT !.pc = IF Fresh THEN "directory" ELSE IF Pointing THEN "upsert" ELSE "graph",
                              !.cmd = cmd, !.fresh = Fresh, !.recorded = config.agents,
                              !.scope = ResolveScope(cmd, config.scope),
                              !.agents = ResolveAgents(cmd, config.agents),
                              !.repeat = run.pc = "done" /\ run.cmd = cmd /\ notes.since = notes.edits]
       /\ notes' = [notes EXCEPT !.runs = @ + 1, !.since = notes.edits]
       /\ UNCHANGED <<made, tree, head>>

\* Files written, and the next step.
Write(values, next) ==
    /\ tree' = values @@ tree
    /\ run' = [next EXCEPT !.touched = @ \cup {p \in DOMAIN values : values[p] # tree[p]}]
    /\ UNCHANGED head
At(pc) == run.pc = pc
To(pc) == [run EXCEPT !.pc = pc]
Go(pc) == run' = To(pc) /\ UNCHANGED <<tree, head>>

MakeDirectory == At("directory") /\ made' = made \cup {Sdd} /\ Go("config") /\ UNCHANGED notes
WriteConfig ==
    /\ At("config")
    /\ Write(ConfigPath :> [present |-> TRUE, place |-> run.cmd.place, scope |-> run.scope,
                            branch |-> IF Pointing THEN Unset ELSE run.cmd.branch,
                            agents |-> run.agents],
             To(IF Pointing THEN "ignore" ELSE "graph"))
    /\ UNCHANGED <<made, notes>>
MakeGraph ==
    /\ At("graph") /\ made' = made \cup {run.cmd.place}
    /\ Go(IF run.fresh THEN "ignore" ELSE "upsert") /\ UNCHANGED notes

\* A configuration that exists gains what it does not record; only the project it
\* points to is replaced.
UpsertConfig ==
    LET config == tree[ConfigPath]
    IN /\ At("upsert")
       /\ Write(ConfigPath :> [config EXCEPT
                    !.present = TRUE, !.scope = run.scope,
                    !.place = IF Pointing THEN run.cmd.place ELSE @,
                    !.branch = IF Pointing \/ @ # Unset THEN @ ELSE run.cmd.branch],
                IF run.cmd.agents = {} THEN To("ignore")
                ELSE [To("drop") EXCEPT
                        !.pending = IF run.scope = "project" THEN run.recorded \ run.agents ELSE {}])
       /\ UNCHANGED <<made, notes>>

-----------------------------------------------------------------------------
\* The passes over agents: what each file is is read for a whole agent, then the
\* files are handled one by one.
Passes == {"drop", "install", "orphans"}
Files2Do(a) ==
    CASE At("drop") -> Prunable(a) [] At("install") -> StatusOf(a) [] At("orphans") -> Orphans(a)
Classify ==
    /\ run.pc \in Passes /\ run.todo = <<>> /\ run.pending # {}
    /\ LET a == AgentOrder[CHOOSE i \in DOMAIN AgentOrder :
                    /\ AgentOrder[i] \in run.pending
                    /\ \A j \in 1 .. i - 1 : AgentOrder[j] \notin run.pending]
       IN run' = [run EXCEPT !.pending = @ \ {a}, !.at = a, !.todo = Files2Do(a),
                             !.raced = @ \ {SkillPath(run.scope, a, f) : f \in DOMAIN Files2Do(a)}]
    /\ UNCHANGED <<made, tree, head, notes>>
EndPass ==
    /\ run.pc \in Passes /\ run.todo = <<>> /\ run.pending = {}
    /\ CASE At("drop") -> Go("record")
         [] At("install") -> /\ run' = [To("orphans") EXCEPT !.pending = run.agents]
                             /\ UNCHANGED <<tree, head>>
         [] At("orphans") -> Go(IF run.scope = "project" THEN "register" ELSE "commit")
    /\ UNCHANGED <<made, notes>>

\* The files of a bundle have a fixed order, which one does not matter.
Turn(f) == run.todo # <<>> /\ f = CHOOSE g \in DOMAIN run.todo : TRUE
Handled(f) == [run EXCEPT !.todo = [g \in DOMAIN run.todo \ {f} |-> run.todo[g]]]
InstallFile(f) ==
    /\ At("install") /\ Turn(f)
    /\ IF \/ run.todo[f] \in {"missing", "pristine"}
          \/ run.todo[f] = "modified" /\ (run.cmd.force \/ run.cmd.prompt)
       THEN Write(SkillPath(run.scope, run.at, f) :> Render(run.cmd.binary, f), Handled(f))
       ELSE run' = Handled(f) /\ UNCHANGED <<tree, head>>
    /\ UNCHANGED <<made, notes>>
\* Mutant: edited files are removed with the others.
RemoveAnyFile(f) ==
    /\ run.pc \in {"drop", "orphans"} /\ Turn(f)
    /\ Write(SkillPath(run.scope, run.at, f) :> Missing, Handled(f))
    /\ UNCHANGED <<made, notes>>
RemoveFile(f) ==
    /\ run.pc \in {"drop", "orphans"} /\ Turn(f)
    /\ IF run.todo[f] # "modified" \/ run.cmd.force
       THEN Write(SkillPath(run.scope, run.at, f) :> Missing, Handled(f))
       ELSE run' = Handled(f) /\ UNCHANGED <<tree, head>>
    /\ UNCHANGED <<made, notes>>
RecordAgents ==
    /\ At("record")
    /\ Write(ConfigPath :> [tree[ConfigPath] EXCEPT !.agents = run.agents], To("ignore"))
    /\ UNCHANGED <<made, notes>>

-----------------------------------------------------------------------------
EnsureIgnored ==
    /\ At("ignore")
    /\ Write(IgnorePath :> tree[IgnorePath] \cup {Sdd} \cup (IF Pointing THEN {} ELSE {run.cmd.place}),
             To("bridge"))
    /\ UNCHANGED <<made, notes>>
Scaffold ==
    /\ At("bridge")
    /\ Write([p \in {p \in BridgePaths : run.agents # {Default} /\ tree[p] = "absent"} |-> "scaffold"],
             IF Pointing THEN [To("install") EXCEPT !.pending = run.agents] ELSE To("meta"))
    /\ UNCHANGED <<made, notes>>
BumpMinimumVersion(floor) == IF run.cmd.bump /\ floor < run.cmd.binary THEN run.cmd.binary ELSE floor
WriteMeta ==
    /\ At("meta")
    /\ Write(MetaPath :> BumpMinimumVersion(IF tree[MetaPath] = 0 THEN run.cmd.binary ELSE tree[MetaPath]),
             [To("install") EXCEPT !.pending = run.agents])
    /\ notes' = [notes EXCEPT !.unrecorded = @ \cup (run.agents \ tree[ConfigPath].agents)]
    /\ UNCHANGED made
Register ==
    /\ At("register")
    /\ Write([p \in {p \in {Registration(a) : a \in run.agents} : tree[p] = "absent"} |-> "sdd"],
             To("commit"))
    /\ UNCHANGED <<made, notes>>
Commit ==
    /\ At("commit")
    /\ head' = [p \in Paths |-> IF p \in run.touched /\ Tracked(p) THEN tree[p] ELSE head[p]]
    /\ run' = To("done")
    /\ UNCHANGED <<made, tree, notes>>

\* A write fails or the process dies: what was touched is forgotten.
Stop ==
    /\ run.pc \notin {"idle", "done"} /\ notes.stops < MaxStops
    /\ run' = Idle /\ notes' = [notes EXCEPT !.stops = @ + 1]
    /\ UNCHANGED <<made, tree, head>>
\* A user edits an installed file, puts one there, or discards it.
Edit(p) ==
    /\ notes.edits < MaxEdits /\ p[1] = tree[ConfigPath].scope
    /\ \E v \in {[tree[p] EXCEPT !.content = Mine], Missing} :
        v # tree[p] /\ tree' = [tree EXCEPT ![p] = v]
    /\ run' = [run EXCEPT !.raced = @ \cup {p}]
    /\ notes' = [notes EXCEPT !.edits = @ + 1]
    /\ UNCHANGED <<made, head>>

Next ==
    \/ \E cmd \in Commands : Begin(cmd)
    \/ MakeDirectory \/ WriteConfig \/ MakeGraph \/ UpsertConfig
    \/ Classify \/ EndPass \/ RecordAgents
    \/ \E f \in Files : InstallFile(f) \/ RemoveFile(f)
    \/ EnsureIgnored \/ Scaffold \/ WriteMeta \/ Register \/ Commit
    \/ Stop
    \/ \E p \in SkillPaths : Edit(p)
Spec == Init /\ [][Next]_vars

-----------------------------------------------------------------------------
Edited(p) == tree[p].content = Mine
Unmodified(p) == tree[p] # Missing /\ tree[p].stamp = tree[p].content

TypeOK ==
    /\ made \subseteq {Sdd} \cup Places
    /\ DOMAIN tree = Paths /\ DOMAIN head = Paths
    /\ tree[IgnorePath] \subseteq {Sdd} \cup Places
    /\ tree[MetaPath] \in {0} \cup Releases
    /\ \A p \in SkillPaths : tree[p].version \in {0} \cup Releases
    /\ run.touched \subseteq Paths /\ run.agents \subseteq Agents

\* A run that ends leaves every agent it renders with the files of its release, or
\* the user's edits of them, no unmodified file an earlier release left behind, and
\* nothing of its release for the agents it dropped.
Completes ==
    At("done") =>
        /\ \A a \in run.agents, f \in Files :
            LET p == SkillPath(run.scope, a, f)
            IN p \notin run.raced =>
                IF f \in DOMAIN Bundles[run.cmd.binary]
                THEN Edited(p) \/ (Unmodified(p) /\ tree[p].content = Bundles[run.cmd.binary][f])
                ELSE Unmodified(p) => tree[p].version > run.cmd.binary
        /\ run.scope = "project" => \A a \in run.agents : tree[Registration(a)] # "absent"
        /\ tree[ConfigPath].scope = run.scope
        /\ run.cmd.agents # {} => tree[ConfigPath].agents = run.cmd.agents

\* A configuration never claims an agent gone whose files are still there: a drop
\* that was interrupted is one the next run still knows to make.
DropsAreRetried ==
    \A a \in Agents \ tree[ConfigPath].agents, f \in Files :
        (/\ tree[ConfigPath].agents # {} /\ a \notin notes.unrecorded
         /\ \A v \in Releases : f \in DOMAIN Bundles[v]) =>
            ~Unmodified(SkillPath("project", a, f))

\* What an uninterrupted history of runs wrote is committed when the last one ends.
CommitsWhatItWrote ==
    At("done") /\ notes.stops = 0 =>
        \A p \in Paths : Tracked(p) /\ p \notin run.raced /\ tree[p] # head[p] =>
            p \in SkillPaths /\ (Edited(p) \/ tree[p] = Missing)

\* A run that repeats the last one over what it left writes nothing and commits
\* nothing.
RepeatIsQuiet ==
    run.repeat /\ run'.repeat /\ notes'.edits = notes.since => UNCHANGED <<tree, head>>
RepeatsAreQuiet == [][RepeatIsQuiet]_vars

\* No run changes or removes what a user wrote, unless told to; nothing the user put
\* beside the bundle is removed at all, nor what a later release installed and this
\* one does not ship; and what the configuration records stays.
KeepsEditsInStep ==
    notes'.edits = notes.edits =>
        /\ \A p \in SkillPaths : Edited(p) /\ tree'[p] # tree[p] =>
            \/ p \in run.raced
            \/ run.cmd.force /\ (run.pc = "orphans" => tree[p].stamp # Unset)
            \/ run.pc = "install" /\ run.cmd.prompt
        /\ \A p \in SkillPaths : run.pc = "orphans" /\ tree'[p] # tree[p] =>
                tree[p].version <= run.cmd.binary
        /\ \A p \in BridgePaths : tree[p] = "mine" => tree'[p] = "mine"
        /\ tree[ConfigPath].branch # Unset => tree'[ConfigPath].branch = tree[ConfigPath].branch
        /\ tree[ConfigPath].scope # Unset => tree'[ConfigPath].scope = tree[ConfigPath].scope
KeepsEdits == [][KeepsEditsInStep]_vars

\* Not so of this code: a run started after an interrupted one finishes its work.
StoppedRunsAreFinished ==
    At("done") => \A p \in Paths : Tracked(p) /\ tree[p] # head[p] =>
                      p \in SkillPaths /\ (Edited(p) \/ tree[p] = Missing \/ p \in run.raced)
\* Not so of this code: a project that is set up records where its graph is.
ConfigNamesGraph == At("done") => tree[ConfigPath].place # Unset
\* Not so of this code: only the recorded place is made and ignored.
OneGraph == Places \cap made \subseteq {tree[ConfigPath].place}
\* Not so of this code: a dropped agent leaves nothing unmodified behind.
DropsLeaveNothing ==
    At("done") /\ run.scope = "project" =>
        \A a \in Agents \ run.agents, f \in Files : ~Unmodified(SkillPath("project", a, f))
\* Not so of this code: an edit made while a run is under way survives it.
LateEditsSurvive ==
    [][notes'.edits = notes.edits =>
        \A p \in SkillPaths : Edited(p) /\ tree'[p] # tree[p] => run.cmd.force \/ run.cmd.prompt]_vars
=============================================================================
