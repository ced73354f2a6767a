# TLA+ models and proofs for sdd

sdd keeps a project's decisions as a graph of entries, files in a Git repository,
and walks a user and an agent through *procedures* whose steps publish such
entries. Many processes touch the same files: command lines, one or more servers,
editors and git. This directory models the parts where that is hard, model-checks
them on small instances, and proves the invariants that matter most for every
instance.

* [Running the checks](#running-the-checks)
* [Inventory of the system](#inventory-of-the-system)
* [The modules](#the-modules) and how they correspond to the code
* [What the runs check](#what-the-runs-check), bounds, fairness
* [What is proved](#what-is-proved), from which assumptions
* [Where code and comments disagree](#where-code-and-comments-disagree)
* [What is not modelled](#what-is-not-modelled), [What is left](#what-is-left)

## Running the checks

    tlc -workers 2 -config Capture.cfg MCWorkflowSession
    tlc -workers 2 -config Stores.cfg MCStores       # also Settles / MCSettles, Rules / MCRules
    tlapm IndexStore_proofs.tla                      # any *_proofs.tla

`PROJECT.json` lists the runs with the module of each configuration; for every
property of a run a mutation of the model that breaks it; the source lines of
every definition; the hazards, the findings and the theorems.

## Inventory of the system

| Component (source) | State | Operations | Interacts with |
|---|---|---|---|
| Procedure engine (`internal/engine`: `session.go`, `instance.go`, `store.go`) | instances (procedure, step, status, store, `opDone`, `interactionStep`, dispatch seed), the instance counter, the latest operation | `Start`, `Report`, `Answer`, `Abandon`, `Park`, `cascade`, `transitionTo`, `ReplaySession` | appends to a sink (the workflow session); calls registry functions |
| Operations (`internal/engine/mutation.go`, `instance.go`) | latest intent, the store it was recorded over, whether it is resolved, the latest cancellation | record an intent before the effect, the outcome after it; `Retry`, `Cancel` | graph store, through commands |
| Guards and registry (`guard.go`, `registry.go`, `predicates.go`) | none | predicates over a store and the graph, commands that write a store | engine, application |
| Procedure specs (`spec.go`) | parsed specs | `parseStep` and its validation | engine, the base procedures |
| Value types and payload schemas (`types.go`, `schema.go`) | none | decode, validate, render a schema | engine, specs |
| Base procedures (`internal/baseprocedures/entries`) | YAML in entries | – | data of the engine |
| Workflow sessions (`pkg/application/workflow.go`, `session_runtime.go`) | binding (log version, branch), metadata (label, branch, attachment, end), the shell | open, load, refresh, start, advance, retry, cancel, abandon, park, bind a branch, tear down | one session store, one engine session per handle |
| Capture and pre-flight (`workflow_capture.go`, `workflow_registry.go`, `capture.go`) | the verdict, folded from the log | pre-flight, override, `newEntry` | LLM, graph store |
| Document publication, WIP markers (`workflow_document.go`, `document_publication.go`) | – | `replaceSummary`, `wipStart`, `wipDone` | graph store |
| MCP tools (`pkg/mcpapp/tools.go`, `session.go`) | a cache of replays by session, each with a lock | one handler per tool; replays the session for each call | workflow sessions |
| MCP server and transport (`pkg/mcpapp/server.go`) | none | wiring, transport | MCP tools |
| Local session store (`sessionstore.go`, `pkg/local/session_store.go`) | one JSONL file and lock per session | create, append with a version, delete, list | workflow sessions, collection |
| Session collection (`collect.go`) | a cursor | sweep ended and abandoned sessions, page by page | session store, blob store |
| Blob store (`pkg/local/blob_store.go`) | staged attachments, in one of several locations | stage, open, delete | workflow sessions, collection |
| Local graph store, publication (`pkg/local/capture_publication.go`, `local_graphstore.go`) | entry, attachment and marker files | publish by key, look a publication up | git finalizer |
| Git finalizer, targets, sync (`pkg/local/git_*.go`, `internal/git`) | commits carrying the publication key | finalize, resolve a branch, push and pull | git |
| Search index (`internal/index`, `handler_index.go`, `entry_publication.go`) | row files, manifest, segments; per process the mapped segments and rows | fill, rebuild, publish, collect, search | embeddings, snapshots |
| Graph model (`internal/model`) | entries and references | derive status, resolve, lint, check a capture, walk | everything that reads |
| Read snapshots, graph cache (`read_snapshot.go`, `graph_revision.go`, `internal/graphcache`) | cached graph and revision with file stamps; pinned copies, lineage | read, revalidate, acquire, release, prove inclusion | queries, publication |
| Connected repositories (`internal/repos`, `handler_repo.go`) | user configuration, cache clones, declared dependencies | add, remove, sync, freshen, capture across repositories | git, graph |
| CLI handlers (`internal/handlers`) | files of the checkout | `init`, `new`, `rewrite`, `summarize`, `lint --fix`, `migrate`, `wip` | git, LLM, agents' skill files |
| LLM access (`internal/llm`, `pkg/llm`) | limiter, clients per schema, what an endpoint was learned to refuse | ask, retry, reformat, account | providers |
| Terminal output (`internal/cliout`) | buffered lines, a live program | log, start, stop, print what is kept | CLI handlers |
| Queries, views, ranking (`internal/finders`, `internal/query`, `vector_search.go`) | none | sections of a view, full-text, vector and hybrid search | graph, index |

**What is hard.** (1) A call appends several events, one at a time, and calls
out to an LLM, the graph store and git in between; a process may stop between
any two. (2) Several processes may hold a replay of one log; only the version an
append names keeps them apart. (3) Live code and replay are two
implementations of the same transitions and have to agree after every prefix.
(4) An operation reaches outside the log; its effect and its record are two
steps, and a retry must not double it. (5) Verdicts (playback confirmation,
pre-flight) are taken on a draft that can still be edited, for a branch that can
still be rebound. (6) Gates hand over to each other on data alone. (7) A log, a
publication, an index are several files, written by several processes one after
the other; locks cover some of the steps. (8) Sweeps, fills and collections work
from what they read long before they write. (9) Readers take a stat for a read.
(10) Checkouts capture without knowing of each other. (11) Commands write a
checkout nobody locks.

**What makes each part correct.** Engine: live session = replay of its log;
only declared options and guarded transitions move it. Operations: begun one at
a time, resolved once, effect at most once, nothing else in between. Sessions: a
log that always replays; one running shell until the end; an end over no
unfinished operation; what is appended was computed from what is stored.
Capture: what is published is what was confirmed and checked, on the branch
that is in force. Session store: an append lands whole, on the version it named,
or not at all; what was acknowledged stays. Collection: only what is due goes,
with all its files, and all that is due. Publication: found again by its key,
never doubled, whole, and nothing of another key's. Index: no version without
its rows, no version lost, no search over rows that are not published. Graph:
status, open set and lint agree with each other, in any order of arrival. Reads:
what is taken for fresh is what a read would give. Set-up and checkout writes:
the next run completes what one began, and no hand edit is lost.

## The modules

    Engine            sessions, instances and specs as data
      SessionReplay   the fold of the log: applyEvent
      Registry        predicates, commands, the target branch
    Procedures        user-dialogue, capture, implementation as data
    WorkflowSession   the state machine: a log, handles, calls, crashes
      WorkflowProperties     what it promises
        SessionInvariants    the inductive invariants
          MCWorkflowSession        instances for TLC (takes Procedures)
          WorkflowSession_proofs   the session's invariant and what follows
            WorkflowSteps_proofs   operations and their branch, the refinement, the shell,
                                   what a capture publishes
    MutationProtocol  abstract: what recorded operations promise

    SessionStore          a session's file, refines  SessionLog
    SessionCollection     staged files, sweeps
    Publication           files, index, commits, refines  KeyedPublication
    IndexStore            rows, manifest, segments and the processes that share them
    StoreView             one process's mappings and row sets of such a store
    StampedReads          reads spared by stamps: graph cache, revision
    GraphSnapshots        pinned reads, lineage
    GraphModel            entries; status, chains, open set, lint
      EntryRules          construction, edges, mechanical pre-flight
      GraphWalks          ordered and bounded traversals
      Checkouts           captures in several checkouts, pulls, upgrades
    ProjectSetup, ConnectedRepos, CheckoutWrites   the command line's writes
    ModelCalls, CommandDisplay                     calls to a model, the terminal
    SearchRanking, ViewPipeline                    ranking, view sections
      Algorithms          small inputs for these two and GraphWalks

    MCStores   extends SessionStore; instances of the stores   (Stores.cfg)
      MCSettles   with fairness, and Algorithms                (Settles.cfg)
      Stores_proofs   SessionStore, and what the run checks of each instance
    MCRules    extends Publication; instances of the rest      (Rules.cfg)
      Rules_proofs    Publication, and ServicesHold of the instances
    SessionCollection_proofs, IndexStore_proofs (with StoreView), Reads_proofs (StampedReads
    and GraphSnapshots), which MCStores takes as instances
    Services_proofs (ConnectedRepos and ModelCalls), which MCRules takes as instances

### The workflow session

**State.** The stored log is kept as what can be read from it: `ledger`, the
session its replay yields (`ReplaySession`), `readable`, that no event is refused
on the way, and `check`, the fold of `capturePreflightState`. An append applies
one event to all three. Keeping the fold and not the list makes the state
finite without bounding the number of calls, and it is exact: nothing in the
code reads the log otherwise. Versions are kept as what the compare-and-swap asks of them: `fresh[h]`, the version
handle `h` observed is the stored one; every append makes all other handles
stale. `mem[h]` is the live `engine.Session` of handle `h`, `view[h]` the branch
it knows, `call[h]` its program counter. `published` is the graph store, keyed
by operation. `ops` and `evidence` are history variables and guard nothing.

**Two implementations of one thing.** The actions of `WorkflowSession` compute
the next *live* session the way `session.go` and `instance.go` do (assign
fields of an instance, append, assign more); `SessionReplay!Apply` computes the
next *stored* session from the event alone the way `applyEvent` does. They are
written from different code, and that they agree is a property
(`ReplayAgrees`), not an assumption.

**Calls.** A handle's call runs through program counters, one append or one
call-out per step, so a crash or another handle's append can come between any
two. Correspondence:

| Action | Code |
|---|---|
| `Load`, `StartShell` | `LoadWorkflow`, `RefreshWorkflow`, `OpenWorkflow`, `ensureShell` |
| `StartProcedure`, `Start` | `WorkflowSession.Start`, `Session.Start`, `seedFromParent` |
| `Report`, `Answer`, `Retry`, `Cancel`, `Abandon`, `Park` | the methods of that name |
| `Note` | events that change no instance: label, read, served, reoriented |
| `BindBranch`, `ResyncBinding`, `RebindFails` | `BindBranch` and its conflict retry |
| `CascadeStops`, `ReopenPlayback`, `RunOp`, `Advance` | one round of `cascade` |
| `Move`, `Finish` | `transitionTo`: the transition event, then the end event |
| `RecordIntent`, `RecordOutcome`, `RunCommand` | `runCommand` with and without `Prepare` |
| `VerifyBinding`, `Publish`, `PublishThenFail` | `CreateEntry`, `PublishDocument`: the one binding check, the keyed publication, a finalizer that fails afterwards |
| `LogPublishedRead` | the read event of `runWorkflowNewEntry` |
| `CallFails`, `AppendRefused`, `Return`, `Crash` | errors, a lost compare-and-swap, the end of a call, a process that stops |
| `AbandonSession` | `AbandonWorkflowSession` |

`Held = FALSE` is the MCP server: each call replays the log first
(`attachedSession` in `tools.go`) and the replay is dropped after it. `Held =
TRUE` is a Go caller that keeps its `WorkflowSession`.

**Abstractions.** A draft's fields are one field (`draft`, plus
`captureBranch`); values are model values; the construction and graph checks of
`assemble` are one predicate, `draftValidates`; a corrected summary or title is
`correction`. An LLM answers anything, or fails, at every call. The session
store is a compare-and-swap on the log, which is what `SessionStore` is shown to
implement; a publication is one atomic keyed step, possibly followed by a failing
finalizer, which is what `Publication` is shown to implement. A session is kept in
one project. An append that lands but is reported as failed is the append followed
by `Crash`. The result of a call is not modelled, except that a failure ends it.

### The stores

* `SessionStore` — one session's file, `Create`, `Load`, `Append`, `Delete` as system
  calls: open the lock file, take the flock, read, open, write, remove. A line on
  disk is complete, lacks its newline (`bare`) or does not decode (`torn`); a write can
  be cut anywhere (`WriteCut`), a process can die anywhere (`Crash`, which frees its
  flock), `Delete` takes no lock and a deleted lock file is another file than the one
  a waiter opened. It refines `SessionLog`: batches appended whole, at the version
  they were asked against.
* `SessionCollection` — staging (`BeginStaging`, `StageBlob`, `RecordStaged`), reading a
  handle back (`Resolve`, `Opens`) and the sweep (`ListLog` … `DeleteLog`) with its cursor.
  A session is a status; `Patient` says the retention outlasts a staging call,
  `Upgraded` that files of an older location may exist.
* `Publication` — one graph directory; `files`, Git's `index`, the branch's `head` and
  `commits` per key. A call looks its key up, writes attachments and entry (or the
  document) under the graph lock, gives the lock up, and stages and commits under it
  again; it can stop before each step and is made again, also while the stopped call's
  process still runs elsewhere. Refines `KeyedPublication`: a key's change is
  recorded once, whole, and touches nothing else.
* `IndexStore` — `rows` (files), `manifest`, `segments`, three locks (`lock` the store's,
  `fill` the fillers'; the segments' is held within one step), and the processes:
  fillers (waiting or not, forced or not), publishers (servers), collectors
  (`sdd index gc --drop`). A row is (entry, state hash, number); its vector is the
  state of the embedding model. `session` is a fill's snapshot, `view` and `found` are a
  search. Each rename or removal of a row, each save of the manifest and each segment
  is a step; `Crash` comes between any two. A fill's first commit loads its snapshot under
  the shared lock and lets go of it before it takes the exclusive one (`LoadSnapshot`,
  `Commit`). A collection lists the orphans once (`ListOrphans`) and removes those
  (`SweepOrphan`); its end (`Dropped`) does not look for others.
* `StoreView` — the counted mappings of segment files in one process, row sets and
  searches, against another process that merges and deletes files. Each way to bring the
  view up to date is an action: a search (`Acquire`), a search that mapped the segments
  and could not build the rows (`AcquireFails`), one whose segments could not be mapped
  (`SyncFails`), a write's refresh (`RefreshNeeded`), a command's preparation (`Prepare`).
  Only the first arms the timer.
* `StampedReads` — a load walks the files, stamps each, reads or is spared; a clock with
  a grain, writers at any step. One module for the shared cache file and for the
  revision a store keeps, which differ in constants.
* `GraphSnapshots` — publications and acquisitions of several stores over one directory,
  edited by hand; the lineage file, pinned copies, leases, each with a handle.

### The graph and the commands

* `GraphModel` is a library of operators: an entry is a record, a graph a function from
  numbered IDs. `EntryRules` has a check as a record of broken rules; `Checkouts` makes a
  state machine of it: `Capture` by what a checkout holds, `Pull`, `Upgrade`.
* `GraphWalks`, `SearchRanking` and `ViewPipeline` are functions; `Algorithms` gives each
  its inputs and compares it with what it promises, one input a step. They use
  recursive operators, so that nothing is proved over them.
* `ProjectSetup` is a run of `sdd init` (or of a repository that points at a project):
  its passes over files, each write a step, over every tree an earlier, stopped or
  different run left. `CheckoutWrites` has the other commands that write a checkout;
  `ConnectedRepos` those that touch other repositories, their caches and the user's
  configuration, none of which is locked.
* `ModelCalls` is a process's calls to a model: guard, deadline, limiter, clients by
  schema, the modes of structured output an endpoint may decline, retries, reformats
  and what is accounted. `CommandDisplay` is the race between work, timer, driver,
  terminal program and ctrl+c; the terminal library is external.

## What the runs check

| Run | Instance | Properties |
|---|---|---|
| `capture` | one handle, shell and one capture, two drafts, one operation | `TypeOK`, `ReplayAgrees`, `PublishesWhatWasAgreed` |
| `branches` | as above with one draft, the branches base and topic, and a binding | `VerdictFits`, `RecordedForTheDeclaredBranch` |
| `handles` | two handles, shell and one procedure, one operation | `SessionInv`, `LogReplays`, `OneShellUntilTheEnd`, `NothingEndsPending`, `OnlyResolvedWhilePending` |
| `implementation` | one handle, one implementation, three operations | `CancelledAsksAgain`, `ImplementsProtocol` |
| `dispatch` | one handle, three instances (parents and children), all procedures | `ReplayAgrees` |
| `calls` | one handle, one capture, with fairness | `CallsReturn` |
| `stores` | the durable stores, part by part (below) | `StoresTypeOK`, `LogKept`, `StagedKept`, `IndexWhole`, `MappingsHeld`, `ReadsAreReal`, `ImplementsSessionLog`, `OnlyDueRemoved`, `NothingLost`, `DropLeavesNoOrphan` |
| `settles` | stores with fairness; algorithms | `SweepIsComplete`, `AlgorithmsAgree`, `SweepsEnd`, `EveryIntentAnswered`, `FillsEnd`, `ReleasesDeleted` |
| `rules` | publication, checkouts, commands, models, terminal | `GraphHolds`, `SetupConverges`, `ServicesHold`, `WritesSettle`, `TerminalHolds`, `PublishedOnceAndWhole`, `ChecksStayPassed`, `SetupKeepsEdits`, `CommittedIsFinal`, `RecordsKeys` |
| `answered_chooser`, `stale_handle`, `conclude_cut` | small | one comment of the code each, violated: see below |

**Sessions.**

* `ReplayAgrees`: whatever the last event a process managed to append, replaying
  the log yields the session the process held. `opDone` is excepted where it is
  never read again: the transition that is owed resets it, or the instance ends.
* `LogReplays`: no interleaving leaves an event the replay refuses; a refused
  event would make the session unopenable for good.
* `PublishesWhatWasAgreed`: the store a publication is recorded over is the one
  the user confirmed and the pre-flight looked at, on that branch, after it
  passed or the user overrode it, although the draft may be edited through a
  report at every later gate. The evidence is kept in a history variable, apart from the
  confirmation snapshot and the verdict the code consults.
* `RecordedForTheDeclaredBranch`: a new publication is recorded for the branch
  in force when it is recorded; `VerdictFits` is the invariant its proof rests on.
* `OnlyResolvedWhilePending`, `CancelledAsksAgain`, `NothingEndsPending`,
  `ImplementsProtocol`: the protocol of operations across crashes, retries and
  handles; the last is a refinement of `MutationProtocol`, with the operations
  whose publication exists as `applied`.
* `OneShellUntilTheEnd`: exactly one running shell from the first event until the
  session's terminal record, none after it.
* `CallsReturn`: every call comes back.

**Parts.** `stores`, `settles` and `rules` hold several small instances; the variable
`part` is chosen in the initial state, the machine of that part runs, and the others stay
as they began, so that a run's states are the sum of its parts' and never their
product.

| Part | Instance | Checked |
|---|---|---|
| `log` | two processes, three frames of events, one cut write | types and locks, `LogKept`, `ImplementsSessionLog` |
| `sweeps` | one session, two sweepers, one client, older locations | `StagedKept`, `OnlyDueRemoved` |
| `collection` | three sessions, pages of one, one sweeper | `SweepIsComplete`, `SweepsEnd` |
| `index` | two entries, a filler, a server with another state of one entry, a collector, a version of the oldest ID shape, one crash | `IndexWhole`, `NothingLost`, `DropLeavesNoOrphan` |
| `rebuild` | two entries, a forced rebuild and a filler of a newer binary, one change of the model, one crash | `IndexWhole`, `NothingLost` |
| `fills` | two fillers that wait for each other, one crash | `FillsEnd` |
| `views` | two segment names, two searches, three mappings, three row sets | `MappingsHeld` |
| `swept` | one search at a time, a server that searches and publishes | `ReleasesDeleted` |
| `cache`, `listing`, `revision` | two loaders of one cache; attachments listed twice; one store's revision; clock up to 4 with a grain of 2 | `ReadsAreReal` |
| `pinned` | two stores, an entry with an attachment, a document by hand, two leases | `ReadsAreReal` |
| `answers` | an entry with attachments and a removal, two callers, two stops | `EveryIntentAnswered` |
| `algorithms` | webs of four entries, corpora and sections of three | `AlgorithmsAgree` |
| `actors`, `procedures`, `work` | two checkouts, three or four captures, upgrades | `GraphHolds`, `ChecksStayPassed` |
| `setup`, `pointer` | three runs of two releases, one edit, one stop | `SetupConverges`, `SetupKeepsEdits` |
| `alone`, `together` | one user with four calls and two kills; two with three | `ServicesHold` |
| `writing`, `racing` | one user's three commands, one fault, one edit; two processes | `WritesSettle` |
| `models`, `local model` | two callers of a remote endpoint, one of a local one | `ServicesHold` |
| `streaming`, `footer` | three or four lines, a channel of one | `TerminalHolds` |
| `publish` | an entry with attachments, a marker's start and end, a summary, two callers, two stops | `PublishedOnceAndWhole`, `CommittedIsFinal`, `RecordsKeys` |

What they show: an acknowledged line stays until the session is deleted, and the file is
a compare-and-swap log; sweeps remove only what is due, all of it, and leave no staged
file behind; no index version is lost, none is without its rows, no row without a
version after a collection, and a search shows what was published when it began; no
mapping is let go of while a search reads it, nor kept for ever by a view whose timer is
armed or by searches that ended; a spared read
is what a read would give, a lease keeps its state; captures that each checkout accepts
keep the open set, canonicals and lint in agreement wherever they meet; a run of `init`
completes what was begun and keeps edits; every log line is shown once; what is billed
is recorded.

**Bounds.** `MaxInsts` instances per session, `MaxOps` operations per session
(a start or an intent beyond the bound is not taken; `CHECK_DEADLOCK FALSE`
because a session that ended stops for good, as does one whose bounds are
used up with its only handle closed; in the runs of parts, because a part whose bounded
calls are made stops). Calls, crashes, reports, answers, retries
and handles over a session's life are *not* bounded. Two instances are a
shell and a procedure; three are a parent with two children, or a child's
child. One operation
suffices for the properties of one; three let a WIP marker be set, removed and
set again, and a cancelled operation be followed by another. Two handles are
what a compare-and-swap tells apart: a third is in the same position towards the
one that appends as the second; the same holds of two processes of a session log, two
sweepers, two callers of a publication. Two drafts are what "the same draft" tells
apart, two branches likewise. Two index entries are the one a process works on and the
one it must leave alone; two states of the first are two checkouts. Frames of events
(`MaxFrames`), cut writes (`MaxCuts`), stops (`MaxStops`), crashes (`MaxCrashes`), runs, calls,
edits and captures are bounded by the constants of those names. Symmetry is used over
drafts, handles, and processes in the same role, in runs without liveness, where the
model treats them alike.

**Fairness.** `WF_vars(Proceed(h))` for each handle: a process that is running takes
its next step, as a goroutine does. Nothing is assumed of users (`Ask`), nor that
a crash happens, nor that the LLM ever answers favourably: `CallFails` and either verdict
satisfy `Proceed`. With a helpful choice never owed, `CallsReturn` says that
`preflight` and `write`, which hand over to each other by data only, cannot do so for ever.
`SessionCollection`: weak fairness of a sweeper's steps; that a sweep may fail is not a
fair action. `Publication`: strong fairness of each call's steps, since `graph.lock` is
granted to one waiter among others, and of asking again for a key whose intent is
recorded, since a session serves nothing but its retry. `IndexStore`: strong fairness,
since its locks are polled and may be taken at every poll. `StoreView`: weak fairness of
the idle timer and of closing a search; nothing makes a search, a write or the timer's
arming happen, so `ReleasesDeleted` says of a view what the armed timer does, and of what
the view does not hold that it goes with the searches.

**Mutations.** For each property of each run `PROJECT.json` names a change of the
model a plausible bug would be (the version not compared in the binding check, `opDone`
not reset by a replayed transition, any confirmation accepted, a verdict for any
branch, the manifest saved over a merge, a row set not released, ...) that violates it in
that run.

## What is proved

For every value of the constants, from the assumptions named below. `Inv` stands for
`Spec => []Inv`, an action property for `Spec => [][A]_vars`.

| Theorem (module) | Statement |
|---|---|
| `SessionInvariant`, `TypeCorrect`, `ReplayIsFaithful`, `LogAlwaysReplays`, `NoPendingEnd` (`WorkflowSession_proofs`) | `SessionInv`, `TypeOK`, `ReplayAgrees`, `LogReplays`, `NothingEndsPending` |
| `VerdictsFit`, `RecordedForBranch` (`WorkflowSteps_proofs`) | `VerdictFits`; `RecordedForTheDeclaredBranch` |
| `OnlyResolved`, `CancelledIsNotTakenUp` (`WorkflowSteps_proofs`) | `OnlyResolvedWhilePending`; `CancelledAsksAgain` |
| `OperationsFollowProtocol` (`WorkflowSteps_proofs`) | the refinement `ImplementsProtocol` |
| `DialogueHasOneShell`, `CapturesPublishWhatWasAgreed` (`WorkflowSteps_proofs`) | `OneShellUntilTheEnd`, `PublishesWhatWasAgreed` |
| `StoreInvariant`, `AcknowledgedStay` (`Stores_proofs`) | `StoreInv`, `LogKept` |
| `FileIsASessionLog` (`Stores_proofs`) | the refinement `ImplementsSessionLog` |
| `PublishedOnce`, `CommittedStays` (`Rules_proofs`) | `TypeOK`, `CommittedOnce`, `SuccessIsCommitted`; `CommittedIsFinal` |
| `PublishedWhole`, `BranchRecordsKeys` (`Rules_proofs`) | under `OwnPaths`: `PublishedOnceAndWhole`; the refinement `RecordsKeys` |
| `OnlyDueIsRemoved`, `SweepCompletes` (`SessionCollection_proofs`) | `OnlyDueRemoved`; `SweepIsComplete` |
| `NoFileOutlives`, `HandlesStayReadable` (`SessionCollection_proofs`) | under `Patient`: `NothingOutlivesItsSession`; without older locations: `HandlesReadable` |
| `NothingIsLost`, `NamedRowsAreThere`, `SearchesReadThePublished`, `DropsComplete` (`IndexStore_proofs`) | `OnlyReplacedLeave`; `ManifestNamesRows`, `SearchesPublished`; `DropIsComplete` |
| `RecordedRulesStay`, `RulesAreKeptApart` (`IndexStore_proofs`) | `RecordedRuleStays`; without servers, `OnlyOwnRuleLeaves` |
| `SegmentsStayFew` (`IndexStore_proofs`) | `TypeOK`, `SegmentsBounded` |
| `CountsAreOfHolders`, `SearchesStayMapped` (`IndexStore_proofs`) | `CountsHolders`; `OpenIsMapped`, `RowsAreOfTheView` |
| `SparedReadsAreReal` (`Reads_proofs`) | `HitsAreReal` |
| `LeasesStayPinned`, `ShownIsIncluded` (`Reads_proofs`) | `LeasesArePinned`; `IncludesWhatItShows` |
| `StoresStayTyped`, `SweepsKeepTheStaged`, `SweepsRemoveTheDue`, `SweepsAreComplete` (`Stores_proofs`) | of `StoresSpec`: `StoresTypeOK`; `StagedKept`; `OnlyDueRemoved`; `SweepIsComplete` |
| `IndexStaysWhole`, `CommitsLoseNothing`, `DropsLeaveNoOrphan` (`Stores_proofs`) | of `StoresSpec`: `IndexWhole`; `NothingLost`; `DropLeavesNoOrphan` |
| `MappingsStayHeld`, `ReadsStayReal` (`Stores_proofs`) | of `StoresSpec`: `MappingsHeld`; `ReadsAreReal` |
| `ConnectionsStayReal`, `AddsStayHeld` (`Services_proofs`) | `ConnectionsAreReal`; for one process (`Sole`), `AddsHold` |
| `NothingStaysLeaked`, `CallsStayBounded` (`Services_proofs`) | `NothingLeaks`; `RefusedOnce`, `SpendIsBounded`, `BilledIsRecorded` |
| `ServicesStayHeld` (`Rules_proofs`) | of `RulesSpec`: `ServicesHold` |

`SessionCollection`, `IndexStore`, `StoreView`, `StampedReads` and `GraphSnapshots` are modules
`MCStores` takes as instances, `ConnectedRepos` and `ModelCalls` modules `MCRules` does. What
says something for every value of their constants is the theorem in their own proof module. The
theorems of `StoresSpec`, and the one of `RulesSpec`, tie them to the runs: every instance
meets the assumptions (`InstancesAssume`, `ServicesAssume`), its part of the composed system
begins in an initial state of the module and takes its steps or none (`PartInit` and
`PartNext`, `ServiceInit` and `ServiceNext`), so the module's inductive invariant is one of the
composition and gives the formula the run checks.

### The workflow session

**The invariant.** `ReplayAgrees` is not inductive: that live and stored session
agree after a command's outcome needs that the instance is still as the intent
found it, which needs that nothing but the operation's own resolution happened to
it, on *any* handle. `SessionInv` says so: for the stored
session and every live one, each instance is at a step of its own procedure (`GoodInstance`),
and an unfinished operation finds its instance running, at the step and
with the store it was recorded over (`UnfinishedFinds` in `GoodIntent`); each
call's program counter fits its session (`CallFits`: only `verify`, `publish`, `read` and
`outcome` occur over an unfinished operation); a handle that observed the stored
version holds the stored session and branch (`Agrees`); the log is readable; an
ended session has nothing pending.

**The argument.** A step either appends nothing to the log (`GoPreserves`,
`DropPreserves`, `QuietPreserves`) or appends one event. For the latter,
`LogPreserves` reduces the invariant to three questions: does the fold take the
event, is the live session good afterwards and fits the call, and is it the
session the fold makes of the log. The other handles are stale after the append,
and `Agrees` asks nothing of stale handles; that is where the version check is used. Each
action has one lemma answering the three questions.

`OnlyResolved` takes the invariant to one step: a handle that may append holds the
stored session, so its calls that move the dialogue are refused by `CheckProgression`, and
`CallFits` rules out that a cascade, a transition or another command is under way.
`CancelledIsNotTakenUp` adds `CancelInv`: a cancellation is of the latest operation, and no
call of a handle with the stored version goes on at the instance it was cancelled in.
`OperationsFollowProtocol` adds `OperationInv`, which ties `ops` and `published` to the
stored intent and each handle's call, and classifies every step as one of
`MutationProtocol` or a stutter.

`RecordedForBranch` needs `VerdictFits`: a current verdict, which
is folded from the log, is for the branch in the instance's store, which is what the
intent takes. Every append is classified by what its event says of branches
(`VerdictEvent`); an edit ends the verdict, the pre-flight writes both in one event, and no
other command writes the branch. `Prepare` of `newEntry` then compares the verdict's branch with
the effective one, and `Agrees` makes the handle's binding the stored one.

`DialogueHasOneShell` adds `ShellInv`: a handle that found no shell and still has the
stored version found a session without events. `CapturesPublishWhatWasAgreed` adds
`AgreementInv`: at the steps that wait for a confirmed playback, and the choosers that lead
to one, the confirmation in the store is the user's last, and past the pre-flight what
was checked is what was confirmed.

All of them have the hypothesis `Held = FALSE`, the MCP server. It
is needed: with kept handles `ResyncBinding` breaks `Agrees` (run `stale_handle`).

### The stores

`StoreInv`: the holder of the lock has the log as it is; a process's version is one the log
has had, and versions are there once, in order; at most the last line is not
acknowledged. An append between its read and its write holds the lock of the file as it
is, so its version check still stands when it writes; a deletion, which takes no lock,
leaves nothing to write to. The refinement maps the file, read past a torn tail, to the
abstract log.

`PubInv`: only the holder of `graph.lock` is between the steps the lock is for, and a call that
looked its key up knows the branch's answer while it holds it; so no key is committed
twice and none is written again. `OwnInv`, for changes that meet in a path only as the
start and the end of one marker (`OwnPaths`): a file of a key is as its own calls left it,
attachments before the entry, and a committed path stays. Without `OwnPaths` the code does
not keep it: two replacements of one summary, or a summary of an entry not committed
yet, can each commit what the other wrote (findings `CommitsItsOwn`,
`EveryIntentAnswered`).

`SweepInv`: a page holds only sessions that are due, or are gone since, and every session
due when the sweep began lies ahead of the cursor or on the page. `StagedInv`: the
directories of a session go before its log, and none comes back, since no call stages
for a session that is due (`Patient`); a handle names a file in the first location.

`IndexInv`: the shape of the state; who holds the lock for what (`LockHeld`); a version's
rows are of its entry and state, one version per state, whose rule fits its hash
(`Versions`); what a process between its rows and its manifest has written is there, and
what it removes no version names (`Writing`); once a collection has listed the orphans,
every row without a version is on its list (`Listed`), which is why it may end without
looking again: nobody else is between rows and manifest while it holds the lock, and
`DropVersionsUnlocked`, which does not hold it, breaks `DropLeavesNoOrphan`; what a search cached is the rows as of some
published state (`Cached`). Most steps move one process and write nothing the others
read (`QuietMove`). `SegmentInv` counts segments: while nobody
merges there are at most the bound and one for each process killed so far; a merge adds one
before it removes those it replaces, and without those it is back at the bound. The rule of a version matters because a state hash includes the
rule's name (`chunking.go:110`, in `RuleAssumption`): versions of different binaries
never meet in a row. `RulesAreKeptApart` needs that no server publishes: a server
leaves the rule out of what it publishes, and a newer binary then takes the version for its
own (finding `KeepsOtherRules`). `RecordedRulesStay` is what holds with servers.

`HoldInv`: a mapping has one reference of every row set over it and one of the view, a row set one
of every search that reads it and one of the view, and a row set nobody has is over
nothing. One step of the code composes several operations under the view's mutex (read the
manifest, drop or refresh the view, build rows), so the invariant is a predicate on the composed
state (`Good`), kept by each operation and not only by each action. A count of zero then means
that no holder exists (`UnusedUnheld`), so releasing at zero cannot unmap what an open
search reads. That there is a number for a new row set is a pigeonhole argument (`OneIsFree`):
each one in use has a search or the view.

`ReadInv`: a stamp older than the racy window when a load began is older than any write to
come (`WriteStamps`, which needs `Grain <= RacyWindow`), so as long as a file has that
stamp it has what was read (`Stands`), and every other load that stamped the file alike
stamped it then, or saw the write that came between (`Witnessed`). Both hold of what a
load has read so far, of what it keeps and of every cache, and so of a load that is spared.
No lock is used: a writer may come between any two steps. Files that appear after a walk are not
covered, see finding `HitsAreExact`.

`SnapshotInv`: a lineage, on disk or in memory, leads from a revision only to revisions whose
files it all holds (`Grows`), since a store records what it published on with `graph.lock` held
and no document goes in between (`Based`); the walk from the current revision to the required
one then ends in a part of it. A retained copy has its revision's files and as many leases as handles
hold it (`Pinned`). A copy in the making differs from its revision only in documents that
are gone for good and foreign files that are still there (`Frozen`), so a copy whose
directory is its revision at the end is the revision.

### The services

`ReposInv`, for any number of processes: a call that goes on to connect or to clone has verified
that its URL serves the repository it is for, and the configuration it has read, however old,
connects only what was verified; since no repository moves, what it writes is as true as what it
read. `AloneInv` needs that calls do not overlap (`Sole`): what the one call has read is then what
is there still (`Tracks`), so nothing it writes back drops what an earlier add left. Two
processes lose each other's connections (findings `ConnectionsStay`, `ReturnedIsCommitted`), which
is why the run `together` asks for less.

`ModelInv`: past the guard no request holds a credential, and the guard is passed again by what the
model wrote. A call has a reserve, the requests it may still send: two prompts in two forms, each
as often as the library retries. A step pays what it sends from its own reserve, so requests sent
and reserves together stay under what the calls begun allow. An endpoint that refuses a schema is
counted against the callers that are in the schema form; nobody enters that form once the process
has learned of it, so each caller is refused at most once.

### Assumptions

Evaluated by TLC in the runs: `EngineAssumption` (bounds are natural numbers,
branches are values, `None` is none of them), `NoneAssumption` (nor a record),
`SpecsAssumption` (procedures are what loading a spec accepts, `WellFormedStep`),
`BaseAssumption` (the base branch is a value), `CommandsAssumption` (commands are
registered ones), `ShellAssumption` (shells record no operations), `CaptureAssumption`
(only a confirmation of just what is shown leads to steps that wait for one, and it leads
to the pre-flight; nothing is checked or published elsewhere), `StoreAssumption`,
`ChangeAssumption`, `CollectionAssumption`, `IndexAssumption` and `ViewAssumption` (bounds
and values that are told apart, the rules of binaries as above, at least one segment, finitely
many segment names, more numbers for row sets than searches), `ReposAssumption` (a URL serves one
repository or none, and a command has the arguments its usage asks for), `ModelAssumption`
(finitely many callers, bounds), `StampAssumption` (a timestamp's
grain is no longer than the racy window), `SnapshotAssumption` (finitely many handles, and no
file both comes and goes while a copy is made: `AcquireSnapshot` compares the revision before
and after the copy, which a file that came and went passes, see the finding of
`read_snapshot.go:90`). `ShellAssumption` and
`CaptureAssumption` are true of the procedures that ship, as `Procedures` gives them, and
not of any procedure a project may write.

### Only model-checked

* Liveness (`CallsReturn`, `SweepsEnd`, `EveryIntentAnswered`, `FillsEnd`,
  `ReleasesDeleted`): fairness and `ENABLED` are out of the prover's reach.
* The algorithms, and with them the walks of `GraphWalks`: recursion over data.
* `GraphHolds` and `ChecksStayPassed` (`Checkouts`): heads and chains are recursive functions
  over a graph, and what such a function computes needs induction over data.
* `TerminalHolds` (`CommandDisplay`), `SetupConverges` and `SetupKeepsEdits` (`ProjectSetup`),
  `WritesSettle` (`CheckoutWrites`): finite
  machines of one or two processes, which the run covers up to the bounds named in it.

## Where code and comments disagree

Three have a run of their own:

* `answered_chooser`: `mutation.go:17-19` says a retry completes the transition
  an answered chooser owes, "so the instance never re-serves the answered
  chooser". The outcome event and the transition event are two appends; after a
  crash between them the operation counts as done, `Retry` no longer makes the transition and the
  chooser is served again.
* `stale_handle`: `workflow.go:1517` says an append "refuses events computed
  before another writer changed the session". `BindBranch`'s conflict retry takes
  over the stored version without the events behind it; a handle that is kept
  afterwards appends events computed from its older session. The MCP server does
  not keep handles.
* `conclude_cut`: the shell's junction "pends through free dialogue" and its
  conclude path "ends the session for good" (`20260704-100000-d-prc-dlg.md`). A process
  that stops after the transition to `wrap` leaves a shell at a gate without
  fields: no answer, report or retry moves it, only tearing the session down.

The others are listed under "findings" in `PROJECT.json`, each with the comment it is
about and the run in whose part the behaviour was met. The properties of the runs say
what does hold. By area:

* *Sessions and staged files*: a log whose write was cut short at the start does not load;
  with a retention of zero a staged file can outlive its session; a file in an older
  location is hidden by the next one staged.
* *Publication*: without Git a retry may apply a change twice; of two replacements of one
  document one may stay unanswered, or a commit may hold the other's text.
* *Index*: a forced rebuild that keeps IDs leaves old vectors in segments; a fill's
  snapshot can name rows its own commits removed; the server's versions carry no rule;
  a view brought up to date by a write, a preparation or a search that could not build its
  rows arms no timer, so that deleted files stay mapped until it is looked at again
  (`ReleasesUnattended`, which no run checks).
* *Graph*: after a fork that pre-flight allows, the reported head may be a closed entry;
  a revived actor may not be listed; a role of a chain without a head is not reported;
  "(see below)" of a primary above.
* *Reads*: lineage of entries with attachments starts at a state nobody published; a
  revision hashed over a file that came and went; a pinned copy of a state that was
  edited and undone.
* *Set-up and command line*: what a stopped `init` left uncommitted, or unrecorded; files
  of agents dropped by a later release; edits made while another prompt waits; an
  uncommitted declaration after a failed `repo add`; lost connections; a `.git` left by a
  cancelled clone; a type change that is half committed; summaries put back by a fill.
* *Models, terminal, queries*: requests the limiter does not count; lines nobody shows
  after ctrl+c; caps and tie-breaks of the server's search; section filters that are
  ignored.

## What is not modelled

Of sessions: serving and its ledgers (reads, served blocks), labels, parameters, field
patches, retired steps after a procedure changed, instance projects,
restaging (`capturePreflightState` also ends a verdict on a restage),
the seven other base procedures (the same engine on other data). Options are a set where the code takes the first match
of a list: a later option of the same choice, which loading a spec does not refuse, can
never be taken and is left out. Seeds keep their field name
where the code may rename one. Value types and payload schemas, the MCP server and its
transport are data and wiring.

Of stores: metadata of a session and its legacy event lines, one session's log in two
locations; attachment pages and path checks; the resolution of a checkout and `sync`;
the segment file format, the scoring of an index query and the migration of older
indexes; the building of a graph from documents. Of commands: what they print and ask,
`sync pull`. Prompts, the layout parser, exports and rendering.

Five hazards have no property: an unchanged report after the publish gate
(`workflow_capture.go:149`) and a restaged attachment (`workflow_capture.go:178`), since the
session model has the draft as one field and no attachments; the checkout's
branch changing under a finalizer (`git_target.go:133`); and two the code is known not to
withstand: a handle into an older location (`blob_store.go:129`, finding
`HandlesReadable`; `StagedKept` leaves such locations out) and a staging call that outlasts
the retention (`workflow.go:728`, finding `NothingOutlivesItsSession`; `StagedKept` assumes
`Patient`). `LogKept` says of a cut write that no acknowledged line before it is lost, not
that the log still loads (finding `AcknowledgedLoads`).

## What is left

1. Proofs of the finite machines of `MCRules`: `ProjectSetup`, `CheckoutWrites`, `CommandDisplay`.
2. `Checkouts`: `ChecksStayPassed`, that a capture the pre-flight admits leaves lint clean.
3. The building of a graph from documents, and the configuration of a project.
