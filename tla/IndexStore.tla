---------------------------- MODULE IndexStore ----------------------------
(***************************************************************************)
(* The machine-global store of search rows (internal/index) and the        *)
(* processes that share it: CLI fills and forced rebuilds                  *)
(* (internal/handlers/handler_index.go), the server's entry publication    *)
(* (pkg/local/entry_publication.go), `sdd index gc --drop`, and searches.  *)
(* Three things are on disk: one file per row, the manifest that names the *)
(* published rows, and the segments, a second copy of the rows searches    *)
(* map.  Every step of a write is one action, and a process may die        *)
(* between any two of them; flock releases what it held.                   *)
(*                                                                         *)
(* A row is identified by entry, state hash and chunk number, as chunk IDs *)
(* are.  Its vector is the state of the embedding model when it was        *)
(* embedded.                                                               *)
(***************************************************************************)
EXTENDS Naturals, FiniteSetsExt, Functions

CONSTANTS Entries, Hashes,
          Ancient,       \* the hash whose chunk IDs have the pre-derivation shape
          Fillers,       \* `sdd index` and the fill before `sdd search`
          Waiting,       \* the fillers that wait for the fill lock (sdd index)
          Forced,        \* the fillers that run with --force
          Publishers,    \* `sdd serve`
          Collectors,    \* `sdd index gc --drop`
          Checkout,      \* [process -> [entry -> its state hash there]]
          Rule,          \* [process -> the derivation rule of its binary]
          Withheld,      \* [process -> entries all of whose chunks hold secrets]
          Chunks,        \* [entry -> number of its chunks]
          Stored,        \* the versions the store holds at the start
          MaxSegments,
          MaxRuns, MaxCrashes, Drifts,  \* bounds
          Free, NoRule

NoRows == [id \in {} |-> 0]
Procs == Fillers \cup Publishers \cup Collectors
Ids == {<<e, h, i>> : e \in Entries, h \in Hashes, i \in 1..3}
IdsOf(e, h) == {<<e, h, i>> : i \in 1..Chunks[e]}

ChunksAssumption == Chunks \in [Entries -> 1..3]
CheckoutAssumption == \A p \in Procs : Checkout[p] \in [Entries -> Hashes]

Version(e, h, rule, ids) == [entry |-> e, hash |-> h, rule |-> rule, ids |-> ids]

VARIABLES rows,      \* [row with a file -> its vector]
          manifest,  \* the published versions
          identity,  \* of the manifest file: every save replaces it
          segments,  \* the segment files, each [row -> vector], named by content
          stray,     \* a temporary segment file is left
          lock,      \* the store lock: the process holding it exclusively
          fill,      \* the fill lock
          pc, work,  \* [process -> where it is, what it is at]
          session,   \* [filler -> the snapshot of its fill session]
          runs,      \* [process -> calls made]
          embedding, \* the embedding model's current vectors
          view,      \* the searching process's parsed view of the store
          found,     \* the rows of the last search, and the rows published then
          crashes

disk == <<rows, manifest, identity, segments, stray>>
vars == <<disk, lock, fill, pc, work, session, runs, embedding, view, found, crashes>>

-----------------------------------------------------------------------------
(* The manifest.                                                           *)

Named(m) == UNION {v.ids : v \in m}

HasVersion(m, e, h) == \E v \in m : v.entry = e /\ v.hash = h

\* A version's rule is the recorded one, else it shows in its chunk IDs.
derivation(v, p) ==
    IF v.rule # NoRule THEN v.rule
    ELSE IF v.ids # {} /\ v.hash = Ancient THEN "v0" ELSE Rule[p]

groupOf(v, p) ==
    IF derivation(v, p) # Rule[p] THEN derivation(v, p)
    ELSE IF Checkout[p][v.entry] = v.hash THEN "current" ELSE "branch"

\* The groups `--drop stale` stands for.
SelectGroups(m, p) == {groupOf(v, p) : v \in m} \ {"current"}

DropGroups(m, p, groups) == {v \in m : groupOf(v, p) \notin groups}

\* Mutant: publication forgets the entry's other versions.
AddVersionsOnly(m, vs) == {w \in m : \A v \in vs : w.entry # v.entry} \cup vs

\* The versions of a batch are of different entries; each replaces the one of its
\* state, or with --force all of its rule.
AddVersions(m, vs) ==
    {w \in m : \A v \in vs : <<w.entry, w.hash>> # <<v.entry, v.hash>>} \cup vs

SetDerivationVersions(m, p, vs) ==
    {w \in m : \A v \in vs : w.entry # v.entry \/ derivation(w, p) # derivation(v, p)} \cup vs

\* A state hash is also of the name of the rule (chunking.go:110), and the store
\* began with versions that were written to it.
RuleAssumption ==
    /\ \A p, q \in Procs : \A e \in Entries :
          Checkout[p][e] = Checkout[q][e] => Rule[p] = Rule[q]
    /\ \A p \in Procs : Rule[p] # NoRule /\ \A e \in Entries : Checkout[p][e] # Ancient
    /\ \A v \in Stored :
          /\ v.entry \in Entries /\ v.hash \in Hashes /\ v.ids \subseteq IdsOf(v.entry, v.hash)
          /\ \A w \in Stored : v.entry = w.entry /\ v.hash = w.hash => v = w
          /\ \A p \in Procs : v.hash = Checkout[p][v.entry] => derivation(v, p) = Rule[p]

IndexAssumption ==
    /\ Free \notin Procs /\ Free \notin Nat /\ MaxSegments \in Nat \ {0}
    /\ ChunksAssumption /\ CheckoutAssumption /\ RuleAssumption

-----------------------------------------------------------------------------
(* Embedding and committing.                                               *)

IdleWork == [plan |-> {}, batch |-> {}, todo |-> {}, stale |-> {}, merged |-> {}, drop |-> {}]
NoSession == [open |-> FALSE, named |-> {}, gone |-> {}, sized |-> FALSE]

\* Mutant: chunks are counted from zero.
RowsOfZero(p, e) ==
    IF e \in Withheld[p] THEN {} ELSE {<<e, Checkout[p][e], i>> : i \in 0 .. Chunks[e] - 1}

\* Chunks in which the scan of this binary finds secrets get no row.
RowsOf(p, e) == IF e \in Withheld[p] THEN {} ELSE IdsOf(e, Checkout[p][e])

\* PublishEntry leaves the version's derivation empty.
VersionOf(p, e) ==
    Version(e, Checkout[p][e], IF p \in Publishers THEN NoRule ELSE Rule[p], RowsOf(p, e))

\* publishIndexEntry, for every entry of the batch.
Merged(p, m, batch) ==
    LET new == {VersionOf(p, e) : e \in batch}
    IN IF p \in Forced THEN SetDerivationVersions(m, p, new) ELSE AddVersions(m, new)

\* The rows a forced version replaces: those of its rule it does not reuse.
Replaced(p, m, batch) ==
    (UNION {v.ids : v \in {w \in m : p \in Forced /\ w.entry \in batch
                                    /\ derivation(w, p) = Rule[p]}})
        \ UNION {RowsOf(p, e) : e \in batch}

Init ==
    /\ rows = [id \in Named(Stored) |-> 0]
    /\ manifest = Stored /\ identity = 0
    /\ segments = {} /\ stray = FALSE
    /\ lock = Free /\ fill = Free
    /\ pc = [p \in Procs |-> "idle"] /\ work = [p \in Procs |-> IdleWork]
    /\ session = [p \in Fillers |-> NoSession]
    /\ runs = [p \in Procs |-> 0]
    /\ embedding = 0
    /\ view = [identity |-> Free, names |-> {}, files |-> NoRows, found |-> Free]
    /\ found = [rows |-> NoRows, published |-> NoRows]
    /\ crashes = 0

Go(p, from, to) == pc[p] = from /\ pc' = [pc EXCEPT ![p] = to]
At(p, where) == pc' = [pc EXCEPT ![p] = where]
Works(p, w) == work' = [work EXCEPT ![p] = w]
Calls(p) == runs[p] < MaxRuns /\ runs' = [runs EXCEPT ![p] = @ + 1]

\* BeginFill: an indexing run waits for the fill lock, the fill before a
\* search leaves a running fill to itself.
BeginFill(p) ==
    /\ p \in Fillers /\ Calls(p) /\ Go(p, "idle", IF fill = Free THEN "plan" ELSE "waiting")
    /\ fill = Free \/ p \in Waiting
    /\ fill' = IF fill = Free THEN p ELSE fill
    /\ UNCHANGED <<disk, lock, work, session, embedding, view, found, crashes>>

GetsFill(p) ==
    /\ Go(p, "waiting", "plan") /\ fill = Free /\ fill' = p
    /\ UNCHANGED <<disk, lock, work, session, runs, embedding, view, found, crashes>>

\* The plan is made from the manifest as it stands, without the store lock.
Plan(p) ==
    /\ Go(p, "plan", "embed")
    /\ Works(p, [IdleWork EXCEPT !.plan =
            {e \in Entries : p \in Forced \/ ~HasVersion(manifest, e, Checkout[p][e])}])
    /\ UNCHANGED <<disk, lock, fill, session, runs, embedding, view, found, crashes>>

\* The server publishes one entry, unless the manifest has its version.
EntryPublished(p) ==
    /\ p \in Publishers /\ Calls(p) /\ Go(p, "idle", "embed")
    /\ \E e \in Entries :
          /\ ~HasVersion(manifest, e, Checkout[p][e])
          /\ Works(p, [IdleWork EXCEPT !.plan = {e}])
    /\ UNCHANGED <<disk, lock, fill, session, embedding, view, found, crashes>>

\* The first commit of a fill loads its snapshot under the shared lock, and lets
\* go of it before it takes the exclusive one.
LoadSnapshot(p) ==
    /\ p \in Fillers /\ pc[p] = "embed" /\ work[p].plan # {} /\ ~session[p].open /\ lock = Free
    /\ session' = [session EXCEPT ![p] = [open |-> TRUE, gone |-> {}, sized |-> FALSE,
                                           named |-> Named(manifest)]]
    /\ UNCHANGED <<disk, lock, fill, pc, work, runs, embedding, view, found, crashes>>

\* A batch is embedded and then committed under the store lock.  An entry
\* without rows is published alone.  The server's write looks again whether the
\* version was published in the meantime.
Commit(p) ==
    /\ Go(p, "embed", "rows") /\ lock = Free /\ lock' = p
    /\ p \in Fillers => session[p].open
    /\ \E batch \in (SUBSET work[p].plan) \ {{}} :
          /\ \A e \in batch : RowsOf(p, e) = {} => batch = {e}
          /\ Works(p, [work[p] EXCEPT !.batch = batch,
                        !.todo = UNION {RowsOf(p, e) : e \in batch}])
          /\ p \in Publishers => \A e \in batch : ~HasVersion(manifest, e, Checkout[p][e])
    /\ UNCHANGED <<disk, fill, session, runs, embedding, view, found, crashes>>

AlreadyPublished(p) ==
    /\ p \in Publishers /\ lock = Free /\ Go(p, "embed", "refresh")
    /\ \A e \in work[p].plan : HasVersion(manifest, e, Checkout[p][e])
    /\ Works(p, IdleWork)
    /\ UNCHANGED <<disk, lock, fill, session, runs, embedding, view, found, crashes>>

\* Before it adds the rows, UpsertEntry looks for the vectors' length at a row of
\* the session's manifest, any of them, and fails on one its snapshot no longer has.
Unsized(p) == p \in Fillers /\ ~session[p].sized
FindsLength(p) == Unsized(p) => session[p].gone = {} \/ session[p].named # session[p].gone

WriteRow(p) ==
    /\ pc[p] = "rows"
    /\ FindsLength(p)
    /\ \E id \in work[p].todo :
          /\ rows' = [i \in DOMAIN rows \cup {id} |-> IF i = id THEN embedding ELSE rows[i]]
          /\ Works(p, [work[p] EXCEPT !.todo = @ \ {id}])
    /\ session' = IF p \in Fillers THEN [session EXCEPT ![p].sized = TRUE] ELSE session
    /\ UNCHANGED <<manifest, identity, segments, stray, lock, fill, pc, runs, embedding, view, found, crashes>>

\* Mutant: the manifest is saved before all rows are there.
SaveEarly(p) ==
    /\ Go(p, "rows", "delete")
    /\ manifest' = Merged(p, manifest, work[p].batch) /\ identity' = identity + 1
    /\ Works(p, [work[p] EXCEPT !.stale = Replaced(p, manifest, work[p].batch)])
    /\ UNCHANGED <<rows, segments, stray, lock, fill, session, runs, embedding, view, found, crashes>>

\* The manifest is saved after the batch's rows land and before the rows it
\* replaced go.
Save(p) ==
    /\ Go(p, "rows", "delete") /\ work[p].todo = {} /\ FindsLength(p)
    /\ manifest' = Merged(p, manifest, work[p].batch) /\ identity' = identity + 1
    /\ Works(p, [work[p] EXCEPT !.stale = Replaced(p, manifest, work[p].batch)])
    /\ UNCHANGED <<rows, segments, stray, lock, fill, session, runs, embedding, view, found, crashes>>

DeleteRow(p) ==
    /\ pc[p] = "delete"
    /\ \E id \in work[p].stale :
          /\ rows' = Restrict(rows, DOMAIN rows \ {id})
          /\ Works(p, [work[p] EXCEPT !.stale = @ \ {id}])
          /\ session' = IF p \notin Fillers THEN session
                        ELSE [session EXCEPT ![p].gone = @ \cup ({id} \cap session[p].named)]
    /\ UNCHANGED <<manifest, identity, segments, stray, lock, fill, pc, runs, embedding, view, found, crashes>>

Committed(p) ==
    /\ p \notin Collectors /\ pc[p] = "delete" /\ work[p].stale = {}
    /\ lock' = Free
    /\ LET left == work[p].plan \ work[p].batch
       IN /\ Works(p, [IdleWork EXCEPT !.plan = left])
          /\ At(p, IF left = {} THEN "refresh" ELSE "embed")
    /\ UNCHANGED <<disk, fill, session, runs, embedding, view, found, crashes>>

NothingToFill(p) ==
    /\ p \in Fillers /\ work[p].plan = {} /\ Go(p, "embed", "refresh")
    /\ UNCHANGED <<disk, lock, fill, work, session, runs, embedding, view, found, crashes>>

-----------------------------------------------------------------------------
(* Segments.                                                               *)

InSegments == UNION {DOMAIN s : s \in segments}
Missing == Named(manifest) \ InSegments
Live == Cardinality(Named(manifest) \cap InSegments)
Dead == FoldSet(LAMBDA s, n : n + Cardinality(DOMAIN s), 0, segments) - Live

\* Mutant: segments are merged for their dead rows only.
CompactDead == Dead > Live

Compact == (Missing # {} /\ Cardinality(segments) >= MaxSegments) \/ Dead > Live

\* One of the copies the segments hold of a row: they are read in the order of
\* their names, which are hashes.
Copies(id) == {s[id] : s \in {t \in segments : id \in DOMAIN t}}

\* RefreshSegments: skipped when the store is busy beyond the bound, or when
\* the segments hold every published row.
SkipRefresh(p) ==
    /\ Go(p, "refresh", "close")
    /\ lock # Free \/ (Missing = {} /\ ~stray /\ ~Compact)
    /\ UNCHANGED <<disk, lock, fill, work, session, runs, embedding, view, found, crashes>>

Refresh(p) ==
    /\ Go(p, "refresh", "segment") /\ lock = Free /\ lock' = p
    /\ Missing # {} \/ stray \/ Compact
    /\ stray' = FALSE
    /\ UNCHANGED <<rows, manifest, identity, segments, fill, work, session, runs, embedding, view, found, crashes>>

\* The planned segment, written aside and renamed to its content's hash: the
\* missing rows, and with a merge the live ones of the segments it replaces.
WriteSegment(p) ==
    /\ Go(p, "segment", "merge")
    /\ LET kept == IF Compact THEN Named(manifest) \cap InSegments ELSE {}
       IN \E old \in [kept -> 0 .. Drifts] :
            /\ \A id \in kept : old[id] \in Copies(id)
            /\ LET new == [id \in kept \cup Missing |-> IF id \in kept THEN old[id] ELSE rows[id]]
               IN /\ segments' = IF DOMAIN new = {} THEN segments ELSE segments \cup {new}
                  /\ Works(p, [IdleWork EXCEPT !.merged = IF Compact THEN segments \ {new} ELSE {}])
    /\ UNCHANGED <<rows, manifest, identity, stray, lock, fill, session, runs, embedding, view, found, crashes>>

RemoveMerged(p) ==
    /\ pc[p] = "merge"
    /\ \E s \in work[p].merged :
          /\ segments' = segments \ {s}
          /\ Works(p, [work[p] EXCEPT !.merged = @ \ {s}])
    /\ UNCHANGED <<rows, manifest, identity, stray, lock, fill, pc, session, runs, embedding, view, found, crashes>>

Refreshed(p) ==
    /\ Go(p, "merge", "close") /\ work[p].merged = {} /\ lock' = Free
    /\ UNCHANGED <<disk, fill, work, session, runs, embedding, view, found, crashes>>

\* Mutant: the fill lock is not released.
EndsLocked(p) ==
    /\ pc' = [pc EXCEPT ![p] = "idle"] /\ Works(p, IdleWork)
    /\ fill' = fill
    /\ lock' = IF lock = p THEN Free ELSE lock
    /\ session' = IF p \in Fillers THEN [session EXCEPT ![p] = NoSession] ELSE session

Ends(p) ==
    /\ pc' = [pc EXCEPT ![p] = "idle"] /\ Works(p, IdleWork)
    /\ fill' = IF fill = p THEN Free ELSE fill
    /\ lock' = IF lock = p THEN Free ELSE lock
    /\ session' = IF p \in Fillers THEN [session EXCEPT ![p] = NoSession] ELSE session

Close(p) ==
    /\ pc[p] = "close" /\ Ends(p)
    /\ UNCHANGED <<disk, runs, embedding, view, found, crashes>>

\* The upsert fails on the row its session deleted: the run ends.
Fails(p) ==
    /\ pc[p] = "rows" /\ Unsized(p) /\ session[p].gone # {} /\ Ends(p)
    /\ UNCHANGED <<disk, runs, embedding, view, found, crashes>>

\* The process dies, or its embedding call fails between two commits.
Crash(p) ==
    /\ pc[p] \notin {"idle", "waiting"} /\ crashes < MaxCrashes /\ crashes' = crashes + 1
    /\ stray' = (stray \/ pc[p] = "segment")
    /\ Ends(p)
    /\ UNCHANGED <<rows, manifest, identity, segments, runs, embedding, view, found>>

-----------------------------------------------------------------------------
(* Collection.  Groups are resolved under the lock, the manifest is saved   *)
(* before the rows go, and files no version names are listed at the end    *)
(* and removed one by one.                                                 *)

\* Mutant: the store is only looked at under its lock.
DropVersionsUnlocked(p) ==
    /\ p \in Collectors /\ Calls(p) /\ Go(p, "idle", "drop") /\ lock = Free
    /\ \E groups \in SUBSET SelectGroups(manifest, p) :
          Works(p, [IdleWork EXCEPT !.drop = groups])
    /\ UNCHANGED <<disk, lock, fill, session, embedding, view, found, crashes>>

DropVersions(p) ==
    /\ p \in Collectors /\ Calls(p) /\ Go(p, "idle", "drop") /\ lock = Free /\ lock' = p
    /\ \E groups \in SUBSET SelectGroups(manifest, p) :
          Works(p, [IdleWork EXCEPT !.drop = groups])
    /\ UNCHANGED <<disk, fill, session, embedding, view, found, crashes>>

SaveDropped(p) ==
    /\ Go(p, "drop", "delete")
    /\ LET kept == DropGroups(manifest, p, work[p].drop)
       IN /\ manifest' = kept
          /\ identity' = IF kept = manifest THEN identity ELSE identity + 1
          /\ Works(p, [IdleWork EXCEPT !.stale = Named(manifest \ kept)])
    /\ UNCHANGED <<rows, segments, stray, lock, fill, session, runs, embedding, view, found, crashes>>

Orphans == DOMAIN rows \ Named(manifest)

\* The orphans are listed once; what is removed is what was listed.
ListOrphans(p) ==
    /\ p \in Collectors /\ Go(p, "delete", "sweep") /\ work[p].stale = {}
    /\ Works(p, [IdleWork EXCEPT !.todo = Orphans])
    /\ UNCHANGED <<disk, lock, fill, session, runs, embedding, view, found, crashes>>

SweepOrphan(p) ==
    /\ pc[p] = "sweep"
    /\ \E id \in work[p].todo :
          /\ rows' = Restrict(rows, DOMAIN rows \ {id})
          /\ Works(p, [work[p] EXCEPT !.todo = @ \ {id}])
    /\ UNCHANGED <<manifest, identity, segments, stray, lock, fill, pc, session, runs, embedding, view, found, crashes>>

Dropped(p) ==
    /\ pc[p] = "sweep" /\ work[p].todo = {} /\ Ends(p)
    /\ UNCHANGED <<disk, runs, embedding, view, found, crashes>>

-----------------------------------------------------------------------------
(* Searches.  The rows are reused while the manifest file and the names of  *)
(* the segments are unchanged; rows the segments lack are decoded from      *)
(* their files and kept with the parsed manifest.                           *)

\* Mutant: the manifest is read once.
SyncOnce ==
    IF view.identity # Free /\ view.names = segments THEN view
    ELSE [identity |-> identity, names |-> segments, files |-> NoRows, found |-> Free]

Sync ==
    IF view.identity # identity
    THEN [identity |-> identity, names |-> segments, files |-> NoRows, found |-> Free]
    ELSE IF view.names # segments THEN [view EXCEPT !.names = segments, !.found = Free]
    ELSE view

OpenSearchSnapshot ==
    /\ lock = Free
    /\ Missing \subseteq DOMAIN rows \cup DOMAIN Sync.files
    /\ IF Sync.found # Free
       THEN view' = Sync /\ found' = [rows |-> Sync.found, published |-> Restrict(rows, Named(manifest))]
       ELSE \E old \in [Named(manifest) \cap InSegments -> 0 .. Drifts] :
              /\ \A id \in DOMAIN old : old[id] \in Copies(id)
              /\ LET files == [id \in Missing |-> IF id \in DOMAIN Sync.files THEN Sync.files[id] ELSE rows[id]]
                     all == [id \in DOMAIN old \cup Missing |-> IF id \in Missing THEN files[id] ELSE old[id]]
                 IN /\ view' = [Sync EXCEPT !.found = all,
                                   !.files = [id \in DOMAIN @ \cup Missing |->
                                                IF id \in Missing THEN files[id] ELSE @[id]]]
                    /\ found' = [rows |-> all, published |-> Restrict(rows, Named(manifest))]
    /\ UNCHANGED <<disk, lock, fill, pc, work, session, runs, embedding, crashes>>

Drift ==
    /\ embedding < Drifts /\ embedding' = embedding + 1
    /\ UNCHANGED <<disk, lock, fill, pc, work, session, runs, view, found, crashes>>

Step(p) ==
    \/ GetsFill(p) \/ Plan(p) \/ LoadSnapshot(p) \/ Commit(p) \/ AlreadyPublished(p)
    \/ WriteRow(p) \/ Save(p)
    \/ DeleteRow(p) \/ Committed(p) \/ NothingToFill(p) \/ SkipRefresh(p) \/ Refresh(p)
    \/ WriteSegment(p) \/ RemoveMerged(p) \/ Refreshed(p) \/ Close(p) \/ Fails(p)
    \/ SaveDropped(p) \/ ListOrphans(p) \/ SweepOrphan(p) \/ Dropped(p)

Next ==
    \/ \E p \in Procs : BeginFill(p) \/ EntryPublished(p) \/ DropVersions(p) \/ Step(p) \/ Crash(p)
    \/ OpenSearchSnapshot \/ Drift

Spec == Init /\ [][Next]_vars

\* A call runs on once it is made.  The locks are polled, so a process gets one
\* that is free again and again.
LiveSpec == Spec /\ \A p \in Procs : SF_vars(Step(p))

-----------------------------------------------------------------------------
(* Properties.                                                             *)

TypeOK ==
    /\ DOMAIN rows \subseteq Ids /\ Named(manifest) \subseteq Ids
    /\ \A s \in segments : DOMAIN s \subseteq Ids
    /\ lock \in Procs \cup {Free} /\ fill \in Fillers \cup {Free}
    /\ \A p \in Procs : pc[p] \in {"idle", "waiting", "plan", "embed", "rows", "delete",
                                   "refresh", "segment", "merge", "close", "drop", "sweep"}

\* Whatever is killed, and in the middle of every write, the manifest names no
\* row that is not there: a search would fail on it.
ManifestNamesRows == Named(manifest) \subseteq DOMAIN rows

\* A search reads the rows published when it took its snapshot, all of them and
\* no others, whatever it had cached and however far the segments are behind.
SearchesPublished == DOMAIN found.rows = DOMAIN found.published

\* A version leaves the manifest only by a collection, or by a forced rebuild of
\* its entry: a commit that was planned from an older manifest loses nothing
\* another process published since.
OnlyReplacedLeave ==
    \A v \in manifest \ manifest' :
        \/ \E p \in Collectors : pc[p] = "drop" /\ groupOf(v, p) \in work[p].drop
        \/ HasVersion(manifest', v.entry, v.hash)
        \/ \E p \in Forced : pc[p] = "rows" /\ v.entry \in work[p].batch

\* No forced rebuild and no collection by a binary takes a version that a binary
\* with another rule wrote: gc.go, "binaries with different rules sharing one
\* store keep their versions apart instead of collecting each other's".
OnlyOwnRuleLeaves ==
    \A v \in manifest \ manifest' : \A p \in Procs :
        pc[p] # pc'[p] => \A q \in Procs :
            v = VersionOf(q, v.entry) => Rule[q] = Rule[p] \/ Rule[q] \in work[p].drop

\* A collection that ran to its end leaves no row that no version names, also
\* after writers that died between the rows and the manifest: it lists the
\* orphans once, and what others have under way adds none to those listed
\* before the last is removed.
DropIsComplete ==
    \A p \in Collectors : pc[p] = "sweep" /\ pc'[p] = "idle" /\ crashes' = crashes
        => DOMAIN rows' = Named(manifest')

\* Segment files do not pile up beyond the bound, but for those of killed merges.
SegmentsBounded ==
    lock = Free => Cardinality(segments) <= MaxSegments + crashes

\* The vectors a search compares with are those its store's row files held when
\* it took its snapshot: the segments are a copy.
SearchesRows == found.rows = found.published

\* The rows of a fill session's manifest are in its snapshot as long as it looks
\* there for the length of a vector.
SnapshotHoldsRows == \A p \in Fillers : Unsized(p) => session[p].gone = {}

\* A run that is under way ends, and one that waits for another's gets its turn.
RunsEnd == \A p \in Procs : pc[p] # "idle" ~> pc[p] = "idle"
=============================================================================
