---------------------------- MODULE GraphSnapshots ----------------------------
(***************************************************************************)
(* Pinned reads of a graph directory and the proof that a read includes an *)
(* earlier write.  Stores (one per process) publish and acquire under one  *)
(* file lock; people edit the directory under none.  A revision is the     *)
(* hash of the directory, so it is represented by what the files hold.     *)
(***************************************************************************)
EXTENDS Naturals, FiniteSets

CONSTANTS
    Stores,
    Documents,                      \* published by the program
    AttachmentOf,                   \* the attachment an entry is published with, or None
    Foreign,                        \* documents others add to the directory
    Discarded,                      \* documents others may discard (git reset)
    None,
    Handles,                        \* of leases: a bound on those held at once
    MaxTroubles                     \* bound on restarts and discards

SnapshotAssumption ==
    /\ None \notin Stores /\ IsFiniteSet(Handles)
    /\ Foreign \cap Discarded = {}   \* nothing comes and goes while a copy is made

GraphFiles == Documents \cup Foreign \cup ({AttachmentOf[d] : d \in Documents} \ {None})

VARIABLES
    tree,                           \* the files there are: the current revision
    opener,                         \* the store holding graph.lock
    opening,                        \* what each store is at
    lineageFile,                    \* what its lines say, the later ones winning: a map from
                                    \* a revision to the one it was published on
    lineage,                        \* each store's map, merged from the file when it read it
    snapshots,                      \* each store's retained snapshots, [files, leases] by revision
    leases,                         \* what readers hold, by handle: [store, revision, files]
    troubles,
    published                       \* history: the revisions handed to writers

snapshotVars == <<tree, opener, opening, lineageFile, lineage, snapshots, leases, troubles, published>>
Resting == [at |-> "idle", doc |-> None, exact |-> {}, includes |-> {}, revision |-> {},
            todo |-> {}, got |-> {}]
NoRevision == {None}
Empty == [k \in {} |-> None]
Amend(map, k, value) == [x \in DOMAIN map \cup {k} |-> IF x = k THEN value ELSE map[x]]
Only(map, ks) == [x \in ks |-> map[x]]
Update(map, other) ==
    [x \in DOMAIN map \cup DOMAIN other |-> IF x \in DOMAIN other THEN other[x] ELSE map[x]]

SnapshotInit ==
    /\ tree = {} /\ opener = None
    /\ opening = [s \in Stores |-> Resting]
    /\ lineageFile = Empty /\ lineage = [s \in Stores |-> Empty]
    /\ snapshots = [s \in Stores |-> Empty] /\ leases = Empty /\ troubles = 0
    /\ published = {}

At(s, step) == opening[s].at = step
Done(s) == opening' = [opening EXCEPT ![s] = Resting] /\ opener' = None
Begin(s) == At(s, "idle") /\ opener = None /\ opener' = s

-----------------------------------------------------------------------------
\* PublishEntry: the attachment, then the revision to advance from, then the entry.
PublishAttachment(s, d) ==
    /\ Begin(s) /\ d \notin tree
    /\ tree' = tree \cup ({AttachmentOf[d]} \ {None})
    /\ opening' = [opening EXCEPT ![s] = [Resting EXCEPT !.at = "publish", !.doc = d]]
    /\ UNCHANGED <<lineageFile, lineage, snapshots, leases, troubles, published>>
ReadBefore(s) ==
    /\ At(s, "publish")
    /\ opening' = [opening EXCEPT ![s].at = "write", ![s].revision = tree]
    /\ UNCHANGED <<tree, opener, lineageFile, lineage, snapshots, leases, troubles, published>>
RecordLineage(s, before, after) ==
    IF before = after THEN UNCHANGED <<lineageFile, lineage>>
    ELSE /\ lineageFile' = Amend(lineageFile, after, before)
         /\ lineage' = [lineage EXCEPT ![s] = Amend(lineage[s], after, before)]
PublishFile(s) ==
    /\ At(s, "write")
    /\ tree' = tree \cup {opening[s].doc}
    /\ opening' = [opening EXCEPT ![s].at = "record"]
    /\ UNCHANGED <<opener, lineageFile, lineage, snapshots, leases, troubles, published>>
FinishPublish(s) ==
    /\ At(s, "record")
    /\ RecordLineage(s, opening[s].revision, tree)
    /\ published' = published \cup {tree}
    /\ Done(s)
    /\ UNCHANGED <<tree, snapshots, leases, troubles>>

-----------------------------------------------------------------------------
\* AcquireSnapshot of the current revision, an exact one, or one that includes a
\* write. s.mu is held throughout, the graph lock unless a retained one is asked for.
MayLease == DOMAIN leases # Handles
Retained(s, revision, files) ==
    IF revision \in DOMAIN snapshots[s]
    THEN [files |-> snapshots[s][revision].files, leases |-> snapshots[s][revision].leases + 1]
    ELSE [files |-> files, leases |-> 1]
Lease(s, revision, files) ==
    /\ \E n \in Handles \ DOMAIN leases :
        leases' = Amend(leases, n, [store |-> s, revision |-> revision, files |-> files])
    /\ snapshots' = [snapshots EXCEPT ![s] =
           Amend(snapshots[s], revision, Retained(s, revision, files))]
LeaseRetained(s, revision) == Lease(s, revision, snapshots[s][revision].files)

AcquireRetained(s, exact) ==
    /\ At(s, "idle")
    /\ exact \in DOMAIN snapshots[s]
    /\ LeaseRetained(s, exact)
    /\ UNCHANGED <<tree, opener, opening, lineageFile, lineage, troubles, published>>
BeginAcquire(s, exact, includes) ==
    /\ Begin(s) /\ MayLease
    /\ exact \notin DOMAIN snapshots[s]
    /\ exact = NoRevision \/ includes = NoRevision
    /\ opening' = [opening EXCEPT ![s] =
           [Resting EXCEPT !.at = "acquire", !.exact = exact, !.includes = includes,
                           !.revision = tree]]
    /\ UNCHANGED <<tree, lineageFile, lineage, snapshots, leases, troubles, published>>

\* The walk from one revision back to another: it comes through the least set that
\* holds the current revision and with each one its predecessor.
DescendsFrom(map, current, required) ==
    \A walk \in SUBSET ({current} \cup {map[r] : r \in DOMAIN map}) :
        current \in walk /\ (\A r \in walk \cap DOMAIN map : map[r] \in walk) => required \in walk
LoadLineage(s) == Update(lineage[s], lineageFile)
Shown(s) ==
    \/ opening[s].includes = NoRevision
    \/ DescendsFrom(lineage[s], opening[s].revision, opening[s].includes)
    \/ DescendsFrom(LoadLineage(s), opening[s].revision, opening[s].includes)
Admitted(s) == opening[s].exact \in {NoRevision, opening[s].revision} /\ Shown(s)
Merged(s) ==
    lineage' = IF \/ opening[s].exact \notin {NoRevision, opening[s].revision}
                  \/ opening[s].includes = NoRevision
                  \/ DescendsFrom(lineage[s], opening[s].revision, opening[s].includes)
               THEN lineage ELSE [lineage EXCEPT ![s] = LoadLineage(s)]

Refuse(s) ==
    /\ At(s, "acquire") /\ ~ Admitted(s) /\ Merged(s)
    /\ Done(s)
    /\ UNCHANGED <<tree, lineageFile, snapshots, leases, troubles, published>>
AcquireCurrent(s) ==
    /\ At(s, "acquire") /\ Admitted(s) /\ Merged(s)
    /\ IF opening[s].revision \in DOMAIN snapshots[s]
       THEN LeaseRetained(s, opening[s].revision) /\ Done(s)
       ELSE /\ opening' = [opening EXCEPT ![s].at = "freeze", ![s].todo = GraphFiles]
            /\ UNCHANGED <<opener, snapshots, leases>>
    /\ UNCHANGED <<tree, lineageFile, troubles, published>>
\* A walk visits the files in one order.
NextFile(todo) == CHOOSE f \in todo : TRUE
FreezeFile(s) ==
    /\ At(s, "freeze") /\ opening[s].todo # {}
    /\ LET f == NextFile(opening[s].todo)
       IN opening' = [opening EXCEPT ![s].todo = @ \ {f}, ![s].got = @ \cup ({f} \cap tree)]
    /\ UNCHANGED <<tree, opener, lineageFile, lineage, snapshots, leases, troubles, published>>
\* Mutant: what was frozen is kept whatever became of the directory.
KeepFrozen(s) == TRUE
Unchanged(s) == tree = opening[s].revision
Freeze(s) ==
    /\ At(s, "freeze") /\ opening[s].todo = {}
    /\ IF Unchanged(s) THEN Lease(s, opening[s].revision, opening[s].got)
       ELSE UNCHANGED <<snapshots, leases>>
    /\ Done(s)
    /\ UNCHANGED <<tree, lineageFile, lineage, troubles, published>>

\* A lease is released once; the last one of a revision lets go of its bytes.
Release(n) ==
    LET s == leases[n].store
        r == leases[n].revision
    IN /\ n \in DOMAIN leases /\ At(s, "idle")
       /\ leases' = Only(leases, DOMAIN leases \ {n})
       /\ snapshots' = [snapshots EXCEPT ![s] =
              IF snapshots[s][r].leases = 1 THEN Only(snapshots[s], DOMAIN snapshots[s] \ {r})
              ELSE Amend(snapshots[s], r, [files |-> snapshots[s][r].files,
                                          leases |-> snapshots[s][r].leases - 1])]
       /\ UNCHANGED <<tree, opener, opening, lineageFile, lineage, troubles, published>>

-----------------------------------------------------------------------------
\* The process stops, also in the middle of a call, and comes back.
Restart(s) ==
    /\ troubles < MaxTroubles /\ troubles' = troubles + 1
    /\ opener' = IF opener = s THEN None ELSE opener
    /\ opening' = [opening EXCEPT ![s] = Resting]
    /\ lineage' = [lineage EXCEPT ![s] = Empty]
    /\ snapshots' = [snapshots EXCEPT ![s] = Empty]
    /\ leases' = Only(leases, {n \in DOMAIN leases : leases[n].store # s})
    /\ UNCHANGED <<tree, lineageFile, published>>
\* A document is added by hand or by git, at any time.
Edit(f) ==
    /\ f \notin tree /\ tree' = tree \cup {f}
    /\ UNCHANGED <<opener, opening, lineageFile, lineage, snapshots, leases, troubles, published>>
\* Not in the instant between the two revisions of a publication: what it replaced
\* would then be on record as included.
Discard(f) ==
    /\ troubles < MaxTroubles /\ troubles' = troubles + 1
    /\ f \in tree /\ tree' = tree \ {f}
    /\ \A s \in Stores : opening[s].at \notin {"write", "record"}
    /\ UNCHANGED <<opener, opening, lineageFile, lineage, snapshots, leases, published>>

SnapshotNext ==
    \/ \E s \in Stores :
        \/ \E d \in Documents : PublishAttachment(s, d)
        \/ ReadBefore(s) \/ PublishFile(s) \/ FinishPublish(s)
        \/ \E r \in published : AcquireRetained(s, r)
        \/ \E e, i \in published \cup {NoRevision} : BeginAcquire(s, e, i)
        \/ Refuse(s) \/ AcquireCurrent(s) \/ Freeze(s)
        \/ FreezeFile(s) \/ Restart(s)
    \/ \E n \in DOMAIN leases : Release(n)
    \/ \E f \in Foreign : Edit(f)
    \/ \E f \in Discarded : Discard(f)
SnapshotSpec == SnapshotInit /\ [][SnapshotNext]_snapshotVars
-----------------------------------------------------------------------------
SnapshotTypeOK ==
    /\ tree \subseteq GraphFiles /\ opener \in Stores \cup {None}
    /\ \A s \in Stores : opening[s].at \in {"idle", "publish", "write", "record", "acquire", "freeze"}
    /\ \A n \in DOMAIN leases : leases[n].store \in Stores

\* A lease reads the bytes of its revision for as long as it is held, and a store
\* retains exactly what its leases need (AcquireSnapshot, leaseSnapshot).
LeasesArePinned ==
    /\ \A n \in DOMAIN leases :
        LET lease == leases[n] IN
        /\ lease.files = lease.revision
        /\ lease.revision \in DOMAIN snapshots[lease.store]
        /\ snapshots[lease.store][lease.revision].files = lease.files
    /\ \A s \in Stores : \A r \in DOMAIN snapshots[s] :
        snapshots[s][r].leases
            = Cardinality({n \in DOMAIN leases : leases[n].store = s /\ leases[n].revision = r})

\* What a read is shown to include, it includes: every file of the required
\* revision is there, whoever wrote it and whichever process asks.
IncludesWhatItShows ==
    \A s \in Stores : At(s, "acquire") /\ Shown(s) /\ opening[s].includes # NoRevision =>
        opening[s].includes \subseteq opening[s].revision

\* Found not to hold: with nobody else writing, a read can be shown to include every
\* write that was reported before it.
WritesAreShown ==
    \A s \in Stores :
        At(s, "acquire") /\ opening[s].includes # NoRevision
        /\ tree \cap Foreign = {} /\ Discarded = {} /\ troubles = 0 => Shown(s)
=============================================================================
