------------------------------ MODULE MCStores ------------------------------
(***************************************************************************)
(* Small instances of the stores, each checked on its own: `part` names    *)
(* the one that runs, and the others stay in an initial state.  `Parts` is *)
(* Safety for Stores.cfg and Liveness for Settles.cfg (MCSettles).  The    *)
(* session log is SessionStore itself, the others are instances; those of  *)
(* a module of proofs are the ones Stores_proofs proves about.             *)
(***************************************************************************)
EXTENDS SessionStore, FiniteSets, TLC

CONSTANTS
    Parts,
    Absent, Unset,
    q1, q2, p1, p2, p3,            \* processes
    kEntry, kDrop,                     \* publication keys
    E, A1, A2, N,                      \* documents
    a, b, h1, h2, old,                 \* entries and states of their content
    f1, f2, v, g,                        \* fillers, a server and a collector
    n1, n2, s1, s2                     \* segment files and searches

Safety == {"log", "sweeps", "index", "rebuild", "views", "cache", "listing", "revision", "pinned"}
Liveness == {"collection", "answers", "fills", "swept", "algorithms"}

VARIABLES
    part,
    status, area, handle, nextBlob, staging, sweep,
    files, index, head, commits, holder, call, base, asked, finished, answered, stops,
    rows, manifest, identity, segments, stray, lock, fill, pc, work, session, runs,
    embedding, view, found, crashes,
    stored, saved, refs, name, parsed, rowsets, search, timer, stores,
    clock, stamped, cached, reads, writes,
    tree, opener, opening, lineageFile, lineage, snapshots, leases, troubles, published

logVars == vars
sweepVars == <<status, area, handle, nextBlob, staging, sweep>>
pubVars == <<files, index, head, commits, holder, call, base, asked, finished, answered, stops>>
indexVars == <<rows, manifest, identity, segments, stray, lock, fill, pc, work, session, runs,
               embedding, view, found, crashes>>
viewVars == <<stored, saved, refs, name, parsed, rowsets, search, timer, stores>>
readVars == <<clock, stamped, cached, reads, writes, tree, opener, opening, lineageFile, lineage,
              snapshots, leases, troubles, published>>
storesVars == <<part, logVars, sweepVars, pubVars, indexVars, viewVars, readVars>>

-----------------------------------------------------------------------------
\* Two sweeps race with staging; sessions may hold files of an older location.
Sweeps == INSTANCE SessionCollection_proofs WITH
    NumSessions <- 1, Limit <- 1, Sweepers <- {p1, p2}, Clients <- {p3}, MaxBlobs <- 1,
    Patient <- TRUE, Upgraded <- TRUE

\* One sweep over three pages.
Paging == INSTANCE SessionCollection_proofs WITH
    NumSessions <- 3, Limit <- 1, Sweepers <- {p1}, Clients <- {}, MaxBlobs <- 0,
    Patient <- TRUE, Upgraded <- FALSE

-----------------------------------------------------------------------------
Document(kind, path, attachments) == [kind |-> kind, path |-> path, attachments |-> attachments]
\* An entry with two attachments and the removal of another.  No two replacements of
\* one document: the loser's intent is never answered.
Answers == INSTANCE Publication WITH
    Callers <- {p1, p2}, Keys <- {kEntry, kDrop},
    Change <- (kEntry :> Document("entry", E, {A1, A2})) @@ (kDrop :> Document("remove", N, {})),
    Original <- old, Git <- TRUE, MaxStops <- 2, seen <- base

-----------------------------------------------------------------------------
IndexProcs == {f1, f2, v, g}
NoneWithheld == [p \in IndexProcs |-> {}]
OneRule == [p \in IndexProcs |-> "v1"]
OneChunk == [n \in {a, b} |-> 1]
\* The other checkout has another state of the first entry.
OtherCheckout(ps) == [p \in IndexProcs |-> [n \in {a, b} |-> IF p \in ps /\ n = a THEN h2 ELSE h1]]
\* The other binary has another rule, and so other hashes of everything.
OtherBinary(ps) == [p \in IndexProcs |-> [n \in {a, b} |-> IF p \in ps THEN h2 ELSE h1]]
Row(n, h) == [entry |-> n, hash |-> h, rule |-> "v1", ids |-> {<<n, h, 1>>}]

\* Two segment names, each of which may go and come back, in the view of a process.
Names == {n1, n2}
Prepares == TRUE
MaxMaps == 3
MaxSets == 3
MaxStores == 2

\* Fills of two checkouts, one waiting for its turn, a server that publishes
\* and a collection, over a version whose chunk IDs have the oldest shape; and
\* apart from them the view of such a store.
Indexed == INSTANCE IndexStore_proofs WITH Searches <- {s1, s2},
    Entries <- {a, b}, Hashes <- {h1, h2, old}, Ancient <- old,
    Fillers <- {f1}, Waiting <- {f1}, Forced <- {}, Publishers <- {v}, Collectors <- {g},
    Checkout <- OtherCheckout({v}), Rule <- OneRule, Withheld <- NoneWithheld,
    Chunks <- OneChunk,
    Stored <- {[entry |-> a, hash |-> old, rule |-> Absent, ids |-> {<<a, old, 1>>}]},
    MaxSegments <- 1, MaxRuns <- 1, MaxCrashes <- 1, Drifts <- 0, Free <- None, NoRule <- Absent
\* A forced rebuild and a fill of a newer binary, over a store both filled.
Rebuild == INSTANCE IndexStore_proofs WITH Searches <- {s1, s2},
    Entries <- {a, b}, Hashes <- {h1, h2, old}, Ancient <- old,
    Fillers <- {f1, f2}, Waiting <- {f1, f2}, Forced <- {f1}, Publishers <- {}, Collectors <- {},
    Checkout <- OtherBinary({f2}), Rule <- [OneRule EXCEPT ![f2] = "v2"],
    Withheld <- [p \in IndexProcs |-> {a}], Chunks <- OneChunk,
    Stored <- {Row(a, h1), Row(b, h1)},
    MaxSegments <- 1, MaxRuns <- 1, MaxCrashes <- 1, Drifts <- 1, Free <- None, NoRule <- Absent
Waits == INSTANCE IndexStore WITH
    Entries <- {a, b}, Hashes <- {h1, h2, old}, Ancient <- old,
    Fillers <- {f1, f2}, Waiting <- {f1, f2}, Forced <- {}, Publishers <- {}, Collectors <- {},
    Checkout <- OtherCheckout({}), Rule <- OneRule, Withheld <- NoneWithheld,
    Chunks <- OneChunk, Stored <- {},
    MaxSegments <- 1, MaxRuns <- 1, MaxCrashes <- 1, Drifts <- 0, Free <- None, NoRule <- Absent

-----------------------------------------------------------------------------
\* The view of a server, which searches and publishes.
Swept == INSTANCE StoreView WITH
    Names <- {n1, n2}, Searches <- {s1}, Prepares <- FALSE,
    MaxMaps <- 4, MaxSets <- 3, MaxStores <- 2

-----------------------------------------------------------------------------
\* Two stores, one entry with an attachment, a document added by hand.
Stores == {p1, p2}
Documents == {a, b}
AttachmentOf == (a :> None) @@ (b :> A1)
Foreign == {old}
Discarded == {a}
Handles == {q1, q2}                  \* as interchangeable as the processes of the log
MaxTroubles == 1
Pinned == INSTANCE Reads_proofs WITH disk <- stamped, saved <- cached,
    Files <- {}, Attachments <- {}, Loaders <- {}, Hashers <- {},
    Grain <- 1, RacyWindow <- 1, MaxTime <- 1, MaxWrites <- 1

\* Two processes share the graph cache; attachments are listed a second time; one
\* store keeps a revision.
Cache == INSTANCE Reads_proofs WITH disk <- stamped, saved <- cached,
    Files <- {a}, Attachments <- {}, Loaders <- {p1, p2}, Hashers <- {},
    Grain <- 2, RacyWindow <- 2, MaxTime <- 4, MaxWrites <- 3
Listing == INSTANCE Reads_proofs WITH disk <- stamped, saved <- cached,
    Files <- {a, b}, Attachments <- {b}, Loaders <- {p1}, Hashers <- {},
    Grain <- 2, RacyWindow <- 2, MaxTime <- 4, MaxWrites <- 2
Revision == INSTANCE Reads_proofs WITH disk <- stamped, saved <- cached,
    Files <- {a, b}, Attachments <- {}, Loaders <- {}, Hashers <- {p1},
    Grain <- 2, RacyWindow <- 2, MaxTime <- 4, MaxWrites <- 2

ASSUME InstanceAssumptions ==
    /\ Parts \subseteq Safety \cup Liveness
    /\ Processes = {q1, q2} /\ Sweeps!CollectionAssumption /\ Paging!CollectionAssumption
    /\ Answers!ChangeAssumption /\ Indexed!ViewAssumption /\ Swept!ViewAssumption
    /\ Indexed!IndexAssumption /\ Rebuild!IndexAssumption /\ Waits!IndexAssumption
    /\ Cache!StampAssumption /\ Listing!StampAssumption /\ Revision!StampAssumption
    /\ Pinned!SnapshotAssumption

-----------------------------------------------------------------------------
NoSessions ==
    /\ status = << >> /\ area = << >> /\ handle = << >> /\ nextBlob = 1
    /\ staging = << >> /\ sweep = [w \in {p1, p2} |-> Sweeps!NoSweep]

NoReads ==
    /\ clock = 0 /\ stamped = 0 /\ cached = 0 /\ reads = 0 /\ writes = 0
NoSnapshots ==
    /\ tree = 0 /\ opener = 0 /\ opening = 0 /\ lineageFile = 0 /\ lineage = 0
    /\ snapshots = 0 /\ leases = 0 /\ troubles = 0 /\ published = 0

StoresInit ==
    /\ part \in Parts
    /\ Init
    /\ CASE part = "sweeps" -> Sweeps!Init
         [] part = "collection" -> Paging!Init
         [] OTHER -> NoSessions
    /\ Answers!Init
    /\ CASE part = "rebuild" -> Rebuild!Init
         [] part = "fills" -> Waits!Init
         [] OTHER -> Indexed!Init
    /\ IF part = "views" THEN Indexed!ViewInit ELSE Swept!ViewInit
    /\ CASE part = "cache" -> Cache!Init
         [] part = "listing" -> Listing!Init
         [] part = "revision" -> Revision!Init
         [] OTHER -> NoReads
    /\ IF part = "pinned" THEN Pinned!SnapshotInit ELSE NoSnapshots

LogStep == part = "log" /\ Next /\ UNCHANGED <<part, sweepVars, pubVars, indexVars, viewVars, readVars>>
SweepStep ==
    /\ \/ part = "sweeps" /\ Sweeps!Next
       \/ part = "collection" /\ Paging!Next
    /\ UNCHANGED <<part, logVars, pubVars, indexVars, viewVars, readVars>>
IndexStep ==
    /\ \/ part = "index" /\ Indexed!Next
       \/ part = "rebuild" /\ Rebuild!Next
       \/ part = "fills" /\ Waits!Next
    /\ UNCHANGED <<part, logVars, sweepVars, pubVars, viewVars, readVars>>
ViewStep ==
    /\ \/ part = "views" /\ Indexed!ViewNext
       \/ part = "swept" /\ Swept!ViewNext
    /\ UNCHANGED <<part, logVars, sweepVars, pubVars, indexVars, readVars>>
ReadStep ==
    /\ \/ /\ \/ part = "cache" /\ Cache!Next
             \/ part = "listing" /\ Listing!Next
             \/ part = "revision" /\ Revision!Next
          /\ UNCHANGED <<tree, opener, opening, lineageFile, lineage, snapshots, leases, troubles, published>>
       \/ /\ part = "pinned" /\ Pinned!SnapshotNext
          /\ UNCHANGED <<clock, stamped, cached, reads, writes>>
    /\ UNCHANGED <<part, logVars, sweepVars, pubVars, indexVars, viewVars>>

StoresNext == LogStep \/ SweepStep \/ IndexStep \/ ViewStep \/ ReadStep

\* Nothing tells the processes of a session log apart, nor two callers or sweeps.
Symmetry == Permutations({q1, q2}) \cup Permutations({p1, p2}) \cup Permutations({s1, s2})

StoresSpec == StoresInit /\ [][StoresNext]_storesVars

-----------------------------------------------------------------------------
(* Properties.                                                             *)

\* Every variable keeps its type; no count of references falls below zero, also
\* when a search is closed or a mapping released more than once.
StoresTypeOK ==
    /\ TypeOK
    /\ part = "sweeps" => Sweeps!TypeOK
    /\ part = "index" => Indexed!TypeOK
    /\ part = "rebuild" => Rebuild!TypeOK
    /\ part = "views" => Indexed!ViewTypeOK

\* No staged file outlives its session, though two sweeps fail at any step, and
\* without files of an older location, the one a handle names stays readable
\* (collect.go:27-31, blob_store.go:22-23).
StagedKept ==
    part = "sweeps" =>
        /\ Sweeps!NothingOutlivesItsSession
        /\ (\A q \in Sweeps!Sessions : Sweeps!In("legacy", q) = {}) => Sweeps!HandlesReadable

\* Only sessions past the retention are removed, however old the page they
\* were found on (collect.go:27-58).
OnlyDueRemoved ==
    [][part = "sweeps" => \A q \in Sweeps!Sessions :
         status'[q] = "gone" => status[q] \in {"due", "gone"}]_storesVars

\* A sweep that ran to its end removed all that was due when it began
\* (collect.go).
SweepIsComplete == part = "collection" => Paging!SweepIsComplete

\* Whatever is killed in the middle of a write, the manifest names no row that
\* is not there, a search finds the rows published when it began and no others,
\* and segments do not pile up (publication.go, segments.go, storeview.go).
IndexWhole ==
    /\ part = "index" => /\ Indexed!ManifestNamesRows /\ Indexed!SearchesPublished
                         /\ Indexed!SegmentsBounded
    /\ part = "rebuild" => Rebuild!ManifestNamesRows

\* A version leaves the manifest only by a collection or by a rebuild of its
\* entry by its own rule: a commit planned from an older manifest loses nothing
\* (handler_index.go, gc.go).
NothingLost ==
    [][/\ part = "index" => Indexed!OnlyReplacedLeave
       /\ part = "rebuild" => Rebuild!OnlyOwnRuleLeaves]_storesVars

\* A collection that ran to its end leaves no row without a version, also after
\* writers that died between the rows and the manifest (gc.go).
DropLeavesNoOrphan == [][part = "index" => Indexed!DropIsComplete]_storesVars

\* What an open search reads is mapped, every mapping has as many references as
\* holders, and rows are of the mapped files (storeview.go).
MappingsHeld ==
    part = "views" => Indexed!OpenIsMapped /\ Indexed!CountsHolders /\ Indexed!RowsAreOfTheView

\* What a reader takes without reading is what it would read, a lease keeps its
\* state, and an identity includes the entries it is of (graphcache, snapshots.go).
ReadsAreReal ==
    /\ part = "cache" => Cache!TypeOK /\ Cache!HitsAreReal
    /\ part = "listing" => Listing!TypeOK /\ Listing!HitsAreReal
    /\ part = "revision" => Revision!TypeOK /\ Revision!HitsAreReal
    /\ part = "pinned" => Pinned!SnapshotTypeOK /\ Pinned!LeasesArePinned /\ Pinned!IncludesWhatItShows
=============================================================================
