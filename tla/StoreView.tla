----------------------------- MODULE StoreView -----------------------------
(***************************************************************************)
(* One process's view of an index store (internal/index/storeview.go): the *)
(* segment files it has mapped, the search rows built over them and the    *)
(* searches that still read those rows.  Mappings are counted: one is      *)
(* released with its last holder, which is the view or a row set, and a    *)
(* row set is held by the view and by the searches that use it.  Another   *)
(* process merges segments, which deletes files that stay on disk as long  *)
(* as they are mapped.                                                     *)
(***************************************************************************)
EXTENDS Naturals, FiniteSets

CONSTANTS Names,        \* segment files: names are hashes of their content
          Searches,     \* searches that may be open at a time
          Prepares,     \* it is a command that prepares its search
          MaxMaps, MaxSets, MaxStores,  \* bounds
          Unset

Maps == 1 .. MaxMaps
RowSetIds == 1 .. MaxSets

\* There is a number for a row set beside those the searches hold.
ViewAssumption ==
    /\ IsFiniteSet(Searches) /\ IsFiniteSet(Names) /\ MaxMaps \in Nat /\ MaxSets \in Nat
    /\ Cardinality(Searches) < MaxSets /\ Unset \notin RowSetIds

VARIABLES stored,    \* the segment files of the store
          saved,     \* the identity of its manifest file
          refs,      \* [mapping -> its reference count]
          name,      \* [mapping -> the file it maps]
          parsed,    \* the view as it was parsed
          rowsets,   \* [row set -> its mappings and its reference count]
          search,    \* [search -> the row set it reads]
          timer,     \* the view's timer is armed
          stores     \* changes of the store by other processes

viewVars == <<stored, saved, refs, name, parsed, rowsets, search, timer, stores>>

NoView == [synced |-> FALSE, identity |-> Unset, segments |-> {}, rowset |-> Unset]

ViewInit ==
    /\ stored = {} /\ saved = 0
    /\ refs = [m \in Maps |-> 0] /\ name = [m \in Maps |-> Unset]
    /\ parsed = NoView
    /\ rowsets = [r \in RowSetIds |-> [segments |-> {}, refs |-> 0]]
    /\ search = [s \in Searches |-> Unset]
    /\ timer = FALSE /\ stores = 0

\* What a sequence of steps under the view's mutex has made of the counts.
State == [refs |-> refs, name |-> name, view |-> parsed, rowsets |-> rowsets]

-----------------------------------------------------------------------------
(* Releasing.                                                              *)

Retain(st, ms) ==
    [st EXCEPT !.refs = [m \in Maps |-> IF m \in ms THEN @[m] + 1 ELSE @[m]]]
\* What is released by its last holder is unmapped, and its number free.
Release(st, ms) ==
    [st EXCEPT !.refs = [m \in Maps |-> IF m \in ms THEN @[m] - 1 ELSE @[m]],
               !.name = [m \in Maps |-> IF m \in ms /\ st.refs[m] = 1 THEN Unset ELSE @[m]]]

\* Mutant: a search that closes releases the mappings though others read them.
ReleaseSetNow(st, r) ==
    Release([st EXCEPT !.rowsets[r].refs = @ - 1], st.rowsets[r].segments)

\* The last holder of a row set releases its mappings.
ReleaseSet(st, r) ==
    LET left == st.rowsets[r].refs - 1
    IN IF left = 0
       THEN Release([st EXCEPT !.rowsets[r] = [segments |-> {}, refs |-> 0]], st.rowsets[r].segments)
       ELSE [st EXCEPT !.rowsets[r].refs = left]

\* Mutant: the row set is kept when the segments change.
dropSnapshotLater(st) ==
    IF st.view.rowset = Unset \/ st.view.synced THEN st
    ELSE [ReleaseSet(st, st.view.rowset) EXCEPT !.view.rowset = Unset]

dropSnapshot(st) ==
    IF st.view.rowset = Unset THEN st
    ELSE [ReleaseSet(st, st.view.rowset) EXCEPT !.view.rowset = Unset]

\* Mutant: dropping the view keeps its mappings.
resetKeeps(st) == [dropSnapshot(st) EXCEPT !.view = NoView]

reset(st) ==
    LET dropped == dropSnapshot(st)
    IN [Release(dropped, dropped.view.segments) EXCEPT !.view = NoView]

-----------------------------------------------------------------------------
(* Synchronising: the manifest when its file changed, then the mappings of  *)
(* the names that are new.                                                  *)

readManifest(st) ==
    IF st.view.identity = saved THEN st
    ELSE [dropSnapshot(st) EXCEPT !.view.identity = saved]

Mapped(st) == {st.name[m] : m \in st.view.segments}
Unused(st) == {m \in Maps : st.refs[m] = 0}

\* The mappings a process makes are new ones; here the first that are free.
Fresh(st, n) == {m \in Unused(st) : Cardinality({k \in Unused(st) : k < m}) < n}
Numbering(ms, added) == CHOOSE f \in [ms -> added] : \A m, n \in ms : f[m] = f[n] => m = n

\* Mutant: the mappings of files that are gone are forgotten, not released.
syncForgets(st) ==
    IF st.view.synced /\ Mapped(st) = stored THEN st
    ELSE LET added == stored \ Mapped(st)
             new == Fresh(st, Cardinality(added))
             maps == Numbering(new, added)
             gone == {m \in st.view.segments : st.name[m] \notin stored}
         IN [dropSnapshot(st) EXCEPT
                !.refs = [m \in Maps |-> IF m \in new THEN 1 ELSE @[m]],
                !.name = [m \in Maps |-> IF m \in new THEN maps[m] ELSE @[m]],
                !.view.synced = TRUE,
                !.view.segments = (@ \ gone) \cup new]

sync(st) ==
    IF st.view.synced /\ Mapped(st) = stored THEN st
    ELSE LET added == stored \ Mapped(st)
             new == Fresh(st, Cardinality(added))
             maps == Numbering(new, added)
             gone == {m \in st.view.segments : st.name[m] \notin stored}
         IN [Release(dropSnapshot(st), gone) EXCEPT
                !.refs = [m \in Maps |-> IF m \in new THEN 1 ELSE @[m]],
                !.name = [m \in Maps |-> IF m \in new THEN maps[m] ELSE @[m]],
                !.view.synced = TRUE,
                !.view.segments = (@ \ gone) \cup new]

\* Mutant: every search retains the mappings again.
snapshotAnew(st, used) ==
    IF st.view.rowset # Unset THEN Retain(st, st.rowsets[st.view.rowset].segments)
    ELSE LET r == CHOOSE n \in RowSetIds : st.rowsets[n].refs = 0
         IN [Retain(st, used) EXCEPT !.rowsets[r] = [segments |-> used, refs |-> 1],
                                     !.view.rowset = r]

\* The row set over the mappings that hold published rows: the one there is, or
\* a new one the view holds.
snapshot(st, used) ==
    IF st.view.rowset # Unset THEN st
    ELSE LET r == CHOOSE n \in RowSetIds : st.rowsets[n].refs = 0
         IN [Retain(st, used) EXCEPT !.rowsets[r] = [segments |-> used, refs |-> 1],
                                     !.view.rowset = r]

Becomes(st) ==
    /\ refs' = st.refs /\ name' = st.name /\ parsed' = st.view /\ rowsets' = st.rowsets
    /\ UNCHANGED <<stored, saved, stores>>

\* A search takes the rows and arms the timer.
Acquire(s) ==
    /\ search[s] = Unset
    /\ \E used \in SUBSET sync(readManifest(State)).view.segments :
          LET st == snapshot(sync(readManifest(State)), used)
          IN /\ Becomes([st EXCEPT !.rowsets[st.view.rowset].refs = @ + 1])
             /\ search' = [search EXCEPT ![s] = st.view.rowset]
    /\ timer' = TRUE

\* The rows are not built: a row file cannot be read, or vectors differ in length.
\* What was retained for them is released again, and the view stays as the sync
\* made it: its timer is not armed.
AcquireFails(s) ==
    /\ search[s] = Unset
    /\ sync(readManifest(State)).view.rowset = Unset
    /\ Becomes(sync(readManifest(State)))
    /\ UNCHANGED <<search, timer>>

\* A segment that cannot be mapped drops the whole view.
SyncFails ==
    /\ ~parsed.synced \/ Mapped(State) # stored
    /\ stored # {}
    /\ Becomes(reset(readManifest(State)))
    /\ timer' = FALSE /\ UNCHANGED search

\* Mutant: a search that is closed again releases again.
EndSearchAgain(s) ==
    /\ search[s] # Unset
    /\ Becomes(ReleaseSet(State, search[s]))
    /\ UNCHANGED <<search, timer>>

EndSearch(s) ==
    /\ search[s] # Unset
    /\ Becomes(ReleaseSet(State, search[s]))
    /\ search' = [search EXCEPT ![s] = Unset] /\ UNCHANGED timer

\* A write's refresh looks for missing rows; the preparation of `sdd search` also
\* builds the rows.
RefreshNeeded ==
    /\ Becomes(sync(readManifest(State))) /\ UNCHANGED <<search, timer>>

Prepare ==
    /\ Prepares
    /\ \E used \in SUBSET sync(readManifest(State)).view.segments :
          Becomes(snapshot(sync(readManifest(State)), used))
    /\ UNCHANGED <<search, timer>>

\* A search met a corrupt payload.
Invalidate ==
    /\ \E s \in Searches : search[s] # Unset
    /\ parsed # NoView
    /\ Becomes(reset(State)) /\ timer' = FALSE /\ UNCHANGED search

\* The timer: a view of a store that moved on is dropped, one that did not is
\* looked at again later, and so is one whose store is being written.
ReleaseStale ==
    /\ timer
    /\ ~parsed.synced \/ parsed.identity # saved \/ Mapped(State) # stored
    /\ Becomes(IF parsed.synced THEN reset(State) ELSE State)
    /\ timer' = FALSE /\ UNCHANGED search

\* Another process saves the manifest, merges or adds segments.
Store ==
    /\ stores < MaxStores /\ stores' = stores + 1
    /\ saved' \in {saved, saved + 1}
    /\ stored' \in SUBSET Names
    /\ <<saved', stored'>> # <<saved, stored>>
    /\ UNCHANGED <<refs, name, parsed, rowsets, search, timer>>

ViewNext ==
    \/ \E s \in Searches : Acquire(s) \/ AcquireFails(s) \/ EndSearch(s)
    \/ SyncFails \/ RefreshNeeded \/ Prepare \/ Invalidate \/ ReleaseStale \/ Store

ViewSpec == ViewInit /\ [][ViewNext]_viewVars

\* Searches end and the timer fires.
ViewLiveSpec == ViewSpec /\ WF_viewVars(ReleaseStale) /\ \A s \in Searches : WF_viewVars(EndSearch(s))

-----------------------------------------------------------------------------
ViewTypeOK ==
    /\ refs \in [Maps -> 0 .. MaxSets + 1]
    /\ name \in [Maps -> Names \cup {Unset}]
    /\ parsed.segments \subseteq Maps
    /\ rowsets \in [RowSetIds -> [segments : SUBSET Maps, refs : 0 .. Cardinality(Searches) + 1]]
    /\ search \in [Searches -> RowSetIds \cup {Unset}]

\* What an open search reads is mapped, whatever was merged, invalidated or swept
\* since it took its rows.
OpenIsMapped ==
    \A s \in Searches : search[s] # Unset =>
        \A m \in rowsets[search[s]].segments : refs[m] > 0

\* A mapping no one holds is released: every count is the number of its holders.
CountsHolders ==
    /\ \A r \in RowSetIds : rowsets[r].refs =
          Cardinality({s \in Searches : search[s] = r}) + (IF parsed.rowset = r THEN 1 ELSE 0)
    /\ \A m \in Maps : refs[m] =
          Cardinality({r \in RowSetIds : rowsets[r].refs > 0 /\ m \in rowsets[r].segments})
            + (IF m \in parsed.segments THEN 1 ELSE 0)

\* A row set is built over one state of the store: a search that takes it reads
\* only files the view has mapped now.
RowsAreOfTheView ==
    parsed.rowset # Unset => rowsets[parsed.rowset].segments \subseteq parsed.segments

\* One of these mappings is of a file another process deleted.
Stale(ms) == \E m \in ms : refs[m] > 0 /\ name[m] \notin stored

\* A segment another process deleted does not keep its disk space: the view lets
\* go of it where its timer is armed, and what the view does not hold goes with
\* the searches that do.
ReleasesDeleted ==
    /\ (timer /\ Stale(parsed.segments)) ~> ~Stale(parsed.segments)
    /\ Stale(Maps \ parsed.segments) ~> ~Stale(Maps \ parsed.segments)

\* The same of every view: "every view checks itself this way".
ReleasesUnattended == Stale(Maps) ~> ~Stale(Maps)
=============================================================================
