------------------------- MODULE SessionCollection --------------------------
(***************************************************************************)
(* Staged attachments of sessions, and the sweep that reclaims ended       *)
(* sessions: CollectSessions, driven page by page at each server start     *)
(* (serve.go), over FilesystemSessionStore.List and Delete and             *)
(* FilesystemStagedBlobStore.  Any number of processes stage and sweep at  *)
(* the same time; a session log is one value here (SessionStore has its    *)
(* file).                                                                  *)
(***************************************************************************)
EXTENDS Naturals, FiniteSets, FiniteSetsExt

CONSTANTS
    NumSessions,  \* session ids are 1..NumSessions, in id order
    Limit,        \* List's page size
    Sweepers,     \* processes sweeping
    Clients,      \* processes staging
    MaxBlobs,     \* bound: blobs ever staged
    Patient,      \* TRUE: the retention outlasts every call (14 days by default)
    Upgraded,     \* TRUE: sessions may hold blobs staged before a new location
    None

Sessions == 1..NumSessions
Locations == {"primary", "legacy"}    \* StoreLocations, the first is written

\* A session ended for longer than the retention is due; a log this binary
\* cannot read may belong to a newer one.
Statuses == {"absent", "open", "ended", "due", "unreadable", "gone"}

OldBlobs == [s \in Sessions |-> MaxBlobs + s]
Blobs == 1..(MaxBlobs + NumSessions)

CollectionAssumption ==
    /\ NumSessions \in Nat \ {0} /\ Limit \in Nat \ {0} /\ MaxBlobs \in Nat
    /\ Patient \in BOOLEAN /\ Upgraded \in BOOLEAN
    /\ None \notin Blobs /\ \A bs \in SUBSET Blobs : None # bs

VARIABLES
    status,       \* per session
    area,         \* per location and session: None, or the blobs in its directory
    handle,       \* per session: the blob the log's latest staging event names, or None
    nextBlob,
    staging,      \* per client: the session and blob of a staging call, or None
    sweep         \* per sweeper: the running sweep

vars == <<status, area, handle, nextBlob, staging, sweep>>

Phases == {"idle", "list", "collect", "blobs", "log", "swept"}

Sweeps == [at : Phases, after : 0..NumSessions, todo : SUBSET Sessions,
           listed : 0..Limit, page : SUBSET Sessions,
           places : SUBSET Locations, due : SUBSET Sessions]

NoSweep == [at |-> "idle", after |-> 0, todo |-> {}, listed |-> 0,
            page |-> {}, places |-> {}, due |-> {}]

TypeOK ==
    /\ status \in [Sessions -> Statuses]
    /\ area \in [Locations -> [Sessions -> (SUBSET Blobs) \cup {None}]]
    /\ handle \in [Sessions -> Blobs \cup {None}]
    /\ nextBlob \in 1..(MaxBlobs + 1)
    /\ staging \in [Clients -> {None} \cup [session : Sessions, blob : Blobs \cup {None}]]
    /\ sweep \in [Sweepers -> Sweeps]

\* Logs of several versions lie in the store; some sessions staged a blob
\* before the primary location existed.
Init ==
    /\ status \in [Sessions -> {"absent", "open", "due", "unreadable"}]
    /\ \E old \in SUBSET {s \in Sessions : Upgraded /\ status[s] # "absent"} :
         /\ area = [l \in Locations |-> [s \in Sessions |->
                      IF l = "legacy" /\ s \in old THEN {OldBlobs[s]} ELSE None]]
         /\ handle = [s \in Sessions |-> IF s \in old THEN OldBlobs[s] ELSE None]
    /\ nextBlob = 1
    /\ staging = [c \in Clients |-> None]
    /\ sweep = [w \in Sweepers |-> NoSweep]

-----------------------------------------------------------------------------
(***************************************************************************)
(* Dialogues.                                                              *)
(***************************************************************************)
OpenSession(s) ==
    /\ status[s] = "absent"
    /\ status' = [status EXCEPT ![s] = "open"]
    /\ UNCHANGED <<area, handle, nextBlob, staging, sweep>>

EndSession(s) ==
    /\ status[s] = "open"
    /\ status' = [status EXCEPT ![s] = "ended"]
    /\ UNCHANGED <<area, handle, nextBlob, staging, sweep>>

\* The retention passes.
ComeDue(s) ==
    /\ status[s] = "ended"
    /\ Patient => \A c \in Clients : staging[c] # None => staging[c].session # s
    /\ status' = [status EXCEPT ![s] = "due"]
    /\ UNCHANGED <<area, handle, nextBlob, staging, sweep>>

\* StageAttachment: the session was loaded open, the bytes are stored, then
\* an event names them.
BeginStaging(c, s) ==
    /\ staging[c] = None /\ status[s] = "open"
    /\ staging' = [staging EXCEPT ![c] = [session |-> s, blob |-> None]]
    /\ UNCHANGED <<status, area, handle, nextBlob, sweep>>

In(place, s) == IF area[place][s] = None THEN {} ELSE area[place][s]

\* Stage makes the directory in the first location and publishes the blob.
StageBlob(c) ==
    /\ staging[c] # None /\ staging[c].blob = None
    /\ nextBlob <= MaxBlobs
    /\ LET s == staging[c].session IN
         area' = [area EXCEPT !["primary"][s] = In("primary", s) \cup {nextBlob}]
    /\ staging' = [staging EXCEPT ![c].blob = nextBlob]
    /\ nextBlob' = nextBlob + 1
    /\ UNCHANGED <<status, handle, sweep>>

\* appendStoredEvent; an ended session refuses it.
RecordStaged(c) ==
    /\ staging[c] # None /\ staging[c].blob # None
    /\ handle' = IF status[staging[c].session] = "open"
                 THEN [handle EXCEPT ![staging[c].session] = staging[c].blob]
                 ELSE handle
    /\ staging' = [staging EXCEPT ![c] = None]
    /\ UNCHANGED <<status, area, nextBlob, sweep>>

\* The call dies, before or after its bytes are stored, or between the
\* directory and the bytes.
StagingDies(c) ==
    /\ staging[c] # None
    /\ \/ UNCHANGED area
       \/ /\ staging[c].blob = None
          /\ area' = [area EXCEPT !["primary"][staging[c].session] =
                        In("primary", staging[c].session)]
    /\ staging' = [staging EXCEPT ![c] = None]
    /\ UNCHANGED <<status, handle, nextBlob, sweep>>

\* Mutant: the older location is asked first.
ResolveLegacy(s) == "legacy"

\* The location Open reads: the first that has the session's directory.
Resolve(s) == IF area["primary"][s] # None THEN "primary" ELSE "legacy"

Opens(s, blob) == blob \in In(Resolve(s), s)

-----------------------------------------------------------------------------
(***************************************************************************)
(* The sweep.                                                              *)
(***************************************************************************)
Stored == {s \in Sessions : status[s] \notin {"absent", "gone"}}

Put(w, changed) == sweep' = [sweep EXCEPT ![w] = changed]

\* List enumerates the logs after the cursor.  (due is history: what this
\* sweep owes.)
BeginSweep(w) ==
    /\ sweep[w].at = "idle"
    /\ Put(w, [NoSweep EXCEPT !.at = "list", !.todo = Stored,
                 !.due = {s \in Sessions : status[s] = "due"}])
    /\ UNCHANGED <<status, area, handle, nextBlob, staging>>

\* Mutant: the page's limit is not looked at.
ListAnyLog(w) ==
    /\ sweep[w].at = "list" /\ sweep[w].todo # {}
    /\ LET s == Min(sweep[w].todo)
           readable == status[s] \in {"open", "ended", "due"}
       IN  Put(w, [sweep[w] EXCEPT !.todo = @ \ {s}, !.after = s,
                     !.listed = @ + IF readable THEN 1 ELSE 0,
                     !.page = @ \cup {t \in {s} : status[t] = "due"}])
    /\ UNCHANGED <<status, area, handle, nextBlob, staging>>

\* Mutant: the store's page is taken without selecting the ended sessions.
ListUnselected(w) ==
    /\ sweep[w].at = "list" /\ sweep[w].todo # {} /\ sweep[w].listed < Limit
    /\ LET s == Min(sweep[w].todo)
           readable == status[s] \in {"open", "ended", "due"}
       IN  Put(w, [sweep[w] EXCEPT !.todo = @ \ {s}, !.after = s,
                     !.listed = @ + IF readable THEN 1 ELSE 0,
                     !.page = @ \cup {t \in {s} : readable}])
    /\ UNCHANGED <<status, area, handle, nextBlob, staging>>

\* One log is read.  The page counts every readable session: legacyEndStore
\* asks the store for all of them and selects the ended ones itself.
ListLog(w) ==
    /\ sweep[w].at = "list" /\ sweep[w].todo # {} /\ sweep[w].listed < Limit
    /\ LET s == Min(sweep[w].todo)
           readable == status[s] \in {"open", "ended", "due"}
       IN  Put(w, [sweep[w] EXCEPT !.todo = @ \ {s}, !.after = s,
                     !.listed = @ + IF readable THEN 1 ELSE 0,
                     !.page = @ \cup {t \in {s} : status[t] = "due"}])
    /\ UNCHANGED <<status, area, handle, nextBlob, staging>>

\* The page is full, or the logs are used up.  Next names the last log
\* looked at.
EndList(w) ==
    /\ sweep[w].at = "list"
    /\ sweep[w].todo = {} \/ sweep[w].listed = Limit
    /\ Put(w, [sweep[w] EXCEPT !.at = "collect", !.todo = {}, !.listed = 0,
                 !.after = IF sweep[w].todo = {} THEN 0 ELSE @])
    /\ UNCHANGED <<status, area, handle, nextBlob, staging>>

\* CollectSessions takes the page's sessions in turn; collectSessions then
\* asks for the page after the cursor.
TakeSession(w) ==
    /\ sweep[w].at = "collect" /\ sweep[w].page # {}
    /\ Put(w, [sweep[w] EXCEPT !.at = "blobs", !.places = Locations])
    /\ UNCHANGED <<status, area, handle, nextBlob, staging>>

\* Mutant: the next page begins one session too late.
NextPageSkips(w) ==
    /\ sweep[w].at = "collect" /\ sweep[w].page = {}
    /\ Put(w, IF sweep[w].after = 0
              THEN [sweep[w] EXCEPT !.at = "swept"]
              ELSE [sweep[w] EXCEPT !.at = "list",
                      !.todo = {s \in Stored : s > sweep[w].after + 1}])
    /\ UNCHANGED <<status, area, handle, nextBlob, staging>>

\* Mutant: the cursor is not used.
NextPageFromStart(w) ==
    /\ sweep[w].at = "collect" /\ sweep[w].page = {}
    /\ Put(w, IF sweep[w].after = 0
              THEN [sweep[w] EXCEPT !.at = "swept"]
              ELSE [sweep[w] EXCEPT !.at = "list", !.todo = Stored])
    /\ UNCHANGED <<status, area, handle, nextBlob, staging>>

NextPage(w) ==
    /\ sweep[w].at = "collect" /\ sweep[w].page = {}
    /\ Put(w, IF sweep[w].after = 0
              THEN [sweep[w] EXCEPT !.at = "swept"]
              ELSE [sweep[w] EXCEPT !.at = "list",
                      !.todo = {s \in Stored : s > sweep[w].after}])
    /\ UNCHANGED <<status, area, handle, nextBlob, staging>>

\* Mutant: only the location that is written is emptied.
DeletePrimaryArea(w) ==
    /\ sweep[w].at = "blobs"
    /\ area' = [area EXCEPT !["primary"][Min(sweep[w].page)] = None]
    /\ Put(w, [sweep[w] EXCEPT !.places = {}, !.at = "log"])
    /\ UNCHANGED <<status, handle, nextBlob, staging>>

\* DeleteStaged empties and removes the session's directory in one location.
DeleteArea(w) ==
    /\ sweep[w].at = "blobs"
    /\ \E place \in sweep[w].places :
         /\ place = "legacy" => "primary" \notin sweep[w].places
         /\ area' = [area EXCEPT ![place][Min(sweep[w].page)] = None]
         /\ Put(w, [sweep[w] EXCEPT !.places = @ \ {place},
                      !.at = IF sweep[w].places = {place} THEN "log" ELSE "blobs"])
    /\ UNCHANGED <<status, handle, nextBlob, staging>>

DeleteLog(w) ==
    /\ sweep[w].at = "log"
    /\ status' = [status EXCEPT ![Min(sweep[w].page)] = "gone"]
    /\ Put(w, [sweep[w] EXCEPT !.page = @ \ {Min(@)}, !.at = "collect"])
    /\ UNCHANGED <<area, handle, nextBlob, staging>>

\* A step fails or the process dies; the next server start sweeps again.  A
\* directory that got a new blob, or a file that stays, is left as it is.
SweepFails(w) ==
    /\ sweep[w].at \notin {"idle", "swept"}
    /\ \/ UNCHANGED area
       \/ /\ sweep[w].at = "blobs"
          /\ \E place \in sweep[w].places :
               \E rest \in SUBSET In(place, Min(sweep[w].page)) :
                 /\ area[place][Min(sweep[w].page)] # None
                 /\ area' = [area EXCEPT ![place][Min(sweep[w].page)] = rest]
    /\ Put(w, NoSweep)
    /\ UNCHANGED <<status, handle, nextBlob, staging>>

EndSweep(w) ==
    /\ sweep[w].at = "swept"
    /\ Put(w, NoSweep)
    /\ UNCHANGED <<status, area, handle, nextBlob, staging>>

Next ==
    \/ \E s \in Sessions : OpenSession(s) \/ EndSession(s) \/ ComeDue(s)
    \/ \E c \in Clients :
         \/ \E s \in Sessions : BeginStaging(c, s)
         \/ StageBlob(c) \/ RecordStaged(c) \/ StagingDies(c)
    \/ \E w \in Sweepers :
         \/ BeginSweep(w) \/ ListLog(w) \/ EndList(w) \/ TakeSession(w)
         \/ NextPage(w) \/ DeleteArea(w) \/ DeleteLog(w) \/ SweepFails(w)
         \/ EndSweep(w)

\* A sweep goes on by itself once it has begun.
Fairness == \A w \in Sweepers :
    /\ WF_vars(ListLog(w) \/ EndList(w) \/ TakeSession(w) \/ NextPage(w))
    /\ WF_vars(DeleteArea(w) \/ DeleteLog(w))

Spec == Init /\ [][Next]_vars

LiveSpec == Spec /\ Fairness

-----------------------------------------------------------------------------
(***************************************************************************)
(* Properties.                                                             *)
(***************************************************************************)
\* A session is removed only when its ending is past the retention and its
\* log is readable, however old the page it was found on (collect.go:27-58).
OnlyDueRemoved ==
    [][\A s \in Sessions : status'[s] = "gone" => status[s] \in {"due", "gone"}]_vars

\* No staged bytes outlive their session: resources go first, in every
\* location, and what fails is found again by the next sweep
\* (collect.go:27-31, blobstore.go:22-25).
NothingOutlivesItsSession ==
    \A s \in Sessions : status[s] = "gone" =>
        \A place \in Locations : area[place][s] = None

\* A sweep that ran to its end has removed every session that was due when
\* it began, whatever was created, ended or removed while it paged.
SweepIsComplete ==
    \A w \in Sweepers : sweep[w].at = "swept" =>
        \A s \in sweep[w].due : status[s] = "gone"

\* The file a session's handle names can be read while the session lives
\* (workflow.go:791-803); "Existing configured locations remain readable"
\* (blob_store.go:22-23).
HandlesReadable ==
    \A s \in Sessions : status[s] \in {"open", "ended"} /\ handle[s] # None =>
        Opens(s, handle[s])

\* A sweep that does not fail comes to its end.
SweepsEnd == \A w \in Sweepers : sweep[w].at = "list" ~> sweep[w].at \in {"swept", "idle"}
=============================================================================
