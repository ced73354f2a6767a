----------------------------- MODULE Publication -----------------------------
(* Changes of one graph directory published under recorded keys: the entry,    *)
(* marker and summary writes of pkg/application (capture.go,                   *)
(* document_publication.go) over the store and the Git finalizer of pkg/local  *)
(* (capture_publication.go, git_finalizer.go).  A call looks its key up, writes *)
(* files under the graph lock, and then has the finalizer commit them under    *)
(* that lock; it can stop anywhere, and is made again, also while the stopped  *)
(* call's process still runs in another.  A file's content is the key that     *)
(* wrote it.                                                                   *)
EXTENDS Naturals, FiniteSets

CONSTANTS
    Callers,    \* processes making calls
    Keys,       \* publication keys, one per recorded intent
    Change,     \* Keys -> [kind, path, attachments]
    Original,   \* content of a document that was there before
    Absent,     \* no file, no content
    None,       \* no caller, no key
    Git,        \* whether the target has a finalizer
    MaxStops    \* bound: calls cut short

Owned(k) == {Change[k].path} \cup Change[k].attachments
Paths == UNION {Owned(k) : k \in Keys}
Contents == Keys \cup {Original}

ASSUME ChangeAssumption ==
    /\ Git \in BOOLEAN /\ MaxStops \in Nat
    /\ Absent \notin Contents /\ Original \notin Keys
    /\ None \notin Callers \cup Keys
    /\ \A k \in Keys : /\ Change[k].kind \in {"entry", "create", "remove", "replace"}
                       /\ Change[k].kind # "entry" => Change[k].attachments = {}
                       /\ Change[k].path \notin Change[k].attachments

\* Two changes meet in a path only as the start and the end of one marker.
OwnPaths ==
    \A j, k \in Keys : j # k /\ Owned(j) \cap Owned(k) # {} =>
        {Change[j].kind, Change[k].kind} = {"create", "remove"}

VARIABLES
    files,      \* Paths -> content: the working tree
    index,      \* the paths in Git's index
    head,       \* Paths -> content: the tree of the branch's last commit
    commits,    \* Keys -> commits of the branch carrying the key's trailer
    holder,     \* the caller holding graph.lock
    call,       \* Callers -> the call in progress
    seen,       \* Keys -> the content a recorded intent was asked against
    asked,      \* keys whose intent is recorded
    finished,   \* keys some call returned success for
    answered,   \* keys whose result, or whose conflict, was recorded
    stops

vars == <<files, index, head, commits, holder, call, seen, asked, finished, answered, stops>>
disk == <<files, index, head, commits>>
ledger == <<seen, asked, answered, stops>>

Idle == [at |-> "idle", key |-> None, base |-> Absent, todo |-> {}]

\* A document that is replaced or removed, and that no change here makes, was
\* published before any of them.
Before == [q \in Paths |->
             IF \E k \in Keys : q \in Owned(k) /\ Change[k].kind \in {"entry", "create"}
             THEN Absent ELSE Original]

Init ==
    /\ files = Before /\ head = Before
    /\ index = {q \in Paths : Before[q] # Absent}
    /\ commits = [k \in Keys |-> 0]
    /\ holder = None
    /\ call = [p \in Callers |-> Idle]
    /\ seen = [k \in Keys |-> Absent]
    /\ asked = {} /\ finished = {} /\ answered = {}
    /\ stops = 0

At(p, step) == call[p].at = step
Goto(p, step) == call' = [call EXCEPT ![p].at = step]
KindOf(p) == Change[call[p].key].kind
PathOf(p) == Change[call[p].key].path
Free == holder = None

\* lookupTrailer: only a commit counts as a publication.
Committed(k) == Git /\ commits[k] > 0
\* committedOnBranch
OnBranch(q) == Git /\ head[q] # Absent

\* An intent is recorded: what a removal removes, and what a replacement
\* replaces, was read from the graph directory.
Ask(k) ==
    /\ k \notin asked
    /\ Change[k].kind \in {"remove", "replace"} => files[Change[k].path] # Absent
    /\ asked' = asked \cup {k}
    /\ seen' = [seen EXCEPT ![k] = files[Change[k].path]]
    /\ UNCHANGED <<disk, holder, call, finished, answered, stops>>

\* CreateEntry, StartWIP, FinishWIP or ReplaceSummary is called for an intent
\* without a recorded result.
Begin(p, k) ==
    /\ At(p, "idle") /\ k \in asked \ answered
    /\ call' = [call EXCEPT ![p] = [at |-> IF Change[k].kind \in {"entry", "replace"}
                                           THEN "lookup" ELSE "publish",
                                    key |-> k, base |-> Absent, todo |-> {}]]
    /\ UNCHANGED <<disk, holder, ledger, finished>>

\* The lookup before anything is prepared.  A found entry still goes through
\* the finalizers, a found replacement is returned.  Without Git an entry is
\* found by its path, and a document never.
Lookup(p) ==
    LET k == call[p].key
        found == Committed(k) \/ (~Git /\ KindOf(p) = "entry" /\ files[PathOf(p)] # Absent) IN
    /\ At(p, "lookup") /\ Free
    /\ IF KindOf(p) = "entry"
       THEN Goto(p, IF found THEN "finalize" ELSE "publish") /\ UNCHANGED finished
       ELSE IF found THEN Goto(p, "return") /\ finished' = finished \cup {k}
       ELSE Goto(p, "read") /\ UNCHANGED finished
    /\ UNCHANGED <<disk, holder, ledger>>

\* ReplaceSummary reads the document: it replaces what the intent was asked
\* against, or takes its own earlier write for written; anything else conflicts.
Read(p) ==
    LET k == call[p].key  now == files[PathOf(p)] IN
    /\ At(p, "read") /\ Free
    /\ IF now \in {seen[k], k} /\ now # Absent
       THEN /\ call' = [call EXCEPT ![p].at = "publish", ![p].base = now]
            /\ UNCHANGED answered
       ELSE call' = [call EXCEPT ![p] = Idle] /\ answered' = answered \cup {k}
    /\ UNCHANGED <<disk, holder, finished, seen, asked, stops>>

Returns(p) == Goto(p, "return") /\ finished' = finished \cup {call[p].key}
Completes(p) == Goto(p, "finalize") /\ UNCHANGED finished

\* PublishDocument, in one hold of the lock.
\* Mutant: the key is not looked up again under the lock.
PublishDocumentUnkeyed(p) ==
    LET k == call[p].key  q == PathOf(p)  now == files[q] IN
    /\ At(p, "publish") /\ KindOf(p) # "entry" /\ Free
    /\ \/ KindOf(p) = "create" /\ now = Absent /\ files' = [files EXCEPT ![q] = k] /\ Completes(p) /\ UNCHANGED answered
       \/ KindOf(p) = "create" /\ now # Absent /\ UNCHANGED <<files, answered>>
          /\ IF OnBranch(q) THEN Returns(p) ELSE Completes(p)
       \/ KindOf(p) = "remove" /\ now # Absent /\ files' = [files EXCEPT ![q] = Absent] /\ Completes(p) /\ UNCHANGED answered
       \/ KindOf(p) = "remove" /\ now = Absent /\ UNCHANGED <<files, answered>>
          /\ IF OnBranch(q) THEN Completes(p) ELSE Returns(p)
       \/ KindOf(p) = "replace" /\ files' = [files EXCEPT ![q] = k] /\ Completes(p) /\ UNCHANGED answered
    /\ UNCHANGED <<index, head, commits, holder, seen, asked, stops>>
PublishDocument(p) ==
    LET k == call[p].key  q == PathOf(p)  now == files[q]
        Write(content) == files' = [files EXCEPT ![q] = content]
        Keep == UNCHANGED files IN
    /\ At(p, "publish") /\ KindOf(p) # "entry" /\ Free
    /\ \/ Committed(k) /\ Keep /\ Completes(p) /\ UNCHANGED answered
       \/ /\ ~Committed(k) /\ UNCHANGED answered
          /\ \/ KindOf(p) = "create" /\ now = Absent /\ Write(k) /\ Completes(p)
             \* Present and committed: nothing left to do.  Present only: commit it.
             \/ KindOf(p) = "create" /\ now # Absent /\ Keep
                /\ IF OnBranch(q) THEN Returns(p) ELSE Completes(p)
             \/ KindOf(p) = "remove" /\ now # Absent /\ Write(Absent) /\ Completes(p)
             \* Absent, but on the branch: an earlier call's commit was lost.
             \/ KindOf(p) = "remove" /\ now = Absent /\ Keep
                /\ IF OnBranch(q) THEN Completes(p) ELSE Returns(p)
             \/ KindOf(p) = "replace" /\ now \in {k, call[p].base} /\ Write(k) /\ Completes(p)
       \* The document moved between the read and the write.
       \/ /\ ~Committed(k) /\ KindOf(p) = "replace" /\ now \notin {k, call[p].base}
          /\ Keep /\ answered' = answered \cup {k}
          /\ call' = [call EXCEPT ![p] = Idle] /\ UNCHANGED finished
    /\ UNCHANGED <<index, head, commits, holder, seen, asked, stops>>

\* PublishEntry takes the lock and looks the key and the path up again.
\* Mutant: an entry whose file is there already is taken for published.
BeginEntrySkipsCommit(p) ==
    /\ At(p, "publish") /\ KindOf(p) = "entry" /\ Free
    /\ IF files[PathOf(p)] # Absent
       THEN Returns(p) /\ UNCHANGED holder
       ELSE /\ call' = [call EXCEPT ![p].at = "attach", ![p].todo = Change[call[p].key].attachments]
            /\ holder' = p /\ UNCHANGED finished
    /\ UNCHANGED <<disk, ledger>>
BeginEntry(p) ==
    /\ At(p, "publish") /\ KindOf(p) = "entry" /\ Free
    /\ IF Committed(call[p].key) \/ files[PathOf(p)] # Absent
       THEN Completes(p) /\ UNCHANGED holder
       ELSE /\ call' = [call EXCEPT ![p].at = "attach", ![p].todo = Change[call[p].key].attachments]
            /\ holder' = p /\ UNCHANGED finished
    /\ UNCHANGED <<disk, ledger>>

\* publishFile renames one attachment into place.
PublishAttachment(p, q) ==
    /\ At(p, "attach") /\ q \in call[p].todo
    /\ files' = [files EXCEPT ![q] = call[p].key]
    /\ call' = [call EXCEPT ![p].todo = @ \ {q}]
    /\ UNCHANGED <<index, head, commits, holder, ledger, finished>>

\* The entry file comes last.
\* Mutant: the lock is not given back.
PublishEntryFileKeepsLock(p) ==
    /\ At(p, "attach") /\ call[p].todo = {}
    /\ files' = [files EXCEPT ![PathOf(p)] = call[p].key]
    /\ Completes(p)
    /\ UNCHANGED <<index, head, commits, holder, ledger>>
\* Mutant: the entry file may come first.
PublishEntryFileAnytime(p) ==
    /\ At(p, "attach")
    /\ files' = [files EXCEPT ![PathOf(p)] = call[p].key]
    /\ Completes(p) /\ holder' = None
    /\ UNCHANGED <<index, head, commits, ledger>>
PublishEntryFile(p) ==
    /\ At(p, "attach") /\ call[p].todo = {}
    /\ files' = [files EXCEPT ![PathOf(p)] = call[p].key]
    /\ Completes(p) /\ holder' = None
    /\ UNCHANGED <<index, head, commits, ledger>>

\* Finalize takes the lock again.  A commit with the trailer ends it, and so
\* does a target without a finalizer.
\* Mutant: the finalizer does not look for its trailer.
FinalizeUnkeyed(p) ==
    /\ At(p, "finalize") /\ Free
    /\ IF ~Git THEN Returns(p) /\ UNCHANGED holder
       ELSE Goto(p, "stage") /\ holder' = p /\ UNCHANGED finished
    /\ UNCHANGED <<disk, ledger>>
Finalize(p) ==
    /\ At(p, "finalize") /\ Free
    /\ IF ~Git \/ Committed(call[p].key)
       THEN Returns(p) /\ UNCHANGED holder
       ELSE Goto(p, "stage") /\ holder' = p /\ UNCHANGED finished
    /\ UNCHANGED <<disk, ledger>>

\* The paths of the batch: an entry's attachments are those its directory holds.
Batch(p) == {PathOf(p)} \cup {q \in Change[call[p].key].attachments : files[q] # Absent}
Known(q) == q \in index \/ head[q] # Absent
\* The finalizer's error ends the call; the next one is free to retry.
GivesUp(p) == call' = [call EXCEPT ![p] = Idle] /\ holder' = None /\ UNCHANGED finished

\* git add --all -- paths, which fails on a path neither in the tree nor known,
\* or git rm --cached --ignore-unmatch -- path.
\* Mutant: git rm without --ignore-unmatch.
StageStrictly(p) ==
    /\ At(p, "stage")
    /\ IF KindOf(p) = "remove"
       THEN IF PathOf(p) \in index
            THEN index' = index \ {PathOf(p)} /\ Goto(p, "commit") /\ UNCHANGED <<holder, finished>>
            ELSE UNCHANGED index /\ GivesUp(p)
       ELSE IF \A q \in Batch(p) : files[q] # Absent \/ q \in index
            THEN /\ index' = (index \ Batch(p)) \cup {q \in Batch(p) : files[q] # Absent}
                 /\ Goto(p, "commit") /\ UNCHANGED <<holder, finished>>
            ELSE UNCHANGED index /\ GivesUp(p)
    /\ UNCHANGED <<files, head, commits, ledger>>
Stage(p) ==
    /\ At(p, "stage")
    /\ IF KindOf(p) = "remove"
       THEN index' = index \ {PathOf(p)} /\ Goto(p, "commit") /\ UNCHANGED <<holder, finished>>
       ELSE IF \A q \in Batch(p) : files[q] # Absent \/ q \in index
            THEN /\ index' = (index \ Batch(p)) \cup {q \in Batch(p) : files[q] # Absent}
                 /\ Goto(p, "commit") /\ UNCHANGED <<holder, finished>>
            ELSE UNCHANGED index /\ GivesUp(p)
    /\ UNCHANGED <<files, head, commits, ledger>>

\* git commit -- paths records what the working tree holds at the paths, under
\* the key's trailer.  It fails on an unknown path, and when nothing changed.
\* Mutant: git commit --all.
CommitAll(p) ==
    /\ At(p, "commit")
    /\ IF \E q \in index : head[q] # files[q]
       THEN /\ head' = [q \in Paths |-> IF q \in index \cup {PathOf(p)} THEN files[q] ELSE head[q]]
            /\ index' = {q \in index : files[q] # Absent}
            /\ commits' = [commits EXCEPT ![call[p].key] = @ + 1]
            /\ Returns(p) /\ holder' = None
       ELSE GivesUp(p) /\ UNCHANGED <<index, head, commits>>
    /\ UNCHANGED <<files, ledger>>
Commit(p) ==
    /\ At(p, "commit")
    /\ IF (\A q \in Batch(p) : Known(q)) /\ (\E q \in Batch(p) : head[q] # files[q])
       THEN /\ head' = [q \in Paths |-> IF q \in Batch(p) THEN files[q] ELSE head[q]]
            /\ index' = (index \ Batch(p)) \cup {q \in Batch(p) : files[q] # Absent}
            /\ commits' = [commits EXCEPT ![call[p].key] = @ + 1]
            /\ Returns(p) /\ holder' = None
       ELSE GivesUp(p) /\ UNCHANGED <<index, head, commits>>
    /\ UNCHANGED <<files, ledger>>

\* The engine logs the result.
Answer(p) ==
    /\ At(p, "return")
    /\ answered' = answered \cup {call[p].key}
    /\ call' = [call EXCEPT ![p] = Idle]
    /\ UNCHANGED <<disk, holder, seen, asked, finished, stops>>

\* A crash, a timeout of Git, a failed preparation or a lost result: the call
\* ends where it is and its lock is free.
Stop(p) ==
    /\ ~At(p, "idle") /\ stops < MaxStops
    /\ stops' = stops + 1
    /\ call' = [call EXCEPT ![p] = Idle]
    /\ holder' = IF holder = p THEN None ELSE holder
    /\ UNCHANGED <<disk, seen, asked, finished, answered>>

Step(p) ==
    \/ Lookup(p) \/ Read(p) \/ PublishDocument(p)
    \/ BeginEntry(p) \/ (\E q \in Paths : PublishAttachment(p, q)) \/ PublishEntryFile(p)
    \/ Finalize(p) \/ Stage(p) \/ Commit(p) \/ Answer(p)

Next ==
    \/ \E k \in Keys : Ask(k)
    \/ \E p \in Callers : Step(p) \/ Stop(p) \/ (\E k \in Keys : Begin(p, k))

Spec == Init /\ [][Next]_vars
\* A call in progress goes on, the lock is granted to who waits for it, and an
\* intent without a result is called again.
LiveSpec ==
    /\ Spec
    /\ \A p \in Callers : SF_vars(Step(p))
    /\ \A k \in Keys : SF_vars(\E p \in Callers : Begin(p, k))

-----------------------------------------------------------------------------
\* Types, and what the lock is for: only its holder is between its steps.
TypeOK ==
    /\ files \in [Paths -> Contents \cup {Absent}] /\ head \in [Paths -> Contents \cup {Absent}]
    /\ index \subseteq Paths
    /\ commits \in [Keys -> Nat]
    /\ holder \in Callers \cup {None}
    /\ call \in [Callers -> [at : {"idle", "lookup", "read", "publish", "attach", "finalize",
                                   "stage", "commit", "return"},
                             key : Keys \cup {None}, base : Contents \cup {Absent},
                             todo : SUBSET Paths]]
    /\ seen \in [Keys -> Contents \cup {Absent}]
    /\ asked \subseteq Keys /\ finished \subseteq asked /\ answered \subseteq asked
    /\ stops \in 0 .. MaxStops
    /\ \A p \in Callers : call[p].at \in {"attach", "stage", "commit"} <=> holder = p

\* "The graph store writes files, this commits them once" (git_finalizer.go):
\* whatever calls are repeated or made twice at a time, no two commits of the
\* branch carry one key.
CommittedOnce == \A k \in Keys : commits[k] <= 1

\* An entry that can be read, in the directory or on the branch, has all its
\* attachments there: a crash leaves attachments without an entry, never the
\* other way round.
EntriesWhole ==
    \A k \in Keys : Change[k].kind = "entry" =>
        \A tree \in {files, head} :
            tree[Change[k].path] # Absent => \A q \in Change[k].attachments : tree[q] # Absent

\* "Required storage commits precede success" (PublicationStore): an entry or a
\* replacement reported as done is on the branch.
SuccessIsCommitted ==
    Git => \A k \in finished : Change[k].kind \in {"entry", "replace"} => commits[k] > 0

\* The store's part of publishing once: no second commit of a key, no entry
\* without its attachments, no success that is not committed.
PublishedOnceAndWhole == CommittedOnce /\ EntriesWhole /\ SuccessIsCommitted

\* "Repeated keys return the original publication" (PublicationStore): once a
\* call for a key succeeded, no later call for it writes or removes a file ...
AppliedOnce ==
    [][\A p \in Callers : call[p].key \in finished /\ call'[p] # call[p] => files' = files]_vars

\* ... which the store keeps for what the branch carries: a marker removed since
\* is not started again by a late retry of its start.
CommittedIsFinal ==
    [][\A p \in Callers, k \in Keys :
          call[p].key = k /\ commits[k] > 0 /\ call'[p] # call[p] => files' = files]_vars

\* "LookupDocumentPublication finds what the key published" at the commit with
\* its trailer: that commit carries the key's own change.
CommitsItsOwn ==
    [][\A k \in Keys : commits'[k] > commits[k] =>
          head'[Change[k].path] = IF Change[k].kind = "remove" THEN Absent ELSE k]_vars

\* Commits are the only change of the branch, one key at a time, each with its
\* whole change and nothing of another's.
Branch == INSTANCE KeyedPublication WITH tree <- head, recorded <- {k \in Keys : commits[k] > 0}
RecordsKeys == Branch!PubInit(Before) /\ Branch!Recording

\* Every recorded intent gets its answer: what a stopped call left behind is
\* completed by the next one.
EveryIntentAnswered == \A k \in Keys : k \in asked ~> k \in answered
=============================================================================
