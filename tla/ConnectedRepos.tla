---------------------------- MODULE ConnectedRepos ----------------------------
(***************************************************************************)
(* The repositories a user has connected, their cache clones and what one  *)
(* project declares of them: `sdd repo add`, `remove` and `sync`, reads    *)
(* that freshen a cache, captures that reach into one, `config set`.  The  *)
(* user's configuration, the caches and the project are shared by every    *)
(* process; none of them is locked.  A repository only gains entries.      *)
(***************************************************************************)
EXTENDS Naturals, FiniteSets

CONSTANTS
    Callers, Repos, Urls, None,
    Serves,                 \* the repository a URL leads to, whose config declares itself
    Derives,                \* the identity a URL's host and path spell, or None
    Own,                    \* the project's own identity
    Commands,               \* what may be run: [kind, url, repo, force, backward]
    MaxCalls, MaxKills, MaxPushes   \* bounds on a behaviour

Kinds == {"add", "remove", "set", "sync", "freshen", "capture"}
ReposAssumption ==
    /\ None \notin Repos \cup Urls
    /\ Serves \in [Urls -> Repos \cup {None}]
    /\ Commands \subseteq [kind : Kinds, url : Urls \cup {None}, repo : Repos \cup {None},
                           force : BOOLEAN, backward : BOOLEAN]
    /\ \A c \in Commands :
          /\ c.kind = "add" => c.url # None /\ c.repo = None
          /\ c.kind \notin {"add", "set"} => c.repo # None
    /\ MaxPushes \in Nat

VARIABLES
    upstream,               \* entries of each repository, 1 .. upstream[r]
    config,                 \* the user's file: the URL of each connection, one other key
    cache,                  \* the directory of each repository
    deps, head,             \* the project's declared dependencies: on disk, committed
    refs,                   \* what captured entries point to
    call,                   \* the call each process is in
    notes                   \* history: calls and kills so far; adds that returned; forced drops

vars == <<upstream, config, cache, deps, head, refs, call, notes>>

Idle == [at |-> "idle"]
NoCache == [state |-> "none", from |-> None, has |-> 0, tried |-> FALSE]
Whole(u) == [state |-> "whole", from |-> u, has |-> upstream[Serves[u]], tried |-> TRUE]
IsCloned(r) == cache[r].state # "none"
Connected(cfg) == {r \in Repos : cfg.url[r] # None}
ConnectedByURL(cfg, u) == {r \in Repos : cfg.url[r] = u}

TypeOK ==
    /\ upstream \in [Repos -> 1 .. MaxPushes + 1]
    /\ config \in [url : [Repos -> Urls \cup {None}], other : Nat]
    /\ cache \in [Repos -> [state : {"none", "partial", "whole"}, from : Urls \cup {None},
                            has : 0 .. MaxPushes + 1, tried : BOOLEAN]]
    /\ deps \subseteq Repos /\ head \subseteq Repos

Init ==
    /\ upstream = [r \in Repos |-> 1]
    /\ config = [url |-> [r \in Repos |-> None], other |-> 0]
    /\ cache = [r \in Repos |-> NoCache]
    /\ deps = {} /\ head = {} /\ refs = {}
    /\ call = [p \in Callers |-> Idle]
    /\ notes = [calls |-> 0, kills |-> 0, added |-> {}, forced |-> {}]

In(p, kind, at) == call[p].at = at /\ call[p].kind \in kind
Goto(p, at) == call' = [call EXCEPT ![p].at = at]
Return(p) == call' = [call EXCEPT ![p] = Idle]
Refreshing == {"freshen", "sync", "capture"}
Shared == <<upstream, config, cache, deps, head, refs>>

Begin(p) ==
    /\ call[p] = Idle /\ notes.calls < MaxCalls
    /\ \E c \in Commands :
        /\ c.kind = "remove" => c.repo \in deps
        /\ call' = [call EXCEPT ![p] = [kind |-> c.kind, url |-> c.url, repo |-> c.repo,
            force |-> c.force, backward |-> c.backward, cfg |-> config, deps |-> deps,
            has |-> 0, entry |-> 0, retried |-> FALSE,
            at |-> CASE c.kind = "add" -> IF ConnectedByURL(config, c.url) = {} THEN "clone" ELSE "declare"
                     [] c.kind = "remove" -> "scan"
                     [] c.kind = "set" -> "patch"
                     [] OTHER -> "freshen"]]
    /\ notes' = [notes EXCEPT !.calls = @ + 1]
    /\ UNCHANGED Shared

\* Killed, or the machine stops: what it was doing to the disk stays half done.
Kill(p) ==
    /\ call[p] # Idle /\ notes.kills < MaxKills
    /\ Return(p)
    /\ notes' = [notes EXCEPT !.kills = @ + 1]
    /\ UNCHANGED Shared
-----------------------------------------------------------------------------
\* Mutant: a URL that spells another identity is not refused.
AnyDeclared(p) ==
    LET declared == Serves[call[p].url] IN
    declared # None /\ declared \notin Connected(call[p].cfg)
\* RepoAdd clones beside the cache and looks at what the clone declares.
Verified(p) ==
    LET declared == Serves[call[p].url] IN
    /\ declared # None
    /\ Derives[call[p].url] \in {None, declared}
    /\ declared \notin Connected(call[p].cfg)
CloneStaged(p) ==
    /\ In(p, {"add"}, "clone")
    /\ \/ Return(p)
       \/ /\ Verified(p)
          /\ call' = [call EXCEPT ![p].at = "clear", ![p].repo = Serves[call[p].url],
                                  ![p].has = upstream[Serves[call[p].url]]]
    /\ UNCHANGED <<Shared, notes>>
ClearCache(p) ==
    /\ In(p, {"add"}, "clear")
    /\ cache' = [cache EXCEPT ![call[p].repo] = NoCache]
    /\ Goto(p, "move")
    /\ UNCHANGED <<upstream, config, deps, head, refs, notes>>
\* A directory another process has filled meanwhile is not renamed over.
MoveIntoCache(p) ==
    /\ In(p, {"add"}, "move")
    /\ IF IsCloned(call[p].repo)
       THEN Return(p) /\ UNCHANGED cache
       ELSE /\ cache' = [cache EXCEPT ![call[p].repo] =
                            [state |-> "whole", from |-> call[p].url, has |-> call[p].has, tried |-> TRUE]]
            /\ Goto(p, "patch")
    /\ UNCHANGED <<upstream, config, deps, head, refs, notes>>

\* A patch of the user's file: read, then written back whole (connectRepo, ConfigSet).
ReadConfig(p) ==
    /\ In(p, {"add", "set"}, "patch")
    /\ IF call[p].kind = "add" /\ call[p].repo \in Connected(config)
       THEN Return(p)
       ELSE call' = [call EXCEPT ![p].at = "write", ![p].cfg = config]
    /\ UNCHANGED <<Shared, notes>>
WriteConfig(p) ==
    /\ In(p, {"add", "set"}, "write")
    /\ IF call[p].kind = "add"
       THEN /\ config' = [call[p].cfg EXCEPT !.url[call[p].repo] = call[p].url]
            /\ Goto(p, "declare")
       ELSE /\ config' = [call[p].cfg EXCEPT !.other = notes.calls]
            /\ Return(p)
    /\ UNCHANGED <<upstream, cache, deps, head, refs, notes>>

RepoOf(p) == IF call[p].repo # None THEN call[p].repo
             ELSE CHOOSE r \in ConnectedByURL(call[p].cfg, call[p].url) : TRUE
ReadDeclarations(p) ==
    /\ In(p, {"add"}, "declare")
    /\ IF RepoOf(p) = Own
       THEN Return(p) /\ UNCHANGED notes
       ELSE IF RepoOf(p) \in deps
       THEN /\ Return(p)
            /\ notes' = [notes EXCEPT !.added = @ \cup {RepoOf(p)}]
       ELSE /\ call' = [call EXCEPT ![p].at = "append", ![p].repo = RepoOf(p), ![p].deps = deps]
            /\ UNCHANGED notes
    /\ UNCHANGED Shared
AppendDeclaration(p) ==
    /\ In(p, {"add"}, "append")
    /\ deps' = call[p].deps \cup {call[p].repo}
    /\ Goto(p, "commit")
    /\ UNCHANGED <<upstream, config, cache, head, refs, notes>>
CommitDeclarations(p) ==
    /\ In(p, {"add", "remove"}, "commit")
    /\ \/ head' = deps
          /\ notes' = IF call[p].kind = "add" THEN [notes EXCEPT !.added = @ \cup {call[p].repo}] ELSE notes
       \/ UNCHANGED <<head, notes>>        \* git fails, and the call with it
    /\ Return(p)
    /\ UNCHANGED <<upstream, config, cache, deps, refs>>
-----------------------------------------------------------------------------
\* RepoRemove: the list read at the start, without the repository, is what is written.
ScanForStranded(p) ==
    /\ In(p, {"remove"}, "scan")
    /\ IF ~ call[p].force /\ \E ref \in refs : ref.repo = call[p].repo
       THEN Return(p)
       ELSE Goto(p, "drop")
    /\ UNCHANGED <<Shared, notes>>
DropDeclaration(p) ==
    /\ In(p, {"remove"}, "drop")
    /\ deps' = call[p].deps \ {call[p].repo}
    /\ notes' = [notes EXCEPT !.added = @ \ {call[p].repo},
                              !.forced = IF call[p].force THEN @ \cup {call[p].repo} ELSE @]
    /\ Goto(p, "commit")
    /\ UNCHANGED <<upstream, config, cache, head, refs>>
-----------------------------------------------------------------------------
AfterFreshen(p) == IF call[p].kind = "capture" THEN Goto(p, "resolve") ELSE Return(p)
Forced(p) == call[p].kind = "sync" \/ call[p].retried

\* EnsureReposFresh and RepoSync: clone what is absent, pull what is due.
SkipFresh(p) ==
    /\ In(p, Refreshing, "freshen")
    /\ LET r == call[p].repo IN
        \/ r \notin Connected(call[p].cfg)
        \/ IsCloned(r) /\ cache[r].tried /\ ~ Forced(p)
    /\ IF call[p].retried THEN Return(p) ELSE AfterFreshen(p)
    /\ UNCHANGED <<Shared, notes>>
CloneInPlace(p) ==
    /\ In(p, Refreshing, "freshen")
    /\ LET r == call[p].repo IN
        /\ r \in Connected(call[p].cfg) /\ ~ IsCloned(r) /\ ~ call[p].retried
        /\ cache' = [cache EXCEPT ![r] = [NoCache EXCEPT !.state = "partial", !.from = call[p].cfg.url[r]]]
    /\ Goto(p, "cloning")
    /\ UNCHANGED <<upstream, config, deps, head, refs, notes>>
FinishClone(p) ==
    /\ In(p, Refreshing, "cloning")
    /\ LET r == call[p].repo IN
        \/ /\ cache[r].state = "partial" /\ cache' = [cache EXCEPT ![r] = Whole(call[p].cfg.url[r])]
           /\ AfterFreshen(p)
        \* git removes what it had fetched, if that is still there, and fails
        \/ cache' = [cache EXCEPT ![r] = IF @.state = "partial" THEN NoCache ELSE @] /\ Return(p)
    /\ UNCHANGED <<upstream, config, deps, head, refs, notes>>
\* Attempts are marked, not successes; a pull within half a clone fails.  Where the
\* pull of a capture's second look fails, the target it missed stays missing.
Pull(p) ==
    /\ In(p, Refreshing, "freshen")
    /\ LET r == call[p].repo IN
        /\ r \in Connected(call[p].cfg)
        /\ call[p].retried \/ (IsCloned(r) /\ (Forced(p) \/ ~ cache[r].tried))
        /\ \/ /\ cache[r].state = "whole"
              /\ cache' = [cache EXCEPT ![r].tried = TRUE, ![r].has = upstream[r]]
              /\ AfterFreshen(p)
           \/ /\ cache' = [cache EXCEPT ![r].tried = IsCloned(r)]
              /\ Return(p)
    /\ UNCHANGED <<upstream, config, deps, head, refs, notes>>
Expire(r) ==
    /\ cache[r].tried
    /\ cache' = [cache EXCEPT ![r].tried = FALSE]
    /\ UNCHANGED <<upstream, config, deps, head, refs, call, notes>>
\* Caches may be cleared.
Purge(r) ==
    /\ IsCloned(r) /\ (\A p \in Callers : call[p] = Idle) /\ notes.kills < MaxKills
    /\ cache' = [cache EXCEPT ![r] = NoCache]
    /\ notes' = [notes EXCEPT !.kills = @ + 1]
    /\ UNCHANGED <<upstream, config, deps, head, refs, call>>
Push(r) ==
    /\ upstream[r] <= MaxPushes
    /\ upstream' = [upstream EXCEPT ![r] = @ + 1]
    /\ UNCHANGED <<config, cache, deps, head, refs, call, notes>>
-----------------------------------------------------------------------------
\* A capture that points to an entry of the repository.  The declarations are read
\* with the graph; a member's graph is its cache's, when connected and cloned.
Available(r) == r \in Connected(config) /\ cache[r].state = "whole"
CrossRepoResolution(p, entry) ==
    IF ~ Available(call[p].repo) THEN "unavailable"
    ELSE IF entry > cache[call[p].repo].has THEN "missing" ELSE "resolved"
Resolve(p) ==
    /\ In(p, {"capture"}, "resolve")
    /\ \E entry \in IF call[p].entry = 0 THEN 1 .. MaxPushes + 1 ELSE {call[p].entry} :
        LET found == CrossRepoResolution(p, entry) IN
        IF found = "missing" /\ call[p].backward /\ ~ call[p].retried
        THEN call' = [call EXCEPT ![p].at = "freshen", ![p].retried = TRUE, ![p].entry = entry,
                                  ![p].cfg = config]
        ELSE IF call[p].repo \in deps /\ (call[p].backward => found = "resolved")
        THEN call' = [call EXCEPT ![p].at = "capture", ![p].entry = entry]
        ELSE Return(p)
    /\ UNCHANGED <<Shared, notes>>
\* Pre-flight and the summary are generated before the entry is written.
WriteEntry(p) ==
    /\ In(p, {"capture"}, "capture")
    /\ refs' = refs \cup {[repo |-> call[p].repo, entry |-> call[p].entry, backward |-> call[p].backward]}
    /\ Return(p)
    /\ UNCHANGED <<upstream, config, cache, deps, head, notes>>

Step(p) ==
    \/ Begin(p) \/ Kill(p)
    \/ CloneStaged(p) \/ ClearCache(p) \/ MoveIntoCache(p)
    \/ ReadConfig(p) \/ WriteConfig(p)
    \/ ReadDeclarations(p) \/ AppendDeclaration(p) \/ CommitDeclarations(p)
    \/ ScanForStranded(p) \/ DropDeclaration(p)
    \/ SkipFresh(p) \/ CloneInPlace(p) \/ FinishClone(p) \/ Pull(p)
    \/ Resolve(p) \/ WriteEntry(p)
Next == (\E p \in Callers : Step(p)) \/ (\E r \in Repos : Expire(r) \/ Purge(r) \/ Push(r))
Spec == Init /\ [][Next]_vars
-----------------------------------------------------------------------------
\* Whatever processes do to one another, every connection was verified, a cache
\* holds the repository it is named for, and a reference that must resolve names an
\* entry that exists (RepoAdd's checks, EnsureCloned, crossRepoResolutionFindings).
ConnectionsAreReal ==
    /\ \A r \in Connected(config) : Serves[config.url[r]] = r /\ Derives[config.url[r]] \in {None, r}
    /\ \A r \in Repos : IsCloned(r) => Serves[cache[r].from] = r /\ cache[r].has <= upstream[r]
    /\ \A ref \in refs : ref.backward => ref.entry <= upstream[ref.repo]

\* With calls that do not overlap, killed ones among them: what `repo add` returned
\* for is connected and declared until it is removed; the cache is of the URL that is
\* connected; only a forced removal strands a reference (RepoAdd, RepoRemove).
AddsHold ==
    /\ notes.added \subseteq Connected(config) \cap deps
    /\ \A r \in Connected(config) : IsCloned(r) => cache[r].from = config.url[r]
    /\ \A ref \in refs : ref.repo \in deps \cup notes.forced

\* handler_repo.go: the declaration "must not linger uncommitted".
ReturnedIsCommitted == notes.added \subseteq head
\* config.go: re-registering is "never a silent overwrite".
ConnectionsStay == notes.added \subseteq Connected(config)
\* handler_repo.go: RepoRemove "drops repoID" from the dependencies, and nothing else.
DropsItsOwn == \A r \in deps \ deps' : \E p \in Callers : call[p].at = "drop" /\ call[p].repo = r
\* handler_repo.go: RepoRemove refuses when a removal would strand a reference.
NothingStranded == \A ref \in refs : ref.repo \in deps \cup notes.forced
\* cache.go: IsCloned reports whether the directory holds a clone.
ClonedIsWhole == \A r \in Repos : IsCloned(r) /\ (\A p \in Callers : call[p] = Idle) => cache[r].state = "whole"
=============================================================================
