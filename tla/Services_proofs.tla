---------------------------- MODULE Services_proofs ----------------------------
(* The connected repositories for any repositories, URLs and processes, and the *)
(* calls of a language model for any callers and any number of retries.         *)
EXTENDS ConnectedRepos, ModelCalls, FiniteSetTheorems, TLAPS

-----------------------------------------------------------------------------
(* The inductive invariant of the repositories: the configuration a call has  *)
(* read is as real as the one on disk, and an add that passed its checks has  *)
(* the repository its URL serves.                                             *)
Configs == [url : [Repos -> Urls \cup {None}], other : Nat]
Caches == [state : {"none", "partial", "whole"}, from : Urls \cup {None},
           has : 0 .. MaxPushes + 1, tried : BOOLEAN]
Points == {"clone", "clear", "move", "patch", "write", "declare", "append", "commit", "scan",
           "drop", "freshen", "cloning", "resolve", "capture"}
Calls == [kind : Kinds, url : Urls \cup {None}, repo : Repos \cup {None}, force : BOOLEAN,
          backward : BOOLEAN, cfg : Configs, deps : SUBSET Repos, has : Nat, entry : Nat,
          retried : BOOLEAN, at : Points]
Pointers == [repo : Repos, entry : Nat, backward : BOOLEAN]

\* URL u is of repository r: it leads there and does not spell another.
IsOf(u, r) == Serves[u] = r /\ Derives[u] \in {None, r}
Real(cfg) == \A r \in Repos : cfg.url[r] # None => IsOf(cfg.url[r], r)

Verifying == {"clear", "move", "patch", "write"}
Sound(c, up) ==
    /\ c \in Calls /\ Real(c.cfg)
    /\ c.kind \notin {"add", "set"} => c.repo \in Repos
    /\ c.kind = "add" => c.url \in Urls
    /\ c.kind = "add" /\ c.at \in Verifying =>
          c.repo \in Repos /\ IsOf(c.url, c.repo) /\ c.has <= up[c.repo]
    /\ c.kind = "add" /\ c.at \in {"append", "commit"} => c.repo \in Repos
    /\ c.kind = "add" /\ c.at = "declare" /\ c.repo = None => ConnectedByURL(c.cfg, c.url) # {}
    /\ c.at = "cloning" => c.repo \in Connected(c.cfg)
    /\ c.at = "capture" => c.repo \in Repos /\ (c.backward => c.entry <= up[c.repo])

Shapes ==
    /\ upstream \in [Repos -> 1 .. MaxPushes + 1]
    /\ config \in Configs /\ cache \in [Repos -> Caches]
    /\ deps \subseteq Repos /\ head \subseteq Repos /\ refs \subseteq Pointers
    /\ notes \in [calls : Nat, kills : Nat, added : SUBSET Repos, forced : SUBSET Repos]
CachesReal ==
    \A r \in Repos : IsCloned(r) => Serves[cache[r].from] = r /\ cache[r].has <= upstream[r]
PointersReal == \A ref \in refs : ref.backward => ref.entry <= upstream[ref.repo]
CallsSound ==
    /\ call \in [Callers -> Calls \cup {Idle}]
    /\ \A p \in Callers : call[p] = Idle \/ Sound(call[p], upstream)

ReposInv == Shapes /\ Real(config) /\ CachesReal /\ PointersReal /\ CallsSound

-----------------------------------------------------------------------------
(* What is true besides of one process alone: what a call has read is what is *)
(* there.                                                                     *)
Sole == \A p, q \in Callers : p = q
Tracks(c) ==
    /\ c.at \in {"clone", "clear", "move", "patch", "write", "freshen", "cloning"} => c.cfg = config
    /\ c.kind = "add" /\ c.at = "declare" /\ c.repo = None => c.cfg = config
    /\ c.kind = "add" /\ c.at \in Verifying => c.repo \notin Connected(config)
    /\ c.kind = "add" /\ c.at \in {"patch", "write"} /\ IsCloned(c.repo) => cache[c.repo].from = c.url
    /\ c.kind = "add" /\ c.at = "declare" /\ c.repo # None => c.repo \in Connected(config)
    /\ c.at \in {"append", "scan", "drop"} => c.deps = deps
    /\ c.at = "append" => c.repo \in Connected(config)
    /\ c.kind = "add" /\ c.at = "commit" => c.repo \in Connected(config) \cap deps
    /\ c.at = "drop" /\ ~ c.force => \A ref \in refs : ref.repo # c.repo
    /\ c.at = "capture" => c.repo \in deps

AloneInv == AddsHold /\ \A p \in Callers : call[p] = Idle \/ Tracks(call[p])

-----------------------------------------------------------------------------
(* The inductive invariant of the model's calls: no secret past the guard, a  *)
(* refusal for every caller that is done with its schema, and what each call  *)
(* may still send.                                                            *)
Tries == Retries + 1
Requests == [at : {"guard", "limit", "route", "sent"}, purpose : Asked \cup {"preflight-extract"},
             secret : BOOLEAN, asked : {1, 2}, object : BOOLEAN, tries : 0 .. Tries]
Guarded(r) ==
    /\ r.at \in {"limit", "route", "sent"} => ~ r.secret
    /\ (r.asked = 2) <=> (r.purpose = "preflight-extract")
    /\ r.at = "sent" => r.tries >= 1
\* What is left of two requests in two forms each.
Left(r) ==
    IF r.at = "idle" THEN 0
    ELSE (IF r.asked = 1 THEN 2 * Tries ELSE 0) +
         (IF r.at # "sent" THEN 2 * Tries
          ELSE IF r.object THEN Tries - r.tries ELSE 2 * Tries - r.tries)
ReserveIn(f) == {x \in Askers \X (1 .. 4 * Tries) : x[2] <= Left(f[x[1]])}
ReserveBeside(f, c) == {x \in ReserveIn(f) : x[1] # c}
Reserve == ReserveIn(asking)
InSchemaForm == {c \in Askers : asking[c].at = "sent" /\ ~ asking[c].object}

Wires == [calls : Nat, sent : Nat, refused : Nat, billed : Nat, recorded : Nat, leaked : BOOLEAN,
          ticks : Nat]
Outcomes == [kind : {"none", "answer", "error"}, requests : 0 .. 2]
RefusalsBounded ==
    Mode = "auto" => /\ wire.refused + Cardinality(InSchemaForm) <= Cardinality(Askers)
                     /\ ~ refusing => wire.refused = 0
ModelInv ==
    /\ capable \in BOOLEAN /\ refusing \in BOOLEAN /\ clients \subseteq Asked /\ tokens \in 0 .. Burst
    /\ asking \in [Askers -> Requests \cup {NotAsking}]
    /\ \A c \in Askers : asking[c] = NotAsking \/ Guarded(asking[c])
    /\ outcome \in [Askers -> Outcomes]
    /\ wire \in Wires /\ ~ wire.leaked /\ wire.billed = wire.recorded
    /\ RefusalsBounded
    /\ wire.sent + Cardinality(Reserve) <= 4 * Tries * wire.calls

-----------------------------------------------------------------------------
(* The calls of the processes.                                               *)
LEMMA Moved ==
    ASSUME NEW c \in Calls, NEW x \in Points
    PROVE  LET d == [c EXCEPT !.at = x]
           IN  /\ d \in Calls /\ d.at = x /\ d.kind = c.kind /\ d.url = c.url /\ d.repo = c.repo
               /\ d.force = c.force /\ d.backward = c.backward /\ d.cfg = c.cfg /\ d.deps = c.deps
               /\ d.has = c.has /\ d.entry = c.entry /\ d.retried = c.retried
BY DEF Calls

LEMMA MovedSound ==
    ASSUME NEW up, NEW c, Sound(c, up), NEW x \in Points,
           c.kind = "add" /\ x \in Verifying =>
              c.repo \in Repos /\ IsOf(c.url, c.repo) /\ c.has <= up[c.repo],
           c.kind = "add" /\ x \in {"append", "commit"} => c.repo \in Repos,
           c.kind = "add" /\ x = "declare" /\ c.repo = None => ConnectedByURL(c.cfg, c.url) # {},
           x = "cloning" => c.repo \in Connected(c.cfg),
           x = "capture" => c.repo \in Repos /\ (c.backward => c.entry <= up[c.repo])
    PROVE  Sound([c EXCEPT !.at = x], up)
<1>1. PICK d : d = [c EXCEPT !.at = x]
      OBVIOUS
<1>2. /\ d \in Calls /\ d.at = x /\ d.kind = c.kind /\ d.url = c.url /\ d.repo = c.repo
      /\ d.force = c.force /\ d.backward = c.backward /\ d.cfg = c.cfg /\ d.deps = c.deps
      /\ d.has = c.has /\ d.entry = c.entry /\ d.retried = c.retried
      BY <1>1, Moved DEF Sound
<1>3. Sound(d, up)
      BY <1>2 DEF Sound
<1> QED BY <1>1, <1>3

LEMMA SoundGrows ==
    ASSUME NEW u \in [Repos -> Nat], NEW w \in [Repos -> Nat], \A r \in Repos : u[r] <= w[r],
           NEW c, Sound(c, u)
    PROVE  Sound(c, w)
<1>1. c \in Calls /\ c.has \in Nat /\ c.entry \in Nat
      BY DEF Sound, Calls
<1>2. ASSUME c.kind = "add", c.at \in Verifying
      PROVE  c.repo \in Repos /\ IsOf(c.url, c.repo) /\ c.has <= w[c.repo]
  <2>1. c.repo \in Repos /\ IsOf(c.url, c.repo) /\ c.has <= u[c.repo]
        BY <1>2 DEF Sound
  <2> QED BY <1>1, <2>1
<1>3. ASSUME c.at = "capture" PROVE c.repo \in Repos /\ (c.backward => c.entry <= w[c.repo])
  <2>1. c.repo \in Repos /\ (c.backward => c.entry <= u[c.repo])
        BY <1>3 DEF Sound
  <2> QED BY <1>1, <2>1
<1> QED BY <1>2, <1>3 DEF Sound

LEMMA OthersSound ==
    ASSUME CallsSound, NEW p \in Callers, NEW c, c = Idle \/ Sound(c, upstream),
           call' = [call EXCEPT ![p] = c], upstream' = upstream
    PROVE  CallsSound'
<1>1. c \in Calls \cup {Idle}
      BY DEF Sound
<1>2. call' \in [Callers -> Calls \cup {Idle}]
      BY <1>1 DEF CallsSound
<1>3. ASSUME NEW q \in Callers PROVE call'[q] = Idle \/ Sound(call'[q], upstream')
  <2>1. call'[q] = IF q = p THEN c ELSE call[q]
        BY DEF CallsSound
  <2> QED BY <2>1 DEF CallsSound
<1> QED BY <1>2, <1>3 DEF CallsSound

\* What a call that is at a point is.
LEMMA AtPoint ==
    ASSUME CallsSound, NEW p \in Callers, NEW ks, NEW x, x # "idle", In(p, ks, x)
    PROVE  /\ Sound(call[p], upstream) /\ call[p] \in Calls /\ Real(call[p].cfg)
           /\ call[p].at = x /\ call[p].kind \in ks /\ call[p] # Idle
<1>1. call[p].at = x /\ call[p].kind \in ks /\ call[p] # Idle
      BY DEF In, Idle
<1> QED BY <1>1 DEF CallsSound, Sound

\* A call that returns, one that goes on.
LEMMA ReturnsSound ==
    ASSUME CallsSound, NEW p \in Callers, Return(p), upstream' = upstream
    PROVE  CallsSound'
BY OthersSound DEF Return

LEMMA GoesSound ==
    ASSUME CallsSound, NEW p \in Callers, NEW x \in Points, Goto(p, x), upstream' = upstream,
           Sound([call[p] EXCEPT !.at = x], upstream)
    PROVE  CallsSound'
<1>1. call' = [call EXCEPT ![p] = [call[p] EXCEPT !.at = x]]
      BY DEF Goto
<1> QED BY <1>1, OthersSound

\* A step that leaves what the processes share.
LEMMA SharedKept ==
    ASSUME ReposInv, UNCHANGED Shared, CallsSound',
           notes' \in [calls : Nat, kills : Nat, added : SUBSET Repos, forced : SUBSET Repos]
    PROVE  ReposInv'
<1>1. /\ upstream' = upstream /\ config' = config /\ cache' = cache /\ deps' = deps
      /\ head' = head /\ refs' = refs
      BY DEF Shared
<1>2. Shapes'
      BY <1>1 DEF ReposInv, Shapes
<1>3. Real(config)' /\ CachesReal' /\ PointersReal'
      BY <1>1 DEF ReposInv, Real, CachesReal, PointersReal, IsCloned
<1> QED BY <1>2, <1>3 DEF ReposInv

LEMMA NotesTyped ==
    ASSUME Shapes
    PROVE  notes \in [calls : Nat, kills : Nat, added : SUBSET Repos, forced : SUBSET Repos]
BY DEF Shapes

LEMMA BeginSound ==
    ASSUME ReposAssumption, ReposInv, NEW p \in Callers, Begin(p)
    PROVE  ReposInv'
<1>1. PICK k \in Commands :
        call' = [call EXCEPT ![p] = [kind |-> k.kind, url |-> k.url, repo |-> k.repo,
            force |-> k.force, backward |-> k.backward, cfg |-> config, deps |-> deps,
            has |-> 0, entry |-> 0, retried |-> FALSE,
            at |-> CASE k.kind = "add" -> IF ConnectedByURL(config, k.url) = {} THEN "clone" ELSE "declare"
                     [] k.kind = "remove" -> "scan"
                     [] k.kind = "set" -> "patch"
                     [] OTHER -> "freshen"]]
      BY DEF Begin
<1>2. PICK x : x = CASE k.kind = "add" -> IF ConnectedByURL(config, k.url) = {} THEN "clone" ELSE "declare"
                     [] k.kind = "remove" -> "scan"
                     [] k.kind = "set" -> "patch"
                     [] OTHER -> "freshen"
      OBVIOUS
<1>3. /\ x \in {"clone", "declare", "scan", "patch", "freshen"}
      /\ k.kind = "add" => x \in {"clone", "declare"}
      /\ k.kind = "add" /\ x = "declare" => ConnectedByURL(config, k.url) # {}
      BY <1>2
<1>4. PICK c : c = [kind |-> k.kind, url |-> k.url, repo |-> k.repo,
            force |-> k.force, backward |-> k.backward, cfg |-> config, deps |-> deps,
            has |-> 0, entry |-> 0, retried |-> FALSE, at |-> x]
      OBVIOUS
<1>5. /\ k.kind \in Kinds /\ k.url \in Urls \cup {None} /\ k.repo \in Repos \cup {None}
      /\ k.force \in BOOLEAN /\ k.backward \in BOOLEAN
      /\ k.kind = "add" => k.url # None
      /\ k.kind \notin {"add", "set"} => k.repo # None
      BY DEF ReposAssumption
<1>6. config \in Configs /\ deps \subseteq Repos /\ Real(config)
      BY DEF ReposInv, Shapes
<1>7. c \in Calls
      BY <1>3, <1>4, <1>5, <1>6 DEF Calls, Points
<1>8. Sound(c, upstream)
      BY <1>3, <1>4, <1>5, <1>6, <1>7 DEF Sound, Verifying
<1>9. call' = [call EXCEPT ![p] = c] /\ UNCHANGED Shared /\ notes' = [notes EXCEPT !.calls = @ + 1]
      BY <1>1, <1>2, <1>4 DEF Begin
<1>10. upstream' = upstream
       BY <1>9 DEF Shared
<1>11. CallsSound'
       BY <1>8, <1>9, <1>10, OthersSound DEF ReposInv
<1>12. notes' \in [calls : Nat, kills : Nat, added : SUBSET Repos, forced : SUBSET Repos]
       BY <1>9, NotesTyped DEF ReposInv
<1> QED BY <1>9, <1>11, <1>12, SharedKept

LEMMA KillSound ==
    ASSUME ReposInv, NEW p \in Callers, Kill(p)
    PROVE  ReposInv'
<1>1. Return(p) /\ UNCHANGED Shared /\ notes' = [notes EXCEPT !.kills = @ + 1]
      BY DEF Kill
<1>2. upstream' = upstream
      BY <1>1 DEF Shared
<1>3. CallsSound'
      BY <1>1, <1>2, ReturnsSound DEF ReposInv
<1>4. notes' \in [calls : Nat, kills : Nat, added : SUBSET Repos, forced : SUBSET Repos]
      BY <1>1, NotesTyped DEF ReposInv
<1> QED BY <1>1, <1>3, <1>4, SharedKept

LEMMA CloneStagedSound ==
    ASSUME ReposAssumption, ReposInv, NEW p \in Callers, CloneStaged(p)
    PROVE  ReposInv'
<1>1. /\ Sound(call[p], upstream) /\ call[p] \in Calls /\ Real(call[p].cfg)
      /\ call[p].kind = "add" /\ call[p].at = "clone"
      BY AtPoint DEF CloneStaged, ReposInv
<1>2. UNCHANGED Shared /\ notes' = notes /\ upstream' = upstream
      BY DEF CloneStaged, Shared
<1>3. CallsSound'
  <2>1. CASE Return(p)
        BY <1>2, <2>1, ReturnsSound DEF ReposInv
  <2>2. CASE /\ Verified(p)
             /\ call' = [call EXCEPT ![p].at = "clear", ![p].repo = Serves[call[p].url],
                                     ![p].has = upstream[Serves[call[p].url]]]
    <3>1. PICK r : r = Serves[call[p].url]
          OBVIOUS
    <3>2. call[p].url \in Urls /\ r \in Repos \cup {None}
          BY <1>1, <3>1 DEF Sound, ReposAssumption
    <3>3. r # None /\ Derives[call[p].url] \in {None, r} /\ r \in Repos
          BY <2>2, <3>1, <3>2 DEF Verified
    <3>4. upstream[r] \in Nat
          BY <3>3 DEF ReposInv, Shapes
    <3>5. PICK c : c = [call[p] EXCEPT !.at = "clear", !.repo = r, !.has = upstream[r]]
          OBVIOUS
    <3>6. /\ c \in Calls /\ c.at = "clear" /\ c.repo = r /\ c.has = upstream[r]
          /\ c.kind = "add" /\ c.url = call[p].url /\ c.cfg = call[p].cfg
          BY <1>1, <3>3, <3>4, <3>5 DEF Calls, Points
    <3>7. Sound(c, upstream)
          BY <1>1, <3>1, <3>2, <3>3, <3>4, <3>6 DEF Sound, IsOf
    <3>8. call' = [call EXCEPT ![p] = c]
          BY <2>2, <3>1, <3>5
    <3> QED BY <1>2, <3>7, <3>8, OthersSound DEF ReposInv
  <2> QED BY <2>1, <2>2 DEF CloneStaged
<1> QED BY <1>2, <1>3, SharedKept, NotesTyped DEF ReposInv

\* A step that changes one cache.
LEMMA CacheKept ==
    ASSUME ReposInv, NEW r \in Repos, NEW k \in Caches,
           k.state # "none" => Serves[k.from] = r /\ k.has <= upstream[r],
           cache' = [cache EXCEPT ![r] = k], UNCHANGED <<upstream, config, deps, head, refs>>,
           CallsSound',
           notes' \in [calls : Nat, kills : Nat, added : SUBSET Repos, forced : SUBSET Repos]
    PROVE  ReposInv'
<1>1. cache' \in [Repos -> Caches] /\ \A q \in Repos : cache'[q] = IF q = r THEN k ELSE cache[q]
      BY DEF ReposInv, Shapes
<1>2. Shapes'
      BY <1>1 DEF ReposInv, Shapes
<1>3. Real(config)' /\ PointersReal'
      BY DEF ReposInv, Real, PointersReal
<1>4. ASSUME NEW q \in Repos, IsCloned(q)'
      PROVE  Serves[cache'[q].from] = q /\ cache'[q].has <= upstream'[q]
      BY <1>1, <1>4 DEF ReposInv, CachesReal, IsCloned
<1> QED BY <1>2, <1>3, <1>4 DEF ReposInv, CachesReal

LEMMA NoCacheIs ==
    ASSUME ReposAssumption
    PROVE  NoCache \in Caches /\ NoCache.state = "none"
BY DEF NoCache, Caches, ReposAssumption

LEMMA ClearCacheSound ==
    ASSUME ReposAssumption, ReposInv, NEW p \in Callers, ClearCache(p)
    PROVE  ReposInv'
<1>1. /\ Sound(call[p], upstream) /\ call[p] \in Calls
      /\ call[p].kind = "add" /\ call[p].at = "clear"
      BY AtPoint DEF ClearCache, ReposInv
<1>2. call[p].repo \in Repos /\ cache' = [cache EXCEPT ![call[p].repo] = NoCache]
      BY <1>1 DEF ClearCache, Sound, Verifying
<1>3. Sound([call[p] EXCEPT !.at = "move"], upstream)
  <2>1. /\ call[p].repo \in Repos /\ IsOf(call[p].url, call[p].repo)
        /\ call[p].has <= upstream[call[p].repo]
        BY <1>1 DEF Sound, Verifying
  <2> QED BY <1>1, <2>1, MovedSound DEF Points
<1>4. UNCHANGED <<upstream, config, deps, head, refs, notes>> /\ Goto(p, "move")
      BY DEF ClearCache
<1>5. CallsSound'
      BY <1>3, <1>4, GoesSound DEF ReposInv, Points
<1> QED BY <1>2, <1>4, <1>5, CacheKept, NoCacheIs, NotesTyped DEF ReposInv

LEMMA MoveIntoCacheSound ==
    ASSUME ReposAssumption, ReposInv, NEW p \in Callers, MoveIntoCache(p)
    PROVE  ReposInv'
<1>1. /\ Sound(call[p], upstream) /\ call[p] \in Calls
      /\ call[p].kind = "add" /\ call[p].at = "move"
      BY AtPoint DEF MoveIntoCache, ReposInv
<1>2. /\ call[p].repo \in Repos /\ IsOf(call[p].url, call[p].repo)
      /\ call[p].has <= upstream[call[p].repo] /\ call[p].url \in Urls /\ call[p].has \in Nat
      BY <1>1 DEF Sound, Verifying, Calls
<1>3. UNCHANGED <<upstream, config, deps, head, refs, notes>>
      BY DEF MoveIntoCache
<1>4. CASE IsCloned(call[p].repo)
  <2>1. Return(p) /\ UNCHANGED Shared
        BY <1>3, <1>4 DEF MoveIntoCache, Shared
  <2>2. CallsSound'
        BY <1>3, <2>1, ReturnsSound DEF ReposInv
  <2> QED BY <1>3, <2>1, <2>2, SharedKept, NotesTyped DEF ReposInv
<1>5. CASE ~ IsCloned(call[p].repo)
  <2>1. PICK k : k = [state |-> "whole", from |-> call[p].url, has |-> call[p].has, tried |-> TRUE]
        OBVIOUS
  <2>2. cache' = [cache EXCEPT ![call[p].repo] = k] /\ Goto(p, "patch")
        BY <1>5, <2>1 DEF MoveIntoCache
  <2>3. upstream[call[p].repo] \in 1 .. MaxPushes + 1 /\ MaxPushes \in Nat
        BY <1>2 DEF ReposInv, Shapes, ReposAssumption
  <2>4. k \in Caches /\ Serves[k.from] = call[p].repo /\ k.has <= upstream[call[p].repo]
        BY <1>2, <2>1, <2>3 DEF Caches, IsOf
  <2>5. Sound([call[p] EXCEPT !.at = "patch"], upstream)
        BY <1>1, <1>2, MovedSound DEF Points
  <2>6. CallsSound'
        BY <1>3, <2>2, <2>5, GoesSound DEF ReposInv, Points
  <2> QED BY <1>2, <1>3, <2>2, <2>4, <2>6, CacheKept, NotesTyped DEF ReposInv
<1> QED BY <1>4, <1>5

LEMMA ReadConfigSound ==
    ASSUME ReposAssumption, ReposInv, NEW p \in Callers, ReadConfig(p)
    PROVE  ReposInv'
<1>1. /\ Sound(call[p], upstream) /\ call[p] \in Calls
      /\ call[p].kind \in {"add", "set"} /\ call[p].at = "patch"
      BY AtPoint DEF ReadConfig, ReposInv
<1>2. UNCHANGED Shared /\ notes' = notes /\ upstream' = upstream
      BY DEF ReadConfig, Shared
<1>3. CallsSound'
  <2>1. CASE Return(p)
        BY <1>2, <2>1, ReturnsSound DEF ReposInv
  <2>2. CASE call' = [call EXCEPT ![p].at = "write", ![p].cfg = config]
    <3>1. PICK c : c = [call[p] EXCEPT !.at = "write", !.cfg = config]
          OBVIOUS
    <3>2. config \in Configs /\ Real(config)
          BY DEF ReposInv, Shapes
    <3>3. /\ c \in Calls /\ c.at = "write" /\ c.cfg = config /\ c.kind = call[p].kind
          /\ c.url = call[p].url /\ c.repo = call[p].repo /\ c.has = call[p].has
          BY <1>1, <3>1, <3>2 DEF Calls, Points
    <3>4. Sound(c, upstream)
          BY <1>1, <3>2, <3>3 DEF Sound, Verifying
    <3>5. call' = [call EXCEPT ![p] = c]
          BY <2>2, <3>1
    <3> QED BY <1>2, <3>4, <3>5, OthersSound DEF ReposInv
  <2> QED BY <2>1, <2>2 DEF ReadConfig
<1> QED BY <1>2, <1>3, SharedKept, NotesTyped DEF ReposInv

\* The configuration of a call with one more connection, or another key.
LEMMA Connects ==
    ASSUME ReposAssumption, NEW cfg \in Configs, Real(cfg), NEW r \in Repos, NEW u \in Urls, IsOf(u, r)
    PROVE  LET new == [cfg EXCEPT !.url[r] = u]
           IN  /\ new \in Configs /\ Real(new)
               /\ \A q \in Repos : new.url[q] = IF q = r THEN u ELSE cfg.url[q]
<1>1. PICK new : new = [cfg EXCEPT !.url[r] = u]
      OBVIOUS
<1>2. cfg.url \in [Repos -> Urls \cup {None}] /\ cfg.other \in Nat
      BY DEF Configs
<1>3. new = [url |-> [cfg.url EXCEPT ![r] = u], other |-> cfg.other]
      BY <1>1 DEF Configs
<1>4. \A q \in Repos : new.url[q] = IF q = r THEN u ELSE cfg.url[q]
      BY <1>2, <1>3
<1>5. new \in Configs
      BY <1>2, <1>3 DEF Configs
<1>6. Real(new)
      BY <1>4 DEF Real
<1> QED BY <1>1, <1>4, <1>5, <1>6

LEMMA WriteConfigSound ==
    ASSUME ReposAssumption, ReposInv, NEW p \in Callers, WriteConfig(p)
    PROVE  ReposInv'
<1>1. /\ Sound(call[p], upstream) /\ call[p] \in Calls /\ Real(call[p].cfg)
      /\ call[p].kind \in {"add", "set"} /\ call[p].at = "write" /\ call[p].cfg \in Configs
  <2>1. /\ Sound(call[p], upstream) /\ call[p] \in Calls /\ Real(call[p].cfg)
        /\ call[p].kind \in {"add", "set"} /\ call[p].at = "write"
        BY AtPoint DEF WriteConfig, ReposInv
  <2> QED BY <2>1 DEF Calls
<1>2. UNCHANGED <<upstream, cache, deps, head, refs, notes>>
      BY DEF WriteConfig
<1>3. config' \in Configs /\ Real(config') /\ CallsSound'
  <2>1. CASE call[p].kind = "add"
    <3>1. config' = [call[p].cfg EXCEPT !.url[call[p].repo] = call[p].url] /\ Goto(p, "declare")
          BY <2>1 DEF WriteConfig
    <3>2. call[p].repo \in Repos /\ IsOf(call[p].url, call[p].repo) /\ call[p].url \in Urls
          BY <1>1, <2>1 DEF Sound, Verifying
    <3>3. config' \in Configs /\ Real(config')
          BY <1>1, <3>1, <3>2, Connects
    <3>4. Sound([call[p] EXCEPT !.at = "declare"], upstream)
          BY <1>1, <3>2, MovedSound DEF Points, Verifying, ReposAssumption
    <3>5. CallsSound'
          BY <1>2, <3>1, <3>4, GoesSound DEF ReposInv, Points
    <3> QED BY <3>3, <3>5
  <2>2. CASE call[p].kind # "add"
    <3>1. config' = [call[p].cfg EXCEPT !.other = notes.calls] /\ Return(p)
          BY <2>2 DEF WriteConfig
    <3>2. notes.calls \in Nat
          BY DEF ReposInv, Shapes
    <3>3. config' \in Configs /\ config'.url = call[p].cfg.url
          BY <1>1, <3>1, <3>2 DEF Configs
    <3>4. Real(config')
          BY <1>1, <3>3 DEF Real
    <3>5. CallsSound'
          BY <1>2, <3>1, ReturnsSound DEF ReposInv
    <3> QED BY <3>3, <3>4, <3>5
  <2> QED BY <2>1, <2>2
<1>4. Shapes'
      BY <1>2, <1>3 DEF ReposInv, Shapes
<1>5. CachesReal' /\ PointersReal'
      BY <1>2 DEF ReposInv, CachesReal, PointersReal, IsCloned
<1>6. Real(config)'
      BY <1>3 DEF Real
<1> QED BY <1>3, <1>4, <1>5, <1>6 DEF ReposInv

\* A step that changes what the project declares.
LEMMA DeclaredKept ==
    ASSUME ReposInv, UNCHANGED <<upstream, config, cache, refs>>,
           deps' \subseteq Repos, head' \subseteq Repos, CallsSound',
           notes' \in [calls : Nat, kills : Nat, added : SUBSET Repos, forced : SUBSET Repos]
    PROVE  ReposInv'
<1>1. Shapes'
      BY DEF ReposInv, Shapes
<1>2. Real(config)' /\ CachesReal' /\ PointersReal'
      BY DEF ReposInv, Real, CachesReal, PointersReal, IsCloned
<1> QED BY <1>1, <1>2 DEF ReposInv

LEMMA RepoOfIs ==
    ASSUME ReposAssumption, CallsSound, NEW p \in Callers, In(p, {"add"}, "declare")
    PROVE  /\ RepoOf(p) \in Repos
           /\ call[p].repo = None => RepoOf(p) \in ConnectedByURL(call[p].cfg, call[p].url)
           /\ call[p].repo # None => RepoOf(p) = call[p].repo
<1>1. Sound(call[p], upstream) /\ call[p] \in Calls /\ call[p].kind = "add" /\ call[p].at = "declare"
      BY AtPoint
<1>2. CASE call[p].repo = None
  <2>1. ConnectedByURL(call[p].cfg, call[p].url) # {}
        BY <1>1, <1>2 DEF Sound
  <2>2. RepoOf(p) \in ConnectedByURL(call[p].cfg, call[p].url)
        BY <1>2, <2>1 DEF RepoOf
  <2> QED BY <1>2, <2>2 DEF ConnectedByURL
<1>3. CASE call[p].repo # None
      BY <1>1, <1>3 DEF RepoOf, Calls
<1> QED BY <1>2, <1>3

LEMMA AddedTyped ==
    ASSUME Shapes, NEW r \in Repos
    PROVE  /\ [notes EXCEPT !.added = @ \cup {r}] \in
                 [calls : Nat, kills : Nat, added : SUBSET Repos, forced : SUBSET Repos]
           /\ [notes EXCEPT !.added = @ \cup {r}].added = notes.added \cup {r}
           /\ [notes EXCEPT !.added = @ \cup {r}].forced = notes.forced
BY DEF Shapes

LEMMA ReadDeclarationsSound ==
    ASSUME ReposAssumption, ReposInv, NEW p \in Callers, ReadDeclarations(p)
    PROVE  ReposInv'
<1>1. /\ Sound(call[p], upstream) /\ call[p] \in Calls
      /\ call[p].kind = "add" /\ call[p].at = "declare"
      BY AtPoint DEF ReadDeclarations, ReposInv
<1>2. PICK r \in Repos : r = RepoOf(p)
      BY RepoOfIs DEF ReadDeclarations, ReposInv
<1>3. UNCHANGED Shared /\ upstream' = upstream
      BY DEF ReadDeclarations, Shared
<1>4. CASE Return(p)
  <2>1. CallsSound'
        BY <1>3, <1>4, ReturnsSound DEF ReposInv
  <2>2. notes' = notes \/ notes' = [notes EXCEPT !.added = @ \cup {r}]
        BY <1>2 DEF ReadDeclarations
  <2>3. notes' \in [calls : Nat, kills : Nat, added : SUBSET Repos, forced : SUBSET Repos]
        BY <2>2, AddedTyped, NotesTyped DEF ReposInv
  <2> QED BY <1>3, <2>1, <2>3, SharedKept
<1>5. CASE /\ call' = [call EXCEPT ![p].at = "append", ![p].repo = RepoOf(p), ![p].deps = deps]
           /\ UNCHANGED notes
  <2>1. PICK c : c = [call[p] EXCEPT !.at = "append", !.repo = r, !.deps = deps]
        OBVIOUS
  <2>2. /\ c \in Calls /\ c.at = "append" /\ c.repo = r /\ c.kind = "add" /\ c.url = call[p].url
        /\ c.cfg = call[p].cfg
    <3>1. deps \subseteq Repos
          BY DEF ReposInv, Shapes
    <3> QED BY <1>1, <2>1, <3>1 DEF Calls, Points
  <2>3. Sound(c, upstream)
        BY <1>1, <2>2 DEF Sound, Verifying
  <2>4. call' = [call EXCEPT ![p] = c]
        BY <1>2, <1>5, <2>1
  <2>5. CallsSound'
        BY <1>3, <2>3, <2>4, OthersSound DEF ReposInv
  <2> QED BY <1>3, <1>5, <2>5, SharedKept, NotesTyped DEF ReposInv
<1> QED BY <1>4, <1>5 DEF ReadDeclarations

LEMMA AppendDeclarationSound ==
    ASSUME ReposAssumption, ReposInv, NEW p \in Callers, AppendDeclaration(p)
    PROVE  ReposInv'
<1>1. /\ Sound(call[p], upstream) /\ call[p] \in Calls
      /\ call[p].kind = "add" /\ call[p].at = "append"
      BY AtPoint DEF AppendDeclaration, ReposInv
<1>2. call[p].repo \in Repos /\ call[p].deps \subseteq Repos
      BY <1>1 DEF Sound, Calls
<1>3. /\ UNCHANGED <<upstream, config, cache, head, refs, notes>> /\ Goto(p, "commit")
      /\ deps' = call[p].deps \cup {call[p].repo}
      BY DEF AppendDeclaration
<1>4. Sound([call[p] EXCEPT !.at = "commit"], upstream)
      BY <1>1, <1>2, MovedSound DEF Points, Verifying
<1>5. CallsSound'
      BY <1>3, <1>4, GoesSound DEF ReposInv, Points
<1>6. head' \subseteq Repos
      BY <1>3 DEF ReposInv, Shapes
<1> QED BY <1>2, <1>3, <1>5, <1>6, DeclaredKept, NotesTyped DEF ReposInv

LEMMA CommitDeclarationsSound ==
    ASSUME ReposAssumption, ReposInv, NEW p \in Callers, CommitDeclarations(p)
    PROVE  ReposInv'
<1>1. /\ Sound(call[p], upstream) /\ call[p] \in Calls
      /\ call[p].kind \in {"add", "remove"} /\ call[p].at = "commit"
      BY AtPoint DEF CommitDeclarations, ReposInv
<1>2. call[p].repo \in Repos
      BY <1>1 DEF Sound
<1>3. UNCHANGED <<upstream, config, cache, deps, refs>> /\ Return(p) /\ head' \in {head, deps}
      BY DEF CommitDeclarations
<1>4. deps' \subseteq Repos /\ head' \subseteq Repos
      BY <1>3 DEF ReposInv, Shapes
<1>5. CallsSound'
      BY <1>3, ReturnsSound DEF ReposInv
<1>6. notes' = notes \/ notes' = [notes EXCEPT !.added = @ \cup {call[p].repo}]
      BY DEF CommitDeclarations
<1>7. notes' \in [calls : Nat, kills : Nat, added : SUBSET Repos, forced : SUBSET Repos]
      BY <1>2, <1>6, AddedTyped, NotesTyped DEF ReposInv
<1> QED BY <1>3, <1>4, <1>5, <1>7, DeclaredKept

LEMMA ScanForStrandedSound ==
    ASSUME ReposAssumption, ReposInv, NEW p \in Callers, ScanForStranded(p)
    PROVE  ReposInv'
<1>1. /\ Sound(call[p], upstream) /\ call[p] \in Calls
      /\ call[p].kind = "remove" /\ call[p].at = "scan"
      BY AtPoint DEF ScanForStranded, ReposInv
<1>2. UNCHANGED Shared /\ notes' = notes /\ upstream' = upstream
      BY DEF ScanForStranded, Shared
<1>3. Sound([call[p] EXCEPT !.at = "drop"], upstream)
      BY <1>1, MovedSound DEF Points
<1>4. Return(p) \/ Goto(p, "drop")
      BY DEF ScanForStranded
<1>5. CallsSound'
      BY <1>2, <1>3, <1>4, ReturnsSound, GoesSound DEF ReposInv, Points
<1> QED BY <1>2, <1>5, SharedKept, NotesTyped DEF ReposInv

LEMMA DropDeclarationSound ==
    ASSUME ReposAssumption, ReposInv, NEW p \in Callers, DropDeclaration(p)
    PROVE  ReposInv'
<1>1. /\ Sound(call[p], upstream) /\ call[p] \in Calls
      /\ call[p].kind = "remove" /\ call[p].at = "drop"
      BY AtPoint DEF DropDeclaration, ReposInv
<1>2. call[p].repo \in Repos /\ call[p].deps \subseteq Repos
      BY <1>1 DEF Sound, Calls
<1>3. /\ UNCHANGED <<upstream, config, cache, head, refs>> /\ Goto(p, "commit")
      /\ deps' = call[p].deps \ {call[p].repo}
      BY DEF DropDeclaration
<1>4. Sound([call[p] EXCEPT !.at = "commit"], upstream)
      BY <1>1, <1>2, MovedSound DEF Points
<1>5. CallsSound'
      BY <1>3, <1>4, GoesSound DEF ReposInv, Points
<1>6. head' \subseteq Repos
      BY <1>3 DEF ReposInv, Shapes
<1>7. notes' \in [calls : Nat, kills : Nat, added : SUBSET Repos, forced : SUBSET Repos]
  <2>1. PICK f : f = IF call[p].force THEN notes.forced \cup {call[p].repo} ELSE notes.forced
        OBVIOUS
  <2>2. notes.forced \subseteq Repos /\ notes.added \subseteq Repos
        BY DEF ReposInv, Shapes
  <2>3. f \subseteq Repos
        BY <1>2, <2>1, <2>2
  <2>4. notes' = [notes EXCEPT !.added = @ \ {call[p].repo}, !.forced = f]
        BY <2>1 DEF DropDeclaration
  <2>5. notes.added \ {call[p].repo} \subseteq Repos
        BY <2>2
  <2> QED BY <2>3, <2>4, <2>5, NotesTyped DEF ReposInv
<1> QED BY <1>2, <1>3, <1>5, <1>6, <1>7, DeclaredKept

\* After a freshen, a capture resolves and the others return.
LEMMA AfterFreshenSound ==
    ASSUME CallsSound, NEW p \in Callers, Sound(call[p], upstream), call[p].kind \in Refreshing,
           AfterFreshen(p), upstream' = upstream
    PROVE  CallsSound'
<1>1. CASE call[p].kind = "capture"
  <2>1. Goto(p, "resolve")
        BY <1>1 DEF AfterFreshen
  <2>2. Sound([call[p] EXCEPT !.at = "resolve"], upstream)
        BY <1>1, MovedSound DEF Points
  <2> QED BY <2>1, <2>2, GoesSound DEF Points
<1>2. CASE call[p].kind # "capture"
  <2>1. Return(p)
        BY <1>2 DEF AfterFreshen
  <2> QED BY <2>1, ReturnsSound
<1> QED BY <1>1, <1>2

LEMMA SkipFreshSound ==
    ASSUME ReposAssumption, ReposInv, NEW p \in Callers, SkipFresh(p)
    PROVE  ReposInv'
<1>1. Sound(call[p], upstream) /\ call[p].kind \in Refreshing
      BY AtPoint DEF SkipFresh, ReposInv
<1>2. UNCHANGED Shared /\ notes' = notes /\ upstream' = upstream
      BY DEF SkipFresh, Shared
<1>3. Return(p) \/ AfterFreshen(p)
      BY DEF SkipFresh
<1>4. CallsSound'
      BY <1>1, <1>2, <1>3, ReturnsSound, AfterFreshenSound DEF ReposInv
<1> QED BY <1>2, <1>4, SharedKept, NotesTyped DEF ReposInv

\* A connection of a call's configuration.
LEMMA ConnectedIs ==
    ASSUME ReposAssumption, NEW cfg \in Configs, Real(cfg), NEW r \in Connected(cfg)
    PROVE  r \in Repos /\ cfg.url[r] \in Urls /\ Serves[cfg.url[r]] = r
<1>1. r \in Repos /\ cfg.url[r] # None
      BY DEF Connected
<1>2. cfg.url \in [Repos -> Urls \cup {None}]
      BY DEF Configs
<1> QED BY <1>1, <1>2 DEF Real, IsOf

LEMMA CloneInPlaceSound ==
    ASSUME ReposAssumption, ReposInv, NEW p \in Callers, CloneInPlace(p)
    PROVE  ReposInv'
<1>1. /\ Sound(call[p], upstream) /\ call[p] \in Calls /\ Real(call[p].cfg)
      /\ call[p].kind \in Refreshing
      BY AtPoint DEF CloneInPlace, ReposInv
<1>2. call[p].repo \in Connected(call[p].cfg) /\ call[p].cfg \in Configs
      BY <1>1 DEF CloneInPlace, Calls
<1>3. /\ call[p].repo \in Repos /\ call[p].cfg.url[call[p].repo] \in Urls
      /\ Serves[call[p].cfg.url[call[p].repo]] = call[p].repo
      BY <1>1, <1>2, ConnectedIs
<1>4. PICK k : k = [NoCache EXCEPT !.state = "partial", !.from = call[p].cfg.url[call[p].repo]]
      OBVIOUS
<1>5. upstream[call[p].repo] \in 1 .. MaxPushes + 1 /\ MaxPushes \in Nat
      BY <1>3 DEF ReposInv, Shapes, ReposAssumption
<1>6. k \in Caches /\ Serves[k.from] = call[p].repo /\ k.has <= upstream[call[p].repo]
  <2>1. k = [state |-> "partial", from |-> call[p].cfg.url[call[p].repo], has |-> 0, tried |-> FALSE]
        BY <1>4 DEF NoCache
  <2>2. 0 \in 0 .. MaxPushes + 1 /\ 0 <= upstream[call[p].repo]
        BY <1>5
  <2> QED BY <1>3, <2>1, <2>2 DEF Caches
<1>7. /\ cache' = [cache EXCEPT ![call[p].repo] = k] /\ Goto(p, "cloning")
      /\ UNCHANGED <<upstream, config, deps, head, refs, notes>>
      BY <1>4 DEF CloneInPlace
<1>8. Sound([call[p] EXCEPT !.at = "cloning"], upstream)
      BY <1>1, <1>2, MovedSound DEF Points, Verifying
<1>9. CallsSound'
      BY <1>7, <1>8, GoesSound DEF ReposInv, Points
<1> QED BY <1>3, <1>6, <1>7, <1>9, CacheKept, NotesTyped DEF ReposInv

LEMMA FinishCloneSound ==
    ASSUME ReposAssumption, ReposInv, NEW p \in Callers, FinishClone(p)
    PROVE  ReposInv'
<1>1. /\ Sound(call[p], upstream) /\ call[p] \in Calls /\ Real(call[p].cfg)
      /\ call[p].kind \in Refreshing /\ call[p].at = "cloning"
      BY AtPoint DEF FinishClone, ReposInv
<1>2. PICK r : r = call[p].repo
      OBVIOUS
<1>3. r \in Connected(call[p].cfg) /\ call[p].cfg \in Configs
      BY <1>1, <1>2 DEF Sound, Calls
<1>4. r \in Repos /\ call[p].cfg.url[r] \in Urls /\ Serves[call[p].cfg.url[r]] = r
      BY <1>1, <1>3, ConnectedIs
<1>5. UNCHANGED <<upstream, config, deps, head, refs, notes>>
      BY DEF FinishClone
<1>6. upstream[r] \in 1 .. MaxPushes + 1 /\ MaxPushes \in Nat /\ cache[r] \in Caches
      BY <1>4 DEF ReposInv, Shapes, ReposAssumption
<1>7. CASE cache' = [cache EXCEPT ![r] = Whole(call[p].cfg.url[r])] /\ AfterFreshen(p)
  <2>1. PICK k : k = Whole(call[p].cfg.url[r])
        OBVIOUS
  <2>2. k \in Caches /\ Serves[k.from] = r /\ k.has <= upstream[r]
        BY <1>4, <1>6, <2>1 DEF Whole, Caches
  <2>3. CallsSound'
        BY <1>1, <1>5, <1>7, AfterFreshenSound DEF ReposInv
  <2> QED BY <1>4, <1>5, <1>7, <2>1, <2>2, <2>3, CacheKept, NotesTyped DEF ReposInv
<1>8. CASE cache' = [cache EXCEPT ![r] = IF @.state = "partial" THEN NoCache ELSE @] /\ Return(p)
  <2>1. PICK k : k = IF cache[r].state = "partial" THEN NoCache ELSE cache[r]
        OBVIOUS
  <2>2. k \in Caches
        BY <1>6, <2>1, NoCacheIs
  <2>3. k.state # "none" => Serves[k.from] = r /\ k.has <= upstream[r]
        BY <1>4, <2>1, NoCacheIs DEF ReposInv, CachesReal, IsCloned
  <2>4. CallsSound'
        BY <1>5, <1>8, ReturnsSound DEF ReposInv
  <2> QED BY <1>4, <1>5, <1>8, <2>1, <2>2, <2>3, <2>4, CacheKept, NotesTyped DEF ReposInv
<1> QED BY <1>2, <1>7, <1>8 DEF FinishClone

LEMMA PullSound ==
    ASSUME ReposAssumption, ReposInv, NEW p \in Callers, Pull(p)
    PROVE  ReposInv'
<1>1. /\ Sound(call[p], upstream) /\ call[p] \in Calls /\ call[p].kind \in Refreshing
      BY AtPoint DEF Pull, ReposInv
<1>2. PICK r : r = call[p].repo
      OBVIOUS
<1>3. r \in Repos
      BY <1>2 DEF Pull, Connected
<1>4. UNCHANGED <<upstream, config, deps, head, refs, notes>>
      BY DEF Pull
<1>5. /\ upstream[r] \in 1 .. MaxPushes + 1 /\ MaxPushes \in Nat /\ cache[r] \in Caches
      /\ cache[r].state # "none" => Serves[cache[r].from] = r /\ cache[r].has <= upstream[r]
      BY <1>3 DEF ReposInv, Shapes, ReposAssumption, CachesReal, IsCloned
<1>6. CASE /\ cache[r].state = "whole" /\ AfterFreshen(p)
           /\ cache' = [cache EXCEPT ![r].tried = TRUE, ![r].has = upstream[r]]
  <2>1. PICK k : k = [cache[r] EXCEPT !.tried = TRUE, !.has = upstream[r]]
        OBVIOUS
  <2>2. k \in Caches /\ Serves[k.from] = r /\ k.has <= upstream[r]
    <3>1. upstream[r] \in 0 .. MaxPushes + 1 /\ upstream[r] <= upstream[r]
          BY <1>5
    <3>2. k \in Caches /\ k.from = cache[r].from /\ k.has = upstream[r]
          BY <1>5, <2>1, <3>1 DEF Caches
    <3> QED BY <1>5, <1>6, <3>1, <3>2
  <2>3. CallsSound'
        BY <1>1, <1>4, <1>6, AfterFreshenSound DEF ReposInv
  <2>4. cache' = [cache EXCEPT ![r] = k]
        BY <1>6, <2>1
  <2> QED BY <1>3, <1>4, <2>2, <2>3, <2>4, CacheKept, NotesTyped DEF ReposInv
<1>7. CASE cache' = [cache EXCEPT ![r].tried = IsCloned(r)] /\ Return(p)
  <2>1. PICK k : k = [cache[r] EXCEPT !.tried = IsCloned(r)]
        OBVIOUS
  <2>2. IsCloned(r) \in BOOLEAN
        BY DEF IsCloned
  <2>3. k \in Caches /\ k.state = cache[r].state /\ k.from = cache[r].from /\ k.has = cache[r].has
        BY <1>5, <2>1, <2>2 DEF Caches
  <2>4. CallsSound'
        BY <1>4, <1>7, ReturnsSound DEF ReposInv
  <2>5. cache' = [cache EXCEPT ![r] = k]
        BY <1>7, <2>1
  <2> QED BY <1>3, <1>4, <1>5, <2>3, <2>4, <2>5, CacheKept, NotesTyped DEF ReposInv
<1> QED BY <1>2, <1>6, <1>7 DEF Pull

LEMMA ResolveSound ==
    ASSUME ReposAssumption, ReposInv, NEW p \in Callers, Resolve(p)
    PROVE  ReposInv'
<1>1. /\ Sound(call[p], upstream) /\ call[p] \in Calls
      /\ call[p].kind = "capture" /\ call[p].at = "resolve"
      BY AtPoint DEF Resolve, ReposInv
<1>2. UNCHANGED Shared /\ notes' = notes /\ upstream' = upstream
      BY DEF Resolve, Shared
<1>3. call[p].repo \in Repos /\ call[p].entry \in Nat
      BY <1>1 DEF Sound, Calls
<1>4. config \in Configs /\ Real(config)
      BY DEF ReposInv, Shapes
<1>5. PICK entry \in IF call[p].entry = 0 THEN 1 .. MaxPushes + 1 ELSE {call[p].entry} :
        \/ call' = [call EXCEPT ![p].at = "freshen", ![p].retried = TRUE, ![p].entry = entry,
                                ![p].cfg = config]
        \/ /\ call' = [call EXCEPT ![p].at = "capture", ![p].entry = entry]
           /\ call[p].backward => CrossRepoResolution(p, entry) = "resolved"
        \/ Return(p)
      BY DEF Resolve
<1>6. entry \in Nat
      BY <1>3, <1>5
<1>7. CallsSound'
  <2>1. CASE call' = [call EXCEPT ![p].at = "freshen", ![p].retried = TRUE, ![p].entry = entry,
                                  ![p].cfg = config]
    <3>1. PICK c : c = [call[p] EXCEPT !.at = "freshen", !.retried = TRUE, !.entry = entry, !.cfg = config]
          OBVIOUS
    <3>2. /\ c \in Calls /\ c.at = "freshen" /\ c.cfg = config /\ c.kind = "capture"
          /\ c.repo = call[p].repo
          BY <1>1, <1>4, <1>6, <3>1 DEF Calls, Points
    <3>3. Sound(c, upstream)
          BY <1>3, <1>4, <3>2 DEF Sound
    <3>4. call' = [call EXCEPT ![p] = c]
          BY <2>1, <3>1
    <3> QED BY <1>2, <3>3, <3>4, OthersSound DEF ReposInv
  <2>2. CASE /\ call' = [call EXCEPT ![p].at = "capture", ![p].entry = entry]
             /\ call[p].backward => CrossRepoResolution(p, entry) = "resolved"
    <3>1. PICK c : c = [call[p] EXCEPT !.at = "capture", !.entry = entry]
          OBVIOUS
    <3>2. /\ c \in Calls /\ c.at = "capture" /\ c.cfg = call[p].cfg /\ c.kind = "capture"
          /\ c.repo = call[p].repo /\ c.backward = call[p].backward /\ c.entry = entry
          BY <1>1, <1>6, <3>1 DEF Calls, Points
    <3>3. ASSUME c.backward PROVE entry <= upstream[c.repo]
      <4>1. /\ cache[call[p].repo].state = "whole"
            /\ ~ (entry > cache[call[p].repo].has)
            BY <2>2, <3>2, <3>3 DEF CrossRepoResolution, Available
      <4>2. cache[call[p].repo].has <= upstream[call[p].repo]
            BY <1>3, <4>1 DEF ReposInv, CachesReal, IsCloned
      <4>3. cache[call[p].repo] \in Caches /\ upstream[call[p].repo] \in 1 .. MaxPushes + 1
            BY <1>3 DEF ReposInv, Shapes
      <4>4. cache[call[p].repo].has \in Nat /\ upstream[call[p].repo] \in Nat
            BY <4>3 DEF Caches
      <4> QED BY <1>6, <3>2, <4>1, <4>2, <4>4
    <3>4. Sound(c, upstream)
          BY <1>1, <1>3, <3>2, <3>3 DEF Sound
    <3>5. call' = [call EXCEPT ![p] = c]
          BY <2>2, <3>1
    <3> QED BY <1>2, <3>4, <3>5, OthersSound DEF ReposInv
  <2>3. CASE Return(p)
        BY <1>2, <2>3, ReturnsSound DEF ReposInv
  <2> QED BY <1>5, <2>1, <2>2, <2>3
<1> QED BY <1>2, <1>7, SharedKept, NotesTyped DEF ReposInv

LEMMA WriteEntrySound ==
    ASSUME ReposAssumption, ReposInv, NEW p \in Callers, WriteEntry(p)
    PROVE  ReposInv'
<1>1. /\ Sound(call[p], upstream) /\ call[p] \in Calls /\ call[p].at = "capture"
      BY AtPoint DEF WriteEntry, ReposInv
<1>2. /\ UNCHANGED <<upstream, config, cache, deps, head, notes>> /\ Return(p)
      /\ refs' = refs \cup {[repo |-> call[p].repo, entry |-> call[p].entry, backward |-> call[p].backward]}
      BY DEF WriteEntry
<1>3. PICK new : new = [repo |-> call[p].repo, entry |-> call[p].entry, backward |-> call[p].backward]
      OBVIOUS
<1>4. new \in Pointers /\ (new.backward => new.entry <= upstream[new.repo])
      BY <1>1, <1>3 DEF Sound, Calls, Pointers
<1>5. refs' = refs \cup {new}
      BY <1>2, <1>3
<1>6. CallsSound'
      BY <1>2, ReturnsSound DEF ReposInv
<1>7. Shapes'
      BY <1>2, <1>4, <1>5 DEF ReposInv, Shapes
<1>8. Real(config)' /\ CachesReal'
      BY <1>2 DEF ReposInv, Real, CachesReal, IsCloned
<1>9. PointersReal'
      BY <1>2, <1>4, <1>5 DEF ReposInv, PointersReal
<1> QED BY <1>6, <1>7, <1>8, <1>9 DEF ReposInv

\* What happens to caches and repositories between the calls.
LEMMA ExpireSound ==
    ASSUME ReposAssumption, ReposInv, NEW r \in Repos, Expire(r)
    PROVE  ReposInv'
<1>1. PICK k : k = [cache[r] EXCEPT !.tried = FALSE]
      OBVIOUS
<1>2. cache[r] \in Caches
      BY DEF ReposInv, Shapes
<1>3. k \in Caches /\ k.state = cache[r].state /\ k.from = cache[r].from /\ k.has = cache[r].has
      BY <1>1, <1>2 DEF Caches
<1>4. k.state # "none" => Serves[k.from] = r /\ k.has <= upstream[r]
      BY <1>3 DEF ReposInv, CachesReal, IsCloned
<1>5. cache' = [cache EXCEPT ![r] = k] /\ UNCHANGED <<upstream, config, deps, head, refs, call, notes>>
      BY <1>1 DEF Expire
<1>6. CallsSound'
      BY <1>5 DEF ReposInv, CallsSound
<1> QED BY <1>3, <1>4, <1>5, <1>6, CacheKept, NotesTyped DEF ReposInv

LEMMA PurgeSound ==
    ASSUME ReposAssumption, ReposInv, NEW r \in Repos, Purge(r)
    PROVE  ReposInv'
<1>1. /\ cache' = [cache EXCEPT ![r] = NoCache] /\ notes' = [notes EXCEPT !.kills = @ + 1]
      /\ UNCHANGED <<upstream, config, deps, head, refs, call>>
      BY DEF Purge
<1>2. CallsSound'
      BY <1>1 DEF ReposInv, CallsSound
<1>3. notes' \in [calls : Nat, kills : Nat, added : SUBSET Repos, forced : SUBSET Repos]
      BY <1>1, NotesTyped DEF ReposInv
<1> QED BY <1>1, <1>2, <1>3, NoCacheIs, CacheKept

LEMMA PushSound ==
    ASSUME ReposAssumption, ReposInv, NEW r \in Repos, Push(r)
    PROVE  ReposInv'
<1>1. /\ upstream[r] <= MaxPushes /\ upstream' = [upstream EXCEPT ![r] = @ + 1]
      /\ UNCHANGED <<config, cache, deps, head, refs, call, notes>>
      BY DEF Push
<1>2. upstream \in [Repos -> 1 .. MaxPushes + 1] /\ MaxPushes \in Nat
      BY DEF ReposInv, Shapes, ReposAssumption
<1>3. upstream[r] + 1 \in 1 .. MaxPushes + 1
      BY <1>1, <1>2
<1>4. /\ upstream' \in [Repos -> 1 .. MaxPushes + 1]
      /\ upstream \in [Repos -> Nat] /\ upstream' \in [Repos -> Nat]
      BY <1>1, <1>2, <1>3
<1>5. ASSUME NEW q \in Repos PROVE upstream[q] <= upstream'[q]
      BY <1>1, <1>2, <1>4
<1>6. Shapes'
      BY <1>1, <1>4 DEF ReposInv, Shapes
<1>7. CachesReal'
  <2>1. ASSUME NEW q \in Repos, IsCloned(q)'
        PROVE  Serves[cache'[q].from] = q /\ cache'[q].has <= upstream'[q]
    <3>1. Serves[cache[q].from] = q /\ cache[q].has <= upstream[q] /\ cache[q] \in Caches
          BY <1>1, <2>1 DEF ReposInv, CachesReal, IsCloned, Shapes
    <3>2. cache[q].has \in Nat
          BY <3>1 DEF Caches
    <3>3. cache[q].has <= upstream'[q]
          BY <1>4, <1>5, <3>1, <3>2
    <3> QED BY <1>1, <3>1, <3>3
  <2> QED BY <2>1 DEF CachesReal
<1>8. PointersReal'
  <2>1. ASSUME NEW ref \in refs, ref.backward PROVE ref.entry <= upstream'[ref.repo]
    <3>1. ref.repo \in Repos /\ ref.entry \in Nat /\ ref.entry <= upstream[ref.repo]
          BY <2>1 DEF ReposInv, Shapes, Pointers, PointersReal
    <3> QED BY <1>4, <1>5, <3>1
  <2> QED BY <1>1, <2>1 DEF PointersReal
<1>9. CallsSound'
  <2>1. ASSUME NEW p \in Callers, call[p] # Idle PROVE Sound(call[p], upstream')
        BY <1>4, <1>5, <2>1, SoundGrows DEF ReposInv, CallsSound
  <2> QED BY <1>1, <2>1 DEF ReposInv, CallsSound
<1> QED BY <1>1, <1>6, <1>7, <1>8, <1>9 DEF ReposInv, Real

LEMMA ReposInit ==
    ASSUME ReposAssumption, Init
    PROVE  ReposInv
<1>1. /\ upstream = [r \in Repos |-> 1] /\ config = [url |-> [r \in Repos |-> None], other |-> 0]
      /\ cache = [r \in Repos |-> NoCache] /\ deps = {} /\ head = {} /\ refs = {}
      /\ call = [p \in Callers |-> Idle]
      /\ notes = [calls |-> 0, kills |-> 0, added |-> {}, forced |-> {}]
      BY DEF Init
<1>2. 1 \in 1 .. MaxPushes + 1
      BY DEF ReposAssumption
<1>3. Shapes
      BY <1>1, <1>2, NoCacheIs DEF Shapes, Configs
<1>4. Real(config) /\ PointersReal
      BY <1>1 DEF Real, PointersReal
<1>5. CachesReal
      BY <1>1, NoCacheIs DEF CachesReal, IsCloned
<1>6. CallsSound
      BY <1>1 DEF CallsSound
<1> QED BY <1>3, <1>4, <1>5, <1>6 DEF ReposInv

LEMMA ReposStep ==
    ASSUME ReposAssumption, ReposInv, [Next]_vars
    PROVE  ReposInv'
<1>1. ASSUME NEW p \in Callers, Step(p) PROVE ReposInv'
  <2>1. CASE Begin(p) \/ Kill(p) \/ CloneStaged(p) \/ ClearCache(p) \/ MoveIntoCache(p)
        BY <2>1, BeginSound, KillSound, CloneStagedSound, ClearCacheSound, MoveIntoCacheSound
  <2>2. CASE ReadConfig(p) \/ WriteConfig(p) \/ ReadDeclarations(p) \/ AppendDeclaration(p)
             \/ CommitDeclarations(p)
        BY <2>2, ReadConfigSound, WriteConfigSound, ReadDeclarationsSound, AppendDeclarationSound,
           CommitDeclarationsSound
  <2>3. CASE ScanForStranded(p) \/ DropDeclaration(p) \/ SkipFresh(p) \/ CloneInPlace(p)
        BY <2>3, ScanForStrandedSound, DropDeclarationSound, SkipFreshSound, CloneInPlaceSound
  <2>4. CASE FinishClone(p) \/ Pull(p) \/ Resolve(p) \/ WriteEntry(p)
        BY <2>4, FinishCloneSound, PullSound, ResolveSound, WriteEntrySound
  <2> QED BY <1>1, <2>1, <2>2, <2>3, <2>4 DEF Step
<1>2. ASSUME NEW r \in Repos, Expire(r) \/ Purge(r) \/ Push(r) PROVE ReposInv'
      BY <1>2, ExpireSound, PurgeSound, PushSound
<1>3. CASE UNCHANGED vars
  <2>1. /\ upstream' = upstream /\ config' = config /\ cache' = cache /\ deps' = deps
        /\ head' = head /\ refs' = refs /\ call' = call /\ notes' = notes
        BY <1>3 DEF vars
  <2> QED BY <2>1 DEF ReposInv, Shapes, Real, CachesReal, PointersReal, CallsSound, IsCloned
<1> QED BY <1>1, <1>2, <1>3 DEF Next

LEMMA ReposGive ==
    ASSUME ReposAssumption, ReposInv
    PROVE  TypeOK /\ ConnectionsAreReal
<1>1. TypeOK
      BY DEF ReposInv, Shapes, Configs, Caches, TypeOK
<1>2. ConnectionsAreReal
      BY DEF ReposInv, Real, IsOf, CachesReal, PointersReal, ConnectionsAreReal, Connected
<1> QED BY <1>1, <1>2

\* Every connection was verified, every cache is of the repository it is named for
\* and holds no more than that has, and what must resolve names an entry that
\* exists, whatever processes do at once (RepoAdd, EnsureCloned,
\* crossRepoResolutionFindings).
THEOREM ConnectionsStayReal ==
    ASSUME ReposAssumption
    PROVE  Spec => []ConnectionsAreReal
<1>1. Init => ReposInv
      BY ReposInit
<1>2. ReposInv /\ [Next]_vars => ReposInv'
      BY ReposStep
<1>3. ReposInv => ConnectionsAreReal
      BY ReposGive
<1> QED BY <1>1, <1>2, <1>3, PTL DEF Spec

-----------------------------------------------------------------------------
(* One process alone.                                                        *)
LEMMA OwnCall ==
    ASSUME Sole, CallsSound, NEW p \in Callers, NEW c, call' = [call EXCEPT ![p] = c]
    PROVE  \A q \in Callers : call'[q] = c
BY DEF Sole, CallsSound

LEMMA OwnReturn ==
    ASSUME Sole, CallsSound, NEW p \in Callers, Return(p), AddsHold'
    PROVE  AloneInv'
<1>1. \A q \in Callers : call'[q] = Idle
      BY OwnCall DEF Return
<1> QED BY <1>1 DEF AloneInv

LEMMA OwnGoes ==
    ASSUME Sole, CallsSound, NEW p \in Callers, NEW c, call' = [call EXCEPT ![p] = c],
           Tracks(c)', AddsHold'
    PROVE  AloneInv'
<1>1. \A q \in Callers : call'[q] = c
      BY OwnCall
<1> QED BY <1>1 DEF AloneInv, Tracks, Connected, IsCloned

LEMMA SharedAdds ==
    ASSUME AddsHold, UNCHANGED Shared, notes'.added = notes.added, notes'.forced = notes.forced
    PROVE  AddsHold'
<1>1. config' = config /\ cache' = cache /\ deps' = deps /\ refs' = refs
      BY DEF Shared
<1> QED BY <1>1 DEF AddsHold, Connected, IsCloned

\* A cache that changes is of the URL that is connected, if one is.
LEMMA CacheAdds ==
    ASSUME ReposInv, AddsHold, NEW r \in Repos, NEW k, cache' = [cache EXCEPT ![r] = k],
           r \in Connected(config) /\ k.state # "none" => k.from = config.url[r],
           UNCHANGED <<config, deps, refs>>,
           notes'.added = notes.added, notes'.forced = notes.forced
    PROVE  AddsHold'
<1>1. \A q \in Repos : cache'[q] = IF q = r THEN k ELSE cache[q]
      BY DEF ReposInv, Shapes
<1>2. Connected(config)' = Connected(config) /\ Connected(config) \subseteq Repos
      BY DEF Connected
<1>3. ASSUME NEW q \in Connected(config), IsCloned(q)' PROVE cache'[q].from = config.url[q]
      BY <1>1, <1>2, <1>3 DEF AddsHold, IsCloned
<1> QED BY <1>2, <1>3 DEF AddsHold

LEMMA OwnPoint ==
    ASSUME ReposInv, AloneInv, NEW p \in Callers, NEW ks, NEW x, x # "idle", In(p, ks, x)
    PROVE  /\ Tracks(call[p]) /\ call[p] \in Calls /\ AddsHold /\ Sound(call[p], upstream)
           /\ call[p].at = x /\ call[p].kind \in ks /\ CallsSound
<1>1. /\ Sound(call[p], upstream) /\ call[p] \in Calls /\ call[p].at = x /\ call[p].kind \in ks
      /\ call[p] # Idle
      BY AtPoint DEF ReposInv
<1> QED BY <1>1 DEF AloneInv, ReposInv

LEMMA BeginAlone ==
    ASSUME ReposAssumption, Sole, ReposInv, AloneInv, NEW p \in Callers, Begin(p)
    PROVE  AloneInv'
<1>1. PICK k \in Commands :
        call' = [call EXCEPT ![p] = [kind |-> k.kind, url |-> k.url, repo |-> k.repo,
            force |-> k.force, backward |-> k.backward, cfg |-> config, deps |-> deps,
            has |-> 0, entry |-> 0, retried |-> FALSE,
            at |-> CASE k.kind = "add" -> IF ConnectedByURL(config, k.url) = {} THEN "clone" ELSE "declare"
                     [] k.kind = "remove" -> "scan"
                     [] k.kind = "set" -> "patch"
                     [] OTHER -> "freshen"]]
      BY DEF Begin
<1>2. PICK x : x = CASE k.kind = "add" -> IF ConnectedByURL(config, k.url) = {} THEN "clone" ELSE "declare"
                     [] k.kind = "remove" -> "scan"
                     [] k.kind = "set" -> "patch"
                     [] OTHER -> "freshen"
      OBVIOUS
<1>3. /\ x \in {"clone", "declare", "scan", "patch", "freshen"}
      /\ k.kind = "add" => x \in {"clone", "declare"}
      BY <1>2
<1>4. PICK c : c = [kind |-> k.kind, url |-> k.url, repo |-> k.repo,
            force |-> k.force, backward |-> k.backward, cfg |-> config, deps |-> deps,
            has |-> 0, entry |-> 0, retried |-> FALSE, at |-> x]
      OBVIOUS
<1>5. k.kind = "add" => k.repo = None
      BY DEF ReposAssumption
<1>6. config' = config /\ deps' = deps
      BY DEF Begin, Shared
<1>7. Tracks(c)'
      BY <1>3, <1>4, <1>5, <1>6 DEF Tracks, Verifying
<1>8. call' = [call EXCEPT ![p] = c] /\ UNCHANGED Shared /\ notes' = [notes EXCEPT !.calls = @ + 1]
      BY <1>1, <1>2, <1>4 DEF Begin
<1>9. notes'.added = notes.added /\ notes'.forced = notes.forced
      BY <1>8, NotesTyped DEF ReposInv
<1>10. AddsHold'
       BY <1>8, <1>9, SharedAdds DEF AloneInv
<1> QED BY <1>7, <1>8, <1>10, OwnGoes DEF ReposInv

LEMMA KillAlone ==
    ASSUME Sole, ReposInv, AloneInv, NEW p \in Callers, Kill(p)
    PROVE  AloneInv'
<1>1. Return(p) /\ UNCHANGED Shared /\ notes' = [notes EXCEPT !.kills = @ + 1]
      BY DEF Kill
<1>2. notes'.added = notes.added /\ notes'.forced = notes.forced
      BY <1>1, NotesTyped DEF ReposInv
<1>3. AddsHold'
      BY <1>1, <1>2, SharedAdds DEF AloneInv
<1> QED BY <1>1, <1>3, OwnReturn DEF ReposInv

LEMMA CloneStagedAlone ==
    ASSUME ReposAssumption, Sole, ReposInv, AloneInv, NEW p \in Callers, CloneStaged(p)
    PROVE  AloneInv'
<1>1. /\ Tracks(call[p]) /\ call[p] \in Calls /\ AddsHold /\ CallsSound
      /\ call[p].kind = "add" /\ call[p].at = "clone"
      BY OwnPoint DEF CloneStaged
<1>2. UNCHANGED Shared /\ notes' = notes /\ config' = config
      BY DEF CloneStaged, Shared
<1>3. AddsHold'
      BY <1>1, <1>2, SharedAdds
<1>4. CASE Return(p)
      BY <1>1, <1>3, <1>4, OwnReturn
<1>5. CASE /\ Verified(p)
           /\ call' = [call EXCEPT ![p].at = "clear", ![p].repo = Serves[call[p].url],
                                   ![p].has = upstream[Serves[call[p].url]]]
  <2>1. PICK r : r = Serves[call[p].url]
        OBVIOUS
  <2>2. r \notin Connected(call[p].cfg) /\ call[p].cfg = config
        BY <1>1, <1>5, <2>1 DEF Verified, Tracks
  <2>3. PICK c : c = [call[p] EXCEPT !.at = "clear", !.repo = r, !.has = upstream[r]]
        OBVIOUS
  <2>4. c.at = "clear" /\ c.repo = r /\ c.kind = "add" /\ c.cfg = config
        BY <1>1, <2>2, <2>3 DEF Calls
  <2>5. r \notin Connected(config)'
        BY <1>2, <2>2 DEF Connected
  <2>6. Tracks(c)'
        BY <1>2, <2>4, <2>5 DEF Tracks
  <2>7. call' = [call EXCEPT ![p] = c]
        BY <1>5, <2>1, <2>3
  <2> QED BY <1>1, <1>3, <2>6, <2>7, OwnGoes
<1> QED BY <1>4, <1>5 DEF CloneStaged

\* A call that goes on with what it has.
Like(d, c, x) ==
    /\ d.at = x /\ d.kind = c.kind /\ d.url = c.url /\ d.repo = c.repo /\ d.force = c.force
    /\ d.cfg = c.cfg /\ d.deps = c.deps

LEMMA OwnMoves ==
    ASSUME Sole, CallsSound, NEW p \in Callers, call[p] \in Calls, NEW x \in Points, Goto(p, x),
           \A d : Like(d, call[p], x) => Tracks(d)', AddsHold'
    PROVE  AloneInv'
<1>1. PICK d : d = [call[p] EXCEPT !.at = x]
      OBVIOUS
<1>2. Like(d, call[p], x)
      BY <1>1, Moved DEF Like
<1>3. call' = [call EXCEPT ![p] = d]
      BY <1>1 DEF Goto
<1>4. Tracks(d)'
      BY <1>2
<1> QED BY <1>3, <1>4, OwnGoes

LEMMA ClearCacheAlone ==
    ASSUME ReposAssumption, Sole, ReposInv, AloneInv, NEW p \in Callers, ClearCache(p)
    PROVE  AloneInv'
<1>1. /\ Tracks(call[p]) /\ call[p] \in Calls /\ AddsHold /\ CallsSound /\ Sound(call[p], upstream)
      /\ call[p].kind = "add" /\ call[p].at = "clear"
      BY OwnPoint DEF ClearCache
<1>2. /\ cache' = [cache EXCEPT ![call[p].repo] = NoCache] /\ Goto(p, "move")
      /\ UNCHANGED <<upstream, config, deps, head, refs, notes>> /\ call[p].repo \in Repos
      BY <1>1 DEF ClearCache, Sound, Verifying
<1>3. call[p].cfg = config /\ call[p].repo \notin Connected(config)
      BY <1>1 DEF Tracks, Verifying
<1>4. ASSUME NEW d, Like(d, call[p], "move") PROVE Tracks(d)'
      BY <1>1, <1>2, <1>3, <1>4 DEF Like, Tracks, Connected
<1>5. AddsHold'
      BY <1>1, <1>2, <1>3, CacheAdds
<1> QED BY <1>1, <1>2, <1>4, <1>5, OwnMoves DEF Points

LEMMA MoveIntoCacheAlone ==
    ASSUME ReposAssumption, Sole, ReposInv, AloneInv, NEW p \in Callers, MoveIntoCache(p)
    PROVE  AloneInv'
<1>1. /\ Tracks(call[p]) /\ call[p] \in Calls /\ AddsHold /\ CallsSound /\ Sound(call[p], upstream)
      /\ call[p].kind = "add" /\ call[p].at = "move"
      BY OwnPoint DEF MoveIntoCache
<1>2. UNCHANGED <<upstream, config, deps, head, refs, notes>> /\ call[p].repo \in Repos
      BY <1>1 DEF MoveIntoCache, Sound, Verifying
<1>3. call[p].cfg = config /\ call[p].repo \notin Connected(config)
      BY <1>1 DEF Tracks, Verifying
<1>4. CASE IsCloned(call[p].repo)
  <2>1. Return(p) /\ UNCHANGED Shared
        BY <1>2, <1>4 DEF MoveIntoCache, Shared
  <2>2. AddsHold'
        BY <1>1, <1>2, <2>1, SharedAdds
  <2> QED BY <1>1, <2>1, <2>2, OwnReturn
<1>5. CASE ~ IsCloned(call[p].repo)
  <2>1. PICK k : k = [state |-> "whole", from |-> call[p].url, has |-> call[p].has, tried |-> TRUE]
        OBVIOUS
  <2>2. cache' = [cache EXCEPT ![call[p].repo] = k] /\ Goto(p, "patch")
        BY <1>5, <2>1 DEF MoveIntoCache
  <2>3. cache'[call[p].repo].from = call[p].url
        BY <1>2, <2>1, <2>2 DEF ReposInv, Shapes
  <2>4. ASSUME NEW d, Like(d, call[p], "patch") PROVE Tracks(d)'
        BY <1>1, <1>2, <1>3, <2>3, <2>4 DEF Like, Tracks, Connected
  <2>5. AddsHold'
        BY <1>1, <1>2, <1>3, <2>2, CacheAdds
  <2> QED BY <1>1, <2>2, <2>4, <2>5, OwnMoves DEF Points
<1> QED BY <1>4, <1>5

LEMMA ReadConfigAlone ==
    ASSUME ReposAssumption, Sole, ReposInv, AloneInv, NEW p \in Callers, ReadConfig(p)
    PROVE  AloneInv'
<1>1. /\ Tracks(call[p]) /\ call[p] \in Calls /\ AddsHold /\ CallsSound
      /\ call[p].at = "patch"
      BY OwnPoint DEF ReadConfig
<1>2. UNCHANGED Shared /\ notes' = notes /\ config' = config /\ cache' = cache
      BY DEF ReadConfig, Shared
<1>3. AddsHold'
      BY <1>1, <1>2, SharedAdds
<1>4. CASE Return(p)
      BY <1>1, <1>3, <1>4, OwnReturn
<1>5. CASE call' = [call EXCEPT ![p].at = "write", ![p].cfg = config]
  <2>1. PICK c : c = [call[p] EXCEPT !.at = "write", !.cfg = config]
        OBVIOUS
  <2>2. /\ c.at = "write" /\ c.repo = call[p].repo /\ c.kind = call[p].kind /\ c.cfg = config
        /\ c.url = call[p].url
        BY <1>1, <2>1 DEF Calls
  <2>3. /\ c.kind = "add" => c.repo \notin Connected(config)
        /\ c.kind = "add" /\ IsCloned(c.repo) => cache[c.repo].from = c.url
        BY <1>1, <2>2 DEF Tracks, Verifying
  <2>4. Tracks(c)'
        BY <1>2, <2>2, <2>3 DEF Tracks, Connected, IsCloned
  <2>5. call' = [call EXCEPT ![p] = c]
        BY <1>5, <2>1
  <2> QED BY <1>1, <1>3, <2>4, <2>5, OwnGoes
<1> QED BY <1>4, <1>5 DEF ReadConfig

LEMMA WriteConfigAlone ==
    ASSUME ReposAssumption, Sole, ReposInv, AloneInv, NEW p \in Callers, WriteConfig(p)
    PROVE  AloneInv'
<1>1. /\ Tracks(call[p]) /\ call[p] \in Calls /\ AddsHold /\ CallsSound /\ Sound(call[p], upstream)
      /\ call[p].kind \in {"add", "set"} /\ call[p].at = "write"
      BY OwnPoint DEF WriteConfig
<1>2. UNCHANGED <<upstream, cache, deps, head, refs, notes>> /\ call[p].cfg = config
      BY <1>1 DEF WriteConfig, Tracks
<1>3. config \in Configs /\ Real(config)
      BY DEF ReposInv, Shapes
<1>4. CASE call[p].kind = "add"
  <2>1. config' = [config EXCEPT !.url[call[p].repo] = call[p].url] /\ Goto(p, "declare")
        BY <1>2, <1>4 DEF WriteConfig
  <2>2. call[p].repo \in Repos /\ IsOf(call[p].url, call[p].repo) /\ call[p].url \in Urls
        BY <1>1, <1>4 DEF Sound, Verifying
  <2>3. \A q \in Repos : config'.url[q] = IF q = call[p].repo THEN call[p].url ELSE config.url[q]
        BY <1>3, <2>1, <2>2, Connects
  <2>4. call[p].url # None
        BY <2>2 DEF ReposAssumption
  <2>5. Connected(config)' = Connected(config) \cup {call[p].repo}
        BY <2>2, <2>3, <2>4 DEF Connected
  <2>6. ASSUME NEW d, Like(d, call[p], "declare") PROVE Tracks(d)'
        BY <2>2, <2>5, <2>6 DEF Like, Tracks, Verifying, ReposAssumption
  <2>7. IsCloned(call[p].repo) => cache[call[p].repo].from = call[p].url
        BY <1>1, <1>4 DEF Tracks
  <2>8. AddsHold'
    <3>1. ASSUME NEW q \in Connected(config)', IsCloned(q)' PROVE cache'[q].from = config'.url[q]
      <4>1. q \in Repos /\ IsCloned(q) /\ cache'[q] = cache[q]
            BY <1>2, <3>1 DEF Connected, IsCloned
      <4>2. CASE q = call[p].repo
            BY <2>3, <2>7, <4>1, <4>2
      <4>3. CASE q # call[p].repo
            BY <1>1, <2>3, <2>5, <3>1, <4>1, <4>3 DEF AddsHold
      <4> QED BY <4>2, <4>3
    <3> QED BY <1>1, <1>2, <2>5, <3>1 DEF AddsHold
  <2> QED BY <1>1, <2>1, <2>6, <2>8, OwnMoves DEF Points
<1>5. CASE call[p].kind # "add"
  <2>1. config' = [config EXCEPT !.other = notes.calls] /\ Return(p)
        BY <1>2, <1>5 DEF WriteConfig
  <2>2. config'.url = config.url
        BY <1>3, <2>1 DEF Configs
  <2>3. AddsHold'
        BY <1>1, <1>2, <2>2 DEF AddsHold, Connected, IsCloned
  <2> QED BY <1>1, <2>1, <2>3, OwnReturn
<1> QED BY <1>4, <1>5

\* What an add that found its repository declares is connected.
LEMMA DeclaresConnected ==
    ASSUME ReposAssumption, ReposInv, AloneInv, NEW p \in Callers, In(p, {"add"}, "declare")
    PROVE  RepoOf(p) \in Connected(config)
<1>1. /\ Tracks(call[p]) /\ Sound(call[p], upstream) /\ call[p].kind = "add" /\ call[p].at = "declare"
      BY OwnPoint
<1>2. /\ RepoOf(p) \in Repos
      /\ call[p].repo = None => RepoOf(p) \in ConnectedByURL(call[p].cfg, call[p].url)
      /\ call[p].repo # None => RepoOf(p) = call[p].repo
      BY RepoOfIs DEF ReposInv
<1>3. CASE call[p].repo = None
  <2>1. call[p].cfg = config /\ call[p].url # None
        BY <1>1, <1>3 DEF Tracks, Sound, ReposAssumption
  <2> QED BY <1>2, <1>3, <2>1 DEF ConnectedByURL, Connected
<1>4. CASE call[p].repo # None
      BY <1>1, <1>2, <1>4 DEF Tracks
<1> QED BY <1>3, <1>4

\* One more add that returned, of what is connected and declared.
LEMMA AddsOne ==
    ASSUME ReposInv, AddsHold, UNCHANGED <<config, cache, deps, refs>>,
           NEW r \in Connected(config) \cap deps,
           notes' = notes \/ notes' = [notes EXCEPT !.added = @ \cup {r}]
    PROVE  AddsHold'
<1>1. r \in Repos
      BY DEF Connected
<1>2. notes'.added \subseteq notes.added \cup {r} /\ notes'.forced = notes.forced
      BY <1>1, AddedTyped DEF ReposInv
<1> QED BY <1>2 DEF AddsHold, Connected, IsCloned

LEMMA ReadDeclarationsAlone ==
    ASSUME ReposAssumption, Sole, ReposInv, AloneInv, NEW p \in Callers, ReadDeclarations(p)
    PROVE  AloneInv'
<1>1. /\ Tracks(call[p]) /\ call[p] \in Calls /\ AddsHold /\ CallsSound
      /\ call[p].kind = "add" /\ call[p].at = "declare"
      BY OwnPoint DEF ReadDeclarations
<1>2. RepoOf(p) \in Connected(config)
      BY DeclaresConnected DEF ReadDeclarations
<1>3. UNCHANGED Shared /\ UNCHANGED <<config, cache, deps, refs>>
      BY DEF ReadDeclarations, Shared
<1>4. CASE Return(p) /\ notes' = notes
  <2>1. AddsHold'
        BY <1>1, <1>3, <1>4, SharedAdds
  <2> QED BY <1>1, <1>4, <2>1, OwnReturn
<1>5. CASE /\ Return(p) /\ RepoOf(p) \in deps
           /\ notes' = [notes EXCEPT !.added = @ \cup {RepoOf(p)}]
  <2>1. AddsHold'
        BY <1>1, <1>2, <1>3, <1>5, AddsOne
  <2> QED BY <1>1, <1>5, <2>1, OwnReturn
<1>6. CASE /\ call' = [call EXCEPT ![p].at = "append", ![p].repo = RepoOf(p), ![p].deps = deps]
           /\ notes' = notes
  <2>1. PICK c : c = [call[p] EXCEPT !.at = "append", !.repo = RepoOf(p), !.deps = deps]
        OBVIOUS
  <2>2. c.at = "append" /\ c.repo = RepoOf(p) /\ c.deps = deps
        BY <1>1, <2>1 DEF Calls
  <2>3. Tracks(c)'
        BY <1>2, <1>3, <2>2 DEF Tracks, Verifying, Connected
  <2>4. call' = [call EXCEPT ![p] = c]
        BY <1>6, <2>1
  <2>5. AddsHold'
        BY <1>1, <1>3, <1>6, SharedAdds
  <2> QED BY <1>1, <2>3, <2>4, <2>5, OwnGoes
<1> QED BY <1>4, <1>5, <1>6 DEF ReadDeclarations

LEMMA AppendDeclarationAlone ==
    ASSUME ReposAssumption, Sole, ReposInv, AloneInv, NEW p \in Callers, AppendDeclaration(p)
    PROVE  AloneInv'
<1>1. /\ Tracks(call[p]) /\ call[p] \in Calls /\ AddsHold /\ CallsSound
      /\ call[p].kind = "add" /\ call[p].at = "append"
      BY OwnPoint DEF AppendDeclaration
<1>2. call[p].deps = deps /\ call[p].repo \in Connected(config)
      BY <1>1 DEF Tracks
<1>3. /\ UNCHANGED <<upstream, config, cache, head, refs, notes>> /\ Goto(p, "commit")
      /\ deps' = deps \cup {call[p].repo}
      BY <1>2 DEF AppendDeclaration
<1>4. ASSUME NEW d, Like(d, call[p], "commit") PROVE Tracks(d)'
      BY <1>1, <1>2, <1>3, <1>4 DEF Like, Tracks, Verifying, Connected
<1>5. AddsHold'
      BY <1>1, <1>3 DEF AddsHold, Connected, IsCloned
<1> QED BY <1>1, <1>3, <1>4, <1>5, OwnMoves DEF Points

LEMMA CommitDeclarationsAlone ==
    ASSUME ReposAssumption, Sole, ReposInv, AloneInv, NEW p \in Callers, CommitDeclarations(p)
    PROVE  AloneInv'
<1>1. /\ Tracks(call[p]) /\ call[p] \in Calls /\ AddsHold /\ CallsSound
      /\ call[p].at = "commit"
      BY OwnPoint DEF CommitDeclarations
<1>2. UNCHANGED <<upstream, config, cache, deps, refs>> /\ Return(p)
      BY DEF CommitDeclarations
<1>3. CASE call[p].kind = "add"
  <2>1. call[p].repo \in Connected(config) \cap deps
        BY <1>1, <1>3 DEF Tracks
  <2>2. notes' = notes \/ notes' = [notes EXCEPT !.added = @ \cup {call[p].repo}]
        BY DEF CommitDeclarations
  <2>3. AddsHold'
        BY <1>1, <1>2, <2>1, <2>2, AddsOne
  <2> QED BY <1>1, <1>2, <2>3, OwnReturn
<1>4. CASE call[p].kind # "add"
  <2>1. notes' = notes
        BY <1>4 DEF CommitDeclarations
  <2>2. AddsHold'
        BY <1>1, <1>2, <2>1 DEF AddsHold, Connected, IsCloned
  <2> QED BY <1>1, <1>2, <2>2, OwnReturn
<1> QED BY <1>3, <1>4

LEMMA ScanForStrandedAlone ==
    ASSUME ReposAssumption, Sole, ReposInv, AloneInv, NEW p \in Callers, ScanForStranded(p)
    PROVE  AloneInv'
<1>1. /\ Tracks(call[p]) /\ call[p] \in Calls /\ AddsHold /\ CallsSound
      /\ call[p].kind = "remove" /\ call[p].at = "scan"
      BY OwnPoint DEF ScanForStranded
<1>2. UNCHANGED Shared /\ notes' = notes /\ deps' = deps /\ refs' = refs
      BY DEF ScanForStranded, Shared
<1>3. AddsHold'
      BY <1>1, <1>2, SharedAdds
<1>4. CASE Return(p)
      BY <1>1, <1>3, <1>4, OwnReturn
<1>5. CASE /\ Goto(p, "drop")
           /\ call[p].force \/ \A ref \in refs : ref.repo # call[p].repo
  <2>1. call[p].deps = deps
        BY <1>1 DEF Tracks
  <2>2. ASSUME NEW d, Like(d, call[p], "drop") PROVE Tracks(d)'
        BY <1>1, <1>2, <1>5, <2>1, <2>2 DEF Like, Tracks, Verifying
  <2> QED BY <1>1, <1>3, <1>5, <2>2, OwnMoves DEF Points
<1> QED BY <1>4, <1>5 DEF ScanForStranded

LEMMA DropDeclarationAlone ==
    ASSUME ReposAssumption, Sole, ReposInv, AloneInv, NEW p \in Callers, DropDeclaration(p)
    PROVE  AloneInv'
<1>1. /\ Tracks(call[p]) /\ call[p] \in Calls /\ AddsHold /\ CallsSound
      /\ call[p].kind = "remove" /\ call[p].at = "drop"
      BY OwnPoint DEF DropDeclaration
<1>2. /\ call[p].deps = deps
      /\ call[p].force \/ \A ref \in refs : ref.repo # call[p].repo
      BY <1>1 DEF Tracks
<1>3. /\ UNCHANGED <<upstream, config, cache, head, refs>> /\ Goto(p, "commit")
      /\ deps' = deps \ {call[p].repo}
      BY <1>2 DEF DropDeclaration
<1>4. ASSUME NEW d, Like(d, call[p], "commit") PROVE Tracks(d)'
      BY <1>1, <1>4 DEF Like, Tracks, Verifying
<1>5. /\ notes'.added = notes.added \ {call[p].repo}
      /\ notes'.forced = IF call[p].force THEN notes.forced \cup {call[p].repo} ELSE notes.forced
  <2>1. PICK f : f = IF call[p].force THEN notes.forced \cup {call[p].repo} ELSE notes.forced
        OBVIOUS
  <2>2. notes' = [notes EXCEPT !.added = @ \ {call[p].repo}, !.forced = f]
        BY <2>1 DEF DropDeclaration
  <2> QED BY <2>1, <2>2, NotesTyped DEF ReposInv
<1>6. AddsHold'
  <2>1. notes'.added \subseteq Connected(config)' \cap deps'
        BY <1>1, <1>3, <1>5 DEF AddsHold, Connected
  <2>2. \A ref \in refs' : ref.repo \in deps' \cup notes'.forced
        BY <1>1, <1>2, <1>3, <1>5 DEF AddsHold
  <2> QED BY <1>1, <1>3, <2>1, <2>2 DEF AddsHold, Connected, IsCloned
<1> QED BY <1>1, <1>3, <1>4, <1>6, OwnMoves DEF Points

LEMMA AfterFreshenAlone ==
    ASSUME Sole, CallsSound, NEW p \in Callers, call[p] \in Calls, call[p].kind \in Refreshing,
           AfterFreshen(p), AddsHold'
    PROVE  AloneInv'
<1>1. CASE Goto(p, "resolve")
  <2>1. ASSUME NEW d, Like(d, call[p], "resolve") PROVE Tracks(d)'
        BY <2>1 DEF Like, Tracks, Verifying
  <2> QED BY <1>1, <2>1, OwnMoves DEF Points
<1>2. CASE Return(p)
      BY <1>2, OwnReturn
<1> QED BY <1>1, <1>2 DEF AfterFreshen

LEMMA SkipFreshAlone ==
    ASSUME ReposAssumption, Sole, ReposInv, AloneInv, NEW p \in Callers, SkipFresh(p)
    PROVE  AloneInv'
<1>1. call[p] \in Calls /\ AddsHold /\ CallsSound /\ call[p].kind \in Refreshing
      BY OwnPoint DEF SkipFresh
<1>2. UNCHANGED Shared /\ notes' = notes
      BY DEF SkipFresh
<1>3. AddsHold'
      BY <1>1, <1>2, SharedAdds
<1>4. Return(p) \/ AfterFreshen(p)
      BY DEF SkipFresh
<1> QED BY <1>1, <1>3, <1>4, OwnReturn, AfterFreshenAlone

LEMMA CloneInPlaceAlone ==
    ASSUME ReposAssumption, Sole, ReposInv, AloneInv, NEW p \in Callers, CloneInPlace(p)
    PROVE  AloneInv'
<1>1. /\ Tracks(call[p]) /\ call[p] \in Calls /\ AddsHold /\ CallsSound
      /\ call[p].kind \in Refreshing /\ call[p].at = "freshen"
      BY OwnPoint DEF CloneInPlace
<1>2. call[p].cfg = config /\ call[p].repo \in Repos
      BY <1>1 DEF Tracks, CloneInPlace, Connected
<1>3. PICK k : k = [NoCache EXCEPT !.state = "partial", !.from = call[p].cfg.url[call[p].repo]]
      OBVIOUS
<1>4. k.from = config.url[call[p].repo]
      BY <1>2, <1>3 DEF NoCache
<1>5. /\ cache' = [cache EXCEPT ![call[p].repo] = k] /\ Goto(p, "cloning")
      /\ UNCHANGED <<upstream, config, deps, head, refs, notes>>
      BY <1>3 DEF CloneInPlace
<1>6. ASSUME NEW d, Like(d, call[p], "cloning") PROVE Tracks(d)'
      BY <1>1, <1>2, <1>5, <1>6 DEF Like, Tracks, Verifying, Refreshing
<1>7. AddsHold'
      BY <1>1, <1>2, <1>4, <1>5, CacheAdds
<1> QED BY <1>1, <1>5, <1>6, <1>7, OwnMoves DEF Points

LEMMA FinishCloneAlone ==
    ASSUME ReposAssumption, Sole, ReposInv, AloneInv, NEW p \in Callers, FinishClone(p)
    PROVE  AloneInv'
<1>1. /\ Tracks(call[p]) /\ call[p] \in Calls /\ AddsHold /\ CallsSound /\ Sound(call[p], upstream)
      /\ call[p].kind \in Refreshing /\ call[p].at = "cloning"
      BY OwnPoint DEF FinishClone
<1>2. PICK r : r = call[p].repo
      OBVIOUS
<1>3. call[p].cfg = config /\ r \in Repos /\ UNCHANGED <<upstream, config, deps, head, refs, notes>>
      BY <1>1, <1>2 DEF Tracks, FinishClone, Sound, Connected
<1>4. CASE cache' = [cache EXCEPT ![r] = Whole(call[p].cfg.url[r])] /\ AfterFreshen(p)
  <2>1. PICK k : k = Whole(call[p].cfg.url[r])
        OBVIOUS
  <2>2. k.from = config.url[r]
        BY <1>3, <2>1 DEF Whole
  <2>3. AddsHold'
        BY <1>1, <1>3, <1>4, <2>1, <2>2, CacheAdds
  <2> QED BY <1>1, <1>4, <2>3, AfterFreshenAlone
<1>5. CASE cache' = [cache EXCEPT ![r] = IF @.state = "partial" THEN NoCache ELSE @] /\ Return(p)
  <2>1. PICK k : k = IF cache[r].state = "partial" THEN NoCache ELSE cache[r]
        OBVIOUS
  <2>2. r \in Connected(config) /\ k.state # "none" => k.from = config.url[r]
        BY <1>1, <1>3, <2>1, NoCacheIs DEF AddsHold, IsCloned
  <2>3. AddsHold'
        BY <1>1, <1>3, <1>5, <2>1, <2>2, CacheAdds
  <2> QED BY <1>1, <1>5, <2>3, OwnReturn
<1> QED BY <1>2, <1>4, <1>5 DEF FinishClone

LEMMA PullAlone ==
    ASSUME ReposAssumption, Sole, ReposInv, AloneInv, NEW p \in Callers, Pull(p)
    PROVE  AloneInv'
<1>1. call[p] \in Calls /\ AddsHold /\ CallsSound /\ call[p].kind \in Refreshing
      BY OwnPoint DEF Pull
<1>2. PICK r : r = call[p].repo
      OBVIOUS
<1>3. r \in Repos /\ UNCHANGED <<upstream, config, deps, head, refs, notes>>
      BY <1>2 DEF Pull, Connected
<1>4. cache[r] \in Caches
      BY <1>3 DEF ReposInv, Shapes
<1>5. r \in Connected(config) /\ cache[r].state # "none" => cache[r].from = config.url[r]
      BY <1>1 DEF AddsHold, IsCloned
<1>6. CASE /\ AfterFreshen(p)
           /\ cache' = [cache EXCEPT ![r].tried = TRUE, ![r].has = upstream[r]]
  <2>1. PICK k : k = [cache[r] EXCEPT !.tried = TRUE, !.has = upstream[r]]
        OBVIOUS
  <2>2. k.from = cache[r].from /\ k.state = cache[r].state /\ cache' = [cache EXCEPT ![r] = k]
        BY <1>4, <1>6, <2>1 DEF Caches
  <2>3. AddsHold'
        BY <1>1, <1>3, <1>5, <2>2, CacheAdds
  <2> QED BY <1>1, <1>6, <2>3, AfterFreshenAlone
<1>7. CASE cache' = [cache EXCEPT ![r].tried = IsCloned(r)] /\ Return(p)
  <2>1. PICK k : k = [cache[r] EXCEPT !.tried = IsCloned(r)]
        OBVIOUS
  <2>2. k.from = cache[r].from /\ k.state = cache[r].state /\ cache' = [cache EXCEPT ![r] = k]
        BY <1>4, <1>7, <2>1 DEF Caches
  <2>3. AddsHold'
        BY <1>1, <1>3, <1>5, <2>2, CacheAdds
  <2> QED BY <1>1, <1>7, <2>3, OwnReturn
<1> QED BY <1>2, <1>6, <1>7 DEF Pull

LEMMA ResolveAlone ==
    ASSUME ReposAssumption, Sole, ReposInv, AloneInv, NEW p \in Callers, Resolve(p)
    PROVE  AloneInv'
<1>1. /\ call[p] \in Calls /\ AddsHold /\ CallsSound /\ call[p].kind = "capture"
      BY OwnPoint DEF Resolve
<1>2. UNCHANGED Shared /\ notes' = notes /\ config' = config /\ deps' = deps
      BY DEF Resolve, Shared
<1>3. AddsHold'
      BY <1>1, <1>2, SharedAdds
<1>4. PICK entry :
        \/ call' = [call EXCEPT ![p].at = "freshen", ![p].retried = TRUE, ![p].entry = entry,
                                ![p].cfg = config]
        \/ call[p].repo \in deps /\ call' = [call EXCEPT ![p].at = "capture", ![p].entry = entry]
        \/ Return(p)
      BY DEF Resolve
<1>5. CASE call' = [call EXCEPT ![p].at = "freshen", ![p].retried = TRUE, ![p].entry = entry,
                                ![p].cfg = config]
  <2>1. PICK c : c = [call[p] EXCEPT !.at = "freshen", !.retried = TRUE, !.entry = entry, !.cfg = config]
        OBVIOUS
  <2>2. c.at = "freshen" /\ c.cfg = config /\ c.kind = "capture" /\ call' = [call EXCEPT ![p] = c]
        BY <1>1, <1>5, <2>1 DEF Calls
  <2>3. Tracks(c)'
        BY <1>2, <2>2 DEF Tracks, Verifying
  <2> QED BY <1>1, <1>3, <2>2, <2>3, OwnGoes
<1>6. CASE call[p].repo \in deps /\ call' = [call EXCEPT ![p].at = "capture", ![p].entry = entry]
  <2>1. PICK c : c = [call[p] EXCEPT !.at = "capture", !.entry = entry]
        OBVIOUS
  <2>2. /\ c.at = "capture" /\ c.repo = call[p].repo /\ c.kind = "capture"
        /\ call' = [call EXCEPT ![p] = c]
        BY <1>1, <1>6, <2>1 DEF Calls
  <2>3. Tracks(c)'
        BY <1>2, <1>6, <2>2 DEF Tracks, Verifying
  <2> QED BY <1>1, <1>3, <2>2, <2>3, OwnGoes
<1>7. CASE Return(p)
      BY <1>1, <1>3, <1>7, OwnReturn
<1> QED BY <1>4, <1>5, <1>6, <1>7

LEMMA WriteEntryAlone ==
    ASSUME ReposAssumption, Sole, ReposInv, AloneInv, NEW p \in Callers, WriteEntry(p)
    PROVE  AloneInv'
<1>1. /\ Tracks(call[p]) /\ AddsHold /\ CallsSound /\ call[p].at = "capture"
      BY OwnPoint DEF WriteEntry
<1>2. call[p].repo \in deps
      BY <1>1 DEF Tracks
<1>3. PICK new : new = [repo |-> call[p].repo, entry |-> call[p].entry, backward |-> call[p].backward]
      OBVIOUS
<1>4. /\ UNCHANGED <<upstream, config, cache, deps, head, notes>> /\ Return(p)
      /\ refs' = refs \cup {new} /\ new.repo = call[p].repo
      BY <1>3 DEF WriteEntry
<1>5. AddsHold'
      BY <1>1, <1>2, <1>4 DEF AddsHold, Connected, IsCloned
<1> QED BY <1>1, <1>4, <1>5, OwnReturn

\* Between the calls, and while one is on its way.
LEMMA OthersAlone ==
    ASSUME ReposAssumption, ReposInv, AloneInv, NEW r \in Repos, Expire(r) \/ Purge(r) \/ Push(r)
    PROVE  AloneInv'
<1>1. CASE Expire(r)
  <2>1. PICK k : k = [cache[r] EXCEPT !.tried = FALSE]
        OBVIOUS
  <2>2. cache[r] \in Caches
        BY DEF ReposInv, Shapes
  <2>3. /\ k.from = cache[r].from /\ k.state = cache[r].state /\ cache' = [cache EXCEPT ![r] = k]
        /\ UNCHANGED <<config, deps, refs, call, notes>>
        BY <1>1, <2>1, <2>2 DEF Expire, Caches
  <2>4. AddsHold'
    <3>1. r \in Connected(config) /\ k.state # "none" => k.from = config.url[r]
          BY <2>3 DEF AloneInv, AddsHold, IsCloned
    <3> QED BY <2>3, <3>1, CacheAdds DEF AloneInv
  <2>5. \A q \in Repos : IsCloned(q)' = IsCloned(q) /\ cache'[q].from = cache[q].from
        BY <2>3 DEF ReposInv, Shapes, IsCloned
  <2>6. ASSUME NEW p \in Callers, call[p] # Idle PROVE Tracks(call[p])'
    <3>1. Tracks(call[p]) /\ Sound(call[p], upstream)
          BY <2>6 DEF AloneInv, ReposInv, CallsSound
    <3>2. call[p].kind = "add" /\ call[p].at \in Verifying => call[p].repo \in Repos
          BY <3>1 DEF Sound
    <3>3. Connected(config)' = Connected(config)
          BY <2>3 DEF Connected
    <3>4. ASSUME call[p].kind = "add", call[p].at \in {"patch", "write"},
                 cache'[call[p].repo].state # "none"
          PROVE  cache'[call[p].repo].from = call[p].url
      <4>1. call[p].repo \in Repos
            BY <3>2, <3>4 DEF Verifying
      <4>2. cache[call[p].repo].state # "none" /\ cache'[call[p].repo].from = cache[call[p].repo].from
            BY <2>5, <3>4, <4>1 DEF IsCloned
      <4> QED BY <3>1, <3>4, <4>2 DEF Tracks, IsCloned
    <3> QED BY <2>3, <3>1, <3>3, <3>4 DEF Tracks, IsCloned
  <2> QED BY <2>3, <2>4, <2>6 DEF AloneInv
<1>2. CASE Purge(r)
  <2>1. /\ cache' = [cache EXCEPT ![r] = NoCache] /\ notes' = [notes EXCEPT !.kills = @ + 1]
        /\ UNCHANGED <<config, deps, refs, call>> /\ \A p \in Callers : call[p] = Idle
        BY <1>2 DEF Purge
  <2>2. notes'.added = notes.added /\ notes'.forced = notes.forced
        BY <2>1, NotesTyped DEF ReposInv
  <2>3. AddsHold'
        BY <2>1, <2>2, NoCacheIs, CacheAdds DEF AloneInv
  <2> QED BY <2>1, <2>3 DEF AloneInv
<1>3. CASE Push(r)
  <2>1. UNCHANGED <<config, cache, deps, refs, call, notes>>
        BY <1>3 DEF Push
  <2> QED BY <2>1 DEF AloneInv, AddsHold, Tracks, Connected, IsCloned
<1> QED BY <1>1, <1>2, <1>3

LEMMA AloneStart ==
    ASSUME ReposAssumption, Init
    PROVE  AloneInv
BY NoCacheIs DEF Init, AloneInv, AddsHold, Connected, IsCloned

LEMMA AloneStep ==
    ASSUME ReposAssumption, Sole, ReposInv, AloneInv, [Next]_vars
    PROVE  AloneInv'
<1>1. ASSUME NEW p \in Callers, Step(p) PROVE AloneInv'
  <2>1. CASE Begin(p) \/ Kill(p) \/ CloneStaged(p) \/ ClearCache(p) \/ MoveIntoCache(p)
        BY <2>1, BeginAlone, KillAlone, CloneStagedAlone, ClearCacheAlone, MoveIntoCacheAlone
  <2>2. CASE ReadConfig(p) \/ WriteConfig(p) \/ ReadDeclarations(p) \/ AppendDeclaration(p)
             \/ CommitDeclarations(p)
        BY <2>2, ReadConfigAlone, WriteConfigAlone, ReadDeclarationsAlone, AppendDeclarationAlone,
           CommitDeclarationsAlone
  <2>3. CASE ScanForStranded(p) \/ DropDeclaration(p) \/ SkipFresh(p) \/ CloneInPlace(p)
        BY <2>3, ScanForStrandedAlone, DropDeclarationAlone, SkipFreshAlone, CloneInPlaceAlone
  <2>4. CASE FinishClone(p) \/ Pull(p) \/ Resolve(p) \/ WriteEntry(p)
        BY <2>4, FinishCloneAlone, PullAlone, ResolveAlone, WriteEntryAlone
  <2> QED BY <1>1, <2>1, <2>2, <2>3, <2>4 DEF Step
<1>2. ASSUME NEW r \in Repos, Expire(r) \/ Purge(r) \/ Push(r) PROVE AloneInv'
      BY <1>2, OthersAlone
<1>3. CASE UNCHANGED vars
      BY <1>3 DEF vars, AloneInv, AddsHold, Tracks, Connected, IsCloned
<1> QED BY <1>1, <1>2, <1>3 DEF Next

\* With calls that do not overlap, killed ones among them: what an add returned for
\* stays connected and declared until it is removed, a cache is of the URL that is
\* connected, and only a forced removal strands a reference (RepoAdd, RepoRemove).
THEOREM AddsStayHeld ==
    ASSUME ReposAssumption, Sole
    PROVE  Spec => []AddsHold
<1>1. Init => ReposInv /\ AloneInv
      BY ReposInit, AloneStart
<1>2. ReposInv /\ AloneInv /\ [Next]_vars => ReposInv' /\ AloneInv'
      BY ReposStep, AloneStep
<1>3. AloneInv => AddsHold
      BY DEF AloneInv
<1> QED BY <1>1, <1>2, <1>3, PTL DEF Spec

-----------------------------------------------------------------------------
(* What the model's calls may still send.                                    *)
LEMMA LeftIs ==
    ASSUME ModelAssumption, NEW r \in Requests \cup {NotAsking}
    PROVE  /\ Tries \in Nat \ {0} /\ Left(r) \in 0 .. 4 * Tries
           /\ r = NotAsking => Left(r) = 0
           /\ r \in Requests => r.at # "idle" /\ r.tries \in 0 .. Tries /\ r.asked \in {1, 2}
<1>1. Tries \in Nat \ {0}
      BY DEF ModelAssumption, Tries
<1>2. CASE r = NotAsking
  <2>1. r.at = "idle"
        BY <1>2 DEF NotAsking
  <2> QED BY <1>1, <1>2, <2>1 DEF Left, Requests
<1>3. CASE r \in Requests
  <2>1. r.at # "idle" /\ r.tries \in 0 .. Tries /\ r.asked \in {1, 2} /\ r # NotAsking
        BY <1>3 DEF Requests, NotAsking
  <2>2. Left(r) \in 0 .. 4 * Tries
    <3>1. /\ Tries - r.tries \in 0 .. 2 * Tries /\ 2 * Tries - r.tries \in 0 .. 2 * Tries
          /\ 2 * Tries \in 0 .. 2 * Tries
          BY <1>1, <2>1
    <3>2. PICK first, second : /\ first = (IF r.asked = 1 THEN 2 * Tries ELSE 0)
                               /\ second = (IF r.at # "sent" THEN 2 * Tries
                                            ELSE IF r.object THEN Tries - r.tries ELSE 2 * Tries - r.tries)
          OBVIOUS
    <3>3. first \in 0 .. 2 * Tries /\ second \in 0 .. 2 * Tries
          BY <1>1, <3>1, <3>2
    <3>4. Left(r) = first + second
          BY <2>1, <3>2 DEF Left
    <3> QED BY <1>1, <3>3, <3>4
  <2> QED BY <1>1, <2>1, <2>2
<1> QED BY <1>2, <1>3

\* What a call has left when it has sent nothing, or n tries of a form.
LEMMA LeftOf ==
    ASSUME ModelAssumption, NEW r \in Requests
    PROVE  /\ r.at # "sent" => Left(r) = (IF r.asked = 1 THEN 4 ELSE 2) * Tries
           /\ r.at = "sent" /\ r.object => Left(r) = (IF r.asked = 1 THEN 3 ELSE 1) * Tries - r.tries
           /\ r.at = "sent" /\ ~ r.object => Left(r) = (IF r.asked = 1 THEN 4 ELSE 2) * Tries - r.tries
<1>1. /\ Tries \in Nat /\ r.at # "idle" /\ r.tries \in Nat /\ r.asked \in {1, 2}
      BY LeftIs DEF Requests
<1>2. CASE r.asked = 1
      BY <1>1, <1>2 DEF Left
<1>3. CASE r.asked = 2
      BY <1>1, <1>3 DEF Left
<1> QED BY <1>1, <1>2, <1>3

LEMMA ReserveOf ==
    ASSUME ModelAssumption, NEW f \in [Askers -> Requests \cup {NotAsking}], NEW c \in Askers
    PROVE  /\ IsFiniteSet(ReserveIn(f)) /\ Cardinality(ReserveIn(f)) \in Nat
           /\ Cardinality(ReserveBeside(f, c)) \in Nat
           /\ Cardinality(ReserveIn(f)) = Cardinality(ReserveBeside(f, c)) + Left(f[c])
<1>1. PICK n : n = Left(f[c])
      OBVIOUS
<1>2. n \in 0 .. 4 * Tries /\ Tries \in Nat
      BY <1>1, LeftIs
<1>3. PICK own : own = {c} \X (1 .. n)
      OBVIOUS
<1>4. IsFiniteSet(own) /\ Cardinality(own) = n
  <2>1. IsFiniteSet(1 .. n) /\ Cardinality(1 .. n) = n
    <3>1. 1 \in Int /\ n \in Int
          BY <1>2
    <3>2. IsFiniteSet(1 .. n) /\ Cardinality(1 .. n) = IF 1 > n THEN 0 ELSE n - 1 + 1
          BY <3>1, FS_Interval
    <3> QED BY <1>2, <3>2
  <2>2. IsFiniteSet({c}) /\ Cardinality({c}) = 1
        BY FS_Singleton
  <2>3. IsFiniteSet(own) /\ Cardinality(own) = Cardinality({c}) * Cardinality(1 .. n)
        BY <1>3, <2>1, <2>2, FS_Product
  <2> QED BY <1>2, <2>1, <2>2, <2>3
<1>5. IsFiniteSet(ReserveIn(f))
  <2>1. IsFiniteSet(Askers \X (1 .. 4 * Tries))
    <3>1. 1 \in Int /\ 4 * Tries \in Int
          BY <1>2
    <3>2. IsFiniteSet(1 .. 4 * Tries)
          BY <3>1, FS_Interval
    <3> QED BY <3>2, FS_Product DEF ModelAssumption
  <2> QED BY <2>1, FS_Subset DEF ReserveIn
<1>6. IsFiniteSet(ReserveBeside(f, c))
      BY <1>5, FS_Subset DEF ReserveBeside
<1>7. ReserveIn(f) = ReserveBeside(f, c) \cup own
  <2>1. ASSUME NEW x \in ReserveIn(f) PROVE x \in ReserveBeside(f, c) \cup own
    <3>1. x = <<x[1], x[2]>> /\ x[1] \in Askers /\ x[2] \in 1 .. 4 * Tries /\ x[2] <= Left(f[x[1]])
          BY DEF ReserveIn
    <3>2. CASE x[1] # c
          BY <3>2 DEF ReserveBeside
    <3>3. CASE x[1] = c
      <4>1. x[2] \in 1 .. n
            BY <1>1, <1>2, <3>1, <3>3
      <4> QED BY <1>3, <3>1, <3>3, <4>1
    <3> QED BY <3>2, <3>3
  <2>2. ASSUME NEW x \in own PROVE x \in ReserveIn(f)
    <3>1. x = <<c, x[2]>> /\ x[1] = c /\ x[2] \in 1 .. n
          BY <1>3
    <3>2. x[2] \in 1 .. 4 * Tries /\ x[2] <= n
          BY <1>2, <3>1
    <3> QED BY <1>1, <3>1, <3>2 DEF ReserveIn
  <2> QED BY <2>1, <2>2 DEF ReserveBeside
<1>8. ReserveBeside(f, c) \cap own = {}
      BY <1>3 DEF ReserveBeside
<1>9. Cardinality(ReserveIn(f)) = Cardinality(ReserveBeside(f, c)) + Cardinality(own) - Cardinality(ReserveBeside(f, c) \cap own)
      BY <1>4, <1>6, <1>7, FS_Union
<1>10. /\ Cardinality(ReserveBeside(f, c) \cap own) = 0
       /\ Cardinality(ReserveBeside(f, c)) \in Nat /\ Cardinality(ReserveIn(f)) \in Nat
       BY <1>5, <1>6, <1>8, FS_EmptySet, FS_CardinalityType
<1> QED BY <1>1, <1>2, <1>4, <1>5, <1>9, <1>10

\* A step of one call takes what it sends from its own.
LEMMA ReserveStep ==
    ASSUME ModelAssumption, asking \in [Askers -> Requests \cup {NotAsking}], NEW c \in Askers,
           NEW r \in Requests \cup {NotAsking}, asking' = [asking EXCEPT ![c] = r]
    PROVE  /\ Cardinality(Reserve) \in Nat /\ Cardinality(Reserve)' \in Nat
           /\ Cardinality(Reserve)' + Left(asking[c]) = Cardinality(Reserve) + Left(r)
<1>1. PICK g : g = [asking EXCEPT ![c] = r]
      OBVIOUS
<1>2. /\ g \in [Askers -> Requests \cup {NotAsking}] /\ g[c] = r
      /\ \A d \in Askers : d # c => g[d] = asking[d]
      BY <1>1
<1>3. ReserveBeside(g, c) = ReserveBeside(asking, c)
      BY <1>2 DEF ReserveBeside, ReserveIn
<1>4. /\ Cardinality(ReserveIn(asking)) \in Nat /\ Cardinality(ReserveBeside(asking, c)) \in Nat
      /\ Cardinality(ReserveIn(asking)) = Cardinality(ReserveBeside(asking, c)) + Left(asking[c])
      BY ReserveOf
<1>5. /\ Cardinality(ReserveIn(g)) \in Nat
      /\ Cardinality(ReserveIn(g)) = Cardinality(ReserveBeside(g, c)) + Left(r)
      BY <1>2, ReserveOf
<1>6. Left(r) \in Nat /\ Left(asking[c]) \in Nat
      BY LeftIs
<1>7. Cardinality(ReserveIn(g)) + Left(asking[c]) = Cardinality(ReserveIn(asking)) + Left(r)
      BY <1>3, <1>4, <1>5, <1>6
<1>8. Reserve = ReserveIn(asking) /\ Reserve' = ReserveIn(g)
      BY <1>1 DEF Reserve, ReserveIn
<1> QED BY <1>4, <1>5, <1>7, <1>8

\* What a step of one call leaves of the bounds.
LEMMA CallStep ==
    ASSUME ModelAssumption, ModelInv, NEW c \in Askers, NEW r \in Requests \cup {NotAsking},
           asking' = [asking EXCEPT ![c] = r], r = NotAsking \/ Guarded(r),
           capable' \in BOOLEAN, refusing' \in BOOLEAN, clients' \subseteq Asked, tokens' \in 0 .. Burst,
           outcome' \in [Askers -> Outcomes],
           wire' \in Wires, ~ wire'.leaked, wire'.billed = wire'.recorded, RefusalsBounded',
           \/ /\ wire'.calls = wire.calls
              /\ wire'.sent + Left(r) <= wire.sent + Left(asking[c])
           \/ /\ wire'.calls = wire.calls + 1 /\ wire'.sent = wire.sent
              /\ Left(r) <= Left(asking[c]) + 4 * Tries
    PROVE  ModelInv'
<1>1. /\ asking' \in [Askers -> Requests \cup {NotAsking}]
      /\ \A d \in Askers : asking'[d] = NotAsking \/ Guarded(asking'[d])
      BY DEF ModelInv
<1>2. wire'.sent + Cardinality(Reserve)' <= 4 * Tries * wire'.calls
  <2>1. /\ Cardinality(Reserve) \in Nat /\ Cardinality(Reserve)' \in Nat
        /\ Cardinality(Reserve)' + Left(asking[c]) = Cardinality(Reserve) + Left(r)
        BY ReserveStep DEF ModelInv
  <2>2. Left(r) \in Nat /\ Left(asking[c]) \in Nat /\ Tries \in Nat
        BY LeftIs DEF ModelInv
  <2>3. /\ wire.sent \in Nat /\ wire.calls \in Nat /\ wire'.sent \in Nat /\ wire'.calls \in Nat
        BY DEF ModelInv, Wires
  <2>4. wire.sent + Cardinality(Reserve) <= 4 * Tries * wire.calls
        BY DEF ModelInv
  <2>5. PICK m \in Nat : m = 4 * Tries * wire.calls
        BY <2>2, <2>3
  <2>6. CASE wire'.calls = wire.calls /\ wire'.sent + Left(r) <= wire.sent + Left(asking[c])
    <3>1. wire'.sent + Cardinality(Reserve)' <= m
          BY <2>1, <2>2, <2>3, <2>4, <2>5, <2>6
    <3> QED BY <2>5, <2>6, <3>1
  <2>7. CASE /\ wire'.calls = wire.calls + 1 /\ wire'.sent = wire.sent
             /\ Left(r) <= Left(asking[c]) + 4 * Tries
    <3>1. wire'.sent + Cardinality(Reserve)' <= m + 4 * Tries
          BY <2>1, <2>2, <2>3, <2>4, <2>5, <2>7
    <3>2. 4 * Tries * (wire.calls + 1) = m + 4 * Tries
          BY <2>2, <2>3, <2>5
    <3> QED BY <2>7, <3>1, <3>2
  <2> QED BY <2>6, <2>7
<1> QED BY <1>1, <1>2 DEF ModelInv

\* The callers that are on their way with a schema.
LEMMA FormStep ==
    ASSUME ModelAssumption, asking \in [Askers -> Requests \cup {NotAsking}], NEW c \in Askers, NEW r,
           asking' = [asking EXCEPT ![c] = r]
    PROVE  /\ IsFiniteSet(InSchemaForm) /\ Cardinality(InSchemaForm) \in Nat
           /\ IsFiniteSet(InSchemaForm') /\ Cardinality(InSchemaForm') \in Nat
           /\ Cardinality(InSchemaForm') <= Cardinality(Askers) /\ Cardinality(Askers) \in Nat
           /\ InSchemaForm' = IF r.at = "sent" /\ ~ r.object THEN InSchemaForm \cup {c} ELSE InSchemaForm \ {c}
<1>1. IsFiniteSet(Askers) /\ Cardinality(Askers) \in Nat
      BY FS_CardinalityType DEF ModelAssumption
<1>2. InSchemaForm \subseteq Askers /\ InSchemaForm' \subseteq Askers
      BY DEF InSchemaForm
<1>3. /\ IsFiniteSet(InSchemaForm) /\ Cardinality(InSchemaForm) \in Nat
      BY <1>1, <1>2, FS_Subset, FS_CardinalityType
<1>4. /\ IsFiniteSet(InSchemaForm') /\ Cardinality(InSchemaForm') \in Nat
      /\ Cardinality(InSchemaForm') <= Cardinality(Askers)
      BY <1>1, <1>2, FS_Subset, FS_CardinalityType
<1>5. InSchemaForm' = IF r.at = "sent" /\ ~ r.object THEN InSchemaForm \cup {c} ELSE InSchemaForm \ {c}
  <2>1. asking'[c] = r /\ \A d \in Askers : d # c => asking'[d] = asking[d]
        OBVIOUS
  <2> QED BY <2>1 DEF InSchemaForm
<1> QED BY <1>1, <1>3, <1>4, <1>5

\* A call that takes no schema along leaves the bound of the refusals, and so does a
\* retry of one that does.
LEMMA QuietStep ==
    ASSUME ModelAssumption, ModelInv, NEW c \in Askers, NEW r, asking' = [asking EXCEPT ![c] = r],
           wire'.refused = wire.refused, refusing' = refusing,
           r.at = "sent" /\ ~ r.object => asking[c].at = "sent" /\ ~ asking[c].object
    PROVE  RefusalsBounded'
<1>1. /\ IsFiniteSet(InSchemaForm) /\ Cardinality(InSchemaForm) \in Nat
      /\ IsFiniteSet(InSchemaForm') /\ Cardinality(InSchemaForm') \in Nat /\ Cardinality(Askers) \in Nat
      /\ InSchemaForm' = IF r.at = "sent" /\ ~ r.object THEN InSchemaForm \cup {c} ELSE InSchemaForm \ {c}
      BY FormStep DEF ModelInv
<1>2. InSchemaForm' \subseteq InSchemaForm
  <2>1. r.at = "sent" /\ ~ r.object => c \in InSchemaForm
        BY DEF InSchemaForm
  <2> QED BY <1>1, <2>1
<1>3. Cardinality(InSchemaForm') <= Cardinality(InSchemaForm)
      BY <1>1, <1>2, FS_Subset
<1>4. wire.refused \in Nat
      BY DEF ModelInv, Wires
<1>5. Mode = "auto" => /\ wire.refused + Cardinality(InSchemaForm) <= Cardinality(Askers)
                       /\ ~ refusing => wire.refused = 0
      BY DEF ModelInv, RefusalsBounded
<1>6. Mode = "auto" => wire'.refused + Cardinality(InSchemaForm') <= Cardinality(Askers)
      BY <1>1, <1>3, <1>4, <1>5
<1> QED BY <1>5, <1>6 DEF RefusalsBounded

\* A request that is declined is one of those that were on their way.
LEMMA DeclinedStep ==
    ASSUME ModelAssumption, ModelInv, NEW c \in Askers, NEW r, asking' = [asking EXCEPT ![c] = r],
           asking[c].at = "sent", ~ asking[c].object, r.at # "sent" \/ r.object,
           wire'.refused = wire.refused + 1, Mode = "auto" => refusing'
    PROVE  RefusalsBounded'
<1>1. /\ IsFiniteSet(InSchemaForm) /\ Cardinality(InSchemaForm) \in Nat /\ Cardinality(Askers) \in Nat
      /\ InSchemaForm' = IF r.at = "sent" /\ ~ r.object THEN InSchemaForm \cup {c} ELSE InSchemaForm \ {c}
      BY FormStep DEF ModelInv
<1>2. InSchemaForm' = InSchemaForm \ {c} /\ c \in InSchemaForm
      BY <1>1 DEF InSchemaForm
<1>3. Cardinality(InSchemaForm') = Cardinality(InSchemaForm) - 1
      BY <1>1, <1>2, FS_RemoveElement
<1>4. wire.refused \in Nat
      BY DEF ModelInv, Wires
<1>5. Mode = "auto" => wire.refused + Cardinality(InSchemaForm) <= Cardinality(Askers)
      BY DEF ModelInv, RefusalsBounded
<1>6. Mode = "auto" => wire'.refused + Cardinality(InSchemaForm') <= Cardinality(Askers)
      BY <1>1, <1>3, <1>4, <1>5
<1> QED BY <1>6 DEF RefusalsBounded

\* A request takes a schema along only while no refusal is known.
LEMMA FirstStep ==
    ASSUME ModelAssumption, ModelInv, NEW c \in Askers, NEW r, asking' = [asking EXCEPT ![c] = r],
           wire'.refused = wire.refused, refusing' = refusing, ~ r.object /\ Mode = "auto" => ~ refusing
    PROVE  RefusalsBounded'
<1>1. /\ IsFiniteSet(InSchemaForm) /\ Cardinality(InSchemaForm) \in Nat /\ Cardinality(Askers) \in Nat
      /\ Cardinality(InSchemaForm') \in Nat /\ Cardinality(InSchemaForm') <= Cardinality(Askers)
      /\ InSchemaForm' = IF r.at = "sent" /\ ~ r.object THEN InSchemaForm \cup {c} ELSE InSchemaForm \ {c}
      BY FormStep DEF ModelInv
<1>2. Mode = "auto" => /\ wire.refused + Cardinality(InSchemaForm) <= Cardinality(Askers)
                       /\ ~ refusing => wire.refused = 0
      BY DEF ModelInv, RefusalsBounded
<1>3. wire.refused \in Nat
      BY DEF ModelInv, Wires
<1>4. CASE r.object
  <2>1. InSchemaForm' \subseteq InSchemaForm
        BY <1>1, <1>4
  <2>2. Cardinality(InSchemaForm') <= Cardinality(InSchemaForm)
        BY <1>1, <2>1, FS_Subset
  <2>3. Mode = "auto" => wire'.refused + Cardinality(InSchemaForm') <= Cardinality(Askers)
        BY <1>1, <1>2, <1>3, <2>2
  <2> QED BY <1>2, <2>3 DEF RefusalsBounded
<1>5. CASE ~ r.object
  <2>1. Mode = "auto" => wire'.refused = 0
        BY <1>2, <1>5
  <2>2. Mode = "auto" => wire'.refused + Cardinality(InSchemaForm') <= Cardinality(Askers)
        BY <1>1, <2>1
  <2> QED BY <2>1, <2>2 DEF RefusalsBounded
<1> QED BY <1>4, <1>5

\* What a caller that is in a call has.
LEMMA Under ==
    ASSUME ModelAssumption, ModelInv, NEW c \in Askers, asking[c].at # "idle"
    PROVE  /\ asking[c] \in Requests /\ Guarded(asking[c]) /\ NotAsking \in Requests \cup {NotAsking}
           /\ Left(asking[c]) \in Nat /\ Left(NotAsking) = 0 /\ NotAsking.at = "idle"
           /\ asking[c].asked \in {1, 2} /\ asking[c].tries \in 0 .. Tries /\ Tries \in Nat \ {0}
           /\ wire.sent \in Nat /\ wire \in Wires
<1>1. NotAsking.at = "idle"
      BY DEF NotAsking
<1>2. asking[c] \in Requests /\ Guarded(asking[c])
      BY <1>1 DEF ModelInv
<1>3. wire \in Wires /\ wire.sent \in Nat
      BY DEF ModelInv, Wires
<1>4. /\ Tries \in Nat \ {0} /\ Left(asking[c]) \in 0 .. 4 * Tries
      /\ asking[c].asked \in {1, 2} /\ asking[c].tries \in 0 .. Tries
      BY <1>2, LeftIs
<1>5. Left(NotAsking) = 0
      BY LeftIs
<1> QED BY <1>1, <1>2, <1>3, <1>4, <1>5

LEMMA FinishIs ==
    ASSUME ModelAssumption, ModelInv, NEW c \in Askers, asking[c].at # "idle", NEW kind \in {"answer", "error"},
           Finish(c, kind)
    PROVE  /\ asking' = [asking EXCEPT ![c] = NotAsking]
           /\ outcome' \in [Askers -> Outcomes]
<1>1. Ended(kind, asking[c].asked) \in Outcomes
      BY Under DEF Ended, Outcomes
<1>2. outcome \in [Askers -> Outcomes]
      BY DEF ModelInv
<1> QED BY <1>1, <1>2 DEF Finish

\* A call that is over without a request more.
LEMMA FinishStep ==
    ASSUME ModelAssumption, ModelInv, NEW c \in Askers, asking[c].at # "idle", NEW kind \in {"answer", "error"},
           Finish(c, kind), capable' = capable, refusing' = refusing, clients' = clients, tokens' = tokens,
           wire' \in Wires, ~ wire'.leaked, wire'.billed = wire'.recorded,
           wire'.calls = wire.calls, wire'.sent = wire.sent, wire'.refused = wire.refused
    PROVE  ModelInv'
<1>1. asking' = [asking EXCEPT ![c] = NotAsking] /\ outcome' \in [Askers -> Outcomes]
      BY FinishIs
<1>2. /\ Left(asking[c]) \in Nat /\ Left(NotAsking) = 0 /\ NotAsking.at = "idle" /\ wire.sent \in Nat
      BY Under
<1>3. RefusalsBounded'
      BY <1>1, <1>2, QuietStep
<1>4. wire'.sent + Left(NotAsking) <= wire.sent + Left(asking[c])
      BY <1>2
<1>5. /\ capable' \in BOOLEAN /\ refusing' \in BOOLEAN /\ clients' \subseteq Asked /\ tokens' \in 0 .. Burst
      BY DEF ModelInv
<1>6. NotAsking \in Requests \cup {NotAsking}
      OBVIOUS
<1> QED BY <1>1, <1>3, <1>4, <1>5, <1>6, CallStep

\* A request that goes out, and the form it has.
LEMMA SentIs ==
    ASSUME NEW c \in Askers, NEW w \in Wires, ~ w.leaked, ~ asking[c].secret
    PROVE  /\ Sent(w, c) \in Wires /\ ~ Sent(w, c).leaked /\ Sent(w, c).sent = w.sent + 1
           /\ Sent(w, c).calls = w.calls /\ Sent(w, c).refused = w.refused
           /\ Sent(w, c).billed = w.billed /\ Sent(w, c).recorded = w.recorded
<1>1. (w.leaked \/ asking[c].secret) = FALSE
      OBVIOUS
<1>2. Sent(w, c) = [w EXCEPT !.sent = w.sent + 1, !.leaked = FALSE]
      BY <1>1 DEF Sent
<1>3. PICK v : v = [w EXCEPT !.sent = w.sent + 1, !.leaked = FALSE]
      OBVIOUS
<1>4. v \in Wires /\ v.sent = w.sent + 1 /\ ~ v.leaked
  <2>1. v.sent = w.sent + 1
        BY <1>3 DEF Wires
  <2>2. v.leaked = FALSE
        BY <1>3 DEF Wires
  <2>3. v \in Wires
    <3>1. FALSE \in BOOLEAN /\ w.sent + 1 \in Nat
          BY DEF Wires
    <3>2. PICK n \in Nat : n = w.sent + 1
          BY <3>1
    <3>3. v = [[w EXCEPT !.sent = n] EXCEPT !.leaked = FALSE]
          BY <1>3, <3>2
    <3>4. [w EXCEPT !.sent = n] \in Wires
          BY <3>2 DEF Wires
    <3> QED BY <3>1, <3>3, <3>4 DEF Wires
  <2> QED BY <2>1, <2>2, <2>3
<1>5. /\ v.calls = w.calls /\ v.refused = w.refused
      /\ v.billed = w.billed /\ v.recorded = w.recorded
      BY <1>3 DEF Wires
<1>6. Sent(w, c) = v
      BY <1>2, <1>3
<1> QED BY <1>4, <1>5, <1>6

LEMMA FormIs ==
    ASSUME ModelAssumption, asking \in [Askers -> Requests \cup {NotAsking}], NEW c \in Askers,
           asking[c] \in Requests, NEW object \in BOOLEAN
    PROVE  \E r \in Requests :
              /\ InForm(c, object) = [asking EXCEPT ![c] = r]
              /\ r.at = "sent" /\ r.object = object /\ r.tries = 1 /\ r.purpose = asking[c].purpose
              /\ r.secret = asking[c].secret /\ r.asked = asking[c].asked
<1>1. PICK s : s = asking[c]
      OBVIOUS
<1>2. PICK r : r = [s EXCEPT !.at = "sent", !.object = object, !.tries = 1]
      OBVIOUS
<1>3. s \in Requests /\ 1 \in 0 .. Tries
      BY <1>1 DEF ModelAssumption, Tries
<1>4. /\ r \in Requests /\ r.at = "sent" /\ r.object = object /\ r.tries = 1 /\ r.purpose = s.purpose
      /\ r.secret = s.secret /\ r.asked = s.asked
      BY <1>2, <1>3 DEF Requests
<1>5. InForm(c, object) = [asking EXCEPT ![c] = r]
      BY <1>1, <1>2 DEF InForm
<1> QED BY <1>1, <1>4, <1>5

\* A request moves on and nothing is sent.
LEMMA AtIs ==
    ASSUME ModelAssumption, asking \in [Askers -> Requests \cup {NotAsking}], NEW c \in Askers,
           asking[c] \in Requests, asking[c].at # "sent", NEW at \in {"limit", "route"}
    PROVE  \E r \in Requests :
              /\ [asking EXCEPT ![c].at = at] = [asking EXCEPT ![c] = r]
              /\ r.at = at /\ r.tries = asking[c].tries /\ r.purpose = asking[c].purpose
              /\ r.secret = asking[c].secret /\ r.asked = asking[c].asked
              /\ Left(r) = Left(asking[c])
<1>1. PICK s : s = asking[c]
      OBVIOUS
<1>2. PICK r : r = [s EXCEPT !.at = at]
      OBVIOUS
<1>3. s \in Requests /\ s.at # "sent"
      BY <1>1
<1>4. /\ r \in Requests /\ r.at = at /\ r.tries = s.tries /\ r.purpose = s.purpose
      /\ r.secret = s.secret /\ r.asked = s.asked
      BY <1>2, <1>3 DEF Requests
<1>5. Left(r) = Left(s)
  <2>1. Left(r) = (IF r.asked = 1 THEN 4 ELSE 2) * Tries
        BY <1>4, LeftOf
  <2>2. Left(s) = (IF s.asked = 1 THEN 4 ELSE 2) * Tries
        BY <1>3, LeftOf
  <2> QED BY <1>4, <2>1, <2>2
<1>6. [asking EXCEPT ![c].at = at] = [asking EXCEPT ![c] = r]
      BY <1>1, <1>2
<1> QED BY <1>1, <1>4, <1>5, <1>6

LEMMA MoveStep ==
    ASSUME ModelAssumption, ModelInv, NEW c \in Askers, asking[c].at \in {"guard", "limit"}, ~ asking[c].secret,
           NEW at \in {"limit", "route"}, asking' = [asking EXCEPT ![c].at = at],
           capable' = capable, refusing' = refusing, clients' = clients, tokens' \in 0 .. Burst,
           outcome' = outcome, wire' = wire
    PROVE  ModelInv'
<1>1. /\ asking[c] \in Requests /\ Guarded(asking[c]) /\ Left(asking[c]) \in Nat /\ wire.sent \in Nat
      BY Under
<1>2. PICK r \in Requests :
              /\ [asking EXCEPT ![c].at = at] = [asking EXCEPT ![c] = r]
              /\ r.at = at /\ r.tries = asking[c].tries /\ r.purpose = asking[c].purpose
              /\ r.secret = asking[c].secret /\ r.asked = asking[c].asked
              /\ Left(r) = Left(asking[c])
      BY <1>1, AtIs DEF ModelInv
<1>3. asking' = [asking EXCEPT ![c] = r] /\ Guarded(r)
      BY <1>1, <1>2 DEF Guarded
<1>4. RefusalsBounded'
      BY <1>2, <1>3, QuietStep
<1>5. wire'.sent + Left(r) <= wire.sent + Left(asking[c]) /\ wire'.calls = wire.calls
      BY <1>1, <1>2
<1>6. /\ capable' \in BOOLEAN /\ refusing' \in BOOLEAN /\ clients' \subseteq Asked /\ tokens' \in 0 .. Burst
      /\ outcome' \in [Askers -> Outcomes] /\ wire' \in Wires /\ ~ wire'.leaked /\ wire'.billed = wire'.recorded
      BY DEF ModelInv
<1> QED BY <1>2, <1>3, <1>4, <1>5, <1>6, CallStep

LEMMA AskInv ==
    ASSUME ModelAssumption, ModelInv, NEW c \in Askers, Ask(c)
    PROVE  ModelInv'
<1>1. PICK p \in Asked, secret \in BOOLEAN : asking' = [asking EXCEPT ![c] = Request(p, secret, 1)]
      BY DEF Ask
<1>2. PICK r : r = Request(p, secret, 1)
      OBVIOUS
<1>3. r \in Requests /\ r.at = "guard" /\ r.asked = 1 /\ r.purpose = p
      BY <1>2 DEF Request, Requests, ModelAssumption, Tries
<1>4. Guarded(r)
      BY <1>3 DEF Guarded, Asked
<1>5. /\ wire' = [wire EXCEPT !.calls = wire.calls + 1]
      /\ UNCHANGED <<capable, refusing, clients, tokens, outcome>>
      BY DEF Ask
<1>6. wire \in Wires /\ ~ wire.leaked /\ wire.billed = wire.recorded
      BY DEF ModelInv
<1>7. /\ wire' \in Wires /\ ~ wire'.leaked /\ wire'.billed = wire'.recorded
      /\ wire'.calls = wire.calls + 1 /\ wire'.sent = wire.sent /\ wire'.refused = wire.refused
      BY <1>5, <1>6 DEF Wires
<1>8. Left(r) = 4 * Tries /\ Tries \in Nat
      BY <1>3, LeftOf, LeftIs
<1>9. Left(asking[c]) \in Nat
      BY LeftIs DEF ModelInv
<1>10. RefusalsBounded'
      BY <1>1, <1>2, <1>3, <1>5, <1>7, QuietStep
<1>11. /\ capable' \in BOOLEAN /\ refusing' \in BOOLEAN /\ clients' \subseteq Asked /\ tokens' \in 0 .. Burst
       /\ outcome' \in [Askers -> Outcomes]
      BY <1>5 DEF ModelInv
<1>12. Left(r) <= Left(asking[c]) + 4 * Tries
      BY <1>8, <1>9
<1> QED BY <1>1, <1>2, <1>3, <1>4, <1>7, <1>10, <1>11, <1>12, CallStep

LEMMA SameWire ==
    ASSUME ModelInv, wire' = wire
    PROVE  /\ wire' \in Wires /\ ~ wire'.leaked /\ wire'.billed = wire'.recorded
           /\ wire'.calls = wire.calls /\ wire'.sent = wire.sent /\ wire'.refused = wire.refused
BY DEF ModelInv

LEMMA GuardInv ==
    ASSUME ModelAssumption, ModelInv, NEW c \in Askers, Guard(c)
    PROVE  ModelInv'
<1>1. asking[c].at = "guard" /\ UNCHANGED <<capable, refusing, clients, tokens, wire>>
      BY DEF Guard
<1>2. CASE asking[c].secret
  <2>1. Finish(c, "error")
        BY <1>2 DEF Guard, Refuses
  <2> QED BY <1>1, <2>1, FinishStep, SameWire
<1>3. CASE ~ asking[c].secret
  <2>1. PICK at : at = (IF Remote THEN "limit" ELSE "route")
        OBVIOUS
  <2>2. at \in {"limit", "route"} /\ asking' = [asking EXCEPT ![c].at = at] /\ outcome' = outcome
        BY <1>3, <2>1 DEF Guard, Refuses
  <2>3. tokens' \in 0 .. Burst
        BY <1>1 DEF ModelInv
  <2> QED BY <1>1, <1>3, <2>2, <2>3, MoveStep
<1> QED BY <1>2, <1>3

LEMMA WaitInv ==
    ASSUME ModelAssumption, ModelInv, NEW c \in Askers, Wait(c) \/ WaitTooLong(c)
    PROVE  ModelInv'
<1>1. CASE Wait(c)
  <2>1. /\ asking[c].at = "limit" /\ tokens > 0 /\ tokens' = tokens - 1
        /\ asking' = [asking EXCEPT ![c].at = "route"]
        /\ UNCHANGED <<capable, refusing, clients, outcome, wire>>
        BY <1>1 DEF Wait
  <2>2. ~ asking[c].secret
        BY <2>1, Under DEF Guarded
  <2>3. tokens' \in 0 .. Burst
        BY <2>1 DEF ModelInv, ModelAssumption
  <2> QED BY <2>1, <2>2, <2>3, MoveStep
<1>2. CASE WaitTooLong(c)
  <2>1. /\ asking[c].at = "limit" /\ Finish(c, "error")
        /\ UNCHANGED <<capable, refusing, clients, tokens, wire>>
        BY <1>2 DEF WaitTooLong
  <2> QED BY <2>1, FinishStep, SameWire
<1> QED BY <1>1, <1>2

LEMMA RunInv ==
    ASSUME ModelAssumption, ModelInv, NEW c \in Askers, Run(c) \/ NoClient(c)
    PROVE  ModelInv'
<1>1. CASE Run(c)
  <2>1. /\ asking[c].at = "route" /\ clients' = clients \cup {ExtractParent(asking[c].purpose)}
        /\ asking' = InForm(c, InObjectMode(refusing)) /\ wire' = Sent(wire, c)
        /\ UNCHANGED <<capable, refusing, tokens, outcome>>
        BY <1>1 DEF Run
  <2>2. /\ asking[c] \in Requests /\ Guarded(asking[c]) /\ Tries \in Nat \ {0} /\ wire.sent \in Nat
        /\ asking[c].asked \in {1, 2}
        BY <2>1, Under
  <2>3. PICK object \in BOOLEAN : object = InObjectMode(refusing)
        BY DEF InObjectMode
  <2>4. PICK r \in Requests :
              /\ InForm(c, object) = [asking EXCEPT ![c] = r]
              /\ r.at = "sent" /\ r.object = object /\ r.tries = 1 /\ r.purpose = asking[c].purpose
              /\ r.secret = asking[c].secret /\ r.asked = asking[c].asked
        BY <2>2, FormIs DEF ModelInv
  <2>5. asking' = [asking EXCEPT ![c] = r]
        BY <2>1, <2>3, <2>4
  <2>6. ~ asking[c].secret
        BY <2>1, <2>2 DEF Guarded
  <2>7. Guarded(r)
        BY <2>2, <2>4, <2>6 DEF Guarded
  <2>8. /\ wire' \in Wires /\ ~ wire'.leaked /\ wire'.sent = wire.sent + 1
        /\ wire'.calls = wire.calls /\ wire'.refused = wire.refused
        /\ wire'.billed = wire'.recorded
        BY <2>1, <2>6, SentIs DEF ModelInv
  <2>9. ~ r.object /\ Mode = "auto" => ~ refusing
        BY <2>3, <2>4 DEF InObjectMode
  <2>10. RefusalsBounded'
        BY <2>1, <2>5, <2>8, <2>9, FirstStep
  <2>11. clients' \subseteq Asked
    <3>1. asking[c].purpose \in Asked \cup {"preflight-extract"}
          BY <2>2 DEF Requests
    <3> QED BY <2>1, <3>1 DEF ExtractParent, Asked, ModelInv
  <2>12. wire'.sent + Left(r) <= wire.sent + Left(asking[c])
    <3>1. Left(asking[c]) = (IF asking[c].asked = 1 THEN 4 ELSE 2) * Tries
          BY <2>1, <2>2, LeftOf
    <3>2. /\ object => Left(r) = (IF asking[c].asked = 1 THEN 3 ELSE 1) * Tries - 1
          /\ ~ object => Left(r) = (IF asking[c].asked = 1 THEN 4 ELSE 2) * Tries - 1
          BY <2>4, LeftOf
    <3>3. CASE asking[c].asked = 1
          BY <2>2, <2>8, <3>1, <3>2, <3>3
    <3>4. CASE asking[c].asked = 2
          BY <2>2, <2>8, <3>1, <3>2, <3>4
    <3> QED BY <2>2, <3>3, <3>4
  <2>13. /\ capable' \in BOOLEAN /\ refusing' \in BOOLEAN /\ tokens' \in 0 .. Burst
         /\ outcome' \in [Askers -> Outcomes]
         BY <2>1 DEF ModelInv
  <2> QED BY <2>5, <2>7, <2>8, <2>10, <2>11, <2>12, <2>13, CallStep
<1>2. CASE NoClient(c)
  <2>1. /\ asking[c].at = "route" /\ Finish(c, "error")
        /\ UNCHANGED <<capable, refusing, clients, tokens, wire>>
        BY <1>2 DEF NoClient
  <2> QED BY <2>1, FinishStep, SameWire
<1> QED BY <1>1, <1>2

LEMMA RetryInv ==
    ASSUME ModelAssumption, ModelInv, NEW c \in Askers, Retry(c) \/ Fault(c)
    PROVE  ModelInv'
<1>1. CASE Retry(c)
  <2>1. /\ asking[c].at = "sent" /\ asking[c].tries <= Retries
        /\ asking' = [asking EXCEPT ![c].tries = @ + 1] /\ wire' = Sent(wire, c)
        /\ UNCHANGED <<capable, refusing, clients, tokens, outcome>>
        BY <1>1 DEF Retry
  <2>2. /\ asking[c] \in Requests /\ Guarded(asking[c]) /\ Tries \in Nat \ {0} /\ wire.sent \in Nat
        /\ asking[c].asked \in {1, 2} /\ asking[c].tries \in 0 .. Tries
        BY <2>1, Under
  <2>3. PICK s : s = asking[c]
        OBVIOUS
  <2>4. PICK r : r = [s EXCEPT !.tries = s.tries + 1]
        OBVIOUS
  <2>5. asking' = [asking EXCEPT ![c] = r]
        BY <2>1, <2>3, <2>4
  <2>6. s.tries + 1 \in 1 .. Tries
        BY <2>1, <2>2, <2>3 DEF Tries, ModelAssumption
  <2>7. /\ r \in Requests /\ r.at = s.at /\ r.object = s.object /\ r.purpose = s.purpose
        /\ r.secret = s.secret /\ r.asked = s.asked /\ r.tries = s.tries + 1
        BY <2>2, <2>3, <2>4, <2>6 DEF Requests
  <2>8. ~ s.secret /\ Guarded(s) /\ s.at = "sent"
        BY <2>1, <2>2, <2>3 DEF Guarded
  <2>9. Guarded(r)
        BY <2>6, <2>7, <2>8 DEF Guarded
  <2>10. /\ wire' \in Wires /\ ~ wire'.leaked /\ wire'.sent = wire.sent + 1
         /\ wire'.calls = wire.calls /\ wire'.refused = wire.refused
         /\ wire'.billed = wire'.recorded
         BY <2>1, <2>3, <2>8, SentIs DEF ModelInv
  <2>11. RefusalsBounded'
         BY <2>1, <2>3, <2>5, <2>7, <2>10, QuietStep
  <2>12. wire'.sent + Left(r) <= wire.sent + Left(s)
    <3>1. /\ s.object => Left(s) = (IF s.asked = 1 THEN 3 ELSE 1) * Tries - s.tries
          /\ ~ s.object => Left(s) = (IF s.asked = 1 THEN 4 ELSE 2) * Tries - s.tries
          BY <2>2, <2>3, <2>8, LeftOf
    <3>2. /\ s.object => Left(r) = (IF s.asked = 1 THEN 3 ELSE 1) * Tries - (s.tries + 1)
          /\ ~ s.object => Left(r) = (IF s.asked = 1 THEN 4 ELSE 2) * Tries - (s.tries + 1)
          BY <2>7, <2>8, LeftOf
    <3>3. CASE s.asked = 1
          BY <2>2, <2>3, <2>10, <3>1, <3>2, <3>3
    <3>4. CASE s.asked = 2
          BY <2>2, <2>3, <2>10, <3>1, <3>2, <3>4
    <3> QED BY <2>2, <2>3, <3>3, <3>4
  <2>13. /\ capable' \in BOOLEAN /\ refusing' \in BOOLEAN /\ tokens' \in 0 .. Burst
         /\ outcome' \in [Askers -> Outcomes] /\ clients' \subseteq Asked
         BY <2>1 DEF ModelInv
  <2> QED BY <2>3, <2>5, <2>7, <2>9, <2>10, <2>11, <2>12, <2>13, CallStep
<1>2. CASE Fault(c)
  <2>1. /\ asking[c].at = "sent" /\ Finish(c, "error")
        /\ UNCHANGED <<capable, refusing, clients, tokens, wire>>
        BY <1>2 DEF Fault
  <2> QED BY <2>1, FinishStep, SameWire
<1> QED BY <1>1, <1>2

\* The declined request is sent again in the other form, once.
LEMMA FallBackInv ==
    ASSUME ModelAssumption, ModelInv, NEW c \in Askers, FallBack(c)
    PROVE  ModelInv'
<1>1. /\ asking[c].at = "sent" /\ ~ asking[c].object /\ refusing' = TRUE
      /\ asking' = InForm(c, TRUE) /\ wire' = Sent([wire EXCEPT !.refused = wire.refused + 1], c)
      /\ UNCHANGED <<capable, clients, tokens, outcome>>
      BY DEF FallBack, SchemaDeclined, Remember
<1>2. /\ asking[c] \in Requests /\ Guarded(asking[c]) /\ Tries \in Nat \ {0} /\ wire.sent \in Nat
      /\ asking[c].asked \in {1, 2} /\ asking[c].tries \in 0 .. Tries
      BY <1>1, Under
<1>3. PICK r \in Requests :
            /\ InForm(c, TRUE) = [asking EXCEPT ![c] = r]
            /\ r.at = "sent" /\ r.object = TRUE /\ r.tries = 1 /\ r.purpose = asking[c].purpose
            /\ r.secret = asking[c].secret /\ r.asked = asking[c].asked
      BY <1>2, FormIs DEF ModelInv
<1>4. asking' = [asking EXCEPT ![c] = r]
      BY <1>1, <1>3
<1>5. ~ asking[c].secret
      BY <1>1, <1>2 DEF Guarded
<1>6. Guarded(r)
      BY <1>2, <1>3, <1>5 DEF Guarded
<1>7. PICK w : w = [wire EXCEPT !.refused = wire.refused + 1]
      OBVIOUS
<1>8. wire \in Wires /\ ~ wire.leaked /\ wire.billed = wire.recorded
      BY DEF ModelInv
<1>9. /\ w \in Wires /\ ~ w.leaked /\ w.billed = w.recorded /\ w.refused = wire.refused + 1
      /\ w.sent = wire.sent /\ w.calls = wire.calls
      BY <1>7, <1>8 DEF Wires
<1>10. /\ wire' \in Wires /\ ~ wire'.leaked /\ wire'.sent = wire.sent + 1
       /\ wire'.calls = wire.calls /\ wire'.refused = wire.refused + 1
       /\ wire'.billed = wire'.recorded
  <2>1. wire' = Sent(w, c)
        BY <1>1, <1>7
  <2>2. /\ Sent(w, c) \in Wires /\ ~ Sent(w, c).leaked /\ Sent(w, c).sent = w.sent + 1
        /\ Sent(w, c).calls = w.calls /\ Sent(w, c).refused = w.refused
        /\ Sent(w, c).billed = w.billed /\ Sent(w, c).recorded = w.recorded
        BY <1>5, <1>9, SentIs
  <2> QED BY <1>9, <2>1, <2>2
<1>11. RefusalsBounded'
       BY <1>1, <1>3, <1>4, <1>10, DeclinedStep
<1>12. wire'.sent + Left(r) <= wire.sent + Left(asking[c])
  <2>1. Left(asking[c]) = (IF asking[c].asked = 1 THEN 4 ELSE 2) * Tries - asking[c].tries
        BY <1>1, <1>2, LeftOf
  <2>2. Left(r) = (IF asking[c].asked = 1 THEN 3 ELSE 1) * Tries - 1
        BY <1>3, LeftOf
  <2>3. CASE asking[c].asked = 1
        BY <1>2, <1>10, <2>1, <2>2, <2>3
  <2>4. CASE asking[c].asked = 2
        BY <1>2, <1>10, <2>1, <2>2, <2>4
  <2> QED BY <1>2, <2>3, <2>4
<1>13. /\ capable' \in BOOLEAN /\ refusing' \in BOOLEAN /\ tokens' \in 0 .. Burst
       /\ outcome' \in [Askers -> Outcomes] /\ clients' \subseteq Asked
       BY <1>1 DEF ModelInv
<1> QED BY <1>3, <1>4, <1>6, <1>10, <1>11, <1>12, <1>13, CallStep

LEMMA DeclinedInv ==
    ASSUME ModelAssumption, ModelInv, NEW c \in Askers, Declined(c)
    PROVE  ModelInv'
<1>1. /\ asking[c].at = "sent" /\ ~ asking[c].object
      /\ wire' = [wire EXCEPT !.refused = wire.refused + 1]
      /\ Finish(c, "error") /\ UNCHANGED <<capable, clients, tokens>>
      BY DEF Declined, SchemaDeclined
<1>2. refusing' \in BOOLEAN /\ (Mode = "auto" => refusing')
      BY DEF Declined, Remember, ModelInv
<1>3. wire \in Wires /\ ~ wire.leaked /\ wire.billed = wire.recorded
      BY DEF ModelInv
<1>4. /\ wire' \in Wires /\ ~ wire'.leaked /\ wire'.billed = wire'.recorded
      /\ wire'.refused = wire.refused + 1 /\ wire'.sent = wire.sent /\ wire'.calls = wire.calls
      BY <1>1, <1>3 DEF Wires
<1>5. asking' = [asking EXCEPT ![c] = NotAsking] /\ outcome' \in [Askers -> Outcomes]
      BY <1>1, FinishIs
<1>6. /\ Left(asking[c]) \in Nat /\ Left(NotAsking) = 0 /\ NotAsking.at = "idle" /\ wire.sent \in Nat
      BY <1>1, Under
<1>7. RefusalsBounded'
      BY <1>1, <1>2, <1>4, <1>5, <1>6, DeclinedStep
<1>8. wire'.sent + Left(NotAsking) <= wire.sent + Left(asking[c])
      BY <1>4, <1>6
<1>9. capable' \in BOOLEAN /\ clients' \subseteq Asked /\ tokens' \in 0 .. Burst
      BY <1>1 DEF ModelInv
<1>10. NotAsking \in Requests \cup {NotAsking}
      OBVIOUS
<1> QED BY <1>2, <1>4, <1>5, <1>7, <1>8, <1>9, <1>10, CallStep

\* A reply that is recorded as it is billed.
LEMMA ReplyIs ==
    ASSUME wire \in Wires, ~ wire.leaked, wire.billed = wire.recorded,
           \/ wire' = RejectedReply(Billed(wire))
           \/ wire' = [Billed(wire) EXCEPT !.recorded = @ + 1]
    PROVE  /\ wire' \in Wires /\ ~ wire'.leaked /\ wire'.billed = wire'.recorded
           /\ wire'.calls = wire.calls /\ wire'.sent = wire.sent /\ wire'.refused = wire.refused
<1>1. PICK w : w = [wire EXCEPT !.billed = wire.billed + 1]
      OBVIOUS
<1>2. /\ w \in Wires /\ ~ w.leaked /\ w.billed = wire.billed + 1 /\ w.recorded = wire.recorded
      /\ w.calls = wire.calls /\ w.sent = wire.sent /\ w.refused = wire.refused
      BY <1>1 DEF Wires
<1>3. wire' = [w EXCEPT !.recorded = w.recorded + 1]
      BY <1>1 DEF RejectedReply, Billed
<1>4. /\ wire' \in Wires /\ ~ wire'.leaked /\ wire'.recorded = w.recorded + 1 /\ wire'.billed = w.billed
      /\ wire'.calls = w.calls /\ wire'.sent = w.sent /\ wire'.refused = w.refused
      BY <1>2, <1>3 DEF Wires
<1> QED BY <1>2, <1>4

LEMMA IncompleteInv ==
    ASSUME ModelAssumption, ModelInv, NEW c \in Askers, Incomplete(c)
    PROVE  ModelInv'
<1>1. /\ asking[c].at = "sent" /\ wire' = RejectedReply(Billed(wire))
      /\ Finish(c, "error") /\ UNCHANGED <<capable, refusing, clients, tokens>>
      BY DEF Incomplete, Delivers
<1>2. /\ wire' \in Wires /\ ~ wire'.leaked /\ wire'.billed = wire'.recorded
      /\ wire'.calls = wire.calls /\ wire'.sent = wire.sent /\ wire'.refused = wire.refused
      BY <1>1, ReplyIs DEF ModelInv
<1> QED BY <1>1, <1>2, FinishStep

\* An answer ends the call, or is asked for once more in a shorter form.
LEMMA AnsweredInv ==
    ASSUME ModelAssumption, ModelInv, NEW c \in Askers, Answered(c)
    PROVE  ModelInv'
<1>1. asking[c].at = "sent" /\ UNCHANGED <<capable, refusing, clients, tokens>>
      BY DEF Answered, Delivers
<1>2. PICK a \in Answers :
        /\ wire' = IF asking[c].object /\ ~Validates(a) THEN RejectedReply(Billed(wire))
                   ELSE [Billed(wire) EXCEPT !.recorded = @ + 1]
        /\ IF Usable(c, a) THEN Finish(c, "answer")
           ELSE IF Extractable(c)
           THEN asking' = [asking EXCEPT ![c] = Request("preflight-extract", a.secret, 2)] /\ UNCHANGED outcome
           ELSE Finish(c, "error")
      BY DEF Answered
<1>3. /\ wire' \in Wires /\ ~ wire'.leaked /\ wire'.billed = wire'.recorded
      /\ wire'.calls = wire.calls /\ wire'.sent = wire.sent /\ wire'.refused = wire.refused
      BY <1>2, ReplyIs DEF ModelInv
<1>4. CASE Finish(c, "answer") \/ Finish(c, "error")
      BY <1>1, <1>3, <1>4, FinishStep
<1>5. CASE /\ asking[c].purpose = "preflight" /\ outcome' = outcome
           /\ asking' = [asking EXCEPT ![c] = Request("preflight-extract", a.secret, 2)]
  <2>1. /\ asking[c] \in Requests /\ Guarded(asking[c]) /\ Tries \in Nat \ {0} /\ wire.sent \in Nat
        /\ asking[c].asked \in {1, 2} /\ asking[c].tries \in 0 .. Tries
        BY <1>1, Under
  <2>2. asking[c].asked = 1
        BY <1>5, <2>1 DEF Guarded
  <2>3. PICK r : r = Request("preflight-extract", a.secret, 2)
        OBVIOUS
  <2>4. a.secret \in BOOLEAN
        BY DEF Answers
  <2>5. r \in Requests /\ r.at = "guard" /\ r.asked = 2 /\ r.purpose = "preflight-extract"
        BY <2>1, <2>3, <2>4 DEF Request, Requests
  <2>6. Guarded(r) /\ asking' = [asking EXCEPT ![c] = r]
        BY <1>5, <2>3, <2>5 DEF Guarded
  <2>7. RefusalsBounded'
        BY <1>1, <1>3, <2>5, <2>6, QuietStep
  <2>8. wire'.sent + Left(r) <= wire.sent + Left(asking[c])
    <3>1. Left(r) = 2 * Tries
          BY <2>5, LeftOf
    <3>2. /\ asking[c].object => Left(asking[c]) = 3 * Tries - asking[c].tries
          /\ ~ asking[c].object => Left(asking[c]) = 4 * Tries - asking[c].tries
          BY <1>1, <2>1, <2>2, LeftOf
    <3> QED BY <1>3, <2>1, <3>1, <3>2
  <2>9. /\ capable' \in BOOLEAN /\ refusing' \in BOOLEAN /\ tokens' \in 0 .. Burst
        /\ outcome' \in [Askers -> Outcomes] /\ clients' \subseteq Asked
        BY <1>1, <1>5 DEF ModelInv
  <2> QED BY <1>3, <2>5, <2>6, <2>7, <2>8, <2>9, CallStep
<1> QED BY <1>2, <1>4, <1>5 DEF Extractable

LEMMA RefillInv ==
    ASSUME ModelAssumption, ModelInv, Refill \/ UNCHANGED modelVars
    PROVE  ModelInv'
<1>1. /\ UNCHANGED <<capable, refusing, clients, asking, outcome>>
      /\ tokens' = tokens \/ (tokens < Burst /\ tokens' = tokens + 1)
      /\ wire' = wire \/ wire' = [wire EXCEPT !.ticks = wire.ticks + 1]
      BY DEF Refill, modelVars
<1>2. wire \in Wires /\ ~ wire.leaked /\ wire.billed = wire.recorded /\ tokens \in 0 .. Burst
      BY DEF ModelInv
<1>3. /\ wire' \in Wires /\ ~ wire'.leaked /\ wire'.billed = wire'.recorded
      /\ wire'.calls = wire.calls /\ wire'.sent = wire.sent /\ wire'.refused = wire.refused
  <2>1. CASE wire' = wire
        BY <1>2, <2>1
  <2>2. CASE wire' = [wire EXCEPT !.ticks = wire.ticks + 1]
        BY <1>2, <2>2 DEF Wires
  <2> QED BY <1>1, <2>1, <2>2
<1>4. tokens' \in 0 .. Burst
      BY <1>1, <1>2 DEF ModelAssumption
<1>5. RefusalsBounded'
      BY <1>1, <1>3 DEF ModelInv, RefusalsBounded, InSchemaForm
<1>6. Reserve' = Reserve
      BY <1>1 DEF Reserve, ReserveIn
<1> QED BY <1>1, <1>3, <1>4, <1>5, <1>6 DEF ModelInv

LEMMA ModelStart ==
    ASSUME ModelAssumption, ModelInit
    PROVE  ModelInv
<1>1. /\ capable \in BOOLEAN /\ refusing = FALSE /\ clients = {} /\ tokens = Burst
      /\ asking = [c \in Askers |-> NotAsking] /\ outcome = [c \in Askers |-> Ended("none", 0)]
      /\ wire = [calls |-> 0, sent |-> 0, refused |-> 0, billed |-> 0, recorded |-> 0, leaked |-> FALSE, ticks |-> 0]
      BY DEF ModelInit
<1>2. /\ wire \in Wires /\ ~ wire.leaked /\ wire.billed = wire.recorded /\ wire.sent = 0
      /\ wire.calls = 0 /\ wire.refused = 0
      BY <1>1 DEF Wires
<1>3. Ended("none", 0) \in Outcomes
      BY DEF Ended, Outcomes
<1>4. NotAsking.at = "idle"
      BY DEF NotAsking
<1>5. asking \in [Askers -> Requests \cup {NotAsking}] /\ \A c \in Askers : asking[c] = NotAsking
      BY <1>1
<1>6. InSchemaForm = {}
      BY <1>4, <1>5 DEF InSchemaForm
<1>7. Reserve = {}
  <2>1. Left(NotAsking) = 0 /\ Tries \in Nat
        BY LeftIs
  <2> QED BY <1>5, <2>1 DEF Reserve, ReserveIn
<1>8. Cardinality(InSchemaForm) = 0 /\ Cardinality(Reserve) = 0
      BY <1>6, <1>7, FS_EmptySet
<1>9. Cardinality(Askers) \in Nat
      BY FS_CardinalityType DEF ModelAssumption
<1>10. RefusalsBounded
      BY <1>2, <1>8, <1>9 DEF RefusalsBounded
<1>11. wire.sent + Cardinality(Reserve) <= 4 * Tries * wire.calls
  <2>1. Tries \in Nat
        BY LeftIs
  <2> QED BY <1>2, <1>8, <2>1
<1>12. /\ capable \in BOOLEAN /\ refusing \in BOOLEAN /\ clients \subseteq Asked /\ tokens \in 0 .. Burst
       /\ outcome \in [Askers -> Outcomes]
  <2>1. outcome \in [Askers -> Outcomes] /\ clients \subseteq Asked
        BY <1>1, <1>3
  <2>2. tokens \in 0 .. Burst
        BY <1>1 DEF ModelAssumption
  <2> QED BY <1>1, <2>1, <2>2
<1> QED BY <1>2, <1>5, <1>10, <1>11, <1>12 DEF ModelInv

LEMMA ModelStep ==
    ASSUME ModelAssumption, ModelInv, [ModelNext]_modelVars
    PROVE  ModelInv'
<1>1. ASSUME NEW c \in Askers,
             \/ Ask(c) \/ Guard(c) \/ Wait(c) \/ WaitTooLong(c) \/ Run(c) \/ NoClient(c) \/ Retry(c)
             \/ Fault(c) \/ FallBack(c) \/ Declined(c) \/ Incomplete(c) \/ Answered(c)
      PROVE  ModelInv'
      BY <1>1, AskInv, GuardInv, WaitInv, RunInv, RetryInv, FallBackInv, DeclinedInv, IncompleteInv,
         AnsweredInv
<1>2. CASE Refill \/ UNCHANGED modelVars
      BY <1>2, RefillInv
<1> QED BY <1>1, <1>2 DEF ModelNext

\* What the invariant says of the runs' properties.
LEMMA ModelGive ==
    ASSUME ModelAssumption, ModelInv
    PROVE  ModelTypeOK /\ NothingLeaks /\ RefusedOnce /\ BilledIsRecorded /\ SpendIsBounded
<1>1. ModelTypeOK
  <2>1. \A c \in Askers : asking[c].at \in {"idle", "guard", "limit", "route", "sent"}
        BY DEF ModelInv, Requests, NotAsking
  <2>2. \A c \in Askers : outcome[c].kind \in {"none", "answer", "error"}
        BY DEF ModelInv, Outcomes
  <2> QED BY <2>1, <2>2 DEF ModelInv, ModelTypeOK
<1>2. NothingLeaks /\ BilledIsRecorded
      BY DEF ModelInv, NothingLeaks, BilledIsRecorded
<1>3. RefusedOnce
  <2>1. IsFiniteSet(Askers) /\ InSchemaForm \subseteq Askers
        BY DEF ModelAssumption, InSchemaForm
  <2>2. Cardinality(InSchemaForm) \in Nat /\ Cardinality(Askers) \in Nat
        BY <2>1, FS_Subset, FS_CardinalityType
  <2>3. wire.refused \in Nat
        BY DEF ModelInv, Wires
  <2> QED BY <2>2, <2>3 DEF ModelInv, RefusalsBounded, RefusedOnce
<1>4. SpendIsBounded
  <2>1. \A c \in Askers : outcome[c].requests <= 2
        BY DEF ModelInv, Outcomes
  <2>2. Cardinality(Reserve) \in Nat
    <3>1. Tries \in Nat
          BY LeftIs
    <3>2. IsFiniteSet(Askers \X (1 .. 4 * Tries))
      <4>1. 1 \in Int /\ 4 * Tries \in Int
            BY <3>1
      <4>2. IsFiniteSet(1 .. 4 * Tries)
            BY <4>1, FS_Interval
      <4> QED BY <4>2, FS_Product DEF ModelAssumption
    <3>3. Reserve \subseteq Askers \X (1 .. 4 * Tries)
          BY DEF Reserve, ReserveIn
    <3> QED BY <3>2, <3>3, FS_Subset, FS_CardinalityType
  <2>3. wire.sent \in Nat /\ wire.calls \in Nat /\ Retries \in Nat
        BY DEF ModelInv, Wires, ModelAssumption
  <2>4. wire.sent + Cardinality(Reserve) <= 4 * (Retries + 1) * wire.calls
        BY DEF ModelInv, Tries
  <2>5. PICK m \in Nat : m = 4 * (Retries + 1) * wire.calls
        BY <2>3
  <2>6. wire.sent <= m
        BY <2>2, <2>3, <2>4, <2>5
  <2> QED BY <2>1, <2>5, <2>6 DEF SpendIsBounded
<1> QED BY <1>1, <1>2, <1>3, <1>4

\* Whatever a prompt or the model itself wrote, no request that holds a credential is
\* sent, retried, sent in the other form or sent for a reformat (GuardRunner).
THEOREM NothingStaysLeaked ==
    ASSUME ModelAssumption
    PROVE  ModelSpec => []NothingLeaks
<1>1. ModelInit => ModelInv
      BY ModelStart
<1>2. ModelInv /\ [ModelNext]_modelVars => ModelInv'
      BY ModelStep
<1>3. ModelInv => NothingLeaks
      BY ModelGive
<1> QED BY <1>1, <1>2, <1>3, PTL DEF ModelSpec

\* However calls, retries, fallbacks and reformats overlap: an endpoint without schemas
\* refuses at most once per caller, and every operation's requests stay within two
\* requests of two forms of Retries + 1 tries (openai.go, preflight.go).
THEOREM CallsStayBounded ==
    ASSUME ModelAssumption
    PROVE  ModelSpec => [](RefusedOnce /\ SpendIsBounded /\ BilledIsRecorded)
<1>1. ModelInit => ModelInv
      BY ModelStart
<1>2. ModelInv /\ [ModelNext]_modelVars => ModelInv'
      BY ModelStep
<1>3. ModelInv => RefusedOnce /\ SpendIsBounded /\ BilledIsRecorded
      BY ModelGive
<1> QED BY <1>1, <1>2, <1>3, PTL DEF ModelSpec

=============================================================================
