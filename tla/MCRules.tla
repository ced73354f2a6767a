------------------------------- MODULE MCRules -------------------------------
(***************************************************************************)
(* The graph on small instances, each checked on its own: `part` names the *)
(* one that runs.  Checkouts capture and exchange entries, one instance    *)
(* for each kind of story; commands set up and write a checkout, and talk  *)
(* to other repositories, to models and to the terminal.  The publication  *)
(* of changes is Publication itself, the others are instances.             *)
(***************************************************************************)
EXTENDS Publication, Sequences, TLC

CONSTANTS A, B, NoName, NoRepo, Here, There, Local, Shipped, Other, Third, Url, Fork,
          kEntry, kStart, kFinish, kSum, E, A1, A2, M, D

VARIABLES
    part,
    entry, known, version, base,
    made, worktree, committed, run, notes,
    pushed, userConfig, cache, deps, depsHead, crossRefs, calling, history,
    written, recorded, branch, command, past,
    capable, refusing, clients, tokens, asking, outcome, wire,
    level, kept, ring, ringAt, failed, state, backlog, channel, closed, work, program, driver,
    cancelled, out
EntryOf == INSTANCE EntryRules

\* A complete draft of an entry.
Draft(e) ==
    [type |-> EntryOf!TypeOf(e), layer |-> "process", entry |-> e,
     declared |-> EntryOf!FieldsOf(e.kind), criteria |-> TRUE, targets |-> {}, labels |-> {}]
AtMostOne(ids) == {{}} \cup {{i} : i \in ids}
Ref(kind, id) == [to |-> id, kind |-> kind, repo |-> NoRepo]
Of(kind) == EntryOf!Plain(kind)
Closing(g) == {[Of("directive") EXCEPT !.closes = {i}] : i \in DOMAIN g}

\* Actors, the roles bound to them, and what ends either.
ActorOffers(g) == {Draft(e) : e \in
    {[Of("actor") EXCEPT !.name = n, !.supersedes = s] : n \in {A, B}, s \in AtMostOne(DOMAIN g)}
    \cup {[Of("role") EXCEPT !.actor = n, !.refs = {Ref("grounded-in", i)}] :
            n \in {A, B}, i \in DOMAIN g}
    \cup {[Of("insight") EXCEPT !.supersedes = {i}] : i \in DOMAIN g}
    \cup Closing(g)}
\* Procedures of the project beside those of the binary.
ProcedureOffers(g) == {Draft(e) : e \in
    {[Of("procedure") EXCEPT !.name = A, !.supersedes = s] : s \in AtMostOne(DOMAIN g)}
    \cup {[Of("procedure") EXCEPT !.name = B]} \cup Closing(g)}
\* Work and what settles it.
WorkOffers(g) == {Draft(e) : e \in
    {Of("gap"), Of("focus")}
    \cup {[Of("done") EXCEPT !.closes = {i}] : i \in DOMAIN g}
    \cup {[Of("directive") EXCEPT !.intent = w, !.closes = x, !.supersedes = s] :
            w \in {"pending", "settled"}, x \in AtMostOne(DOMAIN g), s \in AtMostOne(DOMAIN g)}}

Base(n, s) == [Of("procedure") EXCEPT !.name = n, !.supersedes = s, !.embedded = TRUE]
Nothing == <<<<>>>>
Releases ==
    <<[i \in {1} |-> Base(A, {})],
      [i \in {1, 15} |-> Base(A, IF i = 15 THEN {1} ELSE {})]>>

Actors == INSTANCE Checkouts WITH Checkout <- {Here, There}, Offers <- ActorOffers,
    Shipped <- Nothing, MaxCaptures <- 4
Procs == INSTANCE Checkouts WITH Checkout <- {Here, There}, Offers <- ProcedureOffers,
    Shipped <- Releases, MaxCaptures <- 3
Work == INSTANCE Checkouts WITH Checkout <- {Here, There}, Offers <- WorkOffers,
    Shipped <- Nothing, MaxCaptures <- 3

-----------------------------------------------------------------------------
\* Runs of `sdd init`: release 2 no longer ships the file Third.
SetUp(binary, agents) ==
    [binary |-> binary, place |-> Local, branch |-> Local, scope |-> NoName, agents |-> agents,
     force |-> FALSE, prompt |-> FALSE, bump |-> FALSE]
Bundles == <<[f \in {Other, Third} |-> 1], [f \in {Other} |-> 2]>>
Setup == INSTANCE ProjectSetup WITH tree <- worktree, head <- committed, AgentOrder <- <<A, B>>,
    Places <- {Local, Shipped}, Mine <- NoRepo, Unset <- NoName, Pointing <- FALSE,
    MaxRuns <- 3, MaxEdits <- 1, MaxStops <- 1,
    Commands <- {[SetUp(1, {A, B}) EXCEPT !.scope = "project", !.place = Shipped],
                 SetUp(2, {A}), [SetUp(2, {A}) EXCEPT !.force = TRUE, !.bump = TRUE],
                 [SetUp(1, {A}) EXCEPT !.scope = "project", !.bump = TRUE]}
Pointer == INSTANCE ProjectSetup WITH tree <- worktree, head <- committed, AgentOrder <- <<A, B>>,
    Places <- {Local, Shipped}, Mine <- NoRepo, Unset <- NoName, Pointing <- TRUE,
    MaxRuns <- 3, MaxEdits <- 1, MaxStops <- 1,
    Commands <- {[SetUp(1, {A, B}) EXCEPT !.scope = "user"],
                 [SetUp(2, {B}) EXCEPT !.place = Shipped, !.prompt = TRUE]}

\* One process's calls one after the other, and two processes at once: Fork is
\* another URL of Other, spelled as Third for the one and as a plain path for the
\* two.  The one has a local model, the two share a remote endpoint.
Repo(kind, url, repo, force, backward) ==
    [kind |-> kind, url |-> url, repo |-> repo, force |-> force, backward |-> backward]
Adds(urls) == {Repo("add", u, NoRepo, FALSE, FALSE) : u \in urls}
Alone == INSTANCE Services_proofs WITH upstream <- pushed, config <- userConfig, head <- depsHead,
    refs <- crossRefs, call <- calling, notes <- history, Callers <- {Here}, Repos <- {Other, Third},
    Urls <- {Url, Fork}, None <- NoRepo, Serves <- [u \in {Url, Fork} |-> Other],
    Derives <- (Url :> Other) @@ (Fork :> Third), Own <- Local,
    Commands <- Adds({Url, Fork}) \cup {Repo("remove", NoRepo, Other, f, FALSE) : f \in BOOLEAN}
                \cup {Repo("capture", NoRepo, Other, FALSE, b) : b \in BOOLEAN}
                \cup {Repo(k, NoRepo, Other, FALSE, FALSE) : k \in {"set", "sync", "freshen"}},
    MaxCalls <- 4, MaxKills <- 2, MaxPushes <- 1,
    Askers <- {Here}, Mode <- "json_schema", Remote <- FALSE, Burst <- 1, Retries <- 0,
    MaxAsks <- 2, MaxTicks <- 0
Together == INSTANCE Services_proofs WITH upstream <- pushed, config <- userConfig, head <- depsHead,
    refs <- crossRefs, call <- calling, notes <- history, Callers <- {Here, There}, Repos <- {Other, Third},
    Urls <- {Url, Fork, Local}, None <- NoRepo,
    Serves <- [u \in {Url, Fork, Local} |-> IF u = Local THEN Third ELSE Other],
    Derives <- (Url :> Other) @@ (Fork :> NoRepo) @@ (Local :> Third), Own <- Local,
    Commands <- Adds({Url, Fork, Local}) \cup {Repo("remove", NoRepo, Other, FALSE, FALSE),
                                             Repo("capture", NoRepo, Other, FALSE, TRUE)},
    MaxCalls <- 3, MaxKills <- 0, MaxPushes <- 0,
    Askers <- {Here, There}, Mode <- "auto", Remote <- TRUE, Burst <- 1, Retries <- 1,
    MaxAsks <- 3, MaxTicks <- 2

\* One user's commands, killed and failing among them, with corrections in between;
\* two processes at once.  Entry 2 points at entry 1; 3 is captured.
Write(kind, type, stem, to, titled, ref) ==
    [kind |-> kind, type |-> type, stem |-> stem, to |-> to, title |-> titled, ref |-> ref]
Plain(kind) == Write(kind, NoName, NoName, NoName, FALSE, NoName)
OnFirst == [in |-> "graph", type |-> A, stem |-> 1]
Writes ==
    {Plain(k) : k \in {"fill", "lint", "migrate", "done"}}
    \cup {Write("rewrite", A, 1, A, FALSE, NoName), Write("summarize", A, 1, A, FALSE, NoName),
          Write("explain", A, 2, A, FALSE, NoName), Write("start", A, 1, A, TRUE, NoName),
          Write("new", A, 3, A, FALSE, OnFirst)}
Moves == {Write("rewrite", A, 1, B, FALSE, NoName), Write("rewrite", B, 1, A, FALSE, NoName)}
Writing == INSTANCE CheckoutWrites WITH work <- written, head <- recorded, call <- command, notes <- past,
    Callers <- {Here}, Types <- {A, B}, Stems <- 1 .. 3, Original <- A, First <- 1, Second <- 2, None <- NoName,
    Filled <- Shipped, ByHand <- Local, Guess <- Other, EditsBetween <- TRUE,
    Commands <- Writes \cup Moves, MaxCalls <- 3, MaxFaults <- 1, MaxEdits <- 1
Racing == INSTANCE CheckoutWrites WITH work <- written, head <- recorded, call <- command, notes <- past,
    Callers <- {Here, There}, Types <- {A}, Stems <- 1 .. 3, Original <- A, First <- 1, Second <- 2, None <- NoName,
    Filled <- Shipped, ByHand <- Local, Guess <- Other, EditsBetween <- FALSE,
    Commands <- Writes,
    MaxCalls <- 2, MaxFaults <- 0, MaxEdits <- 1

\* A view that shows its lines, and one that shows its footer alone.
Streaming == INSTANCE CommandDisplay WITH Stream <- TRUE, Cap <- 1, TailLength <- 2, MaxLines <- 3
FooterOnly == INSTANCE CommandDisplay WITH Stream <- FALSE, Cap <- 1, TailLength <- 2, MaxLines <- 4

-----------------------------------------------------------------------------
\* An entry with two attachments, a marker started and finished, a summary.
Document(kind, path, attachments) == [kind |-> kind, path |-> path, attachments |-> attachments]
Changes == (kEntry :> Document("entry", E, {A1, A2}))
           @@ (kStart :> Document("create", M, {})) @@ (kFinish :> Document("remove", M, {}))
           @@ (kSum :> Document("replace", D, {}))
ASSUME ChangesAssumption == OwnPaths
ASSUME ServicesAssumption ==
    /\ Alone!ReposAssumption /\ Alone!ModelAssumption
    /\ Together!ReposAssumption /\ Together!ModelAssumption

Symmetry == Permutations({Here, There})

checkoutVars == <<entry, known, version, base>>
setupVars == <<made, worktree, committed, run, notes>>
repoVars == <<pushed, userConfig, cache, deps, depsHead, crossRefs, calling, history>>
writeVars == <<written, recorded, branch, command, past>>
modelVars == <<capable, refusing, clients, tokens, asking, outcome, wire>>
displayVars == <<level, kept, ring, ringAt, failed, state, backlog, channel, closed, work, program,
                 driver, cancelled, out>>
pubVars == vars
rulesVars == <<part, checkoutVars, setupVars, repoVars, writeVars, modelVars, displayVars,
               pubVars>>
Machines == {"actors", "procedures", "work", "setup", "pointer",
             "alone", "together", "writing", "racing", "models", "local model", "streaming", "footer", "publish"}

-----------------------------------------------------------------------------
\* What the part does not use stays 0; the publication stays in its initial state.
CheckoutInit ==
    IF part \in {"actors", "procedures", "work"} THEN Actors!Init
    ELSE entry = 0 /\ known = 0 /\ version = 0 /\ base = 0
SetupInit ==
    IF part \in {"setup", "pointer"} THEN Setup!Init
    ELSE made = 0 /\ worktree = 0 /\ committed = 0 /\ run = 0 /\ notes = 0
RepoInit ==
    CASE part = "alone" -> Alone!Init
      [] part = "together" -> Together!Init
      [] OTHER -> /\ pushed = 0 /\ userConfig = 0 /\ cache = 0 /\ deps = 0
                  /\ depsHead = 0 /\ crossRefs = 0 /\ calling = 0 /\ history = 0
WriteInit ==
    CASE part = "writing" -> Writing!Init
      [] part = "racing" -> Racing!Init
      [] OTHER -> written = 0 /\ recorded = 0 /\ branch = 0 /\ command = 0 /\ past = 0
ModelInit ==
    CASE part = "models" -> Together!ModelInit
      [] part = "local model" -> Alone!ModelInit
      [] OTHER -> /\ capable = 0 /\ refusing = 0 /\ clients = 0 /\ tokens = 0
                  /\ asking = 0 /\ outcome = 0 /\ wire = 0
DisplayInit ==
    IF part \in {"streaming", "footer"} THEN Streaming!Init
    ELSE /\ level = 0 /\ kept = 0 /\ ring = 0 /\ ringAt = 0 /\ failed = 0 /\ state = 0
         /\ backlog = 0 /\ channel = 0 /\ closed = 0 /\ work = 0 /\ program = 0
         /\ driver = 0 /\ cancelled = 0 /\ out = 0
RulesInit ==
    /\ part \in Machines
    /\ Init
    /\ CheckoutInit /\ SetupInit /\ RepoInit /\ WriteInit
    /\ ModelInit /\ DisplayInit
CheckoutStep ==
    /\ \/ part = "actors" /\ Actors!Next
       \/ part = "procedures" /\ Procs!Next
       \/ part = "work" /\ Work!Next
    /\ UNCHANGED <<part, setupVars, repoVars, writeVars, modelVars, displayVars, pubVars>>
SetupStep ==
    /\ \/ part = "setup" /\ Setup!Next
       \/ part = "pointer" /\ Pointer!Next
    /\ UNCHANGED <<part, checkoutVars, repoVars, writeVars, modelVars, displayVars, pubVars>>
RepoStep ==
    /\ \/ part = "alone" /\ Alone!Next
       \/ part = "together" /\ Together!Next
    /\ UNCHANGED <<part, checkoutVars, setupVars, writeVars, modelVars, displayVars, pubVars>>
WriteStep ==
    /\ \/ part = "writing" /\ Writing!Next
       \/ part = "racing" /\ Racing!Next
    /\ UNCHANGED <<part, checkoutVars, setupVars, repoVars, modelVars, displayVars, pubVars>>
ModelStep ==
    /\ \/ part = "models" /\ Together!ModelNext
       \/ part = "local model" /\ Alone!ModelNext
    /\ UNCHANGED <<part, checkoutVars, setupVars, repoVars, writeVars, displayVars, pubVars>>
DisplayStep ==
    /\ \/ part = "streaming" /\ Streaming!Next
       \/ part = "footer" /\ FooterOnly!Next
    /\ UNCHANGED <<part, checkoutVars, setupVars, repoVars, writeVars, modelVars, pubVars>>
PublishStep ==
    /\ part = "publish" /\ Next
    /\ UNCHANGED <<part, checkoutVars, setupVars, repoVars, writeVars, modelVars, displayVars>>
RulesNext ==
    \/ CheckoutStep \/ SetupStep \/ RepoStep \/ WriteStep \/ ModelStep \/ DisplayStep
    \/ PublishStep
RulesSpec == RulesInit /\ [][RulesNext]_rulesVars

GraphHolds ==
    /\ part \in {"actors", "work"} => /\ Actors!OpenSetAgrees
                                     /\ Actors!CanonicalsWrittenOnce /\ Actors!ForksAreConcurrent
    /\ part = "procedures" => /\ Procs!OpenSetAgrees
                              /\ Procs!CanonicalsWrittenOnce /\ Procs!ForksAreConcurrent
SetupConverges ==
    part \in {"setup", "pointer"} =>
        /\ Setup!TypeOK /\ Setup!Completes /\ Setup!DropsAreRetried /\ Setup!CommitsWhatItWrote
        /\ part = "pointer" => Pointer!ConfigNamesGraph
ServicesHold ==
    /\ part = "alone" => Alone!TypeOK /\ Alone!ConnectionsAreReal /\ Alone!AddsHold
    /\ part = "together" => Together!TypeOK /\ Together!ConnectionsAreReal
    /\ part = "models" => /\ Together!ModelTypeOK /\ Together!NothingLeaks /\ Together!RefusedOnce
                          /\ Together!BilledIsRecorded /\ Together!SpendIsBounded
    /\ part = "local model" => /\ Alone!ModelTypeOK /\ Alone!NothingLeaks
                               /\ Alone!BilledIsRecorded /\ Alone!SpendIsBounded
TerminalHolds ==
    /\ part = "streaming" => /\ Streaming!TypeOK /\ Streaming!ShownOnce
                             /\ Streaming!StreamedPlainly /\ Streaming!NobodyWaits
    /\ part = "footer" => /\ FooterOnly!TypeOK /\ FooterOnly!ShownOnce
                          /\ FooterOnly!FooterTellsAtTheEnd /\ FooterOnly!NobodyWaits
WritesSettle ==
    /\ part = "writing" => /\ Writing!MigratedIsCommitted /\ Writing!NothingLeftBehind
                           /\ Writing!HandWorkSurvives /\ Writing!ReferencesResolve
    /\ part = "racing" => Racing!NothingLeftBehind
    /\ part = "publish" => TypeOK
ChecksStayPassed ==
    [][/\ (part = "actors" \/ part = "work") => Actors!LeavesLintClean
       /\ part = "procedures" => Procs!LeavesOverrides]_rulesVars
SetupKeepsEdits ==
    [][(part = "setup" \/ part = "pointer") => Setup!KeepsEditsInStep /\ Setup!RepeatIsQuiet]_rulesVars
=============================================================================
