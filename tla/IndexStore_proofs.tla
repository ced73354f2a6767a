---------------------------- MODULE IndexStore_proofs ----------------------------
(* What the processes that share an index store keep of its rows and versions,  *)
(* for any number of fills, forced rebuilds, publications, collections and      *)
(* crashes, any entries and any state hashes; and the counts of one process's   *)
(* view of it, for any number of searches, mappings and row sets.               *)
EXTENDS IndexStore, StoreView, FiniteSetTheorems, FunctionTheorems, TLAPS

-----------------------------------------------------------------------------
(* The inductive invariant.                                                  *)
Places == {"idle", "waiting", "plan", "embed", "rows", "delete",
           "refresh", "segment", "merge", "close", "drop", "sweep"}

\* The steps the store lock is for.
Exclusive == {"rows", "delete", "segment", "merge", "drop", "sweep"}

Shaped ==
    /\ pc \in [Procs -> Places] /\ work = [p \in Procs |-> work[p]]
    /\ \A p \in Procs :
         LET w == work[p]
         IN  w = [plan |-> w.plan, batch |-> w.batch, todo |-> w.todo, stale |-> w.stale,
                  merged |-> w.merged, drop |-> w.drop]
    /\ identity \in Nat /\ crashes \in Nat

LockHeld ==
    /\ \A p \in Procs : pc[p] \in Exclusive => lock = p
    /\ \A p \in Procs : pc[p] = "drop" => p \in Collectors

\* An entry has at most one version of a state, which names chunks of that
\* state, and is of the rule whose name the state's hash is of.
Versions ==
    \A v \in manifest :
        /\ v.entry \in Entries /\ v.ids \subseteq IdsOf(v.entry, v.hash)
        /\ \A w \in manifest : v.entry = w.entry /\ v.hash = w.hash => v = w
        /\ \A p \in Procs : v.hash = Checkout[p][v.entry] => derivation(v, p) = Rule[p]

\* The rows of a batch are there or still to be written, what is to be deleted has
\* no name any more, and of the rows without a name all are listed to be swept.
Listed(w, r, m) == w.todo \cap Named(m) = {} /\ DOMAIN r \subseteq Named(m) \cup w.todo
Writing ==
    \A p \in Procs :
        /\ work[p].plan \subseteq Entries
        /\ pc[p] = "rows" =>
              /\ work[p].batch \subseteq Entries
              /\ \A e \in work[p].batch : RowsOf(p, e) \subseteq DOMAIN rows \cup work[p].todo
        /\ pc[p] = "delete" => work[p].stale \cap Named(manifest) = {}
        /\ pc[p] = "sweep" => Listed(work[p], rows, manifest)

\* What a search keeps of a manifest are the rows that manifest names.
Cached ==
    /\ view = [identity |-> view.identity, names |-> view.names,
               files |-> view.files, found |-> view.found]
    /\ view.identity = Free \/ (view.identity \in Nat /\ view.identity <= identity)
    /\ view.identity = identity /\ view.found # Free => DOMAIN view.found = Named(manifest)

IndexInv ==
    /\ Shaped /\ LockHeld /\ Versions /\ Writing /\ Cached
    /\ ManifestNamesRows /\ SearchesPublished
-----------------------------------------------------------------------------
(* Versions and the rows they name.                                          *)
LEMMA NamedIn == ASSUME NEW m, NEW v \in m PROVE v.ids \subseteq Named(m)
    BY DEF Named

\* The version a process writes of an entry.
LEMMA VersionFields ==
    ASSUME NEW p \in Procs, NEW e \in Entries
    PROVE  /\ VersionOf(p, e).entry = e /\ VersionOf(p, e).hash = Checkout[p][e]
           /\ VersionOf(p, e).ids = RowsOf(p, e)
           /\ VersionOf(p, e).rule = (IF p \in Publishers THEN NoRule ELSE Rule[p])
           /\ RowsOf(p, e) \subseteq IdsOf(e, Checkout[p][e])
    BY DEF VersionOf, Version, RowsOf

\* A version of the state a process has is of that process's rule, whichever
\* process wrote it.
LEMMA RuleOfHash ==
    ASSUME IndexAssumption, NEW p \in Procs, NEW q \in Procs, NEW e \in Entries,
           Checkout[q][e] = Checkout[p][e]
    PROVE  derivation(VersionOf(q, e), p) = Rule[p]
<1>1. Rule[q] = Rule[p] /\ Checkout[q][e] # Ancient
      BY DEF IndexAssumption, RuleAssumption
<1> QED BY <1>1, VersionFields DEF derivation

\* Chunk ids of two versions are apart unless they are of one state of one entry.
LEMMA IdsApart ==
    ASSUME NEW e, NEW h, NEW d, NEW k, NEW id \in IdsOf(e, h), id \in IdsOf(d, k)
    PROVE  e = d /\ h = k
    BY DEF IdsOf

\* Of two versions in the manifest that name one row, each is the other.
LEMMA OneNames ==
    ASSUME Versions, NEW v \in manifest, NEW w \in manifest, NEW id \in v.ids, id \in w.ids
    PROVE  v = w
<1>1. id \in IdsOf(v.entry, v.hash) /\ id \in IdsOf(w.entry, w.hash)
      BY DEF Versions
<1>2. v.entry = w.entry /\ v.hash = w.hash
      BY <1>1, IdsApart
<1> QED BY <1>2 DEF Versions

\* What a commit makes of the manifest: kept versions and those of its batch.
LEMMA MergedParts ==
    ASSUME NEW p \in Procs, NEW batch \in SUBSET Entries, NEW v \in Merged(p, manifest, batch)
    PROVE  \/ /\ v \in manifest
              /\ p \notin Forced => \A e \in batch :
                    ~ (v.entry = e /\ v.hash = Checkout[p][e])
              /\ p \in Forced => \A e \in batch :
                    v.entry # e \/ derivation(v, p) # derivation(VersionOf(p, e), p)
           \/ \E e \in batch : v = VersionOf(p, e)
<1> DEFINE new == {VersionOf(p, e) : e \in batch}
<1>1. \A e \in batch : /\ VersionOf(p, e) \in new
                       /\ VersionOf(p, e).entry = e /\ VersionOf(p, e).hash = Checkout[p][e]
      BY VersionFields
<1>2. v \in new => \E e \in batch : v = VersionOf(p, e)
      OBVIOUS
<1> HIDE DEF new
<1>3. CASE p \in Forced
  <2>1. v \in SetDerivationVersions(manifest, p, new)
        BY <1>3 DEF Merged, new
  <2> QED BY <1>1, <1>2, <1>3, <2>1 DEF SetDerivationVersions
<1>4. CASE p \notin Forced
  <2>1. v \in AddVersions(manifest, new)
        BY <1>4 DEF Merged, new
  <2> QED BY <1>1, <1>2, <1>4, <2>1 DEF AddVersions
<1> QED BY <1>3, <1>4

LEMMA MergedHas ==
    ASSUME NEW p \in Procs, NEW batch \in SUBSET Entries
    PROVE  /\ \A e \in batch : VersionOf(p, e) \in Merged(p, manifest, batch)
           /\ \A v \in manifest \ Merged(p, manifest, batch) :
                 IF p \in Forced
                 THEN \E e \in batch : v.entry = e /\ derivation(v, p) = derivation(VersionOf(p, e), p)
                 ELSE \E e \in batch : v.entry = e /\ v.hash = Checkout[p][e]
<1> DEFINE new == {VersionOf(p, e) : e \in batch}
<1>1. \A e \in batch : /\ VersionOf(p, e) \in new
                       /\ VersionOf(p, e).entry = e /\ VersionOf(p, e).hash = Checkout[p][e]
      BY VersionFields
<1>2. \A v \in new : \E e \in batch : v = VersionOf(p, e)
      OBVIOUS
<1> HIDE DEF new
<1>3. CASE p \in Forced
  <2>1. Merged(p, manifest, batch) = SetDerivationVersions(manifest, p, new)
        BY <1>3 DEF Merged, new
  <2> QED BY <1>1, <1>2, <1>3, <2>1 DEF SetDerivationVersions
<1>4. CASE p \notin Forced
  <2>1. Merged(p, manifest, batch) = AddVersions(manifest, new)
        BY <1>4 DEF Merged, new
  <2> QED BY <1>1, <1>2, <1>4, <2>1 DEF AddVersions
<1> QED BY <1>3, <1>4

\* The merged manifest keeps one version per state, each of its hash's rule.
LEMMA MergedVersions ==
    ASSUME IndexAssumption, Versions, NEW p \in Procs, NEW batch \in SUBSET Entries,
           manifest' = Merged(p, manifest, batch)
    PROVE  Versions'
<1>1. ASSUME NEW v \in manifest'
      PROVE  /\ v.entry \in Entries /\ v.ids \subseteq IdsOf(v.entry, v.hash)
             /\ \A q \in Procs : v.hash = Checkout[q][v.entry] => derivation(v, q) = Rule[q]
  <2>1. CASE v \in manifest
        BY <2>1 DEF Versions
  <2>2. CASE \E e \in batch : v = VersionOf(p, e)
    <3>1. PICK e \in batch : v = VersionOf(p, e)
          BY <2>2
    <3>2. v.entry = e /\ v.hash = Checkout[p][e] /\ v.ids \subseteq IdsOf(e, Checkout[p][e])
          BY <3>1, VersionFields
    <3> QED BY <3>1, <3>2, RuleOfHash
  <2> QED BY <1>1, <2>1, <2>2, MergedParts
<1>2. ASSUME NEW v \in manifest', NEW e \in batch, v.entry = e, v.hash = Checkout[p][e]
      PROVE  v = VersionOf(p, e)
  <2>1. CASE \E d \in batch : v = VersionOf(p, d)
        BY <1>2, <2>1, VersionFields
  <2>2. CASE v \in manifest /\ p \notin Forced /\ \A d \in batch :
                ~ (v.entry = d /\ v.hash = Checkout[p][d])
        BY <1>2, <2>2
  <2>3. CASE v \in manifest /\ p \in Forced /\ \A d \in batch :
                v.entry # d \/ derivation(v, p) # derivation(VersionOf(p, d), p)
    <3>1. derivation(v, p) = Rule[p]
          BY <1>2, <2>3 DEF Versions
    <3>2. derivation(VersionOf(p, e), p) = Rule[p]
          BY RuleOfHash
    <3> QED BY <1>2, <2>3, <3>1, <3>2
  <2> QED BY <1>2, <2>1, <2>2, <2>3, MergedParts
<1>3. ASSUME NEW v \in manifest', NEW w \in manifest', v.entry = w.entry, v.hash = w.hash
      PROVE  v = w
  <2>1. CASE v \in manifest /\ w \in manifest
        BY <1>3, <2>1 DEF Versions
  <2>2. CASE \E e \in batch : v = VersionOf(p, e)
        BY <1>2, <1>3, <2>2, VersionFields
  <2>3. CASE \E e \in batch : w = VersionOf(p, e)
        BY <1>2, <1>3, <2>3, VersionFields
  <2> QED BY <1>3, <2>1, <2>2, <2>3, MergedParts
<1> QED BY <1>1, <1>3 DEF Versions

\* What the commit deletes, no version it leaves names.
LEMMA ReplacedUnnamed ==
    ASSUME IndexAssumption, Versions, NEW p \in Procs, NEW batch \in SUBSET Entries
    PROVE  Replaced(p, manifest, batch) \cap Named(Merged(p, manifest, batch)) = {}
<1>1. SUFFICES ASSUME NEW id \in Replaced(p, manifest, batch),
                      NEW v \in Merged(p, manifest, batch), id \in v.ids
               PROVE  FALSE
      BY DEF Named
<1>2. PICK w \in manifest : /\ p \in Forced /\ w.entry \in batch /\ derivation(w, p) = Rule[p]
                            /\ id \in w.ids
      BY <1>1 DEF Replaced
<1>3. \A e \in batch : id \notin RowsOf(p, e)
      BY <1>1 DEF Replaced
<1>4. \A e \in batch : v # VersionOf(p, e)
      BY <1>1, <1>3, VersionFields
<1>5. /\ v \in manifest
      /\ \A e \in batch : v.entry # e \/ derivation(v, p) # derivation(VersionOf(p, e), p)
      BY <1>2, <1>4, MergedParts
<1>6. v = w
      BY <1>1, <1>2, <1>5, OneNames
<1>7. derivation(VersionOf(p, w.entry), p) = Rule[p]
      BY <1>2, RuleOfHash
<1> QED BY <1>2, <1>5, <1>6, <1>7

\* What it leaves is there when the rows of its batch are.
LEMMA MergedNames ==
    ASSUME NEW p \in Procs, NEW batch \in SUBSET Entries, ManifestNamesRows,
           \A e \in batch : RowsOf(p, e) \subseteq DOMAIN rows
    PROVE  Named(Merged(p, manifest, batch)) \subseteq DOMAIN rows
<1>1. SUFFICES ASSUME NEW v \in Merged(p, manifest, batch), NEW id \in v.ids
               PROVE  id \in DOMAIN rows
      BY DEF Named
<1>2. CASE v \in manifest
      BY <1>1, <1>2 DEF Named, ManifestNamesRows
<1>3. CASE \E e \in batch : v = VersionOf(p, e)
      BY <1>1, <1>3, VersionFields
<1> QED BY <1>2, <1>3, MergedParts
-----------------------------------------------------------------------------
(* One process moves.                                                        *)
WorkShape(w) ==
    w = [plan |-> w.plan, batch |-> w.batch, todo |-> w.todo, stale |-> w.stale,
         merged |-> w.merged, drop |-> w.drop]

LEMMA IdleShape ==
    /\ WorkShape(IdleWork) /\ IdleWork.plan = {}
    /\ \A x : /\ WorkShape([IdleWork EXCEPT !.plan = x]) /\ [IdleWork EXCEPT !.plan = x].plan = x
              /\ WorkShape([IdleWork EXCEPT !.drop = x]) /\ [IdleWork EXCEPT !.drop = x].plan = {}
              /\ WorkShape([IdleWork EXCEPT !.merged = x]) /\ [IdleWork EXCEPT !.merged = x].plan = {}
              /\ WorkShape([IdleWork EXCEPT !.stale = x]) /\ [IdleWork EXCEPT !.stale = x].plan = {}
              /\ [IdleWork EXCEPT !.stale = x].stale = x
    BY DEF WorkShape, IdleWork

LEMMA ShapeKept ==
    ASSUME NEW w, WorkShape(w), NEW k
    PROVE  /\ \A x : k = [w EXCEPT !.todo = x] =>
                 WorkShape(k) /\ k.plan = w.plan /\ k.batch = w.batch /\ k.todo = x
           /\ \A x : k = [w EXCEPT !.stale = x] => WorkShape(k) /\ k.plan = w.plan /\ k.stale = x
           /\ \A x : k = [w EXCEPT !.merged = x] => WorkShape(k) /\ k.plan = w.plan
<1>1. w = [plan |-> w.plan, batch |-> w.batch, todo |-> w.todo, stale |-> w.stale,
           merged |-> w.merged, drop |-> w.drop]
      BY DEF WorkShape
<1>2. PICK a, b, c, d, e, f : w = [plan |-> a, batch |-> b, todo |-> c, stale |-> d,
                                   merged |-> e, drop |-> f]
      BY <1>1
<1>3. ASSUME NEW x, k = [w EXCEPT !.todo = x]
      PROVE  WorkShape(k) /\ k.plan = w.plan /\ k.batch = w.batch /\ k.todo = x
  <2>1. k = [plan |-> a, batch |-> b, todo |-> x, stale |-> d, merged |-> e, drop |-> f]
        BY <1>2, <1>3
  <2> QED BY <1>2, <2>1 DEF WorkShape
<1>4. ASSUME NEW x, k = [w EXCEPT !.stale = x]
      PROVE  WorkShape(k) /\ k.plan = w.plan /\ k.stale = x
  <2>1. k = [plan |-> a, batch |-> b, todo |-> c, stale |-> x, merged |-> e, drop |-> f]
        BY <1>2, <1>4
  <2> QED BY <1>2, <2>1 DEF WorkShape
<1>5. ASSUME NEW x, k = [w EXCEPT !.merged = x] PROVE WorkShape(k) /\ k.plan = w.plan
  <2>1. k = [plan |-> a, batch |-> b, todo |-> c, stale |-> d, merged |-> x, drop |-> f]
        BY <1>2, <1>5
  <2> QED BY <1>2, <2>1 DEF WorkShape
<1> QED BY <1>3, <1>4, <1>5

\* A process that moves to another place, with the lock where it needs it, leaves
\* the others as they were.
LEMMA Moves ==
    ASSUME IndexAssumption, Shaped, LockHeld, Writing,
           NEW p \in Procs, NEW to \in Places, NEW w, WorkShape(w), w.plan \subseteq Entries,
           pc' = [pc EXCEPT ![p] = to], work' = [work EXCEPT ![p] = w],
           to \in Exclusive => lock' = p,
           lock' = lock \/ lock = Free \/ lock = p,
           to = "drop" => p \in Collectors,
           to = "rows" => /\ w.batch \subseteq Entries
                          /\ \A e \in w.batch : RowsOf(p, e) \subseteq DOMAIN rows' \cup w.todo,
           to = "delete" => w.stale \cap Named(manifest') = {},
           to = "sweep" => Listed(w, rows', manifest'),
           UNCHANGED <<rows, manifest>> \/ pc[p] \in Exclusive,
           identity' \in Nat, crashes' \in Nat
    PROVE  Shaped' /\ LockHeld' /\ Writing'
<1>1. /\ pc'[p] = to /\ \A q \in Procs : q # p => pc'[q] = pc[q]
      /\ pc' \in [Procs -> Places]
      BY DEF Shaped
<1>2. /\ work'[p] = w /\ \A q \in Procs : q # p => work'[q] = work[q]
      /\ work' = [q \in Procs |-> work'[q]]
      BY DEF Shaped
<1>3. Shaped'
      BY <1>1, <1>2 DEF Shaped, WorkShape
<1>4. \A q \in Procs : q # p /\ pc[q] \in Exclusive =>
         lock = q /\ lock' = q /\ pc[p] \notin Exclusive
      BY DEF LockHeld, IndexAssumption
<1>5. LockHeld'
      BY <1>1, <1>4 DEF LockHeld
<1>6. ASSUME NEW q \in Procs
      PROVE  /\ work'[q].plan \subseteq Entries
             /\ pc'[q] = "rows" =>
                   /\ work'[q].batch \subseteq Entries
                   /\ \A e \in work'[q].batch : RowsOf(q, e) \subseteq DOMAIN rows' \cup work'[q].todo
             /\ pc'[q] = "delete" => work'[q].stale \cap Named(manifest') = {}
             /\ pc'[q] = "sweep" => Listed(work'[q], rows', manifest')
  <2>1. CASE q = p
        BY <1>1, <1>2, <2>1
  <2>2. CASE q # p
    <3>1. pc'[q] = pc[q] /\ work'[q] = work[q]
          BY <1>1, <1>2, <2>2
    <3>2. pc[q] \in {"rows", "delete", "sweep"} => rows' = rows /\ manifest' = manifest
          BY <1>4, <2>2 DEF Exclusive
    <3> QED BY <3>1, <3>2 DEF Writing
  <2> QED BY <2>1, <2>2
<1>7. Writing'
  <2>1. \A q \in Procs, e \in Entries : RowsOf(q, e)' = RowsOf(q, e)
        BY DEF RowsOf
  <2> QED BY <1>6, <2>1 DEF Writing, Listed
<1> QED BY <1>3, <1>5, <1>7

\* Nothing a search keeps or the manifest names depends on where processes are.
LEMMA StoreKept ==
    ASSUME IndexInv, UNCHANGED <<rows, manifest, identity, view, found>>
    PROVE  Versions' /\ Cached' /\ ManifestNamesRows' /\ SearchesPublished'
    BY DEF IndexInv, Versions, Cached, ManifestNamesRows, SearchesPublished, Named, derivation

LEMMA SameWork ==
    ASSUME Shaped, NEW p \in Procs, UNCHANGED work
    PROVE  work' = [work EXCEPT ![p] = work[p]] /\ WorkShape(work[p])
    BY DEF Shaped, WorkShape
LEMMA SamePlace ==
    ASSUME Shaped, NEW p \in Procs, UNCHANGED pc
    PROVE  pc' = [pc EXCEPT ![p] = pc[p]] /\ pc[p] \in Places
    BY DEF Shaped
LEMMA PlanTyped ==
    ASSUME IndexInv, NEW p \in Procs
    PROVE  work[p].plan \subseteq Entries /\ WorkShape(work[p]) /\ identity \in Nat /\ crashes \in Nat
    BY DEF IndexInv, Writing, Shaped, WorkShape
\* A process that moves and leaves the rows, the manifest and the searches alone.
LEMMA QuietMove ==
    ASSUME IndexAssumption, IndexInv,
           NEW p \in Procs, NEW to \in Places, NEW w, WorkShape(w), w.plan \subseteq Entries,
           pc' = [pc EXCEPT ![p] = to], work' = [work EXCEPT ![p] = w],
           to \in Exclusive => lock' = p,
           lock' = lock \/ lock = Free \/ lock = p,
           to = "drop" => p \in Collectors,
           to = "rows" => /\ w.batch \subseteq Entries
                          /\ \A e \in w.batch : RowsOf(p, e) \subseteq DOMAIN rows \cup w.todo,
           to \notin {"delete", "sweep"}, crashes' \in Nat,
           UNCHANGED <<rows, manifest, identity, view, found>>
    PROVE  IndexInv'
<1>1. Shaped /\ LockHeld /\ Writing /\ identity' \in Nat
      BY DEF IndexInv, Shaped
<1>2. to = "rows" => /\ w.batch \subseteq Entries
                     /\ \A e \in w.batch : RowsOf(p, e) \subseteq DOMAIN rows' \cup w.todo
      OBVIOUS
<1>3. Shaped' /\ LockHeld' /\ Writing'
      BY <1>1, <1>2, Moves
<1> QED BY <1>3, StoreKept DEF IndexInv

LEMMA BeginFillStep == ASSUME IndexAssumption, IndexInv, NEW p \in Procs, BeginFill(p) PROVE IndexInv'
<1> DEFINE to == IF fill = Free THEN "plan" ELSE "waiting"
<1>1. pc' = [pc EXCEPT ![p] = to] /\ UNCHANGED <<work, lock, crashes, rows, manifest, identity, view, found>>
      BY DEF BeginFill, Go, disk
<1>2. to \in Places /\ to \notin Exclusive /\ to \notin {"drop", "rows", "delete", "sweep"}
      BY DEF Places, Exclusive
<1>3. work' = [work EXCEPT ![p] = work[p]]
      BY <1>1, SameWork DEF IndexInv
<1> HIDE DEF to
<1> QED BY <1>1, <1>2, <1>3, PlanTyped, QuietMove

LEMMA GetsFillStep == ASSUME IndexAssumption, IndexInv, NEW p \in Procs, GetsFill(p) PROVE IndexInv'
<1>1. pc' = [pc EXCEPT ![p] = "plan"] /\ UNCHANGED <<work, lock, crashes, rows, manifest, identity, view, found>>
      BY DEF GetsFill, Go, disk
<1>2. "plan" \in Places /\ "plan" \notin Exclusive
      BY DEF Places, Exclusive
<1>3. work' = [work EXCEPT ![p] = work[p]]
      BY <1>1, SameWork DEF IndexInv
<1> QED BY <1>1, <1>2, <1>3, PlanTyped, QuietMove

LEMMA PlanStep == ASSUME IndexAssumption, IndexInv, NEW p \in Procs, Plan(p) PROVE IndexInv'
<1> DEFINE plan == {e \in Entries : p \in Forced \/ ~HasVersion(manifest, e, Checkout[p][e])}
<1>1. /\ pc' = [pc EXCEPT ![p] = "embed"] /\ work' = [work EXCEPT ![p] = [IdleWork EXCEPT !.plan = plan]]
      /\ UNCHANGED <<lock, crashes, rows, manifest, identity, view, found>>
      BY DEF Plan, Go, Works, disk
<1>2. "embed" \in Places /\ "embed" \notin Exclusive
      BY DEF Places, Exclusive
<1>3. plan \subseteq Entries
      OBVIOUS
<1> HIDE DEF plan
<1>4. PICK w : w = [IdleWork EXCEPT !.plan = plan]
      OBVIOUS
<1>5. WorkShape(w) /\ w.plan \subseteq Entries
      BY <1>3, <1>4, IdleShape
<1>6. work' = [work EXCEPT ![p] = w]
      BY <1>1, <1>4
<1> QED BY <1>1, <1>2, <1>5, <1>6, PlanTyped, QuietMove

LEMMA EntryPublishedStep ==
    ASSUME IndexAssumption, IndexInv, NEW p \in Procs, EntryPublished(p) PROVE IndexInv'
<1>1. /\ pc' = [pc EXCEPT ![p] = "embed"]
      /\ UNCHANGED <<lock, crashes, rows, manifest, identity, view, found>>
      BY DEF EntryPublished, Go, disk
<1>2. "embed" \in Places /\ "embed" \notin Exclusive
      BY DEF Places, Exclusive
<1>3. PICK e \in Entries : work' = [work EXCEPT ![p] = [IdleWork EXCEPT !.plan = {e}]]
      BY DEF EntryPublished, Works
<1>4. PICK plan \in SUBSET Entries : plan = {e}
      OBVIOUS
<1>5. PICK w : w = [IdleWork EXCEPT !.plan = plan]
      OBVIOUS
<1>6. WorkShape(w) /\ w.plan \subseteq Entries
      BY <1>5, IdleShape
<1>7. work' = [work EXCEPT ![p] = w]
      BY <1>3, <1>4, <1>5
<1> QED BY <1>1, <1>2, <1>6, <1>7, PlanTyped, QuietMove

LEMMA CommitStep == ASSUME IndexAssumption, IndexInv, NEW p \in Procs, Commit(p) PROVE IndexInv'
<1>1. /\ pc' = [pc EXCEPT ![p] = "rows"] /\ lock = Free /\ lock' = p
      /\ UNCHANGED <<crashes, rows, manifest, identity, view, found>>
      BY DEF Commit, Go, disk
<1>2. "rows" \in Places /\ "rows" \notin {"drop", "delete", "sweep"}
      BY DEF Places
<1>3. PICK batch \in (SUBSET work[p].plan) \ {{}} :
        work' = [work EXCEPT ![p] = [work[p] EXCEPT !.batch = batch,
                                       !.todo = UNION {RowsOf(p, e) : e \in batch}]]
      BY DEF Commit, Works
<1>4. PICK todo : todo = UNION {RowsOf(p, e) : e \in batch}
      OBVIOUS
<1>5. PICK w : w = [work[p] EXCEPT !.batch = batch, !.todo = todo]
      OBVIOUS
<1>6. WorkShape(w) /\ w.plan = work[p].plan /\ w.batch = batch /\ w.todo = todo
  <2>1. PICK u : u = work[p]
        OBVIOUS
  <2>2. u = [plan |-> u.plan, batch |-> u.batch, todo |-> u.todo, stale |-> u.stale,
             merged |-> u.merged, drop |-> u.drop]
        BY <2>1, PlanTyped DEF WorkShape
  <2>3. PICK a, b, c, d, e, f : u = [plan |-> a, batch |-> b, todo |-> c, stale |-> d,
                                     merged |-> e, drop |-> f]
        BY <2>2
  <2>4. w = [u EXCEPT !.batch = batch, !.todo = todo]
        BY <1>5, <2>1
  <2>5. w = [plan |-> a, batch |-> batch, todo |-> todo, stale |-> d, merged |-> e, drop |-> f]
        BY <2>3, <2>4
  <2> QED BY <2>1, <2>3, <2>5 DEF WorkShape
<1>7. /\ w.batch \subseteq Entries
      /\ \A e \in w.batch : RowsOf(p, e) \subseteq DOMAIN rows \cup w.todo
      BY <1>4, <1>6, PlanTyped
<1>8. work' = [work EXCEPT ![p] = w] /\ w.plan \subseteq Entries /\ crashes' \in Nat
      BY <1>1, <1>3, <1>4, <1>5, <1>6, PlanTyped
<1> QED BY <1>1, <1>2, <1>6, <1>7, <1>8, QuietMove
LEMMA AlreadyPublishedStep ==
    ASSUME IndexAssumption, IndexInv, NEW p \in Procs, AlreadyPublished(p) PROVE IndexInv'
<1>1. /\ pc' = [pc EXCEPT ![p] = "refresh"] /\ work' = [work EXCEPT ![p] = IdleWork]
      /\ UNCHANGED <<lock, crashes, rows, manifest, identity, view, found>>
      BY DEF AlreadyPublished, Go, Works, disk
<1>2. "refresh" \in Places /\ "refresh" \notin Exclusive
      BY DEF Places, Exclusive
<1>3. WorkShape(IdleWork) /\ IdleWork.plan \subseteq Entries
      BY IdleShape
<1> QED BY <1>1, <1>2, <1>3, PlanTyped, QuietMove

LEMMA CommittedStep == ASSUME IndexAssumption, IndexInv, NEW p \in Procs, Committed(p) PROVE IndexInv'
<1>1. PICK left : left = work[p].plan \ work[p].batch
      OBVIOUS
<1>2. PICK to \in {"refresh", "embed"} : pc' = [pc EXCEPT ![p] = to]
      BY DEF Committed, At
<1>3. /\ work' = [work EXCEPT ![p] = [IdleWork EXCEPT !.plan = left]]
      /\ pc[p] = "delete" /\ lock' = Free /\ UNCHANGED <<crashes, rows, manifest, identity, view, found>>
      BY <1>1 DEF Committed, Works, disk
<1>4. to \in Places /\ to \notin Exclusive /\ to \notin {"drop", "rows", "delete", "sweep"}
      BY DEF Places, Exclusive
<1>5. PICK w : w = [IdleWork EXCEPT !.plan = left]
      OBVIOUS
<1>6. WorkShape(w) /\ w.plan \subseteq Entries
  <2>1. left \subseteq Entries
        BY <1>1, PlanTyped
  <2> QED BY <2>1, <1>5, IdleShape
<1>7. work' = [work EXCEPT ![p] = w]
      BY <1>3, <1>5
<1>8. lock = p
      BY <1>3 DEF IndexInv, LockHeld, Exclusive
<1> QED BY <1>2, <1>3, <1>4, <1>6, <1>7, <1>8, PlanTyped, QuietMove

\* The steps that only take a process on, with the work it has.
LEMMA PassStep ==
    ASSUME IndexAssumption, IndexInv, NEW p \in Procs,
           NothingToFill(p) \/ SkipRefresh(p) \/ Refresh(p) \/ Refreshed(p)
    PROVE  IndexInv'
<1>1. PICK to \in {"refresh", "close", "segment"} : pc' = [pc EXCEPT ![p] = to] /\ (to = "segment" => lock' = p)
      BY DEF NothingToFill, SkipRefresh, Refresh, Refreshed, Go
<1>2. UNCHANGED <<work, crashes, rows, manifest, identity, view, found>>
      BY DEF NothingToFill, SkipRefresh, Refresh, Refreshed, disk
<1>3. lock' = lock \/ lock = Free \/ lock = p
      BY DEF NothingToFill, SkipRefresh, Refresh, Refreshed, Go, IndexInv, LockHeld, Exclusive
<1>4. to \in Places /\ to \notin {"drop", "rows", "delete", "sweep"} /\ (to \in Exclusive => to = "segment")
      BY DEF Places, Exclusive
<1>5. work' = [work EXCEPT ![p] = work[p]]
      BY <1>2, SameWork DEF IndexInv
<1> QED BY <1>1, <1>2, <1>3, <1>4, <1>5, PlanTyped, QuietMove

LEMMA WriteSegmentStep ==
    ASSUME IndexAssumption, IndexInv, NEW p \in Procs, WriteSegment(p) PROVE IndexInv'
<1>1. /\ pc[p] = "segment" /\ pc' = [pc EXCEPT ![p] = "merge"]
      /\ UNCHANGED <<lock, crashes, rows, manifest, identity, view, found>>
      BY DEF WriteSegment, Go
<1>2. PICK merged : work' = [work EXCEPT ![p] = [IdleWork EXCEPT !.merged = merged]]
      BY DEF WriteSegment, Works
<1>3. PICK w : w = [IdleWork EXCEPT !.merged = merged]
      OBVIOUS
<1>4. WorkShape(w) /\ w.plan \subseteq Entries
      BY <1>3, IdleShape
<1>5. work' = [work EXCEPT ![p] = w]
      BY <1>2, <1>3
<1>6. lock = p /\ "merge" \in Places
      BY <1>1 DEF IndexInv, LockHeld, Exclusive, Places
<1> QED BY <1>1, <1>4, <1>5, <1>6, PlanTyped, QuietMove

LEMMA RemoveMergedStep ==
    ASSUME IndexAssumption, IndexInv, NEW p \in Procs, RemoveMerged(p) PROVE IndexInv'
<1>1. /\ pc[p] = "merge" /\ UNCHANGED <<pc, lock, crashes, rows, manifest, identity, view, found>>
      BY DEF RemoveMerged
<1>2. PICK merged : work' = [work EXCEPT ![p] = [work[p] EXCEPT !.merged = merged]]
      BY DEF RemoveMerged, Works
<1>3. PICK w : w = [work[p] EXCEPT !.merged = merged]
      OBVIOUS
<1>4. WorkShape(w) /\ w.plan \subseteq Entries
      BY <1>3, ShapeKept, PlanTyped
<1>5. work' = [work EXCEPT ![p] = w]
      BY <1>2, <1>3
<1>6. lock = p /\ "merge" \in Places /\ pc' = [pc EXCEPT ![p] = "merge"]
      BY <1>1, SamePlace DEF IndexInv, LockHeld, Exclusive, Places
<1> QED BY <1>1, <1>4, <1>5, <1>6, PlanTyped, QuietMove

\* A call that ends, by itself or because it is stopped, gives up its locks.
LEMMA EndsStep ==
    ASSUME IndexAssumption, IndexInv, NEW p \in Procs, Ends(p), crashes' \in Nat,
           UNCHANGED <<rows, manifest, identity, view, found>>
    PROVE  IndexInv'
<1>1. /\ pc' = [pc EXCEPT ![p] = "idle"] /\ work' = [work EXCEPT ![p] = IdleWork]
      /\ lock' = lock \/ lock = p
      BY DEF Ends, Works
<1>2. "idle" \in Places /\ "idle" \notin Exclusive
      BY DEF Places, Exclusive
<1>3. WorkShape(IdleWork) /\ IdleWork.plan \subseteq Entries
      BY IdleShape
<1> QED BY <1>1, <1>2, <1>3, QuietMove

LEMMA StopStep ==
    ASSUME IndexAssumption, IndexInv, NEW p \in Procs, Close(p) \/ Fails(p) \/ Crash(p) \/ Dropped(p)
    PROVE  IndexInv'
<1>1. Ends(p) /\ UNCHANGED <<rows, manifest, identity, view, found>>
      BY DEF Close, Fails, Crash, Dropped, disk
<1>2. crashes' = crashes \/ crashes' = crashes + 1
      BY DEF Close, Fails, Crash, Dropped
<1>3. crashes \in Nat
      BY PlanTyped
<1>4. crashes' \in Nat
      BY <1>2, <1>3
<1> QED BY <1>1, <1>4, EndsStep

LEMMA DropVersionsStep ==
    ASSUME IndexAssumption, IndexInv, NEW p \in Procs, DropVersions(p) PROVE IndexInv'
<1>1. /\ p \in Collectors /\ pc' = [pc EXCEPT ![p] = "drop"] /\ lock = Free /\ lock' = p
      /\ UNCHANGED <<crashes, rows, manifest, identity, view, found>>
      BY DEF DropVersions, Go, disk
<1>2. PICK drop : work' = [work EXCEPT ![p] = [IdleWork EXCEPT !.drop = drop]]
      BY DEF DropVersions, Works
<1>3. PICK w : w = [IdleWork EXCEPT !.drop = drop]
      OBVIOUS
<1>4. WorkShape(w) /\ w.plan \subseteq Entries
      BY <1>3, IdleShape
<1>5. work' = [work EXCEPT ![p] = w] /\ "drop" \in Places
      BY <1>2, <1>3 DEF Places
<1> QED BY <1>1, <1>4, <1>5, PlanTyped, QuietMove
\* Where the rows change but no name, searches keep what they have.
LEMMA NamesKept ==
    ASSUME IndexInv, UNCHANGED <<manifest, identity, view, found>>
    PROVE  /\ Versions' /\ Cached' /\ SearchesPublished' /\ Named(manifest') = Named(manifest)
           /\ identity' \in Nat
    BY DEF IndexInv, Shaped, Versions, Cached, SearchesPublished, Named, derivation

LEMMA WriteRowStep == ASSUME IndexAssumption, IndexInv, NEW p \in Procs, WriteRow(p) PROVE IndexInv'
<1>1. /\ pc[p] = "rows" /\ UNCHANGED <<pc, lock, crashes, manifest, identity, view, found>>
      BY DEF WriteRow
<1>2. PICK id \in work[p].todo :
        /\ DOMAIN rows' = DOMAIN rows \cup {id}
        /\ work' = [work EXCEPT ![p] = [work[p] EXCEPT !.todo = work[p].todo \ {id}]]
      BY DEF WriteRow, Works
<1>3. PICK left : left = work[p].todo \ {id}
      OBVIOUS
<1>4. PICK w : w = [work[p] EXCEPT !.todo = left]
      OBVIOUS
<1>5. WorkShape(w) /\ w.plan = work[p].plan /\ w.batch = work[p].batch /\ w.todo = left
      BY <1>4, ShapeKept, PlanTyped
<1>6. work' = [work EXCEPT ![p] = w]
      BY <1>2, <1>3, <1>4
<1>7. /\ lock = p /\ "rows" \in Places /\ pc' = [pc EXCEPT ![p] = "rows"]
      /\ pc[p] \in Exclusive
      BY <1>1, SamePlace DEF IndexInv, LockHeld, Exclusive, Places
<1>8. /\ w.batch \subseteq Entries
      /\ \A e \in w.batch : RowsOf(p, e) \subseteq DOMAIN rows' \cup w.todo
      BY <1>1, <1>2, <1>3, <1>5 DEF IndexInv, Writing
<1>9. w.plan \subseteq Entries /\ crashes' \in Nat
      BY <1>1, <1>5, PlanTyped
<1>10. Versions' /\ Cached' /\ SearchesPublished' /\ Named(manifest') = Named(manifest) /\ identity' \in Nat
       BY <1>1, NamesKept
<1>11. ManifestNamesRows'
       BY <1>2, <1>10 DEF ManifestNamesRows, IndexInv
<1>12. Shaped' /\ LockHeld' /\ Writing'
       BY <1>1, <1>5, <1>6, <1>7, <1>8, <1>9, <1>10, Moves DEF IndexInv
<1> QED BY <1>10, <1>11, <1>12 DEF IndexInv

LEMMA DeleteRowStep == ASSUME IndexAssumption, IndexInv, NEW p \in Procs, DeleteRow(p) PROVE IndexInv'
<1>1. /\ pc[p] = "delete" /\ UNCHANGED <<pc, lock, crashes, manifest, identity, view, found>>
      BY DEF DeleteRow
<1>2. PICK id \in work[p].stale :
        /\ rows' = Restrict(rows, DOMAIN rows \ {id})
        /\ work' = [work EXCEPT ![p] = [work[p] EXCEPT !.stale = work[p].stale \ {id}]]
      BY DEF DeleteRow, Works
<1>3. PICK left : left = work[p].stale \ {id}
      OBVIOUS
<1>4. PICK w : w = [work[p] EXCEPT !.stale = left]
      OBVIOUS
<1>5. WorkShape(w) /\ w.plan = work[p].plan /\ w.stale = left
      BY <1>4, ShapeKept, PlanTyped
<1>6. work' = [work EXCEPT ![p] = w]
      BY <1>2, <1>3, <1>4
<1>7. /\ lock = p /\ "delete" \in Places /\ pc' = [pc EXCEPT ![p] = "delete"]
      /\ pc[p] \in Exclusive
      BY <1>1, SamePlace DEF IndexInv, LockHeld, Exclusive, Places
<1>8. work[p].stale \cap Named(manifest) = {}
      BY <1>1 DEF IndexInv, Writing
<1>9. w.plan \subseteq Entries /\ crashes' \in Nat
      BY <1>1, <1>5, PlanTyped
<1>10. Versions' /\ Cached' /\ SearchesPublished' /\ Named(manifest') = Named(manifest) /\ identity' \in Nat
       BY <1>1, NamesKept
<1>11. w.stale \cap Named(manifest') = {}
       BY <1>3, <1>5, <1>8, <1>10
<1>12. ManifestNamesRows'
       BY <1>2, <1>8, <1>10 DEF ManifestNamesRows, IndexInv, Restrict
<1>13. Shaped' /\ LockHeld' /\ Writing'
       BY <1>1, <1>5, <1>6, <1>7, <1>9, <1>10, <1>11, Moves DEF IndexInv
<1> QED BY <1>10, <1>12, <1>13 DEF IndexInv

\* What is listed is every row without a name.
LEMMA ListOrphansStep == ASSUME IndexAssumption, IndexInv, NEW p \in Procs, ListOrphans(p) PROVE IndexInv'
<1>1. /\ pc[p] = "delete" /\ pc' = [pc EXCEPT ![p] = "sweep"]
      /\ UNCHANGED <<lock, crashes, rows, manifest, identity, view, found>>
      BY DEF ListOrphans, Go, disk
<1>2. PICK todo : todo = Orphans
      OBVIOUS
<1>3. PICK w : w = [IdleWork EXCEPT !.todo = todo]
      OBVIOUS
<1>4. WorkShape(w) /\ w.plan = {} /\ w.todo = todo
  <2>1. w = [plan |-> {}, batch |-> {}, todo |-> todo, stale |-> {}, merged |-> {}, drop |-> {}]
        BY <1>3 DEF IdleWork
  <2> QED BY <2>1 DEF WorkShape
<1>5. work' = [work EXCEPT ![p] = w]
      BY <1>2, <1>3 DEF ListOrphans, Works
<1>6. lock = p /\ "sweep" \in Places /\ pc[p] \in Exclusive
      BY <1>1 DEF IndexInv, LockHeld, Exclusive, Places
<1>7. Versions' /\ Cached' /\ SearchesPublished' /\ Named(manifest') = Named(manifest) /\ identity' \in Nat
      BY <1>1, NamesKept
<1>8. Listed(w, rows', manifest')
      BY <1>1, <1>2, <1>4, <1>7 DEF Listed, Orphans
<1>9. ManifestNamesRows' /\ w.plan \subseteq Entries /\ crashes' \in Nat
      BY <1>1, <1>4, <1>7, PlanTyped DEF ManifestNamesRows, IndexInv
<1>10. Shaped' /\ LockHeld' /\ Writing'
       BY <1>1, <1>4, <1>5, <1>6, <1>7, <1>8, <1>9, Moves DEF IndexInv
<1> QED BY <1>7, <1>9, <1>10 DEF IndexInv

LEMMA SweepOrphanStep == ASSUME IndexAssumption, IndexInv, NEW p \in Procs, SweepOrphan(p) PROVE IndexInv'
<1>1. /\ pc[p] = "sweep" /\ UNCHANGED <<pc, lock, crashes, manifest, identity, view, found>>
      BY DEF SweepOrphan
<1>2. PICK id \in work[p].todo :
        /\ rows' = Restrict(rows, DOMAIN rows \ {id})
        /\ work' = [work EXCEPT ![p] = [work[p] EXCEPT !.todo = work[p].todo \ {id}]]
      BY DEF SweepOrphan, Works
<1>3. PICK left : left = work[p].todo \ {id}
      OBVIOUS
<1>4. PICK w : w = [work[p] EXCEPT !.todo = left]
      OBVIOUS
<1>5. WorkShape(w) /\ w.plan = work[p].plan /\ w.todo = left
      BY <1>4, ShapeKept, PlanTyped
<1>6. work' = [work EXCEPT ![p] = w]
      BY <1>2, <1>3, <1>4
<1>7. /\ lock = p /\ "sweep" \in Places /\ pc' = [pc EXCEPT ![p] = "sweep"]
      /\ pc[p] \in Exclusive
      BY <1>1, SamePlace DEF IndexInv, LockHeld, Exclusive, Places
<1>8. Listed(work[p], rows, manifest)
      BY <1>1 DEF IndexInv, Writing
<1>9. w.plan \subseteq Entries /\ crashes' \in Nat
      BY <1>1, <1>5, PlanTyped
<1>10. Versions' /\ Cached' /\ SearchesPublished' /\ Named(manifest') = Named(manifest) /\ identity' \in Nat
       BY <1>1, NamesKept
<1>11. DOMAIN rows' = DOMAIN rows \ {id}
       BY <1>2 DEF Restrict
<1>12. Listed(w, rows', manifest')
       BY <1>3, <1>5, <1>8, <1>10, <1>11 DEF Listed
<1>13. ManifestNamesRows'
       BY <1>8, <1>10, <1>11 DEF ManifestNamesRows, IndexInv, Listed
<1>14. Shaped' /\ LockHeld' /\ Writing'
       BY <1>1, <1>5, <1>6, <1>7, <1>9, <1>10, <1>12, Moves DEF IndexInv
<1> QED BY <1>10, <1>13, <1>14 DEF IndexInv

\* A save replaces the manifest file: no parsed view is of the new one.
LEMMA SavedCached ==
    ASSUME IndexAssumption, IndexInv, identity' = identity + 1, UNCHANGED <<view, found>>
    PROVE  Cached' /\ SearchesPublished' /\ identity' \in Nat
<1>1. identity \in Nat
      BY DEF IndexInv, Shaped
<1>2. ~ (identity + 1 <= identity) /\ identity + 1 \in Nat
      BY <1>1
<1>3. view.identity \in Nat /\ view.identity <= identity => view.identity <= identity + 1
      BY <1>1
<1>4. view.identity # identity + 1
      BY <1>2 DEF IndexInv, Cached, IndexAssumption
<1>5. SearchesPublished'
      BY DEF IndexInv, SearchesPublished
<1> QED BY <1>2, <1>3, <1>4, <1>5 DEF IndexInv, Cached
LEMMA SaveStep == ASSUME IndexAssumption, IndexInv, NEW p \in Procs, Save(p) PROVE IndexInv'
<1>1. /\ pc[p] = "rows" /\ pc' = [pc EXCEPT ![p] = "delete"] /\ work[p].todo = {}
      /\ manifest' = Merged(p, manifest, work[p].batch) /\ identity' = identity + 1
      /\ UNCHANGED <<rows, lock, crashes, view, found>>
      BY DEF Save, Go
<1>2. PICK batch \in SUBSET Entries : batch = work[p].batch
      BY <1>1 DEF IndexInv, Writing
<1>3. PICK stale : stale = Replaced(p, manifest, batch)
      OBVIOUS
<1>4. PICK w : w = [work[p] EXCEPT !.stale = stale]
      OBVIOUS
<1>5. WorkShape(w) /\ w.plan = work[p].plan /\ w.stale = stale
      BY <1>4, ShapeKept, PlanTyped
<1>6. work' = [work EXCEPT ![p] = w]
      BY <1>2, <1>3, <1>4 DEF Save, Works
<1>7. Versions /\ ManifestNamesRows
      BY DEF IndexInv
<1>8. Versions'
      BY <1>1, <1>2, <1>7, MergedVersions
<1>9. ManifestNamesRows'
  <2>1. \A e \in batch : RowsOf(p, e) \subseteq DOMAIN rows
        BY <1>1, <1>2 DEF IndexInv, Writing
  <2>2. Named(Merged(p, manifest, batch)) \subseteq DOMAIN rows
        BY <1>7, <2>1, MergedNames
  <2>3. \A m : manifest' = m /\ Named(m) \subseteq DOMAIN rows => ManifestNamesRows'
        BY <1>1 DEF ManifestNamesRows, Named
  <2> QED BY <1>1, <1>2, <2>2, <2>3
<1>10. w.stale \cap Named(manifest') = {}
       BY <1>1, <1>2, <1>3, <1>5, <1>7, ReplacedUnnamed
<1>11. Cached' /\ SearchesPublished' /\ identity' \in Nat
       BY <1>1, SavedCached
<1>12. lock = p /\ "delete" \in Places /\ pc[p] \in Exclusive
       BY <1>1 DEF IndexInv, LockHeld, Exclusive, Places
<1>13. w.plan \subseteq Entries /\ crashes' \in Nat
       BY <1>1, <1>5, PlanTyped
<1>14. Shaped' /\ LockHeld' /\ Writing'
       BY <1>1, <1>5, <1>6, <1>10, <1>11, <1>12, <1>13, Moves DEF IndexInv
<1> QED BY <1>8, <1>9, <1>11, <1>14 DEF IndexInv

LEMMA SaveDroppedStep ==
    ASSUME IndexAssumption, IndexInv, NEW p \in Procs, SaveDropped(p) PROVE IndexInv'
<1>1. PICK kept : kept = DropGroups(manifest, p, work[p].drop)
      OBVIOUS
<1>2. /\ pc[p] = "drop" /\ pc' = [pc EXCEPT ![p] = "delete"] /\ manifest' = kept
      /\ identity' = (IF kept = manifest THEN identity ELSE identity + 1)
      /\ UNCHANGED <<rows, lock, crashes, view, found>>
      BY <1>1 DEF SaveDropped, Go
<1>3. kept \subseteq manifest
      BY <1>1 DEF DropGroups
<1>4. PICK stale : stale = Named(manifest \ kept)
      OBVIOUS
<1>5. PICK w : w = [IdleWork EXCEPT !.stale = stale]
      OBVIOUS
<1>6. WorkShape(w) /\ w.plan \subseteq Entries /\ w.stale = stale
      BY <1>5, IdleShape
<1>7. work' = [work EXCEPT ![p] = w]
      BY <1>1, <1>4, <1>5 DEF SaveDropped, Works
<1>8. Versions /\ ManifestNamesRows
      BY DEF IndexInv
<1>9. Versions'
      BY <1>2, <1>3, <1>8 DEF Versions, derivation
<1>10. stale \cap Named(kept) = {}
  <2>1. SUFFICES ASSUME NEW v \in manifest \ kept, NEW u \in kept, NEW id \in v.ids, id \in u.ids
                 PROVE  FALSE
        BY <1>4 DEF Named
  <2>2. v = u
        BY <1>3, <1>8, <2>1, OneNames
  <2> QED BY <2>2
<1>11. w.stale \cap Named(manifest') = {}
       BY <1>2, <1>6, <1>10
<1>12. ManifestNamesRows'
       BY <1>2, <1>3, <1>8 DEF ManifestNamesRows, Named
<1>13. Cached' /\ SearchesPublished' /\ identity' \in Nat
  <2>1. CASE kept = manifest
        BY <1>2, <2>1, NamesKept
  <2>2. CASE kept # manifest
        BY <1>2, <2>2, SavedCached
  <2> QED BY <2>1, <2>2
<1>14. lock = p /\ "delete" \in Places /\ pc[p] \in Exclusive
       BY <1>2 DEF IndexInv, LockHeld, Exclusive, Places
<1>15. crashes' \in Nat
       BY <1>2, PlanTyped
<1>16. Shaped' /\ LockHeld' /\ Writing'
       BY <1>2, <1>6, <1>7, <1>11, <1>13, <1>14, <1>15, Moves DEF IndexInv
<1> QED BY <1>9, <1>12, <1>13, <1>16 DEF IndexInv

\* What a search takes over of its view, when the manifest is still the one it
\* parsed, are the rows the manifest names.
LEMMA Synced ==
    ASSUME IndexInv
    PROVE  /\ Sync.identity = identity
           /\ Sync.found # Free => DOMAIN Sync.found = Named(manifest)
           /\ Sync = [identity |-> Sync.identity, names |-> Sync.names,
                      files |-> Sync.files, found |-> Sync.found]
<1>1. /\ view = [identity |-> view.identity, names |-> view.names,
                 files |-> view.files, found |-> view.found]
      /\ view.identity = identity /\ view.found # Free => DOMAIN view.found = Named(manifest)
      BY DEF IndexInv, Cached
<1>2. PICK i, n, f, x : view = [identity |-> i, names |-> n, files |-> f, found |-> x]
      BY <1>1
<1>3. CASE view.identity # identity
      BY <1>3 DEF Sync
<1>4. CASE view.identity = identity /\ view.names # segments
  <2>1. Sync = [view EXCEPT !.names = segments, !.found = Free]
        BY <1>4 DEF Sync
  <2>2. Sync = [identity |-> i, names |-> segments, files |-> f, found |-> Free]
        BY <1>2, <2>1
  <2> QED BY <1>2, <1>4, <2>2
<1>5. CASE view.identity = identity /\ view.names = segments
      BY <1>1, <1>5 DEF Sync
<1> QED BY <1>3, <1>4, <1>5
LEMMA OpenSearchStep == ASSUME IndexAssumption, IndexInv, OpenSearchSnapshot PROVE IndexInv'
<1>1. UNCHANGED <<rows, manifest, identity, pc, work, lock, crashes>>
      BY DEF OpenSearchSnapshot, disk
<1>2. Shaped' /\ LockHeld' /\ Versions' /\ Writing' /\ ManifestNamesRows'
      BY <1>1 DEF IndexInv, Shaped, LockHeld, Versions, Writing, ManifestNamesRows, Named,
                  derivation, RowsOf, IdsOf
<1>3. PICK names : names = Named(manifest)
      OBVIOUS
<1>4. DOMAIN Restrict(rows, names) = names
      BY DEF Restrict
<1>5. CASE Sync.found # Free
  <2>1. view' = Sync /\ found' = [rows |-> Sync.found, published |-> Restrict(rows, names)]
        BY <1>3, <1>5 DEF OpenSearchSnapshot
  <2>2. DOMAIN Sync.found = names
        BY <1>3, <1>5, Synced
  <2>3. SearchesPublished'
        BY <1>4, <2>1, <2>2 DEF SearchesPublished
  <2> QED BY <1>1, <1>2, <1>3, <2>1, <2>2, <2>3, Synced DEF IndexInv, Shaped, Cached, Named
<1>6. CASE Sync.found = Free
  <2>1. PICK old \in [Named(manifest) \cap InSegments -> 0 .. Drifts] :
           LET files == [id \in Missing |-> IF id \in DOMAIN Sync.files THEN Sync.files[id] ELSE rows[id]]
               all == [id \in DOMAIN old \cup Missing |-> IF id \in Missing THEN files[id] ELSE old[id]]
           IN /\ view' = [Sync EXCEPT !.found = all,
                             !.files = [id \in DOMAIN Sync.files \cup Missing |->
                                          IF id \in Missing THEN files[id] ELSE Sync.files[id]]]
              /\ found' = [rows |-> all, published |-> Restrict(rows, Named(manifest))]
        BY <1>6 DEF OpenSearchSnapshot
  <2>2. PICK files : files =
           [id \in Missing |-> IF id \in DOMAIN Sync.files THEN Sync.files[id] ELSE rows[id]]
        OBVIOUS
  <2>3. PICK all : all = [id \in DOMAIN old \cup Missing |-> IF id \in Missing THEN files[id] ELSE old[id]]
        OBVIOUS
  <2>4. DOMAIN all = names
        BY <1>3, <2>3 DEF Missing
  <2>5. PICK decoded : view' = [Sync EXCEPT !.found = all, !.files = decoded]
        BY <2>1, <2>2, <2>3
  <2>6. found' = [rows |-> all, published |-> Restrict(rows, names)]
        BY <1>3, <2>1, <2>2, <2>3
  <2>7. SearchesPublished'
        BY <1>4, <2>4, <2>6 DEF SearchesPublished
  <2>8. PICK s : s = Sync
        OBVIOUS
  <2>9. /\ s.identity = identity
        /\ s = [identity |-> s.identity, names |-> s.names, files |-> s.files, found |-> s.found]
        BY <2>8, Synced
  <2>10. PICK i, n, f, x : s = [identity |-> i, names |-> n, files |-> f, found |-> x]
         BY <2>9
  <2>11. view' = [s EXCEPT !.found = all, !.files = decoded]
         BY <2>5, <2>8
  <2>12. view' = [identity |-> i, names |-> n, files |-> decoded, found |-> all]
         BY <2>10, <2>11
  <2>13. view'.identity = identity' /\ view'.found = all /\ identity' \in Nat
         BY <1>1, <2>9, <2>10, <2>12 DEF IndexInv, Shaped
  <2>14. view' = [identity |-> view'.identity, names |-> view'.names,
                  files |-> view'.files, found |-> view'.found]
         BY <2>12
  <2>15. Named(manifest') = names
         BY <1>1, <1>3
  <2>16. \A k \in Nat : k <= k
         OBVIOUS
  <2>17. Cached'
         BY <2>4, <2>13, <2>14, <2>15, <2>16 DEF Cached, Named
  <2> QED BY <1>2, <2>7, <2>17 DEF IndexInv
<1> QED BY <1>5, <1>6

LEMMA SameStore ==
    ASSUME IndexInv, UNCHANGED <<rows, manifest, identity, pc, work, lock, crashes, view, found>>
    PROVE  IndexInv'
<1>1. Shaped' /\ LockHeld' /\ Writing'
      BY DEF IndexInv, Shaped, LockHeld, Writing, Listed, Named, RowsOf, IdsOf
<1> QED BY <1>1, StoreKept DEF IndexInv

LEMMA IndexStep == ASSUME IndexAssumption, IndexInv, [Next]_vars PROVE IndexInv'
<1>1. ASSUME NEW p \in Procs, BeginFill(p) \/ EntryPublished(p) \/ DropVersions(p) \/ Step(p) \/ Crash(p)
      PROVE  IndexInv'
  <2>1. CASE BeginFill(p) \/ EntryPublished(p) \/ DropVersions(p) \/ Crash(p)
        BY <2>1, BeginFillStep, EntryPublishedStep, DropVersionsStep, StopStep
  <2>2. CASE GetsFill(p) \/ Plan(p) \/ Commit(p) \/ AlreadyPublished(p) \/ Committed(p)
        BY <2>2, GetsFillStep, PlanStep, CommitStep, AlreadyPublishedStep, CommittedStep
  <2>3. CASE WriteRow(p) \/ Save(p) \/ DeleteRow(p) \/ SaveDropped(p) \/ SweepOrphan(p)
        BY <2>3, WriteRowStep, SaveStep, DeleteRowStep, SaveDroppedStep, SweepOrphanStep
  <2>4. CASE NothingToFill(p) \/ SkipRefresh(p) \/ Refresh(p) \/ Refreshed(p)
        BY <2>4, PassStep
  <2>5. CASE WriteSegment(p) \/ RemoveMerged(p)
        BY <2>5, WriteSegmentStep, RemoveMergedStep
  <2>6. CASE Close(p) \/ Fails(p) \/ Dropped(p)
        BY <2>6, StopStep
  <2>7. CASE ListOrphans(p)
        BY <2>7, ListOrphansStep
  <2>8. CASE LoadSnapshot(p)
        BY <2>8, SameStore DEF LoadSnapshot, disk
  <2> QED BY <1>1, <2>1, <2>2, <2>3, <2>4, <2>5, <2>6, <2>7, <2>8 DEF Step
<1>2. CASE OpenSearchSnapshot
      BY <1>2, OpenSearchStep
<1>3. CASE Drift
      BY <1>3, SameStore DEF Drift, disk
<1>4. CASE UNCHANGED vars
      BY <1>4, SameStore DEF vars, disk
<1> QED BY <1>1, <1>2, <1>3, <1>4 DEF Next

LEMMA IndexInit == ASSUME IndexAssumption, Init PROVE IndexInv
<1>1. /\ pc = [p \in Procs |-> "idle"] /\ work = [p \in Procs |-> IdleWork]
      /\ rows = [id \in Named(Stored) |-> 0] /\ manifest = Stored /\ identity = 0 /\ crashes = 0
      /\ view = [identity |-> Free, names |-> {}, files |-> NoRows, found |-> Free]
      /\ found = [rows |-> NoRows, published |-> NoRows]
      BY DEF Init
<1>2. \A p \in Procs : pc[p] = "idle" /\ work[p] = IdleWork
      BY <1>1
<1>3. Shaped
  <2>1. WorkShape(IdleWork)
        BY IdleShape
  <2>2. \A p \in Procs : WorkShape(work[p])
        BY <1>2, <2>1
  <2>3. pc \in [Procs -> Places] /\ work = [p \in Procs |-> work[p]]
        BY <1>1 DEF Places
  <2> QED BY <1>1, <2>2, <2>3 DEF Shaped, WorkShape
<1>4. LockHeld
      BY <1>2 DEF LockHeld, Exclusive
<1>5. Versions
  <2>1. RuleAssumption
        BY DEF IndexAssumption
  <2> QED BY <1>1, <2>1 DEF Versions, RuleAssumption
<1>6. Writing
      BY <1>2, IdleShape DEF Writing
<1>7. Cached
      BY <1>1 DEF Cached, IndexAssumption
<1>8. ManifestNamesRows /\ SearchesPublished
      BY <1>1 DEF ManifestNamesRows, SearchesPublished
<1> QED BY <1>3, <1>4, <1>5, <1>6, <1>7, <1>8 DEF IndexInv
LEMMA IndexInvHolds == ASSUME IndexAssumption PROVE Spec => []IndexInv
<1>1. IndexAssumption /\ Init => IndexInv
      BY IndexInit
<1>2. IndexAssumption /\ IndexInv /\ [Next]_vars => IndexInv'
      BY IndexStep
<1> QED BY <1>1, <1>2, PTL DEF Spec

-----------------------------------------------------------------------------
(* What the invariant gives.                                                 *)

\* A version leaves the manifest only in a commit or in a collection.
LEMMA ManifestSteps ==
    ASSUME Next, NEW v \in manifest \ manifest'
    PROVE  \E p \in Procs : Save(p) \/ SaveDropped(p)
<1>1. manifest' # manifest
      OBVIOUS
<1>2. ~ OpenSearchSnapshot /\ ~ Drift
      BY <1>1 DEF OpenSearchSnapshot, Drift, disk
<1>3. PICK p \in Procs : BeginFill(p) \/ EntryPublished(p) \/ DropVersions(p) \/ Step(p) \/ Crash(p)
      BY <1>2 DEF Next
<1>4. ~ BeginFill(p) /\ ~ EntryPublished(p) /\ ~ DropVersions(p) /\ ~ Crash(p)
      BY <1>1 DEF BeginFill, EntryPublished, DropVersions, Crash, disk
<1>5. /\ ~ GetsFill(p) /\ ~ Plan(p) /\ ~ LoadSnapshot(p) /\ ~ Commit(p) /\ ~ AlreadyPublished(p) /\ ~ WriteRow(p)
      /\ ~ DeleteRow(p) /\ ~ Committed(p) /\ ~ NothingToFill(p) /\ ~ SkipRefresh(p)
      BY <1>1 DEF GetsFill, Plan, LoadSnapshot, Commit, AlreadyPublished, WriteRow, DeleteRow, Committed,
                  NothingToFill, SkipRefresh, disk
<1>6. /\ ~ Refresh(p) /\ ~ WriteSegment(p) /\ ~ RemoveMerged(p) /\ ~ Refreshed(p) /\ ~ Close(p)
      /\ ~ Fails(p) /\ ~ ListOrphans(p) /\ ~ SweepOrphan(p) /\ ~ Dropped(p)
      BY <1>1 DEF Refresh, WriteSegment, RemoveMerged, Refreshed, Close, Fails, ListOrphans,
                  SweepOrphan, Dropped, disk
<1> QED BY <1>3, <1>4, <1>5, <1>6 DEF Step

\* What a commit takes from the manifest.
LEMMA SaveTakes ==
    ASSUME IndexInv, NEW p \in Procs, Save(p), NEW v \in manifest \ manifest'
    PROVE  \E e \in work[p].batch :
              /\ e \in Entries /\ v.entry = e /\ pc[p] = "rows" /\ VersionOf(p, e) \in manifest'
              /\ IF p \in Forced THEN derivation(v, p) = derivation(VersionOf(p, e), p)
                                 ELSE v.hash = Checkout[p][e]
<1>1. /\ pc[p] = "rows" /\ manifest' = Merged(p, manifest, work[p].batch)
      BY DEF Save, Go
<1>2. PICK batch \in SUBSET Entries : batch = work[p].batch
      BY <1>1 DEF IndexInv, Writing
<1>3. v \in manifest \ Merged(p, manifest, batch)
      BY <1>1, <1>2
<1> QED BY <1>1, <1>2, <1>3, MergedHas

\* No step loses a version.
LEMMA LosesNothing == ASSUME IndexAssumption, IndexInv, [Next]_vars PROVE OnlyReplacedLeave
<1>1. ASSUME Next, NEW v \in manifest \ manifest'
      PROVE  \/ \E p \in Collectors : pc[p] = "drop" /\ groupOf(v, p) \in work[p].drop
             \/ HasVersion(manifest', v.entry, v.hash)
             \/ \E p \in Forced : pc[p] = "rows" /\ v.entry \in work[p].batch
  <2>1. PICK p \in Procs : Save(p) \/ SaveDropped(p)
        BY <1>1, ManifestSteps
  <2>2. CASE Save(p)
    <3>1. PICK e \in work[p].batch :
              /\ e \in Entries /\ v.entry = e /\ pc[p] = "rows" /\ VersionOf(p, e) \in manifest'
              /\ IF p \in Forced THEN derivation(v, p) = derivation(VersionOf(p, e), p)
                                 ELSE v.hash = Checkout[p][e]
          BY <1>1, <2>2, SaveTakes
    <3>2. CASE p \in Forced
          BY <3>1, <3>2
    <3>3. CASE p \notin Forced
      <4>1. VersionOf(p, e).entry = e /\ VersionOf(p, e).hash = Checkout[p][e]
            BY <3>1, VersionFields
      <4> QED BY <3>1, <3>3, <4>1 DEF HasVersion
    <3> QED BY <3>2, <3>3
  <2>3. CASE SaveDropped(p)
    <3>1. pc[p] = "drop" /\ manifest' = DropGroups(manifest, p, work[p].drop)
          BY <2>3 DEF SaveDropped, Go
    <3>2. p \in Collectors
          BY <1>1, <3>1 DEF IndexInv, LockHeld
    <3>3. groupOf(v, p) \in work[p].drop
          BY <1>1, <3>1 DEF DropGroups
    <3> QED BY <3>1, <3>2, <3>3
  <2> QED BY <2>1, <2>2, <2>3
<1>2. CASE UNCHANGED vars
      BY <1>2 DEF vars, disk, OnlyReplacedLeave
<1> QED BY <1>1, <1>2 DEF OnlyReplacedLeave

\* A commit that was planned from an older manifest loses no version another
\* process published since: one leaves only by a collection or by a forced
\* rebuild of its entry (internal/index).
THEOREM NothingIsLost == ASSUME IndexAssumption PROVE Spec => [][OnlyReplacedLeave]_vars
<1>1. IndexAssumption /\ IndexInv /\ [Next]_vars => [OnlyReplacedLeave]_vars
      BY LosesNothing
<1> QED BY <1>1, IndexInvHolds, PTL DEF Spec

\* Whatever is killed, and in the middle of every write, the manifest names no
\* row that is not there.
THEOREM NamedRowsAreThere == ASSUME IndexAssumption PROVE Spec => []ManifestNamesRows
<1>1. IndexInv => ManifestNamesRows
      BY DEF IndexInv
<1> QED BY <1>1, IndexInvHolds, PTL

\* A search reads the rows published when it took its snapshot, all of them and
\* no others, whatever it had cached and however far the segments are behind.
THEOREM SearchesReadThePublished == ASSUME IndexAssumption PROVE Spec => []SearchesPublished
<1>1. IndexInv => SearchesPublished
      BY DEF IndexInv
<1> QED BY <1>1, IndexInvHolds, PTL

\* A process that changes its place is the one that moved.
LEMMA MoverAlone ==
    ASSUME IndexInv, NEW p \in Procs, NEW to, pc' = [pc EXCEPT ![p] = to],
           NEW q \in Procs, pc'[q] # pc[q]
    PROVE  q = p
    BY DEF IndexInv, Shaped

\* A collection ends when all it listed is removed, and then that was all there
\* was: no other process has written a row or the manifest since it listed them.
LEMMA DropsAll == ASSUME IndexAssumption, IndexInv, [Next]_vars PROVE DropIsComplete
<1>1. ASSUME Next, NEW p \in Collectors, pc[p] = "sweep", pc'[p] = "idle",
             crashes' = crashes
      PROVE  DOMAIN rows' = Named(manifest')
  <2>1. p \in Procs /\ pc'[p] # pc[p] /\ pc' # pc
        BY <1>1 DEF Procs
  <2>2. ~ OpenSearchSnapshot /\ ~ Drift
        BY <2>1 DEF OpenSearchSnapshot, Drift
  <2>3. PICK q \in Procs : BeginFill(q) \/ EntryPublished(q) \/ DropVersions(q) \/ Step(q) \/ Crash(q)
        BY <1>1, <2>2 DEF Next
  <2>4. ~ Crash(q)
        BY <1>1 DEF Crash, IndexInv, Shaped
  <2>5. /\ ~ WriteRow(q) /\ ~ DeleteRow(q) /\ ~ RemoveMerged(q) /\ ~ SweepOrphan(q)
        /\ ~ LoadSnapshot(q)
        BY <2>1 DEF WriteRow, DeleteRow, RemoveMerged, SweepOrphan, LoadSnapshot
  <2>6. PICK to : pc' = [pc EXCEPT ![q] = to]
        BY <2>3, <2>4, <2>5 DEF BeginFill, EntryPublished, DropVersions, Step, GetsFill, Plan, Commit,
           AlreadyPublished, Save, Committed, NothingToFill, SkipRefresh, Refresh, WriteSegment,
           Refreshed, Close, Fails, SaveDropped, ListOrphans, Dropped, Ends, Go, At
  <2>7. q = p
        BY <1>1, <2>1, <2>6, MoverAlone
  <2>8. ~ BeginFill(p) /\ ~ EntryPublished(p) /\ ~ DropVersions(p)
        BY <1>1 DEF BeginFill, EntryPublished, DropVersions, Go
  <2>9. Dropped(p)
        BY <1>1, <2>3, <2>4, <2>5, <2>7, <2>8 DEF Step, GetsFill, Plan, Commit, AlreadyPublished,
           Save, Committed, NothingToFill, SkipRefresh, Refresh, WriteSegment, Refreshed, Close, Fails,
           SaveDropped, ListOrphans, Go
  <2>10. work[p].todo = {} /\ UNCHANGED <<rows, manifest>>
         BY <2>9 DEF Dropped, disk
  <2>11. Listed(work[p], rows, manifest) /\ ManifestNamesRows
         BY <1>1, <2>1 DEF IndexInv, Writing
  <2> QED BY <2>10, <2>11 DEF Listed, ManifestNamesRows
<1>2. CASE UNCHANGED vars
  <2>1. \A p \in Procs : pc[p] = "sweep" => pc'[p] # "idle"
        BY <1>2 DEF vars
  <2> QED BY <2>1 DEF DropIsComplete, Procs
<1> QED BY <1>1, <1>2 DEF DropIsComplete

\* A collection that ran to its end leaves no row that no version names, also
\* after writers that died between the rows and the manifest (gc.go).
THEOREM DropsComplete == ASSUME IndexAssumption PROVE Spec => [][DropIsComplete]_vars
<1>1. IndexAssumption /\ IndexInv /\ [Next]_vars => [DropIsComplete]_vars
      BY DropsAll
<1> QED BY <1>1, IndexInvHolds, PTL DEF Spec

\* A version recorded with another rule than that of the process that moves stays,
\* unless the process was asked for that rule.
RecordedRuleStays ==
    \A v \in manifest \ manifest' : \A p \in Procs :
        v.rule # NoRule /\ pc[p] # pc'[p] => v.rule = Rule[p] \/ v.rule \in work[p].drop

\* No step takes a version recorded with a rule it is not for.
LEMMA TakesOwnRule == ASSUME IndexAssumption, IndexInv, [Next]_vars PROVE RecordedRuleStays
<1>1. ASSUME Next, NEW v \in manifest \ manifest', NEW p \in Procs, pc[p] # pc'[p],
             v.rule # NoRule
      PROVE  v.rule = Rule[p] \/ v.rule \in work[p].drop
  <2>1. PICK m \in Procs : Save(m) \/ SaveDropped(m)
        BY <1>1, ManifestSteps
  <2>2. pc' = [pc EXCEPT ![m] = "delete"]
        BY <2>1 DEF Save, SaveDropped, Go
  <2>3. m = p
        BY <1>1, <2>2, MoverAlone
  <2>4. derivation(v, p) = v.rule
        BY <1>1 DEF derivation
  <2>5. CASE Save(p)
    <3>1. PICK e \in work[p].batch :
              /\ e \in Entries /\ v.entry = e
              /\ IF p \in Forced THEN derivation(v, p) = derivation(VersionOf(p, e), p)
                                 ELSE v.hash = Checkout[p][e]
          BY <1>1, <2>5, SaveTakes
    <3>2. derivation(VersionOf(p, e), p) = Rule[p]
          BY <3>1, RuleOfHash
    <3>3. v.hash = Checkout[p][e] => derivation(v, p) = Rule[p]
          BY <1>1, <3>1 DEF IndexInv, Versions
    <3> QED BY <2>4, <3>1, <3>2, <3>3
  <2>6. CASE SaveDropped(p)
    <3>1. groupOf(v, p) \in work[p].drop
          BY <1>1, <2>6 DEF SaveDropped, DropGroups
    <3> QED BY <2>4, <3>1 DEF groupOf
  <2> QED BY <2>1, <2>3, <2>5, <2>6
<1>2. CASE UNCHANGED vars
      BY <1>2 DEF vars, disk, RecordedRuleStays
<1> QED BY <1>1, <1>2 DEF RecordedRuleStays

\* No forced rebuild and no collection takes a version recorded with another rule
\* than the process's own, unless it was asked for that rule (gc.go), whichever
\* processes with whichever rules share the store.
THEOREM RecordedRulesStay == ASSUME IndexAssumption PROVE Spec => [][RecordedRuleStays]_vars
<1>1. IndexAssumption /\ IndexInv /\ [Next]_vars => [RecordedRuleStays]_vars
      BY TakesOwnRule
<1> QED BY <1>1, IndexInvHolds, PTL DEF Spec

\* Without a server every version a process writes is recorded with its rule.
LEMMA OwnRuleLeaves ==
    ASSUME IndexAssumption, Publishers = {}, IndexInv, [Next]_vars PROVE OnlyOwnRuleLeaves
<1>0. RecordedRuleStays
      BY TakesOwnRule
<1>1. ASSUME NEW v \in manifest \ manifest', NEW p \in Procs,
             pc[p] # pc'[p], NEW q \in Procs, v = VersionOf(q, v.entry)
      PROVE  Rule[q] = Rule[p] \/ Rule[q] \in work[p].drop
  <2>1. v.entry \in Entries
        BY <1>1 DEF IndexInv, Versions
  <2>2. PICK e \in Entries : e = v.entry
        BY <2>1
  <2>3. v.rule = Rule[q] /\ Rule[q] # NoRule
        BY <1>1, <2>2, VersionFields DEF IndexAssumption, RuleAssumption
  <2> QED BY <1>0, <1>1, <2>3 DEF RecordedRuleStays
<1> QED BY <1>1 DEF OnlyOwnRuleLeaves

\* Where no server publishes to the store, no forced rebuild and no collection
\* takes a version a binary with another rule wrote, unless asked for that rule.
\* Where one does it may: a server leaves the rule of what it publishes out
\* (entry_publication.go:78).
THEOREM RulesAreKeptApart ==
    ASSUME IndexAssumption, Publishers = {} PROVE Spec => [][OnlyOwnRuleLeaves]_vars
<1>1. IndexAssumption /\ Publishers = {} /\ IndexInv /\ [Next]_vars => [OnlyOwnRuleLeaves]_vars
      BY OwnRuleLeaves
<1> QED BY <1>1, IndexInvHolds, PTL DEF Spec
-----------------------------------------------------------------------------
(* Segment files.  A merge writes its segment before it removes those it    *)
(* replaces: until then there is one more, and a process killed in between  *)
(* leaves what it did not remove.                                           *)
SegmentBound == MaxSegments + crashes

SegmentInv ==
    /\ IsFiniteSet(segments)
    /\ Cardinality(segments) <= SegmentBound + 1
    /\ (\A p \in Procs : pc[p] # "merge") => Cardinality(segments) <= SegmentBound
    /\ \A p \in Procs : pc[p] = "merge" =>
          Cardinality(segments \ work[p].merged) <= SegmentBound

\* The types the store's invariant leaves open.
TypeInv ==
    /\ DOMAIN rows \subseteq Ids
    /\ \A s \in segments : DOMAIN s \subseteq Ids
    /\ lock \in Procs \cup {Free} /\ fill \in Fillers \cup {Free}
    /\ \A p \in Procs : work[p].todo \subseteq Ids /\ (pc[p] = "waiting" => p \in Fillers)

FilesInv == IndexInv /\ SegmentInv /\ TypeInv

\* Nothing merges, or one process does.
LEMMA MergesAlone ==
    ASSUME IndexAssumption, LockHeld, NEW p \in Procs, pc[p] \in Exclusive
    PROVE  \A q \in Procs : q # p => pc[q] \notin Exclusive
    BY DEF LockHeld

\* A process that neither begins nor ends a merge leaves the segments' number.
LEMMA SegmentsKept ==
    ASSUME Shaped, SegmentInv, NEW p \in Procs, NEW to \in Places \ {"merge"}, NEW w,
           pc[p] # "merge", pc' = [pc EXCEPT ![p] = to], work' = [work EXCEPT ![p] = w],
           UNCHANGED <<segments, crashes>>
    PROVE  SegmentInv'
<1>1. pc'[p] = to /\ \A q \in Procs : q # p => pc'[q] = pc[q] /\ work'[q] = work[q]
      BY DEF Shaped
<1>2. \A q \in Procs : pc'[q] = "merge" => pc[q] = "merge" /\ work'[q] = work[q]
      BY <1>1
<1>3. (\A q \in Procs : pc'[q] # "merge") => \A q \in Procs : pc[q] # "merge"
      BY <1>1
<1>4. SegmentBound' = SegmentBound /\ segments' = segments
      BY DEF SegmentBound
<1> QED BY <1>2, <1>3, <1>4 DEF SegmentInv

\* The segment a refresh writes, and those it is to replace.
LEMMA NewSegment ==
    ASSUME NEW p \in Procs, WriteSegment(p)
    PROVE  \E new, merged :
              /\ segments' = IF DOMAIN new = {} THEN segments ELSE segments \cup {new}
              /\ work' = [work EXCEPT ![p] = [IdleWork EXCEPT !.merged = merged]]
              /\ merged = IF Compact THEN segments \ {new} ELSE {}
              /\ ~ Compact => DOMAIN new = Missing
              /\ DOMAIN new \subseteq Named(manifest)
<1>1. PICK kept : kept = IF Compact THEN Named(manifest) \cap InSegments ELSE {}
      OBVIOUS
<1>2. PICK old \in [kept -> 0 .. Drifts] :
         LET new == [id \in kept \cup Missing |-> IF id \in kept THEN old[id] ELSE rows[id]]
         IN /\ segments' = IF DOMAIN new = {} THEN segments ELSE segments \cup {new}
            /\ Works(p, [IdleWork EXCEPT !.merged = IF Compact THEN segments \ {new} ELSE {}])
      BY <1>1 DEF WriteSegment
<1>3. PICK new : new = [id \in kept \cup Missing |-> IF id \in kept THEN old[id] ELSE rows[id]]
      OBVIOUS
<1>4. DOMAIN new = kept \cup Missing /\ kept \subseteq Named(manifest) /\ Missing \subseteq Named(manifest)
      BY <1>1, <1>3 DEF Missing
<1> QED BY <1>1, <1>2, <1>3, <1>4 DEF Works

LEMMA WriteSegmentBound ==
    ASSUME IndexAssumption, IndexInv, SegmentInv, NEW p \in Procs, WriteSegment(p)
    PROVE  SegmentInv'
<1>1. /\ pc[p] = "segment" /\ pc' = [pc EXCEPT ![p] = "merge"] /\ UNCHANGED crashes
      BY DEF WriteSegment, Go
<1>2. PICK new, merged :
         /\ segments' = IF DOMAIN new = {} THEN segments ELSE segments \cup {new}
         /\ work' = [work EXCEPT ![p] = [IdleWork EXCEPT !.merged = merged]]
         /\ merged = IF Compact THEN segments \ {new} ELSE {}
         /\ ~ Compact => DOMAIN new = Missing
      BY NewSegment
<1>3. \A q \in Procs : q # p => pc[q] # "merge"
      BY <1>1, MergesAlone DEF IndexInv, Exclusive
<1>4. pc'[p] = "merge" /\ \A q \in Procs : q # p => pc'[q] # "merge"
      BY <1>1, <1>3 DEF IndexInv, Shaped
<1>5. work'[p].merged = merged
      BY <1>2 DEF IndexInv, Shaped, IdleWork
<1>6. /\ IsFiniteSet(segments) /\ Cardinality(segments) <= SegmentBound
      /\ Cardinality(segments) \in Nat /\ SegmentBound \in Nat /\ SegmentBound' = SegmentBound
      /\ SegmentBound >= 1
      BY <1>1, <1>3, FS_CardinalityType
         DEF SegmentInv, SegmentBound, IndexAssumption, IndexInv, Shaped
<1>7. /\ IsFiniteSet(segments \cup {new})
      /\ Cardinality(segments \cup {new}) <= Cardinality(segments) + 1
      /\ Cardinality(segments \cup {new}) \in Nat
      BY <1>6, FS_AddElement, FS_CardinalityType
<1>8. /\ IsFiniteSet(segments') /\ Cardinality(segments') <= Cardinality(segments) + 1
      /\ Cardinality(segments') \in Nat
      BY <1>2, <1>6, <1>7
<1>9. Cardinality(segments' \ merged) <= SegmentBound
  <2>1. CASE Compact
    <3>1. segments' \ merged \subseteq {new}
          BY <1>2, <2>1
    <3>2. IsFiniteSet({new}) /\ Cardinality({new}) = 1
          BY FS_Singleton
    <3>3. Cardinality(segments' \ merged) <= 1 /\ Cardinality(segments' \ merged) \in Nat
          BY <3>1, <3>2, FS_Subset, FS_CardinalityType
    <3> QED BY <1>6, <3>3
  <2>2. CASE ~ Compact
    <3>1. segments' \ merged = segments'
          BY <1>2, <2>2
    <3>2. CASE Missing = {}
          BY <1>2, <1>6, <2>2, <3>1, <3>2
    <3>3. CASE Missing # {}
      <4>1. ~ (Cardinality(segments) >= MaxSegments)
            BY <2>2, <3>3 DEF Compact
      <4>2. Cardinality(segments) + 1 <= MaxSegments /\ MaxSegments <= SegmentBound
            /\ MaxSegments \in Nat
            BY <1>6, <4>1 DEF IndexAssumption, SegmentBound, IndexInv, Shaped
      <4> QED BY <1>6, <1>8, <3>1, <4>2
    <3> QED BY <3>2, <3>3
  <2> QED BY <2>1, <2>2
<1>10. Cardinality(segments') <= SegmentBound' + 1
       BY <1>6, <1>8
<1>11. \A q \in Procs : pc'[q] = "merge" => Cardinality(segments' \ work'[q].merged) <= SegmentBound'
       BY <1>4, <1>5, <1>6, <1>9
<1> QED BY <1>4, <1>8, <1>10, <1>11 DEF SegmentInv

LEMMA RemoveMergedBound ==
    ASSUME IndexAssumption, IndexInv, SegmentInv, NEW p \in Procs, RemoveMerged(p)
    PROVE  SegmentInv'
<1>1. pc[p] = "merge" /\ pc' = pc /\ UNCHANGED crashes
      BY DEF RemoveMerged
<1>2. PICK s \in work[p].merged :
         /\ segments' = segments \ {s}
         /\ work' = [work EXCEPT ![p] = [work[p] EXCEPT !.merged = work[p].merged \ {s}]]
      BY DEF RemoveMerged, Works
<1>3. \A q \in Procs : q # p => pc[q] # "merge"
      BY <1>1, MergesAlone DEF IndexInv, Exclusive
<1>4. PICK w : w = work[p]
      OBVIOUS
<1>5. work'[p].merged = w.merged \ {s}
  <2>1. WorkShape(w)
        BY <1>4, PlanTyped
  <2>2. PICK c, d, e, f, x, y : w = [plan |-> c, batch |-> d, todo |-> e, stale |-> f,
                                     merged |-> x, drop |-> y]
        BY <2>1 DEF WorkShape
  <2>3. work'[p] = [w EXCEPT !.merged = w.merged \ {s}]
        BY <1>2, <1>4 DEF IndexInv, Shaped
  <2> QED BY <2>2, <2>3
<1>6. segments' \ work'[p].merged = segments \ w.merged
      BY <1>2, <1>4, <1>5
<1>7. SegmentBound' = SegmentBound /\ SegmentBound \in Nat /\ Cardinality(segments) \in Nat
      BY <1>1, FS_CardinalityType DEF SegmentBound, IndexAssumption, IndexInv, Shaped, SegmentInv
<1>8. /\ IsFiniteSet(segments') /\ Cardinality(segments') <= Cardinality(segments)
      /\ Cardinality(segments') \in Nat
      BY <1>2, FS_Subset, FS_CardinalityType DEF SegmentInv
<1>9. Cardinality(segments') <= SegmentBound' + 1
      BY <1>7, <1>8 DEF SegmentInv
<1>10. \A q \in Procs : pc'[q] = "merge" => Cardinality(segments' \ work'[q].merged) <= SegmentBound'
       BY <1>1, <1>3, <1>4, <1>6, <1>7 DEF SegmentInv
<1> QED BY <1>1, <1>8, <1>9, <1>10 DEF SegmentInv

LEMMA RefreshedBound ==
    ASSUME IndexAssumption, IndexInv, SegmentInv, NEW p \in Procs, Refreshed(p)
    PROVE  SegmentInv'
<1>1. /\ pc[p] = "merge" /\ pc' = [pc EXCEPT ![p] = "close"] /\ work[p].merged = {}
      /\ UNCHANGED <<segments, crashes, work>>
      BY DEF Refreshed, Go, disk
<1>2. \A q \in Procs : pc'[q] # "merge"
      BY <1>1, MergesAlone DEF IndexInv, Exclusive, Shaped
<1>3. segments \ work[p].merged = segments /\ SegmentBound' = SegmentBound
      BY <1>1 DEF SegmentBound
<1>4. Cardinality(segments) <= SegmentBound
      BY <1>1, <1>3 DEF SegmentInv
<1> QED BY <1>1, <1>2, <1>3, <1>4 DEF SegmentInv

LEMMA CrashBound ==
    ASSUME IndexAssumption, IndexInv, SegmentInv, NEW p \in Procs, Crash(p)
    PROVE  SegmentInv'
<1>1. /\ pc' = [pc EXCEPT ![p] = "idle"] /\ crashes' = crashes + 1 /\ segments' = segments
      /\ work' = [work EXCEPT ![p] = IdleWork]
      BY DEF Crash, Ends, Works
<1>2. /\ SegmentBound' = SegmentBound + 1 /\ SegmentBound \in Nat /\ Cardinality(segments) \in Nat
  <2>1. MaxSegments \in Nat /\ crashes \in Nat
        BY DEF IndexAssumption, IndexInv, Shaped
  <2>2. Cardinality(segments) \in Nat
        BY FS_CardinalityType DEF SegmentInv
  <2> QED BY <1>1, <2>1, <2>2 DEF SegmentBound
<1>3. \A q \in Procs : pc'[q] = "merge" => pc[q] = "merge" /\ work'[q] = work[q]
      BY <1>1 DEF IndexInv, Shaped
<1>4. ASSUME NEW q \in Procs, pc'[q] = "merge"
      PROVE  Cardinality(segments' \ work'[q].merged) <= SegmentBound'
  <2>1. Cardinality(segments \ work[q].merged) <= SegmentBound
        BY <1>3, <1>4 DEF SegmentInv
  <2>2. IsFiniteSet(segments \ work[q].merged) /\ Cardinality(segments \ work[q].merged) \in Nat
        BY FS_Subset, FS_CardinalityType DEF SegmentInv
  <2>3. segments' \ work'[q].merged = segments \ work[q].merged
        BY <1>1, <1>3, <1>4
  <2> QED BY <1>2, <2>1, <2>2, <2>3
<1>5. Cardinality(segments) <= SegmentBound'
      BY <1>2 DEF SegmentInv
<1> QED BY <1>1, <1>2, <1>4, <1>5 DEF SegmentInv

\* The other steps of a process.
LEMMA OtherBound ==
    ASSUME IndexAssumption, IndexInv, SegmentInv, NEW p \in Procs,
           BeginFill(p) \/ EntryPublished(p) \/ DropVersions(p) \/ Step(p),
           ~ WriteSegment(p), ~ RemoveMerged(p), ~ Refreshed(p)
    PROVE  SegmentInv'
<1>1. UNCHANGED <<segments, crashes>>
      BY DEF BeginFill, EntryPublished, DropVersions, Step, GetsFill, Plan, LoadSnapshot, Commit, AlreadyPublished,
         WriteRow, Save, DeleteRow, Committed, NothingToFill, SkipRefresh, Refresh, Close, Fails,
         SaveDropped, ListOrphans, SweepOrphan, Dropped, disk
<1>2. pc[p] # "merge"
      BY DEF BeginFill, EntryPublished, DropVersions, Step, GetsFill, Plan, LoadSnapshot, Commit, AlreadyPublished,
         WriteRow, Save, DeleteRow, Committed, NothingToFill, SkipRefresh, Refresh, Close, Fails,
         SaveDropped, ListOrphans, SweepOrphan, Dropped, Go
<1>3. \/ \E w : work' = [work EXCEPT ![p] = w]
      \/ UNCHANGED work
      BY DEF BeginFill, EntryPublished, DropVersions, Step, GetsFill, Plan, LoadSnapshot, Commit, AlreadyPublished,
         WriteRow, Save, DeleteRow, Committed, NothingToFill, SkipRefresh, Refresh, Close, Fails,
         SaveDropped, ListOrphans, SweepOrphan, Dropped, Works, Ends
<1>4. \/ \E to \in Places \ {"merge"} : pc' = [pc EXCEPT ![p] = to]
      \/ UNCHANGED pc
      BY DEF BeginFill, EntryPublished, DropVersions, Step, GetsFill, Plan, LoadSnapshot, Commit, AlreadyPublished,
         WriteRow, Save, DeleteRow, Committed, NothingToFill, SkipRefresh, Refresh, Close, Fails,
         SaveDropped, ListOrphans, SweepOrphan, Dropped, Go, At, Ends, Places
<1>5. PICK w : work' = [work EXCEPT ![p] = w]
      BY <1>3, SameWork DEF IndexInv
<1>6. PICK to \in Places \ {"merge"} : pc' = [pc EXCEPT ![p] = to]
      BY <1>2, <1>4, SamePlace DEF IndexInv
<1> QED BY <1>1, <1>2, <1>5, <1>6, SegmentsKept DEF IndexInv

LEMMA SegmentStep ==
    ASSUME IndexAssumption, IndexInv, SegmentInv, [Next]_vars PROVE SegmentInv'
<1>1. ASSUME NEW p \in Procs, BeginFill(p) \/ EntryPublished(p) \/ DropVersions(p) \/ Step(p) \/ Crash(p)
      PROVE  SegmentInv'
      BY <1>1, WriteSegmentBound, RemoveMergedBound, RefreshedBound, CrashBound, OtherBound
<1>2. CASE OpenSearchSnapshot \/ Drift \/ UNCHANGED vars
  <2>1. UNCHANGED <<segments, crashes, pc, work>>
        BY <1>2 DEF OpenSearchSnapshot, Drift, vars, disk
  <2> QED BY <2>1 DEF SegmentInv, SegmentBound
<1> QED BY <1>1, <1>2 DEF Next
LEMMA SegmentInit == ASSUME IndexAssumption, Init PROVE SegmentInv
<1>1. segments = {} /\ crashes = 0 /\ \A p \in Procs : pc[p] = "idle"
      BY DEF Init
<1>2. IsFiniteSet({}) /\ Cardinality({}) = 0 /\ MaxSegments \in Nat
      BY FS_EmptySet DEF IndexAssumption
<1> QED BY <1>1, <1>2 DEF SegmentInv, SegmentBound

\* Where the lock is free nothing merges.
LEMMA SegmentInvGives ==
    ASSUME IndexAssumption, IndexInv, SegmentInv PROVE SegmentsBounded
<1>1. lock = Free => \A p \in Procs : pc[p] # "merge"
      BY DEF IndexAssumption, IndexInv, LockHeld, Exclusive
<1> QED BY <1>1 DEF SegmentInv, SegmentsBounded, SegmentBound

-----------------------------------------------------------------------------
(* Types.                                                                    *)
LEMMA RowsOfTyped ==
    ASSUME IndexAssumption, NEW p \in Procs, NEW e \in Entries PROVE RowsOf(p, e) \subseteq Ids
<1>1. Checkout[p][e] \in Hashes /\ Chunks[e] \in 1..3
      BY DEF IndexAssumption, CheckoutAssumption, ChunksAssumption
<1> QED BY <1>1 DEF RowsOf, IdsOf, Ids

LEMMA NamedTyped == ASSUME IndexInv, TypeInv PROVE Named(manifest) \subseteq Ids
    BY DEF IndexInv, ManifestNamesRows, TypeInv

\* A process that moves leaves the others' places and work.
LEMMA TypesKept ==
    ASSUME Shaped, TypeInv, NEW p \in Procs, NEW to \in Places, NEW w,
           pc' = [pc EXCEPT ![p] = to], work' = [work EXCEPT ![p] = w],
           w.todo \subseteq Ids, to = "waiting" => p \in Fillers,
           DOMAIN rows' \subseteq Ids, \A s \in segments' : DOMAIN s \subseteq Ids,
           lock' \in Procs \cup {Free}, fill' \in Fillers \cup {Free}
    PROVE  TypeInv'
<1>1. /\ pc'[p] = to /\ work'[p] = w
      /\ \A q \in Procs : q # p => pc'[q] = pc[q] /\ work'[q] = work[q]
      BY DEF Shaped
<1>2. Ids' = Ids
      BY DEF Ids
<1>3. \A q \in Procs : work'[q].todo \subseteq Ids /\ (pc'[q] = "waiting" => q \in Fillers)
      BY <1>1 DEF TypeInv
<1> QED BY <1>2, <1>3 DEF TypeInv

\* Work that is begun anew has no rows to write yet.
LEMMA NothingTodo ==
    /\ IdleWork.todo = {}
    /\ \A x : /\ [IdleWork EXCEPT !.plan = x].todo = {} /\ [IdleWork EXCEPT !.drop = x].todo = {}
              /\ [IdleWork EXCEPT !.merged = x].todo = {} /\ [IdleWork EXCEPT !.stale = x].todo = {}
    BY DEF IdleWork

\* Nor has work that is only shortened others than it had.
LEMMA TodoKept ==
    ASSUME NEW w, WorkShape(w), NEW k
    PROVE  /\ \A x : k = [w EXCEPT !.stale = x] \/ k = [w EXCEPT !.merged = x] => k.todo = w.todo
           /\ \A x : k = [w EXCEPT !.todo = x] => k.todo = x
<1>1. PICK c, d, e, f, m, n : w = [plan |-> c, batch |-> d, todo |-> e, stale |-> f,
                                   merged |-> m, drop |-> n]
      BY DEF WorkShape
<1>2. ASSUME NEW x, k = [w EXCEPT !.stale = x] \/ k = [w EXCEPT !.merged = x] PROVE k.todo = w.todo
  <2>1. \/ k = [plan |-> c, batch |-> d, todo |-> e, stale |-> x, merged |-> m, drop |-> n]
        \/ k = [plan |-> c, batch |-> d, todo |-> e, stale |-> f, merged |-> x, drop |-> n]
        BY <1>1, <1>2
  <2> QED BY <1>1, <2>1
<1>3. ASSUME NEW x, k = [w EXCEPT !.todo = x] PROVE k.todo = x
      BY <1>1, <1>3
<1> QED BY <1>2, <1>3

\* The files a step leaves are of rows that can be.
LEMMA FilesTyped ==
    ASSUME IndexAssumption, IndexInv, TypeInv, NEW p \in Procs,
           BeginFill(p) \/ EntryPublished(p) \/ DropVersions(p) \/ Step(p) \/ Crash(p)
    PROVE  DOMAIN rows' \subseteq Ids /\ \A s \in segments' : DOMAIN s \subseteq Ids
<1>1. CASE WriteRow(p)
  <2>1. PICK id \in work[p].todo :
           rows' = [i \in DOMAIN rows \cup {id} |-> IF i = id THEN embedding ELSE rows[i]]
        BY <1>1 DEF WriteRow
  <2>2. DOMAIN rows' = DOMAIN rows \cup {id} /\ segments' = segments
        BY <1>1, <2>1 DEF WriteRow
  <2> QED BY <2>1, <2>2 DEF TypeInv
<1>2. CASE DeleteRow(p) \/ SweepOrphan(p)
  <2>1. PICK id : rows' = Restrict(rows, DOMAIN rows \ {id})
        BY <1>2 DEF DeleteRow, SweepOrphan
  <2>2. DOMAIN rows' \subseteq DOMAIN rows /\ segments' = segments
        BY <1>2, <2>1 DEF Restrict, DeleteRow, SweepOrphan
  <2> QED BY <2>2 DEF TypeInv
<1>3. CASE WriteSegment(p)
  <2>1. PICK new : /\ DOMAIN new \subseteq Named(manifest)
                   /\ segments' = segments \/ segments' = segments \cup {new}
    <3>1. PICK new, merged :
             /\ segments' = IF DOMAIN new = {} THEN segments ELSE segments \cup {new}
             /\ DOMAIN new \subseteq Named(manifest)
          BY <1>3, NewSegment
    <3> QED BY <3>1
  <2>2. UNCHANGED rows
        BY <1>3 DEF WriteSegment
  <2> QED BY <2>1, <2>2, NamedTyped DEF TypeInv
<1>4. CASE RemoveMerged(p)
      BY <1>4 DEF RemoveMerged, TypeInv
<1>5. CASE UNCHANGED <<rows, segments>>
      BY <1>5 DEF TypeInv
<1>6. ASSUME ~ WriteRow(p), ~ DeleteRow(p), ~ SweepOrphan(p), ~ WriteSegment(p), ~ RemoveMerged(p)
      PROVE  UNCHANGED <<rows, segments>>
      BY <1>6 DEF BeginFill, EntryPublished, DropVersions, Step, Crash, GetsFill, Plan, LoadSnapshot, Commit,
         AlreadyPublished, Save, Committed, NothingToFill, SkipRefresh, Refresh, Refreshed, Close,
         Fails, SaveDropped, ListOrphans, Dropped, disk
<1> QED BY <1>1, <1>2, <1>3, <1>4, <1>5, <1>6

\* The locks are held by those that take them, or free.
LEMMA LocksTyped ==
    ASSUME IndexInv, TypeInv, NEW p \in Procs,
           BeginFill(p) \/ EntryPublished(p) \/ DropVersions(p) \/ Step(p) \/ Crash(p)
    PROVE  lock' \in Procs \cup {Free} /\ fill' \in Fillers \cup {Free}
<1>1. lock' \in {lock, p, Free}
      BY DEF BeginFill, EntryPublished, DropVersions, Step, GetsFill, Plan, LoadSnapshot, Commit, AlreadyPublished,
         WriteRow, Save, DeleteRow, Committed, NothingToFill, SkipRefresh, Refresh, WriteSegment,
         RemoveMerged, Refreshed, Close, Fails, SaveDropped, ListOrphans, SweepOrphan, Dropped, Crash, Ends, disk
<1>2. BeginFill(p) \/ GetsFill(p) => p \in Fillers /\ fill' \in {fill, p}
      BY DEF BeginFill, GetsFill, Go, TypeInv
<1>3. ~ BeginFill(p) /\ ~ GetsFill(p) => fill' \in {fill, Free}
      BY DEF EntryPublished, DropVersions, Step, Plan, LoadSnapshot, Commit, AlreadyPublished,
         WriteRow, Save, DeleteRow, Committed, NothingToFill, SkipRefresh, Refresh, WriteSegment,
         RemoveMerged, Refreshed, Close, Fails, SaveDropped, ListOrphans, SweepOrphan, Dropped, Crash, Ends, disk
<1> QED BY <1>1, <1>2, <1>3 DEF TypeInv

\* The rows a process is to write are of its batch.
LEMMA TodoTyped ==
    ASSUME IndexAssumption, IndexInv, TypeInv, NEW p \in Procs,
           BeginFill(p) \/ EntryPublished(p) \/ DropVersions(p) \/ Step(p) \/ Crash(p)
    PROVE  \E w : work' = [work EXCEPT ![p] = w] /\ w.todo \subseteq Ids
<1>1. CASE UNCHANGED work
  <2>1. work' = [work EXCEPT ![p] = work[p]]
        BY <1>1, SameWork DEF IndexInv
  <2> QED BY <2>1 DEF TypeInv
<1>2. CASE work' = [work EXCEPT ![p] = IdleWork]
      BY <1>2, NothingTodo
<1>3. CASE \E x : \/ work' = [work EXCEPT ![p] = [IdleWork EXCEPT !.plan = x]]
                  \/ work' = [work EXCEPT ![p] = [IdleWork EXCEPT !.drop = x]]
                  \/ work' = [work EXCEPT ![p] = [IdleWork EXCEPT !.merged = x]]
                  \/ work' = [work EXCEPT ![p] = [IdleWork EXCEPT !.stale = x]]
  <2>1. PICK x : \/ work' = [work EXCEPT ![p] = [IdleWork EXCEPT !.plan = x]]
                 \/ work' = [work EXCEPT ![p] = [IdleWork EXCEPT !.drop = x]]
                 \/ work' = [work EXCEPT ![p] = [IdleWork EXCEPT !.merged = x]]
                 \/ work' = [work EXCEPT ![p] = [IdleWork EXCEPT !.stale = x]]
        BY <1>3
  <2>2. /\ [IdleWork EXCEPT !.plan = x].todo \subseteq Ids /\ [IdleWork EXCEPT !.drop = x].todo \subseteq Ids
        /\ [IdleWork EXCEPT !.merged = x].todo \subseteq Ids /\ [IdleWork EXCEPT !.stale = x].todo \subseteq Ids
        BY NothingTodo
  <2> QED BY <2>1, <2>2
<1>4. CASE \E x : \/ work' = [work EXCEPT ![p] = [work[p] EXCEPT !.stale = x]]
                  \/ work' = [work EXCEPT ![p] = [work[p] EXCEPT !.merged = x]]
  <2>1. PICK x, w : /\ work' = [work EXCEPT ![p] = w]
                    /\ w = [work[p] EXCEPT !.stale = x] \/ w = [work[p] EXCEPT !.merged = x]
        BY <1>4
  <2>2. w.todo = work[p].todo
        BY <2>1, TodoKept, PlanTyped
  <2> QED BY <2>1, <2>2 DEF TypeInv
<1>5. CASE WriteRow(p) \/ SweepOrphan(p)
  <2>1. PICK id \in work[p].todo :
           work' = [work EXCEPT ![p] = [work[p] EXCEPT !.todo = work[p].todo \ {id}]]
        BY <1>5 DEF WriteRow, SweepOrphan, Works
  <2>2. PICK x : x = work[p].todo \ {id}
        OBVIOUS
  <2>3. PICK u, w : u = work[p] /\ w = [u EXCEPT !.todo = x]
        OBVIOUS
  <2>4. w.todo = x
    <3>1. WorkShape(u)
          BY <2>3, PlanTyped
    <3> QED BY <2>3, <3>1, TodoKept
  <2> QED BY <2>1, <2>2, <2>3, <2>4 DEF TypeInv
<1>6. CASE Commit(p)
  <2>1. PICK batch \in (SUBSET work[p].plan) \ {{}} :
          work' = [work EXCEPT ![p] = [work[p] EXCEPT !.batch = batch,
                                         !.todo = UNION {RowsOf(p, e) : e \in batch}]]
        BY <1>6 DEF Commit, Works
  <2>2. PICK x : x = UNION {RowsOf(p, e) : e \in batch}
        OBVIOUS
  <2>3. x \subseteq Ids
        BY <2>2, PlanTyped, RowsOfTyped
  <2>4. PICK u, w : u = work[p] /\ w = [u EXCEPT !.batch = batch, !.todo = x]
        OBVIOUS
  <2>5. w.todo = x
    <3>1. WorkShape(u)
          BY <2>4, PlanTyped
    <3>2. PICK c, d, e, f, m, n : u = [plan |-> c, batch |-> d, todo |-> e, stale |-> f,
                                       merged |-> m, drop |-> n]
          BY <3>1 DEF WorkShape
    <3>3. w = [u EXCEPT !.batch = batch, !.todo = x]
          BY <2>4
    <3>4. w = [plan |-> c, batch |-> batch, todo |-> x, stale |-> f, merged |-> m, drop |-> n]
          BY <3>2, <3>3
    <3> QED BY <3>4
  <2> QED BY <2>1, <2>2, <2>3, <2>4, <2>5
<1>7. CASE EntryPublished(p) \/ DropVersions(p) \/ Plan(p) \/ WriteSegment(p) \/ SaveDropped(p)
      BY <1>3, <1>7 DEF EntryPublished, DropVersions, Plan, WriteSegment, SaveDropped, Works
<1>8. CASE Committed(p)
      BY <1>3, <1>8 DEF Committed, Works
<1>9. CASE Save(p) \/ DeleteRow(p) \/ RemoveMerged(p)
      BY <1>4, <1>9 DEF Save, DeleteRow, RemoveMerged, Works
<1>10. CASE AlreadyPublished(p) \/ Close(p) \/ Fails(p) \/ Dropped(p) \/ Crash(p)
       BY <1>2, <1>10 DEF AlreadyPublished, Close, Fails, Dropped, Crash, Ends, Works
<1>11. CASE BeginFill(p) \/ GetsFill(p) \/ NothingToFill(p) \/ SkipRefresh(p) \/ Refresh(p)
            \/ Refreshed(p) \/ LoadSnapshot(p)
       BY <1>1, <1>11 DEF BeginFill, GetsFill, NothingToFill, SkipRefresh, Refresh, Refreshed, LoadSnapshot
<1>12. CASE ListOrphans(p)
  <2>1. PICK x : x = Orphans
        OBVIOUS
  <2>2. PICK w : w = [IdleWork EXCEPT !.todo = x]
        OBVIOUS
  <2>3. w.todo = x
        BY <2>2 DEF IdleWork
  <2>4. work' = [work EXCEPT ![p] = w] /\ x \subseteq Ids
        BY <1>12, <2>1, <2>2 DEF ListOrphans, Works, Orphans, TypeInv
  <2> QED BY <2>3, <2>4
<1> QED BY <1>5, <1>6, <1>7, <1>8, <1>9, <1>10, <1>11, <1>12 DEF Step

\* Only one that is to fill waits.
LEMMA PlaceTyped ==
    ASSUME IndexInv, TypeInv, NEW p \in Procs,
           BeginFill(p) \/ EntryPublished(p) \/ DropVersions(p) \/ Step(p) \/ Crash(p)
    PROVE  \E to \in Places : pc' = [pc EXCEPT ![p] = to] /\ (to = "waiting" => p \in Fillers)
<1>1. CASE UNCHANGED pc
  <2>1. pc' = [pc EXCEPT ![p] = pc[p]] /\ pc[p] \in Places
        BY <1>1, SamePlace DEF IndexInv
  <2> QED BY <2>1 DEF TypeInv
<1>2. CASE BeginFill(p)
  <2>1. p \in Fillers /\ \E to \in {"plan", "waiting"} : pc' = [pc EXCEPT ![p] = to]
        BY <1>2 DEF BeginFill, Go
  <2> QED BY <2>1 DEF Places
<1>3. \/ UNCHANGED pc
      \/ BeginFill(p)
      \/ \E to \in Places \ {"waiting"} : pc' = [pc EXCEPT ![p] = to]
      BY DEF EntryPublished, DropVersions, Step, GetsFill, Plan, LoadSnapshot, Commit, AlreadyPublished,
         WriteRow, Save, DeleteRow, Committed, NothingToFill, SkipRefresh, Refresh, WriteSegment,
         RemoveMerged, Refreshed, Close, Fails, SaveDropped, ListOrphans, SweepOrphan, Dropped, Crash,
         Go, At, Ends, Places
<1> QED BY <1>1, <1>2, <1>3

LEMMA TypesStep == ASSUME IndexAssumption, IndexInv, TypeInv, [Next]_vars PROVE TypeInv'
<1>1. ASSUME NEW p \in Procs, BeginFill(p) \/ EntryPublished(p) \/ DropVersions(p) \/ Step(p) \/ Crash(p)
      PROVE  TypeInv'
  <2>1. PICK w : work' = [work EXCEPT ![p] = w] /\ w.todo \subseteq Ids
        BY <1>1, TodoTyped
  <2>2. PICK to \in Places : pc' = [pc EXCEPT ![p] = to] /\ (to = "waiting" => p \in Fillers)
        BY <1>1, PlaceTyped
  <2>3. DOMAIN rows' \subseteq Ids /\ \A s \in segments' : DOMAIN s \subseteq Ids
        BY <1>1, FilesTyped
  <2>4. lock' \in Procs \cup {Free} /\ fill' \in Fillers \cup {Free}
        BY <1>1, LocksTyped
  <2> QED BY <2>1, <2>2, <2>3, <2>4, TypesKept DEF IndexInv
<1>2. CASE OpenSearchSnapshot \/ Drift \/ UNCHANGED vars
  <2>1. UNCHANGED <<rows, segments, lock, fill, pc, work>>
        BY <1>2 DEF OpenSearchSnapshot, Drift, vars, disk
  <2> QED BY <2>1 DEF TypeInv, Ids
<1> QED BY <1>1, <1>2 DEF Next

LEMMA TypesInit == ASSUME IndexAssumption, Init PROVE TypeInv
<1>1. /\ rows = [id \in Named(Stored) |-> 0] /\ segments = {} /\ lock = Free /\ fill = Free
      /\ \A p \in Procs : pc[p] = "idle" /\ work[p] = IdleWork
      BY DEF Init
<1>2. Named(Stored) \subseteq Ids
  <2>1. ASSUME NEW v \in Stored PROVE v.ids \subseteq Ids
    <3>1. v.entry \in Entries /\ v.hash \in Hashes /\ v.ids \subseteq IdsOf(v.entry, v.hash)
          BY DEF IndexAssumption, RuleAssumption
    <3>2. Chunks[v.entry] \in 1..3
          BY <3>1 DEF IndexAssumption, ChunksAssumption
    <3> QED BY <3>1, <3>2 DEF IdsOf, Ids
  <2> QED BY <2>1 DEF Named
<1> QED BY <1>1, <1>2, NothingTodo DEF TypeInv

LEMMA FilesInit == ASSUME IndexAssumption, Init PROVE FilesInv
    BY IndexInit, SegmentInit, TypesInit DEF FilesInv

LEMMA FilesStep == ASSUME IndexAssumption, FilesInv, [Next]_vars PROVE FilesInv'
    BY IndexStep, SegmentStep, TypesStep DEF FilesInv

LEMMA FilesGive ==
    ASSUME IndexAssumption, FilesInv
    PROVE  TypeOK /\ ManifestNamesRows /\ SearchesPublished /\ SegmentsBounded
<1>1. pc \in [Procs -> Places]
      BY DEF FilesInv, IndexInv, Shaped
<1>2. TypeOK
      BY <1>1, NamedTyped DEF FilesInv, TypeInv, TypeOK, Places
<1> QED BY <1>2, SegmentInvGives DEF FilesInv, IndexInv

\* Segment files do not pile up: between two writes there are no more than the
\* bound, and one more for every process killed in a merge (segments.go:79).
THEOREM SegmentsStayFew == ASSUME IndexAssumption PROVE Spec => [](TypeOK /\ SegmentsBounded)
<1>1. IndexAssumption /\ Init => FilesInv
      BY FilesInit
<1>2. IndexAssumption /\ FilesInv /\ [Next]_vars => FilesInv'
      BY FilesStep
<1>3. IndexAssumption /\ FilesInv => TypeOK /\ SegmentsBounded
      BY FilesGive
<1> QED BY <1>1, <1>2, <1>3, PTL DEF Spec

-----------------------------------------------------------------------------
(* The counts of a store view.                                               *)
-----------------------------------------------------------------------------
(* The inductive invariant, of a sequence of steps under the view's mutex and *)
(* the row sets the searches hold.                                            *)
NamesOf == [Maps -> Names \cup {Unset}]
RowSets == [RowSetIds -> [segments : SUBSET Maps, refs : Nat]]

ViewShaped(st) ==
    /\ st = [refs |-> st.refs, name |-> st.name, view |-> st.view, rowsets |-> st.rowsets]
    /\ st.view = [synced |-> st.view.synced, identity |-> st.view.identity,
                  segments |-> st.view.segments, rowset |-> st.view.rowset]
    /\ st.refs \in [Maps -> Nat] /\ st.name \in NamesOf /\ st.view.segments \subseteq Maps
    /\ st.view.rowset \in RowSetIds \cup {Unset}
    /\ st.rowsets \in RowSets

Users(rs, m) == {r \in RowSetIds : m \in rs[r].segments}
Readers(q, r) == {s \in Searches : q[s] = r}

\* A mapping has a reference of every row set over it and one of the view.
Counted(st) ==
    /\ \A r \in RowSetIds : st.rowsets[r].refs = 0 => st.rowsets[r].segments = {}
    /\ \A m \in Maps : st.refs[m] =
          Cardinality(Users(st.rowsets, m)) + (IF m \in st.view.segments THEN 1 ELSE 0)

\* A row set has a reference of every search that reads it and one of the view.
HeldBy(st, q) ==
    \A r \in RowSetIds : st.rowsets[r].refs =
        Cardinality(Readers(q, r)) + (IF st.view.rowset = r THEN 1 ELSE 0)

OfTheView(st) ==
    st.view.rowset # Unset => st.rowsets[st.view.rowset].segments \subseteq st.view.segments

Good(st, q) == ViewShaped(st) /\ Counted(st) /\ HeldBy(st, q) /\ OfTheView(st)

HoldInv ==
    /\ search \in [Searches -> RowSetIds \cup {Unset}] /\ stored \subseteq Names
    /\ Good(State, search)

-----------------------------------------------------------------------------
(* Sets of holders.                                                          *)
LEMMA FiniteHolders ==
    ASSUME ViewAssumption
    PROVE  /\ IsFiniteSet(RowSetIds)
           /\ \A rs, m : IsFiniteSet(Users(rs, m)) /\ Cardinality(Users(rs, m)) \in Nat
           /\ \A q, r : IsFiniteSet(Readers(q, r)) /\ Cardinality(Readers(q, r)) \in Nat
<1>1. IsFiniteSet(RowSetIds)
      BY FS_Interval DEF ViewAssumption, RowSetIds
<1>2. \A rs, m : IsFiniteSet(Users(rs, m))
      BY <1>1, FS_Subset DEF Users
<1>3. \A q, r : IsFiniteSet(Readers(q, r))
      BY FS_Subset DEF Readers, ViewAssumption
<1> QED BY <1>1, <1>2, <1>3, FS_CardinalityType

\* A mapping without references has no holder.
LEMMA UnusedUnheld ==
    ASSUME ViewAssumption, NEW st, ViewShaped(st), Counted(st), NEW m \in Maps, st.refs[m] = 0
    PROVE  m \notin st.view.segments /\ \A r \in RowSetIds : m \notin st.rowsets[r].segments
<1>1. /\ Cardinality(Users(st.rowsets, m)) \in Nat /\ IsFiniteSet(Users(st.rowsets, m))
      /\ 0 = Cardinality(Users(st.rowsets, m)) + (IF m \in st.view.segments THEN 1 ELSE 0)
      BY FiniteHolders DEF Counted
<1>2. m \notin st.view.segments /\ Cardinality(Users(st.rowsets, m)) = 0
      BY <1>1
<1>3. Users(st.rowsets, m) = {}
      BY <1>1, <1>2, FS_EmptySet
<1> QED BY <1>2, <1>3 DEF Users

-----------------------------------------------------------------------------
(* What the operators make of the parts of a state.                          *)
St(a, b, v, c) == [refs |-> a, name |-> b, view |-> v, rowsets |-> c]
ViewOf(y, i, g, w) == [synced |-> y, identity |-> i, segments |-> g, rowset |-> w]
RowSet(h, k) == [segments |-> h, refs |-> k]
Put(c, r, h, k) == [c EXCEPT ![r] = RowSet(h, k)]
Less(a, ms) == [m \in Maps |-> IF m \in ms THEN a[m] - 1 ELSE a[m]]
More(a, ms) == [m \in Maps |-> IF m \in ms THEN a[m] + 1 ELSE a[m]]

LEMMA Fields ==
    /\ \A a, b, v, c : /\ St(a, b, v, c).refs = a /\ St(a, b, v, c).name = b
                       /\ St(a, b, v, c).view = v /\ St(a, b, v, c).rowsets = c
    /\ \A y, i, g, w : /\ ViewOf(y, i, g, w).synced = y /\ ViewOf(y, i, g, w).identity = i
                       /\ ViewOf(y, i, g, w).segments = g /\ ViewOf(y, i, g, w).rowset = w
    /\ \A h, k : RowSet(h, k).segments = h /\ RowSet(h, k).refs = k
    BY DEF St, ViewOf, RowSet

\* A state as a record of its parts.
LEMMA PartsOf ==
    ASSUME NEW st, ViewShaped(st)
    PROVE  \E a, b, v, c, y, i, g, w :
              /\ st = St(a, b, v, c) /\ v = ViewOf(y, i, g, w)
              /\ a \in [Maps -> Nat] /\ b \in NamesOf /\ g \subseteq Maps /\ w \in RowSetIds \cup {Unset}
              /\ c \in RowSets
<1>1. PICK a, b, v, c : st = [refs |-> a, name |-> b, view |-> v, rowsets |-> c]
      BY DEF ViewShaped
<1>2. PICK y, i, g, w : v = [synced |-> y, identity |-> i, segments |-> g, rowset |-> w]
      BY <1>1 DEF ViewShaped
<1>3. /\ a \in [Maps -> Nat] /\ b \in NamesOf /\ g \subseteq Maps /\ w \in RowSetIds \cup {Unset}
      /\ c \in RowSets
      BY <1>1, <1>2 DEF ViewShaped
<1> QED BY <1>1, <1>2, <1>3 DEF St, ViewOf

LEMMA ShapedParts ==
    ASSUME NEW a \in [Maps -> Nat], NEW b \in NamesOf, NEW c \in RowSets,
           NEW y, NEW i, NEW g \in SUBSET Maps, NEW w \in RowSetIds \cup {Unset}
    PROVE  ViewShaped(St(a, b, ViewOf(y, i, g, w), c))
    BY DEF ViewShaped, St, ViewOf, RowSets

LEMMA SetParts ==
    ASSUME NEW c \in RowSets, NEW r \in RowSetIds
    PROVE  \E h \in SUBSET Maps, k \in Nat : c[r] = RowSet(h, k)
<1>1. c[r] \in [segments : SUBSET Maps, refs : Nat]
      BY DEF RowSets
<1> QED BY <1>1 DEF RowSet

LEMMA SetPut ==
    ASSUME NEW c \in RowSets, NEW r \in RowSetIds,
           NEW h \in SUBSET Maps, NEW k \in Nat
    PROVE  /\ Put(c, r, h, k) \in RowSets
           /\ Put(c, r, h, k)[r].segments = h /\ Put(c, r, h, k)[r].refs = k
           /\ \A s \in RowSetIds : s # r => Put(c, r, h, k)[s] = c[s]
<1>0. PICK d : d = Put(c, r, h, k)
      OBVIOUS
<1>1. RowSet(h, k) \in [segments : SUBSET Maps, refs : Nat]
      BY DEF RowSet
<1>2. d[r] = RowSet(h, k) /\ \A s \in RowSetIds : s # r => d[s] = c[s]
      BY <1>0 DEF Put, RowSets
<1>3. d \in RowSets
      BY <1>0, <1>1 DEF Put, RowSets
<1> QED BY <1>0, <1>2, <1>3, Fields

LEMMA ReleaseIs ==
    ASSUME NEW a, NEW b \in NamesOf, NEW v, NEW c, NEW ms
    PROVE  \E n \in NamesOf : Release(St(a, b, v, c), ms) = St(Less(a, ms), n, v, c)
<1>1. PICK st : st = St(a, b, v, c)
      OBVIOUS
<1>2. PICK x : x = Less(a, ms)
      OBVIOUS
<1>3. PICK n \in NamesOf : n = [m \in Maps |-> IF m \in ms /\ a[m] = 1 THEN Unset ELSE b[m]]
      BY DEF NamesOf
<1>4. Release(st, ms) = [st EXCEPT !.refs = x, !.name = n]
      BY <1>1, <1>2, <1>3 DEF Release, Less, St
<1>5. PICK k : k = [st EXCEPT !.refs = x, !.name = n]
      OBVIOUS
<1>6. k = [refs |-> x, name |-> n, view |-> v, rowsets |-> c]
      BY <1>1, <1>5 DEF St
<1>7. k = St(x, n, v, c)
      BY <1>6 DEF St
<1> QED BY <1>1, <1>2, <1>4, <1>5, <1>7

\* The last holder of a row set releases its mappings, another one only itself.
LEMMA LastReleaseIs ==
    ASSUME NEW a, NEW b \in NamesOf, NEW v, NEW c, NEW r \in RowSetIds, NEW h, c[r] = RowSet(h, 1)
    PROVE  \E n \in NamesOf : ReleaseSet(St(a, b, v, c), r) =
                    St(Less(a, h), n, v, Put(c, r, {}, 0))
<1>1. PICK st : st = St(a, b, v, c)
      OBVIOUS
<1>2. PICK empty : empty = [st EXCEPT !.rowsets[r] = [segments |-> {}, refs |-> 0]]
      OBVIOUS
<1>3. empty = St(a, b, v, Put(c, r, {}, 0))
      BY <1>1, <1>2 DEF St, RowSet, Put
<1>4. st.rowsets[r].refs - 1 = 0 /\ st.rowsets[r].segments = h
      BY <1>1 DEF St, RowSet
<1>5. ReleaseSet(st, r) = Release(empty, h)
      BY <1>2, <1>4 DEF ReleaseSet
<1>6. PICK e : e = Put(c, r, {}, 0)
      OBVIOUS
<1>7. \E n \in NamesOf : Release(St(a, b, v, e), h) = St(Less(a, h), n, v, e)
      BY ReleaseIs
<1> QED BY <1>1, <1>3, <1>5, <1>6, <1>7

LEMMA OtherReleaseIs ==
    ASSUME NEW a, NEW b, NEW v, NEW c, NEW r \in RowSetIds, NEW h, NEW k \in Nat, k > 1,
           c[r] = RowSet(h, k)
    PROVE  ReleaseSet(St(a, b, v, c), r) = St(a, b, v, Put(c, r, h, k - 1))
<1>1. PICK st : st = St(a, b, v, c)
      OBVIOUS
<1>2. st.rowsets[r].refs - 1 = k - 1 /\ k - 1 # 0
      BY <1>1 DEF St, RowSet
<1>3. PICK less : less = [st EXCEPT !.rowsets[r].refs = k - 1]
      OBVIOUS
<1>4. ReleaseSet(st, r) = less
      BY <1>2, <1>3 DEF ReleaseSet
<1>5. PICK z : z = c[r]
      OBVIOUS
<1>6. [z EXCEPT !.refs = k - 1] = RowSet(h, k - 1)
      BY <1>5 DEF RowSet
<1>7. less = St(a, b, v, Put(c, r, h, k - 1))
      BY <1>1, <1>3, <1>5, <1>6 DEF St, Put
<1> QED BY <1>1, <1>4, <1>7
\* A reference of a row set goes: the mappings are counted as before.
LEMMA ReleaseSetCounts ==
    ASSUME ViewAssumption, NEW st, ViewShaped(st), Counted(st), NEW r \in RowSetIds, st.rowsets[r].refs > 0,
           NEW k, k = ReleaseSet(st, r)
    PROVE  /\ ViewShaped(k) /\ Counted(k) /\ k.view = st.view
           /\ \A n \in RowSetIds :
                /\ k.rowsets[n].refs = (IF n = r THEN st.rowsets[r].refs - 1 ELSE st.rowsets[n].refs)
                /\ k.rowsets[n].refs > 0 => k.rowsets[n].segments = st.rowsets[n].segments
           /\ \A m \in Maps : st.refs[m] = 0 => k.refs[m] = 0
<1>1. PICK a, b, v, c, y, i, g, w :
         /\ st = St(a, b, v, c) /\ v = ViewOf(y, i, g, w)
         /\ a \in [Maps -> Nat] /\ b \in NamesOf /\ g \subseteq Maps /\ w \in RowSetIds \cup {Unset}
         /\ c \in RowSets
      BY PartsOf
<1>2. /\ st.refs = a /\ st.rowsets = c /\ st.view = v /\ v.segments = g
      BY <1>1, Fields
<1>3. PICK h \in SUBSET Maps, z \in Nat : c[r] = RowSet(h, z)
      BY <1>1, SetParts
<1>4. c[r].segments = h /\ c[r].refs = z
      BY <1>3, Fields
<1>5. z > 0
      BY <1>2, <1>4
<1>6. /\ \A s \in RowSetIds : c[s].refs = 0 => c[s].segments = {}
      /\ \A m \in Maps : a[m] = Cardinality(Users(c, m)) + (IF m \in g THEN 1 ELSE 0)
      BY <1>2 DEF Counted
<1>7. CASE z = 1
  <2>1. PICK x : x = Less(a, h)
        OBVIOUS
  <2>2. PICK d : d = Put(c, r, {}, 0)
        OBVIOUS
  <2>a. c[r] = RowSet(h, 1)
        BY <1>3, <1>7
  <2>b. \E n \in NamesOf : ReleaseSet(St(a, b, v, c), r) = St(Less(a, h), n, v, Put(c, r, {}, 0))
        BY <1>1, <2>a, LastReleaseIs
  <2>3. PICK n \in NamesOf : k = St(x, n, v, d)
        BY <1>1, <2>b, <2>1, <2>2
  <2>4. /\ d \in RowSets
        /\ d[r].segments = {} /\ d[r].refs = 0 /\ \A s \in RowSetIds : s # r => d[s] = c[s]
    <3>1. c \in RowSets /\ {} \in SUBSET Maps
          BY <1>1
    <3>2. /\ Put(c, r, {}, 0) \in RowSets
          /\ Put(c, r, {}, 0)[r].segments = {} /\ Put(c, r, {}, 0)[r].refs = 0
          /\ \A s \in RowSetIds : s # r => Put(c, r, {}, 0)[s] = c[s]
          BY <3>1, SetPut
    <3> QED BY <2>2, <3>2
  <2>5. ASSUME NEW m \in Maps
        PROVE  /\ x[m] \in Nat /\ x[m] = Cardinality(Users(d, m)) + (IF m \in g THEN 1 ELSE 0)
               /\ a[m] = 0 => x[m] = 0
    <3>1. /\ Cardinality(Users(c, m)) \in Nat /\ Cardinality(Users(d, m)) \in Nat
          /\ a[m] = Cardinality(Users(c, m)) + (IF m \in g THEN 1 ELSE 0)
          BY <1>6, FiniteHolders
    <3>2. IsFiniteSet(Users(c, m))
          BY FiniteHolders
    <3>3. CASE m \in h
      <4>1. Users(d, m) = Users(c, m) \ {r} /\ r \in Users(c, m)
            BY <1>4, <2>4, <3>3 DEF Users
      <4>2. Cardinality(Users(c, m) \ {r}) = Cardinality(Users(c, m)) - 1
            BY <3>2, <4>1, FS_RemoveElement
      <4>3. x[m] = a[m] - 1
            BY <2>1, <3>3 DEF Less
      <4> QED BY <3>1, <4>1, <4>2, <4>3
    <3>4. CASE m \notin h
      <4>1. Users(d, m) = Users(c, m)
            BY <1>4, <2>4, <3>4 DEF Users
      <4>2. x[m] = a[m]
            BY <2>1, <3>4 DEF Less
      <4> QED BY <3>1, <4>1, <4>2
    <3> QED BY <3>3, <3>4
  <2>6. x \in [Maps -> Nat]
        BY <2>1, <2>5 DEF Less
  <2>7. ViewShaped(k)
        BY <1>1, <2>3, <2>4, <2>6, ShapedParts
  <2>8. \A s \in RowSetIds : d[s].refs = 0 => d[s].segments = {}
        BY <1>6, <2>4
  <2>9. k.view.segments = g /\ k.refs = x /\ k.rowsets = d /\ k.view = st.view
        BY <1>2, <2>3, Fields
  <2>10. Counted(k)
         BY <2>5, <2>8, <2>9 DEF Counted
  <2> QED BY <1>2, <1>4, <1>7, <2>4, <2>5, <2>7, <2>9, <2>10
<1>8. CASE z # 1
  <2>1. z - 1 \in Nat /\ z - 1 > 0 /\ z > 1
        BY <1>5, <1>8
  <2>2. PICK d : d = Put(c, r, h, z - 1)
        OBVIOUS
  <2>a. ReleaseSet(St(a, b, v, c), r) = St(a, b, v, Put(c, r, h, z - 1))
        BY <1>3, <2>1, OtherReleaseIs
  <2>3. k = St(a, b, v, d)
        BY <1>1, <2>a, <2>2
  <2>4. /\ d \in RowSets
        /\ d[r].segments = h /\ d[r].refs = z - 1 /\ \A s \in RowSetIds : s # r => d[s] = c[s]
    <3>1. c \in RowSets
          BY <1>1
    <3>2. /\ Put(c, r, h, z - 1) \in RowSets
          /\ Put(c, r, h, z - 1)[r].segments = h /\ Put(c, r, h, z - 1)[r].refs = z - 1
          /\ \A s \in RowSetIds : s # r => Put(c, r, h, z - 1)[s] = c[s]
          BY <2>1, <3>1, SetPut
    <3> QED BY <2>2, <3>2
  <2>5. \A s \in RowSetIds : d[s].segments = c[s].segments
        BY <1>4, <2>4
  <2>6. \A m \in Maps : Users(d, m) = Users(c, m)
        BY <2>5 DEF Users
  <2>7. ViewShaped(k)
        BY <1>1, <2>3, <2>4, ShapedParts
  <2>8. k.view.segments = g /\ k.refs = a /\ k.rowsets = d /\ k.view = st.view
        BY <1>2, <2>3, Fields
  <2>9. \A s \in RowSetIds : d[s].refs = 0 => d[s].segments = {}
        BY <1>6, <2>1, <2>4
  <2>10. Counted(k)
         BY <1>6, <2>6, <2>8, <2>9 DEF Counted
  <2> QED BY <1>2, <1>4, <2>4, <2>5, <2>7, <2>8, <2>10
<1> QED BY <1>7, <1>8

\* The view lets go of some of its mappings, without rows over them.
LEMMA ReleaseCounts ==
    ASSUME ViewAssumption, NEW st, ViewShaped(st), Counted(st), NEW gone, gone \subseteq st.view.segments,
           NEW a, NEW b, NEW v, NEW c, NEW y, NEW i, NEW g, NEW w,
           st = St(a, b, v, c), v = ViewOf(y, i, g, w)
    PROVE  /\ Less(a, gone) \in [Maps -> Nat]
           /\ \A m \in Maps : Less(a, gone)[m] =
                 Cardinality(Users(c, m)) + (IF m \in g \ gone THEN 1 ELSE 0)
<1>1. /\ st.refs = a /\ st.rowsets = c /\ st.view = v /\ v.segments = g
      BY Fields
<1>2. ASSUME NEW m \in Maps
      PROVE  /\ Less(a, gone)[m] \in Nat
             /\ Less(a, gone)[m] = Cardinality(Users(c, m)) + (IF m \in g \ gone THEN 1 ELSE 0)
  <2>1. /\ a[m] = Cardinality(Users(c, m)) + (IF m \in g THEN 1 ELSE 0)
        /\ Cardinality(Users(c, m)) \in Nat
        BY <1>1, FiniteHolders DEF Counted
  <2>2. Less(a, gone)[m] = IF m \in gone THEN a[m] - 1 ELSE a[m]
        BY DEF Less
  <2> QED BY <1>1, <2>1, <2>2
<1> QED BY <1>2 DEF Less
-----------------------------------------------------------------------------
(* The steps under the view's mutex.                                         *)
Lies(st, k) == \A m \in Maps : st.refs[m] = 0 => k.refs[m] = 0

LEMMA DropGood ==
    ASSUME ViewAssumption, NEW st, NEW q, Good(st, q), NEW k, k = dropSnapshot(st)
    PROVE  /\ Good(k, q) /\ k.view.rowset = Unset /\ Lies(st, k)
           /\ k.view.segments = st.view.segments /\ k.view.synced = st.view.synced
           /\ k.view.identity = st.view.identity
<1>1. CASE st.view.rowset = Unset
      BY <1>1 DEF dropSnapshot, Lies
<1>2. CASE st.view.rowset # Unset
  <2>1. ViewShaped(st) /\ Counted(st) /\ HeldBy(st, q)
        BY DEF Good
  <2>2. PICK r \in RowSetIds : r = st.view.rowset
        BY <1>2, <2>1 DEF ViewShaped
  <2>3. /\ st.rowsets[r].refs = Cardinality(Readers(q, r)) + 1
        /\ Cardinality(Readers(q, r)) \in Nat
        BY <2>1, <2>2, FiniteHolders DEF HeldBy
  <2>4. st.rowsets[r].refs > 0
        BY <2>3
  <2>5. PICK j : j = ReleaseSet(st, r)
        OBVIOUS
  <2>6. /\ ViewShaped(j) /\ Counted(j) /\ j.view = st.view
        /\ \A n \in RowSetIds :
             /\ j.rowsets[n].refs = (IF n = r THEN st.rowsets[r].refs - 1 ELSE st.rowsets[n].refs)
             /\ j.rowsets[n].refs > 0 => j.rowsets[n].segments = st.rowsets[n].segments
        /\ \A m \in Maps : st.refs[m] = 0 => j.refs[m] = 0
        BY <2>1, <2>4, <2>5, ReleaseSetCounts
  <2>7. PICK a, b, v, c, y, i, g, w :
           /\ j = St(a, b, v, c) /\ v = ViewOf(y, i, g, w)
           /\ a \in [Maps -> Nat] /\ b \in NamesOf /\ g \subseteq Maps /\ w \in RowSetIds \cup {Unset}
           /\ c \in RowSets
        BY <2>6, PartsOf
  <2>8. PICK u : u = ViewOf(y, i, g, Unset)
        OBVIOUS
  <2>9. k = [j EXCEPT !.view.rowset = Unset]
        BY <1>2, <2>2, <2>5 DEF dropSnapshot
  <2>10. k = St(a, b, u, c)
         BY <2>7, <2>8, <2>9 DEF St, ViewOf
  <2>11. ViewShaped(k)
         BY <2>7, <2>8, <2>10, ShapedParts
  <2>12. /\ k.refs = a /\ k.rowsets = c /\ k.view.segments = g /\ k.view.rowset = Unset
         /\ k.view.synced = y /\ k.view.identity = i
         /\ j.refs = a /\ j.rowsets = c
         /\ j.view.segments = g /\ j.view.synced = y /\ j.view.identity = i
         BY <2>7, <2>8, <2>10, Fields
  <2>13. Counted(k)
         BY <2>6, <2>12 DEF Counted
  <2>14. ASSUME NEW n \in RowSetIds
         PROVE  k.rowsets[n].refs = Cardinality(Readers(q, n)) + (IF k.view.rowset = n THEN 1 ELSE 0)
    <3>1. Unset # n
          BY DEF ViewAssumption
    <3>2. /\ st.rowsets[n].refs = Cardinality(Readers(q, n)) + (IF r = n THEN 1 ELSE 0)
          /\ Cardinality(Readers(q, n)) \in Nat
          BY <2>1, <2>2, FiniteHolders DEF HeldBy
    <3>3. k.rowsets[n].refs = (IF n = r THEN st.rowsets[r].refs - 1 ELSE st.rowsets[n].refs)
          BY <2>6, <2>12
    <3> QED BY <2>3, <2>12, <3>1, <3>2, <3>3
  <2>15. HeldBy(k, q)
         BY <2>14 DEF HeldBy
  <2> QED BY <2>6, <2>11, <2>12, <2>13, <2>15 DEF Good, OfTheView, Lies
<1> QED BY <1>1, <1>2

\* Reading the manifest keeps no rows over another one.
LEMMA ReadGood ==
    ASSUME ViewAssumption, NEW st, NEW q, Good(st, q), NEW k, k = readManifest(st)
    PROVE  Good(k, q)
<1>1. CASE st.view.identity = saved
      BY <1>1 DEF readManifest
<1>2. CASE st.view.identity # saved
  <2>1. PICK j : j = dropSnapshot(st)
        OBVIOUS
  <2>2. Good(j, q) /\ j.view.rowset = Unset
        BY <2>1, DropGood
  <2>3. PICK a, b, v, c, y, i, g, w :
           /\ j = St(a, b, v, c) /\ v = ViewOf(y, i, g, w)
           /\ a \in [Maps -> Nat] /\ b \in NamesOf /\ g \subseteq Maps /\ w \in RowSetIds \cup {Unset}
           /\ c \in RowSets
        BY <2>2, PartsOf DEF Good
  <2>4. PICK u : u = ViewOf(y, saved, g, w)
        OBVIOUS
  <2>5. k = [j EXCEPT !.view.identity = saved]
        BY <1>2, <2>1 DEF readManifest
  <2>6. k = St(a, b, u, c)
        BY <2>3, <2>4, <2>5 DEF St, ViewOf
  <2>7. ViewShaped(k)
        BY <2>3, <2>4, <2>6, ShapedParts
  <2>8. /\ k.refs = j.refs /\ k.rowsets = j.rowsets /\ k.view.segments = j.view.segments
        /\ k.view.rowset = j.view.rowset
        BY <2>3, <2>4, <2>6, Fields
  <2> QED BY <2>2, <2>7, <2>8 DEF Good, Counted, HeldBy, OfTheView
<1> QED BY <1>1, <1>2
\* A view that is dropped leaves the rows of the searches mapped.
LEMMA ResetGood ==
    ASSUME ViewAssumption, NEW st, NEW q, Good(st, q), NEW k, k = reset(st)
    PROVE  Good(k, q)
<1>1. PICK d : d = dropSnapshot(st)
      OBVIOUS
<1>2. Good(d, q) /\ d.view.rowset = Unset
      BY <1>1, DropGood
<1>3. PICK a, b, v, c, y, i, g, w :
         /\ d = St(a, b, v, c) /\ v = ViewOf(y, i, g, w)
         /\ a \in [Maps -> Nat] /\ b \in NamesOf /\ g \subseteq Maps /\ w \in RowSetIds \cup {Unset}
         /\ c \in RowSets
      BY <1>2, PartsOf DEF Good
<1>4. /\ d.refs = a /\ d.rowsets = c /\ d.view = v /\ d.view.segments = g /\ w = Unset
      BY <1>2, <1>3, Fields
<1>5. PICK x : x = Less(a, g)
      OBVIOUS
<1>6. /\ x \in [Maps -> Nat]
      /\ \A m \in Maps : x[m] = Cardinality(Users(c, m)) + (IF m \in g \ g THEN 1 ELSE 0)
  <2>1. ViewShaped(d) /\ Counted(d) /\ g \subseteq d.view.segments
        BY <1>2, <1>4 DEF Good
  <2>2. d = St(a, b, v, c) /\ v = ViewOf(y, i, g, w)
        BY <1>3
  <2>3. /\ Less(a, g) \in [Maps -> Nat]
        /\ \A m \in Maps : Less(a, g)[m] = Cardinality(Users(c, m)) + (IF m \in g \ g THEN 1 ELSE 0)
        BY <2>1, <2>2, ReleaseCounts
  <2> QED BY <1>5, <2>3
<1>7. PICK n \in NamesOf : Release(d, g) = St(x, n, v, c)
      BY <1>3, <1>5, ReleaseIs
<1>8. PICK j : j = Release(d, g)
      OBVIOUS
<1>9. k = [j EXCEPT !.view = NoView]
      BY <1>1, <1>4, <1>8 DEF reset
<1>a. PICK no, none : no = FALSE /\ none = {}
      OBVIOUS
<1>10. PICK u : u = ViewOf(no, Unset, none, Unset)
       OBVIOUS
<1>b. NoView = u
      BY <1>a, <1>10 DEF NoView, ViewOf
<1>c. j = [refs |-> x, name |-> n, view |-> v, rowsets |-> c]
      BY <1>7, <1>8 DEF St
<1>11. k = St(x, n, u, c)
       BY <1>9, <1>b, <1>c DEF St
<1>12. {} \in SUBSET Maps /\ Unset \in RowSetIds \cup {Unset}
       OBVIOUS
<1>13. ViewShaped(k)
       BY <1>3, <1>6, <1>10, <1>11, <1>12, <1>a, ShapedParts
<1>d. /\ k.refs = x /\ k.rowsets = c /\ k.view.segments = none /\ k.view.rowset = Unset
      BY <1>10, <1>11, Fields
<1>14. /\ k.refs = x /\ k.rowsets = c /\ k.view.segments = {} /\ k.view.rowset = Unset
       BY <1>a, <1>d
<1>15. \A r \in RowSetIds : c[r].refs = 0 => c[r].segments = {}
       BY <1>2, <1>4 DEF Good, Counted
<1>16. Counted(k)
       BY <1>6, <1>14, <1>15 DEF Counted
<1>17. HeldBy(k, q)
       BY <1>2, <1>4, <1>14 DEF Good, HeldBy
<1> QED BY <1>13, <1>14, <1>16, <1>17 DEF Good, OfTheView

\* Of the numbers that are free, as many as asked for are taken at most.
LEMMA FreshFew ==
    ASSUME ViewAssumption, NEW U \in SUBSET Maps, NEW n \in Nat, NEW F,
           F = {m \in U : Cardinality({k \in U : k < m}) < n}
    PROVE  IsFiniteSet(F) /\ Cardinality(F) <= n
<1> DEFINE Below(m) == {k \in U : k < m}
<1>1. \A m : IsFiniteSet(Below(m)) /\ Cardinality(Below(m)) \in Nat
  <2>1. IsFiniteSet(Maps)
        BY FS_Interval DEF ViewAssumption, Maps
  <2>2. \A m : Below(m) \in SUBSET Maps
        OBVIOUS
  <2> QED BY <2>1, <2>2, FS_Subset, FS_CardinalityType
<1>2. ASSUME NEW m \in U, NEW k \in U, k < m
      PROVE  Cardinality(Below(k)) < Cardinality(Below(m))
  <2>1. k \notin Below(k) /\ Below(k) \cup {k} \subseteq Below(m)
    <3>1. m \in Nat /\ k \in Nat /\ \A i \in U : i \in Nat
          BY DEF Maps
    <3>2. ~(k < k) /\ \A i \in U : i < k => i < m
          BY <1>2, <3>1
    <3> QED BY <1>2, <3>2
  <2>2. /\ IsFiniteSet(Below(k)) /\ Cardinality(Below(k)) \in Nat
        /\ IsFiniteSet(Below(m)) /\ Cardinality(Below(m)) \in Nat
        BY <1>1
  <2> HIDE DEF Below
  <2>3. Cardinality(Below(k) \cup {k}) = Cardinality(Below(k)) + 1
        BY <2>1, <2>2, FS_AddElement
  <2>4. Cardinality(Below(k) \cup {k}) <= Cardinality(Below(m))
        BY <2>1, <2>2, FS_Subset
  <2> QED BY <2>2, <2>3, <2>4
<1>3. F \subseteq U /\ \A m \in F : Cardinality(Below(m)) < n
      OBVIOUS
<1> HIDE DEF Below
<1>4. PICK f : f = [m \in F |-> Cardinality(Below(m))]
      OBVIOUS
<1>5. f \in [F -> 0 .. n - 1]
      BY <1>1, <1>3, <1>4
<1>6. ASSUME NEW m \in F, NEW k \in F, f[m] = f[k] PROVE m = k
  <2>1. m \in U /\ k \in U /\ m \in Nat /\ k \in Nat
        BY <1>3 DEF Maps
  <2>2. m < k \/ k < m \/ m = k
        BY <2>1
  <2>3. Cardinality(Below(m)) = Cardinality(Below(k))
        BY <1>4, <1>6
  <2>4. Cardinality(Below(m)) \in Nat
        BY <1>1
  <2> QED BY <1>2, <2>1, <2>2, <2>3, <2>4
<1>7. f \in Injection(F, 0 .. n - 1)
      BY <1>5, <1>6 DEF Injection, IsInjective
<1>8. IsFiniteSet(0 .. n - 1) /\ Cardinality(0 .. n - 1) = n
  <2>1. 0 \in Int /\ n - 1 \in Int
        OBVIOUS
  <2>2. /\ IsFiniteSet(0 .. n - 1)
        /\ Cardinality(0 .. n - 1) = IF 0 > n - 1 THEN 0 ELSE n - 1 - 0 + 1
        BY <2>1, FS_Interval
  <2> QED BY <2>2
<1> QED BY <1>7, <1>8, FS_Injection

\* A set that is no larger than another one can be numbered in it.
LEMMA Numbered ==
    ASSUME NEW S, NEW T, IsFiniteSet(S), IsFiniteSet(T), Cardinality(S) <= Cardinality(T)
    PROVE  \E f \in [S -> T] : \A x, y \in S : f[x] = f[y] => x = y
<1>1. /\ Cardinality(S) \in Nat /\ Cardinality(T) \in Nat
      /\ ExistsBijection(1 .. Cardinality(S), S) /\ ExistsBijection(1 .. Cardinality(T), T)
      BY FS_CardinalityType
<1>2. ExistsBijection(S, 1 .. Cardinality(S))
      BY <1>1, Fun_ExistsBijSymmetric
<1>3. PICK i : i \in [S -> 1 .. Cardinality(S)] /\ \A x, y \in S : i[x] = i[y] => x = y
      BY <1>2 DEF ExistsBijection, Bijection, Injection, IsInjective
<1>4. PICK j : /\ j \in [1 .. Cardinality(T) -> T]
               /\ \A x, y \in 1 .. Cardinality(T) : j[x] = j[y] => x = y
      BY <1>1 DEF ExistsBijection, Bijection, Injection, IsInjective
<1>5. \A x \in S : i[x] \in 1 .. Cardinality(T)
      BY <1>1, <1>3
<1>6. PICK f : f = [x \in S |-> j[i[x]]]
      OBVIOUS
<1> QED BY <1>3, <1>4, <1>5, <1>6

\* The new mappings are of files the store has.
LEMMA NumberingTyped ==
    ASSUME ViewAssumption, NEW st, NEW added \in SUBSET Names,
           NEW new, new = Fresh(st, Cardinality(added))
    PROVE  Numbering(new, added) \in [new -> added]
<1>1. IsFiniteSet(added) /\ Cardinality(added) \in Nat
      BY FS_Subset, FS_CardinalityType DEF ViewAssumption
<1>2. IsFiniteSet(new) /\ Cardinality(new) <= Cardinality(added)
  <2>1. PICK U \in SUBSET Maps : U = Unused(st)
        BY DEF Unused
  <2>2. new = {m \in U : Cardinality({k \in U : k < m}) < Cardinality(added)}
        BY <2>1 DEF Fresh
  <2> QED BY <1>1, <2>1, <2>2, FreshFew
<1>3. \E f \in [new -> added] : \A x, y \in new : f[x] = f[y] => x = y
      BY <1>1, <1>2, Numbered
<1> QED BY <1>3 DEF Numbering

\* New mappings are counted from one, those of files that are gone let go of.
LEMMA SyncGood ==
    ASSUME ViewAssumption, stored \subseteq Names, NEW st, NEW q, Good(st, q), NEW k, k = sync(st)
    PROVE  Good(k, q)
<1>1. CASE st.view.synced /\ Mapped(st) = stored
      BY <1>1 DEF sync
<1>2. CASE ~(st.view.synced /\ Mapped(st) = stored)
  <2>1. PICK d : d = dropSnapshot(st)
        OBVIOUS
  <2>2. /\ Good(d, q) /\ d.view.rowset = Unset /\ d.view.segments = st.view.segments
        /\ Lies(st, d)
        BY <2>1, DropGood
  <2>3. PICK a, b, v, c, y, i, g, w :
           /\ d = St(a, b, v, c) /\ v = ViewOf(y, i, g, w)
           /\ a \in [Maps -> Nat] /\ b \in NamesOf /\ g \subseteq Maps /\ w \in RowSetIds \cup {Unset}
           /\ c \in RowSets
        BY <2>2, PartsOf DEF Good
  <2>4. /\ d.refs = a /\ d.rowsets = c /\ d.view = v /\ d.view.segments = g /\ w = Unset
        BY <2>2, <2>3, Fields
  <2>5. PICK gone : gone = {m \in st.view.segments : st.name[m] \notin stored}
        OBVIOUS
  <2>6. gone \subseteq g
        BY <2>2, <2>4, <2>5
  <2>7. PICK new : new = Fresh(st, Cardinality(stored \ Mapped(st)))
        OBVIOUS
  <2>8. \A m \in new : m \in Maps /\ a[m] = 0
        BY <2>2, <2>4, <2>7 DEF Fresh, Unused, Lies
  <2>9. PICK x : x = Less(a, gone)
        OBVIOUS
  <2>10. /\ x \in [Maps -> Nat]
         /\ \A m \in Maps : x[m] = Cardinality(Users(c, m)) + (IF m \in g \ gone THEN 1 ELSE 0)
    <3>1. ViewShaped(d) /\ Counted(d) /\ gone \subseteq d.view.segments
          BY <2>2, <2>4, <2>6 DEF Good
    <3>a. d = St(a, b, v, c) /\ v = ViewOf(y, i, g, w)
          BY <2>3
    <3>2. /\ Less(a, gone) \in [Maps -> Nat]
          /\ \A m \in Maps : Less(a, gone)[m] =
                Cardinality(Users(c, m)) + (IF m \in g \ gone THEN 1 ELSE 0)
          BY <3>1, <3>a, ReleaseCounts
    <3> QED BY <2>9, <3>2
  <2>11. PICK n \in NamesOf : Release(d, gone) = St(x, n, v, c)
         BY <2>3, <2>9, ReleaseIs
  <2>12. PICK j : j = Release(d, gone)
         OBVIOUS
  <2>13. PICK x1 : x1 = [m \in Maps |-> IF m \in new THEN 1 ELSE j.refs[m]]
         OBVIOUS
  <2>14. PICK f : f = Numbering(new, stored \ Mapped(st))
         OBVIOUS
  <2>15. PICK n1 : n1 = [m \in Maps |-> IF m \in new THEN f[m] ELSE j.name[m]]
         OBVIOUS
  <2>f. n1 \in NamesOf
    <3>1. f \in [new -> stored \ Mapped(st)]
      <4>1. stored \ Mapped(st) \subseteq Names
            OBVIOUS
      <4> QED BY <2>7, <2>14, <4>1, NumberingTyped
    <3>2. j.name = n
          BY <2>11, <2>12, Fields
    <3> QED BY <2>15, <3>1, <3>2 DEF NamesOf
  <2>16. PICK g1 : g1 = (j.view.segments \ gone) \cup new
         OBVIOUS
  <2>17. k = [j EXCEPT !.refs = x1, !.name = n1, !.view.synced = TRUE, !.view.segments = g1]
         BY <1>2, <2>1, <2>5, <2>7, <2>12, <2>13, <2>14, <2>15, <2>16 DEF sync
  <2>a. PICK yes : yes = TRUE
        OBVIOUS
  <2>18. PICK u : u = ViewOf(yes, i, g1, Unset)
         OBVIOUS
  <2>b. j = [refs |-> x, name |-> n, view |-> v, rowsets |-> c]
        BY <2>11, <2>12 DEF St
  <2>c. v = [synced |-> y, identity |-> i, segments |-> g, rowset |-> Unset]
        BY <2>3, <2>4 DEF ViewOf
  <2>d. k = [j EXCEPT !.refs = x1, !.name = n1, !.view.synced = yes, !.view.segments = g1]
        BY <2>17, <2>a
  <2>e. k = [refs |-> x1, name |-> n1, rowsets |-> c,
             view |-> [synced |-> yes, identity |-> i, segments |-> g1, rowset |-> Unset]]
    <3>1. PICK z : z = [v EXCEPT !.synced = yes, !.segments = g1]
          OBVIOUS
    <3>2. z = [synced |-> yes, identity |-> i, segments |-> g1, rowset |-> Unset]
          BY <2>c, <3>1
    <3>3. k = [refs |-> x1, name |-> n1, view |-> z, rowsets |-> c]
          BY <2>b, <2>d, <3>1
    <3> QED BY <3>2, <3>3
  <2>19. k = St(x1, n1, u, c)
         BY <2>18, <2>e DEF St, ViewOf
  <2>20. j.refs = x /\ j.view.segments = g
         BY <2>3, <2>11, <2>12, Fields
  <2>21. g1 \in SUBSET Maps /\ Unset \in RowSetIds \cup {Unset}
         BY <2>3, <2>8, <2>16, <2>20
  <2>22. x1 \in [Maps -> Nat]
         BY <2>10, <2>13, <2>20
  <2>23. ViewShaped(k)
         BY <2>3, <2>18, <2>19, <2>21, <2>22, <2>f, ShapedParts
  <2>24. ASSUME NEW m \in Maps
         PROVE  x1[m] = Cardinality(Users(c, m)) + (IF m \in g1 THEN 1 ELSE 0)
    <3>1. CASE m \in new
      <4>1. a[m] = 0
            BY <2>8, <3>1
      <4>2. \A r \in RowSetIds : m \notin c[r].segments
            BY <2>2, <2>4, <4>1, UnusedUnheld DEF Good
      <4>3. Users(c, m) = {}
            BY <4>2 DEF Users
      <4>4. Cardinality(Users(c, m)) = 0
            BY <4>3, FS_EmptySet
      <4> QED BY <2>13, <2>16, <3>1, <4>4
    <3>2. CASE m \notin new
      <4>1. x1[m] = x[m] /\ (m \in g1 <=> m \in g \ gone)
            BY <2>13, <2>16, <2>20, <3>2
      <4> QED BY <2>10, <4>1
    <3> QED BY <3>1, <3>2
  <2>25. /\ k.refs = x1 /\ k.rowsets = c /\ k.view.segments = g1 /\ k.view.rowset = Unset
         BY <2>18, <2>19, Fields
  <2>26. \A r \in RowSetIds : c[r].refs = 0 => c[r].segments = {}
         BY <2>2, <2>4 DEF Good, Counted
  <2>27. Counted(k)
         BY <2>24, <2>25, <2>26 DEF Counted
  <2>28. HeldBy(k, q)
         BY <2>2, <2>4, <2>25 DEF Good, HeldBy
  <2> QED BY <2>23, <2>25, <2>27, <2>28 DEF Good, OfTheView
<1> QED BY <1>1, <1>2
\* There are more row sets than searches: one has no reader.
LEMMA OneIsFree ==
    ASSUME ViewAssumption, NEW q, q \in [Searches -> RowSetIds \cup {Unset}]
    PROVE  \E r \in RowSetIds : Readers(q, r) = {}
<1>1. SUFFICES ASSUME \A r \in RowSetIds : Readers(q, r) # {}
               PROVE  FALSE
      OBVIOUS
<1>2. PICK f : f = [r \in RowSetIds |-> CHOOSE s \in Searches : q[s] = r]
      OBVIOUS
<1>3. ASSUME NEW r \in RowSetIds
      PROVE  f[r] \in Searches /\ q[f[r]] = r
  <2>1. \E s \in Searches : q[s] = r
        BY <1>1 DEF Readers
  <2> QED BY <1>2, <2>1
<1>4. f \in [RowSetIds -> Searches]
      BY <1>2, <1>3
<1>5. IsFiniteSet(RowSetIds) /\ Cardinality(RowSetIds) = MaxSets
  <2>1. MaxSets \in Nat /\ IsFiniteSet(RowSetIds)
        BY FiniteHolders DEF ViewAssumption
  <2>2. Cardinality(1 .. MaxSets) = IF 1 > MaxSets THEN 0 ELSE MaxSets - 1 + 1
        BY <2>1, FS_Interval
  <2> QED BY <2>1, <2>2 DEF RowSetIds
<1>6. IsFiniteSet(Searches) /\ Cardinality(Searches) < Cardinality(RowSetIds)
      BY <1>5 DEF ViewAssumption
<1>7. \E x, y \in RowSetIds : x # y /\ f[x] = f[y]
      BY <1>4, <1>5, <1>6, FS_PigeonHole
<1> QED BY <1>3, <1>7

\* New rows retain their mappings; the view holds them.
LEMMA SnapshotGood ==
    ASSUME ViewAssumption, NEW st, NEW q, q \in [Searches -> RowSetIds \cup {Unset}], Good(st, q),
           NEW used, used \subseteq st.view.segments, NEW k, k = snapshot(st, used)
    PROVE  Good(k, q) /\ k.view.rowset \in RowSetIds
<1>1. CASE st.view.rowset # Unset
      BY <1>1 DEF snapshot, Good, ViewShaped
<1>2. CASE st.view.rowset = Unset
  <2>1. PICK a, b, v, c, y, i, g, w :
           /\ st = St(a, b, v, c) /\ v = ViewOf(y, i, g, w)
           /\ a \in [Maps -> Nat] /\ b \in NamesOf /\ g \subseteq Maps /\ w \in RowSetIds \cup {Unset}
           /\ c \in RowSets
        BY PartsOf DEF Good
  <2>2. /\ st.refs = a /\ st.rowsets = c /\ st.view = v /\ st.view.segments = g /\ w = Unset
        BY <1>2, <2>1, Fields
  <2>3. PICK r : r = CHOOSE n \in RowSetIds : st.rowsets[n].refs = 0
        OBVIOUS
  <2>4. r \in RowSetIds /\ c[r].refs = 0
    <3>1. PICK n \in RowSetIds : Readers(q, n) = {}
          BY OneIsFree
    <3>2. Cardinality(Readers(q, n)) = 0
          BY <3>1, FS_EmptySet
    <3>3. Unset # n
          BY DEF ViewAssumption
    <3>4. st.rowsets[n].refs = Cardinality(Readers(q, n)) + (IF st.view.rowset = n THEN 1 ELSE 0)
          BY DEF Good, HeldBy
    <3>5. st.rowsets[n].refs = 0
          BY <1>2, <3>2, <3>3, <3>4
    <3> QED BY <2>2, <2>3, <3>5
  <2>5. c[r].segments = {}
        BY <2>2, <2>4 DEF Good, Counted
  <2>6. PICK x : x = More(a, used)
        OBVIOUS
  <2>7. PICK one : one = 1
        OBVIOUS
  <2>8. PICK d : d = Put(c, r, used, one)
        OBVIOUS
  <2>9. used \in SUBSET Maps /\ one \in Nat
        BY <2>1, <2>2, <2>7
  <2>10. /\ d \in RowSets /\ d[r].segments = used /\ d[r].refs = 1
         /\ \A n \in RowSetIds : n # r => d[n] = c[n]
    <3>1. /\ Put(c, r, used, one) \in RowSets
          /\ Put(c, r, used, one)[r].segments = used /\ Put(c, r, used, one)[r].refs = one
          /\ \A s \in RowSetIds : s # r => Put(c, r, used, one)[s] = c[s]
          BY <2>1, <2>4, <2>9, SetPut
    <3> QED BY <2>7, <2>8, <3>1
  <2>11. PICK j : j = Retain(st, used)
         OBVIOUS
  <2>12. j = [refs |-> x, name |-> b, view |-> v, rowsets |-> c]
    <3>1. j = [st EXCEPT !.refs = x]
          BY <2>1, <2>2, <2>6, <2>11 DEF Retain, More
    <3> QED BY <2>1, <3>1 DEF St
  <2>13. k = [j EXCEPT !.rowsets[r] = RowSet(used, one), !.view.rowset = r]
         BY <1>2, <2>3, <2>7, <2>11 DEF snapshot, RowSet
  <2>14. v = [synced |-> y, identity |-> i, segments |-> g, rowset |-> w]
         BY <2>1 DEF ViewOf
  <2>15. PICK e : e = [c EXCEPT ![r] = RowSet(used, one)]
         OBVIOUS
  <2>16. k = [refs |-> x, name |-> b, rowsets |-> e,
              view |-> [synced |-> y, identity |-> i, segments |-> g, rowset |-> r]]
         BY <2>12, <2>13, <2>14, <2>15
  <2>17. e = d
         BY <2>8, <2>15 DEF Put
  <2>18. PICK u : u = ViewOf(y, i, g, r)
         OBVIOUS
  <2>19. k = St(x, b, u, d)
         BY <2>16, <2>17, <2>18 DEF St, ViewOf
  <2>20. ASSUME NEW m \in Maps
         PROVE  /\ x[m] \in Nat
                /\ x[m] = Cardinality(Users(d, m)) + (IF m \in g THEN 1 ELSE 0)
    <3>1. /\ Cardinality(Users(c, m)) \in Nat /\ IsFiniteSet(Users(c, m))
          /\ a[m] = Cardinality(Users(c, m)) + (IF m \in g THEN 1 ELSE 0)
          BY <2>2, FiniteHolders DEF Good, Counted
    <3>2. CASE m \in used
      <4>1. Users(d, m) = Users(c, m) \cup {r} /\ r \notin Users(c, m)
            BY <2>4, <2>5, <2>10, <3>2 DEF Users
      <4>2. Cardinality(Users(c, m) \cup {r}) = Cardinality(Users(c, m)) + 1
            BY <3>1, <4>1, FS_AddElement
      <4>3. x[m] = a[m] + 1
            BY <2>6, <3>2 DEF More
      <4> QED BY <3>1, <4>1, <4>2, <4>3
    <3>3. CASE m \notin used
      <4>1. Users(d, m) = Users(c, m)
            BY <2>4, <2>5, <2>10, <3>3 DEF Users
      <4>2. x[m] = a[m]
            BY <2>6, <3>3 DEF More
      <4> QED BY <3>1, <4>1, <4>2
    <3> QED BY <3>2, <3>3
  <2>21. x \in [Maps -> Nat]
         BY <2>6, <2>20 DEF More
  <2>22. g \in SUBSET Maps /\ r \in RowSetIds \cup {Unset}
         BY <2>1, <2>4
  <2>23. ViewShaped(k)
         BY <2>1, <2>10, <2>18, <2>19, <2>21, <2>22, ShapedParts
  <2>24. /\ k.refs = x /\ k.rowsets = d /\ k.view.segments = g /\ k.view.rowset = r
         BY <2>18, <2>19, Fields
  <2>25. \A n \in RowSetIds : d[n].refs = 0 => d[n].segments = {}
         BY <2>2, <2>10 DEF Good, Counted
  <2>26. Counted(k)
         BY <2>20, <2>24, <2>25 DEF Counted
  <2>27. ASSUME NEW n \in RowSetIds
         PROVE  d[n].refs = Cardinality(Readers(q, n)) + (IF r = n THEN 1 ELSE 0)
    <3>1. Cardinality(Readers(q, n)) \in Nat /\ Unset # n
          BY FiniteHolders DEF ViewAssumption
    <3>2. c[n].refs = Cardinality(Readers(q, n)) + (IF w = n THEN 1 ELSE 0)
          BY <1>2, <2>2 DEF Good, HeldBy
    <3>3. c[n].refs = Cardinality(Readers(q, n))
          BY <2>2, <3>1, <3>2
    <3>4. CASE n = r
          BY <2>4, <2>10, <3>1, <3>3, <3>4
    <3>5. CASE n # r
          BY <2>10, <3>1, <3>3, <3>5
    <3> QED BY <3>4, <3>5
  <2>28. HeldBy(k, q)
         BY <2>24, <2>27 DEF HeldBy
  <2>29. OfTheView(k)
         BY <2>2, <2>10, <2>24 DEF OfTheView
  <2> QED BY <2>4, <2>23, <2>24, <2>26, <2>28, <2>29 DEF Good
<1> QED BY <1>1, <1>2
-----------------------------------------------------------------------------
(* The steps.                                                                *)
LEMMA StateGood ==
    ASSUME HoldInv
    PROVE  /\ Good(State, search) /\ search \in [Searches -> RowSetIds \cup {Unset}]
           /\ stored \subseteq Names
    BY DEF HoldInv

LEMMA Became ==
    ASSUME HoldInv, NEW k, NEW q, Becomes(k), ViewShaped(k), Good(k, q), search' = q,
           q \in [Searches -> RowSetIds \cup {Unset}]
    PROVE  HoldInv'
<1>1. /\ refs' = k.refs /\ name' = k.name /\ parsed' = k.view /\ rowsets' = k.rowsets
      BY DEF Becomes
<1>2. k = [refs |-> k.refs, name |-> k.name, view |-> k.view, rowsets |-> k.rowsets]
      BY DEF ViewShaped
<1>3. [refs |-> refs', name |-> name', view |-> parsed', rowsets |-> rowsets'] = k
      BY <1>1, <1>2
<1>4. PICK z : z = [refs |-> refs', name |-> name', view |-> parsed', rowsets |-> rowsets']
      OBVIOUS
<1>5. Good(z, search')
      BY <1>3, <1>4
<1>6. Good([refs |-> refs', name |-> name', view |-> parsed', rowsets |-> rowsets'], search')
      BY <1>4, <1>5
<1>7. stored' \subseteq Names
      BY DEF Becomes, HoldInv
<1> QED BY <1>6, <1>7 DEF HoldInv, State

\* A search joins the holders of the rows it takes.
LEMMA TakenGood ==
    ASSUME ViewAssumption, NEW st, NEW q, q \in [Searches -> RowSetIds \cup {Unset}], Good(st, q),
           st.view.rowset \in RowSetIds, NEW s \in Searches, q[s] = Unset,
           NEW k, k = [st EXCEPT !.rowsets[st.view.rowset].refs = @ + 1]
    PROVE  Good(k, [q EXCEPT ![s] = st.view.rowset])
<1>1. PICK a, b, v, c, y, i, g, w :
         /\ st = St(a, b, v, c) /\ v = ViewOf(y, i, g, w)
         /\ a \in [Maps -> Nat] /\ b \in NamesOf /\ g \subseteq Maps /\ w \in RowSetIds \cup {Unset}
         /\ c \in RowSets
      BY PartsOf DEF Good
<1>2. /\ st.refs = a /\ st.rowsets = c /\ st.view = v /\ st.view.segments = g
      /\ st.view.rowset = w /\ w \in RowSetIds /\ Unset # w
      BY <1>1, Fields DEF ViewAssumption
<1>3. PICK h \in SUBSET Maps, z \in Nat : c[w] = RowSet(h, z)
      BY <1>1, <1>2, SetParts
<1>4. c[w].segments = h /\ c[w].refs = z /\ z + 1 \in Nat
      BY <1>3, Fields
<1>5. PICK t : t = z + 1
      OBVIOUS
<1>6. PICK d : d = Put(c, w, h, t)
      OBVIOUS
<1>7. /\ d \in RowSets /\ d[w].segments = h /\ d[w].refs = z + 1
      /\ \A n \in RowSetIds : n # w => d[n] = c[n]
  <2>1. t \in Nat
        BY <1>4, <1>5
  <2>2. /\ Put(c, w, h, t) \in RowSets
        /\ Put(c, w, h, t)[w].segments = h /\ Put(c, w, h, t)[w].refs = t
        /\ \A n \in RowSetIds : n # w => Put(c, w, h, t)[n] = c[n]
        BY <1>1, <1>2, <2>1, SetPut
  <2> QED BY <1>5, <1>6, <2>2
<1>8. k = St(a, b, v, d)
  <2>1. PICK e : e = [c[w] EXCEPT !.refs = t]
        OBVIOUS
  <2>2. e = RowSet(h, t)
        BY <1>3, <2>1 DEF RowSet
  <2>3. st = [refs |-> a, name |-> b, view |-> v, rowsets |-> c]
        BY <1>1 DEF St
  <2>4. k = [st EXCEPT !.rowsets[w].refs = t]
        BY <1>2, <1>4, <1>5
  <2>5. k = [refs |-> a, name |-> b, view |-> v, rowsets |-> [c EXCEPT ![w] = e]]
        BY <2>1, <2>3, <2>4
  <2> QED BY <1>6, <2>2, <2>5 DEF St, Put
<1>9. PICK p : p = [q EXCEPT ![s] = w]
      OBVIOUS
<1>10. ViewShaped(k)
       BY <1>1, <1>7, <1>8, ShapedParts
<1>11. k.refs = a /\ k.rowsets = d /\ k.view = v /\ v.segments = g /\ v.rowset = w
  <2>1. k.refs = a /\ k.rowsets = d /\ k.view = v
        BY <1>8 DEF St
  <2>2. v.segments = g /\ v.rowset = w
        BY <1>1, Fields
  <2> QED BY <2>1, <2>2
<1>12. \A n \in RowSetIds : d[n].segments = c[n].segments
       BY <1>4, <1>7
<1>13. \A m \in Maps : Users(d, m) = Users(c, m)
       BY <1>12 DEF Users
<1>14. \A n \in RowSetIds : d[n].refs = 0 => d[n].segments = {}
       BY <1>2, <1>4, <1>7 DEF Good, Counted
<1>15. Counted(k)
  <2>1. \A m \in Maps : a[m] = Cardinality(Users(c, m)) + (IF m \in g THEN 1 ELSE 0)
        BY <1>2 DEF Good, Counted
  <2>2. \A m \in Maps : a[m] = Cardinality(Users(d, m)) + (IF m \in g THEN 1 ELSE 0)
        BY <1>13, <2>1
  <2>3. k.refs = a /\ k.rowsets = d /\ k.view.segments = g
        BY <1>11
  <2> QED BY <1>14, <2>2, <2>3 DEF Counted
<1>16. ASSUME NEW n \in RowSetIds
       PROVE  d[n].refs = Cardinality(Readers(p, n)) + (IF w = n THEN 1 ELSE 0)
  <2>1. /\ c[n].refs = Cardinality(Readers(q, n)) + (IF w = n THEN 1 ELSE 0)
        /\ Cardinality(Readers(q, n)) \in Nat /\ IsFiniteSet(Readers(q, n))
        BY <1>2, FiniteHolders DEF Good, HeldBy
  <2>2. CASE n = w
    <3>1. Readers(p, n) = Readers(q, n) \cup {s} /\ s \notin Readers(q, n)
          BY <1>2, <1>9, <2>2 DEF Readers
    <3>2. Cardinality(Readers(q, n) \cup {s}) = Cardinality(Readers(q, n)) + 1
          BY <2>1, <3>1, FS_AddElement
    <3> QED BY <1>4, <1>7, <2>1, <2>2, <3>1, <3>2
  <2>3. CASE n # w
    <3>1. Unset # n
          BY DEF ViewAssumption
    <3>2. Readers(p, n) = Readers(q, n)
          BY <1>2, <1>9, <2>3, <3>1 DEF Readers
    <3> QED BY <1>7, <2>1, <2>3, <3>2
  <2> QED BY <2>2, <2>3
<1>17. HeldBy(k, p)
       BY <1>11, <1>16 DEF HeldBy
<1>18. OfTheView(k)
       BY <1>2, <1>11, <1>12 DEF Good, OfTheView
<1> QED BY <1>2, <1>9, <1>10, <1>15, <1>17, <1>18 DEF Good

\* A search that ends leaves the holders of its rows.
LEMMA ClosedGood ==
    ASSUME ViewAssumption, NEW st, NEW q, q \in [Searches -> RowSetIds \cup {Unset}], Good(st, q),
           NEW s \in Searches, q[s] # Unset, NEW k, k = ReleaseSet(st, q[s])
    PROVE  Good(k, [q EXCEPT ![s] = Unset])
<1>1. PICK r \in RowSetIds : r = q[s]
      OBVIOUS
<1>2. PICK p : p = [q EXCEPT ![s] = Unset]
      OBVIOUS
<1>3. /\ \A n \in RowSetIds : st.rowsets[n].refs =
            Cardinality(Readers(q, n)) + (IF st.view.rowset = n THEN 1 ELSE 0)
      /\ ViewShaped(st) /\ Counted(st)
      BY DEF Good, HeldBy
<1>4. /\ \A n \in RowSetIds : Cardinality(Readers(q, n)) \in Nat /\ IsFiniteSet(Readers(q, n))
      /\ \A n \in RowSetIds : Cardinality(Readers(p, n)) \in Nat /\ Unset # n
      BY FiniteHolders DEF ViewAssumption
<1>5. /\ Readers(p, r) = Readers(q, r) \ {s} /\ s \in Readers(q, r)
      /\ \A n \in RowSetIds : n # r => Readers(p, n) = Readers(q, n)
      BY <1>1, <1>2, <1>4 DEF Readers
<1>6. Cardinality(Readers(p, r)) = Cardinality(Readers(q, r)) - 1
  <2>1. IsFiniteSet(Readers(q, r))
        BY <1>4
  <2>2. Cardinality(Readers(q, r) \ {s}) = Cardinality(Readers(q, r)) - 1
        BY <1>5, <2>1, FS_RemoveElement
  <2> QED BY <1>5, <2>2
<1>7. st.rowsets[r].refs > 0
      BY <1>3, <1>4, <1>6
<1>8. /\ ViewShaped(k) /\ Counted(k) /\ k.view = st.view
      /\ \A n \in RowSetIds :
           /\ k.rowsets[n].refs = (IF n = r THEN st.rowsets[r].refs - 1 ELSE st.rowsets[n].refs)
           /\ k.rowsets[n].refs > 0 => k.rowsets[n].segments = st.rowsets[n].segments
      BY <1>1, <1>3, <1>7, ReleaseSetCounts
<1>9. ASSUME NEW n \in RowSetIds
      PROVE  k.rowsets[n].refs = Cardinality(Readers(p, n)) + (IF st.view.rowset = n THEN 1 ELSE 0)
  <2>1. CASE n = r
        BY <1>3, <1>4, <1>6, <1>8, <2>1
  <2>2. CASE n # r
        BY <1>3, <1>5, <1>8, <2>2
  <2> QED BY <2>1, <2>2
<1>10. HeldBy(k, p)
       BY <1>8, <1>9 DEF HeldBy
<1>11. OfTheView(k)
  <2>1. SUFFICES ASSUME st.view.rowset # Unset
                 PROVE  k.rowsets[st.view.rowset].segments \subseteq st.view.segments
        BY <1>8 DEF OfTheView
  <2>2. PICK n \in RowSetIds : n = st.view.rowset
        BY <1>3, <2>1 DEF ViewShaped
  <2>3. k.rowsets[n].refs = Cardinality(Readers(p, n)) + 1
        BY <1>9, <2>2
  <2>4. k.rowsets[n].refs > 0
        BY <1>4, <2>3
  <2> QED BY <1>8, <2>1, <2>2, <2>4 DEF Good, OfTheView
<1> QED BY <1>2, <1>8, <1>10, <1>11 DEF Good
LEMMA AcquireHolds == ASSUME ViewAssumption, HoldInv, NEW s \in Searches, Acquire(s) PROVE HoldInv'
<1>1. PICK m : m = readManifest(State)
      OBVIOUS
<1>2. Good(m, search) /\ search \in [Searches -> RowSetIds \cup {Unset}]
      BY <1>1, StateGood, ReadGood
<1>3. PICK n : n = sync(m)
      OBVIOUS
<1>4. Good(n, search)
      BY <1>2, <1>3, StateGood, SyncGood
<1>5. PICK used : /\ used \subseteq n.view.segments
                  /\ LET st == snapshot(n, used)
                     IN /\ Becomes([st EXCEPT !.rowsets[st.view.rowset].refs = @ + 1])
                        /\ search' = [search EXCEPT ![s] = st.view.rowset]
      BY <1>1, <1>3 DEF Acquire
<1>6. PICK t : t = snapshot(n, used)
      OBVIOUS
<1>7. Good(t, search) /\ t.view.rowset \in RowSetIds
      BY <1>2, <1>4, <1>5, <1>6, SnapshotGood
<1>8. PICK k : k = [t EXCEPT !.rowsets[t.view.rowset].refs = @ + 1]
      OBVIOUS
<1>9. Becomes(k) /\ search' = [search EXCEPT ![s] = t.view.rowset] /\ search[s] = Unset
      BY <1>5, <1>6, <1>8 DEF Acquire
<1>10. Good(k, [search EXCEPT ![s] = t.view.rowset])
       BY <1>2, <1>7, <1>8, <1>9, TakenGood
<1>11. [search EXCEPT ![s] = t.view.rowset] \in [Searches -> RowSetIds \cup {Unset}]
       BY <1>2, <1>7
<1> QED BY <1>9, <1>10, <1>11, Became DEF Good

LEMMA CloseHolds == ASSUME ViewAssumption, HoldInv, NEW s \in Searches, EndSearch(s) PROVE HoldInv'
<1>1. Good(State, search) /\ search \in [Searches -> RowSetIds \cup {Unset}]
      BY StateGood
<1>2. PICK k : k = ReleaseSet(State, search[s])
      OBVIOUS
<1>3. Becomes(k) /\ search' = [search EXCEPT ![s] = Unset] /\ search[s] # Unset
      BY <1>2 DEF EndSearch
<1>4. Good(k, [search EXCEPT ![s] = Unset])
      BY <1>1, <1>2, <1>3, ClosedGood
<1>5. [search EXCEPT ![s] = Unset] \in [Searches -> RowSetIds \cup {Unset}]
      BY <1>1
<1> QED BY <1>3, <1>4, <1>5, Became DEF Good

\* A step of the view alone.
LEMMA ViewStep ==
    ASSUME HoldInv, NEW k, Good(k, search), Becomes(k), UNCHANGED search
    PROVE  HoldInv'
    BY StateGood, Became DEF Good

LEMMA HoldInvInit == ASSUME ViewAssumption, ViewInit PROVE HoldInv
<1>1. PICK c : c = [r \in RowSetIds |-> [segments |-> {}, refs |-> 0]]
      OBVIOUS
<1>2. PICK a : a = [m \in Maps |-> 0]
      OBVIOUS
<1>3. PICK z : z = [refs |-> a, name |-> name, view |-> NoView, rowsets |-> c]
      OBVIOUS
<1>4. State = z /\ search = [s \in Searches |-> Unset]
      BY <1>1, <1>2, <1>3 DEF ViewInit, State
<1>5. a \in [Maps -> Nat] /\ c \in [RowSetIds -> [segments : SUBSET Maps, refs : Nat]]
      BY <1>1, <1>2
<1>a. name \in NamesOf /\ stored \subseteq Names
      BY DEF ViewInit, NamesOf
<1>6. ViewShaped(z)
      BY <1>3, <1>5, <1>a DEF ViewShaped, NoView, RowSets
<1>7. ASSUME NEW m \in Maps PROVE Cardinality(Users(c, m)) = 0
  <2>1. Users(c, m) = {}
        BY <1>1 DEF Users
  <2> QED BY <2>1, FS_EmptySet
<1>8. ASSUME NEW r \in RowSetIds PROVE Cardinality(Readers(search, r)) = 0
  <2>1. Unset # r
        BY DEF ViewAssumption
  <2>2. Readers(search, r) = {}
        BY <1>4, <2>1 DEF Readers
  <2> QED BY <2>2, FS_EmptySet
<1>9. z.refs = a /\ z.rowsets = c /\ z.view.segments = {} /\ z.view.rowset = Unset
      BY <1>3 DEF NoView
<1>10. Counted(z)
  <2>1. \A r \in RowSetIds : c[r].refs = 0 /\ c[r].segments = {}
        BY <1>1
  <2>2. \A m \in Maps : a[m] = 0
        BY <1>2
  <2>3. \A m \in Maps : a[m] = Cardinality(Users(c, m)) + (IF m \in {} THEN 1 ELSE 0)
        BY <1>7, <2>2
  <2>4. /\ \A r \in RowSetIds : z.rowsets[r].refs = 0 => z.rowsets[r].segments = {}
        /\ \A m \in Maps : z.refs[m] = Cardinality(Users(z.rowsets, m))
                                 + (IF m \in z.view.segments THEN 1 ELSE 0)
        BY <1>9, <2>1, <2>3
  <2> QED BY <2>4 DEF Counted
<1>11. HeldBy(z, search)
  <2>1. \A r \in RowSetIds : c[r].refs = 0 /\ Unset # r
        BY <1>1 DEF ViewAssumption
  <2> QED BY <1>8, <1>9, <2>1 DEF HeldBy
<1>12. OfTheView(z)
       BY <1>9 DEF OfTheView
<1>13. search \in [Searches -> RowSetIds \cup {Unset}]
       BY <1>4
<1> QED BY <1>4, <1>6, <1>10, <1>11, <1>12, <1>13, <1>a DEF HoldInv, Good

LEMMA HoldInvStep == ASSUME ViewAssumption, HoldInv, [ViewNext]_viewVars PROVE HoldInv'
<1>1. PICK m : m = readManifest(State)
      OBVIOUS
<1>2. Good(State, search) /\ Good(m, search) /\ search \in [Searches -> RowSetIds \cup {Unset}]
      BY <1>1, StateGood, ReadGood
<1>3. PICK n : n = sync(m)
      OBVIOUS
<1>4. Good(n, search)
      BY <1>2, <1>3, StateGood, SyncGood
<1>5. CASE \E s \in Searches : Acquire(s) \/ EndSearch(s)
      BY <1>5, AcquireHolds, CloseHolds
<1>6. CASE SyncFails
  <2>1. PICK k : k = reset(m)
        OBVIOUS
  <2>2. Good(k, search) /\ Becomes(k) /\ UNCHANGED search
        BY <1>1, <1>2, <1>6, <2>1, ResetGood DEF SyncFails
  <2> QED BY <2>2, ViewStep
<1>7. CASE RefreshNeeded
  <2>1. Becomes(n) /\ UNCHANGED search
        BY <1>1, <1>3, <1>7 DEF RefreshNeeded
  <2> QED BY <1>4, <2>1, ViewStep
<1>8. CASE Prepare
  <2>1. PICK used : used \subseteq n.view.segments /\ Becomes(snapshot(n, used)) /\ UNCHANGED search
        BY <1>1, <1>3, <1>8 DEF Prepare
  <2>2. PICK k : k = snapshot(n, used)
        OBVIOUS
  <2>3. Good(k, search)
        BY <1>2, <1>4, <2>1, <2>2, SnapshotGood
  <2> QED BY <2>1, <2>2, <2>3, ViewStep
<1>9. CASE Invalidate
  <2>1. PICK k : k = reset(State)
        OBVIOUS
  <2>2. Good(k, search) /\ Becomes(k) /\ UNCHANGED search
        BY <1>2, <1>9, <2>1, ResetGood DEF Invalidate
  <2> QED BY <2>2, ViewStep
<1>10. CASE ReleaseStale
  <2>1. PICK k : k = IF parsed.synced THEN reset(State) ELSE State
        OBVIOUS
  <2>2. PICK d : d = reset(State)
        OBVIOUS
  <2>3. Good(d, search)
        BY <1>2, <2>2, ResetGood
  <2>4. Good(k, search)
        BY <1>2, <2>1, <2>2, <2>3
  <2>5. Becomes(k) /\ UNCHANGED search
        BY <1>10, <2>1 DEF ReleaseStale
  <2> QED BY <2>4, <2>5, ViewStep
<1>12. CASE \E s \in Searches : AcquireFails(s)
  <2>1. Becomes(n) /\ UNCHANGED search
        BY <1>1, <1>3, <1>12 DEF AcquireFails
  <2> QED BY <1>4, <2>1, ViewStep
<1>11. CASE Store \/ UNCHANGED viewVars
  <2>1. UNCHANGED <<refs, name, parsed, rowsets, search>>
        BY <1>11 DEF Store, viewVars
  <2>2. Good(State, search) <=> Good(State', search')
        BY <2>1 DEF State
  <2>3. stored' \subseteq Names
        BY <1>11, StateGood DEF Store, viewVars
  <2> QED BY <1>2, <2>1, <2>2, <2>3 DEF HoldInv
<1> QED BY <1>5, <1>6, <1>7, <1>8, <1>9, <1>10, <1>11, <1>12 DEF ViewNext

LEMMA HoldInvHolds == ASSUME ViewAssumption PROVE ViewSpec => []HoldInv
<1>1. ViewInit => HoldInv
      BY HoldInvInit
<1>2. HoldInv /\ [ViewNext]_viewVars => HoldInv'
      BY HoldInvStep
<1> QED BY <1>1, <1>2, PTL DEF ViewSpec

-----------------------------------------------------------------------------
LEMMA HoldInvCounts == ASSUME HoldInv PROVE CountsHolders
<1>2. /\ \A r \in RowSetIds : rowsets[r].refs =
            Cardinality(Readers(search, r)) + (IF parsed.rowset = r THEN 1 ELSE 0)
      /\ \A m \in Maps : refs[m] =
            Cardinality(Users(rowsets, m)) + (IF m \in parsed.segments THEN 1 ELSE 0)
      /\ \A r \in RowSetIds : rowsets[r].refs = 0 => rowsets[r].segments = {}
      /\ rowsets \in RowSets
      BY DEF HoldInv, Good, Counted, HeldBy, ViewShaped, State
<1>3. \A r \in RowSetIds : rowsets[r].refs \in Nat
      BY <1>2 DEF RowSets
<1>4. ASSUME NEW m \in Maps
      PROVE  Users(rowsets, m) = {r \in RowSetIds : rowsets[r].refs > 0 /\ m \in rowsets[r].segments}
  <2>1. \A r \in RowSetIds : m \in rowsets[r].segments => rowsets[r].refs > 0
        BY <1>2, <1>3
  <2> QED BY <2>1 DEF Users
<1>5. \A m \in Maps : refs[m] =
            Cardinality({r \in RowSetIds : rowsets[r].refs > 0 /\ m \in rowsets[r].segments})
              + (IF m \in parsed.segments THEN 1 ELSE 0)
      BY <1>2, <1>4
<1> QED BY <1>2, <1>5 DEF CountsHolders, Readers

\* Every count is the number of its holders: a mapping nobody holds is released, and
\* one with a holder is not (segments.go, storeview.go).
THEOREM CountsAreOfHolders == ASSUME ViewAssumption PROVE ViewSpec => []CountsHolders
<1>1. HoldInv => CountsHolders
      BY HoldInvCounts
<1> QED BY <1>1, HoldInvHolds, PTL

LEMMA HoldInvMapped ==
    ASSUME ViewAssumption, HoldInv PROVE OpenIsMapped /\ RowsAreOfTheView
<1>2. RowsAreOfTheView
      BY DEF HoldInv, Good, OfTheView, State, RowsAreOfTheView
<1>3. SUFFICES ASSUME NEW s \in Searches, search[s] # Unset,
                      NEW m \in rowsets[search[s]].segments
               PROVE  refs[m] > 0
      BY <1>2 DEF OpenIsMapped
<1>4. /\ search[s] \in RowSetIds /\ rowsets \in RowSets /\ refs \in [Maps -> Nat]
      /\ Good(State, search)
      BY <1>3 DEF HoldInv, Good, ViewShaped, State
<1>5. m \in Maps
      BY <1>3, <1>4 DEF RowSets
<1>6. refs[m] # 0
  <2>1. SUFFICES ASSUME refs[m] = 0 PROVE FALSE
        OBVIOUS
  <2>2. PICK z : z = State
        OBVIOUS
  <2>3. /\ ViewShaped(z) /\ Counted(z) /\ z.refs[m] = 0 /\ z.rowsets = rowsets
        BY <1>4, <2>1, <2>2 DEF Good, State
  <2>4. \A r \in RowSetIds : m \notin z.rowsets[r].segments
        BY <1>5, <2>3, UnusedUnheld
  <2> QED BY <1>3, <1>4, <2>3, <2>4
<1>7. refs[m] \in Nat
      BY <1>4, <1>5
<1> QED BY <1>6, <1>7

\* The numbers of references are those of the holders there can be.
LEMMA HoldInvTypes == ASSUME ViewAssumption, HoldInv PROVE ViewTypeOK
<1>1. /\ search \in [Searches -> RowSetIds \cup {Unset}]
      /\ refs \in [Maps -> Nat] /\ name \in NamesOf /\ parsed.segments \subseteq Maps
      /\ rowsets \in RowSets
      /\ \A r \in RowSetIds : rowsets[r].refs =
            Cardinality(Readers(search, r)) + (IF parsed.rowset = r THEN 1 ELSE 0)
      /\ \A m \in Maps : refs[m] =
            Cardinality(Users(rowsets, m)) + (IF m \in parsed.segments THEN 1 ELSE 0)
      BY DEF HoldInv, Good, Counted, HeldBy, ViewShaped, State
<1>2. /\ IsFiniteSet(Searches) /\ Cardinality(Searches) \in Nat
      /\ IsFiniteSet(RowSetIds) /\ Cardinality(RowSetIds) = MaxSets /\ MaxSets \in Nat
  <2>1. MaxSets \in Nat /\ IsFiniteSet(RowSetIds)
        BY FiniteHolders DEF ViewAssumption
  <2>2. Cardinality(1 .. MaxSets) = IF 1 > MaxSets THEN 0 ELSE MaxSets - 1 + 1
        BY <2>1, FS_Interval
  <2> QED BY <2>1, <2>2, FS_CardinalityType DEF RowSetIds, ViewAssumption
<1>3. \A m \in Maps : refs[m] \in 0 .. MaxSets + 1
  <2>1. TAKE m \in Maps
  <2>2. Cardinality(Users(rowsets, m)) <= MaxSets /\ Cardinality(Users(rowsets, m)) \in Nat
    <3>1. Users(rowsets, m) \in SUBSET RowSetIds
          BY DEF Users
    <3> QED BY <1>2, <3>1, FS_Subset, FiniteHolders
  <2>3. refs[m] = Cardinality(Users(rowsets, m)) + (IF m \in parsed.segments THEN 1 ELSE 0)
        BY <1>1
  <2> QED BY <1>2, <2>2, <2>3
<1>4. \A r \in RowSetIds : rowsets[r].refs \in 0 .. Cardinality(Searches) + 1
  <2>1. TAKE r \in RowSetIds
  <2>2. /\ Cardinality(Readers(search, r)) <= Cardinality(Searches)
        /\ Cardinality(Readers(search, r)) \in Nat
    <3>1. Readers(search, r) \in SUBSET Searches
          BY DEF Readers
    <3> QED BY <1>2, <3>1, FS_Subset, FiniteHolders
  <2>3. rowsets[r].refs = Cardinality(Readers(search, r)) + (IF parsed.rowset = r THEN 1 ELSE 0)
        BY <1>1
  <2> QED BY <1>2, <2>2, <2>3
<1>5. rowsets \in [RowSetIds -> [segments : SUBSET Maps, refs : 0 .. Cardinality(Searches) + 1]]
  <2>1. ASSUME NEW r \in RowSetIds
        PROVE  rowsets[r] \in [segments : SUBSET Maps, refs : 0 .. Cardinality(Searches) + 1]
        BY <1>1, <1>4 DEF RowSets
  <2> QED BY <1>1, <2>1 DEF RowSets
<1> QED BY <1>1, <1>3, <1>5 DEF ViewTypeOK, NamesOf

\* What an open search reads is mapped, whatever was merged, invalidated or swept
\* since it took its rows, and rows a search takes are of files the view has mapped
\* (storeview.go).
THEOREM SearchesStayMapped ==
    ASSUME ViewAssumption PROVE ViewSpec => [](OpenIsMapped /\ RowsAreOfTheView)
<1>1. ViewAssumption /\ HoldInv => OpenIsMapped /\ RowsAreOfTheView
      BY HoldInvMapped
<1> QED BY <1>1, HoldInvHolds, PTL
=============================================================================
