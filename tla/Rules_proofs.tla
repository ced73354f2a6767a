----------------------------- MODULE Rules_proofs -----------------------------
(* What the lock and the looked-up keys of Publication guarantee, for any      *)
(* number of callers and changes, with and without Git; and what the runs of   *)
(* MCRules check of other repositories and of models, proved of their          *)
(* instances from what Services_proofs has for every value of the constants.   *)
EXTENDS MCRules, TLAPS

Calls == [at : {"idle", "lookup", "read", "publish", "attach", "finalize", "stage", "commit", "return"},
          key : Keys \cup {None}, base : Contents \cup {Absent}, todo : SUBSET Paths]

\* A call in progress is for a recorded intent, and takes its kind's way.
Active ==
    \A p \in Callers :
        /\ call[p].at # "idle" => call[p].key \in asked
        /\ call[p].at = "lookup" => KindOf(p) \in {"entry", "replace"}
        /\ call[p].at = "read" => KindOf(p) = "replace"
        /\ call[p].at = "attach" => KindOf(p) = "entry"

\* Between the lookup of a key under the lock and the end of the hold, the key
\* has no commit; without Git there is none at all.
Looked ==
    /\ ~Git => \A k \in Keys : commits[k] = 0
    /\ \A p \in Callers :
          /\ At(p, "attach") => commits[call[p].key] = 0
          /\ At(p, "stage") \/ At(p, "commit") => Git /\ commits[call[p].key] = 0

\* What OwnPaths adds.  A path holds what was there before or what its change
\* wrote; the branch, what its change committed; a document that a change
\* replaces, and an entry with its attachments, stay once they are there.
Fits(tree) ==
    \A q \in Paths : \/ tree[q] \in {Before[q], Absent}
                     \/ \E k \in Keys : tree[q] = k /\ q \in Owned(k) /\ Change[k].kind # "remove"
Stays ==
    /\ \A q \in Paths : files[q] = Original => head[q] = Original
    /\ \A k \in Keys : Change[k].kind = "replace" =>
          files[Change[k].path] # Absent /\ head[Change[k].path] # Absent
    /\ EntriesWhole
\* An entry's attachments come before it, it comes before its commit, and what a
\* removal commits is no longer in the index.
Ordered(p) ==
    LET k == call[p].key IN
    /\ At(p, "attach") => /\ call[p].todo \subseteq Change[k].attachments
                         /\ \A q \in Change[k].attachments \ call[p].todo : files[q] # Absent
    /\ call[p].at \in {"finalize", "stage", "commit"} /\ KindOf(p) = "entry" =>
          Committed(k) \/ files[PathOf(p)] # Absent
    /\ At(p, "commit") /\ KindOf(p) = "remove" => PathOf(p) \notin index
OwnInv ==
    /\ Fits(files) /\ Fits(head)
    /\ \A q \in Paths, k \in Keys : head[q] = k => commits[k] > 0
    /\ Stays /\ \A p \in Callers : Ordered(p)

PubInv == TypeOK /\ Active /\ Looked /\ CommittedOnce /\ SuccessIsCommitted

-----------------------------------------------------------------------------
\* Every change has a path of its own among the paths.
LEMMA PathsOfKeys ==
    ASSUME NEW k \in Keys
    PROVE  Change[k].path \in Paths /\ Change[k].attachments \subseteq Paths /\ Owned(k) \subseteq Paths
BY DEF Paths, Owned

\* The initial state satisfies the invariant.
LEMMA PubInit == Init => PubInv
<1> SUFFICES ASSUME Init PROVE PubInv
    OBVIOUS
<1>1. Before \in [Paths -> Contents \cup {Absent}]
    BY DEF Before, Contents
<1>2. call \in [Callers -> Calls]
    BY DEF Init, Idle, Calls
<1>3. TypeOK
    BY <1>1, <1>2, ChangeAssumption DEF Init, TypeOK, Idle, Calls
<1>4. Active /\ Looked
    BY DEF Init, Active, Looked, Idle, At
<1> QED BY <1>3, <1>4 DEF Init, PubInv, CommittedOnce, SuccessIsCommitted

\* Steps of a caller change its own call only.
LEMMA TypeStep == TypeOK /\ Active /\ [Next]_vars => TypeOK'
<1> SUFFICES ASSUME TypeOK, Active, [Next]_vars PROVE TypeOK'
    OBVIOUS
<1> USE ChangeAssumption, PathsOfKeys
<1>1. ASSUME NEW k \in Keys, Ask(k) PROVE TypeOK'
    BY <1>1 DEF Ask, TypeOK, disk, Contents
<1>2. ASSUME NEW p \in Callers, NEW k \in Keys, Begin(p, k) PROVE TypeOK'
    BY <1>2 DEF Begin, At, TypeOK, disk, ledger, Contents
<1>3. ASSUME NEW p \in Callers, Lookup(p) PROVE TypeOK'
    BY <1>3 DEF Lookup, At, Free, Goto, TypeOK, Active, disk, ledger, Contents
<1>4. ASSUME NEW p \in Callers, Read(p) PROVE TypeOK'
  <2>1. call' \in [Callers -> Calls]
    BY <1>4 DEF Read, At, TypeOK, Active, Calls, Contents, Idle, PathOf
  <2>2. \A o \in Callers : call'[o].at \in {"attach", "stage", "commit"} <=> holder' = o
    BY <1>4 DEF Read, At, Free, TypeOK, Idle, disk
  <2>3. answered' \subseteq asked'
    BY <1>4 DEF Read, At, TypeOK, Active
  <2> QED BY <1>4, <2>1, <2>2, <2>3 DEF Read, TypeOK, Calls, disk
<1>5. ASSUME NEW p \in Callers, PublishDocument(p) PROVE TypeOK'
  <2> DEFINE k == call[p].key
  <2>1. call' \in [Callers -> Calls] /\ answered' \subseteq asked /\ finished' \subseteq asked
        /\ \A o \in Callers : call'[o].at \notin {"attach", "stage", "commit"} \/ o # p
    <3>1. k \in Keys /\ k \in asked /\ p \in Callers
      BY <1>5 DEF PublishDocument, At, TypeOK, Active
    <3>2. CASE Returns(p) /\ UNCHANGED answered
      BY <3>1, <3>2 DEF Returns, Goto, TypeOK, Calls
    <3>3. CASE Completes(p) /\ UNCHANGED answered
      BY <3>1, <3>3 DEF Completes, Goto, TypeOK, Calls
    <3>4. CASE answered' = answered \cup {k} /\ call' = [call EXCEPT ![p] = Idle] /\ UNCHANGED finished
      BY <3>1, <3>4 DEF Idle, TypeOK, Calls, Contents
    <3> QED BY <1>5, <3>2, <3>3, <3>4 DEF PublishDocument
  <2>2. files' \in [Paths -> Contents \cup {Absent}]
    BY <1>5 DEF PublishDocument, At, TypeOK, Active, Contents, PathOf
  <2>3. \A o \in Callers : o # p => call'[o] = call[o]
    BY <1>5 DEF PublishDocument, Returns, Completes, Goto, TypeOK
  <2>4. \A o \in Callers : call'[o].at \in {"attach", "stage", "commit"} <=> holder' = o
    BY <1>5, <2>1, <2>3 DEF PublishDocument, Free, At, TypeOK
  <2> QED BY <1>5, <2>1, <2>2, <2>4 DEF PublishDocument, TypeOK, Calls
<1>6. ASSUME NEW p \in Callers, BeginEntry(p) PROVE TypeOK'
  <2>1. call' \in [Callers -> Calls]
    BY <1>6 DEF BeginEntry, At, Goto, Completes, TypeOK, Active, Calls
  <2>2. \A o \in Callers : call'[o].at \in {"attach", "stage", "commit"} <=> holder' = o
    BY <1>6 DEF BeginEntry, At, Free, Goto, Completes, TypeOK
  <2> QED BY <1>6, <2>1, <2>2 DEF BeginEntry, Completes, TypeOK, Calls, disk, ledger
<1>7. ASSUME NEW p \in Callers, NEW q \in Paths, PublishAttachment(p, q) PROVE TypeOK'
    BY <1>7 DEF PublishAttachment, At, Free, TypeOK, Active, ledger, Contents
<1>8. ASSUME NEW p \in Callers, PublishEntryFile(p) PROVE TypeOK'
    BY <1>8 DEF PublishEntryFile, At, Goto, Completes, TypeOK, Active, ledger, Contents, PathOf
<1>9. ASSUME NEW p \in Callers, Finalize(p) PROVE TypeOK'
    BY <1>9 DEF Finalize, At, Free, Goto, Returns, TypeOK, Active, disk, ledger, Contents
<1>10. ASSUME NEW p \in Callers, Stage(p) PROVE TypeOK'
    BY <1>10 DEF Stage, At, Goto, GivesUp, Batch, Idle, TypeOK, Active, ledger, Contents, PathOf
<1>11. ASSUME NEW p \in Callers, Commit(p) PROVE TypeOK'
  <2>1. call' \in [Callers -> Calls] /\ finished' \subseteq asked
    <3>1. CASE Returns(p)
      <4>1. call[p] \in Calls /\ call[p].key \in asked
        BY <1>11 DEF Commit, At, TypeOK, Active, Calls
      <4>2. [call[p] EXCEPT !.at = "return"] \in Calls
        BY <4>1 DEF Calls
      <4> QED BY <3>1, <4>1, <4>2 DEF Goto, Returns, TypeOK, Calls
    <3>2. CASE GivesUp(p)
      BY <3>2 DEF GivesUp, Idle, TypeOK, Calls, Contents
    <3> QED BY <1>11, <3>1, <3>2 DEF Commit
  <2>2. \A o \in Callers : call'[o].at \in {"attach", "stage", "commit"} <=> holder' = o
    BY <1>11 DEF Commit, At, Goto, Returns, GivesUp, Idle, TypeOK
  <2>3. head' \in [Paths -> Contents \cup {Absent}] /\ index' \subseteq Paths
    BY <1>11 DEF Commit, At, GivesUp, TypeOK, Active, Batch, PathOf
  <2>4. commits' \in [Keys -> Nat] /\ UNCHANGED <<files, ledger>> /\ holder' = None
    BY <1>11 DEF Commit, At, GivesUp, TypeOK, Active
  <2> QED BY <2>1, <2>2, <2>3, <2>4 DEF TypeOK, Calls, ledger
<1>12. ASSUME NEW p \in Callers, Answer(p) PROVE TypeOK'
    BY <1>12 DEF Answer, At, Idle, TypeOK, Active, disk, Contents
<1>13. ASSUME NEW p \in Callers, Stop(p) PROVE TypeOK'
    BY <1>13 DEF Stop, At, Idle, TypeOK, Active, disk, Contents
<1>14. CASE UNCHANGED vars
    BY <1>14 DEF vars, TypeOK, Contents
<1>15. ASSUME NEW p \in Callers, Step(p) PROVE TypeOK'
    BY <1>3, <1>4, <1>5, <1>6, <1>7, <1>8, <1>9, <1>10, <1>11, <1>12, <1>15 DEF Step
<1> QED BY <1>1, <1>2, <1>13, <1>14, <1>15 DEF Next

\* A caller that is at work keeps to its key.
LEMMA ActiveStep == PubInv /\ [Next]_vars => Active'
<1> SUFFICES ASSUME TypeOK, Active, [Next]_vars PROVE Active'
    BY DEF PubInv
<1>1. ASSUME NEW k \in Keys, Ask(k) PROVE Active'
    BY <1>1 DEF Ask, TypeOK, Active, KindOf
<1>2. ASSUME NEW p \in Callers, NEW k \in Keys, Begin(p, k) PROVE Active'
    BY <1>2 DEF Begin, At, TypeOK, Active, KindOf, ledger
<1>3. ASSUME NEW p \in Callers, Lookup(p) PROVE Active'
    BY <1>3 DEF Lookup, At, Goto, TypeOK, Active, KindOf, ledger
<1>4. ASSUME NEW p \in Callers, Read(p) PROVE Active'
  <2>1. /\ \A o \in Callers : o # p => call'[o] = call[o]
        /\ \/ call'[p] = Idle
           \/ call'[p].at = "publish" /\ call'[p].key = call[p].key
        /\ call[p].at = "read" /\ UNCHANGED asked
    BY <1>4 DEF Read, At, TypeOK
  <2> QED BY <2>1 DEF TypeOK, Active, KindOf, Idle
<1>5. ASSUME NEW p \in Callers, PublishDocument(p) PROVE Active'
  <2>1. \/ call' = [call EXCEPT ![p] = Idle]
        \/ \E s \in {"return", "finalize"} : Goto(p, s)
    BY <1>5 DEF PublishDocument, Returns, Completes
  <2> QED BY <1>5, <2>1 DEF PublishDocument, At, Goto, TypeOK, Active, KindOf, Idle
<1>6. ASSUME NEW p \in Callers, BeginEntry(p) PROVE Active'
    BY <1>6 DEF BeginEntry, At, Goto, Completes, TypeOK, Active, KindOf, ledger
<1>7. ASSUME NEW p \in Callers, NEW q \in Paths, PublishAttachment(p, q) PROVE Active'
    BY <1>7 DEF PublishAttachment, At, TypeOK, Active, KindOf, ledger
<1>8. ASSUME NEW p \in Callers, PublishEntryFile(p) PROVE Active'
    BY <1>8 DEF PublishEntryFile, At, Goto, Completes, TypeOK, Active, KindOf, ledger
<1>9. ASSUME NEW p \in Callers, Finalize(p) PROVE Active'
    BY <1>9 DEF Finalize, At, Goto, Returns, TypeOK, Active, KindOf, ledger
<1>10. ASSUME NEW p \in Callers, Stage(p) PROVE Active'
    BY <1>10 DEF Stage, At, Goto, GivesUp, Idle, TypeOK, Active, KindOf, ledger
<1>11. ASSUME NEW p \in Callers, Commit(p) PROVE Active'
    BY <1>11 DEF Commit, At, Goto, Returns, GivesUp, Idle, TypeOK, Active, KindOf, ledger
<1>12. ASSUME NEW p \in Callers, Answer(p) PROVE Active'
    BY <1>12 DEF Answer, At, Idle, TypeOK, Active, KindOf
<1>13. ASSUME NEW p \in Callers, Stop(p) PROVE Active'
    BY <1>13 DEF Stop, At, Idle, TypeOK, Active, KindOf
<1>14. CASE UNCHANGED vars
    BY <1>14 DEF vars, Active, KindOf
<1>15. ASSUME NEW p \in Callers, Step(p) PROVE Active'
    BY <1>3, <1>4, <1>5, <1>6, <1>7, <1>8, <1>9, <1>10, <1>11, <1>12, <1>15 DEF Step
<1> QED BY <1>1, <1>2, <1>13, <1>14, <1>15 DEF Next

\* Who commits looked its key up in the same hold of the lock, so the key had no
\* commit, and no one else commits meanwhile.
LEMMA CommitStep ==
    ASSUME PubInv, NEW p \in Callers, Commit(p)
    PROVE  Looked' /\ CommittedOnce' /\ SuccessIsCommitted'
<1> DEFINE k == call[p].key
<1>1. k \in Keys /\ Git /\ commits[k] = 0 /\ holder = p /\ At(p, "commit")
    BY DEF Commit, PubInv, TypeOK, Active, Looked, At
<1>2. \A o \in Callers : o # p => call'[o] = call[o] /\ call[o].at \notin {"attach", "stage", "commit"}
    BY <1>1 DEF Commit, Returns, GivesUp, Goto, PubInv, TypeOK
<1>3. call'[p].at \in {"return", "idle"}
    BY <1>1 DEF Commit, Returns, GivesUp, Goto, PubInv, TypeOK, Idle
<1>4. Looked'
    BY <1>1, <1>2, <1>3 DEF Looked, At
<1>5. CASE commits' = [commits EXCEPT ![k] = @ + 1] /\ Returns(p)
    BY <1>1, <1>4, <1>5 DEF PubInv, TypeOK, CommittedOnce, SuccessIsCommitted, Returns
<1>6. CASE UNCHANGED <<commits, finished>>
    BY <1>6, <1>4 DEF PubInv, CommittedOnce, SuccessIsCommitted
<1> QED BY <1>5, <1>6 DEF Commit, GivesUp

\* The other steps make no commit, and report only what has one.
LEMMA OtherStep ==
    ASSUME PubInv, [Next]_vars, UNCHANGED commits
    PROVE  Looked' /\ CommittedOnce' /\ SuccessIsCommitted'
<1>1. CommittedOnce'
    BY DEF PubInv, CommittedOnce
<1> USE DEF PubInv, Looked, SuccessIsCommitted
<1>2. ASSUME NEW p \in Callers,
             \A o \in Callers : call'[o].at \in {"attach", "stage", "commit"} => call'[o] = call[o],
             UNCHANGED finished
      PROVE  Looked' /\ SuccessIsCommitted'
    BY <1>2 DEF At
<1>3. ASSUME NEW k \in Keys, Ask(k) PROVE Looked' /\ SuccessIsCommitted'
    BY <1>3 DEF Ask, At
<1>4. ASSUME NEW p \in Callers, NEW k \in Keys, Begin(p, k) PROVE Looked' /\ SuccessIsCommitted'
    BY <1>4 DEF Begin, At, TypeOK
<1>5. ASSUME NEW p \in Callers, Lookup(p) PROVE Looked' /\ SuccessIsCommitted'
    BY <1>5 DEF Lookup, At, Goto, TypeOK, Active, Committed, KindOf
<1>6. ASSUME NEW p \in Callers, Read(p) PROVE Looked' /\ SuccessIsCommitted'
    BY <1>6 DEF Read, At, TypeOK, Idle
<1>7. ASSUME NEW p \in Callers, PublishDocument(p) PROVE Looked' /\ SuccessIsCommitted'
  <2>1. \/ call' = [call EXCEPT ![p] = Idle] /\ UNCHANGED finished
        \/ Goto(p, "finalize") /\ UNCHANGED finished
        \/ Goto(p, "return") /\ finished' = finished \cup {call[p].key} /\ KindOf(p) \notin {"entry", "replace"}
    BY <1>7 DEF PublishDocument, Returns, Completes
  <2> QED BY <2>1 DEF At, Goto, TypeOK, Idle, KindOf
<1>8. ASSUME NEW p \in Callers, BeginEntry(p) PROVE Looked' /\ SuccessIsCommitted'
    BY <1>8 DEF BeginEntry, At, Goto, Completes, TypeOK, Active, Committed
<1>9. ASSUME NEW p \in Callers, NEW q \in Paths, PublishAttachment(p, q) PROVE Looked' /\ SuccessIsCommitted'
    BY <1>9 DEF PublishAttachment, At, TypeOK
<1>10. ASSUME NEW p \in Callers, PublishEntryFile(p) PROVE Looked' /\ SuccessIsCommitted'
    BY <1>10 DEF PublishEntryFile, At, Goto, Completes, TypeOK
<1>11. ASSUME NEW p \in Callers, Finalize(p) PROVE Looked' /\ SuccessIsCommitted'
    BY <1>11 DEF Finalize, At, Goto, Returns, TypeOK, Active, Committed
<1>12. ASSUME NEW p \in Callers, Stage(p) PROVE Looked' /\ SuccessIsCommitted'
    BY <1>12 DEF Stage, At, Goto, GivesUp, Idle, TypeOK
<1>13. ASSUME NEW p \in Callers, Commit(p) PROVE Looked' /\ SuccessIsCommitted'
    BY <1>13, CommitStep
<1>14. ASSUME NEW p \in Callers, Answer(p) PROVE Looked' /\ SuccessIsCommitted'
    BY <1>14 DEF Answer, At, Idle, TypeOK
<1>15. ASSUME NEW p \in Callers, Stop(p) PROVE Looked' /\ SuccessIsCommitted'
    BY <1>15 DEF Stop, At, Idle, TypeOK
<1>16. CASE UNCHANGED vars
    BY <1>1, <1>16 DEF vars, At
<1>17. ASSUME NEW p \in Callers, Step(p) PROVE Looked' /\ SuccessIsCommitted'
    BY <1>5, <1>6, <1>7, <1>8, <1>9, <1>10, <1>11, <1>12, <1>13, <1>14, <1>17 DEF Step
<1> QED
    BY <1>1, <1>3, <1>4, <1>15, <1>16, <1>17 DEF Next

\* Only a commit changes what the branch carries.
LEMMA OnlyCommits ==
    ASSUME [Next]_vars
    PROVE  UNCHANGED <<head, commits>> \/ \E p \in Callers : Commit(p)
BY DEF Next, Step, vars, Ask, Begin, Lookup, Read, PublishDocument, BeginEntry, PublishAttachment,
       PublishEntryFile, Finalize, Stage, Answer, Stop, disk

LEMMA PubStep == PubInv /\ [Next]_vars => PubInv'
<1> SUFFICES ASSUME PubInv, [Next]_vars PROVE PubInv'
    OBVIOUS
<1>1. TypeOK' /\ Active'
    BY TypeStep, ActiveStep DEF PubInv
<1>2. Looked' /\ CommittedOnce' /\ SuccessIsCommitted'
    BY CommitStep, OtherStep, OnlyCommits
<1> QED BY <1>1, <1>2 DEF PubInv
-----------------------------------------------------------------------------
\* No two commits carry one key and success is committed, with whatever paths.
THEOREM PublishedOnce == Spec => [](TypeOK /\ CommittedOnce /\ SuccessIsCommitted)
<1>1. PubInv => TypeOK /\ CommittedOnce /\ SuccessIsCommitted
    BY DEF PubInv
<1> QED BY PubInit, PubStep, <1>1, PTL DEF Spec

\* A call for a committed key touches no file: under the lock it finds the key.
LEMMA FinalStep ==
    ASSUME PubInv, [Next]_vars, NEW p \in Callers, NEW k \in Keys,
           call[p].key = k, commits[k] > 0, call'[p] # call[p]
    PROVE  files' = files
<1>1. Git
    BY DEF PubInv, Looked, TypeOK
<1>2. ASSUME NEW o \in Callers, PublishDocument(o), files' # files PROVE FALSE
  <2>1. call' = [call EXCEPT ![o] = call'[o]]
    BY <1>2 DEF PublishDocument, Completes, Returns, Goto, PubInv, TypeOK
  <2>2. o = p
    BY <2>1 DEF PubInv, TypeOK
  <2>3. Committed(call[o].key)
    BY <1>1, <2>2 DEF Committed
  <2> QED BY <1>2, <2>3 DEF PublishDocument
<1>3. ASSUME NEW o \in Callers, call' = [call EXCEPT ![o] = call'[o]], At(o, "attach") PROVE FALSE
  <2>1. o = p
    BY <1>3 DEF PubInv, TypeOK
  <2> QED BY <1>3, <2>1 DEF PubInv, Looked
<1>4. ASSUME NEW o \in Callers, NEW q \in Paths, PublishAttachment(o, q) PROVE FALSE
    BY <1>4, <1>3 DEF PublishAttachment, PubInv, TypeOK
<1>5. ASSUME NEW o \in Callers, PublishEntryFile(o) PROVE FALSE
    BY <1>5, <1>3 DEF PublishEntryFile, Completes, Goto, PubInv, TypeOK
<1>6. files' = files \/ \E o \in Callers : \/ PublishDocument(o) \/ PublishEntryFile(o)
                                          \/ \E q \in Paths : PublishAttachment(o, q)
    BY DEF Next, Step, vars, Ask, Begin, Lookup, Read, BeginEntry, Finalize, Stage, Commit, Answer, Stop, disk
<1> QED BY <1>2, <1>4, <1>5, <1>6

\* No call for a key the branch carries writes or removes a file, with and without
\* Git, and whatever paths the changes share.
THEOREM CommittedStays == Spec => CommittedIsFinal
<1>1. PubInv /\ [Next]_vars =>
        [\A p \in Callers, k \in Keys :
            call[p].key = k /\ commits[k] > 0 /\ call'[p] # call[p] => files' = files]_vars
    BY FinalStep
<1> QED BY PubInit, PubStep, <1>1, PTL DEF Spec, CommittedIsFinal
-----------------------------------------------------------------------------
\* Two changes that share a path start and end one marker.
LEMMA Sharing ==
    ASSUME OwnPaths, NEW j \in Keys, NEW k \in Keys, NEW q, q \in Owned(j), q \in Owned(k)
    PROVE  /\ Change[k].kind \in {"entry", "replace"} => j = k
           /\ Change[j].kind = Change[k].kind => j = k
BY DEF OwnPaths

\* What was there before: nothing where an entry or a marker goes, and a document
\* that is replaced.
LEMMA Start ==
    ASSUME OwnPaths, NEW k \in Keys, NEW q \in Owned(k)
    PROVE  /\ Change[k].kind \in {"entry", "create"} => Before[q] = Absent
           /\ Change[k].kind = "replace" => Before[q] = Original
           /\ Before[q] \in {Absent, Original}
<1>1. q \in Paths
    BY DEF Paths
<1>2. Change[k].kind = "replace" => ~ \E j \in Keys : q \in Owned(j) /\ Change[j].kind \in {"entry", "create"}
    BY Sharing
<1> QED BY <1>1, <1>2 DEF Before

\* A path of an entry, a created or a replaced document holds its change, or what
\* was there before.
LEMMA Fitting ==
    ASSUME OwnPaths, NEW tree, Fits(tree), NEW k \in Keys, NEW q \in Owned(k), tree[q] # Absent
    PROVE  /\ Change[k].kind \in {"entry", "create"} => tree[q] = k
           /\ Change[k].kind = "replace" => tree[q] \in {k, Original}
<1>1. q \in Paths
    BY DEF Paths
<1>2. CASE tree[q] = Before[q]
    BY <1>2, Start
<1>3. ASSUME NEW j \in Keys, tree[q] = j, q \in Owned(j), Change[j].kind # "remove"
      PROVE  tree[q] = k \/ Change[k].kind = "remove"
    BY <1>3, Sharing, ChangeAssumption
<1> QED BY <1>1, <1>2, <1>3 DEF Fits

\* How a step changes the files: a call writes its key, or removes a document, at a
\* path of its change, and an entry's file after its attachments.
WritesTo(p, q) ==
    LET k == call[p].key IN
    /\ k \in Keys /\ q \in Owned(k)
    /\ \/ Change[k].kind # "remove" /\ files' = [files EXCEPT ![q] = k]
       \/ Change[k].kind = "remove" /\ files' = [files EXCEPT ![q] = Absent]
    /\ Change[k].kind = "entry" /\ q = Change[k].path =>
          \A a \in Change[k].attachments : files[a] # Absent
LEMMA FileStep ==
    ASSUME PubInv, OwnInv, [Next]_vars
    PROVE  files' = files \/ \E p \in Callers, q \in Paths : WritesTo(p, q)
<1> USE DEF PubInv
<1>1. ASSUME NEW p \in Callers, PublishDocument(p)
      PROVE  files' = files \/ \E q \in Paths : WritesTo(p, q)
  <2>1. call[p].key \in Keys /\ PathOf(p) \in Owned(call[p].key) /\ KindOf(p) # "entry"
    BY <1>1 DEF PublishDocument, At, TypeOK, Active, Owned, PathOf
  <2>2. PathOf(p) \in Paths
    BY <2>1 DEF Paths
  <2>3. \/ files' = files
        \/ KindOf(p) # "remove" /\ files' = [files EXCEPT ![PathOf(p)] = call[p].key]
        \/ KindOf(p) = "remove" /\ files' = [files EXCEPT ![PathOf(p)] = Absent]
    BY <1>1 DEF PublishDocument
  <2> QED BY <2>1, <2>2, <2>3 DEF WritesTo, KindOf
<1>2. ASSUME NEW p \in Callers, NEW q \in Paths, PublishAttachment(p, q) PROVE WritesTo(p, q)
  <2>1. call[p].key \in Keys /\ Change[call[p].key].kind = "entry" /\ q \in Change[call[p].key].attachments
    BY <1>2 DEF PublishAttachment, At, TypeOK, Active, KindOf, OwnInv, Ordered
  <2> QED BY <1>2, <2>1, ChangeAssumption DEF PublishAttachment, WritesTo, Owned
<1>3. ASSUME NEW p \in Callers, PublishEntryFile(p) PROVE WritesTo(p, PathOf(p)) /\ PathOf(p) \in Paths
  <2>1. call[p].key \in Keys /\ Change[call[p].key].kind = "entry"
        /\ \A a \in Change[call[p].key].attachments : files[a] # Absent
    BY <1>3 DEF PublishEntryFile, At, TypeOK, Active, KindOf, OwnInv, Ordered
  <2> QED BY <1>3, <2>1 DEF PublishEntryFile, WritesTo, Owned, PathOf, Paths
<1>4. files' = files \/ \E p \in Callers : \/ PublishDocument(p) \/ PublishEntryFile(p)
                                          \/ \E q \in Paths : PublishAttachment(p, q)
    BY DEF Next, Step, vars, Ask, Begin, Lookup, Read, BeginEntry, Finalize, Stage, Commit, Answer, Stop, disk
<1> QED BY <1>1, <1>2, <1>3, <1>4

\* Nothing an entry or a replacement owns is ever removed.
LEMMA FilesStay ==
    ASSUME OwnPaths, PubInv, OwnInv, [Next]_vars,
           NEW k \in Keys, Change[k].kind \in {"entry", "replace"}, NEW q \in Owned(k), files[q] # Absent
    PROVE  files'[q] # Absent
<1>1. q \in Paths /\ files \in [Paths -> Contents \cup {Absent}]
    BY DEF Paths, PubInv, TypeOK
<1>2. ASSUME NEW p \in Callers, NEW r \in Paths, WritesTo(p, r) PROVE files'[q] # Absent
  <2>1. CASE r # q
    BY <1>1, <1>2, <2>1 DEF WritesTo
  <2>2. CASE r = q
    <3>1. call[p].key = k
      BY <1>2, <2>2, Sharing DEF WritesTo
    <3> QED BY <1>1, <1>2, <3>1, ChangeAssumption DEF WritesTo, Contents
  <2> QED BY <2>1, <2>2
<1> QED BY <1>2, FileStep

\* Files hold what was there or what their change wrote.
LEMMA FilesFit ==
    ASSUME OwnPaths, PubInv, OwnInv, [Next]_vars
    PROVE  Fits(files)'
<1>1. Fits(files) /\ files \in [Paths -> Contents \cup {Absent}]
    BY DEF OwnInv, PubInv, TypeOK
<1>2. ASSUME NEW p \in Callers, NEW r \in Paths, WritesTo(p, r) PROVE Fits(files)'
    BY <1>1, <1>2 DEF WritesTo, Fits
<1>3. CASE files' = files
    BY <1>1, <1>3 DEF Fits
<1> QED BY <1>2, <1>3, FileStep

\* An original that is written over or removed never comes back.
LEMMA OriginalsGo ==
    ASSUME PubInv, OwnInv, [Next]_vars, NEW q \in Paths, files'[q] = Original
    PROVE  files[q] = Original
<1>1. files \in [Paths -> Contents \cup {Absent}]
    BY DEF PubInv, TypeOK
<1>2. ASSUME NEW p \in Callers, NEW r \in Paths, WritesTo(p, r) PROVE files[q] = Original
    BY <1>1, <1>2, ChangeAssumption DEF WritesTo, Contents
<1> QED BY <1>2, FileStep
\* A commit records its key's own change, whole, and nothing else.
LEMMA CommitsItsChange ==
    ASSUME OwnPaths, PubInv, OwnInv, NEW p \in Callers, Commit(p)
    PROVE  \/ UNCHANGED <<head, commits>>
           \/ /\ commits[call[p].key] = 0 /\ call[p].key \in Keys
              /\ commits' = [commits EXCEPT ![call[p].key] = 1]
              /\ head' = Branch!Applied(head, call[p].key)
              /\ \A q \in Owned(call[p].key) : head'[q] = files[q]
<1> DEFINE k == call[p].key
<1>1. k \in Keys /\ commits[k] = 0 /\ Git /\ At(p, "commit") /\ Ordered(p)
    BY DEF Commit, PubInv, TypeOK, Active, Looked, At, OwnInv
<1>2. Batch(p) \subseteq Owned(k) /\ Change[k].path \in Batch(p) /\ Owned(k) \subseteq Paths
    BY <1>1 DEF Batch, Owned, PathOf, Paths
<1>3. /\ Fits(files) /\ Fits(head) /\ EntriesWhole
      /\ \A q \in Paths : /\ files[q] = Original => head[q] = Original
                          /\ \A j \in Keys : head[q] = j => commits[j] > 0
      /\ Change[k].kind = "replace" => files[Change[k].path] # Absent /\ head[Change[k].path] # Absent
    BY <1>1 DEF OwnInv, Stays
<1>4. SUFFICES ASSUME \A q \in Batch(p) : Known(q), \E q \in Batch(p) : head[q] # files[q],
                      head' = [q \in Paths |-> IF q \in Batch(p) THEN files[q] ELSE head[q]],
                      commits' = [commits EXCEPT ![k] = @ + 1]
               PROVE  /\ Batch(p) = Owned(k)
                      /\ \A q \in Owned(k) : files[q] = IF Change[k].kind = "remove" THEN Absent ELSE k
  <2>1. CASE UNCHANGED <<head, commits>>
    BY <2>1
  <2>2. CASE /\ \A q \in Batch(p) : Known(q)
             /\ \E q \in Batch(p) : head[q] # files[q]
             /\ head' = [q \in Paths |-> IF q \in Batch(p) THEN files[q] ELSE head[q]]
             /\ commits' = [commits EXCEPT ![k] = @ + 1]
    <3>1. Batch(p) = Owned(k) /\ \A q \in Owned(k) : files[q] = IF Change[k].kind = "remove" THEN Absent ELSE k
      BY <1>4, <2>2
    <3>2. commits' = [commits EXCEPT ![k] = 1]
      BY <1>1, <2>2
    <3>3. head' = Branch!Applied(head, k)
      BY <2>2, <3>1 DEF Branch!Applied, Owned
    <3>4. \A q \in Owned(k) : head'[q] = files[q]
      BY <1>2, <2>2, <3>1
    <3> QED BY <1>1, <3>2, <3>3, <3>4
  <2> QED BY <2>1, <2>2 DEF Commit
<1>5. Change[k].kind # "entry" => Owned(k) = {Change[k].path}
    BY <1>1, ChangeAssumption DEF Owned
<1>6. PICK r \in Batch(p) : head[r] # files[r]
    BY <1>4
<1>7. \A q \in Owned(k) : head[q] # k
    BY <1>1, <1>2, <1>3
<1>8. CASE Change[k].kind = "entry"
  <2>1. files[Change[k].path] # Absent
    BY <1>1, <1>8 DEF Ordered, At, KindOf, PathOf, Committed
  <2>2. \A q \in Owned(k) : files[q] # Absent
    BY <1>1, <1>3, <1>8, <2>1 DEF EntriesWhole, Owned
  <2>3. Batch(p) = Owned(k)
    BY <2>2 DEF Batch, Owned, PathOf
  <2>4. \A q \in Owned(k) : files[q] = k
    BY <1>1, <1>3, <1>8, <2>2, Fitting
  <2> QED BY <1>8, <2>3, <2>4
<1>9. CASE Change[k].kind \in {"create", "replace"}
  <2>1. Owned(k) = {r} /\ Batch(p) = {r}
    BY <1>2, <1>5, <1>6, <1>9
  <2>2. r = Change[k].path /\ r \in Owned(k)
    BY <1>2, <2>1
  <2>3. files[r] # Absent => files[r] = k \/ (Change[k].kind = "replace" /\ files[r] = Original)
    BY <1>1, <1>3, <1>9, <2>2, Fitting
  <2>4. head[r] # Absent => Change[k].kind = "replace" /\ head[r] = Original
    BY <1>1, <1>3, <1>7, <1>9, <2>2, Fitting
  <2>5. files[r] = k
    BY <1>3, <1>6, <2>2, <2>3, <2>4
  <2> QED BY <1>9, <2>1, <2>5
<1>10. CASE Change[k].kind = "remove"
  <2>1. Owned(k) = {r} /\ Batch(p) = {r}
    BY <1>2, <1>5, <1>6, <1>10
  <2>2. r = PathOf(p) /\ r \in Owned(k) /\ r \in Paths
    BY <1>2, <2>1 DEF PathOf
  <2>3. head[r] # Absent
    BY <1>1, <1>4, <1>10, <2>1, <2>2 DEF Ordered, KindOf, Known
  <2>4. files[r] # Original
    BY <1>3, <1>6, <2>2
  <2>5. ASSUME NEW j \in Keys, files[r] = j, r \in Owned(j), Change[j].kind # "remove" PROVE FALSE
    <3>1. Change[j].kind = "create"
      BY <1>1, <1>10, <2>2, <2>5, Sharing, ChangeAssumption
    <3>2. head[r] = j
      BY <1>3, <2>3, <2>5, <3>1, Fitting
    <3> QED BY <1>6, <2>5, <3>2
  <2>6. Before[r] \in {Absent, Original}
    BY <1>1, <2>2, Start
  <2>7. files[r] = Absent
    BY <1>3, <2>2, <2>4, <2>5, <2>6 DEF Fits
  <2> QED BY <1>10, <2>1, <2>7
<1> QED BY <1>1, <1>8, <1>9, <1>10, ChangeAssumption
\* Initially the files are what is committed.
LEMMA OwnInit == ASSUME OwnPaths, Init PROVE OwnInv
<1>1. Fits(files) /\ Fits(head)
    BY DEF Init, Fits
<1>2. \A q \in Paths : head[q] \in {Absent, Original}
    BY DEF Init, Before
<1>3. /\ files = head
      /\ \A k \in Keys : head[Change[k].path] = Before[Change[k].path] /\ Change[k].path \in Owned(k)
    BY DEF Init, Owned
<1>4. Original # Absent /\ \A k \in Keys : k \notin {Absent, Original}
    BY ChangeAssumption DEF Contents
<1>5. Stays
    BY <1>3, <1>4, Start DEF Stays, EntriesWhole
<1>6. \A p \in Callers : Ordered(p)
    BY DEF Init, Ordered, Idle, At
<1> QED BY <1>1, <1>2, <1>4, <1>5, <1>6 DEF OwnInv

\* The branch changes by one key's whole change at a time.
LEMMA HeadStep ==
    ASSUME OwnPaths, PubInv, OwnInv, [Next]_vars
    PROVE  \/ UNCHANGED <<head, commits>>
           \/ \E k \in Keys : /\ commits[k] = 0 /\ commits' = [commits EXCEPT ![k] = 1]
                              /\ head' = Branch!Applied(head, k)
                              /\ \A q \in Owned(k) : head'[q] = files[q]
BY CommitsItsChange, OnlyCommits

\* What is committed stays on record, and the branch carries committed keys only.
LEMMA CommittedKeys ==
    ASSUME OwnPaths, PubInv, OwnInv, [Next]_vars
    PROVE  /\ Fits(head)'
           /\ \A q \in Paths, k \in Keys : head'[q] = k => commits'[k] > 0
           /\ \A k \in Keys : commits[k] > 0 => commits'[k] > 0
<1>1. commits \in [Keys -> Nat] /\ Fits(head) /\ \A q \in Paths, k \in Keys : head[q] = k => commits[k] > 0
    BY DEF PubInv, TypeOK, OwnInv
<1>2. CASE UNCHANGED <<head, commits>>
    BY <1>1, <1>2 DEF Fits
<1>3. ASSUME NEW k \in Keys, commits[k] = 0, commits' = [commits EXCEPT ![k] = 1], head' = Branch!Applied(head, k)
      PROVE  /\ Fits(head)'
             /\ \A q \in Paths, j \in Keys : head'[q] = j => commits'[j] > 0
             /\ \A j \in Keys : commits[j] > 0 => commits'[j] > 0
  <2>1. \A q \in Paths : head'[q] = IF q \in Owned(k)
                                    THEN IF Change[k].kind = "remove" THEN Absent ELSE k
                                    ELSE head[q]
    BY <1>3 DEF Branch!Applied, Owned
  <2>2. Fits(head)'
    BY <1>1, <2>1 DEF Fits
  <2>3. \A j \in Keys : j # Absent
    BY ChangeAssumption DEF Contents
  <2> QED BY <1>1, <1>3, <2>1, <2>2, <2>3
<1> QED BY <1>2, <1>3, HeadStep

\* Entries stay whole, in the directory ...
LEMMA EntryFilesWhole ==
    ASSUME OwnPaths, PubInv, OwnInv, [Next]_vars, NEW k \in Keys, Change[k].kind = "entry",
           files'[Change[k].path] # Absent, NEW a \in Change[k].attachments
    PROVE  files'[a] # Absent
<1>1. a \in Owned(k) /\ Change[k].path \in Owned(k) /\ Change[k].path \in Paths
    BY DEF Owned, Paths
<1>2. files[a] # Absent => files'[a] # Absent
    BY <1>1, FilesStay
<1>3. CASE files[Change[k].path] # Absent
    BY <1>2, <1>3 DEF OwnInv, Stays, EntriesWhole
<1>4. ASSUME NEW p \in Callers, NEW r \in Paths, WritesTo(p, r), files[Change[k].path] = Absent PROVE files[a] # Absent
  <2>1. r = Change[k].path
    BY <1>1, <1>4 DEF WritesTo, PubInv, TypeOK
  <2>2. call[p].key = k
    BY <1>1, <1>4, <2>1, Sharing DEF WritesTo
  <2> QED BY <1>4, <2>1, <2>2 DEF WritesTo
<1> QED BY <1>2, <1>3, <1>4, FileStep

\* ... and on the branch.
LEMMA EntryCommitsWhole ==
    ASSUME OwnPaths, PubInv, OwnInv, [Next]_vars, NEW k \in Keys, Change[k].kind = "entry",
           head'[Change[k].path] # Absent, NEW a \in Change[k].attachments
    PROVE  head'[a] # Absent
<1>1. a \in Owned(k) /\ Change[k].path \in Owned(k) /\ Owned(k) \subseteq Paths /\ k # Absent
    BY PathsOfKeys, ChangeAssumption DEF Owned, Contents
<1>2. CASE UNCHANGED head
    BY <1>2 DEF OwnInv, Stays, EntriesWhole
<1>3. ASSUME NEW j \in Keys, head' = Branch!Applied(head, j) PROVE head'[a] # Absent
  <2>1. CASE j = k
    BY <1>1, <1>3, <2>1 DEF Branch!Applied, Owned
  <2>2. CASE j # k
    <3>1. Owned(j) \cap Owned(k) = {}
      BY <2>2, Sharing
    <3>2. \A q \in Owned(k) : head'[q] = head[q]
      BY <1>1, <1>3, <3>1 DEF Branch!Applied, Owned
    <3> QED BY <1>1, <3>2 DEF OwnInv, Stays, EntriesWhole
  <2> QED BY <2>1, <2>2
<1> QED BY <1>2, <1>3, HeadStep

LEMMA StaysStep ==
    ASSUME OwnPaths, PubInv, OwnInv, [Next]_vars
    PROVE  Stays'
<1>1. ASSUME NEW q \in Paths, files'[q] = Original PROVE head'[q] = Original
  <2>1. files[q] = Original /\ head[q] = Original
    BY <1>1, OriginalsGo DEF OwnInv, Stays
  <2>2. ASSUME NEW k \in Keys, head' = Branch!Applied(head, k), \A r \in Owned(k) : head'[r] = files[r]
        PROVE  head'[q] = Original
    BY <2>1, <2>2 DEF Branch!Applied, Owned
  <2> QED BY <2>1, <2>2, HeadStep
<1>2. ASSUME NEW k \in Keys, Change[k].kind = "replace"
      PROVE  files'[Change[k].path] # Absent /\ head'[Change[k].path] # Absent
  <2>1. Change[k].path \in Owned(k) /\ Change[k].path \in Paths
        /\ files[Change[k].path] # Absent /\ head[Change[k].path] # Absent
    BY <1>2 DEF Owned, Paths, OwnInv, Stays
  <2>2. files'[Change[k].path] # Absent
    BY <1>2, <2>1, FilesStay
  <2>3. ASSUME NEW j \in Keys, head' = Branch!Applied(head, j), \A r \in Owned(j) : head'[r] = files[r]
        PROVE  head'[Change[k].path] # Absent
    BY <2>1, <2>3 DEF Branch!Applied, Owned
  <2> QED BY <2>1, <2>2, <2>3, HeadStep
<1>3. EntriesWhole'
    BY EntryFilesWhole, EntryCommitsWhole DEF EntriesWhole
<1> QED BY <1>1, <1>2, <1>3 DEF Stays

\* A call that stays where it is stays in order: what it found or wrote is there.
LEMMA OthersOrdered ==
    ASSUME OwnPaths, PubInv, OwnInv, [Next]_vars, NEW o \in Callers, call'[o] = call[o],
           index' = index \/ ~At(o, "commit")
    PROVE  Ordered(o)'
<1> DEFINE k == call[o].key
<1>1. Ordered(o) /\ (call[o].at # "idle" => k \in Keys)
    BY DEF OwnInv, PubInv, Active, TypeOK
<1>2. ASSUME k \in Keys, Change[k].kind = "entry", NEW q \in Owned(k), files[q] # Absent PROVE files'[q] # Absent
    BY <1>2, FilesStay
<1>3. k \in Keys /\ Committed(k) => Committed(k)'
    BY CommittedKeys DEF Committed
<1>4. At(o, "attach") => Change[k].kind = "entry"
    BY DEF At, PubInv, Active, KindOf
<1> QED BY <1>1, <1>2, <1>3, <1>4 DEF Ordered, At, KindOf, PathOf, Owned
\* A call goes on in order: attachments, then the entry, then the index, then the
\* commit.
LEMMA OrderedStep ==
    ASSUME OwnPaths, PubInv, OwnInv, [Next]_vars
    PROVE  \A o \in Callers : Ordered(o)'
<1> USE DEF PubInv
<1> DEFINE Shifts(p) == \A o \in Callers \ {p} : call'[o] = call[o]
<1>1. ASSUME NEW p \in Callers, Shifts(p), index' = index \/ holder = p, Ordered(p)'
      PROVE  \A o \in Callers : Ordered(o)'
  <2>1. \A o \in Callers \ {p} : index' = index \/ ~At(o, "commit")
    BY <1>1 DEF TypeOK, At
  <2> QED BY <1>1, <2>1, OthersOrdered
<1>2. ASSUME NEW p \in Callers, call'[p].at \notin {"attach", "finalize", "stage", "commit"} PROVE Ordered(p)'
    BY <1>2 DEF Ordered, At
<1>3. ASSUME NEW k \in Keys, Ask(k) PROVE \A o \in Callers : Ordered(o)'
  <2>1. \A o \in Callers : call'[o] = call[o] /\ index' = index
    BY <1>3 DEF Ask, disk
  <2> QED BY <2>1, OthersOrdered
<1>4. ASSUME NEW p \in Callers, NEW k \in Keys, Begin(p, k) PROVE \A o \in Callers : Ordered(o)'
  <2>1. Shifts(p) /\ index' = index /\ call'[p].at \in {"lookup", "publish"}
    BY <1>4 DEF Begin, TypeOK, disk
  <2> QED BY <1>1, <1>2, <2>1
<1>5. ASSUME NEW p \in Callers, Lookup(p) PROVE \A o \in Callers : Ordered(o)'
  <2>1. Shifts(p) /\ UNCHANGED disk
    BY <1>5 DEF Lookup, Goto, TypeOK
  <2>2. CASE call'[p].at # "finalize"
    <3>1. call'[p].at \in {"publish", "return", "read"}
      BY <1>5, <2>2 DEF Lookup, Goto, TypeOK
    <3> QED BY <1>1, <1>2, <2>1, <3>1 DEF disk
  <2>3. CASE call'[p].at = "finalize"
    <3>1. call'[p].key = call[p].key /\ (Committed(call[p].key) \/ files[PathOf(p)] # Absent)
      BY <1>5, <2>3 DEF Lookup, Goto, TypeOK
    <3>2. Ordered(p)'
      BY <2>1, <2>3, <3>1 DEF Ordered, At, disk, Committed, PathOf
    <3> QED BY <1>1, <2>1, <3>2 DEF disk
  <2> QED BY <2>2, <2>3
<1>6. ASSUME NEW p \in Callers, Read(p) PROVE \A o \in Callers : Ordered(o)'
  <2>1. Shifts(p) /\ index' = index /\ call'[p].at \in {"publish", "idle"}
    BY <1>6 DEF Read, TypeOK, disk, Idle
  <2> QED BY <1>1, <1>2, <2>1
<1>7. ASSUME NEW p \in Callers, PublishDocument(p) PROVE \A o \in Callers : Ordered(o)'
  <2>1. Shifts(p) /\ index' = index
    BY <1>7 DEF PublishDocument, Returns, Completes, Goto, TypeOK
  <2>2. call'[p].at \in {"return", "idle"} \/ (call'[p].at = "finalize" /\ call'[p].key = call[p].key)
    BY <1>7 DEF PublishDocument, Returns, Completes, Goto, TypeOK, Idle
  <2>3. KindOf(p) # "entry"
    BY <1>7 DEF PublishDocument
  <2>4. Ordered(p)'
    BY <2>2, <2>3 DEF Ordered, At, KindOf
  <2> QED BY <1>1, <2>1, <2>4
<1>8. ASSUME NEW p \in Callers, BeginEntry(p) PROVE \A o \in Callers : Ordered(o)'
  <2>1. Shifts(p) /\ UNCHANGED disk /\ call'[p].key = call[p].key
    BY <1>8 DEF BeginEntry, Completes, Goto, TypeOK
  <2>2. \/ call'[p].at = "finalize" /\ (Committed(call[p].key) \/ files[PathOf(p)] # Absent)
        \/ call'[p].at = "attach" /\ call'[p].todo = Change[call[p].key].attachments
    BY <1>8 DEF BeginEntry, Completes, Goto, TypeOK
  <2>3. Ordered(p)'
    BY <2>1, <2>2 DEF Ordered, At, disk, Committed, PathOf
  <2> QED BY <1>1, <2>1, <2>3 DEF disk
<1>9. ASSUME NEW p \in Callers, NEW q \in Paths, PublishAttachment(p, q) PROVE \A o \in Callers : Ordered(o)'
  <2>1. /\ Shifts(p) /\ index' = index /\ files' = [files EXCEPT ![q] = call[p].key]
        /\ call'[p].at = "attach" /\ call'[p].key = call[p].key /\ call'[p].todo = call[p].todo \ {q}
        /\ At(p, "attach") /\ Ordered(p) /\ call[p].key \in Keys
    BY <1>9 DEF PublishAttachment, At, TypeOK, OwnInv, Active
  <2>2. files'[q] # Absent /\ \A r \in Paths : r # q => files'[r] = files[r]
    BY <2>1, ChangeAssumption DEF TypeOK, Contents
  <2>3. Change[call[p].key].attachments \subseteq Paths
    BY <2>1, PathsOfKeys
  <2>4. Ordered(p)'
    BY <2>1, <2>2, <2>3 DEF Ordered, At
  <2> QED BY <1>1, <2>1, <2>4
<1>10. ASSUME NEW p \in Callers, PublishEntryFile(p) PROVE \A o \in Callers : Ordered(o)'
  <2>1. /\ Shifts(p) /\ index' = index /\ files' = [files EXCEPT ![PathOf(p)] = call[p].key]
        /\ call'[p].at = "finalize" /\ call'[p].key = call[p].key /\ call[p].key \in Keys
    BY <1>10 DEF PublishEntryFile, Completes, Goto, At, TypeOK, Active
  <2>2. PathOf(p) \in Paths
    BY <2>1, PathsOfKeys DEF PathOf
  <2>3. files'[PathOf(p)] # Absent /\ PathOf(p)' = PathOf(p)
    BY <2>1, <2>2, ChangeAssumption DEF TypeOK, Contents, PathOf
  <2>4. Ordered(p)'
    BY <2>1, <2>3 DEF Ordered, At
  <2> QED BY <1>1, <2>1, <2>4
<1>11. ASSUME NEW p \in Callers, Finalize(p) PROVE \A o \in Callers : Ordered(o)'
  <2>1. /\ Shifts(p) /\ UNCHANGED disk /\ call'[p].key = call[p].key /\ At(p, "finalize")
        /\ call'[p].at \in {"stage", "return"} /\ Ordered(p)
    BY <1>11 DEF Finalize, Returns, Goto, At, TypeOK, OwnInv
  <2>2. Ordered(p)'
    BY <2>1 DEF Ordered, At, disk, Committed, PathOf, KindOf
  <2> QED BY <1>1, <2>1, <2>2 DEF disk
<1>12. ASSUME NEW p \in Callers, Stage(p) PROVE \A o \in Callers : Ordered(o)'
  <2>1. Shifts(p) /\ holder = p /\ At(p, "stage") /\ Ordered(p) /\ UNCHANGED <<files, commits>>
    BY <1>12 DEF Stage, GivesUp, Goto, At, TypeOK, OwnInv
  <2>2. CASE GivesUp(p)
    <3>1. call'[p].at = "idle"
      BY <2>2 DEF GivesUp, Idle, TypeOK
    <3> QED BY <1>1, <1>2, <2>1, <3>1
  <2>3. CASE Goto(p, "commit")
    <3>1. call'[p].at = "commit" /\ call'[p].key = call[p].key
      BY <2>3 DEF Goto, TypeOK
    <3>2. KindOf(p) = "remove" => PathOf(p) \notin index'
      BY <1>12, <2>3, <3>1 DEF Stage, GivesUp, TypeOK, Idle
    <3>3. Ordered(p)'
      BY <2>1, <3>1, <3>2 DEF Ordered, At, Committed, PathOf, KindOf
    <3> QED BY <1>1, <2>1, <3>3
  <2> QED BY <1>12, <2>2, <2>3 DEF Stage
<1>13. ASSUME NEW p \in Callers, Commit(p) PROVE \A o \in Callers : Ordered(o)'
  <2>1. Shifts(p) /\ holder = p /\ call'[p].at \in {"return", "idle"}
    BY <1>13 DEF Commit, Returns, GivesUp, Goto, At, TypeOK, Idle
  <2> QED BY <1>1, <1>2, <2>1
<1>14. ASSUME NEW p \in Callers, Answer(p) PROVE \A o \in Callers : Ordered(o)'
  <2>1. Shifts(p) /\ index' = index /\ call'[p].at = "idle"
    BY <1>14 DEF Answer, TypeOK, disk, Idle
  <2> QED BY <1>1, <1>2, <2>1
<1>15. ASSUME NEW p \in Callers, Stop(p) PROVE \A o \in Callers : Ordered(o)'
  <2>1. Shifts(p) /\ index' = index /\ call'[p].at = "idle"
    BY <1>15 DEF Stop, TypeOK, disk, Idle
  <2> QED BY <1>1, <1>2, <2>1
<1>16. CASE UNCHANGED vars
  <2>1. \A o \in Callers : call'[o] = call[o] /\ index' = index
    BY <1>16 DEF vars
  <2> QED BY <2>1, OthersOrdered
<1>17. ASSUME NEW p \in Callers, Step(p) PROVE \A o \in Callers : Ordered(o)'
    BY <1>5, <1>6, <1>7, <1>8, <1>9, <1>10, <1>11, <1>12, <1>13, <1>14, <1>17 DEF Step
<1> QED BY <1>3, <1>4, <1>15, <1>16, <1>17 DEF Next

LEMMA OwnStep ==
    ASSUME OwnPaths, PubInv, OwnInv, [Next]_vars
    PROVE  OwnInv'
BY FilesFit, CommittedKeys, StaysStep, OrderedStep DEF OwnInv

-----------------------------------------------------------------------------
\* No two commits carry one key, success is committed, and no entry is readable, in
\* the directory or on the branch, without its attachments - for changes that meet in
\* a path only as the start and the end of a marker.
THEOREM PublishedWhole == ASSUME OwnPaths PROVE Spec => []PublishedOnceAndWhole
<1>1. Init => PubInv /\ OwnInv
    BY PubInit, OwnInit
<1>2. PubInv /\ OwnInv /\ [Next]_vars => (PubInv /\ OwnInv)'
    BY PubStep, OwnStep
<1>3. PubInv /\ OwnInv => PublishedOnceAndWhole
    BY DEF PubInv, OwnInv, Stays, PublishedOnceAndWhole
<1> QED BY <1>1, <1>2, <1>3, PTL DEF Spec

\* The refinement: commits are the only change of the branch, each one key's whole
\* change, recorded once (KeyedPublication), under the same condition.
THEOREM BranchRecordsKeys == ASSUME OwnPaths PROVE Spec => RecordsKeys
<1>1. Init => PubInv /\ OwnInv /\ Branch!PubInit(Before)
  <2>1. Init => Branch!PubInit(Before)
    BY DEF Init, Branch!PubInit
  <2> QED BY <2>1, PubInit, OwnInit
<1>2. PubInv /\ OwnInv /\ [Next]_vars => (PubInv /\ OwnInv)'
    BY PubStep, OwnStep
<1>3. ASSUME PubInv, OwnInv, [Next]_vars
      PROVE  (\E k \in Keys : Branch!Record(k)) \/ UNCHANGED Branch!pubVars
  <2>1. CASE UNCHANGED <<head, commits>>
    BY <2>1 DEF Branch!pubVars
  <2>2. ASSUME NEW k \in Keys, commits[k] = 0, commits' = [commits EXCEPT ![k] = 1], head' = Branch!Applied(head, k)
        PROVE  Branch!Record(k)
    <3>1. {j \in Keys : commits'[j] > 0} = {j \in Keys : commits[j] > 0} \cup {k}
      BY <1>3, <2>2 DEF PubInv, TypeOK
    <3> QED BY <2>2, <3>1 DEF Branch!Record
  <2> QED BY <1>3, <2>1, <2>2, HeadStep
<1>4. PubInv /\ OwnInv /\ [Next]_vars => [\E k \in Keys : Branch!Record(k)]_Branch!pubVars
    BY <1>3
<1> QED BY <1>1, <1>2, <1>4, PTL DEF Spec, RecordsKeys, Branch!Recording
-----------------------------------------------------------------------------
(* The services of MCRules.                                                    *)
LEMMA ServicesAssume ==
    /\ Alone!ReposAssumption /\ Alone!ModelAssumption /\ Together!ReposAssumption
    /\ Together!ModelAssumption
BY ServicesAssumption

\* One process makes one call at a time.
LEMMA AloneIsSole == Alone!Sole
BY DEF Alone!Sole

\* The part that runs begins as its module does.
LEMMA ServiceInit ==
    ASSUME RulesInit
    PROVE  /\ part = "alone" => Alone!Init
           /\ part = "together" => Together!Init
           /\ part = "models" => Together!ModelInit
           /\ part = "local model" => Alone!ModelInit
<1>1. RepoInit /\ ModelInit
      BY DEF RulesInit
<1>2. /\ part = "alone" => Alone!Init
      /\ part = "together" => Together!Init
      BY <1>1 DEF RepoInit
<1>3. /\ part = "models" => Together!ModelInit
      /\ part = "local model" => Alone!ModelInit
      BY <1>1 DEF ModelInit
<1> QED BY <1>2, <1>3

\* It stays the part that runs, and what it does is a step of its module.
LEMMA ServiceNext ==
    ASSUME [RulesNext]_rulesVars
    PROVE  /\ part' = part
           /\ part = "alone" => [Alone!Next]_(Alone!vars)
           /\ part = "together" => [Together!Next]_(Together!vars)
           /\ part = "models" => [Together!ModelNext]_(Together!modelVars)
           /\ part = "local model" => [Alone!ModelNext]_(Alone!modelVars)
<1>1. part' = part
      BY DEF RulesNext, rulesVars, CheckoutStep, SetupStep, RepoStep, WriteStep, ModelStep, DisplayStep,
             PublishStep
<1>2. /\ part = "alone" => Alone!Next \/ UNCHANGED repoVars
      /\ part = "together" => Together!Next \/ UNCHANGED repoVars
      BY DEF RulesNext, rulesVars, CheckoutStep, SetupStep, RepoStep, WriteStep, ModelStep, DisplayStep,
             PublishStep
<1>3. /\ part = "models" => Together!ModelNext \/ UNCHANGED modelVars
      /\ part = "local model" => Alone!ModelNext \/ UNCHANGED modelVars
      BY DEF RulesNext, rulesVars, CheckoutStep, SetupStep, RepoStep, WriteStep, ModelStep, DisplayStep,
             PublishStep
<1>4. UNCHANGED repoVars => UNCHANGED Alone!vars /\ UNCHANGED Together!vars
      BY DEF repoVars, Alone!vars, Together!vars
<1>5. UNCHANGED modelVars => UNCHANGED Alone!modelVars /\ UNCHANGED Together!modelVars
      BY DEF modelVars, Alone!modelVars, Together!modelVars
<1> QED BY <1>1, <1>2, <1>3, <1>4, <1>5

ServicesInv ==
    /\ part = "alone" => Alone!ReposInv /\ Alone!AloneInv
    /\ part = "together" => Together!ReposInv
    /\ part = "models" => Together!ModelInv
    /\ part = "local model" => Alone!ModelInv

LEMMA ServicesStart == RulesInit => ServicesInv
<1> SUFFICES ASSUME RulesInit PROVE ServicesInv
    OBVIOUS
<1>1. part = "alone" => Alone!ReposInv /\ Alone!AloneInv
      BY ServicesAssume, ServiceInit, Alone!ReposInit, Alone!AloneStart
<1>2. part = "together" => Together!ReposInv
      BY ServicesAssume, ServiceInit, Together!ReposInit
<1>3. part = "models" => Together!ModelInv
      BY ServicesAssume, ServiceInit, Together!ModelStart
<1>4. part = "local model" => Alone!ModelInv
      BY ServicesAssume, ServiceInit, Alone!ModelStart
<1> QED BY <1>1, <1>2, <1>3, <1>4 DEF ServicesInv

LEMMA ServicesStep == ServicesInv /\ [RulesNext]_rulesVars => ServicesInv'
<1> SUFFICES ASSUME ServicesInv, [RulesNext]_rulesVars PROVE ServicesInv'
    OBVIOUS
<1>1. ASSUME part' = "alone" PROVE Alone!ReposInv' /\ Alone!AloneInv'
  <2>1. Alone!ReposInv /\ Alone!AloneInv /\ [Alone!Next]_(Alone!vars)
        BY <1>1, ServiceNext DEF ServicesInv
  <2> QED BY <2>1, ServicesAssume, AloneIsSole, Alone!ReposStep, Alone!AloneStep
<1>2. ASSUME part' = "together" PROVE Together!ReposInv'
  <2>1. Together!ReposInv /\ [Together!Next]_(Together!vars)
        BY <1>2, ServiceNext DEF ServicesInv
  <2> QED BY <2>1, ServicesAssume, Together!ReposStep
<1>3. ASSUME part' = "models" PROVE Together!ModelInv'
  <2>1. Together!ModelInv /\ [Together!ModelNext]_(Together!modelVars)
        BY <1>3, ServiceNext DEF ServicesInv
  <2> QED BY <2>1, ServicesAssume, Together!ModelStep
<1>4. ASSUME part' = "local model" PROVE Alone!ModelInv'
  <2>1. Alone!ModelInv /\ [Alone!ModelNext]_(Alone!modelVars)
        BY <1>4, ServiceNext DEF ServicesInv
  <2> QED BY <2>1, ServicesAssume, Alone!ModelStep
<1> QED BY <1>1, <1>2, <1>3, <1>4 DEF ServicesInv

\* Whatever processes do to one another, a connection was verified and a cache is of
\* the repository it is named for; one process's add stays until its removal; no
\* credential is sent, refusals stay few, and every reply that is billed is recorded.
THEOREM ServicesStayHeld == RulesSpec => []ServicesHold
<1>1. ServicesInv => ServicesHold
  <2> SUFFICES ASSUME ServicesInv PROVE ServicesHold
      OBVIOUS
  <2>1. part = "alone" => Alone!TypeOK /\ Alone!ConnectionsAreReal /\ Alone!AddsHold
        BY ServicesAssume, Alone!ReposGive DEF ServicesInv, Alone!AloneInv
  <2>2. part = "together" => Together!TypeOK /\ Together!ConnectionsAreReal
        BY ServicesAssume, Together!ReposGive DEF ServicesInv
  <2>3. part = "models" => /\ Together!ModelTypeOK /\ Together!NothingLeaks /\ Together!RefusedOnce
                           /\ Together!BilledIsRecorded /\ Together!SpendIsBounded
        BY ServicesAssume, Together!ModelGive DEF ServicesInv
  <2>4. part = "local model" => /\ Alone!ModelTypeOK /\ Alone!NothingLeaks
                                /\ Alone!BilledIsRecorded /\ Alone!SpendIsBounded
        BY ServicesAssume, Alone!ModelGive DEF ServicesInv
  <2> QED BY <2>1, <2>2, <2>3, <2>4 DEF ServicesHold
<1> QED BY <1>1, ServicesStart, ServicesStep, PTL DEF RulesSpec

=============================================================================
