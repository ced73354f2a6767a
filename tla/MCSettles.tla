------------------------------ MODULE MCSettles ------------------------------
(***************************************************************************)
(* The stores of MCStores under fairness, and the algorithms that keep no  *)
(* state, one input after the other.                                       *)
(***************************************************************************)
EXTENDS MCStores, Algorithms

settlesVars == <<storesVars, input>>

SettlesInit ==
    /\ StoresInit
    /\ IF part = "algorithms" THEN Inputs ELSE input = <<>>
AlgorithmStep == part = "algorithms" /\ Evaluate /\ UNCHANGED storesVars
AnswerStep ==
    /\ part = "answers" /\ Answers!Next
    /\ UNCHANGED <<part, input, logVars, sweepVars, indexVars, viewVars, readVars>>
StoreStep == StoresNext /\ UNCHANGED input
SettlesNext == AlgorithmStep \/ AnswerStep \/ StoreStep

\* The fairness of each part, as its module states it: one part runs, so what
\* is fair of several parts is one condition.
Strong(k) ==
    \/ /\ part = "answers"
       /\ CASE k = 1 -> Answers!Step(p1)
            [] k = 2 -> Answers!Step(p2)
            [] k = 3 -> \E p \in {p1, p2} : Answers!Begin(p, kEntry)
            [] k = 4 -> \E p \in {p1, p2} : Answers!Begin(p, kDrop)
       /\ UNCHANGED <<part, input, logVars, sweepVars, indexVars, viewVars, readVars>>
    \/ /\ part = "fills"
       /\ CASE k = 1 -> Waits!Step(f1)
            [] k = 2 -> Waits!Step(f2)
            [] OTHER -> FALSE
       /\ UNCHANGED <<part, input, logVars, sweepVars, pubVars, viewVars, readVars>>
Weak(k) ==
    \/ /\ part = "collection"
       /\ IF k = 1 THEN \/ Paging!ListLog(p1) \/ Paging!EndList(p1)
                        \/ Paging!TakeSession(p1) \/ Paging!NextPage(p1)
                   ELSE Paging!DeleteArea(p1) \/ Paging!DeleteLog(p1)
       /\ UNCHANGED <<part, input, logVars, pubVars, indexVars, viewVars, readVars>>
    \/ /\ part = "swept"
       /\ IF k = 1 THEN Swept!ReleaseStale ELSE Swept!EndSearch(s1)
       /\ UNCHANGED <<part, input, logVars, sweepVars, pubVars, indexVars, readVars>>
SettlesLive ==
    /\ SettlesInit /\ [][SettlesNext]_settlesVars
    /\ \A k \in 1..4 : SF_settlesVars(Strong(k))
    /\ \A k \in 1..2 : WF_settlesVars(Weak(k))

-----------------------------------------------------------------------------
(* Properties.                                                             *)

\* Every algorithm gives what it promises.
AlgorithmsAgree == [][part = "algorithms" => Agrees]_settlesVars

\* Every call that begins comes to its end: sweeps that do not fail, recorded
\* intents, fills that wait for each other.
SweepsEnd ==
    (part = "collection" /\ sweep[p1].at = "list") ~> sweep[p1].at \in {"swept", "idle"}
EveryIntentAnswered ==
    \A k \in {kEntry, kDrop} : (part = "answers" /\ k \in asked) ~> k \in answered
FillsEnd ==
    \A p \in {f1, f2} : (part = "fills" /\ pc[p] # "idle") ~> (part = "fills" => pc[p] = "idle")
\* A deleted segment file does not stay mapped in a view whose timer is armed,
\* nor by searches alone: the timer lets go of it if no other search comes, also
\* beside writes, preparations and searches that fail (storeview.go:346-352).
ReleasesDeleted ==
    LET Inside == Swept!Stale(parsed.segments)
        Outside == Swept!Stale(Swept!Maps \ parsed.segments)
    IN  /\ (part = "swept" /\ timer /\ Inside) ~> ~Inside
        /\ (part = "swept" /\ Outside) ~> ~Outside
=============================================================================
