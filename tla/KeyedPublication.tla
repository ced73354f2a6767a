--------------------------- MODULE KeyedPublication ---------------------------
(* What a publication store promises (PublicationStore, graphstore.go): a      *)
(* change is recorded under its key once, whole, and touches nothing else.     *)
CONSTANTS Keys, Paths, Change, Absent
VARIABLES tree,      \* Paths -> what the branch carries there
          recorded   \* the keys whose change the branch carries

pubVars == <<tree, recorded>>

\* The tree with the change of k made: an entry comes with its attachments.
Applied(t, k) ==
    LET c == Change[k] IN
    [q \in Paths |-> IF q \in {c.path} \cup c.attachments
                     THEN IF c.kind = "remove" THEN Absent ELSE k
                     ELSE t[q]]

Record(k) ==
    /\ k \notin recorded
    /\ recorded' = recorded \cup {k}
    /\ tree' = Applied(tree, k)

PubInit(start) == tree = start /\ recorded = {}
Recording == [][\E k \in Keys : Record(k)]_pubVars
=============================================================================
