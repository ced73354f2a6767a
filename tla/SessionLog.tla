----------------------------- MODULE SessionLog -----------------------------
(***************************************************************************)
(* What a session store promises the engine (the comment of SessionStore   *)
(* in sessionstore.go): an append names the version it was computed on; it *)
(* lands whole, at that version, or not at all; a log only grows, until it *)
(* is deleted for good.                                                    *)
(***************************************************************************)
EXTENDS Naturals, Sequences

CONSTANTS
    MaxBatch,         \* the most events one append carries
    Absent, Deleted   \* not created yet; deleted for good

VARIABLE log          \* Absent, Deleted, or the batches appended

Exists == log \notin {Absent, Deleted}

\* The sequence number of the last event.
Version == IF log = << >> THEN 0 ELSE log[Len(log)].first + log[Len(log)].events

Init == log = Absent

Create == log = Absent /\ log' = << >>

\* A batch records the version it was computed on: the one it lands at.
AppendBatch(n) ==
    /\ Exists
    /\ log' = Append(log, [first |-> Version, events |-> n])

Delete == Exists /\ log' = Deleted

Next == Create \/ Delete \/ \E n \in 1..MaxBatch : AppendBatch(n)

Spec == Init /\ [][Next]_log
=============================================================================
