--------------------------- MODULE MutationProtocol ---------------------------
(***************************************************************************)
(* What recording operations ahead of their effects promises (internal/    *)
(* engine/mutation.go): operations are begun one at a time and each is     *)
(* resolved once, as done or as cancelled; an effect belongs to an         *)
(* operation that was begun, happens at most once, and is there when its   *)
(* operation is reported done.  A cancelled operation promises nothing     *)
(* about its effect: an attempt under way may still make it.               *)
(***************************************************************************)
EXTENDS Naturals

CONSTANT MaxOps    \* bound: operations begun

VARIABLES
    ops,           \* how each operation stands
    applied        \* the operations whose effect exists

Ops == 1 .. MaxOps
OpStates == {"none", "pending", "done", "cancelled"}

Init == ops = [r \in Ops |-> "none"] /\ applied = {}

\* The next operation begins when no earlier one is unresolved.
Begin(r) ==
    /\ ops[r] = "none"
    /\ \A q \in Ops : q < r => ops[q] \in {"done", "cancelled"}
    /\ ops' = [ops EXCEPT ![r] = "pending"]
    /\ UNCHANGED applied

Take(r) ==
    /\ ops[r] \in {"pending", "cancelled"} /\ r \notin applied
    /\ applied' = applied \cup {r}
    /\ UNCHANGED ops

Complete(r) ==
    /\ ops[r] = "pending" /\ r \in applied
    /\ ops' = [ops EXCEPT ![r] = "done"]
    /\ UNCHANGED applied

Cancel(r) ==
    /\ ops[r] = "pending"
    /\ ops' = [ops EXCEPT ![r] = "cancelled"]
    /\ UNCHANGED applied

Next == \E r \in Ops : Begin(r) \/ Take(r) \/ Complete(r) \/ Cancel(r)

Spec == Init /\ [][Next]_<<ops, applied>>
=============================================================================
