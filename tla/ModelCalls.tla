------------------------------ MODULE ModelCalls ------------------------------
(***************************************************************************)
(* Calls of one process to its language model: a credential guard, a       *)
(* deadline, for remote providers a rate limiter, one client per response  *)
(* schema, a client library that retries on its own, and an endpoint that  *)
(* may not know structured output.  A check whose answer cannot be read    *)
(* asks once more, for a reformat of what was answered.                    *)
(***************************************************************************)
EXTENDS Naturals, FiniteSets

CONSTANTS
    Askers,
    Mode,                   \* "json_schema", "json_object" or "auto"
    Remote,                 \* whether calls pass the limiter
    Burst, Retries,         \* the limiter's burst; what the client library retries
    MaxAsks, MaxTicks       \* bounds on a behaviour

ModelAssumption == IsFiniteSet(Askers) /\ Burst \in Nat /\ Retries \in Nat

VARIABLES
    capable,                \* whether the endpoint accepts a schema
    refusing,               \* whether this process knows that it does not
    clients,                \* the schemas a client was built for
    tokens,                 \* what the limiter has left
    asking,                 \* the call each caller is in
    outcome,                \* how each caller's last call ended
    wire                    \* history: requests sent, refused, billed, recorded, ticks

modelVars == <<capable, refusing, clients, tokens, asking, outcome, wire>>

\* What is asked for: a pre-flight check, the reformat of its answer, a summary.
Asked == {"preflight", "summarize"}
ExtractParent(p) == IF p = "preflight-extract" THEN "preflight" ELSE p

\* What a model may write: exactly what was asked for, with prose around it or a
\* value in other letters, with a required text left empty, or something else.  Any
\* of them may quote a credential.
Answers == [text : {"exact", "loose", "blank", "other"}, secret : BOOLEAN]
Parses(a) == a.text \in {"exact", "loose"}
Validates(a) == a.text \in {"exact", "blank"}

NotAsking == [at |-> "idle"]
Ended(kind, requests) == [kind |-> kind, requests |-> requests]

ModelTypeOK ==
    /\ capable \in BOOLEAN /\ refusing \in BOOLEAN
    /\ clients \subseteq Asked /\ tokens \in 0 .. Burst
    /\ \A c \in Askers : asking[c].at \in {"idle", "guard", "limit", "route", "sent"}
    /\ \A c \in Askers : outcome[c].kind \in {"none", "answer", "error"}

ModelInit ==
    /\ capable \in BOOLEAN /\ refusing = FALSE
    /\ clients = {} /\ tokens = Burst
    /\ asking = [c \in Askers |-> NotAsking]
    /\ outcome = [c \in Askers |-> Ended("none", 0)]
    /\ wire = [calls |-> 0, sent |-> 0, refused |-> 0, billed |-> 0, recorded |-> 0, leaked |-> FALSE, ticks |-> 0]

-----------------------------------------------------------------------------
Request(p, secret, asked) ==
    [at |-> "guard", purpose |-> p, secret |-> secret, asked |-> asked, object |-> FALSE, tries |-> 0]
\* An operation asks; its prompt may hold what an entry holds.
Ask(c) ==
    /\ asking[c].at = "idle" /\ wire.calls < MaxAsks
    /\ \E p \in Asked, secret \in BOOLEAN : asking' = [asking EXCEPT ![c] = Request(p, secret, 1)]
    /\ wire' = [wire EXCEPT !.calls = @ + 1]
    /\ UNCHANGED <<capable, refusing, clients, tokens, outcome>>

\* The operation is over.
Finish(c, kind) ==
    /\ asking' = [asking EXCEPT ![c] = NotAsking]
    /\ outcome' = [outcome EXCEPT ![c] = Ended(kind, asking[c].asked)]

\* Mutant: only what an operation wrote is looked at.
RefusesFirst(r) == r.secret /\ r.asked = 1
Refuses(r) == r.secret
Guard(c) ==
    /\ asking[c].at = "guard"
    /\ IF Refuses(asking[c]) THEN Finish(c, "error")
       ELSE /\ asking' = [asking EXCEPT ![c].at = IF Remote THEN "limit" ELSE "route"]
            /\ UNCHANGED outcome
    /\ UNCHANGED <<capable, refusing, clients, tokens, wire>>

\* A call waits for its turn, or learns that its deadline comes first.
Wait(c) ==
    /\ asking[c].at = "limit" /\ tokens > 0
    /\ tokens' = tokens - 1
    /\ asking' = [asking EXCEPT ![c].at = "route"]
    /\ UNCHANGED <<capable, refusing, clients, outcome, wire>>
WaitTooLong(c) ==
    /\ asking[c].at = "limit" /\ tokens = 0
    /\ Finish(c, "error")
    /\ UNCHANGED <<capable, refusing, clients, tokens, wire>>
Refill ==
    /\ tokens < Burst /\ wire.ticks < MaxTicks
    /\ tokens' = tokens + 1 /\ wire' = [wire EXCEPT !.ticks = @ + 1]
    /\ UNCHANGED <<capable, refusing, clients, asking, outcome>>

-----------------------------------------------------------------------------
Sent(w, c) == [w EXCEPT !.sent = @ + 1, !.leaked = @ \/ asking[c].secret]
InForm(c, object) == [asking EXCEPT ![c].at = "sent", ![c].object = object, ![c].tries = 1]
InObjectMode(known) == Mode = "json_object" \/ (Mode = "auto" /\ known)

\* The purpose's client, built on its first use, sends the request in the form the
\* mode, and what is known of the endpoint, say.
Run(c) ==
    /\ asking[c].at = "route"
    /\ clients' = clients \cup {ExtractParent(asking[c].purpose)}
    /\ asking' = InForm(c, InObjectMode(refusing)) /\ wire' = Sent(wire, c)
    /\ UNCHANGED <<capable, refusing, tokens, outcome>>
NoClient(c) ==
    /\ asking[c].at = "route" /\ ExtractParent(asking[c].purpose) \notin clients
    /\ Finish(c, "error")
    /\ UNCHANGED <<capable, refusing, clients, tokens, wire>>

\* The request fails on its way: the library tries again, or the deadline or its
\* last try has passed.
Retry(c) ==
    /\ asking[c].at = "sent" /\ asking[c].tries <= Retries
    /\ asking' = [asking EXCEPT ![c].tries = @ + 1] /\ wire' = Sent(wire, c)
    /\ UNCHANGED <<capable, refusing, clients, tokens, outcome>>
Fault(c) ==
    /\ asking[c].at = "sent"
    /\ Finish(c, "error")
    /\ UNCHANGED <<capable, refusing, clients, tokens, wire>>

\* The endpoint declines the schema: in auto mode that is remembered, and the same
\* request goes out once more for any JSON object.
SchemaDeclined(c) == asking[c].at = "sent" /\ ~asking[c].object /\ ~capable
\* Mutant: nothing is remembered.
ForgetsRefusal(c) == UNCHANGED refusing
Remember(c) == refusing' = TRUE
FallBack(c) ==
    /\ SchemaDeclined(c) /\ Mode = "auto"
    /\ Remember(c)
    /\ asking' = InForm(c, TRUE)
    /\ wire' = Sent([wire EXCEPT !.refused = @ + 1], c)
    /\ UNCHANGED <<capable, clients, tokens, outcome>>
Declined(c) ==
    /\ SchemaDeclined(c)
    /\ wire' = [wire EXCEPT !.refused = @ + 1]
    /\ Finish(c, "error")
    /\ IF Mode = "auto" THEN Remember(c) ELSE UNCHANGED refusing
    /\ UNCHANGED <<capable, clients, tokens>>

\* A reply arrives: it is billed, and what it reports is recorded, whether it is
\* passed on or not.
Delivers(c) == asking[c].at = "sent" /\ (asking[c].object \/ capable)
RejectedReply(w) == [w EXCEPT !.recorded = @ + 1]
Billed(w) == [w EXCEPT !.billed = @ + 1]
Incomplete(c) ==
    /\ Delivers(c)
    /\ wire' = RejectedReply(Billed(wire))
    /\ Finish(c, "error")
    /\ UNCHANGED <<capable, refusing, clients, tokens>>

\* In object mode an answer that does not fit the schema is no result; its text, or
\* a text that cannot be read, goes back to the model once if a check asked.
Usable(c, a) == (asking[c].object => Validates(a)) /\ Parses(a)
Extractable(c) == asking[c].purpose = "preflight"
Answered(c) ==
    /\ Delivers(c)
    /\ \E a \in Answers :
        /\ wire' = IF asking[c].object /\ ~Validates(a) THEN RejectedReply(Billed(wire))
                   ELSE [Billed(wire) EXCEPT !.recorded = @ + 1]
        /\ IF Usable(c, a) THEN Finish(c, "answer")
           ELSE IF Extractable(c)
           THEN asking' = [asking EXCEPT ![c] = Request("preflight-extract", a.secret, 2)] /\ UNCHANGED outcome
           ELSE Finish(c, "error")
    /\ UNCHANGED <<capable, refusing, clients, tokens>>

ModelNext ==
    \/ \E c \in Askers :
        Ask(c) \/ Guard(c) \/ Wait(c) \/ WaitTooLong(c) \/ Run(c) \/ NoClient(c) \/ Retry(c)
        \/ Fault(c) \/ FallBack(c) \/ Declined(c) \/ Incomplete(c) \/ Answered(c)
    \/ Refill
ModelSpec == ModelInit /\ [][ModelNext]_modelVars

-----------------------------------------------------------------------------
\* Nothing that holds a credential reaches the provider, not even what the model
\* itself wrote into the answer that is to be reformatted (GuardRunner).
NothingLeaks == ~wire.leaked
\* In auto mode an endpoint that knows no schema is asked with one at most once by
\* every caller that was on its way when the first of them learned it.
RefusedOnce == Mode = "auto" => wire.refused <= Cardinality(Askers)
\* Every reply the provider billed is recorded with its usage, the cut, the empty
\* and the malformed among them.
BilledIsRecorded == wire.billed = wire.recorded
\* No operation asks more than twice, and no request of it is sent in more than the
\* two forms, each as often as the library retries.
SpendIsBounded ==
    /\ \A c \in Askers : outcome[c].requests <= 2
    /\ wire.sent <= 4 * (Retries + 1) * wire.calls

\* What decorate.go says of the limiter, and llm.go of a Runner.
StaysUnderLimit == Remote => wire.sent <= Burst + wire.ticks
NoInternalRetries == \A c \in Askers : asking[c].at = "sent" => asking[c].tries = 1
=============================================================================
