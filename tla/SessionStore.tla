---------------------------- MODULE SessionStore ----------------------------
(***************************************************************************)
(* FilesystemSessionStore: one session's JSONL file, used by several       *)
(* processes.  Every operation is a sequence of file system calls; a lock  *)
(* file (flock) makes read-check-write one unit.  Delete takes no lock.    *)
(*                                                                         *)
(* A process is one operation at a time: the store's mutex s.mu serialises *)
(* the operations of one process, flock those of different ones.  Session  *)
(* ids are random (newWorkflowSessionID), so one id is created at most     *)
(* once.  The location a log lies in is fixed at creation and not modelled *)
(* here (see StagedBlobs).                                                 *)
(***************************************************************************)
EXTENDS Naturals, Sequences

CONSTANTS
    Processes,        \* processes using the store
    MaxBatch,     \* the most events one append carries
    MaxFrames,    \* bound: lines ever written to the file
    MaxCuts,      \* bound: writes cut short by an error or a crash
    None, Gone    \* no file yet; the file was removed

VARIABLES
    file,         \* None, Gone, or the lines written so far
    lockGen,      \* how often the lock file has been removed: its identity
    calls,        \* per process: the running operation
    seen,         \* per process: the version it last observed, or None
    acked,        \* history: the lines whose append or creation was reported done
    created,      \* history: the session's one creation has begun
    cuts          \* history: writes cut short

vars == <<file, lockGen, calls, seen, acked, created, cuts>>

-----------------------------------------------------------------------------
(***************************************************************************)
(* The file.  A line as it lies on disk: "line" is complete, "bare" lacks  *)
(* only its newline, "torn" does not decode.                               *)
(***************************************************************************)
Endings == {"line", "bare", "torn"}

Lines == [version : Nat, first : Nat, events : 0..MaxBatch,
          by : Processes, ending : Endings]

Ops == {"create", "load", "append", "delete"}

\* What a line adds to the log.
Batches == [first : Nat, events : Nat]

ASSUME StoreAssumption ==
    /\ MaxBatch \in Nat \ {0}
    /\ MaxFrames \in Nat /\ MaxCuts \in Nat
    /\ None # Gone /\ None \notin Nat \cup Lines \cup Ops
    /\ {None, Gone} \cap (Seq(Lines) \cup Seq(Batches)) = {}

Present == file \notin {None, Gone}

\* The sequence number after a line.
After(line) == line.first + IF line.ending = "torn" THEN 0 ELSE line.events

\* The version of a log whose lines follow each other.
StoredVersion(lines) ==
    IF lines = << >> THEN 0 ELSE After(lines[Len(lines)])

\* decodeSessionLog: every line decodes, line versions and event sequences
\* run without a gap, and there is at least one line.  A line appended to a
\* bare one shares its line and does not decode.
Readable(lines) ==
    /\ lines # << >>
    /\ \A i \in 1..Len(lines) :
         /\ lines[i].ending = "line" \/ (lines[i].ending = "bare" /\ i = Len(lines))
         /\ lines[i].version = i
         /\ lines[i].first = IF i = 1 THEN 0 ELSE After(lines[i - 1])

-----------------------------------------------------------------------------
Phases == {"idle", "lock", "wait", "read", "open", "write", "rmlog", "rmlock"}

\* The operation a process runs: its position, the lock file it has opened,
\* whether it holds it, and the line it is about to write.
Calls == [at : Phases, op : Ops \cup {None}, lock : Nat, holds : BOOLEAN,
          events : 0..MaxBatch, line : Lines \cup {None}]

Idle == [at |-> "idle", op |-> None, lock |-> 0, holds |-> FALSE,
         events |-> 0, line |-> None]

TypeOK ==
    /\ file \in {None, Gone} \cup Seq(Lines)
    /\ lockGen \in Nat
    /\ calls \in [Processes -> Calls]
    /\ seen \in [Processes -> Nat \cup {None}]
    /\ acked \subseteq Lines
    /\ created \in BOOLEAN
    /\ cuts \in 0..MaxCuts

Init ==
    /\ file = None
    /\ lockGen = 0
    /\ calls = [p \in Processes |-> Idle]
    /\ seen = [p \in Processes |-> None]
    /\ acked = {}
    /\ created = FALSE
    /\ cuts = 0

At(p, phase) == calls[p].at = phase

Goto(p, phase) == calls' = [calls EXCEPT ![p].at = phase]

\* The operation returns; the deferred unlock runs.
Return(p) == calls' = [calls EXCEPT ![p] = Idle]

-----------------------------------------------------------------------------
(***************************************************************************)
(* Beginning an operation: locate finds the log, or the call returns not   *)
(* found and nothing has happened.                                         *)
(***************************************************************************)
Begin(p, op, events) ==
    /\ At(p, "idle")
    /\ calls' = [calls EXCEPT ![p] = [Idle EXCEPT !.op = op, !.events = events,
                    !.at = IF op = "delete" THEN "rmlog" ELSE "lock"]]
    /\ UNCHANGED <<file, lockGen, seen, acked, cuts>>

BeginCreate(p) ==
    /\ ~created /\ created' = TRUE
    /\ Begin(p, "create", 0)

BeginLoad(p) == Present /\ Begin(p, "load", 0) /\ UNCHANGED created

BeginAppend(p) ==
    /\ Present /\ seen[p] # None
    /\ \E n \in 1..MaxBatch : Begin(p, "append", n)
    /\ UNCHANGED created

\* Only a session its caller has listed is deleted.
BeginDelete(p) ==
    /\ Present /\ seen[p] # None
    /\ Begin(p, "delete", 0)
    /\ UNCHANGED created

\* lockSession opens (or makes) the lock file, then waits for it.
OpenLock(p) ==
    /\ At(p, "lock")
    /\ calls' = [calls EXCEPT ![p].at = "wait", ![p].lock = lockGen]
    /\ UNCHANGED <<file, lockGen, seen, acked, created, cuts>>

\* Mutant: the lock does not exclude.
TakeLockShared(p) ==
    /\ At(p, "wait")
    /\ calls' = [calls EXCEPT ![p].holds = TRUE,
                    ![p].at = IF calls[p].op = "create" THEN "open" ELSE "read"]
    /\ UNCHANGED <<file, lockGen, seen, acked, created, cuts>>

TakeLock(p) ==
    /\ At(p, "wait")
    /\ \A q \in Processes : ~(calls[q].holds /\ calls[q].lock = calls[p].lock)
    /\ calls' = [calls EXCEPT ![p].holds = TRUE,
                    ![p].at = IF calls[p].op = "create" THEN "open" ELSE "read"]
    /\ UNCHANGED <<file, lockGen, seen, acked, created, cuts>>

\* Mutant: the version is not compared with the log's.
ReadLogUnchecked(p) ==
    /\ At(p, "read")
    /\ LET ok == Present /\ Readable(file)
       IN  IF ok /\ calls[p].op = "append"
           THEN /\ calls' = [calls EXCEPT ![p].at = "open",
                       ![p].line = [version |-> Len(file) + 1, first |-> seen[p],
                                    events |-> calls[p].events, by |-> p,
                                    ending |-> "line"]]
                /\ UNCHANGED seen
           ELSE /\ Return(p)
                /\ seen' = [seen EXCEPT ![p] = IF ok THEN StoredVersion(file) ELSE None]
    /\ UNCHANGED <<file, lockGen, acked, created, cuts>>

\* readSessionLog and the version check of Append.  A missing or unreadable
\* log and a version conflict end the operation.
ReadLog(p) ==
    /\ At(p, "read")
    /\ LET ok == Present /\ Readable(file)
           version == StoredVersion(file)
       IN  IF ok /\ calls[p].op = "append" /\ version = seen[p]
           THEN /\ calls' = [calls EXCEPT ![p].at = "open",
                       ![p].line = [version |-> Len(file) + 1, first |-> version,
                                    events |-> calls[p].events, by |-> p,
                                    ending |-> "line"]]
                /\ UNCHANGED seen
           ELSE /\ Return(p)
                /\ seen' = [seen EXCEPT ![p] = IF ok THEN version ELSE None]
    /\ UNCHANGED <<file, lockGen, acked, created, cuts>>

\* Append opens what is there; Create makes the file, exclusively.
OpenLog(p) ==
    /\ At(p, "open")
    /\ IF calls[p].op = "create"
       THEN /\ file = None
            /\ file' = << >>
            /\ calls' = [calls EXCEPT ![p].at = "write",
                   ![p].line = [version |-> 1, first |-> 0, events |-> 0,
                                by |-> p, ending |-> "line"]]
       ELSE /\ IF Present THEN Goto(p, "write") ELSE Return(p)
            /\ UNCHANGED file
    /\ UNCHANGED <<lockGen, seen, acked, created, cuts>>

\* What lands in a file that was removed meanwhile is gone with it.
Landed(line) == IF Present THEN Append(file, line) ELSE file

\* writeSessionLine and the operation's return.
WriteLine(p) ==
    /\ At(p, "write")
    /\ Present => Len(file) < MaxFrames
    /\ file' = Landed(calls[p].line)
    /\ acked' = acked \cup {calls[p].line}
    /\ seen' = [seen EXCEPT ![p] = calls[p].line.first + calls[p].line.events]
    /\ Return(p)
    /\ UNCHANGED <<lockGen, created, cuts>>

\* The disk is full, the sync fails or the process dies during the write:
\* any part of the line may have landed, and no one is told that it has.
WriteCut(p) ==
    /\ At(p, "write")
    /\ cuts < MaxCuts /\ cuts' = cuts + 1
    /\ Present => Len(file) < MaxFrames
    /\ \/ UNCHANGED file
       \/ \E ending \in Endings :
            file' = Landed([calls[p].line EXCEPT !.ending = ending])
    /\ seen' = [seen EXCEPT ![p] = None]
    /\ Return(p)
    /\ UNCHANGED <<lockGen, acked, created>>

\* The process dies elsewhere; the kernel releases its lock.
Crash(p) ==
    /\ ~At(p, "idle") /\ ~At(p, "write")
    /\ Return(p)
    /\ seen' = [seen EXCEPT ![p] = None]
    /\ UNCHANGED <<file, lockGen, acked, created, cuts>>

RemoveLog(p) ==
    /\ At(p, "rmlog")
    /\ file' = Gone
    /\ Goto(p, "rmlock")
    /\ UNCHANGED <<lockGen, seen, acked, created, cuts>>

RemoveLock(p) ==
    /\ At(p, "rmlock")
    /\ lockGen' = lockGen + 1
    /\ Return(p)
    /\ UNCHANGED <<file, seen, acked, created, cuts>>

Next == \E p \in Processes :
    \/ BeginCreate(p) \/ BeginLoad(p) \/ BeginAppend(p) \/ BeginDelete(p)
    \/ OpenLock(p) \/ TakeLock(p) \/ ReadLog(p) \/ OpenLog(p)
    \/ WriteLine(p) \/ WriteCut(p) \/ Crash(p)
    \/ RemoveLog(p) \/ RemoveLock(p)

Spec == Init /\ [][Next]_vars

-----------------------------------------------------------------------------
(***************************************************************************)
(* Properties.                                                             *)
(***************************************************************************)
\* The batches a reader finds: a torn line adds nothing, and the first line
\* only holds the metadata.
Decoded ==
    LET n == IF file # << >> /\ file[Len(file)].ending = "torn"
             THEN Len(file) - 1 ELSE Len(file)
    IN  IF n = 0 THEN None
        ELSE [i \in 1..(n - 1) |->
                [first |-> file[i + 1].first, events |-> file[i + 1].events]]

Promise == INSTANCE SessionLog WITH
    Absent <- None, Deleted <- Gone,
    log <- IF Present THEN Decoded ELSE file

\* A line whose append was reported done is where it was put, until the
\* session is deleted: no other writer's line took its place.
AcknowledgedKept ==
    Present => \A a \in acked : a.version \in 1..Len(file) /\ file[a.version] = a

\* Only a write cut short makes a log unreadable; no interleaving of
\* writers does.  (An empty file is a creation about to write.)
ReadableUnlessCut ==
    Present /\ cuts = 0 =>
        Readable(file) \/ (file = << >> /\ \E p \in Processes : At(p, "write"))

\* A line whose append was reported done stays where it was put, and only a
\* write cut short makes the log unreadable (session_store.go).
LogKept == AcknowledgedKept /\ ReadableUnlessCut

\* Every change of the file is an append that lands whole at the version it
\* was computed on, whatever processes read, wait, die and delete in between
\* (session_store.go:163-227).
ImplementsSessionLog == Promise!Spec

\* d-tac-ln1's closing signal calls the store crash-safe, and the session
\* model demands that a dialogue survives a process that dies: what was
\* acknowledged can still be loaded.
AcknowledgedLoads == Present /\ acked # {} => Readable(file)
=============================================================================
