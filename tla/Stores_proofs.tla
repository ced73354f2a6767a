---------------------------- MODULE Stores_proofs ----------------------------
(***************************************************************************)
(* Proofs about SessionStore, for any number of processes, batches and     *)
(* cut writes: acknowledged lines stay, only a cut write makes the log     *)
(* unreadable, and the file implements the compare-and-swap log            *)
(* SessionLog.  They are followed by what the runs of MCStores check of    *)
(* the other stores, each proved of its instance from the invariant that   *)
(* its module of proofs has for every value of the constants.              *)
(***************************************************************************)
EXTENDS MCStores, SequenceTheorems, TLAPS

(***************************************************************************)
(* The inductive invariant.  A lock file is removed only after the log, so *)
(* as long as there is a log all processes open the same lock file, and    *)
(* its holder is the only one that reads, compares and writes.             *)
(***************************************************************************)
Locked ==
    /\ lockGen > 0 => file = Gone
    /\ \A p \in Processes :
        /\ calls[p].lock <= lockGen
        /\ calls[p].holds <=> calls[p].at \in {"read", "open", "write"}
        /\ calls[p].at = "rmlock" => file = Gone
    /\ \A p, q \in Processes :
        calls[p].holds /\ calls[q].holds /\ calls[p].lock = calls[q].lock => p = q

\* Before the log is created nothing but its creation is under way.
Uncreated ==
    file = None =>
        /\ acked = {}
        /\ \A p \in Processes : /\ seen[p] = None /\ calls[p].op \in {"create", None}
                                /\ calls[p].at \notin {"write", "rmlog"}

Writing(p) == calls[p].at = "write" \/ (calls[p].at = "open" /\ calls[p].op = "append")

\* What a process is about to write is computed on the log it writes to.
Current(p) ==
    LET c == calls[p]
    IN  /\ c.at \in {"lock", "wait"} => c.op \in {"create", "load", "append"}
        /\ c.at = "read" => c.op \in {"load", "append"}
        /\ c.at \in {"open", "write"} => c.op \in {"create", "append"}
        /\ c.op = "append" => c.events \in 1..MaxBatch
        /\ Writing(p) => /\ c.line \in Lines /\ c.line.ending = "line"
                         /\ Present => /\ c.line.version = Len(file) + 1
                                       /\ c.line.first = StoredVersion(file)
        /\ Writing(p) /\ c.op = "append" =>
              c.line.events \in 1..MaxBatch /\ (Present => Readable(file))
        /\ Writing(p) /\ c.op = "create" =>
              c.line.events = 0 /\ (Present => file = << >>)

\* The first line only holds the metadata; who has seen a version, or removes
\* the log, has seen that line.
Headed ==
    Present =>
        /\ file # << >> => file[1].first = 0 /\ file[1].events = 0
        /\ \A p \in Processes : seen[p] # None \/ calls[p].at = "rmlog" =>
                                    file # << >> /\ file[1].ending # "torn"

\* Without a cut write every line is whole.
Whole ==
    Present /\ cuts = 0 =>
        /\ \A i \in 1..Len(file) : file[i].ending = "line"
        /\ IF file = << >> THEN \E p \in Processes : calls[p].at = "write"
                           ELSE Readable(file)

StoreInv ==
    /\ TypeOK /\ Locked /\ Uncreated /\ Headed /\ Whole /\ AcknowledgedKept
    /\ \A p \in Processes : Current(p)

-----------------------------------------------------------------------------
(***************************************************************************)
(* Facts about logs.                                                       *)
(***************************************************************************)
LEMMA LogOrNothing ==
    ASSUME TypeOK
    PROVE  /\ Present <=> file \in Seq(Lines)
           /\ None \notin Seq(Lines) /\ Gone \notin Seq(Lines) /\ None # Gone
           /\ << >> \in Seq(Lines)
  BY StoreAssumption, EmptySeq DEF TypeOK, Present

LEMMA VersionIsNumber == \A s \in Seq(Lines) : StoredVersion(s) \in Nat
  <1> SUFFICES ASSUME NEW s \in Seq(Lines), s # << >> PROVE StoredVersion(s) \in Nat
    BY DEF StoredVersion
  <1>1. Len(s) \in 1..Len(s) /\ s[Len(s)] \in Lines
    BY EmptySeq, ElementOfSeq
  <1> QED
    BY <1>1, StoreAssumption DEF StoredVersion, After, Lines

LEMMA Appended ==
    ASSUME NEW s \in Seq(Lines), NEW l \in Lines
    PROVE  /\ Append(s, l) \in Seq(Lines) /\ Append(s, l) # << >>
           /\ Len(s) \in Nat /\ Len(Append(s, l)) = Len(s) + 1
           /\ Append(s, l)[Len(s) + 1] = l
           /\ \A i \in 1..Len(s) : Append(s, l)[i] = s[i]
  BY AppendProperties, LenProperties, EmptySeq

\* A whole line that follows on a log of whole lines keeps it readable.
LEMMA ReadableAppend ==
    ASSUME NEW s \in Seq(Lines), NEW l \in Lines, s # << >> => Readable(s),
           \A i \in 1..Len(s) : s[i].ending = "line",
           l.ending = "line", l.version = Len(s) + 1, l.first = StoredVersion(s)
    PROVE  Readable(Append(s, l))
  <1> DEFINE t == Append(s, l)
  <1>1. /\ t # << >> /\ Len(s) \in Nat /\ Len(t) = Len(s) + 1 /\ t[Len(s) + 1] = l
        /\ \A i \in 1..Len(s) : t[i] = s[i]
    BY Appended
  <1>2. s = << >> <=> Len(s) = 0
    BY EmptySeq
  <1> HIDE DEF t
  <1>3. ASSUME NEW i \in 1..Len(t)
        PROVE  /\ t[i].ending = "line" /\ t[i].version = i
               /\ t[i].first = IF i = 1 THEN 0 ELSE After(t[i - 1])
    <2>1. CASE i \in 1..Len(s)
      <3>1. t[i] = s[i] /\ (i # 1 => i - 1 \in 1..Len(s) /\ t[i - 1] = s[i - 1])
        BY <1>1, <2>1
      <3> QED
        BY <1>1, <1>2, <2>1, <3>1 DEF Readable
    <2>2. CASE i = Len(s) + 1 /\ s # << >>
      <3>1. t[i - 1] = s[Len(s)] /\ i # 1
        BY <1>1, <1>2, <2>2
      <3> QED
        BY <1>1, <2>2, <3>1 DEF StoredVersion
    <2>3. CASE i = Len(s) + 1 /\ s = << >>
      BY <1>1, <1>2, <2>3 DEF StoredVersion
    <2> QED
      BY <1>1, <2>1, <2>2, <2>3
  <1> QED
    BY <1>1, <1>3 DEF Readable, t

-----------------------------------------------------------------------------
(***************************************************************************)
(* The lock.                                                               *)
(***************************************************************************)
\* As long as the log is not removed there is one lock file, and its holder is
\* alone.
LEMMA OneHolder ==
    ASSUME TypeOK, Locked, file # Gone, NEW p \in Processes, NEW q \in Processes, p # q,
           calls[p].at \in {"read", "open", "write"}
    PROVE  calls[q].at \notin {"read", "open", "write"}
  <1>1. calls[p] \in Calls /\ calls[q] \in Calls /\ lockGen = 0
    BY DEF TypeOK, Locked
  <1>2. calls[p].lock = 0 /\ calls[q].lock = 0
    BY <1>1 DEF Locked, Calls
  <1> QED
    BY <1>2 DEF Locked

\* A step that leaves the file alone changes one process and what it has seen.
Quiet(p, c, ver) ==
    /\ UNCHANGED <<file, lockGen, acked>> /\ created' \in BOOLEAN
    /\ cuts' \in 0..MaxCuts
    /\ cuts' = 0 => cuts = 0 /\ (calls[p].at = "write" => c.at = "write")
    /\ calls' = [calls EXCEPT ![p] = c] /\ seen' = [seen EXCEPT ![p] = ver]
    /\ c \in Calls /\ ver \in Nat \cup {None}
    /\ c.lock <= lockGen
    /\ c.holds <=> c.at \in {"read", "open", "write"}
    /\ c.holds => \A q \in Processes \ {p} : ~(calls[q].holds /\ calls[q].lock = c.lock)
    /\ c.at # "rmlock"
    /\ file = None => ver = None /\ c.op \in {"create", None} /\ c.at \notin {"write", "rmlog"}
    /\ Present /\ (ver # None \/ c.at = "rmlog") => file # << >> /\ file[1].ending # "torn"

LEMMA QuietKeeps ==
    ASSUME StoreInv, NEW p \in Processes, NEW c, NEW ver, Quiet(p, c, ver), Current(p)'
    PROVE  StoreInv'
  <1>1. calls'[p] = c /\ seen'[p] = ver
    BY DEF Quiet, StoreInv, TypeOK
  <1>2. \A q \in Processes \ {p} : calls'[q] = calls[q] /\ seen'[q] = seen[q]
    BY DEF Quiet, StoreInv, TypeOK
  <1>3. TypeOK'
    BY StoreAssumption DEF Quiet, StoreInv, TypeOK
  <1>4. Locked'
    <2>1. lockGen' > 0 => file' = Gone
      BY DEF StoreInv, Locked, Quiet
    <2>2. ASSUME NEW q \in Processes
          PROVE  /\ calls'[q].lock <= lockGen'
                 /\ calls'[q].holds <=> calls'[q].at \in {"read", "open", "write"}
                 /\ calls'[q].at = "rmlock" => file' = Gone
      <3>1. CASE q = p
        BY <1>1, <3>1 DEF Quiet
      <3>2. CASE q # p
        BY <1>2, <3>2 DEF Quiet, StoreInv, Locked
      <3> QED
        BY <3>1, <3>2
    <2>3. ASSUME NEW q \in Processes, NEW r \in Processes,
                 calls'[q].holds, calls'[r].holds, calls'[q].lock = calls'[r].lock
          PROVE  q = r
      <3>1. CASE q = p \/ r = p
        BY <1>1, <1>2, <2>3, <3>1 DEF Quiet
      <3>2. CASE q # p /\ r # p
        BY <1>2, <2>3, <3>2 DEF StoreInv, Locked
      <3> QED
        BY <3>1, <3>2
    <2> QED
      BY <2>1, <2>2, <2>3 DEF Locked
  <1>5. Uncreated'
    BY <1>1, <1>2 DEF Quiet, StoreInv, Uncreated
  <1>6. Headed'
    BY <1>1, <1>2 DEF Quiet, StoreInv, Headed, Present
  <1>7. Whole'
    BY <1>1, <1>2 DEF Quiet, StoreInv, Whole, Present
  <1>8. AcknowledgedKept'
    BY DEF Quiet, StoreInv, AcknowledgedKept, Present
  <1>9. ASSUME NEW q \in Processes PROVE Current(q)'
    <2>1. CASE q # p
      BY <1>2, <2>1 DEF Quiet, StoreInv, Current, Writing, Present
    <2> QED
      BY <2>1
  <1> QED
    BY <1>3, <1>4, <1>5, <1>6, <1>7, <1>8, <1>9 DEF StoreInv
-----------------------------------------------------------------------------
(***************************************************************************)
(* The steps that leave the file alone.                                    *)
(***************************************************************************)
LEMMA IdleIsACall == Idle \in Calls
  BY StoreAssumption DEF Idle, Calls, Phases

LEMMA BeginKeeps ==
    ASSUME StoreInv, NEW p \in Processes, NEW op \in Ops, NEW n \in 0..MaxBatch,
           Begin(p, op, n), created' \in BOOLEAN, op # "create" => Present,
           op = "append" => n \in 1..MaxBatch, op = "delete" => seen[p] # None
    PROVE  StoreInv'
  <1> DEFINE c == [Idle EXCEPT !.op = op, !.events = n,
                               !.at = IF op = "delete" THEN "rmlog" ELSE "lock"]
  <1>1. /\ c \in Calls /\ c.op = op /\ c.events = n /\ c.lock = 0 /\ ~c.holds
        /\ c.at = IF op = "delete" THEN "rmlog" ELSE "lock"
    BY IdleIsACall DEF Idle, Calls, Phases, Ops
  <1>2. /\ calls' = [calls EXCEPT ![p] = c] /\ calls[p].at = "idle"
        /\ UNCHANGED <<file, lockGen, seen, acked, cuts>> /\ cuts \in 0..MaxCuts
    BY DEF Begin, At, StoreInv, TypeOK
  <1> HIDE DEF c
  <1>3. /\ seen[p] \in Nat \cup {None} /\ seen' = [seen EXCEPT ![p] = seen[p]]
        /\ lockGen \in Nat /\ calls'[p] = c
    BY <1>2 DEF StoreInv, TypeOK, Begin
  <1>4. Quiet(p, c, seen[p])
    <2>1. file = None => seen[p] = None /\ op = "create"
      BY DEF StoreInv, Uncreated, Present
    <2>2. Present /\ (seen[p] # None \/ c.at = "rmlog") => file # << >> /\ file[1].ending # "torn"
      BY <1>1 DEF StoreInv, Headed
    <2>3. /\ c.lock <= lockGen /\ ~c.holds /\ c.at \in {"lock", "rmlog"}
          /\ file = None => c.op = "create" /\ c.at = "lock"
      BY <1>1, <1>3, <2>1
    <2> QED
      BY ONLY <1>1, <1>2, <1>3, <2>1, <2>2, <2>3, created' \in BOOLEAN DEF Quiet
  <1>5. Current(p)'
    BY <1>1, <1>3 DEF Current, Writing, Ops
  <1> QED
    BY <1>4, <1>5, QuietKeeps

LEMMA OpenLockKeeps ==
    ASSUME StoreInv, NEW p \in Processes, OpenLock(p)
    PROVE  StoreInv'
  <1> DEFINE c == [calls[p] EXCEPT !.at = "wait", !.lock = lockGen]
  <1>0. /\ calls[p] \in Calls /\ calls[p].at = "lock" /\ lockGen \in Nat
        /\ seen[p] \in Nat \cup {None}
    BY DEF StoreInv, TypeOK, OpenLock, At
  <1>1. /\ c \in Calls /\ c.op = calls[p].op /\ c.events = calls[p].events
        /\ c.lock = lockGen /\ c.at = "wait" /\ ~c.holds
    <2>1. ~calls[p].holds
      BY <1>0 DEF StoreInv, Locked
    <2> QED
      BY <1>0, <2>1 DEF Calls, Phases
  <1>2. calls' = [calls EXCEPT ![p] = c] /\ seen' = [seen EXCEPT ![p] = seen[p]]
        /\ calls'[p] = c /\ created' \in BOOLEAN
    BY DEF StoreInv, TypeOK, OpenLock
  <1> HIDE DEF c
  <1>3. Quiet(p, c, seen[p])
    <2>1. UNCHANGED <<file, lockGen, acked, cuts>> /\ cuts \in 0..MaxCuts
      BY DEF OpenLock, StoreInv, TypeOK
    <2> QED
      BY <1>0, <1>1, <1>2, <2>1 DEF Quiet, StoreInv, Uncreated, Headed
  <1>4. Current(p)'
    BY <1>0, <1>1, <1>2 DEF StoreInv, Current, Writing
  <1> QED
    BY <1>3, <1>4, QuietKeeps

LEMMA TakeLockKeeps ==
    ASSUME StoreInv, NEW p \in Processes, TakeLock(p)
    PROVE  StoreInv'
  <1> DEFINE c == [calls[p] EXCEPT !.holds = TRUE,
                      !.at = IF calls[p].op = "create" THEN "open" ELSE "read"]
  <1>1. /\ c \in Calls /\ c.op = calls[p].op /\ c.events = calls[p].events
        /\ c.lock = calls[p].lock /\ c.holds
        /\ c.at = IF calls[p].op = "create" THEN "open" ELSE "read"
        /\ calls[p].at = "wait" /\ calls[p].lock <= lockGen
        /\ seen[p] \in Nat \cup {None} /\ cuts \in 0..MaxCuts
    BY DEF StoreInv, TypeOK, Calls, Phases, TakeLock, At, Locked
  <1>2. calls' = [calls EXCEPT ![p] = c] /\ seen' = [seen EXCEPT ![p] = seen[p]]
        /\ calls'[p] = c /\ created' \in BOOLEAN
    BY DEF StoreInv, TypeOK, TakeLock
  <1> HIDE DEF c
  <1>3. Quiet(p, c, seen[p])
    BY <1>1, <1>2 DEF Quiet, TakeLock, StoreInv, Uncreated, Headed
  <1>4. Current(p)'
    BY <1>1, <1>2 DEF StoreInv, Current, Writing
  <1> QED
    BY <1>3, <1>4, QuietKeeps

\* An operation returns without a change of the file.
LEMMA ReturnKeeps ==
    ASSUME StoreInv, NEW p \in Processes, NEW ver \in Nat \cup {None}, Return(p),
           UNCHANGED <<file, lockGen, acked, created>>,
           cuts' \in 0..MaxCuts, cuts' = 0 => cuts = 0 /\ calls[p].at # "write",
           seen' = [seen EXCEPT ![p] = ver],
           ver # None => file # None /\ (Present => file # << >> /\ file[1].ending # "torn")
    PROVE  StoreInv'
  <1>1. /\ Idle \in Calls /\ Idle.at = "idle" /\ Idle.op = None /\ Idle.lock = 0
        /\ Idle.holds = FALSE /\ None \notin {"append", "create"}
        /\ calls' = [calls EXCEPT ![p] = Idle] /\ calls'[p] = Idle
        /\ lockGen \in Nat /\ created \in BOOLEAN
    BY IdleIsACall, StoreAssumption DEF Idle, StoreInv, TypeOK, Return, Ops
  <1>2. Quiet(p, Idle, ver)
    BY <1>1 DEF Quiet, Present
  <1>3. Current(p)'
    BY <1>1 DEF Current, Writing
  <1> QED
    BY <1>2, <1>3, QuietKeeps
LEMMA ReadLogKeeps ==
    ASSUME StoreInv, NEW p \in Processes, ReadLog(p)
    PROVE  StoreInv'
  <1> DEFINE ok == Present /\ Readable(file)
             version == StoredVersion(file)
             line == [version |-> Len(file) + 1, first |-> version,
                      events |-> calls[p].events, by |-> p, ending |-> "line"]
             c == [calls[p] EXCEPT !.at = "open", !.line = line]
             ver == IF ok THEN version ELSE None
  <1>1. /\ calls[p].at = "read" /\ calls[p] \in Calls /\ calls[p].op \in {"load", "append"}
        /\ cuts \in 0..MaxCuts /\ created \in BOOLEAN /\ seen[p] \in Nat \cup {None}
        /\ calls[p].holds /\ calls[p].lock <= lockGen
    BY DEF ReadLog, At, StoreInv, TypeOK, Current, Locked
  <1>2. UNCHANGED <<file, lockGen, acked, created, cuts>>
    BY DEF ReadLog
  <1>3. ok => version \in Nat /\ Len(file) \in Nat /\ file # << >> /\ file[1].ending # "torn"
    <2> SUFFICES ASSUME ok PROVE version \in Nat /\ Len(file) \in Nat /\ file # << >>
                                 /\ file[1].ending # "torn"
      OBVIOUS
    <2>1. file \in Seq(Lines) /\ file # << >>
      BY LogOrNothing DEF StoreInv, Readable
    <2>2. Len(file) \in Nat \ {0} /\ 1 \in 1..Len(file)
      BY <2>1, EmptySeq
    <2> QED
      BY <2>1, <2>2, VersionIsNumber DEF Readable
  <1>4. CASE ok /\ calls[p].op = "append" /\ version = seen[p]
    <2>1. calls' = [calls EXCEPT ![p] = c] /\ seen' = [seen EXCEPT ![p] = seen[p]]
      BY <1>4 DEF ReadLog, StoreInv, TypeOK
    <2>2. /\ line \in Lines /\ line.ending = "line" /\ line.version = Len(file) + 1
          /\ line.first = version /\ line.events = calls[p].events
      BY <1>1, <1>3, <1>4 DEF Lines, Endings, Calls
    <2> HIDE DEF line
    <2>3. /\ c \in Calls /\ c.op = "append" /\ c.events = calls[p].events /\ c.holds
          /\ c.lock = calls[p].lock /\ c.at = "open" /\ c.line = line
      BY <1>1, <1>4, <2>2 DEF Calls, Phases
    <2>4. calls'[p] = c /\ calls[p].events \in 1..MaxBatch
      BY <1>1, <1>4, <2>1 DEF StoreInv, TypeOK, Current
    <2> HIDE DEF c
    <2>5. \A q \in Processes \ {p} : ~(calls[q].holds /\ calls[q].lock = c.lock)
      BY <1>1, <2>3 DEF StoreInv, Locked
    <2>6. Quiet(p, c, seen[p])
      BY <1>1, <1>2, <1>3, <1>4, <2>1, <2>3, <2>5 DEF Quiet, Present
    <2>7. Current(p)'
      BY <1>2, <1>4, <2>2, <2>3, <2>4 DEF Current, Writing, Present
    <2> QED
      BY <2>6, <2>7, QuietKeeps
  <1>5. CASE ~(ok /\ calls[p].op = "append" /\ version = seen[p])
    <2>1. Return(p) /\ seen' = [seen EXCEPT ![p] = ver]
      BY <1>5 DEF ReadLog
    <2>2. ver \in Nat \cup {None} /\ (ver # None => ok)
      BY <1>3
    <2>3. ok => file # None
      BY DEF Present
    <2> HIDE DEF ver
    <2> QED
      BY <1>1, <1>2, <1>3, <2>1, <2>2, <2>3, ReturnKeeps
  <1> QED
    BY <1>4, <1>5

\* Append opens what is there.
LEMMA OpenLogKeeps ==
    ASSUME StoreInv, NEW p \in Processes, OpenLog(p), calls[p].op # "create"
    PROVE  StoreInv'
  <1>1. /\ calls[p].at = "open" /\ calls[p] \in Calls /\ calls[p].op = "append"
        /\ cuts \in 0..MaxCuts /\ created \in BOOLEAN /\ seen[p] \in Nat \cup {None}
        /\ calls[p].holds /\ calls[p].lock <= lockGen
    BY DEF OpenLog, At, StoreInv, TypeOK, Current, Locked
  <1>2. UNCHANGED <<file, lockGen, seen, acked, created, cuts>>
    BY DEF OpenLog
  <1>3. seen' = [seen EXCEPT ![p] = seen[p]]
    BY <1>2 DEF StoreInv, TypeOK
  <1>4. seen[p] # None => file # None
    BY DEF StoreInv, Uncreated
  <1>5. Present /\ seen[p] # None => file # << >> /\ file[1].ending # "torn"
    BY DEF StoreInv, Headed
  <1>6. CASE Present
    <2> DEFINE c == [calls[p] EXCEPT !.at = "write"]
    <2>1. /\ c \in Calls /\ c.op = "append" /\ c.events = calls[p].events /\ c.holds
          /\ c.lock = calls[p].lock /\ c.at = "write" /\ c.line = calls[p].line
      BY <1>1 DEF Calls, Phases
    <2>2. calls' = [calls EXCEPT ![p] = c] /\ calls'[p] = c
      BY <1>1, <1>6 DEF OpenLog, Goto, StoreInv, TypeOK
    <2> HIDE DEF c
    <2>3. \A q \in Processes \ {p} : ~(calls[q].holds /\ calls[q].lock = c.lock)
      BY <1>1, <2>1 DEF StoreInv, Locked
    <2>4. Quiet(p, c, seen[p])
      BY <1>1, <1>2, <1>3, <1>5, <1>6, <2>1, <2>2, <2>3 DEF Quiet, Present
    <2>5. Current(p)'
      BY <1>1, <1>2, <2>1, <2>2 DEF StoreInv, Current, Writing, Present
    <2> QED
      BY <2>4, <2>5, QuietKeeps
  <1>7. CASE ~Present
    <2>1. Return(p)
      BY <1>1, <1>7 DEF OpenLog
    <2> QED
      BY <1>1, <1>2, <1>3, <1>4, <1>5, <2>1, ReturnKeeps
  <1> QED
    BY <1>6, <1>7

LEMMA CrashKeeps ==
    ASSUME StoreInv, NEW p \in Processes, Crash(p)
    PROVE  StoreInv'
  <1>1. cuts \in 0..MaxCuts /\ calls[p].at # "write"
    BY DEF StoreInv, TypeOK, Crash, At
  <1> QED
    BY <1>1, ReturnKeeps DEF Crash
-----------------------------------------------------------------------------
(***************************************************************************)
(* The steps that change the file.                                         *)
(***************************************************************************)
LEMMA CreateKeeps ==
    ASSUME StoreInv, NEW p \in Processes, OpenLog(p), calls[p].op = "create"
    PROVE  StoreInv'
  <1> DEFINE line == [version |-> 1, first |-> 0, events |-> 0, by |-> p, ending |-> "line"]
             c == [calls[p] EXCEPT !.at = "write", !.line = line]
  <1>1. /\ calls[p].at = "open" /\ calls[p] \in Calls /\ file = None /\ file' = << >>
        /\ UNCHANGED <<lockGen, seen, acked, created, cuts>>
        /\ calls' = [calls EXCEPT ![p] = c] /\ calls'[p] = c
        /\ \A q \in Processes \ {p} : calls'[q] = calls[q]
    BY DEF OpenLog, At, StoreInv, TypeOK
  <1>2. /\ line \in Lines /\ line.ending = "line" /\ line.version = 1 /\ line.first = 0
        /\ line.events = 0
    BY StoreAssumption DEF Lines, Endings
  <1> HIDE DEF line
  <1>3. /\ c \in Calls /\ c.op = "create" /\ c.at = "write" /\ c.line = line
        /\ (c.holds <=> calls[p].holds) /\ c.lock = calls[p].lock
    BY <1>1, <1>2 DEF Calls, Phases
  <1> HIDE DEF c
  <1>4. /\ << >> \in Seq(Lines) /\ << >> \notin {None, Gone} /\ Len(<< >>) = 0
        /\ None # Gone
    BY LogOrNothing, EmptySeq DEF StoreInv
  <1>5. TypeOK'
    BY <1>1, <1>3, <1>4 DEF StoreInv, TypeOK
  <1>6. Locked'
    <2>1. ~(lockGen > 0) /\ \A q \in Processes : calls[q].at # "rmlock"
      BY <1>1, <1>4 DEF StoreInv, Locked
    <2>2. \A q \in Processes : /\ calls'[q].lock = calls[q].lock
                               /\ calls'[q].holds <=> calls[q].holds
      BY <1>1, <1>3
    <2>3. calls'[p].at = "write" /\ calls[p].at = "open"
      BY <1>1, <1>3
    <2>4. \A q \in Processes \ {p} : calls'[q].at = calls[q].at
      BY <1>1
    <2> QED
      BY <1>1, <2>1, <2>2, <2>3, <2>4 DEF StoreInv, Locked
  <1>7. acked = {} /\ \A q \in Processes : /\ seen[q] = None /\ calls[q].at # "rmlog"
                                          /\ calls[q].op \in {"create", None}
                                          /\ calls[q].at # "write"
    BY <1>1 DEF StoreInv, Uncreated
  <1>8. Uncreated' /\ Headed' /\ Whole' /\ AcknowledgedKept'
    BY <1>1, <1>3, <1>4, <1>7 DEF Uncreated, Headed, Whole, AcknowledgedKept, Present
  <1>9. ASSUME NEW q \in Processes PROVE Current(q)'
    <2>1. CASE q = p
      BY <1>1, <1>2, <1>3, <1>4, <2>1 DEF Current, Writing, StoredVersion
    <2>2. CASE q # p
      <3>1. ~Writing(q)'
        BY <1>1, <1>7, <2>2, StoreAssumption DEF Writing, Ops
      <3> QED
        BY <1>1, <2>2, <3>1 DEF StoreInv, Current
    <2> QED
      BY <2>1, <2>2
  <1> QED
    BY <1>5, <1>6, <1>8, <1>9 DEF StoreInv

LEMMA RemoveLogKeeps ==
    ASSUME StoreInv, NEW p \in Processes, RemoveLog(p)
    PROVE  StoreInv'
  <1>1. /\ calls[p].at = "rmlog" /\ calls[p] \in Calls /\ file' = Gone
        /\ UNCHANGED <<lockGen, seen, acked, created, cuts>>
        /\ calls' = [calls EXCEPT ![p].at = "rmlock"]
        /\ \A q \in Processes \ {p} : calls'[q] = calls[q]
    BY DEF RemoveLog, Goto, At, StoreInv, TypeOK
  <1>2. /\ calls'[p] \in Calls /\ calls'[p].at = "rmlock" /\ calls'[p].op = calls[p].op
        /\ (calls'[p].holds <=> calls[p].holds) /\ calls'[p].lock = calls[p].lock
        /\ calls'[p].events = calls[p].events
    BY <1>1 DEF StoreInv, TypeOK, Calls, Phases
  <1>3. None # Gone
    BY StoreAssumption
  <1>4. TypeOK'
    BY <1>1, <1>2 DEF StoreInv, TypeOK
  <1>5. Locked'
    <2>1. \A q \in Processes : /\ calls'[q].lock = calls[q].lock
                               /\ calls'[q].holds <=> calls[q].holds
      BY <1>1, <1>2
    <2>2. \A q \in Processes \ {p} : calls'[q].at = calls[q].at
      BY <1>1
    <2> QED
      BY <1>1, <1>2, <2>1, <2>2 DEF StoreInv, Locked
  <1>6. Uncreated' /\ Headed' /\ Whole' /\ AcknowledgedKept'
    BY <1>1, <1>3 DEF Uncreated, Headed, Whole, AcknowledgedKept, Present
  <1>7. ASSUME NEW q \in Processes PROVE Current(q)'
    <2>1. CASE q = p
      BY <1>1, <1>2, <2>1 DEF StoreInv, Current, Writing
    <2>2. CASE q # p
      BY <1>1, <2>2 DEF StoreInv, Current, Writing, Present
    <2> QED
      BY <2>1, <2>2
  <1> QED
    BY <1>4, <1>5, <1>6, <1>7 DEF StoreInv

LEMMA RemoveLockKeeps ==
    ASSUME StoreInv, NEW p \in Processes, RemoveLock(p)
    PROVE  StoreInv'
  <1>1. /\ calls[p].at = "rmlock" /\ lockGen' = lockGen + 1 /\ lockGen \in Nat
        /\ UNCHANGED <<file, seen, acked, created, cuts>>
        /\ calls' = [calls EXCEPT ![p] = Idle] /\ calls'[p] = Idle
        /\ \A q \in Processes \ {p} : calls'[q] = calls[q]
    BY DEF RemoveLock, Return, At, StoreInv, TypeOK
  <1>2. file = Gone /\ None # Gone
    BY <1>1, StoreAssumption DEF StoreInv, Locked
  <1>3. /\ Idle \in Calls /\ Idle.at = "idle" /\ Idle.op = None /\ Idle.lock = 0
        /\ ~Idle.holds /\ None \notin Ops
    BY IdleIsACall, StoreAssumption DEF Idle
  <1>4. TypeOK'
    BY <1>1, <1>3 DEF StoreInv, TypeOK
  <1>5. \A q \in Processes : calls[q] \in Calls /\ calls[q].lock \in Nat
    BY DEF StoreInv, TypeOK, Calls
  <1>6. Locked'
    <2>1. ASSUME NEW q \in Processes
          PROVE  /\ calls'[q].lock <= lockGen'
                 /\ calls'[q].holds <=> calls'[q].at \in {"read", "open", "write"}
      <3>1. CASE q = p
        BY <1>1, <1>3, <3>1
      <3>2. CASE q # p
        BY <1>1, <1>5, <3>2 DEF StoreInv, Locked
      <3> QED
        BY <3>1, <3>2
    <2>2. ASSUME NEW q \in Processes, NEW r \in Processes,
                 calls'[q].holds, calls'[r].holds, calls'[q].lock = calls'[r].lock
          PROVE  q = r
      BY <1>1, <1>3, <2>2 DEF StoreInv, Locked
    <2> QED
      BY <1>1, <1>2, <2>1, <2>2 DEF Locked
  <1>7. Uncreated' /\ Headed' /\ Whole' /\ AcknowledgedKept'
    BY <1>1, <1>2 DEF Uncreated, Headed, Whole, AcknowledgedKept, Present
  <1>8. ASSUME NEW q \in Processes PROVE Current(q)'
    <2>1. CASE q = p
      BY <1>1, <1>3, <2>1 DEF Current, Writing, Ops
    <2>2. CASE q # p
      BY <1>1, <2>2 DEF StoreInv, Current, Writing, Present
    <2> QED
      BY <2>1, <2>2
  <1> QED
    BY <1>4, <1>6, <1>7, <1>8 DEF StoreInv
\* A line, whole or in part, lands at the end of the log and its operation
\* returns.
Lands(p, l, ver) ==
    /\ calls[p].at = "write" /\ UNCHANGED <<lockGen, created>>
    /\ l \in Lines /\ l.events = calls[p].line.events
    /\ l.version = calls[p].line.version /\ l.first = calls[p].line.first
    /\ file' = Landed(l) /\ Return(p)
    /\ ver \in Nat \cup {None} /\ seen' = [seen EXCEPT ![p] = ver]
    /\ ver # None => l.ending = "line"
    /\ acked' = acked \/ acked' = acked \cup {l}
    /\ cuts' \in 0..MaxCuts /\ (cuts' = 0 => cuts = 0 /\ l.ending = "line")

\* The line lands where it was computed for.
LEMMA LandsInPlace ==
    ASSUME StoreInv, NEW p \in Processes, NEW l, NEW ver, Lands(p, l, ver), Present
    PROVE  /\ file \in Seq(Lines) /\ l.version = Len(file) + 1
           /\ l.first = StoredVersion(file)
           /\ file = << >> => l.first = 0 /\ l.events = 0
           /\ file # << >> => Readable(file) /\ l.events \in 1..MaxBatch
           /\ file' = Append(file, l)
  <1>1. /\ calls[p].at = "write" /\ calls[p].op \in {"create", "append"}
        /\ l.version = Len(file) + 1 /\ l.first = StoredVersion(file)
    BY DEF Lands, StoreInv, Current, Writing
  <1>2. CASE calls[p].op = "create"
    BY <1>1, <1>2, LogOrNothing DEF Lands, Landed, StoreInv, Current, Writing, StoredVersion
  <1>3. CASE calls[p].op = "append"
    BY <1>1, <1>3, LogOrNothing DEF Lands, Landed, StoreInv, Current, Writing, Readable
  <1> QED
    BY <1>1, <1>2, <1>3

LEMMA LandsKeeps ==
    ASSUME StoreInv, NEW p \in Processes, NEW l, NEW ver, Lands(p, l, ver)
    PROVE  StoreInv'
  <1>1. /\ calls[p].at = "write" /\ UNCHANGED <<lockGen, created>> /\ l \in Lines
        /\ calls' = [calls EXCEPT ![p] = Idle] /\ calls'[p] = Idle /\ seen'[p] = ver
        /\ \A q \in Processes \ {p} : calls'[q] = calls[q] /\ seen'[q] = seen[q]
    BY DEF Lands, Return, StoreInv, TypeOK
  <1>2. /\ Idle \in Calls /\ Idle.at = "idle" /\ Idle.op = None /\ Idle.lock = 0
        /\ ~Idle.holds /\ None \notin Ops
    BY IdleIsACall, StoreAssumption DEF Idle
  <1>3. file # None /\ lockGen \in Nat
    BY <1>1 DEF StoreInv, TypeOK, Uncreated
  <1>4. /\ Present => file' \in Seq(Lines) /\ file' # None /\ file' # Gone
        /\ ~Present => file' = file /\ file = Gone
    <2>1. CASE Present
      <3>1. file \in Seq(Lines) /\ file' = Append(file, l)
        BY <2>1, LandsInPlace
      <3>2. file' \in Seq(Lines)
        BY <1>1, <3>1, Appended
      <3> QED
        BY <2>1, <3>2, LogOrNothing DEF StoreInv
    <2>2. CASE ~Present
      BY <1>3, <2>2 DEF Lands, Landed, Present
    <2> QED
      BY <2>1, <2>2
  <1>5. TypeOK'
    <2>1. file' \in {None, Gone} \cup Seq(Lines)
      BY <1>4
    <2>2. acked' \subseteq Lines
      BY <1>1 DEF StoreInv, TypeOK, Lands
    <2> QED
      BY <1>1, <1>2, <2>1, <2>2 DEF StoreInv, TypeOK, Lands
  <1>6. Locked'
    <2>1. file = Gone => file' = Gone
      BY <1>4 DEF Present
    <2>2. ASSUME NEW q \in Processes
          PROVE  /\ calls'[q].lock <= lockGen'
                 /\ calls'[q].holds <=> calls'[q].at \in {"read", "open", "write"}
                 /\ calls'[q].at = "rmlock" => file' = Gone
      <3>1. CASE q = p
        BY <1>1, <1>2, <1>3, <3>1
      <3>2. CASE q # p
        BY <1>1, <2>1, <3>2 DEF StoreInv, Locked
      <3> QED
        BY <3>1, <3>2
    <2>3. ASSUME NEW q \in Processes, NEW r \in Processes,
                 calls'[q].holds, calls'[r].holds, calls'[q].lock = calls'[r].lock
          PROVE  q = r
      BY <1>1, <1>2, <2>3 DEF StoreInv, Locked
    <2> QED
      BY <1>1, <2>1, <2>2, <2>3 DEF StoreInv, Locked
  <1>7. Uncreated'
    BY <1>3, <1>4 DEF Uncreated, Present
  <1>8. CASE ~Present
    <2>1. ~Present' /\ file' = file
      BY <1>4, <1>8 DEF Present
    <2>2. ASSUME NEW q \in Processes PROVE Current(q)'
      <3>1. CASE q = p
        BY <1>1, <1>2, <3>1 DEF Current, Writing, Ops
      <3>2. CASE q # p
        BY <1>1, <2>1, <3>2 DEF StoreInv, Current, Writing
      <3> QED
        BY <3>1, <3>2
    <2> QED
      BY <1>5, <1>6, <1>7, <2>1, <2>2 DEF StoreInv, Headed, Whole, AcknowledgedKept
  <1>9. CASE Present
    <2>1. /\ file \in Seq(Lines) /\ l.version = Len(file) + 1
          /\ l.first = StoredVersion(file)
          /\ file = << >> => l.first = 0 /\ l.events = 0
          /\ file # << >> => Readable(file)
          /\ file' = Append(file, l)
      BY <1>9, LandsInPlace
    <2>2. /\ file' # << >> /\ Len(file) \in Nat /\ Len(file') = Len(file) + 1
          /\ file'[Len(file) + 1] = l /\ \A i \in 1..Len(file) : file'[i] = file[i]
          /\ file = << >> <=> Len(file) = 0
      BY <1>1, <2>1, Appended, EmptySeq
    <2>3. IF file = << >> THEN file'[1] = l ELSE file'[1] = file[1]
      BY <2>2
    <2>4. file # << >> => file[1].ending # "torn"
      BY <2>1, <2>2 DEF Readable
    <2>5. Headed'
      <3>1. file'[1].first = 0 /\ file'[1].events = 0
        BY <1>9, <2>1, <2>3 DEF StoreInv, Headed
      <3>2. ASSUME NEW q \in Processes, seen'[q] # None \/ calls'[q].at = "rmlog"
            PROVE  file'[1].ending # "torn"
        <4>1. CASE q = p
          BY <1>1, <1>2, <2>3, <2>4, <3>2, <4>1 DEF Lands
        <4>2. CASE q # p
          BY <1>1, <1>9, <2>3, <3>2, <4>2 DEF StoreInv, Headed
        <4> QED
          BY <4>1, <4>2
      <3> QED
        BY <2>2, <3>1, <3>2 DEF Headed
    <2>6. Whole'
      <3> SUFFICES ASSUME cuts' = 0
                   PROVE  /\ \A i \in 1..Len(file') : file'[i].ending = "line"
                          /\ Readable(file')
        BY <2>2 DEF Whole
      <3>1. cuts = 0 /\ l.ending = "line"
        BY DEF Lands
      <3>2. \A i \in 1..Len(file) : file[i].ending = "line"
        BY <1>9, <3>1 DEF StoreInv, Whole
      <3>3. Readable(file')
        BY <1>1, <2>1, <3>1, <3>2, ReadableAppend
      <3>4. \A i \in 1..Len(file') : i \in 1..Len(file) \/ i = Len(file) + 1
        BY <2>2
      <3> QED
        BY <2>2, <3>1, <3>2, <3>3, <3>4
    <2>7. AcknowledgedKept'
      <3> SUFFICES ASSUME NEW x \in acked'
                   PROVE  x.version \in 1..Len(file') /\ file'[x.version] = x
        BY DEF AcknowledgedKept
      <3>1. CASE x \in acked
        <4>1. x.version \in 1..Len(file) /\ file[x.version] = x
          BY <1>9, <3>1 DEF StoreInv, AcknowledgedKept
        <4> QED
          BY <2>2, <4>1
      <3>2. CASE x = l
        BY <2>1, <2>2, <3>2
      <3> QED
        BY <3>1, <3>2 DEF Lands
    <2>8. ASSUME NEW q \in Processes PROVE Current(q)'
      <3>1. CASE q = p
        BY <1>1, <1>2, <3>1 DEF Current, Writing, Ops
      <3>2. CASE q # p
        <4>1. calls[q].at \notin {"read", "open", "write"}
          BY <1>1, <1>9, <3>2, OneHolder DEF StoreInv, Present
        <4>2. calls'[q] = calls[q]
          BY <1>1, <3>2
        <4> QED
          BY <4>1, <4>2 DEF StoreInv, Current, Writing
      <3> QED
        BY <3>1, <3>2
    <2> QED
      BY <1>5, <1>6, <1>7, <2>5, <2>6, <2>7, <2>8 DEF StoreInv
  <1> QED
    BY <1>8, <1>9
LEMMA WriteLands ==
    ASSUME StoreInv, NEW p \in Processes, WriteLine(p)
    PROVE  \E l, ver : Lands(p, l, ver)
  <1> DEFINE l == calls[p].line
             ver == l.first + l.events
  <1>1. /\ calls[p].at = "write" /\ l \in Lines /\ l.ending = "line"
        /\ cuts \in 0..MaxCuts
    BY DEF WriteLine, At, StoreInv, TypeOK, Current, Writing
  <1>2. ver \in Nat
    BY <1>1, StoreAssumption DEF Lines
  <1>3. Lands(p, l, ver)
    BY <1>1, <1>2 DEF WriteLine, Lands
  <1> QED
    BY <1>3

LEMMA CutLands ==
    ASSUME StoreInv, NEW p \in Processes, WriteCut(p)
    PROVE  \/ UNCHANGED file /\ StoreInv'
           \/ \E l, ver : Lands(p, l, ver)
  <1>1. /\ calls[p].at = "write" /\ cuts \in 0..MaxCuts /\ cuts < MaxCuts
        /\ cuts' = cuts + 1 /\ calls[p].line \in Lines
        /\ seen' = [seen EXCEPT ![p] = None] /\ Return(p)
        /\ UNCHANGED <<lockGen, acked, created>>
    BY DEF WriteCut, At, StoreInv, TypeOK, Current, Writing
  <1>2. cuts' \in 0..MaxCuts /\ cuts' # 0
    BY <1>1, StoreAssumption
  <1>3. CASE UNCHANGED file
    BY <1>1, <1>2, <1>3, ReturnKeeps
  <1>4. ASSUME NEW ending \in Endings, file' = Landed([calls[p].line EXCEPT !.ending = ending])
        PROVE  \E l, ver : Lands(p, l, ver)
    <2> DEFINE l == [calls[p].line EXCEPT !.ending = ending]
    <2>1. /\ l \in Lines /\ l.events = calls[p].line.events
          /\ l.version = calls[p].line.version /\ l.first = calls[p].line.first
      BY <1>1 DEF Lines
    <2> HIDE DEF l
    <2>2. file' = Landed(l)
      BY <1>4 DEF l
    <2>3. Lands(p, l, None)
      BY <1>1, <1>2, <2>1, <2>2 DEF Lands
    <2> QED
      BY <2>3
  <1> QED
    BY <1>3, <1>4 DEF WriteCut

LEMMA StepKeeps ==
    ASSUME StoreInv, [Next]_vars
    PROVE  StoreInv'
  <1>1. CASE UNCHANGED vars
    BY <1>1 DEF vars, StoreInv, TypeOK, Locked, Uncreated, Headed, Whole,
                AcknowledgedKept, Current, Writing, Present
  <1>2. ASSUME NEW p \in Processes, BeginCreate(p) PROVE StoreInv'
    <2>1. Begin(p, "create", 0) /\ created' \in BOOLEAN /\ 0 \in 0..MaxBatch
      BY <1>2, StoreAssumption DEF BeginCreate
    <2> QED
      BY <2>1, BeginKeeps DEF Ops
  <1>3. ASSUME NEW p \in Processes, BeginLoad(p) PROVE StoreInv'
    <2>1. /\ Begin(p, "load", 0) /\ created' \in BOOLEAN /\ 0 \in 0..MaxBatch /\ Present
      BY <1>3, StoreAssumption DEF BeginLoad, StoreInv, TypeOK
    <2> QED
      BY <2>1, BeginKeeps DEF Ops
  <1>4. ASSUME NEW p \in Processes, BeginAppend(p) PROVE StoreInv'
    <2>1. PICK n \in 1..MaxBatch : Begin(p, "append", n)
      BY <1>4 DEF BeginAppend
    <2>2. created' \in BOOLEAN /\ n \in 0..MaxBatch /\ Present
      BY <1>4, StoreAssumption DEF BeginAppend, StoreInv, TypeOK
    <2> QED
      BY <2>1, <2>2, BeginKeeps DEF Ops
  <1>5. ASSUME NEW p \in Processes, BeginDelete(p) PROVE StoreInv'
    <2>1. /\ Begin(p, "delete", 0) /\ created' \in BOOLEAN /\ 0 \in 0..MaxBatch
          /\ Present /\ seen[p] # None
      BY <1>5, StoreAssumption DEF BeginDelete, StoreInv, TypeOK
    <2> QED
      BY <2>1, BeginKeeps DEF Ops
  <1>6. ASSUME NEW p \in Processes, WriteLine(p) \/ WriteCut(p) PROVE StoreInv'
    BY <1>6, WriteLands, CutLands, LandsKeeps
  <1>7. ASSUME NEW p \in Processes, OpenLog(p) PROVE StoreInv'
    BY <1>7, CreateKeeps, OpenLogKeeps
  <1> QED
    BY <1>1, <1>2, <1>3, <1>4, <1>5, <1>6, <1>7, OpenLockKeeps, TakeLockKeeps,
       ReadLogKeeps, CrashKeeps, RemoveLogKeeps, RemoveLockKeeps DEF Next

\* At first there is no log, and no operation on it.
LEMMA StoreInit == Init => StoreInv
  <1> SUFFICES ASSUME Init PROVE StoreInv
    OBVIOUS
  <1>1. /\ Idle \in Calls /\ Idle.at = "idle" /\ Idle.op = None /\ Idle.lock = 0
        /\ ~Idle.holds /\ None \notin Ops /\ None # Gone
    BY IdleIsACall, StoreAssumption DEF Idle
  <1>2. \A p \in Processes : calls[p] = Idle /\ seen[p] = None
    BY DEF Init
  <1>3. TypeOK
    <2>1. /\ calls \in [Processes -> Calls] /\ seen \in [Processes -> Nat \cup {None}]
          /\ file \in {None, Gone} \cup Seq(Lines) /\ acked \subseteq Lines
      BY <1>1 DEF Init
    <2>2. lockGen \in Nat /\ created \in BOOLEAN
      BY DEF Init
    <2>3. cuts \in 0..MaxCuts
      <3>1. MaxCuts \in Nat
        BY StoreAssumption
      <3> QED
        BY <3>1 DEF Init
    <2> QED
      BY <2>1, <2>2, <2>3 DEF TypeOK
  <1>4. Locked /\ Uncreated
    BY <1>1, <1>2 DEF Init, Locked, Uncreated
  <1>5. Headed /\ Whole /\ AcknowledgedKept
    BY DEF Init, Headed, Whole, AcknowledgedKept, Present
  <1>6. \A p \in Processes : Current(p)
    BY <1>1, <1>2 DEF Current, Writing, Ops
  <1> QED
    BY <1>3, <1>4, <1>5, <1>6 DEF StoreInv

\* The inductive invariant: the holder of the one lock knows the log it writes
\* to, whoever else waits, dies or deletes (session_store.go:163-227).
THEOREM StoreInvariant == Spec => []StoreInv
  <1>1. StoreInv /\ [Next]_vars => StoreInv'
    BY StepKeeps
  <1> QED
    BY <1>1, StoreInit, PTL DEF Spec

\* An acknowledged line stays where it was put until the session is deleted,
\* and no interleaving of writers makes a log unreadable: only a write cut
\* short does (session_store.go).
THEOREM AcknowledgedStay == Spec => []LogKept
  <1>1. StoreInv => LogKept
    BY DEF StoreInv, LogKept, ReadableUnlessCut, Whole, At
  <1> QED
    BY <1>1, StoreInvariant, PTL

-----------------------------------------------------------------------------
(***************************************************************************)
(* The refinement: what a reader decodes is a behaviour of SessionLog.     *)
(***************************************************************************)
Mapped == IF Present THEN Decoded ELSE file

Batch(line) == [first |-> line.first, events |-> line.events]

\* The batches of the lines after the first, up to line n.
Batched(lines, n) == [i \in 1..(n - 1) |-> [first |-> lines[i + 1].first,
                                            events |-> lines[i + 1].events]]

LEMMA BatchesAreLog ==
    ASSUME NEW s \in Seq(Lines), NEW n \in 1..Len(s)
    PROVE  /\ Batched(s, n) \in Seq(Batches) /\ Len(Batched(s, n)) = n - 1
           /\ \A i \in 1..(n - 1) : Batched(s, n)[i] = Batch(s[i + 1])
           /\ Batched(s, n) \notin {None, Gone}
  <1>1. Len(s) \in Nat /\ n - 1 \in Nat
    BY LenProperties
  <1>2. \A i \in 1..(n - 1) : i + 1 \in 1..Len(s)
    BY <1>1
  <1>3. \A i \in 1..(n - 1) : Batch(s[i + 1]) \in Batches
    <2>1. \A i \in 1..(n - 1) : s[i + 1] \in Lines
      BY <1>2, ElementOfSeq
    <2>2. \A line \in Lines : Batch(line) \in Batches
      BY StoreAssumption DEF Batch, Batches, Lines
    <2> QED
      BY <2>1, <2>2
  <1>4. Batched(s, n) \in [1..(n - 1) -> Batches]
    BY <1>3 DEF Batched, Batch
  <1>5. Batched(s, n) \in Seq(Batches)
    BY <1>1, <1>4, SeqDef
  <1>6. Len(Batched(s, n)) = n - 1
    BY <1>1, <1>4, <1>5, LenProperties
  <1> QED
    BY <1>5, <1>6, StoreAssumption DEF Batched, Batch
\* One batch more is the log of the batches so far with it appended.
LEMMA BatchAppended ==
    ASSUME NEW s \in Seq(Lines), NEW l \in Lines, s # << >>
    PROVE  Batched(Append(s, l), Len(s) + 1) = Append(Batched(s, Len(s)), Batch(l))
  <1> DEFINE t == Append(s, l)
             n == Len(s)
             lines == Batched(s, n)
             new == Batched(t, n + 1)
  <1>1. /\ t \in Seq(Lines) /\ n \in Nat \ {0} /\ Len(t) = n + 1 /\ t[n + 1] = l
        /\ \A i \in 1..n : t[i] = s[i]
    BY Appended, EmptySeq
  <1> HIDE DEF t, n
  <1>2. n \in 1..Len(s) /\ n + 1 \in 1..Len(t)
    BY <1>1 DEF n
  <1>3. /\ lines \in Seq(Batches) /\ Len(lines) = n - 1
        /\ \A i \in 1..(n - 1) : lines[i] = Batch(s[i + 1])
    BY <1>2, BatchesAreLog
  <1>4. /\ new \in Seq(Batches) /\ Len(new) = n
        /\ \A i \in 1..n : new[i] = Batch(t[i + 1])
    <2>1. (n + 1) - 1 = n
      BY <1>1
    <2>2. /\ new \in Seq(Batches) /\ Len(new) = (n + 1) - 1
          /\ \A i \in 1..((n + 1) - 1) : new[i] = Batch(t[i + 1])
      BY <1>1, <1>2, BatchesAreLog
    <2> QED
      BY <2>1, <2>2
  <1> HIDE DEF lines, new
  <1>5. Batch(l) \in Batches
    BY StoreAssumption DEF Batch, Batches, Lines
  <1>6. /\ Append(lines, Batch(l)) \in Seq(Batches) /\ Len(Append(lines, Batch(l))) = n
        /\ Append(lines, Batch(l))[n] = Batch(l)
        /\ \A i \in 1..(n - 1) : Append(lines, Batch(l))[i] = lines[i]
    BY <1>1, <1>3, <1>5, AppendProperties
  <1>7. ASSUME NEW i \in 1..n PROVE new[i] = Append(lines, Batch(l))[i]
    <2>1. CASE i = n
      BY <1>1, <1>4, <1>6, <2>1
    <2>2. CASE i \in 1..(n - 1)
      <3>1. t[i + 1] = s[i + 1]
        BY <1>1, <2>2
      <3> QED
        BY <1>3, <1>4, <1>6, <2>2, <3>1
    <2>3. n \in Nat /\ (i = n \/ i \in 1..(n - 1))
      BY <1>1
    <2> QED
      BY <2>1, <2>2, <2>3
  <1>8. new = Append(lines, Batch(l))
    BY <1>4, <1>6, <1>7, SeqEqual
  <1> QED
    BY <1>8 DEF lines, new, t, n

\* A torn line adds nothing.
LEMMA BatchKept ==
    ASSUME NEW s \in Seq(Lines), NEW l \in Lines, s # << >>
    PROVE  Batched(Append(s, l), Len(s)) = Batched(s, Len(s))
  <1> DEFINE t == Append(s, l)
             n == Len(s)
  <1>1. /\ t \in Seq(Lines) /\ n \in Nat \ {0} /\ Len(t) = n + 1
        /\ \A i \in 1..n : t[i] = s[i]
    BY Appended, EmptySeq
  <1> HIDE DEF t, n
  <1>2. n \in 1..Len(s) /\ n \in 1..Len(t)
    BY <1>1 DEF n
  <1>3. \A i \in 1..(n - 1) : Batch(t[i + 1]) = Batch(s[i + 1])
    <2> SUFFICES ASSUME NEW i \in 1..(n - 1) PROVE t[i + 1] = s[i + 1]
      OBVIOUS
    <2> QED
      BY <1>1
  <1>4. /\ Batched(s, n) \in Seq(Batches) /\ Len(Batched(s, n)) = n - 1
        /\ \A i \in 1..(n - 1) : Batched(s, n)[i] = Batch(s[i + 1])
    BY <1>2, BatchesAreLog
  <1>5. /\ Batched(t, n) \in Seq(Batches) /\ Len(Batched(t, n)) = n - 1
        /\ \A i \in 1..(n - 1) : Batched(t, n)[i] = Batch(t[i + 1])
    BY <1>1, <1>2, BatchesAreLog
  <1>6. Batched(t, n) = Batched(s, n)
    BY <1>3, <1>4, <1>5, SeqEqual
  <1> QED
    BY <1>6 DEF t, n

\* What is decoded of a log, by its last line.
DecodedOf(s) ==
    LET n == IF s # << >> /\ s[Len(s)].ending = "torn" THEN Len(s) - 1 ELSE Len(s)
    IN  IF n = 0 THEN None
        ELSE [i \in 1..(n - 1) |-> [first |-> s[i + 1].first, events |-> s[i + 1].events]]

LEMMA DecodedIs ==
    ASSUME NEW s \in Seq(Lines)
    PROVE  /\ s = << >> => DecodedOf(s) = None
           /\ s # << >> /\ s[Len(s)].ending # "torn" =>
                DecodedOf(s) = Batched(s, Len(s))
           /\ s # << >> /\ s[Len(s)].ending = "torn" =>
                DecodedOf(s) = IF Len(s) = 1 THEN None ELSE Batched(s, Len(s) - 1)
  <1>1. Len(s) \in Nat /\ (s = << >> <=> Len(s) = 0)
    BY EmptySeq, LenProperties
  <1>2. CASE s = << >>
    BY <1>1, <1>2 DEF DecodedOf
  <1>3. CASE s # << >> /\ s[Len(s)].ending # "torn"
    BY <1>1, <1>3 DEF DecodedOf, Batched
  <1>4. CASE s # << >> /\ s[Len(s)].ending = "torn"
    <2>1. Len(s) - 1 = 0 <=> Len(s) = 1
      BY <1>1
    <2> QED
      BY <1>4, <2>1 DEF DecodedOf, Batched
  <1> QED
    BY <1>2, <1>3, <1>4
VersionOf(log) == IF log = << >> THEN 0 ELSE log[Len(log)].first + log[Len(log)].events

\* The version an append is compared with is the one a reader decodes.
LEMMA StoredIsDecoded ==
    ASSUME StoreInv, Present, file # << >>, Readable(file)
    PROVE  /\ Mapped = Batched(file, Len(file)) /\ Mapped \notin {None, Gone}
           /\ StoredVersion(file) = VersionOf(Mapped)
  <1> DEFINE n == Len(file)
             m == Batched(file, n)
  <1>1. file \in Seq(Lines) /\ n \in Nat \ {0} /\ n \in 1..Len(file)
    BY LogOrNothing, EmptySeq DEF StoreInv
  <1>2. file[n].ending # "torn"
    BY <1>1 DEF Readable
  <1>3. Mapped = m
    BY <1>1, <1>2, DecodedIs DEF Mapped, Decoded, DecodedOf
  <1>4. /\ m \in Seq(Batches) /\ Len(m) = n - 1 /\ m \notin {None, Gone}
        /\ \A i \in 1..(n - 1) : m[i] = Batch(file[i + 1])
    BY <1>1, BatchesAreLog
  <1>5. StoredVersion(file) = file[n].first + file[n].events
    BY <1>2 DEF StoredVersion, After
  <1>6. m = << >> <=> Len(m) = 0
    BY <1>4, EmptySeq
  <1> HIDE DEF m, n
  <1>7. CASE n = 1
    <2>1. file[1].first = 0 /\ file[1].events = 0
      BY DEF StoreInv, Headed
    <2> QED
      BY <1>3, <1>4, <1>5, <1>6, <1>7, <2>1 DEF VersionOf, m, n
  <1>8. CASE n # 1
    <2>1. Len(m) = n - 1 /\ n - 1 \in 1..(n - 1) /\ (n - 1) + 1 = n /\ m # << >>
      BY <1>1, <1>4, <1>6, <1>8
    <2>2. m[Len(m)] = Batch(file[n])
      BY <1>4, <2>1
    <2>3. VersionOf(m) = file[n].first + file[n].events
      BY <2>1, <2>2 DEF VersionOf, Batch
    <2> QED
      BY <1>3, <1>4, <1>5, <2>3 DEF m, n
  <1> QED
    BY <1>7, <1>8

LEMMA LandsMaps ==
    ASSUME StoreInv, StoreInv', NEW p \in Processes, NEW l, NEW ver, Lands(p, l, ver)
    PROVE  \/ Mapped' = Mapped
           \/ Mapped = None /\ Mapped' = << >>
           \/ \E n \in 1..MaxBatch :
                /\ Mapped \notin {None, Gone}
                /\ Mapped' = Append(Mapped, [first |-> VersionOf(Mapped), events |-> n])
  <1>1. CASE ~Present
    BY <1>1 DEF Lands, Landed, Mapped, Present
  <1>2. CASE Present
    <2>1. /\ file \in Seq(Lines) /\ l.version = Len(file) + 1
          /\ l.first = StoredVersion(file)
          /\ file # << >> => Readable(file) /\ l.events \in 1..MaxBatch
          /\ file' = Append(file, l) /\ l \in Lines
      BY <1>2, LandsInPlace DEF Lands
    <2>2. /\ file' \in Seq(Lines) /\ file' # << >> /\ Len(file) \in Nat
          /\ Len(file') = Len(file) + 1 /\ file'[Len(file')] = l
          /\ file = << >> <=> Len(file) = 0
      BY <2>1, Appended, EmptySeq
    <2>3. Present'
      BY <2>2, LogOrNothing DEF StoreInv, Present
    <2>4. Mapped' = Decoded'
      BY <2>3 DEF Mapped
    <2>5. /\ l.ending # "torn" => Decoded' = Batched(file', Len(file) + 1)
          /\ l.ending = "torn" => Decoded' = IF Len(file) = 0 THEN None
                                                ELSE Batched(file', Len(file))
      <3>1. /\ file'[Len(file')].ending # "torn" =>
                 DecodedOf(file') = Batched(file', Len(file'))
            /\ file'[Len(file')].ending = "torn" =>
                 DecodedOf(file') = IF Len(file') = 1 THEN None
                                    ELSE Batched(file', Len(file') - 1)
        BY <2>2, DecodedIs
      <3>0. Decoded' = DecodedOf(file')
        BY DEF Decoded, DecodedOf
      <3>2. (Len(file') = 1 <=> Len(file) = 0) /\ Len(file') - 1 = Len(file)
        BY <2>2
      <3> QED
        BY <2>2, <3>0, <3>1, <3>2
    <2>6. CASE file = << >>
      <3>1. Mapped = None
        BY <1>2, <2>1, <2>6, DecodedIs DEF Mapped, Decoded, DecodedOf
      <3>2. CASE l.ending = "torn"
        BY <2>2, <2>4, <2>5, <2>6, <3>1, <3>2
      <3>3. CASE l.ending # "torn"
        <4>1. Len(file) + 1 \in 1..Len(file') /\ (Len(file) + 1) - 1 = 0
          BY <2>2, <2>6
        <4>2. /\ Batched(file', Len(file) + 1) \in Seq(Batches)
              /\ Len(Batched(file', Len(file) + 1)) = 0
          BY <2>2, <4>1, BatchesAreLog
        <4>3. Batched(file', Len(file) + 1) = << >>
          BY <4>2, EmptySeq
        <4> QED
          BY <2>4, <2>5, <3>1, <3>3, <4>3
      <3> QED
        BY <3>2, <3>3
    <2>7. CASE file # << >>
      <3>1. /\ Mapped = Batched(file, Len(file)) /\ Mapped \notin {None, Gone}
            /\ StoredVersion(file) = VersionOf(Mapped)
        BY <1>2, <2>1, <2>7, StoredIsDecoded
      <3>2. CASE l.ending = "torn"
        BY <2>1, <2>2, <2>4, <2>5, <2>7, <3>1, <3>2, BatchKept
      <3>3. CASE l.ending # "torn"
        <4>1. Mapped' = Append(Mapped, Batch(l))
          BY <2>1, <2>4, <2>5, <2>7, <3>1, <3>3, BatchAppended
        <4>2. Batch(l) = [first |-> VersionOf(Mapped), events |-> l.events]
          BY <2>1, <3>1 DEF Batch
        <4> QED
          BY <2>1, <2>7, <3>1, <4>1, <4>2
      <3> QED
        BY <3>2, <3>3
    <2> QED
      BY <2>6, <2>7
  <1> QED
    BY <1>1, <1>2

LEMMA RemoveMaps ==
    ASSUME StoreInv, NEW p \in Processes, RemoveLog(p)
    PROVE  \/ Mapped' = Mapped
           \/ Mapped \notin {None, Gone} /\ Mapped' = Gone
  <1>1. calls[p].at = "rmlog" /\ file' = Gone /\ None # Gone
    BY StoreAssumption DEF RemoveLog, At
  <1>2. Mapped' = Gone
    BY <1>1 DEF Mapped, Present
  <1>3. CASE ~Present
    BY <1>1, <1>2, <1>3 DEF Mapped, Present, StoreInv, Uncreated
  <1>4. CASE Present
    <2>1. file \in Seq(Lines) /\ file # << >> /\ file[1].ending # "torn"
      BY <1>1, <1>4, LogOrNothing DEF StoreInv, Headed
    <2>2. Len(file) \in Nat \ {0} /\ Mapped = DecodedOf(file)
      BY <1>4, <2>1, EmptySeq DEF Mapped, Decoded, DecodedOf
    <2>3. CASE file[Len(file)].ending # "torn"
      <3>1. Mapped = Batched(file, Len(file)) /\ Len(file) \in 1..Len(file)
        BY <2>1, <2>2, <2>3, DecodedIs
      <3> QED
        BY <1>2, <2>1, <3>1, BatchesAreLog
    <2>4. CASE file[Len(file)].ending = "torn"
      <3>1. Len(file) # 1 /\ Len(file) - 1 \in 1..Len(file)
        BY <2>1, <2>2, <2>4
      <3>2. Mapped = Batched(file, Len(file) - 1)
        BY <2>1, <2>2, <2>4, <3>1, DecodedIs
      <3> QED
        BY <1>2, <2>1, <3>1, <3>2, BatchesAreLog
    <2> QED
      BY <2>3, <2>4
  <1> QED
    BY <1>3, <1>4

LEMMA CreateMaps ==
    ASSUME StoreInv, NEW p \in Processes, OpenLog(p)
    PROVE  Mapped' = Mapped
  <1>1. CASE UNCHANGED file
    BY <1>1 DEF Mapped, Present, Decoded
  <1>2. CASE file = None /\ file' = << >>
    <2>1. << >> \in Seq(Lines) /\ << >> \notin {None, Gone}
      BY LogOrNothing DEF StoreInv
    <2>2. DecodedOf(<< >>) = None
      BY <2>1, DecodedIs
    <2>3. Decoded' = DecodedOf(file')
      BY DEF Decoded, DecodedOf
    <2> QED
      BY <1>2, <2>1, <2>2, <2>3 DEF Mapped, Present
  <1> QED
    BY <1>1, <1>2 DEF OpenLog
LEMMA StepMaps ==
    ASSUME StoreInv, StoreInv', [Next]_vars
    PROVE  [Promise!Next]_Mapped
  <1>1. CASE UNCHANGED file
    BY <1>1 DEF Mapped, Present, Decoded
  <1>2. ASSUME NEW p \in Processes, WriteLine(p) \/ WriteCut(p), file' # file
        PROVE  [Promise!Next]_Mapped
    <2>1. PICK l, ver : Lands(p, l, ver)
      BY <1>2, WriteLands, CutLands
    <2>2. CASE Mapped' = Mapped
      BY <2>2
    <2>3. CASE Mapped = None /\ Mapped' = << >>
      BY <2>3 DEF Promise!Next, Promise!Create, Mapped
    <2>4. ASSUME NEW n \in 1..MaxBatch, Mapped \notin {None, Gone},
                 Mapped' = Append(Mapped, [first |-> VersionOf(Mapped), events |-> n])
          PROVE  Promise!Next
      <3>1. Promise!AppendBatch(n)
        BY <2>4 DEF Promise!AppendBatch, Promise!Exists, Promise!Version, VersionOf, Mapped
      <3> QED
        BY <3>1 DEF Promise!Next
    <2> QED
      BY <2>1, <2>2, <2>3, <2>4, LandsMaps
  <1>3. ASSUME NEW p \in Processes, RemoveLog(p) PROVE [Promise!Next]_Mapped
    <2>1. CASE Mapped \notin {None, Gone} /\ Mapped' = Gone
      BY <2>1 DEF Promise!Next, Promise!Delete, Promise!Exists, Mapped
    <2> QED
      BY <1>3, <2>1, RemoveMaps
  <1>4. ASSUME NEW p \in Processes, OpenLog(p) PROVE [Promise!Next]_Mapped
    BY <1>4, CreateMaps
  <1>5. UNCHANGED file \/ \E p \in Processes : \/ WriteLine(p) \/ WriteCut(p)
                                               \/ RemoveLog(p) \/ OpenLog(p)
    BY DEF Next, vars, BeginCreate, BeginLoad, BeginAppend, BeginDelete, Begin,
           OpenLock, TakeLock, ReadLog, Crash, RemoveLock
  <1> QED
    BY <1>1, <1>2, <1>3, <1>4, <1>5

\* Every change of the file is an append that lands whole at the version it was
\* computed on, whatever processes read, wait, die and delete in between
\* (session_store.go:163-227).
THEOREM FileIsASessionLog == Spec => ImplementsSessionLog
  <1>1. Init => Promise!Init
    BY DEF Init, Promise!Init, Present
  <1>2. StoreInv /\ StoreInv' /\ [Next]_vars
            => [Promise!Next]_(IF Present THEN Decoded ELSE file)
    BY StepMaps DEF Mapped
  <1> QED
    BY <1>1, <1>2, StoreInvariant, PTL DEF Spec, ImplementsSessionLog, Promise!Spec
-----------------------------------------------------------------------------
(***************************************************************************)
(* The instances the stores are checked on.  Each of them meets the        *)
(* assumptions of the theorems about its module, begins in an initial      *)
(* state of it, and takes its steps or none.                               *)
(***************************************************************************)
\* The constants of the instances are ones the theorems are about.
LEMMA InstancesAssume ==
    /\ Sweeps!CollectionAssumption /\ Paging!CollectionAssumption /\ Indexed!ViewAssumption
    /\ Indexed!IndexAssumption /\ Rebuild!IndexAssumption
    /\ Cache!StampAssumption /\ Listing!StampAssumption /\ Revision!StampAssumption
    /\ Pinned!SnapshotAssumption
  BY InstanceAssumptions

\* The part that runs begins as its module does.
LEMMA PartInit ==
    ASSUME StoresInit
    PROVE  /\ part = "sweeps" => Sweeps!Init
           /\ part = "collection" => Paging!Init
           /\ part = "index" => Indexed!Init
           /\ part = "rebuild" => Rebuild!Init
           /\ part = "views" => Indexed!ViewInit
           /\ part = "cache" => Cache!Init
           /\ part = "listing" => Listing!Init
           /\ part = "revision" => Revision!Init
           /\ part = "pinned" => Pinned!SnapshotInit
<1>1. /\ part = "sweeps" => Sweeps!Init
      /\ part = "collection" => Paging!Init
  BY DEF StoresInit
<1>2. part = "index" => Indexed!Init
  BY DEF StoresInit
<1>3. part = "rebuild" => Rebuild!Init
  BY DEF StoresInit
<1>4. part = "views" => Indexed!ViewInit
  BY DEF StoresInit
<1>5. /\ part = "cache" => Cache!Init
      /\ part = "listing" => Listing!Init
      /\ part = "revision" => Revision!Init
  BY DEF StoresInit
<1>6. part = "pinned" => Pinned!SnapshotInit
  BY DEF StoresInit
<1> QED
  BY <1>1, <1>2, <1>3, <1>4, <1>5, <1>6

\* It stays the part that runs, and what it does is a step of its module.
LEMMA PartNext ==
    ASSUME [StoresNext]_storesVars
    PROVE  /\ part' = part
           /\ part = "sweeps" => [Sweeps!Next]_(Sweeps!vars)
           /\ part = "collection" => [Paging!Next]_(Paging!vars)
           /\ part = "index" => [Indexed!Next]_(Indexed!vars)
           /\ part = "rebuild" => [Rebuild!Next]_(Rebuild!vars)
           /\ part = "views" => [Indexed!ViewNext]_(Indexed!viewVars)
           /\ part = "cache" => [Cache!Next]_(Cache!vars)
           /\ part = "listing" => [Listing!Next]_(Listing!vars)
           /\ part = "revision" => [Revision!Next]_(Revision!vars)
           /\ part = "pinned" => [Pinned!SnapshotNext]_(Pinned!snapshotVars)
<1>1. part' = part
  BY DEF StoresNext, storesVars, LogStep, SweepStep, IndexStep, ViewStep, ReadStep
<1>2. /\ part = "sweeps" => Sweeps!Next \/ UNCHANGED sweepVars
      /\ part = "collection" => Paging!Next \/ UNCHANGED sweepVars
  BY DEF StoresNext, storesVars, LogStep, SweepStep, IndexStep, ViewStep, ReadStep
<1>3. /\ part = "index" => Indexed!Next \/ UNCHANGED indexVars
      /\ part = "rebuild" => Rebuild!Next \/ UNCHANGED indexVars
  BY DEF StoresNext, storesVars, LogStep, SweepStep, IndexStep, ViewStep, ReadStep
<1>4. part = "views" => Indexed!ViewNext \/ UNCHANGED viewVars
  BY DEF StoresNext, storesVars, LogStep, SweepStep, IndexStep, ViewStep, ReadStep
<1>5. /\ part = "cache" => Cache!Next \/ UNCHANGED readVars
      /\ part = "listing" => Listing!Next \/ UNCHANGED readVars
      /\ part = "revision" => Revision!Next \/ UNCHANGED readVars
      /\ part = "pinned" => Pinned!SnapshotNext \/ UNCHANGED readVars
  BY DEF StoresNext, storesVars, LogStep, SweepStep, IndexStep, ViewStep, ReadStep
<1>6. UNCHANGED sweepVars => UNCHANGED Sweeps!vars /\ UNCHANGED Paging!vars
  BY DEF sweepVars, Sweeps!vars, Paging!vars
<1>7. UNCHANGED indexVars => UNCHANGED Indexed!vars /\ UNCHANGED Rebuild!vars
  BY DEF indexVars, Indexed!vars, Rebuild!vars, Indexed!disk, Rebuild!disk
<1>8. UNCHANGED viewVars => UNCHANGED Indexed!viewVars
  BY DEF viewVars, Indexed!viewVars
<1>9. UNCHANGED readVars =>
        /\ UNCHANGED Cache!vars /\ UNCHANGED Listing!vars /\ UNCHANGED Revision!vars
        /\ UNCHANGED Pinned!snapshotVars
  BY DEF readVars, Cache!vars, Listing!vars, Revision!vars, Pinned!snapshotVars
<1> QED
  BY <1>1, <1>2, <1>3, <1>4, <1>5, <1>6, <1>7, <1>8, <1>9

\* Each instance keeps the invariant of its module.
LEMMA SweepsHold ==
    /\ StoresInit => (part = "sweeps" => Sweeps!StagedInv)
    /\ (part = "sweeps" => Sweeps!StagedInv) /\ [StoresNext]_storesVars
          => (part = "sweeps" => Sweeps!StagedInv)'
<1>1. StoresInit => (part = "sweeps" => Sweeps!StagedInv)
  BY InstancesAssume, PartInit, Sweeps!StagedInit
<1>2. ASSUME part = "sweeps" => Sweeps!StagedInv, [StoresNext]_storesVars, part' = "sweeps"
      PROVE  Sweeps!StagedInv'
  <2>1. Sweeps!StagedInv /\ [Sweeps!Next]_(Sweeps!vars)
    BY <1>2, PartNext
  <2> QED
    BY <2>1, InstancesAssume, Sweeps!StagedInvStep
<1> QED
  BY <1>1, <1>2

LEMMA PagesHold ==
    /\ StoresInit => (part = "collection" => Paging!SweepInv)
    /\ (part = "collection" => Paging!SweepInv) /\ [StoresNext]_storesVars
          => (part = "collection" => Paging!SweepInv)'
<1>1. StoresInit => (part = "collection" => Paging!SweepInv)
  BY InstancesAssume, PartInit, Paging!SweepInvInit
<1>2. ASSUME part = "collection" => Paging!SweepInv, [StoresNext]_storesVars, part' = "collection"
      PROVE  Paging!SweepInv'
  <2>1. Paging!SweepInv /\ [Paging!Next]_(Paging!vars)
    BY <1>2, PartNext
  <2> QED
    BY <2>1, InstancesAssume, Paging!SweepInvStep
<1> QED
  BY <1>1, <1>2

LEMMA FillsHold ==
    /\ StoresInit => (part = "index" => Indexed!FilesInv)
    /\ (part = "index" => Indexed!FilesInv) /\ [StoresNext]_storesVars
          => (part = "index" => Indexed!FilesInv)'
<1>1. StoresInit => (part = "index" => Indexed!FilesInv)
  BY InstancesAssume, PartInit, Indexed!FilesInit
<1>2. ASSUME part = "index" => Indexed!FilesInv, [StoresNext]_storesVars, part' = "index"
      PROVE  Indexed!FilesInv'
  <2>1. Indexed!FilesInv /\ [Indexed!Next]_(Indexed!vars)
    BY <1>2, PartNext
  <2> QED
    BY <2>1, InstancesAssume, Indexed!FilesStep
<1> QED
  BY <1>1, <1>2

LEMMA RebuildHolds ==
    /\ StoresInit => (part = "rebuild" => Rebuild!FilesInv)
    /\ (part = "rebuild" => Rebuild!FilesInv) /\ [StoresNext]_storesVars
          => (part = "rebuild" => Rebuild!FilesInv)'
<1>1. StoresInit => (part = "rebuild" => Rebuild!FilesInv)
  BY InstancesAssume, PartInit, Rebuild!FilesInit
<1>2. ASSUME part = "rebuild" => Rebuild!FilesInv, [StoresNext]_storesVars, part' = "rebuild"
      PROVE  Rebuild!FilesInv'
  <2>1. Rebuild!FilesInv /\ [Rebuild!Next]_(Rebuild!vars)
    BY <1>2, PartNext
  <2> QED
    BY <2>1, InstancesAssume, Rebuild!FilesStep
<1> QED
  BY <1>1, <1>2

LEMMA ViewsHold ==
    /\ StoresInit => (part = "views" => Indexed!HoldInv)
    /\ (part = "views" => Indexed!HoldInv) /\ [StoresNext]_storesVars
          => (part = "views" => Indexed!HoldInv)'
<1>1. StoresInit => (part = "views" => Indexed!HoldInv)
  BY InstancesAssume, PartInit, Indexed!HoldInvInit
<1>2. ASSUME part = "views" => Indexed!HoldInv, [StoresNext]_storesVars, part' = "views"
      PROVE  Indexed!HoldInv'
  <2>1. Indexed!HoldInv /\ [Indexed!ViewNext]_(Indexed!viewVars)
    BY <1>2, PartNext
  <2> QED
    BY <2>1, InstancesAssume, Indexed!HoldInvStep
<1> QED
  BY <1>1, <1>2

ReadsInv ==
    /\ part = "cache" => Cache!ReadInv /\ Cache!TypeOK
    /\ part = "listing" => Listing!ReadInv /\ Listing!TypeOK
    /\ part = "revision" => Revision!ReadInv /\ Revision!TypeOK
    /\ part = "pinned" => Pinned!SnapshotInv

LEMMA ReadsHold ==
    /\ StoresInit => ReadsInv
    /\ ReadsInv /\ [StoresNext]_storesVars => ReadsInv'
<1>1. ASSUME StoresInit PROVE ReadsInv
  <2>1. part = "cache" => Cache!ReadInv /\ Cache!TypeOK
    BY <1>1, InstancesAssume, PartInit, Cache!ReadInvInit, Cache!TypeInit
  <2>2. part = "listing" => Listing!ReadInv /\ Listing!TypeOK
    BY <1>1, InstancesAssume, PartInit, Listing!ReadInvInit, Listing!TypeInit
  <2>3. part = "revision" => Revision!ReadInv /\ Revision!TypeOK
    BY <1>1, InstancesAssume, PartInit, Revision!ReadInvInit, Revision!TypeInit
  <2>4. part = "pinned" => Pinned!SnapshotInv
    BY <1>1, InstancesAssume, PartInit, Pinned!InitPins
  <2> QED
    BY <2>1, <2>2, <2>3, <2>4 DEF ReadsInv
<1>2. ASSUME ReadsInv, [StoresNext]_storesVars PROVE ReadsInv'
  <2>1. ASSUME part' = "cache" PROVE Cache!ReadInv' /\ Cache!TypeOK'
    <3>1. Cache!ReadInv /\ Cache!TypeOK /\ [Cache!Next]_(Cache!vars)
      BY <1>2, <2>1, PartNext DEF ReadsInv
    <3> QED
      BY <3>1, InstancesAssume, Cache!ReadInvStep, Cache!TypeStep
  <2>2. ASSUME part' = "listing" PROVE Listing!ReadInv' /\ Listing!TypeOK'
    <3>1. Listing!ReadInv /\ Listing!TypeOK /\ [Listing!Next]_(Listing!vars)
      BY <1>2, <2>2, PartNext DEF ReadsInv
    <3> QED
      BY <3>1, InstancesAssume, Listing!ReadInvStep, Listing!TypeStep
  <2>3. ASSUME part' = "revision" PROVE Revision!ReadInv' /\ Revision!TypeOK'
    <3>1. Revision!ReadInv /\ Revision!TypeOK /\ [Revision!Next]_(Revision!vars)
      BY <1>2, <2>3, PartNext DEF ReadsInv
    <3> QED
      BY <3>1, InstancesAssume, Revision!ReadInvStep, Revision!TypeStep
  <2>4. ASSUME part' = "pinned" PROVE Pinned!SnapshotInv'
    <3>1. Pinned!SnapshotInv /\ [Pinned!SnapshotNext]_(Pinned!snapshotVars)
      BY <1>2, <2>4, PartNext DEF ReadsInv
    <3> QED
      BY <3>1, InstancesAssume, Pinned!NextPins
  <2> QED
    BY <2>1, <2>2, <2>3, <2>4 DEF ReadsInv
<1> QED
  BY <1>1, <1>2

-----------------------------------------------------------------------------
(* What the runs check of the stores, for every step of every instance.     *)

\* Of every instance the variables keep their types, and only the holder of a
\* lock is between the steps the lock is for (session_store.go, collect.go,
\* publication.go, storeview.go).
THEOREM StoresStayTyped == StoresSpec => []StoresTypeOK
<1>1. StoresInit => StoreInv
  BY StoreInit DEF StoresInit
<1>2. StoreInv /\ [StoresNext]_storesVars => StoreInv'
  <2>1. [StoresNext]_storesVars => [Next]_vars
    <3>1. UNCHANGED logVars => UNCHANGED vars
      BY DEF logVars
    <3> QED
      BY <3>1 DEF StoresNext, storesVars, LogStep, SweepStep, IndexStep, ViewStep, ReadStep
  <2> QED
    BY <2>1, StepKeeps
<1>3. /\ StoreInv /\ (part = "sweeps" => Sweeps!StagedInv)
      /\ (part = "index" => Indexed!FilesInv) /\ (part = "rebuild" => Rebuild!FilesInv)
      /\ (part = "views" => Indexed!HoldInv)
      => StoresTypeOK
  <2>1. StoreInv => TypeOK
    BY DEF StoreInv
  <2>2. part = "sweeps" /\ Sweeps!StagedInv => Sweeps!TypeOK
    BY Sweeps!StagedInvGives
  <2>3. part = "index" /\ Indexed!FilesInv => Indexed!TypeOK
    BY InstancesAssume, Indexed!FilesGive
  <2>4. part = "rebuild" /\ Rebuild!FilesInv => Rebuild!TypeOK
    BY InstancesAssume, Rebuild!FilesGive
  <2>5. part = "views" /\ Indexed!HoldInv => Indexed!ViewTypeOK
    BY InstancesAssume, Indexed!HoldInvTypes
  <2> QED
    BY <2>1, <2>2, <2>3, <2>4, <2>5 DEF StoresTypeOK
<1> QED
  BY <1>1, <1>2, <1>3, SweepsHold, FillsHold, RebuildHolds, ViewsHold, PTL DEF StoresSpec

\* No staged file outlives its session, though two sweeps fail at any step and
\* sessions are written meanwhile (collect.go:27-31, blob_store.go:22-23).
THEOREM SweepsKeepTheStaged == StoresSpec => []StagedKept
<1>1. (part = "sweeps" => Sweeps!StagedInv) => StagedKept
  BY Sweeps!StagedInvGives DEF StagedKept
<1> QED
  BY <1>1, SweepsHold, PTL DEF StoresSpec

\* However old the page it works from, a sweep removes only sessions that are past
\* the retention (collect.go:27-58).
THEOREM SweepsRemoveTheDue == StoresSpec => OnlyDueRemoved
<1>1. ASSUME part = "sweeps" => Sweeps!StagedInv, [StoresNext]_storesVars, part = "sweeps",
             NEW q \in Sweeps!Sessions, status'[q] = "gone"
      PROVE  status[q] \in {"due", "gone"}
  <2>1. Sweeps!SweepInv /\ [Sweeps!Next]_(Sweeps!vars)
    BY <1>1, PartNext DEF Sweeps!StagedInv
  <2> QED
    BY <1>1, <2>1, InstancesAssume, Sweeps!OnlyDueStep
<1>2. (part = "sweeps" => Sweeps!StagedInv) /\ [StoresNext]_storesVars
        => [part = "sweeps" => \A q \in Sweeps!Sessions :
              status'[q] = "gone" => status[q] \in {"due", "gone"}]_storesVars
  BY <1>1
<1> QED
  BY <1>2, SweepsHold, PTL DEF StoresSpec, OnlyDueRemoved

\* A sweep that ran through all its pages removed every session that was due when
\* it began (collect.go:27-58, session_store.go).
THEOREM SweepsAreComplete == StoresSpec => []SweepIsComplete
<1>1. (part = "collection" => Paging!SweepInv) => SweepIsComplete
  BY Paging!SweepInvGives DEF SweepIsComplete
<1> QED
  BY <1>1, PagesHold, PTL DEF StoresSpec

\* Whatever is killed in the middle of a write, every row the manifest names is
\* there, a search finds the rows published when it began, and segments do not
\* pile up (publication.go, segments.go, storeview.go).
THEOREM IndexStaysWhole == StoresSpec => []IndexWhole
<1>1. /\ (part = "index" => Indexed!FilesInv) => (part = "index" =>
            /\ Indexed!ManifestNamesRows /\ Indexed!SearchesPublished /\ Indexed!SegmentsBounded)
      /\ (part = "rebuild" => Rebuild!FilesInv) => (part = "rebuild" => Rebuild!ManifestNamesRows)
  BY InstancesAssume, Indexed!FilesGive, Rebuild!FilesGive
<1>2. (part = "index" => Indexed!FilesInv) /\ (part = "rebuild" => Rebuild!FilesInv) => IndexWhole
  BY <1>1 DEF IndexWhole
<1> QED
  BY <1>2, FillsHold, RebuildHolds, PTL DEF StoresSpec

\* A commit planned from an older manifest loses no version, and a rebuild takes
\* none of another rule (handler_index.go, gc.go).
THEOREM CommitsLoseNothing == StoresSpec => NothingLost
<1>1. ASSUME part = "index" => Indexed!FilesInv, [StoresNext]_storesVars, part = "index"
      PROVE  Indexed!OnlyReplacedLeave
  <2>1. Indexed!IndexInv /\ [Indexed!Next]_(Indexed!vars)
    BY <1>1, PartNext DEF Indexed!FilesInv
  <2> QED
    BY <2>1, InstancesAssume, Indexed!LosesNothing
<1>2. ASSUME part = "rebuild" => Rebuild!FilesInv, [StoresNext]_storesVars, part = "rebuild"
      PROVE  Rebuild!OnlyOwnRuleLeaves
  <2>1. Rebuild!IndexInv /\ [Rebuild!Next]_(Rebuild!vars)
    BY <1>2, PartNext DEF Rebuild!FilesInv
  <2> QED
    BY <2>1, InstancesAssume, Rebuild!OwnRuleLeaves
<1>3. (part = "index" => Indexed!FilesInv) /\ (part = "rebuild" => Rebuild!FilesInv)
        /\ [StoresNext]_storesVars
        => [/\ part = "index" => Indexed!OnlyReplacedLeave
            /\ part = "rebuild" => Rebuild!OnlyOwnRuleLeaves]_storesVars
  BY <1>1, <1>2
<1> QED
  BY <1>3, FillsHold, RebuildHolds, PTL DEF StoresSpec, NothingLost

\* A collection that ran to its end leaves no row without a version, also after
\* writers that died between the rows and the manifest (gc.go).
THEOREM DropsLeaveNoOrphan == StoresSpec => DropLeavesNoOrphan
<1>1. ASSUME part = "index" => Indexed!FilesInv, [StoresNext]_storesVars, part = "index"
      PROVE  Indexed!DropIsComplete
  <2>1. Indexed!IndexInv /\ [Indexed!Next]_(Indexed!vars)
    BY <1>1, PartNext DEF Indexed!FilesInv
  <2> QED
    BY <2>1, InstancesAssume, Indexed!DropsAll
<1>2. (part = "index" => Indexed!FilesInv) /\ [StoresNext]_storesVars
        => [part = "index" => Indexed!DropIsComplete]_storesVars
  BY <1>1
<1> QED
  BY <1>2, FillsHold, PTL DEF StoresSpec, DropLeavesNoOrphan

\* What an open search reads stays mapped, every mapping has as many references
\* as holders, and rows are of the mapped files (storeview.go).
THEOREM MappingsStayHeld == StoresSpec => []MappingsHeld
<1>1. (part = "views" => Indexed!HoldInv) => MappingsHeld
  BY InstancesAssume, Indexed!HoldInvCounts, Indexed!HoldInvMapped DEF MappingsHeld
<1> QED
  BY <1>1, ViewsHold, PTL DEF StoresSpec

\* What a reader takes without reading is what it would have read, a lease keeps
\* its state to the end, and an identity includes the entries it is of
\* (graphcache.go, graph_revision.go, read_snapshot.go).
THEOREM ReadsStayReal == StoresSpec => []ReadsAreReal
<1>1. ReadsInv => ReadsAreReal
  BY Cache!HitsFromInv, Listing!HitsFromInv, Revision!HitsFromInv,
     Pinned!InvPins, Pinned!InvIncludes, Pinned!InvTypes DEF ReadsInv, ReadsAreReal
<1> QED
  BY <1>1, ReadsHold, PTL DEF StoresSpec
=============================================================================
