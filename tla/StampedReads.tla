----------------------------- MODULE StampedReads -----------------------------
(***************************************************************************)
(* Reads of the graph directory that a stat of every file may spare: the   *)
(* graph cache, one file that all processes share, and the revision that   *)
(* each store keeps in memory.  A walk stamps the files, and what was read *)
(* under equal stamps is taken for what the files hold.  Writers take no   *)
(* lock these readers would see: an editor or git may write at any step.   *)
(* A stamp is reduced to the change time, the part of it that a rewrite in *)
(* place of the same size can leave as it was.                             *)
(***************************************************************************)
EXTENDS Naturals

CONSTANTS
    Files,
    Attachments,                    \* those a loader lists rather than reads
    Loaders,                        \* readers that share the graph cache
    Hashers,                        \* stores, each with its revision cache
    Grain,                          \* ticks of a file timestamp
    RacyWindow,
    MaxTime, MaxWrites              \* bounds

StampAssumption ==
    /\ Grain \in Nat \ {0} /\ RacyWindow \in Nat /\ Grain <= RacyWindow
    /\ Attachments \subseteq Files
    /\ MaxTime \in Nat /\ RacyWindow <= MaxTime /\ MaxWrites \in Nat \ {0}

VARIABLES
    clock,
    disk,                           \* [content, ctime] of each file, content 0 where there is none
    saved,                          \* what each cache keeps: [stamps, docs] or Nothing
    reads,                          \* each reader's load
    writes                          \* contents written so far

vars == <<clock, disk, saved, reads, writes>>
Readers == Loaders \cup Hashers
Nothing == <<>>
\* A cache is named by its owner; the loaders' is the file on disk.
CacheFile == "graph cache"
CacheOf(r) == IF r \in Loaders THEN CacheFile ELSE r
\* What a second listing finds: a revision walks the directory again.
Relisted(r) == IF r \in Loaders THEN Attachments ELSE Files

\* A load: when it began, the files not yet visited, the stamps, what it read and,
\* as history, what each file has held since it was visited.
Idle == [at |-> 0, pc |-> "idle", todo |-> {}, stamps |-> <<>>, docs |-> <<>>,
         had |-> [f \in Files |-> {}]]

Init ==
    /\ clock = RacyWindow
    /\ disk = [f \in Files |-> [content |-> 1, ctime |-> 0]]
    /\ saved = [c \in {CacheFile} \cup Hashers |-> Nothing]
    /\ reads = [r \in Readers |-> Idle]
    /\ writes = 1

\* Mutant: a stamp proves a content written in its own tick.
ProvesAtOnce(ctime, now) == ctime <= now
Proves(ctime, now) == ctime + RacyWindow <= now
Proven(load) == \A f \in DOMAIN load.stamps : Proves(load.stamps[f], load.at)

-----------------------------------------------------------------------------
Exists(f) == disk[f].content # 0
With(m, f, value) == [g \in DOMAIN m \cup {f} |-> IF g = f THEN value ELSE m[g]]

Start(r) ==
    /\ reads[r].pc \in {"idle", "done"}
    /\ reads' = [reads EXCEPT ![r] = [Idle EXCEPT !.at = clock, !.pc = "walk", !.todo = Files]]
    /\ UNCHANGED <<clock, disk, saved, writes>>

StampFile(r, f) ==
    /\ reads[r].pc = "walk" /\ f \in reads[r].todo
    /\ reads' = [reads EXCEPT
           ![r].todo = @ \ {f},
           ![r].stamps = IF Exists(f) THEN With(@, f, disk[f].ctime) ELSE @,
           ![r].had[f] = {disk[f].content}]
    /\ UNCHANGED <<clock, disk, saved, writes>>

\* The revision's own stamps are compared whether or not they prove anything.
Hit(r) ==
    LET kept == saved[CacheOf(r)]
    IN /\ kept # Nothing /\ kept.stamps = reads[r].stamps
       /\ r \in Loaders => Proven(reads[r])
UseSaved(r) ==
    /\ reads[r].pc = "walk" /\ reads[r].todo = {} /\ Hit(r)
    /\ reads' = [reads EXCEPT ![r].pc = "done", ![r].docs = saved[CacheOf(r)].docs]
    /\ UNCHANGED <<clock, disk, saved, writes>>
Miss(r) ==
    /\ reads[r].pc = "walk" /\ reads[r].todo = {} /\ ~ Hit(r)
    /\ reads' = [reads EXCEPT ![r].pc = "read",
           ![r].todo = DOMAIN reads[r].stamps \cup Relisted(r)]
    /\ UNCHANGED <<clock, disk, saved, writes>>

ReadFile(r, f) ==
    /\ reads[r].pc = "read" /\ f \in reads[r].todo /\ Exists(f)
    /\ reads' = [reads EXCEPT ![r].todo = @ \ {f}, ![r].docs = With(@, f, disk[f].content)]
    /\ UNCHANGED <<clock, disk, saved, writes>>
\* A file that is gone fails the load, unless it is met by a second listing.
FileGone(r, f) ==
    /\ reads[r].pc = "read" /\ f \in reads[r].todo /\ ~ Exists(f)
    /\ reads' = [reads EXCEPT ![r] = IF f \in Relisted(r) THEN [reads[r] EXCEPT !.todo = @ \ {f}] ELSE Idle]
    /\ UNCHANGED <<clock, disk, saved, writes>>

\* What was read is kept under the stamps taken before; a revision that may not be
\* kept takes the earlier one with it.
Keep(r) ==
    LET load == reads[r]
    IN IF Proven(load) THEN [stamps |-> load.stamps, docs |-> load.docs]
       ELSE IF r \in Loaders THEN saved[CacheOf(r)] ELSE Nothing
Finish(r) ==
    /\ reads[r].pc = "read" /\ reads[r].todo = {}
    /\ saved' = [saved EXCEPT ![CacheOf(r)] = Keep(r)]
    /\ reads' = [reads EXCEPT ![r] = Idle]
    /\ UNCHANGED <<clock, disk, writes>>
\* A process ends: the cache file stays, the revision in memory does not.
Stop(r) ==
    /\ reads' = [reads EXCEPT ![r] = Idle]
    /\ saved' = IF r \in Hashers THEN [saved EXCEPT ![r] = Nothing] ELSE saved
    /\ UNCHANGED <<clock, disk, writes>>

-----------------------------------------------------------------------------
Tick == clock < MaxTime /\ clock' = clock + 1 /\ UNCHANGED <<disk, saved, reads, writes>>
Put(f, content) ==
    /\ disk' = [disk EXCEPT ![f] = [content |-> content, ctime |-> clock - (clock % Grain)]]
    /\ reads' = [r \in Readers |->
           IF reads[r].had[f] = {} THEN reads[r] ELSE [reads[r] EXCEPT !.had[f] = @ \cup {content}]]
    /\ UNCHANGED <<clock, saved>>
Write(f) == writes < MaxWrites /\ writes' = writes + 1 /\ Put(f, writes + 1)
Remove(f) == Exists(f) /\ Put(f, 0) /\ UNCHANGED writes

Next ==
    \/ \E r \in Readers :
        \/ Start(r) \/ UseSaved(r) \/ Miss(r) \/ Finish(r) \/ Stop(r)
        \/ \E f \in Files : StampFile(r, f) \/ ReadFile(r, f) \/ FileGone(r, f)
    \/ Tick
    \/ \E f \in Files : Write(f) \/ Remove(f)
Spec == Init /\ [][Next]_vars
-----------------------------------------------------------------------------
TypeOK ==
    /\ clock \in 0 .. MaxTime /\ writes \in 0 .. MaxWrites
    /\ \A f \in Files : disk[f].content <= writes /\ disk[f].ctime <= clock
    /\ \A r \in Readers : reads[r].pc \in {"idle", "walk", "read", "done"}

\* A load that is spared returns, for every file it stamped, what the file has held
\* since: no write went unnoticed (graphcache.Load, revisionCache.current).
Held(load, f) == IF f \in DOMAIN load.docs THEN load.docs[f] ELSE 0
HitsAreReal ==
    \A r \in Readers : reads[r].pc = "done" =>
        \A f \in DOMAIN reads[r].stamps : Held(reads[r], f) \in reads[r].had[f]

\* Found not to hold: the same of every file.
HitsAreExact ==
    \A r \in Readers : reads[r].pc = "done" =>
        \A f \in Files : Held(reads[r], f) \in reads[r].had[f]
=============================================================================
