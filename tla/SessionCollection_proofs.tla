----------------------- MODULE SessionCollection_proofs -----------------------
(* What sweeping and staging guarantee of the sessions' files, for any number  *)
(* of sessions, processes and pages.  CollectionAssumption is the module's own *)
(* assumption on its constants, stated with each theorem.                      *)
EXTENDS SessionCollection, FiniteSetTheorems, TLAPS

-----------------------------------------------------------------------------
(* The inductive invariants.                                                 *)

\* A sweep only holds sessions that were due when it read their logs.
PagesDue ==
    \A w \in Sweepers :
        /\ \A s \in sweep[w].page \cup sweep[w].due : status[s] \in {"due", "gone"}
        /\ sweep[w].at \in {"blobs", "log"} => sweep[w].page # {}

\* A session a sweep owes is removed, on its page, or still to be listed: in
\* this listing, or after the cursor in a later one.
Owed(w) ==
    LET sw == sweep[w]
        Later(s) == CASE sw.at = "list" -> s \in sw.todo
                      [] sw.at \in {"collect", "blobs", "log"} -> sw.after # 0 /\ s > sw.after
                      [] OTHER -> FALSE
    IN  /\ sw.at # "idle" => \A s \in sw.due : status[s] = "gone" \/ s \in sw.page \/ Later(s)
        /\ sw.at = "list" => /\ \A s \in sw.todo : s > sw.after
                             /\ sw.listed > 0 => sw.after # 0
        /\ sw.at = "swept" => sw.page = {}

SweepInv == TypeOK /\ PagesDue /\ \A w \in Sweepers : Owed(w)

\* A call stages only for a session that is not due.
StagingLives ==
    \A c \in Clients : staging[c] # None => status[staging[c].session] \in {"open", "ended"}

\* The directories of a session go before its log, and do not come back.
Emptied ==
    /\ NothingOutlivesItsSession
    /\ \A w \in Sweepers :
        /\ sweep[w].at = "blobs" =>
              \A place \in Locations \ sweep[w].places : area[place][Min(sweep[w].page)] = None
        /\ sweep[w].at = "log" =>
              \A place \in Locations : area[place][Min(sweep[w].page)] = None

\* What a staging call stored is in the first location, and what a handle of a
\* session that is not due names is somewhere.
Kept ==
    /\ \A c \in Clients : staging[c] # None /\ staging[c].blob # None =>
          staging[c].blob \in In("primary", staging[c].session)
    /\ \A s \in Sessions : status[s] \notin {"due", "gone"} /\ handle[s] # None =>
          handle[s] \in In("primary", s) \cup In("legacy", s)

StagedInv == SweepInv /\ StagingLives /\ Emptied /\ Kept

-----------------------------------------------------------------------------
\* Min picks a smallest element: among the initial segments of S, which are
\* finite, one has no smaller one below it.
LEMMA MinIsLeast ==
    ASSUME NEW S \in SUBSET Nat, S # {}
    PROVE  Min(S) \in S /\ \A t \in S : Min(S) <= t
<1> DEFINE UpTo(s) == {t \in S : t <= s}
           Segments == {UpTo(s) : s \in S}
<1>1. Segments \subseteq FiniteSubsetsOf(Nat)
  <2>1. SUFFICES ASSUME NEW s \in S PROVE UpTo(s) \in FiniteSubsetsOf(Nat)
        OBVIOUS
  <2>2. IsFiniteSet(UpTo(s))
    <3>1. s \in Nat /\ UpTo(s) \in SUBSET Nat /\ \A t \in UpTo(s) : t <= s
          OBVIOUS
    <3> HIDE DEF UpTo
    <3> QED BY <3>1, FS_BoundedSetOfNaturals
  <2> QED BY <2>2 DEF FiniteSubsetsOf
<1>2. Segments # {}
      OBVIOUS
<1>3. \E a \in Segments : \A b \in Segments : <<b, a>> \notin StrictSubsetOrdering(Nat)
  <2> HIDE DEF Segments
  <2> QED BY <1>1, <1>2, FS_StrictSubsetOrderingWellFounded, WFMin
<1>4. PICK s \in S : \A b \in Segments : <<b, UpTo(s)>> \notin StrictSubsetOrdering(Nat)
      BY <1>3
<1>5. \A t \in S : s <= t
  <2>1. SUFFICES ASSUME NEW t \in S, t < s PROVE FALSE
        OBVIOUS
  <2>2. UpTo(t) \subseteq UpTo(s) /\ s \in UpTo(s) /\ s \notin UpTo(t)
    <3>1. s \in Nat /\ t \in Nat
          OBVIOUS
    <3>2. s <= s /\ ~ (s <= t)
          BY <2>1, <3>1
    <3>3. \A u \in S : u <= t => u <= s
          BY <2>1, <3>1
    <3> QED BY <3>2, <3>3
  <2>3. UpTo(t) \in SUBSET Nat /\ UpTo(s) \in SUBSET Nat
        OBVIOUS
  <2>4. <<UpTo(t), UpTo(s)>> \in StrictSubsetOrdering(Nat)
    <3> HIDE DEF UpTo
    <3> QED BY <2>2, <2>3 DEF StrictSubsetOrdering
  <2> QED BY <1>4, <2>4
<1> QED BY <1>5 DEF Min
-----------------------------------------------------------------------------
(* What each step makes of its sweep.                                        *)
LEMMA PutOne ==
    ASSUME TypeOK, NEW w \in Sweepers, NEW c, Put(w, c)
    PROVE  /\ sweep'[w] = c
           /\ \A v \in Sweepers : v # w => sweep'[v] = sweep[v]
           /\ c \in Sweeps => sweep' \in [Sweepers -> Sweeps]
    BY DEF TypeOK, Put

LEMMA Fields ==
    ASSUME TypeOK, CollectionAssumption, NEW w \in Sweepers
    PROVE  /\ sweep[w] \in Sweeps
           /\ sweep[w].at \in Phases /\ sweep[w].after \in 0..NumSessions
           /\ sweep[w].todo \in SUBSET Sessions /\ sweep[w].listed \in 0..Limit
           /\ sweep[w].page \in SUBSET Sessions /\ sweep[w].places \in SUBSET Locations
           /\ sweep[w].due \in SUBSET Sessions
    BY DEF TypeOK, Sweeps

LEMMA NoSweepTyped == CollectionAssumption => NoSweep \in Sweeps
    BY DEF NoSweep, Sweeps, Phases, CollectionAssumption

LEMMA MinOf ==
    ASSUME NEW S \in SUBSET Sessions, S # {}, CollectionAssumption
    PROVE  Min(S) \in S /\ Min(S) \in Sessions /\ \A t \in S : Min(S) <= t
<1>1. S \in SUBSET Nat
      BY DEF Sessions, CollectionAssumption
<1> QED BY <1>1, MinIsLeast

LEMMA AfterBegin ==
    ASSUME TypeOK, CollectionAssumption, NEW w \in Sweepers, BeginSweep(w)
    PROVE  /\ sweep'[w] \in Sweeps /\ sweep'[w].at = "list" /\ sweep'[w].after = 0
           /\ sweep'[w].listed = 0 /\ sweep'[w].page = {} /\ sweep'[w].todo = Stored
           /\ sweep'[w].due = {s \in Sessions : status[s] = "due"}
<1> DEFINE D == {s \in Sessions : status[s] = "due"}
           c == [NoSweep EXCEPT !.at = "list", !.todo = Stored, !.due = D]
<1>1. sweep'[w] = c
  <2>1. Put(w, c)
        BY DEF BeginSweep
  <2> HIDE DEF c
  <2> QED BY <2>1, PutOne
<1>2. c.at = "list" /\ c.after = 0 /\ c.listed = 0 /\ c.page = {} /\ c.todo = Stored
      /\ c.due = D
  <2> HIDE DEF D
  <2> QED BY DEF NoSweep
<1>3. c \in Sweeps
  <2>1. D \in SUBSET Sessions /\ Stored \in SUBSET Sessions /\ NoSweep \in Sweeps
        BY NoSweepTyped DEF Stored
  <2> HIDE DEF D
  <2> QED BY <2>1 DEF Sweeps, Phases
<1> QED BY <1>1, <1>2, <1>3

LEMMA AfterListed ==
    ASSUME TypeOK, CollectionAssumption, NEW w \in Sweepers, ListLog(w)
    PROVE  LET s == Min(sweep[w].todo)
           IN  /\ s \in sweep[w].todo /\ s \in Sessions /\ \A t \in sweep[w].todo : s <= t
               /\ sweep'[w] \in Sweeps /\ sweep'[w].at = "list" /\ sweep'[w].after = s
               /\ sweep'[w].todo = sweep[w].todo \ {s} /\ sweep'[w].due = sweep[w].due
               /\ sweep'[w].page = sweep[w].page \cup {t \in {s} : status[t] = "due"}
<1> DEFINE s == Min(sweep[w].todo)
           n == sweep[w].listed + IF status[s] \in {"open", "ended", "due"} THEN 1 ELSE 0
           c == [sweep[w] EXCEPT !.todo = @ \ {s}, !.after = s, !.listed = n,
                     !.page = @ \cup {t \in {s} : status[t] = "due"}]
<1>1. s \in sweep[w].todo /\ s \in Sessions /\ \A t \in sweep[w].todo : s <= t
      BY Fields, MinOf DEF ListLog
<1>2. sweep'[w] = c
  <2>1. Put(w, c)
        BY Fields DEF ListLog, Sweeps
  <2> HIDE DEF c
  <2> QED BY <2>1, PutOne
<1>3. n \in 0..Limit
  <2>1. sweep[w].listed \in 0..Limit /\ sweep[w].listed < Limit /\ Limit \in Nat
        BY Fields DEF ListLog, CollectionAssumption
  <2> HIDE DEF s
  <2> QED BY <2>1
<1>4. s \in 0..NumSessions
      BY <1>1 DEF Sessions, CollectionAssumption
<1>5. sweep[w].page \cup {t \in {s} : status[t] = "due"} \in SUBSET Sessions
      BY <1>1, Fields
<1>6. c \in Sweeps /\ c.at = "list" /\ c.after = s /\ c.todo = sweep[w].todo \ {s}
      /\ c.due = sweep[w].due
      /\ c.page = sweep[w].page \cup {t \in {s} : status[t] = "due"}
  <2>1. sweep[w] \in Sweeps /\ sweep[w].at = "list"
        BY Fields DEF ListLog
  <2>2. sweep[w].todo \ {s} \in SUBSET Sessions
        BY Fields
  <2> HIDE DEF s, n
  <2> QED BY <1>3, <1>4, <1>5, <2>1, <2>2 DEF Sweeps
<1> QED BY <1>1, <1>2, <1>6

LEMMA AfterEndList ==
    ASSUME TypeOK, CollectionAssumption, NEW w \in Sweepers, EndList(w)
    PROVE  /\ sweep'[w] \in Sweeps /\ sweep'[w].at = "collect"
           /\ sweep'[w].after = (IF sweep[w].todo = {} THEN 0 ELSE sweep[w].after)
           /\ sweep'[w].page = sweep[w].page /\ sweep'[w].due = sweep[w].due
<1> DEFINE cursor == IF sweep[w].todo = {} THEN 0 ELSE sweep[w].after
           c == [sweep[w] EXCEPT !.at = "collect", !.todo = {}, !.listed = 0, !.after = cursor]
<1>1. Put(w, c)
      BY Fields DEF EndList, Sweeps
<1>2. cursor \in 0..NumSessions
      BY Fields DEF CollectionAssumption
<1>3. c \in Sweeps /\ c.at = "collect" /\ c.after = cursor /\ c.page = sweep[w].page
      /\ c.due = sweep[w].due
  <2>1. sweep[w] \in Sweeps /\ 0 \in 0..Limit
        BY Fields DEF CollectionAssumption
  <2> HIDE DEF cursor
  <2> QED BY <1>2, <2>1 DEF Sweeps, Phases
<1>4. sweep'[w] = c
  <2> HIDE DEF c
  <2> QED BY <1>1, PutOne
<1> QED BY <1>3, <1>4

LEMMA AfterTake ==
    ASSUME TypeOK, CollectionAssumption, NEW w \in Sweepers, TakeSession(w)
    PROVE  /\ sweep'[w] \in Sweeps /\ sweep'[w].at = "blobs" /\ sweep'[w].places = Locations
           /\ sweep'[w].page = sweep[w].page /\ sweep'[w].due = sweep[w].due
           /\ sweep'[w].after = sweep[w].after
<1> DEFINE c == [sweep[w] EXCEPT !.at = "blobs", !.places = Locations]
<1>1. c \in Sweeps /\ c.at = "blobs" /\ c.places = Locations /\ c.page = sweep[w].page
      /\ c.due = sweep[w].due /\ c.after = sweep[w].after
  <2>1. sweep[w] \in Sweeps
        BY Fields
  <2> QED BY <2>1 DEF Sweeps, Phases
<1>2. sweep'[w] = c
  <2>1. Put(w, c)
        BY DEF TakeSession
  <2> HIDE DEF c
  <2> QED BY <2>1, PutOne
<1> QED BY <1>1, <1>2

LEMMA AfterNextPage ==
    ASSUME TypeOK, CollectionAssumption, NEW w \in Sweepers, NextPage(w)
    PROVE  /\ sweep'[w] \in Sweeps
           /\ sweep'[w].page = sweep[w].page /\ sweep'[w].due = sweep[w].due
           /\ sweep'[w].after = sweep[w].after /\ sweep'[w].listed = sweep[w].listed
           /\ sweep[w].after = 0 => sweep'[w].at = "swept"
           /\ sweep[w].after # 0 => /\ sweep'[w].at = "list"
                                    /\ sweep'[w].todo = {s \in Stored : s > sweep[w].after}
<1> DEFINE T == {s \in Stored : s > sweep[w].after}
           last == [sweep[w] EXCEPT !.at = "swept"]
           more == [sweep[w] EXCEPT !.at = "list", !.todo = T]
<1>1. sweep'[w] = IF sweep[w].after = 0 THEN last ELSE more
      BY PutOne DEF NextPage
<1>2. last \in Sweeps /\ last.at = "swept" /\ last.page = sweep[w].page /\ last.due = sweep[w].due
      /\ last.after = sweep[w].after /\ last.listed = sweep[w].listed
      BY Fields DEF Sweeps, Phases
<1>3. more \in Sweeps /\ more.at = "list" /\ more.page = sweep[w].page /\ more.due = sweep[w].due
      /\ more.after = sweep[w].after /\ more.listed = sweep[w].listed /\ more.todo = T
  <2>1. T \in SUBSET Sessions
        BY DEF Stored
  <2> HIDE DEF T
  <2> QED BY <2>1, Fields DEF Sweeps, Phases
<1> QED BY <1>1, <1>2, <1>3

LEMMA AfterArea ==
    ASSUME TypeOK, CollectionAssumption, NEW w \in Sweepers,
           NEW place \in sweep[w].places,
           Put(w, [sweep[w] EXCEPT !.places = @ \ {place},
                      !.at = IF sweep[w].places = {place} THEN "log" ELSE "blobs"])
    PROVE  /\ sweep'[w] \in Sweeps
           /\ sweep'[w].at = (IF sweep[w].places = {place} THEN "log" ELSE "blobs")
           /\ sweep'[w].places = sweep[w].places \ {place}
           /\ sweep'[w].page = sweep[w].page /\ sweep'[w].due = sweep[w].due
           /\ sweep'[w].after = sweep[w].after
<1> DEFINE phase == IF sweep[w].places = {place} THEN "log" ELSE "blobs"
           P == sweep[w].places \ {place}
           c == [sweep[w] EXCEPT !.places = P, !.at = phase]
<1>1. Put(w, c)
      BY Fields DEF Sweeps
<1>2. c \in Sweeps /\ c.at = phase /\ c.places = P /\ c.page = sweep[w].page
      /\ c.due = sweep[w].due /\ c.after = sweep[w].after
  <2>1. phase \in Phases /\ P \in SUBSET Locations
        BY Fields DEF Phases
  <2> HIDE DEF phase, P
  <2> QED BY <2>1, Fields DEF Sweeps
<1>3. sweep'[w] = c
  <2> HIDE DEF c
  <2> QED BY <1>1, PutOne
<1> QED BY <1>2, <1>3

LEMMA AfterLog ==
    ASSUME TypeOK, CollectionAssumption, NEW w \in Sweepers, DeleteLog(w)
    PROVE  /\ sweep'[w] \in Sweeps /\ sweep'[w].at = "collect"
           /\ sweep'[w].page = sweep[w].page \ {Min(sweep[w].page)}
           /\ sweep'[w].due = sweep[w].due /\ sweep'[w].after = sweep[w].after
<1> DEFINE P == sweep[w].page \ {Min(sweep[w].page)}
           c == [sweep[w] EXCEPT !.page = P, !.at = "collect"]
<1>1. Put(w, c)
      BY Fields DEF DeleteLog, Sweeps
<1>2. c \in Sweeps /\ c.at = "collect" /\ c.page = P
      /\ c.due = sweep[w].due /\ c.after = sweep[w].after
  <2>1. P \in SUBSET Sessions
        BY Fields
  <2> HIDE DEF P
  <2> QED BY <2>1, Fields DEF Sweeps, Phases
<1>3. sweep'[w] = c
  <2> HIDE DEF c
  <2> QED BY <1>1, PutOne
<1> QED BY <1>2, <1>3

\* A sweep that fails or ends holds nothing.
LEMMA AfterEnd ==
    ASSUME TypeOK, CollectionAssumption, NEW w \in Sweepers, Put(w, NoSweep)
    PROVE  /\ sweep'[w] \in Sweeps /\ sweep'[w].at = "idle"
           /\ sweep'[w].page = {} /\ sweep'[w].due = {}
<1>1. sweep'[w] = NoSweep
      BY PutOne
<1> QED BY <1>1, NoSweepTyped DEF NoSweep
-----------------------------------------------------------------------------
(* Types.                                                                    *)
LEMMA AreaTyped ==
    ASSUME TypeOK, CollectionAssumption, NEW place \in Locations, NEW s \in Sessions
    PROVE  /\ In(place, s) \in SUBSET Blobs
           /\ area[place][s] = None => In(place, s) = {}
           /\ area[place][s] # None => In(place, s) = area[place][s]
    BY DEF TypeOK, In

LEMMA AreaChanged ==
    ASSUME TypeOK, NEW place \in Locations, NEW s \in Sessions,
           NEW x \in (SUBSET Blobs) \cup {None}, area' = [area EXCEPT ![place][s] = x]
    PROVE  /\ area' \in [Locations -> [Sessions -> (SUBSET Blobs) \cup {None}]]
           /\ area'[place][s] = x
           /\ \A l \in Locations, t \in Sessions :
                l # place \/ t # s => area'[l][t] = area[l][t]
    BY DEF TypeOK

LEMMA StagingFields ==
    ASSUME TypeOK, CollectionAssumption, NEW c \in Clients, staging[c] # None
    PROVE  /\ staging[c].session \in Sessions /\ staging[c].blob \in Blobs \cup {None}
           /\ staging[c] = [session |-> staging[c].session, blob |-> staging[c].blob]
    BY DEF TypeOK

LEMMA TypeInit == CollectionAssumption /\ Init => TypeOK
<1> SUFFICES ASSUME CollectionAssumption, Init PROVE TypeOK
    OBVIOUS
<1>1. status \in [Sessions -> Statuses]
      BY DEF Init, Statuses
<1>2. nextBlob \in 1..(MaxBlobs + 1)
      BY DEF Init, CollectionAssumption
<1>3. staging \in [Clients -> {None} \cup [session : Sessions, blob : Blobs \cup {None}]]
      BY DEF Init
<1>4. sweep \in [Sweepers -> Sweeps]
      BY NoSweepTyped DEF Init
<1>5. PICK old \in SUBSET {s \in Sessions : Upgraded /\ status[s] # "absent"} :
         /\ area = [l \in Locations |-> [s \in Sessions |->
                      IF l = "legacy" /\ s \in old THEN {OldBlobs[s]} ELSE None]]
         /\ handle = [s \in Sessions |-> IF s \in old THEN OldBlobs[s] ELSE None]
      BY DEF Init
<1>6. \A s \in Sessions : OldBlobs[s] \in Blobs
      BY DEF OldBlobs, Blobs, Sessions, CollectionAssumption
<1>7. handle \in [Sessions -> Blobs \cup {None}]
      BY <1>5, <1>6
<1>8. area \in [Locations -> [Sessions -> (SUBSET Blobs) \cup {None}]]
      BY <1>5, <1>6
<1> QED BY <1>1, <1>2, <1>3, <1>4, <1>7, <1>8 DEF TypeOK

LEMMA NextBlobTyped ==
    ASSUME TypeOK, CollectionAssumption, nextBlob <= MaxBlobs
    PROVE  nextBlob \in Blobs /\ nextBlob + 1 \in 1..(MaxBlobs + 1) /\ nextBlob # None
<1>1. nextBlob \in Blobs /\ nextBlob + 1 \in 1..(MaxBlobs + 1)
      BY DEF TypeOK, CollectionAssumption, Blobs
<1> QED BY <1>1 DEF CollectionAssumption

LEMMA TypeDialogue ==
    ASSUME TypeOK, CollectionAssumption,
           \/ \E s \in Sessions : OpenSession(s) \/ EndSession(s) \/ ComeDue(s)
           \/ \E c \in Clients : \/ \E s \in Sessions : BeginStaging(c, s)
                                 \/ StageBlob(c) \/ RecordStaged(c) \/ StagingDies(c)
    PROVE  TypeOK'
<1>1. ASSUME NEW s \in Sessions, OpenSession(s) \/ EndSession(s) \/ ComeDue(s) PROVE TypeOK'
      BY <1>1 DEF OpenSession, EndSession, ComeDue, TypeOK, Statuses
<1>2. ASSUME NEW c \in Clients, NEW s \in Sessions, BeginStaging(c, s) PROVE TypeOK'
      BY <1>2 DEF BeginStaging, TypeOK
<1>3. ASSUME NEW c \in Clients, StageBlob(c) PROVE TypeOK'
  <2> DEFINE s == staging[c].session
  <2>1. s \in Sessions /\ staging[c] = [session |-> s, blob |-> staging[c].blob]
        BY <1>3, StagingFields DEF StageBlob
  <2>2. nextBlob \in Blobs /\ nextBlob + 1 \in 1..(MaxBlobs + 1)
        BY <1>3, NextBlobTyped DEF StageBlob
  <2>3. In("primary", s) \cup {nextBlob} \in (SUBSET Blobs) \cup {None}
        BY <2>1, <2>2, AreaTyped DEF Locations
  <2>4. area' \in [Locations -> [Sessions -> (SUBSET Blobs) \cup {None}]]
    <3>1. area' = [area EXCEPT !["primary"][s] = In("primary", s) \cup {nextBlob}]
          BY <1>3 DEF StageBlob
    <3> QED BY <2>1, <2>3, <3>1, AreaChanged DEF Locations
  <2>5. staging' \in [Clients -> {None} \cup [session : Sessions, blob : Blobs \cup {None}]]
    <3>1. [staging[c] EXCEPT !.blob = nextBlob] \in [session : Sessions, blob : Blobs \cup {None}]
          BY <2>1, <2>2
    <3>2. staging' = [staging EXCEPT ![c] = [staging[c] EXCEPT !.blob = nextBlob]]
          BY <1>3 DEF StageBlob
    <3> QED BY <3>1, <3>2 DEF TypeOK
  <2> QED BY <1>3, <2>2, <2>4, <2>5 DEF StageBlob, TypeOK
<1>4. ASSUME NEW c \in Clients, RecordStaged(c) PROVE TypeOK'
  <2>1. staging[c].session \in Sessions /\ staging[c].blob \in Blobs
        BY <1>4, StagingFields DEF RecordStaged
  <2> QED BY <1>4, <2>1 DEF RecordStaged, TypeOK
<1>5. ASSUME NEW c \in Clients, StagingDies(c) PROVE TypeOK'
  <2> DEFINE s == staging[c].session
  <2>1. s \in Sessions
        BY <1>5, StagingFields DEF StagingDies
  <2>2. area' \in [Locations -> [Sessions -> (SUBSET Blobs) \cup {None}]]
    <3>1. In("primary", s) \in (SUBSET Blobs) \cup {None}
          BY <2>1, AreaTyped DEF Locations
    <3>2. area' = area \/ area' = [area EXCEPT !["primary"][s] = In("primary", s)]
          BY <1>5 DEF StagingDies
    <3> HIDE DEF s
    <3> QED BY <2>1, <3>1, <3>2, AreaChanged DEF Locations, TypeOK
  <2> QED BY <1>5, <2>2 DEF StagingDies, TypeOK
<1> QED BY <1>1, <1>2, <1>3, <1>4, <1>5

\* What DeleteArea does to the directories.
LEMMA AfterDelete ==
    ASSUME TypeOK, CollectionAssumption, NEW w \in Sweepers, sweep[w].page # {},
           DeleteArea(w)
    PROVE  \E place \in sweep[w].places :
             LET s == Min(sweep[w].page)
             IN  /\ s \in Sessions /\ s \in sweep[w].page /\ place \in Locations
                 /\ area' \in [Locations -> [Sessions -> (SUBSET Blobs) \cup {None}]]
                 /\ area'[place][s] = None
                 /\ \A l \in Locations, t \in Sessions :
                      l # place \/ t # s => area'[l][t] = area[l][t]
                 /\ sweep'[w] \in Sweeps
                 /\ sweep'[w].at = (IF sweep[w].places = {place} THEN "log" ELSE "blobs")
                 /\ sweep'[w].places = sweep[w].places \ {place}
                 /\ sweep'[w].page = sweep[w].page /\ sweep'[w].due = sweep[w].due
                 /\ sweep'[w].after = sweep[w].after
<1> DEFINE s == Min(sweep[w].page)
<1>1. PICK place \in sweep[w].places :
         /\ area' = [area EXCEPT ![place][s] = None]
         /\ Put(w, [sweep[w] EXCEPT !.places = @ \ {place},
                      !.at = IF sweep[w].places = {place} THEN "log" ELSE "blobs"])
      BY DEF DeleteArea
<1>2. s \in Sessions /\ s \in sweep[w].page /\ place \in Locations
      BY Fields, MinOf
<1>3. /\ area' \in [Locations -> [Sessions -> (SUBSET Blobs) \cup {None}]]
      /\ area'[place][s] = None
      /\ \A l \in Locations, t \in Sessions :
            l # place \/ t # s => area'[l][t] = area[l][t]
  <2> HIDE DEF s
  <2>1. area' = [area EXCEPT ![place][s] = None]
        BY <1>1
  <2>2. area \in [Locations -> [Sessions -> (SUBSET Blobs) \cup {None}]]
        BY DEF TypeOK
  <2>3. PICK dirs : dirs = [area[place] EXCEPT ![s] = None]
        OBVIOUS
  <2>4. /\ dirs \in [Sessions -> (SUBSET Blobs) \cup {None}] /\ dirs[s] = None
        /\ \A t \in Sessions : t # s => dirs[t] = area[place][t]
        BY <1>2, <2>2, <2>3
  <2>5. area' = [area EXCEPT ![place] = dirs]
        BY <2>1, <2>3
  <2>6. /\ area' \in [Locations -> [Sessions -> (SUBSET Blobs) \cup {None}]]
        /\ area'[place] = dirs /\ \A l \in Locations : l # place => area'[l] = area[l]
        BY <1>2, <2>2, <2>4, <2>5
  <2> QED BY <2>4, <2>6
<1>4. /\ sweep'[w] \in Sweeps
      /\ sweep'[w].at = (IF sweep[w].places = {place} THEN "log" ELSE "blobs")
      /\ sweep'[w].places = sweep[w].places \ {place}
      /\ sweep'[w].page = sweep[w].page /\ sweep'[w].due = sweep[w].due
      /\ sweep'[w].after = sweep[w].after
      BY <1>1, AfterArea
<1> QED BY <1>2, <1>3, <1>4

\* What a failing sweep does to them.
LEMMA AfterFailure ==
    ASSUME TypeOK, CollectionAssumption, NEW w \in Sweepers,
           sweep[w].at \in {"blobs", "log"} => sweep[w].page # {}, SweepFails(w)
    PROVE  /\ area' \in [Locations -> [Sessions -> (SUBSET Blobs) \cup {None}]]
           /\ \/ area' = area
              \/ LET s == Min(sweep[w].page)
                 IN  /\ s \in sweep[w].page /\ s \in Sessions
                     /\ \A l \in Locations, t \in Sessions :
                          t # s \/ area[l][t] = None => area'[l][t] = area[l][t]
           /\ sweep'[w] \in Sweeps /\ sweep'[w].at = "idle"
           /\ sweep'[w].page = {} /\ sweep'[w].due = {}
<1> DEFINE s == Min(sweep[w].page)
<1>1. /\ sweep'[w] \in Sweeps /\ sweep'[w].at = "idle"
      /\ sweep'[w].page = {} /\ sweep'[w].due = {}
      BY AfterEnd DEF SweepFails
<1>2. CASE area' = area
      BY <1>1, <1>2 DEF TypeOK
<1>3. CASE area' # area
  <2>1. sweep[w].at = "blobs" /\ sweep[w].page # {}
        BY <1>3 DEF SweepFails
  <2>2. s \in sweep[w].page /\ s \in Sessions
        BY <2>1, Fields, MinOf
  <2>3. PICK place \in sweep[w].places : \E rest \in SUBSET In(place, s) :
           area[place][s] # None /\ area' = [area EXCEPT ![place][s] = rest]
        BY <1>3 DEF SweepFails
  <2>4. PICK rest \in SUBSET In(place, s) :
           area[place][s] # None /\ area' = [area EXCEPT ![place][s] = rest]
        BY <2>3
  <2>5. place \in Locations
        BY Fields
  <2>6. rest \in (SUBSET Blobs) \cup {None}
        BY <2>2, <2>5, AreaTyped
  <2>7. /\ area' \in [Locations -> [Sessions -> (SUBSET Blobs) \cup {None}]]
        /\ \A l \in Locations, t \in Sessions :
             l # place \/ t # s => area'[l][t] = area[l][t]
    <3>1. s \in Sessions /\ area' = [area EXCEPT ![place][s] = rest]
          BY <2>2, <2>4
    <3> HIDE DEF s
    <3> QED BY <3>1, <2>5, <2>6, AreaChanged
  <2>8. \A l \in Locations, t \in Sessions :
           t # s \/ area[l][t] = None => area'[l][t] = area[l][t]
        BY <2>4, <2>7
  <2> QED BY <1>1, <2>2, <2>7, <2>8
<1> QED BY <1>2, <1>3

LEMMA TypeSweep ==
    ASSUME TypeOK, CollectionAssumption, NEW w \in Sweepers,
           sweep[w].at \in {"blobs", "log"} => sweep[w].page # {},
           \/ BeginSweep(w) \/ ListLog(w) \/ EndList(w) \/ TakeSession(w)
           \/ NextPage(w) \/ DeleteArea(w) \/ DeleteLog(w) \/ SweepFails(w) \/ EndSweep(w)
    PROVE  TypeOK' /\ \A v \in Sweepers : v # w => sweep'[v] = sweep[v]
<1>1. ASSUME NEW c, c \in Sweeps, Put(w, c),
             UNCHANGED <<handle, nextBlob, staging>>,
             status' \in [Sessions -> Statuses],
             area' \in [Locations -> [Sessions -> (SUBSET Blobs) \cup {None}]]
      PROVE  TypeOK' /\ \A v \in Sweepers : v # w => sweep'[v] = sweep[v]
  <2>1. sweep' \in [Sweepers -> Sweeps] /\ \A v \in Sweepers : v # w => sweep'[v] = sweep[v]
        BY <1>1, PutOne
  <2> QED BY <1>1, <2>1 DEF TypeOK
<1>2. ASSUME BeginSweep(w) \/ ListLog(w) \/ EndList(w) \/ TakeSession(w)
             \/ NextPage(w) \/ DeleteArea(w) \/ DeleteLog(w) \/ SweepFails(w) \/ EndSweep(w)
      PROVE  Put(w, sweep'[w])
  <2>1. \E c : Put(w, c)
        BY <1>2 DEF BeginSweep, ListLog, EndList, TakeSession, NextPage, DeleteArea,
                    DeleteLog, SweepFails, EndSweep
  <2> QED BY <2>1, PutOne
<1>3. CASE BeginSweep(w) \/ ListLog(w) \/ EndList(w) \/ TakeSession(w) \/ NextPage(w)
  <2>1. sweep'[w] \in Sweeps
        BY <1>3, AfterBegin, AfterListed, AfterEndList, AfterTake, AfterNextPage
  <2>2. UNCHANGED <<status, area, handle, nextBlob, staging>>
        BY <1>3 DEF BeginSweep, ListLog, EndList, TakeSession, NextPage
  <2> QED BY <1>1, <1>2, <1>3, <2>1, <2>2 DEF TypeOK
<1>4. CASE DeleteArea(w)
  <2>1. /\ sweep'[w] \in Sweeps
        /\ area' \in [Locations -> [Sessions -> (SUBSET Blobs) \cup {None}]]
        BY <1>4, AfterDelete DEF DeleteArea
  <2> QED BY <1>1, <1>2, <1>4, <2>1 DEF TypeOK, DeleteArea
<1>5. CASE DeleteLog(w)
  <2>1. sweep'[w] \in Sweeps
        BY <1>5, AfterLog
  <2>2. status' \in [Sessions -> Statuses]
        BY <1>5 DEF DeleteLog, TypeOK, Statuses
  <2> QED BY <1>1, <1>2, <1>5, <2>1, <2>2 DEF TypeOK, DeleteLog
<1>6. CASE SweepFails(w) \/ EndSweep(w)
  <2>1. /\ sweep'[w] \in Sweeps
        /\ area' \in [Locations -> [Sessions -> (SUBSET Blobs) \cup {None}]]
        BY <1>6, AfterFailure, AfterEnd DEF EndSweep, TypeOK
  <2> QED BY <1>1, <1>2, <1>6, <2>1 DEF TypeOK, SweepFails, EndSweep
<1> QED BY <1>3, <1>4, <1>5, <1>6
-----------------------------------------------------------------------------
(* Sweeps: what is on a page was due, and what was due is not passed over.   *)
LEMMA DueStays ==
    ASSUME TypeOK, CollectionAssumption, PagesDue, Next, NEW s \in Sessions
    PROVE  /\ status[s] \in {"due", "gone"} => status'[s] \in {"due", "gone"}
           /\ status[s] = "gone" => status'[s] = "gone"
           /\ status'[s] = "gone" => status[s] \in {"due", "gone"}
<1>1. ASSUME NEW t \in Sessions, OpenSession(t) \/ EndSession(t) \/ ComeDue(t)
      PROVE  /\ status[s] \in {"due", "gone"} => status'[s] \in {"due", "gone"}
             /\ status[s] = "gone" => status'[s] = "gone"
             /\ status'[s] = "gone" => status[s] \in {"due", "gone"}
      BY <1>1 DEF OpenSession, EndSession, ComeDue, TypeOK
<1>2. ASSUME NEW w \in Sweepers, DeleteLog(w)
      PROVE  /\ status[s] \in {"due", "gone"} => status'[s] \in {"due", "gone"}
             /\ status[s] = "gone" => status'[s] = "gone"
             /\ status'[s] = "gone" => status[s] \in {"due", "gone"}
  <2> DEFINE m == Min(sweep[w].page)
  <2>1. sweep[w].page # {}
        BY <1>2 DEF PagesDue, DeleteLog
  <2>2. m \in sweep[w].page /\ m \in Sessions
        BY <2>1, Fields, MinOf
  <2>3. status[m] \in {"due", "gone"}
        BY <2>2 DEF PagesDue
  <2>4. status' = [status EXCEPT ![m] = "gone"]
        BY <1>2 DEF DeleteLog
  <2> HIDE DEF m
  <2> QED BY <2>2, <2>3, <2>4 DEF TypeOK
<1>3. UNCHANGED status \/ (\E t \in Sessions : OpenSession(t) \/ EndSession(t) \/ ComeDue(t))
      \/ (\E w \in Sweepers : DeleteLog(w))
      BY DEF Next, BeginStaging, StageBlob, RecordStaged, StagingDies, BeginSweep, ListLog,
             EndList, TakeSession, NextPage, DeleteArea, SweepFails, EndSweep
<1> QED BY <1>1, <1>2, <1>3

\* A sweep that does not move keeps what it holds.
LEMMA SweepKept ==
    ASSUME TypeOK, CollectionAssumption, PagesDue, Next, NEW v \in Sweepers,
           Owed(v), sweep'[v] = sweep[v]
    PROVE  /\ \A s \in sweep[v].page \cup sweep[v].due : status'[s] \in {"due", "gone"}
           /\ sweep[v].at \in {"blobs", "log"} => sweep[v].page # {}
           /\ Owed(v)'
<1>1. \A s \in sweep[v].page \cup sweep[v].due :
         /\ s \in Sessions /\ status'[s] \in {"due", "gone"}
         /\ status[s] = "gone" => status'[s] = "gone"
      BY Fields, DueStays DEF PagesDue
<1>2. Owed(v)'
      BY <1>1 DEF Owed
<1> QED BY <1>1, <1>2 DEF PagesDue

\* Every step of a sweep, on its own page and debts.
LEMMA SweepMoves ==
    ASSUME TypeOK, CollectionAssumption, PagesDue, Next, NEW w \in Sweepers, Owed(w),
           \/ BeginSweep(w) \/ ListLog(w) \/ EndList(w) \/ TakeSession(w)
           \/ NextPage(w) \/ DeleteArea(w) \/ DeleteLog(w) \/ SweepFails(w) \/ EndSweep(w)
    PROVE  /\ \A s \in sweep'[w].page \cup sweep'[w].due : status'[s] \in {"due", "gone"}
           /\ sweep'[w].at \in {"blobs", "log"} => sweep'[w].page # {}
           /\ Owed(w)'
<1> DEFINE sw == sweep[w]
           new == sweep'[w]
<1>1. /\ sw.page \in SUBSET Sessions /\ sw.due \in SUBSET Sessions /\ sw.todo \in SUBSET Sessions
      /\ sw.after \in 0..NumSessions /\ Sessions \in SUBSET Nat
      BY Fields DEF Sessions, CollectionAssumption
<1>2. \A s \in Sessions :
         /\ status[s] \in {"due", "gone"} => status'[s] \in {"due", "gone"}
         /\ status[s] = "gone" => status'[s] = "gone"
      BY DueStays
<1>3. CASE BeginSweep(w)
  <2>1. /\ new.at = "list" /\ new.after = 0 /\ new.listed = 0 /\ new.page = {}
        /\ new.todo = Stored /\ new.due = {s \in Sessions : status[s] = "due"}
        BY <1>3, AfterBegin
  <2>2. \A s \in new.due : s \in Stored /\ status'[s] \in {"due", "gone"}
        BY <1>2, <2>1 DEF Stored
  <2>3. \A s \in Stored : s > 0
        BY DEF Stored, Sessions, CollectionAssumption
  <2> QED BY <2>1, <2>2, <2>3 DEF Owed
<1>4. CASE ListLog(w)
  <2> DEFINE m == Min(sw.todo)
  <2>1. /\ m \in sw.todo /\ m \in Sessions /\ \A t \in sw.todo : m <= t
        /\ new.at = "list" /\ new.after = m
        /\ new.todo = sw.todo \ {m} /\ new.due = sw.due
        /\ new.page = sw.page \cup {t \in {m} : status[t] = "due"}
        BY <1>4, AfterListed
  <2>2. UNCHANGED status /\ sw.at = "list"
        BY <1>4 DEF ListLog
  <2>3. \A s \in new.page \cup new.due : status'[s] \in {"due", "gone"}
        BY <2>1, <2>2 DEF PagesDue
  <2>4. \A s \in new.due : status'[s] = "gone" \/ s \in new.page \/ s \in new.todo
    <3>1. SUFFICES ASSUME NEW s \in sw.due, status[s] # "gone", s \notin sw.page
                   PROVE  s \in new.page \/ s \in new.todo
          BY <2>1, <2>2
    <3>2. s \in sw.todo /\ status[s] = "due"
          BY <2>2, <3>1 DEF Owed, PagesDue
    <3> HIDE DEF m
    <3> QED BY <2>1, <3>2
  <2>5. /\ \A t \in new.todo : t > new.after
        /\ new.after # 0
    <3>1. m > 0 /\ \A t \in sw.todo : t \in Nat
          BY <1>1, <2>1 DEF Sessions
    <3> HIDE DEF m
    <3> QED BY <2>1, <3>1, <1>1
  <2> QED BY <2>1, <2>3, <2>4, <2>5 DEF Owed
<1>5. CASE EndList(w)
  <2>1. /\ new.at = "collect" /\ new.page = sw.page /\ new.due = sw.due
        /\ new.after = (IF sw.todo = {} THEN 0 ELSE sw.after)
        BY <1>5, AfterEndList
  <2>2. UNCHANGED status /\ sw.at = "list" /\ (sw.todo = {} \/ sw.listed = Limit)
        BY <1>5 DEF EndList
  <2>3. \A s \in new.due : status'[s] = "gone" \/ s \in new.page \/
                              (new.after # 0 /\ s > new.after)
    <3>1. \A s \in sw.due : status[s] = "gone" \/ s \in sw.page \/ s \in sw.todo
          BY <2>2 DEF Owed
    <3>2. /\ \A s \in sw.todo : s > sw.after
          /\ sw.listed = Limit => sw.after # 0
          BY <2>2 DEF Owed, CollectionAssumption
    <3> QED BY <2>1, <2>2, <3>1, <3>2
  <2> QED BY <1>2, <2>1, <2>2, <2>3 DEF Owed, PagesDue
<1>6. CASE TakeSession(w)
  <2>1. /\ new.at = "blobs" /\ new.page = sw.page /\ new.due = sw.due /\ new.after = sw.after
        BY <1>6, AfterTake
  <2>2. UNCHANGED status /\ sw.at = "collect" /\ sw.page # {}
        BY <1>6 DEF TakeSession
  <2> QED BY <2>1, <2>2 DEF Owed, PagesDue
<1>7. CASE NextPage(w)
  <2>1. /\ new.page = sw.page /\ new.due = sw.due /\ new.after = sw.after
        /\ new.listed = sw.listed
        /\ sw.after = 0 => new.at = "swept"
        /\ sw.after # 0 => new.at = "list" /\ new.todo = {s \in Stored : s > sw.after}
        BY <1>7, AfterNextPage
  <2>2. UNCHANGED status /\ sw.at = "collect" /\ sw.page = {}
        BY <1>7 DEF NextPage
  <2>3. \A s \in sw.due : /\ status[s] \in {"due", "gone"}
                          /\ status[s] = "gone" \/ (sw.after # 0 /\ s > sw.after)
        BY <2>2 DEF Owed, PagesDue
  <2>4. CASE sw.after = 0
        BY <1>1, <2>1, <2>2, <2>3, <2>4 DEF Owed
  <2>5. CASE sw.after # 0
    <3>1. \A s \in sw.due : status[s] = "gone" \/ s \in new.todo
          BY <1>1, <2>1, <2>3, <2>5 DEF Stored
    <3> QED BY <1>1, <2>1, <2>2, <2>3, <2>5, <3>1 DEF Owed
  <2> QED BY <2>4, <2>5
<1>8. CASE DeleteArea(w)
  <2>1. sw.at = "blobs" /\ sw.page # {} /\ UNCHANGED status
        BY <1>8 DEF DeleteArea, PagesDue
  <2>2. /\ new.at \in {"log", "blobs"} /\ new.page = sw.page /\ new.due = sw.due
        /\ new.after = sw.after
        BY <1>8, <2>1, AfterDelete
  <2> QED BY <2>1, <2>2 DEF Owed, PagesDue
<1>9. CASE DeleteLog(w)
  <2> DEFINE m == Min(sw.page)
  <2>1. /\ new.at = "collect" /\ new.page = sw.page \ {m}
        /\ new.due = sw.due /\ new.after = sw.after
        BY <1>9, AfterLog
  <2>2. sw.at = "log" /\ sw.page # {}
        BY <1>9 DEF DeleteLog, PagesDue
  <2>3. m \in Sessions /\ status' = [status EXCEPT ![m] = "gone"]
        BY <1>9, <2>2, Fields, MinOf DEF DeleteLog
  <2>4. status'[m] = "gone"
    <3> HIDE DEF m
    <3> QED BY <2>3 DEF TypeOK
  <2> HIDE DEF m
  <2>5. \A s \in sw.page \cup sw.due : status'[s] \in {"due", "gone"}
        BY <1>1, <1>2 DEF PagesDue
  <2> QED BY <1>1, <1>2, <2>1, <2>2, <2>4, <2>5 DEF Owed
<1>10. CASE SweepFails(w) \/ EndSweep(w)
  <2>1. new.at = "idle" /\ new.page = {} /\ new.due = {}
        BY <1>10, AfterEnd DEF SweepFails, EndSweep
  <2> QED BY <2>1 DEF Owed
<1> QED BY <1>3, <1>4, <1>5, <1>6, <1>7, <1>8, <1>9, <1>10

LEMMA SweepInvStep == ASSUME CollectionAssumption, SweepInv, [Next]_vars PROVE SweepInv'
<1> USE DEF SweepInv
<1>1. CASE UNCHANGED vars
      BY <1>1 DEF vars, TypeOK, PagesDue, Owed
<1>2. CASE Next /\ UNCHANGED sweep
  <2>1. TypeOK'
    <3>1. \/ \E s \in Sessions : OpenSession(s) \/ EndSession(s) \/ ComeDue(s)
          \/ \E c \in Clients : \/ \E s \in Sessions : BeginStaging(c, s)
                                \/ StageBlob(c) \/ RecordStaged(c) \/ StagingDies(c)
          \/ \E w \in Sweepers :
               \/ BeginSweep(w) \/ ListLog(w) \/ EndList(w) \/ TakeSession(w)
               \/ NextPage(w) \/ DeleteArea(w) \/ DeleteLog(w) \/ SweepFails(w) \/ EndSweep(w)
          BY <1>2 DEF Next
    <3> QED BY <3>1, TypeDialogue, TypeSweep DEF PagesDue
  <2>2. \A v \in Sweepers : sweep'[v] = sweep[v]
        BY <1>2
  <2> QED BY <1>2, <2>1, <2>2, SweepKept DEF PagesDue
<1>3. CASE Next /\ ~ UNCHANGED sweep
  <2>1. PICK w \in Sweepers :
           \/ BeginSweep(w) \/ ListLog(w) \/ EndList(w) \/ TakeSession(w)
           \/ NextPage(w) \/ DeleteArea(w) \/ DeleteLog(w) \/ SweepFails(w) \/ EndSweep(w)
        BY <1>3 DEF Next, OpenSession, EndSession, ComeDue, BeginStaging, StageBlob,
                    RecordStaged, StagingDies
  <2>2. TypeOK' /\ \A v \in Sweepers : v # w => sweep'[v] = sweep[v]
        BY <2>1, TypeSweep DEF PagesDue
  <2>3. \A v \in Sweepers :
           /\ \A s \in sweep'[v].page \cup sweep'[v].due : status'[s] \in {"due", "gone"}
           /\ sweep'[v].at \in {"blobs", "log"} => sweep'[v].page # {}
           /\ Owed(v)'
    <3>1. SUFFICES ASSUME NEW v \in Sweepers
                   PROVE  /\ \A s \in sweep'[v].page \cup sweep'[v].due :
                                status'[s] \in {"due", "gone"}
                          /\ sweep'[v].at \in {"blobs", "log"} => sweep'[v].page # {}
                          /\ Owed(v)'
          OBVIOUS
    <3>2. CASE v = w
          BY <1>3, <2>1, <3>2, SweepMoves
    <3>3. CASE v # w
          BY <1>3, <2>2, <3>3, SweepKept
    <3> QED BY <3>2, <3>3
  <2> QED BY <2>2, <2>3 DEF PagesDue
<1> QED BY <1>1, <1>2, <1>3

LEMMA SweepInvInit == CollectionAssumption /\ Init => SweepInv
<1> SUFFICES ASSUME CollectionAssumption, Init PROVE SweepInv
    OBVIOUS
<1>1. \A w \in Sweepers : sweep[w].at = "idle" /\ sweep[w].page = {} /\ sweep[w].due = {}
      BY DEF Init, NoSweep
<1> QED BY <1>1, TypeInit DEF SweepInv, PagesDue, Owed
-----------------------------------------------------------------------------
(* A sweep removes what is due: no other session, and all of them.           *)

\* The sweep's invariant holds of every reachable state.
LEMMA SweepInvHolds == ASSUME CollectionAssumption PROVE Spec => []SweepInv
<1>1. Init => SweepInv
      BY SweepInvInit
<1>2. SweepInv /\ [Next]_vars => SweepInv'
      BY SweepInvStep
<1> QED BY <1>1, <1>2, PTL DEF Spec

LEMMA OnlyDueStep ==
    ASSUME CollectionAssumption, SweepInv, [Next]_vars, NEW s \in Sessions, status'[s] = "gone"
    PROVE  status[s] \in {"due", "gone"}
<1>1. CASE Next
      BY <1>1, DueStays DEF SweepInv
<1>2. CASE UNCHANGED vars
      BY <1>2 DEF vars
<1> QED BY <1>1, <1>2

\* A session is removed only when its ending is past the retention and its log
\* could be read, however many processes sweep and whatever happened since its
\* page was listed (collect.go:27-58).
THEOREM OnlyDueIsRemoved == ASSUME CollectionAssumption PROVE Spec => OnlyDueRemoved
<1>1. SweepInv /\ [Next]_vars =>
         [\A s \in Sessions : status'[s] = "gone" => status[s] \in {"due", "gone"}]_vars
      BY OnlyDueStep
<1> QED BY <1>1, SweepInvHolds, PTL DEF Spec, OnlyDueRemoved

LEMMA SweepInvGives == ASSUME SweepInv PROVE SweepIsComplete
      BY DEF SweepInv, Owed, SweepIsComplete

\* A sweep that ran through all its pages has removed every session that was
\* due when it began, whatever the page size and whatever was created, ended or
\* removed while it paged (collect.go, session_store.go).
THEOREM SweepCompletes == ASSUME CollectionAssumption PROVE Spec => []SweepIsComplete
<1>1. SweepInv => SweepIsComplete
      BY SweepInvGives
<1> QED BY <1>1, SweepInvHolds, PTL

-----------------------------------------------------------------------------
(* Staged files.                                                             *)
LEMMA StagedInit == ASSUME CollectionAssumption, Init PROVE StagedInv
<1>1. SweepInv
      BY SweepInvInit
<1>2. /\ \A c \in Clients : staging[c] = None
      /\ \A w \in Sweepers : sweep[w].at = "idle"
      /\ \A s \in Sessions : status[s] # "gone"
      BY DEF Init, NoSweep
<1>3. PICK old \in SUBSET {s \in Sessions : Upgraded /\ status[s] # "absent"} :
         /\ area = [l \in Locations |-> [s \in Sessions |->
                      IF l = "legacy" /\ s \in old THEN {OldBlobs[s]} ELSE None]]
         /\ handle = [s \in Sessions |-> IF s \in old THEN OldBlobs[s] ELSE None]
      BY DEF Init
<1>4. ASSUME NEW s \in Sessions, handle[s] # None PROVE handle[s] \in In("legacy", s)
  <2>1. s \in old /\ handle[s] = OldBlobs[s] /\ area["legacy"][s] = {OldBlobs[s]}
        BY <1>3, <1>4 DEF Locations
  <2>2. OldBlobs[s] \in Blobs
        BY DEF OldBlobs, Blobs, Sessions, CollectionAssumption
  <2>3. {OldBlobs[s]} # None
        BY <2>2 DEF CollectionAssumption
  <2> QED BY <2>1, <2>3 DEF In
<1> QED BY <1>1, <1>2, <1>4 DEF StagedInv, StagingLives, Emptied, NothingOutlivesItsSession, Kept

\* The directory a sweep empties is that of a session that is due.
LEMMA StagesElsewhere ==
    ASSUME CollectionAssumption, StagedInv, NEW c \in Clients, staging[c] # None,
           NEW w \in Sweepers
    PROVE  /\ staging[c].session \in Sessions
           /\ staging[c].session \notin sweep[w].page
           /\ status[staging[c].session] # "gone"
<1>1. status[staging[c].session] \in {"open", "ended"} /\ staging[c].session \in Sessions
      BY StagingFields DEF StagedInv, SweepInv, StagingLives
<1>2. \A s \in sweep[w].page : status[s] \in {"due", "gone"}
      BY DEF StagedInv, SweepInv, PagesDue
<1> QED BY <1>1, <1>2

LEMMA StagingLivesStep ==
    ASSUME CollectionAssumption, Patient, StagedInv, Next PROVE StagingLives'
<1> USE DEF StagedInv, SweepInv
<1>1. SUFFICES ASSUME NEW c \in Clients, staging'[c] # None
               PROVE  status'[staging'[c].session] \in {"open", "ended"}
      BY DEF StagingLives
<1>2. ASSUME NEW s \in Sessions, OpenSession(s) \/ EndSession(s) \/ ComeDue(s)
      PROVE  status'[staging'[c].session] \in {"open", "ended"}
  <2>1. staging' = staging
        BY <1>2 DEF OpenSession, EndSession, ComeDue
  <2>2. staging[c].session \in Sessions /\ status[staging[c].session] \in {"open", "ended"}
        BY <1>1, <2>1, StagingFields DEF StagingLives
  <2>3. ComeDue(s) => staging[c].session # s
        BY <1>1, <2>1 DEF ComeDue
  <2> QED BY <1>2, <2>1, <2>2, <2>3 DEF OpenSession, EndSession, ComeDue, TypeOK
<1>3. ASSUME NEW d \in Clients, NEW s \in Sessions, BeginStaging(d, s)
      PROVE  status'[staging'[c].session] \in {"open", "ended"}
      BY <1>1, <1>3 DEF BeginStaging, TypeOK, StagingLives
<1>4. ASSUME NEW d \in Clients, StageBlob(d) \/ RecordStaged(d) \/ StagingDies(d)
      PROVE  status'[staging'[c].session] \in {"open", "ended"}
  <2>1. staging[c] # None /\ staging'[c].session = staging[c].session
    <3>1. CASE StageBlob(d)
      <4>1. staging' = [staging EXCEPT ![d] = [staging[d] EXCEPT !.blob = nextBlob]]
            BY <3>1 DEF StageBlob
      <4>2. staging[d] # None /\ [staging[d] EXCEPT !.blob = nextBlob].session = staging[d].session
            BY <3>1, StagingFields DEF StageBlob
      <4> QED BY <1>1, <4>1, <4>2 DEF TypeOK
    <3>2. CASE RecordStaged(d) \/ StagingDies(d)
          BY <1>1, <3>2 DEF RecordStaged, StagingDies, TypeOK
    <3> QED BY <1>4, <3>1, <3>2
  <2>2. UNCHANGED status
        BY <1>4 DEF StageBlob, RecordStaged, StagingDies
  <2> QED BY <2>1, <2>2 DEF StagingLives
<1>5. ASSUME NEW w \in Sweepers,
             \/ BeginSweep(w) \/ ListLog(w) \/ EndList(w) \/ TakeSession(w)
             \/ NextPage(w) \/ DeleteArea(w) \/ DeleteLog(w) \/ SweepFails(w) \/ EndSweep(w)
      PROVE  status'[staging'[c].session] \in {"open", "ended"}
  <2>1. staging' = staging
        BY <1>5 DEF BeginSweep, ListLog, EndList, TakeSession, NextPage, DeleteArea,
                    DeleteLog, SweepFails, EndSweep
  <2>2. /\ staging[c].session \in Sessions /\ status[staging[c].session] \in {"open", "ended"}
        /\ staging[c].session \notin sweep[w].page
        BY <1>1, <2>1, StagesElsewhere DEF StagingLives
  <2>3. status'[staging[c].session] = status[staging[c].session]
    <3>1. CASE DeleteLog(w)
      <4>1. Min(sweep[w].page) \in sweep[w].page
            BY <3>1, Fields, MinOf DEF PagesDue, DeleteLog
      <4> QED BY <2>2, <3>1, <4>1 DEF DeleteLog, TypeOK
    <3>2. CASE ~ DeleteLog(w)
          BY <1>5, <3>2 DEF BeginSweep, ListLog, EndList, TakeSession, NextPage, DeleteArea,
                            SweepFails, EndSweep
    <3> QED BY <3>1, <3>2
  <2> QED BY <2>1, <2>2, <2>3
<1> QED BY <1>2, <1>3, <1>4, <1>5 DEF Next

\* A step leaves the directories alone, or adds to those of a session that is
\* being staged for, or takes from those of a session that is due.
LEMMA AreasChange ==
    ASSUME CollectionAssumption, Patient, StagedInv, Next,
           NEW l \in Locations, NEW s \in Sessions
    PROVE  /\ status[s] \in {"due", "gone"} /\ area[l][s] = None => area'[l][s] = None
           /\ status[s] \notin {"due", "gone"} => In(l, s) \subseteq In(l, s)'
<1> USE DEF StagedInv, SweepInv
<1>1. CASE area'[l][s] = area[l][s]
      BY <1>1 DEF In
<1>2. CASE area'[l][s] # area[l][s]
  <2>1. ASSUME NEW c \in Clients, StageBlob(c) \/ StagingDies(c)
        PROVE  /\ l = "primary" /\ s = staging[c].session /\ staging[c] # None
               /\ In(l, s) \subseteq In(l, s)'
    <3> DEFINE t == staging[c].session
    <3>1. staging[c] # None /\ t \in Sessions
          BY <2>1, StagingFields DEF StageBlob, StagingDies
    <3>2. PICK b \in SUBSET Blobs : area' = [area EXCEPT !["primary"][t] = In("primary", t) \cup b]
      <4>1. CASE StageBlob(c)
            BY <4>1, NextBlobTyped DEF StageBlob
      <4>2. CASE StagingDies(c)
        <5>1. area' = [area EXCEPT !["primary"][t] = In("primary", t)]
              BY <1>2, <4>2 DEF StagingDies
        <5>2. In("primary", t) = In("primary", t) \cup {}
              OBVIOUS
        <5> QED BY <5>1, <5>2
      <4> QED BY <2>1, <4>1, <4>2
    <3>3. In("primary", t) \cup b \in SUBSET Blobs
          BY <3>1, AreaTyped DEF Locations
    <3>4. /\ area'["primary"][t] = In("primary", t) \cup b
          /\ l # "primary" \/ s # t => area'[l][s] = area[l][s]
      <4> HIDE DEF t
      <4> QED BY <3>1, <3>2, <3>3, AreaChanged DEF Locations
    <3>5. l = "primary" /\ s = t
          BY <1>2, <3>4
    <3>6. In(l, s)' = In("primary", t) \cup b
          BY <3>3, <3>4, <3>5 DEF In, CollectionAssumption
    <3> QED BY <3>1, <3>5, <3>6
  <2>2. ASSUME NEW w \in Sweepers, DeleteArea(w) \/ SweepFails(w)
        PROVE  /\ s \in sweep[w].page
               /\ area[l][s] = None => area'[l][s] = None
    <3>1. CASE DeleteArea(w)
      <4>1. sweep[w].page # {}
            BY <3>1 DEF DeleteArea, PagesDue
      <4> QED BY <1>2, <3>1, <4>1, AfterDelete
    <3>2. CASE SweepFails(w)
          BY <1>2, <3>2, AfterFailure DEF PagesDue
    <3> QED BY <2>2, <3>1, <3>2
  <2>3. \/ \E c \in Clients : StageBlob(c) \/ StagingDies(c)
        \/ \E w \in Sweepers : DeleteArea(w) \/ SweepFails(w)
        BY <1>2 DEF Next, OpenSession, EndSession, ComeDue, BeginStaging, RecordStaged,
                    BeginSweep, ListLog, EndList, TakeSession, NextPage, DeleteLog, EndSweep
  <2>4. CASE \E c \in Clients : StageBlob(c) \/ StagingDies(c)
        BY <2>1, <2>4 DEF StagingLives
  <2>5. CASE \E w \in Sweepers : DeleteArea(w) \/ SweepFails(w)
        BY <2>2, <2>5 DEF PagesDue
  <2> QED BY <2>3, <2>4, <2>5
<1> QED BY <1>1, <1>2
LEMMA EmptiedStep ==
    ASSUME CollectionAssumption, Patient, StagedInv, Next, SweepInv'
    PROVE  Emptied'
<1> USE DEF StagedInv, SweepInv
<1>1. NothingOutlivesItsSession'
  <2>1. SUFFICES ASSUME NEW s \in Sessions, status'[s] = "gone", NEW place \in Locations
                 PROVE  area'[place][s] = None
        BY DEF NothingOutlivesItsSession
  <2>2. status[s] \in {"due", "gone"}
        BY <2>1, DueStays
  <2>3. CASE status[s] = "gone"
        BY <2>3, AreasChange DEF Emptied, NothingOutlivesItsSession
  <2>4. CASE status[s] # "gone"
    <3>1. PICK w \in Sweepers : DeleteLog(w)
          BY <2>1, <2>4 DEF Next, OpenSession, EndSession, ComeDue, BeginStaging, StageBlob,
             RecordStaged, StagingDies, BeginSweep, ListLog, EndList, TakeSession, NextPage,
             DeleteArea, SweepFails, EndSweep, TypeOK
    <3>2. s = Min(sweep[w].page)
      <4>1. status' = [status EXCEPT ![Min(sweep[w].page)] = "gone"]
            BY <3>1 DEF DeleteLog
      <4> QED BY <2>1, <2>4, <4>1 DEF TypeOK
    <3> QED BY <3>1, <3>2 DEF DeleteLog, Emptied
  <2> QED BY <2>3, <2>4
<1>2. ASSUME NEW w \in Sweepers
      PROVE  /\ sweep'[w].at = "blobs" =>
                  \A place \in Locations \ sweep'[w].places : area'[place][Min(sweep'[w].page)] = None
             /\ sweep'[w].at = "log" =>
                  \A place \in Locations : area'[place][Min(sweep'[w].page)] = None
  <2> DEFINE m == Min(sweep[w].page)
  <2>1. CASE sweep'[w] = sweep[w]
    <3>1. SUFFICES ASSUME sweep[w].at \in {"blobs", "log"}
                   PROVE  \A place \in Locations : area[place][m] = None => area'[place][m] = None
          BY <2>1 DEF Emptied
    <3>2. m \in sweep[w].page /\ m \in Sessions
          BY <3>1, Fields, MinOf DEF PagesDue
    <3>3. status[m] \in {"due", "gone"}
          BY <3>2 DEF PagesDue
    <3> HIDE DEF m
    <3> QED BY <3>2, <3>3, AreasChange
  <2>2. CASE sweep'[w] # sweep[w]
    <3>1. \/ BeginSweep(w) \/ ListLog(w) \/ EndList(w) \/ TakeSession(w)
          \/ NextPage(w) \/ DeleteArea(w) \/ DeleteLog(w) \/ SweepFails(w) \/ EndSweep(w)
      <4>1. ~ UNCHANGED sweep
            BY <2>2
      <4>2. PICK v \in Sweepers :
               \/ BeginSweep(v) \/ ListLog(v) \/ EndList(v) \/ TakeSession(v)
               \/ NextPage(v) \/ DeleteArea(v) \/ DeleteLog(v) \/ SweepFails(v) \/ EndSweep(v)
            BY <4>1 DEF Next, OpenSession, EndSession, ComeDue, BeginStaging, StageBlob,
                        RecordStaged, StagingDies
      <4>3. v = w
            BY <2>2, <4>2, TypeSweep DEF PagesDue
      <4> QED BY <4>2, <4>3
    <3>2. CASE BeginSweep(w) \/ ListLog(w) \/ EndList(w) \/ NextPage(w) \/ DeleteLog(w)
               \/ SweepFails(w) \/ EndSweep(w)
      <4>1. sweep'[w].at \notin {"blobs", "log"}
            BY <3>2, AfterBegin, AfterListed, AfterEndList, AfterNextPage, AfterLog, AfterEnd
               DEF SweepFails, EndSweep
      <4> QED BY <4>1
    <3>3. CASE TakeSession(w)
      <4>1. sweep'[w].at = "blobs" /\ sweep'[w].places = Locations
            BY <3>3, AfterTake
      <4> QED BY <4>1
    <3>4. CASE DeleteArea(w)
      <4>1. sweep[w].at = "blobs" /\ sweep[w].page # {}
            BY <3>4 DEF DeleteArea, PagesDue
      <4>2. PICK place \in sweep[w].places :
                 /\ m \in Sessions
                 /\ area'[place][m] = None
                 /\ \A l \in Locations : l # place => area'[l][m] = area[l][m]
                 /\ sweep'[w].at = (IF sweep[w].places = {place} THEN "log" ELSE "blobs")
                 /\ sweep'[w].places = sweep[w].places \ {place}
                 /\ sweep'[w].page = sweep[w].page
            BY <3>4, <4>1, AfterDelete
      <4>3. \A l \in Locations \ sweep[w].places : area[l][m] = None
            BY <4>1 DEF Emptied
      <4>4. \A l \in Locations \ (sweep[w].places \ {place}) : area'[l][m] = None
            BY <4>2, <4>3
      <4> HIDE DEF m
      <4>5. Min(sweep'[w].page) = m
            BY <4>2 DEF m
      <4> QED BY <4>2, <4>4, <4>5
    <3> QED BY <3>1, <3>2, <3>3, <3>4
  <2> QED BY <2>1, <2>2
<1> QED BY <1>1, <1>2 DEF Emptied

LEMMA KeptStep ==
    ASSUME CollectionAssumption, Patient, StagedInv, Next PROVE Kept'
<1> USE DEF StagedInv, SweepInv
<1>1. ASSUME NEW c \in Clients, staging'[c] # None, staging'[c].blob # None
      PROVE  \A t \in Sessions : t = staging'[c].session =>
                staging'[c].blob \in In("primary", t)'
  <2> SUFFICES ASSUME NEW t \in Sessions, t = staging'[c].session
               PROVE  staging'[c].blob \in In("primary", t)'
      OBVIOUS
  <2>1. CASE staging'[c] = staging[c]
    <3>1. staging[c].session = t /\ status[t] \in {"open", "ended"}
          BY <1>1, <2>1, StagingFields DEF StagingLives
    <3>2. In("primary", t) \subseteq In("primary", t)'
          BY <3>1, AreasChange DEF Locations
    <3>3. staging[c].blob \in In("primary", t)
          BY <1>1, <2>1, <3>1 DEF Kept
    <3> QED BY <2>1, <3>2, <3>3
  <2>2. CASE staging'[c] # staging[c]
    <3>1. (\E s \in Sessions : BeginStaging(c, s)) \/ StageBlob(c)
      <4>1. \E d \in Clients : \/ \E s \in Sessions : BeginStaging(d, s)
                               \/ StageBlob(d) \/ RecordStaged(d) \/ StagingDies(d)
            BY <2>2 DEF Next, OpenSession, EndSession, ComeDue, BeginSweep, ListLog, EndList,
               TakeSession, NextPage, DeleteArea, DeleteLog, SweepFails, EndSweep
      <4> QED BY <1>1, <2>2, <4>1 DEF BeginStaging, StageBlob, RecordStaged, StagingDies, TypeOK
    <3>2. ASSUME NEW s \in Sessions, BeginStaging(c, s) PROVE FALSE
          BY <1>1, <3>2 DEF BeginStaging, TypeOK
    <3>3. CASE StageBlob(c)
      <4>1. PICK X : X = In("primary", t) \cup {nextBlob}
            OBVIOUS
      <4>2. staging[c] # None /\ staging[c].session = t /\ staging'[c].blob = nextBlob
        <5>1. staging' = [staging EXCEPT ![c] = [staging[c] EXCEPT !.blob = nextBlob]]
              BY <3>3 DEF StageBlob
        <5>2. staging'[c] = [staging[c] EXCEPT !.blob = nextBlob]
              BY <5>1 DEF TypeOK
        <5>3. staging[c] # None
              BY <3>3 DEF StageBlob
        <5> QED BY <5>2, <5>3, StagingFields
      <4>3. X \in SUBSET Blobs
            BY <3>3, <4>1, NextBlobTyped, AreaTyped DEF StageBlob, Locations
      <4>4. area' = [area EXCEPT !["primary"][t] = X]
            BY <3>3, <4>1, <4>2 DEF StageBlob
      <4>5. area'["primary"][t] = X
            BY <4>3, <4>4, AreaChanged DEF Locations
      <4>6. In("primary", t)' = X
            BY <4>3, <4>5 DEF In, CollectionAssumption
      <4> QED BY <4>1, <4>2, <4>6
    <3> QED BY <3>1, <3>2, <3>3
  <2> QED BY <2>1, <2>2
<1>2. ASSUME NEW s \in Sessions, status'[s] \notin {"due", "gone"}, handle'[s] # None
      PROVE  handle'[s] \in In("primary", s)' \cup In("legacy", s)'
  <2>1. status[s] \notin {"due", "gone"}
        BY <1>2, DueStays
  <2>2. /\ In("primary", s) \subseteq In("primary", s)'
        /\ In("legacy", s) \subseteq In("legacy", s)'
        BY <2>1, AreasChange DEF Locations
  <2>3. CASE handle'[s] = handle[s]
        BY <1>2, <2>1, <2>2, <2>3 DEF Kept
  <2>4. CASE handle'[s] # handle[s]
    <3>1. PICK c \in Clients : RecordStaged(c)
          BY <2>4 DEF Next, OpenSession, EndSession, ComeDue, BeginStaging, StageBlob,
             StagingDies, BeginSweep, ListLog, EndList, TakeSession, NextPage, DeleteArea,
             DeleteLog, SweepFails, EndSweep
    <3>2. s = staging[c].session /\ handle'[s] = staging[c].blob
          BY <2>4, <3>1 DEF RecordStaged, TypeOK
    <3>3. staging[c].blob \in In("primary", s)
          BY <3>1, <3>2 DEF RecordStaged, Kept
    <3> QED BY <2>2, <3>2, <3>3
  <2> QED BY <2>3, <2>4
<1>3. TypeOK'
      BY SweepInvStep
<1>4. \A c \in Clients : staging'[c] # None => staging'[c].session \in Sessions
      BY <1>3 DEF TypeOK
<1>5. \A c \in Clients : staging'[c] # None /\ staging'[c].blob # None =>
         staging'[c].blob \in In("primary", staging[c].session)'
      BY <1>1, <1>4 DEF In
<1> QED BY <1>2, <1>5 DEF Kept, In

LEMMA StagedInvStep ==
    ASSUME CollectionAssumption, Patient, StagedInv, [Next]_vars PROVE StagedInv'
<1>1. SweepInv'
      BY SweepInvStep DEF StagedInv
<1>2. CASE Next
      BY <1>1, <1>2, StagingLivesStep, EmptiedStep, KeptStep DEF StagedInv
<1>3. CASE UNCHANGED vars
      BY <1>1, <1>3 DEF StagedInv, vars, StagingLives, Emptied, NothingOutlivesItsSession, Kept, In
<1> QED BY <1>2, <1>3

LEMMA StagedInvHolds == ASSUME CollectionAssumption, Patient PROVE Spec => []StagedInv
<1>1. Init => StagedInv
      BY StagedInit
<1>2. StagedInv /\ [Next]_vars => StagedInv'
      BY StagedInvStep
<1> QED BY <1>1, <1>2, PTL DEF Spec

\* What the invariant says of staged files and of the handles that name them.
LEMMA StagedInvGives ==
    ASSUME StagedInv
    PROVE  /\ TypeOK /\ NothingOutlivesItsSession
           /\ (\A q \in Sessions : In("legacy", q) = {}) => HandlesReadable
<1>1. TypeOK /\ NothingOutlivesItsSession
      BY DEF StagedInv, SweepInv, Emptied
<1>2. SUFFICES ASSUME \A q \in Sessions : In("legacy", q) = {},
                      NEW s \in Sessions, status[s] \in {"open", "ended"}, handle[s] # None
               PROVE  Opens(s, handle[s])
      BY <1>1 DEF HandlesReadable
<1>3. handle[s] \in In("primary", s)
      BY <1>2 DEF StagedInv, Kept
<1>4. area["primary"][s] # None
      BY <1>3 DEF In
<1> QED BY <1>3, <1>4 DEF Opens, Resolve

\* No staged file outlives its session, in any location, though any number of
\* sweeps race and each may fail at any step, as long as the retention outlasts
\* a staging call (collect.go:27-31, blobstore.go:22-25).
THEOREM NoFileOutlives ==
    ASSUME CollectionAssumption, Patient PROVE Spec => []NothingOutlivesItsSession
<1>1. StagedInv => NothingOutlivesItsSession
      BY StagedInvGives
<1> QED BY <1>1, StagedInvHolds, PTL

\* Where no files of an older location are left, what a session's handle names
\* can be read as long as the session lives (workflow.go:791-803).  With them it
\* need not: the new location's directory hides the older one.
THEOREM HandlesStayReadable ==
    ASSUME CollectionAssumption, Patient
    PROVE  Spec => []((\A q \in Sessions : In("legacy", q) = {}) => HandlesReadable)
<1>1. StagedInv => ((\A q \in Sessions : In("legacy", q) = {}) => HandlesReadable)
      BY StagedInvGives
<1> QED BY <1>1, StagedInvHolds, PTL
=============================================================================
