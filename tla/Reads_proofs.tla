------------------------------ MODULE Reads_proofs ------------------------------
(* Reads of the graph, for any number of files, processes and writes: what a    *)
(* stamp proves (a load that is spared returns what the files have held), and   *)
(* what a lease keeps and a lineage shows.                                      *)
EXTENDS StampedReads, GraphSnapshots, FiniteSetTheorems, TLAPS

Caches == {CacheFile} \cup Hashers

-----------------------------------------------------------------------------
(* The inductive invariant, of a time, a directory, the loads and the caches.  *)
Shape(k) ==
    /\ k = [at |-> k.at, pc |-> k.pc, todo |-> k.todo, stamps |-> k.stamps,
            docs |-> k.docs, had |-> k.had]
    /\ k.at \in Nat /\ k.todo \subseteq Files /\ k.had \in [Files -> SUBSET Nat]
    /\ DOMAIN k.stamps \subseteq Files /\ \A f \in DOMAIN k.stamps : k.stamps[f] \in Nat

\* As long as a file has the stamp it has what was read.
Stands(k, f, d) == d[f].ctime = k.stamps[f] => d[f].content = Held(k, f)

\* Whoever stamped the file alike stamped it when it had what was read, or before it
\* was written.
Witnessed(k, f, rs) ==
    \A q \in Readers : f \in DOMAIN rs[q].stamps /\ rs[q].stamps[f] = k.stamps[f]
        => Held(k, f) \in rs[q].had[f]

\* The files a load has read, those it found gone included.
HasRead(k) == IF k.pc = "read" THEN DOMAIN k.stamps \ k.todo ELSE {}

Walked(k, t, d, rs) ==
    /\ k.at <= t
    /\ k.pc = "walk" => DOMAIN k.docs = {} /\ DOMAIN k.stamps \cap k.todo = {}
    /\ k.pc = "read" => DOMAIN k.docs \cap k.todo = {}
    /\ \A f \in DOMAIN k.stamps : d[f].content \in k.had[f]
    /\ \A f \in HasRead(k) :
        Proves(k.stamps[f], k.at) => Stands(k, f, d) /\ Witnessed(k, f, rs)

Real(k) == k.pc = "done" => \A f \in DOMAIN k.stamps : Held(k, f) \in k.had[f]

Kept(k, t, d, rs) ==
    /\ DOMAIN k.stamps \subseteq Files
    /\ \A f \in DOMAIN k.stamps :
        /\ k.stamps[f] \in Nat /\ Proves(k.stamps[f], t)
        /\ Stands(k, f, d) /\ Witnessed(k, f, rs)

Dated(t, d) ==
    /\ t \in Nat /\ d \in [Files -> [content : Nat, ctime : Nat]]
    /\ \A f \in Files : d[f].ctime <= t

Good(t, d, rs, sv) ==
    /\ Dated(t, d)
    /\ rs = [r \in Readers |-> rs[r]] /\ sv = [c \in Caches |-> sv[c]]
    /\ \A r \in Readers : Shape(rs[r]) /\ Walked(rs[r], t, d, rs) /\ Real(rs[r])
    /\ \A c \in Caches : sv[c] # Nothing => Kept(sv[c], t, d, rs)

ReadInv == writes \in Nat /\ Good(clock, disk, reads, saved)

-----------------------------------------------------------------------------
(* A load by its fields.                                                       *)
Load(a, p, td, s, dc, h) ==
    [at |-> a, pc |-> p, todo |-> td, stamps |-> s, docs |-> dc, had |-> h]

LEMMA LoadFields ==
    ASSUME NEW a, NEW p, NEW td, NEW s, NEW dc, NEW h, NEW k, k = Load(a, p, td, s, dc, h)
    PROVE  /\ k.at = a /\ k.pc = p /\ k.todo = td
           /\ k.stamps = s /\ k.docs = dc /\ k.had = h
           /\ k = Load(k.at, k.pc, k.todo, k.stamps, k.docs, k.had)
    BY DEF Load

LEMMA LoadShape ==
    ASSUME NEW a \in Nat, NEW p, NEW td \in SUBSET Files, NEW s, NEW dc,
           NEW h \in [Files -> SUBSET Nat], NEW k, k = Load(a, p, td, s, dc, h),
           DOMAIN s \subseteq Files, \A f \in DOMAIN s : s[f] \in Nat
    PROVE  Shape(k)
<1>1. /\ k.at = a /\ k.pc = p /\ k.todo = td
      /\ k.stamps = s /\ k.docs = dc /\ k.had = h
      /\ k = Load(k.at, k.pc, k.todo, k.stamps, k.docs, k.had)
      BY LoadFields
<1> QED BY <1>1 DEF Shape, Load

LEMMA LoadOf ==
    ASSUME NEW k, Shape(k)
    PROVE  \E a, p, td, s, dc, h :
              /\ k = Load(a, p, td, s, dc, h)
              /\ a \in Nat /\ td \in SUBSET Files /\ h \in [Files -> SUBSET Nat]
              /\ DOMAIN s \subseteq Files /\ \A f \in DOMAIN s : s[f] \in Nat
    BY DEF Shape, Load

-----------------------------------------------------------------------------
(* A load moves, nothing is written.                                           *)

\* What it has stamped since, it stamped as the directory is.
Sees(k, old, d) ==
    \A f \in DOMAIN k.stamps :
        \/ /\ f \in DOMAIN old.stamps /\ k.stamps[f] = old.stamps[f]
           /\ old.had[f] \subseteq k.had[f]
        \/ k.stamps[f] = d[f].ctime /\ d[f].content \in k.had[f]

LEMMA WitnessStays ==
    ASSUME NEW d, NEW rs, rs = [q \in Readers |-> rs[q]],
           NEW r \in Readers, NEW k, Sees(k, rs[r], d),
           NEW load, NEW f, Stands(load, f, d), Witnessed(load, f, rs)
    PROVE  Witnessed(load, f, [rs EXCEPT ![r] = k])
<1> SUFFICES ASSUME NEW q \in Readers, f \in DOMAIN [rs EXCEPT ![r] = k][q].stamps,
                    [rs EXCEPT ![r] = k][q].stamps[f] = load.stamps[f]
             PROVE  Held(load, f) \in [rs EXCEPT ![r] = k][q].had[f]
    BY DEF Witnessed
<1>1. CASE q # r
      BY <1>1 DEF Witnessed
<1>2. CASE q = r
  <2>1. f \in DOMAIN k.stamps /\ k.stamps[f] = load.stamps[f]
        BY <1>2
  <2>2. CASE /\ f \in DOMAIN rs[r].stamps /\ k.stamps[f] = rs[r].stamps[f]
             /\ rs[r].had[f] \subseteq k.had[f]
    <3>1. Held(load, f) \in rs[r].had[f]
          BY <2>1, <2>2 DEF Witnessed
    <3> QED BY <1>2, <2>2, <3>1
  <2>3. CASE k.stamps[f] = d[f].ctime /\ d[f].content \in k.had[f]
    <3>1. d[f].content = Held(load, f)
          BY <2>1, <2>3 DEF Stands
    <3> QED BY <1>2, <2>3, <3>1
  <2> QED BY <2>1, <2>2, <2>3 DEF Sees
<1> QED BY <1>1, <1>2

LEMMA MovedGood ==
    ASSUME NEW t, NEW d, NEW rs, NEW sv, Good(t, d, rs, sv),
           NEW r \in Readers, NEW k, Shape(k), Real(k), Sees(k, rs[r], d),
           Walked(k, t, d, [rs EXCEPT ![r] = k])
    PROVE  Good(t, d, [rs EXCEPT ![r] = k], sv)
<1>1. PICK new : new = [rs EXCEPT ![r] = k]
      OBVIOUS
<1>2. /\ rs = [q \in Readers |-> rs[q]] /\ new = [q \in Readers |-> new[q]]
      /\ new[r] = k /\ \A q \in Readers \ {r} : new[q] = rs[q]
      BY <1>1 DEF Good
<1>3. ASSUME NEW load, NEW f, Stands(load, f, d), Witnessed(load, f, rs)
      PROVE  Witnessed(load, f, new)
      BY <1>1, <1>2, <1>3, WitnessStays
<1>4. ASSUME NEW q \in Readers, q # r PROVE Walked(new[q], t, d, new)
  <2>1. Walked(rs[q], t, d, rs) /\ new[q] = rs[q]
        BY <1>2, <1>4 DEF Good
  <2> QED BY <1>3, <2>1 DEF Walked
<1>5. ASSUME NEW c \in Caches, sv[c] # Nothing PROVE Kept(sv[c], t, d, new)
  <2>1. Kept(sv[c], t, d, rs)
        BY <1>5 DEF Good
  <2> QED BY <1>3, <2>1 DEF Kept
<1>6. \A q \in Readers : Shape(new[q]) /\ Walked(new[q], t, d, new) /\ Real(new[q])
      BY <1>1, <1>2, <1>4 DEF Good
<1> QED BY <1>1, <1>2, <1>5, <1>6 DEF Good

\* What a load read is as good for a cache.
LEMMA KeptGood ==
    ASSUME NEW t, NEW d, NEW rs, NEW sv, Good(t, d, rs, sv),
           NEW c \in Caches, NEW k, k # Nothing => Kept(k, t, d, rs)
    PROVE  Good(t, d, rs, [sv EXCEPT ![c] = k])
<1>1. PICK new : new = [sv EXCEPT ![c] = k]
      OBVIOUS
<1>2. /\ new = [e \in Caches |-> new[e]] /\ new[c] = k
      /\ \A e \in Caches \ {c} : new[e] = sv[e]
      BY <1>1 DEF Good
<1>3. \A e \in Caches : new[e] # Nothing => Kept(new[e], t, d, rs)
      BY <1>2 DEF Good
<1> QED BY <1>1, <1>2, <1>3 DEF Good

-----------------------------------------------------------------------------
(* A file is written or removed, time passes.                                  *)
LEMMA WriteStamps ==
    ASSUME StampAssumption, NEW t \in Nat
    PROVE  /\ t - (t % Grain) \in Nat /\ t - (t % Grain) <= t
           /\ \A s, u \in Nat : Proves(s, u) /\ u <= t => s < t - (t % Grain)
<1>1. PICK m : m = t % Grain
      OBVIOUS
<1>2. m \in Nat /\ m < Grain /\ m <= t
      BY <1>1 DEF StampAssumption
<1>3. Grain \in Nat /\ RacyWindow \in Nat /\ Grain <= RacyWindow
      BY DEF StampAssumption
<1>4. ASSUME NEW s \in Nat, NEW u \in Nat, s + RacyWindow <= u, u <= t
      PROVE  s < t - m
      BY <1>2, <1>3, <1>4
<1> QED BY <1>1, <1>2, <1>4 DEF Proves
Stamp(t) == t - (t % Grain)
Written(d, f, c, t) == [d EXCEPT ![f] = [content |-> c, ctime |-> Stamp(t)]]
Noticed(rs, f, c) ==
    [r \in Readers |->
        IF rs[r].had[f] = {} THEN rs[r] ELSE [rs[r] EXCEPT !.had[f] = @ \cup {c}]]

\* A load is told of what is written, and nothing else of it changes.
LEMMA NoticedLoad ==
    ASSUME NEW k, Shape(k), NEW f \in Files, NEW c \in Nat,
           NEW e, e = IF k.had[f] = {} THEN k ELSE [k EXCEPT !.had[f] = @ \cup {c}]
    PROVE  /\ Shape(e)
           /\ e.at = k.at /\ e.pc = k.pc /\ e.todo = k.todo
           /\ e.stamps = k.stamps /\ e.docs = k.docs
           /\ \A g \in Files : k.had[g] \subseteq e.had[g]
           /\ k.had[f] # {} => c \in e.had[f]
<1>1. CASE k.had[f] = {}
      BY <1>1
<1>2. CASE k.had[f] # {}
  <2>1. PICK a, p, td, s, dc, h :
                /\ k = Load(a, p, td, s, dc, h)
                /\ a \in Nat /\ td \in SUBSET Files /\ h \in [Files -> SUBSET Nat]
                /\ DOMAIN s \subseteq Files /\ \A g \in DOMAIN s : s[g] \in Nat
        BY LoadOf
  <2>2. /\ k.at = a /\ k.pc = p /\ k.todo = td
        /\ k.stamps = s /\ k.docs = dc /\ k.had = h
        BY <2>1, LoadFields
  <2>3. PICK n : n = [h EXCEPT ![f] = @ \cup {c}]
        OBVIOUS
  <2>4. e = Load(a, p, td, s, dc, n)
    <3>1. e = [k EXCEPT !.had = n]
          BY <1>2, <2>2, <2>3
    <3>2. k = [at |-> a, pc |-> p, todo |-> td, stamps |-> s, docs |-> dc, had |-> h]
          BY <2>1 DEF Load
    <3> QED BY <3>1, <3>2 DEF Load
  <2>5. n \in [Files -> SUBSET Nat] /\ c \in n[f] /\ \A g \in Files : h[g] \subseteq n[g]
        BY <2>1, <2>3
  <2>6. PICK x : x = Load(a, p, td, s, dc, n)
        OBVIOUS
  <2>7. Shape(x)
        BY <2>1, <2>5, <2>6, LoadShape
  <2>8. /\ x.at = a /\ x.pc = p /\ x.todo = td
        /\ x.stamps = s /\ x.docs = dc /\ x.had = n
        BY <2>6, LoadFields
  <2>9. e = x
        BY <2>4, <2>6
  <2> QED BY <2>2, <2>5, <2>7, <2>8, <2>9
<1> QED BY <1>1, <1>2

LEMMA WrittenGood ==
    ASSUME StampAssumption, NEW t, NEW d, NEW rs, NEW sv, Good(t, d, rs, sv),
           NEW f \in Files, NEW c \in Nat
    PROVE  Good(t, Written(d, f, c, t), Noticed(rs, f, c), sv)
<1>1. PICK d2 : d2 = Written(d, f, c, t)
      OBVIOUS
<1>2. PICK n : n = Noticed(rs, f, c)
      OBVIOUS
<1>3. PICK w : w = Stamp(t)
      OBVIOUS
<1>4. /\ t \in Nat /\ w \in Nat /\ w <= t
      /\ \A s, u \in Nat : Proves(s, u) /\ u <= t => s < w
      BY <1>3, WriteStamps DEF Good, Dated, Stamp
<1>5. /\ d2 \in [Files -> [content : Nat, ctime : Nat]]
      /\ d2[f].content = c /\ d2[f].ctime = w
      /\ \A g \in Files \ {f} : d2[g] = d[g]
      BY <1>1, <1>3, <1>4 DEF Written, Good, Dated
<1>6. Dated(t, d2)
      BY <1>4, <1>5 DEF Good, Dated
<1>7. n = [r \in Readers |-> n[r]]
      BY <1>2 DEF Noticed
<1>8. ASSUME NEW r \in Readers
      PROVE  /\ Shape(n[r])
             /\ n[r].at = rs[r].at /\ n[r].pc = rs[r].pc /\ n[r].todo = rs[r].todo
             /\ n[r].stamps = rs[r].stamps /\ n[r].docs = rs[r].docs
             /\ \A g \in Files : rs[r].had[g] \subseteq n[r].had[g]
             /\ rs[r].had[f] # {} => c \in n[r].had[f]
  <2>1. n[r] = IF rs[r].had[f] = {} THEN rs[r] ELSE [rs[r] EXCEPT !.had[f] = @ \cup {c}]
        BY <1>2 DEF Noticed
  <2>2. Shape(rs[r])
        BY DEF Good
  <2> QED BY <2>1, <2>2, NoticedLoad
<1>9. ASSUME NEW k, NEW g \in Files, Witnessed(k, g, rs) PROVE Witnessed(k, g, n)
      BY <1>8, <1>9 DEF Witnessed
\* A stamp that proves what was read is older than any write to come.
<1>10. ASSUME NEW k, NEW g \in Files, NEW u \in Nat, u <= t, k.stamps[g] \in Nat,
              Proves(k.stamps[g], u), Stands(k, g, d)
       PROVE  Stands(k, g, d2)
  <2>1. CASE g = f
    <3>1. d2[g].ctime # k.stamps[g]
          BY <1>4, <1>5, <1>10, <2>1
    <3> QED BY <3>1 DEF Stands
  <2>2. CASE g # f
        BY <1>5, <1>10, <2>2 DEF Stands
  <2> QED BY <2>1, <2>2
<1>11. ASSUME NEW r \in Readers PROVE Walked(n[r], t, d2, n) /\ Real(n[r])
  <2>1. Shape(rs[r]) /\ Walked(rs[r], t, d, rs) /\ Real(rs[r])
        BY DEF Good
  <2>2. /\ n[r].at = rs[r].at /\ n[r].pc = rs[r].pc /\ n[r].todo = rs[r].todo
        /\ n[r].stamps = rs[r].stamps /\ n[r].docs = rs[r].docs
        /\ \A g \in Files : rs[r].had[g] \subseteq n[r].had[g]
        /\ rs[r].had[f] # {} => c \in n[r].had[f]
        BY <1>8
  <2>3. \A g \in Files : Held(n[r], g) = Held(rs[r], g)
        BY <2>2 DEF Held
  <2>4. DOMAIN rs[r].stamps \subseteq Files /\ rs[r].at \in Nat /\ rs[r].at <= t
        /\ \A g \in DOMAIN rs[r].stamps : rs[r].stamps[g] \in Nat
        BY <2>1 DEF Shape, Walked
  <2>5. \A g \in DOMAIN n[r].stamps : d2[g].content \in n[r].had[g]
    <3>1. SUFFICES ASSUME NEW g \in DOMAIN rs[r].stamps PROVE d2[g].content \in n[r].had[g]
          BY <2>2
    <3>2. d[g].content \in rs[r].had[g] /\ g \in Files
          BY <2>1, <2>4 DEF Walked
    <3>3. CASE g = f
          BY <1>5, <2>2, <3>2, <3>3
    <3>4. CASE g # f
          BY <1>5, <2>2, <3>2, <3>4
    <3> QED BY <3>3, <3>4
  <2>6. HasRead(n[r]) = HasRead(rs[r]) /\ HasRead(rs[r]) \subseteq Files
        BY <2>2, <2>4 DEF HasRead
  <2>7. ASSUME NEW g \in HasRead(n[r]), Proves(n[r].stamps[g], n[r].at)
        PROVE  Stands(n[r], g, d2) /\ Witnessed(n[r], g, n)
    <3>1. g \in HasRead(rs[r]) /\ g \in Files /\ Proves(rs[r].stamps[g], rs[r].at)
          BY <2>2, <2>6, <2>7
    <3>2. g \in DOMAIN rs[r].stamps
          BY <3>1 DEF HasRead
    <3>3. Stands(rs[r], g, d) /\ Witnessed(rs[r], g, rs)
          BY <2>1, <3>1 DEF Walked
    <3>4. Stands(rs[r], g, d2)
          BY <1>10, <2>4, <3>1, <3>2, <3>3
    <3>5. Witnessed(rs[r], g, n)
          BY <1>9, <3>1, <3>3
    <3> QED BY <2>2, <2>3, <3>1, <3>4, <3>5 DEF Stands, Witnessed
  <2>8. Walked(n[r], t, d2, n)
        BY <2>1, <2>2, <2>5, <2>7 DEF Walked
  <2>9. Real(n[r])
        BY <2>1, <2>2, <2>3, <2>4 DEF Real
  <2> QED BY <2>8, <2>9
<1>12. ASSUME NEW e \in Caches, sv[e] # Nothing PROVE Kept(sv[e], t, d2, n)
  <2>1. Kept(sv[e], t, d, rs)
        BY <1>12 DEF Good
  <2>2. ASSUME NEW g \in DOMAIN sv[e].stamps
        PROVE  Stands(sv[e], g, d2) /\ Witnessed(sv[e], g, n)
    <3>1. /\ g \in Files /\ sv[e].stamps[g] \in Nat /\ Proves(sv[e].stamps[g], t)
          /\ Stands(sv[e], g, d) /\ Witnessed(sv[e], g, rs)
          BY <2>1 DEF Kept
    <3>2. Stands(sv[e], g, d2)
          BY <1>4, <1>10, <3>1
    <3> QED BY <1>9, <3>1, <3>2
  <2> QED BY <2>1, <2>2 DEF Kept
<1>13. sv = [e \in Caches |-> sv[e]]
       BY DEF Good
<1>14. Good(t, d2, n, sv)
       BY <1>6, <1>7, <1>8, <1>11, <1>12, <1>13 DEF Good
<1> QED BY <1>1, <1>2, <1>14

LEMMA LaterGood ==
    ASSUME StampAssumption, NEW t, NEW d, NEW rs, NEW sv, Good(t, d, rs, sv)
    PROVE  Good(t + 1, d, rs, sv)
<1>1. t \in Nat /\ RacyWindow \in Nat
      BY DEF Good, Dated, StampAssumption
<1>2. Dated(t + 1, d)
      BY <1>1 DEF Good, Dated
<1>3. ASSUME NEW r \in Readers PROVE Walked(rs[r], t + 1, d, rs)
  <2>1. Walked(rs[r], t, d, rs) /\ rs[r].at \in Nat
        BY DEF Good, Shape
  <2> QED BY <1>1, <2>1 DEF Walked
<1>4. ASSUME NEW c \in Caches, sv[c] # Nothing PROVE Kept(sv[c], t + 1, d, rs)
  <2>1. Kept(sv[c], t, d, rs)
        BY <1>4 DEF Good
  <2>2. \A s \in Nat : Proves(s, t) => Proves(s, t + 1)
        BY <1>1 DEF Proves
  <2> QED BY <2>1, <2>2 DEF Kept
<1> QED BY <1>2, <1>3, <1>4 DEF Good
-----------------------------------------------------------------------------
(* The steps of a load.                                                        *)
\* A load that has read nothing yet, or is over.
LEMMA FreshWalked ==
    ASSUME NEW t, NEW d, NEW rs, NEW k, k.at <= t,
           k.pc \in {"idle", "walk", "read", "done"},
           k.pc = "walk" => DOMAIN k.docs = {} /\ DOMAIN k.stamps \cap k.todo = {},
           k.pc = "read" => DOMAIN k.docs = {} /\ DOMAIN k.stamps \subseteq k.todo,
           \A f \in DOMAIN k.stamps : d[f].content \in k.had[f]
    PROVE  Walked(k, t, d, rs)
<1>1. HasRead(k) = {}
      BY DEF HasRead
<1>2. k.pc = "read" => DOMAIN k.docs \cap k.todo = {}
      OBVIOUS
<1> QED BY <1>1, <1>2 DEF Walked

NoHad == [f \in Files |-> {}]
NoFiles == <<>>
LEMMA NoFilesFact == DOMAIN NoFiles = {}
    BY DEF NoFiles

\* A load begins or is given up.
LEMMA EmptyGood ==
    ASSUME NEW t, NEW d, NEW rs, NEW sv, Good(t, d, rs, sv), NEW r \in Readers,
           NEW a \in Nat, a <= t, NEW p \in {"idle", "walk"}, NEW td \in SUBSET Files,
           NEW k, k = Load(a, p, td, NoFiles, NoFiles, NoHad)
    PROVE  Good(t, d, [rs EXCEPT ![r] = k], sv)
<1>1. NoHad \in [Files -> SUBSET Nat]
      BY DEF NoHad
<1>2. k.at = a /\ k.pc = p /\ k.stamps = NoFiles /\ k.docs = NoFiles
      BY LoadFields
<1>3. Shape(k)
      BY <1>1, NoFilesFact, LoadShape
<1>4. Walked(k, t, d, [rs EXCEPT ![r] = k])
      BY <1>2, NoFilesFact, FreshWalked
<1>5. Real(k) /\ Sees(k, rs[r], d)
      BY <1>2, NoFilesFact DEF Real, Sees
<1> QED BY <1>3, <1>4, <1>5, MovedGood

LEMMA IdleIs == Idle = Load(0, "idle", {}, NoFiles, NoFiles, NoHad)
    BY DEF Idle, Load, NoFiles, NoHad

LEMMA IdleGood ==
    ASSUME NEW t, NEW d, NEW rs, NEW sv, Good(t, d, rs, sv), NEW r \in Readers
    PROVE  Good(t, d, [rs EXCEPT ![r] = Idle], sv)
<1>1. 0 \in Nat /\ 0 <= t
      BY DEF Good, Dated
<1> QED BY <1>1, IdleIs, EmptyGood

LEMMA Started ==
    ASSUME NEW r \in Readers, Start(r)
    PROVE  reads' = [reads EXCEPT ![r] = Load(clock, "walk", Files, NoFiles, NoFiles, NoHad)]
<1>1. PICK i : i = Idle
      OBVIOUS
<1>2. PICK x : x = [i EXCEPT !.at = clock]
      OBVIOUS
<1>3. PICK y : y = [x EXCEPT !.pc = "walk"]
      OBVIOUS
<1>4. /\ i = Load(0, "idle", {}, NoFiles, NoFiles, NoHad)
      /\ x = Load(clock, "idle", {}, NoFiles, NoFiles, NoHad)
      BY <1>1, <1>2, IdleIs DEF Load
<1>5. y = Load(clock, "walk", {}, NoFiles, NoFiles, NoHad)
      BY <1>3, <1>4 DEF Load
<1>6. [y EXCEPT !.todo = Files] = Load(clock, "walk", Files, NoFiles, NoFiles, NoHad)
      BY <1>5 DEF Load
<1>7. reads' = [reads EXCEPT ![r] = [i EXCEPT !.at = clock, !.pc = "walk", !.todo = Files]]
      BY <1>1 DEF Start
<1> QED BY <1>2, <1>3, <1>6, <1>7

LEMMA StartHolds == ASSUME ReadInv, NEW r \in Readers, Start(r) PROVE ReadInv'
<1>1. PICK k : k = Load(clock, "walk", Files, NoFiles, NoFiles, NoHad)
      OBVIOUS
<1>2. reads' = [reads EXCEPT ![r] = k]
      BY <1>1, Started
<1>3. clock \in Nat /\ clock <= clock
      BY DEF ReadInv, Good, Dated
<1>4. Good(clock, disk, [reads EXCEPT ![r] = k], saved)
      BY <1>1, <1>3, EmptyGood DEF ReadInv
<1> QED BY <1>2, <1>4 DEF ReadInv, Start

LEMMA StampFileHolds ==
    ASSUME ReadInv, NEW r \in Readers, NEW f \in Files, StampFile(r, f) PROVE ReadInv'
<1>1. /\ Good(clock, disk, reads, saved) /\ Shape(reads[r])
      /\ Walked(reads[r], clock, disk, reads) /\ reads = [q \in Readers |-> reads[q]]
      BY DEF ReadInv, Good
<1>2. PICK a, p, td, s, dc, h :
              /\ reads[r] = Load(a, p, td, s, dc, h)
              /\ a \in Nat /\ td \in SUBSET Files /\ h \in [Files -> SUBSET Nat]
              /\ DOMAIN s \subseteq Files /\ \A g \in DOMAIN s : s[g] \in Nat
      BY <1>1, LoadOf
<1>3. /\ reads[r].at = a /\ reads[r].pc = p /\ reads[r].todo = td
      /\ reads[r].stamps = s /\ reads[r].docs = dc /\ reads[r].had = h
      BY <1>2, LoadFields
<1>4. disk \in [Files -> [content : Nat, ctime : Nat]]
      BY <1>1 DEF Good, Dated
<1>5. PICK n : n = [h EXCEPT ![f] = {disk[f].content}]
      OBVIOUS
<1>6. PICK m : m = IF Exists(f) THEN With(s, f, disk[f].ctime) ELSE s
      OBVIOUS
<1>7. PICK u, k : u = td \ {f} /\ k = Load(a, p, u, m, dc, n)
      OBVIOUS
<1>8. reads' = [reads EXCEPT ![r] = k]
  <2>1. PICK x : x = reads[r]
        OBVIOUS
  <2>2. PICK y : y = [x EXCEPT !.todo = u]
        OBVIOUS
  <2>3. PICK z : z = [y EXCEPT !.stamps = m]
        OBVIOUS
  <2>4. x = Load(a, p, td, s, dc, h) /\ k = Load(a, p, u, m, dc, n)
        BY <1>2, <1>7, <2>1
  <2>5. y = Load(a, p, u, s, dc, h)
        BY <2>2, <2>4 DEF Load
  <2>6. z = Load(a, p, u, m, dc, h)
        BY <2>3, <2>5 DEF Load
  <2>7. [z EXCEPT !.had = n] = k
        BY <2>4, <2>6 DEF Load
  <2>8. reads' = [reads EXCEPT ![r] = [x EXCEPT !.todo = u, !.stamps = m, !.had = n]]
    <3>1. reads' = [reads EXCEPT ![r].todo = @ \ {f},
                         ![r].stamps = IF Exists(f) THEN With(@, f, disk[f].ctime) ELSE @,
                         ![r].had[f] = {disk[f].content}]
          BY DEF StampFile
    <3>2. reads' = [reads EXCEPT ![r].todo = u, ![r].stamps = m, ![r].had[f] = {disk[f].content}]
          BY <1>1, <1>3, <1>6, <1>7, <3>1
    <3>3. reads' = [reads EXCEPT ![r].todo = u, ![r].stamps = m,
                                 ![r].had = [h EXCEPT ![f] = {disk[f].content}]]
          BY <1>1, <1>3, <3>2
    <3> QED BY <1>1, <1>5, <2>1, <3>3
  <2> QED BY <2>2, <2>3, <2>7, <2>8
<1>9. /\ p = "walk" /\ f \in td /\ DOMAIN dc = {} /\ DOMAIN s \cap td = {} /\ a <= clock
      /\ \A g \in DOMAIN s : disk[g].content \in h[g]
      BY <1>1, <1>3 DEF StampFile, Walked
<1>10. /\ n \in [Files -> SUBSET Nat] /\ n[f] = {disk[f].content}
       /\ \A g \in Files \ {f} : n[g] = h[g]
       BY <1>2, <1>4, <1>5
<1>11. /\ DOMAIN m \subseteq DOMAIN s \cup {f}
       /\ \A g \in DOMAIN m : IF g = f THEN m[g] = disk[f].ctime ELSE m[g] = s[g]
       BY <1>6, <1>9 DEF With
<1>12. DOMAIN m \subseteq Files /\ \A g \in DOMAIN m : m[g] \in Nat
       BY <1>2, <1>4, <1>11
<1>13. /\ k.at = a /\ k.pc = p /\ k.todo = td \ {f}
       /\ k.stamps = m /\ k.docs = dc /\ k.had = n
       BY <1>7, LoadFields
<1>14. Shape(k)
  <2>1. a \in Nat /\ u \in SUBSET Files
        BY <1>2, <1>7
  <2> QED BY <1>7, <1>10, <1>12, <2>1, LoadShape
<1>15. Walked(k, clock, disk, [reads EXCEPT ![r] = k])
  <2>1. \A g \in DOMAIN m : disk[g].content \in n[g]
        BY <1>2, <1>9, <1>10, <1>11
  <2>2. DOMAIN m \cap (td \ {f}) = {}
        BY <1>9, <1>11
  <2> QED BY <1>9, <1>13, <2>1, <2>2, FreshWalked
<1>16. Sees(k, reads[r], disk)
  <2>1. ASSUME NEW g \in DOMAIN m
        PROVE  \/ g \in DOMAIN s /\ m[g] = s[g] /\ h[g] \subseteq n[g]
               \/ m[g] = disk[g].ctime /\ disk[g].content \in n[g]
        BY <1>2, <1>10, <1>11, <2>1
  <2> QED BY <1>3, <1>13, <2>1 DEF Sees
<1>17. Real(k)
       BY <1>9, <1>13 DEF Real
<1>18. Good(clock, disk, [reads EXCEPT ![r] = k], saved)
       BY <1>1, <1>14, <1>15, <1>16, <1>17, MovedGood
<1> QED BY <1>8, <1>18 DEF ReadInv, StampFile

LEMMA MissHolds == ASSUME ReadInv, NEW r \in Readers, Miss(r), StampAssumption PROVE ReadInv'
<1>1. /\ Good(clock, disk, reads, saved) /\ Shape(reads[r])
      /\ Walked(reads[r], clock, disk, reads) /\ reads = [q \in Readers |-> reads[q]]
      BY DEF ReadInv, Good
<1>2. PICK a, p, td, s, dc, h :
              /\ reads[r] = Load(a, p, td, s, dc, h)
              /\ a \in Nat /\ td \in SUBSET Files /\ h \in [Files -> SUBSET Nat]
              /\ DOMAIN s \subseteq Files /\ \A g \in DOMAIN s : s[g] \in Nat
      BY <1>1, LoadOf
<1>3. /\ reads[r].at = a /\ reads[r].pc = p /\ reads[r].todo = td
      /\ reads[r].stamps = s /\ reads[r].docs = dc /\ reads[r].had = h
      BY <1>2, LoadFields
<1>4. PICK n : n = DOMAIN s \cup Relisted(r)
      OBVIOUS
<1>5. PICK k : k = Load(a, "read", n, s, dc, h)
      OBVIOUS
<1>6. reads' = [reads EXCEPT ![r] = k]
  <2>1. PICK x : x = reads[r]
        OBVIOUS
  <2>2. PICK y : y = [x EXCEPT !.pc = "read"]
        OBVIOUS
  <2>3. y = Load(a, "read", td, s, dc, h)
        BY <1>2, <2>1, <2>2 DEF Load
  <2>4. [y EXCEPT !.todo = n] = k
        BY <1>5, <2>3 DEF Load
  <2>5. reads' = [reads EXCEPT ![r] = [x EXCEPT !.pc = "read", !.todo = n]]
        BY <1>1, <1>3, <1>4, <2>1 DEF Miss
  <2> QED BY <2>2, <2>4, <2>5
<1>7. n \in SUBSET Files /\ DOMAIN s \subseteq n
      BY <1>2, <1>4 DEF Relisted, StampAssumption
<1>8. /\ p = "walk" /\ DOMAIN dc = {} /\ a <= clock
      /\ \A g \in DOMAIN s : disk[g].content \in h[g]
      BY <1>1, <1>3 DEF Miss, Walked
<1>9. /\ k.at = a /\ k.pc = "read" /\ k.todo = n
      /\ k.stamps = s /\ k.docs = dc /\ k.had = h
      BY <1>5, LoadFields
<1>10. Shape(k)
       BY <1>2, <1>5, <1>7, LoadShape
<1>11. Walked(k, clock, disk, [reads EXCEPT ![r] = k])
       BY <1>7, <1>8, <1>9, FreshWalked
<1>12. Real(k) /\ Sees(k, reads[r], disk)
       BY <1>3, <1>9 DEF Real, Sees
<1>13. Good(clock, disk, [reads EXCEPT ![r] = k], saved)
       BY <1>1, <1>10, <1>11, <1>12, MovedGood
<1> QED BY <1>6, <1>13 DEF ReadInv, Miss
LEMMA CacheIs == ASSUME NEW r \in Readers PROVE CacheOf(r) \in Caches
    BY DEF CacheOf, Readers, Caches

LEMMA UseSavedHolds == ASSUME ReadInv, NEW r \in Readers, UseSaved(r) PROVE ReadInv'
<1>1. /\ Good(clock, disk, reads, saved) /\ Shape(reads[r])
      /\ Walked(reads[r], clock, disk, reads) /\ reads = [q \in Readers |-> reads[q]]
      BY DEF ReadInv, Good
<1>2. PICK a, p, td, s, dc, h :
              /\ reads[r] = Load(a, p, td, s, dc, h)
              /\ a \in Nat /\ td \in SUBSET Files /\ h \in [Files -> SUBSET Nat]
              /\ DOMAIN s \subseteq Files /\ \A g \in DOMAIN s : s[g] \in Nat
      BY <1>1, LoadOf
<1>3. /\ reads[r].at = a /\ reads[r].pc = p /\ reads[r].todo = td
      /\ reads[r].stamps = s /\ reads[r].docs = dc /\ reads[r].had = h
      BY <1>2, LoadFields
<1>4. PICK kept, e : kept = saved[CacheOf(r)] /\ e = kept.docs
      OBVIOUS
<1>5. PICK k : k = Load(a, "done", td, s, e, h)
      OBVIOUS
<1>6. reads' = [reads EXCEPT ![r] = k]
  <2>1. PICK x : x = reads[r]
        OBVIOUS
  <2>2. PICK y : y = [x EXCEPT !.pc = "done"]
        OBVIOUS
  <2>3. x = Load(a, p, td, s, dc, h)
        BY <1>2, <2>1
  <2>4. y = Load(a, "done", td, s, dc, h)
        BY <2>2, <2>3 DEF Load
  <2>5. [y EXCEPT !.docs = e] = k
        BY <1>5, <2>4 DEF Load
  <2>6. reads' = [reads EXCEPT ![r] = [x EXCEPT !.pc = "done", !.docs = e]]
        BY <1>1, <1>4, <2>1 DEF UseSaved
  <2> QED BY <2>2, <2>5, <2>6
<1>7. /\ k.at = a /\ k.pc = "done" /\ k.todo = td
      /\ k.stamps = s /\ k.docs = e /\ k.had = h
      BY <1>5, LoadFields
<1>8. a <= clock /\ \A g \in DOMAIN s : disk[g].content \in h[g]
      BY <1>1, <1>3 DEF Walked
<1>9. Shape(k)
      BY <1>2, <1>5, LoadShape
<1>10. Walked(k, clock, disk, [reads EXCEPT ![r] = k])
       BY <1>7, <1>8, FreshWalked
<1>11. Sees(k, reads[r], disk)
       BY <1>3, <1>7 DEF Sees
<1>12. Real(k)
  <2>1. kept # Nothing /\ kept.stamps = s
        BY <1>3, <1>4 DEF UseSaved, Hit
  <2>2. Kept(kept, clock, disk, reads)
        BY <1>1, <1>4, <2>1, CacheIs DEF Good
  <2>3. ASSUME NEW g \in DOMAIN s PROVE Held(kept, g) \in h[g]
    <3>1. Witnessed(kept, g, reads)
          BY <2>1, <2>2, <2>3 DEF Kept
    <3> QED BY <1>3, <2>1, <2>3, <3>1 DEF Witnessed
  <2>4. \A g \in DOMAIN s : Held(k, g) = Held(kept, g)
        BY <1>4, <1>7 DEF Held
  <2> QED BY <1>7, <2>3, <2>4 DEF Real
<1>13. Good(clock, disk, [reads EXCEPT ![r] = k], saved)
       BY <1>1, <1>9, <1>10, <1>11, <1>12, MovedGood
<1> QED BY <1>6, <1>13 DEF ReadInv, UseSaved

\* A load reads a file, or finds it gone.
LEMMA AnsweredGood ==
    ASSUME NEW t, NEW d, NEW rs, NEW sv, Good(t, d, rs, sv), NEW r \in Readers,
           NEW a \in Nat, NEW td \in SUBSET Files, NEW h \in [Files -> SUBSET Nat],
           NEW s, NEW dc, NEW old, old = rs[r], old = Load(a, "read", td, s, dc, h),
           NEW f \in td, NEW e, NEW u, u = td \ {f}, DOMAIN e \subseteq DOMAIN dc \cup {f},
           NEW k, k = Load(a, "read", u, s, e, h),
           \A g \in Files \ {f} : Held(k, g) = Held(old, g), Held(k, f) = d[f].content
    PROVE  Good(t, d, [rs EXCEPT ![r] = k], sv)
<1>1. /\ old.at = a /\ old.pc = "read" /\ old.todo = td
      /\ old.stamps = s /\ old.docs = dc /\ old.had = h
      BY LoadFields
<1>2. /\ k.at = a /\ k.pc = "read" /\ k.todo = u
      /\ k.stamps = s /\ k.docs = e /\ k.had = h
      BY LoadFields
<1>3. /\ Shape(old) /\ Walked(old, t, d, rs) /\ rs = [q \in Readers |-> rs[q]]
      /\ DOMAIN s \subseteq Files /\ \A g \in DOMAIN s : s[g] \in Nat
      BY <1>1 DEF Good, Shape
<1>4. Shape(k)
      BY <1>3, LoadShape
<1>5. Sees(k, rs[r], d)
      BY <1>1, <1>2 DEF Sees
<1>6. Real(k)
      BY <1>2 DEF Real
<1>7. ASSUME NEW g \in HasRead(k), Proves(k.stamps[g], k.at)
      PROVE  Stands(k, g, d) /\ Witnessed(k, g, rs)
  <2>1. g \in DOMAIN s /\ g \in Files /\ g \notin u
        BY <1>2, <1>3, <1>7 DEF HasRead
  <2>2. CASE g = f
    <3>1. \A q \in Readers : g \in DOMAIN rs[q].stamps => d[g].content \in rs[q].had[g]
          BY DEF Good, Walked
    <3> QED BY <2>2, <3>1 DEF Stands, Witnessed
  <2>3. CASE g # f
    <3>1. g \in HasRead(old) /\ Proves(old.stamps[g], old.at)
          BY <1>1, <1>2, <1>7, <2>1, <2>3 DEF HasRead
    <3>2. Stands(old, g, d) /\ Witnessed(old, g, rs)
          BY <1>3, <3>1 DEF Walked
    <3>3. Held(k, g) = Held(old, g) /\ k.stamps[g] = old.stamps[g]
          BY <1>1, <1>2, <2>1, <2>3
    <3> QED BY <3>2, <3>3 DEF Stands, Witnessed
  <2> QED BY <2>2, <2>3
<1>8. ASSUME NEW g \in HasRead(k), Proves(k.stamps[g], k.at)
      PROVE  Witnessed(k, g, [rs EXCEPT ![r] = k])
      BY <1>3, <1>5, <1>7, <1>8, WitnessStays
<1>9. Walked(k, t, d, [rs EXCEPT ![r] = k])
  <2>1. DOMAIN e \cap u = {}
        BY <1>1, <1>3 DEF Walked
  <2>2. a <= t /\ \A g \in DOMAIN s : d[g].content \in h[g]
        BY <1>1, <1>3 DEF Walked
  <2> QED BY <1>2, <1>7, <1>8, <2>1, <2>2 DEF Walked
<1> QED BY <1>4, <1>5, <1>6, <1>9, MovedGood

LEMMA ReadFileHolds ==
    ASSUME ReadInv, NEW r \in Readers, NEW f \in Files, ReadFile(r, f) PROVE ReadInv'
<1>1. /\ Good(clock, disk, reads, saved) /\ Shape(reads[r])
      /\ reads = [q \in Readers |-> reads[q]]
      BY DEF ReadInv, Good
<1>2. PICK a, p, td, s, dc, h :
              /\ reads[r] = Load(a, p, td, s, dc, h)
              /\ a \in Nat /\ td \in SUBSET Files /\ h \in [Files -> SUBSET Nat]
              /\ DOMAIN s \subseteq Files /\ \A g \in DOMAIN s : s[g] \in Nat
      BY <1>1, LoadOf
<1>3. /\ reads[r].at = a /\ reads[r].pc = p /\ reads[r].todo = td
      /\ reads[r].stamps = s /\ reads[r].docs = dc /\ reads[r].had = h
      BY <1>2, LoadFields
<1>4. p = "read" /\ f \in td
      BY <1>3 DEF ReadFile
<1>5. PICK e : e = With(dc, f, disk[f].content)
      OBVIOUS
<1>6. PICK u, k : u = td \ {f} /\ k = Load(a, "read", u, s, e, h)
      OBVIOUS
<1>7. PICK x : x = reads[r]
      OBVIOUS
<1>8. x = Load(a, "read", td, s, dc, h)
      BY <1>2, <1>4, <1>7
<1>9. reads' = [reads EXCEPT ![r] = k]
  <2>1. PICK y : y = [x EXCEPT !.todo = u]
        OBVIOUS
  <2>2. k = Load(a, "read", u, s, e, h)
        BY <1>6
  <2>3. y = Load(a, "read", u, s, dc, h)
        BY <1>8, <2>1 DEF Load
  <2>4. [y EXCEPT !.docs = e] = k
        BY <2>2, <2>3 DEF Load
  <2>5. reads' = [reads EXCEPT ![r] = [x EXCEPT !.todo = u, !.docs = e]]
        BY <1>1, <1>3, <1>5, <1>6, <1>7 DEF ReadFile
  <2> QED BY <2>1, <2>4, <2>5
<1>10. x.docs = dc /\ k.docs = e
       BY <1>6, <1>8, LoadFields
<1>11. /\ DOMAIN e = DOMAIN dc \cup {f} /\ e[f] = disk[f].content
       /\ \A g \in DOMAIN dc \ {f} : e[g] = dc[g]
       BY <1>5 DEF With
<1>12. Held(k, f) = disk[f].content /\ \A g \in Files \ {f} : Held(k, g) = Held(x, g)
       BY <1>10, <1>11 DEF Held
<1>13. Good(clock, disk, [reads EXCEPT ![r] = k], saved)
  <2>1. k = Load(a, "read", u, s, e, h) /\ u = td \ {f} /\ DOMAIN e \subseteq DOMAIN dc \cup {f}
        BY <1>6, <1>11
  <2>2. a \in Nat /\ td \in SUBSET Files /\ h \in [Files -> SUBSET Nat]
        BY <1>2
  <2> QED BY <1>1, <1>4, <1>7, <1>8, <1>12, <2>1, <2>2, AnsweredGood
<1> QED BY <1>9, <1>13 DEF ReadInv, ReadFile

LEMMA FileGoneHolds ==
    ASSUME ReadInv, NEW r \in Readers, NEW f \in Files, FileGone(r, f) PROVE ReadInv'
<1>1. /\ Good(clock, disk, reads, saved) /\ Shape(reads[r])
      /\ Walked(reads[r], clock, disk, reads) /\ reads = [q \in Readers |-> reads[q]]
      BY DEF ReadInv, Good
<1>2. PICK a, p, td, s, dc, h :
              /\ reads[r] = Load(a, p, td, s, dc, h)
              /\ a \in Nat /\ td \in SUBSET Files /\ h \in [Files -> SUBSET Nat]
              /\ DOMAIN s \subseteq Files /\ \A g \in DOMAIN s : s[g] \in Nat
      BY <1>1, LoadOf
<1>3. /\ reads[r].at = a /\ reads[r].pc = p /\ reads[r].todo = td
      /\ reads[r].stamps = s /\ reads[r].docs = dc /\ reads[r].had = h
      BY <1>2, LoadFields
<1>4. p = "read" /\ f \in td /\ disk[f].content = 0
      BY <1>3 DEF FileGone, Exists
<1>5. CASE f \in Relisted(r)
  <2>1. PICK u, k : u = td \ {f} /\ k = Load(a, "read", u, s, dc, h)
        OBVIOUS
  <2>2. PICK x : x = reads[r]
        OBVIOUS
  <2>3. x = Load(a, "read", td, s, dc, h) /\ k = Load(a, "read", u, s, dc, h) /\ u = td \ {f}
        BY <1>2, <1>4, <2>1, <2>2
  <2>4. reads' = [reads EXCEPT ![r] = k]
    <3>1. [x EXCEPT !.todo = u] = k
          BY <2>3 DEF Load
    <3>2. PICK y : y = [reads[r] EXCEPT !.todo = reads[r].todo \ {f}]
          OBVIOUS
    <3>3. y = k
          BY <1>3, <2>1, <2>2, <3>1, <3>2
    <3>4. reads' = [reads EXCEPT ![r] = IF f \in Relisted(r) THEN y ELSE Idle]
          BY <3>2 DEF FileGone
    <3> QED BY <1>5, <3>3, <3>4
  <2>5. f \notin DOMAIN dc
        BY <1>1, <1>3, <1>4 DEF Walked
  <2>6. x.docs = dc /\ k.docs = dc
        BY <2>3, LoadFields
  <2>7. Held(k, f) = disk[f].content /\ \A g \in Files \ {f} : Held(k, g) = Held(x, g)
        BY <1>4, <2>5, <2>6 DEF Held
  <2>8. Good(clock, disk, [reads EXCEPT ![r] = k], saved)
    <3>1. PICK e : e = dc
          OBVIOUS
    <3>2. /\ k = Load(a, "read", u, s, e, h) /\ u = td \ {f}
          /\ DOMAIN e \subseteq DOMAIN dc \cup {f}
          BY <2>3, <3>1
    <3>3. x = Load(a, "read", td, s, dc, h)
          BY <2>3
    <3>4. a \in Nat /\ td \in SUBSET Files /\ h \in [Files -> SUBSET Nat]
          BY <1>2
    <3> QED BY <1>1, <1>4, <2>2, <2>7, <3>2, <3>3, <3>4, AnsweredGood
  <2> QED BY <2>4, <2>8 DEF ReadInv, FileGone
<1>6. CASE f \notin Relisted(r)
  <2>1. reads' = [reads EXCEPT ![r] = Idle]
        BY <1>6 DEF FileGone
  <2>2. Good(clock, disk, [reads EXCEPT ![r] = Idle], saved)
        BY <1>1, IdleGood
  <2> QED BY <2>1, <2>2 DEF ReadInv, FileGone
<1> QED BY <1>5, <1>6
\* What is kept was read under stamps that prove it.
LEMMA KeepIsKept ==
    ASSUME StampAssumption, ReadInv, NEW r \in Readers, reads[r].pc = "read", reads[r].todo = {},
           Keep(r) # Nothing
    PROVE  Kept(Keep(r), clock, disk, reads)
<1>1. /\ Good(clock, disk, reads, saved) /\ Shape(reads[r])
      /\ Walked(reads[r], clock, disk, reads) /\ reads[r].at <= clock
      BY DEF ReadInv, Good, Walked
<1>2. CASE Proven(reads[r])
  <2>1. PICK load : load = reads[r]
        OBVIOUS
  <2>2. PICK k : k = [stamps |-> load.stamps, docs |-> load.docs]
        OBVIOUS
  <2>3. Keep(r) = k
        BY <1>2, <2>1, <2>2 DEF Keep
  <2>4. k.stamps = load.stamps /\ k.docs = load.docs
        BY <2>2
  <2>5. /\ DOMAIN load.stamps \subseteq Files /\ HasRead(load) = DOMAIN load.stamps
        /\ load.at \in Nat /\ load.at <= clock
        /\ \A f \in DOMAIN load.stamps : load.stamps[f] \in Nat
        BY <1>1, <2>1 DEF Shape, HasRead
  <2>6. ASSUME NEW f \in DOMAIN load.stamps
        PROVE  Proves(load.stamps[f], clock) /\ Stands(k, f, disk) /\ Witnessed(k, f, reads)
    <3>1. Proves(load.stamps[f], load.at)
          BY <1>2, <2>1, <2>6 DEF Proven
    <3>2. Stands(load, f, disk) /\ Witnessed(load, f, reads)
          BY <1>1, <2>1, <2>5, <2>6, <3>1 DEF Walked
    <3>3. Held(k, f) = Held(load, f)
          BY <2>4 DEF Held
    <3>4. Proves(load.stamps[f], clock)
      <4>1. load.stamps[f] \in Nat /\ clock \in Nat /\ RacyWindow \in Nat
            BY <1>1, <2>5, <2>6 DEF Good, Dated, StampAssumption
      <4> QED BY <2>5, <3>1, <4>1 DEF Proves
    <3> QED BY <2>4, <3>2, <3>3, <3>4 DEF Stands, Witnessed
  <2> QED BY <2>3, <2>4, <2>5, <2>6 DEF Kept
<1>3. CASE ~ Proven(reads[r])
  <2>1. Keep(r) = saved[CacheOf(r)]
        BY <1>3 DEF Keep
  <2> QED BY <1>1, <2>1, CacheIs DEF Good
<1> QED BY <1>2, <1>3

LEMMA FinishHolds == ASSUME StampAssumption, ReadInv, NEW r \in Readers, Finish(r) PROVE ReadInv'
<1>1. PICK k, c, sv : k = Keep(r) /\ c = CacheOf(r) /\ sv = [saved EXCEPT ![c] = k]
      OBVIOUS
<1>2. k # Nothing => Kept(k, clock, disk, reads)
      BY <1>1, KeepIsKept DEF Finish
<1>3. Good(clock, disk, reads, saved) /\ c \in Caches
      BY <1>1, CacheIs DEF ReadInv
<1>4. Good(clock, disk, reads, [saved EXCEPT ![c] = k])
      BY <1>2, <1>3, KeptGood
<1>5. Good(clock, disk, reads, sv)
      BY <1>1, <1>4
<1>6. Good(clock, disk, [reads EXCEPT ![r] = Idle], sv)
      BY <1>5, IdleGood
<1> QED BY <1>1, <1>6 DEF ReadInv, Finish

LEMMA StopHolds == ASSUME ReadInv, NEW r \in Readers, Stop(r) PROVE ReadInv'
<1>1. PICK k, sv : k = Nothing /\ sv = IF r \in Hashers THEN [saved EXCEPT ![r] = k] ELSE saved
      OBVIOUS
<1>2. Good(clock, disk, reads, saved)
      BY DEF ReadInv
<1>3. Good(clock, disk, reads, sv)
  <2>1. CASE r \in Hashers
    <3>1. r \in Caches
          BY <2>1 DEF Caches
    <3>2. Good(clock, disk, reads, [saved EXCEPT ![r] = k])
          BY <1>1, <1>2, <3>1, KeptGood
    <3> QED BY <1>1, <2>1, <3>2
  <2>2. CASE r \notin Hashers
        BY <1>1, <1>2, <2>2
  <2> QED BY <2>1, <2>2
<1>4. Good(clock, disk, [reads EXCEPT ![r] = Idle], sv)
      BY <1>3, IdleGood
<1> QED BY <1>1, <1>4 DEF ReadInv, Stop

LEMMA PutHolds ==
    ASSUME StampAssumption, ReadInv, NEW f \in Files, NEW c \in Nat, Put(f, c), writes' \in Nat
    PROVE  ReadInv'
<1>1. Good(clock, Written(disk, f, c, clock), Noticed(reads, f, c), saved)
      BY WrittenGood DEF ReadInv
<1>2. /\ disk' = Written(disk, f, c, clock) /\ reads' = Noticed(reads, f, c)
      /\ clock' = clock /\ saved' = saved
      BY DEF Put, Written, Stamp, Noticed
<1> QED BY <1>1, <1>2 DEF ReadInv

LEMMA ReadInvInit == ASSUME StampAssumption, Init PROVE ReadInv
<1>1. /\ clock \in Nat /\ disk \in [Files -> [content : Nat, ctime : Nat]]
      /\ \A f \in Files : disk[f].ctime = 0
      BY DEF Init, StampAssumption
<1>2. Dated(clock, disk)
      BY <1>1 DEF Dated
<1>3. PICK i : i = Load(0, "idle", {}, NoFiles, NoFiles, NoHad)
      OBVIOUS
<1>4. reads = [r \in Readers |-> i] /\ saved = [c \in Caches |-> Nothing]
      BY <1>3, IdleIs DEF Init, Caches
<1>5. /\ i.at = 0 /\ i.pc = "idle" /\ i.stamps = NoFiles
      BY <1>3, LoadFields
<1>6. Shape(i)
  <2>1. 0 \in Nat /\ {} \in SUBSET Files /\ NoHad \in [Files -> SUBSET Nat]
        BY DEF NoHad
  <2> QED BY <1>3, <2>1, NoFilesFact, LoadShape
<1>7. Walked(i, clock, disk, reads)
      BY <1>1, <1>5, NoFilesFact, FreshWalked
<1>8. Real(i)
      BY <1>5 DEF Real
<1>9. Good(clock, disk, reads, saved)
      BY <1>2, <1>4, <1>6, <1>7, <1>8 DEF Good
<1> QED BY <1>9 DEF ReadInv, Init

LEMMA ReadInvStep == ASSUME StampAssumption, ReadInv, [Next]_vars PROVE ReadInv'
<1>1. CASE \E r \in Readers : Start(r) \/ UseSaved(r) \/ Miss(r) \/ Finish(r) \/ Stop(r)
      BY <1>1, StartHolds, UseSavedHolds, MissHolds, FinishHolds, StopHolds
<1>2. CASE \E r \in Readers, f \in Files : StampFile(r, f) \/ ReadFile(r, f) \/ FileGone(r, f)
      BY <1>2, StampFileHolds, ReadFileHolds, FileGoneHolds
<1>3. CASE Tick
  <2>1. Good(clock + 1, disk, reads, saved)
        BY LaterGood DEF ReadInv
  <2> QED BY <1>3, <2>1 DEF ReadInv, Tick
<1>4. CASE \E f \in Files : Write(f) \/ Remove(f)
  <2>1. PICK f \in Files : Write(f) \/ Remove(f)
        BY <1>4
  <2>2. PICK c \in Nat : Put(f, c) /\ writes' \in Nat
    <3>1. writes \in Nat /\ writes + 1 \in Nat /\ 0 \in Nat
          BY DEF ReadInv
    <3> QED BY <2>1, <3>1 DEF Write, Remove
  <2> QED BY <2>2, PutHolds
<1>5. CASE UNCHANGED vars
      BY <1>5 DEF ReadInv, vars
<1> QED BY <1>1, <1>2, <1>3, <1>4, <1>5 DEF Next

LEMMA ReadInvHolds == ASSUME StampAssumption PROVE Spec => []ReadInv
<1>1. Init => ReadInv
      BY ReadInvInit
<1>2. ReadInv /\ [Next]_vars => ReadInv'
      BY ReadInvStep
<1> QED BY <1>1, <1>2, PTL DEF Spec

-----------------------------------------------------------------------------
(* The bounds of a check: contents are numbered as they are written.           *)
Pcs == {"idle", "walk", "read", "done"}

LEMMA PcsStep ==
    ASSUME ReadInv, \A r \in Readers : reads[r].pc \in Pcs, [Next]_vars
    PROVE  \A r \in Readers : reads'[r].pc \in Pcs
<1>1. reads = [r \in Readers |-> reads[r]] /\ \A r \in Readers : Shape(reads[r])
      BY DEF ReadInv, Good
<1>2. Idle.pc = "idle"
      BY DEF Idle
<1>3. ASSUME NEW r \in Readers, NEW k, k.pc \in Pcs, reads' = [reads EXCEPT ![r] = k]
      PROVE  \A q \in Readers : reads'[q].pc \in Pcs
      BY <1>1, <1>3
<1>4. ASSUME NEW r \in Readers, Start(r)
      PROVE  \A q \in Readers : reads'[q].pc \in Pcs
  <2>1. PICK k : k = Load(clock, "walk", Files, NoFiles, NoFiles, NoHad)
        OBVIOUS
  <2>2. k.pc \in Pcs
        BY <2>1, LoadFields DEF Pcs
  <2> QED BY <1>3, <1>4, <2>1, <2>2, Started
<1>5. ASSUME NEW r \in Readers, UseSaved(r)
      PROVE  \A q \in Readers : reads'[q].pc \in Pcs
  <2>1. \A q \in Readers : reads'[q].pc \in {reads[q].pc, "done"}
        BY <1>1, <1>5 DEF UseSaved, Shape
  <2> QED BY <2>1 DEF Pcs
<1>6. ASSUME NEW r \in Readers, Miss(r)
      PROVE  \A q \in Readers : reads'[q].pc \in Pcs
  <2>1. \A q \in Readers : reads'[q].pc \in {reads[q].pc, "read"}
        BY <1>1, <1>6 DEF Miss, Shape
  <2> QED BY <2>1 DEF Pcs
<1>7. ASSUME NEW r \in Readers, Finish(r) \/ Stop(r)
      PROVE  \A q \in Readers : reads'[q].pc \in Pcs
      BY <1>2, <1>3, <1>7 DEF Finish, Stop, Pcs
<1>8. ASSUME NEW r \in Readers, NEW f \in Files, StampFile(r, f)
      PROVE  \A q \in Readers : reads'[q].pc \in Pcs
      BY <1>1, <1>8 DEF Pcs, StampFile
<1>9. ASSUME NEW r \in Readers, NEW f \in Files, ReadFile(r, f)
      PROVE  \A q \in Readers : reads'[q].pc \in Pcs
      BY <1>1, <1>9 DEF Pcs, ReadFile
<1>10. ASSUME NEW r \in Readers, NEW f \in Files, FileGone(r, f)
       PROVE  \A q \in Readers : reads'[q].pc \in Pcs
       BY <1>1, <1>2, <1>10 DEF Pcs, FileGone
<1>11. ASSUME NEW f \in Files, NEW c, Put(f, c)
       PROVE  \A q \in Readers : reads'[q].pc \in Pcs
       BY <1>1, <1>11 DEF Put
<1>12. CASE Tick
       BY <1>12 DEF Tick
<1>13. CASE UNCHANGED vars
       BY <1>13 DEF vars
<1> QED BY <1>4, <1>5, <1>6, <1>7, <1>8, <1>9, <1>10, <1>11, <1>12, <1>13 DEF Next, Write, Remove

LEMMA TypeStep ==
    ASSUME StampAssumption, ReadInv, TypeOK, [Next]_vars PROVE TypeOK'
<1>1. ReadInv'
      BY ReadInvStep
<1>2. /\ clock' \in Nat /\ writes \in Nat
      /\ disk \in [Files -> [content : Nat, ctime : Nat]]
      /\ \A f \in Files : disk'[f].ctime <= clock'
      BY <1>1 DEF ReadInv, Good, Dated
<1>3. clock' \in 0 .. MaxTime
  <2>1. clock \in Nat /\ clock <= MaxTime /\ MaxTime \in Nat
        BY DEF TypeOK, StampAssumption
  <2>2. clock' = clock \/ (clock < MaxTime /\ clock' = clock + 1)
        BY DEF Next, Start, UseSaved, Miss, Finish, Stop, StampFile, ReadFile, FileGone, Tick,
               Write, Remove, Put, vars
  <2> QED BY <2>1, <2>2
<1>4. ASSUME NEW f \in Files, NEW c \in Nat, Put(f, c), writes' \in 0 .. MaxWrites,
             c <= writes', writes <= writes'
      PROVE  writes' \in 0 .. MaxWrites /\ \A g \in Files : disk'[g].content <= writes'
  <2>1. \A g \in Files : disk'[g].content = IF g = f THEN c ELSE disk[g].content
        BY <1>2, <1>4 DEF Put
  <2>2. \A g \in Files : disk[g].content <= writes /\ disk[g].content \in Nat
        BY <1>2 DEF TypeOK
  <2> QED BY <1>2, <1>4, <2>1, <2>2
<1>5. writes' \in 0 .. MaxWrites /\ \A g \in Files : disk'[g].content <= writes'
  <2>1. writes <= MaxWrites /\ MaxWrites \in Nat /\ writes \in Nat
        BY <1>2 DEF TypeOK, StampAssumption
  <2>2. CASE \E f \in Files : Write(f)
    <3>1. PICK f \in Files : Write(f)
          BY <2>2
    <3>2. writes' = writes + 1 /\ writes < MaxWrites /\ Put(f, writes + 1)
          BY <3>1 DEF Write
    <3> QED BY <1>4, <2>1, <3>2
  <2>3. CASE \E f \in Files : Remove(f)
    <3>1. PICK f \in Files : Remove(f)
          BY <2>3
    <3>2. writes' = writes /\ Put(f, 0)
          BY <3>1 DEF Remove
    <3> QED BY <1>4, <2>1, <3>2
  <2>4. CASE disk' = disk /\ writes' = writes
        BY <2>1, <2>4 DEF TypeOK
  <2>5. CASE \E r \in Readers : Start(r) \/ UseSaved(r) \/ Miss(r) \/ Finish(r) \/ Stop(r)
        BY <2>4, <2>5 DEF Start, UseSaved, Miss, Finish, Stop
  <2>6. CASE \E r \in Readers : \E f \in Files : StampFile(r, f) \/ ReadFile(r, f) \/ FileGone(r, f)
        BY <2>4, <2>6 DEF StampFile, ReadFile, FileGone
  <2>7. CASE Tick \/ UNCHANGED vars
        BY <2>4, <2>7 DEF Tick, vars
  <2>8. CASE \E f \in Files : Write(f) \/ Remove(f)
        BY <2>2, <2>3, <2>8
  <2> QED BY <2>5, <2>6, <2>7, <2>8 DEF Next
<1>6. \A r \in Readers : reads'[r].pc \in Pcs
      BY PcsStep DEF TypeOK, Pcs
<1> QED BY <1>2, <1>3, <1>5, <1>6 DEF TypeOK, Pcs

LEMMA TypeInit == ASSUME StampAssumption, Init PROVE TypeOK
<1>1. Idle.pc = "idle"
      BY DEF Idle
<1>2. /\ clock = RacyWindow /\ writes = 1 /\ reads = [r \in Readers |-> Idle]
      /\ \A f \in Files : disk[f].content = 1 /\ disk[f].ctime = 0
      BY DEF Init
<1>3. clock \in 0 .. MaxTime /\ 0 <= clock /\ writes \in 0 .. MaxWrites
      BY <1>2 DEF StampAssumption
<1> QED BY <1>1, <1>2, <1>3 DEF TypeOK

LEMMA TypeHolds == ASSUME StampAssumption PROVE Spec => []TypeOK
<1>1. Init => TypeOK
      BY TypeInit
<1>2. ReadInv /\ TypeOK /\ [Next]_vars => TypeOK'
      BY TypeStep
<1> QED BY <1>1, <1>2, ReadInvHolds, PTL DEF Spec

LEMMA HitsFromInv == ReadInv => HitsAreReal
  BY DEF ReadInv, Good, Real, HitsAreReal

-----------------------------------------------------------------------------
\* A load spared by the graph cache or by a store's revision returns, of every file
\* it stamped, what the file has held since, whoever wrote it and however the files'
\* timestamps are rounded (graphcache.Load, revisionCache.current).
THEOREM SparedReadsAreReal == ASSUME StampAssumption PROVE Spec => []HitsAreReal
  BY HitsFromInv, ReadInvHolds, PTL

-----------------------------------------------------------------------------
(* Snapshots: the inductive invariant, of the parts of a state.  Whatever a    *)
(* store is at, it holds the lock; what others do to the directory meanwhile   *)
(* only adds or only takes away a document, so a copy that ends on the         *)
(* revision it began with is that revision.                                    *)

Rev == SUBSET GraphFiles
MapOf(K, V) == UNION {[d -> V] : d \in SUBSET K}
Steps == {"idle", "publish", "write", "record", "acquire", "freeze"}
Calls == [at : Steps, doc : Documents \cup {None}, exact : Rev \cup {NoRevision},
          includes : Rev \cup {NoRevision}, revision : Rev, todo : Rev, got : Rev]
Copies == [files : Rev, leases : Nat]
Leased == [store : Stores, revision : Rev, files : Rev]

Types(d, h, c, f, l, sn, le, pu) ==
    /\ d \in Rev /\ h \in Stores \cup {None} /\ c \in [Stores -> Calls]
    /\ f \in MapOf(Rev, Rev) /\ l \in [Stores -> MapOf(Rev, Rev)]
    /\ sn \in [Stores -> MapOf(Rev, Copies)] /\ le \in MapOf(Handles, Leased)
    /\ pu \in SUBSET Rev
Locked(h, c) == \A s \in Stores : c[s].at # "idle" => h = s
Based(d, c) ==
    \A s \in Stores :
        /\ c[s].at \in {"publish", "write"} => c[s].doc \in Documents
        /\ c[s].at \in {"write", "record"} => c[s].revision \subseteq d
Grows(map) == \A r \in DOMAIN map : map[r] \subseteq r
Drifted(d, k) ==
    (\A x \in k.revision \ d : x \notin Foreign) /\ (\A x \in d \ k.revision : x \in Foreign)
Frozen(d, k) ==
    /\ Drifted(d, k)
    /\ \A x \in k.got \ k.revision : x \in d /\ x \in Foreign
    /\ \A x \in k.revision \ k.got : x \in k.todo \/ x \notin d
Freezes(d, c) ==
    \A s \in Stores : /\ c[s].at = "acquire" => Drifted(d, c[s]) /\ c[s].got = {}
                      /\ c[s].at = "freeze" => Frozen(d, c[s])
Of(le, s, r) == {n \in DOMAIN le : le[n].store = s /\ le[n].revision = r}
Pinned(sn, le) ==
    /\ \A n \in DOMAIN le : /\ le[n].files = le[n].revision
                           /\ le[n].revision \in DOMAIN sn[le[n].store]
    /\ \A s \in Stores : \A r \in DOMAIN sn[s] :
        sn[s][r].files = r /\ sn[s][r].leases = Cardinality(Of(le, s, r))

SnapshotInv ==
    /\ Types(tree, opener, opening, lineageFile, lineage, snapshots, leases, published)
    /\ Locked(opener, opening) /\ Based(tree, opening)
    /\ Grows(lineageFile) /\ \A s \in Stores : Grows(lineage[s])
    /\ Freezes(tree, opening) /\ Pinned(snapshots, leases)
-----------------------------------------------------------------------------
(* Maps and walks.                                                         *)

LEMMA MapMember ==
    ASSUME NEW K, NEW V, NEW m
    PROVE  m \in MapOf(K, V) <=> \E d \in SUBSET K : m \in [d -> V]
BY DEF MapOf

LEMMA EmptyIsMap ==
    ASSUME NEW K, NEW V
    PROVE  Empty \in MapOf(K, V) /\ DOMAIN Empty = {}
<1>1. Empty \in [{} -> V] BY DEF Empty
<1>2. {} \in SUBSET K OBVIOUS
<1>3. DOMAIN Empty = {} BY DEF Empty
<1> QED BY <1>1, <1>2, <1>3, MapMember

LEMMA MapFacts ==
    ASSUME NEW K, NEW V, NEW m \in MapOf(K, V)
    PROVE  /\ DOMAIN m \subseteq K
           /\ \A k \in DOMAIN m : m[k] \in V
<1> PICK d \in SUBSET K : m \in [d -> V] BY MapMember
<1> QED OBVIOUS

LEMMA WithIsMap ==
    ASSUME NEW K, NEW V, NEW m \in MapOf(K, V), NEW k \in K, NEW v \in V
    PROVE  /\ Amend(m, k, v) \in MapOf(K, V)
           /\ DOMAIN Amend(m, k, v) = DOMAIN m \cup {k}
           /\ Amend(m, k, v)[k] = v
           /\ \A x \in DOMAIN m : x # k => Amend(m, k, v)[x] = m[x]
<1>1. PICK d \in SUBSET K : m \in [d -> V] BY MapMember
<1>2. DOMAIN m = d BY <1>1
<1>3. d \cup {k} \in SUBSET K BY <1>1
<1>4. Amend(m, k, v) \in [d \cup {k} -> V] BY <1>1, <1>2 DEF Amend
<1>5. Amend(m, k, v) \in MapOf(K, V) BY <1>3, <1>4, MapMember
<1>6. DOMAIN Amend(m, k, v) = DOMAIN m \cup {k} BY DEF Amend
<1>7. Amend(m, k, v)[k] = v BY DEF Amend
<1>8. \A x \in DOMAIN m : x # k => Amend(m, k, v)[x] = m[x] BY DEF Amend
<1> QED BY <1>5, <1>6, <1>7, <1>8

LEMMA OnlyIsMap ==
    ASSUME NEW K, NEW V, NEW m \in MapOf(K, V), NEW S \in SUBSET DOMAIN m
    PROVE  /\ Only(m, S) \in MapOf(K, V)
           /\ DOMAIN Only(m, S) = S
           /\ \A x \in S : Only(m, S)[x] = m[x]
<1>1. PICK d \in SUBSET K : m \in [d -> V] BY MapMember
<1>2. S \in SUBSET K BY <1>1
<1>3. Only(m, S) \in [S -> V] BY <1>1 DEF Only
<1>4. Only(m, S) \in MapOf(K, V) BY <1>2, <1>3, MapMember
<1>5. DOMAIN Only(m, S) = S BY DEF Only
<1>6. \A x \in S : Only(m, S)[x] = m[x] BY DEF Only
<1> QED BY <1>4, <1>5, <1>6

LEMMA UpdateIsMap ==
    ASSUME NEW K, NEW V, NEW m \in MapOf(K, V), NEW o \in MapOf(K, V)
    PROVE  Update(m, o) \in MapOf(K, V)
<1>1. PICK d \in SUBSET K : m \in [d -> V] BY MapMember
<1>2. PICK e \in SUBSET K : o \in [e -> V] BY MapMember
<1>3. d \cup e \in SUBSET K BY <1>1, <1>2
<1>4. Update(m, o) \in [d \cup e -> V] BY <1>1, <1>2 DEF Update
<1> QED BY <1>3, <1>4, MapMember

LEMMA EmptyGrows == Grows(Empty)
BY DEF Grows, Empty

LEMMA WithGrows ==
    ASSUME NEW m, Grows(m), NEW after, NEW before, before \subseteq after
    PROVE  Grows(Amend(m, after, before))
BY DEF Grows, Amend

LEMMA UpdateGrows ==
    ASSUME NEW m, Grows(m), NEW o, Grows(o)
    PROVE  Grows(Update(m, o))
BY DEF Grows, Update

\* What a walk over growing steps reaches is part of where it began.
LEMMA DescentIsInclusion ==
    ASSUME NEW map, Grows(map), NEW current, NEW required,
           DescendsFrom(map, current, required)
    PROVE  required \subseteq current
<1> DEFINE Base == {current} \cup {map[r] : r \in DOMAIN map}
           Below == {r \in Base : r \subseteq current}
<1>1. Below \in SUBSET Base OBVIOUS
<1>2. current \in Below OBVIOUS
<1>3. ASSUME NEW r \in Below \cap DOMAIN map
      PROVE  map[r] \in Below
  <2>1. map[r] \subseteq r BY <1>3 DEF Grows
  <2>2. r \subseteq current BY <1>3
  <2>3. map[r] \in Base BY <1>3
  <2> QED BY <2>1, <2>2, <2>3
<1>4. required \in Below BY <1>1, <1>2, <1>3 DEF DescendsFrom
<1> QED BY <1>4
-----------------------------------------------------------------------------
(* The leases of a revision, by the handles readers hold.                  *)

LEMMA HandlesFinite ==
    ASSUME SnapshotAssumption, NEW le \in MapOf(Handles, Leased), NEW s, NEW r
    PROVE  /\ IsFiniteSet(Of(le, s, r))
           /\ Cardinality(Of(le, s, r)) \in Nat
<1>1. IsFiniteSet(Handles) BY DEF SnapshotAssumption
<1>2. DOMAIN le \subseteq Handles BY MapFacts
<1>3. Of(le, s, r) \subseteq Handles BY <1>2 DEF Of
<1>4. IsFiniteSet(Of(le, s, r)) BY <1>1, <1>3, FS_Subset
<1> QED BY <1>4, FS_CardinalityType

LEMMA HeldByStores ==
    ASSUME NEW le \in MapOf(Handles, Leased), NEW x \in DOMAIN le
    PROVE  le[x] \in Leased /\ le[x].store \in Stores
<1>1. le[x] \in Leased BY MapFacts
<1> QED BY <1>1 DEF Leased

LEMMA OneMoreHeld ==
    ASSUME SnapshotAssumption, NEW le \in MapOf(Handles, Leased), NEW n \in Handles,
           n \notin DOMAIN le, NEW k \in Leased, NEW s, NEW r
    PROVE  /\ k.store = s /\ k.revision = r =>
                Cardinality(Of(Amend(le, n, k), s, r)) = Cardinality(Of(le, s, r)) + 1
           /\ ~ (k.store = s /\ k.revision = r) =>
                Cardinality(Of(Amend(le, n, k), s, r)) = Cardinality(Of(le, s, r))
<1> DEFINE new == Amend(le, n, k)
<1>1. /\ DOMAIN new = DOMAIN le \cup {n} /\ new[n] = k
      /\ \A x \in DOMAIN le : new[x] = le[x]
  BY DEF Amend
<1> HIDE DEF new
<1>2. CASE k.store = s /\ k.revision = r
  <2>1. Of(new, s, r) = Of(le, s, r) \cup {n} BY <1>1, <1>2 DEF Of
  <2>2. n \notin Of(le, s, r) BY DEF Of
  <2>3. Cardinality(Of(new, s, r)) = Cardinality(Of(le, s, r)) + 1
    BY <2>1, <2>2, HandlesFinite, FS_AddElement
  <2> QED BY <1>2, <2>3 DEF new
<1>3. CASE ~ (k.store = s /\ k.revision = r)
  <2>1. Of(new, s, r) = Of(le, s, r) BY <1>1, <1>3 DEF Of
  <2> QED BY <1>3, <2>1 DEF new
<1> QED BY <1>2, <1>3

LEMMA OneLessHeld ==
    ASSUME SnapshotAssumption, NEW le \in MapOf(Handles, Leased), NEW n \in DOMAIN le,
           NEW s, NEW r
    PROVE  LET new == Only(le, DOMAIN le \ {n}) IN
           /\ le[n].store = s /\ le[n].revision = r =>
                /\ Cardinality(Of(new, s, r)) = Cardinality(Of(le, s, r)) - 1
                /\ Cardinality(Of(le, s, r)) = 1 => Of(new, s, r) = {}
           /\ ~ (le[n].store = s /\ le[n].revision = r) =>
                Cardinality(Of(new, s, r)) = Cardinality(Of(le, s, r))
<1> DEFINE new == Only(le, DOMAIN le \ {n})
<1>1. DOMAIN new = DOMAIN le \ {n} /\ \A x \in DOMAIN le \ {n} : new[x] = le[x]
  BY OnlyIsMap
<1> HIDE DEF new
<1>2. CASE le[n].store = s /\ le[n].revision = r
  <2>1. Of(new, s, r) = Of(le, s, r) \ {n} BY <1>1, <1>2 DEF Of
  <2>2. n \in Of(le, s, r) BY <1>2 DEF Of
  <2>3. IsFiniteSet(Of(le, s, r)) /\ Cardinality(Of(le, s, r)) \in Nat BY HandlesFinite
  <2>4. /\ IsFiniteSet(Of(new, s, r))
        /\ Cardinality(Of(new, s, r)) = Cardinality(Of(le, s, r)) - 1
    BY <2>1, <2>2, <2>3, FS_RemoveElement
  <2>5. ASSUME Cardinality(Of(le, s, r)) = 1
        PROVE  Of(new, s, r) = {}
    <3>1. Cardinality(Of(new, s, r)) = 0 BY <2>4, <2>5
    <3> QED BY <3>1, <2>4, FS_EmptySet
  <2> QED BY <1>2, <2>4, <2>5 DEF new
<1>3. CASE ~ (le[n].store = s /\ le[n].revision = r)
  <2>1. Of(new, s, r) = Of(le, s, r) BY <1>1, <1>3 DEF Of
  <2> QED BY <1>3, <2>1 DEF new
<1> QED BY <1>2, <1>3 DEF new

\* A lease of a revision, of what was frozen where it is not retained yet.
LEMMA LeasePins ==
    ASSUME SnapshotAssumption, snapshots \in [Stores -> MapOf(Rev, Copies)],
           leases \in MapOf(Handles, Leased), Pinned(snapshots, leases),
           NEW s \in Stores, NEW r \in Rev,
           NEW n \in Handles, n \notin DOMAIN leases, NEW copy \in Copies, copy.files = r,
           copy.leases = (IF r \in DOMAIN snapshots[s] THEN snapshots[s][r].leases ELSE 0) + 1,
           NEW k \in Leased, k.store = s, k.revision = r, k.files = r,
           NEW m, m = Amend(snapshots[s], r, copy), snapshots' = [snapshots EXCEPT ![s] = m],
           leases' = Amend(leases, n, k)
    PROVE  /\ snapshots' \in [Stores -> MapOf(Rev, Copies)]
           /\ leases' \in MapOf(Handles, Leased)
           /\ Pinned(snapshots', leases')
<1>3. /\ m \in MapOf(Rev, Copies) /\ DOMAIN m = DOMAIN snapshots[s] \cup {r} /\ m[r] = copy
      /\ \A x \in DOMAIN snapshots[s] : x # r => m[x] = snapshots[s][x]
  <2>1. snapshots[s] \in MapOf(Rev, Copies) OBVIOUS
  <2>2. Amend(snapshots[s], r, copy) \in MapOf(Rev, Copies) BY <2>1, WithIsMap
  <2> QED BY <2>2 DEF Amend
<1>5. snapshots' \in [Stores -> MapOf(Rev, Copies)] /\ snapshots'[s] = m
      /\ \A t \in Stores : t # s => snapshots'[t] = snapshots[t]
  BY <1>3
<1>6. /\ leases' \in MapOf(Handles, Leased)
      /\ DOMAIN leases' = DOMAIN leases \cup {n} /\ leases'[n] = k
      /\ \A x \in DOMAIN leases : leases'[x] = leases[x]
  <2>1. Amend(leases, n, k) \in MapOf(Handles, Leased) BY WithIsMap
  <2> QED BY <2>1 DEF Amend
<1>7. ASSUME NEW x \in DOMAIN leases'
      PROVE  /\ leases'[x].files = leases'[x].revision
             /\ leases'[x].revision \in DOMAIN snapshots'[leases'[x].store]
  <2>1. CASE x = n BY <2>1, <1>3, <1>5, <1>6
  <2>2. CASE x # n
    <3>1. x \in DOMAIN leases /\ leases'[x] = leases[x] BY <2>2, <1>6
    <3>2. /\ leases[x].files = leases[x].revision
          /\ leases[x].revision \in DOMAIN snapshots[leases[x].store]
      BY <3>1 DEF Pinned
    <3>3. leases[x].store \in Stores BY <3>1, HeldByStores
    <3> QED BY <3>1, <3>2, <3>3, <1>3, <1>5
  <2> QED BY <2>1, <2>2
<1>8. ASSUME NEW t \in Stores, NEW q \in DOMAIN snapshots'[t]
      PROVE  /\ snapshots'[t][q].files = q
             /\ snapshots'[t][q].leases = Cardinality(Of(leases', t, q))
  <2>1. CASE t = s /\ q = r
    <3>1. snapshots'[t][q] = copy BY <2>1, <1>3, <1>5
    <3>2. Cardinality(Of(leases', s, r)) = Cardinality(Of(leases, s, r)) + 1 BY OneMoreHeld
    <3>3. CASE r \in DOMAIN snapshots[s]
      <4>1. snapshots[s][r].leases = Cardinality(Of(leases, s, r)) BY <3>3 DEF Pinned
      <4> QED BY <4>1, <3>1, <3>2, <3>3, <2>1
    <3>4. CASE r \notin DOMAIN snapshots[s]
      <4>1. Of(leases, s, r) = {} BY <3>4 DEF Pinned, Of
      <4>2. Cardinality(Of(leases, s, r)) = 0 BY <4>1, FS_EmptySet
      <4> QED BY <4>2, <3>1, <3>2, <3>4, <2>1
    <3> QED BY <3>3, <3>4
  <2>2. CASE ~ (t = s /\ q = r)
    <3>1. Cardinality(Of(leases', t, q)) = Cardinality(Of(leases, t, q)) BY <2>2, OneMoreHeld
    <3>2. q \in DOMAIN snapshots[t] /\ snapshots'[t][q] = snapshots[t][q] BY <2>2, <1>3, <1>5
    <3>3. snapshots[t][q].files = q /\ snapshots[t][q].leases = Cardinality(Of(leases, t, q))
      BY <3>2 DEF Pinned
    <3> QED BY <3>1, <3>2, <3>3
  <2> QED BY <2>1, <2>2
<1>9. Pinned(snapshots', leases') BY <1>7, <1>8 DEF Pinned
<1> QED BY <1>5, <1>6, <1>9

LEMMA ReleasePins ==
    ASSUME SnapshotAssumption, snapshots \in [Stores -> MapOf(Rev, Copies)],
           leases \in MapOf(Handles, Leased), Pinned(snapshots, leases), NEW n \in DOMAIN leases,
           NEW s, s = leases[n].store, NEW r, r = leases[n].revision,
           NEW m, m = IF snapshots[s][r].leases = 1 THEN Only(snapshots[s], DOMAIN snapshots[s] \ {r})
                      ELSE Amend(snapshots[s], r, [files |-> snapshots[s][r].files,
                                                    leases |-> snapshots[s][r].leases - 1]),
           snapshots' = [snapshots EXCEPT ![s] = m], leases' = Only(leases, DOMAIN leases \ {n})
    PROVE  /\ snapshots' \in [Stores -> MapOf(Rev, Copies)]
           /\ leases' \in MapOf(Handles, Leased)
           /\ Pinned(snapshots', leases')
<1>1. leases[n] \in Leased BY MapFacts
<1>2. s \in Stores /\ r \in Rev /\ leases[n].files = r /\ r \in DOMAIN snapshots[s]
  BY <1>1 DEF Leased, Pinned
<1>3. snapshots[s] \in MapOf(Rev, Copies) BY <1>2
<1>4. /\ snapshots[s][r] \in Copies
      /\ snapshots[s][r].files = r /\ snapshots[s][r].leases = Cardinality(Of(leases, s, r))
  BY <1>2, <1>3, MapFacts DEF Pinned
<1>6. /\ leases' \in MapOf(Handles, Leased) /\ DOMAIN leases' = DOMAIN leases \ {n}
      /\ \A x \in DOMAIN leases \ {n} : leases'[x] = leases[x]
  BY OnlyIsMap
<1>7. /\ Cardinality(Of(leases', s, r)) = Cardinality(Of(leases, s, r)) - 1
      /\ Cardinality(Of(leases, s, r)) = 1 => Of(leases', s, r) = {}
  BY OneLessHeld
<1>8. ASSUME NEW t \in Stores, NEW q, ~ (t = s /\ q = r)
      PROVE  Cardinality(Of(leases', t, q)) = Cardinality(Of(leases, t, q))
  BY <1>8, OneLessHeld
<1>9. Cardinality(Of(leases, s, r)) \in Nat \ {0}
  <2>1. n \in Of(leases, s, r) BY DEF Of
  <2>2. IsFiniteSet(Of(leases, s, r)) /\ Cardinality(Of(leases, s, r)) \in Nat BY HandlesFinite
  <2> QED BY <2>1, <2>2, FS_EmptySet
<1>11. CASE snapshots[s][r].leases = 1
  <2>1. m = Only(snapshots[s], DOMAIN snapshots[s] \ {r}) BY <1>11
  <2>2. /\ m \in MapOf(Rev, Copies) /\ DOMAIN m = DOMAIN snapshots[s] \ {r}
        /\ \A x \in DOMAIN snapshots[s] \ {r} : m[x] = snapshots[s][x]
    BY <2>1, <1>3, OnlyIsMap
  <2>3. /\ snapshots' \in [Stores -> MapOf(Rev, Copies)] /\ snapshots'[s] = m
        /\ \A t \in Stores : t # s => snapshots'[t] = snapshots[t]
    BY <2>2, <1>2
  <2>4. Of(leases', s, r) = {} BY <1>7, <1>11, <1>4
  <2>5. ASSUME NEW x \in DOMAIN leases'
        PROVE  /\ leases'[x].files = leases'[x].revision
               /\ leases'[x].revision \in DOMAIN snapshots'[leases'[x].store]
    <3>1. x \in DOMAIN leases /\ leases'[x] = leases[x] BY <1>6
    <3>2. /\ leases[x].files = leases[x].revision
          /\ leases[x].revision \in DOMAIN snapshots[leases[x].store]
      BY <3>1 DEF Pinned
    <3>3. leases[x].store \in Stores BY <3>1, HeldByStores
    <3>4. ~ (leases[x].store = s /\ leases[x].revision = r) BY <2>4, <3>1 DEF Of
    <3> QED BY <3>1, <3>2, <3>3, <3>4, <2>2, <2>3
  <2>6. ASSUME NEW t \in Stores, NEW q \in DOMAIN snapshots'[t]
        PROVE  /\ snapshots'[t][q].files = q
               /\ snapshots'[t][q].leases = Cardinality(Of(leases', t, q))
    <3>1. ~ (t = s /\ q = r) BY <2>2, <2>3
    <3>2. q \in DOMAIN snapshots[t] /\ snapshots'[t][q] = snapshots[t][q]
      <4>1. CASE t = s BY <4>1, <2>2, <2>3
      <4>2. CASE t # s BY <4>2, <2>3
      <4> QED BY <4>1, <4>2
    <3>3. snapshots[t][q].files = q /\ snapshots[t][q].leases = Cardinality(Of(leases, t, q))
      BY <3>2 DEF Pinned
    <3>4. Cardinality(Of(leases', t, q)) = Cardinality(Of(leases, t, q)) BY <3>1, <1>8
    <3> QED BY <3>2, <3>3, <3>4
  <2>7. Pinned(snapshots', leases') BY <2>5, <2>6 DEF Pinned
  <2> QED BY <1>6, <2>3, <2>7
<1>12. CASE snapshots[s][r].leases # 1
  <2>1. PICK copy : copy = [files |-> snapshots[s][r].files, leases |-> snapshots[s][r].leases - 1] OBVIOUS
  <2>2. copy \in Copies /\ copy.files = r /\ copy.leases = Cardinality(Of(leases', s, r))
    BY <2>1, <1>2, <1>4, <1>7, <1>9 DEF Copies
  <2>3. m = Amend(snapshots[s], r, copy) BY <1>12, <2>1
  <2>4. /\ m \in MapOf(Rev, Copies) /\ DOMAIN m = DOMAIN snapshots[s] \cup {r} /\ m[r] = copy
        /\ \A x \in DOMAIN snapshots[s] : x # r => m[x] = snapshots[s][x]
    <3>1. Amend(snapshots[s], r, copy) \in MapOf(Rev, Copies) BY <2>2, <1>2, <1>3, WithIsMap
    <3> QED BY <2>3, <3>1 DEF Amend
  <2>5. /\ snapshots' \in [Stores -> MapOf(Rev, Copies)] /\ snapshots'[s] = m
        /\ \A t \in Stores : t # s => snapshots'[t] = snapshots[t]
    BY <2>4, <1>2
  <2>6. ASSUME NEW x \in DOMAIN leases'
        PROVE  /\ leases'[x].files = leases'[x].revision
               /\ leases'[x].revision \in DOMAIN snapshots'[leases'[x].store]
    <3>1. x \in DOMAIN leases /\ leases'[x] = leases[x] BY <1>6
    <3>2. /\ leases[x].files = leases[x].revision
          /\ leases[x].revision \in DOMAIN snapshots[leases[x].store]
      BY <3>1 DEF Pinned
    <3>3. leases[x].store \in Stores BY <3>1, HeldByStores
    <3> QED BY <3>1, <3>2, <3>3, <2>4, <2>5
  <2>7. ASSUME NEW t \in Stores, NEW q \in DOMAIN snapshots'[t]
        PROVE  /\ snapshots'[t][q].files = q
               /\ snapshots'[t][q].leases = Cardinality(Of(leases', t, q))
    <3>1. CASE t = s /\ q = r BY <3>1, <2>2, <2>4, <2>5
    <3>2. CASE ~ (t = s /\ q = r)
      <4>1. q \in DOMAIN snapshots[t] /\ snapshots'[t][q] = snapshots[t][q]
        BY <3>2, <2>4, <2>5, <1>2
      <4>2. snapshots[t][q].files = q /\ snapshots[t][q].leases = Cardinality(Of(leases, t, q))
        BY <4>1 DEF Pinned
      <4> QED BY <4>1, <4>2, <3>2, <1>8
    <3> QED BY <3>1, <3>2
  <2>8. Pinned(snapshots', leases') BY <2>6, <2>7 DEF Pinned
  <2> QED BY <1>6, <2>5, <2>8
<1> QED BY <1>11, <1>12

LEMMA RestartPins ==
    ASSUME SnapshotAssumption, snapshots \in [Stores -> MapOf(Rev, Copies)],
           leases \in MapOf(Handles, Leased), Pinned(snapshots, leases), NEW s \in Stores,
           snapshots' = [snapshots EXCEPT ![s] = Empty],
           NEW D, D = {n \in DOMAIN leases : leases[n].store # s}, leases' = Only(leases, D)
    PROVE  /\ snapshots' \in [Stores -> MapOf(Rev, Copies)]
           /\ leases' \in MapOf(Handles, Leased)
           /\ Pinned(snapshots', leases')
<1>2. D \subseteq DOMAIN leases OBVIOUS
<1>4. /\ leases' \in MapOf(Handles, Leased)
      /\ DOMAIN leases' = D /\ \A x \in D : leases'[x] = leases[x]
  BY <1>2, OnlyIsMap
<1>6. /\ snapshots' \in [Stores -> MapOf(Rev, Copies)]
      /\ snapshots'[s] = Empty /\ DOMAIN Empty = {}
      /\ \A t \in Stores : t # s => snapshots'[t] = snapshots[t]
  BY EmptyIsMap
<1>7. ASSUME NEW x \in DOMAIN leases'
      PROVE  /\ leases'[x].files = leases'[x].revision
             /\ leases'[x].revision \in DOMAIN snapshots'[leases'[x].store]
  <2>1. x \in DOMAIN leases /\ leases'[x] = leases[x] /\ leases[x].store # s BY <1>4
  <2>2. leases[x].store \in Stores BY <2>1, HeldByStores
  <2> QED BY <2>1, <2>2, <1>6 DEF Pinned
<1>8. ASSUME NEW t \in Stores, NEW q \in DOMAIN snapshots'[t]
      PROVE  /\ snapshots'[t][q].files = q
             /\ snapshots'[t][q].leases = Cardinality(Of(leases', t, q))
  <2>1. t # s /\ snapshots'[t] = snapshots[t] BY <1>6
  <2>2. Of(leases', t, q) = Of(leases, t, q) BY <2>1, <1>4 DEF Of
  <2> QED BY <2>1, <2>2 DEF Pinned
<1>9. Pinned(snapshots', leases') BY <1>7, <1>8 DEF Pinned
<1> QED BY <1>4, <1>6, <1>9
-----------------------------------------------------------------------------
(* What a store is at.                                                     *)

LEMMA RestingCall == Resting \in Calls /\ Resting.at = "idle" /\ Resting.got = {}
BY DEF Resting, Calls, Steps, Rev

\* One store goes on while every other rests, whatever it makes of the directory.
LEMMA OneCall ==
    ASSUME SnapshotAssumption, NEW h, NEW c \in [Stores -> Calls], Locked(h, c),
           NEW s \in Stores, h \in {s, None}, NEW h2, NEW d2, NEW k \in Calls,
           k.at # "idle" => h2 = s,
           k.at \in {"publish", "write"} => k.doc \in Documents,
           k.at \in {"write", "record"} => k.revision \subseteq d2,
           k.at = "acquire" => Drifted(d2, k) /\ k.got = {},
           k.at = "freeze" => Frozen(d2, k)
    PROVE  LET c2 == [c EXCEPT ![s] = k] IN
           c2 \in [Stores -> Calls] /\ Locked(h2, c2) /\ Based(d2, c2) /\ Freezes(d2, c2)
<1>1. PICK c2 : c2 = [c EXCEPT ![s] = k] OBVIOUS
<1>2. c2 \in [Stores -> Calls] /\ c2[s] = k /\ \A t \in Stores : t # s => c2[t] = c[t]
  BY <1>1
<1>3. \A t \in Stores : t # s => c2[t].at = "idle" BY <1>2 DEF Locked, SnapshotAssumption
<1>4. Locked(h2, c2) BY <1>2, <1>3 DEF Locked
<1>5. Based(d2, c2) BY <1>2, <1>3 DEF Based
<1>6. Freezes(d2, c2) BY <1>2, <1>3 DEF Freezes
<1> QED BY <1>1, <1>2, <1>4, <1>5, <1>6

\* The invariant after a step of one store that neither leases nor learns.
LEMMA CallKeeps ==
    ASSUME SnapshotAssumption, SnapshotInv, NEW s \in Stores, opener \in {s, None},
           NEW k \in Calls, opening' = [opening EXCEPT ![s] = k], opener' \in {s, None},
           tree' \in Rev,
           k.at # "idle" => opener' = s,
           k.at \in {"publish", "write"} => k.doc \in Documents,
           k.at \in {"write", "record"} => k.revision \subseteq tree',
           k.at = "acquire" => Drifted(tree', k) /\ k.got = {},
           k.at = "freeze" => Frozen(tree', k)
    PROVE  /\ tree' \in Rev /\ opener' \in Stores \cup {None} /\ opening' \in [Stores -> Calls]
           /\ Locked(opener', opening') /\ Based(tree', opening') /\ Freezes(tree', opening')
<1>1. opening \in [Stores -> Calls] /\ Locked(opener, opening) BY DEF SnapshotInv, Types
<1> QED BY <1>1, OneCall

LEMMA Unlearned ==
    ASSUME SnapshotInv, UNCHANGED <<lineageFile, lineage>>
    PROVE  /\ lineageFile' \in MapOf(Rev, Rev) /\ lineage' \in [Stores -> MapOf(Rev, Rev)]
           /\ Grows(lineageFile') /\ \A s \in Stores : Grows(lineage'[s])
BY DEF SnapshotInv, Types

LEMMA Unleased ==
    ASSUME SnapshotInv, UNCHANGED <<snapshots, leases>>
    PROVE  /\ snapshots' \in [Stores -> MapOf(Rev, Copies)] /\ leases' \in MapOf(Handles, Leased)
           /\ Pinned(snapshots', leases')
BY DEF SnapshotInv, Types

LEMMA Collected ==
    ASSUME tree' \in Rev, opener' \in Stores \cup {None}, opening' \in [Stores -> Calls],
           Locked(opener', opening'), Based(tree', opening'), Freezes(tree', opening'),
           lineageFile' \in MapOf(Rev, Rev), lineage' \in [Stores -> MapOf(Rev, Rev)],
           Grows(lineageFile'), \A s \in Stores : Grows(lineage'[s]),
           snapshots' \in [Stores -> MapOf(Rev, Copies)], leases' \in MapOf(Handles, Leased),
           Pinned(snapshots', leases'), published' \in SUBSET Rev
    PROVE  SnapshotInv'
BY DEF SnapshotInv, Types

LEMMA InvParts ==
    ASSUME SnapshotInv
    PROVE  /\ tree \in Rev /\ opener \in Stores \cup {None} /\ opening \in [Stores -> Calls]
           /\ published \in SUBSET Rev /\ Locked(opener, opening)
           /\ \A s \in Stores : opening[s] \in Calls
BY DEF SnapshotInv, Types

LEMMA AtItsOwn ==
    ASSUME SnapshotInv, NEW s \in Stores, NEW x, At(s, x), x # "idle"
    PROVE  opener = s /\ opening[s].at = x
BY DEF SnapshotInv, Locked, At

LEMMA InitPins == SnapshotAssumption /\ SnapshotInit => SnapshotInv
<1> SUFFICES ASSUME SnapshotAssumption, SnapshotInit PROVE SnapshotInv OBVIOUS
<1>1. tree \in Rev /\ opener \in Stores \cup {None} /\ published \in SUBSET Rev
  BY DEF SnapshotInit, Rev
<1>2. opening \in [Stores -> Calls] /\ \A s \in Stores : opening[s].at = "idle"
  BY RestingCall DEF SnapshotInit
<1>3. lineageFile \in MapOf(Rev, Rev) /\ lineage \in [Stores -> MapOf(Rev, Rev)]
  BY EmptyIsMap DEF SnapshotInit
<1>4. Grows(lineageFile) /\ \A s \in Stores : Grows(lineage[s]) BY EmptyGrows DEF SnapshotInit
<1>5. snapshots \in [Stores -> MapOf(Rev, Copies)] BY EmptyIsMap DEF SnapshotInit
<1>6. leases \in MapOf(Handles, Leased) BY EmptyIsMap DEF SnapshotInit
<1>7. DOMAIN leases = {} /\ \A s \in Stores : DOMAIN snapshots[s] = {}
  BY EmptyIsMap DEF SnapshotInit
<1>8. Pinned(snapshots, leases) BY <1>7 DEF Pinned
<1>9. Locked(opener, opening) /\ Based(tree, opening) /\ Freezes(tree, opening)
  BY <1>2 DEF Locked, Based, Freezes
<1> QED BY <1>1, <1>2, <1>3, <1>4, <1>5, <1>6, <1>8, <1>9 DEF SnapshotInv, Types

-----------------------------------------------------------------------------
(* A publication.                                                          *)

LEMMA AttachmentIsFile ==
    ASSUME NEW d \in Documents
    PROVE  ({AttachmentOf[d]} \ {None}) \subseteq GraphFiles /\ d \in GraphFiles
BY DEF GraphFiles

LEMMA PublishAttachmentPins ==
    ASSUME SnapshotAssumption, SnapshotInv, NEW s \in Stores, NEW d \in Documents,
           PublishAttachment(s, d)
    PROVE  SnapshotInv'
<1>1. opener = None /\ opener' = s /\ published' \in SUBSET Rev
  BY InvParts DEF PublishAttachment, Begin
<1>2. PICK k1 : k1 = [Resting EXCEPT !.at = "publish"] OBVIOUS
<1>3. k1 \in Calls /\ k1.at = "publish" BY <1>2, RestingCall DEF Calls, Steps
<1>4. PICK k : k = [k1 EXCEPT !.doc = d] OBVIOUS
<1>5. k \in Calls /\ k.at = "publish" /\ k.doc = d BY <1>3, <1>4 DEF Calls
<1>6. opening' = [opening EXCEPT ![s] = k] BY <1>2, <1>4 DEF PublishAttachment
<1>7. tree' \in Rev
  <2>1. tree \in Rev /\ tree' = tree \cup ({AttachmentOf[d]} \ {None})
    BY InvParts DEF PublishAttachment
  <2> QED BY <2>1, AttachmentIsFile DEF Rev
<1>8. UNCHANGED <<lineageFile, lineage>> /\ UNCHANGED <<snapshots, leases>>
  BY DEF PublishAttachment
<1> QED BY <1>1, <1>5, <1>6, <1>7, <1>8, CallKeeps, Unlearned, Unleased, Collected

LEMMA ReadBeforePins ==
    ASSUME SnapshotAssumption, SnapshotInv, NEW s \in Stores, ReadBefore(s)
    PROVE  SnapshotInv'
<1>1. opener = s /\ opener' = s /\ tree' = tree /\ tree \in Rev /\ published' \in SUBSET Rev
  BY InvParts, AtItsOwn DEF ReadBefore
<1>2. PICK k1 : k1 = [opening[s] EXCEPT !.at = "write"] OBVIOUS
<1>3. k1 \in Calls /\ k1.at = "write" /\ k1.doc = opening[s].doc
  BY <1>2, InvParts DEF Calls, Steps
<1>4. PICK k : k = [k1 EXCEPT !.revision = tree] OBVIOUS
<1>5. k \in Calls /\ k.at = "write" /\ k.revision = tree /\ k.doc = opening[s].doc
  BY <1>1, <1>3, <1>4 DEF Calls
<1>9. opening[s].at = "publish" /\ opening[s].doc \in Documents
  BY DEF ReadBefore, At, SnapshotInv, Based
<1>6. opening' = [opening EXCEPT ![s] = k] BY <1>2, <1>4 DEF ReadBefore
<1>7. UNCHANGED <<lineageFile, lineage>> /\ UNCHANGED <<snapshots, leases>> BY DEF ReadBefore
<1> QED BY <1>1, <1>5, <1>9, <1>6, <1>7, CallKeeps, Unlearned, Unleased, Collected

LEMMA PublishFilePins ==
    ASSUME SnapshotAssumption, SnapshotInv, NEW s \in Stores, PublishFile(s)
    PROVE  SnapshotInv'
<1>1. /\ opener = s
      /\ opener' = s /\ tree \in Rev /\ published' \in SUBSET Rev /\ opening[s].at = "write"
  BY InvParts, AtItsOwn DEF PublishFile
<1>2. PICK k : k = [opening[s] EXCEPT !.at = "record"] OBVIOUS
<1>3. k \in Calls /\ k.at = "record" /\ k.revision = opening[s].revision
  BY <1>2, InvParts DEF Calls, Steps
<1>4. opening' = [opening EXCEPT ![s] = k] BY <1>2 DEF PublishFile
<1>5. opening[s].revision \subseteq tree BY <1>1 DEF SnapshotInv, Based
<1>6. k.revision \subseteq tree' BY <1>3, <1>5 DEF PublishFile
<1>7. tree' \in Rev
  <2>1. opening[s].doc \in Documents
    BY <1>1 DEF SnapshotInv, Based
  <2> QED BY <2>1, <1>1, AttachmentIsFile DEF Rev, PublishFile
<1>8. UNCHANGED <<lineageFile, lineage>> /\ UNCHANGED <<snapshots, leases>> BY DEF PublishFile
<1> QED BY <1>1, <1>3, <1>4, <1>6, <1>7, <1>8, CallKeeps, Unlearned, Unleased, Collected
LEMMA RestPins ==
    ASSUME SnapshotAssumption, SnapshotInv, NEW s \in Stores, opener = s, Done(s), tree' \in Rev
    PROVE  /\ opener' \in Stores \cup {None} /\ opening' \in [Stores -> Calls]
           /\ Locked(opener', opening') /\ Based(tree', opening') /\ Freezes(tree', opening')
<1>1. opening' = [opening EXCEPT ![s] = Resting] /\ opener' = None BY DEF Done
<1> QED BY <1>1, RestingCall, CallKeeps

LEMMA FinishPublishPins ==
    ASSUME SnapshotAssumption, SnapshotInv, NEW s \in Stores, FinishPublish(s)
    PROVE  SnapshotInv'
<1>1. opener = s /\ tree \in Rev /\ tree' = tree /\ Done(s) /\ opening[s].at = "record"
  BY InvParts, AtItsOwn DEF FinishPublish
<1>2. published' \in SUBSET Rev
  <2>1. published \in SUBSET Rev /\ published' = published \cup {tree}
    BY InvParts DEF FinishPublish
  <2> QED BY <2>1, <1>1
<1>3. UNCHANGED <<snapshots, leases>> BY DEF FinishPublish
<1>4. /\ lineageFile' \in MapOf(Rev, Rev) /\ lineage' \in [Stores -> MapOf(Rev, Rev)]
      /\ Grows(lineageFile') /\ \A t \in Stores : Grows(lineage'[t])
  <2>1. CASE opening[s].revision = tree
    <3>1. UNCHANGED <<lineageFile, lineage>> BY <2>1 DEF FinishPublish, RecordLineage
    <3> QED BY <3>1, Unlearned
  <2>2. CASE opening[s].revision # tree
    <3>1. PICK before : before = opening[s].revision OBVIOUS
    <3>2. before \in Rev /\ before \subseteq tree
      BY <1>1, <3>1, InvParts DEF SnapshotInv, Based, Calls
    <3>3. PICK m : m = Amend(lineage[s], tree, before) OBVIOUS
    <3>4. lineageFile' = Amend(lineageFile, tree, before) /\ lineage' = [lineage EXCEPT ![s] = m]
      BY <2>2, <3>1, <3>3 DEF FinishPublish, RecordLineage
    <3>5. /\ lineageFile \in MapOf(Rev, Rev) /\ lineage \in [Stores -> MapOf(Rev, Rev)]
          /\ lineage[s] \in MapOf(Rev, Rev)
          /\ Grows(lineageFile) /\ \A t \in Stores : Grows(lineage[t])
      BY DEF SnapshotInv, Types
    <3>6. lineageFile' \in MapOf(Rev, Rev) BY <1>1, <3>2, <3>4, <3>5, WithIsMap
    <3>7. Grows(lineageFile') BY <3>2, <3>4, <3>5, WithGrows
    <3>8. m \in MapOf(Rev, Rev) BY <1>1, <3>2, <3>3, <3>5, WithIsMap
    <3>9. Grows(m) BY <3>2, <3>3, <3>5, WithGrows
    <3> QED BY <3>4, <3>5, <3>6, <3>7, <3>8, <3>9
  <2> QED BY <2>1, <2>2
<1> QED BY <1>1, <1>2, <1>3, <1>4, RestPins, Unleased, Collected

-----------------------------------------------------------------------------
(* Acquisitions and releases.                                              *)

LEMMA LeaseKeeps ==
    ASSUME SnapshotAssumption, SnapshotInv, NEW s \in Stores, NEW r \in Rev, NEW files,
           Lease(s, r, files), r \notin DOMAIN snapshots[s] => files = r,
           r \in DOMAIN snapshots[s] => files = snapshots[s][r].files
    PROVE  /\ snapshots' \in [Stores -> MapOf(Rev, Copies)] /\ leases' \in MapOf(Handles, Leased)
           /\ Pinned(snapshots', leases')
<1>1. /\ snapshots \in [Stores -> MapOf(Rev, Copies)] /\ leases \in MapOf(Handles, Leased)
      /\ Pinned(snapshots, leases) /\ snapshots[s] \in MapOf(Rev, Copies)
  BY DEF SnapshotInv, Types
<1>2. PICK n \in Handles \ DOMAIN leases :
        leases' = Amend(leases, n, [store |-> s, revision |-> r, files |-> files])
  BY DEF Lease
<1>3. n \in Handles /\ n \notin DOMAIN leases OBVIOUS
<1>4. PICK copy : copy = Retained(s, r, files) OBVIOUS
<1>5. /\ copy \in Copies /\ copy.files = r
      /\ copy.leases = (IF r \in DOMAIN snapshots[s] THEN snapshots[s][r].leases ELSE 0) + 1
  <2>1. CASE r \in DOMAIN snapshots[s]
    <3>1. snapshots[s][r] \in Copies /\ snapshots[s][r].files = r
      BY <2>1, <1>1, MapFacts DEF Pinned
    <3> QED BY <2>1, <3>1, <1>4 DEF Retained, Copies
  <2>2. CASE r \notin DOMAIN snapshots[s]
    BY <2>2, <1>4 DEF Retained, Copies
  <2> QED BY <2>1, <2>2
<1>6. files = r BY <1>1 DEF Pinned
<1>7. PICK k : k = [store |-> s, revision |-> r, files |-> files] OBVIOUS
<1>8. k \in Leased /\ k.store = s /\ k.revision = r /\ k.files = r BY <1>6, <1>7 DEF Leased
<1>9. PICK m : m = Amend(snapshots[s], r, copy) OBVIOUS
<1>10. snapshots' = [snapshots EXCEPT ![s] = m] /\ leases' = Amend(leases, n, k)
  BY <1>2, <1>4, <1>7, <1>9 DEF Lease
<1> QED BY <1>1, <1>3, <1>5, <1>8, <1>9, <1>10, LeasePins

LEMMA AcquireRetainedPins ==
    ASSUME SnapshotAssumption, SnapshotInv, NEW s \in Stores, NEW r, AcquireRetained(s, r)
    PROVE  SnapshotInv'
<1>1. r \in DOMAIN snapshots[s] /\ Lease(s, r, snapshots[s][r].files)
  BY DEF AcquireRetained, LeaseRetained
<1>2. r \in Rev
  <2>1. snapshots[s] \in MapOf(Rev, Copies) BY DEF SnapshotInv, Types
  <2> QED BY <1>1, <2>1, MapFacts
<1>3. /\ UNCHANGED <<lineageFile, lineage>>
      /\ tree' = tree /\ opener' = opener /\ opening' = opening /\ published' = published
  BY DEF AcquireRetained
<1>4. /\ tree' \in Rev /\ opener' \in Stores \cup {None} /\ opening' \in [Stores -> Calls]
      /\ Locked(opener', opening') /\ Based(tree', opening') /\ Freezes(tree', opening')
      /\ published' \in SUBSET Rev
  BY <1>3 DEF SnapshotInv, Types
<1> QED BY <1>1, <1>2, <1>3, <1>4, LeaseKeeps, Unlearned, Collected

LEMMA BeginAcquirePins ==
    ASSUME SnapshotAssumption, SnapshotInv, NEW s \in Stores, NEW e \in Rev \cup {NoRevision},
           NEW i \in Rev \cup {NoRevision}, BeginAcquire(s, e, i)
    PROVE  SnapshotInv'
<1>1. /\ opener = None /\ opener' = s /\ tree' = tree /\ tree \in Rev /\ published' \in SUBSET Rev
  BY InvParts DEF BeginAcquire, Begin
<1>2. PICK k1 : k1 = [Resting EXCEPT !.at = "acquire"] OBVIOUS
<1>3. k1 \in Calls /\ k1.at = "acquire" /\ k1.got = {} BY <1>2, RestingCall DEF Calls, Steps
<1>4. PICK k2 : k2 = [k1 EXCEPT !.exact = e] OBVIOUS
<1>5. k2 \in Calls /\ k2.at = "acquire" /\ k2.got = {} BY <1>3, <1>4 DEF Calls
<1>6. PICK k3 : k3 = [k2 EXCEPT !.includes = i] OBVIOUS
<1>7. k3 \in Calls /\ k3.at = "acquire" /\ k3.got = {} BY <1>5, <1>6 DEF Calls
<1>8. PICK k : k = [k3 EXCEPT !.revision = tree] OBVIOUS
<1>9. k \in Calls /\ k.at = "acquire" /\ k.got = {} /\ k.revision = tree
  BY <1>1, <1>7, <1>8 DEF Calls
<1>12. Drifted(tree', k) BY <1>1, <1>9 DEF Drifted
<1>10. opening' = [opening EXCEPT ![s] = k] BY <1>2, <1>4, <1>6, <1>8 DEF BeginAcquire
<1>11. UNCHANGED <<lineageFile, lineage>> /\ UNCHANGED <<snapshots, leases>>
  BY DEF BeginAcquire
<1> QED BY <1>1, <1>9, <1>10, <1>11, <1>12, CallKeeps, Unlearned, Unleased, Collected

LEMMA MergedGrows ==
    ASSUME SnapshotInv, NEW s \in Stores, Merged(s), UNCHANGED lineageFile
    PROVE  /\ lineageFile' \in MapOf(Rev, Rev) /\ lineage' \in [Stores -> MapOf(Rev, Rev)]
           /\ Grows(lineageFile') /\ \A t \in Stores : Grows(lineage'[t])
<1>1. /\ lineageFile \in MapOf(Rev, Rev) /\ lineage \in [Stores -> MapOf(Rev, Rev)]
      /\ lineage[s] \in MapOf(Rev, Rev)
      /\ Grows(lineageFile) /\ \A t \in Stores : Grows(lineage[t])
  BY DEF SnapshotInv, Types
<1>2. PICK m : m = LoadLineage(s) OBVIOUS
<1>3. m \in MapOf(Rev, Rev) BY <1>1, <1>2, UpdateIsMap DEF LoadLineage
<1>4. Grows(m) BY <1>1, <1>2, UpdateGrows DEF LoadLineage
<1>5. lineage' = lineage \/ lineage' = [lineage EXCEPT ![s] = m] BY <1>2 DEF Merged
<1> QED BY <1>1, <1>3, <1>4, <1>5

LEMMA RefusePins ==
    ASSUME SnapshotAssumption, SnapshotInv, NEW s \in Stores, Refuse(s)
    PROVE  SnapshotInv'
<1>1. /\ opener = s /\ tree \in Rev /\ tree' = tree /\ Done(s) /\ published' \in SUBSET Rev
      /\ Merged(s)
  BY InvParts, AtItsOwn DEF Refuse
<1>2. UNCHANGED lineageFile /\ UNCHANGED <<snapshots, leases>> BY DEF Refuse
<1> QED BY <1>1, <1>2, RestPins, MergedGrows, Unleased, Collected

LEMMA AcquireCurrentPins ==
    ASSUME SnapshotAssumption, SnapshotInv, NEW s \in Stores, AcquireCurrent(s)
    PROVE  SnapshotInv'
<1>1. /\ opener = s /\ tree \in Rev /\ tree' = tree /\ published' \in SUBSET Rev /\ Merged(s)
      /\ UNCHANGED lineageFile
  BY InvParts, AtItsOwn DEF AcquireCurrent
<1>2. opening[s] \in Calls /\ opening[s].revision \in Rev BY InvParts DEF Calls
<1>3. CASE opening[s].revision \in DOMAIN snapshots[s]
  <2>1. PICK r : r = opening[s].revision OBVIOUS
  <2>2. Lease(s, r, snapshots[s][r].files) /\ Done(s)
    BY <1>3, <2>1 DEF AcquireCurrent, LeaseRetained
  <2>3. r \in Rev /\ r \in DOMAIN snapshots[s] BY <1>2, <1>3, <2>1
  <2> QED BY <1>1, <2>2, <2>3, RestPins, MergedGrows, LeaseKeeps, Collected
<1>4. CASE opening[s].revision \notin DOMAIN snapshots[s]
  <2>1. /\ opening' = [opening EXCEPT ![s].at = "freeze", ![s].todo = GraphFiles]
        /\ UNCHANGED opener /\ UNCHANGED <<snapshots, leases>>
    BY <1>4 DEF AcquireCurrent
  <2>2. PICK k1 : k1 = [opening[s] EXCEPT !.at = "freeze"] OBVIOUS
  <2>3. /\ k1 \in Calls
        /\ k1.at = "freeze" /\ k1.revision = opening[s].revision /\ k1.got = opening[s].got
    BY <1>2, <2>2 DEF Calls, Steps
  <2>4. PICK k : k = [k1 EXCEPT !.todo = GraphFiles] OBVIOUS
  <2>5. /\ k \in Calls /\ k.at = "freeze" /\ k.revision = opening[s].revision
        /\ k.got = opening[s].got /\ k.todo = GraphFiles
    BY <2>3, <2>4 DEF Calls, Rev
  <2>6. opening' = [opening EXCEPT ![s] = k] BY <2>1, <2>2, <2>4
  <2>7. Drifted(tree, opening[s]) /\ opening[s].got = {}
    BY DEF AcquireCurrent, At, SnapshotInv, Freezes
  <2>8. Frozen(tree', k) BY <1>1, <1>2, <2>5, <2>7 DEF Frozen, Drifted, Rev
  <2>9. opener' = s BY <1>1, <2>1
  <2> QED BY <1>1, <2>1, <2>5, <2>6, <2>8, <2>9, CallKeeps, MergedGrows, Unleased, Collected
<1> QED BY <1>3, <1>4

LEMMA FreezeFilePins ==
    ASSUME SnapshotAssumption, SnapshotInv, NEW s \in Stores, FreezeFile(s)
    PROVE  SnapshotInv'
<1>1. /\ opener = s /\ opener' = s /\ tree \in Rev /\ tree' = tree /\ published' \in SUBSET Rev
      /\ opening[s].at = "freeze"
  BY InvParts, AtItsOwn DEF FreezeFile
<1>2. opening[s] \in Calls /\ Frozen(tree, opening[s])
  BY <1>1, InvParts DEF SnapshotInv, Freezes
<1>3. PICK f : f = NextFile(opening[s].todo) OBVIOUS
<1>4. PICK k1 : k1 = [opening[s] EXCEPT !.todo = opening[s].todo \ {f}] OBVIOUS
<1>5. /\ k1 \in Calls /\ k1.at = "freeze" /\ k1.revision = opening[s].revision
      /\ k1.got = opening[s].got /\ k1.todo = opening[s].todo \ {f}
  BY <1>1, <1>2, <1>4 DEF Calls, Rev
<1>6. PICK k : k = [k1 EXCEPT !.got = opening[s].got \cup ({f} \cap tree)] OBVIOUS
<1>7. /\ k \in Calls /\ k.at = "freeze" /\ k.revision = opening[s].revision
      /\ k.got = opening[s].got \cup ({f} \cap tree) /\ k.todo = opening[s].todo \ {f}
  BY <1>1, <1>2, <1>5, <1>6 DEF Calls, Rev
<1>8. opening' = [opening EXCEPT ![s] = k] BY <1>3, <1>4, <1>6 DEF FreezeFile
<1>9. Frozen(tree', k)
  <2>1. Drifted(tree', k) BY <1>1, <1>2, <1>7 DEF Frozen, Drifted
  <2>2. \A x \in k.got \ k.revision : x \in tree' /\ x \in Foreign
    BY <1>1, <1>2, <1>7 DEF Frozen, Drifted
  <2>3. \A x \in k.revision \ k.got : x \in k.todo \/ x \notin tree'
    BY <1>1, <1>2, <1>7 DEF Frozen
  <2> QED BY <2>1, <2>2, <2>3 DEF Frozen
<1>10. UNCHANGED <<lineageFile, lineage>> /\ UNCHANGED <<snapshots, leases>> BY DEF FreezeFile
<1> QED BY <1>1, <1>7, <1>8, <1>9, <1>10, CallKeeps, Unlearned, Unleased, Collected

LEMMA FreezePins ==
    ASSUME SnapshotAssumption, SnapshotInv, NEW s \in Stores, Freeze(s)
    PROVE  SnapshotInv'
<1>1. /\ opener = s /\ tree \in Rev /\ tree' = tree /\ published' \in SUBSET Rev /\ Done(s)
      /\ opening[s].at = "freeze" /\ opening[s].todo = {} /\ UNCHANGED <<lineageFile, lineage>>
  BY InvParts, AtItsOwn DEF Freeze
<1>2. opening[s] \in Calls /\ Frozen(tree, opening[s])
  BY <1>1, InvParts DEF SnapshotInv, Freezes
<1>3. PICK r, got : r = opening[s].revision /\ got = opening[s].got OBVIOUS
<1>4. r \in Rev BY <1>2, <1>3 DEF Calls
<1>5. CASE Unchanged(s)
  <2>1. Lease(s, r, got) BY <1>3, <1>5 DEF Freeze
  <2>2. got = r BY <1>1, <1>2, <1>3, <1>5 DEF Frozen, Unchanged
  <2>3. r \in DOMAIN snapshots[s] => got = snapshots[s][r].files
    BY <2>2 DEF SnapshotInv, Pinned
  <2>4. /\ snapshots' \in [Stores -> MapOf(Rev, Copies)] /\ leases' \in MapOf(Handles, Leased)
        /\ Pinned(snapshots', leases')
    BY <1>4, <2>1, <2>2, <2>3, LeaseKeeps
  <2> QED BY <1>1, <2>4, RestPins, Unlearned, Collected
<1>6. CASE ~ Unchanged(s)
  <2>1. UNCHANGED <<snapshots, leases>> BY <1>6 DEF Freeze
  <2> QED BY <1>1, <2>1, RestPins, Unlearned, Unleased, Collected
<1> QED BY <1>5, <1>6
\* Only stores at rest are released from, so nothing else changes.
LEMMA AsideKeeps ==
    ASSUME SnapshotInv, UNCHANGED <<tree, opener, opening, lineageFile, lineage, published>>
    PROVE  /\ tree' \in Rev /\ opener' \in Stores \cup {None} /\ opening' \in [Stores -> Calls]
           /\ Locked(opener', opening') /\ Based(tree', opening') /\ Freezes(tree', opening')
           /\ published' \in SUBSET Rev
BY DEF SnapshotInv, Types

LEMMA ReleasePinsAll ==
    ASSUME SnapshotAssumption, SnapshotInv, NEW n \in DOMAIN leases, Release(n)
    PROVE  SnapshotInv'
<1>1. PICK s, r : s = leases[n].store /\ r = leases[n].revision OBVIOUS
<1>2. PICK m : m = IF snapshots[s][r].leases = 1 THEN Only(snapshots[s], DOMAIN snapshots[s] \ {r})
                   ELSE Amend(snapshots[s], r, [files |-> snapshots[s][r].files,
                                               leases |-> snapshots[s][r].leases - 1])
  OBVIOUS
<1>3. /\ snapshots' = [snapshots EXCEPT ![s] = m]
      /\ leases' = Only(leases, DOMAIN leases \ {n})
      /\ UNCHANGED <<tree, opener, opening, lineageFile, lineage, published>>
      /\ UNCHANGED <<lineageFile, lineage>>
  BY <1>1, <1>2 DEF Release
<1>4. /\ snapshots \in [Stores -> MapOf(Rev, Copies)] /\ leases \in MapOf(Handles, Leased)
      /\ Pinned(snapshots, leases)
  BY DEF SnapshotInv, Types
<1>5. /\ snapshots' \in [Stores -> MapOf(Rev, Copies)] /\ leases' \in MapOf(Handles, Leased)
      /\ Pinned(snapshots', leases')
  BY <1>1, <1>2, <1>3, <1>4, ReleasePins
<1> QED BY <1>3, <1>5, AsideKeeps, Unlearned, Collected

-----------------------------------------------------------------------------
(* Restarts and what others do to the directory.                           *)

LEMMA RestartPinsAll ==
    ASSUME SnapshotAssumption, SnapshotInv, NEW s \in Stores, Restart(s)
    PROVE  SnapshotInv'
<1>1. /\ tree \in Rev /\ tree' = tree /\ published' \in SUBSET Rev /\ opener \in Stores \cup {None}
      /\ opener' = (IF opener = s THEN None ELSE opener)
      /\ opening' = [opening EXCEPT ![s] = Resting]
  BY InvParts DEF Restart
<1>2. PICK D : D = {n \in DOMAIN leases : leases[n].store # s} OBVIOUS
<1>3. /\ snapshots' = [snapshots EXCEPT ![s] = Empty] /\ leases' = Only(leases, D)
      /\ lineage' = [lineage EXCEPT ![s] = Empty] /\ lineageFile' = lineageFile
  BY <1>2 DEF Restart
<1>4. /\ snapshots \in [Stores -> MapOf(Rev, Copies)] /\ leases \in MapOf(Handles, Leased)
      /\ Pinned(snapshots, leases)
  BY DEF SnapshotInv, Types
<1>6. /\ snapshots' \in [Stores -> MapOf(Rev, Copies)] /\ leases' \in MapOf(Handles, Leased)
      /\ Pinned(snapshots', leases')
  BY <1>2, <1>3, <1>4, RestartPins
<1>7. /\ lineageFile' \in MapOf(Rev, Rev) /\ lineage' \in [Stores -> MapOf(Rev, Rev)]
      /\ Grows(lineageFile') /\ \A t \in Stores : Grows(lineage'[t])
  BY <1>3, EmptyIsMap, EmptyGrows DEF SnapshotInv, Types
<1>8. /\ opening \in [Stores -> Calls] /\ Locked(opener, opening) /\ Based(tree, opening)
      /\ Freezes(tree, opening)
  BY DEF SnapshotInv, Types
<1>9. /\ opening' \in [Stores -> Calls] /\ opening'[s].at = "idle"
      /\ \A t \in Stores : t # s => opening'[t] = opening[t]
  BY <1>1, <1>8, RestingCall
<1>10. opener' \in Stores \cup {None} BY <1>1
<1>11. Locked(opener', opening') BY <1>1, <1>8, <1>9 DEF Locked
<1>12. Based(tree', opening') BY <1>1, <1>8, <1>9 DEF Based
<1>13. Freezes(tree', opening') BY <1>1, <1>8, <1>9 DEF Freezes
<1> QED BY <1>1, <1>6, <1>7, <1>9, <1>10, <1>11, <1>12, <1>13, Collected

LEMMA EditPins ==
    ASSUME SnapshotAssumption, SnapshotInv, NEW f \in Foreign, Edit(f)
    PROVE  SnapshotInv'
<1>1. /\ f \notin tree /\ tree' = tree \cup {f} /\ opener' = opener /\ opening' = opening
      /\ published' = published /\ UNCHANGED <<lineageFile, lineage>>
      /\ UNCHANGED <<snapshots, leases>>
  BY DEF Edit
<1>2. /\ tree \in Rev /\ opener' \in Stores \cup {None} /\ opening' \in [Stores -> Calls]
      /\ published' \in SUBSET Rev /\ Locked(opener', opening')
  BY <1>1 DEF SnapshotInv, Types
<1>3. tree' \in Rev BY <1>1, <1>2 DEF Rev, GraphFiles
<1>4. Based(tree, opening) /\ Freezes(tree, opening) BY DEF SnapshotInv
<1>5. Based(tree', opening') BY <1>1, <1>4 DEF Based
<1>6. \A s \in Stores : Drifted(tree, opening[s]) => Drifted(tree', opening[s])
  BY <1>1 DEF Drifted
<1>7. \A s \in Stores : Frozen(tree, opening[s]) => Frozen(tree', opening[s])
  BY <1>1, <1>6 DEF Frozen, Drifted
<1>8. Freezes(tree', opening') BY <1>1, <1>4, <1>6, <1>7 DEF Freezes
<1> QED BY <1>1, <1>2, <1>3, <1>5, <1>8, Unlearned, Unleased, Collected

LEMMA DiscardPins ==
    ASSUME SnapshotAssumption, SnapshotInv, NEW f \in Discarded, Discard(f)
    PROVE  SnapshotInv'
<1>1. /\ f \in tree /\ tree' = tree \ {f} /\ opener' = opener /\ opening' = opening
      /\ published' = published /\ UNCHANGED <<lineageFile, lineage>>
      /\ UNCHANGED <<snapshots, leases>>
      /\ \A s \in Stores : opening[s].at \notin {"write", "record"}
  BY DEF Discard
<1>2. /\ tree \in Rev /\ opener' \in Stores \cup {None} /\ opening' \in [Stores -> Calls]
      /\ published' \in SUBSET Rev /\ Locked(opener', opening')
  BY <1>1 DEF SnapshotInv, Types
<1>3. tree' \in Rev BY <1>1, <1>2 DEF Rev
<1>4. Based(tree, opening) /\ Freezes(tree, opening) BY DEF SnapshotInv
<1>5. Based(tree', opening') BY <1>1, <1>4 DEF Based
<1>6. f \notin Foreign BY DEF SnapshotAssumption
<1>7. \A s \in Stores : Drifted(tree, opening[s]) => Drifted(tree', opening[s])
  BY <1>1, <1>6 DEF Drifted
<1>8. \A s \in Stores : Frozen(tree, opening[s]) => Frozen(tree', opening[s])
  BY <1>1, <1>6, <1>7 DEF Frozen
<1>9. Freezes(tree', opening') BY <1>1, <1>4, <1>7, <1>8 DEF Freezes
<1> QED BY <1>1, <1>2, <1>3, <1>5, <1>9, Unlearned, Unleased, Collected

-----------------------------------------------------------------------------
(* The theorems.                                                           *)

LEMMA NextPins == SnapshotAssumption /\ SnapshotInv /\ [SnapshotNext]_snapshotVars => SnapshotInv'
<1> SUFFICES ASSUME SnapshotAssumption, SnapshotInv, [SnapshotNext]_snapshotVars PROVE SnapshotInv'
  OBVIOUS
<1>1. CASE UNCHANGED snapshotVars
  <2>1. UNCHANGED <<tree, opener, opening, lineageFile, lineage, published>>
        /\ UNCHANGED <<lineageFile, lineage>> /\ UNCHANGED <<snapshots, leases>>
    BY <1>1 DEF snapshotVars
  <2> QED BY <2>1, AsideKeeps, Unlearned, Unleased, Collected
<1>2. ASSUME NEW s \in Stores, NEW d \in Documents, PublishAttachment(s, d) PROVE SnapshotInv'
  BY <1>2, PublishAttachmentPins
<1>3. ASSUME NEW s \in Stores,
             ReadBefore(s) \/ PublishFile(s) \/ FinishPublish(s)
      PROVE  SnapshotInv'
  BY <1>3, ReadBeforePins, PublishFilePins, FinishPublishPins
<1>4. ASSUME NEW s \in Stores, NEW r \in published, AcquireRetained(s, r) PROVE SnapshotInv'
  BY <1>4, AcquireRetainedPins
<1>5. ASSUME NEW s \in Stores, NEW e \in published \cup {NoRevision},
             NEW i \in published \cup {NoRevision}, BeginAcquire(s, e, i)
      PROVE  SnapshotInv'
  <2>1. published \subseteq Rev BY InvParts
  <2>2. e \in Rev \cup {NoRevision} /\ i \in Rev \cup {NoRevision} BY <2>1, <1>5
  <2> QED BY <2>2, <1>5, BeginAcquirePins
<1>6. ASSUME NEW s \in Stores, Refuse(s) \/ AcquireCurrent(s) PROVE SnapshotInv'
  BY <1>6, RefusePins, AcquireCurrentPins
<1>7. ASSUME NEW s \in Stores, Freeze(s) \/ FreezeFile(s) PROVE SnapshotInv'
  BY <1>7, FreezePins, FreezeFilePins
<1>8. ASSUME NEW s \in Stores, Restart(s) PROVE SnapshotInv'
  BY <1>8, RestartPinsAll
<1>9. ASSUME NEW n \in DOMAIN leases, Release(n) PROVE SnapshotInv' BY <1>9, ReleasePinsAll
<1>10. ASSUME NEW f \in Foreign, Edit(f) PROVE SnapshotInv' BY <1>10, EditPins
<1>11. ASSUME NEW f \in Discarded, Discard(f) PROVE SnapshotInv' BY <1>11, DiscardPins
<1> QED BY <1>1, <1>2, <1>3, <1>4, <1>5, <1>6, <1>7, <1>8, <1>9, <1>10, <1>11 DEF SnapshotNext

LEMMA SnapshotInvHolds == ASSUME SnapshotAssumption PROVE SnapshotSpec => []SnapshotInv
<1>1. SnapshotInit => SnapshotInv BY InitPins
<1>2. SnapshotInv /\ [SnapshotNext]_snapshotVars => SnapshotInv' BY NextPins
<1> QED BY <1>1, <1>2, PTL DEF SnapshotSpec

LEMMA InvPins == SnapshotInv => LeasesArePinned
<1> SUFFICES ASSUME SnapshotInv PROVE LeasesArePinned OBVIOUS
<1>1. Pinned(snapshots, leases) /\ leases \in MapOf(Handles, Leased) BY DEF SnapshotInv, Types
<1>2. ASSUME NEW n \in DOMAIN leases
      PROVE  /\ leases[n].files = leases[n].revision
             /\ leases[n].revision \in DOMAIN snapshots[leases[n].store]
             /\ snapshots[leases[n].store][leases[n].revision].files = leases[n].files
  <2>1. leases[n].store \in Stores BY <1>1, HeldByStores
  <2> QED BY <2>1, <1>1 DEF Pinned
<1>3. ASSUME NEW s \in Stores, NEW r \in DOMAIN snapshots[s]
      PROVE  snapshots[s][r].leases
               = Cardinality({n \in DOMAIN leases : leases[n].store = s /\ leases[n].revision = r})
  BY <1>1 DEF Pinned, Of
<1> QED BY <1>2, <1>3 DEF LeasesArePinned

LEMMA InvIncludes == SnapshotInv => IncludesWhatItShows
<1> SUFFICES ASSUME SnapshotInv, NEW s \in Stores, Shown(s), opening[s].includes # NoRevision
             PROVE  opening[s].includes \subseteq opening[s].revision
  BY DEF IncludesWhatItShows
<1>1. Grows(lineage[s]) /\ Grows(lineageFile) BY DEF SnapshotInv
<1>2. Grows(LoadLineage(s)) BY <1>1, UpdateGrows DEF LoadLineage
<1>3. \/ DescendsFrom(lineage[s], opening[s].revision, opening[s].includes)
      \/ DescendsFrom(LoadLineage(s), opening[s].revision, opening[s].includes)
  BY DEF Shown
<1> QED BY <1>1, <1>2, <1>3, DescentIsInclusion

LEMMA InvTypes == SnapshotInv => SnapshotTypeOK
<1> SUFFICES ASSUME SnapshotInv PROVE SnapshotTypeOK OBVIOUS
<1>1. /\ tree \in Rev /\ opener \in Stores \cup {None} /\ opening \in [Stores -> Calls]
      /\ leases \in MapOf(Handles, Leased)
  BY DEF SnapshotInv, Types
<1>2. \A s \in Stores : opening[s] \in Calls BY <1>1
<1>3. \A n \in DOMAIN leases : leases[n].store \in Stores BY <1>1, HeldByStores
<1> QED BY <1>1, <1>2, <1>3 DEF SnapshotTypeOK, Calls, Steps, Rev

\* A lease reads the bytes of the revision it was taken on until it is released,
\* whoever publishes, edits or discards meanwhile, and a store retains a copy exactly
\* as long as a lease needs it (AcquireSnapshot, leaseSnapshot and its Release).
THEOREM LeasesStayPinned == ASSUME SnapshotAssumption PROVE SnapshotSpec => []LeasesArePinned
  BY InvPins, SnapshotInvHolds, PTL

\* What a read is shown to include it includes: the lineage, whether from memory or
\* from its file, only ever leads from a revision to one it holds all files of
\* (recordLineage, descendsFrom).
THEOREM ShownIsIncluded == ASSUME SnapshotAssumption PROVE SnapshotSpec => []IncludesWhatItShows
  BY InvIncludes, SnapshotInvHolds, PTL
=============================================================================
