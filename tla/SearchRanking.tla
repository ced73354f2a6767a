---------------------------- MODULE SearchRanking ----------------------------
(***************************************************************************)
(* How a search ranks entries: by words, by chunks near a phrase, by both, *)
(* and across repositories, as the command line does it and as the server  *)
(* does it.  Scores are integers: hundredths where the code multiplies by  *)
(* a fraction, and reciprocal ranks over a common denominator.             *)
(*                                                                         *)
(* A corpus is [words, status, passing, embedded, current, chunks]: the    *)
(* words of each entry in order, its derived status, the entries that pass *)
(* the filter, those shipped with the binary, the version each is in, and  *)
(* the stored chunks [entry, body, near, summary, depth, version].         *)
(* A query is [terms, phrase, limit, citations, superseded]; a term is the *)
(* set of words it matches, a phrase the set of its words.                 *)
(***************************************************************************)
EXTENDS Integers, Sequences, FiniteSets, FiniteSetsExt, SequencesExt

CONSTANTS
    NoVersion,                      \* a row whose version cannot be told
    Oversample, Pool,               \* chunks read per entry asked for, and at least
    Window, Look                    \* bytes shown on each side of a match, and given up for a word

Cut(list, n) == SubSeq(list, 1, IF n < Len(list) THEN n ELSE Len(list))
Row(e, score, citations) == [entry |-> e, score |-> score, citations |-> citations]
Best(rows) == SetToSortSeq(rows, LAMBDA a, b : a.score > b.score
                                               \/ (a.score = b.score /\ a.entry < b.entry))
ListedIn(list) == {row.entry : row \in ToSet(list)}

Mode(q) ==
    IF q.phrase = {} THEN "text" ELSE IF q.terms = {} THEN "vector" ELSE "hybrid"
\* The phrase becomes one more term, an alternation of its words.
TextFallback(q) ==
    IF q.phrase = {} THEN q ELSE [q EXCEPT !.terms = @ \cup {q.phrase}, !.phrase = {}]

Candidates(c, q) ==
    {e \in c.passing : q.superseded \/ c.status[e] # "superseded-by"}
StatusMultiplier(status) ==
    CASE status \in {"closed-by", "cascade-closed"} -> 85
      [] status = "superseded-by" -> 70
      [] status = "cascade-orphan" -> 60
      [] OTHER -> 100

-----------------------------------------------------------------------------
\* Every term must match.  A short list is sorted stably, from the order of IDs.
Matches(c, e, term) == {i \in DOMAIN c.words[e] : c.words[e][i] \in term}
MatchCount(c, e, terms) == MapThenSumSet(LAMBDA t : Cardinality(Matches(c, e, t)), terms)
FirstMatch(c, e, terms) == Min(UNION {Matches(c, e, t) : t \in terms})
TextSearch(c, q) ==
    LET found == {e \in Candidates(c, q) : \A t \in q.terms : Matches(c, e, t) # {}}
        Score(e) == MatchCount(c, e, q.terms) * StatusMultiplier(c.status[e])
        Before(i, j) == \/ Score(i) > Score(j)
                        \/ /\ Score(i) = Score(j)
                           /\ \/ FirstMatch(c, i, q.terms) < FirstMatch(c, j, q.terms)
                              \/ FirstMatch(c, i, q.terms) = FirstMatch(c, j, q.terms) /\ i < j
        shown == Cut(SetToSortSeq(found, Before), q.limit)
    IN [k \in DOMAIN shown |->
            Row(shown[k], Score(shown[k]),
                IF q.citations > 0 THEN <<[of |-> shown[k], body |-> 0, score |-> Score(shown[k])]>>
                ELSE <<>>)]

\* What is shown of a text, a sequence of bytes that are blank, begin a character
\* or go on with one: the bytes after the first `from` up to the `to`-th.
TrimStart(text, start) ==
    LET blanks == {i \in start + 1 .. Min({start + Look, Len(text)}) : text[i] = "blank"}
    IN IF start = 0 \/ blanks = {} THEN start ELSE Min(blanks)
TrimEnd(text, end) ==
    LET blanks == {i \in Max({end - Look, 0}) + 1 .. end : text[i + 1] = "blank"}
    IN IF end = Len(text) \/ blanks = {} THEN end ELSE Max(blanks)
SnippetAround(text, pos) ==
    [from |-> TrimStart(text, Max({pos - Window, 0})), to |-> TrimEnd(text, Min({pos + Window, Len(text)}))]

-----------------------------------------------------------------------------
\* The chunks nearest to the phrase, before anything is filtered.
ChunkLimit(q) == Max({Oversample * q.limit, Pool})
Nearest(c, q) ==
    ToSet(Cut(SetToSortSeq(c.chunks, LAMBDA a, b : a.near > b.near \/ (a.near = b.near /\ a.body < b.body)),
              ChunkLimit(q)))
\* Mutant: versions of an entry that are no longer current are shown.
FreshOrNot(c, h) == h.entry \in DOMAIN c.current
Fresh(c, h) == h.version \in {NoVersion, c.current[h.entry]}
Usable(c, q, hits) == {h \in hits : h.entry \in Candidates(c, q) /\ Fresh(c, h)}

AdjustVectorScore(h) ==
    h.near * (IF h.summary THEN 110 ELSE 100)
           * (IF h.depth > 1 THEN Max({100 - 2 * (h.depth - 1), 60}) ELSE 100)
\* The strongest chunk always, and those within 85% of it.
SelectCitations(hits, multiplier, most) ==
    LET order == SetToSortSeq(hits, LAMBDA a, b : AdjustVectorScore(a) > AdjustVectorScore(b)
                                \/ (AdjustVectorScore(a) = AdjustVectorScore(b) /\ a.body < b.body))
        strong == SelectSeq(order, LAMBDA h : 100 * AdjustVectorScore(h) >= 85 * AdjustVectorScore(order[1]))
    IN Cut([k \in DOMAIN strong |-> [of |-> strong[k].entry, body |-> strong[k].body,
                                     score |-> AdjustVectorScore(strong[k]) * multiplier]], most)
RunVector(c, q) ==
    LET hits == Usable(c, q, Nearest(c, q))
        Of(e) == {h \in hits : h.entry = e}
        Score(e) == Max({AdjustVectorScore(h) : h \in Of(e)}) * StatusMultiplier(c.status[e])
    IN Cut(Best({Row(e, Score(e), SelectCitations(Of(e), StatusMultiplier(c.status[e]), q.citations)) :
                    e \in {h.entry : h \in hits}}), q.limit)

\* Reciprocal ranks, over 61 * 62 * 63 * 64: the lists here have at most four rows.
Contribution(rank) == (61 * 62 * 63 * 64) \div (60 + rank)
Unranked == 0
RankIn(list, e) ==
    IF e \in ListedIn(list) THEN CHOOSE k \in DOMAIN list : list[k].entry = e ELSE Unranked
Reciprocal(list, e) == IF e \in ListedIn(list) THEN Contribution(RankIn(list, e)) ELSE 0
\* Citations come from the side that ranked the entry higher, words on a tie.
CitationsFrom(text, vector, e) ==
    LET t == RankIn(text, e)
        n == RankIn(vector, e)
    IN IF n # Unranked /\ (t = Unranked \/ n < t) THEN vector[n].citations ELSE text[t].citations
RRFFuse(text, vector, limit) ==
    Cut(Best({Row(e, Reciprocal(text, e) + Reciprocal(vector, e), CitationsFrom(text, vector, e)) :
                e \in ListedIn(text) \cup ListedIn(vector)}), limit)

Search(c, q) ==
    CASE Mode(q) = "text" -> TextSearch(c, q)
      [] Mode(q) = "vector" -> RunVector(c, q)
      [] Mode(q) = "hybrid" -> RRFFuse(TextSearch(c, q), RunVector(c, q), q.limit)

\* The repositories asked besides the local one, in order; what ships with the
\* binary is found locally.
MultiSearch(c, members, q) ==
    LET From(repo, list) == [k \in DOMAIN list |-> [row |-> list[k], repo |-> repo]]
        Found(n) == From(n, SelectSeq(Search(members[n], q), LAMBDA row : row.entry \notin members[n].embedded))
        all == FoldLeft(LAMBDA list, n : list \o Found(n), From(0, Search(c, q)),
                        [n \in DOMAIN members |-> n])
        order == SetToSortSeq(DOMAIN all, LAMBDA i, j : all[i].row.score > all[j].row.score
                                            \/ (all[i].row.score = all[j].row.score /\ i < j))
    IN Cut([k \in DOMAIN order |-> all[order[k]]], q.limit)

\* The command: a phrase that holds a secret is looked for literally, never
\* embedded; an index that stays locked is searched without.
Asked(q, secret, busy) ==
    IF secret THEN [q EXCEPT !.terms = @ \cup {q.phrase}, !.phrase = {}]
    ELSE IF busy THEN TextFallback(q) ELSE q

-----------------------------------------------------------------------------
\* The server.  Rows come out of a map and are sorted by score alone, so rows of
\* one score come in any order: what follows is a set of answers.
Orders(rows) ==
    {list \in [1 .. Cardinality(rows) -> rows] :
        /\ IsInjective(list)
        /\ \A i, j \in DOMAIN list : i < j => list[i].score >= list[j].score}
PublicStatusMultiplier(status) ==
    CASE status = "superseded-by" -> 25
      [] status \in {"closed-by", "cascade-closed"} -> 50
      [] OTHER -> 100
CandidateSet(c, q) == Candidates(c, q) \ c.embedded
\* Without a sync only the candidates that were hit are hashed.
Hashed(c, q, sync) ==
    IF sync THEN DOMAIN c.current \ c.embedded
    ELSE {h.entry : h \in {h \in Nearest(c, q) : h.entry \in CandidateSet(c, q) /\ h.version # NoVersion}}
VectorResult(c, q, sync) ==
    LET hits == {h \in Nearest(c, q) :
                    /\ h.entry \in CandidateSet(c, q)
                    /\ \/ h.version = NoVersion
                       \/ h.entry \in Hashed(c, q, sync) /\ h.version = c.current[h.entry]}
        Of(e) == {h \in hits : h.entry = e}
        Score(h) == h.near * PublicStatusMultiplier(c.status[h.entry])
        Cited(e) ==
            LET order == SetToSortSeq(Of(e), LAMBDA a, b : Score(a) > Score(b) \/ (Score(a) = Score(b) /\ a.body < b.body))
            IN Cut([k \in DOMAIN order |-> [of |-> e, body |-> order[k].body, score |-> Score(order[k])]],
                   q.citations)
    IN {Cut(list, q.limit) :
            list \in Orders({Row(e, Max({Score(h) : h \in Of(e)}), Cited(e)) : e \in {h.entry : h \in hits}})}
\* Citations of both sides are put together.
HybridResult(text, vector, limit) ==
    LET Cited(list, e) == IF e \in ListedIn(list) THEN list[RankIn(list, e)].citations ELSE <<>>
    IN {Cut(list, limit) :
            list \in Orders({Row(e, Reciprocal(text, e) + Reciprocal(vector, e),
                                 Cited(text, e) \o Cited(vector, e)) :
                             e \in ListedIn(text) \cup ListedIn(vector)})}
Served(c, q, sync) ==
    CASE Mode(q) = "text" -> {TextSearch(c, q)}
      [] Mode(q) = "vector" -> VectorResult(c, q, sync)
      [] Mode(q) = "hybrid" ->
            UNION {HybridResult(TextSearch(c, q), vector, q.limit) : vector \in VectorResult(c, q, sync)}

-----------------------------------------------------------------------------
\* Whatever the mode, a list holds candidates, each once and no more than asked
\* for, and cites nothing of another entry or of a state the entry is no longer in.
ListIsSound(c, q, list) ==
    /\ Len(list) <= q.limit
    /\ Cardinality(ListedIn(list)) = Len(list)
    /\ ListedIn(list) \subseteq Candidates(c, q)
    /\ \A k \in DOMAIN list : \A n \in DOMAIN list[k].citations :
        LET cited == list[k].citations[n] IN
        /\ cited.of = list[k].entry
        /\ cited.body # 0 => \E h \in c.chunks :
            h.body = cited.body /\ h.entry = cited.of /\ h.version \in {NoVersion, c.current[h.entry]}

\* A vector search that could see every chunk lists the entries that the ones left
\* out do not beat, the strongest first (runVector).
VectorIsExact(c, q) ==
    Cardinality(c.chunks) <= ChunkLimit(q) =>
        LET list == RunVector(c, q)
            Value(e) == Max({AdjustVectorScore(h) : h \in {h \in Usable(c, q, c.chunks) : h.entry = e}})
                        * StatusMultiplier(c.status[e])
            found == {h.entry : h \in Usable(c, q, c.chunks)}
        IN /\ Len(list) = Min({q.limit, Cardinality(found)})
           /\ \A k \in DOMAIN list : \A e \in found \ ListedIn(Cut(list, k)) :
                Value(list[k].entry) >= Value(e)

\* An entry that neither side ranks lower, and one ranks higher, comes first; it is
\* left out only together with the other (rrfFuse).
FusionRespectsBothSides(c, q) ==
    LET text == TextSearch(c, q)
        vector == RunVector(c, q)
        list == RRFFuse(text, vector, q.limit)
        Rank(side, e) == IF RankIn(side, e) = Unranked THEN q.limit + 1 ELSE RankIn(side, e)
        Beats(i, j) == /\ Rank(text, i) <= Rank(text, j) /\ Rank(vector, i) <= Rank(vector, j)
                       /\ Rank(text, i) < Rank(text, j) \/ Rank(vector, i) < Rank(vector, j)
    IN \A i, j \in ListedIn(text) \cup ListedIn(vector) :
        Beats(i, j) /\ j \in ListedIn(list) =>
            i \in ListedIn(list) /\ RankIn(list, i) < RankIn(list, j)

\* The command never embeds a phrase that holds a secret, and whatever stands in
\* for a phrase search still asks for every term of the user (SearchPhrase,
\* TextFallback).
StandInsKeepTerms(c, q) ==
    \A secret, busy \in BOOLEAN :
        LET asked == Asked(q, secret, busy) IN
        /\ secret => asked.phrase = {}
        /\ secret \/ busy => \A e \in ListedIn(Search(c, asked)) :
            \A t \in q.terms : Matches(c, e, t) # {}

\* An answer of the server without a sync is one it gives after a sync that had
\* nothing to add (SearchSyncNone).
SyncChangesNothing(c, q) == Served(c, q, FALSE) = Served(c, q, TRUE)

\* Across repositories the best rows are shown, and an entry of the binary once.
MergedIsBest(c, members, q) ==
    LET list == MultiSearch(c, members, q) IN
    /\ \A k \in DOMAIN list : list[k].repo # 0 => list[k].row.entry \notin members[list[k].repo].embedded
    /\ \A n \in {0} \cup DOMAIN members :
        LET mine == Search(IF n = 0 THEN c ELSE members[n], q)
        IN \A row \in ToSet(mine) :
            \/ n # 0 /\ row.entry \in members[n].embedded
            \/ \E k \in DOMAIN list : list[k] = [row |-> row, repo |-> n]
            \/ Len(list) = q.limit /\ \A k \in DOMAIN list : list[k].row.score >= row.score

\* A snippet holds the place it is about, nothing but text around it, and words as
\* long as there are blanks in reach (snippetAround).
SnippetHolds(text, pos) ==
    LET shown == SnippetAround(text, pos) IN
    /\ shown.from <= pos /\ pos <= shown.to
    /\ 0 <= shown.from /\ shown.to <= Len(text) /\ shown.to - shown.from <= 2 * Window
    /\ (\A i \in 1 .. Len(text) - Look + 1 : \E j \in i .. i + Look - 1 : text[j] = "blank") =>
        /\ shown.from = 0 \/ text[shown.from] = "blank"
        /\ shown.to = Len(text) \/ text[shown.to + 1] = "blank"

SearchAgrees(c, q) ==
    /\ ListIsSound(c, q, Search(c, q))
    /\ \A list \in Served(c, q, TRUE) : ListIsSound(c, q, list)
    /\ q.phrase # {} => VectorIsExact(c, q) /\ SyncChangesNothing(c, q) /\ StandInsKeepTerms(c, q)
    /\ Mode(q) = "hybrid" => FusionRespectsBothSides(c, q)
    /\ MergedIsBest(c, <<[c EXCEPT !.embedded = {3}]>>, q)

\* Found not to hold.
\* The citations of an entry keep to the cap (SearchQuery.MaxCitationsPerEntry).
ServerKeepsCap(c, q) ==
    \A list \in Served(c, q, TRUE) : \A k \in DOMAIN list : Len(list[k].citations) <= q.citations
\* A search has one answer (the total order of runVector and rrfFuse).
ServerIsDecided(c, q) == Cardinality(Served(c, q, TRUE)) = 1
\* Chunks are read in such number that the entries asked for are found (runVector).
PoolFillsList(c, q) ==
    q.phrase # {} => Len(RunVector(c, q)) = Min({q.limit, Cardinality({h.entry : h \in Usable(c, q, c.chunks)})})
\* Read by text instead, entries rank by how many words of the phrase they carry
\* (TextFallback).
FallbackRanksByWords(c, q) ==
    LET list == TextSearch(c, TextFallback(q))
        Carried(e) == Cardinality(ToSet(c.words[e]) \cap q.phrase)
    IN Mode(q) = "vector" => \A i, j \in DOMAIN list :
        /\ i < j /\ c.status[list[i].entry] = c.status[list[j].entry]
        => Carried(list[i].entry) >= Carried(list[j].entry)
\* A snippet never begins or ends within a word, so never within a character
\* (snippetAround).
SnippetsAreWords(text, pos) ==
    LET shown == SnippetAround(text, pos) IN
    /\ shown.from = 0 \/ text[shown.from] = "blank" \/ text[shown.from + 1] = "blank"
    /\ shown.to = Len(text) \/ text[shown.to] = "blank" \/ text[shown.to + 1] = "blank"
=============================================================================
