---------------------------- MODULE SearchPages ----------------------------
(***************************************************************************)
(* Paged search (jurisearch-query/src/search.rs over                       *)
(* jurisearch-storage/src/retrieval).  A client walks the pages of one     *)
(* query; each page is a request of its own, on a snapshot of its own, and *)
(* carries the cursor of the last row it was shown.  Between two pages     *)
(* syncd may apply packages, rebuild a corpus under another embedding      *)
(* model or activate a further corpus.                                     *)
(*                                                                         *)
(* With one active corpus the database ranks and keysets; with several,    *)
(* each corpus is ranked on its own to a depth implied by the cursor and   *)
(* the streams are fused and keyset in Rust.  Scores are integers: a score *)
(* x of the code is Rounded(x * Scale).                                    *)
(***************************************************************************)
EXTENDS Naturals, Sequences, FiniteSets, SequencesExt, FiniteSetsExt

CONSTANTS
    Chunks,          \* chunk ids, ordered as the database orders them
    DocOf,           \* [Chunks -> document ids]
    Contents,        \* [corpora -> the arm rankings its data may have]
    Requests,        \* the requests a client may walk
    PoolMultiplier,  \* pool rows per requested row
    WindowFactor,    \* AUTHORITY_RERANK_WINDOW
    K,               \* RRF_K
    LexicalWeight, DenseWeight,   \* the weights of the two arms, in tenths
    Scale,           \* 10^(decimals kept)
    BandPercent,     \* AUTHORITY_DEFAULT_BAND, in percent
    Weight,          \* the authority weight of an authority request
    Source, Marker,  \* [document ids -> source and publication marker]
    MaxApplies,      \* bound: changes of the site's data
    None

VARIABLES
    contents,     \* [corpora -> [chunks, zones: arms, articles: document ids]],
                  \* where arms are [lexical, dense: Seq(Chunks)]
    active,       \* corpora with an active generation
    fingerprint,  \* [corpora -> embedding fingerprint of the generation]
    walk,         \* the client's walk
    applies

searchVars == <<contents, active, fingerprint, walk, applies>>

Searchable == DOMAIN Contents
Fingerprints == {"this", "other"}      \* the query embedder's model, another one
Modes == {"hybrid", "bm25", "dense"}
Groups == {"chunk", "document"}

BoundsAssumption ==
    /\ Chunks \subseteq Nat /\ IsFiniteSet(Chunks) /\ DocOf \in [Chunks -> Nat]
    /\ Searchable \subseteq Nat /\ IsFiniteSet(Searchable)
    /\ Requests \subseteq [group : Groups, mode : Modes, topK : Nat \ {0},
                           authority : BOOLEAN, citation : BOOLEAN, zone : BOOLEAN]
    /\ {PoolMultiplier, WindowFactor, K, LexicalWeight, DenseWeight, Scale} \subseteq Nat \ {0}
    /\ BandPercent \in 0 .. 100 /\ Weight \in Nat /\ MaxApplies \in Nat

Ranked(content) ==
    UNION {ToSet(content.chunks.lexical), ToSet(content.chunks.dense),
           ToSet(content.zones.lexical), ToSet(content.zones.dense)}

\* A corpus ranks chunks of its own documents.
ContentsAssumption ==
    LET Rankings == [lexical : Seq(Chunks), dense : Seq(Chunks)]
    IN  /\ \A c \in Searchable :
              Contents[c] \subseteq [chunks : Rankings, zones : Rankings, articles : SUBSET Nat]
        /\ \A c, d \in Searchable : \A x \in Contents[c], y \in Contents[d] :
              \A i \in Ranked(x), j \in Ranked(y) : DocOf[i] = DocOf[j] => c = d

NoWalk == [phase |-> "none", req |-> None, cursor |-> None,
           shown |-> <<>>, steady |-> {}]

Init ==
    /\ contents \in {f \in [Searchable -> UNION {Contents[c] : c \in Searchable}] :
                       \A c \in Searchable : f[c] \in Contents[c]}
    /\ active \in (SUBSET Searchable) \ {{}}
    /\ fingerprint = [c \in Searchable |-> "this"]
    /\ walk = NoWalk
    /\ applies = 0

-----------------------------------------------------------------------------
(* Ranking inside one corpus. *)

Least(a, b) == IF a < b THEN a ELSE b

Rounded(num, den) == (2 * num + den) \div (2 * den)

CeilDiv(a, b) == (a + b - 1) \div b

\* How many rows of S come before row x in a strict total order.
Ahead(S, Less(_, _), x) == Cardinality({y \in S : Less(y, x)})

\* The first n rows of S, in order.
FirstRows(S, Less(_, _), n) ==
    [i \in 1 .. Least(n, Cardinality(S)) |-> CHOOSE x \in S : Ahead(S, Less, x) = i - 1]

Position(seq, x) == CHOOSE i \in DOMAIN seq : seq[i] = x

Prefix(seq, n) == SubSeq(seq, 1, Least(n, Len(seq)))

\* A zone search ranks official zone units, any other search chunks.
Arms(c, req) == IF req.zone THEN contents[c].zones ELSE contents[c].chunks

\* The two arms of the pool, cut to their limits.
Lexical(c, req) ==
    IF req.mode = "dense" THEN <<>>
    ELSE Prefix(Arms(c, req).lexical, req.topK * PoolMultiplier)

Dense(c, req) ==
    IF req.mode = "bm25" THEN <<>>
    ELSE Prefix(Arms(c, req).dense, req.topK * PoolMultiplier)

Pool(c, req) == ToSet(Lexical(c, req)) \cup ToSet(Dense(c, req))

\* Reciprocal rank fusion of the two arms; one arm alone has no weight.
FusedScore(c, req, chunk) ==
    LET l == K + Position(Lexical(c, req), chunk)
        d == K + Position(Dense(c, req), chunk)
    IN  CASE req.mode = "bm25"  -> Rounded(Scale, l)
          [] req.mode = "dense" -> Rounded(Scale, d)
          [] req.mode = "hybrid" ->
               IF chunk \notin ToSet(Dense(c, req)) THEN Rounded(Scale * LexicalWeight, 10 * l)
               ELSE IF chunk \notin ToSet(Lexical(c, req)) THEN Rounded(Scale * DenseWeight, 10 * d)
               ELSE Rounded(Scale * (LexicalWeight * d + DenseWeight * l), 10 * l * d)

IdOf(req, chunk) == IF req.group = "document" THEN DocOf[chunk] ELSE chunk

\* A document ranks as its best chunk.
Rows(c, req) ==
    {[id |-> i, corpus |-> c,
      score |-> Max({FusedScore(c, req, chunk) :
                        chunk \in {x \in Pool(c, req) : IdOf(req, x) = i}})] :
        i \in {IdOf(req, chunk) : chunk \in Pool(c, req)}}

Before(a, b) == a.score > b.score \/ (a.score = b.score /\ a.id < b.id)

-----------------------------------------------------------------------------
(* The fan-out over several corpora. *)

\* A row's score across corpora is the reciprocal of its rank in its own arm.
Cross(rank) == Rounded(Scale, K + rank)

\* An arm ranks no more rows than there are chunks and its pool has room for.
Deepest(req) == Least(Cardinality(Chunks), 2 * req.topK * PoolMultiplier)

\* No request ranks so many rows that the scores of neighbouring ranks round to one.
ScoresAssumption ==
    \A req \in Requests : (K + Deepest(req) + 1) * (K + Deepest(req) + 1) <= Scale

ImpliedRank(score) ==
    IF CeilDiv(Scale, score) > K THEN CeilDiv(Scale, score) - K ELSE 0

(* Fault: a corpus is ranked to the depth of one page.                     *)
Depth_PageOnly(cursor, limit) == limit + 1

\* How deep each arm is read for a page of limit rows after cursor.
Depth(cursor, limit) ==
    (IF cursor = None THEN 0 ELSE ImpliedRank(cursor.score)) + limit + 1

ArmRows(c, req, depth) ==
    LET rows == Rows(c, req)
        ranked == {[row |-> r, rank |-> Ahead(rows, Before, r) + 1] : r \in rows}
    IN  {[id |-> x.row.id, corpus |-> c, score |-> Cross(x.rank), rank |-> x.rank] :
            x \in {y \in ranked : y.rank <= depth}}

Fused(a, b) ==
    \/ a.rank < b.rank
    \/ a.rank = b.rank /\ a.corpus < b.corpus

-----------------------------------------------------------------------------
(* Pages. *)

Limit(req) ==
    IF req.authority THEN req.topK * Least(WindowFactor, PoolMultiplier) + 1
    ELSE req.topK + 1

(* Fault: the keyset compares scores and not the ids of a tie.             *)
Follows_LowerScore(cursor, row) == row.score < cursor.score

\* Whether a row comes after the row the cursor was made of.
Follows(cursor, row) ==
    \/ row.score < cursor.score
    \/ /\ row.score = cursor.score
       /\ \/ row.corpus > cursor.corpus
          \/ row.corpus = cursor.corpus /\ row.id > cursor.id

After(cursor, rows) ==
    IF cursor = None THEN rows ELSE {row \in rows : Follows(cursor, row)}

\* The rows a request gets, in order.
Page(req, cursor) ==
    IF Cardinality(active) = 1
    THEN LET c == CHOOSE x \in active : TRUE
         IN  FirstRows(After(cursor, Rows(c, req)), Before, Limit(req))
    ELSE LET fetched == UNION {ArmRows(c, req, Depth(cursor, Limit(req))) : c \in active}
         IN  FirstRows(After(cursor, fetched), Fused, Limit(req))

\* The cursor of a page names the grouping, and whether corpora were fused.
CursorKind(req) == IF Cardinality(active) = 1 THEN req.group ELSE "multi"

\* Dense retrieval wants every active corpus under the query's model, a zone
\* search a single corpus; a cursor of the other topology is refused.
Refused(req, cursor) ==
    \/ req.zone /\ Cardinality(active) > 1
    \/ req.mode # "bm25" /\ \E c \in active : fingerprint[c] # "this"
    \/ cursor # None /\ cursor.kind # CursorKind(req)

\* Articles whose title is the reference in a citation-shaped query.
Resolved(req) ==
    IF req.citation /\ ~req.zone /\ req.mode = "hybrid"
    THEN UNION {contents[c].articles : c \in active}
    ELSE {}

-----------------------------------------------------------------------------
(* The authority re-rank of a first page. *)

\* [order, tier, top] of a decision; the two orders are never compared.
AuthorityTier(doc) ==
    CASE Source[doc] = "cass" ->
            [order |-> "judicial", top |-> 3,
             tier |-> IF Marker[doc] = "oui" THEN 3 ELSE 2]
      [] Source[doc] = "inca" -> [order |-> "judicial", top |-> 3, tier |-> 1]
      [] Source[doc] = "capp" -> [order |-> "judicial", top |-> 3, tier |-> 0]
      [] Source[doc] = "jade" ->
            [order |-> "administrative", top |-> 2,
             tier |-> CASE Marker[doc] = "A" -> 2 [] Marker[doc] = "B" -> 1 [] OTHER -> 0]
      [] OTHER -> [order |-> "unknown", top |-> 1, tier |-> 0]

RowTier(req, row) ==
    AuthorityTier(IF req.group = "document" THEN row.id ELSE DocOf[row.id])

\* Compared only inside one order, so the common denominator is left out.
Adjusted(req, row) ==
    row.score * (RowTier(req, row).top + Weight * RowTier(req, row).tier)

InBand(leader, row) == (leader.score - row.score) * 100 <= BandPercent * leader.score

(* Fault: each row is compared with its neighbour instead of its leader.   *)
Leaders_Pairwise(page) ==
    LET leader[i \in DOMAIN page] ==
            IF i > 1 /\ InBand(page[i - 1], page[i]) THEN leader[i - 1] ELSE i
    IN  leader

\* The position of the leader of each row's cluster.
Leaders(page) ==
    LET leader[i \in DOMAIN page] ==
            IF i > 1 /\ InBand(page[leader[i - 1]], page[i]) THEN leader[i - 1] ELSE i
    IN  leader

\* The positions of a cluster whose rows are of the same order.
Slots(req, page, i) ==
    {j \in DOMAIN page :
        /\ Leaders(page)[j] = Leaders(page)[i]
        /\ RowTier(req, page[j]).order = RowTier(req, page[i]).order}

\* Which of two rows is dealt first: by adjusted score, then by relevance.
Better(req, page, a, b) ==
    \/ Adjusted(req, page[a]) > Adjusted(req, page[b])
    \/ Adjusted(req, page[a]) = Adjusted(req, page[b]) /\ a < b

\* The position of the row that is dealt to slot i.
Dealt(req, page, i) ==
    CHOOSE j \in Slots(req, page, i) :
        Cardinality({k \in Slots(req, page, i) : Better(req, page, k, j)})
            = Cardinality({k \in Slots(req, page, i) : k < i})

\* Inside a cluster the slots of an order stay its own.
Reranked(req, page) ==
    [i \in DOMAIN page |->
        IF RowTier(req, page[i]).order = "unknown" THEN page[i] ELSE page[Dealt(req, page, i)]]

-----------------------------------------------------------------------------
(* Requests. *)

\* Where a row stands in the order the client is walking.
Standing(req, multi) ==
    IF multi THEN UNION {ArmRows(c, req, Cardinality(Chunks)) : c \in active}
    ELSE UNION {Rows(c, req) : c \in active}

(* Fault: the cursor is that of the last row fetched, shown or not.        *)
NextCursor_LastFetched(req, page) ==
    IF Len(page) <= req.topK \/ req.authority THEN None
    ELSE [kind |-> CursorKind(req), score |-> page[Len(page)].score,
          corpus |-> page[Len(page)].corpus, id |-> page[Len(page)].id]

\* The next cursor is made of the last row shown, when a row was cut off.
NextCursor(req, page) ==
    IF Len(page) <= req.topK \/ req.authority THEN None
    ELSE [kind |-> CursorKind(req), score |-> page[req.topK].score,
          corpus |-> page[req.topK].corpus, id |-> page[req.topK].id]

\* The answer to a request as the walk goes on.
Answered(req, cursor, before) ==
    LET exact == Resolved(req)
        page == IF req.authority THEN Reranked(req, Page(req, cursor))
                ELSE Page(req, cursor)
        next == NextCursor(req, page)
    IN  IF exact # {} THEN [before EXCEPT !.phase = "exact", !.cursor = None]
        ELSE IF Refused(req, cursor) THEN [before EXCEPT !.phase = "refused", !.cursor = None]
        ELSE [before EXCEPT
                !.phase = IF next # None THEN "open"
                          ELSE IF req.authority THEN "reranked" ELSE "ended",
                !.cursor = next,
                !.shown = @ \o Prefix(page, req.topK)]

\* The first page.
Search(req) ==
    /\ walk.phase = "none"
    /\ walk' = Answered(req, None,
                  [NoWalk EXCEPT !.req = req,
                                 !.steady = Standing(req, Cardinality(active) > 1)])
    /\ UNCHANGED <<contents, active, fingerprint, applies>>

\* A further page of the same query.
NextPage ==
    /\ walk.phase = "open"
    /\ walk' = Answered(walk.req, walk.cursor,
                  [walk EXCEPT !.steady =
                      @ \cap Standing(walk.req, walk.cursor.kind = "multi")])
    /\ UNCHANGED <<contents, active, fingerprint, applies>>

\* A package or a rebuild changes what a corpus serves.
Apply(c, content, model) ==
    /\ c \in active /\ applies < MaxApplies
    /\ <<content, model>> # <<contents[c], fingerprint[c]>>
    /\ contents' = [contents EXCEPT ![c] = content]
    /\ fingerprint' = [fingerprint EXCEPT ![c] = model]
    /\ applies' = applies + 1
    /\ UNCHANGED <<active, walk>>

\* A further corpus gets its first generation.
Activate(c) ==
    /\ c \notin active /\ applies < MaxApplies
    /\ active' = active \cup {c}
    /\ applies' = applies + 1
    /\ UNCHANGED <<contents, fingerprint, walk>>

Next ==
    \/ \E req \in Requests : Search(req)
    \/ NextPage
    \/ \E c \in Searchable : \E content \in Contents[c], model \in Fingerprints :
          Apply(c, content, model)
    \/ \E c \in Searchable : Activate(c)

Spec == Init /\ [][Next]_searchVars

-----------------------------------------------------------------------------
(* Properties. *)

RowSet ==
    [id : Nat, corpus : Searchable, score : Nat]
        \cup [id : Nat, corpus : Searchable, score : Nat, rank : Nat]

Cursors == [kind : Groups \cup {"multi"}, score : Nat, corpus : Searchable, id : Nat]

NoneAssumption == None \notin Cursors /\ None \notin Requests

TypeOK ==
    /\ DOMAIN contents = Searchable /\ \A c \in Searchable : contents[c] \in Contents[c]
    /\ active \in (SUBSET Searchable) \ {{}}
    /\ fingerprint \in [Searchable -> Fingerprints]
    /\ walk \in [phase : {"none", "open", "ended", "refused", "exact", "reranked"},
                 req : Requests \cup {None}, cursor : Cursors \cup {None},
                 shown : Seq(RowSet), steady : SUBSET RowSet]
    /\ applies \in 0..MaxApplies
    /\ (walk.phase = "open") <=> (walk.cursor # None)

Ids(rows) == {row.id : row \in rows}

\* A row that stood in the same place at every page the client asked for is shown once:
\* on one page, not on two, and it is not passed over between two pages, through
\* equal scores, the depth of the arms, and packages that move the other rows.
SteadyRowsShownOnce ==
    /\ \A i, j \in DOMAIN walk.shown :
          walk.shown[i].id = walk.shown[j].id /\ i # j =>
             walk.shown[i].id \notin Ids(walk.steady)
    /\ walk.phase = "ended" =>
          Ids(walk.steady) \subseteq Ids(ToSet(walk.shown))

\* Authority never shows a row in the place of one that is more relevant by more
\* than the band, on the page or cut off it, however many near-ties lie between.
RelevanceDominates ==
    walk.phase = "reranked" =>
       \A i \in DOMAIN walk.shown, row \in walk.steady :
          \/ row.id \in Ids(ToSet(SubSeq(walk.shown, 1, i)))
          \/ row.score <= walk.shown[i].score
          \/ InBand(row, walk.shown[i])

\* What the re-rank says of itself (jurisearch-storage/src/authority.rs:207):
\* rows of different orders are never reordered against each other.  It does not
\* hold: a row dealt to a higher slot of its own order passes the rows between.
OrdersNeverCross ==
    walk.phase = "reranked" =>
       \A i, j \in DOMAIN walk.shown :
          /\ i < j
          /\ {RowTier(walk.req, walk.shown[i]).order,
              RowTier(walk.req, walk.shown[j]).order} = {"judicial", "administrative"}
          => walk.shown[i].score >= walk.shown[j].score
=============================================================================
