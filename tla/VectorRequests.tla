---------------------------- MODULE VectorRequests ----------------------------
(***************************************************************************)
(* GET /api/v1/tracks/search and GET /api/v1/similar (internal/api/        *)
(* vectors.go, rerank.go) over the Qdrant client (internal/vectors/        *)
(* qdrant.go) and ClickHouse (internal/analytics/clickhouse.go), while the *)
(* pipeline replaces the collection.                                       *)
(*                                                                         *)
(* Time is counted in ticks.  What takes time is waiting for an answer and *)
(* waiting for the catalog's mutex; everything else happens between ticks. *)
(* Goroutines queue for a mutex, but one that locks it while it is free    *)
(* takes it although others are queued: they are still to be woken.  So a  *)
(* request that has only just come may overtake those that wait.           *)
(***************************************************************************)
EXTENDS Collection, Rerank

CONSTANTS
  Requests,          \* requests under way at a time
  Jobs,              \* what requests may ask for, their parameters parsed
  Artist,            \* the artist of each track
  Cosine,            \* the cosine similarity of each two tracks, in tenths
  Title,             \* the place of its title among the titles
  MatchRank,         \* how well each track matches each query: 0..3, or 4 for not at all
  StatsConfigured,   \* whether CLICKHOUSE_URL is set
  Stats,             \* the statistics ClickHouse may answer with
  MinCandidates, CandidatesPerResult, MaxCandidates,
  MinRerankCandidates, RerankCandidatesPerResult,
  MaxCatalogSize,
  Timeout,           \* of a request
  PostTimeout,       \* of one request to Qdrant
  StatsTimeout,      \* of the request to ClickHouse
  CatalogTTL, CatalogRetryDelay,
  MaxSimilar,        \* bound: similar requests at a time (they share nothing they change)
  MaxTime            \* bound of the clock

ASSUME VectorAssumption ==
  /\ \A j \in Jobs : j.kind \in {"search", "similar"} /\ j.limit \in Nat \ {0}
  /\ {MinCandidates, CandidatesPerResult, MaxCandidates, MinRerankCandidates,
      RerankCandidatesPerResult, MaxCatalogSize, Timeout, PostTimeout, StatsTimeout,
      CatalogTTL, CatalogRetryDelay} \subseteq Nat \ {0}
  /\ {MaxSimilar, MaxTime} \subseteq Nat
  /\ \A i, k \in Ids : i # k => Cosine[i][k] \in Int
  /\ \A stats \in Stats : stats \in [DOMAIN stats -> [plays : 0..(Word - 1), skips : 0..(Word - 1)]]

VARIABLES
  now,        \* the clock
  catalog,    \* the copy of all payloads that searches match against; {} for nil
  refreshAt,  \* when the catalog is to be read again
  scan,       \* the scroll under way: where the next page starts, the points read
  pc,         \* where each request is
  job,        \* what each request asks for
  deadline,   \* when each request's context ends
  gone,       \* whether its client has closed it
  since,      \* when it has come, or sent the request to Qdrant or ClickHouse that is under way
  want,       \* how many neighbours, and how many candidates, a similar request
  cands,      \*   asks the store for
  found,      \* the neighbours it has been given
  until,      \* history: the last deadline among its own and those that have overtaken it
  answer,     \* what the last step has answered, if it has answered a request
  dueBy       \* history: from when on searches must see the collection as it is

reqVars  == <<pc, job, deadline, gone, since, want, cands, found, until>>
catVars  == <<catalog, refreshAt, scan>>
vars     == <<collVars, now, catVars, reqVars, answer, dueBy>>

AtQdrant == {"scroll", "retrieve", "query"}
Waiting  == {"lock", "stats"} \cup AtQdrant

NoJob    == [kind |-> "none"]
NoAnswer == [to |-> NoJob, status |-> 0, tracks |-> <<>>, mode |-> "none", of |-> {}]
Failed(status) == [NoAnswer EXCEPT !.status = status]

TypeOK ==
  /\ CollTypeOK
  /\ now \in 0..MaxTime
  /\ catalog \subseteq [id : Ids, gen : 0..gen]
  /\ refreshAt \in Nat
  /\ scan.offset \in Nat /\ scan.points \subseteq [id : Ids, gen : 0..gen]
  /\ pc \in [Requests -> {"idle"} \cup Waiting]
  /\ job \in [Requests -> Jobs \cup {NoJob}]
  /\ deadline \in [Requests -> Nat]
  /\ gone \in [Requests -> BOOLEAN]
  /\ since \in [Requests -> 0..now]
  /\ want \in [Requests -> Nat] /\ cands \in [Requests -> Nat]
  /\ DOMAIN found = Requests
  /\ until \in [Requests -> Nat]
  /\ dueBy \in Nat

Init ==
  /\ CollInit
  /\ now = 0
  /\ catalog = {} /\ refreshAt = 0
  /\ scan = [offset |-> 0, points |-> {}]
  /\ pc = [r \in Requests |-> "idle"]
  /\ job = [r \in Requests |-> NoJob]
  /\ deadline = [r \in Requests |-> 0]
  /\ gone = [r \in Requests |-> FALSE]
  /\ since = [r \in Requests |-> 0]
  /\ want = [r \in Requests |-> 0] /\ cands = [r \in Requests |-> 0]
  /\ found = [r \in Requests |-> NoAnswer]
  /\ until = [r \in Requests |-> 0]
  /\ answer = NoAnswer
  /\ dueBy = 0

-------------------------------------------------------------------------------
\* What the two handlers and the store share.

Candidates(n) == Min({Max({n * CandidatesPerResult, MinCandidates}), MaxCandidates})

RerankCandidates(n) == Max({n * RerankCandidatesPerResult, MinRerankCandidates})

Reranks(j) == j.rerank /\ StatsConfigured

First(s, n) == SubSeq(s, 1, Min({n, Len(s)}))

\* How many neighbours the handler asks similar for, and similar the store.
Wanted(j) == IF Reranks(j) THEN RerankCandidates(j.limit) ELSE j.limit
Asked(j)  == IF j.exclude THEN Candidates(Wanted(j)) ELSE Wanted(j)

Arrive(r, j) ==
  /\ pc[r] = "idle"
  /\ j.kind = "similar" => Cardinality({s \in Requests : job[s].kind = "similar"}) < MaxSimilar
  /\ pc' = [pc EXCEPT ![r] = IF j.kind = "search" THEN "lock" ELSE "retrieve"]
  /\ job' = [job EXCEPT ![r] = j]
  /\ deadline' = [deadline EXCEPT ![r] = now + Timeout]
  /\ until' = [until EXCEPT ![r] = now + Timeout]
  /\ gone' = [gone EXCEPT ![r] = FALSE]
  /\ since' = [since EXCEPT ![r] = now]
  /\ want' = [want EXCEPT ![r] = IF j.kind = "search" THEN 0 ELSE Wanted(j)]
  /\ cands' = [cands EXCEPT ![r] = IF j.kind = "search" THEN 0 ELSE Asked(j)]
  /\ answer' = NoAnswer
  /\ UNCHANGED <<collVars, now, catVars, found, dueBy>>

CtxDone(r) == gone[r] \/ now >= deadline[r]

\* When the HTTP client, or the context it is given, ends a request under way.
TimedOut(r) ==
  now >= since[r] + IF pc[r] = "stats" THEN StatsTimeout ELSE PostTimeout

\* Bug: the request to Qdrant does not carry the context of the one it serves.
Due_NoContext(r) == TimedOut(r)

Due(r) == CtxDone(r) \/ TimedOut(r)

\* vectorsError, for anything but ErrNotFound.
Unavailable(r) == Failed(IF gone[r] THEN 499 ELSE 502)

\* The request is answered, and what it has kept on the way is forgotten.
Reply(r, a) ==
  /\ pc' = [pc EXCEPT ![r] = "idle"]
  /\ answer' = [a EXCEPT !.to = job[r]]
  /\ gone' = [gone EXCEPT ![r] = FALSE]
  /\ since' = [since EXCEPT ![r] = 0]
  /\ deadline' = [deadline EXCEPT ![r] = 0]
  /\ until' = [until EXCEPT ![r] = 0]
  /\ want' = [want EXCEPT ![r] = 0]
  /\ cands' = [cands EXCEPT ![r] = 0]
  /\ found' = [found EXCEPT ![r] = NoAnswer]
  /\ job' = [job EXCEPT ![r] = NoJob]

-------------------------------------------------------------------------------
\* Search and loadCatalog.

Hits(points, j) ==
  LET hits == {p \in points : MatchRank[j.query][p.id] < 4}
      Key(p) == <<MatchRank[j.query][p.id], Title[p.id], p.id>>
      Better(a, b) == \E k \in 1..3 : /\ Key(a)[k] < Key(b)[k]
                                      /\ \A l \in 1..(k - 1) : Key(a)[l] = Key(b)[l]
      sorted == SetToSortSeq(hits, Better)
  IN  [k \in 1..Min({j.limit, Len(sorted)}) |-> sorted[k].id]

Found(r, points) ==
  [NoAnswer EXCEPT !.status = 200, !.tracks = Hits(points, job[r]), !.mode = "search", !.of = points]

Locked == \E r \in Requests : pc[r] = "scroll"

\* Bug: the catalog is read without the mutex.
Turn_NoMutex(r) == pc[r] = "lock"

\* sync.Mutex: the free mutex goes to the one that waits longest, or to one that
\* has come in this tick, which need not be queued yet.
Turn(r) ==
  /\ pc[r] = "lock" /\ ~Locked
  /\ \/ since[r] = now
     \/ \A s \in Requests : pc[s] = "lock" => since[r] <= since[s]

\* Those that wait for the mutex r takes, and have come before it.
Overtaken(r) == {s \in Requests : pc[s] = "lock" /\ since[s] < since[r]}

\* Bug: a copy once read is never read again.
Fresh_Forever == catalog # {}

Fresh == catalog # {} /\ now < refreshAt

UseCatalog(r) ==
  /\ Turn(r)
  /\ Fresh
  /\ Reply(r, Found(r, catalog))
  /\ UNCHANGED <<collVars, now, catVars, dueBy>>

BeginScroll(r) ==
  /\ Turn(r)
  /\ ~Fresh
  /\ pc' = [pc EXCEPT ![r] = "scroll"]
  /\ since' = [since EXCEPT ![r] = now]
  /\ scan' = [offset |-> 0, points |-> {}]
  /\ until' = [s \in Requests |->
                 IF s \in Overtaken(r) THEN Max({until[s], deadline[r]}) ELSE until[s]]
  /\ UNCHANGED <<collVars, now, catalog, refreshAt, job, deadline, gone, want, cands, found, dueBy>>
  /\ answer' = NoAnswer

ScrollPage(r) ==
  /\ pc[r] = "scroll"
  /\ ~Due(r)
  /\ exists
  /\ LET page   == {p \in Points : p.id \in Page(scan.offset)}
         points == scan.points \cup page
         next   == NextOffset(scan.offset)
     IN  IF next = 0 \/ Cardinality(points) >= MaxCatalogSize
         THEN /\ catalog' = points
              /\ refreshAt' = now + CatalogTTL
              /\ scan' = [offset |-> 0, points |-> {}]
              /\ Reply(r, Found(r, points))
         ELSE /\ scan' = [offset |-> next, points |-> points]
              /\ since' = [since EXCEPT ![r] = now]
              /\ UNCHANGED <<catalog, refreshAt, pc, job, deadline, gone, want, cands, found, until>>
              /\ answer' = NoAnswer
  /\ UNCHANGED <<collVars, now, dueBy>>

\* The scroll fails: Qdrant fails or has no such collection, or the context
\* ends.  An older copy goes on being used for a while.
ScrollFails(r) ==
  /\ pc[r] = "scroll"
  /\ scan' = [offset |-> 0, points |-> {}]
  /\ IF catalog # {}
     THEN /\ refreshAt' = now + CatalogRetryDelay
          /\ Reply(r, Found(r, catalog))
     ELSE /\ Reply(r, Unavailable(r))
          /\ UNCHANGED refreshAt
  /\ dueBy' = Max({dueBy, now + CatalogRetryDelay})
  /\ UNCHANGED <<collVars, now, catalog>>

-------------------------------------------------------------------------------
\* Similar: the track, its neighbours, the statistics about them.

\* What Qdrant answers to a query: the n nearest.  Among equally near ones it
\* has an order of its own.
Nearer(a, b, id) ==
  Cosine[id][a] > Cosine[id][b] \/ (Cosine[id][a] = Cosine[id][b] /\ a > b)

Nearest(S, id, n) ==
  LET others == S \ {id}
      place(i) == 1 + Cardinality({a \in others : Nearer(a, i, id)})
  IN  First([k \in 1..Cardinality(others) |-> CHOOSE i \in others : place(i) = k], n)

RetrieveAnswers(r) ==
  /\ pc[r] = "retrieve"
  /\ ~Due(r)
  /\ exists
  /\ IF job[r].id \in ids
     THEN /\ pc' = [pc EXCEPT ![r] = "query"]
          /\ since' = [since EXCEPT ![r] = now]
          /\ UNCHANGED <<job, deadline, gone, want, cands, found, until>>
          /\ answer' = NoAnswer
     ELSE Reply(r, Failed(404))
  /\ UNCHANGED <<collVars, now, catVars, dueBy>>

\* Those that are not by the artist of id.
OfOthers(near, id) ==
  FoldLeft(LAMBDA kept, i : IF Artist[i] = Artist[id] THEN kept ELSE Append(kept, i), <<>>, near)

Kept(r, near) ==
  IF job[r].exclude THEN First(OfOthers(near, job[r].id), want[r]) ELSE near

\* Bug: the search counts as exhausted when it gives as many as it was asked for.
Enough_Exhausted(r, near) ==
  ~job[r].exclude \/ Len(Kept(r, near)) = want[r] \/ Len(near) <= cands[r]

Enough(r, near) ==
  \/ ~job[r].exclude
  \/ Len(Kept(r, near)) = want[r]
  \/ Len(near) < cands[r]
  \/ cands[r] = MaxCandidates

Neighbors(r, near, mode) ==
  [NoAnswer EXCEPT !.status = 200, !.tracks = First(near, job[r].limit),
                   !.mode = mode, !.of = Points]

QueryAnswers(r) ==
  /\ pc[r] = "query"
  /\ ~Due(r)
  /\ job[r].id \in ids
  /\ LET near == Nearest(ids, job[r].id, cands[r])
     IN  IF ~Enough(r, near)
         THEN /\ pc' = [pc EXCEPT ![r] = "retrieve"]
              /\ cands' = [cands EXCEPT ![r] = MaxCandidates]
              /\ since' = [since EXCEPT ![r] = now]
              /\ UNCHANGED <<job, deadline, gone, want, found, until>>
              /\ answer' = NoAnswer
         ELSE IF Reranks(job[r])
         THEN /\ pc' = [pc EXCEPT ![r] = "stats"]
              /\ found' = [found EXCEPT ![r] = [Neighbors(r, near, "rerank_skipped") EXCEPT !.tracks = Kept(r, near)]]
              /\ since' = [since EXCEPT ![r] = now]
              /\ UNCHANGED <<job, deadline, gone, want, cands, until>>
              /\ answer' = NoAnswer
         ELSE Reply(r, Neighbors(r, Kept(r, near), IF job[r].rerank THEN "rerank_skipped" ELSE "plain"))
  /\ UNCHANGED <<collVars, now, catVars, dueBy>>

\* Retrieving or querying fails: Qdrant fails, has no such collection or no
\* such point any more, or the context ends.
PostFails(r) ==
  /\ pc[r] \in {"retrieve", "query"}
  /\ Reply(r, Unavailable(r))
  /\ UNCHANGED <<collVars, now, catVars, dueBy>>

FoundSet(r) ==
  {[id |-> i, cosine |-> Cosine[job[r].id][i]] : i \in Range(found[r].tracks)}

\* ClickHouse knows some of the candidates.
StatsAnswers(r) ==
  /\ pc[r] = "stats"
  /\ ~Due(r) \/ found[r].tracks = <<>>
  /\ \E stats \in Stats :
       LET ranked == Reranked(FoundSet(r), stats)
           first  == First(ranked, job[r].limit)
       IN  Reply(r, [found[r] EXCEPT !.tracks = [k \in DOMAIN first |-> first[k].id], !.mode = "reranked"])
  /\ UNCHANGED <<collVars, now, catVars, dueBy>>

\* The statistics cannot be had: the answer is Qdrant's, unless nobody waits
\* for it.
Skipped(r) ==
  IF gone[r] THEN Failed(499)
  ELSE [found[r] EXCEPT !.tracks = First(@, job[r].limit)]

StatsFail(r) ==
  /\ pc[r] = "stats"
  /\ found[r].tracks # <<>>
  /\ Reply(r, Skipped(r))
  /\ UNCHANGED <<collVars, now, catVars, dueBy>>

-------------------------------------------------------------------------------
ClientLeaves(r) ==
  /\ pc[r] \in Waiting
  /\ ~gone[r]
  /\ gone' = [gone EXCEPT ![r] = TRUE]
  /\ UNCHANGED <<collVars, now, catVars, dueBy, pc, job, deadline, since, want, cands, found, until>>
  /\ answer' = NoAnswer

PipelineStep ==
  /\ Pipeline
  /\ dueBy' = Max({dueBy, now + Timeout + CatalogTTL})
  /\ answer' = NoAnswer
  /\ UNCHANGED <<now, catVars, reqVars>>

\* Time passes only while every request under way waits for an answer that
\* may still come, or for the mutex another one holds.
Tick ==
  /\ now < MaxTime
  /\ \A r \in Requests : pc[r] \in AtQdrant \cup {"stats"} => ~Due(r)
  /\ (\E r \in Requests : pc[r] = "lock") => Locked
  /\ now' = now + 1
  /\ UNCHANGED <<collVars, catVars, reqVars, dueBy>>
  /\ answer' = NoAnswer

Next ==
  \/ \E r \in Requests :
       \/ \E j \in Jobs : Arrive(r, j)
       \/ UseCatalog(r) \/ BeginScroll(r) \/ ScrollPage(r) \/ ScrollFails(r)
       \/ RetrieveAnswers(r) \/ QueryAnswers(r) \/ PostFails(r)
       \/ StatsAnswers(r) \/ StatsFail(r)
       \/ ClientLeaves(r)
  \/ PipelineStep
  \/ Tick

Spec == Init /\ [][Next]_vars

-------------------------------------------------------------------------------
\* loadCatalog keeps the mutex while it reads, and whoever waits for the mutex
\* does not watch its context: a search that later ones overtake may be answered
\* after its deadline.  It is late by no more than they can make it: each request
\* is answered by its own deadline or by that of the last that overtook it, so
\* one that nobody overtakes is answered by its own.
AnsweredInTime == \A r \in Requests : pc[r] \in Waiting => now <= until[r]

\* What makes it so: one request at a time has the mutex, and whoever waits for
\* it has come no earlier than the one that has it or has been overtaken by it.
MutexInv ==
  /\ TypeOK
  /\ \A r, s \in Requests : pc[r] = "scroll" /\ pc[s] = "scroll" => r = s
  /\ \A r \in Requests : pc[r] \in Waiting =>
       deadline[r] <= until[r] /\ deadline[r] <= now + Timeout
  /\ \A r \in Requests : pc[r] = "lock" => deadline[r] = since[r] + Timeout
  /\ \A r, s \in Requests : pc[r] = "scroll" /\ pc[s] = "lock" => deadline[r] <= until[s]
  /\ AnsweredInTime

\* A search answers from the collection as it is, once the collection has not
\* changed for the time a copy is kept and its refresh may take, and no refresh
\* has failed within the retry delay.  So half an upload that was copied goes
\* away, and so does the copy of a data set that has been replaced.
RerunShowsUp == answer.mode = "search" /\ now >= dueBy => answer.of = Points

\* What makes it so: a copy that is not the collection's, whole or half read, is
\* used up by dueBy, so long as the cap on its size does not cut it short.
CopyInv ==
  /\ refreshAt <= dueBy \/ refreshAt <= now + CatalogTTL
  /\ Cardinality(Ids) <= MaxCatalogSize =>
       /\ catalog \in {{}, Points} \/ refreshAt <= dueBy
       /\ \A r \in Requests : pc[r] = "scroll" =>
            \/ scan.points = {p \in Points : p.id < scan.offset}
            \/ deadline[r] + CatalogTTL <= dueBy
       /\ RerunShowsUp

\* The nearest tracks among S, of other artists if so asked.
Exact(S, j) ==
  IF j.exclude THEN First(OfOthers(Nearest(S, j.id, MaxCandidates), j.id), j.limit)
  ELSE Nearest(S, j.id, j.limit)

\* An answer that is not reranked gives the nearest tracks of the collection as
\* it was when they were asked for, of other artists if so asked, whether that
\* took one search or two and whether a rerank was skipped; and a request that
\* was left to be reranked never fails because of the statistics.
NeighborsExact ==
  [][LET a == answer'
     IN  /\ a.mode \in {"plain", "rerank_skipped"} => a.tracks = Exact({p.id : p \in a.of}, a.to)
         /\ \A r \in Requests :
              pc[r] = "stats" /\ pc'[r] = "idle" => a.status = 200 \/ gone[r]]_vars

\* What makes it so: how many neighbours a request asks for, and that those it
\* keeps while it waits for the statistics begin with the ones it is after.
SimilarInv ==
  \A r \in Requests :
    /\ pc[r] \in {"retrieve", "query", "stats"} =>
         /\ job[r] \in Jobs /\ want[r] = Wanted(job[r])
         /\ cands[r] \in {Asked(job[r])} \cup IF job[r].exclude THEN {MaxCandidates} ELSE {}
    /\ pc[r] = "stats" =>
         LET S == {p.id : p \in found[r].of}
         IN  /\ job[r].id \in Ids /\ found[r].tracks \in Seq(Ids \ {job[r].id})
             /\ found[r] = [NoAnswer EXCEPT !.status = 200, !.tracks = found[r].tracks,
                                            !.mode = "rerank_skipped", !.of = found[r].of]
             /\ First(found[r].tracks, job[r].limit) = Exact(S, job[r])

IInv == MutexInv /\ CopyInv /\ SimilarInv

\* Being skipped more often never takes a track further up, and without any
\* statistics the order is that of the cosines.
SkipsNeverHelp ==
  \A r \in Requests : pc[r] = "stats" =>
    /\ \A stats \in Stats : \A a, b \in FoundSet(r) :
         a.id \in DOMAIN stats /\ ~Before(a, b, FoundSet(r), stats) =>
           ~Before(a, b, FoundSet(r), [stats EXCEPT ![a.id].skips = @ + 1])
    /\ \A a, b \in FoundSet(r) :
         Before(a, b, FoundSet(r), <<>>) <=>
           (a.cosine > b.cosine \/ (a.cosine = b.cosine /\ a.id < b.id))
===============================================================================
