# Song Vibes Check: TLA+ models

These modules model the parts of Song Vibes Check in which goroutines, Redis,
MusicBrainz, Qdrant, Redpanda, browsers and a stopping server meet, and the
rules by which tags become scores: what tests can reach only by luck. TLC
checks them on small instances; TLAPS proves, for every value of the constants,
what can be proved of them. Paths below are relative to the repository (`src/`).

## The system

`cmd/server` is one Go process. It compares two songs by their MusicBrainz
tags, finds tracks that sound alike in Qdrant, and collects listening events
for Redpanda. A React client, a user service, a mood service, an offline
pipeline and an event laboratory stand around it.

| Component | State | Operations | Talks to | What makes it correct |
|---|---|---|---|---|
| flight group `internal/cache/flight.go` | the map of runs in progress; per run a waiter count, a cancel function, a result | `do`, `leave`, `run` | its callers through `done` channels and contexts | leavers never disturb stayers; one useful run per key; no stuck key, no leaked run |
| cache core `internal/cache/core.go`, `store.go` | `bypassUntil`; Redis' entries | `get`, `set`, `bypassed`, `fail`, `recovered` | Redis | only Redis' own failures open the bypass window, and the window closes |
| cached lookups `searcher.go`, `artists.go` | the two above | `SearchTrack`, `ArtistTags` | both, and the MusicBrainz client | only answers are stored; a useful answer has one writer; lookups return |
| MusicBrainz client `internal/provider/musicbrainz.go` | the rate limiter's slot: a time, or nothing | `SearchTrack`, `ArtistTags`, `getJSON`, `attempt`, `acquire`, `release` | MusicBrainz | one request at a time, every pause kept, no turn lost, failure is not absence |
| resolver `internal/provider/resolver.go` | none | `SearchTrack` | cached lookups | a thin answer beats none, no answer is not taken for one; the source is told as it is |
| tags and similarity `internal/tags`, `internal/similarity/weighted.go` | none after loading | `Normalize`, `Compare` | - | symmetric, bounded scores that depend on how votes are distributed only |
| compare handler `internal/api/handlers.go` | a deadline per request | `Compare` | resolver, similarity | the status names the failure, for whichever song and step it was |
| Qdrant client `internal/vectors` | an in-memory catalog and its age | `Similar`, `Search`, `loadCatalog` | Qdrant | an upload shows up in time; neighbours are exact; answers come by their deadline, or by that of whoever overtook them |
| reranking `internal/analytics`, `internal/api/rerank.go` | none | `Stats`, `Rerank` | ClickHouse, Qdrant client | statistics never fail an answer |
| event publisher `internal/events`, `internal/api/events.go` | `inflight`, `closed`, franz-go's queue | `Publish`, its callback, `Close` | Redpanda, `cmd/server` | bounded, counted, nothing accepted is lost silently |
| server `cmd/server/main.go` | how far the shutdown has got | `run` | all of the above | drains before it closes |
| web client `frontend/src` | the selected track, the session, the token, requests under way | `select`, `like`, `finish`; login, search | both services | each listening is told once; the page shows the user whose token it sends |
| user service `user-service` | users, histories, token buckets | register, login, history, rate limit | PostgreSQL | one account per address; the burst is the bound |
| event laboratory `lab-events` | generated sessions, ClickHouse tables | `nextTrack`, the transition view | Redpanda, ClickHouse | transitions are counted once |
| pipeline `pipeline` | none; fills Qdrant | `upload_to_qdrant` | Qdrant | what is half there does not stay with its readers |
| mood service `mood-service` | a loaded model | `analyze` | Genius | the order of early returns |

The hard behaviours are these. Callers join and leave a lookup while it
starts, ends or is torn down. A store operation is begun, answered and handled
at three different times, with other users in between. The turn at the rate
limiter is handed on by whoever gives it up. Requests race for the last place
of a buffer while the server closes it. Searches queue for a mutex behind a
slow refresh of the catalog, while the pipeline replaces what is being read. A
comparison makes up to four lookups under one context, each of which may fail
in its own way. Two registrations of an address both find it free. A page gets
an answer meant for the user before. `PROJECT.json` lists these hazards line by
line, with the properties that watch over each.

## The modules

| Module | Models |
|---|---|
| `SharedLookup` | what a flight group promises: callers of a key form a batch, a batch gets one answer |
| `FlightGroup` | `flight.go` in detail; implements `SharedLookup` |
| `FlightGroupProofs` | the proofs about `FlightGroup` |
| `CacheCore` | `core.go` over the store of `store.go` |
| `CachedLookup` | `searcher.go` and `artists.go`; composes `FlightGroup` and `CacheCore` |
| `MusicBrainz` | the client and rate limiter of `musicbrainz.go` |
| `MusicBrainzProofs` | the proofs about the rate limiter |
| `EventPublisher` | `redpanda.go`, `api/events.go` and the shutdown in `main.go` |
| `EventPublisherProofs` | the proofs about the publisher |
| `CacheCoreProofs`, `CachedLookupProofs` | the proofs about the cache: of the core, and of the composition from those of its two parts |
| `TrackMatching` | which recordings are the song, and what their tags add up to: the functions of `musicbrainz.go` |
| `TagProfiles` | `tags.go`, the profiles of `handlers.go`, the scores of `weighted.go` |
| `CompareRequests` | the handler of `POST /compare` and the resolver, over the two above |
| `CompareRequestsProofs` | the proofs about comparisons, and about the functions of those two |
| `Collection` | the Qdrant collection, and the upload of the pipeline that replaces it |
| `Rerank` | the order of `analytics/rerank.go` |
| `VectorRequests` | the two vector endpoints, the Qdrant client and its catalog, and the statistics, over the two above |
| `VectorRequestsProofs` | the proofs about deadlines, the catalog, the neighbours and their order |
| `Accounts` | the user service, and the pages signed in to it |
| `AccountsProofs` | the proofs about accounts, the limit on attempts and the pages |
| `MC*` | the instances TLC checks, with histories and stated expectations where a run needs them |

How state and actions correspond to the code:

* `FlightGroup`. `calls` and `waiters` are the fields of that name; `status`
  is where the goroutine of `run` is, `cancelled` whether `f.cancel` has been
  called. `Start` and `Join` are the locked section of `do`, `Deliver` and
  `GiveUp` its select, `Leave` is `leave`, `FnReturn` the return or panic of
  `fn`, `Free` and `Close` the two halves of the deferred function, around the
  unlock. A flight outlives its map entry, as in the code.
* `CacheCore`. `window` is `bypassUntil` counted from now. `BeginGet` and
  `BeginSet` are `get` and `set` up to the store call, `StoreAnswers` is that
  call, `Finish` what follows it, with `fail` or `recovered`. A write that
  timed out may have been performed.
* `CachedLookup` runs the actions of both through `INSTANCE`: callers read,
  flights write, and an operation's context is the caller's (`ended`) or the
  flight's (`cancelled`). `reply` is the upstream answer a run still has to
  store. `ArtistTags` is the instance without "not found".
* `MusicBrainz`. `slot` is the channel of capacity one: a time, or `Taken`.
  `Take`, `Send`, `StopQueueing` and `StopPausing` are the branches of the two
  selects of `acquire`, `Respond` is `attempt` up to its deferred `release`,
  `Retry` is `getJSON`, `SearchPlain`, `Outcome` and `Return` are the lookups.
* `EventPublisher`. `pc` walks a request through `PostEvent` and `Publish`,
  step by step where other goroutines can see the difference (`Add` and
  `TakeBack` are two); `phase` walks the main goroutine through `run`, its
  deferred `closeEvents` and `Close`. The read lock is `Readers`; a writer that
  waits keeps new readers out (phase `locking`).

* `CompareRequests`. `pc` is the lookup the request is at; `TrackAnswers` is
  all of `Client.SearchTrack`'s answer and what the resolver and the handler do
  with it (`Resolved` is the rest of `lookup`, and after the second song the
  rest of `Compare`), `ArtistAnswers` and `ArtistFails` the same for the
  artist's tags. MusicBrainz answers a search with one page, and which
  recordings are on it and in which order is its own choice each time
  (`Pages`, with the two page sizes `TaggedLimit` and `PlainLimit`). How a
  lookup comes to fail is in `MusicBrainz`; here it fails in each way it can
  (`Failures`), which include the HTTP client's own timeout, an error that is
  `context.DeadlineExceeded` as well. `log` is a history of what was asked.
* `TrackMatching` and `TagProfiles` have no state. Names are sequences of
  words; a tag is one of a set of spellings whose lower-case and cleaned forms
  are parameters. Weights are kept over a common denominator and scores are
  fractions, so nothing is rounded.
* `VectorRequests`. `catalog` and `refreshAt` are the fields of `Qdrant`;
  `pc` says what a request waits for: the catalog's mutex, one of the requests
  to Qdrant, or ClickHouse. `UseCatalog`, `BeginScroll`, `ScrollPage` and
  `ScrollFails` are `loadCatalog` with `scrollAll`; `RetrieveAnswers`,
  `QueryAnswers` and `PostFails` are `Similar`, called once or twice by
  `similar`; `StatsAnswers` and `StatsFail` are the end of `similarReranked`.
  Time is explicit: `now` is a clock, `deadline` the end of a request's
  context, and `Tick` may only pass while whatever is due has been dealt with.
  Between ticks any number of steps are taken, so computing costs no time and
  only waiting does. The mutex goes to one that has waited longest or to one
  that has come in the present tick (`Turn`): goroutines queue for a
  `sync.Mutex`, but one that locks it while it is free takes it, although those
  in the queue have been woken for it. `until` is a history of how far a request
  has been overtaken. Points are tagged with the upload they are from (`gen`),
  so that a copy of an earlier one can be told apart.
* `Accounts`. A place in `srv` is a goroutine of the service or the answer on
  its way back; `RateLimit`, `Lookup`, `Create` and `Authenticated` are the
  sections of the handlers between which other requests come in, and
  `DatabaseFails` ends any of them, whether or not the database had done what
  it was asked to. `tokens` of a bucket are counted in `Unit`s, as fractions of
  a token are floating point in the code. On the page, `SignedIn` is `login`
  and `register`, `Profile` is `loadProfile`, `Load` a new page. Requests go on
  when their page is loaded again or when `fetch` gives up, and nobody hears of
  it. `crossed` remembers that a profile asked for with another token has been
  taken for that of the present one; `window` is somebody who counts attempts.

Operators marked "Bug:" are plausible mistakes in the code. The models do not
use them; `PROJECT.json` pairs each with the property that must fail if it
replaced the definition after it.

## The runs

| Run | Shows | Size |
|---|---|---|
| `flights` | stayers undisturbed, one useful run, the map right, the inductive invariant; `FlightGroup` implements `SharedLookup`; calls return and runs end | 3 callers, 1 key, 2 flights |
| `cache_core` | who opens the bypass window, and that a repaired store is used again | 2 users, 1 key |
| `cache_outage` | *violated:* an outage costs one timeout per cooldown | 2 users, 1 key |
| `lookups` | one useful writer per key, only answers stored, the flight group is used as it allows, lookups return | 2 callers, 1 key, 2 flights |
| `lookup_calm` | *violated:* concurrent misses share one upstream lookup | 2 callers, 2 flights |
| `musicbrainz` | one turn, pauses kept, honest results; lookups return and leave the queue when told to | 2 lookups |
| `events` | the bound, the inductive invariant, what a 202 promises, the order of the shutdown; a server told to stop stops | 4 requests, 2 places |
| `events_full` | *violated:* "buffer full" means the buffer is full | 3 requests, 1 place |
| `vectors` | a request that waits for the mutex is answered by its deadline, or by that of the last to overtake it; an upload shows up in time, neighbours are exact with and without a second search or a rerank, skips never help a track | 2 requests, 3 tracks, 1 upload in 2 batches, 4 ticks |
| `compare` | the status tells what happened, sources and lists tell where tags are from, a song is itself whatever pages and orders it is answered in, scores are relative, the inductive invariant | each pair of 6 songs, pages of 4 and 2 |
| `compare_thin` | *violated:* a thin answer beats none as long as the request goes on | as `compare` |
| `accounts` | one account per address, attempts bounded from whatever moment one counts, a page shows and saves for the user whose token it sends, the inductive invariant | 1 page, 2 requests, 2 addresses, 2 passwords |

### What the violated runs show

* `cache_outage`. `core.go:68-69` promises one timeout per cooldown. A read
  Redis answered just before it went down, handled after another operation has
  opened the window, closes it again (`recovered`, `core.go:134`).
* `lookup_calm`. `searcher.go:23-24` says that concurrent misses share one
  upstream lookup. The cache is not read again inside the shared function, so
  a miss that reaches `do` after the other's run has ended starts another.
* `events_full`. `events.go:38` says that `ErrBufferFull` means the queue is
  full. `Publish` counts before it compares: an event that is about to be
  turned away is counted for a moment and can turn away another one.
* `compare_thin`. `resolver_test.go:116` keeps the recording tags when the
  artist's lookup fails ("A thin answer beats none", `resolver.go:71`), unless
  the request was abandoned (`resolver_test.go:130`). The code makes that
  exception for every `context.DeadlineExceeded`, which the HTTP client's own
  timeout is as well: the comparison is answered 502 although the request has
  time left and the song has tags.

### Bounds, and why they are enough

* `FlightGroup`: three callers are the fewest with which one leaves, one stays
  and one arrives; two flights allow a run that was torn down and is still
  executing next to the one that replaced it. Keys do not interact, so one is
  checked; that they do not mix is part of what is proved. The number of
  flights is the only bound on the length of a behaviour: a call is made
  (`Call`) only while there is an unused flight for every caller on its way in
  (`Entering`, `Unused`), so nobody is stuck for the bound's sake. The theorems
  hold for any number of callers, keys and flights.
* `CacheCore`: two users race on one key. Time is kept as ticks left, so it is
  finite without a bound; TTLs of 1 and 2 and a cooldown of 2 make an entry
  expire before and with a window.
* `CachedLookup`: two callers of one track, two flights, one kind of track
  that is found, TTLs and cooldown of one tick. What differs between the kinds
  of content is only how long they are kept. `Room` keeps a flight for every
  reader, as in `FlightGroup`.
* `MusicBrainz`: two lookups, an interval of 1, a cap of 2 and a Retry-After
  that is absent or 3, over the cap. A third lookup would only queue, which has
  no effect on the others. `sinceEnd` counts up to `Longest`, beyond which no
  pause is due.
* `EventPublisher`: four requests for two places, so that two can be rejected
  at once; one place and three requests show the violated expectation.

* `VectorRequests`: two requests are a refresh and one that waits for it, and
  that the next to come in the place of the first may overtake, or a search next
  to a similar request; similar requests share nothing they change,
  so one at a time is checked (`MaxSimilar`). Three tracks on pages of two take
  two pages and two batches, so that a page, and a request, may fall between
  the deletion, the creation and each batch. One artist has the track nearest
  to its own, so that leaving the artist out takes the second search. Four
  ticks (`MaxTime`) cover an upload, the time a copy is kept and the longest a
  refresh takes. Statistics (`MCStats`) are none, of one candidate, of two, and
  with more skips than one play.
* `CompareRequests`: six songs meet every branch: recordings to choose from
  with votes that tie, too few tags, recordings without tags, tags that are all
  ignored, an artist that is not identified, and no match. With pages of four
  recordings with tags and two of all (`TaggedLimit`, `PlainLimit`), the song
  with four recordings and no tags is answered with any two of them, by either
  of two artists of one name; the other songs have tags that fit, or fit
  themselves. A duration has 34 units of a quarter of a second, so that some of
  the headers in `MCRetryAfters` wrap around to less than none and one to half a
  second.
* `Accounts`: two requests are the fewest that cross: two registrations, a
  profile and a login, two attempts for one token of the bucket. Burst, rate
  and the life of a token are such that a bucket is empty, refilled beyond its
  burst within a tick, and a token expires while a request carries it. A second
  page would share no state with the first but the users, whom two requests of
  one page reach as well. The proofs hold for any of these numbers.

### Fairness

The specification of each run states that goroutines are scheduled (weak
fairness of the steps of a caller, a run, a handler, the main goroutine). What
a liveness property needs beyond that is a premise of the property, so that one
run can check it under either assumption.

* `FlightGroup`: `FnReturns` lets `fn` return, which the HTTP client's timeout
  guarantees. `FnStopsWhenTold` does not, and `ContextsEnd` lets callers'
  contexts end instead, which `handlers.go:126` guarantees; a run then ends
  only once it is cancelled (`AbandonedRunEnds`).
* `CacheCore`: store operations end, because `OpTimeout` bounds each
  (`core.go:127`, `143`), and time passes.
* `CachedLookup`: upstream may hang until it is cancelled; a caller's context
  ends.
* `MusicBrainz`: `FairSpec` only has that a lookup that can give up does.
  `RequestsEnd`, the premise of `LookupsReturn`, adds that requests time out,
  that time passes, and strong fairness of `Take`: Go serves the goroutines
  blocked on a channel in the order they came.
* `EventPublisher`: a record is delivered or given up
  (`RecordDeliveryTimeout`, `redpanda.go:64`), and `srv.Shutdown` and
  `client.Flush` have deadlines (`main.go:105`, `259`). The signal itself is
  not assumed.

* `VectorRequests`, `CompareRequests` and `Accounts` have safety properties
  only and assume no fairness. That a request is answered is stated there with
  the clock (`AnsweredInTime`): time cannot pass the deadline of whoever waits
  for Qdrant or ClickHouse. What stands behind it is that every such wait ends
  with the request's context or earlier (`qdrant.go:76`, `251`). The wait for
  the mutex ends with nothing but the mutex, so a search may be answered after
  its deadline; the property says by how much.

No fairness is assumed of a caller that goes away, of Redis failing or being
repaired, or of the server being told to stop. Runs that may really come to a
stop (the bounded supply of flights or requests is used up, or the server has
exited) switch TLC's deadlock check off; the others, which never stop, keep it.

## The proofs

All proofs are checked by TLAPS without any assumption but the ones the
modules state of their constants.

`FlightGroupProofs` assumes that the set of callers is finite and that "none"
and "canceled" are not answers. The invariants of interest are not inductive:
that a run somebody waits for is not cancelled rests on the waiter counter
being the number of callers attached, and that in turn on callers being
attached only to runs of the key they asked for, on a run's entry in the map
being its own, and on nobody being able to join a run that is over. `IInv` is
the conjunction of the types and these four parts (`CallersConsistent`,
`FlightsConsistent`, `MapConsistent`, `WaitersCounted`); TLC checks it in
`flights`. One lemma per action shows that it is preserved; the lemmas
`OneMore` and `OneLess` say what attaching and detaching do to the number of
attached callers. From it follow `TypeOK`, `StayersUndisturbed`,
`OneUsefulRun`, `MapHoldsUsefulRuns`, `WaitersCounted` and the refinement of
`SharedLookup` (`FlightGroupSharesLookups`): `Start` forms a batch, `Join`
joins, `FnReturn` answers, `Free` retires, `Deliver` and `Leave` are
themselves, the rest stutters.

`MusicBrainzProofs` assumes that the interval is not zero and that `Taken` is
not a time. That every request keeps the pause due (`PausesKept`) is about the
moment a request starts; what makes it inductive is `PauseDue`: the ticks since
the last request ended and the ticks left of the pause, whether these are in
the slot or with the holder of the turn, add up to at least what is due. A
pause is neither lost when its holder gives up (`StopPausingStep`) nor
overtaken, because nobody else can hold the turn (`OneTurn`). That no pause is
longer than the cap (`PauseBounded`) needs the same invariant. `ResultsHonest` rests on `RepliesFit`: an attempt
that never had its turn belongs to a lookup whose context has ended.

`EventPublisherProofs` assumes that requests are finitely many and the limit is
not zero. `InflightCounts` is the heart of it: the counter is the number of
queued events and of requests counted in. Since what is queued or about to be
(`Placed`) is no more than that (`PlacedCounted`), a request that finds room in
the counter finds room in the buffer (`AddStep`), without a lock around the
comparison. `RequestsConsistent` relates a request's event and answer to where
it is; `ClosedConsistent` says that once the publisher is closed no reader is
left, which is why nothing is queued behind the flush, and that a graceful
shutdown has left no request under way.

`CacheCoreProofs` rests on two facts. `WritesKept`: nothing is being written
that is not to be kept, so that every entry has time left. `CtxMeansGone`: an
operation that ended with its context belongs to a user who is gone, so that
`fail` does not blame the store for it (`OnlyTheStoreOpensTheWindow`).

`CachedLookupProofs` composes. It takes the modules of proofs about the two
parts through `INSTANCE`, as `CachedLookup` takes the parts, and shows of every
action that it is a step of the flight group or leaves it alone (`GroupStep`),
and the same of the cache core (`CoreStepped`); the invariants of both then
hold without being proved again. What is new is `OpsFit`: a caller reads before
it joins, and a run writes the answer it was given, under its own key, while
its function is still running. With `MapConsistent` of the flight group this
gives `OneUsefulWriter`, and with the core's actions `OnlyAnswersStored`.
`UsesFlightGroup` carries every theorem about `FlightGroup` over to the lookups.

`VectorRequestsProofs` has four parts, for any number of requests, tracks,
pages and ticks. The invariant `IInv` has one conjunct for each of the first
three; the fourth is about the order alone.

* `MutexInv`: how late an answer can be. A request that refreshes the catalog
  is stopped by its own context, but those behind it watch nothing while they
  wait. They are safe from the one in front if it came no later, as its deadline
  is then no later than theirs; if it came later and took the mutex before
  them, theirs is put off to its deadline (`until`), which is at most `Timeout`
  from then. So `AnsweredInTime` gives each request its own deadline if nobody
  overtakes it, and the last overtaker's otherwise; nothing bounds how often it
  may be overtaken. `PartInv` is the same cut into what concerns one request,
  two of them, and the tables.
* `CopyInv`: `RerunShowsUp`. A scroll has read either all points below its
  offset as they are now, or it is to end, and the copy it makes to be thrown
  away, by `dueBy`; so is a copy that is not the collection's. The pages of a
  scroll are put together from the smallest of a set of ids (`SmallestOf`). The
  theorem has the premise that the collection fits the copy
  (`Cardinality(Ids) <= MaxCatalogSize`): beyond the cap the code gives up on
  the rest of the collection on purpose, which `qdrant.go:26-28` has for
  collections "much larger than expected".
* `SimilarInv`: `NeighborsExact`. What a request keeps while it waits for the
  statistics begins with the neighbours it is to give without them. The proof
  rests on lemmas about the operators: what `Nearest` ranks is sorted and has
  no track twice, a shorter search is the beginning of a longer one, and taking
  out an artist keeps the order of the rest. That the second search is made
  just when it is needed, and is then long enough, follows from these.
* `SkipsNeverHelp`. One more skip lowers the average that every candidate is
  measured by, so it could have taken the skipped track past another one. It
  does not: the average is a sum of fractions, a skip changes one of them
  (`OneLess`), the smoothed rate of the track that is skipped falls at least as
  much as that of any other (`FallsMost`), and so it goes past none of them
  (`BeforeKept`). The counts are assumed to be unsigned 64-bit numbers, as the
  code reads them from ClickHouse.

`CompareRequestsProofs` assumes of MusicBrainz' answers only what the decoder
of the code guarantees: recordings are finitely many, told apart by their ids,
with tags of the shape of `tagEntry`. `IInv` has the types, `LookupInv`, which
ties what has been asked (`log`) to where the request is, and `SidesInv`, which
says of each side that is there which of the lookups it is made of: the
recordings' tags alone, as they are enough; those alone, as the artist has
failed; or the two. `FailuresTold` is a part of `LookupInv`; `SourcesTruthful`
reads off `SidesInv` where a side's tags came from. `SelfSimilar` needs that
what `Track` gives does not depend on the pages where these hold all there is:
two orders of the same recordings, sorted by votes and then ids, are the same
sequence (`TracksOfSong`). That gives the tags whenever the recordings with tags
fit their page, and the whole track if there are any or if all recordings fit
theirs. `ScoresRelative` triples the votes of one list of tags. If each of its
tags has a vote, each weight of the list is tripled (`TripledVotes`), and the
profile, in which a list counts relative to its total, stays as it is or is
tripled as a whole (`TripledProfile`); either leaves the score as it is, as both
sums of the weighted Jaccard index can be taken apart tag by tag.

Both modules need induction, over sums, ranks and the places of a sequence. The
library's induction theorems take the formula as an operator, which the provers
at hand cannot instantiate; each of these inductions is therefore about the set
of numbers for which a lemma holds, and ends with a smallest number that is not
in it (`NatLessThanWellFounded`, `WFMin`). This is also why sorting, filtering
and summing are written with `Sorted`, `Part` and `Sum`, whose definitions the
provers can expand, rather than with operators of the community modules that
recurse.

`AccountsProofs` falls in two. The limit on attempts (`AttemptsBounded`) needs
`BucketsOK` only: the attempts let through since a window was opened, and what
is left in the bucket, are no more than the burst and what the time to the last
attempt has earned. The accounts need the rest of `IInv`: ids are given out in
turn (`UsersNumbered`), so that a new one is not in use; and whatever token a
page or a request has is of a user in the table (`TokensKnown`), so that the
name shown, the token sent and the history saved to belong together, unless the
page has taken a late answer for its own (`crossed`).

Every invariant and every action property of the passing runs is stated by a
theorem. Only model-checked is what needs fairness (`EveryCallReturns`,
`EveryRunEnds`, `AbandonedRunEnds`, `RepairedStoreUsedAgain`, `LookupReturns`,
`LookupsReturn`, `LeavesQueue`, `Stops`), since the provers at hand do not do
ENABLED, and the runs that show a violation, which are about one behaviour each.

## What the models leave out

Behaviours of the modelled parts that a reader might miss:

* A comparison that `resolver.go:70` fails for the HTTP client's timeout
  (`compare_thin`) is told as "unavailable", not as late (`FailuresTold`).
* `README.md:419` calls `REQUEST_TIMEOUT` the limit on handling a request
  («общий таймаут обработки запроса»). A search that waits for the catalog's
  mutex does not watch it (`qdrant.go:194`): each newcomer that takes the mutex
  first and refreshes against a Qdrant that hangs puts it off to its own
  deadline.
* `plainLimit` (`musicbrainz.go:35`) recordings of a song are a page of all, and
  which they are differs from call to call. Sorting by id (`musicbrainz.go:216`)
  names the same recording only if all fit. A song none of whose recordings has
  tags, with more of them, may be given another id, or another artist of the
  same name and that artist's tags, the second time; `SelfSimilar` leaves this
  out by its premises.
* A tag without votes counts as one vote (`handlers.go:278`), so multiplying the
  votes of a list that has such a tag changes the score. `ScoresRelative` is
  about lists without one.
* `README.md:417` says that `CACHE_NEGATIVE_TTL` is for "no tags" as well («для
  «не найдено» и «нет тегов»»). The code keeps a track without tags for
  `LowDataTTL` (`searcher.go:89`), as `TTL` in `CachedLookup` does.
* A run that was abandoned but goes on may store its answer after the one that
  replaced it (`OneUsefulWriter` says only that one of them is of use). Either
  is an answer upstream gave to that key (`OnlyAnswersStored`).
* A refresh of the catalog ends when the client it is made for leaves, and
  then counts as failed for everybody for the retry delay (`qdrant.go:201`).
  `RerunShowsUp` therefore allows a delay for each refresh that fails.
* `loadProfile` of `useAuth.jsx` does not look whose answer it gets: after a
  login it may show the user before, or sign the new one out. `ShownIsSignedIn`
  is about pages to which that has not happened (`crossed`).
* GetMe's 404 is never given: users are not deleted. Ids come from a sequence,
  which may skip some; here it does not. The second run of an effect under
  React's strict mode, and several pages sharing one browser's storage, are
  left out.

Parts left out:

* `CompareGenres` (`internal/similarity/genre.go`) is called by its tests only.
* The listening session (`frontend/src/services/listening.js`) is one object
  in one thread with three short methods; a model would restate them. What
  becomes of the events is in `EventPublisher`.
* The event laboratory is a load generator, a table schema and an offline
  evaluation, run by hand; its only tie to the server is the topic.
* The rest of the pipeline is numerical batch work with files between its
  steps.
* The mood service keeps nothing between requests but a model it has loaded
  at its start; what it does with one is a sequence of early returns.
* Router, middleware, metrics and logging have no state of their own that an
  answer depends on; reading the configuration is done once.
* Listing a history only reads. Password hashing and token signing are taken to
  do what they promise, JSON and HTTP encodings to be faithful, floating point
  to be exact.
