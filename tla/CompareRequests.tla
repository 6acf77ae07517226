---------------------------- MODULE CompareRequests ----------------------------
(***************************************************************************)
(* POST /compare (internal/api/handlers.go) over the Resolver (internal/   *)
(* provider/resolver.go): the lookups of two songs, one after the other    *)
(* under one context, each a track and, if its tags are too few, the       *)
(* artist's tags.  A lookup is answered or fails; how the cache and the    *)
(* MusicBrainz client come to that is in CachedLookup and MusicBrainz.     *)
(* Requests share nothing here, so there is one at a time.                 *)
(***************************************************************************)
EXTENDS TagProfiles

CONSTANTS
  Songs,         \* the songs that are asked for
  NoSong,        \* a song whose artist or title is missing
  ArtistAsked,   \* the artist named with each song
  Recordings,    \* what MusicBrainz has for each song
  Artists,       \* what MusicBrainz has for each artist, by MBID
  TaggedLimit,   \* the size of a page of recordings with tags
  PlainLimit,    \* the size of a page of recordings
  MinRecordingTags,
  LowDataTags,
  RetryAfters,   \* the Retry-After headers MusicBrainz may send
  Second,        \* the units of a time.Duration in a second
  Word,          \* a time.Duration wraps around at Word / 2
  DefaultRetryAfter, MaxRetryAfter

TagEntries == Seq([name : DOMAIN Lower, count : Int])

ASSUME CompareAssumption ==
  /\ NoSong \notin Songs
  /\ \A s \in Songs :
       /\ IsFiniteSet(Recordings[s])
       /\ \A r \in Recordings[s] : r.id \in Int /\ r.tags \in TagEntries /\ r.genres \in TagEntries
       /\ \A r, q \in Recordings[s] : r.id = q.id => r = q
  /\ \A a \in DOMAIN Artists : Artists[a].tags \in TagEntries /\ Artists[a].genres \in TagEntries
  /\ \A h \in RetryAfters : h.kind \in {"absent", "seconds", "date"} /\ h.n \in Int
  /\ {TaggedLimit, PlainLimit, MinRecordingTags, LowDataTags, Second, Word,
      DefaultRetryAfter, MaxRetryAfter} \subseteq Nat \ {0}
  /\ DefaultRetryAfter % Second = 0 /\ MaxRetryAfter % Second = 0
  /\ DefaultRetryAfter <= MaxRetryAfter /\ MaxRetryAfter < Word \div 2

VARIABLES
  pc,        \* "idle", at the "track" or the "artist" lookup, or "answered"
  request,   \* the songs of the request
  field,     \* which one is looked up
  ctx,       \* the context of the request: "live", "canceled" or "expired"
  found,     \* the track the resolver has, while it asks for the artist's tags
  sides,     \* the tracks that are resolved
  answer,
  log        \* history: what each lookup of the request has come to

vars == <<pc, request, field, ctx, found, sides, answer, log>>

Fields   == {"song_a", "song_b"}
NoTrack  == [source |-> "none"]
NoSides  == [f \in Fields |-> NoTrack]
NoAnswer == [status |-> 0]
Entries  == [field   : Fields,
             step    : {"track", "artist"},
             outcome : {"found", "not found", "network", "status", "deadline", "canceled"}]

TypeOK ==
  /\ pc \in {"idle", "track", "artist", "answered"}
  /\ request \in [Fields -> Songs \cup {NoSong}]
  /\ field \in Fields
  /\ ctx \in {"live", "canceled", "expired"}
  /\ pc = "artist" => found.artistID # ""
  /\ DOMAIN sides = Fields
  /\ answer.status \in {0, 200, 400, 404, 422, 499, 502}
  /\ answer.status # 0 <=> pc = "answered"
  /\ log \in Seq(Entries)

Init ==
  /\ pc = "idle"
  /\ request = [f \in Fields |-> NoSong]
  /\ field = "song_a"
  /\ ctx = "live"
  /\ found = NoTrack
  /\ sides = NoSides
  /\ answer = NoAnswer
  /\ log = <<>>

Song == request[field]

Answer(a) ==
  /\ pc' = "answered"
  /\ answer' = a

-------------------------------------------------------------------------------
\* The request.

Malformed ==
  /\ pc = "idle"
  /\ Answer([status |-> 400, song |-> "none"])
  /\ UNCHANGED <<request, field, ctx, found, sides, log>>

Arrive(a, b) ==
  /\ pc = "idle"
  /\ request' = [song_a |-> a, song_b |-> b]
  /\ IF a = NoSong THEN Answer([status |-> 400, song |-> "song_a"])
     ELSE IF b = NoSong THEN Answer([status |-> 400, song |-> "song_b"])
     ELSE pc' = "track" /\ UNCHANGED answer
  /\ UNCHANGED <<field, ctx, found, sides, log>>

\* The client leaves or the time for the request is over, whichever is first.
CtxEnds ==
  /\ pc \in {"track", "artist"}
  /\ ctx = "live"
  /\ ctx' \in {"canceled", "expired"}
  /\ UNCHANGED <<pc, request, field, found, sides, answer, log>>

-------------------------------------------------------------------------------
\* What a lookup may fail with.

Wrap(d) == ((d + Word \div 2) % Word) - Word \div 2

ParseRetryAfter(header) ==
  CASE header.kind = "absent"  -> 0
    [] header.kind = "seconds" -> IF header.n < 0 THEN 0 ELSE Wrap(header.n * Second)
    [] header.kind = "date"    -> Max({header.n, 0})

Failure(is, retryAfter) == [is |-> is, retryAfter |-> retryAfter]

Failures ==
  {Failure("network", 0)}
    \cup {Failure("status", ParseRetryAfter(h)) : h \in RetryAfters}
    \* the HTTP client's own timeout, which is a DeadlineExceeded as well
    \cup {Failure("deadline", 0)}
    \cup IF ctx = "canceled" THEN {Failure("canceled", 0)} ELSE {}

RetryAfterSeconds(d) == (d + Second - 1) \div Second

UnavailableFor(err) ==
  IF err.retryAfter > 0 THEN Min({err.retryAfter, MaxRetryAfter}) ELSE DefaultRetryAfter

Problem(status, why, retryAfter) ==
  [status |-> status, song |-> field, why |-> why, retryAfter |-> RetryAfterSeconds(retryAfter)]

LookupError(err) ==
  IF err.is = "canceled" /\ ctx = "canceled" THEN Problem(499, "canceled", 0)
  ELSE IF err.is = "deadline" /\ ctx = "expired" THEN Problem(502, "late", DefaultRetryAfter)
  ELSE Problem(502, "unavailable", UnavailableFor(err))

Logged(step, outcome) == log' = Append(log, [field |-> field, step |-> step, outcome |-> outcome])

-------------------------------------------------------------------------------
\* A song's track and its artist's tags.

\* Bug: tags count as usable though they normalise to the same or to nothing.
Usable_Raw(tags) == Len(tags)

Usable(tags) == Len(NormalizeAll(TagNames(tags)))

Tags(side) == Distinct(TagNames(side.recordingTags) \o TagNames(side.artistTags))

\* The answer to a comparison of two resolved tracks.
Compared(both) ==
  LET profile == [f \in Fields |-> Profile(both[f])]
  IN  [status  |-> 200,
       result  |-> Compare(profile["song_a"], profile["song_b"]),
       tags    |-> [f \in Fields |-> Tags(both[f])],
       source  |-> [f \in Fields |-> both[f].source],
       lowData |-> \E f \in Fields : Cardinality(DOMAIN profile[f]) < LowDataTags]

\* The resolver is done with a track: the rest of lookup, and of the request.
Resolved(track, source) ==
  LET side == [track EXCEPT !.source = source]
  IN  /\ found' = NoTrack
      /\ IF DOMAIN Profile(side) = {}
         THEN /\ Answer(Problem(422, "no usable tags", 0))
              /\ UNCHANGED <<field, sides>>
         ELSE /\ sides' = [sides EXCEPT ![field] = side]
              /\ IF field = "song_a"
                 THEN /\ field' = "song_b"
                      /\ pc' = "track"
                      /\ UNCHANGED answer
                 ELSE /\ Answer(Compared(sides'))
                      /\ UNCHANGED field

Failed(a) ==
  /\ Answer(a)
  /\ found' = NoTrack
  /\ UNCHANGED <<field, sides>>

Thin(tags) == IF Usable(tags) > 0 THEN "recording" ELSE ""

\* MusicBrainz answers a search with one page.  What is on it, if not everything
\* is, and in which order is its own choice each time.
Pages(recordings, limit) ==
  UNION {SetToSeqs(page) : page \in kSubset(Min({Cardinality(recordings), limit}), recordings)}

\* Bug: the artist's tags are asked for though the artist is not known.
Settled_Unidentified(track) == Usable(track.recordingTags) >= MinRecordingTags

Settled(track) == Usable(track.recordingTags) >= MinRecordingTags \/ track.artistID = ""

TaggedRecordings(song) == {r \in Recordings[song] : HasTags(r)}

\* What the track of a song may be.
Tracks(song) ==
  {Track(MatchingRecordings(tagged, ArtistAsked[song]), MatchingRecordings(plain, ArtistAsked[song])) :
     tagged \in Pages(TaggedRecordings(song), TaggedLimit),
     plain \in Pages(Recordings[song], PlainLimit)}

TrackAnswers ==
  /\ pc = "track"
  /\ \E track \in Tracks(Song) :
       IF track = NotFound
       THEN /\ Failed(Problem(404, "not found", 0))
            /\ Logged("track", "not found")
       ELSE /\ Logged("track", "found")
            /\ IF Settled(track)
               THEN Resolved(track, Thin(track.recordingTags))
               ELSE /\ pc' = "artist"
                    /\ found' = track
                    /\ UNCHANGED <<field, sides, answer>>
  /\ UNCHANGED <<request, ctx>>

TrackFails ==
  /\ pc = "track"
  /\ \E err \in Failures : Failed(LookupError(err)) /\ Logged("track", err.is)
  /\ UNCHANGED <<request, ctx>>

\* An artist MusicBrainz does not know has no tags.
ArtistTags(id) == IF id \in DOMAIN Artists THEN TagsOfArtist(Artists[id]) ELSE <<>>

ArtistAnswers ==
  /\ pc = "artist"
  /\ Logged("artist", "found")
  /\ LET tags == ArtistTags(found.artistID)
     IN  IF Usable(tags) = 0 THEN Resolved(found, Thin(found.recordingTags))
         ELSE Resolved([found EXCEPT !.artistTags = tags],
                       IF Usable(found.recordingTags) > 0 THEN "mixed" ELSE "artist")
  /\ UNCHANGED <<request, ctx>>

\* Bug: what the recordings have is kept though it is nothing.
KeepsThin_Nothing(err) == err.is \notin {"canceled", "deadline"}

KeepsThin(err) == Usable(found.recordingTags) > 0 /\ err.is \notin {"canceled", "deadline"}

ArtistFails ==
  /\ pc = "artist"
  /\ \E err \in Failures :
       /\ Logged("artist", err.is)
       /\ IF KeepsThin(err) THEN Resolved(found, Thin(found.recordingTags))
          ELSE Failed(LookupError(err))
  /\ UNCHANGED <<request, ctx>>

\* The handler returns; the next request starts from nothing.
Return ==
  /\ pc = "answered"
  /\ pc' = "idle"
  /\ request' = [f \in Fields |-> NoSong]
  /\ field' = "song_a"
  /\ ctx' = "live"
  /\ sides' = NoSides
  /\ answer' = NoAnswer
  /\ log' = <<>>
  /\ UNCHANGED found

Next ==
  \/ Malformed
  \/ \E a, b \in Songs \cup {NoSong} : Arrive(a, b)
  \/ CtxEnds
  \/ TrackAnswers \/ TrackFails
  \/ ArtistAnswers \/ ArtistFails
  \/ Return

Spec == Init /\ [][Next]_vars
-------------------------------------------------------------------------------
\* What a client is told of a failure is what happened: "not found" and "no
\* usable tags" only when MusicBrainz has answered all that was asked of it for
\* that song, "late" and "closed" only when the request itself has ended, and
\* "unavailable" with a delay of one to MaxRetryAfter seconds whatever the
\* Retry-After it was sent.  The second song is not looked up after the first
\* has failed, and nothing is compared of which a track is missing.
FailuresTold ==
  LET told(outcomes) ==
        log # <<>> /\ Last(log).field = answer.song /\ Last(log).outcome \in outcomes
  IN  /\ answer.status = 404 => told({"not found"})
      /\ answer.status = 422 =>
           /\ told({"found"})
           /\ \A i \in DOMAIN log : log[i].field = answer.song => log[i].outcome = "found"
      /\ answer.status = 499 => told({"canceled"}) /\ ctx = "canceled"
      /\ answer.status = 502 =>
           /\ told({"network", "status", "deadline", "canceled"})
           /\ answer.why = "late" => ctx = "expired"
           /\ answer.retryAfter \in 1..(MaxRetryAfter \div Second)
      /\ answer.status \in {404, 422, 499, 502} /\ answer.song = "song_a" =>
           \A i \in DOMAIN log : log[i].field = "song_a"
      /\ answer.status = 200 =>
           \A f \in Fields : [field |-> f, step |-> "track", outcome |-> "found"] \in Range(log)

\* What makes it so: what the lookups of the request have come to so far.
LookupInv ==
  LET have(f) == [field |-> f, step |-> "track", outcome |-> "found"]
  IN  /\ pc = "idle" => log = <<>> /\ field = "song_a" /\ sides = NoSides
      /\ field = "song_a" => \A i \in DOMAIN log : log[i].field = "song_a"
      /\ field = "song_b" => have("song_a") \in Range(log)
      /\ pc = "track" => \A i \in DOMAIN log : log[i].field # field
      /\ pc = "artist" => /\ log # <<>> /\ Last(log) = have(field)
                          /\ \A i \in DOMAIN log : log[i].field = field => log[i] = have(field)
      /\ FailuresTold

\* Where the tags are said to come from is where they do: artist tags are left
\* out only when the recordings have enough, when the artist has none or when
\* they could not be had.  The tags that are listed are those the scores rest
\* on, and low_data says whether either song has too few of them.
SourcesTruthful ==
  answer.status = 200 =>
    LET listed(f) == {Normalize(n) : n \in Range(answer.tags[f])} \ {""}
        rec(f)    == Range(NormalizeAll(TagNames(sides[f].recordingTags)))
        known(f)  == IF sides[f].artistID \in DOMAIN Artists
                     THEN Range(NormalizeAll(TagNames(TagsOfArtist(Artists[sides[f].artistID])))) ELSE {}
        asked(f)  == \E i \in DOMAIN log : log[i].field = f /\ log[i].step = "artist"
        failed(f) == \E i \in DOMAIN log : log[i].field = f /\ log[i].outcome # "found"
        artist(f) == IF asked(f) /\ ~failed(f) THEN known(f) ELSE {}
    IN  /\ \A f \in Fields :
             /\ listed(f) = rec(f) \cup artist(f)
             /\ asked(f) <=> Cardinality(rec(f)) < MinRecordingTags /\ sides[f].artistID # ""
             /\ answer.source[f] =
                  CASE artist(f) = {} -> "recording"
                    [] artist(f) # {} /\ rec(f) = {}  -> "artist"
                    [] artist(f) # {} /\ rec(f) # {} -> "mixed"
        /\ Range(answer.result.shared) = listed("song_a") \cap listed("song_b")
        /\ Range(answer.result.onlyA) = listed("song_a") \ listed("song_b")
        /\ Range(answer.result.onlyB) = listed("song_b") \ listed("song_a")
        /\ answer.lowData <=> \E f \in Fields : Cardinality(listed(f)) < LowDataTags

\* What makes it so: where the track of each side comes from.  Its artist's tags
\* were not asked for, they were, or they were in vain.
SideInv(f) ==
  LET asked(outcomes) == \E i \in DOMAIN log :
        log[i].field = f /\ log[i].step = "artist" /\ log[i].outcome \in outcomes
      thin(t) == [t EXCEPT !.source = Thin(t.recordingTags)]
      full(t) == [t EXCEPT !.artistTags = ArtistTags(t.artistID),
                           !.source = IF Usable(t.recordingTags) > 0 THEN "mixed" ELSE "artist"]
      failed  == \E i \in DOMAIN log : log[i].field = f /\ log[i].outcome # "found"
  IN  /\ DOMAIN Profile(sides[f]) # {}
      /\ \E t \in Tracks(request[f]) \ {NotFound} :
           \/ Settled(t) /\ ~asked({"found"}) /\ ~failed /\ sides[f] = thin(t)
           \/ ~Settled(t) /\ Usable(t.recordingTags) > 0 /\ asked({"network", "status"}) /\ sides[f] = thin(t)
           \/ /\ ~Settled(t) /\ asked({"found"}) /\ ~failed
              /\ sides[f] = IF Usable(ArtistTags(t.artistID)) = 0 THEN thin(t) ELSE full(t)

SidesInv ==
  /\ \A f \in Fields : sides[f] # NoTrack => SideInv(f)
  /\ field = "song_a" => sides = NoSides
  /\ field = "song_b" => sides["song_a"] # NoTrack
  /\ pc \in {"track", "artist"} => sides[field] = NoTrack
  /\ pc \in {"track", "artist"} \/ answer.status = 200 => request \in [Fields -> Songs]
  /\ pc = "artist" => found \in Tracks(Song) \ {NotFound} /\ ~Settled(found)
  /\ answer.status = 200 => NoTrack \notin Range(sides) /\ answer = Compared(sides)

IInv == TypeOK /\ LookupInv /\ SidesInv

\* A song compared with itself: whatever pages MusicBrainz answers the two times,
\* the score is 1 if the two are by one artist, and they are one track if the song
\* has tags of its own or all its recordings fit a page.  That is so as long as
\* those with tags fit theirs (musicbrainz.go:29) and the artist's tags could be
\* had both times or neither.  A song without tags and with more recordings than
\* fit a page may well be a different recording, by another artist of that name,
\* the second time.
SelfSimilar ==
  answer.status = 200 /\ request["song_a"] = request["song_b"]
  /\ answer.source["song_a"] = answer.source["song_b"]
  /\ Cardinality(TaggedRecordings(request["song_a"])) <= TaggedLimit =>
    /\ sides["song_a"].artistID = sides["song_b"].artistID =>
         answer.result.weighted.num = answer.result.weighted.den
    /\ \/ sides["song_a"].recordingTags # <<>>
       \/ Cardinality(Recordings[request["song_a"]]) <= PlainLimit
       => sides["song_a"] = sides["song_b"]

\* The same tags with three times the votes.
Tripled(tags) == [i \in DOMAIN tags |-> [tags[i] EXCEPT !.count = 3 * @]]

Voted(tags) == \A i \in DOMAIN tags : tags[i].count >= 1

\* The score does not depend on which song comes first, lies between 0 and 1, and
\* what counts is how the votes for a list of tags are distributed, not how many
\* there are, so that neither a popular song nor a popular artist outweighs its
\* other list.  This is so of a list all of whose tags have votes: one that nobody
\* voted for counts as if somebody had.
ScoresRelative ==
  answer.status = 200 =>
    LET side == sides["song_a"]
        a == Profile(side)
        b == Profile(sides["song_b"])
        Same(s, t) == s.num * t.den = t.num * s.den
        score == WeightedJaccard(a, b)
        With(other) == WeightedJaccard(Profile(other), b)
    IN  /\ score.num \in 0..score.den /\ score.den > 0
        /\ Same(score, WeightedJaccard(b, a))
        /\ Voted(side.recordingTags) =>
             Same(score, With([side EXCEPT !.recordingTags = Tripled(@)]))
        /\ Voted(side.artistTags) =>
             Same(score, With([side EXCEPT !.artistTags = Tripled(@)]))
        /\ score.num = 0 <=> DOMAIN a \cap DOMAIN b = {}
================================================================================
