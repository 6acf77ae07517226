----------------------------- MODULE TrackMatching -----------------------------
(***************************************************************************)
(* Which recordings of a MusicBrainz answer are the song that was asked    *)
(* for, and what their tags add up to (internal/provider/musicbrainz.go).  *)
(*                                                                         *)
(* An artist's name is the sequence of its words, folded; joining a credit *)
(* concatenates them.  The spelling of a tag is an element of DOMAIN Lower *)
(* and "" is the blank one.  What search results a query yields is up to   *)
(* MusicBrainz.                                                            *)
(*                                                                         *)
(* Lists are sorted and filtered by the places their elements take, and    *)
(* summed over the domain of a function, in forms the proofs can follow.   *)
(***************************************************************************)
EXTENDS Integers, Sequences, FiniteSets, FiniteSetsExt, SequencesExt, Functions, TLC

CONSTANTS
  Lower,      \* the lower-case form of each spelling of a tag, trimmed
  Place,      \* the place of each lower-case form in alphabetical order
  MinScore,
  MaxMerged

ASSUME MatchingAssumption ==
  /\ Lower \in [DOMAIN Lower -> DOMAIN Place]
  /\ Place \in [DOMAIN Place -> Int]
  /\ \A a, b \in DOMAIN Place : Place[a] = Place[b] => a = b
  /\ MinScore \in Nat /\ MaxMerged \in Nat \ {0}

\* The elements of S, in the order of the pairs in before.
Sorted(S, before) ==
  LET place(x) == 1 + Cardinality({y \in S : <<y, x>> \in before})
  IN  [k \in 1..Cardinality(S) |-> CHOOSE x \in S : place(x) = k]

\* What seq has at the places D.
Part(seq, D) ==
  LET places == Sorted(D, {p \in D \X D : p[1] < p[2]})
  IN  [k \in 1..Cardinality(D) |-> seq[places[k]]]

Sum(weights) == MapThenSumSet(LAMBDA n : weights[n], DOMAIN weights)

-------------------------------------------------------------------------------
NoArtist == [id |-> "", name |-> <<>>]

\* "The Beatles" loses its article, "The The" and "The" keep theirs.
NormalizeArtist(name) ==
  IF Len(name) > 1 /\ Head(name) = "the" /\ Tail(name) # <<"the">> THEN Tail(name) ELSE name

FullCredit(credit) == FlattenSeq([i \in DOMAIN credit |-> credit[i].name \o credit[i].join])

\* The artist of a credit that is the one wanted, or NoArtist.
CreditedArtist(credit, want) ==
  LET named == {i \in DOMAIN credit :
                  want \in {NormalizeArtist(credit[i].name), NormalizeArtist(credit[i].canonical)}}
  IN  IF want = <<>> THEN NoArtist
      ELSE IF named # {} THEN [id |-> credit[Min(named)].id, name |-> credit[Min(named)].name]
      ELSE IF Len(credit) > 1 /\ NormalizeArtist(FullCredit(credit)) = want
      THEN [id |-> credit[1].id, name |-> FullCredit(credit)]
      ELSE NoArtist

MatchingRecordings(recordings, artist) ==
  LET credited(i) == CreditedArtist(recordings[i].credit, NormalizeArtist(artist))
  IN  Part([i \in DOMAIN recordings |-> [rec |-> recordings[i], artist |-> credited(i)]],
           {i \in DOMAIN recordings : recordings[i].score >= MinScore /\ credited(i) # NoArtist})

\* The genres repeat some of the tags: what is in both counts once.
MergeTags(tags, genres) ==
  LET entries == {e \in Range(tags \o genres) : Lower[e.name] # ""}
      names   == {Lower[e.name] : e \in entries}
  IN  [n \in names |-> Max({e.count : e \in {f \in entries : Lower[f.name] = n}})]

Merged(m) == MergeTags(m.rec.tags, m.rec.genres)

Votes(m) == Sum(Merged(m))

HasTags(rec) == rec.tags \o rec.genres # <<>>

\* Bug: matches with as many votes are in any order.
MoreVotes_Unstable(a, b) == Votes(a) > Votes(b)

MoreVotes(a, b) == \/ Votes(a) > Votes(b)
                   \/ Votes(a) = Votes(b) /\ a.rec.id < b.rec.id

\* The order is stable.
BestTagged(matches) ==
  LET tagged == {i \in DOMAIN matches : HasTags(matches[i].rec)}
      better(i, j) == \/ MoreVotes(matches[i], matches[j])
                      \/ ~MoreVotes(matches[j], matches[i]) /\ i < j
      sorted == Sorted(tagged, {p \in tagged \X tagged : better(p[1], p[2])})
  IN  [k \in 1..Min({Cardinality(tagged), MaxMerged}) |-> matches[sorted[k]]]

\* Tags by name and votes, as a sequence: most votes first.
SortTags(counts) ==
  LET tags == {[name |-> n, count |-> counts[n]] : n \in DOMAIN counts}
      stronger(s, t) == \/ s.count > t.count
                        \/ s.count = t.count /\ Place[s.name] < Place[t.name]
  IN  Sorted(tags, {p \in tags \X tags : stronger(p[1], p[2])})

SumTags(matches) ==
  LET with(n) == {i \in DOMAIN matches : n \in DOMAIN Merged(matches[i])}
      names   == UNION {DOMAIN Merged(matches[i]) : i \in DOMAIN matches}
  IN  SortTags([n \in names |-> Sum([i \in with(n) |-> Merged(matches[i])[n]])])

NotFound == [error |-> "not found"]

\* SearchTrack, given the answers to its two searches: with tags, and without
\* regard to tags (made only if the first has nothing).
Track(taggedMatches, plainMatches) ==
  LET best  == BestTagged(taggedMatches)
      first == Min({plainMatches[i].rec.id : i \in DOMAIN plainMatches})
      plain == CHOOSE m \in Range(plainMatches) : m.rec.id = first
      Of(m, tags) == [id |-> m.rec.id, artistID |-> m.artist.id, recordingTags |-> tags,
                      artistTags |-> <<>>, source |-> ""]
  IN  IF best # <<>> THEN Of(best[1], SumTags(best))
      ELSE IF plainMatches = <<>> THEN NotFound
      ELSE Of(plain, <<>>)

\* ArtistTags, given the artist's entry.
TagsOfArtist(entry) == SortTags(MergeTags(entry.tags, entry.genres))

TagNames(tags) == [i \in DOMAIN tags |-> tags[i].name]
================================================================================
