------------------------------ MODULE TagProfiles ------------------------------
(***************************************************************************)
(* From tags to scores: the normaliser (internal/tags/tags.go), a track's  *)
(* profile (internal/api/handlers.go) and the comparison of two profiles   *)
(* (internal/similarity/weighted.go).  Weights and scores are exact: a     *)
(* profile is given over a common denominator of its weights, a score as a *)
(* fraction; how floating point rounds is left out.                        *)
(***************************************************************************)
EXTENDS TrackMatching

CONSTANTS
  Clean,            \* the cleaned form of each lower-case form of a tag
  SynonymLines,     \* the lines of the synonym table: a canonical tag and its variants
  StopLines,        \* the lines of the stop list, cleaned
  Years,            \* the cleaned tags that are a year or a decade
  RecordingWeight   \* a recording tag counts as many times what an artist tag counts

ASSUME ProfileAssumption ==
  /\ Clean \in [DOMAIN Place -> DOMAIN Place]
  /\ SynonymLines \in Seq([canonical : DOMAIN Place \ {""}, variants : SUBSET DOMAIN Place])
  /\ RecordingWeight \in Nat \ {0}

\* The lines of the synonym table that send tag elsewhere.
Synonyms(tag) ==
  {i \in DOMAIN SynonymLines : tag \in SynonymLines[i].variants \ {"", SynonymLines[i].canonical}}

\* What a clean tag stands for, one step only: what the last of its lines says.
Canonical(tag) == IF Synonyms(tag) = {} THEN tag ELSE SynonymLines[Max(Synonyms(tag))].canonical

Stop == {Canonical(line) : line \in StopLines}

\* The tag that raw counts for, "" if it is to be ignored.
Normalize(raw) ==
  LET tag == Canonical(Clean[raw])
  IN  IF tag \in Years \cup Stop THEN "" ELSE tag

\* Where seq has something for the first time.
FirstUses(seq) == {i \in DOMAIN seq : \A j \in 1..(i - 1) : seq[j] # seq[i]}

Distinct(seq) == Part(seq, FirstUses(seq))

NormalizeAll(names) ==
  LET all == [i \in DOMAIN names |-> Normalize(names[i])]
  IN  Part(all, {i \in FirstUses(all) : all[i] # ""})

-------------------------------------------------------------------------------
\* addShares, before the division: what each tag of a list counts.
VotesByTag(tags) ==
  LET names == Range(NormalizeAll(TagNames(tags)))
      of(n) == {i \in DOMAIN tags : Normalize(tags[i].name) = n}
  IN  [n \in names |-> Sum([i \in of(n) |-> Max({tags[i].count, 1})])]

\* RecordingWeight times the profile, over the two totals.
Profile(track) ==
  LET rec == VotesByTag(track.recordingTags)
      art == VotesByTag(track.artistTags)
      Weight(votes, n) == IF n \in DOMAIN votes THEN votes[n] ELSE 0
  IN  [n \in DOMAIN rec \cup DOMAIN art |->
         RecordingWeight * Weight(rec, n) * Max({Sum(art), 1}) + Weight(art, n) * Max({Sum(rec), 1})]

-------------------------------------------------------------------------------
\* Bug: weights are compared as they are.
Share_Raw(a, b, n) == IF n \in DOMAIN a THEN a[n] ELSE 0

\* The share of n in a, over the product of the totals of a and b.
Share(a, b, n) == IF n \in DOMAIN a THEN a[n] * Sum(b) ELSE 0

WeightedJaccard(a, b) ==
  LET tags == DOMAIN a \cup DOMAIN b
  IN  [num |-> Sum([n \in tags |-> Min({Share(a, b, n), Share(b, a, n)})]),
       den |-> Sum([n \in tags |-> Max({Share(a, b, n), Share(b, a, n)})])]

SortByWeight(weights) ==
  LET tags == DOMAIN weights
      stronger(s, t) == weights[s] > weights[t] \/ (weights[s] = weights[t] /\ Place[s] < Place[t])
  IN  Sorted(tags, {p \in tags \X tags : stronger(p[1], p[2])})

Compare(a, b) ==
  LET shared == DOMAIN a \cap DOMAIN b
      union  == DOMAIN a \cup DOMAIN b
  IN  [genre    |-> [num |-> Cardinality(shared), den |-> Cardinality(union)],
       weighted |-> WeightedJaccard(a, b),
       shared   |-> SortByWeight([n \in shared |-> Min({Share(a, b, n), Share(b, a, n)})]),
       onlyA    |-> SortByWeight([n \in DOMAIN a \ DOMAIN b |-> Share(a, b, n)]),
       onlyB    |-> SortByWeight([n \in DOMAIN b \ DOMAIN a |-> Share(b, a, n)])]
================================================================================
