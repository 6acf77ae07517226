--------------------------- MODULE MCCompareRequests ---------------------------
(***************************************************************************)
(* Six songs: one with recordings to choose from and tags in several       *)
(* spellings, one thinly tagged, one whose recordings have no tags and do  *)
(* not fit a page, two with nothing usable and one that MusicBrainz does   *)
(* not have.                                                               *)
(***************************************************************************)
EXTENDS CompareRequests

Spellings == {"", "Rock", "rock", "hip-hop", "hiphop", "jazz", "1975", "seen live", "live", "pop"}
LowerCase == {"", "rock", "hip-hop", "hiphop", "jazz", "1975", "seen live", "live", "pop", "hip hop"}

MCLower == [s \in Spellings |-> IF s = "Rock" THEN "rock" ELSE s]
MCPlace ==
  "" :> 0 @@ "1975" :> 1 @@ "hip hop" :> 2 @@ "hip-hop" :> 3 @@ "hiphop" :> 4 @@ "jazz" :> 5
  @@ "live" :> 6 @@ "pop" :> 7 @@ "rock" :> 8 @@ "seen live" :> 9
MCClean == [s \in LowerCase |-> IF s = "hip-hop" THEN "hip hop" ELSE s]

\* The second line sends a variant of the first elsewhere.
MCSynonymLines == <<[canonical |-> "rock", variants |-> {"hiphop", "rock", ""}],
                    [canonical |-> "hip hop", variants |-> {"hiphop"}],
                    [canonical |-> "seen live", variants |-> {"live"}]>>
MCStopLines == {"live"}
MCYears == {"1975"}

T(name, count) == [name |-> name, count |-> count]
Credit(name, canonical, id, join) == [name |-> name, canonical |-> canonical, id |-> id, join |-> join]
Rec(id, score, credit, tags, genres) ==
  [id |-> id, score |-> score, credit |-> credit, tags |-> tags, genres |-> genres]

Queen  == <<Credit(<<"queen">>, <<"queen">>, "q", <<>>)>>
TheBand == <<Credit(<<"the", "band">>, <<"the", "band">>, "b", <<>>)>>
Both   == <<Credit(<<"queen">>, <<"queen">>, "q", <<"and">>), Credit(<<"bowie">>, <<"bowie">>, "w", <<>>)>>

\* Another artist of the name the two have together.
Namesake == <<Credit(<<"queen", "and", "bowie">>, <<"queen", "and", "bowie">>, "b", <<>>)>>

MCSongs == {"rich", "thin", "bare", "noise", "vague", "missing"}
MCArtistAsked ==
  "rich" :> <<"queen">> @@ "thin" :> <<"band">> @@ "bare" :> <<"queen", "and", "bowie">>
  @@ "noise" :> <<"bowie">> @@ "vague" :> <<"the", "the">> @@ "missing" :> <<"queen">>

\* "rich": three recordings for two places, two with as many votes, and one
\* that scores too low; "noise" and "vague": only tags that are ignored.
MCRecordings ==
  "rich" :> {Rec(1, 95, Queen, <<T("Rock", 2), T("hip-hop", 1)>>, <<T("rock", 2)>>),
             Rec(2, 95, Both, <<T("rock", 1), T("hiphop", 1), T("jazz", 1)>>, <<>>),
             Rec(3, 99, Queen, <<T("jazz", 2), T("pop", 2), T("", 1)>>, <<T("jazz", 1)>>),
             Rec(4, 80, Queen, <<T("pop", 9)>>, <<>>)}
  @@ "thin"  :> {Rec(5, 90, TheBand, <<T("jazz", 0), T("1975", 3), T("live", 1)>>, <<>>)}
  @@ "bare"  :> {Rec(6, 90, Both, <<>>, <<>>), Rec(7, 90, Namesake, <<>>, <<>>),
             Rec(12, 90, Both, <<>>, <<>>), Rec(13, 90, Both, <<>>, <<>>)}
  @@ "noise" :> {Rec(8, 90, <<Credit(<<"bowie">>, <<"bowie">>, "w", <<>>)>>, <<T("live", 2), T("1975", 1)>>, <<>>)}
  @@ "vague" :> {Rec(9, 90, <<Credit(<<"the", "the">>, <<"the", "the">>, "", <<>>)>>, <<>>, <<T("", 1)>>)}
  @@ "missing" :> {Rec(10, 90, TheBand, <<T("rock", 1)>>, <<>>), Rec(11, 89, Queen, <<>>, <<>>)}

MCArtists ==
  "q" :> [tags |-> <<T("rock", 1), T("Rock", 2), T("pop", 1)>>, genres |-> <<T("hiphop", 1)>>]
  @@ "b" :> [tags |-> <<T("jazz", 1), T("rock", 1)>>, genres |-> <<>>]

\* "artist lookup fails but there are recording tags: keep them" and only "an
\* abandoned request is not papered over" (resolver_test.go:116, 130; "A thin
\* answer beats none", resolver.go:71): while the request goes on, a failed
\* lookup of the artist fails it only if the recordings have no usable tags.
ThinBeatsNone ==
  answer.status = 502 /\ ctx = "live" /\ Last(log).step = "artist" =>
    \E t \in Tracks(request[answer.song]) \ {NotFound} : Usable(t.recordingTags) = 0

Header(kind, n) == [kind |-> kind, n |-> n]

\* Two seconds, thirty seconds, a second and a bit and a moment ago; and, with
\* 32 units to a wrapped duration, delays that wrap to less than none and to
\* half a second.
MCRetryAfters ==
  {Header("absent", 0), Header("seconds", 2), Header("seconds", 3), Header("seconds", -1),
   Header("seconds", 5), Header("seconds", 9), Header("date", 5), Header("date", -2)}
================================================================================
