--------------------------- MODULE MCVectorRequests ---------------------------
(***************************************************************************)
(* Two requests, three tracks of two artists on two pages, one run of the  *)
(* pipeline in two batches.                                                *)
(***************************************************************************)
EXTENDS VectorRequests, TLC

CONSTANTS r1, r2

MCRequests == {r1, r2}
MCIds == 1..3

\* Track 1's artist also has the track nearest to it, so that excluding the
\* artist takes a second search; tracks 2 and 3 are equally near to nothing.
MCArtist == 1 :> "a" @@ 2 :> "a" @@ 3 :> "b"
MCCosine == 1 :> (2 :> 9 @@ 3 :> 8) @@ 2 :> (1 :> 9 @@ 3 :> 9) @@ 3 :> (1 :> 8 @@ 2 :> 9)
MCTitle == 1 :> 2 @@ 2 :> 1 @@ 3 :> 1
MCMatchRank == "q" :> (1 :> 0 @@ 2 :> 2 @@ 3 :> 4)

Search == [kind |-> "search", query |-> "q", limit |-> 2, exclude |-> FALSE, rerank |-> FALSE, id |-> 1]
Similar(id, exclude, rerank) ==
  [kind |-> "similar", query |-> "q", limit |-> 1, exclude |-> exclude, rerank |-> rerank, id |-> id]

MCJobs == {Search, Similar(1, TRUE, FALSE), Similar(2, FALSE, TRUE)}

Stat(plays, skips) == [plays |-> plays, skips |-> skips]
MCStats == {<<>>, 2 :> Stat(2, 0), 1 :> Stat(2, 1) @@ 3 :> Stat(1, 1), 3 :> Stat(3, 2) @@ 2 :> Stat(1, 0)}

Symmetry == Permutations(MCRequests)
===============================================================================
