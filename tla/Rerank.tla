-------------------------------- MODULE Rerank --------------------------------
(***************************************************************************)
(* The order of a reranked answer (internal/analytics/rerank.go), over     *)
(* exact fractions: how floating point rounds is left out.  Cosines are    *)
(* given in tenths and the weight of the listeners in tenths.              *)
(***************************************************************************)
EXTENDS Integers, Sequences, FiniteSets, FiniteSetsExt, SequencesExt

CONSTANTS
  Weight,      \* w, in tenths
  Smoothing,   \* k
  Word         \* numbers of plays are unsigned and wrap around at Word

\* RerankConfig.Validate
ASSUME RerankAssumption ==
  Weight \in 0..10 /\ Smoothing \in Nat /\ Word \in Nat \ {0}

Fraction(n, d) == [num |-> n, den |-> d]
Plus(p, q) == Fraction(p.num * q.den + q.num * p.den, p.den * q.den)
Less(p, q) == p.num * q.den < q.num * p.den

NoDataKeepRate == Fraction(1, 2)

Skips(s) == Min({s.skips, s.plays})

RawKeepRate(s) == Fraction(s.plays - Skips(s), s.plays)

\* The candidates listeners have played after the source.
Played(candidates, stats) ==
  {c \in candidates : c.id \in DOMAIN stats /\ stats[c.id].plays > 0}

AverageKeepRate(candidates, stats) ==
  LET played == Played(candidates, stats)
      sum    == FoldSet(LAMBDA c, acc : Plus(RawKeepRate(stats[c.id]), acc), Fraction(0, 1), played)
  IN  IF played = {} THEN NoDataKeepRate
      ELSE Fraction(sum.num, sum.den * Cardinality(played))

\* Bug: skips are subtracted from plays as they come.
Keeps_Underflows(s) == (s.plays - s.skips) % Word

Keeps(s) == (s.plays - Skips(s)) % Word

KeepRate(c, candidates, stats) ==
  LET avg == AverageKeepRate(candidates, stats)
      s   == stats[c.id]
  IN  IF c \in Played(candidates, stats)
      THEN Fraction(Keeps(s) * avg.den + Smoothing * avg.num, avg.den * (s.plays + Smoothing))
      ELSE avg

\* A hundred times the score: (1 - w) * cosine + w * keep rate.
Score(c, candidates, stats) ==
  LET keep == KeepRate(c, candidates, stats)
  IN  Plus(Fraction((10 - Weight) * c.cosine, 1), Fraction(10 * Weight * keep.num, keep.den))

Before(a, b, candidates, stats) ==
  LET sa == Score(a, candidates, stats)
      sb == Score(b, candidates, stats)
  IN  \/ Less(sb, sa)
      \/ ~Less(sa, sb) /\ a.cosine > b.cosine
      \/ ~Less(sa, sb) /\ a.cosine = b.cosine /\ a.id < b.id

Reranked(candidates, stats) ==
  SetToSortSeq(candidates, LAMBDA a, b : Before(a, b, candidates, stats))
===============================================================================
