--------------------------- MODULE MCCachedLookup ---------------------------
\* Small instances of CachedLookup: two callers of one track.
EXTENDS CachedLookup
-----------------------------------------------------------------------------
\* A calm world: an empty cache over a store that works, no caller leaves, no
\* time passes and upstream finds what it is asked for.
CalmInit == Init /\ up /\ \A k \in Keys : entry[k] = None
CalmNext == \/ \E c \in Callers : CallerStep(c) \/ \E k \in Keys : BeginLookup(c, k)
            \/ \E f \in Flights : FlightStep(f) \/ UpstreamAnswers(f, "full")
            \/ \E u \in Callers \cup Flights : StoreAnswers(u)
CalmSpec == CalmInit /\ [][CalmNext]_vars

\* "Concurrent misses for the same track share a single upstream lookup"
\* (searcher.go:23-24): in a calm world a track is looked up upstream once.
OneUpstreamLookup ==
    \A f, g \in Flights : status[f] # "unused" /\ status[g] # "unused" /\ keyOf[f] = keyOf[g] => f = g
=============================================================================
