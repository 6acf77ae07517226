---------------------------- MODULE MCCacheCore ----------------------------
\* Small instances of CacheCore: two users race on one key, "full" answers
\* live longer than "gone" ones, and "off" ones are not stored at all.
EXTENDS CacheCore

MCContents == {"full", "gone", "off"}
MCTTL == [v \in MCContents |-> CASE v = "full" -> 2 [] v = "gone" -> 1 [] v = "off" -> 0]
============================================================================
