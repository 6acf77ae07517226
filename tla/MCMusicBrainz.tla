--------------------------- MODULE MCMusicBrainz ---------------------------
\* Small instances of MusicBrainz: two lookups, an interval shorter than the
\* cap, and a Retry-After that is absent or over the cap.
EXTENDS MusicBrainz

MCRetryAfters == {0, 3}
=============================================================================
