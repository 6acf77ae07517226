--------------------------- MODULE MCFlightGroup ---------------------------
\* Small instances of FlightGroup: three callers are the fewest with which one
\* leaves, one stays and one comes while a torn-down run is still executing.
EXTENDS FlightGroup

MCAnswers == {"value", "failed"}
=============================================================================
