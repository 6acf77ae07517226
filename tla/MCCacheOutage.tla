--------------------------- MODULE MCCacheOutage ---------------------------
\* CacheCore with a history of the outage that is going on.
EXTENDS MCCacheCore

\* Ticks of the cooldown left since an operation failed in this outage,
\* whatever happened to the window since.
VARIABLE cooling
HInit == Init /\ cooling = 0
HNext == /\ Next
         /\ cooling' = IF up' THEN 0
                       ELSE IF window' = Cooldown /\ window # Cooldown THEN Cooldown
                       ELSE IF Tick /\ cooling > 0 THEN cooling - 1 ELSE cooling
HSpec == HInit /\ [][HNext]_<<vars, cooling>>

\* "how long the cache is bypassed after a store error, so an unreachable Redis
\* costs one timeout rather than one per request" (core.go:68-69): no operation
\* is begun on a store that has been down since an operation failed on it,
\* before the cooldown has passed.
OneTimeoutPerCooldown ==
    [][cooling > 0 => \A u \in Users : op[u] = Idle => op'[u] = Idle]_<<vars, cooling>>
=============================================================================
