-------------------------- MODULE MCEventPublisher --------------------------
\* Small instances of EventPublisher: more requests than places in the queue.
EXTENDS EventPublisher

\* "ErrBufferFull means the queue is full" (events.go:38): an event is turned
\* away only when Limit others are queued or about to be.
RejectedOnlyWhenFull ==
    [][\A r \in Requests : pc[r] = "locked" /\ pc'[r] = "over" =>
          Cardinality(Queued \cup {q \in Requests : pc[q] = "under"}) >= Limit]_vars
=============================================================================
