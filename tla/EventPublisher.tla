--------------------------- MODULE EventPublisher ---------------------------
(***************************************************************************)
(* src/internal/events/redpanda.go, the handler in front of it             *)
(* (src/internal/api/events.go) and the shutdown around both               *)
(* (src/cmd/server/main.go): listening events are accepted with a 202,     *)
(* queued in memory and delivered later, until the server stops.           *)
(*                                                                         *)
(* A request is one POST /api/v1/events in its own goroutine.  franz-go's  *)
(* producer is external: it holds the queued records and calls back once   *)
(* for each.                                                               *)
(***************************************************************************)
EXTENDS Naturals, FiniteSets

CONSTANTS Requests, Limit      \* Redpanda.limit

ASSUME EventPublisherAssumption == IsFiniteSet(Requests) /\ Limit \in Nat \ {0}

VARIABLES pc,        \* where a request is in PostEvent and Publish
          answer,    \* its HTTP status, 0 until it is written
          fate,      \* what became of its event
          inflight,  \* Redpanda.inflight
          closed,    \* Redpanda.closed
          phase,     \* how far the main goroutine has got
          graceful,  \* srv.Shutdown saw every request end
          flushed    \* client.Flush returned nil

serverVars == <<closed, phase, graceful, flushed>>
vars == <<pc, answer, fate, inflight, serverVars>>

Phases == {"serving", "draining", "drained", "locking", "flushing", "flushed", "exited"}
Fates == {"none", "queued", "delivered", "failed", "dropped"}

TypeOK == /\ pc \in [Requests -> {"none", "arrived", "locked", "over", "under", "produced", "done"}]
          /\ answer \in [Requests -> {0, 202, 400, 429, 503}]
          /\ fate \in [Requests -> Fates]
          /\ inflight \in Nat
          /\ closed \in BOOLEAN /\ graceful \in BOOLEAN /\ flushed \in BOOLEAN
          /\ phase \in Phases

Init == /\ pc = [r \in Requests |-> "none"]
        /\ answer = [r \in Requests |-> 0]
        /\ fate = [r \in Requests |-> "none"]
        /\ inflight = 0
        /\ closed = FALSE /\ graceful = FALSE /\ flushed = FALSE
        /\ phase = "serving"

Running == phase # "exited"
Queued == {r \in Requests : fate[r] = "queued"}
Readers == {r \in Requests : pc[r] \in {"locked", "over", "under", "produced"}}

-----------------------------------------------------------------------------
(* PostEvent and Publish.                                                  *)

Step(r, from, to) == /\ Running
                     /\ pc[r] = from
                     /\ pc' = [pc EXCEPT ![r] = to]

\* The handler returns, having released the read lock.
Reply(r, from, code) == /\ Step(r, from, "done")
                        /\ answer' = [answer EXCEPT ![r] = code]

Arrive(r) == /\ phase = "serving"
             /\ Step(r, "none", "arrived")
             /\ UNCHANGED <<answer, fate, inflight, serverVars>>

\* decodeEvent finds fault with the body.
RefuseBody(r) == Reply(r, "arrived", 400) /\ UNCHANGED <<fate, inflight, serverVars>>

\* p.mu.RLock(): not while a writer holds the lock or waits for it.
RLock(r) == /\ phase # "locking"
            /\ IF closed THEN Reply(r, "arrived", 503)
                         ELSE Step(r, "arrived", "locked") /\ UNCHANGED answer
            /\ UNCHANGED <<fate, inflight, serverVars>>

\* Bug: the event itself is left out of the comparison with the limit.
Add_OffByOne(r) == /\ Step(r, "locked", IF inflight > Limit THEN "over" ELSE "under")
                   /\ inflight' = inflight + 1
                   /\ UNCHANGED <<answer, fate, serverVars>>

\* Bug: only what fits is counted in, whatever is rejected is counted out.
Add_OnlyIfFits(r) == /\ Step(r, "locked", IF inflight + 1 > Limit THEN "over" ELSE "under")
                     /\ inflight' = IF inflight + 1 > Limit THEN inflight ELSE inflight + 1
                     /\ UNCHANGED <<answer, fate, serverVars>>

\* p.inflight.Add(1), compared with the limit.
Add(r) == /\ Step(r, "locked", IF inflight + 1 > Limit THEN "over" ELSE "under")
          /\ inflight' = inflight + 1
          /\ UNCHANGED <<answer, fate, serverVars>>

\* Bug: the return for a full buffer does not release the read lock.
TakeBack_KeepsLock(r) == /\ Running /\ pc[r] = "over" /\ answer[r] = 0
                         /\ answer' = [answer EXCEPT ![r] = 429]
                         /\ inflight' = inflight - 1
                         /\ UNCHANGED <<pc, fate, serverVars>>

\* p.inflight.Add(-1); ErrBufferFull.
TakeBack(r) == /\ Reply(r, "over", 429)
               /\ inflight' = inflight - 1
               /\ UNCHANGED <<fate, serverVars>>

\* TryProduce, and the return that releases the read lock.
Produce(r) == /\ Step(r, "under", "produced")
              /\ fate' = [fate EXCEPT ![r] = "queued"]
              /\ UNCHANGED <<answer, inflight, serverVars>>
Accept(r) == Reply(r, "produced", 202) /\ UNCHANGED <<fate, inflight, serverVars>>

\* The client's callback, once per record: acknowledged by the broker, or
\* given up (RecordDeliveryTimeout, an error that retrying does not mend).
Deliver(r, end) == /\ Running
                   /\ fate[r] = "queued"
                   /\ fate' = [fate EXCEPT ![r] = end]
                   /\ inflight' = inflight - 1
                   /\ UNCHANGED <<pc, answer, serverVars>>

-----------------------------------------------------------------------------
(* The main goroutine: run, its deferred closeEvents, and Close.           *)

Goto(from, to) == phase = from /\ phase' = to
Rest == <<pc, answer, fate, inflight>>

\* A signal: srv.Shutdown takes no new requests and waits for those there are.
Signal == Goto("serving", "draining") /\ UNCHANGED <<Rest, closed, graceful, flushed>>

\* Bug: the events are closed before the requests are drained.
Drained_TooEarly == /\ Goto("draining", "drained")
                    /\ graceful' = TRUE
                    /\ UNCHANGED <<Rest, closed, flushed>>

Drained == /\ Goto("draining", "drained")
           /\ \A r \in Requests : pc[r] \in {"none", "done"}
           /\ graceful' = TRUE
           /\ UNCHANGED <<Rest, closed, flushed>>

\* srv.Shutdown runs out of its grace period, or the listener failed to begin
\* with: requests may still be on their way while the events are closed.
NotDrained == /\ Goto("draining", "drained") \/ Goto("serving", "drained")
              /\ UNCHANGED <<Rest, closed, graceful, flushed>>

\* Close: p.mu.Lock() waits for the readers and keeps new ones out.
WantLock == Goto("drained", "locking") /\ UNCHANGED <<Rest, closed, graceful, flushed>>

\* Bug: Close does not wait for the publishers that saw it open.
SetClosed_NoLock == /\ Goto("locking", "flushing")
                    /\ closed' = TRUE
                    /\ UNCHANGED <<Rest, graceful, flushed>>

SetClosed == /\ Goto("locking", "flushing")
             /\ Readers = {}
             /\ closed' = TRUE
             /\ UNCHANGED <<Rest, graceful, flushed>>

\* Bug: the flush is not waited for.
Flush_NotWaitedFor == /\ Goto("flushing", "flushed")
                      /\ flushed' = TRUE
                      /\ UNCHANGED <<Rest, closed, graceful>>

\* client.Flush returns when nothing is queued, or when its time is up.
Flush == /\ Goto("flushing", "flushed")
         /\ Queued = {}
         /\ flushed' = TRUE
         /\ UNCHANGED <<Rest, closed, graceful>>
FlushTimesOut == Goto("flushing", "flushed") /\ UNCHANGED <<Rest, closed, graceful, flushed>>

\* client.Close() and the end of the process: the client calls back for what is
\* still queued, and drops it.
Exit == /\ Goto("flushed", "exited")
        /\ fate' = [r \in Requests |-> IF r \in Queued THEN "dropped" ELSE fate[r]]
        /\ inflight' = inflight - Cardinality(Queued)
        /\ UNCHANGED <<pc, answer, closed, graceful, flushed>>

-----------------------------------------------------------------------------
Handle(r) == RefuseBody(r) \/ RLock(r) \/ Add(r) \/ TakeBack(r) \/ Produce(r) \/ Accept(r)
Broker(r) == \E end \in {"delivered", "failed"} : Deliver(r, end)
Shutdown == \/ Drained \/ NotDrained \/ WantLock \/ SetClosed
            \/ Flush \/ FlushTimesOut \/ Exit

Next == \/ \E r \in Requests : Arrive(r) \/ Handle(r) \/ Broker(r)
        \/ Signal \/ Shutdown

Spec == Init /\ [][Next]_vars

\* Goroutines run; Shutdown, Flush and a record's delivery have deadlines.
FairSpec == /\ Spec
            /\ \A r \in Requests : WF_vars(Handle(r)) /\ WF_vars(Broker(r))
            /\ WF_vars(phase # "serving" /\ Shutdown)

-----------------------------------------------------------------------------
(* Properties.                                                             *)

\* inflight is the queue and the requests that have counted themselves in and
\* not yet queued or uncounted: it can neither leak, which would end in a
\* publisher that rejects everything, nor go below what is queued.
Counted == {r \in Requests : pc[r] \in {"over", "under"}}
InflightCounts == inflight = Cardinality(Queued) + Cardinality(Counted)

\* The bounded buffer is bounded, however many requests race for its last place.
Placed == Queued \cup {r \in Requests : pc[r] = "under"}
QueueBounded == Cardinality(Placed) <= Limit

\* A 202 is kept: the event was delivered, is on its way, or its failure was
\* counted; it is dropped only by a server that says its flush failed.  And an
\* event that was turned away was not sent.
AnswersKept ==
    \A r \in Requests :
        /\ answer[r] = 202 => fate[r] # "none"
        /\ answer[r] \in {400, 429, 503} => fate[r] = "none"
        /\ fate[r] = "dropped" => ~flushed

\* Nothing is queued once Close has begun to flush, or the flush could miss it.
NothingQueuedAfterClose == [][closed => \A r \in Requests : fate'[r] = "queued" => fate[r] = "queued"]_vars

\* "closeEvents runs after srv.Shutdown has let in-flight requests finish:
\* their events are flushed, not dropped" (main.go:62-63): no request of a
\* graceful shutdown finds the publisher closed.
GracefulClosesLast == graceful => \A r \in Requests : answer[r] # 503

\* What they rest on: a request's event and answer fit to where the request is,
\* and the publisher is closed once the lock is held and everybody is out.
RequestsConsistent ==
    \A r \in Requests :
        /\ pc[r] \in {"none", "arrived", "locked", "over", "under"} => fate[r] = "none"
        /\ pc[r] = "produced" => fate[r] # "none"
        /\ pc[r] # "done" => answer[r] = 0
        /\ answer[r] = 503 => closed
        /\ fate[r] = "dropped" => phase = "exited"
ClosedConsistent ==
    /\ closed <=> phase \in {"flushing", "flushed", "exited"}
    /\ closed => Readers = {}
    /\ flushed => phase \in {"flushed", "exited"} /\ Queued = {}
    /\ graceful => /\ phase \notin {"serving", "draining"}
                   /\ \A r \in Requests : pc[r] \in {"none", "done"}

\* The inductive invariant.
IInv == /\ TypeOK /\ InflightCounts /\ QueueBounded /\ AnswersKept
        /\ GracefulClosesLast /\ RequestsConsistent /\ ClosedConsistent

\* A server that is told to stop stops, whatever the broker does.
Stops == (phase = "draining") ~> (phase = "exited")
=============================================================================
