----------------------- MODULE EventPublisherProofs -----------------------
(***************************************************************************)
(* Proofs about EventPublisher, for every number of requests and every     *)
(* limit: the counter, the bound, and what a 202 promises.                 *)
(***************************************************************************)
EXTENDS EventPublisher, FiniteSetTheorems, TLAPS

\* The sets the counter and the bound speak of are finite.
LEMMA FiniteParts ==
  /\ IsFiniteSet(Queued) /\ Cardinality(Queued) \in Nat
  /\ IsFiniteSet(Counted) /\ Cardinality(Counted) \in Nat
  /\ IsFiniteSet(Placed) /\ Cardinality(Placed) \in Nat
<1>1. Queued \subseteq Requests /\ Counted \subseteq Requests /\ Placed \subseteq Requests
    BY DEF Queued, Counted, Placed
<1> QED BY <1>1, FS_Subset, FS_CardinalityType, EventPublisherAssumption

\* What is queued or about to be is no more than what is counted.
LEMMA PlacedCounted == Cardinality(Placed) <= Cardinality(Queued) + Cardinality(Counted)
<1> DEFINE Under == {r \in Requests : pc[r] = "under"}
<1>1. Under \subseteq Counted BY DEF Counted
<1>2. IsFiniteSet(Under) /\ Cardinality(Under) <= Cardinality(Counted)
    BY <1>1, FiniteParts, FS_Subset
<1>3. Cardinality(Under) \in Nat /\ Cardinality(Queued \cap Under) \in Nat
    BY <1>2, FiniteParts, FS_CardinalityType, FS_Intersection
<1>4. Cardinality(Queued \cup Under) =
        Cardinality(Queued) + Cardinality(Under) - Cardinality(Queued \cap Under)
    BY <1>2, FiniteParts, FS_Union
<1> QED BY <1>2, <1>3, <1>4, FiniteParts DEF Placed

LEMMA InitIInv == Init => IInv
<1> SUFFICES ASSUME Init PROVE IInv
    OBVIOUS
<1>1. TypeOK BY DEF Init, TypeOK, Phases, Fates
<1>2. Queued = {} /\ Counted = {} /\ Placed = {} BY DEF Init, Queued, Counted, Placed
<1>3. InflightCounts /\ QueueBounded
    BY <1>2, FS_EmptySet, EventPublisherAssumption DEF Init, InflightCounts, QueueBounded
<1>4. AnswersKept /\ GracefulClosesLast BY DEF Init, AnswersKept, GracefulClosesLast
<1>5. RequestsConsistent /\ ClosedConsistent
    BY <1>2 DEF Init, RequestsConsistent, ClosedConsistent
<1> QED BY <1>1, <1>3, <1>4, <1>5 DEF IInv

\* A step that counts nobody in or out and queues or settles no event.
LEMMA CountsUnmoved ==
  ASSUME IInv, UNCHANGED <<fate, inflight>>,
         \A r \in Requests : pc'[r] # pc[r] => {pc[r], pc'[r]} \cap {"over", "under"} = {}
  PROVE  /\ Queued' = Queued /\ Counted' = Counted /\ Placed' = Placed
         /\ InflightCounts' /\ QueueBounded'
<1>1. \A r \in Requests : /\ pc'[r] \in {"over", "under"} <=> pc[r] \in {"over", "under"}
                          /\ pc'[r] = "under" <=> pc[r] = "under"
    OBVIOUS
<1>2. Queued' = Queued /\ Counted' = Counted /\ Placed' = Placed
    BY <1>1 DEF Queued, Counted, Placed
<1> QED BY <1>2 DEF IInv, InflightCounts, QueueBounded

-----------------------------------------------------------------------------
(* The requests.                                                           *)

LEMMA ArriveStep == ASSUME IInv, NEW r \in Requests, Arrive(r) PROVE IInv'
<1> USE DEF IInv
<1> USE DEF Arrive, Step, serverVars
<1>1. TypeOK' BY DEF TypeOK
<1>2. Queued' = Queued /\ InflightCounts' /\ QueueBounded'
    BY CountsUnmoved DEF TypeOK
<1>3. AnswersKept' /\ GracefulClosesLast' BY DEF AnswersKept, GracefulClosesLast
<1>4. RequestsConsistent' BY DEF TypeOK, RequestsConsistent
<1>5. ClosedConsistent' BY <1>2 DEF TypeOK, ClosedConsistent, Readers
<1> QED BY <1>1, <1>2, <1>3, <1>4, <1>5

\* No request is on its way once the server has been drained.
LEMMA ActiveNotGraceful ==
  ASSUME IInv, NEW r \in Requests, pc[r] \notin {"none", "done"} PROVE ~graceful
BY DEF IInv, ClosedConsistent

LEMMA RefuseBodyStep == ASSUME IInv, NEW r \in Requests, RefuseBody(r) PROVE IInv'
<1> USE DEF IInv
<1> USE DEF RefuseBody, Reply, Step, serverVars
<1>1. TypeOK' BY DEF TypeOK
<1>2. Queued' = Queued /\ InflightCounts' /\ QueueBounded'
    BY CountsUnmoved DEF TypeOK
<1>3. AnswersKept' BY DEF TypeOK, AnswersKept, RequestsConsistent
<1>4. GracefulClosesLast' BY ActiveNotGraceful DEF GracefulClosesLast
<1>5. RequestsConsistent' BY DEF TypeOK, RequestsConsistent
<1>6. ClosedConsistent' BY <1>2, ActiveNotGraceful DEF TypeOK, ClosedConsistent, Readers
<1> QED BY <1>1, <1>2, <1>3, <1>4, <1>5, <1>6

LEMMA RLockStep == ASSUME IInv, NEW r \in Requests, RLock(r) PROVE IInv'
<1> USE DEF IInv
<1> USE DEF RLock, Reply, Step, serverVars
<1>1. TypeOK' BY DEF TypeOK
<1>2. Queued' = Queued /\ InflightCounts' /\ QueueBounded'
    BY CountsUnmoved DEF TypeOK
<1>3. AnswersKept' BY DEF TypeOK, AnswersKept, RequestsConsistent
<1>4. GracefulClosesLast' BY ActiveNotGraceful DEF GracefulClosesLast
<1>5. RequestsConsistent' BY DEF TypeOK, RequestsConsistent
<1>6. ClosedConsistent' BY <1>2, ActiveNotGraceful DEF TypeOK, ClosedConsistent, Readers
<1> QED BY <1>1, <1>2, <1>3, <1>4, <1>5, <1>6

\* The event is placed only while fewer than Limit are counted.
LEMMA AddStep == ASSUME IInv, NEW r \in Requests, Add(r) PROVE IInv'
<1> USE DEF IInv
<1> USE DEF Add, Step, serverVars
<1>1. TypeOK' BY DEF TypeOK
<1>2. Queued' = Queued BY DEF Queued
<1>3. Counted' = Counted \cup {r} /\ r \notin Counted BY DEF TypeOK, Counted
<1>4. Cardinality(Counted') = Cardinality(Counted) + 1
    BY <1>3, FiniteParts, FS_AddElement
<1>5. InflightCounts' BY <1>2, <1>4, FiniteParts DEF InflightCounts
<1>6. QueueBounded'
  <2>1. CASE pc'[r] = "over"
    <3>1. Placed' = Placed BY <2>1 DEF TypeOK, Placed, Queued
    <3> QED BY <3>1 DEF QueueBounded
  <2>2. CASE pc'[r] = "under"
    <3>1. Placed' = Placed \cup {r} BY <2>2 DEF TypeOK, Placed, Queued
    <3>2. r \notin Placed BY DEF Placed, Queued, RequestsConsistent
    <3>3. Cardinality(Placed') = Cardinality(Placed) + 1
        BY <3>1, <3>2, FiniteParts, FS_AddElement
    <3>4. inflight + 1 <= Limit
        BY <2>2, EventPublisherAssumption DEF TypeOK
    <3> QED BY <3>3, <3>4, PlacedCounted, FiniteParts, EventPublisherAssumption
           DEF TypeOK, InflightCounts, QueueBounded
  <2> QED BY <2>1, <2>2 DEF TypeOK
<1>7. AnswersKept' BY DEF AnswersKept
<1>8. GracefulClosesLast' BY DEF GracefulClosesLast
<1>9. RequestsConsistent' BY DEF TypeOK, RequestsConsistent
<1>10. ClosedConsistent' BY <1>2, ActiveNotGraceful DEF TypeOK, ClosedConsistent, Readers
<1> QED BY <1>1, <1>5, <1>6, <1>7, <1>8, <1>9, <1>10

LEMMA TakeBackStep == ASSUME IInv, NEW r \in Requests, TakeBack(r) PROVE IInv'
<1> USE DEF IInv
<1> USE DEF TakeBack, Reply, Step, serverVars
<1>1. Queued' = Queued /\ Placed' = Placed BY DEF TypeOK, Queued, Placed
<1>2. Counted' = Counted \ {r} /\ r \in Counted BY DEF TypeOK, Counted
<1>3. Cardinality(Counted') = Cardinality(Counted) - 1 /\ Cardinality(Counted') \in Nat
    BY <1>2, FiniteParts, FS_RemoveElement, FS_CardinalityType
<1>4. InflightCounts' /\ inflight' \in Nat
    BY <1>1, <1>3, FiniteParts DEF InflightCounts
<1>5. TypeOK' BY <1>4 DEF TypeOK
<1>6. QueueBounded' BY <1>1 DEF QueueBounded
<1>7. AnswersKept' BY DEF TypeOK, AnswersKept, RequestsConsistent
<1>8. GracefulClosesLast' BY ActiveNotGraceful DEF GracefulClosesLast
<1>9. RequestsConsistent' BY DEF TypeOK, RequestsConsistent
<1>10. ClosedConsistent' BY <1>1, ActiveNotGraceful DEF TypeOK, ClosedConsistent, Readers
<1> QED BY <1>4, <1>5, <1>6, <1>7, <1>8, <1>9, <1>10

\* From counted to queued: the counter stays right without being touched.
LEMMA ProduceStep == ASSUME IInv, NEW r \in Requests, Produce(r) PROVE IInv'
<1> USE DEF IInv
<1> USE DEF Produce, Step, serverVars
<1>1. TypeOK' BY DEF TypeOK, Fates
<1>2. Queued' = Queued \cup {r} /\ r \notin Queued
    BY DEF TypeOK, Queued, RequestsConsistent
<1>3. Counted' = Counted \ {r} /\ r \in Counted BY DEF TypeOK, Counted
<1>4. Placed' = Placed BY <1>2 DEF TypeOK, Placed
<1>5. /\ Cardinality(Queued') = Cardinality(Queued) + 1
      /\ Cardinality(Counted') = Cardinality(Counted) - 1
    BY <1>2, <1>3, FiniteParts, FS_AddElement, FS_RemoveElement
<1>6. InflightCounts' BY <1>5, FiniteParts DEF InflightCounts
<1>7. QueueBounded' BY <1>4 DEF QueueBounded
<1>8. ~closed /\ ~flushed
    BY DEF TypeOK, ClosedConsistent, Readers
<1>9. AnswersKept' BY <1>8 DEF TypeOK, AnswersKept, RequestsConsistent
<1>10. GracefulClosesLast' BY DEF GracefulClosesLast
<1>11. RequestsConsistent' BY DEF TypeOK, RequestsConsistent
<1>12. ClosedConsistent' BY <1>8, ActiveNotGraceful DEF TypeOK, ClosedConsistent, Readers
<1> QED BY <1>1, <1>6, <1>7, <1>9, <1>10, <1>11, <1>12

LEMMA AcceptStep == ASSUME IInv, NEW r \in Requests, Accept(r) PROVE IInv'
<1> USE DEF IInv
<1> USE DEF Accept, Reply, Step, serverVars
<1>1. TypeOK' BY DEF TypeOK
<1>2. Queued' = Queued /\ InflightCounts' /\ QueueBounded'
    BY CountsUnmoved DEF TypeOK
<1>3. AnswersKept' BY DEF TypeOK, AnswersKept, RequestsConsistent
<1>4. GracefulClosesLast' BY ActiveNotGraceful DEF GracefulClosesLast
<1>5. RequestsConsistent' BY DEF TypeOK, RequestsConsistent
<1>6. ClosedConsistent' BY <1>2, ActiveNotGraceful DEF TypeOK, ClosedConsistent, Readers
<1> QED BY <1>1, <1>2, <1>3, <1>4, <1>5, <1>6

\* The callback takes one event out of the queue and out of the counter.
LEMMA DeliverStep ==
  ASSUME IInv, NEW r \in Requests, NEW end \in {"delivered", "failed"}, Deliver(r, end)
  PROVE  IInv'
<1> USE DEF IInv
<1> USE DEF Deliver, serverVars
<1>1. Queued' = Queued \ {r} /\ r \in Queued BY DEF TypeOK, Queued
<1>2. Counted' = Counted BY DEF Counted
<1>3. Cardinality(Queued') = Cardinality(Queued) - 1 /\ Cardinality(Queued') \in Nat
    BY <1>1, FiniteParts, FS_RemoveElement, FS_CardinalityType
<1>4. InflightCounts' /\ inflight' \in Nat
    BY <1>2, <1>3, FiniteParts DEF InflightCounts
<1>5. TypeOK' BY <1>4 DEF TypeOK, Fates
<1>6. QueueBounded'
  <2>1. Placed' \subseteq Placed BY <1>1 DEF Placed
  <2>2. Cardinality(Placed') <= Cardinality(Placed) /\ Cardinality(Placed') \in Nat
      BY <2>1, FiniteParts, FS_Subset, FS_CardinalityType
  <2> QED BY <2>2, FiniteParts, EventPublisherAssumption DEF QueueBounded
<1>7. AnswersKept' BY DEF TypeOK, AnswersKept
<1>8. GracefulClosesLast' BY DEF GracefulClosesLast
<1>9. RequestsConsistent' BY DEF TypeOK, RequestsConsistent
<1>10. ClosedConsistent' BY <1>1 DEF ClosedConsistent, Readers
<1> QED BY <1>4, <1>5, <1>6, <1>7, <1>8, <1>9, <1>10

-----------------------------------------------------------------------------
(* The main goroutine.                                                     *)

\* Steps that change no more than how far the shutdown has got.
LEMMA ShutdownStep ==
  ASSUME IInv, Signal \/ Drained \/ NotDrained \/ WantLock \/ SetClosed \/ Flush \/ FlushTimesOut
  PROVE  IInv'
<1> USE DEF IInv
<1>1. UNCHANGED <<pc, answer, fate, inflight>>
    BY DEF Signal, Drained, NotDrained, WantLock, SetClosed, Flush, FlushTimesOut, Rest
<1>2. Queued' = Queued /\ Readers' = Readers /\ InflightCounts' /\ QueueBounded'
    BY <1>1, CountsUnmoved DEF Readers
<1>3. TypeOK'
    BY <1>1 DEF TypeOK, Phases, Signal, Drained, NotDrained, WantLock, SetClosed, Flush,
                FlushTimesOut, Goto
<1>4. closed => closed'
    BY DEF Signal, Drained, NotDrained, WantLock, SetClosed, Flush, FlushTimesOut
<1>5. phase # "exited"
    BY DEF Signal, Drained, NotDrained, WantLock, SetClosed, Flush, FlushTimesOut, Goto
<1>6. flushed' => flushed \/ phase = "flushing"
    BY DEF Signal, Drained, NotDrained, WantLock, SetClosed, Flush, FlushTimesOut, Goto
<1>7. RequestsConsistent' BY <1>1, <1>4, <1>5 DEF RequestsConsistent
<1>8. AnswersKept' BY <1>1, <1>5, <1>6 DEF AnswersKept, RequestsConsistent
<1>9. GracefulClosesLast'
  <2>1. graceful' => graceful \/ phase = "draining"
      BY DEF Signal, Drained, NotDrained, WantLock, SetClosed, Flush, FlushTimesOut, Goto
  <2>2. phase = "draining" => \A r \in Requests : answer[r] # 503
      BY DEF RequestsConsistent, ClosedConsistent
  <2> QED BY <2>1, <2>2, <1>1 DEF GracefulClosesLast
<1>10. ClosedConsistent'
    BY <1>1, <1>2 DEF TypeOK, ClosedConsistent, Signal, Drained, NotDrained, WantLock,
                      SetClosed, Flush, FlushTimesOut, Goto
<1> QED BY <1>2, <1>3, <1>7, <1>8, <1>9, <1>10

LEMMA ExitStep == ASSUME IInv, Exit PROVE IInv'
<1> USE DEF IInv
<1> USE DEF Exit, Goto
<1>1. Queued' = {} BY DEF Queued
<1>2. Counted' = Counted BY DEF Counted
<1>3. Cardinality(Queued') = 0 BY <1>1, FS_EmptySet
<1>4. InflightCounts' /\ inflight' \in Nat
    BY <1>2, <1>3, FiniteParts DEF InflightCounts
<1>5. TypeOK' BY <1>4 DEF TypeOK, Fates, Phases
<1>6. QueueBounded'
  <2>1. Placed' \subseteq Placed BY <1>1 DEF Placed
  <2>2. Cardinality(Placed') <= Cardinality(Placed) /\ Cardinality(Placed') \in Nat
      BY <2>1, FiniteParts, FS_Subset, FS_CardinalityType
  <2> QED BY <2>2, FiniteParts, EventPublisherAssumption DEF QueueBounded
<1>7. AnswersKept' BY DEF AnswersKept, ClosedConsistent, Queued
<1>8. GracefulClosesLast' BY DEF GracefulClosesLast
<1>9. RequestsConsistent' BY DEF RequestsConsistent, Queued
<1>10. ClosedConsistent' BY <1>1 DEF ClosedConsistent, Readers
<1> QED BY <1>4, <1>5, <1>6, <1>7, <1>8, <1>9, <1>10

LEMMA StutterStep == ASSUME IInv, UNCHANGED vars PROVE IInv'
<1> USE DEF vars, serverVars
<1>1. Queued' = Queued /\ InflightCounts' /\ QueueBounded' BY CountsUnmoved
<1> QED BY <1>1 DEF IInv, TypeOK, AnswersKept, GracefulClosesLast, RequestsConsistent,
                    ClosedConsistent, Readers

LEMMA NextIInv == IInv /\ [Next]_vars => IInv'
<1> SUFFICES ASSUME IInv, [Next]_vars PROVE IInv'
    OBVIOUS
<1>1. ASSUME NEW r \in Requests, Arrive(r) PROVE IInv' BY <1>1, ArriveStep
<1>2. ASSUME NEW r \in Requests, Handle(r) PROVE IInv'
    BY <1>2, RefuseBodyStep, RLockStep, AddStep, TakeBackStep, ProduceStep, AcceptStep DEF Handle
<1>3. ASSUME NEW r \in Requests, Broker(r) PROVE IInv' BY <1>3, DeliverStep DEF Broker
<1>4. CASE Signal \/ Shutdown BY <1>4, ShutdownStep, ExitStep DEF Shutdown
<1>5. CASE UNCHANGED vars BY <1>5, StutterStep
<1> QED BY <1>1, <1>2, <1>3, <1>4, <1>5 DEF Next

-----------------------------------------------------------------------------
\* The inductive invariant holds in every reachable state.
THEOREM PublisherInvariant == Spec => []IInv
<1> QED BY InitIInv, NextIInv, PTL DEF Spec

\* The counter of events in flight never drifts from what it counts, whatever
\* is rejected, delivered, given up or dropped.
THEOREM PublisherInflightCounts == Spec => []InflightCounts
<1>1. IInv => InflightCounts BY DEF IInv
<1> QED BY <1>1, PublisherInvariant, PTL

\* The buffer never holds more than Limit events, without a lock around the
\* comparison.
THEOREM PublisherQueueBounded == Spec => []QueueBounded
<1>1. IInv => QueueBounded BY DEF IInv
<1> QED BY <1>1, PublisherInvariant, PTL

\* What each answer says of the event stays true until the process has ended.
THEOREM PublisherAnswersKept == Spec => []AnswersKept
<1>1. IInv => AnswersKept BY DEF IInv
<1> QED BY <1>1, PublisherInvariant, PTL

\* A graceful shutdown turns nobody away.
THEOREM PublisherGracefulClosesLast == Spec => []GracefulClosesLast
<1>1. IInv => GracefulClosesLast BY DEF IInv
<1> QED BY <1>1, PublisherInvariant, PTL

\* Once Close has begun to flush, nothing is queued behind its back.
THEOREM PublisherNothingQueuedAfterClose == Spec => NothingQueuedAfterClose
<1> DEFINE Kept == closed => \A r \in Requests : fate'[r] = "queued" => fate[r] = "queued"
<1>1. ASSUME IInv, [Next]_vars PROVE [Kept]_vars
  <2> SUFFICES ASSUME Next, closed, NEW r \in Requests, fate'[r] = "queued", fate[r] # "queued"
               PROVE  FALSE
      BY <1>1
  <2>1. fate'[r] # fate[r] /\ fate \in [Requests -> Fates] BY <1>1 DEF IInv, TypeOK
  <2>2. ASSUME NEW q \in Requests,
               \/ Arrive(q) \/ RefuseBody(q) \/ RLock(q)
               \/ Add(q) \/ TakeBack(q) \/ Accept(q)
        PROVE  FALSE
      BY <2>1, <2>2 DEF Arrive, RefuseBody, RLock, Add, TakeBack, Accept
  <2>3. ASSUME NEW q \in Requests, Produce(q) PROVE FALSE
      BY <1>1, <2>3 DEF Produce, Step, IInv, ClosedConsistent, Readers
  <2>4. ASSUME NEW q \in Requests, NEW end \in {"delivered", "failed"}, Deliver(q, end) PROVE FALSE
      BY <2>1, <2>4 DEF Deliver
  <2>5. CASE Signal \/ Drained \/ NotDrained \/ WantLock \/ SetClosed \/ Flush \/ FlushTimesOut
      BY <2>1, <2>5 DEF Signal, Drained, NotDrained, WantLock, SetClosed, Flush, FlushTimesOut, Rest
  <2>6. CASE Exit BY <2>1, <2>6 DEF Exit
  <2> QED BY <2>2, <2>3, <2>4, <2>5, <2>6 DEF Next, Handle, Broker, Shutdown
<1>2. Spec => [][Kept]_vars BY <1>1, PublisherInvariant, PTL DEF Spec
<1> QED BY <1>2 DEF NothingQueuedAfterClose
=============================================================================
