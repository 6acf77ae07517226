------------------------- MODULE MusicBrainzProofs -------------------------
(***************************************************************************)
(* Proofs about the rate limiter of MusicBrainz, for every set of lookups, *)
(* interval, cap and Retry-After.                                          *)
(***************************************************************************)
EXTENDS MusicBrainz, TLAPS

USE MusicBrainzAssumption

\* The pause due fits under Longest, and is what release leaves in the slot.
LEMMA DueBounded ==
  ASSUME TypeOK
  PROVE  /\ Longest \in Nat \ {0} /\ Due \in Nat /\ Due <= Longest
         /\ Due >= Interval /\ Due >= Smaller(asked, MaxRetryAfter)
BY DEF TypeOK, Longest, Due, Larger, Smaller

LEMMA InitIInv == Init => IInv
<1> SUFFICES ASSUME Init PROVE IInv
    OBVIOUS
<1>1. TypeOK BY DEF Init, TypeOK, Replies, Results, Longest, Larger
<1>2. OneTurn BY DEF Init, OneTurn, Holders
<1>3. PauseBounded BY <1>1, DueBounded DEF Init, PauseBounded, Holders
<1>4. PauseDue BY <1>1, DueBounded DEF Init, PauseDue
<1> QED BY <1>1, <1>2, <1>3, <1>4 DEF IInv

\* Steps that neither move the turn nor the pauses: "pc" may change, but not
\* into or out of the places of a holder.
LEMMA TurnUntouched ==
  ASSUME IInv, TypeOK', UNCHANGED <<slot, pause, sinceEnd, asked>>,
         \A l \in Lookups : pc'[l] # pc[l] => {pc[l], pc'[l]} \cap {"pausing", "requesting"} = {}
  PROVE  IInv'
<1> USE DEF IInv
<1>1. \A l \in Lookups :
         /\ pc'[l] \in {"pausing", "requesting"} <=> pc[l] \in {"pausing", "requesting"}
         /\ pc'[l] = "pausing" <=> pc[l] = "pausing"
    OBVIOUS
<1>2. Holders' = Holders BY <1>1 DEF Holders
<1>3. OneTurn' BY <1>2 DEF OneTurn
<1>4. Longest' = Longest /\ Due' = Due BY DEF Longest, Due
<1>5. PauseBounded' BY <1>2, <1>4 DEF PauseBounded
<1>6. PauseDue' BY <1>1, <1>4 DEF PauseDue
<1> QED BY <1>3, <1>5, <1>6

LEMMA StartStep ==
  ASSUME IInv, NEW l \in Lookups, NEW s \in {"tagged", "artist"}, Start(l, s) PROVE IInv'
<1>1. TypeOK' BY DEF IInv, TypeOK, Start, limiterVars, history, Results
<1> QED BY <1>1, TurnUntouched DEF IInv, TypeOK, Start, limiterVars, history

LEMMA TakeStep == ASSUME IInv, NEW l \in Lookups, Take(l) PROVE IInv'
<1> USE DEF IInv
<1> USE DEF Take, lookupVars, history
<1>1. TypeOK' BY DEF TypeOK
<1>2. Holders' = {l} BY DEF TypeOK, OneTurn, Holders
<1>3. OneTurn' BY <1>2 DEF OneTurn
<1>4. PauseBounded' BY <1>2 DEF TypeOK, PauseBounded, Longest
<1>5. PauseDue'
    BY <1>2 DEF TypeOK, OneTurn, Holders, PauseDue, Due
<1> QED BY <1>1, <1>3, <1>4, <1>5

LEMMA SendStep == ASSUME IInv, NEW l \in Lookups, Send(l) PROVE IInv'
<1> USE DEF IInv
<1> USE DEF Send, limiterVars, lookupVars, history
<1>1. TypeOK' BY DEF TypeOK
<1>2. Holders' = Holders BY DEF TypeOK, Holders
<1>3. OneTurn' BY <1>2 DEF OneTurn
<1>4. PauseBounded' BY <1>2 DEF PauseBounded, Longest
<1>5. PauseDue' BY DEF TypeOK, PauseDue, Due
<1> QED BY <1>1, <1>3, <1>4, <1>5

LEMMA StopQueueingStep == ASSUME IInv, NEW l \in Lookups, StopQueueing(l) PROVE IInv'
<1>1. TypeOK' BY DEF IInv, TypeOK, StopQueueing, GivesUp, limiterVars, history, Replies
<1> QED BY <1>1, TurnUntouched DEF IInv, TypeOK, StopQueueing, GivesUp, limiterVars, history

\* The turn and the pause go back into the slot together.
LEMMA StopPausingStep == ASSUME IInv, NEW l \in Lookups, StopPausing(l) PROVE IInv'
<1> USE DEF IInv
<1> USE DEF StopPausing, GivesUp, history
<1>1. TypeOK' BY DEF TypeOK, Replies
<1>2. Holders = {l} BY DEF OneTurn, Holders, TypeOK
<1>3. Holders' = {} BY <1>2 DEF TypeOK, Holders
<1>4. pause[l] \in Nat /\ slot' \in Nat BY DEF TypeOK
<1>5. OneTurn' BY <1>3, <1>4 DEF OneTurn
<1>6. PauseBounded' BY <1>2, <1>3 DEF PauseBounded, Longest
<1>7. PauseDue' BY <1>2, <1>3 DEF TypeOK, Holders, PauseDue, Due
<1> QED BY <1>1, <1>5, <1>6, <1>7

LEMMA RespondStep ==
  ASSUME IInv, NEW l \in Lookups, NEW r \in Replies, NEW ra \in RetryAfters, Respond(l, r, ra)
  PROVE  IInv'
<1> USE DEF IInv
<1> USE DEF Respond
<1>1. Backoff(ra) \in Nat BY DEF Backoff, Larger, Smaller
<1>2. TypeOK' BY <1>1, DueBounded DEF TypeOK, Longest, Larger
<1>3. Holders = {l} BY DEF OneTurn, Holders, TypeOK
<1>4. Holders' = {} BY <1>3 DEF TypeOK, Holders
<1>5. OneTurn' BY <1>1, <1>4 DEF OneTurn
<1>6. Due' = slot' BY DEF Due, Backoff
<1>7. PauseBounded'
  <2>1. Due' <= Longest' BY <1>2 DEF TypeOK, Due, Longest, Larger, Smaller
  <2> QED BY <2>1, <1>4, <1>6 DEF PauseBounded
<1>8. PauseDue' BY <1>1, <1>4, <1>6 DEF PauseDue, Holders
<1> QED BY <1>2, <1>5, <1>7, <1>8

\* What a lookup does between its requests does not touch the limiter.
LEMMA DecideStep ==
  ASSUME IInv, NEW l \in Lookups, Retry(l) \/ SearchPlain(l) \/ Return(l) PROVE IInv'
<1>1. TypeOK'
  <2>1. CASE Retry(l)
      BY <2>1 DEF IInv, TypeOK, Retry, Retryable, limiterVars, history, Replies
  <2>2. CASE SearchPlain(l)
      BY <2>2 DEF IInv, TypeOK, SearchPlain, limiterVars, history, Replies
  <2>3. CASE Return(l)
    <3>1. Outcome(stage[l], reply[l]) \in Results BY DEF Outcome, Results
    <3> QED BY <2>3, <3>1 DEF IInv, TypeOK, Return, limiterVars, history, Replies
  <2> QED BY <2>1, <2>2, <2>3
<1>2. UNCHANGED <<slot, pause, sinceEnd, asked>>
    BY DEF Retry, SearchPlain, Return, limiterVars, history
<1>3. pc[l] = "deciding" /\ pc' = [pc EXCEPT ![l] = pc'[l]] /\ pc'[l] \in {"queued", "idle"}
    BY DEF IInv, TypeOK, Retry, SearchPlain, Return
<1> QED BY <1>1, <1>2, <1>3, TurnUntouched DEF IInv, TypeOK

LEMMA ContextEndsStep == ASSUME IInv, NEW l \in Lookups, ContextEnds(l) PROVE IInv'
<1>1. TypeOK' BY DEF IInv, TypeOK, ContextEnds, limiterVars, lookupVars, history
<1> QED BY <1>1, TurnUntouched DEF ContextEnds, limiterVars, history

\* As time passes, what is left of a pause and what has passed of it add up.
LEMMA TickStep == ASSUME IInv, Tick PROVE IInv'
<1> USE DEF IInv
<1> USE DEF Tick, lookupVars
<1>1. /\ Longest \in Nat \ {0} /\ Due \in Nat /\ Due <= Longest
      /\ Longest' = Longest /\ Due' = Due
    BY DueBounded DEF Longest, Due
<1>2. TypeOK'
  <2>1. slot' \in Nat \cup {Taken} BY DEF TypeOK
  <2>2. pause' \in [Lookups -> Nat] BY DEF TypeOK
  <2>3. sinceEnd' \in 0 .. Longest BY <1>1 DEF TypeOK, Smaller
  <2> QED BY <2>1, <2>2, <2>3, <1>1 DEF TypeOK
<1>3. Holders' = Holders /\ (slot' = Taken <=> slot = Taken)
    BY DEF Holders, TypeOK
<1>4. OneTurn' BY <1>3 DEF OneTurn
<1>5. PauseBounded'
    BY <1>1, <1>3 DEF TypeOK, PauseBounded, Holders
<1>6. PauseDue'
  <2>1. sinceEnd' = Longest \/ sinceEnd' = sinceEnd + 1
      BY <1>1 DEF TypeOK, Smaller
  <2>2. slot' # Taken => sinceEnd' + slot' >= Due
      BY <2>1, <1>1, <1>3 DEF TypeOK, PauseDue
  <2>3. ASSUME NEW l \in Lookups, pc[l] = "pausing" PROVE sinceEnd' + pause'[l] >= Due
      BY <2>1, <2>3, <1>1 DEF TypeOK, PauseDue
  <2> QED BY <2>2, <2>3, <1>1 DEF PauseDue
<1> QED BY <1>2, <1>4, <1>5, <1>6

LEMMA StutterStep == ASSUME IInv, UNCHANGED vars PROVE IInv'
<1>1. TypeOK' BY DEF IInv, TypeOK, vars, limiterVars, lookupVars, history, Longest
<1> QED BY <1>1, TurnUntouched DEF vars, limiterVars, history

LEMMA NextIInv == IInv /\ [Next]_vars => IInv'
<1> SUFFICES ASSUME IInv, [Next]_vars PROVE IInv'
    OBVIOUS
<1>1. CASE Tick BY <1>1, TickStep
<1>2. ASSUME NEW l \in Lookups, NEW s \in {"tagged", "artist"}, Start(l, s) PROVE IInv'
    BY <1>2, StartStep
<1>3. ASSUME NEW l \in Lookups, Take(l) PROVE IInv' BY <1>3, TakeStep
<1>4. ASSUME NEW l \in Lookups, LookupStep(l) PROVE IInv'
    BY <1>4, SendStep, RespondStep, DecideStep DEF LookupStep, Response
<1>5. ASSUME NEW l \in Lookups, GiveUp(l) PROVE IInv'
    BY <1>5, StopQueueingStep, StopPausingStep DEF GiveUp
<1>6. ASSUME NEW l \in Lookups, ContextEnds(l) PROVE IInv' BY <1>6, ContextEndsStep
<1>7. CASE UNCHANGED vars BY <1>7, StutterStep
<1> QED BY <1>1, <1>2, <1>3, <1>4, <1>5, <1>6, <1>7 DEF Next

\* The inductive invariant holds in every reachable state.
THEOREM LimiterInvariant == Spec => []IInv
<1> QED BY InitIInv, NextIInv, PTL DEF Spec

\* The limiter lets one request through at a time, and loses no turn, however
\* many lookups queue and whenever they give up.
THEOREM LimiterOneTurn == Spec => []OneTurn
<1>1. IInv => OneTurn BY DEF IInv
<1> QED BY <1>1, LimiterInvariant, PTL

\* No Retry-After, however long, stalls the queue for longer than the cap or
\* the regular interval.
THEOREM LimiterPauseBounded == Spec => []PauseBounded
<1>1. IInv => PauseBounded BY DEF IInv
<1> QED BY <1>1, LimiterInvariant, PTL

\* Every request keeps the pause due since the one before it, whoever was told
\* to wait and whoever gave up meanwhile.
THEOREM LimiterPausesKept == Spec => PausesKept
<1> DEFINE Kept == \A l \in Lookups : pc[l] # "requesting" /\ pc'[l] = "requesting" =>
                      sinceEnd >= Interval /\ sinceEnd >= Smaller(asked, MaxRetryAfter)
<1>1. ASSUME IInv, [Next]_vars PROVE [Kept]_vars
  <2> SUFFICES ASSUME Next, NEW l \in Lookups, pc[l] # "requesting", pc'[l] = "requesting"
               PROVE  sinceEnd >= Interval /\ sinceEnd >= Smaller(asked, MaxRetryAfter)
      BY <1>1
  <2>1. PICK m \in Lookups : Take(m) \/ Send(m)
      BY <1>1 DEF Next, LookupStep, Response, GiveUp, Tick, Start, Respond, Retry, SearchPlain,
                  Return, StopQueueing, StopPausing, GivesUp, ContextEnds, IInv, TypeOK
  <2>2. m = l BY <2>1, <1>1 DEF Take, Send, IInv, TypeOK
  <2>3. sinceEnd >= Due
    <3>1. CASE Take(l) BY <3>1, <1>1 DEF Take, IInv, TypeOK, PauseDue
    <3>2. CASE Send(l)
        BY <3>2, <1>1, DueBounded DEF Send, IInv, TypeOK, PauseDue
    <3> QED BY <2>1, <2>2, <3>1, <3>2
  <2> QED BY <2>3, <1>1, DueBounded DEF IInv, TypeOK, Smaller
<1>2. Spec => [][Kept]_vars BY <1>1, LimiterInvariant, PTL DEF Spec
<1> QED BY <1>2 DEF PausesKept

-----------------------------------------------------------------------------
(* The results.                                                            *)

LEMMA RepliesFitStep ==
  ASSUME TypeOK, RepliesFit, [Next]_vars PROVE RepliesFit'
<1>1. ASSUME NEW l \in Lookups, Retry(l) \/ SearchPlain(l) \/ Return(l) PROVE RepliesFit'
    BY <1>1 DEF TypeOK, RepliesFit, Retry, SearchPlain, Return
<1>2. ASSUME NEW l \in Lookups, NEW r \in Replies, NEW ra \in RetryAfters, Respond(l, r, ra)
      PROVE  RepliesFit'
    BY <1>2 DEF TypeOK, RepliesFit, Respond
<1>3. ASSUME NEW l \in Lookups, StopQueueing(l) \/ StopPausing(l) PROVE RepliesFit'
  <2>1. stage[l] = "artist" => reply'[l] # "none"
      BY <1>3 DEF TypeOK, StopQueueing, StopPausing, GivesUp
  <2> QED BY <1>3, <2>1 DEF TypeOK, RepliesFit, StopQueueing, StopPausing, GivesUp
<1>4. ASSUME NEW l \in Lookups, Take(l) \/ Send(l) \/ ContextEnds(l) PROVE RepliesFit'
    BY <1>4 DEF TypeOK, RepliesFit, Take, Send, ContextEnds, lookupVars
<1>5. ASSUME NEW l \in Lookups, NEW s \in {"tagged", "artist"}, Start(l, s) PROVE RepliesFit'
    BY <1>5 DEF TypeOK, RepliesFit, Start
<1>6. CASE Tick \/ UNCHANGED vars BY <1>6 DEF RepliesFit, Tick, vars, lookupVars
<1> QED BY <1>1, <1>2, <1>3, <1>4, <1>5, <1>6 DEF Next, LookupStep, Response, GiveUp

\* "Not found" is never what an outage looks like, and one unavailability or
\* network error alone fails no lookup, whatever MusicBrainz answers.
THEOREM LookupResultsHonest == Spec => ResultsHonest
<1> DEFINE Honest == \A l \in Lookups : result'[l] # result[l] =>
                        /\ result'[l] = "notfound" => stage[l] = "plain" /\ reply[l] = "none"
                        /\ result'[l] = "failed" => \/ ended[l] \/ try[l] = 2
                                                    \/ reply[l] \in {"status", "garbled", "nosuch"}
<1>1. Init => RepliesFit BY DEF Init, RepliesFit
<1>2. IInv => TypeOK BY DEF IInv
<1>3. Spec => [](TypeOK /\ RepliesFit)
    BY <1>1, <1>2, RepliesFitStep, LimiterInvariant, PTL DEF Spec
<1>4. ASSUME TypeOK, RepliesFit, [Next]_vars PROVE [Honest]_vars
  <2> SUFFICES ASSUME Next, NEW l \in Lookups, result'[l] # result[l], result'[l] # "pending"
               PROVE  /\ result'[l] = "notfound" => stage[l] = "plain" /\ reply[l] = "none"
                      /\ result'[l] = "failed" => \/ ended[l] \/ try[l] = 2
                                                  \/ reply[l] \in {"status", "garbled", "nosuch"}
      BY <1>4
  <2>1. result \in [Lookups -> Results] BY <1>4 DEF TypeOK
  <2>2. ASSUME NEW m \in Lookups, NEW s \in {"tagged", "artist"}, Start(m, s) PROVE FALSE
      BY <2>1, <2>2 DEF Start
  <2>3. ASSUME NEW m \in Lookups, Take(m) \/ GiveUp(m) \/ ContextEnds(m) PROVE FALSE
      BY <2>3 DEF Take, GiveUp, StopQueueing, StopPausing, GivesUp, ContextEnds, lookupVars
  <2>4. ASSUME NEW m \in Lookups, Send(m) \/ Response(m) \/ Retry(m) \/ SearchPlain(m) PROVE FALSE
      BY <2>4 DEF Send, Response, Respond, Retry, SearchPlain, lookupVars
  <2>5. ASSUME Tick PROVE FALSE BY <2>5 DEF Tick, lookupVars
  <2>6. PICK m \in Lookups : Return(m) BY <2>2, <2>3, <2>4, <2>5 DEF Next, LookupStep
  <2>7. m = l /\ result'[l] = Outcome(stage[l], reply[l])
      BY <2>1, <2>6 DEF Return
  <2>8. /\ pc[l] = "deciding" /\ ~Retryable(l) /\ ~(stage[l] = "tagged" /\ reply[l] = "none")
        /\ stage[l] \in {"tagged", "plain", "artist"} /\ reply[l] \in Replies /\ try[l] \in {1, 2}
      BY <1>4, <2>6, <2>7 DEF Return, TypeOK
  <2>9. Outcome(stage[l], reply[l]) = "notfound" => stage[l] = "plain" /\ reply[l] = "none"
      BY DEF Outcome
  <2>10. Outcome(stage[l], reply[l]) = "failed" =>
           reply[l] \in {"503", "network", "ctx", "status", "garbled", "nosuch"}
      BY <1>4, <2>8 DEF Outcome, Replies, RepliesFit
  <2>11. reply[l] \in {"503", "network"} => ended[l] \/ try[l] = 2
      BY <2>8 DEF Retryable
  <2>12. reply[l] = "ctx" => ended[l] BY <1>4, <2>8 DEF RepliesFit
  <2> QED BY <2>7, <2>9, <2>10, <2>11, <2>12
<1>5. Spec => [][Honest]_vars BY <1>3, <1>4, PTL DEF Spec
<1> QED BY <1>5 DEF ResultsHonest
=============================================================================
