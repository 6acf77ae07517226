----------------------------- MODULE MusicBrainz -----------------------------
(***************************************************************************)
(* src/internal/provider/musicbrainz.go: the client of the MusicBrainz web *)
(* service and the rate limiter all of its lookups queue behind.           *)
(*                                                                         *)
(* A lookup is SearchTrack (a search restricted to tagged recordings, then *)
(* a plain one) or ArtistTags; each of its GETs is tried at most twice,    *)
(* and each try takes its turn at the limiter.  Time passes in ticks; a    *)
(* point in time is kept as the number of ticks until it.                  *)
(***************************************************************************)
EXTENDS Naturals

CONSTANTS Lookups,         \* goroutines looking something up
          Interval,        \* rateLimiter.interval
          MaxRetryAfter,   \* Client.maxRetryAfter
          RetryAfters,     \* what a Retry-After header may ask for, 0 if absent
          Taken            \* rateLimiter.slot is empty: somebody has the turn

ASSUME MusicBrainzAssumption == /\ Interval \in Nat \ {0}
                                /\ MaxRetryAfter \in Nat
                                /\ RetryAfters \subseteq Nat /\ 0 \in RetryAfters
                                /\ Taken \notin Nat

VARIABLES slot,     \* the time in the slot, or Taken
          pc,       \* where a lookup is
          stage,    \* which GET it is at
          try,      \* the first or the second attempt at it
          pause,    \* ticks until the holder of the turn may send
          reply,    \* how the last attempt ended
          result,   \* what the lookup returned, "pending" until it does
          ended,    \* the lookup's context has ended
          sinceEnd, \* history: ticks since the last turn used ended, up to Longest
          asked     \* history: the pause MusicBrainz asked for then

limiterVars == <<slot, pause>>
lookupVars == <<stage, try, reply, result>>
history == <<sinceEnd, asked>>
vars == <<limiterVars, pc, lookupVars, ended, history>>

Larger(m, n) == IF m < n THEN n ELSE m
Smaller(m, n) == IF m < n THEN m ELSE n
Longest == Larger(Interval, MaxRetryAfter)

\* How an attempt may end.  "none" and "some": the answer could be read, and
\* matched nothing or something; "ctx": acquire gave up.
Replies == {"some", "none", "nosuch", "503", "status", "garbled", "network", "ctx"}
Results == {"found", "untagged", "notfound", "failed", "pending"}

TypeOK == /\ slot \in Nat \cup {Taken}
          /\ pc \in [Lookups -> {"idle", "queued", "pausing", "requesting", "deciding"}]
          /\ stage \in [Lookups -> {"tagged", "plain", "artist"}]
          /\ try \in [Lookups -> {1, 2}]
          /\ pause \in [Lookups -> Nat]
          /\ reply \in [Lookups -> Replies]
          /\ result \in [Lookups -> Results]
          /\ ended \in [Lookups -> BOOLEAN]
          /\ sinceEnd \in 0 .. Longest /\ asked \in Nat

Init == /\ slot = 0
        /\ pc = [l \in Lookups |-> "idle"]
        /\ stage = [l \in Lookups |-> "tagged"]
        /\ try = [l \in Lookups |-> 1]
        /\ pause = [l \in Lookups |-> 0]
        /\ reply = [l \in Lookups |-> "ctx"]
        /\ result = [l \in Lookups |-> "pending"]
        /\ ended = [l \in Lookups |-> FALSE]
        /\ sinceEnd = Longest /\ asked = 0

-----------------------------------------------------------------------------
(* The rate limiter.                                                       *)

\* SearchTrack or ArtistTags is called, with a context of its own.
Start(l, s) == /\ pc[l] = "idle"
               /\ s \in {"tagged", "artist"}
               /\ pc' = [pc EXCEPT ![l] = "queued"]
               /\ stage' = [stage EXCEPT ![l] = s]
               /\ result' = [result EXCEPT ![l] = "pending"]
               /\ UNCHANGED <<limiterVars, try, reply, ended, history>>

\* acquire takes the time out of the slot, and the turn with it; unless that
\* time is past it goes on to wait for it.
Take(l) == /\ pc[l] = "queued"
           /\ slot # Taken
           /\ pause' = [pause EXCEPT ![l] = slot]
           /\ pc' = [pc EXCEPT ![l] = IF slot > 0 THEN "pausing" ELSE "requesting"]
           /\ slot' = Taken
           /\ UNCHANGED <<lookupVars, ended, history>>

\* The timer of acquire fires.
Send(l) == /\ pc[l] = "pausing"
           /\ pause[l] = 0
           /\ pc' = [pc EXCEPT ![l] = "requesting"]
           /\ UNCHANGED <<limiterVars, lookupVars, ended, history>>

GivesUp(l) == /\ ended[l]
              /\ reply' = [reply EXCEPT ![l] = "ctx"]
              /\ pc' = [pc EXCEPT ![l] = "deciding"]
              /\ UNCHANGED <<stage, try, result, ended, history>>

\* Bug: acquire looks at its context only once it has the turn.
StopQueueing_NeedsTurn(l) == /\ pc[l] = "queued" /\ slot # Taken
                             /\ GivesUp(l)
                             /\ UNCHANGED limiterVars

\* acquire stops waiting for its turn ...
StopQueueing(l) == /\ pc[l] = "queued"
                   /\ GivesUp(l)
                   /\ UNCHANGED limiterVars

\* Bug: the pause is lost with the turn that is handed back.
StopPausing_LosesPause(l) == /\ pc[l] = "pausing"
                             /\ GivesUp(l)
                             /\ slot' = 0
                             /\ UNCHANGED pause

\* Bug: the turn is not handed back.
StopPausing_KeepsTurn(l) == /\ pc[l] = "pausing"
                            /\ GivesUp(l)
                            /\ UNCHANGED <<slot, pause>>

\* ... or, having it, for the pause to pass: the turn was not used, the pause
\* still stands.
StopPausing(l) == /\ pc[l] = "pausing"
                  /\ GivesUp(l)
                  /\ slot' = pause[l]
                  /\ pause' = [pause EXCEPT ![l] = 0]

\* release: the pause until the next request, from attempt's capped backoff.
Backoff(retryAfter) == Larger(Interval, Smaller(retryAfter, MaxRetryAfter))

\* attempt gets its response, or none ("network": it was refused, timed out or
\* its context ended), and ends its turn.
Respond(l, r, retryAfter) ==
    /\ pc[l] = "requesting"
    /\ r \in Replies \ {"ctx"}
    /\ stage[l] = "artist" => r # "none"
    /\ retryAfter # 0 => r \in {"503", "status"}
    /\ reply' = [reply EXCEPT ![l] = r]
    /\ pc' = [pc EXCEPT ![l] = "deciding"]
    /\ slot' = Backoff(retryAfter)
    /\ sinceEnd' = 0
    /\ asked' = retryAfter
    /\ UNCHANGED <<pause, stage, try, result, ended>>

-----------------------------------------------------------------------------
(* What the lookup makes of it.                                            *)

\* Bug: retries are not counted.
Retryable_Always(l) == ~ended[l] /\ reply[l] \in {"503", "network"}

Retryable(l) == ~ended[l] /\ try[l] = 1 /\ reply[l] \in {"503", "network"}

\* getJSON retries, once.
Retry(l) == /\ pc[l] = "deciding"
            /\ Retryable(l)
            /\ try' = [try EXCEPT ![l] = @ + 1]
            /\ pc' = [pc EXCEPT ![l] = "queued"]
            /\ reply' = [reply EXCEPT ![l] = "ctx"]
            /\ UNCHANGED <<limiterVars, stage, result, ended, history>>

\* No tagged recording matches: SearchTrack goes on to the plain search.
SearchPlain(l) == /\ pc[l] = "deciding"
                  /\ stage[l] = "tagged" /\ reply[l] = "none"
                  /\ stage' = [stage EXCEPT ![l] = "plain"]
                  /\ try' = [try EXCEPT ![l] = 1]
                  /\ pc' = [pc EXCEPT ![l] = "queued"]
                  /\ reply' = [reply EXCEPT ![l] = "ctx"]
                  /\ UNCHANGED <<limiterVars, result, ended, history>>

\* Bug: a search that could not be made is reported as "not found".
Outcome_FailureIsAbsence(s, r) == CASE r = "some" -> "found"
                                    [] r = "nosuch" /\ s = "artist" -> "untagged"
                                    [] OTHER -> "notfound"

\* What a lookup returns when its last GET, at stage s, ended with r.  A 404 on
\* an artist is an artist without tags, on a search it is an error.
Outcome(s, r) == CASE r = "some" /\ s # "plain" -> "found"
                   [] r = "some" /\ s = "plain" -> "untagged"
                   [] r = "none" /\ s = "plain" -> "notfound"
                   [] r = "nosuch" /\ s = "artist" -> "untagged"
                   [] OTHER -> "failed"

Return(l) == /\ pc[l] = "deciding"
             /\ ~Retryable(l)
             /\ ~(stage[l] = "tagged" /\ reply[l] = "none")
             /\ result' = [result EXCEPT ![l] = Outcome(stage[l], reply[l])]
             /\ pc' = [pc EXCEPT ![l] = "idle"]
             /\ stage' = [stage EXCEPT ![l] = "tagged"]
             /\ try' = [try EXCEPT ![l] = 1]
             /\ reply' = [reply EXCEPT ![l] = "ctx"]
             /\ ended' = [ended EXCEPT ![l] = FALSE]
             /\ UNCHANGED <<limiterVars, history>>

-----------------------------------------------------------------------------
ContextEnds(l) == /\ pc[l] # "idle"
                  /\ ~ended[l]
                  /\ ended' = [ended EXCEPT ![l] = TRUE]
                  /\ UNCHANGED <<limiterVars, pc, lookupVars, history>>

Tick == /\ slot' = IF slot \in Nat \ {0} THEN slot - 1 ELSE slot
        /\ pause' = [l \in Lookups |-> IF pause[l] > 0 THEN pause[l] - 1 ELSE 0]
        /\ sinceEnd' = Smaller(sinceEnd + 1, Longest)
        /\ UNCHANGED <<pc, lookupVars, ended, asked>>

Response(l) == \E r \in Replies, ra \in RetryAfters : Respond(l, r, ra)
LookupStep(l) == Send(l) \/ Response(l) \/ Retry(l) \/ SearchPlain(l) \/ Return(l)
GiveUp(l) == StopQueueing(l) \/ StopPausing(l)

Next == \/ Tick
        \/ \E l \in Lookups : \/ \E s \in {"tagged", "artist"} : Start(l, s)
                              \/ Take(l) \/ LookupStep(l) \/ GiveUp(l) \/ ContextEnds(l)

Spec == Init /\ [][Next]_vars

\* A lookup that can give up does.
FairSpec == Spec /\ \A l \in Lookups : WF_vars(GiveUp(l))

\* Requests are answered or time out (http.Client.Timeout), goroutines run and
\* time passes.  The goroutines blocked on the slot are served in turn: Go
\* queues the receivers of a channel, so none is passed over for ever.
RequestsEnd == /\ WF_vars(Tick)
               /\ \A l \in Lookups : WF_vars(LookupStep(l)) /\ SF_vars(Take(l))

-----------------------------------------------------------------------------
(* Properties.                                                             *)

Holders == {l \in Lookups : pc[l] \in {"pausing", "requesting"}}

\* The turn is in the slot or with exactly one lookup: no two requests are in
\* flight at a time, and giving up at any point does not lose the turn.
OneTurn == /\ slot # Taken => Holders = {}
           /\ slot = Taken => \E l \in Holders : Holders = {l}

\* A request starts at least Interval after the last one ended, and no earlier
\* than MusicBrainz asked for with Retry-After, up to the cap, whoever it told
\* and whoever gave up in between (musicbrainz.go:333-335, 599-602).
PausesKept ==
    [][\A l \in Lookups : pc[l] # "requesting" /\ pc'[l] = "requesting" =>
          sinceEnd >= Interval /\ sinceEnd >= Smaller(asked, MaxRetryAfter)]_vars

\* "but never stall the queue for longer than maxRetryAfter" (or the regular
\* interval): nobody is ever made to wait longer for a pause to pass.
PauseBounded == /\ slot # Taken => slot <= Longest
                /\ \A l \in Holders : pause[l] <= Longest

\* What is still to wait of the pause due after the last request is in the slot,
\* or with the holder of the turn: a pause is handed back with the turn.
Due == Larger(Interval, Smaller(asked, MaxRetryAfter))
PauseDue == /\ slot # Taken => sinceEnd + slot >= Due
            /\ \A l \in Lookups : pc[l] = "pausing" => sinceEnd + pause[l] >= Due

\* The inductive invariant.
IInv == TypeOK /\ OneTurn /\ PauseBounded /\ PauseDue

\* "Not found" is what the plain search answered, never what an outage looks
\* like; and one unavailability or network error alone fails no lookup.
ResultsHonest ==
    [][\A l \in Lookups : result'[l] # result[l] =>
         /\ result'[l] = "notfound" => stage[l] = "plain" /\ reply[l] = "none"
         /\ result'[l] = "failed" => \/ ended[l] \/ try[l] = 2
                                     \/ reply[l] \in {"status", "garbled", "nosuch"}]_vars

\* What that rests on: an attempt that had no turn belongs to a lookup told to
\* stop, and a request for an artist's tags cannot match nothing.
RepliesFit == \A l \in Lookups : pc[l] = "deciding" =>
                 /\ reply[l] = "ctx" => ended[l]
                 /\ stage[l] = "artist" => reply[l] # "none"

\* Every lookup returns, even if its context never ends and others keep coming.
LookupsReturn == RequestsEnd => \A l \in Lookups : (pc[l] # "idle") ~> (pc[l] = "idle")

\* "Waiting for a turn stops as soon as the caller's context ends": a lookup
\* leaves the queue even while the request in flight hangs.
LeavesQueue == \A l \in Lookups : (pc[l] = "queued" /\ ended[l]) ~> (pc[l] # "queued")
=============================================================================
