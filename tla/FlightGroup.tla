----------------------------- MODULE FlightGroup -----------------------------
(***************************************************************************)
(* src/internal/cache/flight.go: concurrent lookups of one key share one   *)
(* execution of the lookup function.                                       *)
(*                                                                         *)
(* Every section the code runs under flightGroup.mu is one step; so is     *)
(* every select, every return of the shared function, and every closing    *)
(* of a "done" channel.  A caller is a goroutine that makes one call after *)
(* another; a flight is one run of the shared function in its own          *)
(* goroutine, and outlives the map entry it was started for.               *)
(***************************************************************************)
EXTENDS Naturals, FiniteSets

CONSTANTS Callers,    \* goroutines that call do
          Keys,       \* cache keys
          Flights,    \* identities of flights; its size bounds the runs started
          Answers,    \* what fn may end with, errors included; a panic is one of them
          Canceled,   \* the error fn ends with when it was told to stop
          None        \* "no flight", "no key", "no outcome"

ASSUME FlightGroupAssumption == /\ IsFiniteSet(Callers)
                                /\ None \notin Flights \cup Keys \cup Answers \cup {Canceled}
                                /\ Canceled \notin Answers

VARIABLES calls,      \* flightGroup.calls: the flight a new caller of a key joins
          status,     \* where the run of a flight is
          keyOf,      \* the key a flight was started for
          cancelled,  \* the flight's context has been cancelled
          waiters,    \* flight.waiters
          outcome,    \* flight.value / flight.err, once fn has returned
          pc,         \* where a caller is in do
          want,       \* the key a caller asks for
          on,         \* the flight a caller is attached to
          ended       \* the caller's own context has ended

flightVars == <<calls, status, keyOf, cancelled, waiters, outcome>>
callerVars == <<pc, want, on, ended>>
vars == <<flightVars, callerVars>>

Outcomes == Answers \cup {Canceled}

Statuses == {"unused", "running", "returned", "freed", "closed"}
Attached(f) == {c \in Callers : on[c] = f}

TypeOK == /\ calls \in [Keys -> Flights \cup {None}]
          /\ status \in [Flights -> Statuses]
          /\ keyOf \in [Flights -> Keys \cup {None}]
          /\ cancelled \in [Flights -> BOOLEAN]
          /\ waiters \in [Flights -> Nat]
          /\ outcome \in [Flights -> Outcomes \cup {None}]
          /\ pc \in [Callers -> {"idle", "entering", "waiting", "leaving"}]
          /\ want \in [Callers -> Keys \cup {None}]
          /\ on \in [Callers -> Flights \cup {None}]
          /\ ended \in [Callers -> BOOLEAN]

Init == /\ calls = [k \in Keys |-> None]
        /\ status = [f \in Flights |-> "unused"]
        /\ keyOf = [f \in Flights |-> None]
        /\ cancelled = [f \in Flights |-> FALSE]
        /\ waiters = [f \in Flights |-> 0]
        /\ outcome = [f \in Flights |-> None]
        /\ pc = [c \in Callers |-> "idle"]
        /\ want = [c \in Callers |-> None]
        /\ on = [c \in Callers |-> None]
        /\ ended = [c \in Callers |-> FALSE]

-----------------------------------------------------------------------------
(* The caller: do and leave.                                               *)

Entering == {c \in Callers : pc[c] = "entering"}
Unused == {f \in Flights : status[f] = "unused"}

\* do up to the lock, its context being alive.  The last guard is a bound, not
\* the code's: nobody calls who might find no flight to start.
Call(c, k) == /\ pc[c] = "idle"
              /\ ~ended[c]
              /\ pc' = [pc EXCEPT ![c] = "entering"]
              /\ want' = [want EXCEPT ![c] = k]
              /\ UNCHANGED <<flightVars, on, ended>>
              /\ Cardinality(Entering) < Cardinality(Unused)

\* do returns at once when its context has ended; the next call has another.
Refuse(c) == /\ pc[c] = "idle"
             /\ ended[c]
             /\ ended' = [ended EXCEPT ![c] = FALSE]
             /\ UNCHANGED <<flightVars, pc, want, on>>

\* A caller's context ends: deadline, client gone, server shutting down.
EndContext(c) == /\ pc[c] # "leaving"
                 /\ ~ended[c]
                 /\ ended' = [ended EXCEPT ![c] = TRUE]
                 /\ UNCHANGED <<flightVars, pc, want, on>>

Attach(c, f) == /\ pc' = [pc EXCEPT ![c] = "waiting"]
                /\ on' = [on EXCEPT ![c] = f]
                /\ waiters' = [waiters EXCEPT ![f] = @ + 1]
                /\ UNCHANGED <<want, ended>>

\* The locked section of do when no run of the key is in progress ...
Start(c, f) == /\ pc[c] = "entering"
               /\ calls[want[c]] = None
               /\ status[f] = "unused"
               /\ status' = [status EXCEPT ![f] = "running"]
               /\ keyOf' = [keyOf EXCEPT ![f] = want[c]]
               /\ calls' = [calls EXCEPT ![want[c]] = f]
               /\ Attach(c, f)
               /\ UNCHANGED <<cancelled, outcome>>

\* ... and when one is.
Join(c) == /\ pc[c] = "entering"
           /\ calls[want[c]] # None
           /\ Attach(c, calls[want[c]])
           /\ UNCHANGED <<calls, status, keyOf, cancelled, outcome>>

\* The caller returns; what it knew goes with it.
Detach(c) == /\ pc' = [pc EXCEPT ![c] = "idle"]
             /\ on' = [on EXCEPT ![c] = None]
             /\ want' = [want EXCEPT ![c] = None]
             /\ ended' = [ended EXCEPT ![c] = FALSE]

\* Bug: the result is sent on the channel once instead of closing it.
Deliver_ToOne(c) == /\ pc[c] = "waiting"
                    /\ status[on[c]] = "closed"
                    /\ waiters[on[c]] = Cardinality(Attached(on[c]))
                    /\ Detach(c)
                    /\ UNCHANGED flightVars

\* The select of do takes the closed "done" channel: c returns outcome[on[c]].
Deliver(c) == /\ pc[c] = "waiting"
              /\ status[on[c]] = "closed"
              /\ Detach(c)
              /\ UNCHANGED flightVars

\* Bug: the last waiter stays to see the run through.
GiveUp_LastStays(c) == /\ pc[c] = "waiting"
                       /\ ended[c] /\ waiters[on[c]] > 1
                       /\ pc' = [pc EXCEPT ![c] = "leaving"]
                       /\ UNCHANGED <<flightVars, want, on, ended>>

\* The select of do takes ctx.Done(); both may be ready, either may be taken.
GiveUp(c) == /\ pc[c] = "waiting"
             /\ ended[c]
             /\ pc' = [pc EXCEPT ![c] = "leaving"]
             /\ UNCHANGED <<flightVars, want, on, ended>>

\* Bug: the map entry goes whosever it is.
FreeKey_Blind(k, f) == calls' = [calls EXCEPT ![k] = None]

\* The map entry of k goes, if it is still this flight's.
FreeKey(k, f) == calls' = IF calls[k] = f THEN [calls EXCEPT ![k] = None]
                                          ELSE calls

\* Bug: leave keeps the key of the run it tears down.
Leave_KeepsKey(c) ==
    /\ pc[c] = "leaving"
    /\ waiters' = [waiters EXCEPT ![on[c]] = @ - 1]
    /\ cancelled' = [cancelled EXCEPT ![on[c]] = @ \/ waiters[on[c]] <= 1]
    /\ Detach(c)
    /\ UNCHANGED <<calls, status, keyOf, outcome>>

\* Bug: leave cancels the run although others still wait for it.
Leave_CancelsAlways(c) ==
    LET f == on[c] IN
    /\ pc[c] = "leaving"
    /\ waiters' = [waiters EXCEPT ![f] = @ - 1]
    /\ FreeKey(want[c], f)
    /\ cancelled' = [cancelled EXCEPT ![f] = TRUE]
    /\ Detach(c)
    /\ UNCHANGED <<status, keyOf, outcome>>

\* Bug: leave frees the key and forgets to cancel the run.
Leave_NeverCancels(c) ==
    LET f == on[c] IN
    /\ pc[c] = "leaving"
    /\ waiters' = [waiters EXCEPT ![f] = @ - 1]
    /\ IF waiters[f] > 1 THEN UNCHANGED calls ELSE FreeKey(want[c], f)
    /\ Detach(c)
    /\ UNCHANGED <<status, keyOf, cancelled, outcome>>

\* leave: the last waiter frees the key and cancels the run.
Leave(c) ==
    LET f == on[c] IN
    /\ pc[c] = "leaving"
    /\ waiters' = [waiters EXCEPT ![f] = @ - 1]
    /\ IF waiters[f] > 1
       THEN UNCHANGED <<calls, cancelled>>
       ELSE /\ FreeKey(want[c], f)
            /\ cancelled' = [cancelled EXCEPT ![f] = TRUE]
    /\ Detach(c)
    /\ UNCHANGED <<status, keyOf, outcome>>

-----------------------------------------------------------------------------
(* The run of a flight.                                                    *)

\* fn returns or panics.  Only a cancelled context makes it answer "canceled",
\* and a function that was told to stop may still have made it to its end.
FnReturn(f, o) == /\ status[f] = "running"
                  /\ o = Canceled => cancelled[f]
                  /\ status' = [status EXCEPT ![f] = "returned"]
                  /\ outcome' = [outcome EXCEPT ![f] = o]
                  /\ UNCHANGED <<calls, keyOf, cancelled, waiters, callerVars>>

\* Bug: the key is left in the map when the run ends.
Free_KeepsKey(f) == /\ status[f] = "returned"
                    /\ status' = [status EXCEPT ![f] = "freed"]
                    /\ UNCHANGED <<calls, keyOf, cancelled, waiters, outcome, callerVars>>

\* The deferred function of run, up to the unlock.
Free(f) == /\ status[f] = "returned"
           /\ FreeKey(keyOf[f], f)
           /\ status' = [status EXCEPT ![f] = "freed"]
           /\ UNCHANGED <<keyOf, cancelled, waiters, outcome, callerVars>>

\* Bug: the result of a run that was cancelled is not published.
Close_UnlessCancelled(f) == /\ status[f] = "freed"
                            /\ ~cancelled[f]
                            /\ status' = [status EXCEPT ![f] = "closed"]
                            /\ cancelled' = [cancelled EXCEPT ![f] = TRUE]
                            /\ UNCHANGED <<calls, keyOf, waiters, outcome, callerVars>>

\* The rest of it: f.cancel(); close(f.done).
Close(f) == /\ status[f] = "freed"
            /\ status' = [status EXCEPT ![f] = "closed"]
            /\ cancelled' = [cancelled EXCEPT ![f] = TRUE]
            /\ UNCHANGED <<calls, keyOf, waiters, outcome, callerVars>>

-----------------------------------------------------------------------------
CallerStep(c) == \/ \E f \in Flights : Start(c, f)
                 \/ Join(c) \/ Deliver(c) \/ GiveUp(c) \/ Leave(c)
Environment(c) == (\E k \in Keys : Call(c, k)) \/ Refuse(c) \/ EndContext(c)
FnStep(f) == \E o \in Outcomes : FnReturn(f, o)
RunStep(f) == FnStep(f) \/ Free(f) \/ Close(f)

Next == \/ \E c \in Callers : Environment(c) \/ CallerStep(c)
        \/ \E f \in Flights : RunStep(f)

Spec == Init /\ [][Next]_vars

\* Goroutines are scheduled fairly.
FairSpec == /\ Spec
            /\ \A c \in Callers : WF_vars(CallerStep(c))
            /\ \A f \in Flights : WF_vars(Free(f)) /\ WF_vars(Close(f))

\* What else the code relies on: either fn returns, because the HTTP client
\* under it bounds every request; or it hangs until it is told to stop, but
\* every caller's context ends, because it has a deadline (api/handlers.go:126).
FnReturns == \A f \in Flights : WF_vars(FnStep(f))
FnStopsWhenTold == \A f \in Flights : WF_vars(cancelled[f] /\ FnStep(f))
ContextsEnd == \A c \in Callers : WF_vars(EndContext(c))

-----------------------------------------------------------------------------
(* Properties.                                                             *)

InProgress(f) == status[f] \in {"running", "returned"}

\* The departure of other callers never reaches a caller that stayed: a run
\* somebody is still attached to is not cancelled before its result is out,
\* and what its callers return is never its cancellation (flight.go:40-43).
StayersUndisturbed ==
    \A f \in Flights : Attached(f) # {} => /\ cancelled[f] => status[f] = "closed"
                                          /\ outcome[f] # Canceled

\* At most one run of a key is of use to anybody: any other run of it still
\* executing has been cancelled (flight.go:37, 81-83).
OneUsefulRun ==
    \A f, g \in Flights : InProgress(f) /\ InProgress(g) /\ keyOf[f] = keyOf[g] /\ f # g
                          => cancelled[f] \/ cancelled[g]

\* A new caller never joins a run that is over or being torn down, and a run
\* that is of use can be joined: the map holds the useful runs, no others.
MapHoldsUsefulRuns ==
    /\ \A k \in Keys : calls[k] # None =>
          /\ InProgress(calls[k]) /\ ~cancelled[calls[k]] /\ keyOf[calls[k]] = k
          /\ Attached(calls[k]) # {}
    /\ \A f \in Flights : InProgress(f) /\ ~cancelled[f] => calls[keyOf[f]] = f

\* Until a run's result is published its counter is the number of callers
\* attached to it, and the run is cancelled exactly when that is none.
WaitersCounted ==
    \A f \in Flights : status[f] \in {"running", "returned", "freed"} =>
        /\ waiters[f] = Cardinality(Attached(f))
        /\ cancelled[f] <=> waiters[f] = 0

\* A call of do returns when fn does, though no context ever ends; and when its
\* caller's context ends, though fn hangs.
EveryCallReturns == FnReturns \/ (FnStopsWhenTold /\ ContextsEnd) =>
    \A c \in Callers : (pc[c] # "idle") ~> (pc[c] = "idle")

\* Every run started ends and publishes its result.
EveryRunEnds == FnReturns => \A f \in Flights : (status[f] = "running") ~> (status[f] = "closed")

\* A run nobody waits for ends even if fn would hang: its goroutine is not
\* leaked (flight.go:81-83).
AbandonedRunEnds == FnStopsWhenTold =>
    \A f \in Flights : (status[f] # "unused" /\ Attached(f) = {}) ~> (status[f] = "closed")

\* What makes the safety properties inductive.  A caller is attached exactly
\* while it waits or leaves, to a flight of the key it asked for ...
CallersConsistent ==
    \A c \in Callers :
        /\ pc[c] \in {"waiting", "leaving"} <=> on[c] # None
        /\ pc[c] # "idle" => want[c] \in Keys
        /\ on[c] # None => status[on[c]] # "unused" /\ keyOf[on[c]] = want[c]

\* ... an unused flight is blank, a used one has a key and an answer from the
\* moment fn returns, and nobody is attached to one that was answered "canceled";
\* once it is closed callers return without counting themselves out.
FlightsConsistent ==
    \A f \in Flights :
        /\ status[f] = "unused" => ~cancelled[f] /\ waiters[f] = 0
        /\ status[f] # "unused" => keyOf[f] \in Keys
        /\ outcome[f] = None <=> status[f] \in {"unused", "running"}
        /\ outcome[f] = Canceled => cancelled[f] /\ Attached(f) = {}
        /\ status[f] = "closed" => cancelled[f] /\ waiters[f] >= Cardinality(Attached(f))

\* The map, apart from who is attached to its flights.
MapConsistent ==
    /\ \A k \in Keys : calls[k] # None =>
          InProgress(calls[k]) /\ ~cancelled[calls[k]] /\ keyOf[calls[k]] = k
    /\ \A f \in Flights : InProgress(f) /\ ~cancelled[f] => calls[keyOf[f]] = f

IInv == /\ TypeOK /\ CallersConsistent /\ FlightsConsistent
        /\ MapConsistent /\ WaitersCounted

\* The batches of SharedLookup are the flights.
Batch == INSTANCE SharedLookup WITH
            Batches <- Flights,
            open    <- calls,
            formed  <- {f \in Flights : status[f] # "unused"},
            answer  <- outcome,
            member  <- on
SharesLookups == Batch!Spec
=============================================================================
