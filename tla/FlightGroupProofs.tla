------------------------- MODULE FlightGroupProofs -------------------------
(***************************************************************************)
(* Proofs about FlightGroup, for every set of callers, keys and flights:   *)
(* the inductive invariant, and what follows from it.                      *)
(***************************************************************************)
EXTENDS FlightGroup, FiniteSetTheorems, TLAPS

\* The callers attached to a flight are finitely many.
LEMMA AttachedFinite ==
  ASSUME NEW f
  PROVE  /\ IsFiniteSet(Attached(f))
         /\ Cardinality(Attached(f)) \in Nat
         /\ Cardinality(Attached(f)) = 0 <=> Attached(f) = {}
<1>1. Attached(f) \subseteq Callers BY DEF Attached
<1>2. IsFiniteSet(Attached(f)) BY <1>1, FS_Subset, FlightGroupAssumption
<1> QED BY <1>2, FS_CardinalityType, FS_EmptySet

\* A caller that attaches itself is one more on its flight, and none elsewhere.
LEMMA OneMore ==
  ASSUME NEW c \in Callers, NEW f \in Flights, TypeOK, on[c] = None,
         on' = [on EXCEPT ![c] = f]
  PROVE  \A g \in Flights :
           /\ Attached(g)' = IF g = f THEN Attached(g) \cup {c} ELSE Attached(g)
           /\ Cardinality(Attached(g)') = IF g = f THEN Cardinality(Attached(g)) + 1
                                                   ELSE Cardinality(Attached(g))
<1> SUFFICES ASSUME NEW g \in Flights
             PROVE  /\ Attached(g)' = IF g = f THEN Attached(g) \cup {c} ELSE Attached(g)
                    /\ Cardinality(Attached(g)') = IF g = f THEN Cardinality(Attached(g)) + 1
                                                            ELSE Cardinality(Attached(g))
    OBVIOUS
<1>1. None \notin Flights BY FlightGroupAssumption
<1>2. Attached(g)' = IF g = f THEN Attached(g) \cup {c} ELSE Attached(g)
    BY <1>1 DEF Attached, TypeOK
<1>3. c \notin Attached(f) BY <1>1 DEF Attached
<1>4. Cardinality(Attached(f) \cup {c}) = Cardinality(Attached(f)) + 1
    BY <1>3, AttachedFinite, FS_AddElement
<1> QED BY <1>2, <1>4

\* A caller that detaches itself is one less on its flight, and none elsewhere.
LEMMA OneLess ==
  ASSUME NEW c \in Callers, TypeOK, on[c] \in Flights,
         on' = [on EXCEPT ![c] = None]
  PROVE  \A g \in Flights :
           /\ Attached(g)' = IF g = on[c] THEN Attached(g) \ {c} ELSE Attached(g)
           /\ Cardinality(Attached(g)') = IF g = on[c] THEN Cardinality(Attached(g)) - 1
                                                       ELSE Cardinality(Attached(g))
<1> SUFFICES ASSUME NEW g \in Flights
             PROVE  /\ Attached(g)' = IF g = on[c] THEN Attached(g) \ {c} ELSE Attached(g)
                    /\ Cardinality(Attached(g)') = IF g = on[c] THEN Cardinality(Attached(g)) - 1
                                                                ELSE Cardinality(Attached(g))
    OBVIOUS
<1>1. None \notin Flights BY FlightGroupAssumption
<1>2. Attached(g)' = IF g = on[c] THEN Attached(g) \ {c} ELSE Attached(g)
    BY <1>1 DEF Attached, TypeOK
<1>3. c \in Attached(on[c]) BY DEF Attached
<1>4. Cardinality(Attached(on[c]) \ {c}) = Cardinality(Attached(on[c])) - 1
    BY <1>3, AttachedFinite, FS_RemoveElement
<1> QED BY <1>2, <1>4

\* Types, on their own: they need the other parts only for the counter.
LEMMA TypeInit == Init => TypeOK
BY DEF Init, TypeOK, Statuses

LEMMA InitIInv == Init => IInv
<1> SUFFICES ASSUME Init PROVE IInv
    OBVIOUS
<1>1. TypeOK BY TypeInit
<1>2. \A f \in Flights : Attached(f) = {}
    BY FlightGroupAssumption DEF Init, Attached
<1>3. CallersConsistent BY DEF Init, CallersConsistent
<1>4. FlightsConsistent
    BY <1>2, FlightGroupAssumption DEF Init, FlightsConsistent, Outcomes
<1>5. MapConsistent BY DEF Init, MapConsistent, InProgress
<1>6. WaitersCounted BY DEF Init, WaitersCounted
<1> QED BY <1>1, <1>3, <1>4, <1>5, <1>6 DEF IInv

\* Nobody is attached to None, and the sets of attached callers change with
\* "on" alone.
LEMMA Unmoved == ASSUME UNCHANGED on PROVE \A f : Attached(f)' = Attached(f)
BY DEF Attached

LEMMA CallerOutsideGroup ==
  ASSUME IInv, NEW c \in Callers, Environment(c) PROVE IInv'
<1> USE DEF IInv
<1>1. UNCHANGED <<calls, status, keyOf, cancelled, waiters, outcome, on>>
    BY DEF Environment, Call, Refuse, EndContext, flightVars
<1>2. \A f : Attached(f)' = Attached(f) BY <1>1, Unmoved
<1>3. TypeOK' BY <1>1 DEF TypeOK, Environment, Call, Refuse, EndContext, flightVars
<1>4. CallersConsistent'
    BY <1>1, FlightGroupAssumption DEF CallersConsistent, TypeOK, Environment, Call, Refuse, EndContext
<1>5. FlightsConsistent' BY <1>1, <1>2 DEF FlightsConsistent
<1>6. MapConsistent' BY <1>1 DEF MapConsistent, InProgress
<1>7. WaitersCounted' BY <1>1, <1>2 DEF WaitersCounted
<1> QED BY <1>3, <1>4, <1>5, <1>6, <1>7

LEMMA StartStep ==
  ASSUME IInv, NEW c \in Callers, NEW f \in Flights, Start(c, f) PROVE IInv'
<1> USE DEF IInv
<1>1. /\ want[c] \in Keys /\ on[c] = None /\ None \notin Flights
      /\ status[f] = "unused" /\ ~cancelled[f] /\ waiters[f] = 0 /\ outcome[f] = None
    BY FlightGroupAssumption DEF Start, CallersConsistent, FlightsConsistent, TypeOK
<1>2. on' = [on EXCEPT ![c] = f] BY DEF Start, Attach
<1>3. \A g \in Flights :
         /\ Attached(g)' = IF g = f THEN Attached(g) \cup {c} ELSE Attached(g)
         /\ Cardinality(Attached(g)') = IF g = f THEN Cardinality(Attached(g)) + 1
                                                 ELSE Cardinality(Attached(g))
    BY <1>1, <1>2, OneMore
<1>4. Attached(f) = {} BY <1>1 DEF Attached, CallersConsistent, TypeOK
<1>5. TypeOK' BY <1>1 DEF Start, Attach, TypeOK, Statuses
<1>6. CallersConsistent' BY <1>1 DEF Start, Attach, TypeOK, CallersConsistent
<1>7. FlightsConsistent'
    BY <1>1, <1>3, FlightGroupAssumption DEF Start, Attach, TypeOK, FlightsConsistent
<1>8. MapConsistent'
    BY <1>1 DEF Start, Attach, TypeOK, MapConsistent, InProgress
<1>9. WaitersCounted'
  <2> SUFFICES ASSUME NEW g \in Flights, status'[g] \in {"running", "returned", "freed"}
               PROVE  /\ waiters'[g] = Cardinality(Attached(g)')
                      /\ cancelled'[g] <=> waiters'[g] = 0
      BY DEF WaitersCounted
  <2>1. CASE g = f BY <2>1, <1>1, <1>3, <1>4, AttachedFinite DEF Start, Attach, TypeOK
  <2>2. CASE g # f BY <2>2, <1>3 DEF Start, Attach, TypeOK, WaitersCounted
  <2> QED BY <2>1, <2>2
<1> QED BY <1>5, <1>6, <1>7, <1>8, <1>9

LEMMA JoinStep ==
  ASSUME IInv, NEW c \in Callers, Join(c) PROVE IInv'
<1> USE DEF IInv
<1> DEFINE f == calls[want[c]]
<1>1. /\ want[c] \in Keys /\ on[c] = None /\ None \notin Flights /\ f \in Flights
      /\ InProgress(f) /\ ~cancelled[f] /\ keyOf[f] = want[c]
    BY FlightGroupAssumption DEF Join, CallersConsistent, MapConsistent, TypeOK
<1>2. /\ on' = [on EXCEPT ![c] = f]
      /\ waiters' = [waiters EXCEPT ![f] = @ + 1]
      /\ pc' = [pc EXCEPT ![c] = "waiting"]
      /\ UNCHANGED <<calls, status, keyOf, cancelled, outcome, want, ended>>
    BY DEF Join, Attach
<1> HIDE DEF f
<1>3. \A g \in Flights :
         /\ Attached(g)' = IF g = f THEN Attached(g) \cup {c} ELSE Attached(g)
         /\ Cardinality(Attached(g)') = IF g = f THEN Cardinality(Attached(g)) + 1
                                                 ELSE Cardinality(Attached(g))
    BY <1>1, <1>2, OneMore
<1>4. TypeOK' BY <1>1, <1>2 DEF TypeOK
<1>5. CallersConsistent' BY <1>1, <1>2 DEF TypeOK, CallersConsistent, InProgress
<1>6. FlightsConsistent'
    BY <1>1, <1>2, <1>3 DEF TypeOK, FlightsConsistent, InProgress
<1>7. MapConsistent' BY <1>2 DEF MapConsistent, InProgress
<1>8. WaitersCounted'
    BY <1>1, <1>2, <1>3, AttachedFinite DEF TypeOK, WaitersCounted, InProgress
<1> QED BY <1>4, <1>5, <1>6, <1>7, <1>8

LEMMA DeliverStep ==
  ASSUME IInv, NEW c \in Callers, Deliver(c) PROVE IInv'
<1> USE DEF IInv
<1>1. /\ on[c] \in Flights /\ None \notin Flights /\ status[on[c]] = "closed"
    BY FlightGroupAssumption DEF Deliver, CallersConsistent, TypeOK
<1>2. on' = [on EXCEPT ![c] = None] /\ UNCHANGED flightVars BY DEF Deliver, Detach
<1>3. \A g \in Flights :
         /\ Attached(g)' = IF g = on[c] THEN Attached(g) \ {c} ELSE Attached(g)
         /\ Cardinality(Attached(g)') = IF g = on[c] THEN Cardinality(Attached(g)) - 1
                                                     ELSE Cardinality(Attached(g))
    BY <1>1, <1>2, OneLess
<1>4. TypeOK' BY <1>2 DEF Deliver, Detach, TypeOK, flightVars
<1>5. CallersConsistent'
    BY <1>1, <1>2, FlightGroupAssumption DEF Deliver, Detach, TypeOK, CallersConsistent, flightVars
<1>6. FlightsConsistent'
    BY <1>1, <1>2, <1>3, AttachedFinite DEF TypeOK, FlightsConsistent, flightVars
<1>7. MapConsistent' BY <1>2 DEF MapConsistent, InProgress, flightVars
<1>8. WaitersCounted' BY <1>1, <1>2, <1>3 DEF WaitersCounted, flightVars
<1> QED BY <1>4, <1>5, <1>6, <1>7, <1>8

LEMMA GiveUpStep ==
  ASSUME IInv, NEW c \in Callers, GiveUp(c) PROVE IInv'
<1> USE DEF IInv
<1>1. UNCHANGED <<flightVars, want, on, ended>> /\ \A f : Attached(f)' = Attached(f)
    BY Unmoved DEF GiveUp
<1>2. TypeOK' BY <1>1 DEF GiveUp, TypeOK, flightVars
<1>3. CallersConsistent' BY <1>1 DEF GiveUp, TypeOK, CallersConsistent, flightVars
<1>4. FlightsConsistent' BY <1>1 DEF FlightsConsistent, flightVars
<1>5. MapConsistent' BY <1>1 DEF MapConsistent, InProgress, flightVars
<1>6. WaitersCounted' BY <1>1 DEF WaitersCounted, flightVars
<1> QED BY <1>2, <1>3, <1>4, <1>5, <1>6

\* The heart of the matter: the last to leave is the one the counter says it is,
\* and only it touches the map and the flight's context.
LEMMA LeaveStep ==
  ASSUME IInv, NEW c \in Callers, Leave(c) PROVE IInv'
<1> USE DEF IInv
<1> DEFINE f == on[c]
           last == ~(waiters[f] > 1)
<1>1. /\ f \in Flights /\ None \notin Flights /\ None \notin Keys
      /\ status[f] # "unused" /\ keyOf[f] = want[c] /\ want[c] \in Keys
    BY FlightGroupAssumption DEF Leave, CallersConsistent, TypeOK
<1>2. /\ on' = [on EXCEPT ![c] = None]
      /\ want' = [want EXCEPT ![c] = None]
      /\ pc' = [pc EXCEPT ![c] = "idle"]
      /\ ended' = [ended EXCEPT ![c] = FALSE]
      /\ waiters' = [waiters EXCEPT ![f] = @ - 1]
      /\ UNCHANGED <<status, keyOf, outcome>>
      /\ calls' = IF last /\ calls[keyOf[f]] = f THEN [calls EXCEPT ![keyOf[f]] = None] ELSE calls
      /\ cancelled' = IF last THEN [cancelled EXCEPT ![f] = TRUE] ELSE cancelled
    BY <1>1 DEF Leave, Detach, FreeKey
<1>3. \A g \in Flights :
         /\ Attached(g)' = IF g = f THEN Attached(g) \ {c} ELSE Attached(g)
         /\ Cardinality(Attached(g)') = IF g = f THEN Cardinality(Attached(g)) - 1
                                                 ELSE Cardinality(Attached(g))
    BY <1>1, <1>2, OneLess
<1>4. c \in Attached(f) /\ Cardinality(Attached(f)) \in Nat \ {0}
    BY AttachedFinite DEF Attached
<1>5. /\ waiters[f] \in Nat /\ waiters[f] >= Cardinality(Attached(f))
      /\ status[f] # "closed" => waiters[f] = Cardinality(Attached(f)) /\ ~cancelled[f]
    BY <1>1, <1>4 DEF TypeOK, Statuses, WaitersCounted, FlightsConsistent
<1> HIDE DEF f, last
<1>6. TypeOK' BY <1>1, <1>2, <1>4, <1>5 DEF TypeOK
<1>7. CallersConsistent' BY <1>1, <1>2 DEF TypeOK, CallersConsistent
<1>8. FlightsConsistent'
  <2> SUFFICES ASSUME NEW g \in Flights
               PROVE /\ status'[g] = "unused" => ~cancelled'[g] /\ waiters'[g] = 0
                     /\ status'[g] # "unused" => keyOf'[g] \in Keys
                     /\ outcome'[g] = None <=> status'[g] \in {"unused", "running"}
                     /\ outcome'[g] = Canceled => cancelled'[g] /\ Attached(g)' = {}
                     /\ status'[g] = "closed" => cancelled'[g] /\ waiters'[g] >= Cardinality(Attached(g)')
      BY DEF FlightsConsistent
  <2>1. CASE g = f
      BY <2>1, <1>1, <1>2, <1>3, <1>4, <1>5 DEF TypeOK, FlightsConsistent
  <2>2. CASE g # f
      BY <2>2, <1>1, <1>2, <1>3 DEF TypeOK, FlightsConsistent
  <2> QED BY <2>1, <2>2
<1>9. MapConsistent' BY <1>1, <1>2 DEF TypeOK, MapConsistent, InProgress
<1>10. WaitersCounted'
  <2> SUFFICES ASSUME NEW g \in Flights, status'[g] \in {"running", "returned", "freed"}
               PROVE  /\ waiters'[g] = Cardinality(Attached(g)')
                      /\ cancelled'[g] <=> waiters'[g] = 0
      BY DEF WaitersCounted
  <2>1. CASE g = f
    <3>1. last <=> waiters[f] = 1 BY <2>1, <1>2, <1>4, <1>5 DEF last
    <3> QED BY <3>1, <2>1, <1>1, <1>2, <1>3, <1>4, <1>5 DEF TypeOK
  <2>2. CASE g # f BY <2>2, <1>1, <1>2, <1>3 DEF TypeOK, WaitersCounted
  <2> QED BY <2>1, <2>2
<1> QED BY <1>6, <1>7, <1>8, <1>9, <1>10

LEMMA RunStepInv ==
  ASSUME IInv, NEW f \in Flights, RunStep(f) PROVE IInv'
<1> USE DEF IInv
<1>1. UNCHANGED <<keyOf, waiters, callerVars>> /\ \A g : Attached(g)' = Attached(g)
    BY Unmoved DEF RunStep, FnStep, FnReturn, Free, Close, callerVars
<1>2. ASSUME NEW o \in Outcomes, FnReturn(f, o) PROVE IInv'
  <2>1. TypeOK' BY <1>1, <1>2 DEF FnReturn, TypeOK, Statuses, callerVars
  <2>2. CallersConsistent' BY <1>1, <1>2 DEF FnReturn, TypeOK, CallersConsistent, callerVars
  <2>3. o = Canceled => cancelled[f] /\ Attached(f) = {}
      BY <1>2, AttachedFinite DEF FnReturn, WaitersCounted
  <2>4. FlightsConsistent'
      BY <1>1, <1>2, <2>3, FlightGroupAssumption DEF FnReturn, TypeOK, FlightsConsistent, Outcomes
  <2>5. MapConsistent' BY <1>1, <1>2 DEF FnReturn, TypeOK, MapConsistent, InProgress
  <2>6. WaitersCounted' BY <1>1, <1>2 DEF FnReturn, TypeOK, WaitersCounted
  <2> QED BY <2>1, <2>2, <2>4, <2>5, <2>6
<1>3. CASE Free(f)
  <2>1. TypeOK' BY <1>1, <1>3 DEF Free, FreeKey, TypeOK, Statuses, callerVars
  <2>2. CallersConsistent' BY <1>1, <1>3 DEF Free, TypeOK, CallersConsistent, callerVars
  <2>3. FlightsConsistent' BY <1>1, <1>3 DEF Free, TypeOK, FlightsConsistent
  <2>4. MapConsistent'
    <3>1. keyOf[f] \in Keys BY <1>3 DEF Free, FlightsConsistent
    <3> QED BY <3>1, <1>1, <1>3, FlightGroupAssumption
            DEF Free, FreeKey, TypeOK, MapConsistent, InProgress
  <2>5. WaitersCounted' BY <1>1, <1>3 DEF Free, TypeOK, WaitersCounted
  <2> QED BY <2>1, <2>2, <2>3, <2>4, <2>5
<1>4. CASE Close(f)
  <2>1. TypeOK' BY <1>1, <1>4 DEF Close, TypeOK, Statuses, callerVars
  <2>2. CallersConsistent' BY <1>1, <1>4 DEF Close, TypeOK, CallersConsistent, callerVars
  <2>3. FlightsConsistent'
      BY <1>1, <1>4, AttachedFinite DEF Close, TypeOK, FlightsConsistent, WaitersCounted
  <2>4. MapConsistent' BY <1>1, <1>4 DEF Close, TypeOK, MapConsistent, InProgress
  <2>5. WaitersCounted' BY <1>1, <1>4 DEF Close, TypeOK, WaitersCounted
  <2> QED BY <2>1, <2>2, <2>3, <2>4, <2>5
<1> QED BY <1>2, <1>3, <1>4 DEF RunStep, FnStep

LEMMA NextIInv == IInv /\ [Next]_vars => IInv'
<1> SUFFICES ASSUME IInv, [Next]_vars PROVE IInv'
    OBVIOUS
<1>1. ASSUME NEW c \in Callers, Environment(c) PROVE IInv' BY <1>1, CallerOutsideGroup
<1>2. ASSUME NEW c \in Callers, CallerStep(c) PROVE IInv'
    BY <1>2, StartStep, JoinStep, DeliverStep, GiveUpStep, LeaveStep DEF CallerStep
<1>3. ASSUME NEW f \in Flights, RunStep(f) PROVE IInv' BY <1>3, RunStepInv
<1>4. CASE UNCHANGED vars
  <2>1. UNCHANGED <<flightVars, callerVars>> /\ \A f : Attached(f)' = Attached(f)
      BY <1>4, Unmoved DEF vars, callerVars
  <2> QED BY <2>1 DEF IInv, TypeOK, CallersConsistent, FlightsConsistent, MapConsistent,
                      WaitersCounted, InProgress, flightVars, callerVars
<1> QED BY <1>1, <1>2, <1>3, <1>4 DEF Next

\* The invariant holds of every reachable state.
THEOREM FlightGroupInvariant == Spec => []IInv
<1> QED BY InitIInv, NextIInv, PTL DEF Spec

\* Every variable keeps its type, in particular the counter of waiters never
\* drops below zero.
THEOREM FlightGroupTypes == Spec => []TypeOK
<1>1. IInv => TypeOK BY DEF IInv
<1> QED BY <1>1, FlightGroupInvariant, PTL

\* The departure of other callers never reaches a caller that stayed: a run
\* somebody waits for is not cancelled, and nobody is answered "canceled".
THEOREM StayersAreUndisturbed == Spec => []StayersUndisturbed
<1>1. IInv => StayersUndisturbed
  <2> SUFFICES ASSUME IInv, NEW f \in Flights, Attached(f) # {}
               PROVE  /\ cancelled[f] => status[f] = "closed"
                      /\ outcome[f] # Canceled
      BY DEF StayersUndisturbed
  <2>1. status[f] # "unused" BY FlightGroupAssumption DEF IInv, CallersConsistent, Attached
  <2> QED BY <2>1, AttachedFinite DEF IInv, TypeOK, Statuses, WaitersCounted, FlightsConsistent
<1> QED BY <1>1, FlightGroupInvariant, PTL

\* A key never has two runs executing that are of use to anybody.
THEOREM OneRunOfUse == Spec => []OneUsefulRun
<1>1. IInv => OneUsefulRun BY DEF IInv, MapConsistent, OneUsefulRun
<1> QED BY <1>1, FlightGroupInvariant, PTL

\* The map holds exactly the runs of use, so no key is ever stuck on a run that
\* is over or being torn down.
THEOREM MapHoldsRunsOfUse == Spec => []MapHoldsUsefulRuns
<1>1. IInv => MapHoldsUsefulRuns
  <2> SUFFICES ASSUME IInv PROVE MapHoldsUsefulRuns
      OBVIOUS
  <2>1. ASSUME NEW k \in Keys, calls[k] # None PROVE Attached(calls[k]) # {}
    <3>1. calls[k] \in Flights /\ InProgress(calls[k]) /\ ~cancelled[calls[k]]
        BY <2>1 DEF IInv, TypeOK, MapConsistent
    <3> QED BY <3>1, AttachedFinite DEF IInv, WaitersCounted, InProgress
  <2> QED BY <2>1 DEF IInv, MapConsistent, MapHoldsUsefulRuns
<1> QED BY <1>1, FlightGroupInvariant, PTL

-----------------------------------------------------------------------------
(* FlightGroup implements SharedLookup.                                    *)

LEMMA BatchInit == Init => Batch!Init
<1> SUFFICES ASSUME Init PROVE Batch!Init
    OBVIOUS
<1>1. {f \in Flights : status[f] # "unused"} = {} BY DEF Init
<1> QED BY <1>1 DEF Init, Batch!Init

\* Leaving a flight is leaving a batch: the counter says "last" exactly when the
\* other members of the batch are none, unless the batch is no longer open.
LEMMA BatchLeave ==
  ASSUME IInv, NEW c \in Callers, Leave(c) PROVE Batch!Leave(c)
<1> DEFINE f == on[c]
<1>1. /\ f \in Flights /\ None \notin Flights /\ keyOf[f] = want[c] /\ want[c] \in Keys
    BY FlightGroupAssumption DEF Leave, IInv, CallersConsistent, TypeOK
<1>2. \A g : Batch!Members(g) = Attached(g) BY DEF Batch!Members, Attached
<1>3. c \in Attached(f) BY DEF Attached
<1>4. Cardinality(Attached(f) \ {c}) = Cardinality(Attached(f)) - 1
      /\ IsFiniteSet(Attached(f) \ {c})
    BY <1>3, AttachedFinite, FS_RemoveElement
<1>5. Attached(f) = {c} <=> Cardinality(Attached(f)) = 1
  <2>1. Attached(f) = {c} <=> Attached(f) \ {c} = {} BY <1>3
  <2>2. Attached(f) \ {c} = {} <=> Cardinality(Attached(f) \ {c}) = 0 BY <1>4, FS_EmptySet
  <2> QED BY <2>1, <2>2, <1>4, AttachedFinite
<1>6. \A k \in Keys : calls[k] = f => k = want[c] /\ waiters[f] = Cardinality(Attached(f))
    BY <1>1 DEF IInv, MapConsistent, WaitersCounted, InProgress
<1>7. Cardinality(Attached(f)) \in Nat \ {0} BY <1>3, AttachedFinite
<1>8. calls' = [k \in Keys |-> IF calls[k] = f /\ Attached(f) = {c} THEN None ELSE calls[k]]
  <2>1. calls \in [Keys -> Flights \cup {None}] BY DEF IInv, TypeOK
  <2>2. CASE calls[want[c]] = f
    <3>1. waiters[f] > 1 <=> ~(Attached(f) = {c}) BY <2>2, <1>1, <1>5, <1>6, <1>7
    <3>2. calls' = IF Attached(f) = {c} THEN [calls EXCEPT ![want[c]] = None] ELSE calls
        BY <3>1, <2>2 DEF Leave, FreeKey
    <3> QED BY <3>2, <2>1, <2>2, <1>1, <1>6
  <2>3. CASE calls[want[c]] # f
    <3>1. calls' = calls BY <2>3 DEF Leave, FreeKey
    <3>2. \A k \in Keys : calls[k] # f BY <2>3, <1>6
    <3> QED BY <3>1, <3>2, <2>1
  <2> QED BY <2>2, <2>3
<1>9. on' = [on EXCEPT ![c] = None] /\ UNCHANGED <<status, outcome>> BY DEF Leave, Detach
<1> QED BY <1>1, <1>2, <1>8, <1>9 DEF Batch!Leave

LEMMA BatchStep == IInv /\ [Next]_vars => [Batch!Next]_(Batch!vars)
<1> SUFFICES ASSUME IInv, [Next]_vars PROVE [Batch!Next]_(Batch!vars)
    OBVIOUS
<1> USE DEF Batch!vars
<1>1. ASSUME NEW c \in Callers, Environment(c) PROVE UNCHANGED Batch!vars
    BY <1>1 DEF Environment, Call, Refuse, EndContext, flightVars
<1>2. ASSUME NEW c \in Callers, NEW f \in Flights, Start(c, f)
      PROVE  \E k \in Keys : Batch!Form(c, k, f)
  <2>1. want[c] \in Keys /\ on[c] = None
      BY <1>2 DEF Start, IInv, CallersConsistent
  <2>2. {g \in Flights : status'[g] # "unused"} = {g \in Flights : status[g] # "unused"} \cup {f}
      BY <1>2 DEF Start, IInv, TypeOK
  <2>3. Batch!Form(c, want[c], f)
      BY <1>2, <2>1, <2>2 DEF Start, Attach, Batch!Form
  <2> QED BY <2>1, <2>3
<1>3. ASSUME NEW c \in Callers, Join(c) PROVE \E k \in Keys : Batch!Join(c, k)
  <2>1. want[c] \in Keys /\ on[c] = None BY <1>3 DEF Join, IInv, CallersConsistent
  <2>2. Batch!Join(c, want[c]) BY <1>3, <2>1 DEF Join, Attach, Batch!Join
  <2> QED BY <2>1, <2>2
<1>4. ASSUME NEW c \in Callers, Deliver(c) PROVE Batch!Deliver(c)
  <2>1. on[c] \in Flights /\ on[c] # None /\ status[on[c]] = "closed"
      BY <1>4, FlightGroupAssumption DEF Deliver, IInv, CallersConsistent, TypeOK
  <2>2. outcome[on[c]] # None BY <2>1 DEF IInv, FlightsConsistent
  <2>3. \A k \in Keys : calls[k] # on[c] BY <2>1 DEF IInv, MapConsistent, InProgress
  <2> QED BY <1>4, <2>1, <2>2, <2>3 DEF Deliver, Detach, flightVars, Batch!Deliver
<1>5. ASSUME NEW c \in Callers, GiveUp(c) PROVE UNCHANGED Batch!vars
    BY <1>5 DEF GiveUp, flightVars
<1>6. ASSUME NEW c \in Callers, Leave(c) PROVE Batch!Leave(c) BY <1>6, BatchLeave
<1>7. ASSUME NEW f \in Flights, NEW o \in Outcomes, FnReturn(f, o) PROVE Batch!Answer(f, o)
  <2>1. status[f] = "running" /\ outcome[f] = None
      BY <1>7 DEF FnReturn, IInv, FlightsConsistent
  <2>2. {g \in Flights : status'[g] # "unused"} = {g \in Flights : status[g] # "unused"}
      BY <1>7 DEF FnReturn, IInv, TypeOK
  <2>3. o = Canceled => Attached(f) = {}
      BY <1>7, AttachedFinite DEF FnReturn, IInv, WaitersCounted
  <2>4. Batch!Members(f) = Attached(f) BY DEF Batch!Members, Attached
  <2> QED BY <1>7, <2>1, <2>2, <2>3, <2>4 DEF FnReturn, callerVars, Batch!Answer
<1>8. ASSUME NEW f \in Flights, Free(f) PROVE (\E k \in Keys : Batch!Retire(k)) \/ UNCHANGED Batch!vars
  <2>1. {g \in Flights : status'[g] # "unused"} = {g \in Flights : status[g] # "unused"}
      BY <1>8 DEF Free, IInv, TypeOK
  <2>2. keyOf[f] \in Keys /\ outcome[f] # None BY <1>8 DEF Free, IInv, FlightsConsistent
  <2>3. f # None BY FlightGroupAssumption
  <2>4. CASE calls[keyOf[f]] = f
    <3>1. Batch!Retire(keyOf[f])
        BY <1>8, <2>1, <2>2, <2>3, <2>4 DEF Free, FreeKey, callerVars, Batch!Retire
    <3> QED BY <3>1, <2>2
  <2>5. CASE calls[keyOf[f]] # f
      BY <1>8, <2>1, <2>5 DEF Free, FreeKey, callerVars
  <2> QED BY <2>4, <2>5
<1>9. ASSUME NEW f \in Flights, Close(f) PROVE UNCHANGED Batch!vars
  <2>1. {g \in Flights : status'[g] # "unused"} = {g \in Flights : status[g] # "unused"}
      BY <1>9 DEF Close, IInv, TypeOK
  <2> QED BY <1>9, <2>1 DEF Close, callerVars
<1>10. CASE UNCHANGED vars BY <1>10 DEF vars, flightVars, callerVars
<1>11. ASSUME NEW c \in Callers, CallerStep(c) PROVE [Batch!Next]_(Batch!vars)
    BY <1>11, <1>2, <1>3, <1>4, <1>5, <1>6 DEF CallerStep, Batch!Next
<1>12. ASSUME NEW f \in Flights, RunStep(f) PROVE [Batch!Next]_(Batch!vars)
    BY <1>12, <1>7, <1>8, <1>9 DEF RunStep, FnStep, Outcomes, Batch!Next
<1> QED BY <1>1, <1>10, <1>11, <1>12 DEF Next

\* Counting waiters, cancelling contexts and freeing keys implement sharing a
\* lookup: the batches of SharedLookup are the flights.
THEOREM FlightGroupSharesLookups == Spec => SharesLookups
<1> QED BY BatchInit, BatchStep, FlightGroupInvariant, PTL DEF Spec, SharesLookups, Batch!Spec
=============================================================================
