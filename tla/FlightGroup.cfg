CONSTANTS Callers = {c1, c2, c3}
          Keys = {k1}
          Flights = {f1, f2}
          Answers <- MCAnswers
          Canceled = "canceled"
          None = None
SPECIFICATION FairSpec
INVARIANTS IInv StayersUndisturbed OneUsefulRun MapHoldsUsefulRuns
PROPERTIES SharesLookups EveryCallReturns EveryRunEnds AbandonedRunEnds
CHECK_DEADLOCK FALSE
