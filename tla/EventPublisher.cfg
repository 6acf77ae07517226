CONSTANTS Requests = {r1, r2, r3, r4}
          Limit = 2
SPECIFICATION FairSpec
INVARIANTS IInv QueueBounded AnswersKept GracefulClosesLast
PROPERTIES NothingQueuedAfterClose Stops
CHECK_DEADLOCK FALSE
