CONSTANTS Lookups = {l1, l2}
          Interval = 1
          MaxRetryAfter = 2
          RetryAfters <- MCRetryAfters
          Taken = Taken
SPECIFICATION FairSpec
INVARIANTS IInv OneTurn
PROPERTIES PausesKept ResultsHonest LookupsReturn LeavesQueue
