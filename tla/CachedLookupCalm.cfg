CONSTANTS Callers = {c1, c2}
          Keys = {k1}
          Flights = {f1, f2}
          Found = {"full"}
          Negative = {}
          Unreadable = {}
          FullTTL = 1
          LowDataTTL = 1
          NegativeTTL = 1
          Cooldown = 1
          None = None
SPECIFICATION CalmSpec
INVARIANTS OneUpstreamLookup
CHECK_DEADLOCK FALSE
