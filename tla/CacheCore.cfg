CONSTANTS Users = {u1, u2}
          Keys = {k1}
          Contents <- MCContents
          TTL <- MCTTL
          Cooldown = 2
          None = None
SPECIFICATION FairSpec
PROPERTIES OnlyStoreOpensWindow RepairedStoreUsedAgain
