CONSTANTS
  r1 = r1
  r2 = r2
  Requests <- MCRequests
  Ids <- MCIds
  Artist <- MCArtist
  Cosine <- MCCosine
  Title <- MCTitle
  MatchRank <- MCMatchRank
  Jobs <- MCJobs
  Stats <- MCStats
  StatsConfigured = TRUE
  PageSize = 2
  BatchSize = 2
  MaxUploads = 1
  Weight = 3
  Smoothing = 1
  Word = 64
  MinCandidates = 1
  CandidatesPerResult = 1
  MaxCandidates = 3
  MinRerankCandidates = 2
  RerankCandidatesPerResult = 2
  MaxCatalogSize = 3
  Timeout = 2
  PostTimeout = 2
  StatsTimeout = 1
  CatalogTTL = 1
  CatalogRetryDelay = 1
  MaxTime = 4
  MaxSimilar = 1
SPECIFICATION Spec
SYMMETRY Symmetry
INVARIANTS
  IInv
  AnsweredInTime
  RerunShowsUp
  SkipsNeverHelp
PROPERTIES
  NeighborsExact
