CONSTANTS
  t1 = t1
  r1 = r1
  r2 = r2
  e1 = e1
  e2 = e2
  p1 = p1
  p2 = p2
  None = None
  Tabs <- MCTabs
  Requests <- MCRequests
  Emails <- MCEmails
  Passwords <- MCPasswords
  Host <- MCHost
  Watched <- MCWatched
  Burst = 1
  Unit = 1
  Rate = 2
  TokenTTL = 1
  MaxTime = 1
  MaxEntries = 1
SPECIFICATION Spec
SYMMETRY Symmetry
INVARIANTS
  IInv
  OneAccount
  WindowBounded
  ShownIsSignedIn
