SPECIFICATION Spec
CONSTANTS
  s1 = s1
  s2 = s2
  m = m
  refused = refused
  f1 = f1
  f2 = f2
  f3 = f3
  Nobody = Nobody
  Clients = {s1, s2, m, refused}
  Sdk = {s1, s2, refused}
  Permitted = {s1, s2}
  Fds = {f1, f2}
  MaxAsked = 3
  MaxPending = 2
  MaxData = 1
  Buffer = 1
INVARIANTS
  AnswerReachesAsker
  AnsweredOnce
  NoGhostSubscription
  ClosingSparesSuccessor
  ConnsMatchHolders
SYMMETRY Alike
CHECK_DEADLOCK FALSE
