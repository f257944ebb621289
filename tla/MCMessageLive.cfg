SPECIFICATION Spec
CONSTANTS
  s1 = s1
  s2 = s2
  m = m
  refused = refused
  f1 = f1
  f2 = f2
  f3 = f3
  Nobody = Nobody
  Clients = {s1, m}
  Sdk = {s1}
  Permitted = {s1}
  Fds = {f1, f2}
  MaxAsked = 4
  MaxPending = 1
  MaxData = 1
  Buffer = 1
PROPERTIES
  Answered
  DescriptorReclaimed
CHECK_DEADLOCK FALSE
