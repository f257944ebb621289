CONSTANTS
  coll = coll
  anal = anal
  tune = tune
  tc = tc
  ta = ta
  fd1 = fd1
  Instances <- MCInstances
  Topics <- MCTopics
  SdkFds <- MCSdkFds
  NoTopic = NoTopic
  InstanceOf <- MCInstanceOf
  Supported <- MCTopics
  EnableDeps <- MCEnableDeps
  OpenDeps <- MCOpenDeps
  Kind <- MCKind
  RunOnce = {}
  Period <- MCPeriod
  Priority <- MCPriority
  Cycle = 10
  Preloaded <- MCInstances
  MaxRequests = 3
  MaxLoads = 1
  MaxData = 1
SPECIFICATION Spec
INVARIANTS SubscriptionsMatchTopics LiveTopicsClosedByDisable EnabledIsQueued
  NeverOverdue NoLeakedSubscription
PROPERTIES UnsubscribeSparesSubscribed
CHECK_DEADLOCK FALSE
