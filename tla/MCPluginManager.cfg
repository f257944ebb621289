CONSTANTS
  coll = coll
  tune = tune
  tc = tc
  fd1 = fd1
  pcoll = pcoll
  ptune = ptune
  Instances <- MCInstances
  Topics <- MCTopics
  SdkFds = {fd1}
  NoTopic = NoTopic
  InstanceOf <- MCInstanceOf
  Supported <- MCTopics
  EnableDeps <- MCEnableDeps
  OpenDeps <- MCOpenDeps
  Kind <- MCKind
  RunOnce = {}
  Period <- MCPeriod
  Priority <- MCPriority
  Cycle = 10
  Preloaded <- MCInstances
  MaxRequests = 10
  MaxLoads = 2
  MaxData = 1
  Plugins = {pcoll, ptune}
  PluginOf <- MCPluginOf
  EnableList <- MCEnableTune
  MaxEvents = 2
SPECIFICATION PMSpec
INVARIANTS OneAnswerPerRequest StoreMatchesPlugins
PROPERTIES UsesRunHandler EveryRequestAnswered ShutdownCompletes
CHECK_DEADLOCK FALSE
