CONSTANTS
  kern = kern
  tune = tune
  get = get
  cmd = cmd
  fd1 = fd1
  Instances <- MCInstances
  Topics <- MCTopics
  SdkFds = {fd1}
  NoTopic = NoTopic
  InstanceOf <- MCInstanceOf
  Supported = {get}
  EnableDeps <- MCEnableDeps
  OpenDeps <- MCOpenDeps
  Kind <- MCKind
  RunOnce = {kern}
  Period <- MCPeriod
  Priority <- MCPriority
  Cycle = 10
  Preloaded = {tune}
  MaxRequests = 4
  MaxLoads = 2
  MaxData = 1
SPECIFICATION Spec
INVARIANTS CrashNeedsRemoval
PROPERTIES RequestAnswered EnabledKeepsRunning
CHECK_DEADLOCK FALSE
