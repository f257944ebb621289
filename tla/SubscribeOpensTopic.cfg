CONSTANTS
  kern = kern
  tune = tune
  get = get
  cmd = cmd
  fd1 = fd1
  Instances <- MCInstances
  Topics <- MCTopics
  SdkFds = {fd1, fd2}
  NoTopic = NoTopic
  InstanceOf <- MCInstanceOf
  Supported = {get}
  EnableDeps <- MCEnableDeps
  OpenDeps <- MCOpenDeps
  Kind <- MCKind
  RunOnce = {kern}
  Period <- MCPeriod
  Priority <- MCPriority
  Cycle = 10
  Preloaded <- MCInstances
  MaxRequests = 2
  MaxLoads = 2
  MaxData = 1
SPECIFICATION Spec
PROPERTY SubscribeOpensTopic
CHECK_DEADLOCK FALSE
