CONSTANTS
  t1 = t1
  t2 = t2
  receiver = receiver
  a = a
  Threads = {t1, t2}
  Receiver = receiver
  Topics = {a}
  OnceTopics = {}
  CallbackOpts = {"SUBSCRIBE", "UNSUBSCRIBE"}
  NoCall = NoCall
  MaxCalls = 3
  MaxData = 1
  MaxInits = 2
SPECIFICATION Spec
INVARIANT ZeroMeansSubscribed
CHECK_DEADLOCK FALSE
