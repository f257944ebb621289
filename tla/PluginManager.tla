--------------------------- MODULE PluginManager ----------------------------
(***************************************************************************)
(* The main thread of the service (class PluginManager and the handlers of *)
(* plugin_mgr/event), composed with the scheduling thread it posts to.     *)
(*                                                                         *)
(* Events come from the message manager's epoll thread, which waits for    *)
(* the answer of one request before it reads the next, from that thread    *)
(* closing a connection, from PreEnable, and from a signal.  A handler's   *)
(* checks, its post to the scheduling thread and its wait are separate     *)
(* steps: between them the scheduling thread keeps changing what was       *)
(* checked.                                                                *)
(***************************************************************************)
EXTENDS InstanceRunHandler

CONSTANTS
  Plugins,        \* plugin libraries
  PluginOf,       \* Instance::pluginName
  EnableList,     \* instances the configuration enables at start, in order
  MaxEvents       \* bound: events the outside world sends

ASSUME PluginsAssumption ==
  /\ PluginOf \in [Instances -> Plugins]
  /\ EnableList \in Seq(Instances)
  /\ MaxEvents \in Nat
  /\ \A i, j \in Instances : PluginOf[i] = PluginOf[j] => (i \in Preloaded <=> j \in Preloaded)

VARIABLES
  plugins,        \* MemoryStore::plugins
  recvMessage,    \* events for the main thread
  sendMessage,    \* answers for the epoll thread
  mpc,            \* where the main thread is
  event,          \* the event being handled
  todo,           \* instances the current loop has still to visit
  client,         \* the request the epoll thread waits on, or Nobody
  events          \* events sent so far

pmVars == <<plugins, recvMessage, sendMessage, mpc, event, todo, client, events>>
allVars == <<vars, pmVars>>

-----------------------------------------------------------------------------
(* Events.  A QUERY stands for every handler that only reads: query, list, *)
(* info, download, configuration reload, and events with a bad payload.    *)

Event(opt, inst, topic, who, type) ==
  [opt |-> opt, inst |-> inst, topic |-> topic, who |-> who, type |-> type]
None == "none"
Nobody == Event(None, None, NoTopic, None, "INTERNAL")
Requested ==
  {Event(opt, i, NoTopic, None, "EXTERNAL") : opt \in {"ENABLED", "DISABLED"}, i \in Instances}
  \cup {Event(opt, p, NoTopic, None, "EXTERNAL") : opt \in {"LOAD", "REMOVE"}, p \in Plugins}
  \cup {Event(opt, InstanceOf[t], t, fd, "EXTERNAL") :
          opt \in {"SUBSCRIBE", "UNSUBSCRIBE"}, t \in Topics, fd \in SdkFds}
  \cup {Event("PUBLISH", InstanceOf[t], t, fd, "EXTERNAL") : t \in Topics, fd \in SdkFds}
  \cup {Event("PUBLISH", i, NoTopic, fd, "EXTERNAL") : i \in Instances, fd \in SdkFds}
  \cup {Event("QUERY", None, NoTopic, None, "EXTERNAL")}
Closed(fd) == Event("UNSUBSCRIBE_SDK", None, NoTopic, fd, "INTERNAL")
Shutdown   == Event("SHUTDOWN", None, NoTopic, None, "INTERNAL")
Enable(i)  == Event("ENABLED", i, NoTopic, None, "INTERNAL")

\* Mutant: the subscriber is taken from the wrong field of the event.
MessageByName(e) ==
  CASE e.opt \in {"ENABLED", "DISABLED"} ->
         [type |-> e.opt, inst |-> e.inst, from |-> "main"]
    [] e.opt \in {"SUBSCRIBE", "UNSUBSCRIBE"} ->
         [type |-> e.opt, topic |-> e.topic, who |-> e.inst, from |-> "main"]
    [] e.opt = "UNSUBSCRIBE_SDK" -> [type |-> e.opt, who |-> e.who, from |-> "main"]
    [] e.opt = "PUBLISH" ->
         [type |-> e.opt, inst |-> e.inst, topic |-> e.topic, from |-> "main"]
    [] e.opt = "SHUTDOWN" -> [type |-> e.opt, from |-> "main"]
\* The message a handler posts for an event.
Message(e) ==
  CASE e.opt \in {"ENABLED", "DISABLED"} ->
         [type |-> e.opt, inst |-> e.inst, from |-> "main"]
    [] e.opt \in {"SUBSCRIBE", "UNSUBSCRIBE"} ->
         [type |-> e.opt, topic |-> e.topic, who |-> e.who, from |-> "main"]
    [] e.opt = "UNSUBSCRIBE_SDK" -> [type |-> e.opt, who |-> e.who, from |-> "main"]
    [] e.opt = "PUBLISH" ->
         [type |-> e.opt, inst |-> e.inst, topic |-> e.topic, from |-> "main"]
    [] e.opt = "SHUTDOWN" -> [type |-> e.opt, from |-> "main"]

PMInit ==
  /\ Init
  /\ plugins = {PluginOf[i] : i \in Preloaded}
  /\ recvMessage = <<>> /\ sendMessage = <<>>
  /\ mpc = "start" /\ event = Nobody /\ todo = {}
  /\ client = Nobody /\ events = 0

-----------------------------------------------------------------------------
(* The loop of PluginManager::Run                                          *)

\* PreEnable, after PreLoadPlugin: an event for each name in the list whose
\* plugin is loaded, in the order of the list.
PreEnable ==
  /\ Alive /\ mpc = "start"
  /\ LET known == {n \in DOMAIN EnableList : PluginOf[EnableList[n]] \in plugins}
     IN \E at \in [1..Cardinality(known) -> known] :
          /\ \A m, n \in DOMAIN at : m < n => at[m] < at[n]
          /\ recvMessage' = recvMessage \o [n \in DOMAIN at |-> Enable(EnableList[at[n]])]
  /\ mpc' = "idle"
  /\ UNCHANGED <<vars, plugins, sendMessage, event, todo, client, events>>

Pop ==
  /\ Alive /\ mpc = "idle" /\ recvMessage # <<>>
  /\ event' = Head(recvMessage)
  /\ recvMessage' = Tail(recvMessage)
  /\ mpc' = "handle"
  /\ UNCHANGED <<vars, plugins, sendMessage, todo, client, events>>

\* Mutant: internal events are answered too.
ReplyAlways(code) ==
  /\ mpc' = "idle"
  /\ sendMessage' = Append(sendMessage, [event |-> event, code |-> code])
\* The answer: only an EXTERNAL event gets one.
Reply(code) ==
  /\ mpc' = "idle"
  /\ sendMessage' = IF event.type = "EXTERNAL"
                    THEN Append(sendMessage, [event |-> event, code |-> code])
                    ELSE sendMessage

-----------------------------------------------------------------------------
(* Handlers that post to the scheduling thread                             *)

\* What EnableHandler, DisableHandler and SubscribeHandler check first.
InstanceEnabled(i)  == i \in store /\ ~IsEnabled(i)
InstanceDisabled(i) == i \in store /\ IsEnabled(i)
Subscribe(t) == InstanceOf[t] \in store /\ t \in Supported
Accepted(e) ==
  CASE e.opt = "ENABLED"   -> InstanceEnabled(e.inst)
    [] e.opt = "DISABLED"  -> InstanceDisabled(e.inst)
    [] e.opt = "SUBSCRIBE" -> Subscribe(e.topic)
    [] OTHER -> TRUE
Posting == {"ENABLED", "DISABLED", "SUBSCRIBE", "UNSUBSCRIBE", "UNSUBSCRIBE_SDK",
            "PUBLISH", "SHUTDOWN"}

\* Mutant: a refused request is not answered.
CheckFailsSilently ==
  /\ Alive /\ mpc = "handle" /\ event.opt \in Posting
  /\ ~Accepted(event)
  /\ mpc' = "idle"
  /\ UNCHANGED <<vars, plugins, recvMessage, sendMessage, event, todo, client, events>>
CheckFails ==
  /\ Alive /\ mpc = "handle" /\ event.opt \in Posting
  /\ ~Accepted(event)
  /\ Reply("FAILED")
  /\ UNCHANGED <<vars, plugins, recvMessage, event, todo, client, events>>
CheckPasses ==
  /\ Alive /\ mpc = "handle" /\ event.opt \in Posting
  /\ Accepted(event)
  /\ mpc' = "post"
  /\ UNCHANGED <<vars, plugins, recvMessage, sendMessage, event, todo, client, events>>
PostMessage ==
  /\ mpc = "post"
  /\ Post(Message(event))
  /\ mpc' = "wait"
  /\ UNCHANGED <<plugins, recvMessage, sendMessage, event, todo, client, events>>

\* Wait returns.  DisableHandler reports success whatever happened; SHUTDOWN
\* goes on in Exit with the plugins' instances.
WaitReturns ==
  /\ mpc = "wait"
  /\ Awake
  /\ IF event.opt = "SHUTDOWN"
     THEN /\ mpc' = "exit"
          /\ todo' = {i \in Instances : PluginOf[i] \in plugins}
          /\ UNCHANGED sendMessage
     ELSE /\ Reply(IF event.opt = "DISABLED" THEN "OK" ELSE result)
          /\ UNCHANGED todo
  /\ UNCHANGED <<plugins, recvMessage, event, client, events>>

-----------------------------------------------------------------------------
(* Handlers that work on the MemoryStore                                   *)

QueryHandler ==
  /\ Alive /\ mpc = "handle" /\ event.opt = "QUERY"
  /\ Reply("OK")
  /\ UNCHANGED <<vars, plugins, recvMessage, event, todo, client, events>>

\* LoadHandler: the file is unusable, or the plugin is loaded already.
LoadRefused ==
  /\ Alive /\ mpc = "handle" /\ event.opt = "LOAD"
  /\ Reply("FAILED")
  /\ UNCHANGED <<vars, plugins, recvMessage, event, todo, client, events>>
InstancesOf(p) == {i \in Instances : PluginOf[i] = p}
LoadPlugin ==
  /\ Alive /\ mpc = "handle" /\ event.opt = "LOAD"
  /\ event.inst \notin plugins
  /\ \A i \in InstancesOf(event.inst) : gen[i] < MaxLoads
  /\ plugins' = plugins \cup {event.inst}
  /\ todo' = InstancesOf(event.inst)
  /\ mpc' = "load"
  /\ UNCHANGED <<vars, recvMessage, sendMessage, event, client, events>>
LoadInstance(i) ==
  /\ mpc = "load" /\ i \in todo
  /\ AddInstance(i)
  /\ todo' = todo \ {i}
  /\ UNCHANGED <<plugins, recvMessage, sendMessage, mpc, event, client, events>>
LoadDone ==
  /\ Alive /\ mpc = "load" /\ todo = {}
  /\ Reply("OK")
  /\ UNCHANGED <<vars, plugins, recvMessage, event, todo, client, events>>

\* RemoveHandler looks at every instance, then deletes them.
RemoveMissing ==
  /\ Alive /\ mpc = "handle" /\ event.opt = "REMOVE" /\ event.inst \notin plugins
  /\ Reply("FAILED")
  /\ UNCHANGED <<vars, plugins, recvMessage, event, todo, client, events>>
RemoveStart ==
  /\ Alive /\ mpc = "handle" /\ event.opt = "REMOVE" /\ event.inst \in plugins
  /\ todo' = InstancesOf(event.inst)
  /\ mpc' = "check"
  /\ UNCHANGED <<vars, plugins, recvMessage, sendMessage, event, client, events>>
RemoveCheck(i) ==
  /\ Alive /\ mpc = "check" /\ i \in todo
  /\ IF IsEnabled(i) THEN Reply("FAILED") /\ todo' = {}
                     ELSE todo' = todo \ {i} /\ UNCHANGED <<mpc, sendMessage>>
  /\ UNCHANGED <<vars, plugins, recvMessage, event, client, events>>
RemoveChecked ==
  /\ Alive /\ mpc = "check" /\ todo = {}
  /\ todo' = InstancesOf(event.inst)
  /\ mpc' = "remove"
  /\ UNCHANGED <<vars, plugins, recvMessage, sendMessage, event, client, events>>
RemoveInstance(i) ==
  /\ mpc = "remove" /\ i \in todo
  /\ DeleteInstance(i)
  /\ todo' = todo \ {i}
  /\ UNCHANGED <<plugins, recvMessage, sendMessage, mpc, event, client, events>>
\* Mutant: the instances are deleted, the plugin is not.
RemoveDoneHalf ==
  /\ Alive /\ mpc = "remove" /\ todo = {}
  /\ Reply("OK")
  /\ UNCHANGED <<vars, plugins, recvMessage, event, todo, client, events>>
RemoveDone ==
  /\ Alive /\ mpc = "remove" /\ todo = {}
  /\ plugins' = plugins \ {event.inst}
  /\ Reply("OK")
  /\ UNCHANGED <<vars, recvMessage, event, todo, client, events>>

\* PluginManager::Exit.
ExitInstance(i) ==
  /\ mpc = "exit" /\ i \in todo
  /\ \/ ExitDisable(i)
     \/ Alive /\ ~IsEnabled(i) /\ UNCHANGED vars
  /\ todo' = todo \ {i}
  /\ UNCHANGED <<plugins, recvMessage, sendMessage, mpc, event, client, events>>
ExitDone ==
  /\ Alive /\ mpc = "exit" /\ todo = {}
  /\ mpc' = "done"
  /\ UNCHANGED <<vars, plugins, recvMessage, sendMessage, event, todo, client, events>>

MainThread ==
  \/ PreEnable \/ Pop \/ CheckFails \/ CheckPasses \/ PostMessage \/ WaitReturns
  \/ QueryHandler \/ LoadRefused \/ LoadPlugin \/ LoadDone
  \/ RemoveMissing \/ RemoveStart \/ RemoveChecked \/ RemoveDone \/ ExitDone
  \/ \E i \in Instances : \/ LoadInstance(i) \/ RemoveCheck(i) \/ RemoveInstance(i)
                          \/ ExitInstance(i)

-----------------------------------------------------------------------------
(* The message manager's threads and the signal handler                    *)

SendEvent(e) ==
  /\ Alive /\ events < MaxEvents
  /\ events' = events + 1
  /\ recvMessage' = Append(recvMessage, e)
  /\ UNCHANGED <<vars, plugins, sendMessage, mpc, event, todo>>
Request(e) == client = Nobody /\ client' = e /\ SendEvent(e)
CloseConn(fd) == client = Nobody /\ SendEvent(Closed(fd)) /\ UNCHANGED client
Signal ==
  /\ \A n \in DOMAIN recvMessage : recvMessage[n] # Shutdown
  /\ event # Shutdown
  /\ SendEvent(Shutdown) /\ UNCHANGED client
\* GetEventResult.
Answered ==
  /\ Alive /\ client # Nobody /\ sendMessage # <<>>
  /\ client' = Nobody
  /\ sendMessage' = Tail(sendMessage)
  /\ UNCHANGED <<vars, plugins, recvMessage, mpc, event, todo, events>>

World ==
  \/ \E e \in Requested : Request(e)
  \/ \E fd \in SdkFds : CloseConn(fd)
  \/ Signal \/ Answered

PMRunThread == RunThread /\ UNCHANGED pmVars
PMTakeData == TakeData /\ UNCHANGED pmVars
PMNext == PMRunThread \/ PMTakeData \/ MainThread \/ World
PMSpec ==
  /\ PMInit /\ [][PMNext]_allVars
  /\ WF_allVars(PMRunThread) /\ WF_allVars(MainThread) /\ WF_allVars(Answered)
  /\ WF_allVars(PMTakeData)

-----------------------------------------------------------------------------
(* Properties                                                              *)

\* The main thread uses the scheduling thread only as InstanceRunHandler allows,
\* so that everything proved there holds here.
UsesRunHandler == Init /\ [][Next]_vars

Serving == {"handle", "post", "wait", "load", "check", "remove"}
\* The request the epoll thread waits on is in exactly one place: queued, being
\* handled, or answered; no answer is ever there for another one.  Only a
\* shutdown may leave it unanswered.
OneAnswerPerRequest ==
  LET queued == {n \in DOMAIN recvMessage : recvMessage[n].type = "EXTERNAL"}
      handled == IF mpc \in Serving /\ event.type = "EXTERNAL" THEN 1 ELSE 0
  IN /\ Cardinality(queued) + handled + Len(sendMessage) = IF client = Nobody THEN 0 ELSE 1
     /\ \A n \in queued : recvMessage[n] = client
     /\ handled = 1 => event = client
     /\ sendMessage # <<>> => Head(sendMessage).event = client

\* REMOVE deletes the instances of a plugin only together with the plugin, and
\* LOAD adds them only with it: outside these handlers the two maps agree.
StoreMatchesPlugins ==
  mpc \notin {"load", "remove"} => store = {i \in Instances : PluginOf[i] \in plugins}

\* Every request is answered, unless the service crashes or shuts down.
EveryRequestAnswered ==
  client # Nobody ~> (client = Nobody \/ ~Alive \/ event = Shutdown)

\* The service, once told to stop, comes to its end.
ShutdownCompletes == event = Shutdown ~> (mpc = "done" \/ ~Alive)

-----------------------------------------------------------------------------
(* What the design document says and the code does not do                  *)

\* A plugin is removed only when none of its instances runs (section 3.5.3).
RemovedIsNotRunning == \A o \in enabled : IsCurrent(o)

\* A plugin whose instances do not run can be removed (section 3.5.3): no later
\* unsubscription looks up an instance that is gone.
RemovalIsSafe == [][~UpdateCrashes]_vars
=============================================================================
