# A TLA+ model of the oeAware service

oeAware runs *plugin instances* (collectors, analyses, tuners) inside one service process and lets
instances and outside clients subscribe to each other's *topics*. This directory models the service's
core (who may be enabled, subscribed, scheduled, removed and answered when, by three threads that share
state), the client library and the byte stream between the two, and those plugins that have hard state of
their own: the tuners' settings, realtime_tune's boot parameters, the command collector. All line numbers refer to the repository as it stands under `src/`.

## 1. Inventory

| Part | State it keeps | Operations | Talks to |
|---|---|---|---|
| Scheduling thread, `InstanceRunHandler` | `scheduleQueue`, `topicState`, `subscibers`, `time` | one handler per `RunType`, `Schedule`, the loop of `Start` | reads the `MemoryStore`; calls plugins; wakes the main thread |
| `MemoryStore`, `Plugin`, `Instance` | two maps; `enabled`, `openTopics` of every object | add, delete, look up | shared by the first two threads, without a lock |
| Plugins (`Interface`) | their own open topics | `Enable`, `Disable`, `OpenTopic`, `CloseTopic`, `Run`, `UpdateData` | push messages into the scheduling thread's `recvQueue` from inside those calls |
| Main thread, `PluginManager` and `event/` | the event being handled | one handler per `Opt`, preloading, `Exit` | takes events from `recvMessage`, posts to `recvQueue` and blocks in `Wait`, answers on `sendMessage` |
| Message manager | `conns` | accept, read, answer, close; a second thread sends data | sends one event, waits for its answer before it reads on |
| SDK client (in the clients' processes) | `topicHandle`, `resultQueue`, `finished`, `isQuit` | `Init`, `Subscribe`, `Unsubscribe`, `Publish`, `Close`; a detached receiving thread runs callbacks | the message manager's socket |
| Message stream, `SocketStream` | `readBuff`, its content and offset | send a frame, receive a frame in three parts | both ends of a connection |
| Tuners | the settings they found; the system's settings | `Enable`, `Disable`, some `Run` | the files, services and kernel modules of the machine, which they share |
| `realtime_tune` | boot parameters, enable list, `isRebooting` | the same, over reboots | the boot loader, `config.yaml`, the next process |
| Command collector | `isRunning`, `hasNewData`, `datas`, two threads and a child per topic | `OpenTopic`, `CloseTopic` (detached), collect, publish | the scheduling thread; a command's output |
| Serialisation, data register, config, logging, command line | none that outlives a call | parsing and formatting | |

What is hard here:

* **Two threads, one store.** The main thread checks `enabled` and then posts a message, or deletes an
  instance; the scheduling thread changes `enabled` in between, on behalf of a plugin.
* **Deferred effects.** A plugin's subscription is a queued message. The instance it belongs to, or the
  instance it names, may be gone or disabled when it is handled.
* **Three records of one fact.** That a topic is open is kept in `topicState`, in
  `Instance::openTopics` and in the plugin. Different paths update different ones.
* **Equality with a clock.** `Schedule` runs an entry only if its time *equals* the clock; an entry passed
  over once stops the queue for good.
* **Uninitialised results** (`Result`, `InstanceRunMessage::finish`) that reach a client or end a wait.
* **Names that are used again.** Queued data and queued unsubscriptions name a descriptor, which the kernel
  gives to the next client as soon as it is closed.
* **Waits without a timeout**, main thread on scheduling thread and epoll thread on main thread.
* **Answers without a number.** The SDK takes the first result in its queue for its own; a timeout or an
  overlapping call shifts every later answer.
* **Read-ahead** that ends anywhere in a frame, and a receive timeout that strikes anywhere in it.
* **Shared settings.** Tuners that know nothing of each other save and restore the same file.
* **State that outlives the process**, written by several commands, any of which may fail or be the last.
* **Asynchronous closing** that the next opening overtakes.

`PROJECT.json` lists each of these at its line under `hazards`, with the property that would catch it.

What makes each part correct: the scheduling thread's three records agree, no subscription survives its
reason, nothing enabled is lost from the queue and nothing in the queue is passed over; the main thread
answers every request once, keeps the two maps of the store in step, and comes to an end when told to; the
composition asks of the scheduling thread only what its own specification allows; the message manager gives
each answer to the client that asked and keeps no subscription for a client that has gone. The SDK is a
synchronous call to an application that makes one call at a time, and returns in any case; the stream returns
what was sent until it loses the frames, loses them only under crowding, and never repeats or reorders a byte; the tuners leave the system as they found it; what realtime_tune promised is in effect after
the reboot and nothing of it is forgotten, as long as the writes of its files work; a closed command topic leaves
no thread and no line, and an open one is read until its command ends.

## 2. Modules

| Module | What it is |
|---|---|
| `InstanceRunHandler` | scheduling thread, store, instances, plugins' messages; the main thread is an arbitrary environment |
| `PluginManager` | extends it with the real main thread, the events it gets and the answers it gives |
| `InstanceRunHandlerProofs` | type correctness, one lemma per action, and the safety theorems |
| `PluginManagerProofs` | the main thread keeps to `InstanceRunHandler`'s environment; requests and the store; the scheduling thread's theorems carried over to the service |
| `MessageManager` | connections: the epoll thread, the data thread, `conns`, descriptors and their reuse, clients; the rest of the service is an abstract server |
| `MessageManagerProofs` | its safety theorems |
| `SdkClient` | the client library: callers, receiving thread, callbacks, timeouts, `Close`; the server is reduced to what `MessageManager` does to one connection |
| `SdkPromise` | what the SDK promises; `SdkClient` implements it |
| `SdkClientProofs` | its safety theorems and the refinement |
| `MessageStream` | framing and read-ahead |
| `MessageStreamProofs` | its safety theorems |
| `TuneSettings` | ten tuners and the settings they share |
| `TuneSettingsProofs` | its safety theorems |
| `RealtimeTune` | realtime_tune's boot parameters and enable list, over crashes and reboots |
| `RealtimeTuneProofs` | its safety theorems |
| `CommandCollector` | the threads of a command topic |
| `CommandCollectorProofs` | its safety theorems |
| `MCRunHandler`, `MCRunOnce`, `MCPluginManager`, `MCMessageManager`, `MCSdkClient`, `MCMessageStream`, `MCTuneSettings`, `MCRealtimeTune`, `MCCommandCollector` | small instances for TLC |

### InstanceRunHandler

An action is a whole message (`HandleEnabled`, `SubscribeOpens`, ...), one popped schedule entry
(`ScheduleRun`, ...), the sleep with the clock's advance (`Tick`), or one step of the environment. The
branches of a handler are separate actions where they end differently: `Subscribe` (lines 57-91) is
`SubscribeRefused`, `SubscribeOpenFails`, `SubscribeOpens`, `SubscribeJoins`.

How its state stands for the code's:

* An `Instance` object is a pair (name, load number): a queue entry holds a `shared_ptr`, so that after a
  removal and a new load it still means the old object. `enabled`, `openTopics` and `live` are sets over
  objects. `live` is what the plugin itself holds open, between `OpenTopic` and `CloseTopic`.
* `topicState` is two sets: its keys (`operator[]` creates one even when opening fails) and the keys that
  are true. `subscibers` is the set of its pairs and the set of its keys, which differ: `PublishData`
  creates a key with an empty list, and `UpdateInstance` asks for the key only.
* A schedule entry keeps the milliseconds *left* instead of an absolute time, so that time does not grow;
  all times that have passed are -1, because only equality with the clock is ever asked.
* `ticket` is the main thread's `Wait` on its message, `result` that message's `Result`.
* A handler that fails a look-up and goes on dereferences null. That, and the use of an object whose
  library has been closed, is `pc = "crashed"`, after which nothing happens.

Inputs are nondeterministic where the code cannot know them: whether `Enable` and `OpenTopic` of a plugin
succeed, which open topics `Run` publishes on, the order in which an unordered container is walked, the
value of an uninitialised `Result` or `finish`.

What is abstracted: payloads, parameters and log texts; `enableCnt` and `topicRunOnce`, which nothing reads
to decide; `Instance::state`, which is never false. A plugin subscribes to fixed topics
from `Enable` (`EnableDeps`) and per topic from `OpenTopic` (`OpenDeps`) and drops them in `Disable` and
`CloseTopic`, as the plugins of the repository do; what one handler pushes is a set in some order, without
repetitions. One handler is one step: while it runs the main thread can at most read or write the store,
and such an access is placed before or after it. The store's maps have no lock, so that a truly concurrent
access is undefined behaviour; that outcome is not modelled.

### PluginManager

The main thread's `mpc` walks through a handler: `Pop`, then for the handlers that post, check
(`CheckFails`, `CheckPasses`), `PostMessage`, `WaitReturns`; for LOAD and REMOVE one step per instance.
Between any two of them the scheduling thread may take any number of steps. `client` is the request the
epoll thread is blocked on. QUERY stands for every handler that only reads and for the events that a handler
refuses for their payload: both are answered without an effect. An event whose opt has no handler, which neither
the SDK nor the command line sends, would make `PluginManager::Run` (plugin_manager.cpp:168) call a method of a
null pointer; the model has no such event. The environment's steps of `InstanceRunHandler` are reused (`Post`,
`Awake`, `AddInstance`, ...), so `UsesRunHandler` says exactly that the main thread keeps to their guards.

### MessageManager

`PluginManager` knows one client that waits; this module knows them all. The epoll thread's `epc` walks
through `SaveConnection` (`Accept`, `AddConn`), `HandleMessage` (`Read`, `TakeAnswer`, `Lock`, `SendAnswer`)
and the end of a connection (`ReadFails`, `CloseConn`, `Close`); the data thread's `dpc` through one turn of
`Start` (`TakeData`, `CheckConn`, `SendData`). Steps that need `connMutex` wait for it; `CheckConn` and `Lock`
keep it until the send is done. `holder` is what the kernel knows: which client is behind a descriptor, and
which descriptors `accept` may return next (any free one, since other parts of the process open files too).

A connection refused for its permissions is neither watched nor closed: its descriptor is lost, which is why
`DescriptorReclaimed` speaks of admitted clients only.

A read takes everything the client's socket holds, and `HandleMessage` uses the first request only: its
`SocketStream` and the buffer in it are gone with the call. A send blocks while the client's socket is full;
to a client that left it fails, which nothing notices, since `SendMessage` returns -1 as `true`. Requests are
assumed to fit the stream's buffer. The service behind the queues is `Serve` and `Publish`: it answers
EXTERNAL events in order, keeps by descriptor who subscribes, and publishes at any time. Left out are
`InitGroups` and `StartListen`, which run before any of this (who is permitted is a constant), a failing
`accept` or `epoll_ctl`, and the shutdown, which `PluginManager` has.

### SdkClient and SdkPromise

A caller walks through `lock` (its own one of the three mutexes), `wait` and `got`; `Close` is a call of its
own. The receiving thread checks `finished`, reads, and runs the callbacks of a topic one by one; a callback
may call the SDK itself, and then waits for an answer that only its own thread could receive. Requests and
answers carry the number of their call, which the messages of the code do not have: that is how a property can
tell whose answer was taken. The 15 seconds of `WaitTimeAndPop` may pass at any moment (`TimesOut`). Undefined
behaviour (a `pop_back` on an erased list, a callback list changed while it is walked, a `resultQueue` that is
destroyed under a waiting call) is `crashed`. The map `topicHandle` itself has no lock: a look-up in it
(oe_client.cpp:75, 150) is taken as one step, and what it does during a rehash is left out.

`SdkPromise` is a synchronous call: begin, decide, return. `SdkClient` implements it as long as `trust` holds,
that is until a call gives up or overlaps another; the mapping finds the server's decision wherever the answer
is: in the socket, in `resultQueue` or with the caller.

### MessageStream

A byte is a cell that says which byte of which frame it is, so that the property can tell exactly what was
read. `RecvMessage` reads length (`ReadLength`), header and body (`ReadBuf`) with `Read` and `Consume`, which
say what one call of `SocketStream::Read` returns and what it leaves: cells of `readBuff` first, a small read
by fetching a full buffer, a large one straight from the socket. The kernel queues a send in pieces.

`RecvMessage` reads its length prefix once and goes on with whatever it got (lines 106-129): a prefix that is cut
by the end of the buffer gives lengths of its own, and so does the rest of a frame in which the SDK's receive
timeout struck. The bytes of a prefix give the lengths of their frame (`Lengths`), any others one of `Garbled`.
With these `RecvMessage` may return an empty or a misaligned message, wait for bytes that are not coming, find a
prefix again by chance, or end the process when the bytes are taken for the length of a string (`Returns`,
`part = "dead"`). `lost` only records that this began; it guards nothing but the end of the process. Real sizes are scaled
down; what matters is that a prefix is shorter than the buffer and that bodies exist below and above it.

### TuneSettings

A tuner is data: its writes in order, which of them `Enable` and `Run` do (`enables`, `runs`: positions), which
`Enable` must succeed with, what `Disable` writes back and in which order (`backs`), whether a failed `Enable`
takes back. The ten records of `Code` are read off the ten tuners; the actions are common to them. Every write
is a step and may fail. `order` is the order in which tuners were enabled. Where the properties make no claim is
recorded: `missed` (a write that was passed over), `spoilt` (a write back that failed, a tuner disabled under
one that came later, a partly done `Enable` that is not taken back), and `NotRestored`, the settings that
`Disable` leaves alone or sets to a fixed value other than the one found. The heuristics that choose values are
out: a tuner's value is one constant.

### RealtimeTune

Each command of `Enable` and `Disable` (list, one `grubby` per parameter, `grub2-mkconfig`, roll back, relist;
remove, unlist) is a step, may fail (`faults`), and may be the last one of the process (`Dies`). `Exit` is a
`Disable` that ends the process. `Starts` enables what the enable list names.

The boot loader has an entry per kernel. `Enable` compares with the entry that is the *default* (line 830) and
changes that of the *running* kernel (lines 986, 1014); the administrator, or a kernel that is installed, makes
another entry the default at any moment (`SetsDefault`), and `Boots` starts the default one. `from` and `found`
are the entry that was read and what it had. A parameter without a value (`Bare`) is kept as `""` like one that is
not set, and a rollback removes it (`RollbackValue`).

A write of `config.yaml` is not checked (lines 414-418, 477-479): it may leave the file as it was, or cut short
(`WriteFails`), and the caller goes on as if it had worked. A file that is cut short is any of the lists, or
`"broken"`: one that cannot be loaded, with which the service does not start. `unsaved` records that the last
write failed. `stuck` records parameters that a failed command, or a `Disable` under another kernel, left behind.

`asked` follows one promise from the `Enable` that made it over the boot. A restart of the process before the boot
forfeits it, because `isRebooting` is only in memory (line 80): see `RemovesAfterReboot` below.

### CommandCollector

The scheduling thread waits for `topicMutex` (`OpenTopicLocked`) or starts a closing thread (`CloseTopic`); any number of
closing threads wait for the mutex, and the one that has it joins both threads (`holder`). `Popen` may succeed; fail to fork
(it then gives `fdopen` a descriptor it has closed, so there is no stream); fail to open the stream after the
fork, which leaves a command that no one signals (`strays`); or fail to make the pipe, after which the code reads
an uninitialised `stream` (`fault = "undefined"`). Without a stream the collecting thread returns at once and `isRunning` stays.
An `fclose` that fails in `Pclose` leaves a stray command too. When the command ends by itself the collecting thread ends, and
`Close` throws away the lines that were not published (`dropped`). `Close` clears `datas` without `dataMutex`; when the
publishing thread is in the middle of it, that is undefined. Assumed: after a failed `fork` no other thread opens
a file under the closed descriptor's number before `fdopen` gets it. Left out: killed commands are never waited
for and stay zombies. One topic stands for all: topics share no state but the map.

## 3. Runs

| Run | Instance | Shows |
|---|---|---|
| `run_handler` | collector, analysis, tuner; 2 topics, 1 connection; 3 requests | the bookkeeping invariants, and that unsubscribing spares the subscribed |
| `run_once` | run-once collector of period 0 with a supported and an unsupported topic, a tuner; 4 requests, 2 loads | self-disabling instances and reloaded objects: crashes need a removal, requests are answered, enabled instances keep running |
| `plugin_manager` | 2 plugins, 1 connection, 1 instance enabled at start; 2 events | one answer per request, store and plugins agree, refinement of `InstanceRunHandler`, every request answered, shutdown completes |
| `message_manager` | 2 SDK clients, 1 refused, 1 command; 2 descriptors; 3 requests, up to 2 of a client at a time | answers, subscriptions and `conns` stay with their client while descriptors are used again; lost requests never lead to surplus answers |
| `message_manager_live` | 1 SDK client, 1 command, 2 descriptors; 4 requests, one of a client at a time | requests are answered, descriptors reclaimed |
| `sdk_client` | 2 threads and callbacks, 1 topic; 2 calls, 1 data, 2 sessions | refinement of `SdkPromise`; callbacks match the server's answers; crashes need overlapping calls; calls and `Close` return |
| `message_stream` | buffer of 7, bodies of 1, 2, 5 and 9, 3 frames, garbled lengths 0 and 4 | until the frames are lost, what is returned is what was sent, and everything arrives; lost or not, no byte is repeated or out of order; frames are lost only under crowding |
| `tune_settings` | all ten tuners, 3 original states; 4 calls, 1 failing write | settings restored in reverse order; failed `Enable`s leave no trace; the last tuner's values are in force |
| `realtime_tune` | 2 boot entries, 2 parameters; 6 calls, deaths, boots, starts and changes of the default entry, 2 failing commands or writes, 1 edit | nothing orphaned in either entry; rollbacks restore; promises are in effect after the boot, also when the default is not the running kernel's entry |
| `command_collector` | 4 openings, 2 lines | no thread replaced unjoined; closed topics are quiet, but for strays of a failing `fdopen` or `fclose`; open ones are read until their command ends; no stored line waits unseen; nothing hangs |

The other two runs each check one sentence of the design document that the code does not keep; TLC's
counterexample is the witness. `PROJECT.json` quotes the sentences under `findings`:

| Run | Counterexample |
|---|---|
| `subscribe_opens_topic` | the topic of a run-once instance is not opened a second time |
| `reports_success` | a client subscribes and unsubscribes: the subscription is removed and the answer, an unassigned code, says failed |

Nine more statements do not hold either, and stand beside the properties as the limits of what those
promise. Each has a configuration of its own, to be run by hand (`tlc -config <name>.cfg <module>`):

| Configuration | Module | Counterexample |
|---|---|---|
| `QueuedOnce` | `MCPluginManager` | enabled, disabled, enabled again: two entries, two runs each period |
| `RemovedIsNotRunning` | `MCPluginManager` | a plugin's SUBSCRIBE enables the instance after `RemoveHandler`'s check; a running instance is deleted |
| `RemovalIsSafe` | `MCPluginManager` | a name left in `topicState` after a removal is looked up by the next unsubscription |
| `DataOnlyToSubscriber` | `MCMessageManager` | data for a client that left is sent to the command that got its descriptor |
| `ZeroMeansSubscribed` | `MCSdkClient` | an overlapping or late answer is taken for the subscription's own |
| `NeverLost` | `MCMessageStream` | a prefix cut by the end of a full buffer is misread |
| `IrqbalanceStopped` | `MCTuneSettings` | one tuner is disabled and starts irqbalance while the other, which stopped it, is still enabled |
| `RemovesAfterReboot` | `MCRealtimeTune` | comments at realtime_tune.cpp:81 and 85 say that `Disable` removes the parameters only after their reboot; the process dies after `Enable` wrote them and starts again, `isRebooting` is FALSE, and the next `Disable` removes parameters that still wait |
| `DisabledStaysOff` | `MCRealtimeTune` | disabled before the first reboot, the tuner stays on the list and is enabled after it |

**Bounds.** `MaxRequests` (requests, loads and removals of the environment), `MaxLoads` (objects per name), `MaxData`
(data messages in flight) and `MaxEvents` (events from outside). Three requests suffice for enable/subscribe,
disturb, unsubscribe, and plugins' own messages are not counted: one ENABLED of the tuner is followed by a
subscription, which enables the collector. Two loads give a stale object besides a current one. One
connection and one instance as subscribers of the same topic already make a topic shared. In
`plugin_manager`, `MaxRequests` is larger than the main thread can use and bounds nothing. The theorems of
section 5 hold without any bound.

In the `message_*` runs `MaxAsked` bounds the requests in all, `MaxPending` those of a client at a time, `MaxData` the published data in
the queue (not in total), and `Buffer` a socket. Each client connects once; two SDK clients, a refused one and a command on
two descriptors give every kind of successor on a descriptor and two connections at the same time. SDK clients
and descriptors are interchangeable, and `message_manager`, which checks invariants only, uses that symmetry.
`message_manager_live` needs a descriptor for every client, or one that is never freed by a client that stays
keeps the others waiting.

In `sdk_client` two calls (`MaxCalls`) overlap, or follow a late answer; `MaxInits` 2 gives a session after a
`Close`, and one data (`MaxData`) runs the callbacks. In `message_stream` the bodies let a prefix, a header or a
body be cut by the end of the buffer, and 9 exceeds it; `Chunk` cuts a frame in the socket;
three frames (`MaxFrames`) fill the buffer and leave a remainder; of the garbled lengths (`Garbled`)
0 makes an empty message and 4 one that ends within the next frame. In `tune_settings` four calls (`MaxJobs`)
enable two tuners and disable them in either order, for each pair of the ten; one fault (`MaxFaults`) at every
write; the original states are a fresh system, one that already has what some tuners set, and one where a
module and an enable list entry were left. In `realtime_tune` six calls (`MaxCalls`)
are a start that enables, another default entry, a stop, a boot, a start and a disable under the other kernel, or fewer of these and
disturbances; two parameters let an update fail half way, the second fault lets its rollback fail. In `command_collector` four openings (`MaxOpens`) put up to four closing
threads in wait; two lines (`MaxLines`) let one arrive while another is published. Parameters and boot
entries of `realtime_tune` are interchangeable and that run, which has no temporal property, uses the symmetry.

**Deadlock** is not checked: the scheduling thread ends after SHUTDOWN, a crash ends everything, and the
bounds end the environment.

## 4. Fairness

`Spec` assumes weak fairness of `RunThread` only: an operating system thread that never blocks (it uses
`TryPop` and `usleep`). `PMSpec` adds weak fairness of the main thread, which blocks only where its action
is disabled, of the epoll thread taking an answer that is there, and of the data thread. Nothing is assumed
of clients, signals or plugins' successes. The liveness properties except crashes and shutdown, which are
absorbing.

`MessageManager` assumes weak fairness of its two threads and of the server, and of `Receive`: a client that
stays reads what it gets, as the SDK's receiving thread and the command line do. A client that stays and never
reads again does block the service, because `connMutex` is held over a blocking send. Strong fairness is
assumed of the steps that wait for `connMutex`: the other thread frees it after each send and waits for its
next input without it, and data comes at most once a scheduling period.

`SdkClient` assumes weak fairness of every caller, its timeout included, since `WaitTimeAndPop` is a timed wait,
and of the receiving thread; nothing of the server. `MessageStream` assumes weak fairness of the kernel's
delivery and of the receiver. `CommandCollector` assumes weak fairness of the threads, and of the admitted
commands, which are started with an interval and print until killed: a command that is alive ends a blocking
`fgets` with a further line. `TuneSettings` and `RealtimeTune` have no liveness property.

## 5. Proofs

For every value of the constants that satisfies the assumptions of `InstanceRunHandler` (finite sets,
disjoint names, a positive cycle, and periods that are multiples of it, as the design document's
description of `period` requires):

| Theorem | Inductive invariant |
|---|---|
| `TypeCorrect` | `TypeOK` itself, one lemma per action |
| `SubscriptionsAgree` | `SubscriptionInv`: besides the property, every subscribed topic has its key in `subscibers` (`SubscribedHasKey`). The property alone is not inductive: `UpdateInstance` asks for keys, not for subscribers, and would close a subscribed topic without a key; the other way round, a key with an empty list, which `PublishData` creates, is harmless because its topic is not marked open |
| `SubscribedIsSpared` | follows from the step and `SubscriptionInv` |
| `DisableClosesTopics` | the property is inductive over `TypeOK` |
| `EnabledStaysQueued` | the property is inductive: an entry leaves the queue only when its object is not, or no longer, enabled |
| `EntriesSeenInTime` | `DueInv`: every remaining time is a non-negative multiple of the cycle, and none is zero while the thread sleeps. `Schedule` stops only when no entry that may be the top is due; that some entry *is* the top (`TopExists`) comes from the minimum of a well-founded order on the finite queue |
| `OnlyRemovalCrashes` | `KnownNames`: every name in `topicState`, in `subscibers`, in a queued subscription or in a schedule entry belongs to an instance that has been loaded, so that it is missing from the store only after a removal |
| `SubscriptionsEnd` | `LeakInv`: for every plugin and topic that it no longer has a reason to subscribe to (`~Needs`), the queue is `Balanced`: what is subscribed, or queued as SUBSCRIBE, has an UNSUBSCRIBE behind it. The property says this of the state as a whole; the invariant has to say it of every suffix of the queue, because handling the head must keep it. Two lemmas, on what `Tail` and what a pushed sequence do to `Balanced`, reduce each handler to the messages that it pushes |

The main thread, in `PluginManagerProofs`, under the assumptions on plugins (each instance has one, and the
instances of a plugin are preloaded together):

| Theorem | Inductive invariant |
|---|---|
| `PMInvariance` | `PMInv`: `EventInv` (an event has the fields its handler uses), `StoreInv` (how far the two maps differ *during* LOAD and REMOVE, by `todo`), `RequestInv` (the epoll thread's request is nowhere, or in one of three places) |
| `MainThreadUsesRunHandler` | `PMSpec` implements `Init` and `[][Next]_vars` of `InstanceRunHandler`, with the identity as mapping and without fairness: initial states are initial states, each step is a step of the scheduling thread, of its environment, or a stutter. It needs `EventInv`, since the environment may post well-formed messages only |
| `ServiceSafe` | from the refinement: `SubscriptionsMatchTopics`, `LiveTopicsClosedByDisable`, `EnabledIsQueued`, `NeverOverdue`, `CrashNeedsRemoval` and `NoLeakedSubscription` hold of the whole service. The proof reuses the lemmas that `[Next]_vars` keeps each of the inductive invariants above |
| `RequestsAnsweredOnce` | `RequestInv`; the property counts, the invariant says where |
| `StoreAgreesWithPlugins` | `StoreInv` outside the two loops |

The connections, in `MessageManagerProofs`, for any clients (permitted, refused, commands), descriptors,
socket size and number of requests:

| Theorem | Inductive invariant |
|---|---|
| `Invariance`, `TypeCorrect` | `Inv`, the conjunction of the parts below |
| `AnswersReachAskers` | `PipeInv`: while the epoll thread serves a request, either that request is the *last* event of the queue and there is no answer, or its answer is the only one and the queue is empty; otherwise there is no answer and only UNSUBSCRIBEs of closed connections are queued |
| `EachAnsweredOnce` | `CountInv`: requests in a socket, answers in a socket and the one in hand together do not exceed what a client waits for; with `PipeInv`, since the one in hand is counted once |
| `NoGhosts`, `SuccessorSpared` | `SubInv`: a subscription of somebody who no longer holds the descriptor has its UNSUBSCRIBE queued, and an UNSUBSCRIBE that would hit another client has the other's own *before* it. Neither property is inductive without the order of the queue |
| `ConnsMatch` | `ConnInv` and `MutexInv`: `conns` differs from the watched descriptors only for the one being added or closed, and `connMutex` keeps it so for the data thread |

The client library, in `SdkClientProofs`, for any threads, topics, calls and sessions (`Topics # {}`):

| Theorem | Inductive invariant |
|---|---|
| `SdkInvariance`, `SdkTypeCorrect` | `SdkInv`: `CallInv`, `FlightInv`, `HandleInv` and `CrashNeedsOverlap`, with `TypeOK` |
| `HandlersMatch` | `HandleInv`: the callbacks of a topic, less one that the current call registered in advance and may withdraw, are those of a topic the server accepted; without the correction for the call in progress the property is not inductive |
| `CrashesNeedOverlap` | the property with `HandleInv`: while `trust` holds the list that `pop_back` shortens is not empty |
| `KeepsPromise` | `FlightInv`: while `trust` holds one call is in progress, and its request or answer is unsent, at the server, on the way, or delivered, never twice. Each step then maps to a step of `SdkPromise` or a stutter: the server's step decides, the step that takes the answer stutters, since the mapping sees the same decision before and after it |

The byte stream, in `MessageStreamProofs`, for any lengths, garbled ones too, any buffer longer than a prefix, any
pieces and any number of frames:

| Theorem | Inductive invariant |
|---|---|
| `StreamInvariance`, `StreamTypeCorrect` | `StreamInv`, the conjunction of the parts below, with `TypeOK` and `PartInv`: the part being read is not complete |
| `MessagesIntact` | `LiveInv`: until the frames are lost, the bytes still to be read (`Pending`: what is left in `readBuff`, then the socket, then what the sender has not queued) are `InOrder` from the byte that `RecvMessage` is at, and what it has read of a body is the body so far (`GotInv`). `InOrder` says *which byte follows which*, by position: it is closed under taking a prefix off (`Advances`) and putting a frame on (`FrameJoins`), and no concatenation of all frames has to be defined, which would need an induction over their number. `ReadConsumes` is the fact about the code: whatever `Read` returns, prepended to what it leaves, is what was there before |
| `StreamIsReadOnce` | `OrderInv`: the messages returned, the part being read and the bytes still to be read are each ascending, and each precedes the next. It holds lost or not, whatever lengths `RecvMessage` goes on with, since it rests on `Read` alone |
| `LostNeedsACrowd` | `CrowdInv`: a stream that was never crowded holds at most the frame being read, in one place: with the sender, in the socket, or, once its prefix is read, in buffer and socket. So a prefix is complete, and a wait within a frame finds its bytes |

The tuners, in `TuneSettingsProofs`, for any of the ten tuners, any states the system may be found in, any
number of calls and of failing writes (`OriginalsAssumption`: a feature that `numa_sched_tune` looks for is found
on or off):

| Theorem | Inductive invariant |
|---|---|
| `TuneInvariance`, `TuneTypeCorrect` | `TuneInv`: `StackInv`, `SavedInv`, `IdleInv`, `JobInv`, `EnableInv` and `BackInv`, with `TypeOK` |
| `RestoredInOrderHolds`, `TunedWhileEnabledHolds` | `StackInv`: the users of a setting lie on it in the order of enabling; the lowest saved the original value, each other one a value that `Holds` for the tuner below it, and the value of the setting (or, during a call, the one it starts from or returns to: `Base`) holds for the top one. The properties speak of the top and of the empty stack only and are not inductive: a `Disable` makes the tuner below the top one, with the value that was saved |
| `FailedEnableLeavesNoTraceHolds` | `EnableInv` and `BackInv`: which writes of the call in progress are done, by position, and what that makes of each setting; `SavedInv`: where `Disable` writes a fixed value, that is what was read, since the setting has no other user |

What the argument needs of the tuners' code is stated once, as `Shape` and `Sound`, and proved of each of the ten
records (`CodeSound`): every write belongs to `Enable` or `Run`, a setting written twice is wanted at one value,
`Disable` writes back what it must, and a setting that is written by `Run` or restored to a fixed value belongs to
one tuner (`Owner`). A new tuner that shares such a setting would fail there. The rest of the proof does not look
at the records.

For any sets of boot entries and parameters and any number of calls, faults and edits, in `RealtimeTuneProofs`:

| Theorem | Inductive invariant |
|---|---|
| `TypeCorrect` | `TypeOK`, in six parts |
| `NeverOrphaned` | `ListedInv`: a step that reaches the boot loader has the tuner listed, or the last write of the list failed; and, as long as the file was not edited, an enabled tuner remembers every parameter it may have written, so that a `Disable` that unlists has removed them from the running kernel's entry, while those of other entries are `stuck`. The property alone does not say why unlisting is harmless |
| `UpdateRollsBack` | `RollbackInv`: if the entry compared with is the one changed, what an `Enable` has not touched, or has rolled back, is as it was found, but for parameters without a value |
| `PromisedIsInEffect` | `EffectInv`: what an `Enable` has written so far, carried from its first command over the boot of the same entry; from the promise to the boot no step is in progress that could take it back |

For any number of openings and lines, in `CommandCollectorProofs`:

| Theorem | Inductive invariant |
|---|---|
| `CollectorInvariant` | `CollectorInv`, the conjunction of the parts named below, with `TypeOK` |
| `ThreadsAreJoined`, `NothingIsLeft` | `ThreadsInv`: who holds `topicMutex` and `isRunning` determine which threads can be unjoined; `LeavesNothing`: how far the collecting thread is determines whether a command and lines are left, and a stray command has a failed `fdopen` or `fclose` |
| `OpenTopicIsCollected` | `UndisturbedInv`: an open topic that overtook no one has no closing thread waiting; with `ThreadsInv`, by which a running topic has its publishing thread, and its collecting thread unless the command is gone |
| `NoLineIsForgotten` | the property with `LeavesNothing`, which makes a new start begin without lines and ties the end of the command to `gone` |

`OpenedBefore` bounds the closing threads by the openings; only type correctness needs it.

Type correctness of each module is proved and not repeated in a run.
Every invariant and action property of the passing runs is proved. Only model-checked are the liveness properties
(`RequestAnswered`, `EnabledKeepsRunning`, `EveryRequestAnswered`, `ShutdownCompletes`, `Answered`,
`DescriptorReclaimed`, `CallReturns`, `EveryMessageArrives`, `NoneHangs`), since fairness
and `ENABLED` are out of the prover's reach. The inductive invariants were model-checked on the runs' instances
before they were proved.

## 6. Not modelled, and the plan

1. done: the modules, runs and theorems above.
2. `MessageManager` composed with the queues of `PluginManager`, so that its abstract server is shown to be
   implemented by the real one.

Out of scope: the vendored kernel headers (`src/src/3rd`, nine tenths of the repository's lines); the data
register's serialisers and the encodings of headers and payloads, which are layout; configuration parsing,
logging and the command line, which keep no protocol state; the collectors other than the command collector,
the scenario plugins and analyses, which read kernel interfaces or compute statistics; the tuners that bind
threads or load eBPF programs, whose effect is inside the kernel; and how a tuner chooses its values. Of the
tuners that are modelled, the values found are kept in memory only, so that a crash of the service leaves the
settings tuned: that is outside what `TuneSettings` claims, since no code handles it.
