--------------------------- MODULE ServerModules ---------------------------
(***************************************************************************)
(* How the server loads, reloads, unloads and stops modules, and what that *)
(* does to events on their way and to the modules' state                   *)
(* (src/src/server/state.cpp, driven by src/src/server/main.cpp).           *)
(*                                                                         *)
(* A module that is reloaded gets a new container: <<m, g>> is the g-th    *)
(* container of module m.  Main is the server's main thread.  Each         *)
(* container's thread handles one event at a time; emitters are whatever   *)
(* threads call emit_event().  A module's state is the set of events it    *)
(* has handled; it stores it at core:unload with tmp_store_data() and adds *)
(* what tmp_restore_data() returns at core:continue, as the modules of     *)
(* src/builtin do.                                                         *)
(***************************************************************************)
EXTENDS Integers, Sequences, FiniteSets, SequencesExt

CONSTANTS
  Modules,      \* names of modules
  BootOrder,    \* the order in which the loader loads them
  Emitters,     \* threads that emit events
  MaxLoads,     \* bound: containers made of a module
  MaxEvents,    \* bound: events emitted; an event's name is its number
  MaxRequests   \* bound: calls of unload_module() and reload_module()

ASSUME OrderAssumption == BootOrder \in Seq(Modules)

ASSUME BoundsAssumption ==
  MaxLoads \in Nat /\ MaxEvents \in Nat /\ MaxRequests \in Nat

Containers == Modules \X (1..MaxLoads)
Events == 1..MaxEvents

VARIABLES
  mainPc,      \* where Main is
  toSend,      \* modules that get core:unload in this round
  toUnload,    \* modules that are unloaded in this round
  toLoad,      \* modules that are still to be loaded
  booted,      \* load_modules() has returned
  toStop,      \* containers to stop, or to join, at shutdown
  shutdown,    \* m_shutdown_requested
  container,   \* m_modules: number of the module's container, 0 if none
  loadOrder,   \* m_module_load_order
  seen,        \* keys of m_module_info
  built,       \* containers made of each module
  state,       \* what became of each container
  subs,        \* m_event_subs
  queue,       \* event_queue of each container
  data,        \* events each container's module has handled
  tmpData,     \* m_tmp_data
  unloads,     \* m_unloads_requested
  reloads,     \* m_reloads_requested
  requests,    \* requests made so far
  emitted,     \* events emitted so far
  pushing,     \* the rest of each emitter's snapshot of m_event_subs
  event,       \* the event each emitter is pushing
  told,        \* history: containers that handled core:unload
  kept,        \* history: events a module handled before core:unload
  newer,       \* history: <<m, n>> if m was loaded after n was
  owed,        \* history: modules asked to be reloaded and not continued since
  buildFailed, \* history: some build failed
  missing      \* history: modules of this round that were not loaded

roundVars == <<toSend, toUnload, toLoad, booted>>
tableVars == <<container, loadOrder, seen, built, newer, buildFailed>>
requestVars == <<unloads, reloads, requests, owed>>
emitVars == <<emitted, pushing, event>>
dataVars == <<data, tmpData, told, kept>>
vars == <<mainPc, roundVars, toStop, shutdown, tableVars, state, subs, queue,
          dataVars, requestVars, emitVars, missing>>

TypeOK ==
  /\ mainPc \in {"boot", "loop", "send", "erase", "request", "join", "load",
                 "init", "continue", "check", "stop", "wait", "crashed", "done"}
  /\ toSend \in Seq(Modules) /\ toUnload \in Seq(Modules)
  /\ toLoad \in Seq(Modules)
  /\ booted \in BOOLEAN /\ shutdown \in BOOLEAN
  /\ toStop \in Seq(Containers)
  /\ container \in [Modules -> 0..MaxLoads]
  /\ loadOrder \in Seq(Modules)
  /\ seen \in SUBSET Modules
  /\ built \in [Modules -> 0..MaxLoads]
  /\ state \in [Containers -> {"none", "loaded", "ready", "stopping", "exited"}]
  /\ subs \in Seq(Containers)
  /\ queue \in [Containers -> Seq(Events)]
  /\ data \in [Containers -> SUBSET Events]
  /\ tmpData \in [Modules -> SUBSET Events]
  /\ unloads \in SUBSET Modules
  /\ reloads \in Seq(Modules) /\ IsInjective(reloads)
  /\ requests \in 0..MaxRequests /\ emitted \in 0..MaxEvents
  /\ pushing \in [Emitters -> Seq(Containers)]
  /\ event \in [Emitters -> 0..MaxEvents]
  /\ told \in SUBSET Containers
  /\ kept \in [Modules -> SUBSET Events]
  /\ newer \in SUBSET (Modules \X Modules)
  /\ owed \in SUBSET Modules
  /\ buildFailed \in BOOLEAN
  /\ missing \in SUBSET Modules

Init ==
  /\ mainPc = "boot"
  /\ toSend = <<>> /\ toUnload = <<>> /\ toLoad = BootOrder
  /\ booted = FALSE /\ shutdown = FALSE
  /\ toStop = <<>>
  /\ container = [m \in Modules |-> 0]
  /\ loadOrder = <<>>
  /\ seen = {}
  /\ built = [m \in Modules |-> 0]
  /\ state = [c \in Containers |-> "none"]
  /\ subs = <<>>
  /\ queue = [c \in Containers |-> <<>>]
  /\ data = [c \in Containers |-> {}]
  /\ tmpData = [m \in Modules |-> {}]
  /\ unloads = {} /\ reloads = <<>> /\ requests = 0
  /\ emitted = 0
  /\ pushing = [e \in Emitters |-> <<>>]
  /\ event = [e \in Emitters |-> 0]
  /\ told = {}
  /\ kept = [m \in Modules |-> {}]
  /\ newer = {}
  /\ owed = {}
  /\ buildFailed = FALSE
  /\ missing = {}

\* The container of a loaded module.
Current(m) == <<m, container[m]>>
Loaded(m) == container[m] # 0

\* The elements of s that are in S, in their order.
Only(s, S) ==
  LET places == {i \in 1..Len(s) : s[i] \in S}
      Rank(i) == Cardinality({j \in places : j <= i})
  IN [k \in 1..Cardinality(places) |-> s[CHOOSE i \in places : Rank(i) = k]]

\* History: m is now the module that was loaded last.
LoadedLast(m) ==
  newer' = {p \in newer : m \notin {p[1], p[2]}}
             \cup {<<m, n>> : n \in {n \in Modules \ {m} : Loaded(n)}}

\* Threads run until the process ends.
Running == mainPc \notin {"crashed", "done"}

-----------------------------------------------------------------------------
(* Seeded faults *)

\* What is restored replaces what the module has handled since init().
Continue_Replaces ==
  /\ mainPc = "continue"
  /\ \/ /\ ~Loaded(Head(toLoad))
        /\ mainPc' = "crashed"
        /\ UNCHANGED <<toLoad, data, tmpData, owed>>
     \/ /\ Loaded(Head(toLoad))
        /\ data' = [data EXCEPT ![Current(Head(toLoad))] =
                                tmpData[Head(toLoad)]]
        /\ tmpData' = [tmpData EXCEPT ![Head(toLoad)] = {}]
        /\ owed' = IF Contains(reloads, Head(toLoad)) THEN owed
                   ELSE owed \ {Head(toLoad)}
        /\ toLoad' = Tail(toLoad)
        /\ mainPc' = IF toLoad' = <<>> THEN "check" ELSE "load"
  /\ UNCHANGED <<toSend, toUnload, booted, toStop, shutdown, tableVars, state,
                 subs, queue, told, kept, unloads, reloads, requests,
                 emitVars, missing>>

\* A module that was loaded before keeps its place in the load order.
Publish_KeepsPlace(m) ==
  /\ built[m] < MaxLoads
  /\ built' = [built EXCEPT ![m] = @ + 1]
  /\ container' = [container EXCEPT ![m] = built[m] + 1]
  /\ loadOrder' = IF Contains(loadOrder, m) THEN loadOrder
                                            ELSE Append(loadOrder, m)
  /\ state' = [state EXCEPT ![<<m, built[m] + 1>>] = "loaded"]
  /\ LoadedLast(m)

\* The subscriptions of the module stay.
EraseModule_KeepsSubs ==
  /\ mainPc = "erase" /\ toUnload # <<>> /\ Loaded(Head(toUnload))
  /\ toStop' = <<Current(Head(toUnload))>>
  /\ container' = [container EXCEPT ![Head(toUnload)] = 0]
  /\ mainPc' = "request"
  /\ UNCHANGED <<roundVars, shutdown, loadOrder, seen, built, newer,
                 buildFailed, state, subs, queue, dataVars, requestVars,
                 emitVars, missing>>

\* Each module is unloaded as soon as it has handled core:unload.
SendUnload_ThenErase ==
  /\ mainPc = "send" /\ toSend # <<>>
  /\ toSend' = Tail(toSend)
  /\ \/ /\ ~Loaded(Head(toSend))
        /\ mainPc' = "crashed"
        /\ UNCHANGED <<container, state, subs, told, tmpData>>
     \/ /\ Loaded(Head(toSend))
        /\ tmpData' = [tmpData EXCEPT ![Head(toSend)] =
                                      data[Current(Head(toSend))]]
        /\ told' = told \cup {Current(Head(toSend))}
        /\ container' = [container EXCEPT ![Head(toSend)] = 0]
        /\ state' = [state EXCEPT ![Current(Head(toSend))] = "exited"]
        /\ subs' = Only(subs, Containers \ {Current(Head(toSend))})
        /\ UNCHANGED mainPc
  /\ UNCHANGED <<toUnload, toLoad, booted, toStop, shutdown, loadOrder, seen,
                 built, newer, buildFailed, queue, data, kept, requestVars,
                 emitVars, missing>>

\* The requests to reload are cleared before they are copied for loading.
GrabRequests_Unload ==
  /\ mainPc = "loop"
  /\ \E order \in SetToSeqs(unloads) :
       /\ toSend' = order \o reloads
       /\ toUnload' = order \o reloads
  /\ toLoad' = <<>>
  /\ missing' = {m \in unloads \cup ToSet(reloads) : ~Loaded(m)}
  /\ unloads' = {} /\ reloads' = <<>>
  /\ mainPc' = "send"
  /\ UNCHANGED <<booted, toStop, shutdown, tableVars, state, subs, queue,
                 dataVars, requests, owed, emitVars>>

-----------------------------------------------------------------------------
(* Modules being loaded *)

\* load_module(), once it has built the module: m_modules names the container,
\* before init() has run.
Publish(m) ==
  /\ built[m] < MaxLoads
  /\ built' = [built EXCEPT ![m] = @ + 1]
  /\ container' = [container EXCEPT ![m] = built[m] + 1]
  /\ loadOrder' = Append(loadOrder, m)
  /\ state' = [state EXCEPT ![<<m, built[m] + 1>>] = "loaded"]
  /\ LoadedLast(m)

\* A module that cannot be built is not in m_modules; while booting, the loader
\* then asks for a shutdown, and in a reload core:continue is sent all the same.
LoadModule ==
  /\ mainPc \in {"boot", "load"} /\ toLoad # <<>> /\ ~Loaded(Head(toLoad))
  /\ seen' = seen \cup {Head(toLoad)}
  /\ \/ /\ Publish(Head(toLoad))
        /\ mainPc' = "init"
        /\ UNCHANGED <<toLoad, booted, shutdown, buildFailed>>
     \/ /\ buildFailed' = TRUE
        /\ IF booted
           THEN mainPc' = "continue" /\ UNCHANGED <<toLoad, booted, shutdown>>
           ELSE /\ mainPc' = "loop"
                /\ toLoad' = <<>> /\ booted' = TRUE /\ shutdown' = TRUE
        /\ UNCHANGED <<container, loadOrder, built, newer, state>>
  /\ UNCHANGED <<toSend, toUnload, toStop, subs, queue, dataVars, requestVars,
                 emitVars, missing>>

\* init(), in the module's thread, subscribes to events.
InitModule ==
  /\ mainPc = "init"
  /\ state' = [state EXCEPT ![Current(Head(toLoad))] = "ready"]
  /\ subs' = Append(subs, Current(Head(toLoad)))
  /\ IF booted
     THEN mainPc' = "continue" /\ UNCHANGED toLoad
     ELSE mainPc' = "boot" /\ toLoad' = Tail(toLoad)
  /\ UNCHANGED <<toSend, toUnload, booted, toStop, shutdown, tableVars, queue,
                 dataVars, requestVars, emitVars, missing>>

\* The modules are loaded; the main loop begins.
Boot ==
  /\ mainPc = "boot" /\ toLoad = <<>>
  /\ booted' = TRUE
  /\ mainPc' = "loop"
  /\ UNCHANGED <<toSend, toUnload, toLoad, toStop, shutdown, tableVars, state,
                 subs, queue, dataVars, requestVars, emitVars, missing>>

\* core:continue, in the module's thread.  access_module() throws if there is
\* no such module, and nothing catches that.
Continue ==
  /\ mainPc = "continue"
  /\ \/ /\ ~Loaded(Head(toLoad))
        /\ mainPc' = "crashed"
        /\ UNCHANGED <<toLoad, data, tmpData, owed>>
     \/ /\ Loaded(Head(toLoad))
        /\ data' = [data EXCEPT ![Current(Head(toLoad))] =
                                @ \cup tmpData[Head(toLoad)]]
        /\ tmpData' = [tmpData EXCEPT ![Head(toLoad)] = {}]
        /\ owed' = IF Contains(reloads, Head(toLoad)) THEN owed
                   ELSE owed \ {Head(toLoad)}
        /\ toLoad' = Tail(toLoad)
        /\ mainPc' = IF toLoad' = <<>> THEN "check" ELSE "load"
  /\ UNCHANGED <<toSend, toUnload, booted, toStop, shutdown, tableVars, state,
                 subs, queue, told, kept, unloads, reloads, requests,
                 emitVars, missing>>

-----------------------------------------------------------------------------
(* Modules being unloaded *)

\* The requests become this round's; a reload is an unload and a load.
GrabRequests ==
  /\ mainPc = "loop"
  /\ \E order \in SetToSeqs(unloads) :
       /\ toSend' = order \o reloads
       /\ toUnload' = order \o reloads
  /\ toLoad' = reloads
  /\ missing' = {m \in unloads \cup ToSet(reloads) : ~Loaded(m)}
  /\ unloads' = {} /\ reloads' = <<>>
  /\ mainPc' = "send"
  /\ UNCHANGED <<booted, toStop, shutdown, tableVars, state, subs, queue,
                 dataVars, requests, owed, emitVars>>

\* core:unload, in the module's thread, which stores the module's state.
SendUnload ==
  /\ mainPc = "send" /\ toSend # <<>>
  /\ toSend' = Tail(toSend)
  /\ \/ /\ ~Loaded(Head(toSend))
        /\ mainPc' = "crashed"
        /\ UNCHANGED <<told, tmpData>>
     \/ /\ Loaded(Head(toSend))
        /\ tmpData' = [tmpData EXCEPT ![Head(toSend)] =
                                      data[Current(Head(toSend))]]
        /\ told' = told \cup {Current(Head(toSend))}
        /\ UNCHANGED mainPc
  /\ UNCHANGED <<toUnload, toLoad, booted, toStop, shutdown, tableVars, state,
                 subs, queue, data, kept, requestVars, emitVars, missing>>

\* The next loop of handle_unloads_and_reloads().
NextLoop ==
  /\ \/ /\ mainPc = "send" /\ toSend = <<>>
        /\ mainPc' = "erase"
     \/ /\ mainPc = "erase" /\ toUnload = <<>>
        /\ mainPc' = IF toLoad = <<>> THEN "check" ELSE "load"
  /\ UNCHANGED <<roundVars, toStop, shutdown, tableVars, state, subs, queue,
                 dataVars, requestVars, emitVars, missing>>

\* unload_module_u(): a module that is not loaded any more is skipped.
SkipModule ==
  /\ mainPc = "erase" /\ toUnload # <<>> /\ ~Loaded(Head(toUnload))
  /\ toUnload' = Tail(toUnload)
  /\ UNCHANGED <<mainPc, toSend, toLoad, booted, toStop, shutdown, tableVars,
                 state, subs, queue, dataVars, requestVars, emitVars, missing>>

\* The module's subscriptions and the server's reference go first ...
EraseModule ==
  /\ mainPc = "erase" /\ toUnload # <<>> /\ Loaded(Head(toUnload))
  /\ toStop' = <<Current(Head(toUnload))>>
  /\ subs' = Only(subs, Containers \ {Current(Head(toUnload))})
  /\ container' = [container EXCEPT ![Head(toUnload)] = 0]
  /\ mainPc' = "request"
  /\ UNCHANGED <<roundVars, shutdown, loadOrder, seen, built, newer,
                 buildFailed, state, queue, dataVars, requestVars, emitVars,
                 missing>>

\* ... then its thread is asked to stop ...
RequestModuleStop ==
  /\ mainPc = "request"
  /\ state' = [state EXCEPT ![Head(toStop)] = "stopping"]
  /\ mainPc' = "join"
  /\ UNCHANGED <<roundVars, toStop, shutdown, tableVars, subs, queue, dataVars,
                 requestVars, emitVars, missing>>

\* ... and waited for, and the executable is unloaded.
JoinModule ==
  /\ mainPc = "join" /\ state[Head(toStop)] = "exited"
  /\ toStop' = <<>>
  /\ toUnload' = Tail(toUnload)
  /\ mainPc' = "erase"
  /\ UNCHANGED <<toSend, toLoad, booted, shutdown, tableVars, state, subs,
                 queue, dataVars, requestVars, emitVars, missing>>

-----------------------------------------------------------------------------
(* The end of the main loop, and the shutdown *)

\* get_modules_in_unload_order(): a module that was reloaded is there twice.
UnloadOrder ==
  LET names == Reverse(Only(loadOrder, {m \in Modules : Loaded(m)}))
  IN [i \in DOMAIN names |-> Current(names[i])]

\* A turn of the main loop ends; a signal is noticed before the next begins.
CheckShutdown ==
  /\ mainPc = "check"
  /\ \E interrupted \in BOOLEAN :
       IF shutdown \/ interrupted
       THEN mainPc' = "stop" /\ toStop' = UnloadOrder
       ELSE mainPc' = "loop" /\ UNCHANGED toStop
  /\ UNCHANGED <<roundVars, shutdown, tableVars, state, subs, queue, dataVars,
                 requestVars, emitVars, missing>>

\* thread_request_stop(): all threads are asked before any is waited for.
StopModule ==
  /\ mainPc = "stop"
  /\ IF toStop = <<>>
     THEN /\ mainPc' = "wait" /\ toStop' = UnloadOrder
          /\ UNCHANGED state
     ELSE /\ toStop' = Tail(toStop)
          /\ state' = [state EXCEPT ![Head(toStop)] =
                         IF @ = "exited" THEN @ ELSE "stopping"]
          /\ UNCHANGED mainPc
  /\ UNCHANGED <<roundVars, shutdown, tableVars, subs, queue, dataVars,
                 requestVars, emitVars, missing>>

\* thread_join()
WaitForModule ==
  /\ mainPc = "wait"
  /\ IF toStop = <<>>
     THEN mainPc' = "done" /\ UNCHANGED toStop
     ELSE /\ state[Head(toStop)] = "exited"
          /\ toStop' = Tail(toStop)
          /\ UNCHANGED mainPc
  /\ UNCHANGED <<roundVars, shutdown, tableVars, state, subs, queue, dataVars,
                 requestVars, emitVars, missing>>

-----------------------------------------------------------------------------
(* Modules' threads, and whoever makes requests and emits events *)

HandleEvent(c) ==
  /\ Running /\ state[c] = "ready" /\ queue[c] # <<>>
  /\ data' = [data EXCEPT ![c] = @ \cup {Head(queue[c])}]
  /\ kept' = IF c \in told THEN kept
             ELSE [kept EXCEPT ![c[1]] = @ \cup {Head(queue[c])}]
  /\ queue' = [queue EXCEPT ![c] = Tail(@)]
  /\ UNCHANGED <<mainPc, roundVars, toStop, shutdown, tableVars, state, subs,
                 tmpData, told, requestVars, emitVars, missing>>

\* The thread of a module that is to stop ends, whatever is in its queue.
Exit(c) ==
  /\ Running /\ state[c] = "stopping"
  /\ state' = [state EXCEPT ![c] = "exited"]
  /\ queue' = [queue EXCEPT ![c] = <<>>]
  /\ UNCHANGED <<mainPc, roundVars, toStop, shutdown, tableVars, subs,
                 dataVars, requestVars, emitVars, missing>>

\* unload_module()
RequestUnload(m) ==
  /\ Running /\ requests < MaxRequests
  /\ Loaded(m)
  /\ unloads' = unloads \cup {m}
  /\ requests' = requests + 1
  /\ UNCHANGED <<mainPc, roundVars, toStop, shutdown, tableVars, state, subs,
                 queue, dataVars, reloads, owed, emitVars, missing>>

\* reload_module(): a request replaces an earlier one for the same module.
RequestReload(m) ==
  /\ Running /\ requests < MaxRequests
  /\ m \in seen
  /\ reloads' = IF Contains(reloads, m) THEN reloads ELSE Append(reloads, m)
  /\ owed' = owed \cup {m}
  /\ requests' = requests + 1
  /\ UNCHANGED <<mainPc, roundVars, toStop, shutdown, tableVars, state, subs,
                 queue, dataVars, unloads, emitVars, missing>>

\* shutdown(), called by any module.
RequestShutdown ==
  /\ Running /\ ~shutdown
  /\ shutdown' = TRUE
  /\ UNCHANGED <<mainPc, roundVars, toStop, tableVars, state, subs, queue,
                 dataVars, requestVars, emitVars, missing>>

\* emit_event() works on a copy of the subscriptions ...
EmitEvent(e) ==
  /\ Running /\ emitted < MaxEvents /\ pushing[e] = <<>>
  /\ subs # <<>>
  /\ emitted' = emitted + 1
  /\ event' = [event EXCEPT ![e] = emitted + 1]
  /\ pushing' = [pushing EXCEPT ![e] = subs]
  /\ UNCHANGED <<mainPc, roundVars, toStop, shutdown, tableVars, state, subs,
                 queue, dataVars, requestVars, missing>>

\* ... and pushes to one container after the other, if it is still there.
PushEvent(e) ==
  /\ Running /\ pushing[e] # <<>>
  /\ queue' = IF state[Head(pushing[e])] = "exited" THEN queue
              ELSE [queue EXCEPT ![Head(pushing[e])] = Append(@, event[e])]
  /\ pushing' = [pushing EXCEPT ![e] = Tail(@)]
  /\ UNCHANGED <<mainPc, roundVars, toStop, shutdown, tableVars, state, subs,
                 dataVars, requestVars, emitted, event, missing>>

-----------------------------------------------------------------------------

Main ==
  \/ LoadModule \/ InitModule \/ Boot \/ Continue
  \/ GrabRequests \/ SendUnload \/ NextLoop \/ SkipModule
  \/ EraseModule \/ RequestModuleStop \/ JoinModule
  \/ CheckShutdown \/ StopModule \/ WaitForModule

Terminated == ~Running /\ UNCHANGED vars

Next ==
  \/ Main \/ Terminated \/ RequestShutdown
  \/ \E c \in Containers : HandleEvent(c) \/ Exit(c)
  \/ \E m \in Modules : RequestUnload(m) \/ RequestReload(m)
  \/ \E e \in Emitters : EmitEvent(e) \/ PushEvent(e)

\* The main loop turns, and a thread that is asked to stop ends.
Fairness ==
  /\ WF_vars(Main)
  /\ \A c \in Containers : WF_vars(Exit(c))

Spec == Init /\ [][Next]_vars
FairSpec == Spec /\ Fairness

-----------------------------------------------------------------------------
(* Properties *)

\* Only loaded modules are subscribed, each once, with the container that
\* m_modules names, in whichever order modules come and go.
SubscribersAreLoaded ==
  /\ \A i \in 1..Len(subs) : subs[i] = Current(subs[i][1])
  /\ \A i, j \in 1..Len(subs) : subs[i] = subs[j] => i = j

\* What a module stores at core:unload and has in the end.
Memory(m) ==
  tmpData[m] \cup IF Loaded(m) THEN data[Current(m)] ELSE {}

\* What a module handled before its core:unload handler is never lost, though
\* events are handled between init() and core:continue, too; and between two
\* rounds it is with the module itself.
StateSurvives ==
  \A m \in Modules :
    /\ kept[m] \subseteq Memory(m)
    /\ mainPc = "loop" /\ Loaded(m) => kept[m] \subseteq data[Current(m)]

\* The server dies of a module that is not there only if a build failed, or the
\* module was missing already when the round began: requests that meet in one
\* round, such as an unload and a reload of one module, do not kill it.
CrashesHaveACause ==
  mainPc = "crashed" => buildFailed \/ missing # {}

AskedToStop(m) == Loaded(m) /\ state[Current(m)] # "ready"

\* At shutdown, a module is asked to stop after every module that was loaded
\* after it, reloads included (get_modules_in_unload_order()).
StopsNewestFirst ==
  mainPc \in {"stop", "wait"} =>
    \A p \in newer : Loaded(p[1]) /\ AskedToStop(p[2]) => AskedToStop(p[1])

Ending == mainPc \in {"stop", "wait", "crashed", "done"}

\* A module that is asked to be reloaded is unloaded, loaded and continued,
\* unless the server stops or dies.
ReloadsFinish ==
  \A m \in Modules : m \in owed /\ booted ~> Ending \/ m \notin owed

\* doc/design.txt:56, "Module will be unloaded immediately after event
\* handler", of core:unload: the module handles no event after it.
NothingAfterUnload ==
  [][\A c \in told : data'[c] = data[c]]_vars
=============================================================================
