--------------------------- MODULE ModuleThread ---------------------------
(***************************************************************************)
(* One module container of the server (src/src/server/state.cpp): the      *)
(* thread that owns a module object, the events pushed to it, the direct   *)
(* calls other threads make into it with access_module(), and how the main *)
(* thread starts it, stops it and deletes it.                              *)
(*                                                                         *)
(* Threads: Main, the server's main thread, which runs init() through the  *)
(* first direct call and later stops the module; Callers, every other      *)
(* thread that calls in; the module's own thread.  Every step is what one  *)
(* thread does between two operations another thread can observe.          *)
(***************************************************************************)
EXTENDS Naturals, Sequences

CONSTANTS
  Callers,      \* threads other than Main that call execute_direct_cb()
  Main,         \* the main thread of the server
  None,         \* nullptr
  Helpers,      \* callers that the module's destructor waits for
  Dependents,   \* callers that Main joins before it joins this module
  EarlyAccess,  \* may a caller find the container before init() is done?
  MaxCalls,     \* bound: calls that one caller makes
  MaxEvents     \* bound: events pushed to the module

ASSUME ThreadsAssumption ==
  /\ Main \notin Callers
  /\ None \notin Callers \cup {Main}
  /\ Helpers \subseteq Callers
  /\ Dependents \subseteq Callers

ASSUME BoundsAssumption ==
  /\ EarlyAccess \in BOOLEAN
  /\ MaxCalls \in Nat
  /\ MaxEvents \in Nat

Threads == Callers \cup {Main}

Outcomes == {"ok", "throw"}

\* The steps of execute_direct_cb(), by what the thread does next.
CallSteps == {"wait_free", "check_stop", "post", "wait_executed",
              "read_result", "release"}

\* The steps of Main around the module's life.
LifeSteps == {"start", "stop_post_free", "stop_post_event", "join", "reset",
              "done"}

\* The steps of ModuleThread::run().
RunSteps == {"unborn", "wait", "grab", "check_stop", "handle_cb",
             "finish_cb", "post_executed", "handle_event", "discard",
             "discard_post", "unload", "destroy", "exited"}

VARIABLES
  pc,              \* [Threads -> step], what each thread outside does next
  runPc,           \* what the module's thread does next
  stopRequested,   \* thread->m_stop_requested
  threadExists,    \* thread != nullptr
  directCb,        \* direct_cb: the caller whose callback is posted
  cbException,     \* direct_cb_exception: "throw", or "ok" for null
  callerThread,    \* thread->m_caller_thread
  eventQueue,      \* event_queue; events are numbered as they are pushed
  freeSem,         \* direct_cb_free_sem
  eventSem,        \* event_queue_sem
  executedSem,     \* direct_cb_executed_sem
  grabbedCb,       \* the local direct_cb of ModuleThread::run()
  grabbedEvent,    \* the local event of run(), 0 if it got none
  outcome,         \* how the callback that just ran ended
  pushed,          \* history: events pushed so far
  handled,         \* history: the last event the module handled
  calls,           \* history: calls each thread has begun
  ran,             \* history: what became of each thread's last callback
  result           \* history: what each thread's last call gave it

callVars == <<calls, ran, result>>
slotVars == <<directCb, cbException, callerThread>>
semVars == <<freeSem, eventSem, executedSem>>
runVars == <<runPc, grabbedCb, grabbedEvent, outcome>>
eventVars == <<eventQueue, pushed, handled>>
lifeVars == <<stopRequested, threadExists>>
vars == <<pc, callVars, slotVars, semVars, runVars, eventVars, lifeVars>>

TypeOK ==
  /\ pc \in [Threads -> {"idle", "segfault"} \cup CallSteps \cup LifeSteps]
  /\ runPc \in RunSteps
  /\ stopRequested \in BOOLEAN /\ threadExists \in BOOLEAN
  /\ directCb \in Threads \cup {None}
  /\ cbException \in Outcomes
  /\ callerThread \in Threads \cup {None}
  /\ eventQueue \in Seq(Nat)
  /\ freeSem \in Nat /\ eventSem \in Nat /\ executedSem \in Nat
  /\ grabbedCb \in Threads \cup {None}
  /\ grabbedEvent \in Nat
  /\ outcome \in Outcomes
  /\ pushed \in Nat /\ handled \in Nat
  /\ calls \in [Threads -> Nat]
  /\ ran \in [Threads -> {"no"} \cup Outcomes]
  /\ result \in [Threads -> {"none", "not_available"} \cup Outcomes]

Init ==
  /\ pc = [t \in Threads |-> IF t = Main THEN "start" ELSE "idle"]
  /\ runPc = "unborn"
  /\ stopRequested = FALSE /\ threadExists = FALSE
  /\ directCb = None /\ cbException = "ok" /\ callerThread = None
  /\ eventQueue = <<>>
  /\ freeSem = 1 /\ eventSem = 0 /\ executedSem = 0
  /\ grabbedCb = None /\ grabbedEvent = 0 /\ outcome = "ok"
  /\ pushed = 0 /\ handled = 0
  /\ calls = [t \in Threads |-> 0]
  /\ ran = [t \in Threads |-> "no"]
  /\ result = [t \in Threads |-> "none"]

Goto(t, step) == pc' = [pc EXCEPT ![t] = step]
RunGoto(step) == runPc' = step

\* mc->mutex is held across non-blocking steps everywhere but in
\* thread_request_stop(), which posts two semaphores while it holds it.
MutexFree == pc[Main] \notin {"stop_post_free", "stop_post_event"}

-----------------------------------------------------------------------------
(* Seeded faults: what a property below has to be able to tell from the    *)
(* code.  No action of Next uses them.                                     *)

\* Frees the slot before the result has been read.
AwaitExecuted_EarlyRelease(t) ==
  /\ pc[t] = "wait_executed" /\ executedSem > 0
  /\ executedSem' = executedSem - 1 /\ freeSem' = freeSem + 1
  /\ Goto(t, "read_result")
  /\ UNCHANGED <<callVars, slotVars, eventSem, runVars, eventVars, lifeVars>>

\* Leaves the callback posted after it ran.
FinishDirectCb_NotCleared ==
  /\ runPc = "finish_cb"
  /\ cbException' = outcome
  /\ RunGoto("post_executed")
  /\ UNCHANGED <<pc, callVars, directCb, callerThread, semVars, grabbedCb,
                 grabbedEvent, outcome, eventVars, lifeVars>>

\* Does not tell the caller of a callback that threw.
PostExecuted_UnlessThrown ==
  /\ runPc = "post_executed"
  /\ executedSem' = IF outcome = "ok" THEN executedSem + 1 ELSE executedSem
  /\ RunGoto("wait")
  /\ UNCHANGED <<pc, callVars, slotVars, freeSem, eventSem, grabbedCb,
                 grabbedEvent, outcome, eventVars, lifeVars>>

\* Does not wake the thread.
StopPostEvent_NoPost ==
  /\ pc[Main] = "stop_post_event"
  /\ Goto(Main, "join")
  /\ UNCHANGED <<callVars, slotVars, semVars, runVars, eventVars, lifeVars>>

-----------------------------------------------------------------------------
(* execute_direct_cb() *)

\* Begin a call: each thread makes one at a time.
BeginCall(t) ==
  /\ calls' = [calls EXCEPT ![t] = @ + 1]
  /\ ran' = [ran EXCEPT ![t] = "no"]
  /\ result' = [result EXCEPT ![t] = "none"]
  /\ Goto(t, "wait_free")

\* init_and_start_thread(): create the thread, then call init() in it.
StartModule ==
  /\ pc[Main] = "start"
  /\ threadExists' = TRUE
  /\ RunGoto("wait")
  /\ BeginCall(Main)
  /\ UNCHANGED <<slotVars, semVars, eventVars, stopRequested, grabbedCb,
                 grabbedEvent, outcome>>

\* Has Main's call of init() returned?
Initialized == pc[Main] # "start" /\ result[Main] # "none"

\* A thread that has found the container in m_modules calls in.  A helper
\* thread makes no call once the destructor that joins it runs, a dependent
\* none once Main has joined it.
StartCall(t) ==
  /\ t \in Callers /\ pc[t] = "idle" /\ calls[t] < MaxCalls
  /\ EarlyAccess \/ Initialized
  /\ t \in Helpers => runPc \notin {"destroy", "exited"}
  /\ t \in Dependents => pc[Main] \notin {"reset", "done"}
  /\ BeginCall(t)
  /\ UNCHANGED <<slotVars, semVars, runVars, eventVars, lifeVars>>

AcquireFree(t) ==
  /\ pc[t] = "wait_free" /\ freeSem > 0
  /\ freeSem' = freeSem - 1
  /\ Goto(t, "check_stop")
  /\ UNCHANGED <<callVars, slotVars, eventSem, executedSem, runVars,
                 eventVars, lifeVars>>

\* "This is the last chance to turn around": thread->stop_requested() under
\* mc->mutex.  A null thread pointer ends the process.
CheckStop(t) ==
  /\ pc[t] = "check_stop" /\ MutexFree
  /\ \/ /\ ~threadExists
        /\ Goto(t, "segfault")
        /\ UNCHANGED <<freeSem, result>>
     \/ /\ threadExists /\ stopRequested
        /\ freeSem' = freeSem + 1
        /\ result' = [result EXCEPT ![t] = "not_available"]
        /\ Goto(t, "idle")
     \/ /\ threadExists /\ ~stopRequested
        /\ Goto(t, "post")
        /\ UNCHANGED <<freeSem, result>>
  /\ UNCHANGED <<calls, ran, slotVars, eventSem, executedSem, runVars,
                 eventVars, lifeVars>>

\* Under event_queue_mutex.
PostCallback(t) ==
  /\ pc[t] = "post"
  /\ directCb' = t /\ cbException' = "ok"
  /\ \/ /\ threadExists
        /\ callerThread' = t /\ eventSem' = eventSem + 1
        /\ Goto(t, "wait_executed")
     \/ /\ ~threadExists
        /\ Goto(t, "segfault")
        /\ UNCHANGED <<callerThread, eventSem>>
  /\ UNCHANGED <<callVars, freeSem, executedSem, runVars, eventVars, lifeVars>>

AwaitExecuted(t) ==
  /\ pc[t] = "wait_executed" /\ executedSem > 0
  /\ executedSem' = executedSem - 1
  /\ Goto(t, "read_result")
  /\ UNCHANGED <<callVars, slotVars, freeSem, eventSem, runVars, eventVars,
                 lifeVars>>

ReadResult(t) ==
  /\ pc[t] = "read_result"
  /\ result' = [result EXCEPT ![t] = cbException]
  /\ cbException' = "ok"
  /\ \/ threadExists /\ callerThread' = None /\ Goto(t, "release")
     \/ ~threadExists /\ Goto(t, "segfault") /\ UNCHANGED callerThread
  /\ UNCHANGED <<calls, ran, directCb, semVars, runVars, eventVars, lifeVars>>

ReleaseSlot(t) ==
  /\ pc[t] = "release"
  /\ freeSem' = freeSem + 1
  /\ Goto(t, "idle")
  /\ UNCHANGED <<callVars, slotVars, eventSem, executedSem, runVars,
                 eventVars, lifeVars>>

CallStep(t) == \/ AcquireFree(t) \/ CheckStop(t) \/ PostCallback(t)
               \/ AwaitExecuted(t) \/ ReadResult(t) \/ ReleaseSlot(t)

\* push_event(), by any thread, under event_queue_mutex.  Only a subscriber is
\* sent events, and it is init() that subscribes.
PushEvent ==
  /\ pushed < MaxEvents /\ ran[Main] # "no"
  /\ pushed' = pushed + 1
  /\ eventQueue' = Append(eventQueue, pushed')
  /\ eventSem' = eventSem + 1
  /\ UNCHANGED <<pc, callVars, slotVars, freeSem, executedSem, runVars,
                 handled, lifeVars>>

-----------------------------------------------------------------------------
(* ModuleThread::run() *)

AwaitEvent ==
  /\ runPc = "wait" /\ eventSem > 0
  /\ eventSem' = eventSem - 1
  /\ RunGoto("grab")
  /\ UNCHANGED <<pc, callVars, slotVars, freeSem, executedSem, grabbedCb,
                 grabbedEvent, outcome, eventVars, lifeVars>>

\* Under event_queue_mutex.  A posted callback goes before any event, and
\* stays posted until it has been executed.
Grab ==
  /\ runPc = "grab"
  /\ grabbedCb' = directCb
  /\ \/ /\ directCb = None /\ eventQueue # <<>>
        /\ grabbedEvent' = Head(eventQueue)
        /\ eventQueue' = Tail(eventQueue)
     \/ /\ directCb # None \/ eventQueue = <<>>
        /\ grabbedEvent' = 0
        /\ UNCHANGED eventQueue
  /\ RunGoto("check_stop")
  /\ UNCHANGED <<pc, callVars, slotVars, semVars, outcome, pushed, handled,
                 lifeVars>>

RunCheckStop ==
  /\ runPc = "check_stop"
  /\ RunGoto(IF stopRequested
             THEN IF grabbedCb # None THEN "discard" ELSE "unload"
             ELSE IF grabbedCb # None THEN "handle_cb"
             ELSE IF grabbedEvent # 0 THEN "handle_event" ELSE "wait")
  /\ UNCHANGED <<pc, callVars, slotVars, semVars, grabbedCb, grabbedEvent,
                 outcome, eventVars, lifeVars>>

\* The callback runs in the caller's stack frame and may throw.
HandleDirectCb ==
  /\ runPc = "handle_cb"
  /\ \E o \in Outcomes :
       outcome' = o /\ ran' = [ran EXCEPT ![grabbedCb] = o]
  /\ RunGoto("finish_cb")
  /\ UNCHANGED <<pc, calls, result, slotVars, semVars, grabbedCb,
                 grabbedEvent, eventVars, lifeVars>>

\* Under event_queue_mutex.
FinishDirectCb ==
  /\ runPc = "finish_cb"
  /\ directCb' = None /\ cbException' = outcome
  /\ RunGoto("post_executed")
  /\ UNCHANGED <<pc, callVars, callerThread, semVars, grabbedCb,
                 grabbedEvent, outcome, eventVars, lifeVars>>

PostExecuted ==
  /\ runPc = "post_executed"
  /\ executedSem' = executedSem + 1
  /\ RunGoto("wait")
  /\ UNCHANGED <<pc, callVars, slotVars, freeSem, eventSem, grabbedCb,
                 grabbedEvent, outcome, eventVars, lifeVars>>

HandleEvent ==
  /\ runPc = "handle_event"
  /\ handled' = grabbedEvent
  /\ RunGoto("wait")
  /\ UNCHANGED <<pc, callVars, slotVars, semVars, grabbedCb, grabbedEvent,
                 outcome, eventQueue, pushed, lifeVars>>

\* "Act like we processed the request": the exception is left as it was.
DiscardDirectCb ==
  /\ runPc = "discard"
  /\ directCb' = None
  /\ RunGoto("discard_post")
  /\ UNCHANGED <<pc, callVars, cbException, callerThread, semVars, grabbedCb,
                 grabbedEvent, outcome, eventVars, lifeVars>>

DiscardPost ==
  /\ runPc = "discard_post"
  /\ executedSem' = executedSem + 1
  /\ RunGoto("unload")
  /\ UNCHANGED <<pc, callVars, slotVars, freeSem, eventSem, grabbedCb,
                 grabbedEvent, outcome, eventVars, lifeVars>>

\* Move the module out of the container, under mc->mutex.
Unload ==
  /\ runPc = "unload" /\ MutexFree
  /\ RunGoto("destroy")
  /\ UNCHANGED <<pc, callVars, slotVars, semVars, grabbedCb, grabbedEvent,
                 outcome, eventVars, lifeVars>>

\* The module's destructor joins the helper threads the module started.
DestroyModule ==
  /\ runPc = "destroy"
  /\ \A h \in Helpers : pc[h] = "idle"
  /\ RunGoto("exited")
  /\ UNCHANGED <<pc, callVars, slotVars, semVars, grabbedCb, grabbedEvent,
                 outcome, eventVars, lifeVars>>

RunStep == \/ AwaitEvent \/ Grab \/ RunCheckStop \/ HandleDirectCb
           \/ FinishDirectCb \/ PostExecuted \/ HandleEvent
           \/ DiscardDirectCb \/ DiscardPost \/ Unload \/ DestroyModule

-----------------------------------------------------------------------------
(* thread_request_stop() and thread_join(), by Main *)

RequestStop ==
  /\ pc[Main] = "idle"
  /\ stopRequested' = TRUE
  /\ Goto(Main, "stop_post_free")
  /\ UNCHANGED <<callVars, slotVars, semVars, runVars, eventVars,
                 threadExists>>

\* "Pretend that direct_cb is now free".
StopPostFree ==
  /\ pc[Main] = "stop_post_free"
  /\ freeSem' = freeSem + 1
  /\ Goto(Main, "stop_post_event")
  /\ UNCHANGED <<callVars, slotVars, eventSem, executedSem, runVars,
                 eventVars, lifeVars>>

\* "Wake up thread so it can exit".
StopPostEvent ==
  /\ pc[Main] = "stop_post_event"
  /\ eventSem' = eventSem + 1
  /\ Goto(Main, "join")
  /\ UNCHANGED <<callVars, slotVars, freeSem, executedSem, runVars,
                 eventVars, lifeVars>>

JoinThread ==
  /\ pc[Main] = "join" /\ runPc = "exited"
  /\ \A d \in Dependents : pc[d] = "idle"
  /\ Goto(Main, "reset")
  /\ UNCHANGED <<callVars, slotVars, semVars, runVars, eventVars, lifeVars>>

\* thread.reset() under mc->mutex.
ResetThread ==
  /\ pc[Main] = "reset"
  /\ threadExists' = FALSE
  /\ Goto(Main, "done")
  /\ UNCHANGED <<callVars, slotVars, semVars, runVars, eventVars,
                 stopRequested>>

StopStep == StopPostFree \/ StopPostEvent \/ JoinThread \/ ResetThread

-----------------------------------------------------------------------------
\* A null pointer dereference ends the process.
Alive == \A t \in Threads : pc[t] # "segfault"

Next ==
  /\ Alive
  /\ \/ StartModule \/ RequestStop \/ StopStep \/ PushEvent \/ RunStep
     \/ \E t \in Threads : StartCall(t) \/ CallStep(t)

Spec == Init /\ [][Next]_vars

\* Every thread that can take a step eventually takes it; nobody has to start
\* a call, push an event or ask for a stop.
Fairness ==
  /\ WF_vars(Alive /\ StartModule)
  /\ WF_vars(Alive /\ RunStep)
  /\ WF_vars(Alive /\ StopStep)
  /\ \A t \in Threads : WF_vars(Alive /\ CallStep(t))

FairSpec == Spec /\ Fairness

-----------------------------------------------------------------------------
(* Safety *)

\* From the check that lets it through until it frees direct_cb, a thread owns
\* direct_cb, direct_cb_exception and the thread's caller pointer.
OwnsSlot(t) == pc[t] \in {"post", "wait_executed", "read_result", "release"}

\* direct_cb_free_sem admits one caller at a time, although
\* thread_request_stop() posts it once more than it is waited for: nobody gets
\* past the stop check on that extra token.
SlotExclusion == \A t, u \in Threads : OwnsSlot(t) /\ OwnsSlot(u) => t = u

\* The callback uses its caller's stack: while the module's thread executes
\* it, the caller it belongs to is still inside execute_direct_cb(), and the
\* thread's caller pointer, which exceptions are traced along, names it.
CallerWaitsWhileRun ==
  runPc \in {"handle_cb", "finish_cb"} =>
    /\ grabbedCb # None
    /\ pc[grabbedCb] = "wait_executed"
    /\ directCb = grabbedCb
    /\ callerThread = grabbedCb

\* event_queue_sem "counts queued events, and +1 for direct_cb": the module's
\* thread never wakes up to find nothing to do unless it has to stop, so the
\* warning of run() that says otherwise is never logged.
NoSpuriousWake ==
  runPc = "check_stop" /\ grabbedCb = None /\ grabbedEvent = 0 => stopRequested

\* What a call returns is what became of its own callback: an exception only
\* if that callback threw one, a refusal only if it never ran, and a plain
\* return only if it ran to its end, or was discarded by a stop.
ResultIsOwn ==
  \A t \in Threads :
    /\ result[t] = "throw" => ran[t] = "throw"
    /\ result[t] = "not_available" => ran[t] = "no" /\ stopRequested
    /\ result[t] = "ok" => ran[t] = "ok" \/ (ran[t] = "no" /\ stopRequested)

(* Actions *)

\* A module handles the events pushed to it one by one, in the order they were
\* pushed, and skips none, whatever calls come between them.
EventsInOrder == [][handled' # handled => handled' = handled + 1]_vars

(* Liveness *)

\* Unless the module is asked to stop, every call returns and every event is
\* handled, whichever of them the thread takes first.
WorkIsDone ==
  /\ \A t \in Threads :
       pc[t] \in CallSteps ~> pc[t] = "idle" \/ stopRequested
  /\ \A n \in 1..MaxEvents : pushed >= n ~> handled >= n \/ stopRequested

\* A requested stop ends: the thread exits and is joined, as long as neither
\* the destructor nor the main thread waits for a thread that calls in; and
\* nobody is left waiting for the slot, because each caller that is refused
\* lets the next one pass.
StopCompletes ==
  /\ stopRequested ~> pc[Main] = "done"
  /\ \A t \in Threads : pc[t] = "wait_free" ~> pc[t] # "wait_free" \/ ~Alive

-----------------------------------------------------------------------------
(* Refinement *)

\* The part of execute_direct_cb() whose answer is not known yet.
InCall(t) ==
  \/ pc[t] \in CallSteps \ {"release"}
  \/ pc[t] = "segfault" /\ result[t] = "none"

CallState ==
  [t \in Threads |-> IF ~InCall(t) THEN "idle"
                     ELSE IF ran[t] = "no" THEN "called" ELSE "executed"]

Calls == INSTANCE ModuleCalls
  WITH Threads <- Threads, state <- CallState, outcome <- ran,
       answer <- result, closing <- stopRequested, sent <- pushed,
       seen <- handled

\* The semaphores, flags and mutexes of the container make calls and events
\* behave as ModuleCalls says: a callback executes once and inside its call.
ImplementsModuleCalls == Calls!Spec

-----------------------------------------------------------------------------
(* What the source says of itself *)

\* execute_direct_cb() wakes up and "will cancel due to
\* thread->stop_requested()": a call that races a stop ends.
CallsEndOnStop ==
  \A t \in Threads : pc[t] \in CallSteps ~> pc[t] = "idle" \/ ~Alive

\* "Make sure the caller doesn't continue without knowing what it's doing":
\* a call that returns without an exception has executed its callback.
OkMeansRan == \A t \in Threads : result[t] = "ok" => ran[t] = "ok"

\* Accessing a module that "has been stopped (and possibly deleted)" throws;
\* it does not dereference the deleted thread.
NoNullThread == Alive
=============================================================================
