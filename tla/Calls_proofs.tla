---------------------------- MODULE Calls_proofs ----------------------------
(***************************************************************************)
(* Calls between modules.                                                  *)
(*                                                                         *)
(* ModuleThread: one container, its thread and its callers, for any set of *)
(* callers and any bounds, and that it implements ModuleCalls.             *)
(*                                                                         *)
(* ModuleAccess: modules blocked in calls of each other, for any modules,  *)
(* dependencies and accesses.                                              *)
(***************************************************************************)
EXTENDS ModuleThread, ModuleAccess, TLAPS

USE ThreadsAssumption
USE DEF Threads, Goto, RunGoto, vars, callVars, slotVars, semVars, runVars,
        eventVars, lifeVars

-----------------------------------------------------------------------------
(* ModuleThread: the inductive invariant, one part per idea *)

\* Where Main is in the module's life says whether the thread object exists,
\* whether a stop was requested and whether the thread has ended.
LifeInv ==
  /\ \A t \in Callers : pc[t] \notin LifeSteps
  /\ pc[Main] # "segfault"
  /\ runPc = "unborn" <=> pc[Main] = "start"
  /\ threadExists <=> pc[Main] \notin {"start", "done"}
  /\ stopRequested <=> pc[Main] \in LifeSteps \ {"start"}
  /\ pc[Main] \in {"reset", "done"} => runPc = "exited"
  /\ runPc \in {"discard", "discard_post", "unload", "destroy", "exited"}
       => stopRequested
  /\ runPc = "unborn" => \A t \in Threads : ~OwnsSlot(t)
  /\ Alive \/ runPc \in {"unborn", "exited"}

\* The slot's semaphore is 0 or 1 until a stop is requested, and then nobody
\* holds what it counts; afterwards nobody new passes the check.
HoldsToken(t) == OwnsSlot(t) \/ pc[t] = "check_stop"

SlotInv ==
  /\ SlotExclusion
  /\ ~stopRequested =>
       /\ freeSem \in {0, 1}
       /\ \A t, u \in Threads : HoldsToken(t) /\ HoldsToken(u) => t = u
       /\ freeSem = 1 => \A t \in Threads : ~HoldsToken(t)

\* A posted callback's caller waits for it; the handshake is complete once.
Completing == runPc \in {"post_executed", "discard_post"}

HandshakeInv ==
  /\ executedSem \in {0, 1}
  /\ Completing => executedSem = 0
  /\ directCb # None =>
       /\ pc[directCb] \in {"wait_executed", "segfault"}
       /\ executedSem = 0 /\ ~Completing
       /\ pc[directCb] = "wait_executed" => callerThread = directCb
  /\ Completing \/ executedSem = 1
       => \E t \in Threads : pc[t] = "wait_executed"
  /\ \A t \in Threads :
       pc[t] = "wait_executed" =>
         directCb = t \/ Completing \/ executedSem = 1
  /\ runPc = "check_stop" /\ grabbedCb # None => grabbedCb = directCb
  /\ runPc \in {"handle_cb", "finish_cb", "discard"} =>
       grabbedCb # None /\ grabbedCb = directCb

\* While the thread loops, event_queue_sem and the wake-up it just took are
\* worth the queued events, a posted callback it has not picked up, and the
\* wake-up of thread_request_stop().
InLoop == runPc \in {"unborn", "wait", "grab", "check_stop", "handle_cb",
                     "finish_cb", "post_executed", "handle_event"}

PickedUp ==
  runPc \in {"check_stop", "handle_cb", "finish_cb"} /\ grabbedCb # None

CbToPickUp == IF directCb # None /\ ~PickedUp THEN 1 ELSE 0
StopToNotice == IF pc[Main] \in {"join", "reset", "done"} THEN 1 ELSE 0
WakeTaken == IF runPc = "grab" THEN 1 ELSE 0

FoundNothing ==
  runPc = "check_stop" /\ grabbedCb = None /\ grabbedEvent = 0

WakeInv ==
  InLoop /\ ~FoundNothing =>
    eventSem + WakeTaken = Len(eventQueue) + CbToPickUp + StopToNotice

\* The queue holds the last events pushed, and the one before them is in the
\* thread's hands or was the last one handled.
EventInHand ==
  runPc \in {"check_stop", "handle_event"} /\ grabbedEvent # 0

EventsInHand == IF EventInHand THEN 1 ELSE 0

QueueInv ==
  /\ pushed >= Len(eventQueue)
  /\ \A i \in 1..Len(eventQueue) :
       eventQueue[i] = (pushed - Len(eventQueue)) + i
  /\ InLoop => handled + Len(eventQueue) + EventsInHand = pushed
  /\ EventInHand => grabbedEvent = handled + 1
  /\ runPc = "handle_event" => grabbedEvent # 0
  /\ runPc = "check_stop" /\ grabbedCb # None => grabbedEvent = 0

\* A call's exception slot holds what became of its callback from the moment
\* the callback is done until the caller has read it.
CallResultInv(t) ==
  /\ pc[t] \in {"wait_free", "check_stop", "post"} => ran[t] = "no"
  /\ pc[t] \in CallSteps \ {"release"} => result[t] = "none"
  /\ pc[t] = "wait_executed" /\ directCb = t /\ runPc # "finish_cb" =>
       ran[t] = "no" /\ cbException = "ok"
  /\ (pc[t] = "wait_executed" /\ directCb # t) \/ pc[t] = "read_result" =>
       \/ cbException = ran[t]
       \/ ran[t] = "no" /\ cbException = "ok" /\ stopRequested

ResultInv ==
  /\ \A t \in Threads : CallResultInv(t)
  /\ runPc = "finish_cb" => outcome = ran[grabbedCb]

IInv ==
  /\ TypeOK /\ LifeInv /\ SlotInv /\ HandshakeInv /\ WakeInv
  /\ NoSpuriousWake /\ QueueInv /\ ResultInv /\ ResultIsOwn

-----------------------------------------------------------------------------
\* The type invariant is preserved by every step.
LEMMA TypeStep ==
  ASSUME TypeOK, Next
  PROVE  TypeOK'
<1> USE DEF TypeOK, Outcomes, CallSteps, LifeSteps, RunSteps
<1>1. CASE StartModule
  BY <1>1 DEF StartModule, BeginCall
<1>2. CASE RequestStop
  BY <1>2 DEF RequestStop
<1>3. CASE StopPostFree
  BY <1>3 DEF StopPostFree
<1>4. CASE StopPostEvent
  BY <1>4 DEF StopPostEvent
<1>5. CASE JoinThread
  BY <1>5 DEF JoinThread
<1>6. CASE ResetThread
  <2>1. pc' = [pc EXCEPT ![Main] = "done"] /\ threadExists' = FALSE
    BY <1>6 DEF ResetThread
  <2>2. threadExists' \in BOOLEAN
    BY <2>1
  <2> QED
    BY <1>6, <2>1, <2>2 DEF ResetThread
<1>7. CASE PushEvent
  BY <1>7 DEF PushEvent
<1>8. CASE AwaitEvent
  BY <1>8 DEF AwaitEvent
<1>9. CASE Grab
  <2>1. eventQueue # <<>> =>
          Head(eventQueue) \in Nat /\ Tail(eventQueue) \in Seq(Nat)
    OBVIOUS
  <2>2. eventQueue' \in Seq(Nat)
    BY <1>9, <2>1, Zenon DEF Grab
  <2>3. grabbedEvent' \in Nat
    BY <1>9, <2>1 DEF Grab
  <2> QED
    BY <1>9, <2>2, <2>3 DEF Grab
<1>10. CASE RunCheckStop
  BY <1>10 DEF RunCheckStop
<1>11. CASE HandleDirectCb
  <2>1. PICK o \in Outcomes :
          outcome' = o /\ ran' = [ran EXCEPT ![grabbedCb] = o]
    BY <1>11 DEF HandleDirectCb
  <2>2. ran' \in [Threads -> {"no"} \cup Outcomes]
    BY <2>1
  <2> QED
    BY <1>11, <2>1, <2>2 DEF HandleDirectCb
<1>12. CASE FinishDirectCb
  BY <1>12 DEF FinishDirectCb
<1>13. CASE PostExecuted
  BY <1>13 DEF PostExecuted
<1>14. CASE HandleEvent
  BY <1>14 DEF HandleEvent
<1>15. CASE DiscardDirectCb
  BY <1>15 DEF DiscardDirectCb
<1>16. CASE DiscardPost
  BY <1>16 DEF DiscardPost
<1>17. CASE Unload
  BY <1>17 DEF Unload
<1>18. CASE DestroyModule
  BY <1>18 DEF DestroyModule
<1>19. ASSUME NEW t \in Threads, StartCall(t)
      PROVE  TypeOK'
  BY <1>19 DEF StartCall, BeginCall
<1>20. ASSUME NEW t \in Threads, AcquireFree(t)
      PROVE  TypeOK'
  BY <1>20 DEF AcquireFree
<1>21. ASSUME NEW t \in Threads, CheckStop(t)
      PROVE  TypeOK'
  <2>1. pc' \in [Threads -> {"idle", "segfault"} \cup CallSteps \cup LifeSteps]
    BY <1>21 DEF CheckStop
  <2>2. freeSem' \in Nat
    BY <1>21 DEF CheckStop
  <2>3. result' \in [Threads -> {"none", "not_available"} \cup Outcomes]
    BY <1>21 DEF CheckStop
  <2> QED
    BY <1>21, <2>1, <2>2, <2>3 DEF CheckStop
<1>22. ASSUME NEW t \in Threads, PostCallback(t)
      PROVE  TypeOK'
  BY <1>22 DEF PostCallback
<1>23. ASSUME NEW t \in Threads, AwaitExecuted(t)
      PROVE  TypeOK'
  BY <1>23 DEF AwaitExecuted
<1>24. ASSUME NEW t \in Threads, ReadResult(t)
      PROVE  TypeOK'
  BY ZenonT(30), <1>24 DEF ReadResult
<1>25. ASSUME NEW t \in Threads, ReleaseSlot(t)
      PROVE  TypeOK'
  BY <1>25 DEF ReleaseSlot
<1> QED
  BY <1>1, <1>2, <1>3, <1>4, <1>5, <1>6, <1>7, <1>8, <1>9, <1>10, <1>11,
     <1>12, <1>13, <1>14, <1>15, <1>16, <1>17, <1>18, <1>19, <1>20, <1>21,
     <1>22, <1>23, <1>24, <1>25
  DEF Next, StopStep, RunStep, CallStep

\* Each step keeps the module's life in order.
LEMMA LifeStep ==
  ASSUME Alive, TypeOK, LifeInv, Next
  PROVE  LifeInv'
<1> USE DEF Alive, TypeOK, LifeInv, OwnsSlot, CallSteps, LifeSteps, RunSteps
<1>1. CASE StartModule
  BY <1>1 DEF StartModule, BeginCall
<1>2. CASE RequestStop
  BY <1>2 DEF RequestStop
<1>3. CASE StopPostFree
  BY <1>3 DEF StopPostFree
<1>4. CASE StopPostEvent
  BY <1>4 DEF StopPostEvent
<1>5. CASE JoinThread
  BY <1>5 DEF JoinThread
<1>6. CASE ResetThread
  BY <1>6 DEF ResetThread
<1>7. CASE PushEvent
  BY <1>7 DEF PushEvent
<1>8. CASE AwaitEvent
  BY <1>8 DEF AwaitEvent
<1>9. CASE Grab
  BY <1>9 DEF Grab
<1>10. CASE RunCheckStop
  BY <1>10 DEF RunCheckStop
<1>11. CASE HandleDirectCb
  BY <1>11 DEF HandleDirectCb
<1>12. CASE FinishDirectCb
  BY <1>12 DEF FinishDirectCb
<1>13. CASE PostExecuted
  BY <1>13 DEF PostExecuted
<1>14. CASE HandleEvent
  BY <1>14 DEF HandleEvent
<1>15. CASE DiscardDirectCb
  BY <1>15 DEF DiscardDirectCb
<1>16. CASE DiscardPost
  BY <1>16 DEF DiscardPost
<1>17. CASE Unload
  BY <1>17 DEF Unload
<1>18. CASE DestroyModule
  BY <1>18 DEF DestroyModule
<1>19. ASSUME NEW t \in Threads, StartCall(t)
      PROVE  LifeInv'
  BY <1>19 DEF StartCall, BeginCall
<1>20. ASSUME NEW t \in Threads, AcquireFree(t)
      PROVE  LifeInv'
  BY <1>20 DEF AcquireFree
<1>21. ASSUME NEW t \in Threads, CheckStop(t)
      PROVE  LifeInv'
  BY <1>21 DEF CheckStop
<1>22. ASSUME NEW t \in Threads, PostCallback(t)
      PROVE  LifeInv'
  BY <1>22 DEF PostCallback
<1>23. ASSUME NEW t \in Threads, AwaitExecuted(t)
      PROVE  LifeInv'
  BY <1>23 DEF AwaitExecuted
<1>24. ASSUME NEW t \in Threads, ReadResult(t)
      PROVE  LifeInv'
  BY <1>24 DEF ReadResult
<1>25. ASSUME NEW t \in Threads, ReleaseSlot(t)
      PROVE  LifeInv'
  BY <1>25 DEF ReleaseSlot
<1> QED
  BY <1>1, <1>2, <1>3, <1>4, <1>5, <1>6, <1>7, <1>8, <1>9, <1>10, <1>11,
     <1>12, <1>13, <1>14, <1>15, <1>16, <1>17, <1>18, <1>19, <1>20, <1>21,
     <1>22, <1>23, <1>24, <1>25
  DEF Next, StopStep, RunStep, CallStep

\* No step lets a second thread own direct_cb: before a stop the token of
\* direct_cb_free_sem is unique, afterwards nobody passes the check.
LEMMA SlotStep ==
  ASSUME TypeOK, LifeInv, SlotInv, Next
  PROVE  SlotInv'
<1> USE DEF TypeOK, LifeInv, SlotInv, SlotExclusion, OwnsSlot, HoldsToken,
    CallSteps, LifeSteps
<1>1. CASE StartModule
  BY <1>1 DEF StartModule, BeginCall
<1>2. CASE RequestStop
  BY <1>2 DEF RequestStop
<1>3. CASE StopPostFree
  BY <1>3 DEF StopPostFree
<1>4. CASE StopPostEvent
  BY <1>4 DEF StopPostEvent
<1>5. CASE JoinThread
  BY <1>5 DEF JoinThread
<1>6. CASE ResetThread
  BY <1>6 DEF ResetThread
<1>7. CASE PushEvent
  BY <1>7 DEF PushEvent
<1>8. CASE AwaitEvent
  BY <1>8 DEF AwaitEvent
<1>9. CASE Grab
  BY <1>9 DEF Grab
<1>10. CASE RunCheckStop
  BY <1>10 DEF RunCheckStop
<1>11. CASE HandleDirectCb
  BY <1>11 DEF HandleDirectCb
<1>12. CASE FinishDirectCb
  BY <1>12 DEF FinishDirectCb
<1>13. CASE PostExecuted
  BY <1>13 DEF PostExecuted
<1>14. CASE HandleEvent
  BY <1>14 DEF HandleEvent
<1>15. CASE DiscardDirectCb
  BY <1>15 DEF DiscardDirectCb
<1>16. CASE DiscardPost
  BY <1>16 DEF DiscardPost
<1>17. CASE Unload
  BY <1>17 DEF Unload
<1>18. CASE DestroyModule
  BY <1>18 DEF DestroyModule
<1>19. ASSUME NEW t \in Threads, StartCall(t)
      PROVE  SlotInv'
  BY <1>19 DEF StartCall, BeginCall
<1>20. ASSUME NEW t \in Threads, AcquireFree(t)
      PROVE  SlotInv'
  BY <1>20 DEF AcquireFree
<1>21. ASSUME NEW t \in Threads, CheckStop(t)
      PROVE  SlotInv'
  <2>1. /\ pc[t] = "check_stop"
        /\ pc'[t] \in {"idle", "post", "segfault"}
        /\ pc'[t] = "post" => ~stopRequested
        /\ \A u \in Threads \ {t} : pc'[u] = pc[u]
        /\ ~stopRequested => freeSem' = freeSem
        /\ UNCHANGED stopRequested
    BY <1>21 DEF CheckStop
  <2>2. SlotExclusion'
    BY <2>1
  <2>3. ~stopRequested' => freeSem' \in {0, 1}
    BY <2>1
  <2>4. ~stopRequested' => \A v, u \in Threads : HoldsToken(v)' /\
         HoldsToken(u)' => v = u
    BY <2>1
  <2>5. ~stopRequested' => (freeSem' = 1 => \A u \in Threads : ~HoldsToken(u)')
    BY <2>1
  <2> QED
    BY <2>2, <2>3, <2>4, <2>5
<1>22. ASSUME NEW t \in Threads, PostCallback(t)
      PROVE  SlotInv'
  <2>1. /\ pc[t] = "post"
        /\ pc'[t] \in {"wait_executed", "segfault"}
        /\ \A u \in Threads \ {t} : pc'[u] = pc[u]
        /\ UNCHANGED <<freeSem, stopRequested>>
    BY <1>22 DEF PostCallback
  <2>2. SlotExclusion'
    BY <2>1
  <2>3. ~stopRequested' => freeSem' \in {0, 1}
    BY <2>1
  <2>4. ~stopRequested' => \A v, u \in Threads : HoldsToken(v)' /\
         HoldsToken(u)' => v = u
    BY <2>1
  <2>5. ~stopRequested' => (freeSem' = 1 => \A u \in Threads : ~HoldsToken(u)')
    BY <2>1
  <2> QED
    BY <2>2, <2>3, <2>4, <2>5
<1>23. ASSUME NEW t \in Threads, AwaitExecuted(t)
      PROVE  SlotInv'
  BY <1>23 DEF AwaitExecuted
<1>24. ASSUME NEW t \in Threads, ReadResult(t)
      PROVE  SlotInv'
  <2>1. /\ pc[t] = "read_result"
        /\ pc'[t] \in {"release", "segfault"}
        /\ \A u \in Threads \ {t} : pc'[u] = pc[u]
        /\ UNCHANGED <<freeSem, stopRequested>>
    BY <1>24 DEF ReadResult
  <2>2. SlotExclusion'
    BY <2>1
  <2>3. ~stopRequested' => freeSem' \in {0, 1}
    BY <2>1
  <2>4. ~stopRequested' => \A v, u \in Threads : HoldsToken(v)' /\
         HoldsToken(u)' => v = u
    BY <2>1
  <2>5. ~stopRequested' => (freeSem' = 1 => \A u \in Threads : ~HoldsToken(u)')
    BY <2>1
  <2> QED
    BY <2>2, <2>3, <2>4, <2>5
<1>25. ASSUME NEW t \in Threads, ReleaseSlot(t)
      PROVE  SlotInv'
  BY <1>25 DEF ReleaseSlot
<1> QED
  BY <1>1, <1>2, <1>3, <1>4, <1>5, <1>6, <1>7, <1>8, <1>9, <1>10, <1>11,
     <1>12, <1>13, <1>14, <1>15, <1>16, <1>17, <1>18, <1>19, <1>20, <1>21,
     <1>22, <1>23, <1>24, <1>25
  DEF Next, StopStep, RunStep, CallStep

\* Posting, executing and acknowledging a callback keep the handshake between
\* the caller and the module's thread.
LEMMA HandshakeStep ==
  ASSUME Alive, TypeOK, LifeInv, SlotInv, HandshakeInv, Next
  PROVE  HandshakeInv'
<1> USE DEF Alive, TypeOK, LifeInv, SlotInv, SlotExclusion, OwnsSlot,
    HandshakeInv, Completing, CallSteps, LifeSteps
<1>1. CASE StartModule
  BY <1>1 DEF StartModule, BeginCall
<1>2. CASE RequestStop
  BY <1>2 DEF RequestStop
<1>3. CASE StopPostFree
  BY <1>3 DEF StopPostFree
<1>4. CASE StopPostEvent
  BY <1>4 DEF StopPostEvent
<1>5. CASE JoinThread
  BY <1>5 DEF JoinThread
<1>6. CASE ResetThread
  BY <1>6 DEF ResetThread
<1>7. CASE PushEvent
  BY <1>7 DEF PushEvent
<1>8. CASE AwaitEvent
  BY <1>8 DEF AwaitEvent
<1>9. CASE Grab
  BY <1>9 DEF Grab
<1>10. CASE RunCheckStop
  BY <1>10 DEF RunCheckStop
<1>11. CASE HandleDirectCb
  BY <1>11 DEF HandleDirectCb
<1>12. CASE FinishDirectCb
  BY <1>12 DEF FinishDirectCb
<1>13. CASE PostExecuted
  BY <1>13 DEF PostExecuted
<1>14. CASE HandleEvent
  BY <1>14 DEF HandleEvent
<1>15. CASE DiscardDirectCb
  BY <1>15 DEF DiscardDirectCb
<1>16. CASE DiscardPost
  BY <1>16 DEF DiscardPost
<1>17. CASE Unload
  BY <1>17 DEF Unload
<1>18. CASE DestroyModule
  BY <1>18 DEF DestroyModule
<1>19. ASSUME NEW t \in Threads, StartCall(t)
      PROVE  HandshakeInv'
  BY <1>19 DEF StartCall, BeginCall
<1>20. ASSUME NEW t \in Threads, AcquireFree(t)
      PROVE  HandshakeInv'
  BY <1>20 DEF AcquireFree
<1>21. ASSUME NEW t \in Threads, CheckStop(t)
      PROVE  HandshakeInv'
  BY <1>21 DEF CheckStop
<1>22. ASSUME NEW t \in Threads, PostCallback(t)
      PROVE  HandshakeInv'
  BY <1>22 DEF PostCallback
<1>23. ASSUME NEW t \in Threads, AwaitExecuted(t)
      PROVE  HandshakeInv'
  BY <1>23 DEF AwaitExecuted
<1>24. ASSUME NEW t \in Threads, ReadResult(t)
      PROVE  HandshakeInv'
  BY <1>24 DEF ReadResult
<1>25. ASSUME NEW t \in Threads, ReleaseSlot(t)
      PROVE  HandshakeInv'
  BY <1>25 DEF ReleaseSlot
<1> QED
  BY <1>1, <1>2, <1>3, <1>4, <1>5, <1>6, <1>7, <1>8, <1>9, <1>10, <1>11,
     <1>12, <1>13, <1>14, <1>15, <1>16, <1>17, <1>18, <1>19, <1>20, <1>21,
     <1>22, <1>23, <1>24, <1>25
  DEF Next, StopStep, RunStep, CallStep

\* Events keep their order in the queue, and the one taken out is the next.
LEMMA QueueStep ==
  ASSUME TypeOK, LifeInv, QueueInv, Next
  PROVE  QueueInv'
<1> USE DEF TypeOK, LifeInv, QueueInv, InLoop, EventInHand, EventsInHand,
    CallSteps, LifeSteps, RunSteps
<1>1. CASE StartModule
  BY <1>1 DEF StartModule, BeginCall
<1>2. CASE RequestStop
  BY <1>2 DEF RequestStop
<1>3. CASE StopPostFree
  BY <1>3 DEF StopPostFree
<1>4. CASE StopPostEvent
  BY <1>4 DEF StopPostEvent
<1>5. CASE JoinThread
  BY <1>5 DEF JoinThread
<1>6. CASE ResetThread
  BY <1>6 DEF ResetThread
<1>7. CASE PushEvent
  <2>1. /\ Len(eventQueue) \in Nat
        /\ Len(eventQueue') = Len(eventQueue) + 1
        /\ \A i \in 1..Len(eventQueue) : eventQueue'[i] = eventQueue[i]
        /\ eventQueue'[Len(eventQueue) + 1] = pushed'
    BY <1>7 DEF PushEvent
  <2>2. pushed' = pushed + 1 /\ UNCHANGED <<runPc, grabbedEvent, handled,
                                            grabbedCb>>
    BY <1>7 DEF PushEvent
  <2>3. pushed' >= Len(eventQueue')
    BY <2>1, <2>2
  <2>4. \A i \in 1..Len(eventQueue') :
          eventQueue'[i] = (pushed' - Len(eventQueue')) + i
    <3> TAKE i \in 1..Len(eventQueue')
    <3>1. CASE i \in 1..Len(eventQueue)
      BY <2>1, <2>2, <3>1
    <3>2. CASE i = Len(eventQueue) + 1
      BY <2>1, <2>2, <3>2
    <3> QED
      BY <2>1, <3>1, <3>2
  <2>5. EventsInHand' = EventsInHand /\ EventsInHand \in Nat /\ (InLoop' <=>
         InLoop)
    BY <2>2
  <2>6. InLoop' => handled' + Len(eventQueue') + EventsInHand' = pushed'
    <3> SUFFICES ASSUME InLoop' PROVE handled' + Len(eventQueue') +
           EventsInHand' = pushed'
      OBVIOUS
    <3>1. handled + Len(eventQueue) + EventsInHand = pushed
      BY <2>5
    <3> HIDE DEF EventsInHand, InLoop, QueueInv, LifeInv
    <3> QED
      BY <2>1, <2>2, <2>5, <3>1
  <2> QED
    BY <2>2, <2>3, <2>4, <2>6
<1>8. CASE AwaitEvent
  BY <1>8 DEF AwaitEvent
<1>9. CASE Grab
  <2>1. CASE directCb = None /\ eventQueue # <<>>
    <3>1. /\ Len(eventQueue) \in Nat \ {0}
          /\ Len(Tail(eventQueue)) = Len(eventQueue) - 1
          /\ \A i \in 1..(Len(eventQueue) - 1) :
               Tail(eventQueue)[i] = eventQueue[i + 1]
          /\ Head(eventQueue) = eventQueue[1]
      BY <2>1
    <3>2. /\ runPc = "grab" /\ runPc' = "check_stop"
          /\ eventQueue' = Tail(eventQueue) /\ grabbedEvent' = eventQueue[1]
          /\ grabbedCb' = None
          /\ UNCHANGED <<pushed, handled, eventSem, directCb, pc,
                         stopRequested>>
      BY <1>9, <2>1, <3>1 DEF Grab
    <3>3. eventQueue[1] = handled + 1
      BY <3>1, <3>2
    <3>4. Len(eventQueue') = Len(eventQueue) - 1
      BY <3>1, <3>2
    <3>5. \A i \in 1..Len(eventQueue') :
            eventQueue'[i] = (pushed' - Len(eventQueue')) + i
      BY <3>1, <3>2, <3>4
    <3>6. ~EventInHand /\ EventInHand' /\ InLoop
      BY <3>2, <3>3
    <3>7. grabbedEvent' = handled' + 1
      BY <3>2, <3>3
    <3>8. handled' + Len(eventQueue') + 1 = pushed'
      BY <3>1, <3>2, <3>4, <3>6
    <3>9. pushed' >= Len(eventQueue')
      BY <3>1, <3>2, <3>4
    <3> QED
      BY <3>2, <3>4, <3>5, <3>6, <3>7, <3>8, <3>9
  <2>2. CASE directCb # None \/ eventQueue = <<>>
    BY <1>9, <2>2 DEF Grab
  <2> QED
    BY <2>1, <2>2
<1>10. CASE RunCheckStop
  <2>1. /\ runPc = "check_stop"
        /\ runPc' \in {"discard", "unload", "handle_cb", "handle_event",
               "wait"}
        /\ runPc' = "handle_event" => grabbedEvent # 0
        /\ runPc' \in {"handle_cb", "wait"} => grabbedCb # None \/
               grabbedEvent = 0
        /\ UNCHANGED <<eventQueue, pushed, handled, grabbedEvent>>
    BY <1>10 DEF RunCheckStop
  <2>2. runPc' = "handle_cb" => grabbedEvent = 0
    BY <1>10 DEF RunCheckStop
  <2> QED
    BY <2>1, <2>2
<1>11. CASE HandleDirectCb
  BY <1>11 DEF HandleDirectCb
<1>12. CASE FinishDirectCb
  BY <1>12 DEF FinishDirectCb
<1>13. CASE PostExecuted
  BY <1>13 DEF PostExecuted
<1>14. CASE HandleEvent
  BY <1>14 DEF HandleEvent
<1>15. CASE DiscardDirectCb
  BY <1>15 DEF DiscardDirectCb
<1>16. CASE DiscardPost
  BY <1>16 DEF DiscardPost
<1>17. CASE Unload
  BY <1>17 DEF Unload
<1>18. CASE DestroyModule
  BY <1>18 DEF DestroyModule
<1>19. ASSUME NEW t \in Threads, StartCall(t)
      PROVE  QueueInv'
  BY <1>19 DEF StartCall, BeginCall
<1>20. ASSUME NEW t \in Threads, AcquireFree(t)
      PROVE  QueueInv'
  BY <1>20 DEF AcquireFree
<1>21. ASSUME NEW t \in Threads, CheckStop(t)
      PROVE  QueueInv'
  BY <1>21 DEF CheckStop
<1>22. ASSUME NEW t \in Threads, PostCallback(t)
      PROVE  QueueInv'
  BY <1>22 DEF PostCallback
<1>23. ASSUME NEW t \in Threads, AwaitExecuted(t)
      PROVE  QueueInv'
  BY <1>23 DEF AwaitExecuted
<1>24. ASSUME NEW t \in Threads, ReadResult(t)
      PROVE  QueueInv'
  BY <1>24 DEF ReadResult
<1>25. ASSUME NEW t \in Threads, ReleaseSlot(t)
      PROVE  QueueInv'
  BY <1>25 DEF ReleaseSlot
<1> QED
  BY <1>1, <1>2, <1>3, <1>4, <1>5, <1>6, <1>7, <1>8, <1>9, <1>10, <1>11,
     <1>12, <1>13, <1>14, <1>15, <1>16, <1>17, <1>18, <1>19, <1>20, <1>21,
     <1>22, <1>23, <1>24, <1>25
  DEF Next, StopStep, RunStep, CallStep

\* Whatever posts event_queue_sem leaves something to do behind it.
LEMMA WakeStep ==
  ASSUME Alive, TypeOK, LifeInv, SlotInv, HandshakeInv, QueueInv, WakeInv,
         NoSpuriousWake, Next
  PROVE  (WakeInv /\ NoSpuriousWake)'
<1> USE DEF Alive, TypeOK, LifeInv, SlotInv, SlotExclusion, HandshakeInv,
    QueueInv, WakeInv, NoSpuriousWake, InLoop, PickedUp, CbToPickUp,
    StopToNotice, WakeTaken, FoundNothing, OwnsSlot, Completing, CallSteps,
    LifeSteps, RunSteps
<1>1. CASE StartModule
  BY <1>1 DEF StartModule, BeginCall
<1>2. CASE RequestStop
  BY <1>2 DEF RequestStop
<1>3. CASE StopPostFree
  BY <1>3 DEF StopPostFree
<1>4. CASE StopPostEvent
  BY <1>4 DEF StopPostEvent
<1>5. CASE JoinThread
  BY <1>5 DEF JoinThread
<1>6. CASE ResetThread
  BY <1>6 DEF ResetThread
<1>7. CASE PushEvent
  <2>1. Len(eventQueue) \in Nat /\ Len(eventQueue') = Len(eventQueue) + 1
    BY <1>7 DEF PushEvent
  <2>2. /\ eventSem' = eventSem + 1
        /\ UNCHANGED <<pc, runPc, grabbedCb, grabbedEvent, directCb,
                       stopRequested>>
    BY <1>7 DEF PushEvent
  <2>3. NoSpuriousWake'
    BY <2>2
  <2>4. ASSUME InLoop', ~FoundNothing'
        PROVE  eventSem' + WakeTaken' = Len(eventQueue') + CbToPickUp' +
               StopToNotice'
    <3>1. eventSem + WakeTaken = Len(eventQueue) + CbToPickUp + StopToNotice
      BY <2>2, <2>4
    <3>2. /\ WakeTaken' = WakeTaken /\ WakeTaken \in Nat
          /\ CbToPickUp' = CbToPickUp /\ CbToPickUp \in Nat
          /\ StopToNotice' = StopToNotice /\ StopToNotice \in Nat
      BY <2>2
    <3>3. eventSem \in Nat
      OBVIOUS
    <3>4. ASSUME NEW n \in Nat, NEW w \in Nat, NEW k \in Nat, NEW c \in Nat,
                 NEW t \in Nat, n + w = k + c + t
          PROVE  (n + 1) + w = (k + 1) + c + t
      BY <3>4
    <3> HIDE DEF Alive, TypeOK, LifeInv, SlotInv, SlotExclusion, HandshakeInv,
        QueueInv, WakeInv, NoSpuriousWake, WakeTaken, CbToPickUp,
        StopToNotice
    <3> QED
      BY <2>1, <2>2, <3>1, <3>2, <3>3, <3>4
  <2> QED
    BY <2>3, <2>4
<1>8. CASE AwaitEvent
  BY <1>8 DEF AwaitEvent
<1>9. CASE Grab
  <2>1. CASE directCb = None /\ eventQueue # <<>>
    <3>1. /\ Len(eventQueue) \in Nat \ {0}
          /\ Len(Tail(eventQueue)) = Len(eventQueue) - 1
          /\ \A i \in 1..(Len(eventQueue) - 1) :
               Tail(eventQueue)[i] = eventQueue[i + 1]
          /\ Head(eventQueue) = eventQueue[1]
      BY <2>1
    <3>2. /\ runPc = "grab" /\ runPc' = "check_stop"
          /\ eventQueue' = Tail(eventQueue) /\ grabbedEvent' = eventQueue[1]
          /\ grabbedCb' = None
          /\ UNCHANGED <<pushed, handled, eventSem, directCb, pc,
                         stopRequested>>
      BY <1>9, <2>1, <3>1 DEF Grab
    <3>3. /\ NoSpuriousWake' /\ InLoop /\ ~FoundNothing
          /\ eventQueue[1] \in Nat \ {0}
      BY <3>1, <3>2
    <3>4. /\ WakeTaken' = 0 /\ WakeTaken = 1
          /\ CbToPickUp' = 0 /\ CbToPickUp = 0
          /\ StopToNotice' = StopToNotice /\ StopToNotice \in Nat
      BY <2>1, <3>2
    <3>5. eventSem' + WakeTaken' = Len(eventQueue') + CbToPickUp' +
           StopToNotice'
      <4>1. eventSem + WakeTaken = Len(eventQueue) + CbToPickUp + StopToNotice
        BY <3>3
      <4> HIDE DEF WakeInv, WakeTaken, CbToPickUp, StopToNotice, QueueInv
      <4> QED
        BY <3>1, <3>2, <3>4, <4>1
    <3> QED
      BY <3>3, <3>5
  <2>2. CASE directCb # None
    <3>1. /\ runPc = "grab" /\ runPc' = "check_stop" /\ grabbedCb' = directCb
          /\ UNCHANGED <<eventQueue, eventSem, directCb, pc, stopRequested>>
      BY <1>9, <2>2 DEF Grab
    <3> QED
      BY <2>2, <3>1
  <2>3. CASE directCb = None /\ eventQueue = <<>>
    <3>1. /\ runPc = "grab" /\ runPc' = "check_stop"
          /\ grabbedCb' = None /\ grabbedEvent' = 0
          /\ UNCHANGED stopRequested
      BY <1>9, <2>3 DEF Grab
    <3>2. pc[Main] \in {"join", "reset", "done"}
      BY <2>3, <3>1
    <3> QED
      BY <3>1, <3>2
  <2> QED
    BY <2>1, <2>2, <2>3
<1>10. CASE RunCheckStop
  BY <1>10 DEF RunCheckStop
<1>11. CASE HandleDirectCb
  BY <1>11 DEF HandleDirectCb
<1>12. CASE FinishDirectCb
  BY <1>12 DEF FinishDirectCb
<1>13. CASE PostExecuted
  BY <1>13 DEF PostExecuted
<1>14. CASE HandleEvent
  BY <1>14 DEF HandleEvent
<1>15. CASE DiscardDirectCb
  BY <1>15 DEF DiscardDirectCb
<1>16. CASE DiscardPost
  BY <1>16 DEF DiscardPost
<1>17. CASE Unload
  BY <1>17 DEF Unload
<1>18. CASE DestroyModule
  BY <1>18 DEF DestroyModule
<1>19. ASSUME NEW t \in Threads, StartCall(t)
      PROVE  (WakeInv /\ NoSpuriousWake)'
  BY <1>19 DEF StartCall, BeginCall
<1>20. ASSUME NEW t \in Threads, AcquireFree(t)
      PROVE  (WakeInv /\ NoSpuriousWake)'
  BY <1>20 DEF AcquireFree
<1>21. ASSUME NEW t \in Threads, CheckStop(t)
      PROVE  (WakeInv /\ NoSpuriousWake)'
  BY ZenonT(30), <1>21 DEF CheckStop
<1>22. ASSUME NEW t \in Threads, PostCallback(t)
      PROVE  (WakeInv /\ NoSpuriousWake)'
  <2>1. pc[t] = "post" /\ directCb = None /\ t # None
    BY <1>22 DEF PostCallback
  <2>2. CASE threadExists
    <3>1. /\ directCb' = t /\ eventSem' = eventSem + 1
          /\ pc'[t] = "wait_executed"
          /\ \A u \in Threads \ {t} : pc'[u] = pc[u]
          /\ UNCHANGED <<eventQueue, runPc, grabbedCb, grabbedEvent,
                         stopRequested>>
      BY <1>22, <2>1, <2>2 DEF PostCallback
    <3>2. NoSpuriousWake'
      BY <3>1
    <3>3. ~PickedUp \/ ~InLoop
      BY <2>1
    <3>4. ASSUME InLoop', ~FoundNothing'
          PROVE  eventSem' + WakeTaken' = Len(eventQueue') + CbToPickUp' +
                 StopToNotice'
      <4>1. InLoop /\ ~FoundNothing /\ ~PickedUp /\ ~PickedUp'
        BY <3>1, <3>3, <3>4
      <4>2. eventSem + WakeTaken = Len(eventQueue) + CbToPickUp + StopToNotice
        BY <4>1
      <4>3. /\ WakeTaken' = WakeTaken /\ WakeTaken \in Nat
            /\ CbToPickUp' = 1 /\ CbToPickUp = 0
        BY <2>1, <3>1, <4>1
      <4>4. StopToNotice' = StopToNotice /\ StopToNotice \in Nat
        BY <2>1, <3>1
      <4>5. /\ Len(eventQueue) \in Nat /\ eventSem \in Nat
            /\ eventSem' = eventSem + 1 /\ eventQueue' = eventQueue
        BY <3>1
      <4> HIDE DEF TypeOK, LifeInv, SlotInv, HandshakeInv, QueueInv, WakeInv,
               WakeTaken, CbToPickUp, StopToNotice
      <4> QED
        BY <4>2, <4>3, <4>4, <4>5
    <3> QED
      BY <3>2, <3>4
  <2>3. CASE ~threadExists
    BY <1>22, <2>1, <2>3 DEF PostCallback
  <2> QED
    BY <2>2, <2>3
<1>23. ASSUME NEW t \in Threads, AwaitExecuted(t)
      PROVE  (WakeInv /\ NoSpuriousWake)'
  BY <1>23 DEF AwaitExecuted
<1>24. ASSUME NEW t \in Threads, ReadResult(t)
      PROVE  (WakeInv /\ NoSpuriousWake)'
  BY <1>24 DEF ReadResult
<1>25. ASSUME NEW t \in Threads, ReleaseSlot(t)
      PROVE  (WakeInv /\ NoSpuriousWake)'
  BY <1>25 DEF ReleaseSlot
<1> QED
  BY <1>1, <1>2, <1>3, <1>4, <1>5, <1>6, <1>7, <1>8, <1>9, <1>10, <1>11,
     <1>12, <1>13, <1>14, <1>15, <1>16, <1>17, <1>18, <1>19, <1>20, <1>21,
     <1>22, <1>23, <1>24, <1>25
  DEF Next, StopStep, RunStep, CallStep

\* A callback's outcome reaches the caller it belongs to.
LEMMA ResultStep ==
  ASSUME Alive, TypeOK, LifeInv, SlotInv, HandshakeInv, ResultInv,
         ResultIsOwn, Next
  PROVE  (ResultInv /\ ResultIsOwn)'
<1> USE DEF Alive, TypeOK, LifeInv, SlotInv, SlotExclusion, OwnsSlot,
    HandshakeInv, Completing, ResultInv, CallResultInv, ResultIsOwn,
    CallSteps, LifeSteps, Outcomes
<1>1. CASE StartModule
  BY <1>1 DEF StartModule, BeginCall
<1>2. CASE RequestStop
  BY <1>2 DEF RequestStop
<1>3. CASE StopPostFree
  BY <1>3 DEF StopPostFree
<1>4. CASE StopPostEvent
  BY <1>4 DEF StopPostEvent
<1>5. CASE JoinThread
  BY <1>5 DEF JoinThread
<1>6. CASE ResetThread
  BY <1>6 DEF ResetThread
<1>7. CASE PushEvent
  BY <1>7 DEF PushEvent
<1>8. CASE AwaitEvent
  BY <1>8 DEF AwaitEvent
<1>9. CASE Grab
  BY <1>9 DEF Grab
<1>10. CASE RunCheckStop
  BY <1>10 DEF RunCheckStop
<1>11. CASE HandleDirectCb
  <2>1. /\ runPc = "handle_cb" /\ runPc' = "finish_cb"
        /\ grabbedCb \in Threads /\ grabbedCb = directCb
        /\ pc[grabbedCb] = "wait_executed"
        /\ \A u \in Threads \ {grabbedCb} : ran'[u] = ran[u]
        /\ ran'[grabbedCb] = outcome'
        /\ UNCHANGED <<pc, result, directCb, cbException, grabbedCb,
                       stopRequested>>
    BY <1>11 DEF HandleDirectCb
  <2>2. ASSUME NEW u \in Threads
        PROVE  CallResultInv(u)'
    BY <2>1
  <2>3. ResultIsOwn'
    BY <2>1
  <2>4. runPc' = "finish_cb" => outcome' = ran'[grabbedCb']
    BY <2>1
  <2> QED
    BY <2>2, <2>3, <2>4
<1>12. CASE FinishDirectCb
  BY <1>12 DEF FinishDirectCb
<1>13. CASE PostExecuted
  BY <1>13 DEF PostExecuted
<1>14. CASE HandleEvent
  BY <1>14 DEF HandleEvent
<1>15. CASE DiscardDirectCb
  BY <1>15 DEF DiscardDirectCb
<1>16. CASE DiscardPost
  BY <1>16 DEF DiscardPost
<1>17. CASE Unload
  BY <1>17 DEF Unload
<1>18. CASE DestroyModule
  BY <1>18 DEF DestroyModule
<1>19. ASSUME NEW t \in Threads, StartCall(t)
      PROVE  (ResultInv /\ ResultIsOwn)'
  BY <1>19 DEF StartCall, BeginCall
<1>20. ASSUME NEW t \in Threads, AcquireFree(t)
      PROVE  (ResultInv /\ ResultIsOwn)'
  BY <1>20 DEF AcquireFree
<1>21. ASSUME NEW t \in Threads, CheckStop(t)
      PROVE  (ResultInv /\ ResultIsOwn)'
  <2>1. /\ pc[t] = "check_stop" /\ pc'[t] \in {"idle", "post", "segfault"}
        /\ ran[t] = "no"
        /\ \/ result'[t] = "none" /\ pc'[t] # "idle"
           \/ result'[t] = "not_available" /\ stopRequested /\ pc'[t] = "idle"
        /\ \A u \in Threads \ {t} : pc'[u] = pc[u]
        /\ \A u \in Threads \ {t} : result'[u] = result[u]
        /\ UNCHANGED <<ran, directCb, cbException, runPc, outcome, grabbedCb,
                       stopRequested>>
    BY <1>21 DEF CheckStop
  <2>2. ASSUME NEW u \in Threads
        PROVE  CallResultInv(u)'
    <3>1. CASE u = t
      BY <2>1, <3>1
    <3>2. CASE u # t
      <4>1. /\ pc'[u] = pc[u] /\ result'[u] = result[u] /\ CallResultInv(u)
            /\ pc[u] \notin {"post", "wait_executed", "read_result"} \/
                   ~OwnsSlot(t)
        BY <2>1, <3>2
      <4> QED
        BY <2>1, <3>2, <4>1
    <3> QED
      BY <3>1, <3>2
  <2>3. ResultIsOwn'
    BY <2>1
  <2>4. runPc' = "finish_cb" => outcome' = ran'[grabbedCb']
    BY <2>1
  <2> QED
    BY <2>2, <2>3, <2>4
<1>22. ASSUME NEW t \in Threads, PostCallback(t)
      PROVE  (ResultInv /\ ResultIsOwn)'
  <2>1. /\ pc[t] = "post" /\ pc'[t] \in {"wait_executed", "segfault"}
        /\ ran[t] = "no" /\ result[t] = "none"
        /\ directCb' = t /\ cbException' = "ok"
        /\ \A u \in Threads \ {t} : pc'[u] = pc[u]
        /\ UNCHANGED <<ran, result, runPc, outcome, grabbedCb, stopRequested>>
    BY <1>22 DEF PostCallback
  <2>2. ASSUME NEW u \in Threads
        PROVE  CallResultInv(u)'
    BY <2>1
  <2>3. ResultIsOwn'
    BY <2>1
  <2>4. runPc' = "finish_cb" => outcome' = ran'[grabbedCb']
    BY <2>1
  <2> QED
    BY <2>2, <2>3, <2>4
<1>23. ASSUME NEW t \in Threads, AwaitExecuted(t)
      PROVE  (ResultInv /\ ResultIsOwn)'
  <2>1. /\ pc[t] = "wait_executed" /\ executedSem > 0
        /\ pc'[t] = "read_result"
        /\ \A u \in Threads \ {t} : pc'[u] = pc[u]
        /\ UNCHANGED <<ran, result, directCb, cbException, runPc, outcome,
                     grabbedCb, stopRequested>>
    BY <1>23 DEF AwaitExecuted
  <2>2. directCb # t /\ result[t] = "none"
    BY <2>1
  <2>3. \/ cbException = ran[t]
        \/ ran[t] = "no" /\ cbException = "ok" /\ stopRequested
    BY <2>1, <2>2
  <2>4. ASSUME NEW u \in Threads
        PROVE  CallResultInv(u)'
    <3>1. CASE u = t
      BY <2>1, <2>2, <2>3, <3>1
    <3>2. CASE u # t
      <4>1. /\ pc'[u] = pc[u] /\ CallResultInv(u)
            /\ pc[u] \notin {"post", "wait_executed", "read_result"}
        BY <2>1, <3>2
      <4> QED
        BY <2>1, <3>2, <4>1
    <3> QED
      BY <3>1, <3>2
  <2>5. ResultIsOwn'
    BY <2>1
  <2> QED
    BY <2>1, <2>4, <2>5
<1>24. ASSUME NEW t \in Threads, ReadResult(t)
      PROVE  (ResultInv /\ ResultIsOwn)'
  <2>1. /\ pc[t] = "read_result" /\ pc'[t] \in {"release", "segfault"}
        /\ result'[t] = cbException /\ cbException' = "ok"
        /\ \A u \in Threads \ {t} : pc'[u] = pc[u]
        /\ \A u \in Threads \ {t} : result'[u] = result[u]
        /\ UNCHANGED <<ran, directCb, runPc, outcome, grabbedCb,
                       stopRequested>>
    BY <1>24 DEF ReadResult
  <2>2. ASSUME NEW u \in Threads
        PROVE  CallResultInv(u)'
    <3>1. CASE u = t
      BY <2>1, <3>1
    <3>2. CASE u # t
      <4>1. /\ pc'[u] = pc[u] /\ result'[u] = result[u] /\ CallResultInv(u)
            /\ pc[u] \notin {"post", "wait_executed", "read_result"} \/
                   ~OwnsSlot(t)
        BY <2>1, <3>2
      <4> QED
        BY <2>1, <3>2, <4>1
    <3> QED
      BY <3>1, <3>2
  <2>3. ResultIsOwn'
    BY <2>1
  <2>4. runPc' = "finish_cb" => outcome' = ran'[grabbedCb']
    BY <2>1
  <2> QED
    BY <2>2, <2>3, <2>4
<1>25. ASSUME NEW t \in Threads, ReleaseSlot(t)
      PROVE  (ResultInv /\ ResultIsOwn)'
  BY <1>25 DEF ReleaseSlot
<1> QED
  BY <1>1, <1>2, <1>3, <1>4, <1>5, <1>6, <1>7, <1>8, <1>9, <1>10, <1>11,
     <1>12, <1>13, <1>14, <1>15, <1>16, <1>17, <1>18, <1>19, <1>20, <1>21,
     <1>22, <1>23, <1>24, <1>25
  DEF Next, StopStep, RunStep, CallStep

-----------------------------------------------------------------------------
LEMMA InitIInv == Init => IInv
<1> SUFFICES ASSUME Init PROVE IInv
  OBVIOUS
<1> USE DEF Init, Outcomes, CallSteps, LifeSteps, RunSteps
<1>0. /\ pc \in [Threads -> {"start", "idle"}] /\ pc[Main] = "start"
      /\ \A t \in Callers : pc[t] = "idle"
  OBVIOUS
<1>1. TypeOK
  <2>1. eventQueue \in Seq(Nat)
    OBVIOUS
  <2>2. pc \in [Threads -> {"idle", "segfault"} \cup CallSteps \cup LifeSteps]
    BY <1>0
  <2> QED
    BY <2>1, <2>2 DEF TypeOK
<1>2. LifeInv
  BY <1>0 DEF LifeInv, OwnsSlot, Alive
<1>3. SlotInv
  BY DEF SlotInv, SlotExclusion, OwnsSlot, HoldsToken
<1>4. HandshakeInv
  <2>1. \A t \in Threads : pc[t] # "wait_executed"
    BY <1>0
  <2>2. /\ directCb = None /\ grabbedCb = None
        /\ executedSem = 0 /\ runPc = "unborn"
    OBVIOUS
  <2> HIDE DEF Init
  <2> QED
    BY <2>1, <2>2 DEF HandshakeInv, Completing
<1>5. WakeInv /\ NoSpuriousWake
  BY DEF WakeInv, NoSpuriousWake, CbToPickUp, StopToNotice, WakeTaken
<1>6. QueueInv
  BY DEF QueueInv, EventInHand, EventsInHand
<1>7. ResultInv /\ ResultIsOwn
  BY DEF ResultInv, CallResultInv, ResultIsOwn
<1> QED
  BY <1>1, <1>2, <1>3, <1>4, <1>5, <1>6, <1>7 DEF IInv

LEMMA NextIInv == IInv /\ [Next]_vars => IInv'
<1> SUFFICES ASSUME IInv, [Next]_vars PROVE IInv'
  OBVIOUS
<1>1. CASE Next
  <2>1. Alive
    BY <1>1 DEF Next
  <2> QED
    BY <1>1, <2>1, TypeStep, LifeStep, SlotStep, HandshakeStep, WakeStep,
       QueueStep, ResultStep
    DEF IInv
<1>2. CASE UNCHANGED vars
  <2>1. TypeOK' /\ LifeInv' /\ SlotInv'
    BY <1>2 DEF IInv, TypeOK, LifeInv, Alive, SlotInv, SlotExclusion, OwnsSlot,
                HoldsToken
  <2>2. HandshakeInv' /\ WakeInv' /\ NoSpuriousWake'
    BY <1>2 DEF IInv, HandshakeInv, Completing, WakeInv, InLoop, FoundNothing,
                PickedUp, CbToPickUp, StopToNotice, WakeTaken, NoSpuriousWake
  <2>3. QueueInv' /\ ResultInv' /\ ResultIsOwn'
    BY <1>2 DEF IInv, QueueInv, InLoop, EventInHand, EventsInHand, ResultInv,
                CallResultInv, ResultIsOwn
  <2> QED
    BY <2>1, <2>2, <2>3 DEF IInv
<1> QED
  BY <1>1, <1>2

\* The inductive invariant holds in every state of every behaviour.
THEOREM Invariance == Spec => []IInv
<1> QED
  BY InitIInv, NextIInv, PTL DEF Spec

\* Every variable keeps its type, the two semaphores that are waited on before
\* they are decremented included.
THEOREM TypeCorrect == Spec => []TypeOK
<1>1. IInv => TypeOK
  BY DEF IInv
<1> QED
  BY <1>1, Invariance, PTL

\* direct_cb and its result belong to one caller at a time, although
\* thread_request_stop() posts direct_cb_free_sem once too often.
THEOREM OneCallerAtATime == Spec => []SlotExclusion
<1>1. IInv => SlotExclusion
  BY DEF IInv, SlotInv
<1> QED
  BY <1>1, Invariance, PTL

\* A callback is executed only while the caller whose stack it uses waits.
THEOREM CallbackHasItsCaller == Spec => []CallerWaitsWhileRun
<1>1. IInv => CallerWaitsWhileRun
  BY DEF IInv, TypeOK, LifeInv, HandshakeInv, Alive, CallerWaitsWhileRun
<1> QED
  BY <1>1, Invariance, PTL

\* event_queue_sem never wakes the module's thread for nothing.
THEOREM WakesForWork == Spec => []NoSpuriousWake
<1>1. IInv => NoSpuriousWake
  BY DEF IInv
<1> QED
  BY <1>1, Invariance, PTL

\* No call is told the outcome of another's callback, however calls, events
\* and a stop interleave.
THEOREM ResultsReachTheirCallers == Spec => []ResultIsOwn
<1>1. IInv => ResultIsOwn
  BY DEF IInv
<1> QED
  BY <1>1, Invariance, PTL

\* Events are handled in the order they were pushed and none is skipped.
THEOREM EventsKeepTheirOrder == Spec => EventsInOrder
<1>1. ASSUME IInv, [Next]_vars
      PROVE  [handled' # handled => handled' = handled + 1]_vars
  <2>1. CASE HandleEvent
    BY <1>1, <2>1 DEF IInv, QueueInv, EventInHand, HandleEvent
  <2>2. CASE ~HandleEvent
    <3>1. handled' = handled
      BY <1>1, <2>2
      DEF Next, StartModule, RequestStop, StopStep, StopPostFree,
          StopPostEvent, JoinThread, ResetThread, PushEvent, RunStep,
          AwaitEvent, Grab, RunCheckStop, HandleDirectCb, FinishDirectCb,
          PostExecuted, DiscardDirectCb, DiscardPost, Unload, DestroyModule,
          StartCall, CallStep, AcquireFree, CheckStop, PostCallback,
          AwaitExecuted, ReadResult, ReleaseSlot, BeginCall
    <3> QED
      BY <3>1
  <2> QED
    BY <2>1, <2>2
<1> QED
  BY <1>1, Invariance, PTL DEF Spec, EventsInOrder
-----------------------------------------------------------------------------
(* Refinement of ModuleCalls *)

LEMMA CallsInit == Init => Calls!Init
<1> SUFFICES ASSUME Init PROVE Calls!Init
  OBVIOUS
<1>1. \A t \in Threads : ~InCall(t)
  BY DEF Init, InCall, CallSteps
<1>2. CallState = [t \in Threads |-> "idle"]
  BY <1>1 DEF CallState
<1> QED
  BY <1>2 DEF Init, Calls!Init

\* A step that changes no call leaves the abstract state of all calls alone.
LEMMA CallStateUnchanged ==
  ASSUME UNCHANGED <<pc, ran, result>>
  PROVE  CallState' = CallState
BY DEF CallState, InCall

\* A step of one thread's call changes the abstract state of that call only.
LEMMA CallStateOf ==
  ASSUME NEW t \in Threads, NEW s,
         \A u \in Threads \ {t} : /\ pc'[u] = pc[u] /\ ran'[u] = ran[u]
                                  /\ result'[u] = result[u],
         s = IF ~InCall(t)' THEN "idle"
             ELSE IF ran'[t] = "no" THEN "called" ELSE "executed"
  PROVE  CallState' = [CallState EXCEPT ![t] = s]
<1>1. \A u \in Threads \ {t} : InCall(u)' <=> InCall(u)
  BY DEF InCall
<1>2. \A u \in Threads \ {t} : CallState'[u] = CallState[u]
  BY <1>1 DEF CallState
<1>3. CallState'[t] = s
  BY DEF CallState
<1> QED
  BY <1>2, <1>3 DEF CallState

LEMMA CallStateSame ==
  ASSUME \A u \in Threads : InCall(u)' <=> InCall(u), ran' = ran
  PROVE  CallState' = CallState
BY DEF CallState

\* Every step of the container is a step of ModuleCalls or none of its.
LEMMA RefineStep ==
  ASSUME IInv, Next
  PROVE  Calls!Next \/ UNCHANGED Calls!vars
<1>0. Alive /\ TypeOK
  BY DEF Next, IInv
<1> USE DEF Calls!Next, Calls!vars
<1>1. CASE StartModule
  <2>1. /\ pc[Main] = "start" /\ pc'[Main] = "wait_free"
        /\ ran' = [ran EXCEPT ![Main] = "no"]
        /\ result' = [result EXCEPT ![Main] = "none"]
        /\ \A u \in Threads \ {Main} : pc'[u] = pc[u] /\ ran'[u] = ran[u]
                                       /\ result'[u] = result[u]
        /\ UNCHANGED <<stopRequested, pushed, handled>>
    BY <1>0, <1>1 DEF StartModule, BeginCall, TypeOK
  <2>2. CallState[Main] = "idle"
    BY <2>1 DEF CallState, InCall, CallSteps
  <2>3. InCall(Main)' /\ ran'[Main] = "no"
    BY <1>0, <2>1 DEF InCall, CallSteps, TypeOK
  <2>4. CallState' = [CallState EXCEPT ![Main] = "called"]
    BY <2>1, <2>3, CallStateOf
  <2> QED
    BY <2>1, <2>2, <2>4 DEF Calls!Call
<1>2. ASSUME NEW t \in Threads, StartCall(t)
      PROVE  Calls!Next
  <2>1. /\ pc[t] = "idle" /\ pc'[t] = "wait_free"
        /\ ran' = [ran EXCEPT ![t] = "no"]
        /\ result' = [result EXCEPT ![t] = "none"]
        /\ \A u \in Threads \ {t} : pc'[u] = pc[u] /\ ran'[u] = ran[u]
                                    /\ result'[u] = result[u]
        /\ UNCHANGED <<stopRequested, pushed, handled>>
    BY <1>0, <1>2 DEF StartCall, BeginCall, TypeOK
  <2>2. CallState[t] = "idle"
    BY <2>1 DEF CallState, InCall, CallSteps
  <2>3. InCall(t)' /\ ran'[t] = "no"
    BY <1>0, <2>1 DEF InCall, CallSteps, TypeOK
  <2>4. CallState' = [CallState EXCEPT ![t] = "called"]
    BY <2>1, <2>3, CallStateOf
  <2> QED
    BY <2>1, <2>2, <2>4 DEF Calls!Call
<1>3. ASSUME NEW t \in Threads, CheckStop(t), pc'[t] = "idle"
      PROVE  Calls!Next
  <2>1. /\ pc[t] = "check_stop" /\ stopRequested
        /\ ran' = ran /\ ran[t] = "no"
        /\ result' = [result EXCEPT ![t] = "not_available"]
        /\ \A u \in Threads \ {t} : pc'[u] = pc[u] /\ result'[u] = result[u]
        /\ UNCHANGED <<stopRequested, pushed, handled>>
    BY <1>0, <1>3 DEF CheckStop, TypeOK, IInv, ResultInv, CallResultInv
  <2>2. CallState[t] = "called"
    BY <2>1 DEF CallState, InCall, CallSteps
  <2>3. ~InCall(t)'
    BY <1>3 DEF InCall, CallSteps
  <2>4. CallState' = [CallState EXCEPT ![t] = "idle"]
    BY <2>1, <2>3, CallStateOf
  <2> QED
    BY <2>1, <2>2, <2>4 DEF Calls!Refuse
<1>4. ASSUME NEW t \in Threads, CheckStop(t), pc'[t] # "idle"
      PROVE  UNCHANGED Calls!vars
  <2>1. /\ pc[t] = "check_stop" /\ pc'[t] \in {"post", "segfault"}
        /\ result[t] = "none"
        /\ \A u \in Threads \ {t} : pc'[u] = pc[u]
        /\ UNCHANGED <<ran, result, stopRequested, pushed, handled>>
    BY <1>0, <1>4
    DEF CheckStop, TypeOK, IInv, ResultInv, CallResultInv, CallSteps
  <2>2. \A u \in Threads : InCall(u)' <=> InCall(u)
    BY <2>1 DEF InCall, CallSteps
  <2> QED
    BY <2>1, <2>2, CallStateSame
<1>5. ASSUME NEW t \in Threads,
             AcquireFree(t) \/ PostCallback(t) \/ AwaitExecuted(t) \/ ReleaseSlot(t)
      PROVE  UNCHANGED Calls!vars
  <2>1. /\ \/ pc[t] = "wait_free" /\ pc'[t] = "check_stop"
           \/ pc[t] = "post" /\ pc'[t] \in {"wait_executed", "segfault"}
           \/ pc[t] = "wait_executed" /\ pc'[t] = "read_result"
           \/ pc[t] = "release" /\ pc'[t] = "idle"
        /\ \A u \in Threads \ {t} : pc'[u] = pc[u]
        /\ UNCHANGED <<ran, result, stopRequested, pushed, handled>>
    BY <1>0, <1>5
    DEF AcquireFree, PostCallback, AwaitExecuted, ReleaseSlot, TypeOK
  <2>2. pc[t] = "post" => result[t] = "none"
    BY DEF IInv, ResultInv, CallResultInv, CallSteps
  <2>3. \A u \in Threads : InCall(u)' <=> InCall(u)
    BY <2>1, <2>2 DEF InCall, CallSteps
  <2> QED
    BY <2>1, <2>3, CallStateSame
<1>6. ASSUME NEW t \in Threads, ReadResult(t)
      PROVE  Calls!Next
  <2>1. /\ pc[t] = "read_result" /\ pc'[t] \in {"release", "segfault"}
        /\ result' = [result EXCEPT ![t] = cbException]
        /\ \A u \in Threads \ {t} : pc'[u] = pc[u] /\ result'[u] = result[u]
        /\ UNCHANGED <<ran, stopRequested, pushed, handled>>
        /\ result'[t] = cbException
    BY <1>0, <1>6 DEF ReadResult, TypeOK
  <2>2. \/ cbException = ran[t]
        \/ ran[t] = "no" /\ cbException = "ok" /\ stopRequested
    BY <2>1 DEF IInv, ResultInv, CallResultInv
  <2>3. cbException \in {"ok", "throw"}
    BY <1>0 DEF TypeOK, Outcomes
  <2>4. ~InCall(t)'
    BY <2>1, <2>3 DEF InCall, CallSteps
  <2>5. CallState' = [CallState EXCEPT ![t] = "idle"]
    BY <2>1, <2>4, CallStateOf
  <2>6. CallState[t] = IF ran[t] = "no" THEN "called" ELSE "executed"
    BY <2>1 DEF CallState, InCall, CallSteps
  <2>7. CASE cbException = ran[t]
    <3>1. CallState[t] = "executed"
      BY <2>3, <2>6, <2>7
    <3> QED
      BY <2>1, <2>5, <2>7, <3>1 DEF Calls!Return
  <2>8. CASE ran[t] = "no" /\ cbException = "ok" /\ stopRequested
    BY <2>1, <2>5, <2>6, <2>8 DEF Calls!Refuse
  <2> QED
    BY <2>2, <2>7, <2>8
<1>7. CASE HandleDirectCb
  <2>1. PICK t \in Threads : t = grabbedCb
    BY <1>0, <1>7 DEF HandleDirectCb, IInv, TypeOK, HandshakeInv
  <2>2. pc[t] = "wait_executed" /\ ran[t] = "no"
    BY <1>0, <1>7, <2>1
    DEF HandleDirectCb, IInv, HandshakeInv, ResultInv, CallResultInv, Alive
  <2>3. PICK o \in Outcomes : ran' = [ran EXCEPT ![t] = o]
    BY <1>7, <2>1 DEF HandleDirectCb
  <2>4. /\ UNCHANGED <<pc, result, stopRequested, pushed, handled>>
        /\ \A u \in Threads \ {t} : ran'[u] = ran[u]
        /\ ran'[t] # "no"
    BY <1>0, <1>7, <2>3 DEF HandleDirectCb, TypeOK, Outcomes
  <2>5. InCall(t) /\ InCall(t)'
    BY <2>2, <2>4 DEF InCall, CallSteps
  <2>6. CallState[t] = "called"
    BY <2>2, <2>5 DEF CallState
  <2>7. CallState' = [CallState EXCEPT ![t] = "executed"]
    BY <2>4, <2>5, CallStateOf
  <2> QED
    BY <2>3, <2>4, <2>6, <2>7 DEF Calls!Execute, Outcomes
<1>8. CASE RequestStop
  <2>1. /\ pc[Main] = "idle" /\ pc'[Main] = "stop_post_free"
        /\ \A u \in Threads \ {Main} : pc'[u] = pc[u]
        /\ ~stopRequested /\ stopRequested' = TRUE
        /\ UNCHANGED <<ran, result, pushed, handled>>
    BY <1>0, <1>8 DEF RequestStop, TypeOK, IInv, LifeInv, LifeSteps
  <2>2. \A u \in Threads : InCall(u)' <=> InCall(u)
    BY <2>1 DEF InCall, CallSteps
  <2> QED
    BY <2>1, <2>2, CallStateSame DEF Calls!Close
<1>9. CASE StopStep
  <2>1. /\ pc[Main] \in LifeSteps /\ pc'[Main] \in LifeSteps
        /\ \A u \in Threads \ {Main} : pc'[u] = pc[u]
        /\ UNCHANGED <<ran, result, stopRequested, pushed, handled>>
    BY <1>0, <1>9 DEF StopStep, StopPostFree, StopPostEvent, JoinThread,
                      ResetThread, TypeOK, LifeSteps
  <2>2. \A u \in Threads : InCall(u)' <=> InCall(u)
    BY <2>1 DEF InCall, CallSteps, LifeSteps
  <2> QED
    BY <2>1, <2>2, CallStateSame
<1>10. CASE PushEvent
  BY <1>10, CallStateUnchanged DEF PushEvent, Calls!Send
<1>11. CASE HandleEvent
  <2>1. handled < pushed /\ handled' = handled + 1
    BY <1>0, <1>11 DEF HandleEvent, IInv, QueueInv, EventInHand, EventsInHand,
                       InLoop, TypeOK
  <2> QED
    BY <1>11, <2>1, CallStateUnchanged DEF HandleEvent, Calls!See
<1>12. CASE RunStep /\ ~HandleDirectCb /\ ~HandleEvent
  BY <1>12, CallStateUnchanged
  DEF RunStep, AwaitEvent, Grab, RunCheckStop, FinishDirectCb, PostExecuted,
      DiscardDirectCb, DiscardPost, Unload, DestroyModule
<1> QED
  BY <1>1, <1>2, <1>3, <1>4, <1>5, <1>6, <1>7, <1>8, <1>9, <1>10, <1>11,
     <1>12
  DEF Next, CallStep

\* The container implements ModuleCalls, for any callers and bounds.
THEOREM Refinement == Spec => ImplementsModuleCalls
<1>1. IInv /\ [Next]_vars => [Calls!Next]_Calls!vars
  <2> SUFFICES ASSUME IInv, [Next]_vars PROVE [Calls!Next]_Calls!vars
    OBVIOUS
  <2>1. CASE Next
    BY <2>1, RefineStep
  <2>2. CASE UNCHANGED vars
    BY <2>2, CallStateUnchanged DEF Calls!vars
  <2> QED
    BY <2>1, <2>2
<1> QED
  BY <1>1, CallsInit, Invariance, PTL DEF Spec, Calls!Spec, ImplementsModuleCalls

-----------------------------------------------------------------------------
(* ModuleAccess: the dependency search *)

USE NoModuleAssumption, DepsAssumption, AccessBoundsAssumption
USE DEF accessVars, chainVars

\* A module depends on what its dependencies depend on, and on nothing else.
LEMMA DependencyUnfolds ==
  ASSUME NEW x \in Modules, NEW c \in Modules, IsDependency(x, c)
  PROVE  c \in Deps[x] \/ \E y \in Deps[x] : IsDependency(y, c)
<1> DEFINE T == Deps[x] \cup
                  {z \in Modules : \E y \in Deps[x] : IsDependency(y, z)}
<1>1. T \in SUBSET Modules
  OBVIOUS
<1>2. ASSUME NEW z \in T, NEW w \in Deps[z]
      PROVE  w \in T
  <2>1. z \in Modules /\ w \in Modules
    BY <1>1, <1>2
  <2>2. CASE z \in Deps[x]
    <3>1. IsDependency(z, w)
      BY <1>2 DEF IsDependency
    <3> QED BY <2>1, <2>2, <3>1
  <2>3. ASSUME NEW y \in Deps[x], IsDependency(y, z)
        PROVE  w \in T
    <3>1. IsDependency(y, w)
      <4>1. SUFFICES ASSUME NEW S \in SUBSET Modules,
                            Deps[y] \subseteq S, ClosedUnderDeps(S)
                     PROVE  w \in S
        BY DEF IsDependency
      <4>2. z \in S
        BY <2>3, <4>1 DEF IsDependency
      <4> QED BY <1>2, <4>1, <4>2 DEF ClosedUnderDeps
    <3> QED BY <2>1, <2>3, <3>1
  <2> QED BY <1>2, <2>2, <2>3
<1>3. ClosedUnderDeps(T) /\ Deps[x] \subseteq T
  BY <1>2 DEF ClosedUnderDeps
<1>4. c \in T
  BY <1>1, <1>3 DEF IsDependency
<1> QED BY <1>4

\* The search finds no circle where the declared dependencies have none.
LEMMA NoDependencyCycle ==
  ASSUME NEW S \in SUBSET Modules, S # {},
         \A m \in S : \E n \in S : IsDependency(m, n)
  PROVE  FALSE
<1> DEFINE D == {x \in Modules : \E c \in S : IsDependency(x, c)}
<1>1. D \in SUBSET Modules /\ D # {} /\ S \subseteq D
  OBVIOUS
<1>2. PICK x \in D : Deps[x] \cap D = {}
  BY <1>1, DepsAcyclic
<1>3. PICK c \in S : IsDependency(x, c)
  BY <1>2
<1>4. x \in Modules /\ c \in Modules /\ c \in D
  BY <1>1, <1>2, <1>3
<1>5. CASE c \in Deps[x]
  BY <1>2, <1>4, <1>5
<1>6. ASSUME NEW y \in Deps[x], IsDependency(y, c)
      PROVE  FALSE
  <2>1. y \in Modules
    BY <1>4
  <2>2. y \in D
    BY <2>1, <1>3, <1>6
  <2> QED BY <1>2, <2>2
<1> QED BY <1>3, <1>4, <1>5, <1>6, DependencyUnfolds

-----------------------------------------------------------------------------
(* Its inductive invariant *)

\* An answered caller still owns the slot it waits on, and a callback that
\* runs has not been answered.
AnswerInv ==
  /\ \A m \in Modules :
       answer[m] # "none" => waiting[m] # NoModule /\ slotOwner[waiting[m]] = m
  /\ \A n \in Modules :
       running[n] = "callback" => answer[caller[n]] = "none"

\* A module waits only where the check let it in.
AccessInv ==
  \A m \in Modules :
    waiting[m] # NoModule =>
      waiting[m] \in Accesses[m] /\ ValidAccess(waiting[m], m)

AccessIInv == AccessTypeOK /\ CallersWait /\ AnswerInv /\ AccessInv

LEMMA InitAccessIInv == AccessInit => AccessIInv
<1> SUFFICES ASSUME AccessInit PROVE AccessIInv
  OBVIOUS
<1>1. AccessTypeOK
  BY DEF AccessInit, AccessTypeOK
<1>2. CallersWait /\ AnswerInv
  BY DEF AccessInit, CallersWait, AnswerInv
<1>3. AccessInv
  BY DEF AccessInit, AccessInv
<1> QED BY <1>1, <1>2, <1>3 DEF AccessIInv

\* Every step of a module keeps every type.
LEMMA AccessTypeStep == AccessTypeOK /\ [AccessNext]_accessVars => AccessTypeOK'
<1> SUFFICES ASSUME AccessTypeOK, [AccessNext]_accessVars PROVE AccessTypeOK'
  OBVIOUS
<1>1. ASSUME NEW m \in Modules, StartEvent(m) PROVE AccessTypeOK'
  BY <1>1 DEF AccessTypeOK, StartEvent
<1>2. ASSUME NEW m \in Modules, AcquireSlot(m) PROVE AccessTypeOK'
  BY <1>2 DEF AccessTypeOK, AcquireSlot
<1>3. ASSUME NEW m \in Modules, RunCallback(m) PROVE AccessTypeOK'
  BY <1>3 DEF AccessTypeOK, RunCallback
<1>4. ASSUME NEW m \in Modules, FinishCallback(m) PROVE AccessTypeOK'
  BY <1>4 DEF AccessTypeOK, FinishCallback
<1>5. ASSUME NEW m \in Modules, FinishEvent(m) PROVE AccessTypeOK'
  BY <1>5 DEF AccessTypeOK, FinishEvent
<1>6. ASSUME NEW m \in Modules, Return(m) PROVE AccessTypeOK'
  BY <1>6 DEF AccessTypeOK, Return
<1>7. ASSUME NEW m \in Modules, HandlerThrows(m) PROVE AccessTypeOK'
  BY <1>7 DEF AccessTypeOK, HandlerThrows
<1>8. ASSUME NEW m \in Modules, NEW n \in Modules, Access(m, n) PROVE AccessTypeOK'
  BY <1>8 DEF AccessTypeOK, Access
<1>9. ASSUME NEW m \in Modules, NEW n \in Modules, RejectAccess(m, n)
      PROVE AccessTypeOK'
  BY <1>9 DEF AccessTypeOK, RejectAccess
<1>10. CASE UNCHANGED accessVars
  BY <1>10 DEF AccessTypeOK
<1> QED
  BY <1>1, <1>2, <1>3, <1>4, <1>5, <1>6, <1>7, <1>8, <1>9, <1>10
  DEF AccessNext, Step, Finish, Done

\* A caller named by a thread stays blocked on it until its call returns.
LEMMA ChainStep ==
  AccessTypeOK /\ CallersWait /\ AnswerInv /\ [AccessNext]_accessVars => (CallersWait /\ AnswerInv)'
<1> SUFFICES ASSUME AccessTypeOK, CallersWait, AnswerInv, [AccessNext]_accessVars
             PROVE  (CallersWait /\ AnswerInv)'
  OBVIOUS
<1> USE DEF AccessTypeOK, CallersWait, AnswerInv
<1>1. ASSUME NEW m \in Modules, StartEvent(m) PROVE (CallersWait /\ AnswerInv)'
  BY <1>1 DEF StartEvent
<1>2. ASSUME NEW m \in Modules, AcquireSlot(m) PROVE (CallersWait /\ AnswerInv)'
  BY <1>2 DEF AcquireSlot
<1>3. ASSUME NEW m \in Modules, RunCallback(m) PROVE (CallersWait /\ AnswerInv)'
  BY <1>3 DEF RunCallback, Posted
<1>4. ASSUME NEW m \in Modules, FinishCallback(m)
      PROVE (CallersWait /\ AnswerInv)'
  BY <1>4 DEF FinishCallback
<1>5. ASSUME NEW m \in Modules, FinishEvent(m) PROVE (CallersWait /\ AnswerInv)'
  BY <1>5 DEF FinishEvent
<1>6. ASSUME NEW m \in Modules, Return(m) PROVE (CallersWait /\ AnswerInv)'
  BY <1>6 DEF Return
<1>7. ASSUME NEW m \in Modules, HandlerThrows(m)
      PROVE (CallersWait /\ AnswerInv)'
  BY <1>7 DEF HandlerThrows
<1>8. ASSUME NEW m \in Modules, NEW n \in Modules, Access(m, n)
      PROVE (CallersWait /\ AnswerInv)'
  BY <1>8 DEF Access, Busy
<1>9. ASSUME NEW m \in Modules, NEW n \in Modules, RejectAccess(m, n)
      PROVE (CallersWait /\ AnswerInv)'
  BY <1>9 DEF RejectAccess
<1>10. CASE UNCHANGED accessVars
  BY <1>10
<1> QED
  BY <1>1, <1>2, <1>3, <1>4, <1>5, <1>6, <1>7, <1>8, <1>9, <1>10
  DEF AccessNext, Step, Finish, Done

\* Only Access begins a wait, and Access has made the check.
LEMMA AccessStep == AccessTypeOK /\ AccessInv /\ [AccessNext]_accessVars => AccessInv'
<1> SUFFICES ASSUME AccessTypeOK, AccessInv, [AccessNext]_accessVars PROVE AccessInv'
  OBVIOUS
<1> USE DEF AccessTypeOK, AccessInv
<1>1. ASSUME NEW m \in Modules, Return(m) PROVE AccessInv'
  BY <1>1 DEF Return
<1>2. ASSUME NEW m \in Modules, NEW n \in Modules, Access(m, n) PROVE AccessInv'
  BY <1>2 DEF Access
<1>3. ASSUME UNCHANGED waiting PROVE AccessInv'
  BY <1>3
<1> QED
  BY <1>1, <1>2, <1>3
  DEF AccessNext, Step, Finish, Done, StartEvent, AcquireSlot, RunCallback,
      FinishCallback, FinishEvent, HandlerThrows, RejectAccess

THEOREM AccessInvariance == AccessSpec => []AccessIInv
<1>1. AccessIInv /\ [AccessNext]_accessVars => AccessIInv'
  BY AccessTypeStep, ChainStep, AccessStep DEF AccessIInv
<1> QED BY InitAccessIInv, <1>1, PTL DEF AccessSpec

-----------------------------------------------------------------------------
(* What follows from it *)

\* Every variable keeps its type, for any modules and bounds.
THEOREM AccessTypeCorrect == AccessSpec => []AccessTypeOK
<1>1. AccessIInv => AccessTypeOK
  BY DEF AccessIInv
<1> QED BY AccessInvariance, <1>1, PTL

\* Whoever a thread names as its caller is blocked on that thread, so
\* access_module() may follow the pointers along the chain.
THEOREM ChainIsBlocked == AccessSpec => []CallersWait
<1>1. AccessIInv => CallersWait
  BY DEF AccessIInv
<1> QED BY AccessInvariance, <1>1, PTL

\* Where every access is between modules of which one declares the other,
\* directly or not, blocked threads never close a circle: each waits for a
\* module it depends on, and the dependencies have no circle.
THEOREM NoCircleOfWaiting ==
  ASSUME DependenciesDeclared
  PROVE  AccessSpec => []NoWaitCycle
<1>1. AccessIInv => NoWaitCycle
  <2> SUFFICES ASSUME AccessIInv,
                      NEW S \in SUBSET Modules, S # {},
                      \A m \in S : waiting[m] \in S
               PROVE  FALSE
    BY DEF NoWaitCycle
  <2>1. ASSUME NEW m \in S
        PROVE  IsDependency(m, waiting[m])
    <3>1. waiting[m] \in Modules /\ waiting[m] # NoModule
      OBVIOUS
    <3>2. waiting[m] \in Accesses[m] /\ ValidAccess(waiting[m], m)
      BY <3>1 DEF AccessIInv, AccessInv
    <3> QED BY <3>1, <3>2 DEF DependenciesDeclared, ValidAccess
  <2> QED BY <2>1, NoDependencyCycle
<1> QED BY AccessInvariance, <1>1, PTL
=============================================================================
