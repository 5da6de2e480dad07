---------------------------- MODULE ThreadPool ----------------------------
(***************************************************************************)
(* The thread pool of src/src/impl/thread_pool.cpp: worker threads execute *)
(* tasks, and the main thread hands them in and later finishes them.       *)
(*                                                                         *)
(* Main is the client's main thread: it starts the pool, adds tasks, calls *)
(* run_post() once a frame, and in the end deletes the pool.  Between two  *)
(* steps of a thread the others may do anything that m_mutex allows.       *)
(***************************************************************************)
EXTENDS Integers, Sequences, FiniteSets

CONSTANTS
  Workers,    \* the pool's threads
  None,       \* nullptr
  MaxTasks,   \* bound: tasks added; a task's name is its number
  MaxPosts    \* bound: calls of post() before it returns true

ASSUME WorkersAssumption == IsFiniteSet(Workers)

ASSUME BoundsAssumption == MaxTasks \in Nat /\ MaxPosts \in Nat \ {0}

ASSUME NoneAssumption == None \notin Nat

Tasks == 1..MaxTasks

VARIABLES
  mainPc,         \* where Main is
  workerPc,       \* where each worker is
  current,        \* the task each worker holds
  inputQueue,     \* m_input_queue
  outputQueue,    \* m_output_queue
  tasksSem,       \* m_tasks_sem
  stopRequested,  \* stop_requested of the threads, set together
  posting,        \* the task whose post() run_post() calls
  posts,          \* calls made of each task's post()
  added,          \* tasks added so far
  dropped,        \* history: tasks request_stop() removed
  executed,       \* history: tasks whose threaded part ended, in order
  posted          \* history: tasks whose post() returned true, in order

queueVars == <<inputQueue, outputQueue, tasksSem>>
postVars == <<posting, posts>>
historyVars == <<dropped, executed, posted>>
vars == <<mainPc, workerPc, current, queueVars, stopRequested, postVars, added,
          historyVars>>

TypeOK ==
  /\ mainPc \in {"new", "frame", "popped", "join", "done"}
  /\ workerPc \in [Workers -> {"unborn", "wait", "grab", "run", "exited"}]
  /\ current \in [Workers -> Tasks \cup {None}]
  /\ inputQueue \in Seq(Tasks)
  /\ outputQueue \in Seq(Tasks)
  /\ tasksSem \in Nat
  /\ stopRequested \in BOOLEAN
  /\ posting \in Tasks \cup {None}
  /\ posts \in [Tasks -> 0..MaxPosts]
  /\ added \in 0..MaxTasks
  /\ dropped \in SUBSET Tasks
  /\ executed \in Seq(Tasks)
  /\ posted \in Seq(Tasks)

Init ==
  /\ mainPc = "new"
  /\ workerPc = [w \in Workers |-> "unborn"]
  /\ current = [w \in Workers |-> None]
  /\ inputQueue = <<>> /\ outputQueue = <<>>
  /\ tasksSem = 0
  /\ stopRequested = FALSE
  /\ posting = None
  /\ posts = [t \in Tasks |-> 0]
  /\ added = 0
  /\ dropped = {}
  /\ executed = <<>> /\ posted = <<>>

Elements(s) == {s[i] : i \in 1..Len(s)}

\* Workers that took a token of m_tasks_sem and have not looked at the queue.
AtQueue == {w \in Workers : workerPc[w] = "grab"}
Alive == {w \in Workers : workerPc[w] # "exited"}

-----------------------------------------------------------------------------
(* Seeded faults *)

\* A task whose threaded part throws is not handed on.
RunTask_ThrowLost(w) ==
  /\ workerPc[w] = "run"
  /\ \E thrown \in BOOLEAN :
       /\ outputQueue' = IF thrown THEN outputQueue
                                   ELSE Append(outputQueue, current[w])
       /\ executed' = Append(executed, current[w])
  /\ current' = [current EXCEPT ![w] = None]
  /\ workerPc' = [workerPc EXCEPT ![w] = "wait"]
  /\ UNCHANGED <<mainPc, inputQueue, tasksSem, stopRequested, postVars, added,
                 dropped, posted>>

\* A task that is not done goes to the back of the output queue.
CallPost_ToBack ==
  /\ mainPc = "popped"
  /\ \E done, overtime \in BOOLEAN :
       /\ posts[posting] + 1 = MaxPosts => done
       /\ done \/ overtime
       /\ mainPc' = "frame"
       /\ posted' = IF done THEN Append(posted, posting) ELSE posted
       /\ outputQueue' = IF done THEN outputQueue
                                 ELSE Append(outputQueue, posting)
  /\ posts' = [posts EXCEPT ![posting] = @ + 1]
  /\ posting' = None
  /\ UNCHANGED <<workerPc, current, inputQueue, tasksSem, stopRequested, added,
                 dropped, executed>>

\* The queue is filled and nobody is woken while tasks are waiting already.
AddTask_PostIfEmpty ==
  /\ mainPc = "frame" /\ added < MaxTasks
  /\ added' = added + 1
  /\ inputQueue' = Append(inputQueue, added + 1)
  /\ tasksSem' = IF inputQueue = <<>> THEN tasksSem + 1 ELSE tasksSem
  /\ UNCHANGED <<mainPc, workerPc, current, outputQueue, stopRequested,
                 postVars, historyVars>>

-----------------------------------------------------------------------------
(* Main *)

\* start(), in the constructor of the client.
Start ==
  /\ mainPc = "new"
  /\ mainPc' = "frame"
  /\ workerPc' = [w \in Workers |-> "wait"]
  /\ UNCHANGED <<current, queueVars, stopRequested, postVars, added,
                 historyVars>>

\* add_task(); pre() is called until it returns true before m_mutex is locked.
AddTask ==
  /\ mainPc = "frame" /\ added < MaxTasks
  /\ added' = added + 1
  /\ inputQueue' = Append(inputQueue, added + 1)
  /\ tasksSem' = tasksSem + 1
  /\ UNCHANGED <<mainPc, workerPc, current, outputQueue, stopRequested,
                 postVars, historyVars>>

\* run_post() pops an output task, or ends if there is none.
PopOutput ==
  /\ mainPc = "frame" /\ outputQueue # <<>>
  /\ mainPc' = "popped"
  /\ posting' = Head(outputQueue)
  /\ outputQueue' = Tail(outputQueue)
  /\ UNCHANGED <<workerPc, current, inputQueue, tasksSem, stopRequested, posts,
                 added, historyVars>>

\* One call of post(), with m_mutex unlocked.  A task that is done makes way
\* for the next one; one that is not done is called again, or, when the time
\* of the frame is up, pushed back to the front of the queue.
CallPost ==
  /\ mainPc = "popped"
  /\ posts' = [posts EXCEPT ![posting] = @ + 1]
  /\ \E done, overtime \in BOOLEAN :
       /\ posts'[posting] = MaxPosts => done
       /\ posted' = IF done THEN Append(posted, posting) ELSE posted
       /\ \/ /\ ~done /\ ~overtime
             /\ UNCHANGED <<mainPc, posting, outputQueue>>
          \/ /\ done \/ overtime
             /\ mainPc' = "frame"
             /\ posting' = None
             /\ outputQueue' = IF done THEN outputQueue
                                       ELSE <<posting>> \o outputQueue
  /\ UNCHANGED <<workerPc, current, inputQueue, tasksSem, stopRequested, added,
                 dropped, executed>>

\* The destructor calls request_stop() ...
RequestStop ==
  /\ mainPc = "frame"
  /\ mainPc' = "join"
  /\ dropped' = dropped \cup Elements(inputQueue)
  /\ inputQueue' = <<>>
  /\ stopRequested' = TRUE
  /\ tasksSem' = tasksSem + Cardinality(Workers)
  /\ UNCHANGED <<workerPc, current, outputQueue, postVars, added, executed,
                 posted>>

\* ... and join(); what is in the output queue is deleted with the pool.
Join ==
  /\ mainPc = "join" /\ \A w \in Workers : workerPc[w] = "exited"
  /\ mainPc' = "done"
  /\ UNCHANGED <<workerPc, current, queueVars, stopRequested, postVars, added,
                 historyVars>>

-----------------------------------------------------------------------------
(* A worker: run_thread() *)

WaitTask(w) ==
  /\ workerPc[w] = "wait" /\ tasksSem > 0
  /\ tasksSem' = tasksSem - 1
  /\ workerPc' = [workerPc EXCEPT ![w] = "grab"]
  /\ UNCHANGED <<mainPc, current, inputQueue, outputQueue, stopRequested,
                 postVars, added, historyVars>>

Grab(w) ==
  /\ workerPc[w] = "grab"
  /\ \/ /\ inputQueue # <<>>
        /\ current' = [current EXCEPT ![w] = Head(inputQueue)]
        /\ inputQueue' = Tail(inputQueue)
        /\ workerPc' = [workerPc EXCEPT ![w] = "run"]
     \/ /\ inputQueue = <<>>
        /\ workerPc' = [workerPc EXCEPT ![w] =
                         IF stopRequested THEN "exited" ELSE "wait"]
        /\ UNCHANGED <<current, inputQueue>>
  /\ UNCHANGED <<mainPc, outputQueue, tasksSem, stopRequested, postVars, added,
                 historyVars>>

\* thread() is called until it returns true or throws; in either case the task
\* goes to the output queue.
RunTask(w) ==
  /\ workerPc[w] = "run"
  /\ outputQueue' = Append(outputQueue, current[w])
  /\ executed' = Append(executed, current[w])
  /\ current' = [current EXCEPT ![w] = None]
  /\ workerPc' = [workerPc EXCEPT ![w] = "wait"]
  /\ UNCHANGED <<mainPc, inputQueue, tasksSem, stopRequested, postVars, added,
                 dropped, posted>>

-----------------------------------------------------------------------------

Post == PopOutput \/ CallPost
Worker(w) == WaitTask(w) \/ Grab(w) \/ RunTask(w)

Done == mainPc = "done" /\ UNCHANGED vars

Next ==
  \/ Start \/ AddTask \/ Post \/ RequestStop \/ Join \/ Done
  \/ \E w \in Workers : Worker(w)

\* A frame comes, and with it run_post(), as long as the client runs; tasks
\* end; the semaphore wakes a waiting thread, though no particular one.
Fairness ==
  /\ WF_vars(Post) /\ WF_vars(Join)
  /\ WF_vars(\E w \in Workers : WaitTask(w))
  /\ \A w \in Workers : WF_vars(Grab(w)) /\ WF_vars(RunTask(w))

Spec == Init /\ [][Next]_vars
FairSpec == Spec /\ Fairness

-----------------------------------------------------------------------------
(* Properties *)

Held(w) == IF current[w] = None THEN {} ELSE {current[w]}

\* Every task added is in one place: queued, with one worker, executed or
\* removed by request_stop(); no two workers execute the same task.
OnePlace ==
  /\ \A t \in 1..added :
       \/ t \in Elements(inputQueue) \cup Elements(executed) \cup dropped
       \/ \E w \in Workers : t \in Held(w)
  /\ \A w \in Workers :
       Held(w) \cap (Elements(inputQueue) \cup Elements(executed) \cup dropped)
         = {}
  /\ \A v, w \in Workers : Held(v) \cap Held(w) # {} => v = w
  /\ Elements(inputQueue) \cap (Elements(executed) \cup dropped) = {}
  /\ Elements(executed) \cap dropped = {}

InHand == IF posting = None THEN <<>> ELSE <<posting>>

\* Tasks are finished on the main thread one at a time in the order in which
\* their threaded parts ended, a task whose post() takes several frames and
\* one whose threaded part threw included; none is lost on the way.
PostsInOrder ==
  posted \o InHand \o outputQueue = executed

\* m_tasks_sem suffices: for every queued task a token or a worker that took
\* one, and once the stop is requested, for every thread that is to end.
WakeupsSuffice ==
  /\ Len(inputQueue) <= tasksSem + Cardinality(AtQueue)
  /\ stopRequested => Cardinality(Alive) <= tasksSem + Cardinality(AtQueue)

\* Every task added is finished on the main thread in the end, unless the pool
\* is deleted first; and deleting the pool ends.
TasksFinish ==
  /\ \A t \in Tasks : added >= t ~> t \in Elements(posted) \/ stopRequested
  /\ stopRequested ~> mainPc = "done"
=============================================================================
