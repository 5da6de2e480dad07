------------------------- MODULE ThreadPool_proofs -------------------------
(***************************************************************************)
(* Proofs about ThreadPool, for any finite set of workers and any bounds.  *)
(***************************************************************************)
EXTENDS ThreadPool, FiniteSetTheorems, SequenceTheorems, TLAPS

USE BoundsAssumption, NoneAssumption
USE DEF vars, queueVars, postVars, historyVars

-----------------------------------------------------------------------------
(* The inductive invariant, one part per idea. *)

\* What the program counters say of the other variables.
ShapeInv ==
  /\ mainPc = "popped" <=> posting # None
  /\ stopRequested <=> mainPc \in {"join", "done"}
  /\ stopRequested => inputQueue = <<>>
  /\ \A w \in Workers :
       /\ workerPc[w] = "run" <=> current[w] # None
       /\ workerPc[w] = "exited" => stopRequested
       /\ workerPc[w] = "unborn" <=> mainPc = "new"

\* The queue holds the tasks added last, in order.
InputInv ==
  /\ Len(inputQueue) <= added
  /\ \A i \in 1..Len(inputQueue) :
       inputQueue[i] = added - Len(inputQueue) + i

\* The tasks before those are held, executed or dropped, each in one way.
Taken == 1..(added - Len(inputQueue))

TakenInv ==
  /\ Elements(executed) \subseteq Taken
  /\ dropped \subseteq Taken
  /\ Elements(executed) \cap dropped = {}
  /\ \A w \in Workers :
       /\ current[w] # None =>
            /\ current[w] \in Taken
            /\ current[w] \notin Elements(executed) \cup dropped
       /\ \A v \in Workers :
            current[v] = current[w] /\ current[w] # None => v = w
  /\ \A t \in Taken :
       \/ t \in Elements(executed) \cup dropped
       \/ \E w \in Workers : current[w] = t

ExecutedOnce ==
  \A i, j \in 1..Len(executed) : executed[i] = executed[j] => i = j

\* posted, the task in hand and the output queue follow each other in executed.
Hands == IF posting = None THEN 0 ELSE 1

OrderInv ==
  /\ Len(executed) = Len(posted) + Hands + Len(outputQueue)
  /\ \A i \in 1..Len(posted) : posted[i] = executed[i]
  /\ posting # None => posting = executed[Len(posted) + 1]
  /\ \A i \in 1..Len(outputQueue) :
       outputQueue[i] = executed[Len(posted) + Hands + i]

\* post() of a task is called after its threaded part, until it returns true.
PostsInv ==
  /\ \A t \in Tasks : posts[t] # 0 => t \in Elements(executed)
  /\ \A i \in (Len(posted) + 1)..Len(executed) : posts[executed[i]] < MaxPosts

IInv ==
  /\ TypeOK
  /\ ShapeInv
  /\ InputInv
  /\ TakenInv
  /\ ExecutedOnce
  /\ OrderInv
  /\ PostsInv
  /\ WakeupsSuffice

-----------------------------------------------------------------------------
(* Sequences *)

LEMMA ElementsAppend ==
  ASSUME NEW S, NEW s \in Seq(S), NEW x \in S
  PROVE  Elements(Append(s, x)) = Elements(s) \cup {x}
BY DEF Elements

LEMMA ElementsEmpty == Elements(<<>>) = {}
BY DEF Elements

LEMMA TaskFacts ==
  /\ \A t \in Tasks : t \in Nat /\ t # None
  /\ \A t : t \in Tasks <=> t \in Nat /\ 1 <= t /\ t <= MaxTasks
BY DEF Tasks

LEMMA PopFacts ==
  ASSUME NEW S, NEW s \in Seq(S), s # <<>>
  PROVE  /\ Len(s) \in Nat /\ Len(s) > 0
         /\ Head(s) \in S /\ Head(s) = s[1]
         /\ Tail(s) \in Seq(S) /\ Len(Tail(s)) = Len(s) - 1
         /\ \A i \in 1..(Len(s) - 1) : Tail(s)[i] = s[i + 1]
BY HeadTailProperties, EmptySeq

LEMMA AppendFacts ==
  ASSUME NEW S, NEW s \in Seq(S), NEW x \in S
  PROVE  /\ Append(s, x) \in Seq(S) /\ Len(Append(s, x)) = Len(s) + 1
         /\ Append(s, x)[Len(s) + 1] = x
         /\ \A i \in 1..Len(s) : Append(s, x)[i] = s[i]
OBVIOUS

LEMMA PushFacts ==
  ASSUME NEW S, NEW s \in Seq(S), NEW x \in S
  PROVE  /\ <<x>> \o s \in Seq(S) /\ Len(<<x>> \o s) = Len(s) + 1
         /\ (<<x>> \o s)[1] = x
         /\ \A i \in 1..Len(s) : (<<x>> \o s)[i + 1] = s[i]
OBVIOUS

-----------------------------------------------------------------------------
(* What the steps do, as facts about the variables they change *)

\* One call of post() ends in one of three ways: call it again, done, or back
\* to the front of the queue.
LEMMA CallPostEffect ==
  ASSUME IInv, CallPost
  PROVE  /\ posting \in Tasks
         /\ posts' = [posts EXCEPT ![posting] = @ + 1]
         /\ posts[posting] < MaxPosts
         /\ UNCHANGED <<executed, current, workerPc, inputQueue, tasksSem,
                        stopRequested, added, dropped>>
         /\ \/ /\ posts[posting] + 1 < MaxPosts
               /\ UNCHANGED <<mainPc, posting, posted, outputQueue>>
            \/ /\ mainPc' = "frame" /\ posting' = None
               /\ posted' = Append(posted, posting)
               /\ outputQueue' = outputQueue
            \/ /\ posts[posting] + 1 < MaxPosts
               /\ mainPc' = "frame" /\ posting' = None
               /\ posted' = posted
               /\ outputQueue' = <<posting>> \o outputQueue
<1>1. mainPc = "popped" /\ posting \in Tasks /\ posting # None
  BY DEF CallPost, IInv, TypeOK, ShapeInv
<1>2. posts[posting] < MaxPosts
  <2>1. Len(posted) \in Nat /\ Len(outputQueue) \in Nat /\ Len(executed) \in Nat
    BY DEF IInv, TypeOK
  <2>2. /\ posting = executed[Len(posted) + 1]
        /\ Len(executed) = Len(posted) + 1 + Len(outputQueue)
    BY <1>1 DEF IInv, OrderInv, Hands
  <2> QED BY <2>1, <2>2 DEF IInv, PostsInv
<1>3. posts' = [posts EXCEPT ![posting] = @ + 1]
      /\ posts'[posting] = posts[posting] + 1
      /\ posts[posting] \in Nat
  BY <1>1 DEF CallPost, IInv, TypeOK
<1>4. UNCHANGED <<executed, current, workerPc, inputQueue, tasksSem,
                  stopRequested, added, dropped>>
  BY DEF CallPost
<1>5. PICK done \in BOOLEAN, overtime \in BOOLEAN :
        /\ posts'[posting] = MaxPosts => done
        /\ posted' = IF done THEN Append(posted, posting) ELSE posted
        /\ \/ /\ ~done /\ ~overtime
              /\ UNCHANGED <<mainPc, posting, outputQueue>>
           \/ /\ done \/ overtime
              /\ mainPc' = "frame"
              /\ posting' = None
              /\ outputQueue' = IF done THEN outputQueue
                                        ELSE <<posting>> \o outputQueue
  BY DEF CallPost
<1>6. CASE done
  BY <1>1, <1>2, <1>3, <1>4, <1>5, <1>6
<1>7. CASE ~done
  <2>1. posts[posting] + 1 < MaxPosts
    BY <1>2, <1>3, <1>5, <1>7
  <2> QED BY <1>1, <1>2, <1>3, <1>4, <1>5, <1>7, <2>1
<1> QED BY <1>6, <1>7

-----------------------------------------------------------------------------
(* Each part of the invariant is kept *)

LEMMA InitIInv == Init => IInv
<1> SUFFICES ASSUME Init PROVE IInv
  OBVIOUS
<1> USE DEF Init
<1>1. TypeOK
  <2>1. 0 \in 0..MaxPosts /\ 0 \in 0..MaxTasks
    OBVIOUS
  <2>2. posts \in [Tasks -> 0..MaxPosts] /\ added \in 0..MaxTasks
    BY <2>1
  <2>3. <<>> \in Seq(Tasks)
    OBVIOUS
  <2> QED BY <2>2, <2>3 DEF TypeOK
<1>2. ShapeInv
  BY DEF ShapeInv
<1>3. InputInv
  BY DEF InputInv
<1>4. TakenInv
  BY ElementsEmpty DEF TakenInv, Taken
<1>5. ExecutedOnce /\ OrderInv
  BY DEF ExecutedOnce, OrderInv, Hands
<1>6. PostsInv
  BY DEF PostsInv
<1>7. WakeupsSuffice
  <2>1. AtQueue = {}
    BY DEF AtQueue
  <2> QED BY <2>1, FS_EmptySet DEF WakeupsSuffice
<1> QED BY <1>1, <1>2, <1>3, <1>4, <1>5, <1>6, <1>7 DEF IInv

LEMMA TypeStep == ASSUME IInv, [Next]_vars PROVE TypeOK'
<1>0. TypeOK
  BY DEF IInv
<1>1. CASE Start
  BY <1>0, <1>1 DEF TypeOK, Start
<1>2. CASE AddTask
  <2>1. added + 1 \in Tasks /\ added + 1 \in 0..MaxTasks
    BY <1>0, <1>2 DEF TypeOK, AddTask, Tasks
  <2> QED BY <1>0, <1>2, <2>1 DEF TypeOK, AddTask
<1>3. CASE PopOutput
  <2>1. Head(outputQueue) \in Tasks /\ Tail(outputQueue) \in Seq(Tasks)
    BY <1>0, <1>3, PopFacts DEF TypeOK, PopOutput
  <2> QED BY <1>0, <1>3, <2>1 DEF TypeOK, PopOutput
<1>4. CASE CallPost
  <2>1. posted' \in Seq(Tasks) /\ outputQueue' \in Seq(Tasks)
    <3>1. posting \in Tasks /\ posted \in Seq(Tasks) /\ outputQueue \in Seq(Tasks)
      BY <1>0, <1>4, CallPostEffect DEF TypeOK
    <3>2. Append(posted, posting) \in Seq(Tasks)
          /\ <<posting>> \o outputQueue \in Seq(Tasks)
      BY <3>1, AppendFacts, PushFacts
    <3> QED BY <1>4, <3>1, <3>2, CallPostEffect
  <2>2. posts' \in [Tasks -> 0..MaxPosts]
    BY <1>0, <1>4, CallPostEffect DEF TypeOK
  <2>3. mainPc' \in {"new", "frame", "popped", "join", "done"}
        /\ posting' \in Tasks \cup {None}
    BY <1>0, <1>4, CallPostEffect DEF TypeOK
  <2> QED BY <1>0, <1>4, <2>1, <2>2, <2>3 DEF TypeOK, CallPost
<1>5. CASE RequestStop
  <2>1. Cardinality(Workers) \in Nat
    BY WorkersAssumption, FS_CardinalityType
  <2>2. Elements(inputQueue) \subseteq Tasks
    BY <1>0 DEF TypeOK, Elements
  <2>3. tasksSem' \in Nat /\ dropped' \in SUBSET Tasks
    BY <1>0, <1>5, <2>1, <2>2 DEF TypeOK, RequestStop
  <2> QED BY <1>0, <1>5, <2>3 DEF TypeOK, RequestStop
<1>6. CASE Join
  BY <1>0, <1>6 DEF TypeOK, Join
<1>7. ASSUME NEW w \in Workers, WaitTask(w) PROVE TypeOK'
  BY <1>0, <1>7 DEF TypeOK, WaitTask
<1>8. ASSUME NEW w \in Workers, Grab(w) PROVE TypeOK'
  <2>1. CASE inputQueue # <<>>
    <3>1. Head(inputQueue) \in Tasks /\ Tail(inputQueue) \in Seq(Tasks)
      BY <1>0, <2>1, HeadTailProperties DEF TypeOK
    <3> QED BY <1>0, <1>8, <2>1, <3>1 DEF TypeOK, Grab
  <2>2. CASE inputQueue = <<>>
    BY <1>0, <1>8, <2>2 DEF TypeOK, Grab
  <2> QED BY <2>1, <2>2
<1>9. ASSUME NEW w \in Workers, RunTask(w) PROVE TypeOK'
  <2>1. current[w] \in Tasks
    BY <1>0, <1>9 DEF IInv, ShapeInv, RunTask, TypeOK
  <2> QED BY <1>0, <1>9, <2>1 DEF TypeOK, RunTask
<1>10. CASE UNCHANGED vars
  BY <1>0, <1>10 DEF TypeOK
<1> QED
  BY <1>1, <1>2, <1>3, <1>4, <1>5, <1>6, <1>7, <1>8, <1>9, <1>10
  DEF Next, Post, Worker, Done

LEMMA ShapeStep == ASSUME IInv, [Next]_vars PROVE ShapeInv'
<1>0. TypeOK /\ ShapeInv
  BY DEF IInv
<1> USE DEF TypeOK, ShapeInv
<1>1. CASE Start
  BY <1>0, <1>1 DEF Start
<1>2. CASE AddTask
  BY <1>0, <1>2 DEF AddTask
<1>3. CASE PopOutput
  <2>1. Head(outputQueue) # None
    BY <1>0, <1>3, PopFacts, TaskFacts DEF PopOutput
  <2> QED BY <1>0, <1>3, <2>1 DEF PopOutput
<1>4. CASE CallPost
  BY <1>0, <1>4, CallPostEffect, TaskFacts DEF CallPost
<1>5. CASE RequestStop
  BY <1>0, <1>5 DEF RequestStop
<1>6. CASE Join
  BY <1>0, <1>6 DEF Join
<1>7. ASSUME NEW w \in Workers, WaitTask(w) PROVE ShapeInv'
  BY <1>0, <1>7 DEF WaitTask
<1>8. ASSUME NEW w \in Workers, Grab(w) PROVE ShapeInv'
  <2>1. CASE inputQueue # <<>>
    <3>1. Head(inputQueue) # None
      BY <1>0, <2>1, PopFacts, TaskFacts
    <3> QED BY <1>0, <1>8, <2>1, <3>1 DEF Grab
  <2>2. CASE inputQueue = <<>>
    BY <1>0, <1>8, <2>2 DEF Grab
  <2> QED BY <2>1, <2>2
<1>9. ASSUME NEW w \in Workers, RunTask(w) PROVE ShapeInv'
  BY <1>0, <1>9 DEF RunTask
<1>10. CASE UNCHANGED vars
  BY <1>0, <1>10
<1> QED
  BY <1>1, <1>2, <1>3, <1>4, <1>5, <1>6, <1>7, <1>8, <1>9, <1>10
  DEF Next, Post, Worker, Done

LEMMA InputStep == ASSUME IInv, [Next]_vars PROVE InputInv'
<1>0. TypeOK /\ ShapeInv /\ InputInv
  BY DEF IInv
<1> USE DEF InputInv
<1>1. CASE AddTask
  BY SMTT(30), <1>0, <1>1 DEF AddTask, TypeOK
<1>2. CASE RequestStop
  BY <1>0, <1>2 DEF RequestStop, TypeOK
<1>3. ASSUME NEW w \in Workers, Grab(w), inputQueue # <<>> PROVE InputInv'
  <2>1. inputQueue' = Tail(inputQueue) /\ inputQueue \in Seq(Tasks)
        /\ added' = added /\ added \in Nat
    BY <1>0, <1>3 DEF Grab, TypeOK
  <2> QED BY <1>0, <1>3, <2>1, PopFacts
<1>4. CASE UNCHANGED <<inputQueue, added>>
  BY <1>0, <1>4
<1> QED
  BY <1>1, <1>2, <1>3, <1>4
  DEF Next, Post, Worker, Done, Start, PopOutput, CallPost, Join, WaitTask,
      Grab, RunTask

LEMMA QueuedTasks ==
  ASSUME TypeOK, InputInv
  PROVE  /\ Elements(inputQueue) = (added - Len(inputQueue) + 1)..added
         /\ Len(inputQueue) \in Nat /\ Len(inputQueue) <= added /\ added \in Nat
<1> DEFINE n == Len(inputQueue)
<1>1. n \in Nat /\ n <= added /\ added \in Nat
  BY DEF TypeOK, InputInv
<1>2. ASSUME NEW t \in Elements(inputQueue)
      PROVE  t \in (added - n + 1)..added
  BY <1>1 DEF Elements, InputInv
<1>3. ASSUME NEW t \in (added - n + 1)..added
      PROVE  t \in Elements(inputQueue)
  <2>1. t - added + n \in 1..n /\ added - n + (t - added + n) = t
    BY <1>1
  <2>2. inputQueue[t - added + n] = t
    BY <2>1 DEF InputInv
  <2> QED BY <2>1, <2>2 DEF Elements
<1> QED BY <1>1, <1>2, <1>3

LEMMA TakenStep == ASSUME IInv, [Next]_vars PROVE TakenInv'
<1>0. TypeOK /\ ShapeInv /\ InputInv /\ TakenInv
  BY DEF IInv
<1>1. CASE AddTask
  <2>1. Len(inputQueue') = Len(inputQueue) + 1 /\ added' = added + 1
    BY <1>0, <1>1 DEF AddTask, TypeOK
  <2>2. Taken' = Taken
    BY <1>0, <2>1 DEF Taken, TypeOK
  <2> QED BY <1>0, <1>1, <2>2 DEF AddTask, TakenInv, Elements
<1>2. CASE RequestStop
  <2>0. Elements(inputQueue) = (added - Len(inputQueue) + 1)..added
        /\ Len(inputQueue) \in Nat /\ Len(inputQueue) <= added /\ added \in Nat
    BY <1>0, QueuedTasks
  <2>1. Taken' = Taken \cup Elements(inputQueue)
    <3>1. Len(inputQueue') = 0 /\ added' = added
      BY <1>2 DEF RequestStop
    <3> QED BY <2>0, <3>1 DEF Taken
  <2>2. Elements(inputQueue) \cap Taken = {}
    BY <2>0 DEF Taken
  <2>3. executed' = executed /\ current' = current
        /\ dropped' = dropped \cup Elements(inputQueue)
    BY <1>2 DEF RequestStop
  <2> QED BY <1>0, <2>1, <2>2, <2>3 DEF TakenInv, Elements
<1>3. ASSUME NEW w \in Workers, Grab(w), inputQueue # <<>> PROVE TakenInv'
  <2> DEFINE t == added - Len(inputQueue) + 1
  <2>1. Head(inputQueue) = t /\ Len(inputQueue') = Len(inputQueue) - 1
        /\ Len(inputQueue) > 0
    BY <1>0, <1>3, PopFacts DEF Grab, InputInv, TypeOK
  <2>2. Taken' = Taken \cup {t} /\ t \notin Taken /\ t # None
    BY SMTT(30), <1>0, <1>3, <2>1 DEF Taken, Grab, InputInv, TypeOK
  <2>3. current' = [current EXCEPT ![w] = t] /\ current[w] = None
        /\ executed' = executed /\ dropped' = dropped
    BY <1>0, <1>3, <2>1 DEF Grab, ShapeInv
  <2> HIDE DEF t
  <2>4. \A v \in Workers : current'[v] = IF v = w THEN t ELSE current[v]
    BY <1>0, <2>3 DEF TypeOK
  <2>5. \A x \in Taken : \/ x \in Elements(executed) \cup dropped
                         \/ \E v \in Workers : current'[v] = x
    <3>1. \A x \in Taken : x # None
      BY <1>0 DEF Taken, TypeOK
    <3> QED BY <1>0, <2>3, <2>4, <3>1 DEF TakenInv
  <2>6. current'[w] = t
    BY <2>4
  <2> QED BY <1>0, <2>2, <2>3, <2>4, <2>5, <2>6 DEF TakenInv, Elements
<1>4. ASSUME NEW w \in Workers, RunTask(w) PROVE TakenInv'
  <2>1. current[w] \in Tasks /\ current[w] # None
    BY <1>0, <1>4 DEF RunTask, ShapeInv, TypeOK
  <2>2. Elements(executed') = Elements(executed) \cup {current[w]}
    BY <1>0, <1>4, <2>1, ElementsAppend DEF RunTask, TypeOK
  <2>3. /\ dropped' = dropped /\ Taken' = Taken
        /\ \A v \in Workers : current'[v] = IF v = w THEN None ELSE current[v]
    BY <1>0, <1>4 DEF RunTask, TypeOK, Taken
  <2>4. Elements(executed)' = Elements(executed')
    BY DEF Elements
  <2> QED BY <1>0, <2>1, <2>2, <2>3, <2>4 DEF TakenInv
<1>5. CASE UNCHANGED <<inputQueue, added, executed, dropped, current>>
  BY <1>0, <1>5 DEF TakenInv, Taken, Elements
<1> QED
  BY <1>1, <1>2, <1>3, <1>4, <1>5
  DEF Next, Post, Worker, Done, Start, PopOutput, CallPost, Join, WaitTask, Grab

\* The one step that extends executed appends a task that was held.
LEMMA ExecutedStep == ASSUME IInv, [Next]_vars PROVE ExecutedOnce'
<1>1. ASSUME NEW w \in Workers, RunTask(w) PROVE ExecutedOnce'
  <2>1. current[w] \in Tasks /\ current[w] \notin Elements(executed)
    BY <1>1 DEF IInv, RunTask, ShapeInv, TypeOK, TakenInv
  <2>2. executed' = Append(executed, current[w]) /\ executed \in Seq(Tasks)
    BY <1>1 DEF IInv, RunTask, TypeOK
  <2> QED BY <2>1, <2>2 DEF IInv, ExecutedOnce, Elements
<1>2. CASE UNCHANGED executed
  BY <1>2 DEF IInv, ExecutedOnce
<1> QED
  BY <1>1, <1>2
  DEF Next, Post, Worker, Done, Start, AddTask, PopOutput, CallPost,
      RequestStop, Join, WaitTask, Grab

LEMMA OrderStep == ASSUME IInv, [Next]_vars PROVE OrderInv'
<1>0. TypeOK /\ ShapeInv /\ OrderInv
  BY DEF IInv
<1>1. CASE PopOutput
  <2>1. posting = None /\ posting' = outputQueue[1] /\ posting' # None
    BY <1>0, <1>1, PopFacts, TaskFacts DEF PopOutput, ShapeInv, TypeOK
  <2>2. outputQueue' \in Seq(Tasks) /\ Len(outputQueue') = Len(outputQueue) - 1
        /\ Len(outputQueue) > 0
        /\ \A i \in 1..Len(outputQueue') : outputQueue'[i] = outputQueue[i + 1]
    BY <1>0, <1>1, PopFacts DEF PopOutput, TypeOK
  <2>3. posted' = posted /\ executed' = executed /\ Len(posted) \in Nat
    BY <1>0, <1>1 DEF PopOutput, TypeOK
  <2>4. /\ Len(executed) = Len(posted) + Len(outputQueue)
        /\ \A i \in 1..Len(posted) : posted[i] = executed[i]
        /\ \A i \in 1..Len(outputQueue) :
             outputQueue[i] = executed[Len(posted) + i]
    BY <1>0, <2>1, <2>2, <2>3 DEF OrderInv, Hands
  <2>5. Hands' = 1
    BY <2>1 DEF Hands
  <2>6. posting' = executed[Len(posted) + 1]
    BY <2>1, <2>2, <2>4
  <2>7. ASSUME NEW i \in 1..Len(outputQueue')
        PROVE  outputQueue'[i] = executed[Len(posted) + 1 + i]
    <3>1. i + 1 \in 1..Len(outputQueue) /\ Len(posted) + (i + 1) = Len(posted) + 1 + i
      BY <2>2, <2>3
    <3> QED BY <2>2, <2>4, <3>1
  <2>8. Len(executed) = Len(posted) + 1 + Len(outputQueue')
    BY <2>2, <2>3, <2>4
  <2> QED BY <2>3, <2>4, <2>5, <2>6, <2>7, <2>8 DEF OrderInv
<1>2. CASE CallPost
  <2>1. posting # None /\ posting \in Tasks
    BY <1>0, <1>2 DEF CallPost, ShapeInv, TypeOK
  <2>2. /\ posting = executed[Len(posted) + 1]
        /\ Len(executed) = Len(posted) + 1 + Len(outputQueue)
        /\ \A i \in 1..Len(outputQueue) :
             outputQueue[i] = executed[Len(posted) + 1 + i]
        /\ \A i \in 1..Len(posted) : posted[i] = executed[i]
    BY <1>0, <2>1 DEF OrderInv, Hands
  <2>3. executed' = executed
    BY <1>2 DEF CallPost
  <2>4. CASE UNCHANGED <<posting, posted, outputQueue>>
    BY <1>0, <2>3, <2>4 DEF OrderInv, Hands
  <2>5. CASE posting' = None /\ posted' = Append(posted, posting)
             /\ outputQueue' = outputQueue
    <3>1. /\ Len(posted') = Len(posted) + 1 /\ posted'[Len(posted) + 1] = posting
          /\ \A i \in 1..Len(posted) : posted'[i] = posted[i]
          /\ Len(posted) \in Nat /\ Len(outputQueue) \in Nat
      BY <1>0, <2>1, <2>5, AppendFacts DEF TypeOK
    <3>2. Hands' = 0
      BY <2>5 DEF Hands
    <3>3. ASSUME NEW i \in 1..Len(posted')
          PROVE  posted'[i] = executed[i]
      <4>1. CASE i = Len(posted) + 1
        BY <2>2, <3>1, <4>1
      <4>2. CASE i # Len(posted) + 1
        <5>1. i \in 1..Len(posted)
          BY <3>1, <4>2
        <5> QED BY <2>2, <3>1, <5>1
      <4> QED BY <4>1, <4>2
    <3> QED BY <2>2, <2>3, <2>5, <3>1, <3>2, <3>3 DEF OrderInv
  <2>6. CASE posting' = None /\ posted' = posted
             /\ outputQueue' = <<posting>> \o outputQueue
    <3>1. Len(outputQueue') = Len(outputQueue) + 1
          /\ \A i \in 1..Len(outputQueue') :
               outputQueue'[i] = IF i = 1 THEN posting ELSE outputQueue[i - 1]
      <4>1. /\ Len(outputQueue') = Len(outputQueue) + 1 /\ outputQueue'[1] = posting
            /\ Len(outputQueue) \in Nat
            /\ \A j \in 1..Len(outputQueue) : outputQueue'[j + 1] = outputQueue[j]
        BY <1>0, <2>1, <2>6, PushFacts DEF TypeOK
      <4>2. ASSUME NEW i \in 1..Len(outputQueue'), i # 1
            PROVE  outputQueue'[i] = outputQueue[i - 1]
        <5>1. i - 1 \in 1..Len(outputQueue) /\ (i - 1) + 1 = i
          BY <4>1, <4>2
        <5> QED BY <4>1, <5>1
      <4> QED BY <4>1, <4>2
    <3>2. Len(posted) \in Nat /\ Len(outputQueue) \in Nat
      BY <1>0 DEF TypeOK
    <3>3. ASSUME NEW i \in 1..Len(outputQueue')
          PROVE  outputQueue'[i] = executed[Len(posted) + i]
      <4>1. CASE i = 1
        BY <2>2, <3>1, <4>1
      <4>2. CASE i # 1
        <5>1. i - 1 \in 1..Len(outputQueue)
              /\ Len(posted) + 1 + (i - 1) = Len(posted) + i
          BY <3>1, <3>2, <4>2
        <5> QED BY <2>2, <3>1, <4>2, <5>1
      <4> QED BY <4>1, <4>2
    <3>4. Hands' = 0
      BY <2>6 DEF Hands
    <3>5. Len(executed) = Len(posted) + 0 + Len(outputQueue')
          /\ \A i \in 1..Len(outputQueue') : Len(posted) + 0 + i = Len(posted) + i
      BY <2>2, <3>1, <3>2
    <3>6. \A i \in 1..Len(outputQueue') : outputQueue'[i] = executed[Len(posted) + 0 + i]
      BY <3>3, <3>5
    <3>7. posting' = None /\ posted' = posted
      BY <2>6
    <3> QED BY <2>2, <2>3, <3>4, <3>5, <3>6, <3>7 DEF OrderInv
  <2> QED BY <1>2, <2>4, <2>5, <2>6, CallPostEffect
<1>3. ASSUME NEW w \in Workers, RunTask(w) PROVE OrderInv'
  <2>1. current[w] \in Tasks
    BY <1>0, <1>3 DEF RunTask, ShapeInv, TypeOK
  <2>2. executed' = Append(executed, current[w])
        /\ outputQueue' = Append(outputQueue, current[w])
        /\ posted' = posted /\ posting' = posting
    BY <1>3 DEF RunTask
  <2> DEFINE n == Len(posted) + Hands
             m == Len(outputQueue)
  <2>3. /\ Len(posted) \in Nat /\ n \in Nat /\ n >= Len(posted) /\ m \in Nat
        /\ (posting # None => n >= Len(posted) + 1)
        /\ Hands' = Hands /\ Len(executed) = n + m
        /\ \A i \in 1..m : outputQueue[i] = executed[n + i]
    BY <1>0, <2>2 DEF OrderInv, Hands, TypeOK
  <2>4. /\ Len(executed') = n + m + 1 /\ executed'[n + m + 1] = current[w]
        /\ \A i \in 1..(n + m) : executed'[i] = executed[i]
        /\ Len(outputQueue') = m + 1 /\ outputQueue'[m + 1] = current[w]
        /\ \A i \in 1..m : outputQueue'[i] = outputQueue[i]
    BY SMTT(30), <1>0, <2>1, <2>2, <2>3, AppendFacts DEF TypeOK
  <2> HIDE DEF n, m
  <2>5. \A i \in 1..(m + 1) : outputQueue'[i] = executed'[n + i]
    <3>1. ASSUME NEW i \in 1..m PROVE outputQueue'[i] = executed'[n + i]
      <4>1. n + i \in 1..(n + m)
        BY <2>3
      <4> QED BY <2>3, <2>4, <4>1
    <3>2. n + (m + 1) = n + m + 1 /\ \A i \in 1..(m + 1) : i \in 1..m \/ i = m + 1
      BY <2>3
    <3> QED BY <2>4, <3>1, <3>2
  <2>6. \A i \in 1..Len(posted) : posted[i] = executed'[i]
    <3>1. \A i \in 1..Len(posted) : i \in 1..(n + m)
      BY <2>3
    <3> QED BY <1>0, <2>4, <3>1 DEF OrderInv
  <2>7. posting # None => posting = executed'[Len(posted) + 1]
    <3>1. posting # None => Len(posted) + 1 \in 1..(n + m)
      BY <2>3
    <3> QED BY <1>0, <2>4, <3>1 DEF OrderInv
  <2>8. n = Len(posted) + Hands /\ Len(executed') = n + Len(outputQueue')
    BY <2>3, <2>4 DEF n
  <2> QED BY <2>2, <2>3, <2>4, <2>5, <2>6, <2>7, <2>8 DEF OrderInv
<1>4. CASE UNCHANGED <<executed, posted, posting, outputQueue>>
  BY <1>0, <1>4 DEF OrderInv, Hands
<1> QED
  BY <1>1, <1>2, <1>3, <1>4
  DEF Next, Post, Worker, Done, Start, AddTask, RequestStop, Join, WaitTask, Grab

LEMMA PostsStep == ASSUME IInv, [Next]_vars PROVE PostsInv'
<1>0. TypeOK /\ ShapeInv /\ OrderInv /\ ExecutedOnce /\ PostsInv
  BY DEF IInv
<1>1. CASE CallPost
  <2>1. posting \in Tasks /\ posting # None /\ executed' = executed
    BY <1>0, <1>1 DEF CallPost, ShapeInv, TypeOK
  <2> DEFINE n == Len(posted)
  <2>2. n \in Nat /\ Len(executed) \in Nat /\ Len(executed) >= n + 1
        /\ posting = executed[n + 1]
    BY <1>0, <2>1 DEF OrderInv, Hands, TypeOK
  <2>3. \A t \in Tasks : posts'[t] = IF t = posting THEN posts[t] + 1 ELSE posts[t]
    BY <1>0, <1>1, CallPostEffect DEF TypeOK
  <2>4. posting \in Elements(executed)
    BY <2>2 DEF Elements
  <2>5. \A t \in Tasks : posts'[t] # 0 => t \in Elements(executed)
    BY <1>0, <2>3, <2>4 DEF PostsInv
  <2>6. \A i \in (n + 2)..Len(executed) : posts'[executed[i]] < MaxPosts
    <3>1. \A i \in (n + 2)..Len(executed) :
            executed[i] # posting /\ executed[i] \in Tasks
            /\ i \in (n + 1)..Len(executed)
      BY <1>0, <2>2 DEF ExecutedOnce, TypeOK
    <3> QED BY <1>0, <2>3, <3>1 DEF PostsInv
  <2>7. CASE posts[posting] + 1 < MaxPosts /\ posted' = posted
    <3>1. posts'[executed[n + 1]] < MaxPosts
      BY <2>1, <2>2, <2>3, <2>7
    <3>2. \A i \in (n + 1)..Len(executed) : i = n + 1 \/ i \in (n + 2)..Len(executed)
      BY <2>2
    <3> QED BY <2>1, <2>5, <2>6, <2>7, <3>1, <3>2 DEF PostsInv, Elements
  <2>8. CASE posted' = Append(posted, posting)
    <3>1. Len(posted') = n + 1
      BY <1>0, <2>1, <2>8 DEF TypeOK
    <3> QED BY <2>1, <2>2, <2>5, <2>6, <3>1 DEF PostsInv, Elements
  <2> HIDE DEF n
  <2> QED BY <1>1, <2>7, <2>8, CallPostEffect
<1>2. ASSUME NEW w \in Workers, RunTask(w) PROVE PostsInv'
  <2>1. current[w] \in Tasks /\ current[w] \notin Elements(executed)
    BY <1>2 DEF IInv, RunTask, ShapeInv, TypeOK, TakenInv
  <2>2. executed' = Append(executed, current[w])
        /\ posts' = posts /\ posted' = posted
    BY <1>2 DEF RunTask
  <2>3. Elements(executed)' = Elements(executed) \cup {current[w]}
    <3>1. Elements(executed)' = Elements(executed')
      BY DEF Elements
    <3> QED BY <1>0, <2>1, <2>2, <3>1, ElementsAppend DEF TypeOK
  <2>4. posts[current[w]] = 0
    BY <1>0, <2>1 DEF PostsInv, TypeOK
  <2>5. \A i \in (Len(posted) + 1)..Len(executed') :
          posts[executed'[i]] < MaxPosts
    <3>1. Len(executed') = Len(executed) + 1 /\ Len(executed) \in Nat
          /\ executed'[Len(executed) + 1] = current[w]
          /\ \A i \in 1..Len(executed) : executed'[i] = executed[i]
          /\ Len(posted) \in Nat
      BY <1>0, <2>1, <2>2 DEF TypeOK
    <3> QED BY <1>0, <2>4, <3>1 DEF PostsInv
  <2> QED BY <1>0, <2>2, <2>3, <2>5 DEF PostsInv
<1>3. CASE UNCHANGED <<executed, posts, posted>>
  BY <1>0, <1>3 DEF PostsInv, Elements
<1> QED
  BY <1>1, <1>2, <1>3
  DEF Next, Post, Worker, Done, Start, AddTask, PopOutput, RequestStop, Join,
      WaitTask, Grab

-----------------------------------------------------------------------------
(* The wake-ups *)

LEMMA FiniteWorkers ==
  ASSUME NEW S \in SUBSET Workers
  PROVE  IsFiniteSet(S) /\ Cardinality(S) \in Nat
         /\ Cardinality(S) <= Cardinality(Workers)
BY WorkersAssumption, FS_Subset, FS_CardinalityType

LEMMA WakeStep == ASSUME IInv, [Next]_vars PROVE WakeupsSuffice'
<1>0. TypeOK /\ ShapeInv /\ WakeupsSuffice
  BY DEF IInv
<1> DEFINE q == Cardinality(AtQueue)
           a == Cardinality(Alive)
<1>1. /\ AtQueue \in SUBSET Workers /\ Alive \in SUBSET Workers
      /\ IsFiniteSet(AtQueue) /\ IsFiniteSet(Alive)
      /\ q \in Nat /\ a \in Nat /\ a <= Cardinality(Workers)
      /\ Cardinality(Workers) \in Nat
  BY FiniteWorkers DEF AtQueue, Alive
<1>2. /\ Len(inputQueue) \in Nat /\ Len(inputQueue) <= tasksSem + q
      /\ tasksSem \in Nat
      /\ stopRequested => a <= tasksSem + q
  BY <1>0 DEF WakeupsSuffice, TypeOK
<1>3. CASE AddTask
  <2>1. /\ Len(inputQueue') = Len(inputQueue) + 1 /\ tasksSem' = tasksSem + 1
        /\ UNCHANGED <<AtQueue, Alive, stopRequested>>
    BY <1>0, <1>3 DEF AddTask, TypeOK, AtQueue, Alive
  <2> QED BY <1>1, <1>2, <2>1 DEF WakeupsSuffice
<1>4. CASE RequestStop
  <2>1. /\ Len(inputQueue') = 0 /\ tasksSem' = tasksSem + Cardinality(Workers)
        /\ UNCHANGED <<AtQueue, Alive>>
    BY <1>4 DEF RequestStop, AtQueue, Alive
  <2> QED BY <1>1, <1>2, <2>1 DEF WakeupsSuffice
<1>5. CASE Start
  <2>1. /\ UNCHANGED <<inputQueue, tasksSem, stopRequested>>
        /\ ~stopRequested
        /\ AtQueue = {} /\ AtQueue' = {}
    BY <1>0, <1>5 DEF Start, AtQueue, ShapeInv, TypeOK
  <2> QED BY <1>1, <1>2, <2>1 DEF WakeupsSuffice
<1>6. ASSUME NEW w \in Workers, WaitTask(w) PROVE WakeupsSuffice'
  <2>1. /\ AtQueue' = AtQueue \cup {w} /\ w \notin AtQueue /\ Alive' = Alive
        /\ tasksSem' = tasksSem - 1
        /\ UNCHANGED <<inputQueue, stopRequested>>
    BY <1>0, <1>6 DEF WaitTask, AtQueue, Alive, TypeOK
  <2>2. Cardinality(AtQueue') = q + 1
    BY <1>1, <2>1, FS_AddElement
  <2> QED BY <1>1, <1>2, <2>1, <2>2 DEF WakeupsSuffice
<1>7. ASSUME NEW w \in Workers, Grab(w) PROVE WakeupsSuffice'
  <2>1. /\ AtQueue' = AtQueue \ {w} /\ w \in AtQueue
        /\ UNCHANGED <<tasksSem, stopRequested>>
    BY <1>0, <1>7 DEF Grab, AtQueue, TypeOK
  <2>2. Cardinality(AtQueue') = q - 1
    BY <1>1, <2>1, FS_RemoveElement
  <2>3. CASE inputQueue # <<>>
    <3>1. Len(inputQueue') = Len(inputQueue) - 1 /\ ~stopRequested
      BY <1>0, <1>7, <2>3, PopFacts DEF Grab, TypeOK, ShapeInv
    <3> QED BY <1>1, <1>2, <2>1, <2>2, <3>1 DEF WakeupsSuffice
  <2>4. CASE inputQueue = <<>> /\ stopRequested
    <3>1. Alive' = Alive \ {w} /\ w \in Alive /\ inputQueue' = <<>>
      BY <1>0, <1>7, <2>4 DEF Grab, Alive, TypeOK
    <3>2. Cardinality(Alive') = a - 1
      BY <1>1, <3>1, FS_RemoveElement
    <3>3. q \in Nat /\ q - 1 \in Nat
      <4>1. q # 0
        BY <1>1, <2>1, FS_EmptySet
      <4> QED BY <1>1, <4>1
    <3> QED BY <1>1, <1>2, <2>1, <2>2, <2>4, <3>1, <3>2, <3>3
            DEF WakeupsSuffice
  <2>5. CASE inputQueue = <<>> /\ ~stopRequested
    <3>1. inputQueue' = <<>> /\ stopRequested' = FALSE
      BY <1>7, <2>1, <2>5, <1>0 DEF Grab, TypeOK
    <3>2. Cardinality(AtQueue') \in Nat
      BY <1>1, <2>1, FiniteWorkers
    <3> QED BY <1>2, <2>1, <3>1, <3>2 DEF WakeupsSuffice
  <2> QED BY <2>3, <2>4, <2>5
<1>8. ASSUME NEW w \in Workers, RunTask(w) PROVE WakeupsSuffice'
  <2>1. UNCHANGED <<AtQueue, Alive, inputQueue, tasksSem, stopRequested>>
    BY <1>0, <1>8 DEF RunTask, AtQueue, Alive, TypeOK
  <2> QED BY <1>0, <2>1 DEF WakeupsSuffice
<1>9. CASE UNCHANGED <<workerPc, inputQueue, tasksSem, stopRequested>>
  BY <1>0, <1>9 DEF WakeupsSuffice, AtQueue, Alive
<1> QED
  BY <1>3, <1>4, <1>5, <1>6, <1>7, <1>8, <1>9
  DEF Next, Post, Worker, Done, PopOutput, CallPost, Join

-----------------------------------------------------------------------------
(* The theorems *)

THEOREM Invariance == Spec => []IInv
<1>1. IInv /\ [Next]_vars => IInv'
  BY TypeStep, ShapeStep, InputStep, TakenStep, ExecutedStep, OrderStep,
     PostsStep, WakeStep DEF IInv
<1> QED BY InitIInv, <1>1, PTL DEF Spec

\* Every variable keeps its type; post() is called at most MaxPosts times.
THEOREM TypeCorrect == Spec => []TypeOK
<1>1. IInv => TypeOK
  BY DEF IInv
<1> QED BY Invariance, <1>1, PTL

\* However many tasks and workers there are, a queued task has a wake-up to
\* its name and so has every thread that is to end.
THEOREM NoMissingWakeup == Spec => []WakeupsSuffice
<1>1. IInv => WakeupsSuffice
  BY DEF IInv
<1> QED BY Invariance, <1>1, PTL

\* No task is lost or held twice.
THEOREM TasksAreKept == Spec => []OnePlace
<1>1. IInv => OnePlace
  <2> SUFFICES ASSUME IInv PROVE OnePlace
    OBVIOUS
  <2>0. TypeOK /\ InputInv /\ TakenInv
    BY DEF IInv
  <2>1. Elements(inputQueue) = (added - Len(inputQueue) + 1)..added
        /\ Len(inputQueue) \in Nat /\ Len(inputQueue) <= added /\ added \in Nat
    BY <2>0, QueuedTasks
  <2>2. /\ 1..added = Taken \cup Elements(inputQueue)
        /\ Taken \cap Elements(inputQueue) = {}
    BY <2>1 DEF Taken
  <2>3. \A w \in Workers : Held(w) = IF current[w] = None THEN {} ELSE {current[w]}
    BY DEF Held
  <2>4. ASSUME NEW t \in 1..added
        PROVE  \/ t \in Elements(inputQueue) \cup Elements(executed) \cup dropped
               \/ \E w \in Workers : t \in Held(w)
    <3>1. t # None
      BY <2>0 DEF TypeOK
    <3> QED BY <2>0, <2>2, <2>3, <2>4, <3>1 DEF TakenInv
  <2>5. ASSUME NEW w \in Workers
        PROVE  Held(w) \cap
                 (Elements(inputQueue) \cup Elements(executed) \cup dropped) = {}
    BY <2>0, <2>2, <2>3 DEF TakenInv
  <2>6. ASSUME NEW v \in Workers, NEW w \in Workers, Held(v) \cap Held(w) # {}
        PROVE  v = w
    BY <2>0, <2>3, <2>6 DEF TakenInv
  <2>7. /\ Elements(inputQueue) \cap (Elements(executed) \cup dropped) = {}
        /\ Elements(executed) \cap dropped = {}
    BY <2>0, <2>2 DEF TakenInv
  <2> QED BY <2>4, <2>5, <2>6, <2>7 DEF OnePlace
<1> QED BY Invariance, <1>1, PTL

\* The main thread finishes tasks in the order in which they were executed.
THEOREM PostsKeepTheirOrder == Spec => []PostsInOrder
<1>1. IInv => PostsInOrder
  <2> SUFFICES ASSUME IInv PROVE PostsInOrder
    OBVIOUS
  <2>0. TypeOK /\ OrderInv
    BY DEF IInv
  <2> DEFINE left == posted \o InHand
             all == left \o outputQueue
  <2>1. InHand \in Seq(Tasks) /\ Len(InHand) = Hands
        /\ (posting # None => InHand[1] = posting)
    BY <2>0 DEF InHand, Hands, TypeOK
  <2>2. left \in Seq(Tasks) /\ Len(left) = Len(posted) + Hands
        /\ \A i \in 1..(Len(posted) + Hands) :
             left[i] = IF i <= Len(posted) THEN posted[i]
                                           ELSE InHand[i - Len(posted)]
    <3>1. posted \in Seq(Tasks) /\ InHand \in Seq(Tasks)
      BY <2>0, <2>1 DEF TypeOK
    <3> QED BY <2>1, <3>1, ConcatProperties
  <2>3. all \in Seq(Tasks) /\ Len(all) = Len(left) + Len(outputQueue)
        /\ \A i \in 1..(Len(left) + Len(outputQueue)) :
             all[i] = IF i <= Len(left) THEN left[i]
                                        ELSE outputQueue[i - Len(left)]
    BY <2>0, <2>2, ConcatProperties DEF TypeOK
  <2>4. Len(posted) \in Nat /\ Hands \in {0, 1} /\ Len(outputQueue) \in Nat
        /\ (Hands = 1 <=> posting # None)
    BY <2>0 DEF TypeOK, Hands
  <2> HIDE DEF left, all
  <2>5. ASSUME NEW i \in 1..Len(executed)
        PROVE  all[i] = executed[i]
    <3>1. CASE i <= Len(posted)
      BY <2>0, <2>2, <2>3, <2>4, <3>1 DEF OrderInv
    <3>2. CASE Hands = 1 /\ i = Len(posted) + 1
      BY <2>0, <2>1, <2>2, <2>3, <2>4, <3>2 DEF OrderInv
    <3>3. CASE i > Len(posted) + Hands
      <4>1. i - Len(left) \in 1..Len(outputQueue)
            /\ Len(posted) + Hands + (i - Len(left)) = i
            /\ i \in 1..(Len(left) + Len(outputQueue)) /\ ~(i <= Len(left))
        BY <2>0, <2>2, <2>4, <3>3 DEF OrderInv
      <4>2. all[i] = outputQueue[i - Len(left)]
        BY <2>3, <4>1
      <4>3. outputQueue[i - Len(left)] = executed[i]
        BY <2>0, <4>1 DEF OrderInv
      <4> QED BY <4>2, <4>3
    <3> QED BY <2>4, <3>1, <3>2, <3>3
  <2>6. Len(all) = Len(executed) /\ executed \in Seq(Tasks)
    BY <2>0, <2>2, <2>3 DEF OrderInv, TypeOK
  <2>7. all = executed
    BY <2>3, <2>5, <2>6, SeqEqual
  <2> QED BY <2>7 DEF PostsInOrder, left, all
<1> QED BY Invariance, <1>1, PTL
=============================================================================
