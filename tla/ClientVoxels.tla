---------------------------- MODULE ClientVoxels ----------------------------
(***************************************************************************)
(* How a client keeps the meshes and the collision shapes of voxel nodes:  *)
(* src/builtin/voxelworld/client_lua/module.lua queues an update of a node *)
(* with the distance at which it becomes due, the queue                    *)
(* (src/src/lua_bindings/spatial_update_queue.cpp) orders updates by the   *)
(* distance to the camera, and an update that is due becomes a task of the *)
(* thread pool (src/src/lua_bindings/mesh.cpp) that changes the node when  *)
(* it is posted.                                                           *)
(*                                                                         *)
(* Nodes and the camera are on a line.  Distances are integers and weights *)
(* are counted in 1/20, so every f and fw of the code is a fraction        *)
(* <<numerator, denominator>>; a denominator of 0 is the float infinity.   *)
(***************************************************************************)
EXTENDS Integers, Sequences, FiniteSets, SequencesExt

CONSTANTS
  VoxelNodes,   \* numbers of nodes with voxel data, their node_id
  PlaceOf,      \* where each node is
  CameraPlaces, \* where the camera may be; 0 is where it starts
  FarClip,      \* camera_far_clip
  MaxVolumes,   \* bound: volumes a node has one after the other
  MaxTasks,     \* bound: tasks of the thread pool
  PoolThreads   \* threads of the pool

ASSUME PlacesAssumption ==
  /\ VoxelNodes \subseteq Int /\ PlaceOf \in [VoxelNodes -> Int]
  /\ CameraPlaces \subseteq Int /\ FarClip \in Nat \ {0}

\* Values of the queue, in the order of ValueSet: by node_id, then by type.
Types == {"geometry", "physics"}
Values == VoxelNodes \X Types

VARIABLES
  cameraP,   \* m_p, the camera's place at the last frame
  oldestP,   \* m_queue_oldest_p
  queue,     \* m_queue, its most urgent item last
  oldQueue,  \* m_old_queue
  valueSet,  \* the values of m_value_set, whose iterators point into m_queue
  volume,    \* the volume each node has on the client; 0: no node yet
  tasks,     \* the pool's unfinished tasks, oldest first
  shown,     \* what each node's geometry and boxes were made for
  raced,     \* history: values whose tasks overlapped
  displaced, \* history: values whose update gave way to an older one, or that
             \* of a new volume to one of the camera
  frame      \* the Update of a frame: "no", about to handle the "first" due
             \* update, or "more"

queueVars == <<cameraP, oldestP, queue, oldQueue, valueSet>>
cvVars == <<queueVars, volume, tasks, shown, raced, displaced, frame>>

CVInit ==
  /\ cameraP = 0 /\ oldestP = 0
  /\ queue = <<>> /\ oldQueue = <<>> /\ valueSet = {}
  /\ volume = [n \in VoxelNodes |-> 0]
  /\ tasks = <<>>
  /\ shown = [v \in Values |-> [what |-> "nothing", volume |-> 0]]
  /\ raced = {} /\ displaced = {} /\ frame = "no"

-----------------------------------------------------------------------------
(* Seeded faults *)

EntryGreater_ByNode(v, w) == v[1] > w[1]

Due_ByWeight(item) == item.fw[1] <= item.fw[2]

-----------------------------------------------------------------------------
(* Items: what they wait for, and how urgent they are *)

Never == <<>>

\* near_trigger_d and near_weight of the updates that module.lua puts.
Near(what) ==
  CASE what = "initial"  -> <<(FarClip * 12) \div 10, 3>>
    [] what = "modified" -> <<(FarClip * 12) \div 10, 20>>
    [] what = "clipped"  -> <<(FarClip * 12) \div 10, 8>>
    [] what = "lod2"     -> <<64, 15>>
    [] what = "lod3"     -> <<128, 12>>
    [] what = "lod4"     -> <<192, 10>>
    [] what = "boxes"    -> <<100, 20>>
    [] what = "outside"  -> <<80, 20>>
    [] OTHER             -> Never

\* far_trigger_d and far_weight.
Far(what) ==
  CASE what = "lod1"   -> <<96, 10>>
    [] what = "lod2"   -> <<192, 8>>
    [] what = "lod3"   -> <<288, 8>>
    [] what = "lod4"   -> <<(FarClip * 14) \div 10, 8>>
    [] what = "inside" -> <<120, 4>>
    [] OTHER           -> Never

Less(x, y) == x[1] * y[2] < y[1] * x[2]

Abs(n) == IF n < 0 THEN -n ELSE n
Distance(value, p) == Abs(PlaceOf[value[1]] - p)

\* put_item() evaluates an item for the camera's place: the trigger that is
\* more urgent by fw and by f decides.  (The code does not keep d.)
Evaluate(value, what, p) ==
  LET d == Distance(value, p)
      near == Near(what)
      far == Far(what)
      nearItem == [value |-> value, what |-> what, d |-> d,
                   f |-> <<d, near[1]>>, fw |-> <<d * 20, near[1] * near[2]>>]
      farItem == [value |-> value, what |-> what, d |-> d,
                  f |-> <<far[1], d>>, fw |-> <<far[1] * 20, d * far[2]>>]
  IN IF near = Never THEN farItem
     ELSE IF /\ far # Never
             /\ Less(farItem.fw, nearItem.fw) /\ Less(farItem.f, nearItem.f)
          THEN farItem ELSE nearItem

Due(item) == item.f[1] <= item.f[2]

\* Item::operator>
Greater(x, y) ==
  IF Due(x) = Due(y) THEN Less(y.fw, x.fw) ELSE Due(y)

-----------------------------------------------------------------------------
(* The queue *)

\* ValueSet is sorted in descending order, and its remove() takes the first
\* entry that is not greater, which is another one if the value is not there.
EntryGreater(v, w) ==
  v[1] > w[1] \/ (v[1] = w[1] /\ v[2] = "physics" /\ w[2] = "geometry")

RemoveValue(set, value) ==
  {v \in set : \/ EntryGreater(v, value)
               \/ \E w \in set : /\ EntryGreater(w, v)
                                 /\ ~EntryGreater(w, value)}

\* The updates that show a new volume; the others follow the camera.
VolumeUpdates == {"initial", "modified", "boxes"}

\* put_item(): the item already there stays if it is more urgent, and is
\* replaced otherwise.
PutItem(q, item) ==
  LET old == SelectInSeq(q.queue, LAMBDA x : x.value = item.value)
      rest == IF item.value \in q.set THEN RemoveAt(q.queue, old) ELSE q.queue
      set == IF item.value \in q.set THEN RemoveValue(q.set, item.value)
                                     ELSE q.set
      ahead == SelectInSeq(rest, LAMBDA x : ~Greater(x, item))
      place == IF ahead = 0 THEN Len(rest) + 1 ELSE ahead
      displacedIf(lost) == IF lost THEN q.displaced \cup {item.value} ELSE q.displaced
  IN IF item.value \notin q.set
       THEN [queue |-> InsertAt(rest, place, item),
             set |-> set \cup {item.value}, displaced |-> q.displaced]
     ELSE IF Less(q.queue[old].fw, item.fw)
       THEN [q EXCEPT !.displaced = displacedIf(/\ item.what \in VolumeUpdates
                                                /\ q.queue[old].what \notin VolumeUpdates)]
     ELSE [queue |-> InsertAt(rest, place, item),
           set |-> set \cup {item.value},
           displaced |-> displacedIf(/\ item.what \notin VolumeUpdates
                                     /\ item.what # q.queue[old].what)]

Content == [queue |-> queue, set |-> valueSet, displaced |-> displaced]

Put(q, value, what) == PutItem(q, Evaluate(value, what, cameraP))

\* pop() of the most urgent item.
Popped ==
  [queue |-> Front(queue), set |-> RemoveValue(valueSet, Last(queue).value),
   displaced |-> displaced \ {Last(queue).value}]

SetContent(q) ==
  queue' = q.queue /\ valueSet' = q.set /\ displaced' = q.displaced

\* set_p(): when the camera has moved far enough from where the queue was
\* begun, all its items wait to be put anew.
Outdated(p) == oldQueue = <<>> /\ Abs(p - oldestP) > 20

\* update(): the items are put anew from the old queue's end.
PutAnew(q, old, count, p) ==
  LET content[n \in 0..count] ==
        IF n = 0 THEN q
        ELSE LET item == old[Len(old) - n + 1]
             IN PutItem(content[n - 1], Evaluate(item.value, item.what, p))
  IN content[count]

-----------------------------------------------------------------------------
(* The client's module, on the main thread *)

\* sync_node_added and voxelworld:node_volume_updated: the node, which has its
\* data, is queued for both updates.
NodeVolume(n) ==
  /\ frame = "no"
  /\ volume[n] < MaxVolumes
  /\ volume' = [volume EXCEPT ![n] = @ + 1]
  /\ LET what == IF volume[n] = 0 THEN "initial" ELSE "modified"
     IN SetContent(Put(Put(Content, <<n, "geometry">>, what),
                       <<n, "physics">>, "boxes"))
  /\ UNCHANGED <<cameraP, oldestP, oldQueue, tasks, shown, raced, frame>>

\* The head of an Update: set_p() for where the camera is now, and as many
\* operations of update() as time allows, one at least.
BeginFrame(p) ==
  /\ frame = "no" /\ frame' = "first"
  /\ cameraP' = p
  /\ LET old == IF Outdated(p) THEN queue ELSE oldQueue
         content == IF Outdated(p) THEN [Content EXCEPT !.queue = <<>>, !.set = {}] ELSE Content
     IN \E count \in 0..Len(old) :
          /\ count = 0 => old = <<>>
          /\ SetContent(PutAnew(content, old, count, p))
          /\ oldQueue' = SubSeq(old, 1, Len(old) - count)
  /\ oldestP' = IF Outdated(p) THEN p ELSE oldestP
  /\ UNCHANGED <<volume, tasks, shown, raced>>

\* What update_voxel_geometry() and update_voxel_physics() make of a node at
\* this distance.
Wanted(value) ==
  LET d == Distance(value, cameraP)
  IN IF value[2] = "physics" THEN IF d > 100 THEN "outside" ELSE "inside"
     ELSE IF d * 10 >= FarClip * 14 THEN "clipped"
     ELSE IF d < 80 THEN "lod1"
     ELSE IF d < 160 THEN "lod2"
     ELSE IF d < 240 THEN "lod3" ELSE "lod4"

Cleared == {"clipped", "outside"}

\* set_voxel_geometry(), set_voxel_lod_geometry() and
\* set_voxel_physics_boxes() give the node's data to a task.
RequestTask(value, what) ==
  /\ tasks' = Append(tasks, [value |-> value, what |-> what,
                             volume |-> volume[value[1]]])
  /\ UNCHANGED shown

\* clear_voxel_geometry() and clear_voxel_physics_boxes() act at once.
Clear(value, what) ==
  /\ shown' = [shown EXCEPT ![value] = [what |-> what, volume |-> 0]]
  /\ UNCHANGED tasks

InFlight(value) == \E i \in 1..Len(tasks) : tasks[i].value = value

NextIsDue == queue # <<>> /\ Due(Last(queue))

\* One round of the loop: the due update is taken out, its node is cleared or
\* gets a task, and the next update of the node is queued.
HandleUpdate ==
  /\ frame # "no" /\ frame' = "more"
  /\ NextIsDue
  /\ Len(tasks) < MaxTasks
  /\ LET value == Last(queue).value
         what == Wanted(value)
     IN /\ SetContent(Put(Popped, value, what))
        /\ IF what \in Cleared THEN Clear(value, what)
                               ELSE RequestTask(value, what)
        /\ raced' = IF InFlight(value) THEN raced \cup {value}
                                       ELSE raced \ {value}
  /\ UNCHANGED <<cameraP, oldestP, oldQueue, volume>>

\* The loop ends when nothing is due or time is up; one due update is handled
\* at least, where the bound on tasks allows it.
EndFrame ==
  /\ frame # "no" /\ frame' = "no"
  /\ frame = "more" \/ ~NextIsDue \/ Len(tasks) = MaxTasks
  /\ UNCHANGED <<queueVars, volume, tasks, shown, raced, displaced>>

\* The pool's threads run the oldest tasks, any of which may finish first;
\* then its post() sets the geometry or the boxes.
PostTask(i) ==
  /\ frame = "no"
  /\ i <= Len(tasks)
  /\ shown' = [shown EXCEPT ![tasks[i].value] =
                 [what |-> tasks[i].what, volume |-> tasks[i].volume]]
  /\ tasks' = RemoveAt(tasks, i)
  /\ UNCHANGED <<queueVars, volume, raced, displaced, frame>>

CVNext ==
  \/ \E n \in VoxelNodes : NodeVolume(n)
  \/ \E p \in CameraPlaces : BeginFrame(p)
  \/ HandleUpdate
  \/ EndFrame
  \/ \E i \in 1..PoolThreads : PostTask(i)

CVSpec == CVInit /\ [][CVNext]_cvVars

-----------------------------------------------------------------------------
(* Properties *)

\* The set of values leads to exactly the items of the queue, of which no two
\* have the same value: no iterator is left behind when items are replaced,
\* popped or swapped into the old queue, and remove() never meets a value
\* that is not there.  The queue is in its descending order.
QueueIsIndexed ==
  /\ valueSet = {queue[i].value : i \in 1..Len(queue)}
  /\ Cardinality(valueSet) = Len(queue)
  /\ \A i \in 1..Len(queue) - 1 : ~Greater(queue[i + 1], queue[i])

\* Nothing is left to be done while the camera stays where it is.
Settled ==
  /\ frame = "no" /\ tasks = <<>> /\ oldQueue = <<>>
  /\ ~Outdated(cameraP)
  /\ ~NextIsDue

\* How far the camera may go before the queue is evaluated anew, and how far
\* from a node its updates are made at all.
Slack == 20
Reach(value) == IF value[2] = "physics" THEN 100 ELSE (FarClip * 12) \div 10

\* An item that is put while the old queue is emptied may be evaluated for a
\* place to which the queue's own is not near; if the camera then comes back,
\* nothing evaluates it anew.
Misjudged(value) ==
  \E i \in 1..Len(queue) :
    queue[i].value = value /\ Abs(queue[i].d - Distance(value, cameraP)) > Slack

\* An item is the update of a volume, or follows what its value was given last.
\* (Does not hold with two nodes: the update that follows may be put while the
\* one before is still in the old queue, which then replaces it.)
FollowUpsAreOwn ==
  \A i \in 1..Len(queue) :
    LET value == queue[i].value
        last == SelectLastInSeq(tasks, LAMBDA t : t.value = value)
        given == IF last = 0 THEN shown[value].what ELSE tasks[last].what
    IN value \in raced \/ queue[i].what \in VolumeUpdates \cup {given}

\* When nothing is left to be done, a node near enough has the geometry and
\* the boxes of its last volume, for the distance at which it is: no update
\* was lost between the two queues or discarded for one that is not due, but
\* for those that are displaced.
NodesAreCurrent ==
  Settled =>
    \A v \in Values :
      LET d == Distance(v, cameraP)
          what == shown[v].what
      IN \/ volume[v[1]] = 0 \/ v \in raced \cup displaced \/ Misjudged(v)
         \/ d + Slack >= Reach(v)
         \/ /\ what # "nothing"
            /\ what \notin Cleared => shown[v].volume = volume[v[1]]
            /\ Near(what) # Never => d + Slack > Near(what)[1]
            /\ Far(what) # Never => d < Far(what)[1] + Slack
=============================================================================
