# Models and proofs of the buildat server

buildat is a game server whose functionality lives in *modules*: C++ objects
that are compiled at run time, loaded, reloaded and unloaded while the server
runs, each with a thread of its own.  Modules send each other events and call
into each other's threads.  A client downloads its files from the server,
caches them and executes them, gets copies of the scenes it takes part in, and
makes geometry of the voxels in them.  What is hard about this program is which
thread waits for which, what is queued when something is stopped or reloaded,
which of two things comes first, and what of a state that is kept in several
places has not followed yet.  That is what the TLA+ modules in this directory
describe; four more describe algorithms that are hard to get right by
themselves.

All paths below are relative to the root of the repository.

## 1. Inventory

### 1.1 Modelled components

**Module container and module thread** - `src/src/server/state.cpp` 40-400,
with `src/src/impl/thread.cpp` and `src/src/interface/semaphore.h`.
*State:* per module a thread, its stop flag and caller pointer; a queue of
events; one place for a posted callback (`direct_cb`) and for the exception it
ended with; three semaphores (`direct_cb_free_sem`, `event_queue_sem`,
`direct_cb_executed_sem`) and two mutexes.
*Operations:* start and init, `execute_direct_cb()`, `push_event()`, the loop
of `ModuleThread::run()`, `thread_request_stop()`, `thread_join()`, deletion.
*Interaction:* any thread calls in and blocks until the module's thread has
executed its callback in the caller's stack frame; any thread pushes events.
*Hard:* every interleaving of callers, events and a stop; one token more in
`direct_cb_free_sem` once a stop is requested; a semaphore that counts two
kinds of things.
*Correct if:* callers exclude each other, each gets the result of its own
callback, events keep their order, nobody wakes for nothing or sleeps over
work, and a stop ends.

**Access hierarchy** - `src/src/server/state.cpp` 970-1130.
*State:* who is blocked in whose thread, and the caller pointers that lead
along the chain.  *Operations:* `access_module()`, `check_valid_access_u()`,
`is_dependency_u()`, handlers that call on, exceptions that go back up.
*Hard:* chains of blocked threads must not close; an exception must free every
place it passes.  *Correct if:* no circle of waiting, and every access returns.

**Thread pool** - `src/src/impl/thread_pool.cpp`.
*State:* two queues, a semaphore, the workers.  *Operations:* `start()`,
`add_task()`, `run_post()`, `request_stop()`, `join()`, the workers' loop.
*Hard:* one semaphore both for tasks and for the end; tasks that go back to the
front of a queue others append to.  *Correct if:* no task is lost, executed
twice or finished out of order, and deleting the pool ends.

**Module management** - the rest of `src/src/server/state.cpp`,
`src/src/server/main.cpp`.
*State:* the containers by name, the load order, the subscriptions, requests
to unload and to reload, what modules stored.  *Operations:* load, reload,
unload, `handle_unloads_and_reloads()`, `sub_event()`, `emit_event()`,
`tmp_store_data()`, `tmp_restore_data()`, shutdown.
*Hard:* events that are being distributed while subscribers go; requests that
meet in one round; builds that fail half way; a module that handles events
between storing its state and its end.
*Correct if:* only what is loaded is subscribed, stored state survives,
requested reloads happen, and modules stop in the reverse order of loading.

**Client files** - `src/builtin/client_file/client_file.cpp`,
`src/src/client/state.cpp`, added to by `client_data` and `client_lua`.
*State:* on the server the files by name with content, hash and path, and the
watched ones; on the client the announced hashes, the cache by hash and the
files awaited.  *Operations:* adding, updating, watching, announcing,
requesting, transferring, and the reload of client_file.
*Hard:* a file changes while its old hash is being requested; the cache makes
an answer superfluous; client_file is reloaded with requests in its queue.
*Correct if:* the client ends with what the server has and tells so.

**Network** - `src/builtin/network/network.cpp`,
`src/src/impl/packet_stream.cpp`, `src/src/interface/select_handler.h`.
*State:* peers by id and by socket, buffers of half received packets, numbers
of packet names on both ends, the sockets `select()` was told of.
*Operations:* accept, receive and parse, disconnect, send; unload and continue.
*Hard:* the thread in `select()` looks at a list of sockets that the module has
changed since; a packet arrives in pieces; a reload loses what is not stored.
*Correct if:* packets become events with their names, in their order, all of
them, and a socket always leads to its own peer.

**World generation** - `src/builtin/worldgen/worldgen.cpp`, with the requests
of `src/builtin/voxelworld/voxelworld.cpp`.
*State:* per scene a generator and a queue of sections; one semaphore.
*Operations:* requests, create, enable and delete a generator, the
`GenerateThread`.
*Hard:* one token takes a section from every queue, disabled generators post
the semaphore again and deleted ones leave tokens behind.
*Correct if:* the thread never sleeps while a section waits, and every section
that reached an enabled generator is generated.

**Replication** - `src/builtin/replicate/replicate.cpp`, the scenes of
`src/builtin/main_context/main_context.cpp`, and the node packets of
`src/src/client/state.cpp`.
*State:* per peer the nodes and components it was sent, what is dirty of them,
and events that wait for the next sync; per client its copy of the scene.
*Operations:* assigning a scene, `sync_changes()` of every tick,
`sync_node_immediate()`, `emit_after_next_sync()`, a disconnect, a reload.
*Hard:* the nodes to process come out of a hash set; a removed node stays in
the states and is sent at every sync; a change of a node the client does not
have ends the client.
*Correct if:* parents come before children, no client is sent a change of what
it does not have, and copies catch up.

**Voxel world** - `src/builtin/voxelworld/voxelworld.cpp`.
*State:* per scene an instance with chunk buffers (loaded, dirty), the sections
that have any, their number, the peers that were initialised, the voxel
registry with a dirty flag, and the nodes whose physics are to be updated.
*Operations:* `create_instance()`, `set_voxel()`, `get_voxel()`, `commit()`,
`unload_old_buffers()`, `on_tick()`, peers that join and leave a scene, a scene
that is deleted.
*Hard:* one voxel lives in a buffer, in a node, in a collision shape and in
every client, and each follows the one before at another time; commit accesses
other modules in the middle; the scene may be gone before its instance.
*Correct if:* nothing that was set is lost but in a buffer dropped dirty, and
shapes, clients and their meshes follow.

**Client voxel nodes and the spatial update queue** -
`src/builtin/voxelworld/client_lua/module.lua`,
`src/src/lua_bindings/spatial_update_queue.cpp`, `src/src/lua_bindings/mesh.cpp`.
*State:* two queues of updates by distance, a set of iterators into the newer,
the camera's place when it was begun; tasks of the thread pool.
*Operations:* `put()`, `set_p()`, `update()`, `get()`; the frame's loop.
*Hard:* the old queue is merged into the new one a few items at a time, while
the camera moves on and volumes change; tasks of one node overlap.
*Correct if:* the set leads to just the items of the queue, and when there is
nothing left to do, nodes show their last volume.

**Meshes** - `src/src/impl/mesh.cpp`: faces of voxels at full and at lower
detail, and collision boxes.  *Hard:* borders, divisions that round toward
zero, an array that is read beyond a row.  *Correct if:* whoever looks at the
volume sees its surface, with the right texture the right way round, and the
boxes fill what is solid.

**Voxel, block and atlas registries** - `src/src/impl/voxel.cpp`, `block.cpp`,
`atlas.cpp`.  *State:* definitions on the server, the client's copy and its
cache, the atlases with their segments.  *Hard:* the copy is replaced while
tasks use the cache; an atlas fills up; a block of several voxels shows an
image in parts.  *Correct if:* a task draws the texture of its voxel.

**Ground plane lighting** -
`src/builtin/ground_plane_lighting/ground_plane_lighting.cpp`.
*State:* for each column of voxels how far down daylight reaches, dirty
sectors, the peers.  *Hard:* each handler looks from its own chunk down, into a
world that is ahead of the events; peers join between a change and the tick
that sends it.  *Correct if:* columns are as the whole column says, and clients
have them.

**Module loader** - `src/builtin/loader/loader.cpp`.
*State:* required modules, the order, modified modules waiting to be reloaded.
*Operations:* `activate()` with `require_modules()` and `step_through()`, the
loads, `on_module_modified()`, `on_tick()`.  *Hard:* dependencies are declared
from both sides, may be optional, missing or in a circle.  *Correct if:* what
is required comes first, and the loader gives up only if it has to.

**JSON** - `src/src/core/json.cpp` and `src/src/core/sajson.h`.
*State:* values; the parser's text, which it decodes in place, and its array of
words, which it fills from both ends.  *Hard:* the two ends are never compared;
writer and reader were written by different people.  *Correct if:* what is
written is read again, half of it is rejected, and the ends do not meet.

### 1.2 How they interact

    loader --requests--> Module management --starts, stops--> containers
    loader --json::load_string()--> JSON
    threads --access_module()--> Access hierarchy --execute_direct_cb()--> container
    threads --emit_event()--> Module management (subscriptions) --push_event()--> container
    Network --events--> Client files, replicate;  Client files --send()--> Network
    NetworkThread, GenerateThread --access_module()--> their own module
    voxelworld --event--> World generation --access_module()--> voxelworld
    voxelworld --nodes of the scene--> Replication --packets--> client
    voxelworld --node_volume_updated--> Ground plane lighting, clients
    client: node or packet --> update queue --> task of the Thread pool --> Meshes --> registries
    client frame --add_task(), run_post()--> Thread pool

`ModuleThread` is the mechanism the others rest on.  They take it as an atomic
step of a module's thread; the promise they use is the abstract module
`ModuleCalls`, and that the mechanism keeps it is checked and proved.
`VoxelWorld` takes replication as `SceneReplication` shows it: a node and its
changes reach every peer on the scene at some sync.

### 1.3 Components without a module of their own

| Component | Why |
| --- | --- |
| Event registry | A map from names to numbers under one mutex, filled once per name: event types are model values. |
| Client application, client Lua | One thread around Urho3D; what they do concurrently is in ThreadPool and ClientVoxels, what they keep in ClientFiles and SceneReplication. |
| Lua bindings | Conversions between Lua and C++.  Those with state of their own are in ClientVoxels. |
| Runtime compiler, operating system layer | External steps that may fail: a choice in ServerModules, a watch in ClientFiles. |
| Volumes, noise, compression, hashes | Numeric code on large data without interaction: nothing for TLC to enumerate. |
| Logging | Output. |
| Games and extensions, 3rdparty | Examples of use, vendored code; PolyVox's volume and surface extractor are in VoxelMesh. |

## 2. The modules

| Module | What it is | Checked by | Proved in |
| --- | --- | --- | --- |
| `ModuleCalls` | Abstract: what a container promises its users | through `ModuleThread` | |
| `ModuleThread` | The container and its thread, one step per observable operation | `MCModuleThread` | `Calls_proofs` |
| `ModuleAccess` | Modules blocked in each other | `MCModuleAccess` | `Calls_proofs` |
| `ThreadPool` | The client's thread pool | `MCThreadPool` | `ThreadPool_proofs` |
| `ServerModules` | Loading, reloading, unloading, events, shutdown | `MCServerModules` | `ServerModules_proofs` |
| `ClientFiles` | client_file and the client's cache | `MCClientFiles` | `ClientFiles_proofs` |
| `Network` | The network module, its thread, packet streams | `MCNetwork` | `Network_proofs` |
| `WorldGen` | Section requests and the GenerateThread | `MCWorldGen` | `Scenes_proofs` |
| `SceneReplication` | Scenes, replicate and the clients' copies | `MCSceneReplication` | `Scenes_proofs` |
| `VoxelWorld` | Chunk buffers, commit, and what follows it | `MCVoxelWorld` | `VoxelWorld_proofs` |
| `ClientVoxels` | The update queue and the tasks of voxel nodes | `MCParts` | `Parts_proofs` |
| `VoxelMesh` | Geometry and boxes of a volume | `MCParts` | `Parts_proofs` |
| `VoxelRegistry` | Definitions, blocks, atlases | `MCParts` | `Parts_proofs` |
| `GroundPlaneLighting` | Daylight by columns | `MCParts` | `Parts_proofs` |
| `Loader` | Order of loading, reloads of modified modules | `MCParts` | `Parts_proofs` |
| `JsonParser` | The parser of sajson and its array of words | `MCParts` | `Parts_proofs` |
| `Json` | Values, their text, what is read of it | `MCParts` | |

Each module has a section "Seeded faults": variants of actions with a
plausible bug, which no next-state relation uses.  They are there to show that
the properties can tell the code from a broken one; `PROJECT.json` names for
each property of a run the fault that violates it.

### 2.1 ModuleThread and ModuleCalls

`pc[t]` says where thread `t` is in `execute_direct_cb()`: waiting for
`direct_cb_free_sem`, before the stop check, about to post, waiting for
`direct_cb_executed_sem`, reading the result, about to free the place.
`runPc` does the same for `ModuleThread::run()`.  Each action is the code
between two operations another thread can observe; a section under a mutex
that does not block inside is one action.  `thread_request_stop()` does block
others inside its section: it posts two semaphores under `mc->mutex`, so it is
three actions (`RequestStop`, `StopPostFree`, `StopPostEvent`), and actions
that take that mutex carry the guard `MutexFree`.  A null `thread` is
dereferenced in the code; the model has the thread end in `segfault`, after
which the process is not `Alive` and nothing happens.  Events are numbered as
they are pushed, so that order is visible.

`Helpers` are callers the module's destructor waits for (as the destructors of
network and worldgen do), `Dependents` those Main joins first, `EarlyAccess`
lets callers in before `init()` is done; the runs take the plain case, the
proofs hold for all of them.

`ModuleCalls` knows calls, callbacks and events only: a callback executes at
most once, between call and return; the return carries its outcome; a closing
module may refuse or drop.  The refinement mapping is the operator
`CallState`: "called" until the history variable `ran` says that the callback
ran, then "executed" until the result is read.

### 2.2 ModuleAccess

Each module's thread is idle, in an event handler or in a callback.  A handler
makes `access_module()` calls, which the dependency check lets through
(`Access`) or rejects (`RejectAccess`).  An accepted one waits for the target's
place (`AcquireSlot`), the target executes it (`RunCallback`), calling on if it
likes, and `Return` takes the answer back.  Exceptions - a rejected access, an
error of the handler, a callback that threw - unwind along the chain unless
caught, which is a choice; an uncaught one in an event handler shuts the server
down.  `IsDependency` states the result of the code's search as a least fixed
point without recursion: n is in every set that contains the dependencies of m
and with each module its dependencies.

### 2.3 ThreadPool

`Main` is the client's frame: it adds tasks, calls `run_post()` and in the end
deletes the pool.  `PopOutput` and `CallPost` are the two halves of an
iteration of `run_post()`, between which workers append to the output queue.
`WaitTask`, `Grab` and `RunTask` are a worker's iteration.  A task's number is
its name; how often its `post()` has to be called and whether its `thread()`
throws are choices.

### 2.4 ServerModules

`<<m, g>>` is the g-th container of module m: containers are shared pointers,
and an emitter may hold one that is no longer in `m_modules`.  `mainPc` follows
the main thread through the loops of `handle_unloads_and_reloads()`: "send"
core:unload to all, then "erase", "request" and "join" each, then "load",
"init" and "continue" each, then the check for shutdown.  `PushEvent` is one
iteration over an emitter's snapshot of the subscribers.  A module's state is
the set of events it has handled; storing and restoring are what the modules
under `src/builtin` do in core:unload and core:continue.  A build fails by
choice.  An access to a module that is not there throws in the main thread,
which nothing catches: `mainPc` becomes "crashed".  The handlers of
core:unload and core:continue and `init()` do not throw in the model; in the
code that ends the main loop too.

### 2.5 ClientFiles

Contents stand for their hashes.  `toServer` joins the connection and the event
queue of client_file, `toClient` is the connection back; both are reliable and
keep their order (TCP).  `add_file_path()` reads the file (`ReadFile`) and then
watches it (`AddWatch`), and the disk may change between the two.  A file that
is gone cannot be opened; the exception shuts the server down (`CannotOpen`).
client_data adds the files of a module again each time the module is loaded, so
a file may be added twice (`MaxAdds`).  The reload
is four steps: `OnUnload` stores, `Restart` replaces the module and loses what
was queued, `OnContinue` starts to restore, `RestoreFile` restores one file.

### 2.6 Network

A packet is two pieces, enough for a packet to arrive in part.  `Output` is the
client's `PacketStream::output()`, `Input` the server's `input()`: it reads
whole packets until one has an unknown type.  Numbers of names begin at
`FirstType` (100 in the code) and have two bytes, whose values from `SignBit`
on are negative as `char`; `Parsed` is what `input()` makes of both by shifting
and or-ing them.  `pc` is the
NetworkThread: `GetSockets`, `Select`, then a call per round in which the
active sockets are handled one by one (`Accept`, `Receive`, `Disconnect`,
`NoPeer`).  The reload is as in ServerModules: `OnUnload`, `Erase`,
`RequestStop`, `ThreadEnds`, `Restart`, `OnContinue`.  If the thread finds the
module erased it crashes, as the code does, and the server shuts down.

A reload throws away the buffers.  If one held the first piece of a packet, the
next bytes are taken for the head of a packet, of any type and length, and from
then on nothing the client sends is read as it was written.  Type 0 is known
from the start, so that such bytes can also define a number anew, and they can
have a length at which `std::string` throws.  The history variable `garbled` has
the clients whose stream was `Cut` so; for them `InputGarbled` defines a name,
makes an event of any name or does nothing, and `InputThrows` ends the thread.

### 2.7 WorldGen

`CreateWorld` is the constructor of voxelworld's instance, which asks for every
section of its region once; since the events come from one thread and are
consumed in order, putting them into the queue at once shows worldgen nothing
it could not see otherwise.  `TakeToken` is the semaphore, `EnterCallback` the
callback on worldgen's thread, in which each scene gets `PostAgain` (disabled)
or `GenerateNextSection` (enabled).  While it is in the callback, worldgen
handles nothing else (`Idle`), but voxelworld goes on.

### 2.8 SceneReplication

Urho3D is external: of its replication there is what `replicate.cpp` relies on,
that a change marks a node dirty for the peers that have it, and a node that
comes or goes for the peers that have the scene's own node (`rooted`).
`SyncTick` is `sync_changes()` with the events of `emit_after_next_sync()`
after it; the order of the nodes to process is any order of the hash set that
keeps a dirty parent before its child.  `known`, `kcomp`, `dirty` and
`changed` are the peer's replication state, in which a removed node stays.
Versions stand for data, of the two kinds that have packets of their own.
`Apply` and `Receive` are the client's packet handlers: the one for delta
updates uses the node it did not find, and the client is then "crashed".

### 2.9 VoxelWorld

`pc` is the module's thread: idle, in a callback of `voxelworld::access()`, in
the steps of `commit()` or in `on_tick()`.  A commit is, for each dirty buffer,
`CommitWrite` (the node's data), `CommitRegistry`, `CommitSync` (replicate) and
`CommitNotify` (the clients): each accesses another module, and all other
modules go on meanwhile.  `Maintain` is `maintain_maximum_buffer_limit()`; which
buffers it finds old depends on the clock and is a choice.  `want` and `lost`
are history: what was last set, and which chunks had a dirty buffer dropped.
A chunk has one voxel: what two voxels of a buffer do to each other is left out.
`CreateInstance` makes a scene and its instance in one step, as games do in one
handler (`games/digger/main/main.cpp`), so that no peer is on the scene yet.
`Receive` is what `client_lua/module.lua` does with nodes, the registry,
`ready` and `node_volume_updated`.

### 2.10 ClientVoxels

Nodes and the camera are on a line.  An item of the queue has the distance at
which it becomes due and a weight; both the code's floats are fractions.  A
frame is `BeginFrame` (`set_p()` and some operations of `update()`),
`HandleUpdate` for each due update, `EndFrame`.  `PostTask` is a task of the
thread pool that finishes, in any order of those that run.

### 2.11 VoxelMesh

A volume is the array of the code, with its padding, so that an index beyond a
row reads the next one, as `getVoxelAt()` does.  `FacesOf`, `LodVolume` and
`LodFaces` are the functions that make geometry, with positions in half voxels;
`PhysicsBoxes` is the search for solid voxels, and the stretching of boxes along
x, y and z.  `Quads` is PolyVox's surface extractor, which is vendored
(`src/3rdparty/polyvox`) and mapped to its lines there.  `MeshAssumption` says of
the definition of undefined voxels only what every registry has, since it is
a default one (`voxel.h:53`): not solid, without textures.  What counts as
visible follows from it (`Visible`): a voxel drawn on edges is, unless it has
the undefined voxel's edge material.

### 2.12 VoxelRegistry

`AddBlock` makes the voxels of a block, `Deserialize` replaces the client's
registry by the server's, `Construct`, `StartThread` and `EndThread` are a task
that makes geometry of a voxel: it asks for textures on the main thread and
reads the cache on a thread of the pool.  A task is `torn` if the registries
changed under it.  `AddSegment` with its full atlases and its exceptions is
`atlas.cpp`.

### 2.13 GroundPlaneLighting

A voxel lets light through, stops it, or is in a chunk that is not loaded.
`SetVoxels` changes a chunk of the world at once, `Commit` sends the events, in
any order; `OnNodeVolumeUpdated` searches from its chunk downwards in the world
of that moment.  Once the scene is deleted it may find nothing, or go on with
the buffers that voxelworld still has loaded.  `OnTick` sends the dirty sectors,
`Joining` all that are known.

### 2.14 Loader

`Activate` finds the modules that are reached from the main module path,
`Step` and `EndSteps` are the two phases of `step_through()`, `LoadNext` asks
the server, which may fail.  Modules are numbers in the order of their names;
the loader itself, whose own modification it ignores, is not among them.

### 2.15 JsonParser and Json

A text is a sequence of bytes.  JsonParser is `sajson.h`: a state with the
place in the text and the array of words, with the turns of its loop as the
actions `Begin`, `ItemStart`, `Scalar`, `Push`, `Pop` and `Unexpected`.
Strings are decoded in the text itself (`Decoding`, a byte or an escape at a
time); `Installed` moves a finished container to the other end of the array and
sorts the records of an object.  By itself (`JPSpec`) it is given any text.

Json is what is around it: the operations of values, `Stringify`, the writer,
and `LoadSajson`, which makes a value of the words.  Its `Save` gives the parser
the text of a value, or what is left of it.  A double is a decimal.  It is
written with six digits, rounded, as the stream does (`FloatText`); that reading
rounds to binary, and the range of a double, are left out.  An exponent that
overflows an int in the code may give any double (`AnyDouble`).

### 2.16 MCParts

The six parts of 2.10 to 2.15 do not interact in the models.  `MCParts` extends
their modules, but for Json, which is instantiated side by side over the same
parser; in each behaviour one moves.  The properties are those of the extended
modules, so that what is proved of them is what the run checks.  Json is apart
because its values nest, which takes RECURSIVE operators, and no theorem can be
about a module that has any.

## 3. The runs

| Run | Instance | What it shows |
| --- | --- | --- |
| `module_thread` | Main and two callers with one call each, two events, a stop at any time | `CallerWaitsWhileRun`, `ResultIsOwn`, the refinement `ImplementsModuleCalls`; `WorkIsDone`, `StopCompletes` |
| `module_stop_race` | the same | violated: `CallsEndOnStop` |
| `module_access` | three modules in a chain of dependencies, each trying to access all, two accesses per handler | `NoWaitCycle`, `CallersWait`; `AccessesReturn` |
| `thread_pool` | three workers, four tasks, up to two calls of `post()` | `PostsInOrder`, `WakeupsSuffice`; `TasksFinish` |
| `server_modules` | two modules loaded three times at most, an emitter with two events, two requests | `SubscribersAreLoaded`, `StateSurvives`, `CrashesHaveACause`, `StopsNewestFirst`; `ReloadsFinish` |
| `client_files` | a file on the disk and one of a module, two contents and the empty one, a client whose cache has one of them, two changes, two calls of `add_file_path()`, one reload | `NothingMissing`, `FilesSurvive`; `UpToDate`, `TellAnswered` |
| `network` | two clients, one sending two packets, two names, a sign bit that the second name crosses, one reload | `PacketsInOrder`; `PacketsArrive` |
| `network_fds` | one name | violated: `FdsMatch` |
| `world_gen` | two scenes, worlds of two sections, two deletions | `TokensSuffice`; `SectionsAreGenerated` |
| `scene_replication` | a peer, a node and its child, four changes | `CopiesAreWellFormed`, `EmittedAfterSync`; `CopiesCatchUp` |
| `voxel_world` | a scene with two chunks of which one may be loaded, a peer, two writes, one voxel type | `WritesSurvive`, `BoxesFollow`, `MeshesFollow`, `TypesComeFirst` |
| `parts` | see below | `QueueIsIndexed`, `NodesAreCurrent`, `ShapesFillSolid`, `SurfaceIsSeen`, `ImagesAreShown`, `ClientsSeeGround`, `LoadsInOrder`, `RoundTrip`, `WordsSuffice` |

The modules state more than the runs check.  A type invariant is the weakest
thing to say of a module: those of `ModuleThread`, `ModuleAccess`,
`ThreadPool`, `WorldGen` and `ClientFiles` are proved (section 5), those of the
others, with counts, are there to be read, and to be added to a run when a module is changed; they hold
on the instances above.  `SlotExclusion`, `NoSpuriousWake`, `EventsInOrder` and
`OnePlace` are proved as well.  Claims of comments that the code does not keep
are stated in the modules under "What the source says of itself" or nearby
(section 4).

### 3.1 Why these bounds

- *module_thread.*  Two callers besides Main make three threads contend for
  one place while a stop adds its extra token: one owner, one waiter that the
  extra token wakes, and one that the first refused caller has to wake.  Two
  events are the least that can change their order, and can be queued behind a
  callback.  One call each is enough because a caller that is through is in
  the state it began in; the proofs cover any number.
- *module_access.*  Three modules give a dependency that is not direct, which
  the search has to find, and a chain of two blocked callers.  Two accesses per
  handler let a handler go on after an exception it caught.
- *thread_pool.*  More workers than one and more tasks than workers, so that
  workers overtake each other and tasks queue; a task that needs two calls of
  `post()` goes back in front of one that finished after it.
- *server_modules.*  Two modules have an order.  Three containers of a module
  allow two reloads of it, or its unloading and two loadings; two requests can
  meet in one round (an unload and a reload of one module) or in two.
- *client_files.*  Two contents suffice for a hash that is requested when the
  file has already changed, and for a file that changes back to what is
  cached; the empty content is ignored by one code path only.  A second
  `add_file_path()` can come between a change on the disk and the watch's
  callback.
- *network.*  Two clients reuse a socket number and, after a reload, a peer id.
  A stream that was cut makes one definition or event (`MaxGarbage`), as nothing
  is said of the next.
  Two packets have an order; two names put one beyond the sign bit (which is
  128 in the code, and the types begin at 100).
- *world_gen.*  Two scenes compete for tokens; two sections make a queue longer
  than one token; two deletions let a world and a generator go and come again
  with old requests on their way.  Two disabled generators with queues post two
  tokens for every one they take, so that the semaphore grows without bound;
  `MaxTokens` cuts this off by not letting the thread turn again in just that
  situation.
- *scene_replication.*  Peers share nothing but the scene, so one peer that
  joins, leaves or is lost at any time meets every order; two nodes have a
  parent and its child; four changes let a node come, change, be removed and
  another change follow it.  `MaxWire` lets a tick come before the packets of
  the last one have arrived.
- *voxel_world.*  Two chunks in sections of their own with a limit of one
  loaded buffer make the limit bite as soon as both are touched.  Two writes
  hit one chunk twice, with a commit between them or not, or both chunks.  One
  voxel type is one that clients do not know yet.
- *parts, client voxels.*  One node, at 0, and a camera at 0, 105 or 720 with a
  far clip of 500: near, at another level of detail and outside the physics, or
  clipped.  Two volumes and two tasks on two threads overlap in either order.
- *parts, mesh.*  4 x 2 x 2 voxels: a width that two divides and three does
  not, against the levels 2 and 3.  81 volumes with every row of undefined,
  invisible, drawn and solid voxels below, and two of bytes, one of which has
  its sign bit set.
- *parts, registry.*  A block of one voxel with two images and a side without
  one, and a block of two voxels that show parts of an image; atlases of 8
  pixels, so that they fill up; two tasks.
- *parts, ground.*  Two columns in sectors of their own, three chunks above
  each other so that one may be missing between two, three changes.
- *parts, loader.*  Three modules with every combination of dependencies and at
  most one declared in reverse; the third is there, absent or broken; one
  reload.
- *parts, json.*  Two edits nest a value in a container in a container.
  Scalars of every kind, one with more digits than are written (-1234567.5),
  strings with a byte above 127 before and after what is escaped, and the ones
  that do not come back; each text is read
  whole, cut after every byte, and with each byte removed; two texts by hand
  have what `stringify()` never writes.  `IntMax` is the real one.

### 3.2 Fairness

Weak fairness of a thread's steps says that a thread that can go on does: the
operating system schedules it, and handlers and callbacks end.  The code's
semaphores do not promise which waiter is woken.  In `module_thread` calls are
bounded, so every waiter's turn comes with weak fairness of each thread; in
`thread_pool` fairness is for *some* waiting worker.  Nobody has to make a
call, push an event, ask for a stop, change a file, connect or send: those
actions have no fairness.
In `server_modules` the main loop turns and a stopping thread ends; in
`client_files` client_file and the client take what comes; in `network`
`select()` returns within half a second (`network.cpp` passes that timeout).
In `scene_replication` the server ticks, and the client takes what comes.
`world_gen` needs strong fairness for `OnGenerationRequest`: a posted callback
goes before events, so the GenerateThread's callbacks disable it again and
again.  It is justified because the GenerateThread sleeps 5 ms between two
callbacks (`worldgen.cpp:241`), in which worldgen's thread is free to take an
event.

`CHECK_DEADLOCK FALSE` stands where the system really stops: after the module
is deleted (`module_thread`), when the bounded changes and reloads are used up
(`client_files`, `world_gen`, `scene_replication`, `voxel_world`, `parts`), and
after a crash of the NetworkThread, which
shuts the server down (`network`).  The other runs check for deadlock, with an
explicit stuttering step for a proper end (`Done`, `Terminated`).

### 3.3 What the properties leave out on purpose

- `ResultIsOwn`: a call that a stop discards returns without an exception
  though its callback never ran (see `OkMeansRan` below).
- `StateSurvives` is about what a module handled *before* its core:unload
  handler; what comes after is lost (`NothingAfterUnload`).
- `CrashesHaveACause` allows a crash if a build failed or a module of the round
  was not loaded when it began.
- `NothingMissing`, `UpToDate`: files that
  `add_file_path()` took in changed form without announcing them, files that
  changed between being read and watched, and empty files, which the watch's
  callback ignores.  `UpToDate` and `TellAnswered` are about servers that do
  not reload client_file and did not end over a file that cannot be opened;
  `TellAnswered` also excepts a file that turns up in the cache by another way than the one
  awaited, since the client then never checks whether it was the last, and an
  awaited file that `add_file_path()` replaced without announcing it
  (`client_data.cpp:83`): the request for the old content is dropped.
- `PacketsInOrder`: clients whose stream was cut within a packet by a reload.
- `NoWaitCycle` rests on declared dependencies without a circle
  (`DepsAcyclic`).  The loader sees to it for those that are required, not for
  optional ones (`loader.cpp:180`).
- `PacketsArrive`: clients with a type beyond the sign bit, and reloads.
- `SectionsAreGenerated`: requests that reach no generator instance are
  dropped for good, since voxelworld never asks again; games create the
  worldgen instance before the world.
- `CopiesCatchUp` is about peers on a scene that exists, and about nodes and
  their data; the client leaves removed nodes and components as they are
  ("TODO" in `state.cpp`).
- `WritesSurvive` excepts chunks of which a dirty buffer was dropped
  (`voxelworld.cpp:647`).
- `NodesAreCurrent` excepts updates the code does lose: an item judged for a
  place the camera only passed (`Misjudged`), an update that gave way to an
  older one of the old queue (`FollowUpsAreOwn` below), or that of a new volume
  to a more urgent one of the camera (both `displaced`), and tasks of one node
  that overlapped (`raced`).
- `SurfaceIsSeen` lets lower levels of detail be half a cell off, and textures
  of bottom sides be as seen from above: the code has both.  It says nothing of
  voxels behind one of their own edge material that is never drawn (`Joined`):
  no face is drawn between the two.
- `ShapesFillSolid` is about volumes of even sizes, as the chunks of voxelworld
  are (32, `voxelworld.cpp:229`; the sizes that are commented out are even too).
  A box is placed by whole halves (`w/2`, `mesh.cpp:938`) and a face by exact
  ones, so in a volume of odd size the boxes are half a voxel off.
- `ImagesAreShown` is about whole images (`PartsAreOwn` below) of which an
  atlas has room for one (`Fits`; `CacheIsDrawn` below), and about tasks that
  the registries were not changed under (`NeverTorn`).
- `RoundTrip` names what does not come back (`Readable`): gaps in arrays, NaN
  and infinity, and strings with a byte above 127 after an escape.  Doubles come
  back with six digits (`Rounded`), and integers
  within ten of INT_MAX / 10 as doubles.  A text whose parser reads
  words it never wrote is "undefined" and not followed, by `WordsSuffice`
  neither; objects with a key twice are not modelled.

Each of these is behaviour of the code as it is, and listed in `PROJECT.json`
under hazards at its line.

## 4. Where the code and what is said of it disagree

Two of these have a run of their own; each of the others has a definition that
TLC finds violated, on the instance of the component's run where nothing else
is said.

1. **A call that races a stop may wait for ever** (`state.cpp:187`,
   `module_stop_race`, `CallsEndOnStop`).  The comment at 136 says that a
   waiting `execute_direct_cb()` will cancel due to `stop_requested()`.  The
   check gives up `mc->mutex` before the callback is posted; if the stop is
   requested and noticed between the two, nobody executes or discards the
   callback.  `OkMeansRan` (a discarded callback is reported as executed) and
   `NoNullThread` (a caller with a container whose thread has been deleted
   dereferences a null pointer) are near it.
2. **A reload gives peer ids twice** (`network.cpp:141`, `network_fds`,
   `FdsMatch`).  `m_next_peer_id` is not stored, so the first connection after
   a reload takes the id of a restored peer; the check at 217 then may throw,
   which ends the server.
3. **Accesses both ways** (`state.cpp:1015`, `NeverBothWays`, with `NoDeps`).  The comment at
   1020 says that if one module accesses another, then never the other way
   round.  The check only knows declared dependencies, and nothing has to be
   declared.  With `DependenciesDeclared` the circle is impossible: this is a
   theorem.
4. **Events after core:unload** (`state.cpp:1260`, `NothingAfterUnload`).
   `doc/design.txt:56` says that a module is unloaded immediately after this
   handler.  All modules of a round get it before the first is unloaded, and
   handle further events meanwhile.
5. **A file on the disk loses its path** (`client_file.cpp:256`, `PathKept`).
   The comment at 28 says that the path is empty if the file is not a physical
   file.  It also is after the first watched change, and such a file is not
   watched again after a reload.
6. **A peer may be told twice that it is ready** (`voxelworld.cpp:354`,
   `ReadyOnce`, with two scenes).  `on_peer_joined_scene()` does not look at
   the scene: every instance initialises the peer, that of a deleted scene
   whose event still waits as well; `module.lua` takes the second for an error.
   `ground_plane_lighting.cpp` joins peers in the same way, and its client
   module uses a name that is not defined (`x_lists`) on the second `:init`.
7. **Registries change under the pool's threads** (`mesh.cpp:453`,
   `NeverTorn`), though the functions are said to be callable from any thread.
8. **Atlases by the wrong size** (`atlas.cpp:55`, `PartsAreOwn` with atlases
   of 16 pixels; `atlas.cpp:117`, `CacheIsDrawn` with atlases of 2).  An atlas
   is looked for by the size of the image and made with that of a part; an
   image of more than half the atlas is added before the exception that it does
   not fit, and found the next time, though it has never been drawn.
9. **Optional dependencies may come later** (`loader.cpp:180`,
   `OptionalComeFirst`).  The first phase of `step_through()` passes over them.
10. **What is written and what is read** (`json.cpp:480`, `sajson.h:1146`,
    `sajson.h:608`, the exceptions of `RoundTrip`).  NaN and infinity are
    printed as such, though the comment says that they are converted; a double
    is written with six digits only; a string
    with an escape and, after it, a byte above 127 is rejected; the result of
    parsing a key is not looked at, and a key may have no value.
11. **An old update replaces a newer one** (`spatial_update_queue.cpp:181`,
    `FollowUpsAreOwn`, with two nodes at 30 and 100 and the camera at 0, -40 and
    -120).  A node may be handled while its item still waits in the old queue.
    When that is put anew, `put_item()` takes it for the new one of the two, and
    if it is more urgent it replaces the item that follows what the node was
    just given: the node can stay at a low level of detail with the camera
    beside it.

Seen while modelling, without a property: `add_file_path()` of a file that is
there already replaces it without an announcement, so that a client that awaits
the old content is never answered; is_dependency_u() does not end if it searches
a circle of optional dependencies for a module outside of it; after a reload of
the network module
within a packet, the rest of the packet is read as packets, which may define
names anew (`packet_stream.cpp:34`) or end the server (`InputGarbled`,
`InputThrows`); `load_module()` of the loader ends
without a return statement; `generate_voxel_physics_boxes()` places boxes by an
integer half of the width, which is wrong for odd widths; volumes of bytes
extend the sign of values above 127; a reload of ground plane lighting forgets
every instance, as nobody creates them again.

## 5. What is proved

The theorems hold for any values of the constants that satisfy the modules'
assumptions: any number of threads, calls, events, modules, workers, tasks,
scenes, sections, files, contents, chunks, peers and columns.  The assumptions
are that `None`, `Main`, `NoModule`, `NoNode` and `NoData` are not among the things they are
told from, that bounds are natural numbers, that workers, files, nodes and
packet names are finitely many, the names no more than two bytes can number,
and in ModuleAccess that dependencies have no circle (`DepsAcyclic`: the loader loads
dependencies first, so it never gets through a circle but of optional ones).  The Loader has no such
assumption: circles are among the things it has to find; its modules are only
finitely many.  Places of voxel nodes and of the camera are integers and the far
clip is not 0, and images, blocks and atlases are not empty: the code divides by
their sizes.

**Calls_proofs.**  Of ModuleThread: `IInv` is the conjunction of
- `LifeInv`: where Main is determines the stop flag and the thread's existence;
- `SlotInv`: until a stop, `direct_cb_free_sem` and the holders of its token
  add up to one.  After it there is a token more, and `SlotExclusion` holds
  only because nobody passes the stop check any more; so exclusion alone is not
  inductive;
- `HandshakeInv`: a posted callback has its owner waiting, and a waiting caller
  has a callback that is posted, being completed, or executed;
- `WakeInv`: `event_queue_sem` plus the wake-up just taken equal the queued
  events, a posted callback not yet picked up and the stop's wake-up.  This is
  what "the semaphore counts" means, and `NoSpuriousWake` follows only from it;
- `QueueInv`: the queue holds the last events pushed, in order, and what was
  handled comes just before;
- `ResultInv`: what the exception slot holds is what became of the callback of
  the one caller that will read it.

Each part has a lemma, with one step per action.  From `Invariance` follow
`TypeCorrect`, `OneCallerAtATime`, `CallbackHasItsCaller`, `WakesForWork`,
`ResultsReachTheirCallers` and the action property `EventsKeepTheirOrder`.
`Refinement` proves `Spec => ImplementsModuleCalls`: the initial states
correspond, and every step is a step of `ModuleCalls` or none (`RefineStep`).

Of ModuleAccess: `DependencyUnfolds` and `NoDependencyCycle` are facts
about the dependency search.  `AccessIInv` adds to `CallersWait` that an answer
belongs to a waiting module that owns its target's place, and that whoever
waits passed the check.  `ChainIsBlocked` is `CallersWait`; `NoCircleOfWaiting`
proves `NoWaitCycle` under `DependenciesDeclared`: each blocked module waits
for one it depends on, and dependencies have no circle.

**ThreadPool_proofs.**  `TasksAreKept` (`OnePlace`) needs that the queue holds
the tasks added last and that the tasks before are held, executed or dropped,
each in one way; `PostsKeepTheirOrder` needs that posted tasks, the one in hand
and the output queue follow each other in the order of execution;
`NoMissingWakeup` (`WakeupsSuffice`) is inductive with the cardinalities of the
sets of workers, for which the workers must be finite.

**Network_proofs.**  `EventsInOrder` (`PacketsInOrder`).  What a peer has in its
buffer and what is on the wire behind it are one thing to the proof, what is
still to be read of its client (`Stream`): pieces of packets, head and tail in
turn, each with the name and number its sender gave it, numbers rising, and
beyond those of the events so far.  To cut pieces off its beginning leaves a
stream (`StreamEnd`), so it does not matter where `recv()` cuts or that
`input()` stops in the middle, and `StreamInv` says that each connected client
has one, until a reload cuts it within a packet: then the client is `garbled`
and nothing is claimed of it, but the other clients keep what they had
(`GarbledStep`).  This rests on the bookkeeping around it: no client is at two sockets
(`ConnInv`); the peer that `m_peers_by_socket` leads to may be another one after
a reload (`FdsMatch` is violated), but then its socket is not the one that has
data, and the call throws before it reads (`Serves`); and the peers that
`on_continue()` makes of the stored ones begin with empty buffers and no names
(`NewInv`).  A name is
right although numbers beyond the sign bit are misread: a number that parses as
one that is not negative was read as it was written (`ParsedIsWritten`, for
which both bytes count), and a packet whose number was misread is never
named.

**Scenes_proofs.**  Of WorldGen: `TypeCorrect` and `NeverAsleep`
(`TokensSuffice`): the longest queue never exceeds the semaphore, counting for
each scene the token the thread has taken and owes to it until the callback has
seen it.  It needs that a scene without a generator has no queue, because the
callback passes over it.

Of SceneReplication: `CopiesHold` (`CopiesAreWellFormed`) and
`NodesBeforeEvents` (`EmittedAfterSync`).  Whether a message does what it should
depends on all those before it on the wire.  `SentInv` says of the peer's
replication state what they have done together: each node replicate takes the
peer to know (`known`) is in its copy or about to be created by the wire,
messages of the wire find the nodes they are about when their turn comes
(`Usable`), and a live node the peer does not know is dirty.  `CopiesAreWellFormed`
then is inductive: every message finds the node it is about, and a new node its
parent.  An update writes one message for each dirty node, parents first, and
`FlattenSeq` puts these together: `FlatteningExists` shows that the recursive
function in its definition is one, by a counterexample of least length
(`Least`), and `Flattened` that it adds one node's messages after the other's.

**ServerModules_proofs.**  `StateIsKept` (`StateSurvives`) and `DiesWithACause`
(`CrashesHaveACause`).  That `tmp_store_data()` overwrites what was stored, and
that the container goes, is harmless only because a module has all its state
itself, except between its `init()` and its `core:continue` (`KeptInv`), and
nobody is erased who has not handled `core:unload` in the same round
(`UnloadInv`).  `LoadInv` says who is being loaded; a container that handles
events is the current one of its name or was told to unload (`ReadyInv`);
containers are numbered as they are made (`NumberInv`), so that a new one is
none that was told.

`SubscriptionsFollow` (`SubscribersAreLoaded`) and `ShutdownOrder`
(`StopsNewestFirst`) are about the two lists that are filtered.  `Only(s, S)`,
which is how the model says that entries are erased, keeps order and repetitions
and its entries are those of `s` in `S`; from that, an erased container has no
subscription, and the load order has each loaded module once, the order of the
numbers of containers being that of their loading.

**ClientFiles_proofs.**  `TypeCorrect`, `ContentsAreThere` (`NothingMissing`) and
`FilesAreKept` (`FilesSurvive`).  A content saves what is awaited only if it has
the hash that the client was told last.  It has: answers go the same ordered
way as announcements, so where a content stands on that way, the last
announcement of its file before it has its hash (`AnswersInv`, but for files
that changed unannounced), because client_file answers only for the hash the
file has, which is the one it announced last (`ToldInv`).  Requests are for
files the client was told of (`RequestInv`), nothing is on the way to or from a
client that is not connected (`PeerInv`), and `SurviveInv` follows the files
through the phases of a reload.

**VoxelWorld_proofs.**  `WritesAreKept` (`WritesSurvive`) and `ShapesFollowVoxels`
(`BoxesFollow`).  What was last set is in the dirty buffer if there is one, else
in the static node, and a loaded buffer that is not dirty is as the node
(`VoxelInv`); dirty buffers are loaded, in sections that `commit()` visits
(`BufferInv`); the buffer in hand is still dirty, and is what was written to
the node (`CommitInv`).  A chunk whose shape is not of its voxels is on the
physics list, but for the one in hand (`ShapeInv`), and a scene without an
instance leaves nothing for the next one (`FreshInv`).

`MeshesFollowVoxels` (`MeshesFollow`) and the action property `TypesFirst`
(`TypesComeFirst`) are about what reaches a client, and so need `NInv` about
what is on its way.  The packets and the scene's updates to a peer share one
ordered stream; what a peer has of a chunk is the last update on it, else what
it has (`CopyInv`), and that is what the node has unless a commit has the node in
hand (`SentInv`).  A commit sends the registry first and then the node
(`ThreadInv`), so whoever is told of an update has the node and its types by then
(`UpdateInv`), and the client's mesh will be made of the node's last data
(`MeshInv`).  The registry is sent when a peer joins its
scene, before any node of it (`JoinInv`, `RegistryInv`, `VoxelTypesInv`), for
any order in which a join finds the instances.

**Parts_proofs.**  Of GroundPlaneLighting: `GroundFollows` (`GroundIsCurrent`)
and, with it, `ClientsAreShown` (`ClientsSeeGround`), for columns of any height.
A handler searches from its own chunk downwards and does nothing if the light
ends above it, in a world that may be ahead of the events.  That is enough
because whatever is not right has its event to come: a place above `yst` that
stops the light, and `yst` at a place that does not any more (`GroundInv`).  It
needs that an event is about a chunk that is loaded (`LoadedInv`).  What a
client will know is the last packet on its way with the column, else what it
has; for a sector that is not dirty that is `yst` (`SeenInv`, with `ShowsTail`
and `ShowsJoin` for packets taken and added, and `SectorsAreSent` for what a
tick and a join send).

Of Loader: `LoadOrder` (`LoadsInOrder`), for any modules and dependencies.  What
the walk requires is closed under requirements if nothing is missing
(`ReachedIsComplete`, `RequiredIsClosed`).  What a module in the order requires
is before it (`OrderInv`); `step(false)` never finds what `step(true)` did not
(`StuckInv`).  So when `step_through()` gives up, each module left requires one
that is left, and then there is no right order at all: the first of them in it
would come before what it requires (`NoRightOrder`).

Of ClientVoxels: `QueueStaysIndexed` (`QueueIsIndexed`), for any nodes and
places.  The queue has one item for each value of the set and is descending for
any two items, not only for neighbours (`Indexed`).  That `put_item()` keeps it so
(`PutKeepsIndex`) needs that `operator>` orders items at all, infinite weights
included (`LessIsTransitive`, `GreaterIsTransitive`: no float is 0/0, by
`TriggersArePositive`), and that `ValueSet::remove()` takes out its own value
where it is there (`RemovesTheValue`).  `update()` is a recursive function; that
it exists and keeps the index is shown by the least number of items for which it
would not (`AnewExists`, `PutAnewKeepsIndex`).

`NodesStayCurrent` (`NodesAreCurrent`) rests on an update that is kept for each
value (`CurrentInv`, `KeptBy`): the item in the queue, or else all the value's
items in the old queue, is the update of its volume or the one that follows what
it is shown as, or will be once its tasks are posted (`Fitting`).  `set_p()` only
moves the items over, `update()` moves them back one by one (`AnewKeeps`, by
the least number of items again), and `put_item()` leaves an item that fits or
records that it was displaced (`PutKeepsOld`, `PutKeepsVolume`).  Once nothing is
left to be done, that item is in the queue and is not due, since the last is
not and the queue is descending; so the value is beyond the distance at which the
item comes near and within that at which it is far (`NotDue`, for each of the
weights in `module.lua`: where the near trigger weighs more than the far one,
what it says is still within the far one, but for "lod4").

Of VoxelRegistry: `TexturesAreShown` (`ImagesAreShown`), for any images, blocks
and atlases, however full these become and however often the registry is
replaced.  In an atlas of whole images that has room for any, the segments have
the atlas's own size and each is drawn in the place of its number
(`AtlasIsRight`); parts of images may be in it too, as `PartsAreOwn` shows, and
do no harm.  Places of two numbers lie apart and inside the atlas
(`PlacesAreApart`, `PlaceIsInside`).  An atlas only ever grows, so what a voxel
or a task refers to stays what it was (`JobIsRight`).  The 24 textures of a
voxel are added by a recursive function, which exists and adds one after the
other (`UpdatedTo`).  As for blocks, each part of a side's image is
shown by a segment at that side (`PartIsShown`) and by no other (`ShownOnce`).

Of VoxelMesh, for volumes of any size, any voxels and any definitions of them:
`ShapesFill` (`ShapesFillSolid`), where all sizes are even (`Even`), and
`SurfaceStaysSeen` (`SurfaceIsSeen`), without that.  Both begin with the array:
what is read at a point of it is that point's voxel (`ArrayHolds`, by division
with remainder, `RowMajor`), and the layer around a volume is undefined
(`PaddedHolds`).  A box grows until a layer is not all solid; the layer outside
of the volume never is, so it stops inside (`ReachExists`, `StretchedIsSolid`).
The search comes to every point (`SearchIsComplete`), and after each step what
it covered is in boxes of solid voxels only (`FoundRight`, by the least step
after which it would not be).  The two recursive functions are shown to exist
that way too.  The shapes of the node are then just these boxes, whatever it
had before (`ShapesAreBoxes`).

The two ways to make geometry differ in the array they extract, so the proof is
about any array that has the cells of a level of detail and nothing around them
(`IsGrid`): the volume itself is one (`DataIsGrid`), and so is the lower level
(`LodIsGrid`), where division toward zero of the border's -1 must not give
another cell (`QuotientOfBorder`), the last cell may be partly outside, and
there may be an empty layer more than needed.  A visible cell then has a quad
(`QuadIsThere`), a quad with a texture is of a cell (`QuadIsOfGrid`,
`NothingIsTextured`), and it is less than half a cell away from its place
whatever the remainder of the size (`LodFacesIs`, `DrawnRight`), with its
corners in order for all six sides (`CornersRight`).

Of JsonParser: `WordsAreEnough` (`WordsSuffice`), for any text, up to the place
where the code is undefined, if there is one.  The array has two
words more than the text has bytes, and no code tests for its end.  What the
proof counts is `Spare`: the words between what is open and what is finished,
less the bytes that are still to be read.  It is never below -1 (`JPInv`), and
below 0 only where a comma or a bracket has to come, which pays for the word
that is missing; if the text ends there, the two ends have crossed by one word
and the next turn of the loop rejects it.  A scalar takes no more words than
bytes, and one for its element (`ScalarIsRead`, `SpareAfterScalar`): a string
two, as it has two quotes, a number one.  A key takes two, and has two quotes
and a colon (`SpareAfterKey`).  A container that is closed is moved to as many
words as it had and one, and leaves its own (`InstalledIs`, `SpareAfterPop`).
This rests on a text that keeps its length while strings are decoded inside it,
and on a decoder that only goes forward (`DecodesFrom`, by the least step after
which it would not), and on elements that lead from the innermost container to
the root one by one (`OpenFrom`), which nothing that is written above them or
below `out` disturbs.

**Only model-checked.**
- All liveness properties (`CopiesCatchUp` and the like), which are beyond the
  prover.
- `RoundTrip`, which says what the recursive operators of `Json` compute for
  every value, nested in any way: that would take induction over data.

## 6. Done and left

Done, in this order: ModuleThread with ModuleCalls, ModuleAccess, ThreadPool,
ServerModules, ClientFiles, Network, WorldGen, with the proofs of the first
three and of WorldGen; then SceneReplication, VoxelWorld, ClientVoxels,
GroundPlaneLighting, Loader, VoxelMesh, VoxelRegistry and Json; then the proofs
of VoxelWorld, ServerModules, ClientFiles and GroundPlaneLighting; then those of
SceneReplication and of Network, of what VoxelWorld and ServerModules had left,
and of Loader, of the update queue and of the voxel registries; last, of the
client's voxel nodes, of VoxelMesh and of JsonParser.

Left, the most important first:

1. `ServerModules` composed with `ModuleCalls` instead of atomic handlers, now
   that its own proofs stand.

### Not modelled

- *Left out of modelled components:* modules without C++ code and file watches
  of sources (module management); a client that disconnects and comes again
  (client files); the way from the server to the clients, which is the same
  `PacketStream` (network); the stop of the GenerateThread (world generation);
  moving a peer to another scene, which nothing does, and attributes of
  components (replicate); commit hooks, which nobody adds, and the saving that
  is commented out (voxel world); the volume cache that only games use (client
  voxels); lighting of vertices, materials and models of small volumes
  (meshes); pixels (atlases); chunks that are not static (ground plane
  lighting).  `PROJECT.json` has these at each component.
- *Urho3D and Lua* are not in the repository: of them there is what the code
  relies on, marked external.  Of PolyVox, which is, there are the volume and
  the surface extractor.
- *Numbers:* distances in ClientVoxels are integers, doubles in Json are
  decimals that are rounded only where they are written, times are choices.
- The components of 1.3, for the reasons given there.
