----------------------------- MODULE VoxelWorld -----------------------------
(***************************************************************************)
(* src/builtin/voxelworld/voxelworld.cpp: the voxels of a scene, kept in    *)
(* the nodes of its chunks and edited in buffers.  A callback given to      *)
(* voxelworld::access() reads and writes voxels; when it ends, commit()     *)
(* puts the dirty buffers of every world back into the nodes, has replicate *)
(* send them and tells the clients, which are initialised as they join.     *)
(*                                                                         *)
(* Replication is taken as SceneReplication shows it: a node and its        *)
(* changes reach every peer on the scene at some sync.  Of the client there *)
(* is what builtin/voxelworld/client_lua/module.lua does with the packets.  *)
(***************************************************************************)
EXTENDS Integers, Sequences, FiniteSets, SequencesExt, FiniteSetsExt

CONSTANTS
  Peers,
  Chunks,
  SectionOf,   \* the section that contains a chunk
  MaxBuffers,  \* m_max_buffers_loaded
  NoData,      \* a node that a client does not have
  MaxScenes, MaxEdits, MaxTypes, MaxWire  \* bounds

ASSUME NoDataAssumption == NoData \notin [v : Nat, t : Nat]

VARIABLES
  scene,    \* main_context's scenes, one after the other: "none", "live", "deleted"
  data,     \* buildat_voxel_data of the nodes of each scene
  peer,     \* the scene that replicate has a peer on: 0 for none yet
  gone,     \* peers that disconnected
  sent,     \* what replicate sent of each node to each peer
  evq,      \* events in the queue of the voxelworld module
  pc,       \* what the module's thread does
  inst,     \* m_instances
  buf,      \* chunk_buffers of each instance
  tracked,  \* m_sections_with_loaded_buffers
  total,    \* m_total_buffers_loaded
  inited,   \* m_clients_initialized
  reg,      \* m_voxel_reg: the number of types and the dirty flag
  physics,  \* m_nodes_needing_physics_update
  boxes,    \* version of the voxels that the node's collision shape was made of
  edits,    \* set_voxel() calls so far, which number the versions
  want,     \* what was last set in each chunk
  lost,     \* chunks of which a dirty buffer was dropped since
  wire,     \* packets on the way to each client
  copy,     \* the client's nodes with their voxel data
  mesh,     \* the data that the client last updated a node's mesh from
  types,    \* the client's voxel_reg
  readies   \* how often the client got voxelworld:ready

world == <<inst, buf, tracked, total, inited, reg, physics>>
nodes == <<scene, data, boxes>>
net == <<peer, gone, sent>>
history == <<edits, want, lost>>
client == <<copy, mesh, types, readies>>
vwVars == <<nodes, net, evq, pc, world, history, wire, client>>

Scenes == 1..MaxScenes
Sections == {SectionOf[c] : c \in Chunks}
Idle == [at |-> "idle"]
\* A chunk stands for one voxel of it, whose value is the number of the set_voxel()
\* that set it, with the types that it may need.  The chunk's other voxels, which
\* get_buffer() reads and commits together with it, are not followed.
Zero == [v |-> 0, t |-> 0]
Unloaded == [loaded |-> FALSE, dirty |-> FALSE, vol |-> Zero]
NoVoxels == [c \in Chunks |-> Zero]
NoBoxes == [c \in Chunks |-> 0]
NoBuffers == [c \in Chunks |-> Unloaded]

VWInit ==
  /\ scene = [s \in Scenes |-> "none"]
  /\ data = [s \in Scenes |-> NoVoxels]
  /\ boxes = [s \in Scenes |-> NoBoxes]
  /\ peer = [p \in Peers |-> 0] /\ gone = {}
  /\ sent = [p \in Peers |-> [c \in Chunks |-> NoData]]
  /\ evq = <<>> /\ pc = Idle /\ inst = {}
  /\ buf = [s \in Scenes |-> NoBuffers]
  /\ tracked = [s \in Scenes |-> {}] /\ total = [s \in Scenes |-> 0]
  /\ inited = [s \in Scenes |-> {}]
  /\ reg = [s \in Scenes |-> [n |-> 0, dirty |-> FALSE]]
  /\ physics = [s \in Scenes |-> {}]
  /\ edits = 0
  /\ want = [s \in Scenes |-> NoVoxels]
  /\ lost = [s \in Scenes |-> {}]
  /\ wire = [p \in Peers |-> <<>>]
  /\ copy = [p \in Peers |-> [c \in Chunks |-> NoData]]
  /\ mesh = [p \in Peers |-> [c \in Chunks |-> NoData]]
  /\ types = [p \in Peers |-> 0] /\ readies = [p \in Peers |-> 0]

-----------------------------------------------------------------------------
(* main_context, replicate and network, as far as voxelworld uses them *)

\* network's send(): packets for a peer that left are dropped.
SendTo(p, packets) == IF p \in gone THEN wire[p] ELSE wire[p] \o packets

DeleteScene(s) ==
  /\ scene[s] = "live"
  /\ scene' = [scene EXCEPT ![s] = "deleted"]
  /\ data' = [data EXCEPT ![s] = NoVoxels] /\ boxes' = [boxes EXCEPT ![s] = NoBoxes]
  /\ evq' = Append(evq, [ev |-> "scene_deleted", s |-> s])
  /\ UNCHANGED <<net, pc, world, history, wire, client>>

\* The game assigns its scene to a peer when the scene has its voxel world.
Join(p, s) ==
  /\ peer[p] = 0 /\ p \notin gone /\ scene[s] = "live" /\ s \in inst
  /\ peer' = [peer EXCEPT ![p] = s]
  /\ evq' = Append(evq, [ev |-> "joined", p |-> p])
  /\ UNCHANGED <<nodes, gone, sent, pc, world, history, wire, client>>

Leave(p) ==
  /\ peer[p] # 0 /\ p \notin gone
  /\ gone' = gone \cup {p}
  /\ evq' = Append(evq, [ev |-> "left", p |-> p])
  /\ wire' = [wire EXCEPT ![p] = <<>>]
  /\ UNCHANGED <<nodes, peer, sent, pc, world, history, client>>

OnScene(s) == {p \in Peers \ gone : peer[p] = s /\ scene[s] = "live"}
Stale(p, c) == sent[p][c] # data[peer[p]][c]

NodePacket(p, c) == [k |-> "node", c |-> c, d |-> data[peer[p]][c]]

\* sync_changes() of replicate
Sync(p, c) ==
  /\ \E s \in Scenes : p \in OnScene(s)
  /\ Stale(p, c) /\ Len(wire[p]) < MaxWire
  /\ wire' = [wire EXCEPT ![p] = SendTo(p, <<NodePacket(p, c)>>)]
  /\ sent' = [sent EXCEPT ![p][c] = data[peer[p]][c]]
  /\ UNCHANGED <<nodes, peer, gone, evq, pc, world, history, client>>

-----------------------------------------------------------------------------
(* Worlds *)

\* initialize_peer(), for the instance of scene s
InitPackets(s) == <<[k |-> "registry", t |-> reg[s].n], [k |-> "ready"]>>

\* load_or_generate_section() of all sections: a node with air for each chunk
LoadSections(s) ==
  /\ data' = [data EXCEPT ![s] = NoVoxels] /\ boxes' = [boxes EXCEPT ![s] = NoBoxes]

\* create_instance(), in a callback.  The constructor initialises the peers that
\* are on the scene already (281-290): there are none, as the game makes a scene
\* and its world in one handler, and assigns peers in others.
CreateInstance(s) ==
  /\ pc.at = "access" /\ scene[s] = "none" /\ s \notin inst
  /\ \A o \in Scenes : o < s => scene[o] = "deleted"
  /\ scene' = [scene EXCEPT ![s] = "live"]
  /\ inst' = inst \cup {s} /\ LoadSections(s)
  /\ inited' = [inited EXCEPT ![s] = OnScene(s)]
  /\ wire' = [p \in Peers |->
                IF p \in OnScene(s) THEN SendTo(p, InitPackets(s)) ELSE wire[p]]
  /\ UNCHANGED <<net, evq, pc, buf, tracked, total, reg, physics, history, client>>

\* The game adds a voxel to the world's registry, in a callback.
AddVoxelType(s) ==
  /\ pc.at = "access" /\ s \in inst /\ scene[s] = "live" /\ reg[s].n < MaxTypes
  /\ reg' = [reg EXCEPT ![s] = [n |-> @.n + 1, dirty |-> TRUE]]
  /\ UNCHANGED <<nodes, net, evq, pc, inst, buf, tracked, total, inited, physics,
                 history, wire, client>>

\* unload_old_buffers(): what it drops depends on the clock.
Unload(s, drop) ==
  LET loaded == {c \in Chunks : buf[s][c].loaded /\ SectionOf[c] \in tracked[s]}
  IN /\ drop \subseteq loaded
     /\ buf' = [buf EXCEPT ![s] = [c \in Chunks |->
                  IF c \in drop THEN Unloaded ELSE buf[s][c]]]
     /\ tracked' = [tracked EXCEPT ![s] = {SectionOf[c] : c \in loaded \ drop}]
     /\ total' = [total EXCEPT ![s] = Cardinality(loaded \ drop)]
     /\ lost' = [lost EXCEPT ![s] = @ \cup {c \in drop : buf[s][c].dirty}]

\* maintain_maximum_buffer_limit() does this at the start of set_voxel(),
\* get_voxel() and on_tick(): a step of its own, as it comes before what they do and
\* may find all buffers too young.
Maintain(s) ==
  /\ pc.at \in {"access", "tick"} /\ s \in inst /\ total[s] > MaxBuffers
  /\ \E drop \in SUBSET Chunks : Unload(s, drop)
  /\ UNCHANGED <<nodes, net, evq, pc, inst, inited, reg, physics, edits, want,
                 wire, client>>

\* Seeded fault: a section is not entered with the others when one is there.
Track_First(s, c) == IF tracked[s] = {} THEN {SectionOf[c]} ELSE tracked[s]

\* The section, in the sorted array
Track(s, c) == tracked[s] \cup {SectionOf[c]}

\* What get_buffer() makes of total_buffers_loaded
Count(s, c) == IF buf[s][c].loaded THEN total[s] ELSE total[s] + 1

\* get_buffer() of a buffer that has its volume, or reads it from the node
GetBuffer(s, c) == IF buf[s][c].loaded THEN buf[s][c]
                   ELSE [loaded |-> TRUE, dirty |-> FALSE, vol |-> data[s][c]]

\* What set_voxel() and get_voxel() have in common, in a callback that uses the
\* newest world.  If the scene was deleted before its instance, check_scene()
\* throws through the callback.
InBuffer(s, c, use) ==
  /\ pc.at = "access" /\ s \in inst /\ \A o \in inst : o <= s
  /\ IF ~buf[s][c].loaded /\ scene[s] = "deleted"
     THEN pc' = Idle /\ UNCHANGED <<buf, tracked, total, edits, want, lost>>
     ELSE /\ total' = [total EXCEPT ![s] = Count(s, c)]
          /\ tracked' = [tracked EXCEPT ![s] = Track(s, c)]
          /\ use /\ UNCHANGED pc
  /\ UNCHANGED <<nodes, net, evq, inst, inited, reg, physics, wire, client>>

GetVoxel(s, c) ==
  InBuffer(s, c, /\ buf' = [buf EXCEPT ![s][c] = GetBuffer(s, c)]
                 /\ UNCHANGED <<edits, want, lost>>)

SetVoxel(s, c) ==
  /\ edits < MaxEdits
  /\ InBuffer(s, c, /\ edits' = edits + 1
                    /\ want' = [want EXCEPT ![s][c] = [v |-> edits', t |-> reg[s].n]]
                    /\ buf' = [buf EXCEPT ![s][c] =
                                 [loaded |-> TRUE, dirty |-> TRUE, vol |-> want'[s][c]]]
                    /\ lost' = [lost EXCEPT ![s] = @ \ {c}])

-----------------------------------------------------------------------------
(* commit() *)

Access ==
  /\ pc = Idle /\ pc' = [at |-> "access"]
  /\ UNCHANGED <<nodes, net, evq, world, history, wire, client>>

\* access() commits when the callback ends, unless it throws.
EndAccess ==
  /\ pc.at = "access" /\ \E to \in {"commit", "idle"} : pc' = [at |-> to]
  /\ UNCHANGED <<nodes, net, evq, world, history, wire, client>>

ToCommit == {sc \in inst \X Chunks :
               buf[sc[1]][sc[2]].dirty /\ SectionOf[sc[2]] \in tracked[sc[1]]}

\* commit_chunk_buffer() up to the access of main_context.  The scene is gone if
\* scene_deleted still waits in the queue: this ends the commit of all worlds.
CommitWrite(s, c) ==
  /\ pc.at = "commit" /\ <<s, c>> \in ToCommit
  /\ IF scene[s] = "deleted" THEN pc' = Idle /\ UNCHANGED data
     ELSE /\ data' = [data EXCEPT ![s][c] = buf[s][c].vol]
          /\ pc' = [at |-> "registry", s |-> s, c |-> c]
  /\ UNCHANGED <<scene, boxes, net, evq, world, history, wire, client>>

\* send_voxel_registry_if_dirty()
SendRegistry(s) ==
  /\ wire' = [p \in Peers |-> IF reg[s].dirty /\ p \in inited[s]
                THEN SendTo(p, <<[k |-> "registry", t |-> reg[s].n]>>) ELSE wire[p]]
  /\ reg' = [reg EXCEPT ![s].dirty = FALSE]

\* Seeded fault: the registry is left to the next tick.
CommitRegistry_Later ==
  /\ pc.at = "registry" /\ pc' = [pc EXCEPT !.at = "sync"]
  /\ UNCHANGED <<nodes, net, evq, world, history, wire, client>>

CommitRegistry ==
  /\ pc.at = "registry" /\ pc' = [pc EXCEPT !.at = "sync"]
  /\ SendRegistry(pc.s)
  /\ UNCHANGED <<nodes, net, evq, inst, buf, tracked, total, inited, physics,
                 history, client>>

\* Seeded fault: the node is left to the next tick of replicate.
CommitSync_AtTick ==
  /\ pc.at = "sync"
  /\ pc' = [at |-> "notify", s |-> pc.s, c |-> pc.c, told |-> OnScene(pc.s)]
  /\ UNCHANGED <<nodes, net, evq, world, history, wire, client>>

\* sync_node_immediate(), and find_peers_that_know_node() after it
CommitSync ==
  LET stale == {p \in OnScene(pc.s) : Stale(p, pc.c)}
  IN /\ pc.at = "sync"
     /\ wire' = [p \in Peers |->
                   IF p \in stale THEN SendTo(p, <<NodePacket(p, pc.c)>>) ELSE wire[p]]
     /\ sent' = [p \in Peers |-> IF p \in stale
                   THEN [sent[p] EXCEPT ![pc.c] = data[pc.s][pc.c]] ELSE sent[p]]
     /\ pc' = [at |-> "notify", s |-> pc.s, c |-> pc.c, told |-> OnScene(pc.s)]
     /\ UNCHANGED <<nodes, peer, gone, evq, world, history, client>>

\* Seeded fault: the node is not marked for the update of its physics.
Mark_Forgets(s, c) == physics[s]

\* mark_node_for_physics_update()
Mark(s, c) == physics[s] \cup {c}

\* The rest of commit_chunk_buffer()
CommitNotify ==
  /\ pc.at = "notify"
  /\ wire' = [p \in Peers |-> IF p \in pc.told \cap inited[pc.s]
                THEN SendTo(p, <<[k |-> "updated", c |-> pc.c]>>) ELSE wire[p]]
  /\ physics' = [physics EXCEPT ![pc.s] = Mark(pc.s, pc.c)]
  /\ buf' = [buf EXCEPT ![pc.s][pc.c].dirty = FALSE]
  /\ pc' = [at |-> "commit"]
  /\ UNCHANGED <<nodes, net, evq, inst, tracked, total, inited, reg, history, client>>

EndCommit ==
  /\ pc.at = "commit" /\ ToCommit = {} /\ pc' = Idle
  /\ UNCHANGED <<nodes, net, evq, world, history, wire, client>>

-----------------------------------------------------------------------------
(* Events *)

\* ~CInstance(), with all that it holds
Erase(s) ==
  /\ inst' = inst \ {s}
  /\ buf' = [buf EXCEPT ![s] = NoBuffers] /\ tracked' = [tracked EXCEPT ![s] = {}]
  /\ total' = [total EXCEPT ![s] = 0] /\ inited' = [inited EXCEPT ![s] = {}]
  /\ reg' = [reg EXCEPT ![s] = [n |-> 0, dirty |-> FALSE]]
  /\ physics' = [physics EXCEPT ![s] = {}]
  /\ want' = [want EXCEPT ![s] = NoVoxels] /\ lost' = [lost EXCEPT ![s] = {}]

\* on_peer_joined_scene() of all instances, in the order of m_instances, a map
\* from pointers
PeerJoined(p) ==
  /\ inited' = [s \in Scenes |-> IF s \in inst THEN inited[s] \cup {p} ELSE inited[s]]
  /\ \E order \in SetToSeqs(inst) :
       wire' = [wire EXCEPT ![p] = SendTo(p, [i \in 1..(2 * Len(order)) |->
                  InitPackets(order[(i + 1) \div 2])[2 - (i % 2)]])]

\* on_peer_left_scene() of all instances
PeerLeft(p) ==
  /\ inited' = [s \in Scenes |-> inited[s] \ {p}]
  /\ UNCHANGED wire

\* Module::event(), which gives peers to all instances, whatever their scene
HandleEvent ==
  LET e == Head(evq) IN
  /\ pc = Idle /\ evq # <<>> /\ evq' = Tail(evq)
  /\ \/ e.ev = "scene_deleted" /\ Erase(e.s) /\ UNCHANGED wire
     \/ /\ e.ev \in {"joined", "left"}
        /\ IF e.ev = "joined" THEN PeerJoined(e.p) ELSE PeerLeft(e.p)
        /\ UNCHANGED <<inst, buf, tracked, total, reg, physics, want, lost>>
  /\ UNCHANGED <<nodes, net, pc, edits, client>>

\* on_tick() of an instance, when there is something to do: the collision shapes,
\* then the limit.  Nothing removes a chunk's node from a live scene, so that the
\* return when one is not found (329-333) is left out.
Tick(s) ==
  /\ pc = Idle /\ s \in inst
  /\ physics[s] # {} \/ reg[s].dirty \/ total[s] > MaxBuffers
  /\ IF scene[s] = "live"
     THEN /\ boxes' = [boxes EXCEPT ![s] = [c \in Chunks |->
                         IF c \in physics[s] THEN data[s][c].v ELSE boxes[s][c]]]
          /\ physics' = [physics EXCEPT ![s] = {}]
     ELSE UNCHANGED <<boxes, physics>>
  /\ pc' = [at |-> "tick", s |-> s]
  /\ UNCHANGED <<scene, data, net, evq, inst, buf, tracked, total, inited, reg,
                 history, wire, client>>

\* ... and the registry
TickEnd ==
  /\ pc.at = "tick" /\ SendRegistry(pc.s) /\ pc' = Idle
  /\ UNCHANGED <<nodes, net, evq, inst, buf, tracked, total, inited, physics,
                 history, client>>

-----------------------------------------------------------------------------
(* The client *)

Receive(p) ==
  LET m == Head(wire[p]) IN
  /\ wire[p] # <<>> /\ wire' = [wire EXCEPT ![p] = Tail(@)]
  /\ copy' = IF m.k = "node" THEN [copy EXCEPT ![p][m.c] = m.d] ELSE copy
  /\ types' = IF m.k = "registry" THEN [types EXCEPT ![p] = m.t] ELSE types
  /\ readies' = IF m.k = "ready" THEN [readies EXCEPT ![p] = @ + 1] ELSE readies
     \* at "ready" the nodes that are there, then new ones and updated ones
  /\ mesh' = [mesh EXCEPT ![p] = [c \in Chunks |->
       IF \/ m.k = "ready"
          \/ /\ readies[p] > 0 /\ m.k \in {"node", "updated"} /\ m.c = c
             /\ m.k = "node" => copy[p][c] = NoData
       THEN copy'[p][c] ELSE mesh[p][c]]]
  /\ UNCHANGED <<nodes, net, evq, pc, world, history>>

-----------------------------------------------------------------------------
VWNext ==
  \/ Access \/ EndAccess \/ CommitRegistry \/ CommitSync \/ CommitNotify \/ EndCommit
  \/ HandleEvent \/ TickEnd
  \/ \E s \in Scenes :
       \/ DeleteScene(s) \/ CreateInstance(s) \/ AddVoxelType(s)
       \/ Maintain(s) \/ Tick(s)
       \/ \E p \in Peers : Join(p, s)
       \/ \E c \in Chunks : GetVoxel(s, c) \/ SetVoxel(s, c) \/ CommitWrite(s, c)
  \/ \E p \in Peers :
       \/ Leave(p) \/ Receive(p)
       \/ \E c \in Chunks : Sync(p, c)

VWSpec == VWInit /\ [][VWNext]_vwVars

-----------------------------------------------------------------------------
(* What the voxel world promises *)

\* Besides: peers are initialised by instances that exist, and the count of loaded
\* buffers, which decides when to drop some, is right.
VWTypeOK ==
  /\ scene \in [Scenes -> {"none", "live", "deleted"}]
  /\ peer \in [Peers -> 0..MaxScenes] /\ gone \in SUBSET Peers
  /\ inst \in SUBSET Scenes /\ tracked \in [Scenes -> SUBSET Sections]
  /\ inited \in [Scenes -> SUBSET Peers] /\ physics \in [Scenes -> SUBSET Chunks]
  /\ lost \in [Scenes -> SUBSET Chunks] /\ edits \in 0..MaxEdits
  /\ \A s \in Scenes :
       /\ inited[s] # {} => s \in inst
       /\ total[s] = Cardinality({c \in Chunks : buf[s][c].loaded})

\* What was set in a chunk is in its node, or in a dirty buffer that the next
\* commit will find, unless a dirty buffer was dropped: and a clean buffer never
\* differs from the node.
WritesSurvive ==
  \A s \in inst, c \in Chunks :
    LET b == buf[s][c] IN
    /\ b.loaded => SectionOf[c] \in tracked[s]
    /\ scene[s] = "live" /\ b.loaded /\ ~b.dirty => b.vol = data[s][c]
    /\ scene[s] = "live" /\ c \notin lost[s] => want[s][c] = IF b.dirty THEN b.vol ELSE data[s][c]

\* A node whose collision shape is older than its voxels waits for a tick.
BoxesFollow ==
  \A s \in inst, c \in Chunks :
    scene[s] = "live" /\ boxes[s][c] # data[s][c].v =>
      c \in physics[s] \/ buf[s][c].dirty

\* A client is told once that it is ready, although a joining peer is given to
\* every instance, the one of a deleted scene included: module.lua takes a second
\* voxelworld:ready for an error.
ReadyOnce == \A p \in Peers : readies[p] <= 1

\* When all that was sent has arrived and everything is committed, the mesh of
\* each node of a ready client is of its present voxels.
MeshesFollow ==
  \A s \in inst, p \in Peers, c \in Chunks :
    /\ pc = Idle /\ evq = <<>> /\ wire[p] = <<>> /\ ToCommit = {}
    /\ p \in OnScene(s) /\ ~Stale(p, c)
    => mesh[p][c] = data[s][c]

\* What makes a ready client update a mesh never comes before the voxel types
\* that the node needs, nor before the node.
TypesComeFirst ==
  [][\A p \in Peers :
       LET m == Head(wire[p]) IN
       wire[p] # <<>> /\ wire'[p] = Tail(wire[p]) /\ m.k = "updated" =>
         copy[p][m.c] # NoData /\ copy[p][m.c].t <= types[p]]_vwVars

=============================================================================
