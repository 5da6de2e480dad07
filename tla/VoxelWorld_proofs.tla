-------------------------- MODULE VoxelWorld_proofs --------------------------
(***************************************************************************)
(* What is written into a world stays there until a dirty buffer is        *)
(* dropped, collision shapes follow, and so does what the clients see: for *)
(* any number of scenes, chunks, peers and types, and however the sections *)
(* contain the chunks.                                                     *)
(*                                                                         *)
(* None is inductive as it stands.  A buffer is clean at the end of its    *)
(* commit only because it was dirty with just the node's voxels all the    *)
(* way (CommitInv); and its chunk is on the list of physics to update      *)
(* afterwards, but not before.                                             *)
(*                                                                         *)
(* What a client has is decided by packets that are still on the way, so   *)
(* the second invariant (NInv) says what the client has of a node and of   *)
(* the registry when it gets to each position of its wire (CopyAt,         *)
(* TypesAt), and that at the end of the wire it is what was sent.  That    *)
(* the one instance that is to initialise a peer is its scene's own rests  *)
(* on the order of events: a scene is deleted before the next one is made, *)
(* and peers join the next one after that (JoinInv).                       *)
(***************************************************************************)
EXTENDS VoxelWorld, FiniteSetTheorems, TLAPS

Versions == [v : Nat, t : Nat]
Buffers == [loaded : BOOLEAN, dirty : BOOLEAN, vol : Versions]
Steps == {"registry", "sync", "notify"}

\* What the module's thread does
Places ==
  [at : {"idle", "access", "commit"}] \cup [at : {"tick"}, s : Scenes]
    \cup [at : {"registry", "sync"}, s : Scenes, c : Chunks]
    \cup [at : {"notify"}, s : Scenes, c : Chunks, told : SUBSET Peers]

TypeInv ==
  /\ scene \in [Scenes -> {"none", "live", "deleted"}]
  /\ data \in [Scenes -> [Chunks -> Versions]]
  /\ boxes \in [Scenes -> [Chunks -> Nat]]
  /\ pc \in Places
  /\ inst \in SUBSET Scenes
  /\ buf \in [Scenes -> [Chunks -> Buffers]]
  /\ tracked \in [Scenes -> SUBSET Sections]
  /\ reg \in [Scenes -> [n : Nat, dirty : BOOLEAN]]
  /\ physics \in [Scenes -> SUBSET Chunks]
  /\ edits \in Nat
  /\ want \in [Scenes -> [Chunks -> Versions]]
  /\ lost \in [Scenes -> SUBSET Chunks]

\* A scene without an instance leaves nothing for the next one.
FreshInv ==
  \A s \in Scenes \ inst :
    buf[s] = NoBuffers /\ want[s] = NoVoxels /\ lost[s] = {} /\ physics[s] = {}

\* Dirty buffers are loaded, and commit() finds every loaded one.
BufferInv ==
  \A s \in inst, c \in Chunks :
    /\ buf[s][c].dirty => buf[s][c].loaded
    /\ buf[s][c].loaded => SectionOf[c] \in tracked[s]

\* What was set is in the node, or in the dirty buffer before it.
VoxelInv ==
  \A s \in inst, c \in Chunks :
    scene[s] = "live" =>
      /\ buf[s][c].loaded /\ ~buf[s][c].dirty => buf[s][c].vol = data[s][c]
      /\ c \notin lost[s] =>
           want[s][c] = IF buf[s][c].dirty THEN buf[s][c].vol ELSE data[s][c]

\* The buffer in hand stays dirty, and is what was written to the node.
CommitInv ==
  pc.at \in Steps =>
    /\ pc.s \in inst /\ buf[pc.s][pc.c].dirty
    /\ scene[pc.s] = "live" => data[pc.s][pc.c] = buf[pc.s][pc.c].vol

InHand(s, c) == pc.at \in Steps /\ pc.s = s /\ pc.c = c

\* Only the chunk in hand is not yet on the list.
ShapeInv ==
  \A s \in inst, c \in Chunks :
    scene[s] = "live" /\ boxes[s][c] # data[s][c].v =>
      c \in physics[s] \/ InHand(s, c)

IInv ==
  TypeInv /\ FreshInv /\ BufferInv /\ VoxelInv /\ CommitInv /\ ShapeInv

voxelVars == <<scene, data, boxes, pc, inst, buf, tracked, reg, physics,
               edits, want, lost>>

LEMMA Initial == VWInit => IInv
<1> SUFFICES ASSUME VWInit PROVE IInv
  OBVIOUS
<1>1. Zero \in Versions
  BY DEF Zero, Versions
<1>2. Unloaded \in Buffers
  BY <1>1 DEF Unloaded, Buffers
<1>3. Idle \in Places /\ Idle.at = "idle"
  BY DEF Idle, Places
<1>4. TypeInv
  BY <1>1, <1>2, <1>3 DEF VWInit, TypeInv, NoVoxels, NoBoxes, NoBuffers
<1> QED
  BY <1>3, <1>4 DEF VWInit, IInv, FreshInv, BufferInv, VoxelInv, CommitInv,
                    ShapeInv, Steps

\* Steps that leave what the invariant is about as it is.
LEMMA Elsewhere == ASSUME IInv, UNCHANGED voxelVars PROVE IInv'
  BY DEF IInv, voxelVars, TypeInv, FreshInv, BufferInv, VoxelInv, CommitInv,
         ShapeInv, InHand

\* Steps of the thread between callbacks and commits, that touch no voxels.
LEMMA Turn ==
  ASSUME IInv, pc.at \notin Steps, pc' \in Places, pc'.at \notin Steps,
         UNCHANGED <<scene, data, boxes, inst, buf, tracked, physics, edits,
                     want, lost>>,
         reg' \in [Scenes -> [n : Nat, dirty : BOOLEAN]]
  PROVE  IInv'
  BY DEF IInv, TypeInv, FreshInv, BufferInv, VoxelInv, CommitInv, ShapeInv, InHand

LEMMA RegistryType ==
  ASSUME IInv, NEW s, SendRegistry(s)
  PROVE  reg' \in [Scenes -> [n : Nat, dirty : BOOLEAN]]
<1>1. reg \in [Scenes -> [n : Nat, dirty : BOOLEAN]]
  BY DEF IInv, TypeInv
<1>2. reg' = [reg EXCEPT ![s].dirty = FALSE]
  BY DEF SendRegistry
<1> QED
  BY <1>1, <1>2

-----------------------------------------------------------------------------
(* Voxels and their buffers *)

LEMMA MaintainStep == ASSUME IInv, NEW s \in Scenes, Maintain(s) PROVE IInv'
<1> DEFINE loaded == {c \in Chunks : buf[s][c].loaded /\ SectionOf[c] \in tracked[s]}
<1>1. PICK drop \in SUBSET Chunks : Unload(s, drop)
  BY DEF Maintain
<1>2. /\ drop \subseteq loaded
      /\ buf' = [buf EXCEPT ![s] = [c \in Chunks |->
                   IF c \in drop THEN Unloaded ELSE buf[s][c]]]
      /\ tracked' = [tracked EXCEPT ![s] = {SectionOf[c] : c \in loaded \ drop}]
      /\ lost' = [lost EXCEPT ![s] = @ \cup {c \in drop : buf[s][c].dirty}]
  BY <1>1 DEF Unload
<1>3. /\ UNCHANGED <<scene, data, boxes, pc, inst, reg, physics, edits, want>>
      /\ pc.at \notin Steps /\ s \in inst
  BY DEF Maintain, nodes, Steps
<1>4. Unloaded \in Buffers /\ ~Unloaded.loaded /\ ~Unloaded.dirty
  BY DEF Unloaded, Buffers, Zero, Versions
<1>5. TypeInv'
  BY <1>2, <1>3, <1>4 DEF IInv, TypeInv, Sections
<1> HIDE DEF loaded
<1>6. ASSUME NEW c \in Chunks
      PROVE  /\ buf'[s][c] = IF c \in drop THEN Unloaded ELSE buf[s][c]
             /\ lost'[s] = lost[s] \cup {k \in drop : buf[s][k].dirty}
  BY <1>2 DEF IInv, TypeInv
<1>7. ASSUME NEW o \in Scenes, o # s
      PROVE  buf'[o] = buf[o] /\ lost'[o] = lost[o] /\ tracked'[o] = tracked[o]
  BY <1>2, <1>7 DEF IInv, TypeInv
<1>8. ASSUME NEW c \in Chunks, buf'[s][c].loaded PROVE SectionOf[c] \in tracked'[s]
  BY <1>2, <1>3, <1>4, <1>6, <1>8 DEF IInv, TypeInv, BufferInv, loaded
<1>9. inst \subseteq Scenes
  BY DEF IInv, TypeInv
<1>10. FreshInv' /\ BufferInv'
  BY <1>3, <1>4, <1>6, <1>7, <1>8, <1>9 DEF IInv, FreshInv, BufferInv
<1>11. VoxelInv'
  BY <1>3, <1>4, <1>6, <1>7, <1>9 DEF IInv, VoxelInv
<1>12. CommitInv' /\ ShapeInv'
  BY <1>3 DEF IInv, CommitInv, ShapeInv, InHand
<1> QED
  BY <1>5, <1>10, <1>11, <1>12 DEF IInv

\* What every use of a chunk's buffer by a callback has in common
UseOf(s, c) ==
  /\ UNCHANGED <<scene, data, boxes, pc, inst, reg, physics>>
  /\ pc.at = "access" /\ s \in inst /\ tracked' = [tracked EXCEPT ![s] = Track(s, c)]

\* A buffer in use and what is known of it
LEMMA UseStep ==
  ASSUME IInv, NEW s \in Scenes, NEW c \in Chunks, UseOf(s, c), TypeInv',
         NEW b, b.loaded,
         buf' = [buf EXCEPT ![s][c] = b],
         \A o \in Scenes, k \in Chunks : o # s \/ k # c =>
            want'[o][k] = want[o][k] /\ (k \in lost'[o] <=> k \in lost[o]),
         \A o \in Scenes : o # s => want'[o] = want[o] /\ lost'[o] = lost[o],
         scene[s] = "live" =>
           /\ ~b.dirty => b.vol = data[s][c]
           /\ c \notin lost'[s] => want'[s][c] = IF b.dirty THEN b.vol ELSE data[s][c]
  PROVE  IInv'
<1>1. ASSUME NEW o \in Scenes, NEW k \in Chunks
      PROVE  /\ buf'[o][k] = IF o = s /\ k = c THEN b ELSE buf[o][k]
             /\ tracked'[o] = IF o = s THEN tracked[s] \cup {SectionOf[c]} ELSE tracked[o]
  BY DEF IInv, TypeInv, UseOf, Track
<1>2. ASSUME NEW o \in Scenes, o # s PROVE buf'[o] = buf[o]
  BY <1>2 DEF IInv, TypeInv
<1>3. inst \subseteq Scenes
  BY DEF IInv, TypeInv
<1>4. FreshInv'
  BY <1>2, <1>3 DEF IInv, FreshInv, UseOf
<1>5. BufferInv'
  BY <1>1, <1>3 DEF IInv, BufferInv, UseOf
<1>6. VoxelInv'
  BY <1>1, <1>3 DEF IInv, VoxelInv, UseOf
<1>7. CommitInv' /\ ShapeInv'
  BY DEF IInv, CommitInv, ShapeInv, InHand, UseOf, Steps
<1> QED
  BY <1>4, <1>5, <1>6, <1>7 DEF IInv

\* The scene was deleted before its instance: the callback ends by exception.
LEMMA ThrowStep ==
  ASSUME IInv, NEW s, NEW c, NEW use, InBuffer(s, c, use),
         ~buf[s][c].loaded /\ scene[s] = "deleted"
  PROVE  IInv'
<1>1. /\ pc.at = "access" /\ pc' = Idle
      /\ UNCHANGED <<scene, data, boxes, inst, buf, tracked, reg, physics, edits,
                     want, lost>>
  BY DEF InBuffer, nodes
<1>2. Idle \in Places /\ Idle.at \notin Steps /\ pc.at \notin Steps
  BY <1>1 DEF Idle, Places, Steps
<1>3. reg' \in [Scenes -> [n : Nat, dirty : BOOLEAN]]
  BY <1>1 DEF IInv, TypeInv
<1> QED
  BY <1>1, <1>2, <1>3, Turn

LEMMA GetVoxelStep ==
  ASSUME IInv, NEW s \in Scenes, NEW c \in Chunks, GetVoxel(s, c) PROVE IInv'
<1>1. CASE ~buf[s][c].loaded /\ scene[s] = "deleted"
  BY <1>1, ThrowStep DEF GetVoxel
<1>2. CASE ~(~buf[s][c].loaded /\ scene[s] = "deleted")
  <2> DEFINE b == GetBuffer(s, c)
  <2>1. /\ UseOf(s, c) /\ buf' = [buf EXCEPT ![s][c] = b]
        /\ UNCHANGED <<edits, want, lost>>
    BY <1>2 DEF GetVoxel, InBuffer, UseOf, nodes
  <2>2. buf[s][c] \in Buffers /\ data[s][c] \in Versions
    BY DEF IInv, TypeInv
  <2>3. /\ b \in Buffers /\ b.loaded
        /\ b.dirty => buf[s][c].loaded /\ b = buf[s][c]
        /\ ~buf[s][c].loaded => ~b.dirty /\ b.vol = data[s][c]
        /\ buf[s][c].loaded => b = buf[s][c]
    BY <2>2 DEF GetBuffer, Buffers
  <2>4. TypeInv'
    BY <2>1, <2>3 DEF IInv, TypeInv, UseOf, Track, Sections
  <2>5. s \in inst /\ (buf[s][c].dirty => buf[s][c].loaded)
    BY <2>1 DEF IInv, BufferInv, UseOf
  <2>6. scene[s] = "live" =>
          /\ ~b.dirty => b.vol = data[s][c]
          /\ c \notin lost'[s] => want'[s][c] = IF b.dirty THEN b.vol ELSE data[s][c]
    BY <2>1, <2>3, <2>5 DEF IInv, VoxelInv
  <2> HIDE DEF b
  <2> QED
    BY <2>1, <2>3, <2>4, <2>6, UseStep
<1> QED
  BY <1>1, <1>2

LEMMA SetVoxelStep ==
  ASSUME IInv, NEW s \in Scenes, NEW c \in Chunks, SetVoxel(s, c) PROVE IInv'
<1>1. CASE ~buf[s][c].loaded /\ scene[s] = "deleted"
  BY <1>1, ThrowStep DEF SetVoxel
<1>2. CASE ~(~buf[s][c].loaded /\ scene[s] = "deleted")
  <2> DEFINE v == [v |-> edits + 1, t |-> reg[s].n]
             b == [loaded |-> TRUE, dirty |-> TRUE, vol |-> v]
  <2>1. /\ UseOf(s, c) /\ edits' = edits + 1
        /\ want' = [want EXCEPT ![s][c] = v]
        /\ buf' = [buf EXCEPT ![s][c] = [loaded |-> TRUE, dirty |-> TRUE,
                                         vol |-> want'[s][c]]]
        /\ lost' = [lost EXCEPT ![s] = @ \ {c}]
    BY <1>2 DEF SetVoxel, InBuffer, UseOf, nodes
  <2>2. edits \in Nat /\ reg[s].n \in Nat
    BY DEF IInv, TypeInv
  <2>3. v \in Versions /\ b \in Buffers /\ b.loaded /\ b.dirty /\ b.vol = v
    BY <2>2 DEF Versions, Buffers
  <2> HIDE DEF v
  <2>4. want'[s][c] = v /\ buf' = [buf EXCEPT ![s][c] = b]
    BY <2>1 DEF IInv, TypeInv
  <2> HIDE DEF b
  <2>5. /\ buf' \in [Scenes -> [Chunks -> Buffers]]
        /\ want' \in [Scenes -> [Chunks -> Versions]]
    <3>1. /\ buf \in [Scenes -> [Chunks -> Buffers]]
          /\ want \in [Scenes -> [Chunks -> Versions]]
          /\ want' = [want EXCEPT ![s][c] = v]
      BY <2>1 DEF IInv, TypeInv
    <3> QED
      BY <3>1, <2>3, <2>4
  <2>6. tracked' \in [Scenes -> SUBSET Sections] /\ lost' \in [Scenes -> SUBSET Chunks]
    BY <2>1 DEF IInv, TypeInv, UseOf, Track, Sections
  <2>7. TypeInv'
    BY <2>1, <2>2, <2>5, <2>6 DEF IInv, TypeInv, UseOf
  <2>8. \A o \in Scenes, k \in Chunks : o # s \/ k # c =>
          want'[o][k] = want[o][k] /\ (k \in lost'[o] <=> k \in lost[o])
    BY <2>1 DEF IInv, TypeInv
  <2>9. \A o \in Scenes : o # s => want'[o] = want[o] /\ lost'[o] = lost[o]
    BY <2>1 DEF IInv, TypeInv
  <2>10. UseOf(s, c)
    BY <2>1
  <2>11. scene[s] = "live" =>
          /\ ~b.dirty => b.vol = data[s][c]
          /\ c \notin lost'[s] => want'[s][c] = IF b.dirty THEN b.vol ELSE data[s][c]
    BY <2>3, <2>4
  <2> QED
    BY <2>3, <2>4, <2>7, <2>8, <2>9, <2>10, <2>11, UseStep
<1> QED
  BY <1>1, <1>2

-----------------------------------------------------------------------------
(* commit() *)

LEMMA CommitWriteStep ==
  ASSUME IInv, NEW s \in Scenes, NEW c \in Chunks, CommitWrite(s, c) PROVE IInv'
<1>1. /\ UNCHANGED <<scene, boxes, inst, buf, tracked, reg, physics, edits, want, lost>>
      /\ pc.at = "commit" /\ s \in inst /\ buf[s][c].dirty
  BY DEF CommitWrite, ToCommit, world, history
<1>2. CASE scene[s] = "deleted"
  <2>1. UNCHANGED data /\ pc' = Idle
    BY <1>2 DEF CommitWrite
  <2>2. Idle \in Places /\ Idle.at \notin Steps /\ pc.at \notin Steps
    BY <1>1 DEF Idle, Places, Steps
  <2>3. reg' \in [Scenes -> [n : Nat, dirty : BOOLEAN]]
    BY <1>1 DEF IInv, TypeInv
  <2> QED
    BY <1>1, <2>1, <2>2, <2>3, Turn
<1>3. CASE scene[s] # "deleted"
  <2>1. /\ data' = [data EXCEPT ![s][c] = buf[s][c].vol]
        /\ pc' = [at |-> "registry", s |-> s, c |-> c]
    BY <1>3 DEF CommitWrite
  <2>2. pc' \in Places /\ pc'.at \in Steps /\ pc'.s = s /\ pc'.c = c /\ pc.at \notin Steps
    BY <1>1, <2>1 DEF Places, Steps
  <2>3. buf[s][c] \in Buffers /\ buf[s][c].vol \in Versions
    BY DEF IInv, TypeInv, Buffers
  <2>4. data' \in [Scenes -> [Chunks -> Versions]]
    BY <2>1, <2>3 DEF IInv, TypeInv
  <2>5. TypeInv'
    BY <1>1, <2>2, <2>4 DEF IInv, TypeInv
  <2>6. ASSUME NEW o \in Scenes, NEW k \in Chunks
        PROVE  data'[o][k] = IF o = s /\ k = c THEN buf[s][c].vol ELSE data[o][k]
    BY <2>1 DEF IInv, TypeInv
  <2>7. inst \subseteq Scenes
    BY DEF IInv, TypeInv
  <2>8. FreshInv' /\ BufferInv'
    BY <1>1 DEF IInv, FreshInv, BufferInv
  <2>9. VoxelInv'
    BY <1>1, <2>6, <2>7 DEF IInv, VoxelInv
  <2>10. CommitInv'
    BY <1>1, <2>2, <2>6, <2>7 DEF CommitInv
  <2>11. ShapeInv'
    BY <1>1, <2>2, <2>6, <2>7 DEF IInv, ShapeInv, InHand
  <2> QED
    BY <2>5, <2>8, <2>9, <2>10, <2>11 DEF IInv
<1> QED
  BY <1>2, <1>3

\* The steps of a commit between writing the node and telling the clients
LEMMA InHandStep ==
  ASSUME IInv, pc.at \in Steps, pc' \in Places, pc'.at \in Steps,
         pc'.s = pc.s, pc'.c = pc.c,
         UNCHANGED <<scene, data, boxes, inst, buf, tracked, physics, edits,
                     want, lost>>,
         reg' \in [Scenes -> [n : Nat, dirty : BOOLEAN]]
  PROVE  IInv'
<1>1. TypeInv'
  BY DEF IInv, TypeInv
<1>2. FreshInv' /\ BufferInv' /\ VoxelInv' /\ CommitInv' /\ ShapeInv'
  BY DEF IInv, FreshInv, BufferInv, VoxelInv, CommitInv, ShapeInv, InHand
<1> QED
  BY <1>1, <1>2 DEF IInv

LEMMA CommitRegistryStep == ASSUME IInv, CommitRegistry PROVE IInv'
<1>1. pc \in Places /\ pc.at = "registry" /\ pc' = [pc EXCEPT !.at = "sync"]
  BY DEF IInv, TypeInv, CommitRegistry
<1>2. pc \in [at : {"registry", "sync"}, s : Scenes, c : Chunks]
  BY <1>1 DEF Places
<1>3. /\ pc' \in [at : {"registry", "sync"}, s : Scenes, c : Chunks]
      /\ pc'.at = "sync" /\ pc'.s = pc.s /\ pc'.c = pc.c
  BY <1>1, <1>2
<1>4. pc' \in Places /\ pc.at \in Steps /\ pc'.at \in Steps
  BY <1>1, <1>3 DEF Places, Steps
<1>5. reg' \in [Scenes -> [n : Nat, dirty : BOOLEAN]]
  BY RegistryType DEF CommitRegistry
<1>6. UNCHANGED <<scene, data, boxes, inst, buf, tracked, physics, edits, want, lost>>
  BY DEF CommitRegistry, nodes, history
<1> QED
  BY <1>3, <1>4, <1>5, <1>6, InHandStep

LEMMA CommitSyncStep == ASSUME IInv, CommitSync PROVE IInv'
<1>1. /\ pc \in Places /\ pc.at = "sync"
      /\ pc' = [at |-> "notify", s |-> pc.s, c |-> pc.c, told |-> OnScene(pc.s)]
  BY DEF IInv, TypeInv, CommitSync
<1>2. pc \in [at : {"registry", "sync"}, s : Scenes, c : Chunks]
  BY <1>1 DEF Places
<1>3. OnScene(pc.s) \in SUBSET Peers
  BY DEF OnScene
<1>4. /\ pc' \in [at : {"notify"}, s : Scenes, c : Chunks, told : SUBSET Peers]
      /\ pc'.at = "notify" /\ pc'.s = pc.s /\ pc'.c = pc.c
  BY <1>1, <1>2, <1>3
<1>5. pc' \in Places /\ pc.at \in Steps /\ pc'.at \in Steps
  BY <1>1, <1>4 DEF Places, Steps
<1>6. /\ UNCHANGED <<scene, data, boxes, inst, buf, tracked, physics, edits, want, lost>>
      /\ UNCHANGED reg
  BY DEF CommitSync, nodes, history, world
<1>7. reg' \in [Scenes -> [n : Nat, dirty : BOOLEAN]]
  BY <1>6 DEF IInv, TypeInv
<1> QED
  BY <1>4, <1>5, <1>6, <1>7, InHandStep

LEMMA CommitNotifyStep == ASSUME IInv, CommitNotify PROVE IInv'
<1>1. /\ pc \in Places /\ pc.at = "notify" /\ pc' = [at |-> "commit"]
      /\ physics' = [physics EXCEPT ![pc.s] = Mark(pc.s, pc.c)]
      /\ buf' = [buf EXCEPT ![pc.s][pc.c].dirty = FALSE]
      /\ UNCHANGED <<scene, data, boxes, inst, tracked, reg, edits, want, lost>>
  BY DEF IInv, TypeInv, CommitNotify, nodes, history
<1>2. pc \in [at : {"notify"}, s : Scenes, c : Chunks, told : SUBSET Peers]
  BY <1>1 DEF Places
<1>3. PICK s \in Scenes, c \in Chunks : pc.s = s /\ pc.c = c
  BY <1>2
<1>4. pc' \in Places /\ pc'.at \notin Steps /\ pc.at \in Steps
  BY <1>1 DEF Places, Steps
<1>5. /\ s \in inst /\ buf[s][c].dirty
      /\ scene[s] = "live" => data[s][c] = buf[s][c].vol
  BY <1>3, <1>4 DEF IInv, CommitInv
<1> DEFINE b == [buf[s][c] EXCEPT !.dirty = FALSE]
<1>6. buf[s][c] \in Buffers
  BY DEF IInv, TypeInv
<1>7. /\ b \in Buffers /\ ~b.dirty /\ b.vol = buf[s][c].vol
      /\ b.loaded = buf[s][c].loaded
  BY <1>6 DEF Buffers
<1>8. /\ buf' = [buf EXCEPT ![s][c] = b]
      /\ physics' = [physics EXCEPT ![s] = physics[s] \cup {c}]
  BY <1>1, <1>3 DEF Mark
<1>9. UNCHANGED <<scene, data, boxes, inst, tracked, reg, edits, want, lost>>
  BY <1>1
<1> HIDE DEF b
<1>10. /\ buf \in [Scenes -> [Chunks -> Buffers]] /\ physics \in [Scenes -> SUBSET Chunks]
       /\ inst \subseteq Scenes
  BY DEF IInv, TypeInv
<1>11. buf' \in [Scenes -> [Chunks -> Buffers]] /\ physics' \in [Scenes -> SUBSET Chunks]
  BY <1>7, <1>8, <1>10
<1>12. TypeInv'
  BY <1>4, <1>9, <1>11 DEF IInv, TypeInv
<1>13. \A o \in Scenes, k \in Chunks :
         /\ buf'[o][k] = IF o = s /\ k = c THEN b ELSE buf[o][k]
         /\ k \in physics'[o] <=> k \in physics[o] \/ (o = s /\ k = c)
  BY <1>8, <1>10
<1>14. \A o \in Scenes : o # s => buf'[o] = buf[o] /\ physics'[o] = physics[o]
  BY <1>8, <1>10
<1>15. FreshInv'
  BY <1>5, <1>9, <1>14 DEF IInv, FreshInv
<1>16. BufferInv'
  BY <1>7, <1>9, <1>10, <1>13 DEF IInv, BufferInv
<1>17. VoxelInv'
  BY <1>5, <1>7, <1>9, <1>10, <1>13 DEF IInv, VoxelInv
<1>18. CommitInv'
  BY <1>4 DEF CommitInv
<1>19. ShapeInv'
  BY <1>3, <1>9, <1>10, <1>13 DEF IInv, ShapeInv, InHand
<1> QED
  BY <1>12, <1>15, <1>16, <1>17, <1>18, <1>19 DEF IInv

-----------------------------------------------------------------------------
(* Worlds, events and ticks *)

LEMMA CreateInstanceStep ==
  ASSUME IInv, NEW s \in Scenes, CreateInstance(s) PROVE IInv'
<1>1. /\ pc.at = "access" /\ s \notin inst /\ inst' = inst \cup {s}
      /\ scene' = [scene EXCEPT ![s] = "live"]
      /\ data' = [data EXCEPT ![s] = NoVoxels] /\ boxes' = [boxes EXCEPT ![s] = NoBoxes]
      /\ UNCHANGED <<pc, buf, tracked, reg, physics, edits, want, lost>>
  BY DEF CreateInstance, LoadSections, history
<1>2. /\ NoVoxels \in [Chunks -> Versions] /\ NoBoxes \in [Chunks -> Nat]
      /\ \A c \in Chunks : /\ NoVoxels[c] = Zero /\ NoBoxes[c] = 0 /\ Zero.v = 0
                          /\ ~NoBuffers[c].loaded /\ ~NoBuffers[c].dirty
  BY DEF NoVoxels, NoBoxes, NoBuffers, Unloaded, Zero, Versions
<1>3. TypeInv'
  BY <1>1, <1>2 DEF IInv, TypeInv
<1>4. /\ scene'[s] = "live" /\ data'[s] = NoVoxels /\ boxes'[s] = NoBoxes
      /\ \A o \in Scenes : o # s =>
           scene'[o] = scene[o] /\ data'[o] = data[o] /\ boxes'[o] = boxes[o]
  BY <1>1 DEF IInv, TypeInv
<1>5. buf[s] = NoBuffers /\ want[s] = NoVoxels /\ lost[s] = {} /\ inst \subseteq Scenes
  BY <1>1 DEF IInv, TypeInv, FreshInv
<1>6. FreshInv' /\ BufferInv'
  BY <1>1, <1>2, <1>5 DEF IInv, FreshInv, BufferInv
<1>7. VoxelInv'
  BY <1>1, <1>2, <1>4, <1>5 DEF IInv, VoxelInv
<1>8. CommitInv'
  BY <1>1 DEF CommitInv, Steps
<1>9. ShapeInv'
  BY <1>1, <1>2, <1>4, <1>5 DEF IInv, ShapeInv, InHand
<1> QED
  BY <1>3, <1>6, <1>7, <1>8, <1>9 DEF IInv

LEMMA AddVoxelTypeStep ==
  ASSUME IInv, NEW s \in Scenes, AddVoxelType(s) PROVE IInv'
<1>1. reg \in [Scenes -> [n : Nat, dirty : BOOLEAN]] /\ pc \in Places
  BY DEF IInv, TypeInv
<1>2. reg' = [reg EXCEPT ![s] = [n |-> reg[s].n + 1, dirty |-> TRUE]]
  BY DEF AddVoxelType
<1>3. reg' \in [Scenes -> [n : Nat, dirty : BOOLEAN]]
  BY <1>1, <1>2
<1>4. /\ UNCHANGED <<scene, data, boxes, inst, buf, tracked, physics, edits, want, lost>>
      /\ pc' = pc /\ pc.at \notin Steps
  BY DEF AddVoxelType, nodes, history, Steps
<1> QED
  BY <1>1, <1>3, <1>4, Turn

LEMMA DeleteSceneStep ==
  ASSUME IInv, NEW s \in Scenes, DeleteScene(s) PROVE IInv'
<1>1. /\ scene' = [scene EXCEPT ![s] = "deleted"]
      /\ data' = [data EXCEPT ![s] = NoVoxels] /\ boxes' = [boxes EXCEPT ![s] = NoBoxes]
      /\ UNCHANGED <<pc, inst, buf, tracked, reg, physics, edits, want, lost>>
  BY DEF DeleteScene, world, history
<1>2. NoVoxels \in [Chunks -> Versions] /\ NoBoxes \in [Chunks -> Nat]
  BY DEF NoVoxels, NoBoxes, Zero, Versions
<1>3. TypeInv'
  BY <1>1, <1>2 DEF IInv, TypeInv
<1>4. /\ scene'[s] = "deleted" /\ inst \subseteq Scenes
      /\ \A o \in Scenes : o # s =>
           scene'[o] = scene[o] /\ data'[o] = data[o] /\ boxes'[o] = boxes[o]
  BY <1>1 DEF IInv, TypeInv
<1>5. FreshInv' /\ BufferInv'
  BY <1>1 DEF IInv, FreshInv, BufferInv
<1>6. VoxelInv'
  BY <1>1, <1>4 DEF IInv, VoxelInv
<1>7. CommitInv'
  BY <1>1, <1>4 DEF IInv, CommitInv
<1>8. ShapeInv'
  BY <1>1, <1>4 DEF IInv, ShapeInv, InHand
<1> QED
  BY <1>3, <1>5, <1>6, <1>7, <1>8 DEF IInv

LEMMA EraseStep ==
  ASSUME IInv, NEW s, Erase(s), pc = Idle,
         UNCHANGED <<scene, data, boxes, pc, edits>>
  PROVE  IInv'
<1>1. /\ inst' = inst \ {s} /\ buf' = [buf EXCEPT ![s] = NoBuffers]
      /\ tracked' = [tracked EXCEPT ![s] = {}]
      /\ reg' = [reg EXCEPT ![s] = [n |-> 0, dirty |-> FALSE]]
      /\ physics' = [physics EXCEPT ![s] = {}]
      /\ want' = [want EXCEPT ![s] = NoVoxels] /\ lost' = [lost EXCEPT ![s] = {}]
  BY DEF Erase
<1>2. NoVoxels \in [Chunks -> Versions] /\ NoBuffers \in [Chunks -> Buffers]
  BY DEF NoVoxels, NoBuffers, Unloaded, Zero, Versions, Buffers
<1>3. pc.at \notin Steps
  BY DEF Idle, Steps
<1>4. TypeInv'
  BY <1>1, <1>2 DEF IInv, TypeInv
<1>5. /\ inst \subseteq Scenes
      /\ \A o \in Scenes : o # s =>
           /\ buf'[o] = buf[o] /\ want'[o] = want[o] /\ lost'[o] = lost[o]
           /\ physics'[o] = physics[o] /\ tracked'[o] = tracked[o]
      /\ s \in Scenes => /\ buf'[s] = NoBuffers /\ want'[s] = NoVoxels
                         /\ lost'[s] = {} /\ physics'[s] = {}
  BY <1>1 DEF IInv, TypeInv
<1>6. FreshInv'
  BY <1>1, <1>5 DEF IInv, FreshInv
<1>7. BufferInv' /\ VoxelInv'
  BY <1>1, <1>5 DEF IInv, BufferInv, VoxelInv
<1>8. CommitInv' /\ ShapeInv'
  BY <1>1, <1>3, <1>5 DEF IInv, CommitInv, ShapeInv, InHand
<1> QED
  BY <1>4, <1>6, <1>7, <1>8 DEF IInv

LEMMA HandleEventStep == ASSUME IInv, HandleEvent PROVE IInv'
<1>1. pc = Idle /\ UNCHANGED <<scene, data, boxes, pc, edits>>
  BY DEF HandleEvent, nodes
<1>2. \/ Erase(Head(evq).s)
      \/ UNCHANGED <<inst, buf, tracked, reg, physics, want, lost>>
  BY DEF HandleEvent
<1>3. CASE Erase(Head(evq).s)
  BY <1>1, <1>3, EraseStep
<1>4. CASE UNCHANGED <<inst, buf, tracked, reg, physics, want, lost>>
  BY <1>1, <1>4, Elsewhere DEF voxelVars
<1> QED
  BY <1>2, <1>3, <1>4

LEMMA TickStep == ASSUME IInv, NEW s \in Scenes, Tick(s) PROVE IInv'
<1>1. /\ pc = Idle /\ s \in inst /\ pc' = [at |-> "tick", s |-> s]
      /\ UNCHANGED <<scene, data, inst, buf, tracked, reg, edits, want, lost>>
  BY DEF Tick, history
<1>2. pc' \in Places /\ pc'.at \notin Steps /\ pc.at \notin Steps
  BY <1>1 DEF Places, Steps, Idle
<1>3. CASE scene[s] = "live"
  <2>1. /\ boxes' = [boxes EXCEPT ![s] = [c \in Chunks |->
                       IF c \in physics[s] THEN data[s][c].v ELSE boxes[s][c]]]
        /\ physics' = [physics EXCEPT ![s] = {}]
    BY <1>3 DEF Tick
  <2>2. /\ boxes \in [Scenes -> [Chunks -> Nat]] /\ physics \in [Scenes -> SUBSET Chunks]
        /\ data \in [Scenes -> [Chunks -> Versions]] /\ inst \subseteq Scenes
    BY DEF IInv, TypeInv
  <2>3. \A c \in Chunks : data[s][c].v \in Nat
    BY <2>2 DEF Versions
  <2>4. boxes' \in [Scenes -> [Chunks -> Nat]] /\ physics' \in [Scenes -> SUBSET Chunks]
    BY <2>1, <2>2, <2>3
  <2>5. TypeInv'
    BY <1>1, <1>2, <2>4 DEF IInv, TypeInv
  <2>6. /\ \A c \in Chunks : boxes'[s][c] = IF c \in physics[s] THEN data[s][c].v
                                            ELSE boxes[s][c]
        /\ \A o \in Scenes : o # s => boxes'[o] = boxes[o] /\ physics'[o] = physics[o]
        /\ physics'[s] = {}
    BY <2>1, <2>2
  <2>7. FreshInv'
    BY <1>1, <2>2, <2>6 DEF IInv, FreshInv
  <2>8. BufferInv' /\ VoxelInv' /\ CommitInv'
    BY <1>1, <1>2 DEF IInv, BufferInv, VoxelInv, CommitInv
  <2>9. ShapeInv'
    BY <1>1, <1>2, <2>2, <2>6 DEF IInv, ShapeInv, InHand
  <2> QED
    BY <2>5, <2>7, <2>8, <2>9 DEF IInv
<1>4. CASE scene[s] # "live"
  <2>1. UNCHANGED <<boxes, physics>>
    BY <1>4 DEF Tick
  <2>2. reg' \in [Scenes -> [n : Nat, dirty : BOOLEAN]]
    BY <1>1 DEF IInv, TypeInv
  <2> QED
    BY <1>1, <1>2, <2>1, <2>2, Turn
<1> QED
  BY <1>3, <1>4

LEMMA TickEndStep == ASSUME IInv, TickEnd PROVE IInv'
<1>1. /\ pc.at \notin Steps /\ pc' = Idle
      /\ UNCHANGED <<scene, data, boxes, inst, buf, tracked, physics, edits, want, lost>>
  BY DEF TickEnd, nodes, history, Steps
<1>2. pc' \in Places /\ pc'.at \notin Steps
  BY <1>1 DEF Idle, Places, Steps
<1>3. reg' \in [Scenes -> [n : Nat, dirty : BOOLEAN]]
  BY RegistryType DEF TickEnd
<1> QED
  BY <1>1, <1>2, <1>3, Turn

LEMMA TurnSteps == ASSUME IInv, Access \/ EndAccess \/ EndCommit PROVE IInv'
<1>1. /\ pc.at \in {"idle", "access", "commit"}
      /\ \E to \in {"idle", "access", "commit"} : pc' = [at |-> to]
      /\ UNCHANGED <<scene, data, boxes, inst, buf, tracked, reg, physics, edits,
                     want, lost>>
  BY DEF Access, EndAccess, EndCommit, Idle, nodes, world, history
<1>2. pc' \in Places /\ pc'.at \notin Steps /\ pc.at \notin Steps
  BY <1>1 DEF Places, Steps
<1>3. reg' \in [Scenes -> [n : Nat, dirty : BOOLEAN]]
  BY <1>1 DEF IInv, TypeInv
<1> QED
  BY <1>1, <1>2, <1>3, Turn

-----------------------------------------------------------------------------

LEMMA Invariance == VWSpec => []IInv
<1>1. IInv /\ [VWNext]_vwVars => IInv'
  <2> SUFFICES ASSUME IInv, [VWNext]_vwVars PROVE IInv'
    OBVIOUS
  <2>1. CASE UNCHANGED vwVars
    BY <2>1, Elsewhere DEF vwVars, voxelVars, nodes, world, history
  <2>2. CASE Access \/ EndAccess \/ EndCommit
    BY <2>2, TurnSteps
  <2>3. CASE CommitRegistry
    BY <2>3, CommitRegistryStep
  <2>4. CASE CommitSync
    BY <2>4, CommitSyncStep
  <2>5. CASE CommitNotify
    BY <2>5, CommitNotifyStep
  <2>6. CASE HandleEvent
    BY <2>6, HandleEventStep
  <2>7. CASE TickEnd
    BY <2>7, TickEndStep
  <2>8. ASSUME NEW s \in Scenes, DeleteScene(s) PROVE IInv'
    BY <2>8, DeleteSceneStep
  <2>9. ASSUME NEW s \in Scenes, CreateInstance(s) PROVE IInv'
    BY <2>9, CreateInstanceStep
  <2>10. ASSUME NEW s \in Scenes, AddVoxelType(s) PROVE IInv'
    BY <2>10, AddVoxelTypeStep
  <2>11. ASSUME NEW s \in Scenes, Maintain(s) PROVE IInv'
    BY <2>11, MaintainStep
  <2>12. ASSUME NEW s \in Scenes, Tick(s) PROVE IInv'
    BY <2>12, TickStep
  <2>13. ASSUME NEW s \in Scenes, NEW p \in Peers, Join(p, s) PROVE IInv'
    BY <2>13, Elsewhere DEF Join, voxelVars, nodes, world, history
  <2>14. ASSUME NEW s \in Scenes, NEW c \in Chunks, GetVoxel(s, c) PROVE IInv'
    BY <2>14, GetVoxelStep
  <2>15. ASSUME NEW s \in Scenes, NEW c \in Chunks, SetVoxel(s, c) PROVE IInv'
    BY <2>15, SetVoxelStep
  <2>16. ASSUME NEW s \in Scenes, NEW c \in Chunks, CommitWrite(s, c) PROVE IInv'
    BY <2>16, CommitWriteStep
  <2>17. ASSUME NEW p \in Peers, Leave(p) PROVE IInv'
    BY <2>17, Elsewhere DEF Leave, voxelVars, nodes, world, history
  <2>18. ASSUME NEW p \in Peers, Receive(p) PROVE IInv'
    BY <2>18, Elsewhere DEF Receive, voxelVars, nodes, world, history
  <2>19. ASSUME NEW p \in Peers, NEW c \in Chunks, Sync(p, c) PROVE IInv'
    BY <2>19, Elsewhere DEF Sync, voxelVars, nodes, world, history
  <2> QED
    BY <2>1, <2>2, <2>3, <2>4, <2>5, <2>6, <2>7, <2>8, <2>9, <2>10, <2>11, <2>12,
       <2>13, <2>14, <2>15, <2>16, <2>17, <2>18, <2>19 DEF VWNext
<1> QED
  BY Initial, <1>1, PTL DEF VWSpec

-----------------------------------------------------------------------------
(* What clients see: the invariant *)

Deletion(s) == [ev |-> "scene_deleted", s |-> s]
Joining(p) == [ev |-> "joined", p |-> p]
Leaving(p) == [ev |-> "left", p |-> p]
EventsOf == {Deletion(s) : s \in Scenes}
              \cup {Joining(p) : p \in Peers} \cup {Leaving(p) : p \in Peers}
Queued(e) == \E i \in 1..Len(evq) : evq[i] = e

NodesOf(c) == [k : {"node"}, c : {c}, d : Versions]
UpdatesOf(c) == [k : {"updated"}, c : {c}]
Registries == [k : {"registry"}, t : Nat]
Readies == [k : {"ready"}]
Packets == (UNION {NodesOf(c) \cup UpdatesOf(c) : c \in Chunks})
             \cup Registries \cup Readies

NetTypeInv ==
  /\ peer \in [Peers -> Scenes \cup {0}] /\ gone \in SUBSET Peers
  /\ evq \in Seq(EventsOf)
  /\ inited \in [Scenes -> SUBSET Peers]
  /\ IsFiniteSet(inst)
  /\ wire \in [Peers -> Seq(Packets)]
  /\ sent \in [Peers -> [Chunks -> Versions \cup {NoData}]]
  /\ copy \in [Peers -> [Chunks -> Versions \cup {NoData}]]
  /\ mesh \in [Peers -> [Chunks -> Versions \cup {NoData}]]
  /\ types \in [Peers -> Nat] /\ readies \in [Peers -> Nat]

\* Scenes come one after the other, each with its instance, which stays until
\* the module handles scene_deleted.
SceneInv ==
  /\ \A s \in Scenes : scene[s] # "none" =>
       \A o \in Scenes : o < s => scene[o] = "deleted"
  /\ \A s \in Scenes :
       /\ s \in inst => scene[s] # "none"
       /\ scene[s] = "live" => s \in inst
       /\ s \in inst /\ scene[s] = "deleted" => Queued(Deletion(s))
       /\ Queued(Deletion(s)) => scene[s] = "deleted"
       /\ s \notin inst => inited[s] = {}

\* A peer on a live scene joined it after the scenes before it were deleted: no
\* other instance will initialise it, and its own has or will.
Known(p) ==
  /\ peer[p] # 0 => scene[peer[p]] # "none"
  /\ Queued(Joining(p)) => peer[p] # 0
  /\ Queued(Leaving(p)) => p \in gone
  /\ \A s \in Scenes : p \in inited[s] => peer[p] # 0

Awaited(p, s) ==
  /\ \A o \in Scenes : p \in inited[o] => o = s
  /\ p \notin gone => Queued(Joining(p)) \/ p \in inited[s]
  /\ \A j \in 1..Len(evq), o \in inst :
       evq[j] = Joining(p) /\ scene[o] = "deleted" =>
         \E i \in 1..Len(evq) : i < j /\ evq[i] = Deletion(o)

JoinInv ==
  \A p \in Peers :
    /\ Known(p)
    /\ \A s \in Scenes : peer[p] = s /\ scene[s] = "live" => Awaited(p, s)

\* A commit between its registry and its notification
Between(s, c) == pc.at \in {"registry", "sync"} /\ pc.s = s /\ pc.c = c
Told(p) == pc.at = "notify" /\ p \in pc.told /\ p \notin gone

\* Voxels need no types that the registry does not have.
VoxelTypesInv ==
  \A s \in inst, c \in Chunks :
    data[s][c].t <= reg[s].n /\ buf[s][c].vol.t <= reg[s].n

\* What a peer was sent of a node is what the node has, unless a commit has it
\* in hand.
Sent(p, c) ==
  /\ peer[p] = 0 => sent[p][c] = NoData
  /\ sent[p][c] # NoData /\ peer[p] \in inst => sent[p][c].t <= reg[peer[p]].n
  /\ (/\ p \notin gone /\ peer[p] # 0 /\ scene[peer[p]] = "live"
      /\ Stale(p, c) /\ sent[p][c] # NoData) => Between(peer[p], c)

SentInv == \A p \in Peers, c \in Chunks : Sent(p, c)

\* A commit sends the registry first, and then the node.
ThreadInv ==
  /\ pc.at \in {"sync", "notify"} => ~reg[pc.s].dirty
  /\ pc.at = "tick" => pc.s \in inst
  /\ \A p \in Peers : Told(p) => peer[p] = pc.s /\ sent[p][pc.c] # NoData

\* The last of the packets in S that are before position i, if there is one
NoneYet(w, S, i) == \A j \in 1..Len(w) : j < i => w[j] \notin S
Latest(w, S, i, j) ==
  /\ j \in 1..Len(w) /\ j < i /\ w[j] \in S
  /\ \A l \in 1..Len(w) : j < l /\ l < i => w[l] \notin S

\* What the client has of the node, and of the registry, before it receives
\* packet i.
CopyAt(p, c, i, d) ==
  \/ NoneYet(wire[p], NodesOf(c), i) /\ d = copy[p][c]
  \/ \E j \in Nat : Latest(wire[p], NodesOf(c), i, j) /\ d = wire[p][j].d

TypesAt(p, i, t) ==
  \/ NoneYet(wire[p], Registries, i) /\ t = types[p]
  \/ \E j \in Nat : Latest(wire[p], Registries, i, j) /\ t = wire[p][j].t

ReadyAt(p, i) == readies[p] > 0 \/ ~NoneYet(wire[p], Readies, i)

End(p) == Len(wire[p]) + 1

\* Nodes arrive as they were sent last.
Arrives(p) ==
  /\ p \in gone => wire[p] = <<>>
  /\ p \notin gone => \A c \in Chunks :
       /\ \A d : CopyAt(p, c, End(p), d) => d = sent[p][c]
       /\ sent[p][c] = NoData =>
            copy[p][c] = NoData /\ NoneYet(wire[p], NodesOf(c), End(p))

CopyInv == \A p \in Peers : Arrives(p)

\* The peer takes part in the scene's world.
PartOf(p, s) ==
  /\ p \notin gone /\ peer[p] = s /\ p \in inited[s]
  /\ scene[s] = "live" \/ (Told(p) /\ pc.s = s)

Registered(p, s) ==
  /\ p \in inited[s] /\ p \notin gone => ReadyAt(p, End(p))
  /\ PartOf(p, s) /\ ~reg[s].dirty =>
       \A t : TypesAt(p, End(p), t) => t = reg[s].n

RegistryInv == \A p \in Peers, s \in inst : Registered(p, s)

\* Who is told of an update has the node and its types by then.
Ordered(p) ==
  \A i \in 1..Len(wire[p]), c \in Chunks :
    wire[p][i] \in UpdatesOf(c) =>
      /\ ReadyAt(p, i)
      /\ \A d : CopyAt(p, c, i, d) => d # NoData
      /\ \A d, t : CopyAt(p, c, i, d) /\ TypesAt(p, i, t) => d.t <= t

UpdateInv == \A p \in Peers : Ordered(p)

\* The mesh will be made of the node's last data: by a packet after it, or it
\* was already, or by the node itself because it is new.
Shown(p, c) ==
  \/ \E i \in 1..Len(wire[p]) :
       /\ wire[p][i] \in Readies \cup UpdatesOf(c)
       /\ \A j \in 1..Len(wire[p]) : i < j => wire[p][j] \notin NodesOf(c)
  \/ mesh[p][c] = copy[p][c] /\ NoneYet(wire[p], NodesOf(c), End(p))
  \/ \E i \in 1..Len(wire[p]) :
       /\ wire[p][i] \in NodesOf(c) /\ ReadyAt(p, i) /\ copy[p][c] = NoData
       /\ \A j \in 1..Len(wire[p]) : j # i => wire[p][j] \notin NodesOf(c)

Followed(p, s, c) ==
  \/ Queued(Joining(p)) \/ Shown(p, c) \/ Between(s, c)
  \/ Told(p) /\ pc.s = s /\ pc.c = c /\ p \in inited[s]

MeshInv ==
  \A p \in Peers, s \in Scenes, c \in Chunks :
    p \notin gone /\ peer[p] = s /\ scene[s] = "live" => Followed(p, s, c)

NInv ==
  /\ NetTypeInv /\ SceneInv /\ JoinInv
  /\ VoxelTypesInv /\ SentInv /\ ThreadInv
  /\ CopyInv /\ RegistryInv /\ UpdateInv /\ MeshInv

-----------------------------------------------------------------------------
(* The queue of events, and who is initialised *)

LEMMA QueuedAppend ==
  ASSUME evq \in Seq(EventsOf), NEW e \in EventsOf, evq' = Append(evq, e)
  PROVE  /\ evq' \in Seq(EventsOf)
         /\ \A x : Queued(x)' <=> Queued(x) \/ x = e
         /\ Len(evq') = Len(evq) + 1 /\ evq'[Len(evq) + 1] = e
         /\ \A i \in 1..Len(evq) : evq'[i] = evq[i]
<1> DEFINE n == Len(evq)
<1>1. /\ evq' \in Seq(EventsOf) /\ n \in Nat /\ Len(evq') = n + 1
      /\ evq'[n + 1] = e /\ \A i \in 1..n : evq'[i] = evq[i]
  OBVIOUS
<1>2. \A i \in 1..(n + 1) : i = n + 1 \/ i \in 1..n
  BY <1>1
<1>3. n + 1 \in 1..(n + 1) /\ \A i \in 1..n : i \in 1..(n + 1)
  BY <1>1
<1>4. \A x : Queued(x)' <=> \E i \in 1..(n + 1) : evq'[i] = x
  BY <1>1 DEF Queued
<1>5. \A x : Queued(x) <=> \E i \in 1..n : evq[i] = x
  BY DEF Queued
<1> HIDE DEF n
<1>6. ASSUME NEW x PROVE Queued(x)' <=> Queued(x) \/ x = e
  BY <1>1, <1>2, <1>3, <1>4, <1>5
<1> QED
  BY <1>1, <1>6 DEF n

LEMMA QueuedTail ==
  ASSUME evq \in Seq(EventsOf), evq # <<>>, evq' = Tail(evq)
  PROVE  /\ evq' \in Seq(EventsOf) /\ Head(evq) \in EventsOf
         /\ Queued(Head(evq)) /\ Head(evq) = evq[1]
         /\ \A x : Queued(x)' => Queued(x)
         /\ \A x : Queued(x) /\ x # Head(evq) => Queued(x)'
         /\ Len(evq) = Len(evq') + 1
         /\ \A i \in 1..Len(evq') : i + 1 \in 1..Len(evq) /\ evq'[i] = evq[i + 1]
         /\ \A i \in 1..Len(evq) : i # 1 => i - 1 \in 1..Len(evq') /\ evq'[i - 1] = evq[i]
<1> DEFINE n == Len(evq')
<1>1. /\ evq' \in Seq(EventsOf) /\ n \in Nat /\ Len(evq) = n + 1
      /\ Head(evq) \in EventsOf /\ Head(evq) = evq[1]
      /\ \A i \in 1..n : evq'[i] = evq[i + 1]
  OBVIOUS
<1> HIDE DEF n
<1>2. \A i \in 1..n : i + 1 \in 1..(n + 1)
  BY <1>1
<1>3. ASSUME NEW i \in 1..(n + 1), i # 1
      PROVE  i - 1 \in 1..n /\ evq'[i - 1] = evq[i]
  <2>1. i - 1 \in 1..n /\ (i - 1) + 1 = i
    BY <1>1, <1>3
  <2> QED
    BY <1>1, <2>1
<1>4. \A x : Queued(x)' <=> \E i \in 1..n : evq'[i] = x
  BY DEF Queued, n
<1>5. \A x : Queued(x) <=> \E i \in 1..(n + 1) : evq[i] = x
  BY <1>1 DEF Queued
<1>6. ASSUME NEW x, Queued(x)' PROVE Queued(x)
  BY <1>1, <1>2, <1>4, <1>5, <1>6
<1>7. ASSUME NEW x, Queued(x), x # Head(evq) PROVE Queued(x)'
  <2>1. PICK i \in 1..(n + 1) : evq[i] = x
    BY <1>5, <1>7
  <2>2. i # 1
    BY <1>1, <1>7, <2>1
  <2> QED
    BY <1>3, <1>4, <2>1, <2>2
<1>8. Queued(Head(evq))
  <2>1. 1 \in 1..(n + 1)
    BY <1>1
  <2> QED
    BY <1>1, <1>5, <2>1
<1> QED
  BY <1>1, <1>2, <1>3, <1>6, <1>7, <1>8 DEF n

\* Whose turn it is when the module takes an event.
LEMMA EventTaken ==
  ASSUME evq \in Seq(EventsOf), HandleEvent
  PROVE  /\ evq # <<>> /\ evq' = Tail(evq) /\ pc = Idle
         /\ UNCHANGED <<scene, data, boxes, peer, gone, sent, pc, edits, client>>
         /\ \/ \E s \in Scenes :
                 /\ Head(evq) = Deletion(s) /\ Erase(s) /\ UNCHANGED wire
            \/ \E p \in Peers :
                 /\ Head(evq) = Joining(p) /\ PeerJoined(p)
                 /\ UNCHANGED <<inst, buf, tracked, total, reg, physics, want, lost>>
            \/ \E p \in Peers :
                 /\ Head(evq) = Leaving(p) /\ PeerLeft(p)
                 /\ UNCHANGED <<inst, buf, tracked, total, reg, physics, want, lost>>
<1> DEFINE e == Head(evq)
<1>1. /\ evq # <<>> /\ evq' = Tail(evq) /\ pc = Idle
      /\ UNCHANGED <<scene, data, boxes, peer, gone, sent, pc, edits, client>>
  BY DEF HandleEvent, nodes, net
<1>2. e \in EventsOf
  BY <1>1
<1>3. CASE e \in {Deletion(s) : s \in Scenes}
  <2>1. PICK s \in Scenes : e = Deletion(s)
    BY <1>3
  <2>2. e.ev = "scene_deleted" /\ e.s = s
    BY <2>1 DEF Deletion
  <2>3. Erase(s) /\ UNCHANGED wire
    BY <1>1, <2>2 DEF HandleEvent
  <2> QED
    BY <1>1, <2>1, <2>3
<1>4. CASE e \in {Joining(p) : p \in Peers}
  <2>1. PICK p \in Peers : e = Joining(p)
    BY <1>4
  <2>2. e.ev = "joined" /\ e.p = p
    BY <2>1 DEF Joining
  <2>3. PeerJoined(p)
        /\ UNCHANGED <<inst, buf, tracked, total, reg, physics, want, lost>>
    BY <1>1, <2>2 DEF HandleEvent
  <2> QED
    BY <1>1, <2>1, <2>3
<1>5. CASE e \in {Leaving(p) : p \in Peers}
  <2>1. PICK p \in Peers : e = Leaving(p)
    BY <1>5
  <2>2. e.ev = "left" /\ e.p = p
    BY <2>1 DEF Leaving
  <2>3. PeerLeft(p)
        /\ UNCHANGED <<inst, buf, tracked, total, reg, physics, want, lost>>
    BY <1>1, <2>2 DEF HandleEvent
  <2> QED
    BY <1>1, <2>1, <2>3
<1> QED
  BY <1>1, <1>2, <1>3, <1>4, <1>5 DEF EventsOf

LEMMA EventsDiffer ==
  /\ \A s, o : Deletion(s) = Deletion(o) => s = o
  /\ \A p, q : Joining(p) = Joining(q) => p = q
  /\ \A p, q : Leaving(p) = Leaving(q) => p = q
  /\ \A s, p : Deletion(s) # Joining(p) /\ Deletion(s) # Leaving(p)
  /\ \A p, q : Joining(p) # Leaving(q)
BY DEF Deletion, Joining, Leaving

LEMMA SceneQuiet ==
  ASSUME SceneInv, UNCHANGED <<scene, inst, evq, inited>>
  PROVE  SceneInv'
BY DEF SceneInv, Queued

\* Scenes and instances come and go together.
LEMMA SceneStep ==
  ASSUME IInv, NetTypeInv, SceneInv, [VWNext]_vwVars
  PROVE  SceneInv'
<1>1. CASE UNCHANGED vwVars
  BY <1>1, SceneQuiet DEF vwVars, nodes, net, world, history, client
<1>2. CASE Access
  BY <1>2, SceneQuiet DEF Access, vwVars, nodes, net, world, history, client
<1>3. CASE EndAccess
  BY <1>3, SceneQuiet DEF EndAccess, vwVars, nodes, net, world, history, client
<1>4. CASE EndCommit
  BY <1>4, SceneQuiet DEF EndCommit, vwVars, nodes, net, world, history, client
<1>5. CASE CommitRegistry
  BY <1>5, SceneQuiet DEF CommitRegistry, vwVars, nodes, net, world, history, client
<1>6. CASE CommitSync
  BY <1>6, SceneQuiet DEF CommitSync, vwVars, nodes, net, world, history, client
<1>7. CASE CommitNotify
  BY <1>7, SceneQuiet DEF CommitNotify, vwVars, nodes, net, world, history, client
<1>8. CASE HandleEvent
  <2>0. evq \in Seq(EventsOf)
    BY DEF NetTypeInv
  <2>1. /\ evq # <<>> /\ evq' = Tail(evq) /\ UNCHANGED scene
    BY <1>8, <2>0, EventTaken
  <2>2. /\ \A x : Queued(x)' => Queued(x)
        /\ \A x : Queued(x) /\ x # Head(evq) => Queued(x)'
        /\ Queued(Head(evq))
    BY <2>0, <2>1, QueuedTail
  <2>3. ASSUME NEW s \in Scenes, Head(evq) = Deletion(s), Erase(s)
        PROVE  SceneInv'
    <3>1. inst' = inst \ {s} /\ inited' = [inited EXCEPT ![s] = {}]
      BY <2>3 DEF Erase
    <3>2. \A o \in Scenes : inited'[o] = IF o = s THEN {} ELSE inited[o]
      BY <3>1 DEF NetTypeInv
    <3>3. scene[s] = "deleted"
      BY <2>2, <2>3 DEF SceneInv
    <3> QED
      BY <2>1, <2>2, <2>3, <3>1, <3>2, <3>3, EventsDiffer DEF SceneInv
  <2>4. ASSUME NEW p \in Peers, Head(evq) = Joining(p), PeerJoined(p), UNCHANGED inst
        PROVE  SceneInv'
    <3>1. \A o \in Scenes : inited'[o] = IF o \in inst THEN inited[o] \cup {p}
                                                       ELSE inited[o]
      BY <2>4 DEF PeerJoined
    <3> QED
      BY <2>1, <2>2, <2>4, <3>1, EventsDiffer DEF SceneInv
  <2>5. ASSUME NEW p \in Peers, Head(evq) = Leaving(p), PeerLeft(p), UNCHANGED inst
        PROVE  SceneInv'
    <3>1. \A o \in Scenes : inited'[o] = inited[o] \ {p}
      BY <2>5 DEF PeerLeft
    <3> QED
      BY <2>1, <2>2, <2>5, <3>1, EventsDiffer DEF SceneInv
  <2> QED
    BY <1>8, <2>0, <2>3, <2>4, <2>5, EventTaken
<1>9. CASE TickEnd
  BY <1>9, SceneQuiet DEF TickEnd, vwVars, nodes, net, world, history, client
<1>10. ASSUME NEW s \in Scenes, DeleteScene(s) PROVE SceneInv'
  <2>0. evq \in Seq(EventsOf)
    BY DEF NetTypeInv
  <2>1. /\ scene[s] = "live" /\ scene' = [scene EXCEPT ![s] = "deleted"]
        /\ evq' = Append(evq, Deletion(s)) /\ UNCHANGED <<inst, inited>>
        /\ Deletion(s) \in EventsOf
    BY <1>10 DEF DeleteScene, Deletion, EventsOf, world
  <2>2. \A x : Queued(x)' <=> Queued(x) \/ x = Deletion(s)
    BY <2>0, <2>1, QueuedAppend
  <2>3. \A o \in Scenes : scene'[o] = IF o = s THEN "deleted" ELSE scene[o]
    BY <2>1 DEF IInv, TypeInv
  <2> QED
    BY <2>1, <2>2, <2>3, EventsDiffer DEF SceneInv
<1>11. ASSUME NEW s \in Scenes, CreateInstance(s) PROVE SceneInv'
  <2>1. /\ scene[s] = "none" /\ s \notin inst
        /\ \A o \in Scenes : o < s => scene[o] = "deleted"
        /\ scene' = [scene EXCEPT ![s] = "live"] /\ inst' = inst \cup {s}
        /\ inited' = [inited EXCEPT ![s] = {}] /\ UNCHANGED evq
    BY <1>11 DEF CreateInstance, OnScene
  <2>2. \A o \in Scenes : scene'[o] = IF o = s THEN "live" ELSE scene[o]
    BY <2>1 DEF IInv, TypeInv
  <2>3. \A x : Queued(x)' <=> Queued(x)
    BY <2>1 DEF Queued
  <2>4. \A o \in Scenes : inited'[o] = IF o = s THEN {} ELSE inited[o]
    BY <2>1 DEF NetTypeInv
  <2>5. ASSUME NEW x \in Scenes, scene'[x] # "none", NEW o \in Scenes, o < x
        PROVE  scene'[o] = "deleted"
    <3>1. CASE x = s
      BY <2>1, <2>2, <2>5, <3>1 DEF Scenes
    <3>2. CASE x # s
      <4>1. scene[x] # "none"
        BY <2>2, <2>5, <3>2
      <4>2. scene[o] = "deleted"
        BY <2>5, <4>1 DEF SceneInv
      <4> QED
        BY <2>1, <2>2, <4>2
    <3> QED
      BY <3>1, <3>2
  <2>6. ~Queued(Deletion(s))
    BY <2>1 DEF SceneInv
  <2> QED
    BY <2>1, <2>2, <2>3, <2>4, <2>5, <2>6 DEF SceneInv
<1>12. ASSUME NEW s \in Scenes, AddVoxelType(s) PROVE SceneInv'
  BY <1>12, SceneQuiet DEF AddVoxelType, vwVars, nodes, net, world, history, client
<1>13. ASSUME NEW s \in Scenes, Maintain(s) PROVE SceneInv'
  BY <1>13, SceneQuiet DEF Maintain, Unload, vwVars, nodes, net, world, history, client
<1>14. ASSUME NEW s \in Scenes, Tick(s) PROVE SceneInv'
  BY <1>14, SceneQuiet DEF Tick, vwVars, nodes, net, world, history, client
<1>15. ASSUME NEW s \in Scenes, NEW p \in Peers, Join(p, s) PROVE SceneInv'
  <2>0. evq \in Seq(EventsOf)
    BY DEF NetTypeInv
  <2>1. /\ evq' = Append(evq, Joining(p)) /\ UNCHANGED <<scene, inst, inited>>
        /\ Joining(p) \in EventsOf
    BY <1>15 DEF Join, Joining, EventsOf, world, nodes
  <2>2. \A x : Queued(x)' <=> Queued(x) \/ x = Joining(p)
    BY <2>0, <2>1, QueuedAppend
  <2> QED
    BY <2>1, <2>2, EventsDiffer DEF SceneInv
<1>16. ASSUME NEW s \in Scenes, NEW c \in Chunks, GetVoxel(s, c) PROVE SceneInv'
  BY <1>16, SceneQuiet DEF GetVoxel, InBuffer, vwVars, nodes, net, world, history, client
<1>17. ASSUME NEW s \in Scenes, NEW c \in Chunks, SetVoxel(s, c) PROVE SceneInv'
  BY <1>17, SceneQuiet DEF SetVoxel, InBuffer, vwVars, nodes, net, world, history, client
<1>18. ASSUME NEW s \in Scenes, NEW c \in Chunks, CommitWrite(s, c) PROVE SceneInv'
  BY <1>18, SceneQuiet DEF CommitWrite, vwVars, nodes, net, world, history, client
<1>19. ASSUME NEW p \in Peers, Leave(p) PROVE SceneInv'
  <2>0. evq \in Seq(EventsOf)
    BY DEF NetTypeInv
  <2>1. /\ evq' = Append(evq, Leaving(p)) /\ UNCHANGED <<scene, inst, inited>>
        /\ Leaving(p) \in EventsOf
    BY <1>19 DEF Leave, Leaving, EventsOf, world, nodes
  <2>2. \A x : Queued(x)' <=> Queued(x) \/ x = Leaving(p)
    BY <2>0, <2>1, QueuedAppend
  <2> QED
    BY <2>1, <2>2, EventsDiffer DEF SceneInv
<1>20. ASSUME NEW p \in Peers, Receive(p) PROVE SceneInv'
  BY <1>20, SceneQuiet DEF Receive, vwVars, nodes, net, world, history, client
<1>21. ASSUME NEW p \in Peers, NEW c \in Chunks, Sync(p, c) PROVE SceneInv'
  BY <1>21, SceneQuiet DEF Sync, vwVars, nodes, net, world, history, client
<1> QED
  BY <1>1, <1>2, <1>3, <1>4, <1>5, <1>6, <1>7, <1>8, <1>9, <1>10, <1>11,
     <1>12, <1>13, <1>14, <1>15, <1>16, <1>17, <1>18, <1>19, <1>20, <1>21
 DEF VWNext

LEMMA JoinQuiet ==
  ASSUME JoinInv, UNCHANGED <<scene, inst, evq, inited, peer, gone>>
  PROVE  JoinInv'
BY DEF JoinInv, Known, Awaited, Queued

\* Two scenes are never there at once.
LEMMA OneScene ==
  ASSUME SceneInv, NEW s \in Scenes, scene[s] = "live", NEW o \in Scenes, o # s,
         scene[o] # "none"
  PROVE  scene[o] = "deleted"
BY DEF SceneInv, Scenes

\* A peer on a live scene is initialised by its instance, and by no other.
LEMMA JoinStep ==
  ASSUME IInv, NetTypeInv, SceneInv, JoinInv, [VWNext]_vwVars
  PROVE  JoinInv'
<1>1. CASE UNCHANGED vwVars
  BY <1>1, JoinQuiet DEF vwVars, nodes, net, world, history, client
<1>2. CASE Access
  BY <1>2, JoinQuiet DEF Access, vwVars, nodes, net, world, history, client
<1>3. CASE EndAccess
  BY <1>3, JoinQuiet DEF EndAccess, vwVars, nodes, net, world, history, client
<1>4. CASE EndCommit
  BY <1>4, JoinQuiet DEF EndCommit, vwVars, nodes, net, world, history, client
<1>5. CASE CommitRegistry
  BY <1>5, JoinQuiet DEF CommitRegistry, vwVars, nodes, net, world, history, client
<1>6. CASE CommitSync
  BY <1>6, JoinQuiet DEF CommitSync, vwVars, nodes, net, world, history, client
<1>7. CASE CommitNotify
  BY <1>7, JoinQuiet DEF CommitNotify, vwVars, nodes, net, world, history, client
<1>8. CASE HandleEvent
  <2>0. evq \in Seq(EventsOf)
    BY DEF NetTypeInv
  <2>1. /\ evq # <<>> /\ evq' = Tail(evq) /\ UNCHANGED <<scene, peer, gone>>
    BY <1>8, <2>0, EventTaken
  <2>2. /\ \A x : Queued(x)' => Queued(x)
        /\ \A x : Queued(x) /\ x # Head(evq) => Queued(x)'
        /\ Queued(Head(evq)) /\ Head(evq) = evq[1]
        /\ \A i \in 1..Len(evq') : i + 1 \in 1..Len(evq) /\ evq'[i] = evq[i + 1]
        /\ \A i \in 1..Len(evq) : i # 1 => i - 1 \in 1..Len(evq') /\ evq'[i - 1] = evq[i]
    BY <2>0, <2>1, QueuedTail
  <2>3. ASSUME NEW p \in Peers
        PROVE  /\ peer'[p] # 0 => scene'[peer'[p]] # "none"
               /\ Queued(Joining(p))' => peer'[p] # 0
               /\ Queued(Leaving(p))' => p \in gone'
    BY <2>1, <2>2 DEF JoinInv, Known, Awaited
  <2>a. \A p \in Peers, o \in Scenes : p \in inited[o] => peer[p] # 0
    BY DEF JoinInv, Known, Awaited
  <2>b. ASSUME NEW p \in Peers, NEW x \in Scenes, peer[p] = x, scene[x] = "live"
        PROVE  /\ \A o \in Scenes : p \in inited[o] => o = x
               /\ p \notin gone => Queued(Joining(p)) \/ p \in inited[x]
    BY <2>b DEF JoinInv, Known, Awaited
  <2>c. ASSUME /\ \A p \in Peers, o \in Scenes : p \in inited'[o] => peer[p] # 0
               /\ \A p \in Peers, x \in Scenes : peer[p] = x /\ scene[x] = "live" =>
                    /\ \A o \in Scenes : p \in inited'[o] => o = x
                    /\ p \notin gone => Queued(Joining(p))' \/ p \in inited'[x]
                    /\ \A j \in 1..Len(evq'), o \in inst' :
                         evq'[j] = Joining(p) /\ scene[o] = "deleted" =>
                           \E i \in 1..Len(evq') : i < j /\ evq'[i] = Deletion(o)
        PROVE  JoinInv'
    <3>1. ASSUME NEW p \in Peers PROVE Known(p)'
      BY <2>1, <2>3, <2>c DEF Known
    <3>2. ASSUME NEW p \in Peers, NEW x \in Scenes, peer[p] = x, scene[x] = "live"
          PROVE  Awaited(p, x)'
      <4>1. /\ \A o \in Scenes : p \in inited'[o] => o = x
            /\ p \notin gone' => Queued(Joining(p))' \/ p \in inited'[x]
            /\ \A j \in 1..Len(evq'), o \in inst' :
                 evq'[j] = Joining(p) /\ scene'[o] = "deleted" =>
                   \E i \in 1..Len(evq') : i < j /\ evq'[i] = Deletion(o)
        BY <2>1, <2>c, <3>2
      <4> QED
        BY <4>1 DEF Awaited
    <3> QED
      BY <2>1, <3>1, <3>2 DEF JoinInv
  <2>4. ASSUME NEW p \in Peers, NEW x \in Scenes, peer[p] = x, scene[x] = "live",
               NEW j \in 1..Len(evq'), NEW o \in inst, evq'[j] = Joining(p),
               scene[o] = "deleted", Head(evq) # Deletion(o)
        PROVE  \E i \in 1..Len(evq') : i < j /\ evq'[i] = Deletion(o)
    <3>1. j + 1 \in 1..Len(evq) /\ evq[j + 1] = Joining(p)
      BY <2>2, <2>4
    <3>2. PICK i \in 1..Len(evq) : i < j + 1 /\ evq[i] = Deletion(o)
      BY <2>4, <3>1 DEF JoinInv, Known, Awaited
    <3>3. i # 1
      BY <2>2, <2>4, <3>2
    <3>4. i - 1 \in 1..Len(evq') /\ i - 1 < j /\ evq'[i - 1] = Deletion(o)
      BY <2>2, <2>4, <3>2, <3>3
    <3> QED
      BY <3>4
  <2>5. ASSUME NEW s \in Scenes, Head(evq) = Deletion(s), Erase(s)
        PROVE  JoinInv'
    <3>1. inst' = inst \ {s} /\ inited' = [inited EXCEPT ![s] = {}]
      BY <2>5 DEF Erase
    <3>2. \A o \in Scenes : inited'[o] = IF o = s THEN {} ELSE inited[o]
      BY <3>1 DEF NetTypeInv
    <3>3. scene[s] = "deleted"
      BY <2>2, <2>5 DEF SceneInv
    <3>4. ASSUME NEW p \in Peers, NEW x \in Scenes, peer[p] = x, scene[x] = "live"
          PROVE  /\ \A o \in Scenes : p \in inited'[o] => o = x
                 /\ p \notin gone => Queued(Joining(p))' \/ p \in inited'[x]
      <4>1. x # s
        BY <3>3, <3>4
      <4>2. Queued(Joining(p)) => Queued(Joining(p))'
        BY <2>2, <2>5, EventsDiffer
      <4> QED
        BY <2>b, <3>2, <3>4, <4>1, <4>2
    <3>5. \A p \in Peers, o \in Scenes : p \in inited'[o] => peer[p] # 0
      BY <2>a, <3>2
    <3>6. \A o \in inst' : o \in inst /\ Head(evq) # Deletion(o)
      BY <2>5, <3>1, EventsDiffer
    <3>7. \A p \in Peers, x \in Scenes : peer[p] = x /\ scene[x] = "live" =>
            \A j \in 1..Len(evq'), o \in inst' :
              evq'[j] = Joining(p) /\ scene[o] = "deleted" =>
                \E i \in 1..Len(evq') : i < j /\ evq'[i] = Deletion(o)
      BY <2>4, <3>6
    <3> QED
      BY <2>c, <3>4, <3>5, <3>7
  <2>6. ASSUME NEW q \in Peers, Head(evq) = Joining(q), PeerJoined(q), UNCHANGED inst
        PROVE  JoinInv'
    <3>1. \A o \in Scenes : inited'[o] = IF o \in inst THEN inited[o] \cup {q}
                                                       ELSE inited[o]
      BY <2>6 DEF PeerJoined
    <3>2. ASSUME NEW x \in Scenes, peer[q] = x, scene[x] = "live", NEW o \in inst
          PROVE  o = x
      <4>1. 1 \in 1..Len(evq) /\ evq[1] = Joining(q)
        BY <2>0, <2>1, <2>2, <2>6
      <4>2. o \in Scenes /\ scene[o] # "none"
        BY <3>2 DEF SceneInv, IInv, TypeInv
      <4>3. ~\E i \in 1..Len(evq) : i < 1 /\ evq[i] = Deletion(o)
        OBVIOUS
      <4>4. scene[o] # "deleted"
        BY <3>2, <4>1, <4>3 DEF JoinInv, Known, Awaited
      <4> QED
        BY <3>2, <4>2, <4>4, OneScene
    <3>3. ASSUME NEW p \in Peers, NEW x \in Scenes, peer[p] = x, scene[x] = "live"
          PROVE  /\ \A o \in Scenes : p \in inited'[o] => o = x
                 /\ p \notin gone => Queued(Joining(p))' \/ p \in inited'[x]
      <4>1. x \in inst
        BY <3>3 DEF SceneInv
      <4>2. CASE p = q
        BY <2>b, <3>1, <3>2, <3>3, <4>1, <4>2
      <4>3. CASE p # q
        <5>1. Queued(Joining(p)) => Queued(Joining(p))'
          BY <2>2, <2>6, <4>3, EventsDiffer
        <5> QED
          <6>1. \A o \in Scenes : p \in inited'[o] <=> p \in inited[o]
            BY <3>1, <4>3
          <6> QED
            BY <2>b, <3>3, <5>1, <6>1
      <4> QED
        BY <4>2, <4>3
    <3>4. peer[q] # 0
      BY <2>2, <2>6 DEF JoinInv, Known, Awaited
    <3>5. \A p \in Peers, o \in Scenes : p \in inited'[o] => peer[p] # 0
      BY <2>a, <3>1, <3>4
    <3>6. \A o : Head(evq) # Deletion(o)
      BY <2>6, EventsDiffer
    <3> QED
      BY <2>c, <2>4, <2>6, <3>3, <3>5, <3>6
  <2>7. ASSUME NEW q \in Peers, Head(evq) = Leaving(q), PeerLeft(q), UNCHANGED inst
        PROVE  JoinInv'
    <3>1. \A o \in Scenes : inited'[o] = inited[o] \ {q}
      BY <2>7 DEF PeerLeft
    <3>2. q \in gone
      BY <2>2, <2>7 DEF JoinInv, Known, Awaited
    <3>3. ASSUME NEW p \in Peers, NEW x \in Scenes, peer[p] = x, scene[x] = "live"
          PROVE  /\ \A o \in Scenes : p \in inited'[o] => o = x
                 /\ p \notin gone => Queued(Joining(p))' \/ p \in inited'[x]
      <4>1. Queued(Joining(p)) => Queued(Joining(p))'
        BY <2>2, <2>7, EventsDiffer
      <4> QED
        BY <2>b, <3>1, <3>2, <3>3, <4>1
    <3>4. \A p \in Peers, o \in Scenes : p \in inited'[o] => peer[p] # 0
      BY <2>a, <3>1
    <3>5. \A o : Head(evq) # Deletion(o)
      BY <2>7, EventsDiffer
    <3> QED
      BY <2>c, <2>4, <2>7, <3>3, <3>4, <3>5
  <2>d. /\ \A s \in Scenes : Head(evq) = Deletion(s) /\ Erase(s) => JoinInv'
        /\ \A p \in Peers : Head(evq) = Joining(p) /\ PeerJoined(p) /\ UNCHANGED inst
                              => JoinInv'
        /\ \A p \in Peers : Head(evq) = Leaving(p) /\ PeerLeft(p) /\ UNCHANGED inst
                              => JoinInv'
    BY <2>5, <2>6, <2>7
  <2>e. \/ \E s \in Scenes : Head(evq) = Deletion(s) /\ Erase(s)
        \/ \E p \in Peers : Head(evq) = Joining(p) /\ PeerJoined(p) /\ UNCHANGED inst
        \/ \E p \in Peers : Head(evq) = Leaving(p) /\ PeerLeft(p) /\ UNCHANGED inst
    BY <1>8, <2>0, EventTaken
  <2> QED
    BY <2>d, <2>e
<1>9. CASE TickEnd
  BY <1>9, JoinQuiet DEF TickEnd, vwVars, nodes, net, world, history, client
<1>10. ASSUME NEW s \in Scenes, DeleteScene(s) PROVE JoinInv'
  <2>0. evq \in Seq(EventsOf)
    BY DEF NetTypeInv
  <2>1. /\ scene[s] = "live" /\ scene' = [scene EXCEPT ![s] = "deleted"]
        /\ evq' = Append(evq, Deletion(s)) /\ UNCHANGED <<inst, inited, peer, gone>>
        /\ Deletion(s) \in EventsOf
    BY <1>10 DEF DeleteScene, Deletion, EventsOf, world, net
  <2>2. \A x : Queued(x)' <=> Queued(x) \/ x = Deletion(s)
    BY <2>0, <2>1, QueuedAppend
  <2>3. \A o \in Scenes : scene'[o] = IF o = s THEN "deleted" ELSE scene[o]
    BY <2>1 DEF IInv, TypeInv
  <2>4. \A o \in Scenes : scene'[o] # "live"
    BY <2>1, <2>3, OneScene DEF IInv, TypeInv
  <2>5. \A p \in Peers : peer[p] # 0 => peer[p] \in Scenes
    BY DEF NetTypeInv
  <2> QED
    BY <2>1, <2>2, <2>3, <2>4, <2>5, EventsDiffer DEF JoinInv, Known, Awaited
<1>11. ASSUME NEW s \in Scenes, CreateInstance(s) PROVE JoinInv'
  <2>1. /\ scene[s] = "none" /\ s \notin inst
        /\ \A o \in Scenes : o < s => scene[o] = "deleted"
        /\ scene' = [scene EXCEPT ![s] = "live"] /\ inst' = inst \cup {s}
        /\ inited' = [inited EXCEPT ![s] = {}] /\ UNCHANGED <<evq, peer, gone>>
    BY <1>11 DEF CreateInstance, OnScene, net
  <2>2. \A o \in Scenes : scene'[o] = IF o = s THEN "live" ELSE scene[o]
    BY <2>1 DEF IInv, TypeInv
  <2>3. \A x : Queued(x)' <=> Queued(x)
    BY <2>1 DEF Queued
  <2>4. \A o \in Scenes : inited'[o] = IF o = s THEN {} ELSE inited[o]
    BY <2>1 DEF NetTypeInv
  <2>5. \A p \in Peers : peer[p] # 0 => peer[p] \in Scenes
    BY DEF NetTypeInv
  <2>6. \A p \in Peers : peer[p] # s
    BY <2>1 DEF JoinInv, Known, Awaited, Scenes
  <2>7. ASSUME NEW p \in Peers, NEW x \in Scenes, peer[p] = x, scene'[x] = "live"
        PROVE  x # s /\ scene[x] = "live"
    BY <2>2, <2>6, <2>7
  <2>8. ASSUME NEW p \in Peers
        PROVE  /\ peer'[p] # 0 => scene'[peer'[p]] # "none"
               /\ Queued(Joining(p))' => peer'[p] # 0
               /\ Queued(Leaving(p))' => p \in gone'
               /\ \A o \in Scenes : p \in inited'[o] => peer'[p] # 0
    BY <2>1, <2>2, <2>3, <2>4, <2>5 DEF JoinInv, Known, Awaited
  <2>9. ASSUME NEW p \in Peers, NEW x \in Scenes, peer[p] = x, scene'[x] = "live"
        PROVE  /\ \A o \in Scenes : p \in inited'[o] => o = x
               /\ p \notin gone' => Queued(Joining(p))' \/ p \in inited'[x]
    BY <2>1, <2>3, <2>4, <2>7, <2>9 DEF JoinInv, Known, Awaited
  <2>10. ASSUME NEW p \in Peers, NEW x \in Scenes, peer[p] = x, scene'[x] = "live",
                NEW j \in 1..Len(evq), NEW o \in inst', evq[j] = Joining(p),
                scene'[o] = "deleted"
         PROVE  \E i \in 1..Len(evq) : i < j /\ evq[i] = Deletion(o)
    <3>1. o \in Scenes /\ o # s /\ o \in inst /\ scene[o] = "deleted"
      BY <2>1, <2>2, <2>10 DEF IInv, TypeInv
    <3> QED
      BY <2>7, <2>10, <3>1 DEF JoinInv, Known, Awaited
  <2> QED
    BY <2>1, <2>8, <2>9, <2>10 DEF JoinInv, Known, Awaited
<1>12. ASSUME NEW s \in Scenes, AddVoxelType(s) PROVE JoinInv'
  BY <1>12, JoinQuiet DEF AddVoxelType, vwVars, nodes, net, world, history, client
<1>13. ASSUME NEW s \in Scenes, Maintain(s) PROVE JoinInv'
  BY <1>13, JoinQuiet DEF Maintain, Unload, vwVars, nodes, net, world, history, client
<1>14. ASSUME NEW s \in Scenes, Tick(s) PROVE JoinInv'
  BY <1>14, JoinQuiet DEF Tick, vwVars, nodes, net, world, history, client
<1>15. ASSUME NEW s \in Scenes, NEW p \in Peers, Join(p, s) PROVE JoinInv'
  <2>0. evq \in Seq(EventsOf)
    BY DEF NetTypeInv
  <2>1. /\ evq' = Append(evq, Joining(p)) /\ Joining(p) \in EventsOf
        /\ UNCHANGED <<scene, inst, inited, gone>>
        /\ peer[p] = 0 /\ p \notin gone /\ scene[s] = "live"
        /\ peer' = [peer EXCEPT ![p] = s]
    BY <1>15 DEF Join, Joining, EventsOf, world, nodes
  <2>2. /\ \A x : Queued(x)' <=> Queued(x) \/ x = Joining(p)
        /\ Len(evq') = Len(evq) + 1 /\ evq'[Len(evq) + 1] = Joining(p)
        /\ \A i \in 1..Len(evq) : evq'[i] = evq[i]
        /\ Len(evq) \in Nat
    BY <2>0, <2>1, QueuedAppend
  <2>3. \A q \in Peers : peer'[q] = IF q = p THEN s ELSE peer[q]
    BY <2>1 DEF NetTypeInv
  <2>4. s # 0
    BY DEF Scenes
  <2>5. ASSUME NEW q \in Peers
        PROVE  /\ peer'[q] # 0 => scene'[peer'[q]] # "none"
               /\ Queued(Joining(q))' => peer'[q] # 0
               /\ Queued(Leaving(q))' => q \in gone'
               /\ \A o \in Scenes : q \in inited'[o] => peer'[q] # 0
    BY <2>1, <2>2, <2>3, <2>4, EventsDiffer DEF JoinInv, Known, Awaited
  <2>6. ASSUME NEW q \in Peers, NEW x \in Scenes, peer'[q] = x, scene'[x] = "live"
        PROVE  /\ \A o \in Scenes : q \in inited'[o] => o = x
               /\ q \notin gone' => Queued(Joining(q))' \/ q \in inited'[x]
    BY <2>1, <2>2, <2>3, <2>6 DEF JoinInv, Known, Awaited
  <2>7. ASSUME NEW q \in Peers, NEW x \in Scenes, peer'[q] = x, scene'[x] = "live",
               NEW j \in 1..Len(evq'), NEW o \in inst', evq'[j] = Joining(q),
               scene'[o] = "deleted"
        PROVE  \E i \in 1..Len(evq') : i < j /\ evq'[i] = Deletion(o)
    <3>1. CASE j = Len(evq) + 1
      <4>1. o \in Scenes /\ o \in inst
        BY <2>1, <2>7 DEF IInv, TypeInv
      <4>2. Queued(Deletion(o))
        BY <2>1, <2>7, <4>1 DEF SceneInv
      <4>3. PICK i \in 1..Len(evq) : evq[i] = Deletion(o)
        BY <4>2 DEF Queued
      <4>4. i \in 1..Len(evq') /\ i < j /\ evq'[i] = Deletion(o)
        BY <2>2, <3>1, <4>3
      <4> QED
        BY <4>4
    <3>2. CASE j # Len(evq) + 1
      <4>1. j \in 1..Len(evq) /\ evq[j] = Joining(q)
        BY <2>2, <2>7, <3>2
      <4>2. Queued(Joining(q))
        BY <4>1 DEF Queued
      <4>3. q # p /\ peer[q] = x
        BY <2>1, <2>3, <2>7, <4>2 DEF JoinInv, Known, Awaited
      <4>4. PICK i \in 1..Len(evq) : i < j /\ evq[i] = Deletion(o)
        BY <2>1, <2>7, <4>1, <4>3 DEF JoinInv, Known, Awaited
      <4>5. i \in 1..Len(evq') /\ evq'[i] = Deletion(o)
        BY <2>2, <4>4
      <4> QED
        BY <4>4, <4>5
    <3> QED
      BY <3>1, <3>2
  <2> QED
    BY <2>5, <2>6, <2>7 DEF JoinInv, Known, Awaited
<1>16. ASSUME NEW s \in Scenes, NEW c \in Chunks, GetVoxel(s, c) PROVE JoinInv'
  BY <1>16, JoinQuiet DEF GetVoxel, InBuffer, vwVars, nodes, net, world, history, client
<1>17. ASSUME NEW s \in Scenes, NEW c \in Chunks, SetVoxel(s, c) PROVE JoinInv'
  BY <1>17, JoinQuiet DEF SetVoxel, InBuffer, vwVars, nodes, net, world, history, client
<1>18. ASSUME NEW s \in Scenes, NEW c \in Chunks, CommitWrite(s, c) PROVE JoinInv'
  BY <1>18, JoinQuiet DEF CommitWrite, vwVars, nodes, net, world, history, client
<1>19. ASSUME NEW p \in Peers, Leave(p) PROVE JoinInv'
  <2>0. evq \in Seq(EventsOf)
    BY DEF NetTypeInv
  <2>1. /\ evq' = Append(evq, Leaving(p)) /\ Leaving(p) \in EventsOf
        /\ UNCHANGED <<scene, inst, inited, peer>> /\ gone' = gone \cup {p}
    BY <1>19 DEF Leave, Leaving, EventsOf, world, nodes
  <2>2. /\ \A x : Queued(x)' <=> Queued(x) \/ x = Leaving(p)
        /\ Len(evq') = Len(evq) + 1 /\ evq'[Len(evq) + 1] = Leaving(p)
        /\ \A i \in 1..Len(evq) : evq'[i] = evq[i]
        /\ Len(evq) \in Nat
    BY <2>0, <2>1, QueuedAppend
  <2>3. ASSUME NEW q \in Peers, NEW x \in Scenes, peer[q] = x, scene[x] = "live",
               NEW j \in 1..Len(evq'), NEW o \in inst, evq'[j] = Joining(q),
               scene[o] = "deleted"
        PROVE  \E i \in 1..Len(evq') : i < j /\ evq'[i] = Deletion(o)
    <3>1. j # Len(evq) + 1
      BY <2>2, <2>3, EventsDiffer
    <3>2. j \in 1..Len(evq) /\ evq[j] = Joining(q)
      BY <2>2, <2>3, <3>1
    <3>3. PICK i \in 1..Len(evq) : i < j /\ evq[i] = Deletion(o)
      BY <2>3, <3>2 DEF JoinInv, Known, Awaited
    <3>4. i \in 1..Len(evq') /\ evq'[i] = Deletion(o)
      BY <2>2, <3>3
    <3> QED
      BY <3>3, <3>4
  <2>4. ASSUME NEW q \in Peers
        PROVE  /\ peer'[q] # 0 => scene'[peer'[q]] # "none"
               /\ Queued(Joining(q))' => peer'[q] # 0
               /\ Queued(Leaving(q))' => q \in gone'
               /\ \A o \in Scenes : q \in inited'[o] => peer'[q] # 0
    BY <2>1, <2>2, EventsDiffer DEF JoinInv, Known, Awaited
  <2>5. ASSUME NEW q \in Peers, NEW x \in Scenes, peer[q] = x, scene[x] = "live"
        PROVE  /\ \A o \in Scenes : q \in inited'[o] => o = x
               /\ q \notin gone' => Queued(Joining(q))' \/ q \in inited'[x]
    BY <2>1, <2>2, <2>5 DEF JoinInv, Known, Awaited
  <2> QED
    BY <2>1, <2>3, <2>4, <2>5 DEF JoinInv, Known, Awaited
<1>20. ASSUME NEW p \in Peers, Receive(p) PROVE JoinInv'
  BY <1>20, JoinQuiet DEF Receive, vwVars, nodes, net, world, history, client
<1>21. ASSUME NEW p \in Peers, NEW c \in Chunks, Sync(p, c) PROVE JoinInv'
  BY <1>21, JoinQuiet DEF Sync, vwVars, nodes, net, world, history, client
<1> QED
  BY <1>1, <1>2, <1>3, <1>4, <1>5, <1>6, <1>7, <1>8, <1>9, <1>10, <1>11,
     <1>12, <1>13, <1>14, <1>15, <1>16, <1>17, <1>18, <1>19, <1>20, <1>21
 DEF VWNext

-----------------------------------------------------------------------------
(* Packets *)

LEMMA PacketKinds ==
  /\ \A c : /\ NodesOf(c) \cap UpdatesOf(c) = {} /\ NodesOf(c) \cap Registries = {}
            /\ NodesOf(c) \cap Readies = {} /\ UpdatesOf(c) \cap Registries = {}
            /\ UpdatesOf(c) \cap Readies = {}
  /\ Registries \cap Readies = {}
  /\ \A c, e : c # e => NodesOf(c) \cap NodesOf(e) = {}
  /\ \A c, e : c # e => UpdatesOf(c) \cap UpdatesOf(e) = {}
  /\ \A c, e : NodesOf(c) \cap UpdatesOf(e) = {}
  /\ \A c \in Chunks : NodesOf(c) \subseteq Packets /\ UpdatesOf(c) \subseteq Packets
  /\ Registries \subseteq Packets /\ Readies \subseteq Packets
<1>1. \A c : \A m \in NodesOf(c) : m.k = "node" /\ m.c = c
  BY DEF NodesOf
<1>2. \A c : \A m \in UpdatesOf(c) : m.k = "updated" /\ m.c = c
  BY DEF UpdatesOf
<1>3. \A m \in Registries : m.k = "registry"
  BY DEF Registries
<1>4. \A m \in Readies : m.k = "ready"
  BY DEF Readies
<1>5. "node" # "updated" /\ "node" # "registry" /\ "node" # "ready"
      /\ "updated" # "registry" /\ "updated" # "ready" /\ "registry" # "ready"
  OBVIOUS
<1>6. /\ \A c \in Chunks : NodesOf(c) \subseteq Packets /\ UpdatesOf(c) \subseteq Packets
      /\ Registries \subseteq Packets /\ Readies \subseteq Packets
  BY DEF Packets
<1>7. \A c : /\ NodesOf(c) \cap UpdatesOf(c) = {} /\ NodesOf(c) \cap Registries = {}
             /\ NodesOf(c) \cap Readies = {} /\ UpdatesOf(c) \cap Registries = {}
             /\ UpdatesOf(c) \cap Readies = {}
  BY <1>1, <1>2, <1>3, <1>4, <1>5
<1>8. Registries \cap Readies = {}
  BY <1>3, <1>4, <1>5
<1>9. /\ \A c, e : c # e => NodesOf(c) \cap NodesOf(e) = {}
      /\ \A c, e : c # e => UpdatesOf(c) \cap UpdatesOf(e) = {}
      /\ \A c, e : NodesOf(c) \cap UpdatesOf(e) = {}
  BY <1>1, <1>2, <1>5
<1> QED
  BY <1>6, <1>7, <1>8, <1>9

\* What is sent.
LEMMA PacketTypes ==
  /\ \A c, d : d \in Versions => [k |-> "node", c |-> c, d |-> d] \in NodesOf(c)
  /\ \A c : [k |-> "updated", c |-> c] \in UpdatesOf(c)
  /\ \A t \in Nat : [k |-> "registry", t |-> t] \in Registries
  /\ [k |-> "ready"] \in Readies
BY DEF NodesOf, UpdatesOf, Registries, Readies

\* What a client does with a packet depends on its kind.
LEMMA PacketCases ==
  ASSUME NEW m \in Packets
  PROVE  /\ m.k = "node" => m.c \in Chunks /\ m \in NodesOf(m.c) /\ m.d \in Versions
         /\ m.k = "updated" => m.c \in Chunks /\ m \in UpdatesOf(m.c)
         /\ m.k = "registry" => m \in Registries /\ m.t \in Nat
         /\ m.k = "ready" => m \in Readies
         /\ \A c : m \in NodesOf(c) => m.k = "node" /\ m.c = c /\ m.d \in Versions
         /\ \A c : m \in UpdatesOf(c) => m.k = "updated" /\ m.c = c
         /\ m \in Registries => m.k = "registry" /\ m.t \in Nat
         /\ m \in Readies => m.k = "ready"
<1>1. \A c : m \in NodesOf(c) => m.k = "node" /\ m.c = c /\ m.d \in Versions
  BY DEF NodesOf
<1>2. \A c : m \in UpdatesOf(c) => m.k = "updated" /\ m.c = c
  BY DEF UpdatesOf
<1>3. /\ m \in Registries => m.k = "registry" /\ m.t \in Nat
      /\ m \in Readies => m.k = "ready"
  BY DEF Registries, Readies
<1>4. \/ \E c \in Chunks : m \in NodesOf(c)
      \/ \E c \in Chunks : m \in UpdatesOf(c)
      \/ m \in Registries \/ m \in Readies
  BY DEF Packets
<1>5. "node" # "updated" /\ "node" # "registry" /\ "node" # "ready"
      /\ "updated" # "registry" /\ "updated" # "ready" /\ "registry" # "ready"
  OBVIOUS
<1> QED
  BY <1>1, <1>2, <1>3, <1>4, <1>5

LEMMA OnePacket ==
  ASSUME NEW m \in Packets
  PROVE  /\ <<m>> \in Seq(Packets) /\ Len(<<m>>) = 1
         /\ \A j \in 1..Len(<<m>>) : <<m>>[j] = m
         /\ 1 \in 1..Len(<<m>>)
OBVIOUS

\* Packets in S, when more packets follow.
AfterAppend(w, ps, S, v) ==
  /\ \A i \in 1..(Len(w) + 1) :
       /\ NoneYet(v, S, i) <=> NoneYet(w, S, i)
       /\ \A j \in Nat : Latest(v, S, i, j) <=> Latest(w, S, i, j)
       /\ \A j \in Nat : Latest(w, S, i, j) => v[j] = w[j]
  /\ NoneYet(v, S, Len(v) + 1) => NoneYet(w, S, Len(w) + 1)
  /\ (\A j \in 1..Len(ps) : ps[j] \notin S) =>
       /\ NoneYet(w, S, Len(w) + 1) => NoneYet(v, S, Len(v) + 1)
       /\ \A j \in Nat : Latest(v, S, Len(v) + 1, j) =>
            Latest(w, S, Len(w) + 1, j) /\ v[j] = w[j]
  /\ (\E j \in 1..Len(ps) : ps[j] \in S) =>
       /\ ~NoneYet(v, S, Len(v) + 1)
       /\ \A j \in Nat : Latest(v, S, Len(v) + 1, j) =>
            j - Len(w) \in 1..Len(ps) /\ v[j] = ps[j - Len(w)] /\ v[j] \in S

LEMMA SeenAppend ==
  ASSUME NEW w \in Seq(Packets), NEW ps \in Seq(Packets), NEW S, NEW v, v = w \o ps
  PROVE  AfterAppend(w, ps, S, v)
<1> DEFINE n == Len(w)
           k == Len(ps)
<1>1. /\ n \in Nat /\ k \in Nat /\ Len(v) = n + k
      /\ \A j \in 1..n : v[j] = w[j]
      /\ \A j \in 1..k : v[n + j] = ps[j]
  OBVIOUS
<1> HIDE DEF n, k
<1>2. \A j \in 1..(n + k) : j \in 1..n \/ (j - n \in 1..k /\ n + (j - n) = j)
  BY <1>1
<1>3. \A j \in 1..n : j \in 1..(n + k) /\ j < n + 1
  BY <1>1
<1>4. \A j \in 1..k : n + j \in 1..(n + k) /\ n < n + j /\ n + j < n + k + 1 /\ (n + j) - n = j
  BY <1>1
<1>5. \A j \in 1..(n + k) : v[j] = IF j \in 1..n THEN w[j] ELSE ps[j - n]
  BY <1>1, <1>2
<1>6. ASSUME NEW i \in 1..(n + 1)
      PROVE  /\ \A j \in 1..(n + k) : j < i => j \in 1..n
             /\ NoneYet(v, S, i) <=> NoneYet(w, S, i)
             /\ \A j \in Nat : Latest(v, S, i, j) <=> Latest(w, S, i, j)
             /\ \A j \in Nat : Latest(w, S, i, j) => v[j] = w[j]
  <2>1. \A j \in 1..(n + k) : j < i => j \in 1..n
    BY <1>1
  <2>2. NoneYet(v, S, i) <=> NoneYet(w, S, i)
    BY <1>1, <1>3, <1>5, <2>1 DEF NoneYet, n
  <2>3. \A j \in Nat : Latest(v, S, i, j) <=> Latest(w, S, i, j)
    BY <1>1, <1>3, <1>5, <2>1 DEF Latest, n
  <2> QED
    BY <1>1, <2>1, <2>2, <2>3 DEF Latest, n
<1>7. ASSUME NEW i \in (n + 1)..(n + k + 1), NoneYet(v, S, i)
      PROVE  NoneYet(w, S, n + 1)
  <2>1. \A j \in 1..n : j \in 1..(n + k) /\ j < i
    BY <1>1
  <2> QED
    BY <1>1, <1>7, <2>1 DEF NoneYet, n
<1>8. ASSUME \A j \in 1..k : ps[j] \notin S, NEW i \in (n + 1)..(n + k + 1)
      PROVE  /\ NoneYet(w, S, n + 1) => NoneYet(v, S, i)
             /\ \A j \in Nat : Latest(v, S, i, j) =>
                  Latest(w, S, n + 1, j) /\ v[j] = w[j]
  <2>1. \A j \in 1..(n + k) : v[j] \in S => j \in 1..n /\ w[j] \in S
    BY <1>2, <1>5, <1>8
  <2>2. NoneYet(w, S, n + 1) => NoneYet(v, S, i)
    BY <1>1, <1>3, <2>1 DEF NoneYet, n
  <2>3. ASSUME NEW j \in Nat, Latest(v, S, i, j)
        PROVE  Latest(w, S, n + 1, j) /\ v[j] = w[j]
    <3>1. /\ j \in 1..(n + k) /\ v[j] \in S
          /\ \A l \in 1..(n + k) : j < l /\ l < i => v[l] \notin S
      BY <1>1, <2>3 DEF Latest
    <3>2. j \in 1..n /\ w[j] \in S
      BY <2>1, <3>1
    <3>3. \A l \in 1..n : l \in 1..(n + k) /\ l < i
      BY <1>1
    <3>4. \A l \in 1..n : j < l => w[l] \notin S
      BY <1>1, <3>1, <3>3
    <3> QED
      BY <1>1, <1>3, <3>2, <3>4 DEF Latest, n
  <2> QED
    BY <2>2, <2>3
<1>9. ASSUME NEW x \in 1..k, ps[x] \in S
      PROVE  /\ ~NoneYet(v, S, n + k + 1)
             /\ \A j \in Nat : Latest(v, S, n + k + 1, j) =>
                  j - n \in 1..k /\ v[j] = ps[j - n] /\ v[j] \in S
  <2>1. n + x \in 1..(n + k) /\ n + x < n + k + 1 /\ v[n + x] \in S
    BY <1>1, <1>4, <1>9
  <2>2. ~NoneYet(v, S, n + k + 1)
    BY <1>1, <2>1 DEF NoneYet
  <2>3. ASSUME NEW j \in Nat, Latest(v, S, n + k + 1, j)
        PROVE  j - n \in 1..k /\ v[j] = ps[j - n] /\ v[j] \in S
    <3>1. /\ j \in 1..(n + k) /\ v[j] \in S /\ ~(j < n + x)
      BY <1>1, <2>1, <2>3 DEF Latest
    <3>2. j \notin 1..n
      BY <1>1, <3>1
    <3> QED
      BY <1>2, <1>5, <3>1, <3>2
  <2> QED
    BY <2>2, <2>3
<1>10. Len(v) = n + k /\ n = Len(w) /\ k = Len(ps)
  BY <1>1 DEF n, k
<1>11. /\ NoneYet(v, S, n + k + 1) => NoneYet(w, S, n + 1)
       /\ (\A j \in 1..k : ps[j] \notin S) =>
            /\ NoneYet(w, S, n + 1) => NoneYet(v, S, n + k + 1)
            /\ \A j \in Nat : Latest(v, S, n + k + 1, j) =>
                 Latest(w, S, n + 1, j) /\ v[j] = w[j]
  <2>1. n + k + 1 \in (n + 1)..(n + k + 1)
    BY <1>1
  <2> QED
    BY <1>7, <1>8, <2>1
<1>12. (\E j \in 1..k : ps[j] \in S) =>
         /\ ~NoneYet(v, S, n + k + 1)
         /\ \A j \in Nat : Latest(v, S, n + k + 1, j) =>
              j - n \in 1..k /\ v[j] = ps[j - n] /\ v[j] \in S
  BY <1>9
<1>13. \A i \in 1..(n + 1) :
         /\ NoneYet(v, S, i) <=> NoneYet(w, S, i)
         /\ \A j \in Nat : Latest(v, S, i, j) <=> Latest(w, S, i, j)
         /\ \A j \in Nat : Latest(w, S, i, j) => v[j] = w[j]
  BY <1>6
<1> QED
  BY <1>10, <1>11, <1>12, <1>13 DEF AfterAppend

\* ... and when the first one is received.
AfterTail(w, S, v) ==
  \A i \in 1..(Len(v) + 1) :
    /\ NoneYet(v, S, i) /\ w[1] \notin S => NoneYet(w, S, i + 1)
    /\ NoneYet(v, S, i) /\ w[1] \in S => Latest(w, S, i + 1, 1)
    /\ NoneYet(w, S, i + 1) => NoneYet(v, S, i) /\ w[1] \notin S
    /\ \A j \in Nat : Latest(v, S, i, j) =>
         Latest(w, S, i + 1, j + 1) /\ v[j] = w[j + 1]

LEMMA SeenTail ==
  ASSUME NEW w \in Seq(Packets), w # <<>>, NEW S, NEW v, v = Tail(w)
  PROVE  /\ v \in Seq(Packets) /\ Head(w) = w[1] /\ Head(w) \in Packets
         /\ Len(w) = Len(v) + 1 /\ Len(v) \in Nat
         /\ \A j \in 1..Len(v) : v[j] = w[j + 1] /\ j + 1 \in 1..Len(w)
         /\ \A j \in 1..Len(w) : j # 1 => j - 1 \in 1..Len(v) /\ v[j - 1] = w[j]
         /\ AfterTail(w, S, v)
<1> DEFINE n == Len(v)
<1>1. /\ v \in Seq(Packets) /\ n \in Nat /\ Len(w) = n + 1
      /\ Head(w) \in Packets /\ Head(w) = w[1]
      /\ \A j \in 1..n : v[j] = w[j + 1]
  OBVIOUS
<1> HIDE DEF n
<1>2. \A j \in 1..n : j + 1 \in 1..(n + 1)
  BY <1>1
<1>3. ASSUME NEW j \in 1..(n + 1), j # 1
      PROVE  j - 1 \in 1..n /\ v[j - 1] = w[j]
  <2>1. j - 1 \in 1..n /\ (j - 1) + 1 = j
    BY <1>1, <1>3
  <2> QED
    BY <1>1, <2>1
<1>4. ASSUME NEW i \in 1..(n + 1)
      PROVE  /\ NoneYet(v, S, i) /\ w[1] \notin S => NoneYet(w, S, i + 1)
             /\ NoneYet(v, S, i) /\ w[1] \in S => Latest(w, S, i + 1, 1)
             /\ NoneYet(w, S, i + 1) => NoneYet(v, S, i) /\ w[1] \notin S
             /\ \A j \in Nat : Latest(v, S, i, j) =>
                  Latest(w, S, i + 1, j + 1) /\ v[j] = w[j + 1]
  <2>1. \A j \in 1..(n + 1) : j < i + 1 /\ j # 1 => j - 1 < i
    BY <1>1
  <2>2. \A j \in 1..n : j < i => j + 1 < i + 1
    BY <1>1
  <2>3. 1 \in 1..(n + 1) /\ 1 < i + 1
    BY <1>1
  <2>4. NoneYet(v, S, i) => \A l \in 1..(n + 1) : l < i + 1 /\ l # 1 => w[l] \notin S
    BY <1>3, <2>1 DEF NoneYet, n
  <2>5. NoneYet(v, S, i) /\ w[1] \notin S => NoneYet(w, S, i + 1)
    BY <1>1, <2>4 DEF NoneYet
  <2>6. NoneYet(v, S, i) /\ w[1] \in S => Latest(w, S, i + 1, 1)
    BY <1>1, <2>3, <2>4 DEF Latest
  <2>7. NoneYet(w, S, i + 1) => NoneYet(v, S, i) /\ w[1] \notin S
    BY <1>1, <1>2, <2>2, <2>3 DEF NoneYet, n
  <2>8. ASSUME NEW j \in Nat, Latest(v, S, i, j)
        PROVE  Latest(w, S, i + 1, j + 1) /\ v[j] = w[j + 1]
    <3>1. /\ j \in 1..n /\ j < i /\ v[j] \in S
          /\ \A l \in 1..n : j < l /\ l < i => v[l] \notin S
      BY <2>8 DEF Latest, n
    <3>2. /\ j + 1 \in 1..(n + 1) /\ j + 1 < i + 1 /\ w[j + 1] \in S /\ v[j] = w[j + 1]
      BY <1>1, <1>2, <2>2, <3>1
    <3>3. ASSUME NEW l \in 1..(n + 1), j + 1 < l, l < i + 1
          PROVE  w[l] \notin S
      <4>1. l # 1 /\ j < l - 1 /\ l - 1 < i
        BY <1>1, <3>1, <3>3
      <4> QED
        BY <1>3, <3>1, <4>1
    <3> QED
      BY <1>1, <3>2, <3>3 DEF Latest
  <2> QED
    BY <2>5, <2>6, <2>7, <2>8
<1> QED
  BY <1>1, <1>2, <1>3, <1>4 DEF n, AfterTail

LEMMA WireTypes ==
  ASSUME NetTypeInv, NEW p \in Peers
  PROVE  /\ wire[p] \in Seq(Packets) /\ Len(wire[p]) \in Nat
         /\ \A i \in 1..Len(wire[p]) : wire[p][i] \in Packets
         /\ readies[p] \in Nat /\ types[p] \in Nat
         /\ \A c \in Chunks : copy[p][c] \in Versions \cup {NoData}
         /\ \A c \in Chunks : sent[p][c] \in Versions \cup {NoData}
BY DEF NetTypeInv

-----------------------------------------------------------------------------
(* What a client has of what is on its wire *)

LEMMA ClientSame ==
  ASSUME NEW p, wire'[p] = wire[p], copy'[p] = copy[p], types'[p] = types[p],
         readies'[p] = readies[p]
  PROVE  /\ End(p)' = End(p)
         /\ \A i : ReadyAt(p, i)' <=> ReadyAt(p, i)
         /\ \A c, i, d : CopyAt(p, c, i, d)' <=> CopyAt(p, c, i, d)
         /\ \A i, t : TypesAt(p, i, t)' <=> TypesAt(p, i, t)
<1>1. End(p)' = End(p)
  BY DEF End
<1>2. \A i : ReadyAt(p, i)' <=> ReadyAt(p, i)
  BY DEF ReadyAt
<1>3. \A c, i, d : CopyAt(p, c, i, d)' <=> CopyAt(p, c, i, d)
  BY DEF CopyAt
<1>4. \A i, t : TypesAt(p, i, t)' <=> TypesAt(p, i, t)
  BY DEF TypesAt
<1> QED
  BY <1>1, <1>2, <1>3, <1>4

LEMMA ClientAppend ==
  ASSUME NetTypeInv, NEW p \in Peers, NEW ps \in Seq(Packets),
         wire'[p] = wire[p] \o ps, UNCHANGED <<copy, types, readies>>
  PROVE  /\ End(p) \in Nat /\ End(p)' = End(p) + Len(ps) /\ Len(ps) \in Nat
         /\ Len(wire[p]) \in Nat /\ Len(wire'[p]) = Len(wire[p]) + Len(ps)
         /\ \A j \in 1..Len(wire[p]) : wire'[p][j] = wire[p][j]
         /\ \A j \in 1..Len(ps) : wire'[p][Len(wire[p]) + j] = ps[j]
         /\ \A i \in 1..End(p) :
              /\ ReadyAt(p, i)' <=> ReadyAt(p, i)
              /\ \A c, d : CopyAt(p, c, i, d)' <=> CopyAt(p, c, i, d)
              /\ \A t : TypesAt(p, i, t)' <=> TypesAt(p, i, t)
         /\ ReadyAt(p, End(p)) => ReadyAt(p, End(p))'
         /\ (\E j \in 1..Len(ps) : ps[j] \in Readies) => ReadyAt(p, End(p))'
         /\ \A c : (\A j \in 1..Len(ps) : ps[j] \notin NodesOf(c)) =>
              /\ \A d : CopyAt(p, c, End(p), d)' => CopyAt(p, c, End(p), d)
              /\ NoneYet(wire[p], NodesOf(c), End(p)) =>
                   NoneYet(wire[p], NodesOf(c), End(p))'
         /\ \A c : (\E j \in 1..Len(ps) : ps[j] \in NodesOf(c)) =>
              \A d : CopyAt(p, c, End(p), d)' =>
                \E j \in 1..Len(ps) : ps[j] \in NodesOf(c) /\ d = ps[j].d
         /\ (\A j \in 1..Len(ps) : ps[j] \notin Registries) =>
              \A t : TypesAt(p, End(p), t)' => TypesAt(p, End(p), t)
         /\ (\E j \in 1..Len(ps) : ps[j] \in Registries) =>
              \A t : TypesAt(p, End(p), t)' =>
                \E j \in 1..Len(ps) : ps[j] \in Registries /\ t = ps[j].t
<1> DEFINE w == wire[p]
           v == wire'[p]
           e == Len(w) + 1
           f == Len(v) + 1
<1>1. /\ w \in Seq(Packets) /\ v = w \o ps /\ Len(w) \in Nat /\ Len(ps) \in Nat
      /\ Len(v) = Len(w) + Len(ps)
      /\ \A j \in 1..Len(w) : v[j] = w[j]
      /\ \A j \in 1..Len(ps) : v[Len(w) + j] = ps[j]
  BY WireTypes
<1>2. /\ e \in Nat /\ f = e + Len(ps) /\ e \in 1..e /\ f \in e..f
  BY <1>1
<1>3. ASSUME NEW S
      PROVE  /\ \A i \in 1..e :
                  /\ NoneYet(v, S, i) <=> NoneYet(w, S, i)
                  /\ \A j \in Nat : Latest(v, S, i, j) <=> Latest(w, S, i, j)
                  /\ \A j \in Nat : Latest(w, S, i, j) => v[j] = w[j]
             /\ NoneYet(v, S, f) => NoneYet(w, S, e)
             /\ (\A j \in 1..Len(ps) : ps[j] \notin S) =>
                  /\ NoneYet(w, S, e) => NoneYet(v, S, f)
                  /\ \A j \in Nat : Latest(v, S, f, j) => Latest(w, S, e, j) /\ v[j] = w[j]
             /\ (\E j \in 1..Len(ps) : ps[j] \in S) =>
                  /\ ~NoneYet(v, S, f)
                  /\ \A j \in Nat : Latest(v, S, f, j) =>
                       j - Len(w) \in 1..Len(ps) /\ v[j] = ps[j - Len(w)] /\ v[j] \in S
  <2>1. AfterAppend(w, ps, S, v)
    <3> HIDE DEF w, v
    <3> QED
      BY <1>1, SeenAppend
  <2> QED
    BY <2>1 DEF AfterAppend
<1>4. End(p) = e /\ End(p)' = f
  BY DEF End
<1>5. ASSUME NEW i
      PROVE  /\ ReadyAt(p, i)' <=> readies[p] > 0 \/ ~NoneYet(v, Readies, i)
             /\ ReadyAt(p, i) <=> readies[p] > 0 \/ ~NoneYet(w, Readies, i)
  BY DEF ReadyAt
<1>6. ASSUME NEW c, NEW i, NEW d
      PROVE  /\ CopyAt(p, c, i, d)' <=>
                  \/ NoneYet(v, NodesOf(c), i) /\ d = copy[p][c]
                  \/ \E j \in Nat : Latest(v, NodesOf(c), i, j) /\ d = v[j].d
             /\ CopyAt(p, c, i, d) <=>
                  \/ NoneYet(w, NodesOf(c), i) /\ d = copy[p][c]
                  \/ \E j \in Nat : Latest(w, NodesOf(c), i, j) /\ d = w[j].d
  BY DEF CopyAt
<1>7. ASSUME NEW i, NEW t
      PROVE  /\ TypesAt(p, i, t)' <=>
                  \/ NoneYet(v, Registries, i) /\ t = types[p]
                  \/ \E j \in Nat : Latest(v, Registries, i, j) /\ t = v[j].t
             /\ TypesAt(p, i, t) <=>
                  \/ NoneYet(w, Registries, i) /\ t = types[p]
                  \/ \E j \in Nat : Latest(w, Registries, i, j) /\ t = w[j].t
  BY DEF TypesAt
<1>8. \A c : NoneYet(wire[p], NodesOf(c), End(p))' <=> NoneYet(v, NodesOf(c), f)
  BY <1>4
<1>9. \A c : NoneYet(wire[p], NodesOf(c), End(p)) <=> NoneYet(w, NodesOf(c), e)
  BY <1>4
<1>10. /\ ReadyAt(p, End(p))' <=> readies[p] > 0 \/ ~NoneYet(v, Readies, f)
       /\ ReadyAt(p, End(p)) <=> readies[p] > 0 \/ ~NoneYet(w, Readies, e)
  BY <1>4 DEF ReadyAt
<1>11. ASSUME NEW c, NEW d
       PROVE  /\ CopyAt(p, c, End(p), d)' <=>
                  \/ NoneYet(v, NodesOf(c), f) /\ d = copy[p][c]
                  \/ \E j \in Nat : Latest(v, NodesOf(c), f, j) /\ d = v[j].d
              /\ CopyAt(p, c, End(p), d) <=>
                  \/ NoneYet(w, NodesOf(c), e) /\ d = copy[p][c]
                  \/ \E j \in Nat : Latest(w, NodesOf(c), e, j) /\ d = w[j].d
  BY <1>4 DEF CopyAt
<1>12. ASSUME NEW t
       PROVE  /\ TypesAt(p, End(p), t)' <=>
                  \/ NoneYet(v, Registries, f) /\ t = types[p]
                  \/ \E j \in Nat : Latest(v, Registries, f, j) /\ t = v[j].t
              /\ TypesAt(p, End(p), t) <=>
                  \/ NoneYet(w, Registries, e) /\ t = types[p]
                  \/ \E j \in Nat : Latest(w, Registries, e, j) /\ t = w[j].t
  BY <1>4 DEF TypesAt
<1>13. /\ e = Len(wire[p]) + 1 /\ f = Len(wire'[p]) + 1 /\ w = wire[p] /\ v = wire'[p]
  OBVIOUS
<1> HIDE DEF w, v, e, f
<1>14. ASSUME NEW i \in 1..e
       PROVE  /\ ReadyAt(p, i)' <=> ReadyAt(p, i)
              /\ \A c, d : CopyAt(p, c, i, d)' <=> CopyAt(p, c, i, d)
              /\ \A t : TypesAt(p, i, t)' <=> TypesAt(p, i, t)
  <2>1. ReadyAt(p, i)' <=> ReadyAt(p, i)
    BY <1>3, <1>5
  <2>2. ASSUME NEW c, NEW d PROVE CopyAt(p, c, i, d)' <=> CopyAt(p, c, i, d)
    <3>1. /\ NoneYet(v, NodesOf(c), i) <=> NoneYet(w, NodesOf(c), i)
          /\ \A j \in Nat : Latest(v, NodesOf(c), i, j) <=> Latest(w, NodesOf(c), i, j)
          /\ \A j \in Nat : Latest(w, NodesOf(c), i, j) => v[j] = w[j]
      BY <1>3
    <3>2. (\E j \in Nat : Latest(v, NodesOf(c), i, j) /\ d = v[j].d) <=>
            \E j \in Nat : Latest(w, NodesOf(c), i, j) /\ d = w[j].d
      BY <3>1
    <3> QED
      BY <1>6, <3>1, <3>2
  <2>3. ASSUME NEW t PROVE TypesAt(p, i, t)' <=> TypesAt(p, i, t)
    <3>1. /\ NoneYet(v, Registries, i) <=> NoneYet(w, Registries, i)
          /\ \A j \in Nat : Latest(v, Registries, i, j) <=> Latest(w, Registries, i, j)
          /\ \A j \in Nat : Latest(w, Registries, i, j) => v[j] = w[j]
      BY <1>3
    <3>2. (\E j \in Nat : Latest(v, Registries, i, j) /\ t = v[j].t) <=>
            \E j \in Nat : Latest(w, Registries, i, j) /\ t = w[j].t
      BY <3>1
    <3> QED
      BY <1>7, <3>1, <3>2
  <2> QED
    BY <2>1, <2>2, <2>3
<1>15. ReadyAt(p, End(p)) => ReadyAt(p, End(p))'
  BY <1>3, <1>10
<1>16. (\E j \in 1..Len(ps) : ps[j] \in Readies) => ReadyAt(p, End(p))'
  BY <1>3, <1>10
<1>17. ASSUME NEW c, \A j \in 1..Len(ps) : ps[j] \notin NodesOf(c)
       PROVE  /\ \A d : CopyAt(p, c, End(p), d)' => CopyAt(p, c, End(p), d)
              /\ NoneYet(wire[p], NodesOf(c), End(p)) =>
                   NoneYet(wire[p], NodesOf(c), End(p))'
  <2>1. ASSUME NEW d PROVE CopyAt(p, c, End(p), d)' => CopyAt(p, c, End(p), d)
    BY ZenonT(30), <1>3, <1>11, <1>17
  <2> QED
    BY <1>3, <1>8, <1>9, <1>17, <2>1
<1>18. ASSUME NEW c, \E j \in 1..Len(ps) : ps[j] \in NodesOf(c)
       PROVE  \A d : CopyAt(p, c, End(p), d)' =>
                \E j \in 1..Len(ps) : ps[j] \in NodesOf(c) /\ d = ps[j].d
  BY <1>3, <1>11, <1>18
<1>19. ASSUME \A j \in 1..Len(ps) : ps[j] \notin Registries
       PROVE  \A t : TypesAt(p, End(p), t)' => TypesAt(p, End(p), t)
  BY ZenonT(30), <1>3, <1>12, <1>19
<1>20. ASSUME \E j \in 1..Len(ps) : ps[j] \in Registries
       PROVE  \A t : TypesAt(p, End(p), t)' =>
                \E j \in 1..Len(ps) : ps[j] \in Registries /\ t = ps[j].t
  <2>1. /\ ~NoneYet(v, Registries, f)
        /\ \A j \in Nat : Latest(v, Registries, f, j) =>
             j - Len(w) \in 1..Len(ps) /\ v[j] = ps[j - Len(w)] /\ v[j] \in Registries
    BY <1>3, <1>20
  <2>2. ASSUME NEW t, TypesAt(p, End(p), t)'
        PROVE  \E j \in 1..Len(ps) : ps[j] \in Registries /\ t = ps[j].t
    <3>1. PICK j \in Nat : Latest(v, Registries, f, j) /\ t = v[j].t
      BY <1>12, <2>1, <2>2
    <3> QED
      BY <2>1, <3>1
  <2> QED
    BY <2>2
<1>21. /\ End(p) \in Nat /\ End(p)' = End(p) + Len(ps)
  BY <1>2, <1>4
<1>22. \A i \in 1..End(p) :
              /\ ReadyAt(p, i)' <=> ReadyAt(p, i)
              /\ \A c, d : CopyAt(p, c, i, d)' <=> CopyAt(p, c, i, d)
              /\ \A t : TypesAt(p, i, t)' <=> TypesAt(p, i, t)
  BY <1>4, <1>14
<1> QED
  BY <1>1, <1>13, <1>15, <1>16, <1>17, <1>18, <1>19, <1>20, <1>21, <1>22

LEMMA ClientReceive ==
  ASSUME NetTypeInv, NEW p \in Peers, Receive(p)
  PROVE  /\ wire[p] # <<>> /\ wire' = [wire EXCEPT ![p] = Tail(wire[p])]
         /\ wire'[p] \in Seq(Packets) /\ Len(wire'[p]) \in Nat
         /\ Len(wire[p]) = Len(wire'[p]) + 1 /\ wire[p][1] \in Packets
         /\ Head(wire[p]) = wire[p][1]
         /\ \A q \in Peers \ {p} : /\ wire'[q] = wire[q] /\ copy'[q] = copy[q]
                                   /\ types'[q] = types[q] /\ readies'[q] = readies[q]
                                   /\ mesh'[q] = mesh[q]
         /\ \A j \in 1..Len(wire'[p]) :
              wire'[p][j] = wire[p][j + 1] /\ j + 1 \in 1..Len(wire[p])
         /\ \A j \in 1..Len(wire[p]) : j # 1 =>
              j - 1 \in 1..Len(wire'[p]) /\ wire'[p][j - 1] = wire[p][j]
         /\ End(p) = End(p)' + 1
         /\ \A c \in Chunks :
              copy'[p][c] = IF wire[p][1] \in NodesOf(c) THEN wire[p][1].d ELSE copy[p][c]
         /\ \A i \in 1..(Len(wire'[p]) + 1) :
              /\ ReadyAt(p, i + 1) => ReadyAt(p, i)'
              /\ \A c \in Chunks : \A d : CopyAt(p, c, i, d)' => CopyAt(p, c, i + 1, d)
              /\ \A t : TypesAt(p, i, t)' => TypesAt(p, i + 1, t)
         /\ \A c : NoneYet(wire[p], NodesOf(c), End(p)) =>
              NoneYet(wire[p], NodesOf(c), End(p))' /\ wire[p][1] \notin NodesOf(c)
<1> DEFINE w == wire[p]
           v == wire'[p]
           m == w[1]
           n == Len(v)
<1>1. /\ wire[p] # <<>> /\ wire' = [wire EXCEPT ![p] = Tail(wire[p])]
      /\ copy' = IF Head(w).k = "node"
                 THEN [copy EXCEPT ![p][Head(w).c] = Head(w).d] ELSE copy
      /\ types' = IF Head(w).k = "registry" THEN [types EXCEPT ![p] = Head(w).t] ELSE types
      /\ readies' = IF Head(w).k = "ready" THEN [readies EXCEPT ![p] = @ + 1] ELSE readies
  BY DEF Receive
<1>2. /\ w \in Seq(Packets) /\ w # <<>> /\ v = Tail(w)
      /\ readies[p] \in Nat /\ types[p] \in Nat
  BY <1>1, WireTypes DEF NetTypeInv
<1>3. /\ v \in Seq(Packets) /\ Head(w) = m /\ m \in Packets
      /\ Len(w) = n + 1 /\ n \in Nat
      /\ \A j \in 1..n : v[j] = w[j + 1] /\ j + 1 \in 1..Len(w)
      /\ \A j \in 1..Len(w) : j # 1 => j - 1 \in 1..n /\ v[j - 1] = w[j]
  BY <1>2, SeenTail
<1>4. ASSUME NEW S
      PROVE  \A i \in 1..(n + 1) :
              /\ NoneYet(v, S, i) /\ m \notin S => NoneYet(w, S, i + 1)
              /\ NoneYet(v, S, i) /\ m \in S => Latest(w, S, i + 1, 1)
              /\ NoneYet(w, S, i + 1) => NoneYet(v, S, i) /\ m \notin S
              /\ \A j \in Nat : Latest(v, S, i, j) =>
                   Latest(w, S, i + 1, j + 1) /\ v[j] = w[j + 1]
  <2>1. AfterTail(w, S, v)
    <3> HIDE DEF w, v
    <3> QED
      BY <1>2, SeenTail
  <2> QED
    BY <2>1 DEF AfterTail
<1>5. /\ End(p) = n + 2 /\ End(p)' = n + 1 /\ n + 1 \in 1..(n + 1)
  BY <1>3 DEF End
<1>6. /\ m.k = "node" => m.c \in Chunks /\ m \in NodesOf(m.c) /\ m.d \in Versions
      /\ \A c : m \in NodesOf(c) => m.k = "node" /\ m.c = c
      /\ m.k = "registry" <=> m \in Registries
      /\ m.k = "ready" <=> m \in Readies
  BY <1>3, PacketCases
<1>7. ASSUME NEW q \in Peers \ {p}
      PROVE  /\ wire'[q] = wire[q] /\ copy'[q] = copy[q]
             /\ types'[q] = types[q] /\ readies'[q] = readies[q]
             /\ mesh'[q] = mesh[q]
  <2>1. mesh'[q] = mesh[q]
    BY DEF Receive, NetTypeInv
  <2> QED
    BY <1>1, <2>1 DEF NetTypeInv
<1>8. ASSUME NEW c \in Chunks
      PROVE  copy'[p][c] = IF m \in NodesOf(c) THEN m.d ELSE copy[p][c]
  <2>1. copy \in [Peers -> [Chunks -> Versions \cup {NoData}]]
    BY DEF NetTypeInv
  <2>2. copy' = IF m.k = "node" THEN [copy EXCEPT ![p][m.c] = m.d] ELSE copy
    BY <1>1, <1>3
  <2> HIDE DEF m
  <2>3. CASE m.k = "node"
    BY <1>6, <2>1, <2>2, <2>3
  <2>4. CASE m.k # "node"
    BY <1>6, <2>2, <2>4
  <2> QED
    BY <2>3, <2>4
<1>9. /\ types'[p] = IF m \in Registries THEN m.t ELSE types[p]
      /\ readies'[p] = IF m \in Readies THEN readies[p] + 1 ELSE readies[p]
  <2>1. /\ types \in [Peers -> Nat] /\ readies \in [Peers -> Nat]
    BY DEF NetTypeInv
  <2>2. /\ types' = IF m.k = "registry" THEN [types EXCEPT ![p] = m.t] ELSE types
        /\ readies' = IF m.k = "ready" THEN [readies EXCEPT ![p] = @ + 1] ELSE readies
    BY <1>1, <1>3
  <2> HIDE DEF m
  <2> QED
    BY <1>6, <2>1, <2>2
<1>10. ASSUME NEW i
      PROVE  /\ ReadyAt(p, i)' <=> readies'[p] > 0 \/ ~NoneYet(v, Readies, i)
             /\ ReadyAt(p, i) <=> readies[p] > 0 \/ ~NoneYet(w, Readies, i)
  BY DEF ReadyAt
<1>11. ASSUME NEW c, NEW i, NEW d
      PROVE  /\ CopyAt(p, c, i, d)' <=>
                  \/ NoneYet(v, NodesOf(c), i) /\ d = copy'[p][c]
                  \/ \E j \in Nat : Latest(v, NodesOf(c), i, j) /\ d = v[j].d
             /\ CopyAt(p, c, i, d) <=>
                  \/ NoneYet(w, NodesOf(c), i) /\ d = copy[p][c]
                  \/ \E j \in Nat : Latest(w, NodesOf(c), i, j) /\ d = w[j].d
  BY DEF CopyAt
<1>12. ASSUME NEW i, NEW t
      PROVE  /\ TypesAt(p, i, t)' <=>
                  \/ NoneYet(v, Registries, i) /\ t = types'[p]
                  \/ \E j \in Nat : Latest(v, Registries, i, j) /\ t = v[j].t
             /\ TypesAt(p, i, t) <=>
                  \/ NoneYet(w, Registries, i) /\ t = types[p]
                  \/ \E j \in Nat : Latest(w, Registries, i, j) /\ t = w[j].t
  BY DEF TypesAt
<1>13. \A c : /\ NoneYet(wire[p], NodesOf(c), End(p)) <=> NoneYet(w, NodesOf(c), n + 2)
              /\ NoneYet(wire[p], NodesOf(c), End(p))' <=> NoneYet(v, NodesOf(c), n + 1)
  BY <1>5
<1>14. n = Len(wire'[p]) /\ w = wire[p] /\ v = wire'[p] /\ m = wire[p][1] /\ m = w[1]
  OBVIOUS
<1> HIDE DEF w, v, m, n
<1>15. ASSUME NEW i \in 1..(n + 1)
       PROVE  /\ ReadyAt(p, i + 1) => ReadyAt(p, i)'
              /\ \A c \in Chunks : \A d : CopyAt(p, c, i, d)' => CopyAt(p, c, i + 1, d)
              /\ \A t : TypesAt(p, i, t)' => TypesAt(p, i + 1, t)
  <2>1. ReadyAt(p, i + 1) => ReadyAt(p, i)'
    BY <1>2, <1>4, <1>9, <1>10
  <2>2. \A j \in Nat : j + 1 \in Nat
    OBVIOUS
  <2>3. ASSUME NEW c \in Chunks, NEW d, CopyAt(p, c, i, d)'
        PROVE  CopyAt(p, c, i + 1, d)
    <3>1. CASE NoneYet(v, NodesOf(c), i) /\ d = copy'[p][c]
      BY <1>4, <1>8, <1>11, <1>14, <3>1
    <3>2. CASE \E j \in Nat : Latest(v, NodesOf(c), i, j) /\ d = v[j].d
      <4>1. PICK j \in Nat : Latest(v, NodesOf(c), i, j) /\ d = v[j].d
        BY <3>2
      <4>2. j + 1 \in Nat /\ Latest(w, NodesOf(c), i + 1, j + 1) /\ d = w[j + 1].d
        BY <1>4, <2>2, <4>1
      <4> QED
        BY <1>11, <4>2
    <3> QED
      BY <1>11, <2>3, <3>1, <3>2
  <2>4. ASSUME NEW t, TypesAt(p, i, t)' PROVE TypesAt(p, i + 1, t)
    <3>1. CASE NoneYet(v, Registries, i) /\ t = types'[p]
      BY <1>4, <1>9, <1>12, <1>14, <3>1
    <3>2. CASE \E j \in Nat : Latest(v, Registries, i, j) /\ t = v[j].t
      <4>1. PICK j \in Nat : Latest(v, Registries, i, j) /\ t = v[j].t
        BY <3>2
      <4>2. j + 1 \in Nat /\ Latest(w, Registries, i + 1, j + 1) /\ t = w[j + 1].t
        BY <1>4, <2>2, <4>1
      <4> QED
        BY <1>12, <4>2
    <3> QED
      BY <1>12, <2>4, <3>1, <3>2
  <2> QED
    BY <2>1, <2>3, <2>4
<1>16. \A c : NoneYet(w, NodesOf(c), n + 2) => NoneYet(v, NodesOf(c), n + 1) /\ m \notin NodesOf(c)
  <2>1. (n + 1) + 1 = n + 2
    BY <1>3
  <2> QED
    BY <1>4, <1>5, <2>1
<1>17. End(p) = End(p)' + 1
  BY <1>3, <1>5
<1> QED
  BY <1>1, <1>3, <1>7, <1>8, <1>13, <1>14, <1>15, <1>16, <1>17

-----------------------------------------------------------------------------
(* What is sent *)

RegistryPacket(s) == [k |-> "registry", t |-> reg[s].n]
Ready == [k |-> "ready"]
UpdatePacket(c) == [k |-> "updated", c |-> c]

LEMMA RegistrySent ==
  ASSUME IInv, NetTypeInv, NEW s \in Scenes, SendRegistry(s)
  PROVE  /\ RegistryPacket(s) \in Registries /\ RegistryPacket(s).t = reg[s].n
         /\ RegistryPacket(s) \in Packets
         /\ \A p \in Peers : wire'[p] =
              IF reg[s].dirty /\ p \in inited[s] /\ p \notin gone
              THEN wire[p] \o <<RegistryPacket(s)>> ELSE wire[p]
         /\ wire' \in [Peers -> Seq(Packets)]
         /\ \A o \in Scenes : reg'[o].n = reg[o].n /\ (o # s => reg'[o] = reg[o])
         /\ ~reg'[s].dirty
<1>1. reg \in [Scenes -> [n : Nat, dirty : BOOLEAN]]
  BY DEF IInv, TypeInv
<1>2. /\ RegistryPacket(s) \in Registries /\ RegistryPacket(s).t = reg[s].n
      /\ RegistryPacket(s) \in Packets
  BY <1>1, PacketTypes, PacketKinds DEF RegistryPacket
<1>3. reg' = [reg EXCEPT ![s].dirty = FALSE]
  BY DEF SendRegistry
<1>4. wire' = [p \in Peers |-> IF reg[s].dirty /\ p \in inited[s]
                 THEN SendTo(p, <<RegistryPacket(s)>>) ELSE wire[p]]
  BY DEF SendRegistry, RegistryPacket
<1>5. \A p \in Peers : wire'[p] =
              IF reg[s].dirty /\ p \in inited[s] /\ p \notin gone
              THEN wire[p] \o <<RegistryPacket(s)>> ELSE wire[p]
  BY <1>4 DEF SendTo
<1>6. ASSUME NEW p \in Peers PROVE wire'[p] \in Seq(Packets)
  <2>1. wire[p] \in Seq(Packets) /\ <<RegistryPacket(s)>> \in Seq(Packets)
    BY <1>2, WireTypes
  <2>2. wire[p] \o <<RegistryPacket(s)>> \in Seq(Packets)
    BY <2>1
  <2> QED
    BY <1>5, <2>1, <2>2
<1>7. wire' \in [Peers -> Seq(Packets)]
  BY <1>4, <1>6
<1>8. /\ \A o \in Scenes : reg'[o].n = reg[o].n /\ (o # s => reg'[o] = reg[o])
      /\ ~reg'[s].dirty
  BY <1>1, <1>3
<1> QED
  BY <1>2, <1>5, <1>7, <1>8

LEMMA SyncSent ==
  ASSUME IInv, NetTypeInv, NEW p \in Peers, NEW c \in Chunks, Sync(p, c)
  PROVE  /\ p \notin gone /\ peer[p] \in Scenes /\ scene[peer[p]] = "live"
         /\ Stale(p, c)
         /\ NodePacket(p, c) \in NodesOf(c) /\ NodePacket(p, c).d = data[peer[p]][c]
         /\ NodePacket(p, c) \in Packets
         /\ wire' = [wire EXCEPT ![p] = wire[p] \o <<NodePacket(p, c)>>]
         /\ wire' \in [Peers -> Seq(Packets)]
         /\ sent' = [sent EXCEPT ![p][c] = data[peer[p]][c]]
         /\ data[peer[p]][c] \in Versions
<1>1. /\ p \notin gone /\ peer[p] \in Scenes /\ scene[peer[p]] = "live"
      /\ Stale(p, c)
      /\ sent' = [sent EXCEPT ![p][c] = data[peer[p]][c]]
      /\ wire' = [wire EXCEPT ![p] = wire[p] \o <<NodePacket(p, c)>>]
  BY DEF Sync, OnScene, SendTo
<1>2. data[peer[p]][c] \in Versions
  BY <1>1 DEF IInv, TypeInv
<1>3. /\ NodePacket(p, c) \in NodesOf(c) /\ NodePacket(p, c).d = data[peer[p]][c]
      /\ NodePacket(p, c) \in Packets
  BY <1>2, PacketTypes, PacketKinds DEF NodePacket
<1>4. wire[p] \o <<NodePacket(p, c)>> \in Seq(Packets)
  BY <1>3, WireTypes
<1>5. wire \in [Peers -> Seq(Packets)]
  BY DEF NetTypeInv
<1>6. wire' \in [Peers -> Seq(Packets)]
  BY <1>1, <1>4, <1>5
<1> QED
  BY <1>1, <1>2, <1>3, <1>6

LEMMA PcOfCommit ==
  ASSUME IInv, pc.at \in Steps
  PROVE  /\ pc.s \in Scenes /\ pc.c \in Chunks /\ pc.s \in inst
         /\ pc.at = "notify" => pc.told \in SUBSET Peers
BY DEF IInv, TypeInv, CommitInv, Places, Steps

LEMMA CommitSyncSent ==
  ASSUME IInv, NetTypeInv, CommitSync
  PROVE  /\ pc.at = "sync" /\ pc.s \in Scenes /\ pc.c \in Chunks
         /\ pc' = [at |-> "notify", s |-> pc.s, c |-> pc.c, told |-> OnScene(pc.s)]
         /\ \A p \in Peers : p \in OnScene(pc.s) <=>
              p \notin gone /\ peer[p] = pc.s /\ scene[pc.s] = "live"
         /\ data[pc.s][pc.c] \in Versions
         /\ \A p \in Peers : p \in OnScene(pc.s) /\ Stale(p, pc.c) =>
              /\ NodePacket(p, pc.c) \in NodesOf(pc.c)
              /\ NodePacket(p, pc.c).d = data[pc.s][pc.c]
              /\ NodePacket(p, pc.c) \in Packets
              /\ wire'[p] = wire[p] \o <<NodePacket(p, pc.c)>>
         /\ \A p \in Peers : ~(p \in OnScene(pc.s) /\ Stale(p, pc.c)) =>
              wire'[p] = wire[p] /\ sent'[p] = sent[p]
         /\ \A p \in Peers, c \in Chunks : c # pc.c => sent'[p][c] = sent[p][c]
         /\ \A p \in OnScene(pc.s) : sent'[p][pc.c] = data[pc.s][pc.c]
         /\ wire' \in [Peers -> Seq(Packets)]
         /\ sent' \in [Peers -> [Chunks -> Versions \cup {NoData}]]
<1> DEFINE s == pc.s
           c == pc.c
           v == data[s][c]
<1>1. pc.at = "sync" /\ s \in Scenes /\ c \in Chunks
  BY PcOfCommit DEF CommitSync, Steps
<1>2. /\ pc' = [at |-> "notify", s |-> pc.s, c |-> pc.c, told |-> OnScene(s)]
      /\ \A p \in Peers : p \in OnScene(s) <=>
           p \notin gone /\ peer[p] = s /\ scene[s] = "live"
      /\ wire' = [p \in Peers |-> IF p \in OnScene(s) /\ Stale(p, c)
                    THEN SendTo(p, <<NodePacket(p, c)>>) ELSE wire[p]]
      /\ sent' = [p \in Peers |-> IF p \in OnScene(s) /\ Stale(p, c)
                    THEN [sent[p] EXCEPT ![c] = v] ELSE sent[p]]
  BY DEF CommitSync, OnScene
<1>3. v \in Versions
  BY <1>1 DEF IInv, TypeInv
<1>4. s = pc.s /\ c = pc.c /\ v = data[s][c]
  OBVIOUS
<1>5. \A p \in Peers : sent[p] \in [Chunks -> Versions \cup {NoData}]
  BY DEF NetTypeInv
<1> HIDE DEF s, c, v
<1>6. ASSUME NEW p \in Peers, p \in OnScene(s)
      PROVE  /\ NodePacket(p, c) \in NodesOf(c) /\ NodePacket(p, c).d = v
             /\ NodePacket(p, c) \in Packets /\ p \notin gone
  BY <1>1, <1>2, <1>3, <1>4, <1>6, PacketTypes, PacketKinds DEF NodePacket
<1>7. ASSUME NEW p \in Peers, p \in OnScene(s), Stale(p, c)
      PROVE  wire'[p] = wire[p] \o <<NodePacket(p, c)>>
  BY <1>2, <1>6, <1>7 DEF SendTo
<1>8. ASSUME NEW p \in Peers, ~(p \in OnScene(s) /\ Stale(p, c))
      PROVE  wire'[p] = wire[p] /\ sent'[p] = sent[p]
  BY <1>2, <1>8
<1>9. ASSUME NEW p \in Peers, NEW e \in Chunks, e # c
      PROVE  sent'[p][e] = sent[p][e]
  BY <1>2, <1>5, <1>9
<1>10. ASSUME NEW p \in OnScene(s) PROVE sent'[p][c] = v
  <2>1. p \in Peers /\ peer[p] = s
    BY DEF OnScene
  <2>2. CASE Stale(p, c)
    BY <1>1, <1>2, <1>5, <2>1, <2>2
  <2>3. CASE ~Stale(p, c)
    BY <1>2, <1>4, <2>1, <2>3 DEF Stale
  <2> QED
    BY <2>2, <2>3
<1>11. ASSUME NEW p \in Peers PROVE wire'[p] \in Seq(Packets)
  <2>1. CASE p \in OnScene(s) /\ Stale(p, c)
    <3>1. wire[p] \in Seq(Packets) /\ <<NodePacket(p, c)>> \in Seq(Packets)
      BY <1>6, <2>1, WireTypes
    <3>2. wire[p] \o <<NodePacket(p, c)>> \in Seq(Packets)
      BY <3>1
    <3> QED
      BY <1>7, <2>1, <3>2
  <2>2. CASE ~(p \in OnScene(s) /\ Stale(p, c))
    BY <1>8, <2>2, WireTypes
  <2> QED
    BY <2>1, <2>2
<1>12. ASSUME NEW p \in Peers PROVE sent'[p] \in [Chunks -> Versions \cup {NoData}]
  BY <1>2, <1>3, <1>5
<1>13. /\ wire' \in [Peers -> Seq(Packets)]
       /\ sent' \in [Peers -> [Chunks -> Versions \cup {NoData}]]
  BY <1>2, <1>11, <1>12
<1> QED
  BY <1>1, <1>2, <1>3, <1>4, <1>6, <1>7, <1>8, <1>9, <1>10, <1>13

LEMMA NotifySent ==
  ASSUME IInv, NetTypeInv, CommitNotify
  PROVE  /\ pc.at = "notify" /\ pc.s \in Scenes /\ pc.c \in Chunks /\ pc.s \in inst
         /\ UpdatePacket(pc.c) \in UpdatesOf(pc.c) /\ UpdatePacket(pc.c) \in Packets
         /\ \A p \in Peers : wire'[p] =
              IF p \in pc.told /\ p \in inited[pc.s] /\ p \notin gone
              THEN wire[p] \o <<UpdatePacket(pc.c)>> ELSE wire[p]
         /\ wire' \in [Peers -> Seq(Packets)]
<1>1. pc.at = "notify" /\ pc.s \in Scenes /\ pc.c \in Chunks /\ pc.s \in inst
  BY PcOfCommit DEF CommitNotify, Steps
<1>2. UpdatePacket(pc.c) \in UpdatesOf(pc.c) /\ UpdatePacket(pc.c) \in Packets
  BY <1>1, PacketTypes, PacketKinds DEF UpdatePacket
<1>3. wire' = [p \in Peers |-> IF p \in pc.told \cap inited[pc.s]
                 THEN SendTo(p, <<UpdatePacket(pc.c)>>) ELSE wire[p]]
  BY DEF CommitNotify, UpdatePacket
<1>4. \A p \in Peers : wire'[p] =
              IF p \in pc.told /\ p \in inited[pc.s] /\ p \notin gone
              THEN wire[p] \o <<UpdatePacket(pc.c)>> ELSE wire[p]
  BY <1>3 DEF SendTo
<1>5. ASSUME NEW p \in Peers PROVE wire'[p] \in Seq(Packets)
  <2>1. wire[p] \in Seq(Packets) /\ <<UpdatePacket(pc.c)>> \in Seq(Packets)
    BY <1>2, WireTypes
  <2>2. wire[p] \o <<UpdatePacket(pc.c)>> \in Seq(Packets)
    BY <2>1
  <2> QED
    BY <1>4, <2>1, <2>2
<1>6. wire' \in [Peers -> Seq(Packets)]
  BY <1>3, <1>5
<1> QED
  BY <1>1, <1>2, <1>4, <1>6

\* Each instance sends a joined peer its registry, and that it is ready.
LEMMA JoinSent ==
  ASSUME IInv, NetTypeInv, NEW p \in Peers, PeerJoined(p)
  PROVE  \E ps \in Seq(Packets) :
           /\ wire' = [wire EXCEPT ![p] = IF p \in gone THEN wire[p] ELSE wire[p] \o ps]
           /\ \A j \in 1..Len(ps) :
                \/ ps[j] \in Readies
                \/ ps[j] \in Registries /\ \E s \in inst : ps[j].t = reg[s].n
           /\ inst # {} => /\ \E j \in 1..Len(ps) : ps[j] \in Readies
                           /\ \E j \in 1..Len(ps) : ps[j] \in Registries
<1>1. PICK order \in SetToSeqs(inst) :
        wire' = [wire EXCEPT ![p] = SendTo(p, [i \in 1..(2 * Len(order)) |->
                   InitPackets(order[(i + 1) \div 2])[2 - (i % 2)]])]
  BY DEF PeerJoined
<1> DEFINE n == Cardinality(inst)
           ps == [i \in 1..(2 * n) |-> InitPackets(order[(i + 1) \div 2])[2 - (i % 2)]]
<1>2. /\ IsFiniteSet(inst) /\ inst \in SUBSET Scenes
      /\ reg \in [Scenes -> [n : Nat, dirty : BOOLEAN]]
  BY DEF IInv, TypeInv, NetTypeInv
<1>3. n \in Nat /\ (n = 0 <=> inst = {})
  BY <1>2, FS_CardinalityType, FS_EmptySet
<1>4. order \in [1..n -> inst]
  BY <1>1 DEF SetToSeqs
<1> HIDE DEF n
<1>5. Len(order) = n
  BY <1>3, <1>4
<1>6. ASSUME NEW i \in 1..(2 * n)
      PROVE  /\ (i + 1) \div 2 \in 1..n
             /\ (i % 2 = 0 /\ 2 - (i % 2) = 2) \/ (i % 2 = 1 /\ 2 - (i % 2) = 1)
  BY <1>3
<1>7. ASSUME NEW i \in 1..(2 * n)
      PROVE  /\ \/ ps[i] \in Readies
                \/ ps[i] \in Registries /\ \E s \in inst : ps[i].t = reg[s].n
             /\ i % 2 = 0 => ps[i] \in Readies
             /\ i % 2 = 1 => ps[i] \in Registries
  <2>1. PICK s \in inst : order[(i + 1) \div 2] = s
    BY <1>4, <1>6
  <2>2. /\ InitPackets(s)[1] = RegistryPacket(s)
        /\ InitPackets(s)[2] = Ready
    BY DEF InitPackets, RegistryPacket, Ready
  <2>3. ps[i] = InitPackets(s)[2 - (i % 2)]
    BY <2>1
  <2>4. /\ RegistryPacket(s) \in Registries /\ RegistryPacket(s).t = reg[s].n
        /\ Ready \in Readies
    BY <1>2, PacketTypes DEF RegistryPacket, Ready
  <2>5. CASE i % 2 = 0
    <3>1. ps[i] = Ready
      BY <1>6, <2>2, <2>3, <2>5
    <3>2. i % 2 # 1
      BY <2>5
    <3> HIDE DEF ps
    <3> QED
      BY <2>4, <3>1, <3>2
  <2>6. CASE i % 2 = 1
    <3>1. ps[i] = RegistryPacket(s)
      BY <1>6, <2>2, <2>3, <2>6
    <3>2. i % 2 # 0
      BY <2>6
    <3> HIDE DEF ps
    <3> QED
      BY <2>1, <2>4, <3>1, <3>2
  <2> QED
    BY <1>6, <2>5, <2>6
<1>8. \A i \in 1..(2 * n) : ps[i] \in Packets
  BY <1>7, PacketKinds
<1>9. wire' = [wire EXCEPT ![p] = IF p \in gone THEN wire[p] ELSE wire[p] \o ps]
  BY <1>1, <1>5 DEF SendTo
<1>10. DOMAIN ps = 1..(2 * n) /\ ps = [i \in 1..(2 * n) |-> ps[i]]
  OBVIOUS
<1> HIDE DEF ps
<1>11. 2 * n \in Nat /\ (n # 0 => 1 \in 1..(2 * n) /\ 2 \in 1..(2 * n))
  BY <1>3
<1>12. ps \in [1..(2 * n) -> Packets]
  BY <1>8, <1>10
<1>13. ps \in Seq(Packets) /\ Len(ps) = 2 * n
  BY <1>11, <1>12
<1>14. 1 % 2 = 1 /\ 2 % 2 = 0
  OBVIOUS
<1>15. inst # {} => /\ \E j \in 1..Len(ps) : ps[j] \in Readies
                    /\ \E j \in 1..Len(ps) : ps[j] \in Registries
  BY <1>3, <1>7, <1>11, <1>13, <1>14
<1> QED
  BY <1>7, <1>9, <1>13, <1>15

-----------------------------------------------------------------------------
(* The types *)

LEMMA NetQuiet ==
  ASSUME NetTypeInv,
         UNCHANGED <<peer, gone, evq, inited, inst, wire, sent, copy, mesh, types, readies>>
  PROVE  NetTypeInv'
BY DEF NetTypeInv

LEMMA InitedTypes ==
  ASSUME NetTypeInv, NEW s \in Scenes, inited' = [inited EXCEPT ![s] = {}]
  PROVE  inited' \in [Scenes -> SUBSET Peers]
BY DEF NetTypeInv

\* Every step keeps the types.
LEMMA NetTypeStep ==
  ASSUME IInv, NetTypeInv, [VWNext]_vwVars
  PROVE  NetTypeInv'
<1>1. CASE UNCHANGED vwVars
  BY <1>1, NetQuiet DEF vwVars, nodes, net, world, history, client
<1>2. CASE Access
  BY <1>2, NetQuiet DEF Access, vwVars, nodes, net, world, history, client
<1>3. CASE EndAccess
  BY <1>3, NetQuiet DEF EndAccess, vwVars, nodes, net, world, history, client
<1>4. CASE EndCommit
  BY <1>4, NetQuiet DEF EndCommit, vwVars, nodes, net, world, history, client
<1>5. CASE CommitRegistry
  <2>1. pc.s \in Scenes /\ SendRegistry(pc.s)
    BY <1>5 DEF CommitRegistry, IInv, TypeInv, Places
  <2>2. wire' \in [Peers -> Seq(Packets)]
    BY <2>1, RegistrySent
  <2>3. UNCHANGED <<peer, gone, evq, inited, inst, sent, copy, mesh, types, readies>>
    BY <1>5 DEF CommitRegistry, vwVars, nodes, net, world, history, client
  <2> QED
    BY <2>2, <2>3 DEF NetTypeInv
<1>6. CASE CommitSync
  <2>1. /\ wire' \in [Peers -> Seq(Packets)]
        /\ sent' \in [Peers -> [Chunks -> Versions \cup {NoData}]]
    BY <1>6, CommitSyncSent
  <2>2. UNCHANGED <<peer, gone, evq, inited, inst, copy, mesh, types, readies>>
    BY <1>6 DEF CommitSync, vwVars, nodes, net, world, history, client
  <2> QED
    BY <2>1, <2>2 DEF NetTypeInv
<1>7. CASE CommitNotify
  <2>1. wire' \in [Peers -> Seq(Packets)]
    BY <1>7, NotifySent
  <2>2. UNCHANGED <<peer, gone, evq, inited, inst, sent, copy, mesh, types, readies>>
    BY <1>7 DEF CommitNotify, vwVars, nodes, net, world, history, client
  <2> QED
    BY <2>1, <2>2 DEF NetTypeInv
<1>8. CASE HandleEvent
  <2>1. /\ evq \in Seq(EventsOf) /\ evq # <<>> /\ evq' = Tail(evq)
        /\ UNCHANGED <<peer, gone, sent, client>>
    BY <1>8, EventTaken DEF NetTypeInv
  <2>2. evq' \in Seq(EventsOf)
    BY <2>1, QueuedTail
  <2>3. UNCHANGED <<peer, gone, sent, copy, mesh, types, readies>>
    BY <2>1 DEF client
  <2>4. ASSUME NEW s \in Scenes, Erase(s), UNCHANGED wire PROVE NetTypeInv'
    <3>1. inited' \in [Scenes -> SUBSET Peers]
      BY <2>4, InitedTypes DEF Erase
    <3>2. IsFiniteSet(inst')
      BY <2>4, FS_RemoveElement DEF Erase, NetTypeInv
    <3> QED
      BY <2>2, <2>3, <2>4, <3>1, <3>2 DEF NetTypeInv
  <2>5. ASSUME NEW p \in Peers, PeerJoined(p), UNCHANGED inst PROVE NetTypeInv'
    <3>1. inited' \in [Scenes -> SUBSET Peers]
      BY <2>5 DEF PeerJoined, NetTypeInv
    <3>2. PICK ps \in Seq(Packets) :
            wire' = [wire EXCEPT ![p] = IF p \in gone THEN wire[p] ELSE wire[p] \o ps]
      BY <2>5, JoinSent
    <3>3. wire[p] \o ps \in Seq(Packets)
      BY WireTypes
    <3>4. wire' \in [Peers -> Seq(Packets)]
      BY <3>2, <3>3 DEF NetTypeInv
    <3> QED
      BY <2>2, <2>3, <2>5, <3>1, <3>4 DEF NetTypeInv
  <2>6. ASSUME NEW p \in Peers, PeerLeft(p), UNCHANGED inst PROVE NetTypeInv'
    <3>1. inited' \in [Scenes -> SUBSET Peers] /\ UNCHANGED wire
      BY <2>6 DEF PeerLeft, NetTypeInv
    <3> QED
      BY <2>2, <2>3, <2>6, <3>1 DEF NetTypeInv
  <2>7. \/ \E s \in Scenes : Erase(s) /\ UNCHANGED wire
        \/ \E p \in Peers : PeerJoined(p) /\ UNCHANGED inst
        \/ \E p \in Peers : PeerLeft(p) /\ UNCHANGED inst
    BY <1>8, <2>1, EventTaken
  <2> QED
    BY <2>4, <2>5, <2>6, <2>7
<1>9. CASE TickEnd
  <2>1. pc.s \in Scenes /\ SendRegistry(pc.s)
    BY <1>9 DEF TickEnd, IInv, TypeInv, Places
  <2>2. wire' \in [Peers -> Seq(Packets)]
    BY <2>1, RegistrySent
  <2>3. UNCHANGED <<peer, gone, evq, inited, inst, sent, copy, mesh, types, readies>>
    BY <1>9 DEF TickEnd, vwVars, nodes, net, world, history, client
  <2> QED
    BY <2>2, <2>3 DEF NetTypeInv
<1>10. ASSUME NEW s \in Scenes, DeleteScene(s) PROVE NetTypeInv'
  <2>1. /\ evq' = Append(evq, Deletion(s)) /\ Deletion(s) \in EventsOf
        /\ UNCHANGED <<inited, inst, sent, copy, mesh, types, readies>>
    BY <1>10 DEF DeleteScene, Deletion, EventsOf, vwVars, nodes, net, world, history, client
  <2>2. evq' \in Seq(EventsOf)
    BY <2>1, QueuedAppend DEF NetTypeInv
  <2>3. UNCHANGED <<peer, gone, wire>>
    BY <1>10 DEF DeleteScene, NetTypeInv, net
  <2> QED
    BY <2>1, <2>2, <2>3 DEF NetTypeInv
<1>11. ASSUME NEW s \in Scenes, CreateInstance(s) PROVE NetTypeInv'
  <2>1. /\ scene[s] = "none" /\ inst' = inst \cup {s}
        /\ OnScene(s) = {}
        /\ inited' = [inited EXCEPT ![s] = {}]
        /\ wire' = [p \in Peers |-> wire[p]]
    BY <1>11 DEF CreateInstance, OnScene
  <2>2. UNCHANGED <<peer, gone, evq, sent, copy, mesh, types, readies>>
    BY <1>11 DEF CreateInstance, vwVars, nodes, net, world, history, client
  <2>3. UNCHANGED wire
    BY <2>1 DEF NetTypeInv
  <2>4. IsFiniteSet(inst')
    BY <2>1, FS_AddElement DEF NetTypeInv
  <2>5. inited' \in [Scenes -> SUBSET Peers]
    BY <2>1, InitedTypes
  <2> QED
    BY <2>2, <2>3, <2>4, <2>5 DEF NetTypeInv
<1>12. ASSUME NEW s \in Scenes, AddVoxelType(s) PROVE NetTypeInv'
  BY <1>12, NetQuiet DEF AddVoxelType, vwVars, nodes, net, world, history, client
<1>13. ASSUME NEW s \in Scenes, Maintain(s) PROVE NetTypeInv'
  BY <1>13, NetQuiet DEF Maintain, Unload, vwVars, nodes, net, world, history, client
<1>14. ASSUME NEW s \in Scenes, Tick(s) PROVE NetTypeInv'
  BY <1>14, NetQuiet DEF Tick, vwVars, nodes, net, world, history, client
<1>15. ASSUME NEW s \in Scenes, NEW p \in Peers, Join(p, s) PROVE NetTypeInv'
  <2>1. /\ evq' = Append(evq, Joining(p)) /\ Joining(p) \in EventsOf
        /\ UNCHANGED <<inited, inst, sent, copy, mesh, types, readies>>
    BY <1>15 DEF Join, Joining, EventsOf, vwVars, nodes, net, world, history, client
  <2>2. evq' \in Seq(EventsOf)
    BY <2>1, QueuedAppend DEF NetTypeInv
  <2>3. UNCHANGED <<gone, wire>> /\ peer' \in [Peers -> Scenes \cup {0}]
    BY <1>15 DEF Join, NetTypeInv, Scenes
  <2> QED
    BY <2>1, <2>2, <2>3 DEF NetTypeInv
<1>16. ASSUME NEW s \in Scenes, NEW c \in Chunks, GetVoxel(s, c) PROVE NetTypeInv'
  BY <1>16, NetQuiet DEF GetVoxel, InBuffer, vwVars, nodes, net, world, history, client
<1>17. ASSUME NEW s \in Scenes, NEW c \in Chunks, SetVoxel(s, c) PROVE NetTypeInv'
  BY <1>17, NetQuiet DEF SetVoxel, InBuffer, vwVars, nodes, net, world, history, client
<1>18. ASSUME NEW s \in Scenes, NEW c \in Chunks, CommitWrite(s, c) PROVE NetTypeInv'
  BY <1>18, NetQuiet DEF CommitWrite, vwVars, nodes, net, world, history, client
<1>19. ASSUME NEW p \in Peers, Leave(p) PROVE NetTypeInv'
  <2>1. /\ evq' = Append(evq, Leaving(p)) /\ Leaving(p) \in EventsOf
        /\ UNCHANGED <<inited, inst, sent, copy, mesh, types, readies>>
    BY <1>19 DEF Leave, Leaving, EventsOf, vwVars, nodes, net, world, history, client
  <2>2. evq' \in Seq(EventsOf)
    BY <2>1, QueuedAppend DEF NetTypeInv
  <2>3. /\ UNCHANGED peer /\ gone' \in SUBSET Peers
        /\ wire' \in [Peers -> Seq(Packets)]
    BY <1>19 DEF Leave, NetTypeInv, net
  <2> QED
    BY <2>1, <2>2, <2>3 DEF NetTypeInv
<1>20. ASSUME NEW p \in Peers, Receive(p) PROVE NetTypeInv'
  <2>1. /\ wire[p] # <<>> /\ wire' = [wire EXCEPT ![p] = Tail(wire[p])]
        /\ wire'[p] \in Seq(Packets) /\ Head(wire[p]) \in Packets
    BY <1>20, ClientReceive
  <2>2. UNCHANGED <<peer, gone, evq, inited, inst, sent>>
    BY <1>20 DEF Receive, vwVars, nodes, net, world, history, client
  <2>3. wire' \in [Peers -> Seq(Packets)]
    BY <2>1 DEF NetTypeInv
  <2> DEFINE m == Head(wire[p])
  <2>4. /\ copy' = IF m.k = "node" THEN [copy EXCEPT ![p][m.c] = m.d] ELSE copy
        /\ types' = IF m.k = "registry" THEN [types EXCEPT ![p] = m.t] ELSE types
        /\ readies' = IF m.k = "ready" THEN [readies EXCEPT ![p] = @ + 1] ELSE readies
        /\ mesh' = [mesh EXCEPT ![p] = [c \in Chunks |->
             IF \/ m.k = "ready"
                \/ /\ readies[p] > 0 /\ m.k \in {"node", "updated"} /\ m.c = c
                   /\ m.k = "node" => copy[p][c] = NoData
             THEN copy'[p][c] ELSE mesh[p][c]]]
    BY <1>20 DEF Receive
  <2>5. /\ m.k = "node" => m.c \in Chunks /\ m.d \in Versions
        /\ m.k = "registry" => m.t \in Nat
    BY <2>1, PacketCases
  <2> HIDE DEF m
  <2>6. copy' \in [Peers -> [Chunks -> Versions \cup {NoData}]]
    BY <2>4, <2>5 DEF NetTypeInv
  <2>7. types' \in [Peers -> Nat] /\ readies' \in [Peers -> Nat]
    BY <2>4, <2>5 DEF NetTypeInv
  <2>8. mesh' \in [Peers -> [Chunks -> Versions \cup {NoData}]]
    <3>1. mesh'[p] \in [Chunks -> Versions \cup {NoData}]
      BY <2>4, <2>6 DEF NetTypeInv
    <3> QED
      BY <2>4, <3>1 DEF NetTypeInv
  <2> QED
    BY <2>2, <2>3, <2>6, <2>7, <2>8 DEF NetTypeInv
<1>21. ASSUME NEW p \in Peers, NEW c \in Chunks, Sync(p, c) PROVE NetTypeInv'
  <2>1. /\ wire' \in [Peers -> Seq(Packets)] /\ data[peer[p]][c] \in Versions
        /\ sent' = [sent EXCEPT ![p][c] = data[peer[p]][c]]
    BY <1>21, SyncSent
  <2>2. UNCHANGED <<peer, gone, evq, inited, inst, copy, mesh, types, readies>>
    BY <1>21 DEF Sync, vwVars, nodes, net, world, history, client
  <2>3. sent' \in [Peers -> [Chunks -> Versions \cup {NoData}]]
    BY <2>1 DEF NetTypeInv
  <2> QED
    BY <2>1, <2>2, <2>3 DEF NetTypeInv
<1> QED
  BY <1>1, <1>2, <1>3, <1>4, <1>5, <1>6, <1>7, <1>8, <1>9, <1>10, <1>11,
     <1>12, <1>13, <1>14, <1>15, <1>16, <1>17, <1>18, <1>19, <1>20, <1>21
 DEF VWNext

-----------------------------------------------------------------------------
(* Voxels, their types and what was sent of them *)

LEMMA VoxelsTyped ==
  ASSUME IInv, NEW s \in Scenes, NEW c \in Chunks
  PROVE  /\ data[s][c] \in Versions /\ data[s][c].t \in Nat
         /\ buf[s][c].vol \in Versions /\ buf[s][c].vol.t \in Nat
         /\ reg[s].n \in Nat
<1>1. data[s][c] \in Versions /\ buf[s][c] \in Buffers /\ reg[s].n \in Nat
  BY DEF IInv, TypeInv
<1>2. buf[s][c].vol \in Versions
  BY <1>1 DEF Buffers
<1> QED
  BY <1>1, <1>2 DEF Versions

LEMMA VoxelTypesQuiet ==
  ASSUME VoxelTypesInv, UNCHANGED <<inst, data, buf, reg>>
  PROVE  VoxelTypesInv'
BY DEF VoxelTypesInv

\* Types are added to the registry before voxels have them.
LEMMA VoxelTypesStep ==
  ASSUME IInv, NetTypeInv, VoxelTypesInv, [VWNext]_vwVars
  PROVE  VoxelTypesInv'
<1>1. CASE UNCHANGED vwVars
  BY <1>1, VoxelTypesQuiet DEF vwVars, nodes, net, world, history, client
<1>2. CASE Access
  BY <1>2, VoxelTypesQuiet DEF Access, vwVars, nodes, net, world, history, client
<1>3. CASE EndAccess
  BY <1>3, VoxelTypesQuiet DEF EndAccess, vwVars, nodes, net, world, history, client
<1>4. CASE EndCommit
  BY <1>4, VoxelTypesQuiet DEF EndCommit, vwVars, nodes, net, world, history, client
<1>5. CASE CommitRegistry
  <2>1. pc.s \in Scenes /\ SendRegistry(pc.s)
    BY <1>5 DEF CommitRegistry, IInv, TypeInv, Places
  <2>2. \A o \in Scenes : reg'[o].n = reg[o].n
    BY <2>1, RegistrySent
  <2>3. UNCHANGED <<inst, data, buf>> /\ inst \subseteq Scenes
    BY <1>5 DEF CommitRegistry, vwVars, nodes, net, world, history, client, IInv, TypeInv
  <2> QED
    BY <2>2, <2>3 DEF VoxelTypesInv
<1>6. CASE CommitSync
  BY <1>6, VoxelTypesQuiet DEF CommitSync, vwVars, nodes, net, world, history, client
<1>7. CASE CommitNotify
  <2>1. /\ UNCHANGED <<inst, data, reg>> /\ inst \subseteq Scenes
        /\ pc.s \in Scenes /\ pc.c \in Chunks
        /\ buf' = [buf EXCEPT ![pc.s][pc.c].dirty = FALSE]
    BY <1>7, NotifySent DEF CommitNotify, vwVars, nodes, net, world, history, client, IInv, TypeInv
  <2>2. \A s \in Scenes, c \in Chunks : buf'[s][c].vol = buf[s][c].vol
    BY <2>1 DEF IInv, TypeInv, Buffers
  <2> QED
    BY <2>1, <2>2 DEF VoxelTypesInv
<1>8. CASE HandleEvent
  <2>1. UNCHANGED data /\ inst \subseteq Scenes
    BY <1>8 DEF HandleEvent, nodes, IInv, TypeInv
  <2>2. ASSUME NEW s \in Scenes, Erase(s) PROVE VoxelTypesInv'
    <3>1. /\ inst' = inst \ {s}
          /\ \A o \in Scenes \ {s} : buf'[o] = buf[o] /\ reg'[o] = reg[o]
      BY <2>2 DEF Erase, IInv, TypeInv
    <3> QED
      BY <2>1, <3>1 DEF VoxelTypesInv
  <2>3. ASSUME UNCHANGED <<inst, buf, tracked, total, reg, physics, want, lost>>
        PROVE  VoxelTypesInv'
    BY <2>1, <2>3, VoxelTypesQuiet
  <2> QED
    BY <1>8, <2>2, <2>3, EventTaken DEF NetTypeInv
<1>9. CASE TickEnd
  <2>1. pc.s \in Scenes /\ SendRegistry(pc.s)
    BY <1>9 DEF TickEnd, IInv, TypeInv, Places
  <2>2. \A o \in Scenes : reg'[o].n = reg[o].n
    BY <2>1, RegistrySent
  <2>3. UNCHANGED <<inst, data, buf>> /\ inst \subseteq Scenes
    BY <1>9 DEF TickEnd, vwVars, nodes, net, world, history, client, IInv, TypeInv
  <2> QED
    BY <2>2, <2>3 DEF VoxelTypesInv
<1>10. ASSUME NEW s \in Scenes, DeleteScene(s) PROVE VoxelTypesInv'
  <2>1. /\ UNCHANGED <<inst, buf, reg>> /\ inst \subseteq Scenes
        /\ data' = [data EXCEPT ![s] = NoVoxels]
    BY <1>10 DEF DeleteScene, world, IInv, TypeInv
  <2>2. \A o \in Scenes, c \in Chunks : data'[o][c] = IF o = s THEN Zero ELSE data[o][c]
    BY <2>1 DEF IInv, TypeInv, NoVoxels
  <2>3. ASSUME NEW o \in inst, NEW c \in Chunks
        PROVE  data'[o][c].t <= reg[o].n
    <3>1. reg[o].n \in Nat /\ Zero.t = 0
      BY <2>1, VoxelsTyped DEF Zero
    <3> QED
      BY <2>1, <2>2, <3>1 DEF VoxelTypesInv
  <2> QED
    BY <2>1, <2>3 DEF VoxelTypesInv
<1>11. ASSUME NEW s \in Scenes, CreateInstance(s) PROVE VoxelTypesInv'
  <2>1. /\ UNCHANGED <<buf, reg>> /\ inst \subseteq Scenes /\ s \notin inst
        /\ inst' = inst \cup {s} /\ data' = [data EXCEPT ![s] = NoVoxels]
    BY <1>11 DEF CreateInstance, LoadSections, IInv, TypeInv
  <2>2. \A o \in Scenes, c \in Chunks : data'[o][c] = IF o = s THEN Zero ELSE data[o][c]
    BY <2>1 DEF IInv, TypeInv, NoVoxels
  <2>3. \A c \in Chunks : buf[s][c].vol = Zero
    BY <2>1 DEF IInv, FreshInv, NoBuffers, Unloaded
  <2>4. ASSUME NEW o \in inst', NEW c \in Chunks
        PROVE  data'[o][c].t <= reg[o].n /\ buf[o][c].vol.t <= reg[o].n
    <3>1. reg[s].n \in Nat /\ Zero.t = 0
      BY <2>1, VoxelsTyped DEF Zero
    <3> QED
      BY <2>1, <2>2, <2>3, <3>1 DEF VoxelTypesInv
  <2> QED
    BY <2>1, <2>4 DEF VoxelTypesInv
<1>12. ASSUME NEW s \in Scenes, AddVoxelType(s) PROVE VoxelTypesInv'
  <2>1. /\ UNCHANGED <<inst, data, buf>> /\ inst \subseteq Scenes
        /\ reg' = [reg EXCEPT ![s] = [n |-> reg[s].n + 1, dirty |-> TRUE]]
    BY <1>12 DEF AddVoxelType, nodes, IInv, TypeInv
  <2>2. \A o \in Scenes : reg'[o].n = IF o = s THEN reg[o].n + 1 ELSE reg[o].n
    BY <2>1 DEF IInv, TypeInv
  <2>3. ASSUME NEW o \in inst, NEW c \in Chunks
        PROVE  data[o][c].t <= reg'[o].n /\ buf[o][c].vol.t <= reg'[o].n
    <3>1. /\ reg[o].n \in Nat /\ data[o][c].t \in Nat /\ buf[o][c].vol.t \in Nat
          /\ data[o][c].t <= reg[o].n /\ buf[o][c].vol.t <= reg[o].n
      BY <2>1, VoxelsTyped DEF VoxelTypesInv
    <3> QED
      BY <2>1, <2>2, <3>1
  <2> QED
    BY <2>1, <2>3 DEF VoxelTypesInv
<1>13. ASSUME NEW s \in Scenes, Maintain(s) PROVE VoxelTypesInv'
  <2>1. PICK drop \in SUBSET Chunks : Unload(s, drop)
    BY <1>13 DEF Maintain
  <2>2. /\ UNCHANGED <<inst, data, reg>> /\ inst \subseteq Scenes
        /\ buf' = [buf EXCEPT ![s] = [c \in Chunks |->
                     IF c \in drop THEN Unloaded ELSE buf[s][c]]]
    BY <1>13, <2>1 DEF Maintain, Unload, nodes, IInv, TypeInv
  <2>3. \A o \in Scenes, c \in Chunks :
          buf'[o][c].vol = Zero \/ buf'[o][c].vol = buf[o][c].vol
    BY <2>2 DEF IInv, TypeInv, Unloaded
  <2>4. ASSUME NEW o \in inst, NEW c \in Chunks PROVE buf'[o][c].vol.t <= reg[o].n
    <3>1. reg[o].n \in Nat /\ Zero.t = 0
      BY <2>2, VoxelsTyped DEF Zero
    <3> QED
      BY <2>2, <2>3, <3>1 DEF VoxelTypesInv
  <2> QED
    BY <2>2, <2>4 DEF VoxelTypesInv
<1>14. ASSUME NEW s \in Scenes, Tick(s) PROVE VoxelTypesInv'
  BY <1>14, VoxelTypesQuiet DEF Tick, vwVars, nodes, net, world, history, client
<1>15. ASSUME NEW s \in Scenes, NEW p \in Peers, Join(p, s) PROVE VoxelTypesInv'
  BY <1>15, VoxelTypesQuiet DEF Join, vwVars, nodes, net, world, history, client
<1>16. ASSUME NEW s \in Scenes, NEW c \in Chunks, GetVoxel(s, c) PROVE VoxelTypesInv'
  <2>1. /\ UNCHANGED <<inst, data, reg>> /\ inst \subseteq Scenes
        /\ UNCHANGED buf \/ buf' = [buf EXCEPT ![s][c] = GetBuffer(s, c)]
    BY <1>16 DEF GetVoxel, InBuffer, nodes, IInv, TypeInv
  <2>2. GetBuffer(s, c).vol = buf[s][c].vol \/ GetBuffer(s, c).vol = data[s][c]
    BY DEF GetBuffer
  <2>3. \A o \in Scenes, e \in Chunks :
          buf'[o][e].vol = buf[o][e].vol \/ buf'[o][e].vol = data[o][e]
    <3>1. CASE UNCHANGED buf
      BY <3>1
    <3>2. CASE buf' = [buf EXCEPT ![s][c] = GetBuffer(s, c)]
      <4>1. \A o \in Scenes, e \in Chunks :
              buf'[o][e] = IF o = s /\ e = c THEN GetBuffer(s, c) ELSE buf[o][e]
        BY <3>2 DEF IInv, TypeInv
      <4> QED
        BY <2>2, <4>1
    <3> QED
      BY <2>1, <3>1, <3>2
  <2> QED
    BY <2>1, <2>3 DEF VoxelTypesInv
<1>17. ASSUME NEW s \in Scenes, NEW c \in Chunks, SetVoxel(s, c) PROVE VoxelTypesInv'
  <2>1. /\ UNCHANGED <<inst, data, reg>> /\ inst \subseteq Scenes
        /\ \/ UNCHANGED buf
           \/ /\ want' = [want EXCEPT ![s][c] = [v |-> edits', t |-> reg[s].n]]
              /\ buf' = [buf EXCEPT ![s][c] =
                           [loaded |-> TRUE, dirty |-> TRUE, vol |-> want'[s][c]]]
    BY <1>17 DEF SetVoxel, InBuffer, nodes, IInv, TypeInv
  <2>2. CASE UNCHANGED buf
    BY <2>1, <2>2, VoxelTypesQuiet
  <2>3. CASE ~UNCHANGED buf
    <3>1. want'[s][c].t = reg[s].n
      BY <2>1, <2>3 DEF IInv, TypeInv
    <3>2. \A o \in Scenes, e \in Chunks :
            buf'[o][e].vol = IF o = s /\ e = c THEN want'[s][c] ELSE buf[o][e].vol
      BY <2>1, <2>3 DEF IInv, TypeInv
    <3>3. ASSUME NEW o \in inst, NEW e \in Chunks PROVE buf'[o][e].vol.t <= reg[o].n
      <4>1. reg[o].n \in Nat
        BY <2>1, VoxelsTyped
      <4> QED
        BY <2>1, <3>1, <3>2, <4>1 DEF VoxelTypesInv
    <3> QED
      BY <2>1, <3>3 DEF VoxelTypesInv
  <2> QED
    BY <2>2, <2>3
<1>18. ASSUME NEW s \in Scenes, NEW c \in Chunks, CommitWrite(s, c) PROVE VoxelTypesInv'
  <2>1. /\ UNCHANGED <<inst, buf, reg>> /\ inst \subseteq Scenes
        /\ UNCHANGED data \/ data' = [data EXCEPT ![s][c] = buf[s][c].vol]
    BY <1>18 DEF CommitWrite, world, IInv, TypeInv
  <2>2. \A o \in Scenes, e \in Chunks :
          data'[o][e] = data[o][e] \/ data'[o][e] = buf[o][e].vol
    <3>1. CASE UNCHANGED data
      BY <3>1
    <3>2. CASE data' = [data EXCEPT ![s][c] = buf[s][c].vol]
      BY <3>2 DEF IInv, TypeInv
    <3> QED
      BY <2>1, <3>1, <3>2
  <2> QED
    BY <2>1, <2>2 DEF VoxelTypesInv
<1>19. ASSUME NEW p \in Peers, Leave(p) PROVE VoxelTypesInv'
  BY <1>19, VoxelTypesQuiet DEF Leave, vwVars, nodes, net, world, history, client
<1>20. ASSUME NEW p \in Peers, Receive(p) PROVE VoxelTypesInv'
  BY <1>20, VoxelTypesQuiet DEF Receive, vwVars, nodes, net, world, history, client
<1>21. ASSUME NEW p \in Peers, NEW c \in Chunks, Sync(p, c) PROVE VoxelTypesInv'
  BY <1>21, VoxelTypesQuiet DEF Sync, vwVars, nodes, net, world, history, client
<1> QED
  BY <1>1, <1>2, <1>3, <1>4, <1>5, <1>6, <1>7, <1>8, <1>9, <1>10, <1>11,
     <1>12, <1>13, <1>14, <1>15, <1>16, <1>17, <1>18, <1>19, <1>20, <1>21
 DEF VWNext

\* A commit is nowhere else with the node until it was sent.
LEMMA SentQuiet ==
  ASSUME IInv, SentInv, UNCHANGED <<scene, data, inst, peer, gone, sent>>,
         \A s \in inst : reg'[s].n = reg[s].n,
         \A s, c : Between(s, c) => Between(s, c)'
  PROVE  SentInv'
<1> SUFFICES ASSUME NEW p \in Peers, NEW c \in Chunks PROVE Sent(p, c)'
  BY DEF SentInv
<1>1. Sent(p, c)
  BY DEF SentInv
<1>2. Stale(p, c)' <=> Stale(p, c)
  BY DEF Stale
<1> QED
  BY <1>1, <1>2 DEF Sent

LEMMA BetweenSame ==
  ASSUME UNCHANGED pc \/ pc.at \notin {"registry", "sync"}
  PROVE  \A s, c : Between(s, c) => Between(s, c)'
BY DEF Between

LEMMA SentElsewhere ==
  ASSUME IInv, SentInv, UNCHANGED <<scene, data, inst, peer, gone, sent, reg>>,
         UNCHANGED pc \/ pc.at \notin {"registry", "sync"}
  PROVE  SentInv'
BY SentQuiet, BetweenSame

\* A node that changed is sent before the commit ends.
LEMMA SentStep ==
  ASSUME IInv, NetTypeInv, SceneInv, JoinInv, VoxelTypesInv, SentInv,
     [VWNext]_vwVars
  PROVE  SentInv'
<1>1. CASE UNCHANGED vwVars
  BY <1>1, SentElsewhere DEF vwVars, nodes, net, world, history, client, Idle
<1>2. CASE Access
  BY <1>2, SentElsewhere DEF Access, vwVars, nodes, net, world, history, client, Idle
<1>3. CASE EndAccess
  BY <1>3, SentElsewhere DEF EndAccess, vwVars, nodes, net, world, history, client, Idle
<1>4. CASE EndCommit
  BY <1>4, SentElsewhere DEF EndCommit, vwVars, nodes, net, world, history, client, Idle
<1>5. CASE CommitRegistry
  <2>1. pc.s \in Scenes /\ SendRegistry(pc.s) /\ inst \subseteq Scenes
    BY <1>5 DEF CommitRegistry, IInv, TypeInv, Places
  <2>2. \A o \in Scenes : reg'[o].n = reg[o].n
    BY <2>1, RegistrySent
  <2>3. /\ UNCHANGED <<scene, data, inst, peer, gone, sent>>
        /\ pc.at = "registry" /\ pc' = [pc EXCEPT !.at = "sync"]
    BY <1>5 DEF CommitRegistry, nodes, net
  <2>4. pc \in [at : {"registry", "sync"}, s : Scenes, c : Chunks]
    BY <2>3 DEF IInv, TypeInv, Places
  <2>5. pc'.at = "sync" /\ pc'.s = pc.s /\ pc'.c = pc.c
    BY <2>3, <2>4
  <2>6. \A s, c : Between(s, c) => Between(s, c)'
    BY <2>5 DEF Between
  <2> QED
    BY <2>1, <2>2, <2>3, <2>6, SentQuiet
<1>6. CASE CommitSync
  <2> SUFFICES ASSUME NEW q \in Peers, NEW e \in Chunks PROVE Sent(q, e)'
    BY DEF SentInv
  <2>0. /\ Sent(q, e) /\ peer[q] \in Scenes \cup {0} /\ inst \subseteq Scenes
        /\ 0 \notin Scenes
    BY DEF SentInv, NetTypeInv, IInv, TypeInv, Scenes
  <2>1. /\ pc.at = "sync" /\ pc.s \in Scenes /\ pc.c \in Chunks
        /\ \A p \in Peers : p \in OnScene(pc.s) <=>
             p \notin gone /\ peer[p] = pc.s /\ scene[pc.s] = "live"
        /\ data[pc.s][pc.c] \in Versions
        /\ \A p \in Peers : p \notin OnScene(pc.s) => sent'[p] = sent[p]
        /\ \A p \in Peers, c \in Chunks : c # pc.c => sent'[p][c] = sent[p][c]
        /\ \A p \in OnScene(pc.s) : sent'[p][pc.c] = data[pc.s][pc.c]
    BY <1>6, CommitSyncSent
  <2>2. UNCHANGED <<scene, data, inst, peer, gone, reg>>
    BY <1>6 DEF CommitSync, nodes, world
  <2>3. CASE q \in OnScene(pc.s) /\ e = pc.c
    <3>1. /\ peer'[q] = pc.s /\ sent'[q][e] = data'[pc.s][e] /\ pc.s # 0
      BY <2>0, <2>1, <2>2, <2>3
    <3>2. ~Stale(q, e)'
      BY <3>1 DEF Stale
    <3>3. pc.s \in inst
      BY <2>1, PcOfCommit DEF Steps
    <3>4. data[pc.s][e].t <= reg[pc.s].n
      BY <2>3, <3>3 DEF VoxelTypesInv
    <3>5. sent'[q][e].t <= reg'[peer'[q]].n
      BY <2>2, <3>1, <3>4
    <3> QED
      BY <3>1, <3>2, <3>5 DEF Sent
  <2>4. CASE ~(q \in OnScene(pc.s) /\ e = pc.c)
    <3>1. sent'[q][e] = sent[q][e]
      BY <2>1, <2>4
    <3>2. Stale(q, e)' <=> Stale(q, e)
      BY <2>2, <3>1 DEF Stale
    <3>3. (q \notin gone /\ peer[q] # 0 /\ scene[peer[q]] = "live")
              => ~Between(peer[q], e)
      BY <2>1, <2>4 DEF Between
    <3> QED
      BY <2>0, <2>2, <3>1, <3>2, <3>3 DEF Sent
  <2> QED
    BY <2>3, <2>4
<1>7. CASE CommitNotify
  BY <1>7, SentElsewhere DEF CommitNotify, vwVars, nodes, net, world, history, client, Idle
<1>8. CASE HandleEvent
  <2>1. UNCHANGED <<scene, data, peer, gone, sent, pc>> /\ inst \subseteq Scenes
    BY <1>8 DEF HandleEvent, nodes, net, IInv, TypeInv
  <2>2. ASSUME NEW s \in Scenes, Erase(s) PROVE SentInv'
    <3> SUFFICES ASSUME NEW p \in Peers, NEW c \in Chunks PROVE Sent(p, c)'
      BY DEF SentInv
    <3>1. /\ inst' = inst \ {s}
          /\ \A o \in Scenes \ {s} : reg'[o] = reg[o]
      BY <2>2 DEF Erase, IInv, TypeInv
    <3>2. Stale(p, c)' <=> Stale(p, c)
      BY <2>1 DEF Stale
    <3>3. Between(peer[p], c)' <=> Between(peer[p], c)
      BY <2>1 DEF Between
    <3>4. Sent(p, c)
      BY DEF SentInv
    <3> QED
      BY <2>1, <3>1, <3>2, <3>3, <3>4 DEF Sent
  <2>3. ASSUME UNCHANGED <<inst, buf, tracked, total, reg, physics, want, lost>>
        PROVE  SentInv'
    BY <2>1, <2>3, SentElsewhere
  <2> QED
    BY <1>8, <2>2, <2>3, EventTaken DEF NetTypeInv
<1>9. CASE TickEnd
  <2>1. pc.s \in Scenes /\ SendRegistry(pc.s) /\ inst \subseteq Scenes
    BY <1>9 DEF TickEnd, IInv, TypeInv, Places
  <2>2. \A o \in Scenes : reg'[o].n = reg[o].n
    BY <2>1, RegistrySent
  <2>3. UNCHANGED <<scene, data, inst, peer, gone, sent>> /\ pc.at = "tick"
    BY <1>9 DEF TickEnd, nodes, net
  <2> QED
    BY <2>1, <2>2, <2>3, SentQuiet, BetweenSame
<1>10. ASSUME NEW s \in Scenes, DeleteScene(s) PROVE SentInv'
  <2> SUFFICES ASSUME NEW q \in Peers, NEW e \in Chunks PROVE Sent(q, e)'
    BY DEF SentInv
  <2>0. /\ Sent(q, e) /\ peer[q] \in Scenes \cup {0} /\ inst \subseteq Scenes
        /\ 0 \notin Scenes
    BY DEF SentInv, NetTypeInv, IInv, TypeInv, Scenes
  <2>1. /\ UNCHANGED <<inst, reg, peer, gone, sent, pc>>
        /\ data' = [data EXCEPT ![s] = NoVoxels]
        /\ scene' = [scene EXCEPT ![s] = "deleted"]
    BY <1>10 DEF DeleteScene, world, net
  <2>2. \A o \in Scenes : o # s => data'[o] = data[o] /\ scene'[o] = scene[o]
    BY <2>1 DEF IInv, TypeInv
  <2>3. scene'[s] = "deleted"
    BY <2>1 DEF IInv, TypeInv
  <2>4. peer[q] # s => (Stale(q, e)' <=> Stale(q, e)) \/ peer[q] = 0
    BY <2>0, <2>1, <2>2 DEF Stale
  <2>5. Between(peer[q], e)' <=> Between(peer[q], e)
    BY <2>1 DEF Between
  <2> QED
    BY <2>0, <2>1, <2>2, <2>3, <2>4, <2>5 DEF Sent
<1>11. ASSUME NEW s \in Scenes, CreateInstance(s) PROVE SentInv'
  <2> SUFFICES ASSUME NEW q \in Peers, NEW e \in Chunks PROVE Sent(q, e)'
    BY DEF SentInv
  <2>0. /\ Sent(q, e) /\ peer[q] \in Scenes \cup {0} /\ inst \subseteq Scenes
        /\ 0 \notin Scenes
    BY DEF SentInv, NetTypeInv, IInv, TypeInv, Scenes
  <2>1. /\ UNCHANGED <<reg, peer, gone, sent, pc>> /\ scene[s] = "none"
        /\ inst' = inst \cup {s}
        /\ data' = [data EXCEPT ![s] = NoVoxels]
        /\ scene' = [scene EXCEPT ![s] = "live"]
    BY <1>11 DEF CreateInstance, LoadSections, world, net
  <2>2. \A o \in Scenes : o # s => data'[o] = data[o] /\ scene'[o] = scene[o]
    BY <2>1 DEF IInv, TypeInv
  <2>3. peer[q] # s
    BY <2>0, <2>1 DEF JoinInv, Known
  <2>4. (Stale(q, e)' <=> Stale(q, e)) \/ peer[q] = 0
    BY <2>0, <2>1, <2>2, <2>3 DEF Stale
  <2>5. Between(peer[q], e)' <=> Between(peer[q], e)
    BY <2>1 DEF Between
  <2> QED
    BY <2>0, <2>1, <2>2, <2>3, <2>4, <2>5 DEF Sent
<1>12. ASSUME NEW s \in Scenes, AddVoxelType(s) PROVE SentInv'
  <2> SUFFICES ASSUME NEW q \in Peers, NEW e \in Chunks PROVE Sent(q, e)'
    BY DEF SentInv
  <2>0. /\ Sent(q, e) /\ peer[q] \in Scenes \cup {0} /\ inst \subseteq Scenes
        /\ 0 \notin Scenes
    BY DEF SentInv, NetTypeInv, IInv, TypeInv, Scenes
  <2>1. /\ UNCHANGED <<scene, data, inst, peer, gone, sent, pc>>
        /\ reg' = [reg EXCEPT ![s] = [n |-> reg[s].n + 1, dirty |-> TRUE]]
    BY <1>12 DEF AddVoxelType, nodes, net
  <2>2. \A o \in Scenes : reg'[o].n = IF o = s THEN reg[o].n + 1 ELSE reg[o].n
    BY <2>1 DEF IInv, TypeInv
  <2>3. Stale(q, e)' <=> Stale(q, e)
    BY <2>1 DEF Stale
  <2>4. Between(peer[q], e)' <=> Between(peer[q], e)
    BY <2>1 DEF Between
  <2>5. ASSUME sent[q][e] # NoData, peer[q] \in inst
        PROVE  sent[q][e].t <= reg'[peer[q]].n
    <3>1. sent[q][e].t \in Nat /\ reg[peer[q]].n \in Nat
      BY <2>0, <2>5, WireTypes, VoxelsTyped DEF Versions
    <3>2. sent[q][e].t <= reg[peer[q]].n
      BY <2>0, <2>5 DEF Sent
    <3> QED
      BY <2>0, <2>2, <2>5, <3>1, <3>2
  <2> QED
    BY <2>0, <2>1, <2>3, <2>4, <2>5 DEF Sent
<1>13. ASSUME NEW s \in Scenes, Maintain(s) PROVE SentInv'
  BY <1>13, SentElsewhere DEF Maintain, Unload, vwVars, nodes, net, world, history, client, Idle
<1>14. ASSUME NEW s \in Scenes, Tick(s) PROVE SentInv'
  BY <1>14, SentElsewhere DEF Tick, vwVars, nodes, net, world, history, client, Idle
<1>15. ASSUME NEW s \in Scenes, NEW p \in Peers, Join(p, s) PROVE SentInv'
  <2> SUFFICES ASSUME NEW q \in Peers, NEW e \in Chunks PROVE Sent(q, e)'
    BY DEF SentInv
  <2>0. /\ Sent(q, e) /\ peer[q] \in Scenes \cup {0} /\ inst \subseteq Scenes
        /\ 0 \notin Scenes
    BY DEF SentInv, NetTypeInv, IInv, TypeInv, Scenes
  <2>1. /\ UNCHANGED <<reg, gone, sent, pc, inst, data, scene>> /\ peer[p] = 0
        /\ peer' = [peer EXCEPT ![p] = s]
    BY <1>15 DEF Join, world, nodes
  <2>2. CASE q = p
    <3>1. sent'[q][e] = NoData /\ peer'[q] # 0
      BY <2>0, <2>1, <2>2 DEF Sent, NetTypeInv
    <3> QED
      BY <3>1 DEF Sent
  <2>3. CASE q # p
    <3>1. peer'[q] = peer[q]
      BY <2>1, <2>3 DEF NetTypeInv
    <3>2. Stale(q, e)' <=> Stale(q, e)
      BY <2>1, <3>1 DEF Stale
    <3>3. Between(peer[q], e)' <=> Between(peer[q], e)
      BY <2>1, <3>1 DEF Between
    <3> QED
      BY <2>0, <2>1, <3>1, <3>2, <3>3 DEF Sent
  <2> QED
    BY <2>2, <2>3
<1>16. ASSUME NEW s \in Scenes, NEW c \in Chunks, GetVoxel(s, c) PROVE SentInv'
  BY <1>16, SentElsewhere DEF GetVoxel, InBuffer, vwVars, nodes, net, world, history, client, Idle
<1>17. ASSUME NEW s \in Scenes, NEW c \in Chunks, SetVoxel(s, c) PROVE SentInv'
  BY <1>17, SentElsewhere DEF SetVoxel, InBuffer, vwVars, nodes, net, world, history, client, Idle
<1>18. ASSUME NEW s \in Scenes, NEW c \in Chunks, CommitWrite(s, c) PROVE SentInv'
  <2> SUFFICES ASSUME NEW q \in Peers, NEW e \in Chunks PROVE Sent(q, e)'
    BY DEF SentInv
  <2>0. /\ Sent(q, e) /\ peer[q] \in Scenes \cup {0} /\ inst \subseteq Scenes
        /\ 0 \notin Scenes
    BY DEF SentInv, NetTypeInv, IInv, TypeInv, Scenes
  <2>1. UNCHANGED <<scene, inst, peer, gone, sent, reg>> /\ pc.at = "commit"
    BY <1>18 DEF CommitWrite, world, net
  <2>2. ~Between(peer[q], e)
    BY <2>1 DEF Between
  <2>3. CASE UNCHANGED data
    BY <2>0, <2>1, <2>2, <2>3 DEF Sent, Stale
  <2>4. CASE ~UNCHANGED data
    <3>1. /\ data' = [data EXCEPT ![s][c] = buf[s][c].vol]
          /\ pc' = [at |-> "registry", s |-> s, c |-> c]
      BY <1>18, <2>4 DEF CommitWrite
    <3>2. peer[q] = s /\ e = c => Between(peer[q], e)'
      BY <2>1, <3>1 DEF Between
    <3>3. ~(peer[q] = s /\ e = c) /\ peer[q] # 0 => (Stale(q, e)' <=> Stale(q, e))
      BY <2>0, <2>1, <3>1 DEF Stale, IInv, TypeInv
    <3> QED
      BY <2>0, <2>1, <2>2, <3>2, <3>3 DEF Sent
  <2> QED
    BY <2>3, <2>4
<1>19. ASSUME NEW p \in Peers, Leave(p) PROVE SentInv'
  <2> SUFFICES ASSUME NEW q \in Peers, NEW e \in Chunks PROVE Sent(q, e)'
    BY DEF SentInv
  <2>0. /\ Sent(q, e) /\ peer[q] \in Scenes \cup {0} /\ inst \subseteq Scenes
        /\ 0 \notin Scenes
    BY DEF SentInv, NetTypeInv, IInv, TypeInv, Scenes
  <2>1. UNCHANGED <<reg, peer, sent, pc, inst, data, scene>> /\ gone \subseteq gone'
    BY <1>19 DEF Leave, world, nodes
  <2>2. Stale(q, e)' <=> Stale(q, e)
    BY <2>1 DEF Stale
  <2>3. Between(peer[q], e)' <=> Between(peer[q], e)
    BY <2>1 DEF Between
  <2> QED
    BY <2>0, <2>1, <2>2, <2>3 DEF Sent
<1>20. ASSUME NEW p \in Peers, Receive(p) PROVE SentInv'
  BY <1>20, SentElsewhere DEF Receive, vwVars, nodes, net, world, history, client, Idle
<1>21. ASSUME NEW p \in Peers, NEW c \in Chunks, Sync(p, c) PROVE SentInv'
  <2> SUFFICES ASSUME NEW q \in Peers, NEW e \in Chunks PROVE Sent(q, e)'
    BY DEF SentInv
  <2>0. /\ Sent(q, e) /\ peer[q] \in Scenes \cup {0} /\ inst \subseteq Scenes
        /\ 0 \notin Scenes
    BY DEF SentInv, NetTypeInv, IInv, TypeInv, Scenes
  <2>1. /\ p \notin gone /\ peer[p] \in Scenes /\ scene[peer[p]] = "live"
        /\ sent' = [sent EXCEPT ![p][c] = data[peer[p]][c]]
    BY <1>21, SyncSent
  <2>2. UNCHANGED <<scene, data, inst, peer, gone, reg, pc>>
    BY <1>21 DEF Sync, nodes, world
  <2>3. CASE q = p /\ e = c
    <3>1. sent'[q][e] = data'[peer'[q]][e]
      BY <2>1, <2>2, <2>3 DEF NetTypeInv
    <3>2. ~Stale(q, e)'
      BY <3>1 DEF Stale
    <3>3. data[peer[p]][e].t <= reg[peer[p]].n
      BY <2>1 DEF VoxelTypesInv, SceneInv
    <3> QED
      BY <2>0, <2>1, <2>2, <2>3, <3>1, <3>2, <3>3 DEF Sent
  <2>4. CASE ~(q = p /\ e = c)
    <3>1. sent'[q][e] = sent[q][e]
      BY <2>1, <2>4 DEF NetTypeInv
    <3>2. Stale(q, e)' <=> Stale(q, e)
      BY <2>2, <3>1 DEF Stale
    <3>3. Between(peer[q], e)' <=> Between(peer[q], e)
      BY <2>2 DEF Between
    <3> QED
      BY <2>0, <2>2, <3>1, <3>2, <3>3 DEF Sent
  <2> QED
    BY <2>3, <2>4
<1> QED
  BY <1>1, <1>2, <1>3, <1>4, <1>5, <1>6, <1>7, <1>8, <1>9, <1>10, <1>11,
     <1>12, <1>13, <1>14, <1>15, <1>16, <1>17, <1>18, <1>19, <1>20, <1>21
 DEF VWNext

LEMMA ThreadQuiet ==
  ASSUME ThreadInv, UNCHANGED <<pc, peer, sent, inst, reg, gone>>
  PROVE  ThreadInv'
BY DEF ThreadInv, Told

LEMMA ThreadElsewhere ==
  ASSUME pc'.at \in {"idle", "access", "commit", "registry"}
  PROVE  ThreadInv'
BY DEF ThreadInv, Told

\* The order of a commit.
LEMMA ThreadStep ==
  ASSUME IInv, NetTypeInv, ThreadInv, [VWNext]_vwVars
  PROVE  ThreadInv'
<1>1. CASE UNCHANGED vwVars
  BY <1>1, ThreadQuiet DEF vwVars, nodes, net, world, history, client
<1>2. CASE Access
  BY <1>2, ThreadElsewhere DEF Access
<1>3. CASE EndAccess
  BY <1>3, ThreadElsewhere DEF EndAccess
<1>4. CASE EndCommit
  BY <1>4, ThreadElsewhere DEF EndCommit, Idle
<1>5. CASE CommitRegistry
  <2>1. /\ pc.at = "registry" /\ pc' = [pc EXCEPT !.at = "sync"]
        /\ SendRegistry(pc.s)
    BY <1>5 DEF CommitRegistry
  <2>2. pc \in [at : {"registry", "sync"}, s : Scenes, c : Chunks]
    BY <2>1 DEF IInv, TypeInv, Places
  <2>3. pc'.at = "sync" /\ pc'.s = pc.s /\ pc.s \in Scenes
    BY <2>1, <2>2
  <2>4. ~reg'[pc.s].dirty
    BY <2>1, <2>3, RegistrySent
  <2> QED
    BY <2>3, <2>4 DEF ThreadInv, Told
<1>6. CASE CommitSync
  <2>1. /\ pc.at = "sync" /\ pc.s \in Scenes /\ pc.c \in Chunks
        /\ pc' = [at |-> "notify", s |-> pc.s, c |-> pc.c, told |-> OnScene(pc.s)]
        /\ \A p \in Peers : p \in OnScene(pc.s) <=>
             p \notin gone /\ peer[p] = pc.s /\ scene[pc.s] = "live"
        /\ data[pc.s][pc.c] \in Versions
        /\ \A p \in OnScene(pc.s) : sent'[p][pc.c] = data[pc.s][pc.c]
    BY <1>6, CommitSyncSent
  <2>2. UNCHANGED <<peer, reg>>
    BY <1>6 DEF CommitSync, world
  <2>3. data[pc.s][pc.c] # NoData
    BY <2>1, NoDataAssumption DEF Versions
  <2>4. /\ pc'.at = "notify" /\ pc'.s = pc.s /\ pc'.c = pc.c /\ pc'.told = OnScene(pc.s)
    BY <2>1
  <2>5. ASSUME NEW p \in Peers, Told(p)'
        PROVE  peer'[p] = pc'.s /\ sent'[p][pc'.c] # NoData
    BY <2>1, <2>2, <2>3, <2>4, <2>5 DEF Told
  <2>6. ~reg'[pc'.s].dirty
    BY <2>1, <2>2, <2>4 DEF ThreadInv
  <2> QED
    BY <2>4, <2>5, <2>6 DEF ThreadInv
<1>7. CASE CommitNotify
  BY <1>7, ThreadElsewhere DEF CommitNotify
<1>8. CASE HandleEvent
  BY <1>8, ThreadElsewhere DEF HandleEvent, Idle
<1>9. CASE TickEnd
  BY <1>9, ThreadElsewhere DEF TickEnd, Idle
<1>10. ASSUME NEW s \in Scenes, DeleteScene(s) PROVE ThreadInv'
  BY <1>10, ThreadQuiet DEF DeleteScene, vwVars, nodes, net, world, history, client
<1>11. ASSUME NEW s \in Scenes, CreateInstance(s) PROVE ThreadInv'
  BY <1>11, ThreadElsewhere DEF CreateInstance
<1>12. ASSUME NEW s \in Scenes, AddVoxelType(s) PROVE ThreadInv'
  BY <1>12, ThreadElsewhere DEF AddVoxelType
<1>13. ASSUME NEW s \in Scenes, Maintain(s) PROVE ThreadInv'
  BY <1>13, ThreadQuiet DEF Maintain, Unload, vwVars, nodes, net, world, history, client
<1>14. ASSUME NEW s \in Scenes, Tick(s) PROVE ThreadInv'
  <2>1. s \in inst /\ UNCHANGED inst /\ pc' = [at |-> "tick", s |-> s]
    BY <1>14 DEF Tick
  <2> QED
    BY <2>1 DEF ThreadInv, Told
<1>15. ASSUME NEW s \in Scenes, NEW p \in Peers, Join(p, s) PROVE ThreadInv'
  <2>1. UNCHANGED <<pc, sent, inst, reg, gone>> /\ peer' = [peer EXCEPT ![p] = s]
        /\ peer[p] = 0
    BY <1>15 DEF Join, world
  <2>2. \A q \in Peers : Told(q)' <=> Told(q)
    BY <2>1 DEF Told
  <2>3. ~Told(p)
    <3>1. ASSUME Told(p) PROVE FALSE
      <4>1. peer[p] = pc.s /\ pc.s \in Scenes
        BY <3>1, PcOfCommit DEF ThreadInv, Told, Steps
      <4> QED
        BY <2>1, <4>1 DEF Scenes
    <3> QED
      BY <3>1
  <2>4. \A q \in Peers : q # p => peer'[q] = peer[q]
    BY <2>1 DEF NetTypeInv
  <2> QED
    BY <2>1, <2>2, <2>3, <2>4 DEF ThreadInv
<1>16. ASSUME NEW s \in Scenes, NEW c \in Chunks, GetVoxel(s, c) PROVE ThreadInv'
  BY <1>16, ThreadElsewhere DEF GetVoxel, InBuffer, Idle
<1>17. ASSUME NEW s \in Scenes, NEW c \in Chunks, SetVoxel(s, c) PROVE ThreadInv'
  BY <1>17, ThreadElsewhere DEF SetVoxel, InBuffer, Idle
<1>18. ASSUME NEW s \in Scenes, NEW c \in Chunks, CommitWrite(s, c) PROVE ThreadInv'
  BY <1>18, ThreadElsewhere DEF CommitWrite, Idle
<1>19. ASSUME NEW p \in Peers, Leave(p) PROVE ThreadInv'
  <2>1. UNCHANGED <<pc, peer, sent, inst, reg>> /\ gone \subseteq gone'
    BY <1>19 DEF Leave, world
  <2> QED
    BY <2>1 DEF ThreadInv, Told
<1>20. ASSUME NEW p \in Peers, Receive(p) PROVE ThreadInv'
  BY <1>20, ThreadQuiet DEF Receive, vwVars, nodes, net, world, history, client
<1>21. ASSUME NEW p \in Peers, NEW c \in Chunks, Sync(p, c) PROVE ThreadInv'
  <2>1. /\ UNCHANGED <<pc, peer, inst, reg, gone>>
        /\ sent' = [sent EXCEPT ![p][c] = data[peer[p]][c]]
        /\ data[peer[p]][c] \in Versions
    BY <1>21, SyncSent DEF Sync, world
  <2>2. data[peer[p]][c] # NoData
    BY <2>1, NoDataAssumption DEF Versions
  <2>3. \A q \in Peers, e \in Chunks : sent'[q][e] = sent[q][e] \/ sent'[q][e] # NoData
    BY <2>1, <2>2 DEF NetTypeInv
  <2>4. pc.at = "notify" => pc.c \in Chunks
    BY PcOfCommit DEF Steps
  <2> QED
    BY <2>1, <2>3, <2>4 DEF ThreadInv, Told
<1> QED
  BY <1>1, <1>2, <1>3, <1>4, <1>5, <1>6, <1>7, <1>8, <1>9, <1>10, <1>11,
     <1>12, <1>13, <1>14, <1>15, <1>16, <1>17, <1>18, <1>19, <1>20, <1>21
 DEF VWNext

-----------------------------------------------------------------------------
(* Nodes arrive as they were sent last *)

LEMMA ArrivesSame ==
  ASSUME NEW p \in Peers, Arrives(p), wire'[p] = wire[p], copy'[p] = copy[p],
         sent'[p] = sent[p], p \in gone' <=> p \in gone
  PROVE  Arrives(p)'
<1>1. \A c, d : CopyAt(p, c, End(p), d)' <=> CopyAt(p, c, End(p), d)
  BY DEF CopyAt, End
<1>2. \A c : NoneYet(wire[p], NodesOf(c), End(p))' <=> NoneYet(wire[p], NodesOf(c), End(p))
  BY DEF End
<1> QED
  BY <1>1, <1>2 DEF Arrives

LEMMA CopyQuiet ==
  ASSUME CopyInv, UNCHANGED <<wire, copy, sent, gone>>
  PROVE  CopyInv'
BY ArrivesSame DEF CopyInv

LEMMA ArrivesOther ==
  ASSUME NetTypeInv, NEW p \in Peers, Arrives(p), NEW ps \in Seq(Packets),
         wire'[p] = wire[p] \o ps, UNCHANGED <<copy, types, readies>>,
         sent'[p] = sent[p], p \notin gone, p \notin gone',
         \A c \in Chunks : \A j \in 1..Len(ps) : ps[j] \notin NodesOf(c)
  PROVE  Arrives(p)'
<1> SUFFICES ASSUME NEW c \in Chunks
             PROVE  /\ \A d : CopyAt(p, c, End(p), d)' => d = sent'[p][c]
                    /\ sent'[p][c] = NoData =>
                         copy'[p][c] = NoData /\ NoneYet(wire[p], NodesOf(c), End(p))'
  BY DEF Arrives
<1>1. /\ \A d : CopyAt(p, c, End(p), d)' => CopyAt(p, c, End(p), d)
      /\ NoneYet(wire[p], NodesOf(c), End(p)) => NoneYet(wire[p], NodesOf(c), End(p))'
  BY ClientAppend
<1>2. /\ \A d : CopyAt(p, c, End(p), d) => d = sent[p][c]
      /\ sent[p][c] = NoData =>
           copy[p][c] = NoData /\ NoneYet(wire[p], NodesOf(c), End(p))
  BY DEF Arrives
<1> QED
  BY <1>1, <1>2

LEMMA ArrivesNode ==
  ASSUME NetTypeInv, NEW p \in Peers, Arrives(p), NEW c \in Chunks,
         NEW m \in NodesOf(c), wire'[p] = wire[p] \o <<m>>,
         UNCHANGED <<copy, types, readies>>, p \notin gone, p \notin gone',
         sent'[p][c] = m.d, \A e \in Chunks : e # c => sent'[p][e] = sent[p][e]
  PROVE  Arrives(p)'
<1>1. /\ m \in Packets /\ m.d # NoData
      /\ <<m>> \in Seq(Packets) /\ Len(<<m>>) = 1 /\ 1 \in 1..Len(<<m>>)
      /\ \A j \in 1..Len(<<m>>) : <<m>>[j] = m
  <2>1. m \in Packets /\ m.d \in Versions
    BY PacketKinds, PacketCases
  <2>2. m.d # NoData
    BY <2>1, NoDataAssumption DEF Versions
  <2> QED
    BY <2>1, <2>2, OnePacket
<1> SUFFICES ASSUME NEW e \in Chunks
             PROVE  /\ \A d : CopyAt(p, e, End(p), d)' => d = sent'[p][e]
                    /\ sent'[p][e] = NoData =>
                         copy'[p][e] = NoData /\ NoneYet(wire[p], NodesOf(e), End(p))'
  BY DEF Arrives
<1>2. /\ \A d : CopyAt(p, e, End(p), d) => d = sent[p][e]
      /\ sent[p][e] = NoData =>
           copy[p][e] = NoData /\ NoneYet(wire[p], NodesOf(e), End(p))
  BY DEF Arrives
<1>3. CASE e = c
  <2> DEFINE ps == <<m>>
  <2>0. /\ ps \in Seq(Packets) /\ wire'[p] = wire[p] \o ps
        /\ 1 \in 1..Len(ps) /\ \A j \in 1..Len(ps) : ps[j] = m
    BY <1>1
  <2> HIDE DEF ps
  <2>1. \E j \in 1..Len(ps) : ps[j] \in NodesOf(e)
    BY <1>3, <2>0
  <2>2. \A x : (\E j \in 1..Len(ps) : ps[j] \in NodesOf(x)) =>
          \A d : CopyAt(p, x, End(p), d)' =>
            \E j \in 1..Len(ps) : ps[j] \in NodesOf(x) /\ d = ps[j].d
    BY <2>0, ClientAppend
  <2>3. \A d : CopyAt(p, e, End(p), d)' => d = m.d
    BY <2>0, <2>1, <2>2
  <2> QED
    BY <1>1, <1>3, <2>3
<1>4. CASE e # c
  <2>1. \A j \in 1..Len(<<m>>) : <<m>>[j] \notin NodesOf(e)
    BY <1>1, <1>4, PacketKinds
  <2>2. /\ \A d : CopyAt(p, e, End(p), d)' => CopyAt(p, e, End(p), d)
        /\ NoneYet(wire[p], NodesOf(e), End(p)) => NoneYet(wire[p], NodesOf(e), End(p))'
    BY <1>1, <2>1, ClientAppend
  <2> QED
    BY <1>2, <1>4, <2>2
<1> QED
  BY <1>3, <1>4

\* One packet that is not a node
LEMMA ArrivesNoNode ==
  ASSUME NetTypeInv, NEW p \in Peers, Arrives(p), NEW m \in Packets,
         \A c \in Chunks : m \notin NodesOf(c), wire'[p] = wire[p] \o <<m>>,
         UNCHANGED <<copy, types, readies>>, sent'[p] = sent[p],
         p \notin gone, p \notin gone'
  PROVE  Arrives(p)'
<1>1. <<m>> \in Seq(Packets) /\ \A j \in 1..Len(<<m>>) : <<m>>[j] = m
  BY OnePacket
<1>2. \A c \in Chunks : \A j \in 1..Len(<<m>>) : <<m>>[j] \notin NodesOf(c)
  BY <1>1
<1> QED
  BY <1>1, <1>2, ArrivesOther

\* What is on the wire comes after what the client has.
LEMMA CopyStep ==
  ASSUME IInv, NetTypeInv, CopyInv, [VWNext]_vwVars
  PROVE  CopyInv'
<1>1. CASE UNCHANGED vwVars
  BY <1>1, CopyQuiet DEF vwVars, nodes, net, world, history, client
<1>2. CASE Access
  BY <1>2, CopyQuiet DEF Access, vwVars, nodes, net, world, history, client
<1>3. CASE EndAccess
  BY <1>3, CopyQuiet DEF EndAccess, vwVars, nodes, net, world, history, client
<1>4. CASE EndCommit
  BY <1>4, CopyQuiet DEF EndCommit, vwVars, nodes, net, world, history, client
<1>5. CASE CommitRegistry
  <2> SUFFICES ASSUME NEW q \in Peers PROVE Arrives(q)'
    BY DEF CopyInv
  <2>0. Arrives(q)
    BY DEF CopyInv
  <2>1. pc.s \in Scenes /\ SendRegistry(pc.s)
    BY <1>5 DEF CommitRegistry, IInv, TypeInv, Places
  <2>2. /\ RegistryPacket(pc.s) \in Registries /\ RegistryPacket(pc.s) \in Packets
        /\ wire'[q] =
             IF reg[pc.s].dirty /\ q \in inited[pc.s] /\ q \notin gone
             THEN wire[q] \o <<RegistryPacket(pc.s)>> ELSE wire[q]
    BY <2>1, RegistrySent
  <2>3. UNCHANGED <<copy, types, readies, sent, gone>>
    BY <1>5 DEF CommitRegistry, vwVars, nodes, net, world, history, client
  <2>4. \A c \in Chunks : RegistryPacket(pc.s) \notin NodesOf(c)
    BY <2>2, PacketKinds
  <2> QED
    BY <2>0, <2>2, <2>3, <2>4, ArrivesSame, ArrivesNoNode
<1>6. CASE CommitSync
  <2> SUFFICES ASSUME NEW q \in Peers PROVE Arrives(q)'
    BY DEF CopyInv
  <2>0. Arrives(q)
    BY DEF CopyInv
  <2>1. /\ pc.c \in Chunks
        /\ q \in OnScene(pc.s) => q \notin gone
        /\ q \in OnScene(pc.s) /\ Stale(q, pc.c) =>
             /\ NodePacket(q, pc.c) \in NodesOf(pc.c)
             /\ NodePacket(q, pc.c).d = data[pc.s][pc.c]
             /\ wire'[q] = wire[q] \o <<NodePacket(q, pc.c)>>
        /\ ~(q \in OnScene(pc.s) /\ Stale(q, pc.c)) =>
             wire'[q] = wire[q] /\ sent'[q] = sent[q]
        /\ \A c \in Chunks : c # pc.c => sent'[q][c] = sent[q][c]
        /\ q \in OnScene(pc.s) => sent'[q][pc.c] = data[pc.s][pc.c]
    BY <1>6, CommitSyncSent
  <2>2. UNCHANGED <<copy, types, readies, gone>>
    BY <1>6 DEF CommitSync, vwVars, nodes, net, world, history, client
  <2> QED
    BY <2>0, <2>1, <2>2, ArrivesSame, ArrivesNode
<1>7. CASE CommitNotify
  <2> SUFFICES ASSUME NEW q \in Peers PROVE Arrives(q)'
    BY DEF CopyInv
  <2>0. Arrives(q)
    BY DEF CopyInv
  <2>1. /\ UpdatePacket(pc.c) \in UpdatesOf(pc.c) /\ UpdatePacket(pc.c) \in Packets
        /\ wire'[q] =
             IF q \in pc.told /\ q \in inited[pc.s] /\ q \notin gone
             THEN wire[q] \o <<UpdatePacket(pc.c)>> ELSE wire[q]
    BY <1>7, NotifySent
  <2>2. UNCHANGED <<copy, types, readies, sent, gone>>
    BY <1>7 DEF CommitNotify, vwVars, nodes, net, world, history, client
  <2>3. \A c \in Chunks : UpdatePacket(pc.c) \notin NodesOf(c)
    BY <2>1, PacketKinds
  <2> QED
    BY <2>0, <2>1, <2>2, <2>3, ArrivesSame, ArrivesNoNode
<1>8. CASE HandleEvent
  <2> SUFFICES ASSUME NEW q \in Peers PROVE Arrives(q)'
    BY DEF CopyInv
  <2>0. Arrives(q)
    BY DEF CopyInv
  <2>1. UNCHANGED <<gone, sent, copy, types, readies>>
    BY <1>8 DEF HandleEvent, client, net
  <2>2. CASE UNCHANGED wire
    BY <2>0, <2>1, <2>2, ArrivesSame
  <2>3. ASSUME NEW p \in Peers, PeerJoined(p) PROVE Arrives(q)'
    <3>1. PICK ps \in Seq(Packets) :
           /\ wire' = [wire EXCEPT ![p] = IF p \in gone THEN wire[p] ELSE wire[p] \o ps]
           /\ \A j \in 1..Len(ps) :
                \/ ps[j] \in Readies
                \/ ps[j] \in Registries /\ \E s \in inst : ps[j].t = reg[s].n
           /\ inst # {} => /\ \E j \in 1..Len(ps) : ps[j] \in Readies
                           /\ \E j \in 1..Len(ps) : ps[j] \in Registries
      BY <2>3, JoinSent
    <3>2. wire'[q] = IF q = p /\ p \notin gone THEN wire[q] \o ps ELSE wire[q]
      BY <3>1 DEF NetTypeInv
    <3>3. \A c \in Chunks : \A j \in 1..Len(ps) : ps[j] \notin NodesOf(c)
      BY <3>1, PacketKinds
    <3> QED
      BY <2>0, <2>1, <3>2, <3>3, ArrivesSame, ArrivesOther
  <2>4. \/ UNCHANGED wire \/ \E p \in Peers : PeerJoined(p)
    BY <1>8, EventTaken DEF NetTypeInv, PeerLeft
  <2> QED
    BY <2>2, <2>3, <2>4
<1>9. CASE TickEnd
  <2> SUFFICES ASSUME NEW q \in Peers PROVE Arrives(q)'
    BY DEF CopyInv
  <2>0. Arrives(q)
    BY DEF CopyInv
  <2>1. pc.s \in Scenes /\ SendRegistry(pc.s)
    BY <1>9 DEF TickEnd, IInv, TypeInv, Places
  <2>2. /\ RegistryPacket(pc.s) \in Registries /\ RegistryPacket(pc.s) \in Packets
        /\ wire'[q] =
             IF reg[pc.s].dirty /\ q \in inited[pc.s] /\ q \notin gone
             THEN wire[q] \o <<RegistryPacket(pc.s)>> ELSE wire[q]
    BY <2>1, RegistrySent
  <2>3. UNCHANGED <<copy, types, readies, sent, gone>>
    BY <1>9 DEF TickEnd, vwVars, nodes, net, world, history, client
  <2>4. \A c \in Chunks : RegistryPacket(pc.s) \notin NodesOf(c)
    BY <2>2, PacketKinds
  <2> QED
    BY <2>0, <2>2, <2>3, <2>4, ArrivesSame, ArrivesNoNode
<1>10. ASSUME NEW s \in Scenes, DeleteScene(s) PROVE CopyInv'
  BY <1>10, CopyQuiet DEF DeleteScene, vwVars, nodes, net, world, history, client
<1>11. ASSUME NEW s \in Scenes, CreateInstance(s) PROVE CopyInv'
  <2>1. scene[s] = "none" /\ UNCHANGED <<copy, sent, gone>>
        /\ wire' = [p \in Peers |-> IF p \in OnScene(s) THEN SendTo(p, InitPackets(s))
                                                        ELSE wire[p]]
    BY <1>11 DEF CreateInstance, vwVars, nodes, net, world, history, client
  <2>2. wire' = [p \in Peers |-> wire[p]]
    BY <2>1 DEF OnScene
  <2>3. UNCHANGED wire
    BY <2>2 DEF NetTypeInv
  <2> QED
    BY <2>1, <2>3, CopyQuiet
<1>12. ASSUME NEW s \in Scenes, AddVoxelType(s) PROVE CopyInv'
  BY <1>12, CopyQuiet DEF AddVoxelType, vwVars, nodes, net, world, history, client
<1>13. ASSUME NEW s \in Scenes, Maintain(s) PROVE CopyInv'
  BY <1>13, CopyQuiet DEF Maintain, Unload, vwVars, nodes, net, world, history, client
<1>14. ASSUME NEW s \in Scenes, Tick(s) PROVE CopyInv'
  BY <1>14, CopyQuiet DEF Tick, vwVars, nodes, net, world, history, client
<1>15. ASSUME NEW s \in Scenes, NEW p \in Peers, Join(p, s) PROVE CopyInv'
  BY <1>15, CopyQuiet DEF Join, vwVars, nodes, net, world, history, client
<1>16. ASSUME NEW s \in Scenes, NEW c \in Chunks, GetVoxel(s, c) PROVE CopyInv'
  BY <1>16, CopyQuiet DEF GetVoxel, InBuffer, vwVars, nodes, net, world, history, client
<1>17. ASSUME NEW s \in Scenes, NEW c \in Chunks, SetVoxel(s, c) PROVE CopyInv'
  BY <1>17, CopyQuiet DEF SetVoxel, InBuffer, vwVars, nodes, net, world, history, client
<1>18. ASSUME NEW s \in Scenes, NEW c \in Chunks, CommitWrite(s, c) PROVE CopyInv'
  BY <1>18, CopyQuiet DEF CommitWrite, vwVars, nodes, net, world, history, client
<1>19. ASSUME NEW p \in Peers, Leave(p) PROVE CopyInv'
  <2> SUFFICES ASSUME NEW q \in Peers PROVE Arrives(q)'
    BY DEF CopyInv
  <2>0. Arrives(q)
    BY DEF CopyInv
  <2>1. /\ UNCHANGED <<copy, sent>> /\ gone' = gone \cup {p}
        /\ wire' = [wire EXCEPT ![p] = <<>>]
    BY <1>19 DEF Leave, vwVars, nodes, net, world, history, client
  <2>2. CASE q = p
    <3>1. wire'[p] = <<>> /\ p \in gone'
      BY <2>1 DEF NetTypeInv
    <3> QED
      BY <2>2, <3>1 DEF Arrives
  <2>3. CASE q # p
    <3>1. wire'[q] = wire[q]
      BY <2>1, <2>3 DEF NetTypeInv
    <3> QED
      BY <2>0, <2>1, <2>3, <3>1, ArrivesSame
  <2> QED
    BY <2>2, <2>3
<1>20. ASSUME NEW p \in Peers, Receive(p) PROVE CopyInv'
  <2> SUFFICES ASSUME NEW q \in Peers PROVE Arrives(q)'
    BY DEF CopyInv
  <2>0. Arrives(q)
    BY DEF CopyInv
  <2>1. /\ \A o \in Peers \ {p} : wire'[o] = wire[o] /\ copy'[o] = copy[o]
        /\ wire[p] # <<>> /\ End(p) = End(p)' + 1 /\ Len(wire'[p]) \in Nat
        /\ \A c \in Chunks : copy'[p][c] =
             IF wire[p][1] \in NodesOf(c) THEN wire[p][1].d ELSE copy[p][c]
        /\ \A i \in 1..(Len(wire'[p]) + 1) :
              \A c \in Chunks : \A d : CopyAt(p, c, i, d)' => CopyAt(p, c, i + 1, d)
        /\ \A c : NoneYet(wire[p], NodesOf(c), End(p)) =>
              NoneYet(wire[p], NodesOf(c), End(p))' /\ wire[p][1] \notin NodesOf(c)
    BY <1>20, ClientReceive
  <2>2. UNCHANGED <<sent, gone>>
    BY <1>20 DEF Receive, net
  <2>3. CASE q = p
    <3>1. p \notin gone
      BY <2>0, <2>1, <2>3 DEF Arrives
    <3>2. ASSUME NEW c \in Chunks, NEW d, CopyAt(p, c, End(p), d)'
          PROVE  CopyAt(p, c, End(p), d)
      <4>0. PICK i : i = Len(wire'[p]) + 1
        OBVIOUS
      <4>1. End(p)' = i /\ i \in 1..(Len(wire'[p]) + 1) /\ End(p) = i + 1
        BY <2>1, <4>0 DEF End
      <4>2. CopyAt(p, c, End(p), d)' <=> CopyAt(p, c, i, d)'
        BY <4>1 DEF CopyAt
      <4>3. CopyAt(p, c, i + 1, d)
        BY <2>1, <3>2, <4>1, <4>2
      <4> QED
        BY <4>1, <4>3
    <3>3. ASSUME NEW c \in Chunks
          PROVE  /\ \A d : CopyAt(p, c, End(p), d) => d = sent[p][c]
                 /\ sent[p][c] = NoData =>
                      copy[p][c] = NoData /\ NoneYet(wire[p], NodesOf(c), End(p))
      BY <2>0, <2>3, <3>1 DEF Arrives
    <3>4. ASSUME NEW c \in Chunks, sent[p][c] = NoData
          PROVE  copy'[p][c] = NoData /\ NoneYet(wire[p], NodesOf(c), End(p))'
      BY <2>1, <3>3, <3>4
    <3> QED
      BY <2>2, <2>3, <3>1, <3>2, <3>3, <3>4 DEF Arrives
  <2>4. CASE q # p
    BY <2>0, <2>1, <2>2, <2>4, ArrivesSame
  <2> QED
    BY <2>3, <2>4
<1>21. ASSUME NEW p \in Peers, NEW c \in Chunks, Sync(p, c) PROVE CopyInv'
  <2> SUFFICES ASSUME NEW q \in Peers PROVE Arrives(q)'
    BY DEF CopyInv
  <2>0. Arrives(q)
    BY DEF CopyInv
  <2>1. /\ p \notin gone
        /\ NodePacket(p, c) \in NodesOf(c) /\ NodePacket(p, c).d = data[peer[p]][c]
        /\ wire' = [wire EXCEPT ![p] = wire[p] \o <<NodePacket(p, c)>>]
        /\ sent' = [sent EXCEPT ![p][c] = data[peer[p]][c]]
    BY <1>21, SyncSent
  <2>2. UNCHANGED <<copy, types, readies, gone>>
    BY <1>21 DEF Sync, vwVars, nodes, net, world, history, client
  <2>3. CASE q = p
    <3>1. /\ wire'[p] = wire[p] \o <<NodePacket(p, c)>>
          /\ sent'[p][c] = NodePacket(p, c).d
          /\ \A e \in Chunks : e # c => sent'[p][e] = sent[p][e]
      BY <2>1 DEF NetTypeInv
    <3> QED
      BY <2>0, <2>1, <2>2, <2>3, <3>1, ArrivesNode
  <2>4. CASE q # p
    <3>1. wire'[q] = wire[q] /\ sent'[q] = sent[q]
      BY <2>1, <2>4 DEF NetTypeInv
    <3> QED
      BY <2>0, <2>2, <3>1, ArrivesSame
  <2> QED
    BY <2>3, <2>4
<1> QED
  BY <1>1, <1>2, <1>3, <1>4, <1>5, <1>6, <1>7, <1>8, <1>9, <1>10, <1>11,
     <1>12, <1>13, <1>14, <1>15, <1>16, <1>17, <1>18, <1>19, <1>20, <1>21
 DEF VWNext

-----------------------------------------------------------------------------
(* Who takes part has the registry *)

\* What the client will have stays as it is, and it stays ready.
Steady(p) ==
  /\ ReadyAt(p, End(p)) => ReadyAt(p, End(p))'
  /\ \A t : TypesAt(p, End(p), t)' => TypesAt(p, End(p), t)

LEMMA SteadySame ==
  ASSUME NEW p \in Peers, wire'[p] = wire[p], copy'[p] = copy[p],
         types'[p] = types[p], readies'[p] = readies[p]
  PROVE  Steady(p)
BY DEF Steady, ReadyAt, TypesAt, End

LEMMA SteadyOther ==
  ASSUME NetTypeInv, NEW p \in Peers, NEW m \in Packets, m \notin Registries,
         wire'[p] = wire[p] \o <<m>>, UNCHANGED <<copy, types, readies>>
  PROVE  Steady(p)
<1> DEFINE ps == <<m>>
<1>1. ps \in Seq(Packets) /\ \A j \in 1..Len(ps) : ps[j] = m
  BY OnePacket
<1>2. wire'[p] = wire[p] \o ps
  OBVIOUS
<1> HIDE DEF ps
<1>3. \A j \in 1..Len(ps) : ps[j] \notin Registries
  BY <1>1
<1> QED
  BY <1>1, <1>2, <1>3, ClientAppend DEF Steady

LEMMA NewRegistry ==
  ASSUME NetTypeInv, NEW p \in Peers, NEW m \in Registries,
         wire'[p] = wire[p] \o <<m>>, UNCHANGED <<copy, types, readies>>
  PROVE  /\ ReadyAt(p, End(p)) => ReadyAt(p, End(p))'
         /\ \A t : TypesAt(p, End(p), t)' => t = m.t
<1> DEFINE ps == <<m>>
<1>1. ps \in Seq(Packets) /\ (\A j \in 1..Len(ps) : ps[j] = m) /\ 1 \in 1..Len(ps)
  BY OnePacket, PacketKinds
<1>2. wire'[p] = wire[p] \o ps
  OBVIOUS
<1> HIDE DEF ps
<1>3. \E j \in 1..Len(ps) : ps[j] \in Registries
  BY <1>1
<1>4. \A t : TypesAt(p, End(p), t)' => \E j \in 1..Len(ps) : ps[j] \in Registries /\ t = ps[j].t
  BY <1>1, <1>2, <1>3, ClientAppend
<1>5. ReadyAt(p, End(p)) => ReadyAt(p, End(p))'
  BY <1>1, <1>2, ClientAppend
<1> QED
  BY <1>1, <1>4, <1>5

LEMMA SteadyReceive ==
  ASSUME NetTypeInv, NEW p \in Peers, Receive(p), NEW q \in Peers
  PROVE  Steady(q)
<1>1. /\ \A o \in Peers \ {p} : /\ wire'[o] = wire[o] /\ copy'[o] = copy[o]
                                /\ types'[o] = types[o] /\ readies'[o] = readies[o]
      /\ End(p) = End(p)' + 1 /\ Len(wire'[p]) \in Nat
      /\ \A i \in 1..(Len(wire'[p]) + 1) :
              /\ ReadyAt(p, i + 1) => ReadyAt(p, i)'
              /\ \A t : TypesAt(p, i, t)' => TypesAt(p, i + 1, t)
  BY ClientReceive
<1>2. CASE q # p
  BY <1>1, <1>2, SteadySame
<1>3. CASE q = p
  <2>1. PICK i : i = Len(wire'[p]) + 1
    OBVIOUS
  <2>2. End(p)' = i /\ i \in 1..(Len(wire'[p]) + 1) /\ End(p) = i + 1
    BY <1>1, <2>1 DEF End
  <2>3. /\ ReadyAt(p, i + 1) => ReadyAt(p, i)'
        /\ \A t : TypesAt(p, i, t)' => TypesAt(p, i + 1, t)
    BY <1>1, <2>2
  <2>4. ReadyAt(p, End(p))' <=> ReadyAt(p, i)'
    BY <2>2 DEF ReadyAt
  <2>5. \A t : TypesAt(p, End(p), t)' <=> TypesAt(p, i, t)'
    BY <2>2 DEF TypesAt
  <2> QED
    BY <1>3, <2>2, <2>3, <2>4, <2>5 DEF Steady
<1> QED
  BY <1>2, <1>3

LEMMA RegisteredKept ==
  ASSUME NEW p \in Peers, NEW s \in Scenes, Registered(p, s), Steady(p),
         p \in inited'[s] /\ p \notin gone' => p \in inited[s] /\ p \notin gone,
         PartOf(p, s)' /\ ~reg'[s].dirty => PartOf(p, s) /\ ~reg[s].dirty,
         reg'[s].n = reg[s].n \/ reg'[s].dirty
  PROVE  Registered(p, s)'
BY DEF Registered, Steady

LEMMA PartSame ==
  ASSUME NEW p, NEW s, UNCHANGED scene, peer'[p] = peer[p], gone \subseteq gone',
         p \in inited'[s] => p \in inited[s], UNCHANGED pc \/ pc'.at # "notify"
  PROVE  PartOf(p, s)' => PartOf(p, s)
BY DEF PartOf, Told

LEMMA RegistryQuiet ==
  ASSUME IInv, RegistryInv,
         UNCHANGED <<wire, copy, types, readies, peer, gone, scene, inited, inst, reg>>,
         UNCHANGED pc \/ pc'.at # "notify"
  PROVE  RegistryInv'
<1> SUFFICES ASSUME NEW p \in Peers, NEW s \in inst' PROVE Registered(p, s)'
  BY DEF RegistryInv
<1>1. s \in inst /\ s \in Scenes
  BY DEF IInv, TypeInv
<1>2. Registered(p, s) /\ Steady(p)
  BY <1>1, SteadySame DEF RegistryInv
<1>3. PartOf(p, s)' => PartOf(p, s)
  BY PartSame
<1> QED
  BY <1>1, <1>2, <1>3, RegisteredKept

\* ... also when the registry is sent: the peers of another instance are on
\* another scene.
LEMMA RegistryAgain ==
  ASSUME IInv, NetTypeInv, JoinInv, RegistryInv, NEW s \in Scenes, SendRegistry(s),
         UNCHANGED <<copy, types, readies, peer, gone, scene, inited, inst>>,
         pc'.at # "notify"
  PROVE  RegistryInv'
<1> SUFFICES ASSUME NEW q \in Peers, NEW x \in inst' PROVE Registered(q, x)'
  BY DEF RegistryInv
<1>1. x \in inst /\ x \in Scenes
  BY DEF IInv, TypeInv
<1>2. Registered(q, x)
  BY <1>1 DEF RegistryInv
<1>3. /\ RegistryPacket(s) \in Registries /\ RegistryPacket(s).t = reg[s].n
      /\ wire'[q] = IF reg[s].dirty /\ q \in inited[s] /\ q \notin gone
                    THEN wire[q] \o <<RegistryPacket(s)>> ELSE wire[q]
      /\ reg'[x].n = reg[x].n /\ (x # s => reg'[x] = reg[x])
  BY <1>1, RegistrySent
<1>4. PartOf(q, x)' => PartOf(q, x) /\ scene[x] = "live"
  BY PartSame DEF PartOf, Told
<1>5. CASE reg[s].dirty /\ q \in inited[s] /\ q \notin gone
  <2>1. /\ ReadyAt(q, End(q)) => ReadyAt(q, End(q))'
        /\ \A t : TypesAt(q, End(q), t)' => t = reg[s].n
    BY <1>3, <1>5, NewRegistry
  <2>2. PartOf(q, x)' => x = s
    BY <1>1, <1>4, <1>5 DEF JoinInv, Awaited, PartOf
  <2> QED
    BY <1>2, <1>3, <1>4, <2>1, <2>2 DEF Registered
<1>6. CASE ~(reg[s].dirty /\ q \in inited[s] /\ q \notin gone)
  <2>1. Steady(q)
    BY <1>3, <1>6, SteadySame
  <2>2. PartOf(q, x) /\ ~reg'[x].dirty => ~reg[x].dirty
    BY <1>3, <1>6 DEF PartOf
  <2> QED
    BY <1>1, <1>2, <1>3, <1>4, <2>1, <2>2, RegisteredKept
<1> QED
  BY <1>5, <1>6

\* Who takes part in a world gets each change of its registry.
LEMMA RegistryStep ==
  ASSUME IInv, NetTypeInv, SceneInv, JoinInv, RegistryInv, [VWNext]_vwVars
  PROVE  RegistryInv'
<1>1. CASE UNCHANGED vwVars
  BY <1>1, RegistryQuiet DEF vwVars, nodes, net, world, history, client, Idle
<1>2. CASE Access
  BY <1>2, RegistryQuiet DEF Access, vwVars, nodes, net, world, history, client, Idle
<1>3. CASE EndAccess
  BY <1>3, RegistryQuiet DEF EndAccess, vwVars, nodes, net, world, history, client, Idle
<1>4. CASE EndCommit
  BY <1>4, RegistryQuiet DEF EndCommit, vwVars, nodes, net, world, history, client, Idle
<1>5. CASE CommitRegistry
  <2>0. /\ pc.at = "registry" /\ pc' = [pc EXCEPT !.at = "sync"]
        /\ pc \in Places /\ SendRegistry(pc.s)
    BY <1>5 DEF CommitRegistry, IInv, TypeInv
  <2>1. pc.s \in Scenes /\ SendRegistry(pc.s) /\ pc'.at # "notify"
    BY <2>0 DEF Places
  <2>2. UNCHANGED <<copy, types, readies, peer, gone, scene, inited, inst>>
    BY <1>5 DEF CommitRegistry, vwVars, nodes, net, world, history, client
  <2> QED
    BY <2>1, <2>2, RegistryAgain
<1>6. CASE CommitSync
  <2> SUFFICES ASSUME NEW q \in Peers, NEW x \in inst' PROVE Registered(q, x)'
    BY DEF RegistryInv
  <2>1. /\ pc.c \in Chunks /\ pc' = [at |-> "notify", s |-> pc.s, c |-> pc.c,
                                        told |-> OnScene(pc.s)]
        /\ q \in OnScene(pc.s) <=> q \notin gone /\ peer[q] = pc.s /\ scene[pc.s] = "live"
        /\ q \in OnScene(pc.s) /\ Stale(q, pc.c) =>
             /\ NodePacket(q, pc.c) \in NodesOf(pc.c)
             /\ NodePacket(q, pc.c) \in Packets
             /\ wire'[q] = wire[q] \o <<NodePacket(q, pc.c)>>
        /\ ~(q \in OnScene(pc.s) /\ Stale(q, pc.c)) =>
             wire'[q] = wire[q] /\ sent'[q] = sent[q]
    BY <1>6, CommitSyncSent
  <2>2. UNCHANGED <<copy, types, readies, peer, gone, scene, inited, inst, reg>>
    BY <1>6 DEF CommitSync, vwVars, nodes, net, world, history, client
  <2>3. NodePacket(q, pc.c) \in NodesOf(pc.c) => NodePacket(q, pc.c) \notin Registries
    BY PacketKinds
  <2>4. Steady(q)
    BY <2>1, <2>2, <2>3, SteadySame, SteadyOther
  <2>5. Registered(q, x) /\ x \in Scenes
    BY <2>2 DEF RegistryInv, IInv, TypeInv
  <2>6. PartOf(q, x)' => PartOf(q, x)
    <3>1. Told(q)' /\ pc'.s = x => scene[x] = "live"
      BY <2>1 DEF Told
    <3> QED
      BY <2>2, <3>1 DEF PartOf
  <2> QED
    BY <2>2, <2>4, <2>5, <2>6, RegisteredKept
<1>7. CASE CommitNotify
  <2> SUFFICES ASSUME NEW q \in Peers, NEW x \in inst' PROVE Registered(q, x)'
    BY DEF RegistryInv
  <2>1. /\ UpdatePacket(pc.c) \in UpdatesOf(pc.c) /\ UpdatePacket(pc.c) \in Packets
        /\ wire'[q] =
             IF q \in pc.told /\ q \in inited[pc.s] /\ q \notin gone
             THEN wire[q] \o <<UpdatePacket(pc.c)>> ELSE wire[q]
    BY <1>7, NotifySent
  <2>2. /\ UNCHANGED <<copy, types, readies, peer, gone, scene, inited, inst, reg>>
        /\ pc'.at # "notify"
    BY <1>7 DEF CommitNotify, vwVars, nodes, net, world, history, client
  <2>3. UpdatePacket(pc.c) \notin Registries
    BY <2>1, PacketKinds
  <2>4. Steady(q)
    BY <2>1, <2>2, <2>3, SteadySame, SteadyOther
  <2>5. Registered(q, x) /\ x \in Scenes
    BY <2>2 DEF RegistryInv, IInv, TypeInv
  <2>6. PartOf(q, x)' => PartOf(q, x)
    BY <2>2, PartSame
  <2> QED
    BY <2>2, <2>4, <2>5, <2>6, RegisteredKept
<1>8. CASE HandleEvent
  <2> SUFFICES ASSUME NEW q \in Peers, NEW x \in inst' PROVE Registered(q, x)'
    BY DEF RegistryInv
  <2>1. UNCHANGED <<gone, peer, scene, pc, copy, types, readies>> /\ pc = Idle
    BY <1>8 DEF HandleEvent, client, net, nodes
  <2>2. ASSUME NEW s \in Scenes, Erase(s), UNCHANGED wire PROVE Registered(q, x)'
    <3>1. /\ inst' = inst \ {s} /\ x # s /\ x \in inst /\ x \in Scenes
          /\ inited'[x] = inited[x] /\ reg'[x] = reg[x]
      BY <2>2 DEF Erase, IInv, TypeInv, NetTypeInv
    <3>2. Registered(q, x) /\ Steady(q)
      BY <2>1, <2>2, <3>1, SteadySame DEF RegistryInv
    <3>3. PartOf(q, x)' => PartOf(q, x)
      BY <2>1, <3>1, PartSame
    <3> QED
      BY <2>1, <3>1, <3>2, <3>3, RegisteredKept
  <2>3. ASSUME NEW p \in Peers, PeerJoined(p), UNCHANGED <<inst, reg>>,
               Head(evq) = Joining(p), evq # <<>>
        PROVE  Registered(q, x)'
    <3>1. PICK ps \in Seq(Packets) :
           /\ wire' = [wire EXCEPT ![p] = IF p \in gone THEN wire[p] ELSE wire[p] \o ps]
           /\ \A j \in 1..Len(ps) :
                \/ ps[j] \in Readies
                \/ ps[j] \in Registries /\ \E s \in inst : ps[j].t = reg[s].n
           /\ inst # {} => /\ \E j \in 1..Len(ps) : ps[j] \in Readies
                           /\ \E j \in 1..Len(ps) : ps[j] \in Registries
      BY <2>3, JoinSent
    <3>2. wire'[q] = IF q = p /\ p \notin gone THEN wire[q] \o ps ELSE wire[q]
      BY <3>1 DEF NetTypeInv
    <3>3. /\ x \in inst /\ x \in Scenes /\ Registered(q, x)
          /\ inited'[x] = inited[x] \cup {p}
      BY <2>3 DEF PeerJoined, RegistryInv, IInv, TypeInv
    <3>4. CASE q = p /\ p \notin gone
      <4>1. wire'[q] = wire[q] \o ps
        BY <3>2, <3>4
      <4>2. /\ \E j \in 1..Len(ps) : ps[j] \in Readies
            /\ \E j \in 1..Len(ps) : ps[j] \in Registries
        BY <3>1, <3>3
      <4>3. ReadyAt(q, End(q))'
        BY <2>1, <4>1, <4>2, ClientAppend
      <4>4. \A t : TypesAt(q, End(q), t)' =>
              \E j \in 1..Len(ps) : ps[j] \in Registries /\ t = ps[j].t
        BY <2>1, <4>1, <4>2, ClientAppend
      <4>5. \A t : TypesAt(q, End(q), t)' => \E s \in inst : t = reg[s].n
        BY <3>1, <4>4, PacketKinds
      <4>6. PartOf(q, x)' => scene[x] = "live" /\ peer[q] = x
        BY <2>1 DEF PartOf, Told, Idle
      <4>7. ASSUME PartOf(q, x)', NEW s \in inst PROVE s = x
        <5>1. s \in Scenes /\ scene[s] # "none"
          BY DEF SceneInv, IInv, TypeInv
        <5>2. evq \in Seq(EventsOf) /\ evq[1] = Joining(q) /\ 1 \in 1..Len(evq)
          BY <2>3, <3>4 DEF NetTypeInv
        <5>3. ~\E i \in 1..Len(evq) : i < 1 /\ evq[i] = Deletion(s)
          OBVIOUS
        <5>4. Awaited(q, x)
          BY <3>3, <4>6, <4>7 DEF JoinInv
        <5>5. scene[s] # "deleted"
          BY <5>2, <5>3, <5>4 DEF Awaited
        <5> QED
          BY <3>3, <4>6, <4>7, <5>1, <5>5, OneScene
      <4> QED
        BY <2>3, <4>3, <4>5, <4>7 DEF Registered
    <3>5. CASE ~(q = p /\ p \notin gone)
      <4>1. Steady(q)
        BY <2>1, <3>2, <3>5, SteadySame
      <4>2. q \in inited'[x] /\ q \notin gone' => q \in inited[x] /\ q \notin gone
        BY <2>1, <3>3, <3>5
      <4>3. PartOf(q, x)' => PartOf(q, x)
        BY <2>1, <4>2 DEF PartOf, Told
      <4> QED
        BY <2>3, <3>3, <4>1, <4>2, <4>3, RegisteredKept
    <3> QED
      BY <3>4, <3>5
  <2>4. ASSUME NEW p \in Peers, PeerLeft(p), UNCHANGED <<inst, reg>>
        PROVE  Registered(q, x)'
    <3>1. /\ x \in inst /\ x \in Scenes /\ UNCHANGED wire
          /\ inited'[x] = inited[x] \ {p}
      BY <2>4 DEF PeerLeft, IInv, TypeInv
    <3>2. Registered(q, x) /\ Steady(q)
      BY <2>1, <3>1, SteadySame DEF RegistryInv
    <3>3. PartOf(q, x)' => PartOf(q, x)
      BY <2>1, <3>1, PartSame
    <3> QED
      BY <2>1, <2>4, <3>1, <3>2, <3>3, RegisteredKept
  <2>5. evq # <<>> /\
        \/ \E s \in Scenes : Erase(s) /\ UNCHANGED wire
        \/ \E p \in Peers : /\ PeerJoined(p) /\ UNCHANGED <<inst, reg>>
                            /\ Head(evq) = Joining(p)
        \/ \E p \in Peers : PeerLeft(p) /\ UNCHANGED <<inst, reg>>
    BY <1>8, EventTaken DEF NetTypeInv
  <2> QED
    BY <2>2, <2>3, <2>4, <2>5
<1>9. CASE TickEnd
  <2>1. pc.s \in Scenes /\ SendRegistry(pc.s) /\ pc'.at # "notify"
    BY <1>9 DEF TickEnd, IInv, TypeInv, Places, Idle
  <2>2. UNCHANGED <<copy, types, readies, peer, gone, scene, inited, inst>>
    BY <1>9 DEF TickEnd, vwVars, nodes, net, world, history, client
  <2> QED
    BY <2>1, <2>2, RegistryAgain
<1>10. ASSUME NEW s \in Scenes, DeleteScene(s) PROVE RegistryInv'
  <2> SUFFICES ASSUME NEW q \in Peers, NEW x \in inst' PROVE Registered(q, x)'
    BY DEF RegistryInv
  <2>1. /\ UNCHANGED <<gone, peer, inited, inst, reg, pc, wire, copy, types, readies>>
        /\ scene' = [scene EXCEPT ![s] = "deleted"]
    BY <1>10 DEF DeleteScene, vwVars, nodes, net, world, history, client
  <2>2. Registered(q, x) /\ x \in Scenes /\ Steady(q)
    BY <2>1, SteadySame DEF RegistryInv, IInv, TypeInv
  <2>3. scene'[x] = "live" => scene[x] = "live"
    BY <2>1, <2>2 DEF IInv, TypeInv
  <2>4. PartOf(q, x)' => PartOf(q, x)
    BY <2>1, <2>3 DEF PartOf, Told
  <2> QED
    BY <2>1, <2>2, <2>4, RegisteredKept
<1>11. ASSUME NEW s \in Scenes, CreateInstance(s) PROVE RegistryInv'
  <2> SUFFICES ASSUME NEW q \in Peers, NEW x \in inst' PROVE Registered(q, x)'
    BY DEF RegistryInv
  <2>1. /\ UNCHANGED <<gone, peer, reg, pc, copy, types, readies>>
        /\ scene' = [scene EXCEPT ![s] = "live"] /\ scene[s] = "none"
        /\ inst' = inst \cup {s}
        /\ inited' = [inited EXCEPT ![s] = OnScene(s)]
        /\ wire' = [i \in Peers |-> IF i \in OnScene(s) THEN SendTo(i, InitPackets(s))
                                                        ELSE wire[i]]
    BY <1>11 DEF CreateInstance, vwVars, nodes, net, world, history, client
  <2>2. OnScene(s) = {}
    BY <2>1 DEF OnScene
  <2>3. Steady(q) /\ x \in Scenes
    BY <2>1, <2>2, SteadySame DEF IInv, TypeInv
  <2>4. CASE x = s
    <3>1. q \notin inited'[x]
      BY <2>1, <2>2, <2>3, <2>4 DEF NetTypeInv
    <3> QED
      BY <3>1 DEF Registered, PartOf
  <2>5. CASE x # s
    <3>1. /\ scene'[x] = scene[x] /\ inited'[x] = inited[x]
          /\ Registered(q, x)
      BY <2>1, <2>3, <2>5 DEF IInv, TypeInv, NetTypeInv, RegistryInv
    <3>2. PartOf(q, x)' => PartOf(q, x)
      BY <2>1, <3>1 DEF PartOf, Told
    <3> QED
      BY <2>1, <2>3, <3>1, <3>2, RegisteredKept
  <2> QED
    BY <2>4, <2>5
<1>12. ASSUME NEW s \in Scenes, AddVoxelType(s) PROVE RegistryInv'
  <2> SUFFICES ASSUME NEW q \in Peers, NEW x \in inst' PROVE Registered(q, x)'
    BY DEF RegistryInv
  <2>1. /\ UNCHANGED <<gone, peer, scene, inst, inited, pc, wire, copy, types, readies>>
        /\ reg' = [reg EXCEPT ![s] = [n |-> reg[s].n + 1, dirty |-> TRUE]]
    BY <1>12 DEF AddVoxelType, vwVars, nodes, net, world, history, client
  <2>2. Registered(q, x) /\ x \in Scenes /\ Steady(q)
    BY <2>1, SteadySame DEF RegistryInv, IInv, TypeInv
  <2>3. reg'[x] = reg[x] \/ reg'[x].dirty
    BY <2>1, <2>2 DEF IInv, TypeInv
  <2>4. PartOf(q, x)' => PartOf(q, x)
    BY <2>1, PartSame
  <2> QED
    BY <2>1, <2>2, <2>3, <2>4, RegisteredKept
<1>13. ASSUME NEW s \in Scenes, Maintain(s) PROVE RegistryInv'
  BY <1>13, RegistryQuiet DEF Maintain, Unload, vwVars, nodes, net, world, history, client, Idle
<1>14. ASSUME NEW s \in Scenes, Tick(s) PROVE RegistryInv'
  BY <1>14, RegistryQuiet DEF Tick, vwVars, nodes, net, world, history, client, Idle
<1>15. ASSUME NEW s \in Scenes, NEW p \in Peers, Join(p, s) PROVE RegistryInv'
  <2> SUFFICES ASSUME NEW q \in Peers, NEW x \in inst' PROVE Registered(q, x)'
    BY DEF RegistryInv
  <2>1. /\ UNCHANGED <<gone, scene, inited, inst, reg, pc, wire, copy, types, readies>>
        /\ peer[p] = 0 /\ peer' = [peer EXCEPT ![p] = s]
    BY <1>15 DEF Join, vwVars, nodes, net, world, history, client
  <2>2. Registered(q, x) /\ x \in Scenes /\ Steady(q)
    BY <2>1, SteadySame DEF RegistryInv, IInv, TypeInv
  <2>3. CASE q = p
    <3>1. q \notin inited[x]
      BY <2>1, <2>2, <2>3 DEF JoinInv, Known
    <3> QED
      BY <2>1, <3>1 DEF Registered, PartOf
  <2>4. CASE q # p
    <3>1. peer'[q] = peer[q]
      BY <2>1, <2>4 DEF NetTypeInv
    <3>2. PartOf(q, x)' => PartOf(q, x)
      BY <2>1, <3>1, PartSame
    <3> QED
      BY <2>1, <2>2, <3>2, RegisteredKept
  <2> QED
    BY <2>3, <2>4
<1>16. ASSUME NEW s \in Scenes, NEW c \in Chunks, GetVoxel(s, c) PROVE RegistryInv'
  BY <1>16, RegistryQuiet DEF GetVoxel, InBuffer, vwVars, nodes, net, world, history, client, Idle
<1>17. ASSUME NEW s \in Scenes, NEW c \in Chunks, SetVoxel(s, c) PROVE RegistryInv'
  BY <1>17, RegistryQuiet DEF SetVoxel, InBuffer, vwVars, nodes, net, world, history, client, Idle
<1>18. ASSUME NEW s \in Scenes, NEW c \in Chunks, CommitWrite(s, c) PROVE RegistryInv'
  BY <1>18, RegistryQuiet DEF CommitWrite, vwVars, nodes, net, world, history, client, Idle
<1>19. ASSUME NEW p \in Peers, Leave(p) PROVE RegistryInv'
  <2> SUFFICES ASSUME NEW q \in Peers, NEW x \in inst' PROVE Registered(q, x)'
    BY DEF RegistryInv
  <2>1. /\ UNCHANGED <<peer, scene, inited, inst, reg, pc, copy, types, readies>>
        /\ gone' = gone \cup {p} /\ wire' = [wire EXCEPT ![p] = <<>>]
    BY <1>19 DEF Leave, vwVars, nodes, net, world, history, client
  <2>2. Registered(q, x) /\ x \in Scenes
    BY <2>1 DEF RegistryInv, IInv, TypeInv
  <2>3. CASE q = p
    BY <2>1, <2>3 DEF Registered, PartOf
  <2>4. CASE q # p
    <3>1. Steady(q)
      BY <2>1, <2>4, SteadySame DEF NetTypeInv
    <3>2. PartOf(q, x)' => PartOf(q, x)
      BY <2>1, PartSame
    <3> QED
      BY <2>1, <2>2, <3>1, <3>2, RegisteredKept
  <2> QED
    BY <2>3, <2>4
<1>20. ASSUME NEW p \in Peers, Receive(p) PROVE RegistryInv'
  <2> SUFFICES ASSUME NEW q \in Peers, NEW x \in inst' PROVE Registered(q, x)'
    BY DEF RegistryInv
  <2>1. UNCHANGED <<peer, gone, scene, inited, inst, reg, pc>>
    BY <1>20 DEF Receive, vwVars, nodes, net, world, history, client
  <2>2. Steady(q)
    BY <1>20, SteadyReceive
  <2>3. Registered(q, x) /\ x \in Scenes
    BY <2>1 DEF RegistryInv, IInv, TypeInv
  <2>4. PartOf(q, x)' => PartOf(q, x)
    BY <2>1, PartSame
  <2> QED
    BY <2>1, <2>2, <2>3, <2>4, RegisteredKept
<1>21. ASSUME NEW p \in Peers, NEW c \in Chunks, Sync(p, c) PROVE RegistryInv'
  <2> SUFFICES ASSUME NEW q \in Peers, NEW x \in inst' PROVE Registered(q, x)'
    BY DEF RegistryInv
  <2>1. /\ NodePacket(p, c) \in NodesOf(c) /\ NodePacket(p, c) \in Packets
        /\ wire' = [wire EXCEPT ![p] = wire[p] \o <<NodePacket(p, c)>>]
    BY <1>21, SyncSent
  <2>2. UNCHANGED <<copy, types, readies, peer, gone, scene, inited, inst, reg, pc>>
    BY <1>21 DEF Sync, vwVars, nodes, net, world, history, client
  <2>3. wire'[q] = IF q = p THEN wire[q] \o <<NodePacket(p, c)>> ELSE wire[q]
    BY <2>1 DEF NetTypeInv
  <2>4. NodePacket(p, c) \notin Registries
    BY <2>1, PacketKinds
  <2>5. Steady(q)
    BY <2>1, <2>2, <2>3, <2>4, SteadySame, SteadyOther
  <2>6. Registered(q, x) /\ x \in Scenes
    BY <2>2 DEF RegistryInv, IInv, TypeInv
  <2>7. PartOf(q, x)' => PartOf(q, x)
    BY <2>2, PartSame
  <2> QED
    BY <2>2, <2>5, <2>6, <2>7, RegisteredKept
<1> QED
  BY <1>1, <1>2, <1>3, <1>4, <1>5, <1>6, <1>7, <1>8, <1>9, <1>10, <1>11,
     <1>12, <1>13, <1>14, <1>15, <1>16, <1>17, <1>18, <1>19, <1>20, <1>21
 DEF VWNext

-----------------------------------------------------------------------------
(* Updates come after the node and its types *)

LEMMA OrderedSame ==
  ASSUME NEW p \in Peers, Ordered(p), wire'[p] = wire[p], copy'[p] = copy[p],
         types'[p] = types[p], readies'[p] = readies[p]
  PROVE  Ordered(p)'
BY ClientSame DEF Ordered

LEMMA UpdateQuiet ==
  ASSUME UpdateInv, UNCHANGED <<wire, copy, types, readies>>
  PROVE  UpdateInv'
BY OrderedSame DEF UpdateInv

LEMMA OrderedAppend ==
  ASSUME NetTypeInv, NEW p \in Peers, Ordered(p), NEW ps \in Seq(Packets),
         wire'[p] = wire[p] \o ps, UNCHANGED <<copy, types, readies>>,
         \A j \in 1..Len(ps), c \in Chunks : ps[j] \in UpdatesOf(c) =>
           /\ j = 1 /\ ReadyAt(p, End(p))
           /\ \A d : CopyAt(p, c, End(p), d) => d # NoData
           /\ \A d, t : CopyAt(p, c, End(p), d) /\ TypesAt(p, End(p), t) => d.t <= t
  PROVE  Ordered(p)'
<1> DEFINE n == Len(wire[p])
<1>1. /\ n \in Nat /\ Len(ps) \in Nat /\ Len(wire'[p]) = n + Len(ps) /\ End(p) = n + 1
      /\ \A j \in 1..n : wire'[p][j] = wire[p][j]
      /\ \A j \in 1..Len(ps) : wire'[p][n + j] = ps[j]
      /\ \A i \in 1..End(p) :
           /\ ReadyAt(p, i)' <=> ReadyAt(p, i)
           /\ \A c, d : CopyAt(p, c, i, d)' <=> CopyAt(p, c, i, d)
           /\ \A t : TypesAt(p, i, t)' <=> TypesAt(p, i, t)
  BY ClientAppend DEF End
<1>2. n = Len(wire[p])
  OBVIOUS
<1> HIDE DEF n
<1> SUFFICES ASSUME NEW i \in 1..(n + Len(ps)), NEW c \in Chunks,
                    wire'[p][i] \in UpdatesOf(c)
             PROVE  /\ ReadyAt(p, i)'
                    /\ \A d : CopyAt(p, c, i, d)' => d # NoData
                    /\ \A d, t : CopyAt(p, c, i, d)' /\ TypesAt(p, i, t)' => d.t <= t
  BY <1>1 DEF Ordered
<1>3. i \in 1..n \/ (i - n \in 1..Len(ps) /\ n + (i - n) = i)
  BY <1>1
<1>4. CASE i \in 1..n
  <2>1. i \in 1..End(p) /\ wire'[p][i] = wire[p][i]
    BY <1>1, <1>4
  <2> QED
    BY <1>1, <1>2, <1>4, <2>1 DEF Ordered
<1>5. CASE i - n \in 1..Len(ps) /\ n + (i - n) = i
  <2>1. ps[i - n] \in UpdatesOf(c)
    BY <1>1, <1>5
  <2>2. i - n = 1
    BY <1>5, <2>1
  <2>3. i = End(p) /\ End(p) \in 1..End(p)
    BY <1>1, <1>5, <2>2
  <2> QED
    BY <1>1, <1>5, <2>1, <2>3
<1> QED
  BY <1>3, <1>4, <1>5

LEMMA OrderedOther ==
  ASSUME NetTypeInv, NEW p \in Peers, Ordered(p), NEW m \in Packets,
         \A c \in Chunks : m \notin UpdatesOf(c), wire'[p] = wire[p] \o <<m>>,
         UNCHANGED <<copy, types, readies>>
  PROVE  Ordered(p)'
<1>1. <<m>> \in Seq(Packets) /\ \A j \in 1..Len(<<m>>) : <<m>>[j] = m
  BY OnePacket
<1> QED
  BY <1>1, OrderedAppend

\* A commit tells those of an update that it sent the registry and the node.
LEMMA UpdateStep ==
  ASSUME IInv, NetTypeInv, SentInv, ThreadInv, CopyInv, RegistryInv,
     UpdateInv, [VWNext]_vwVars
  PROVE  UpdateInv'
<1>1. CASE UNCHANGED vwVars
  BY <1>1, UpdateQuiet DEF vwVars, nodes, net, world, history, client
<1>2. CASE Access
  BY <1>2, UpdateQuiet DEF Access, vwVars, nodes, net, world, history, client
<1>3. CASE EndAccess
  BY <1>3, UpdateQuiet DEF EndAccess, vwVars, nodes, net, world, history, client
<1>4. CASE EndCommit
  BY <1>4, UpdateQuiet DEF EndCommit, vwVars, nodes, net, world, history, client
<1>5. CASE CommitRegistry
  <2> SUFFICES ASSUME NEW q \in Peers PROVE Ordered(q)'
    BY DEF UpdateInv
  <2>0. Ordered(q)
    BY DEF UpdateInv
  <2>1. pc.s \in Scenes /\ SendRegistry(pc.s)
    BY <1>5 DEF CommitRegistry, IInv, TypeInv, Places
  <2>2. /\ RegistryPacket(pc.s) \in Registries /\ RegistryPacket(pc.s) \in Packets
        /\ wire'[q] =
             IF reg[pc.s].dirty /\ q \in inited[pc.s] /\ q \notin gone
             THEN wire[q] \o <<RegistryPacket(pc.s)>> ELSE wire[q]
    BY <2>1, RegistrySent
  <2>3. UNCHANGED <<copy, types, readies>>
    BY <1>5 DEF CommitRegistry, vwVars, nodes, net, world, history, client
  <2>4. \A c \in Chunks : RegistryPacket(pc.s) \notin UpdatesOf(c)
    BY <2>2, PacketKinds
  <2> QED
    BY <2>0, <2>2, <2>3, <2>4, OrderedSame, OrderedOther
<1>6. CASE CommitSync
  <2> SUFFICES ASSUME NEW q \in Peers PROVE Ordered(q)'
    BY DEF UpdateInv
  <2>0. Ordered(q)
    BY DEF UpdateInv
  <2>1. /\ q \in OnScene(pc.s) /\ Stale(q, pc.c) =>
             /\ NodePacket(q, pc.c) \in NodesOf(pc.c)
             /\ NodePacket(q, pc.c) \in Packets
             /\ wire'[q] = wire[q] \o <<NodePacket(q, pc.c)>>
        /\ ~(q \in OnScene(pc.s) /\ Stale(q, pc.c)) => wire'[q] = wire[q]
    BY <1>6, CommitSyncSent
  <2>2. UNCHANGED <<copy, types, readies>>
    BY <1>6 DEF CommitSync, vwVars, nodes, net, world, history, client
  <2>3. NodePacket(q, pc.c) \in NodesOf(pc.c) =>
          \A c \in Chunks : NodePacket(q, pc.c) \notin UpdatesOf(c)
    BY PacketKinds
  <2> QED
    BY <2>0, <2>1, <2>2, <2>3, OrderedSame, OrderedOther
<1>7. CASE CommitNotify
  <2> SUFFICES ASSUME NEW q \in Peers PROVE Ordered(q)'
    BY DEF UpdateInv
  <2>0. Ordered(q)
    BY DEF UpdateInv
  <2>1. /\ pc.at = "notify" /\ pc.s \in Scenes /\ pc.s \in inst /\ pc.c \in Chunks
        /\ UpdatePacket(pc.c) \in UpdatesOf(pc.c) /\ UpdatePacket(pc.c) \in Packets
        /\ wire'[q] =
             IF q \in pc.told /\ q \in inited[pc.s] /\ q \notin gone
             THEN wire[q] \o <<UpdatePacket(pc.c)>> ELSE wire[q]
    BY <1>7, NotifySent
  <2>2. UNCHANGED <<copy, types, readies>>
    BY <1>7 DEF CommitNotify, vwVars, nodes, net, world, history, client
  <2>3. CASE q \in pc.told /\ q \in inited[pc.s] /\ q \notin gone
    <3>1. Told(q) /\ PartOf(q, pc.s) /\ ~reg[pc.s].dirty /\ sent[q][pc.c] # NoData
      BY <2>1, <2>3 DEF Told, PartOf, ThreadInv
    <3>2. ReadyAt(q, End(q)) /\ \A t : TypesAt(q, End(q), t) => t = reg[pc.s].n
      BY <2>1, <2>3, <3>1 DEF RegistryInv, Registered
    <3>3. \A d : CopyAt(q, pc.c, End(q), d) => d = sent[q][pc.c]
      BY <2>1, <2>3 DEF CopyInv, Arrives
    <3>4. sent[q][pc.c].t <= reg[pc.s].n
      BY <2>1, <3>1 DEF SentInv, Sent, PartOf
    <3> DEFINE ps == <<UpdatePacket(pc.c)>>
    <3>5. /\ ps \in Seq(Packets) /\ Len(ps) = 1 /\ \A j \in 1..Len(ps) : ps[j] = UpdatePacket(pc.c)
          /\ wire'[q] = wire[q] \o ps
      BY <2>1, <2>3, OnePacket
    <3> HIDE DEF ps
    <3>6. \A j \in 1..Len(ps), c \in Chunks : ps[j] \in UpdatesOf(c) => j = 1 /\ c = pc.c
      BY <2>1, <3>5, PacketKinds
    <3>7. \A j \in 1..Len(ps), c \in Chunks : ps[j] \in UpdatesOf(c) =>
           /\ j = 1 /\ ReadyAt(q, End(q))
           /\ \A d : CopyAt(q, c, End(q), d) => d # NoData
           /\ \A d, t : CopyAt(q, c, End(q), d) /\ TypesAt(q, End(q), t) => d.t <= t
      BY <3>1, <3>2, <3>3, <3>4, <3>6
    <3> QED
      BY <2>0, <2>2, <3>5, <3>7, OrderedAppend
  <2>4. CASE ~(q \in pc.told /\ q \in inited[pc.s] /\ q \notin gone)
    BY <2>0, <2>1, <2>2, <2>4, OrderedSame
  <2> QED
    BY <2>3, <2>4
<1>8. CASE HandleEvent
  <2> SUFFICES ASSUME NEW q \in Peers PROVE Ordered(q)'
    BY DEF UpdateInv
  <2>0. Ordered(q)
    BY DEF UpdateInv
  <2>1. UNCHANGED <<copy, types, readies>>
    BY <1>8 DEF HandleEvent, client
  <2>2. CASE UNCHANGED wire
    BY <2>0, <2>1, <2>2, OrderedSame
  <2>3. ASSUME NEW p \in Peers, PeerJoined(p) PROVE Ordered(q)'
    <3>1. PICK ps \in Seq(Packets) :
           /\ wire' = [wire EXCEPT ![p] = IF p \in gone THEN wire[p] ELSE wire[p] \o ps]
           /\ \A j \in 1..Len(ps) :
                \/ ps[j] \in Readies
                \/ ps[j] \in Registries /\ \E s \in inst : ps[j].t = reg[s].n
           /\ inst # {} => /\ \E j \in 1..Len(ps) : ps[j] \in Readies
                           /\ \E j \in 1..Len(ps) : ps[j] \in Registries
      BY <2>3, JoinSent
    <3>2. wire'[q] = IF q = p /\ p \notin gone THEN wire[q] \o ps ELSE wire[q]
      BY <3>1 DEF NetTypeInv
    <3>3. \A j \in 1..Len(ps), c \in Chunks : ps[j] \notin UpdatesOf(c)
      BY <3>1, PacketKinds
    <3> QED
      BY <2>0, <2>1, <3>2, <3>3, OrderedSame, OrderedAppend
  <2>4. \/ UNCHANGED wire \/ \E p \in Peers : PeerJoined(p)
    BY <1>8, EventTaken DEF NetTypeInv, PeerLeft
  <2> QED
    BY <2>2, <2>3, <2>4
<1>9. CASE TickEnd
  <2> SUFFICES ASSUME NEW q \in Peers PROVE Ordered(q)'
    BY DEF UpdateInv
  <2>0. Ordered(q)
    BY DEF UpdateInv
  <2>1. pc.s \in Scenes /\ SendRegistry(pc.s)
    BY <1>9 DEF TickEnd, IInv, TypeInv, Places
  <2>2. /\ RegistryPacket(pc.s) \in Registries /\ RegistryPacket(pc.s) \in Packets
        /\ wire'[q] =
             IF reg[pc.s].dirty /\ q \in inited[pc.s] /\ q \notin gone
             THEN wire[q] \o <<RegistryPacket(pc.s)>> ELSE wire[q]
    BY <2>1, RegistrySent
  <2>3. UNCHANGED <<copy, types, readies>>
    BY <1>9 DEF TickEnd, vwVars, nodes, net, world, history, client
  <2>4. \A c \in Chunks : RegistryPacket(pc.s) \notin UpdatesOf(c)
    BY <2>2, PacketKinds
  <2> QED
    BY <2>0, <2>2, <2>3, <2>4, OrderedSame, OrderedOther
<1>10. ASSUME NEW s \in Scenes, DeleteScene(s) PROVE UpdateInv'
  BY <1>10, UpdateQuiet DEF DeleteScene, vwVars, nodes, net, world, history, client
<1>11. ASSUME NEW s \in Scenes, CreateInstance(s) PROVE UpdateInv'
  <2>1. scene[s] = "none" /\ UNCHANGED <<copy, types, readies>>
        /\ wire' = [p \in Peers |-> IF p \in OnScene(s) THEN SendTo(p, InitPackets(s))
                                                        ELSE wire[p]]
    BY <1>11 DEF CreateInstance, vwVars, nodes, net, world, history, client
  <2>2. wire' = [p \in Peers |-> wire[p]]
    BY <2>1 DEF OnScene
  <2>3. UNCHANGED wire
    BY <2>2 DEF NetTypeInv
  <2> QED
    BY <2>1, <2>3, UpdateQuiet
<1>12. ASSUME NEW s \in Scenes, AddVoxelType(s) PROVE UpdateInv'
  BY <1>12, UpdateQuiet DEF AddVoxelType, vwVars, nodes, net, world, history, client
<1>13. ASSUME NEW s \in Scenes, Maintain(s) PROVE UpdateInv'
  BY <1>13, UpdateQuiet DEF Maintain, Unload, vwVars, nodes, net, world, history, client
<1>14. ASSUME NEW s \in Scenes, Tick(s) PROVE UpdateInv'
  BY <1>14, UpdateQuiet DEF Tick, vwVars, nodes, net, world, history, client
<1>15. ASSUME NEW s \in Scenes, NEW p \in Peers, Join(p, s) PROVE UpdateInv'
  BY <1>15, UpdateQuiet DEF Join, vwVars, nodes, net, world, history, client
<1>16. ASSUME NEW s \in Scenes, NEW c \in Chunks, GetVoxel(s, c) PROVE UpdateInv'
  BY <1>16, UpdateQuiet DEF GetVoxel, InBuffer, vwVars, nodes, net, world, history, client
<1>17. ASSUME NEW s \in Scenes, NEW c \in Chunks, SetVoxel(s, c) PROVE UpdateInv'
  BY <1>17, UpdateQuiet DEF SetVoxel, InBuffer, vwVars, nodes, net, world, history, client
<1>18. ASSUME NEW s \in Scenes, NEW c \in Chunks, CommitWrite(s, c) PROVE UpdateInv'
  BY <1>18, UpdateQuiet DEF CommitWrite, vwVars, nodes, net, world, history, client
<1>19. ASSUME NEW p \in Peers, Leave(p) PROVE UpdateInv'
  <2> SUFFICES ASSUME NEW q \in Peers PROVE Ordered(q)'
    BY DEF UpdateInv
  <2>0. Ordered(q)
    BY DEF UpdateInv
  <2>1. /\ UNCHANGED <<copy, types, readies>>
        /\ wire' = [wire EXCEPT ![p] = <<>>]
    BY <1>19 DEF Leave, vwVars, nodes, net, world, history, client
  <2>2. CASE q = p
    <3>1. wire'[p] = <<>>
      BY <2>1 DEF NetTypeInv
    <3>2. ~\E i \in 1..Len(wire'[p]) : TRUE
      BY <3>1
    <3> QED
      BY <2>2, <3>2 DEF Ordered
  <2>3. CASE q # p
    <3>1. wire'[q] = wire[q]
      BY <2>1, <2>3 DEF NetTypeInv
    <3> QED
      BY <2>0, <2>1, <2>3, <3>1, OrderedSame
  <2> QED
    BY <2>2, <2>3
<1>20. ASSUME NEW p \in Peers, Receive(p) PROVE UpdateInv'
  <2> SUFFICES ASSUME NEW q \in Peers PROVE Ordered(q)'
    BY DEF UpdateInv
  <2>0. Ordered(q)
    BY DEF UpdateInv
  <2>1. /\ \A o \in Peers \ {p} : /\ wire'[o] = wire[o] /\ copy'[o] = copy[o]
                                  /\ types'[o] = types[o] /\ readies'[o] = readies[o]
        /\ Len(wire'[p]) \in Nat
        /\ \A j \in 1..Len(wire'[p]) :
              wire'[p][j] = wire[p][j + 1] /\ j + 1 \in 1..Len(wire[p])
        /\ \A i \in 1..(Len(wire'[p]) + 1) :
              /\ ReadyAt(p, i + 1) => ReadyAt(p, i)'
              /\ \A c \in Chunks : \A d : CopyAt(p, c, i, d)' => CopyAt(p, c, i + 1, d)
              /\ \A t : TypesAt(p, i, t)' => TypesAt(p, i + 1, t)
    BY <1>20, ClientReceive
  <2>2. CASE q = p
    <3> SUFFICES ASSUME NEW i \in 1..Len(wire'[p]), NEW c \in Chunks,
                        wire'[p][i] \in UpdatesOf(c)
                 PROVE  /\ ReadyAt(p, i)'
                        /\ \A d : CopyAt(p, c, i, d)' => d # NoData
                        /\ \A d, t : CopyAt(p, c, i, d)' /\ TypesAt(p, i, t)' => d.t <= t
      BY <2>2 DEF Ordered
    <3>1. /\ i \in 1..(Len(wire'[p]) + 1) /\ i + 1 \in 1..Len(wire[p])
          /\ wire[p][i + 1] \in UpdatesOf(c)
      BY <2>1
    <3>2. /\ ReadyAt(p, i + 1)
          /\ \A d : CopyAt(p, c, i + 1, d) => d # NoData
          /\ \A d, t : CopyAt(p, c, i + 1, d) /\ TypesAt(p, i + 1, t) => d.t <= t
      BY <2>0, <2>2, <3>1 DEF Ordered
    <3> QED
      BY <2>1, <3>1, <3>2
  <2>3. CASE q # p
    BY <2>0, <2>1, <2>3, OrderedSame
  <2> QED
    BY <2>2, <2>3
<1>21. ASSUME NEW p \in Peers, NEW c \in Chunks, Sync(p, c) PROVE UpdateInv'
  <2> SUFFICES ASSUME NEW q \in Peers PROVE Ordered(q)'
    BY DEF UpdateInv
  <2>0. Ordered(q)
    BY DEF UpdateInv
  <2>1. /\ NodePacket(p, c) \in NodesOf(c) /\ NodePacket(p, c) \in Packets
        /\ wire' = [wire EXCEPT ![p] = wire[p] \o <<NodePacket(p, c)>>]
    BY <1>21, SyncSent
  <2>2. UNCHANGED <<copy, types, readies>>
    BY <1>21 DEF Sync, vwVars, nodes, net, world, history, client
  <2>3. wire'[q] = IF q = p THEN wire[q] \o <<NodePacket(p, c)>> ELSE wire[q]
    BY <2>1 DEF NetTypeInv
  <2>4. \A e \in Chunks : NodePacket(p, c) \notin UpdatesOf(e)
    BY <2>1, PacketKinds
  <2> QED
    BY <2>0, <2>1, <2>2, <2>3, <2>4, OrderedSame, OrderedOther
<1> QED
  BY <1>1, <1>2, <1>3, <1>4, <1>5, <1>6, <1>7, <1>8, <1>9, <1>10, <1>11,
     <1>12, <1>13, <1>14, <1>15, <1>16, <1>17, <1>18, <1>19, <1>20, <1>21
 DEF VWNext

-----------------------------------------------------------------------------
(* Meshes *)

LEMMA ShownSame ==
  ASSUME NEW p \in Peers, NEW c \in Chunks, Shown(p, c), wire'[p] = wire[p],
         copy'[p] = copy[p], mesh'[p] = mesh[p], readies'[p] = readies[p]
  PROVE  Shown(p, c)'
BY DEF Shown, ReadyAt, End

LEMMA MeshElsewhere ==
  ASSUME NetTypeInv, MeshInv, UNCHANGED <<wire, copy, mesh, readies>>,
         \A p \in Peers : p \notin gone' => p \notin gone,
         \A p \in Peers, s \in Scenes : p \notin gone' /\ peer'[p] = s /\ scene'[s] = "live"
           => Queued(Joining(p))' \/ (peer[p] = s /\ scene[s] = "live"),
         \A p \in Peers : Queued(Joining(p)) => Queued(Joining(p))',
         \A s, c : Between(s, c) => Between(s, c)',
         \A p \in Peers : Told(p) => p \in gone' \/ (Told(p)' /\ pc' = pc),
         \A p \in Peers, s \in Scenes : p \in inited[s] => p \in inited'[s]
  PROVE  MeshInv'
<1> SUFFICES ASSUME NEW p \in Peers, NEW s \in Scenes, NEW c \in Chunks,
                    p \notin gone', peer'[p] = s, scene'[s] = "live",
                    ~Queued(Joining(p))'
             PROVE  Followed(p, s, c)'
  BY DEF MeshInv, Followed
<1>1. Followed(p, s, c)
  BY DEF MeshInv
<1>2. Shown(p, c) => Shown(p, c)'
  BY ShownSame
<1> QED
  BY <1>1, <1>2 DEF Followed

LEMMA MeshQuiet ==
  ASSUME NetTypeInv, MeshInv,
         UNCHANGED <<wire, copy, mesh, readies, gone, peer, scene, evq, inited>>,
         UNCHANGED pc \/ pc.at \notin Steps
  PROVE  MeshInv'
<1>1. \A x : Queued(x)' <=> Queued(x)
  BY DEF Queued
<1>2. \A s, c : Between(s, c) => Between(s, c)'
  BY DEF Between, Steps
<1>3. \A p \in Peers : Told(p) => Told(p)' /\ pc' = pc
  BY DEF Told, Steps
<1> QED
  BY <1>1, <1>2, <1>3, MeshElsewhere

\* More packets, of which none is this node
LEMMA ShownAppend ==
  ASSUME NetTypeInv, NEW p \in Peers, NEW c \in Chunks, Shown(p, c),
         NEW ps \in Seq(Packets), wire'[p] = wire[p] \o ps,
         UNCHANGED <<copy, types, readies, mesh>>,
         \A j \in 1..Len(ps) : ps[j] \notin NodesOf(c)
  PROVE  Shown(p, c)'
<1> DEFINE n == Len(wire[p])
           k == Len(ps)
<1>1. /\ n \in Nat /\ k \in Nat /\ Len(wire'[p]) = n + k /\ End(p) = n + 1
      /\ \A j \in 1..n : wire'[p][j] = wire[p][j]
      /\ \A j \in 1..k : wire'[p][n + j] = ps[j]
      /\ \A i \in 1..End(p) : ReadyAt(p, i)' <=> ReadyAt(p, i)
      /\ NoneYet(wire[p], NodesOf(c), End(p)) => NoneYet(wire[p], NodesOf(c), End(p))'
  BY ClientAppend DEF End
<1>2. n = Len(wire[p]) /\ k = Len(ps)
  OBVIOUS
<1> HIDE DEF n, k
<1>3. \A j \in 1..(n + k) : j \in 1..n \/ (j - n \in 1..k /\ n + (j - n) = j)
  BY <1>1
<1>4. \A j \in 1..(n + k) : wire'[p][j] \in NodesOf(c) => j \in 1..n /\ wire[p][j] \in NodesOf(c)
  BY <1>1, <1>2, <1>3
<1>5. \A j \in 1..n : j \in 1..(n + k) /\ j \in 1..End(p)
  BY <1>1
<1>6. CASE \E i \in 1..n : /\ wire[p][i] \in Readies \cup UpdatesOf(c)
                           /\ \A j \in 1..n : i < j => wire[p][j] \notin NodesOf(c)
  <2>1. \E i \in 1..(n + k) :
          /\ wire'[p][i] \in Readies \cup UpdatesOf(c)
          /\ \A j \in 1..(n + k) : i < j => wire'[p][j] \notin NodesOf(c)
    BY <1>1, <1>4, <1>5, <1>6
  <2> QED
    BY <1>1, <2>1 DEF Shown
<1>7. CASE mesh[p][c] = copy[p][c] /\ NoneYet(wire[p], NodesOf(c), End(p))
  BY <1>1, <1>7 DEF Shown
<1>8. CASE \E i \in 1..n :
             /\ wire[p][i] \in NodesOf(c) /\ ReadyAt(p, i) /\ copy[p][c] = NoData
             /\ \A j \in 1..n : j # i => wire[p][j] \notin NodesOf(c)
  <2>1. \E i \in 1..(n + k) :
          /\ wire'[p][i] \in NodesOf(c) /\ ReadyAt(p, i)' /\ copy'[p][c] = NoData
          /\ \A j \in 1..(n + k) : j # i => wire'[p][j] \notin NodesOf(c)
    BY <1>1, <1>4, <1>5, <1>8
  <2> QED
    BY <1>1, <2>1 DEF Shown
<1> QED
  BY <1>2, <1>6, <1>7, <1>8 DEF Shown

\* ... and one of them makes the client update the mesh.
LEMMA ShownUpdate ==
  ASSUME NetTypeInv, NEW p \in Peers, NEW c \in Chunks,
         NEW ps \in Seq(Packets), wire'[p] = wire[p] \o ps,
         UNCHANGED <<copy, types, readies, mesh>>,
         \A j \in 1..Len(ps) : ps[j] \notin NodesOf(c),
         \E j \in 1..Len(ps) : ps[j] \in Readies \cup UpdatesOf(c)
  PROVE  Shown(p, c)'
<1> DEFINE n == Len(wire[p])
           k == Len(ps)
<1>1. /\ n \in Nat /\ k \in Nat /\ Len(wire'[p]) = n + k
      /\ \A j \in 1..k : wire'[p][n + j] = ps[j]
  BY ClientAppend
<1>2. PICK x \in 1..k : ps[x] \in Readies \cup UpdatesOf(c)
  OBVIOUS
<1>3. \A j \in 1..k : ps[j] \notin NodesOf(c)
  OBVIOUS
<1> HIDE DEF n, k
<1>4. n + x \in 1..(n + k) /\ wire'[p][n + x] \in Readies \cup UpdatesOf(c)
  <2>1. n + x \in 1..(n + k)
    BY <1>1
  <2>2. wire'[p][n + x] = ps[x]
    BY <1>1
  <2> QED
    BY <1>2, <2>1, <2>2
<1>5. ASSUME NEW j \in 1..(n + k), n + x < j PROVE wire'[p][j] \notin NodesOf(c)
  <2>1. j - n \in 1..k /\ n + (j - n) = j
    BY <1>1, <1>2, <1>5
  <2> QED
    BY <1>1, <1>3, <2>1
<1> QED
  BY <1>1, <1>4, <1>5 DEF Shown

\* A node that the client did not have
LEMMA ShownNew ==
  ASSUME NetTypeInv, NEW p \in Peers, NEW c \in Chunks, NEW m \in NodesOf(c),
         wire'[p] = wire[p] \o <<m>>, UNCHANGED <<copy, types, readies, mesh>>,
         copy[p][c] = NoData, NoneYet(wire[p], NodesOf(c), End(p)), ReadyAt(p, End(p))
  PROVE  Shown(p, c)'
<1> DEFINE ps == <<m>>
           n == Len(wire[p])
<1>1. ps \in Seq(Packets) /\ Len(ps) = 1 /\ (\A j \in 1..Len(ps) : ps[j] = m)
      /\ wire'[p] = wire[p] \o ps
  BY OnePacket, PacketKinds
<1>2. n = Len(wire[p])
  OBVIOUS
<1> HIDE DEF ps, n
<1>3. /\ n \in Nat /\ Len(wire'[p]) = n + Len(ps)
      /\ \A j \in 1..n : wire'[p][j] = wire[p][j]
      /\ \A j \in 1..Len(ps) : wire'[p][n + j] = ps[j]
      /\ \A i \in 1..End(p) : ReadyAt(p, i)' <=> ReadyAt(p, i)
  BY <1>1, <1>2, ClientAppend
<1>4. PICK z : z = n + 1
  OBVIOUS
<1>5. /\ z \in 1..z /\ Len(wire'[p]) = z /\ wire'[p][z] = m /\ End(p) = z
      /\ \A j \in 1..z : j # z => j \in 1..n /\ j < End(p)
  BY <1>1, <1>2, <1>3, <1>4 DEF End
<1>6. ReadyAt(p, z)'
  BY <1>3, <1>5
<1>7. \A j \in 1..z : j # z => wire'[p][j] \notin NodesOf(c)
  BY <1>2, <1>3, <1>5 DEF NoneYet
<1>8. \E i \in 1..Len(wire'[p]) :
        /\ wire'[p][i] \in NodesOf(c) /\ ReadyAt(p, i)' /\ copy'[p][c] = NoData
        /\ \A j \in 1..Len(wire'[p]) : j # i => wire'[p][j] \notin NodesOf(c)
  BY <1>5, <1>6, <1>7
<1> QED
  BY <1>8 DEF Shown

\* What the client does with the packet
LEMMA ShownReceive ==
  ASSUME NetTypeInv, NEW p \in Peers, Receive(p), Ordered(p),
         NEW c \in Chunks, Shown(p, c)
  PROVE  Shown(p, c)'
<1> DEFINE w == wire[p]
           v == wire'[p]
           m == w[1]
           n == Len(v)
<1>1. /\ v \in Seq(Packets) /\ n \in Nat /\ Len(w) = n + 1 /\ m \in Packets
      /\ Head(w) = m
      /\ \A j \in 1..n : v[j] = w[j + 1] /\ j + 1 \in 1..(n + 1)
      /\ \A j \in 1..(n + 1) : j # 1 => j - 1 \in 1..n /\ v[j - 1] = w[j]
      /\ copy'[p][c] = IF m \in NodesOf(c) THEN m.d ELSE copy[p][c]
      /\ \A i \in 1..(n + 1) : ReadyAt(p, i + 1) => ReadyAt(p, i)'
      /\ NoneYet(wire[p], NodesOf(c), End(p)) =>
           NoneYet(wire[p], NodesOf(c), End(p))' /\ m \notin NodesOf(c)
  <2>1. /\ v \in Seq(Packets) /\ n \in Nat /\ Len(w) = n + 1 /\ m \in Packets
        /\ Head(w) = m
        /\ \A j \in 1..n : v[j] = w[j + 1] /\ j + 1 \in 1..Len(w)
        /\ \A j \in 1..Len(w) : j # 1 => j - 1 \in 1..n /\ v[j - 1] = w[j]
    BY ClientReceive
  <2>2. copy'[p][c] = IF m \in NodesOf(c) THEN m.d ELSE copy[p][c]
    BY ClientReceive
  <2>3. \A i \in 1..(n + 1) : ReadyAt(p, i + 1) => ReadyAt(p, i)'
    BY ClientReceive
  <2>4. NoneYet(wire[p], NodesOf(c), End(p)) =>
          NoneYet(wire[p], NodesOf(c), End(p))' /\ m \notin NodesOf(c)
    BY ClientReceive
  <2> HIDE DEF w, v, m, n
  <2> QED
    BY <2>1, <2>2, <2>3, <2>4
<1>2. mesh' = [mesh EXCEPT ![p] = [e \in Chunks |->
       IF \/ m.k = "ready"
          \/ /\ readies[p] > 0 /\ m.k \in {"node", "updated"} /\ m.c = e
             /\ m.k = "node" => copy[p][e] = NoData
       THEN copy'[p][e] ELSE mesh[p][e]]]
  BY <1>1 DEF Receive
<1>3. mesh'[p][c] =
       IF \/ m.k = "ready"
          \/ /\ readies[p] > 0 /\ m.k \in {"node", "updated"} /\ m.c = c
             /\ m.k = "node" => copy[p][c] = NoData
       THEN copy'[p][c] ELSE mesh[p][c]
  <2> HIDE DEF w, v, m, n
  <2> QED
    BY <1>2 DEF NetTypeInv
<1>4. /\ m \in NodesOf(c) => m.k = "node" /\ m.c = c
      /\ m \in UpdatesOf(c) => m.k = "updated" /\ m.c = c
      /\ m \in Readies => m.k = "ready"
  BY <1>1, PacketCases
<1>5. w = wire[p] /\ v = wire'[p] /\ m = wire[p][1] /\ m = w[1] /\ n = Len(wire'[p])
  OBVIOUS
<1>6. /\ ReadyAt(p, 1) => readies[p] > 0
      /\ m \in UpdatesOf(c) => ReadyAt(p, 1)
  <2>1. 1 \in 1..Len(wire[p])
    BY <1>1
  <2>2. NoneYet(wire[p], Readies, 1)
    BY <1>1 DEF NoneYet
  <2> QED
    BY <2>1, <2>2 DEF Ordered, ReadyAt
<1>7. End(p) = n + 2 /\ End(p)' = n + 1
  BY <1>1 DEF End
<1> HIDE DEF w, v, m, n
<1>8. CASE mesh[p][c] = copy[p][c] /\ NoneYet(wire[p], NodesOf(c), End(p))
  BY <1>1, <1>3, <1>8 DEF Shown
<1>9. ASSUME NEW i \in 1..(n + 1), w[i] \in Readies \cup UpdatesOf(c),
             \A j \in 1..(n + 1) : i < j => w[j] \notin NodesOf(c)
      PROVE  Shown(p, c)'
  <2>1. CASE i # 1
    <3>1. i - 1 \in 1..n /\ v[i - 1] \in Readies \cup UpdatesOf(c)
      BY <1>1, <1>9, <2>1
    <3>2. ASSUME NEW j \in 1..n, i - 1 < j PROVE v[j] \notin NodesOf(c)
      <4>1. j + 1 \in 1..(n + 1) /\ i < j + 1
        BY <1>1, <3>1, <3>2
      <4> QED
        BY <1>1, <1>9, <4>1
    <3> QED
      BY <1>5, <3>1, <3>2 DEF Shown
  <2>2. CASE i = 1
    <3>1. m \in Readies \cup UpdatesOf(c) /\ m \notin NodesOf(c)
      BY <1>5, <1>9, <2>2, PacketKinds
    <3>2. mesh'[p][c] = copy'[p][c]
      BY <1>3, <1>4, <1>6, <3>1
    <3>3. ASSUME NEW j \in 1..n PROVE v[j] \notin NodesOf(c)
      <4>1. j + 1 \in 1..(n + 1) /\ i < j + 1
        BY <1>1, <2>2
      <4> QED
        BY <1>1, <1>9, <4>1
    <3>4. NoneYet(wire[p], NodesOf(c), End(p))'
      BY <1>5, <3>3 DEF NoneYet
    <3> QED
      BY <3>2, <3>4 DEF Shown
  <2> QED
    BY <2>1, <2>2
<1>10. ASSUME NEW i \in 1..(n + 1), w[i] \in NodesOf(c), ReadyAt(p, i),
              copy[p][c] = NoData,
              \A j \in 1..(n + 1) : j # i => w[j] \notin NodesOf(c)
       PROVE  Shown(p, c)'
  <2>1. CASE i # 1
    <3>1. i - 1 \in 1..n /\ i - 1 \in 1..(n + 1) /\ v[i - 1] \in NodesOf(c)
      BY <1>1, <1>10, <2>1
    <3>2. ASSUME NEW j \in 1..n, j # i - 1 PROVE v[j] \notin NodesOf(c)
      <4>1. j + 1 \in 1..(n + 1) /\ j + 1 # i
        BY <1>1, <3>1, <3>2
      <4> QED
        BY <1>1, <1>10, <4>1
    <3>3. (i - 1) + 1 = i
      OBVIOUS
    <3>4. ReadyAt(p, i - 1)'
      BY <1>1, <1>10, <3>1, <3>3
    <3>5. m \notin NodesOf(c) /\ copy'[p][c] = NoData
      <4>1. 1 \in 1..(n + 1)
        BY <1>1
      <4> QED
        BY <1>1, <1>5, <1>10, <2>1, <4>1
    <3> QED
      BY <1>5, <3>1, <3>2, <3>4, <3>5 DEF Shown
  <2>2. CASE i = 1
    <3>1. m \in NodesOf(c) /\ readies[p] > 0
      BY <1>5, <1>6, <1>10, <2>2
    <3>2. mesh'[p][c] = copy'[p][c]
      BY <1>3, <1>4, <1>10, <3>1
    <3>3. ASSUME NEW j \in 1..n PROVE v[j] \notin NodesOf(c)
      <4>1. j + 1 \in 1..(n + 1) /\ j + 1 # i
        BY <1>1, <2>2
      <4> QED
        BY <1>1, <1>10, <4>1
    <3>4. NoneYet(wire[p], NodesOf(c), End(p))'
      BY <1>5, <3>3 DEF NoneYet
    <3> QED
      BY <3>2, <3>4 DEF Shown
  <2> QED
    BY <2>1, <2>2
<1> QED
  BY <1>1, <1>5, <1>8, <1>9, <1>10 DEF Shown

LEMMA ShownOther ==
  ASSUME NetTypeInv, NEW p \in Peers, NEW c \in Chunks, Shown(p, c),
         NEW m \in Packets, m \notin NodesOf(c), wire'[p] = wire[p] \o <<m>>,
         UNCHANGED <<copy, types, readies, mesh>>
  PROVE  Shown(p, c)'
<1>1. <<m>> \in Seq(Packets) /\ \A j \in 1..Len(<<m>>) : <<m>>[j] = m
  BY OnePacket
<1> QED
  BY <1>1, ShownAppend

\* Meshes are updated after their nodes.
LEMMA MeshStep ==
  ASSUME IInv, NetTypeInv, SceneInv, JoinInv, SentInv, CopyInv,
     RegistryInv, UpdateInv, MeshInv, [VWNext]_vwVars
  PROVE  MeshInv'
<1>1. CASE UNCHANGED vwVars
  BY <1>1, MeshQuiet DEF vwVars, nodes, net, world, history, client, Steps, Idle
<1>2. CASE Access
  BY <1>2, MeshQuiet DEF Access, vwVars, nodes, net, world, history, client, Steps, Idle
<1>3. CASE EndAccess
  BY <1>3, MeshQuiet DEF EndAccess, vwVars, nodes, net, world, history, client, Steps, Idle
<1>4. CASE EndCommit
  BY <1>4, MeshQuiet DEF EndCommit, vwVars, nodes, net, world, history, client, Steps, Idle
<1>5. CASE CommitRegistry
  <2> SUFFICES ASSUME NEW q \in Peers, NEW x \in Scenes, NEW e \in Chunks,
                      q \notin gone', peer'[q] = x, scene'[x] = "live"
               PROVE  Followed(q, x, e)'
    BY DEF MeshInv
  <2>1. pc.s \in Scenes /\ SendRegistry(pc.s)
    BY <1>5 DEF CommitRegistry, IInv, TypeInv, Places
  <2>2. /\ RegistryPacket(pc.s) \in Registries /\ RegistryPacket(pc.s) \in Packets
        /\ wire'[q] =
             IF reg[pc.s].dirty /\ q \in inited[pc.s] /\ q \notin gone
             THEN wire[q] \o <<RegistryPacket(pc.s)>> ELSE wire[q]
    BY <2>1, RegistrySent
  <2>3. UNCHANGED <<copy, types, readies, mesh, gone, peer, scene, evq, inited>>
    BY <1>5 DEF CommitRegistry, vwVars, nodes, net, world, history, client
  <2>4. RegistryPacket(pc.s) \notin NodesOf(e)
    BY <2>2, PacketKinds
  <2>5. Shown(q, e) => Shown(q, e)'
    BY <2>2, <2>3, <2>4, ShownSame, ShownOther
  <2>6. Queued(Joining(q)) => Queued(Joining(q))'
    BY <2>3 DEF Queued
  <2>7. ~Told(q)
    BY <1>5 DEF CommitRegistry, Told
  <2>8. Between(x, e) => Between(x, e)'
    <3>1. /\ pc.at = "registry" /\ pc' = [pc EXCEPT !.at = "sync"] /\ pc \in Places
      BY <1>5 DEF CommitRegistry, IInv, TypeInv
    <3>2. pc'.at = "sync" /\ pc'.s = pc.s /\ pc'.c = pc.c
      BY <3>1 DEF Places
    <3> QED
      BY <3>2 DEF Between
  <2>9. Followed(q, x, e)
    BY <2>3 DEF MeshInv
  <2> QED
    BY <2>5, <2>6, <2>7, <2>8, <2>9 DEF Followed
<1>6. CASE CommitSync
  <2> SUFFICES ASSUME NEW q \in Peers, NEW x \in Scenes, NEW e \in Chunks,
                      q \notin gone', peer'[q] = x, scene'[x] = "live"
               PROVE  Followed(q, x, e)'
    BY DEF MeshInv
  <2>1. /\ pc.at = "sync"
        /\ pc.c \in Chunks /\ pc' = [at |-> "notify", s |-> pc.s, c |-> pc.c,
                                        told |-> OnScene(pc.s)]
        /\ q \in OnScene(pc.s) <=> q \notin gone /\ peer[q] = pc.s /\ scene[pc.s] = "live"
        /\ q \in OnScene(pc.s) /\ Stale(q, pc.c) =>
             /\ NodePacket(q, pc.c) \in NodesOf(pc.c)
             /\ NodePacket(q, pc.c) \in Packets
             /\ wire'[q] = wire[q] \o <<NodePacket(q, pc.c)>>
        /\ ~(q \in OnScene(pc.s) /\ Stale(q, pc.c)) =>
             wire'[q] = wire[q] /\ sent'[q] = sent[q]
    BY <1>6, CommitSyncSent
  <2>2. UNCHANGED <<copy, types, readies, mesh, peer, gone, scene, inited, evq>>
    BY <1>6 DEF CommitSync, vwVars, nodes, net, world, history, client
  <2>3. Queued(Joining(q)) => Queued(Joining(q))'
    BY <2>2 DEF Queued
  <2>4. CASE x = pc.s /\ e = pc.c
    <3>1. Queued(Joining(q)) \/ q \in inited[x]
      BY <2>2 DEF JoinInv, Awaited
    <3>2. Told(q)' /\ pc'.s = x /\ pc'.c = e
      BY <2>1, <2>2, <2>4 DEF Told
    <3> QED
      BY <2>2, <2>3, <3>1, <3>2 DEF Followed
  <2>5. CASE ~(x = pc.s /\ e = pc.c)
    <3>1. ~Between(x, e) /\ ~Told(q)
      BY <2>1, <2>5 DEF Between, Told
    <3>2. Queued(Joining(q)) \/ Shown(q, e)
      BY <2>2, <3>1 DEF MeshInv, Followed
    <3>3. CASE q \in OnScene(pc.s) /\ Stale(q, pc.c)
      <4>1. e # pc.c
        BY <2>1, <2>2, <2>5, <3>3
      <4>2. NodePacket(q, pc.c) \notin NodesOf(e)
        BY <2>1, <3>3, <4>1, PacketKinds
      <4>3. Shown(q, e) => Shown(q, e)'
        BY <2>1, <2>2, <3>3, <4>2, ShownOther
      <4> QED
        BY <2>3, <3>2, <4>3 DEF Followed
    <3>4. CASE ~(q \in OnScene(pc.s) /\ Stale(q, pc.c))
      <4>1. Shown(q, e) => Shown(q, e)'
        BY <2>1, <2>2, <3>4, ShownSame
      <4> QED
        BY <2>3, <3>2, <4>1 DEF Followed
    <3> QED
      BY <3>3, <3>4
  <2> QED
    BY <2>4, <2>5
<1>7. CASE CommitNotify
  <2> SUFFICES ASSUME NEW q \in Peers, NEW x \in Scenes, NEW e \in Chunks,
                      q \notin gone', peer'[q] = x, scene'[x] = "live"
               PROVE  Followed(q, x, e)'
    BY DEF MeshInv
  <2>1. /\ pc.at = "notify" /\ pc.c \in Chunks
        /\ UpdatePacket(pc.c) \in UpdatesOf(pc.c) /\ UpdatePacket(pc.c) \in Packets
        /\ wire'[q] =
             IF q \in pc.told /\ q \in inited[pc.s] /\ q \notin gone
             THEN wire[q] \o <<UpdatePacket(pc.c)>> ELSE wire[q]
    BY <1>7, NotifySent
  <2>2. UNCHANGED <<copy, types, readies, mesh, peer, gone, scene, inited, evq>>
    BY <1>7 DEF CommitNotify, vwVars, nodes, net, world, history, client
  <2>3. UpdatePacket(pc.c) \notin NodesOf(e)
    BY <2>1, PacketKinds
  <2>4. Shown(q, e) => Shown(q, e)'
    BY <2>1, <2>2, <2>3, ShownSame, ShownOther
  <2>5. Queued(Joining(q)) => Queued(Joining(q))'
    BY <2>2 DEF Queued
  <2>6. ~Between(x, e)
    BY <2>1 DEF Between
  <2>7. Told(q) /\ pc.s = x /\ pc.c = e /\ q \in inited[x] => Shown(q, e)'
    <3> SUFFICES ASSUME Told(q), pc.s = x, pc.c = e, q \in inited[x]
                 PROVE  Shown(q, e)'
      OBVIOUS
    <3> DEFINE ps == <<UpdatePacket(pc.c)>>
    <3>1. /\ ps \in Seq(Packets) /\ 1 \in 1..Len(ps)
          /\ \A j \in 1..Len(ps) : ps[j] = UpdatePacket(pc.c)
          /\ wire'[q] = wire[q] \o ps
      BY <2>1, OnePacket DEF Told
    <3> HIDE DEF ps
    <3>2. /\ \A j \in 1..Len(ps) : ps[j] \notin NodesOf(e)
          /\ \E j \in 1..Len(ps) : ps[j] \in Readies \cup UpdatesOf(e)
      BY <2>1, <2>3, <3>1
    <3> QED
      BY <2>2, <3>1, <3>2, ShownUpdate
  <2>8. Followed(q, x, e)
    BY <2>2 DEF MeshInv
  <2> QED
    BY <2>4, <2>5, <2>6, <2>7, <2>8 DEF Followed
<1>8. CASE HandleEvent
  <2> SUFFICES ASSUME NEW q \in Peers, NEW x \in Scenes, NEW e \in Chunks,
                      q \notin gone', peer'[q] = x, scene'[x] = "live"
               PROVE  Followed(q, x, e)'
    BY DEF MeshInv
  <2>1. /\ UNCHANGED <<gone, peer, scene, pc, copy, types, readies, mesh>> /\ pc = Idle
        /\ evq \in Seq(EventsOf) /\ evq # <<>> /\ evq' = Tail(evq)
    BY <1>8 DEF HandleEvent, client, net, nodes, NetTypeInv
  <2>2. \A i : Queued(i) /\ i # Head(evq) => Queued(i)'
    BY <2>1, QueuedTail
  <2>3. ~Between(x, e) /\ ~Told(q)
    BY <2>1 DEF Between, Told, Idle
  <2>4. Queued(Joining(q)) \/ Shown(q, e)
    BY <2>1, <2>3 DEF MeshInv, Followed
  <2>5. ASSUME Head(evq) # Joining(q), UNCHANGED wire PROVE Followed(q, x, e)'
    BY <2>1, <2>2, <2>4, <2>5, ShownSame DEF Followed
  <2>6. ASSUME NEW p \in Peers, PeerJoined(p), UNCHANGED inst, Head(evq) = Joining(p)
        PROVE  Followed(q, x, e)'
    <3>1. PICK ps \in Seq(Packets) :
           /\ wire' = [wire EXCEPT ![p] = IF p \in gone THEN wire[p] ELSE wire[p] \o ps]
           /\ \A j \in 1..Len(ps) :
                \/ ps[j] \in Readies
                \/ ps[j] \in Registries /\ \E s \in inst : ps[j].t = reg[s].n
           /\ inst # {} => /\ \E j \in 1..Len(ps) : ps[j] \in Readies
                           /\ \E j \in 1..Len(ps) : ps[j] \in Registries
      BY <2>6, JoinSent
    <3>2. wire'[q] = IF q = p THEN wire[q] \o ps ELSE wire[q]
      BY <2>1, <3>1 DEF NetTypeInv
    <3>3. CASE q = p
      <4>1. \A j \in 1..Len(ps) : ps[j] \notin NodesOf(e)
        BY <3>1, PacketKinds
      <4>2. inst # {}
        BY <2>1 DEF SceneInv
      <4>3. \E j \in 1..Len(ps) : ps[j] \in Readies \cup UpdatesOf(e)
        BY <3>1, <4>2
      <4>4. Shown(q, e)'
        BY <2>1, <3>2, <3>3, <4>1, <4>3, ShownUpdate
      <4> QED
        BY <4>4 DEF Followed
    <3>4. CASE q # p
      <4>1. Joining(q) # Head(evq)
        BY <2>6, <3>4, EventsDiffer
      <4>2. Shown(q, e) => Shown(q, e)'
        BY <2>1, <3>2, <3>4, ShownSame
      <4> QED
        BY <2>2, <2>4, <4>1, <4>2 DEF Followed
    <3> QED
      BY <3>3, <3>4
  <2>7. \/ \E s \in Scenes : Head(evq) = Deletion(s) /\ UNCHANGED wire
        \/ \E p \in Peers : /\ PeerJoined(p) /\ UNCHANGED inst
                            /\ Head(evq) = Joining(p)
        \/ \E p \in Peers : Head(evq) = Leaving(p) /\ UNCHANGED wire
    BY <1>8, <2>1, EventTaken DEF PeerLeft
  <2> QED
    BY <2>5, <2>6, <2>7, EventsDiffer
<1>9. CASE TickEnd
  <2> SUFFICES ASSUME NEW q \in Peers, NEW x \in Scenes, NEW e \in Chunks,
                      q \notin gone', peer'[q] = x, scene'[x] = "live"
               PROVE  Followed(q, x, e)'
    BY DEF MeshInv
  <2>1. pc.s \in Scenes /\ SendRegistry(pc.s)
    BY <1>9 DEF TickEnd, IInv, TypeInv, Places
  <2>2. /\ RegistryPacket(pc.s) \in Registries /\ RegistryPacket(pc.s) \in Packets
        /\ wire'[q] =
             IF reg[pc.s].dirty /\ q \in inited[pc.s] /\ q \notin gone
             THEN wire[q] \o <<RegistryPacket(pc.s)>> ELSE wire[q]
    BY <2>1, RegistrySent
  <2>3. UNCHANGED <<copy, types, readies, mesh, gone, peer, scene, evq, inited>>
    BY <1>9 DEF TickEnd, vwVars, nodes, net, world, history, client
  <2>4. RegistryPacket(pc.s) \notin NodesOf(e)
    BY <2>2, PacketKinds
  <2>5. Shown(q, e) => Shown(q, e)'
    BY <2>2, <2>3, <2>4, ShownSame, ShownOther
  <2>6. Queued(Joining(q)) => Queued(Joining(q))'
    BY <2>3 DEF Queued
  <2>7. ~Told(q)
    BY <1>9 DEF TickEnd, Told
  <2>8. Between(x, e) => Between(x, e)'
    BY <1>9 DEF TickEnd, Between
  <2>9. Followed(q, x, e)
    BY <2>3 DEF MeshInv
  <2> QED
    BY <2>5, <2>6, <2>7, <2>8, <2>9 DEF Followed
<1>10. ASSUME NEW s \in Scenes, DeleteScene(s) PROVE MeshInv'
  <2>1. /\ evq' = Append(evq, Deletion(s)) /\ Deletion(s) \in EventsOf
        /\ UNCHANGED <<wire, copy, mesh, readies, inited, pc>>
    BY <1>10 DEF DeleteScene, Deletion, EventsOf, vwVars, nodes, net, world, history, client
  <2>2. \A i : Queued(i)' <=> Queued(i) \/ i = Deletion(s)
    BY <2>1, QueuedAppend DEF NetTypeInv
  <2>3. UNCHANGED <<peer, gone>> /\ scene' = [scene EXCEPT ![s] = "deleted"]
    BY <1>10 DEF DeleteScene, vwVars, nodes, net, world, history, client
  <2>4. \A x \in Scenes : scene'[x] = "live" => scene[x] = "live"
    BY <2>3 DEF IInv, TypeInv
  <2>5. /\ \A x, c : Between(x, c) => Between(x, c)'
        /\ \A p \in Peers : Told(p) => Told(p)' /\ pc' = pc
    BY <2>1, <2>3 DEF Between, Told
  <2> QED
    BY <2>1, <2>2, <2>3, <2>4, <2>5, MeshElsewhere
<1>11. ASSUME NEW s \in Scenes, CreateInstance(s) PROVE MeshInv'
  <2>1. /\ UNCHANGED <<copy, mesh, readies, gone, peer, pc, evq>>
        /\ scene' = [scene EXCEPT ![s] = "live"] /\ scene[s] = "none"
        /\ inited' = [inited EXCEPT ![s] = OnScene(s)] /\ s \notin inst
        /\ wire' = [p \in Peers |-> IF p \in OnScene(s) THEN SendTo(p, InitPackets(s))
                                                        ELSE wire[p]]
    BY <1>11 DEF CreateInstance, vwVars, nodes, net, world, history, client
  <2>2. wire' = [p \in Peers |-> wire[p]]
    BY <2>1 DEF OnScene
  <2>3. UNCHANGED wire
    BY <2>2 DEF NetTypeInv
  <2>4. \A p \in Peers : peer[p] # s
    BY <2>1 DEF JoinInv, Known, Scenes
  <2>5. \A o \in Scenes : scene'[o] = "live" => o = s \/ scene[o] = "live"
    BY <2>1 DEF IInv, TypeInv
  <2>6. \A p \in Peers, o \in Scenes : p \in inited[o] => p \in inited'[o]
    BY <2>1 DEF NetTypeInv, SceneInv
  <2>7. \A y : Queued(y)' <=> Queued(y)
    BY <2>1 DEF Queued
  <2>8. /\ \A o, c : Between(o, c) => Between(o, c)'
        /\ \A p \in Peers : Told(p) => Told(p)' /\ pc' = pc
    BY <2>1 DEF Between, Told
  <2> QED
    BY <2>1, <2>3, <2>4, <2>5, <2>6, <2>7, <2>8, MeshElsewhere
<1>12. ASSUME NEW s \in Scenes, AddVoxelType(s) PROVE MeshInv'
  BY <1>12, MeshQuiet DEF AddVoxelType, vwVars, nodes, net, world, history, client, Steps, Idle
<1>13. ASSUME NEW s \in Scenes, Maintain(s) PROVE MeshInv'
  BY <1>13, MeshQuiet DEF Maintain, Unload, vwVars, nodes, net, world, history, client, Steps, Idle
<1>14. ASSUME NEW s \in Scenes, Tick(s) PROVE MeshInv'
  BY <1>14, MeshQuiet DEF Tick, vwVars, nodes, net, world, history, client, Steps, Idle
<1>15. ASSUME NEW s \in Scenes, NEW p \in Peers, Join(p, s) PROVE MeshInv'
  <2>1. /\ evq' = Append(evq, Joining(p)) /\ Joining(p) \in EventsOf
        /\ UNCHANGED <<wire, copy, mesh, readies, inited, pc>>
    BY <1>15 DEF Join, Joining, EventsOf, vwVars, nodes, net, world, history, client
  <2>2. \A i : Queued(i)' <=> Queued(i) \/ i = Joining(p)
    BY <2>1, QueuedAppend DEF NetTypeInv
  <2>3. UNCHANGED <<scene, gone>> /\ peer' = [peer EXCEPT ![p] = s]
    BY <1>15 DEF Join, vwVars, nodes, net, world, history, client
  <2>4. \A q \in Peers : q = p \/ peer'[q] = peer[q]
    BY <2>3 DEF NetTypeInv
  <2>5. /\ \A x, c : Between(x, c) => Between(x, c)'
        /\ \A q \in Peers : Told(q) => Told(q)' /\ pc' = pc
    BY <2>1, <2>3 DEF Between, Told
  <2> QED
    BY <2>1, <2>2, <2>3, <2>4, <2>5, MeshElsewhere
<1>16. ASSUME NEW s \in Scenes, NEW c \in Chunks, GetVoxel(s, c) PROVE MeshInv'
  BY <1>16, MeshQuiet
  DEF GetVoxel, InBuffer, vwVars, nodes, net, world, history, client, Steps, Idle
<1>17. ASSUME NEW s \in Scenes, NEW c \in Chunks, SetVoxel(s, c) PROVE MeshInv'
  BY <1>17, MeshQuiet
  DEF SetVoxel, InBuffer, vwVars, nodes, net, world, history, client, Steps, Idle
<1>18. ASSUME NEW s \in Scenes, NEW c \in Chunks, CommitWrite(s, c) PROVE MeshInv'
  <2>1. /\ UNCHANGED <<wire, copy, mesh, readies, gone, peer, scene, evq, inited>>
        /\ pc.at = "commit"
    BY <1>18 DEF CommitWrite, vwVars, nodes, net, world, history, client
  <2> QED
    BY <2>1, MeshQuiet DEF Steps
<1>19. ASSUME NEW p \in Peers, Leave(p) PROVE MeshInv'
  <2> SUFFICES ASSUME NEW q \in Peers, NEW x \in Scenes, NEW e \in Chunks,
                      q \notin gone', peer'[q] = x, scene'[x] = "live"
               PROVE  Followed(q, x, e)'
    BY DEF MeshInv
  <2>1. /\ evq' = Append(evq, Leaving(p)) /\ Leaving(p) \in EventsOf
        /\ UNCHANGED <<copy, mesh, readies, inited, pc, peer, scene>>
        /\ gone' = gone \cup {p} /\ wire' = [wire EXCEPT ![p] = <<>>]
    BY <1>19 DEF Leave, Leaving, EventsOf, vwVars, nodes, net, world, history, client
  <2>2. Queued(Joining(q))' <=> Queued(Joining(q))
    BY <2>1, QueuedAppend, EventsDiffer DEF NetTypeInv
  <2>3. q # p /\ q \notin gone /\ wire'[q] = wire[q]
    BY <2>1 DEF NetTypeInv
  <2>4. Followed(q, x, e)
    BY <2>1, <2>3 DEF MeshInv
  <2>5. Shown(q, e) => Shown(q, e)'
    BY <2>1, <2>3, ShownSame
  <2>6. /\ Between(x, e)' <=> Between(x, e)
        /\ Told(q)' <=> Told(q)
    BY <2>1, <2>3 DEF Between, Told
  <2> QED
    BY <2>1, <2>2, <2>4, <2>5, <2>6 DEF Followed
<1>20. ASSUME NEW p \in Peers, Receive(p) PROVE MeshInv'
  <2> SUFFICES ASSUME NEW q \in Peers, NEW x \in Scenes, NEW e \in Chunks,
                      q \notin gone', peer'[q] = x, scene'[x] = "live"
               PROVE  Followed(q, x, e)'
    BY DEF MeshInv
  <2>1. UNCHANGED <<peer, gone, scene, inited, evq, pc>>
    BY <1>20 DEF Receive, vwVars, nodes, net, world, history, client
  <2>2. \A o \in Peers \ {p} : /\ wire'[o] = wire[o] /\ copy'[o] = copy[o]
                              /\ mesh'[o] = mesh[o] /\ readies'[o] = readies[o]
    BY <1>20, ClientReceive
  <2>3. Shown(q, e) => Shown(q, e)'
    <3>1. CASE q = p
      BY <1>20, <3>1, ShownReceive DEF UpdateInv
    <3>2. CASE q # p
      BY <2>2, <3>2, ShownSame
    <3> QED
      BY <3>1, <3>2
  <2>4. /\ Queued(Joining(q)) => Queued(Joining(q))'
        /\ Between(x, e) => Between(x, e)'
        /\ Told(q) /\ pc.s = x /\ pc.c = e /\ q \in inited[x] =>
             (Told(q) /\ pc.s = x /\ pc.c = e /\ q \in inited[x])'
    BY <2>1 DEF Queued, Between, Told
  <2>5. Followed(q, x, e)
    BY <2>1 DEF MeshInv
  <2> QED
    BY <2>3, <2>4, <2>5 DEF Followed
<1>21. ASSUME NEW p \in Peers, NEW c \in Chunks, Sync(p, c) PROVE MeshInv'
  <2> SUFFICES ASSUME NEW q \in Peers, NEW x \in Scenes, NEW e \in Chunks,
                      q \notin gone', peer'[q] = x, scene'[x] = "live"
               PROVE  Followed(q, x, e)'
    BY DEF MeshInv
  <2>1. /\ p \notin gone /\ peer[p] \in Scenes /\ scene[peer[p]] = "live"
        /\ Stale(p, c)
        /\ NodePacket(p, c) \in NodesOf(c) /\ NodePacket(p, c) \in Packets
        /\ wire' = [wire EXCEPT ![p] = wire[p] \o <<NodePacket(p, c)>>]
    BY <1>21, SyncSent
  <2>2. UNCHANGED <<copy, types, readies, mesh, peer, gone, scene, inited, evq, pc>>
    BY <1>21 DEF Sync, vwVars, nodes, net, world, history, client
  <2>3. wire'[q] = IF q = p THEN wire[q] \o <<NodePacket(p, c)>> ELSE wire[q]
    BY <2>1 DEF NetTypeInv
  <2>4. /\ Queued(Joining(q)) => Queued(Joining(q))'
        /\ Between(x, e) => Between(x, e)'
        /\ Told(q) /\ pc.s = x /\ pc.c = e /\ q \in inited[x] =>
             (Told(q) /\ pc.s = x /\ pc.c = e /\ q \in inited[x])'
    BY <2>2 DEF Queued, Between, Told
  <2>5. Followed(q, x, e)
    BY <2>2 DEF MeshInv
  <2>6. CASE q = p /\ e = c
    <3>1. CASE sent[p][c] = NoData
      <4>1. copy[p][c] = NoData /\ NoneYet(wire[p], NodesOf(c), End(p))
        BY <2>1, <3>1 DEF CopyInv, Arrives
      <4>2. Queued(Joining(p)) \/ p \in inited[x]
        BY <2>2, <2>6 DEF JoinInv, Awaited
      <4>3. p \in inited[x] => ReadyAt(p, End(p))
        BY <2>1, <2>2, <2>6 DEF RegistryInv, Registered, SceneInv
      <4>4. p \in inited[x] => Shown(p, c)'
        BY <2>1, <2>2, <2>3, <2>6, <4>1, <4>3, ShownNew
      <4> QED
        BY <2>4, <2>6, <4>2, <4>4 DEF Followed
    <3>2. CASE sent[p][c] # NoData
      <4>1. peer[p] = x /\ x # 0
        BY <2>2, <2>6 DEF Scenes
      <4>2. Between(x, c)
        BY <2>1, <3>2, <4>1 DEF SentInv, Sent
      <4> QED
        BY <2>4, <2>6, <4>2 DEF Followed
    <3> QED
      BY <3>1, <3>2
  <2>7. CASE ~(q = p /\ e = c)
    <3>1. Shown(q, e) => Shown(q, e)'
      <4>1. CASE q = p
        <5>1. NodePacket(p, c) \notin NodesOf(e)
          BY <2>1, <2>7, <4>1, PacketKinds
        <5> QED
          BY <2>1, <2>2, <2>3, <4>1, <5>1, ShownOther
      <4>2. CASE q # p
        BY <2>2, <2>3, <4>2, ShownSame
      <4> QED
        BY <4>1, <4>2
    <3> QED
      BY <2>4, <2>5, <3>1 DEF Followed
  <2> QED
    BY <2>6, <2>7
<1> QED
  BY <1>1, <1>2, <1>3, <1>4, <1>5, <1>6, <1>7, <1>8, <1>9, <1>10, <1>11,
     <1>12, <1>13, <1>14, <1>15, <1>16, <1>17, <1>18, <1>19, <1>20, <1>21
 DEF VWNext

-----------------------------------------------------------------------------
(* The theorems *)

\* What a callback set stays in the world until its dirty buffer is dropped:
\* set_voxel(), commit() and unload_old_buffers() together lose nothing else.
THEOREM WritesAreKept == VWSpec => []WritesSurvive
<1>1. IInv => WritesSurvive
  BY DEF IInv, TypeInv, BufferInv, VoxelInv, WritesSurvive
<1> QED
  BY Invariance, <1>1, PTL

\* commit_chunk_buffer() and on_tick() leave no collision shape behind.
THEOREM ShapesFollowVoxels == VWSpec => []BoxesFollow
<1>1. IInv => BoxesFollow
  <2> SUFFICES ASSUME IInv, NEW s \in inst, NEW c \in Chunks,
                      scene[s] = "live", boxes[s][c] # data[s][c].v
               PROVE  c \in physics[s] \/ buf[s][c].dirty
    BY DEF BoxesFollow
  <2> QED
    BY DEF IInv, CommitInv, ShapeInv, InHand
<1> QED
  BY Invariance, <1>1, PTL

LEMMA NInitial == VWInit => NInv
<1> SUFFICES ASSUME VWInit PROVE NInv
  OBVIOUS
<1>1. /\ \A p \in Peers : wire[p] = <<>> /\ peer[p] = 0 /\ types[p] = 0 /\ readies[p] = 0
      /\ \A p \in Peers, c \in Chunks :
           sent[p][c] = NoData /\ copy[p][c] = NoData /\ mesh[p][c] = NoData
      /\ \A s \in Scenes : scene[s] = "none" /\ inited[s] = {}
      /\ evq = <<>> /\ inst = {} /\ gone = {} /\ pc.at = "idle"
  BY DEF VWInit, Idle
<1>2. NetTypeInv
  <2>1. <<>> \in Seq(EventsOf) /\ <<>> \in Seq(Packets) /\ IsFiniteSet({})
    BY FS_EmptySet
  <2> QED
    BY <2>1 DEF VWInit, NetTypeInv
<1>3. \A x : ~Queued(x)
  BY <1>1 DEF Queued
<1>4. SceneInv
  BY <1>1, <1>3 DEF SceneInv
<1>5. 0 \notin Scenes
  BY DEF Scenes
<1>6. JoinInv
  BY <1>1, <1>3, <1>5 DEF JoinInv, Known
<1>7. VoxelTypesInv /\ ThreadInv /\ RegistryInv
  BY <1>1 DEF VoxelTypesInv, ThreadInv, RegistryInv, Told
<1>8. SentInv
  BY <1>1 DEF SentInv, Sent
<1>9. CopyInv
  <2>1. ASSUME NEW p \in Peers, NEW c \in Chunks, NEW d, CopyAt(p, c, End(p), d)
        PROVE  d = NoData
    BY <1>1, <2>1 DEF CopyAt, Latest
  <2>2. ASSUME NEW p \in Peers, NEW c \in Chunks
        PROVE  NoneYet(wire[p], NodesOf(c), End(p))
    BY <1>1 DEF NoneYet
  <2> QED
    BY <1>1, <2>1, <2>2 DEF CopyInv, Arrives
<1>10. UpdateInv
  BY <1>1 DEF UpdateInv, Ordered
<1>11. MeshInv
  BY <1>1, <1>5 DEF MeshInv
<1> QED
  BY <1>2, <1>4, <1>6, <1>7, <1>8, <1>9, <1>10, <1>11 DEF NInv

LEMMA NInvariance == VWSpec => [](IInv /\ NInv)
<1>1. IInv /\ NInv /\ [VWNext]_vwVars => NInv'
  <2> SUFFICES ASSUME IInv, NInv, [VWNext]_vwVars PROVE NInv'
    OBVIOUS
  <2>1. /\ NetTypeInv /\ SceneInv /\ JoinInv /\ VoxelTypesInv /\ SentInv /\ ThreadInv
        /\ CopyInv /\ RegistryInv /\ UpdateInv /\ MeshInv
    BY DEF NInv
  <2>2. NetTypeInv' /\ SceneInv' /\ JoinInv' /\ VoxelTypesInv'
    BY <2>1, NetTypeStep, SceneStep, JoinStep, VoxelTypesStep
  <2>3. SentInv' /\ ThreadInv' /\ CopyInv'
    BY <2>1, SentStep, ThreadStep, CopyStep
  <2>4. RegistryInv' /\ UpdateInv' /\ MeshInv'
    BY <2>1, RegistryStep, UpdateStep, MeshStep
  <2> QED
    BY <2>2, <2>3, <2>4 DEF NInv
<1> QED
  BY NInitial, Invariance, <1>1, PTL DEF VWSpec

\* Commits, joins and replication leave no client behind: once all that was sent
\* has arrived, module.lua made every mesh of the node's present voxels.
THEOREM MeshesFollowVoxels == VWSpec => []MeshesFollow
<1>1. IInv /\ NInv => MeshesFollow
  <2> SUFFICES ASSUME IInv, NInv, NEW s \in inst, NEW p \in Peers, NEW c \in Chunks,
                      pc = Idle, evq = <<>>, wire[p] = <<>>,
                      p \in OnScene(s), ~Stale(p, c)
               PROVE  mesh[p][c] = data[s][c]
    BY DEF MeshesFollow
  <2>1. s \in Scenes /\ p \notin gone /\ peer[p] = s /\ scene[s] = "live"
    BY DEF OnScene, IInv, TypeInv
  <2>2. ~Queued(Joining(p)) /\ ~Between(s, c) /\ ~Told(p)
    BY DEF Queued, Between, Told, Idle
  <2>3. Shown(p, c)
    BY <2>1, <2>2 DEF NInv, MeshInv, Followed
  <2>4. mesh[p][c] = copy[p][c]
    BY <2>3 DEF Shown
  <2>5. CopyAt(p, c, End(p), copy[p][c])
    BY DEF CopyAt, NoneYet
  <2>6. copy[p][c] = sent[p][c]
    BY <2>1, <2>5 DEF NInv, CopyInv, Arrives
  <2> QED
    BY <2>1, <2>4, <2>6 DEF Stale
<1> QED
  BY NInvariance, <1>1, PTL

\* commit_chunk_buffer() sends the registry before the node and the node before
\* voxelworld:node_voxel_data_updated, and peers are initialised before either.
THEOREM TypesFirst == VWSpec => TypesComeFirst
<1> DEFINE A == \A p \in Peers :
                  LET m == Head(wire[p]) IN
                  wire[p] # <<>> /\ wire'[p] = Tail(wire[p]) /\ m.k = "updated" =>
                    copy[p][m.c] # NoData /\ copy[p][m.c].t <= types[p]
<1>1. IInv /\ NInv => A
  <2> SUFFICES ASSUME IInv, NInv, NEW p \in Peers, wire[p] # <<>>,
                      Head(wire[p]).k = "updated"
               PROVE  /\ copy[p][Head(wire[p]).c] # NoData
                      /\ copy[p][Head(wire[p]).c].t <= types[p]
    OBVIOUS
  <2>1. PICK m : m = wire[p][1]
    OBVIOUS
  <2>2. wire[p] \in Seq(Packets)
    BY DEF NInv, NetTypeInv
  <2>3. 1 \in 1..Len(wire[p]) /\ Head(wire[p]) = m /\ m \in Packets /\ m.k = "updated"
    BY <2>1, <2>2
  <2>4. PICK c \in Chunks : m \in UpdatesOf(c)
    BY <2>3 DEF Packets, NodesOf, UpdatesOf, Registries, Readies
  <2>5. m.c = c
    BY <2>4 DEF UpdatesOf
  <2>6. CopyAt(p, c, 1, copy[p][c]) /\ TypesAt(p, 1, types[p])
    BY DEF CopyAt, TypesAt, NoneYet
  <2>7. Ordered(p)
    BY DEF NInv, UpdateInv
  <2> QED
    BY <2>1, <2>3, <2>4, <2>5, <2>6, <2>7 DEF Ordered
<1> QED
  BY NInvariance, <1>1, PTL DEF TypesComeFirst
=============================================================================
