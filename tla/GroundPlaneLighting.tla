------------------------ MODULE GroundPlaneLighting ------------------------
(***************************************************************************)
(* src/builtin/ground_plane_lighting/ground_plane_lighting.cpp: how far    *)
(* down daylight reaches in every column of voxels, its "yst", kept by     *)
(* following voxelworld's node_volume_updated events, and sent to the      *)
(* clients by sectors.                                                     *)
(*                                                                         *)
(* The handler of an event looks into the world of the moment, which may   *)
(* be ahead of the events: voxels are set before they are committed, and   *)
(* an event waits in the module's queue while others are handled.  Peers   *)
(* join and leave in events of the same queue; they touch no columns and   *)
(* are actions of their own here.  One chunk is one voxel wide.            *)
(***************************************************************************)
EXTENDS Integers, Sequences, SequencesExt

CONSTANTS
  Columns,      \* columns of voxels
  SectorOf,     \* the sector of each
  Levels,       \* chunks above each other in a column
  ChunkHeight,
  Clients,
  MaxEdits      \* bound: changes of chunks

ASSUME SizesArePositive == Levels \in Nat /\ ChunkHeight \in Nat \ {0}

Chunks == Columns \X (1..Levels)
Top == Levels * ChunkHeight
Heights == 1..Top
Sectors == {SectorOf[c] : c \in Columns}

Lower(level) == (level - 1) * ChunkHeight + 1
Upper(level) == level * ChunkHeight

\* INT_MIN: no column of the sector was ever looked at.
Unset == -1

VARIABLES
  world,    \* voxelworld's voxels: "undefined" until their chunk is loaded
  changed,  \* chunks with voxels that were set but not committed
  events,   \* voxelworld:node_volume_updated for this module
  yst,      \* m_global_yst
  dirty,    \* m_dirty_sectors
  peers,    \* m_clients_initialized; "gone" if the connection is closed
  wire,     \* packets on their way to each peer
  copy,     \* what each client was told
  scene,    \* "live", "deleted", or "dropped" with its instance
  edits     \* changes so far

gplVars == <<world, changed, events, yst, dirty, peers, wire, copy, scene, edits>>
worldVars == <<world, changed, edits>>
ystVars == <<yst, dirty>>
peerVars == <<peers, wire, copy>>

Nothing == [c \in Columns |-> Unset]

GPLInit ==
  /\ world = [c \in Columns |-> [y \in Heights |-> "undefined"]]
  /\ changed = {} /\ events = <<>>
  /\ yst = Nothing /\ dirty = {}
  /\ peers = [p \in Clients |-> "out"]
  /\ wire = [p \in Clients |-> <<>>]
  /\ copy = [p \in Clients |-> Nothing]
  /\ scene = "live" /\ edits = 0

-----------------------------------------------------------------------------
(* Seeded faults *)

Joining_NoSectors(p) ==
  /\ peers' = [peers EXCEPT ![p] = "ready"]
  /\ wire' = [wire EXCEPT ![p] = Append(@, Nothing)]

-----------------------------------------------------------------------------
(* The voxel world, as far as this module sees it *)

\* A chunk is loaded or generated, or a voxel of a loaded chunk is set.
SetVoxels(chunk) ==
  /\ scene = "live"
  /\ edits < MaxEdits /\ edits' = edits + 1
  /\ LET c == chunk[1]
         cells == Lower(chunk[2])..Upper(chunk[2])
     IN \E content \in [cells -> {"clear", "solid"}] :
          /\ \E y \in cells : world[c][y] # content[y]
          /\ world' = [world EXCEPT ![c] =
                         [y \in Heights |-> IF y \in cells THEN content[y]
                                                           ELSE @[y]]]
  /\ changed' = changed \cup {chunk}
  /\ UNCHANGED <<events, ystVars, peerVars, scene>>

\* commit() emits an event for every chunk that was changed.
Commit ==
  /\ changed # {}
  /\ \E order \in SetToSeqs(changed) : events' = events \o order
  /\ changed' = {}
  /\ UNCHANGED <<world, edits, ystVars, peerVars, scene>>

DeleteScene ==
  /\ scene = "live" /\ scene' = "deleted"
  /\ UNCHANGED <<worldVars, events, ystVars, peerVars>>

-----------------------------------------------------------------------------
(* The module *)

\* The search from y downwards: what stops the light, or is not loaded.  The
\* world below the lowest chunk is never loaded.
Below(c, y) ==
  CHOOSE h \in 0..y :
    /\ h = 0 \/ world[c][h] # "clear"
    /\ \A g \in (h + 1)..y : world[c][g] = "clear"

\* "Y-seethrough doesn't reach here": something above stops the light.
Hidden(c, level) == yst[c] > Upper(level)

\* on_node_volume_updated(), with set_yst().  Once the scene is deleted, the
\* search ends in a NullptrCatch as soon as it needs the scene (check_scene()) or
\* voxelworld's instance; before, it goes on with the buffers that are loaded.
OnNodeVolumeUpdated ==
  /\ events # <<>> /\ scene # "dropped"
  /\ LET c == Head(events)[1]
         level == Head(events)[2]
     IN \/ /\ scene = "deleted" \/ Hidden(c, level)
           /\ UNCHANGED ystVars
        \/ /\ ~Hidden(c, level)
           /\ yst' = [yst EXCEPT ![c] = Below(c, Upper(level))]
           /\ dirty' = dirty \cup {SectorOf[c]}
  /\ events' = Tail(events)
  /\ UNCHANGED <<worldVars, peerVars, scene>>

\* ground_plane_lighting:update, of one sector.
Sector(s) == [c \in {d \in Columns : SectorOf[d] = s} |-> yst[c]]

Messages(sectors) == {[i \in 1..Len(o) |-> Sector(o[i])] : o \in SetToSeqs(sectors)}

\* Sectors come into being with their first column.
KnownSectors == {SectorOf[c] : c \in {d \in Columns : yst[d] # Unset}}

\* on_tick(): network drops what is sent to a peer that is gone.
OnTick ==
  /\ dirty # {} /\ scene # "dropped"
  /\ \E messages \in Messages(dirty) :
       wire' = [p \in Clients |-> IF peers[p] = "ready" THEN wire[p] \o messages
                                                        ELSE wire[p]]
  /\ dirty' = {}
  /\ UNCHANGED <<worldVars, events, yst, peers, copy, scene>>

\* on_peer_joined_scene(), with send_initial_sectors(): on the :init packet
\* the client drops what it has.
Joining(p) ==
  /\ peers' = [peers EXCEPT ![p] = "ready"]
  /\ \E messages \in Messages(KnownSectors) :
       wire' = [wire EXCEPT ![p] = Append(@, Nothing) \o messages]

OnPeerJoinedScene(p) ==
  /\ peers[p] = "out" /\ scene # "dropped"
  /\ Joining(p)
  /\ UNCHANGED <<worldVars, events, ystVars, copy, scene>>

\* The connection ends some time before the module hears of it.
Disconnect(p) ==
  /\ peers[p] = "ready"
  /\ peers' = [peers EXCEPT ![p] = "gone"]
  /\ wire' = [wire EXCEPT ![p] = <<>>]
  /\ copy' = [copy EXCEPT ![p] = Nothing]
  /\ UNCHANGED <<worldVars, events, ystVars, scene>>

OnPeerLeftScene(p) ==
  /\ peers[p] = "gone"
  /\ peers' = [peers EXCEPT ![p] = "out"]
  /\ UNCHANGED <<worldVars, events, ystVars, wire, copy, scene>>

\* on_scene_deleted() drops the instance with its sectors and its peers.
OnSceneDeleted ==
  /\ scene = "deleted" /\ scene' = "dropped"
  /\ yst' = Nothing /\ dirty' = {} /\ events' = <<>>
  /\ UNCHANGED <<worldVars, peerVars>>

\* The client's module takes a packet.
Receive(p) ==
  /\ wire[p] # <<>>
  /\ copy' = [copy EXCEPT ![p] = [c \in Columns |->
                 IF c \in DOMAIN Head(wire[p]) THEN Head(wire[p])[c] ELSE @[c]]]
  /\ wire' = [wire EXCEPT ![p] = Tail(@)]
  /\ UNCHANGED <<worldVars, events, ystVars, peers, scene>>

GPLNext ==
  \/ \E chunk \in Chunks : SetVoxels(chunk)
  \/ Commit
  \/ DeleteScene
  \/ OnNodeVolumeUpdated
  \/ OnTick
  \/ OnSceneDeleted
  \/ \E p \in Clients :
       OnPeerJoinedScene(p) \/ Disconnect(p) \/ OnPeerLeftScene(p) \/ Receive(p)

GPLSpec == GPLInit /\ [][GPLNext]_gplVars

-----------------------------------------------------------------------------
(* Properties *)

\* Where the light ends according to the whole column: from the top of the
\* highest chunk that was ever loaded.
Ground(c) ==
  LET loaded == {y \in Heights : world[c][y] # "undefined"}
  IN IF loaded = {} THEN Unset
     ELSE Below(c, CHOOSE y \in loaded : \A g \in loaded : g <= y)

\* Once no change is uncommitted and no event waits, every column is as a
\* search of the whole column finds it, although each handler searched from
\* its own chunk only, stopped at chunks that were not loaded, and looked at
\* voxels whose events were still to come.
GroundIsCurrent ==
  scene = "live" /\ changed = {} /\ events = <<>> =>
    \A c \in Columns : yst[c] = Ground(c)

\* A client that has taken its packets knows every sector that is not about
\* to be sent, whenever it joined.
ClientsAreTold ==
  scene # "dropped" =>
    \A p \in Clients : peers[p] = "ready" /\ wire[p] = <<>> =>
      \A c \in Columns : SectorOf[c] \notin dirty => copy[p][c] = yst[c]

\* Both: once nothing is on its way, clients see light down to the ground.
ClientsSeeGround == GroundIsCurrent /\ ClientsAreTold
=============================================================================
