-------------------------- MODULE SceneReplication --------------------------
(***************************************************************************)
(* The copies that clients hold of a scene: main_context owns the scene,   *)
(* src/builtin/replicate/replicate.cpp sends its changes to the peers that *)
(* were assigned to it, and the packet handlers of src/src/client/state.cpp *)
(* apply them.                                                             *)
(*                                                                         *)
(* Urho3D, which is not part of the repository, tracks what is to be sent: *)
(* a change of a node marks it dirty for every peer that has the node in   *)
(* its replication state, a node that comes or goes for every peer that    *)
(* has the scene itself there.                                             *)
(***************************************************************************)
EXTENDS Naturals, Sequences, FiniteSets, SequencesExt

CONSTANTS
  Peers,
  Nodes,
  NoNode,
  Parent,     \* a node's parent, or NoNode for a child of the scene
  MaxEdits,   \* bound: changes of the scene
  MaxWire     \* bound: packets on the way to one peer, before a tick

ASSUME SceneReplicationAssumption ==
  /\ IsFiniteSet(Nodes)
  /\ NoNode \notin Nodes \cup [{"latest", "delta"} -> Nat]
  /\ Parent \in [Nodes -> Nodes \cup {NoNode}]
  /\ MaxEdits \in Nat /\ MaxWire \in Nat

\* Attributes sent as AM_LATESTDATA, and the others with the user variables.
Kinds == {"latest", "delta"}

VARIABLES
  scene,     \* what main_context's m_scenes holds: "live", "deleted"
  node,      \* nodes of the scene: state and version of each kind of data
  comp,      \* nodes that have a network component
  edits,     \* changes so far, which also number the versions
  peer,      \* m_peers: "away", "on_scene", "gone"
  rooted,    \* peers whose replication state has the scene's own node
  known,     \* nodeStates_ of each peer
  kcomp,     \* componentStates_ of each peer, by node
  dirty,     \* dirtyNodes_ of each peer
  changed,   \* dirtyAttributes_ and dirtyVars_ of each peer's node states
  wire,      \* packets on the way to each peer
  waiting,   \* nodes live when an event was left to emit_after_next_sync()
  emitted,   \* nodes of the waiting event that was emitted last
  copy,      \* the client's nodes, with the versions it was given
  client     \* "up", or "crashed" by a null pointer

server == <<scene, node, comp, edits>>
states == <<rooted, known, kcomp, dirty, changed>>
hooks == <<waiting, emitted>>
clients == <<copy, client>>
srVars == <<server, peer, states, wire, hooks, clients>>

NoData == [k \in Kinds |-> 0]
Live == {n \in Nodes : node[n].st = "live"}
OnScene == {p \in Peers : peer[p] = "on_scene"}

SRTypeOK ==
  /\ scene \in {"live", "deleted"}
  /\ node \in [Nodes -> [st : {"none", "live", "removed"},
                         val : [Kinds -> 0..MaxEdits]]]
  /\ comp \in SUBSET Live /\ edits \in 0..MaxEdits
  /\ peer \in [Peers -> {"away", "on_scene", "gone"}]
  /\ rooted \in SUBSET OnScene
  /\ known \in [Peers -> SUBSET Nodes] /\ kcomp \in [Peers -> SUBSET Nodes]
  /\ dirty \in [Peers -> SUBSET Nodes]
  /\ changed \in [Peers -> SUBSET (Nodes \X Kinds)]
  /\ waiting \in SUBSET SUBSET Nodes /\ emitted \in SUBSET Nodes
  /\ copy \in [Peers -> [Nodes -> {NoNode} \cup [Kinds -> 0..MaxEdits]]]
  /\ client \in [Peers -> {"up", "crashed"}]
  /\ \A p \in Peers : kcomp[p] \subseteq known[p]

SRInit ==
  /\ scene = "live"
  /\ node = [n \in Nodes |-> [st |-> "none", val |-> NoData]]
  /\ comp = {} /\ edits = 0
  /\ peer = [p \in Peers |-> "away"] /\ rooted = {}
  /\ known = [p \in Peers |-> {}] /\ kcomp = [p \in Peers |-> {}]
  /\ dirty = [p \in Peers |-> {}] /\ changed = [p \in Peers |-> {}]
  /\ wire = [p \in Peers |-> <<>>]
  /\ waiting = {} /\ emitted = {}
  /\ copy = [p \in Peers |-> [n \in Nodes |-> NoNode]]
  /\ client = [p \in Peers |-> "up"]

-----------------------------------------------------------------------------
(* Changes of the scene, and Urho3D's tracking of them *)

Edit == scene = "live" /\ edits < MaxEdits /\ edits' = edits + 1

MarkDirty(n, peers) ==
  dirty' = [p \in Peers |-> IF p \in peers THEN dirty[p] \cup {n} ELSE dirty[p]]

Knowing(n) == {p \in Peers : n \in known[p]}

CreateNode(n) ==
  /\ Edit /\ node[n].st = "none" /\ Parent[n] \in Live \cup {NoNode}
  /\ node' = [node EXCEPT ![n] = [st |-> "live",
                                val |-> [k \in Kinds |-> edits']]]
  /\ \E c \in {{}, {n}} : comp' = comp \cup c
  /\ MarkDirty(n, rooted)
  /\ UNCHANGED <<scene, peer, rooted, known, kcomp, changed, wire, hooks, clients>>

ChangeNode(n, k) ==
  /\ Edit /\ n \in Live
  /\ node' = [node EXCEPT ![n].val[k] = edits']
  /\ MarkDirty(n, Knowing(n))
  /\ changed' = [p \in Peers |->
       IF p \in Knowing(n) THEN changed[p] \cup {<<n, k>>} ELSE changed[p]]
  /\ UNCHANGED <<scene, comp, peer, rooted, known, kcomp, wire, hooks, clients>>

ToggleComponent(n) ==
  /\ Edit /\ n \in Live
  /\ comp' = IF n \in comp THEN comp \ {n} ELSE comp \cup {n}
  /\ MarkDirty(n, Knowing(n))
  /\ UNCHANGED <<scene, node, peer, rooted, known, kcomp, changed, wire, hooks,
                 clients>>

\* With its children, of which this model lets there be none any more.
RemoveNode(n) ==
  /\ Edit /\ n \in Live /\ \A c \in Live : Parent[c] # n
  /\ node' = [node EXCEPT ![n].st = "removed"]
  /\ comp' = comp \ {n}
  /\ MarkDirty(n, rooted)
  /\ UNCHANGED <<scene, peer, rooted, known, kcomp, changed, wire, hooks, clients>>

\* delete_scene(): find_scene() gives nullptr from now on.
DeleteScene ==
  /\ Edit /\ scene' = "deleted"
  /\ UNCHANGED <<node, comp, peer, states, wire, hooks, clients>>

-----------------------------------------------------------------------------
(* replicate *)

\* assign_scene_to_peer(): a game calls it once, with the peer's files sent.
Assign(p) ==
  /\ peer[p] = "away"
  /\ peer' = [peer EXCEPT ![p] = "on_scene"]
  /\ UNCHANGED <<server, states, wire, hooks, clients>>

\* on_client_disconnected(), with CleanupConnection()
Disconnect(p) ==
  /\ peer[p] # "gone"
  /\ peer' = [peer EXCEPT ![p] = "gone"]
  /\ rooted' = rooted \ {p}
  /\ known' = [known EXCEPT ![p] = {}] /\ kcomp' = [kcomp EXCEPT ![p] = {}]
  /\ dirty' = [dirty EXCEPT ![p] = {}] /\ changed' = [changed EXCEPT ![p] = {}]
  /\ wire' = [wire EXCEPT ![p] = <<>>]
  /\ UNCHANGED <<server, hooks, clients>>

\* ~Module() on a reload: CleanupConnection() for every peer, and no trace of the
\* peers in the new module, which no game assigns again.
Reload ==
  /\ OnScene # {}
  /\ peer' = [p \in Peers |-> IF p \in OnScene THEN "gone" ELSE peer[p]]
  /\ rooted' = {}
  /\ known' = [p \in Peers |-> {}] /\ kcomp' = [p \in Peers |-> {}]
  /\ dirty' = [p \in Peers |-> {}] /\ changed' = [p \in Peers |-> {}]
  /\ waiting' = {}
  /\ UNCHANGED <<server, wire, emitted, clients>>

\* sync_existing_node() of the components: those that were removed, and the
\* new ones if the numbers differ.
ComponentPackets(p, n) ==
  IF n \in kcomp[p] /\ n \notin comp THEN <<[kind |-> "remove_component", n |-> n]>>
  ELSE IF n \in comp /\ n \notin kcomp[p]
       THEN <<[kind |-> "create_component", n |-> n]>> ELSE <<>>

\* sync_existing_node() of attributes and variables, latest data first
DataPackets(p, n) ==
  LET of(k) == IF <<n, k>> \in changed[p]
               THEN <<[kind |-> k, n |-> n, val |-> node[n].val[k]]>> ELSE <<>>
  IN of("latest") \o of("delta")

\* sync_node(), which sends a removed node at every sync from now on
NodePackets(p, n) ==
  IF n \notin known[p]
  THEN IF n \in Live THEN <<[kind |-> "create", n |-> n, val |-> node[n].val]>> ELSE <<>>
  ELSE IF n \notin Live THEN <<[kind |-> "remove", n |-> n]>>
       ELSE DataPackets(p, n) \o ComponentPackets(p, n)

\* Seeded fault: the dependencies of a node are not looked at.
RightOrder_Any(order, p) == TRUE

\* Any order of the hash set, save that a node's dirty parent comes before it
\* (the dependencies of sync_create_node() and sync_existing_node()).
RightOrder(order, p) ==
  \A i, j \in DOMAIN order :
       Parent[order[j]] = order[i] /\ order[j] \in Live => i < j

PacketsOf(p, order) == FlattenSeq([i \in DOMAIN order |-> NodePackets(p, order[i])])

SyncKnown(p, set) == known[p] \cup (set \cap Live)

\* Seeded fault: nodes that were were not processed are no longer dirty either.
SyncDirty_Drops(p, set) == dirty[p] \ {n \in Nodes : n \in Live}

\* What sync_node() leaves of the replication state once the nodes of set were
\* processed: a node that was removed stays dirty, if the peer had it.
SyncDirty(p, set) == dirty[p] \ {n \in set : n \in Live \/ n \notin known[p]}

SyncStates(todo) ==
  /\ known' = [p \in Peers |-> SyncKnown(p, todo[p])]
  /\ kcomp' = [p \in Peers |-> (kcomp[p] \ (todo[p] \cap Live)) \cup (todo[p] \cap comp)]
  /\ dirty' = [p \in Peers |-> SyncDirty(p, todo[p])]
  /\ changed' = [p \in Peers |-> {c \in changed[p] : c[1] \notin todo[p] \cap Live}]

Send(packets) == wire' = [p \in Peers |-> wire[p] \o packets[p]]

\* Seeded fault: new peers get only what changes later.
ToSync_OnlyDirty(p) == IF peer[p] = "on_scene" THEN dirty[p] ELSE {}

\* The scene's node comes first; its first sync makes all nodes dirty.
ToSync(p) ==
  IF peer[p] # "on_scene" THEN {} ELSE IF p \in rooted THEN dirty[p] ELSE dirty[p] \cup Live

\* on_tick(), after sync_changes()
EmitEvents ==
  /\ emitted' = UNION waiting
  /\ waiting' = {}

\* sync_changes().  Scenes are found or missing, with a warning.
SyncTick ==
  /\ \A p \in Peers : Len(wire[p]) <= MaxWire
  /\ IF scene = "live"
     THEN /\ \E order \in [Peers -> UNION {SetToSeqs(S) : S \in SUBSET Nodes}] :
               /\ \A p \in Peers : ToSet(order[p]) = ToSync(p) /\ RightOrder(order[p], p)
               /\ Send([p \in Peers |-> PacketsOf(p, order[p])])
          /\ rooted' = OnScene
          /\ SyncStates([p \in Peers |-> ToSync(p)])
     ELSE UNCHANGED <<states, wire>>
  /\ EmitEvents
  /\ UNCHANGED <<server, peer, clients>>

\* sync_node_immediate().  The callers in src/ name children of the scene.
SyncImmediate(n) ==
  LET peers == IF scene = "live" /\ n \in Live THEN OnScene ELSE {}
      todo == [p \in Peers |-> IF p \in peers THEN {n} ELSE {}]
  IN /\ Send([p \in Peers |-> IF p \in peers THEN NodePackets(p, n) ELSE <<>>])
     /\ SyncStates(todo)
     /\ UNCHANGED rooted

SyncNow(n) ==
  /\ Parent[n] = NoNode /\ \A p \in Peers : Len(wire[p]) <= MaxWire
  /\ SyncImmediate(n)
  /\ UNCHANGED <<server, peer, hooks, clients>>

\* emit_after_next_sync(), by a game that made its nodes before
EmitAfterNextSync ==
  /\ waiting = {} /\ waiting' = {Live}
  /\ UNCHANGED <<server, peer, states, wire, emitted, clients>>

-----------------------------------------------------------------------------
(* The client *)

\* What the handlers of setup_packet_handlers() do to the client's scene.
\* Removed nodes and components, and new components, are left to be done.
Apply(p, m) ==
  copy' = IF m.kind = "create" THEN [copy EXCEPT ![p][m.n] = m.val]
          ELSE IF m.kind \in Kinds /\ copy[p][m.n] # NoNode
               THEN [copy EXCEPT ![p][m.n][m.kind] = m.val]
               ELSE copy

Receive(p) ==
  /\ client[p] = "up" /\ wire[p] # <<>>
  /\ LET m == Head(wire[p])
     IN /\ Apply(p, m)
        /\ client' = IF m.kind = "delta" /\ copy[p][m.n] = NoNode
                     THEN [client EXCEPT ![p] = "crashed"] ELSE client
  /\ wire' = [wire EXCEPT ![p] = Tail(@)]
  /\ UNCHANGED <<server, peer, states, hooks>>

-----------------------------------------------------------------------------
SRNext ==
  \/ \E n \in Nodes :
       \/ CreateNode(n) \/ ToggleComponent(n) \/ RemoveNode(n) \/ SyncNow(n)
       \/ \E k \in Kinds : ChangeNode(n, k)
  \/ DeleteScene \/ Reload \/ SyncTick \/ EmitAfterNextSync
  \/ \E p \in Peers : Assign(p) \/ Disconnect(p) \/ Receive(p)

\* Server and clients go on running.
SRSpec == SRInit /\ [][SRNext]_srVars /\ WF_srVars(SyncTick)
            /\ \A p \in Peers : WF_srVars(Receive(p))

-----------------------------------------------------------------------------
(* What replication promises *)

\* The handler of replicate:node_delta_update uses the node it did not find: no
\* client is ever sent the change of a node that it does not have.
ClientsSurvive == \A p \in Peers : client[p] = "up"

\* A client has the parent of every node it has, however the hash set orders
\* the nodes to process.
ParentsFirst ==
  \A p \in Peers, n \in Nodes :
    copy[p][n] # NoNode => Parent[n] = NoNode \/ copy[p][Parent[n]] # NoNode

CopiesAreWellFormed == ClientsSurvive /\ ParentsFirst

\* When the scene comes to rest, a peer on it gets to hold every node of it with
\* its latest data, and keeps it: whatever came before, during and after its
\* first sync.
CopiesCatchUp ==
  \A p \in Peers :
    <>[](scene = "live" /\ p \in OnScene => \A n \in Live : copy[p][n] = node[n].val)

\* An event left to emit_after_next_sync() goes out when all peers on the scene
\* were sent the nodes that were there: a packet sent in answer to it comes after
\* them.
EmittedAfterSync ==
  [][waiting # {} /\ waiting' = {} /\ scene = "live" =>
       \A p \in OnScene :
         (UNION waiting) \cap Live \subseteq known'[p] \/ peer'[p] = "gone"]_srVars

=============================================================================
