------------------------------ MODULE Network ------------------------------
(***************************************************************************)
(* The server's end of the network: the network module                     *)
(* (src/builtin/network/network.cpp), its thread that waits in select()    *)
(* (src/src/interface/select_handler.h), and what clients send to it as a  *)
(* stream of packets (src/src/impl/packet_stream.cpp).                     *)
(*                                                                         *)
(* A packet travels as two pieces, so that it may be received in part.  A  *)
(* client numbers the names of its packets in the order of their first     *)
(* use and defines each number before it uses it.  The module may be       *)
(* reloaded: its core:unload handler stores the peers, the server takes it *)
(* out of its containers, its thread ends, and core:continue puts the      *)
(* stored peers into the new one.  Sockets stay open meanwhile.            *)
(*                                                                         *)
(* The callbacks of the thread run on the module's thread, as ModuleThread *)
(* describes; pc "handle" is such a callback, and no handler runs then.    *)
(***************************************************************************)
EXTENDS Integers, Sequences, SequencesExt, FiniteSetsExt

CONSTANTS
  Clients,     \* each connects once
  Names,       \* names of packets
  Fds,         \* numbers of the sockets of connections
  None,        \* no client, no peer, no socket
  FirstType,   \* the first number of a name (100 in the code)
  SignBit,     \* a byte from here on is negative as a char (128 in the code)
  MaxPackets,  \* bound: packets that each client sends
  MaxReloads,  \* bound: reloads of the network module
  MaxGarbage   \* bound: definitions and events that no client sent

ASSUME NetworkAssumption ==
  /\ Fds \subseteq Nat \ {0}
  /\ None \notin Clients \cup Fds \cup Nat
  /\ SignBit \in Nat \ {0} /\ FirstType \in Nat \ {0}
  /\ IsFiniteSet(Names)
  /\ FirstType + Cardinality(Names) <= 4 * SignBit * SignBit  \* two bytes
  /\ MaxPackets \in [Clients -> Nat]
  /\ MaxGarbage \in Nat

Listening == 0   \* the listening socket
PeerIds == 1..Cardinality(Clients)
Types == FirstType..(FirstType + Cardinality(Names) - 1)
Packets == [from : Clients, no : Nat, kind : {"define", "data"},
            type : Types, name : Names]
Pieces == Packets \X {"head", "tail"}

VARIABLES
  came,       \* clients that connected
  backlog,    \* connections that nobody has accepted
  left,       \* clients that closed their connection
  types,      \* m_outgoing_types of each client
  wire,       \* pieces sent and not received
  sent,       \* history: names of the packets each client sent
  conn,       \* open sockets of the server and who is at the other end
  mod,        \* where the module is in its life
  bound,      \* m_listening_socket is the listening socket
  peers,      \* m_peers: the socket of each peer
  bySocket,   \* m_peers_by_socket, with peers by their id
  nextId,     \* m_next_peer_id
  buffer,     \* socket_buffer of each peer
  known,      \* m_incoming_types of each peer: <<type, name>>
  pc,         \* the thread: at its next access or in select()
  watched,    \* sockets it waits for
  active,     \* sockets with something to read, still to be handled
  ignored,    \* bad_fds
  stored,     \* tmp_store_data()
  reloads,    \* reloads so far
  got,        \* history: packets of each client that became events
  garbled     \* history: clients whose stream was cut within a packet

clientVars == <<came, backlog, left, types, wire, sent>>
peerVars == <<conn, bound, peers, bySocket, nextId, buffer, known>>
threadVars == <<pc, watched, active, ignored>>
vars == <<clientVars, peerVars, threadVars, mod, stored, reloads, got,
          garbled>>

TypeOK ==
  /\ came \in SUBSET Clients /\ backlog \in Seq(Clients) /\ left \in SUBSET Clients
  /\ types \in [Clients -> Seq(Names)]
  /\ wire \in [Clients -> Seq(Pieces)]
  /\ sent \in [Clients -> Seq(Names)]
  /\ conn \in [Fds -> Clients \cup {None}]
  /\ mod \in {"up", "stored", "erased", "stopping", "init", "crashed"}
  /\ bound \in BOOLEAN
  /\ peers \in [PeerIds -> Fds \cup {None}]
  /\ bySocket \in [Fds -> PeerIds \cup {None}]
  /\ nextId \in 1..(Cardinality(Clients) + 1)
  /\ buffer \in [PeerIds -> Seq(Pieces)]
  /\ known \in [PeerIds -> SUBSET (Int \X Names)]
  /\ pc \in {"get", "select", "ready", "handle", "ended"}
  /\ watched \in Seq(Fds \cup {Listening})
  /\ active \in Seq(Fds \cup {Listening})
  /\ ignored \in SUBSET Fds
  /\ stored \in [PeerIds -> Fds \cup {None}]
  /\ reloads \in 0..MaxReloads
  /\ got \in [Clients -> Seq(Nat \X Names)]
  /\ garbled \in SUBSET Clients

NoPeers == [i \in PeerIds |-> None]
NoBuffers == [i \in PeerIds |-> <<>>]
NoTypes == [i \in PeerIds |-> {}]
NoNames == [c \in Clients |-> <<>>]

\* The numbers of S, the least first.
InOrder(S) ==
  [k \in 1..Cardinality(S) |->
     CHOOSE n \in S : Cardinality({m \in S : m < n}) = k - 1]

\* The elements of s that are in S, in their order.
Only(s, S) ==
  LET places == InOrder({k \in DOMAIN s : s[k] \in S})
  IN [j \in DOMAIN places |-> s[places[j]]]

Init ==
  /\ came = {} /\ backlog = <<>> /\ left = {}
  /\ types = NoNames /\ wire = NoNames /\ sent = NoNames
  /\ conn = [f \in Fds |-> None]
  /\ mod = "up" /\ bound = TRUE
  /\ peers = NoPeers /\ bySocket = [f \in Fds |-> None] /\ nextId = 1
  /\ buffer = NoBuffers /\ known = NoTypes
  /\ pc = "get" /\ watched = <<>> /\ active = <<>> /\ ignored = {}
  /\ stored = NoPeers /\ reloads = 0
  /\ got = NoNames /\ garbled = {}

-----------------------------------------------------------------------------
(* Seeded faults *)

\* Input(), with what was read left in the buffer.
Input_KeepsRead(b, i, c) ==
  LET ps == [k \in 1..(Len(b) \div 2) |-> b[2 * k][1]]
      read == SelectSeq(ps, LAMBDA p : p.kind = "data")
  IN /\ buffer' = [buffer EXCEPT ![i] = b]
     /\ got' = [got EXCEPT ![c] = @ \o [k \in DOMAIN read |->
                                         <<read[k].no, read[k].name>>]]
     /\ UNCHANGED known

\* The number of a name.
TypeIn(all, n) == FirstType - 1 + (CHOOSE t \in DOMAIN all : all[t] = n)

\* Output(), with a new type defined after the packet that uses it.
Output_DefinesLate(c, n) ==
  LET all == IF n \in ToSet(types[c]) THEN types[c] ELSE Append(types[c], n)
      packet == [from |-> c, no |-> Len(sent[c]) + 1, kind |-> "data",
                 type |-> TypeIn(all, n), name |-> n]
      define == [packet EXCEPT !.kind = "define"]
  IN /\ types' = [types EXCEPT ![c] = all]
     /\ wire' = [wire EXCEPT ![c] = @ \o <<<<packet, "head">>,
                    <<packet, "tail">>, <<define, "head">>, <<define, "tail">>>>]

-----------------------------------------------------------------------------
(* Clients *)

Connected(c) == c \in ToSet(backlog) \/ \E f \in Fds : conn[f] = c

Connect(c) ==
  /\ c \notin came
  /\ came' = came \cup {c}
  /\ backlog' = Append(backlog, c)
  /\ UNCHANGED <<left, types, wire, sent, peerVars, threadVars, mod, stored,
                 reloads, got, garbled>>

InPieces(p) == <<<<p, "head">>, <<p, "tail">>>>

\* PacketStream::output(): a name that is used for the first time gets the
\* next number, which is defined to the other end before the packet.
Output(c, n) ==
  LET known1 == n \in ToSet(types[c])
      all == IF known1 THEN types[c] ELSE Append(types[c], n)
      packet == [from |-> c, no |-> Len(sent[c]) + 1, kind |-> "data",
                 type |-> TypeIn(all, n), name |-> n]
      define == [packet EXCEPT !.kind = "define"]
  IN /\ types' = [types EXCEPT ![c] = all]
     /\ wire' = [wire EXCEPT ![c] = @ \o (IF known1 THEN <<>>
                                          ELSE InPieces(define))
                                      \o InPieces(packet)]

Send(c, n) ==
  /\ Connected(c) /\ c \notin left /\ Len(sent[c]) < MaxPackets[c]
  /\ Output(c, n)
  /\ sent' = [sent EXCEPT ![c] = Append(@, n)]
  /\ UNCHANGED <<came, backlog, left, peerVars, threadVars, mod, stored, reloads,
                 got, garbled>>

Leave(c) ==
  /\ Connected(c) /\ c \notin left
  /\ left' = left \cup {c}
  /\ UNCHANGED <<came, backlog, types, wire, sent, peerVars, threadVars, mod,
                 stored, reloads, got, garbled>>

-----------------------------------------------------------------------------
(* The module, on its thread, in calls of the NetworkThread *)

\* access_module() finds the module.
Accessible == mod \in {"up", "stored", "init"}

\* An exception leaves NetworkThread::run(), and on_crash() shuts down.
Crash ==
  /\ mod' = "crashed" /\ pc' = "ended"
  /\ UNCHANGED <<clientVars, peerVars, watched, active, ignored, stored,
                 reloads, got, garbled>>

PeersInOrder == InOrder({i \in PeerIds : peers[i] # None})

\* get_sockets().  Before it is bound the listening socket is no socket.
Sockets ==
  (IF bound THEN <<Listening>> ELSE <<>>)
    \o [k \in DOMAIN PeersInOrder |-> peers[PeersInOrder[k]]]

GetSockets ==
  /\ mod # "crashed" /\ pc = "get"
  /\ mod # "stopping"
  /\ IF Accessible
     THEN /\ watched' = Sockets /\ pc' = "select"
          /\ UNCHANGED <<clientVars, peerVars, active, ignored, mod, stored,
                         reloads, got, garbled>>
     ELSE Crash

\* A call that was posted before the module's thread ended is discarded.
Discarded ==
  /\ mod \in {"erased", "stopping"} /\ pc \in {"get", "ready"}
  /\ IF pc = "get"
     THEN watched' = <<>> /\ pc' = "select" /\ UNCHANGED active
     ELSE active' = <<>> /\ pc' = "get" /\ UNCHANGED watched
  /\ UNCHANGED <<clientVars, peerVars, ignored, mod, stored, reloads, got,
                 garbled>>

\* SelectHandler::check().  It finds out which sockets are closed by leaving
\* them out one after another, and never takes them in again.
Readable(f) ==
  IF f = Listening THEN backlog # <<>>
  ELSE /\ f \notin ignored /\ conn[f] # None
       /\ wire[conn[f]] # <<>> \/ conn[f] \in left

Closed == {f \in ToSet(watched) \ {Listening} : conn[f] = None} \ ignored

Select ==
  /\ mod # "crashed" /\ pc = "select"
  /\ IF Closed # {}
     THEN /\ \E f \in Closed : ignored' = ignored \cup {f}
          /\ active' = <<>>
     ELSE /\ active' = Only(watched, {f \in ToSet(watched) : Readable(f)})
          /\ UNCHANGED ignored
  /\ pc' = IF active' = <<>> THEN "get" ELSE "ready"
  /\ watched' = <<>>
  /\ UNCHANGED <<clientVars, peerVars, mod, stored, reloads, got, garbled>>

\* The callback is through with a socket.
NextSocket ==
  /\ active' = Tail(active)
  /\ pc' = IF Tail(active) = <<>> THEN "get" ELSE "handle"

Handling ==
  /\ mod # "crashed" /\ active # <<>>
  /\ pc = "handle" \/ (pc = "ready" /\ Accessible)

\* A call for a module that is gone throws.
HandleNothing ==
  /\ mod \in {"erased", "stopping"} /\ pc = "ready"
  /\ Crash

\* on_listen_event(): assigning m_peers[peer_id] closes the socket of a peer
\* that had this id.
Accept ==
  /\ Handling /\ Head(active) = Listening /\ backlog # <<>>
  /\ \E f \in Fds :
       /\ conn[f] = None
       /\ conn' = [g \in Fds |-> IF g = peers[nextId] THEN None
                                 ELSE IF g = f THEN Head(backlog) ELSE conn[g]]
       /\ peers' = [peers EXCEPT ![nextId] = f]
       /\ bySocket' = [bySocket EXCEPT ![f] = nextId]
  /\ buffer' = [buffer EXCEPT ![nextId] = <<>>]
  /\ known' = [known EXCEPT ![nextId] = {}]
  /\ nextId' = nextId + 1
  /\ backlog' = Tail(backlog)
  /\ NextSocket
  /\ UNCHANGED <<came, left, types, wire, sent, bound, watched, ignored, mod,
                 stored, reloads, got, garbled>>

\* on_incoming_data() on a socket that has no peer, whose peer has another
\* socket, or which is closed: only the first is not an exception.
NoPeer ==
  /\ Handling /\ Head(active) # Listening
  /\ LET f == Head(active)
         i == bySocket[f]
     IN IF i = None
        THEN /\ NextSocket
             /\ UNCHANGED <<clientVars, peerVars, watched, ignored, mod,
                            stored, reloads, got, garbled>>
        ELSE (peers[i] # f \/ conn[f] = None) /\ Crash

\* What the following actions have in common: the socket and its peer.
Incoming(f, i) ==
  /\ Handling /\ Head(active) = f /\ f # Listening
  /\ bySocket[f] = i /\ i # None /\ peers[i] = f /\ conn[f] # None

Disconnect(f, i) ==
  /\ Incoming(f, i)
  /\ wire[conn[f]] = <<>> /\ conn[f] \in left
  /\ peers' = [peers EXCEPT ![i] = None]
  /\ bySocket' = [bySocket EXCEPT ![f] = None]
  /\ conn' = [conn EXCEPT ![f] = None]
  /\ buffer' = [buffer EXCEPT ![i] = <<>>]
  /\ known' = [known EXCEPT ![i] = {}]
  /\ NextSocket
  /\ UNCHANGED <<clientVars, bound, nextId, watched, ignored, mod, stored,
                 reloads, got, garbled>>

\* PacketStream::input() on the pieces b of peer i: whole packets are handled
\* until one has an unknown type, which is taken out before that is noticed
\* and leaves the rest for the next time.
IsData(p) == p.kind = "data"
WholePackets(b) == [k \in 1..(Len(b) \div 2) |-> b[2 * k][1]]
Parsed(t) ==
  LET low == t % (2 * SignBit)
  IN IF low >= SignBit THEN low - 2 * SignBit
     ELSE IF t >= 2 * SignBit * SignBit THEN t - 4 * SignBit * SignBit
     ELSE t
Defined(ps, k, types0) ==
  types0 \cup {<<Parsed(ps[j].type), ps[j].name>> :
                 j \in {j \in 1..(k - 1) : ~IsData(ps[j])}}
NamesOf(t, defined) == {n \in Names : <<t, n>> \in defined}

Input(b, i, c) ==
  LET ps == WholePackets(b)
      names == [k \in DOMAIN ps |->
                  NamesOf(ps[k].type, Defined(ps, k, known[i]))]
      unknown == {k \in DOMAIN ps : IsData(ps[k]) /\ names[k] = {}}
      end == IF unknown = {} THEN Len(ps) + 1 ELSE Min(unknown)
      read == InOrder({k \in 1..(end - 1) : IsData(ps[k])})
  IN /\ buffer' = [buffer EXCEPT ![i] =
                     SubSeq(b, 2 * Min({end, Len(ps)}) + 1, Len(b))]
     /\ known' = [known EXCEPT ![i] = Defined(ps, end, @)]
     /\ got' = [got EXCEPT ![c] = @ \o [k \in DOMAIN read |->
                  <<ps[read[k]].no, CHOOSE n \in names[read[k]] : TRUE>>]]

\* A reload lost the first part of a packet, and the rest of it is taken for
\* a packet: now or later, since any length may be read in it, and then the
\* next packets are cut as well.
Cut(b, c) == c \in garbled \/ Head(b)[2] = "tail"

\* PacketStream::input() on the bytes of a cut stream, which may say
\* anything.  Type 0 is always known, so that they may also define a number
\* anew; and they may become an event, which is no packet of the client and
\* gets the number 0.  (Bounds: MaxGarbage of these, one at a time, and all
\* of the buffer is taken or nothing: the rest is read in any way again.)
Garbage(i, c) ==
  Cardinality(known[i]) + Cardinality({j \in DOMAIN got[c] : got[c][j][1] = 0})

InputGarbled(b, i, c) ==
  /\ garbled' = garbled \cup {c}
  /\ \E rest \in {b, <<>>} : buffer' = [buffer EXCEPT ![i] = rest]
  /\ \/ UNCHANGED <<known, got>>
     \/ /\ Garbage(i, c) < MaxGarbage
        /\ \E t \in Types, n \in Names :
             \/ /\ known' = [known EXCEPT ![i] =
                               {d \in @ : d[1] # t} \cup {<<t, n>>}]
                /\ UNCHANGED got
             \/ /\ got' = [got EXCEPT ![c] = Append(@, <<0, n>>)]
                /\ UNCHANGED known

\* recv() takes some of what is there.
Receive(f, i) ==
  /\ Incoming(f, i)
  /\ LET c == conn[f]
     IN \E k \in 1..Len(wire[c]) :
          LET b == buffer[i] \o SubSeq(wire[c], 1, k)
          IN /\ wire' = [wire EXCEPT ![c] = SubSeq(@, k + 1, Len(@))]
             /\ IF Cut(b, c) THEN InputGarbled(b, i, c)
                ELSE Input(b, i, c) /\ UNCHANGED garbled
  /\ NextSocket
  /\ UNCHANGED <<came, backlog, left, types, sent, conn, bound, peers,
                 bySocket, nextId, watched, ignored, mod, stored, reloads>>

\* A length in the bytes of a cut stream may be one that no string has: that
\* exception is not UnknownPacketReceived, and nothing catches it.
InputThrows(f, i) ==
  /\ Incoming(f, i) /\ wire[conn[f]] # <<>>
  /\ Cut(buffer[i] \o wire[conn[f]], conn[f])
  /\ Crash

-----------------------------------------------------------------------------
(* A reload of the module: see ServerModules *)

\* on_unload()
OnUnload ==
  /\ mod = "up" /\ pc # "handle" /\ reloads < MaxReloads
  /\ reloads' = reloads + 1
  /\ mod' = "stored" /\ stored' = peers
  /\ UNCHANGED <<clientVars, peerVars, threadVars, got, garbled>>

\* unload_module_u() removes the module from the server's containers ...
Erase ==
  /\ mod = "stored"
  /\ mod' = "erased"
  /\ UNCHANGED <<clientVars, peerVars, threadVars, stored, reloads, got,
                 garbled>>

\* ... and deletes it after its thread ended.  ~Module() waits for the
\* NetworkThread.
RequestStop ==
  /\ mod = "erased" /\ pc # "handle"
  /\ mod' = "stopping"
  /\ UNCHANGED <<clientVars, peerVars, threadVars, stored, reloads, got,
                 garbled>>

ThreadEnds ==
  /\ mod = "stopping" /\ pc = "get"
  /\ pc' = "ended"
  /\ UNCHANGED <<clientVars, peerVars, watched, active, ignored, mod, stored,
                 reloads, got, garbled>>

\* The sockets are released without being closed.  The new module's init()
\* starts a thread, which waits for nothing until core:continue.
Restart ==
  /\ mod = "stopping" /\ pc = "ended"
  /\ mod' = "init" /\ bound' = FALSE
  /\ peers' = NoPeers /\ bySocket' = [f \in Fds |-> None] /\ nextId' = 1
  /\ buffer' = NoBuffers /\ known' = NoTypes
  /\ pc' = "get" /\ watched' = <<>> /\ active' = <<>> /\ ignored' = {}
  /\ UNCHANGED <<clientVars, conn, stored, reloads, got, garbled>>

\* on_continue() makes the stored peers, each with a new Peer.
OnContinue ==
  /\ mod = "init" /\ pc # "handle"
  /\ mod' = "up" /\ bound' = TRUE
  /\ peers' = stored
  /\ bySocket' = [f \in Fds |-> LET ids == {i \in PeerIds : stored[i] = f}
                                IN IF ids = {} THEN None ELSE Max(ids)]
  /\ UNCHANGED <<clientVars, conn, nextId, buffer, known, threadVars, stored,
                 reloads, got, garbled>>

-----------------------------------------------------------------------------

ClientStep ==
  \E c \in Clients : Connect(c) \/ Leave(c) \/ \E n \in Names : Send(c, n)

ThreadStep ==
  \/ GetSockets \/ Discarded \/ Select \/ HandleNothing
  \/ Accept \/ NoPeer \/ ThreadEnds
  \/ \E f \in Fds, i \in PeerIds :
       Disconnect(f, i) \/ Receive(f, i) \/ InputThrows(f, i)

ModuleStep == OnUnload \/ Erase \/ RequestStop \/ Restart \/ OnContinue

Next == ClientStep \/ ThreadStep \/ ModuleStep

\* The thread goes on: select() returns after at most half a second, and the
\* module's thread takes its calls.  So does a reload that has begun.
Fairness ==
  /\ WF_vars(ThreadStep)
  /\ WF_vars(Erase \/ RequestStop \/ Restart \/ OnContinue)

Spec == Init /\ [][Next]_vars
FairSpec == Spec /\ Fairness

-----------------------------------------------------------------------------
(* Properties *)

\* The events that a client's packets become have the names the client gave
\* them and come in its order, none twice: whatever pieces recv() delivers,
\* and over a reload, which may lose some.  Only when a reload cut the
\* client's stream within a packet, the rest of it may be taken for anything.
PacketsInOrder ==
  \A c \in Clients \ garbled : \A j \in DOMAIN got[c] :
    /\ got[c][j][2] = sent[c][got[c][j][1]]
    /\ \A k \in 1..(j - 1) : got[c][k][1] < got[c][j][1]

\* A packet becomes an event in the end, also one whose sender leaves at
\* once, unless its sender uses more names than a signed byte can number, or
\* the module is reloaded.
Sayable(c) == FirstType + Len(types[c]) <= SignBit

PacketsArrive ==
  \A c \in Clients : \A no \in 1..MaxPackets[c] :
    Len(sent[c]) >= no ~>
      Len(got[c]) >= no \/ ~Sayable(c) \/ reloads > 0

\* src/builtin/network/network.cpp:218, "on_incoming_data: fds don't match":
\* thrown when the peer of a socket with data has another socket, which ends
\* the server: it never is.
FdsMatch ==
  Handling /\ Head(active) # Listening /\ bySocket[Head(active)] # None =>
    peers[bySocket[Head(active)]] = Head(active)
=============================================================================
