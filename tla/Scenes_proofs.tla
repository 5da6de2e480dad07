--------------------------- MODULE Scenes_proofs ---------------------------
(***************************************************************************)
(* Two modules that work on the scenes of main_context, each by itself.    *)
(*                                                                         *)
(* WorldGen: the GenerateThread never sleeps over a queued section, for    *)
(* any set of scenes and worlds of any size.  TokensSuffice is inductive   *)
(* with TypeOK and QueueInv: a token is owed to every scene that the       *)
(* callback has yet to see, and it passes over no scene with a queue.      *)
(*                                                                         *)
(* SceneReplication: the copies of any number of clients of any tree of    *)
(* nodes stay well-formed.  What replicate knows a peer to have is in the  *)
(* client's copy or on the wire to it, each packet of the wire finds what  *)
(* its handler needs of the client, and what a peer on the scene does not  *)
(* have is dirty for it (SentInv).  The packets of a sync are joined by a  *)
(* recursive function, which is unfolded node by node (Flattened): when    *)
(* the next one is sent the wire is already as it will be then.            *)
(***************************************************************************)
EXTENDS WorldGen, SceneReplication, SequenceTheorems, FiniteSetTheorems,
        WellFoundedInduction, NaturalsInduction, TLAPS

-----------------------------------------------------------------------------
(* Generation *)

\* The queue goes with the instance.
QueueInv == \A s \in Scenes : generator[s] = "none" => queue[s] = <<>>

\* Every variable keeps its type; a deleted world has no made sections.
THEOREM TypeCorrect == Spec => []TypeOK
<1>1. Init => TypeOK
  BY WorldGenAssumption DEF Init, TypeOK, Places
<1>2. TypeOK /\ [Next]_vars => TypeOK'
  <2> SUFFICES ASSUME TypeOK, [Next]_vars PROVE TypeOK'
    OBVIOUS
  <2> USE WorldGenAssumption DEF TypeOK, Places
  <2>1. CASE UNCHANGED vars
    BY <2>1 DEF vars
  <2>2. ASSUME NEW s \in Scenes, CreateWorld(s) PROVE TypeOK'
    <3>1. [x \in 1..Size |-> <<s, x>>] \in Seq(Places)
      BY DEF Sections
    <3>2. events' \in Seq(Places)
      BY <2>2, <3>1, ConcatProperties DEF CreateWorld
    <3> QED
      BY <2>2, <3>2 DEF CreateWorld
  <2>3. ASSUME NEW s \in Scenes, DeleteWorld(s) PROVE TypeOK'
    BY <2>3 DEF DeleteWorld
  <2>4. ASSUME NEW s \in Scenes, CreateGenerator(s) PROVE TypeOK'
    BY <2>4 DEF CreateGenerator
  <2>5. ASSUME NEW s \in Scenes, Enable(s) PROVE TypeOK'
    BY <2>5 DEF Enable
  <2>6. ASSUME NEW s \in Scenes, DeleteGenerator(s) PROVE TypeOK'
    BY <2>6 DEF DeleteGenerator
  <2>7. CASE OnGenerationRequest
    <3>1. events' \in Seq(Places)
      BY <2>7 DEF OnGenerationRequest
    <3>2. Head(events)[1] \in Scenes /\ Head(events)[2] \in Sections
      BY <2>7 DEF OnGenerationRequest
    <3>3. queue' \in [Scenes -> Seq(Sections)] /\ sem' \in Nat
      <4>1. CASE generator[Head(events)[1]] = "none"
        BY <2>7, <4>1 DEF OnGenerationRequest
      <4>2. CASE generator[Head(events)[1]] # "none"
        <5>1. Append(queue[Head(events)[1]], Head(events)[2])
                \in Seq(Sections)
          BY <3>2
        <5>2. /\ queue' = [queue EXCEPT ![Head(events)[1]] =
                             Append(@, Head(events)[2])]
              /\ sem' = sem + 1
          BY <2>7, <4>2 DEF OnGenerationRequest
        <5> QED
          BY <3>2, <5>1, <5>2
      <4> QED
        BY <4>1, <4>2
    <3> QED
      BY <2>7, <3>1, <3>3 DEF OnGenerationRequest
  <2>8. CASE TakeToken
    BY <2>8 DEF TakeToken
  <2>9. CASE EnterCallback
    BY <2>9 DEF EnterCallback
  <2>10. CASE LeaveCallback
    BY <2>10 DEF LeaveCallback
  <2>11. ASSUME NEW s \in Scenes, PostAgain(s) PROVE TypeOK'
    BY <2>11 DEF PostAgain
  <2>12. ASSUME NEW s \in Scenes, GenerateNextSection(s) PROVE TypeOK'
    <3>1. queue' \in [Scenes -> Seq(Sections)]
      <4>1. queue[s] # <<>> => Tail(queue[s]) \in Seq(Sections)
        OBVIOUS
      <4> QED
        BY <2>12, <4>1 DEF GenerateNextSection
    <3> QED
      BY <2>12, <3>1 DEF GenerateNextSection
  <2> QED
    BY <2>1, <2>2, <2>3, <2>4, <2>5, <2>6, <2>7, <2>8, <2>9, <2>10,
       <2>11, <2>12 DEF Next, Thread
<1> QED
  BY <1>1, <1>2, PTL DEF Spec

\* Every action keeps the queues of scenes without an instance empty.
LEMMA QueuesGo == Spec => []QueueInv
<1>1. Init => QueueInv
  BY DEF Init, QueueInv
<1>2. TypeOK /\ QueueInv /\ [Next]_vars => QueueInv'
  <2> SUFFICES ASSUME TypeOK, QueueInv, [Next]_vars PROVE QueueInv'
    OBVIOUS
  <2> USE DEF TypeOK, QueueInv
  <2>1. CASE UNCHANGED <<generator, queue>>
    BY <2>1
  <2>2. ASSUME NEW s \in Scenes, CreateGenerator(s) \/ Enable(s)
        PROVE QueueInv'
    BY <2>2 DEF CreateGenerator, Enable
  <2>3. ASSUME NEW s \in Scenes, DeleteGenerator(s) PROVE QueueInv'
    BY <2>3 DEF DeleteGenerator
  <2>4. CASE OnGenerationRequest
    BY <2>4 DEF OnGenerationRequest
  <2>5. ASSUME NEW s \in Scenes, GenerateNextSection(s) PROVE QueueInv'
    BY <2>5 DEF GenerateNextSection
  <2> QED
    BY <2>1, <2>2, <2>3, <2>4, <2>5
    DEF Next, Thread, vars, CreateWorld, DeleteWorld, TakeToken,
        EnterCallback, LeaveCallback, PostAgain
<1> QED
  BY <1>1, <1>2, TypeCorrect, PTL DEF Spec

\* There are tokens for the longest queue, counting the one that the thread
\* has taken and still owes to a scene.
THEOREM NeverAsleep == Spec => []TokensSuffice
<1>1. Init => TokensSuffice
  BY DEF Init, TokensSuffice, Owed
<1>2. TypeOK /\ QueueInv /\ TokensSuffice /\ [Next]_vars => TokensSuffice'
  <2> SUFFICES ASSUME TypeOK, QueueInv, TokensSuffice, [Next]_vars,
                      NEW t \in Scenes
               PROVE (Len(queue[t]) <= sem + Owed(t))'
    BY DEF TokensSuffice
  <2>t. /\ Len(queue[t]) <= sem + Owed(t)
        /\ Len(queue[t]) \in Nat /\ sem \in Nat
    BY DEF TokensSuffice, TypeOK
  <2>1. CASE UNCHANGED vars
    BY <2>1, <2>t DEF vars, Owed
  <2>2. ASSUME NEW s \in Scenes, CreateWorld(s) \/ DeleteWorld(s)
                 \/ CreateGenerator(s) \/ Enable(s)
        PROVE (Len(queue[t]) <= sem + Owed(t))'
    BY <2>2, <2>t DEF CreateWorld, DeleteWorld, CreateGenerator, Enable, Owed
  <2>3. ASSUME NEW s \in Scenes, DeleteGenerator(s)
        PROVE (Len(queue[t]) <= sem + Owed(t))'
    BY <2>3, <2>t DEF DeleteGenerator, Owed, TypeOK
  <2>4. CASE OnGenerationRequest
    <3>1. Owed(t)' = Owed(t)
      BY <2>4 DEF OnGenerationRequest, Owed
    <3>2. Head(events)[2] \in Sections
      BY <2>4 DEF OnGenerationRequest, TypeOK, Places
    <3>3. \/ queue' = queue /\ sem' = sem
          \/ sem' = sem + 1 /\ Len(queue'[t]) <= Len(queue[t]) + 1
      BY <2>4, <3>2 DEF OnGenerationRequest, TypeOK
    <3>4. CASE queue' = queue /\ sem' = sem
      BY <3>1, <3>4, <2>t DEF Owed
    <3>5. CASE sem' = sem + 1 /\ Len(queue'[t]) <= Len(queue[t]) + 1
      <4>1. Len(queue'[t]) \in Nat
        BY <2>4, <3>2 DEF OnGenerationRequest, TypeOK
      <4> QED
        BY <3>1, <3>5, <4>1, <2>t DEF Owed
    <3> QED
      BY <3>3, <3>4, <3>5
  <2>5. CASE TakeToken
    BY <2>5, <2>t DEF TakeToken, Owed
  <2>6. CASE EnterCallback
    \* A scene without an instance has no queue.
    BY <2>6, <2>t DEF EnterCallback, Owed, TypeOK, QueueInv
  <2>7. CASE LeaveCallback
    BY <2>7, <2>t DEF LeaveCallback, Owed
  <2>8. ASSUME NEW s \in Scenes, PostAgain(s)
        PROVE (Len(queue[t]) <= sem + Owed(t))'
    BY <2>8, <2>t DEF PostAgain, Owed
  <2>9. ASSUME NEW s \in Scenes, GenerateNextSection(s)
         PROVE (Len(queue[t]) <= sem + Owed(t))'
    BY <2>9, <2>t DEF GenerateNextSection, Owed, TypeOK
  <2> QED
    BY <2>1, <2>2, <2>3, <2>4, <2>5, <2>6, <2>7, <2>8, <2>9
    DEF Next, Thread
<1> QED
  BY <1>1, <1>2, TypeCorrect, QueuesGo, PTL DEF Spec

-----------------------------------------------------------------------------
(* Sequences made part by part *)

LEMMA Least ==
  ASSUME NEW Q, Q \subseteq Nat, Q # {}
  PROVE  \E i \in Q : \A j \in Q : ~(j < i)
<1>1. IsWellFoundedOn(OpToRel(<, Nat), Nat)
  BY NatLessThanWellFounded
<1>2. \E i \in Q : \A j \in Q : ~(<<j, i>> \in OpToRel(<, Nat))
  BY <1>1, WFMin
<1> QED
  BY <1>2 DEF OpToRel

\* What FlattenSeq builds
Flattening(s, f, k) ==
  f = [i \in 1..k |-> IF i = 1 THEN s[i] ELSE f[i - 1] \o s[i]]

LEMMA FlatteningExists ==
  ASSUME NEW s, NEW k \in Nat
  PROVE  \E f : Flattening(s, f, k)
<1> DEFINE Q == {n \in Nat : ~\E f : Flattening(s, f, n)}
<1> SUFFICES ASSUME Q # {} PROVE FALSE
  OBVIOUS
<1>1. PICK n \in Q : \A j \in Q : ~(j < n)
  BY Least
<1>2. CASE n = 0
  <2>1. Flattening(s, [i \in 1..0 |-> <<>>], 0)
    BY DEF Flattening
  <2> QED
    BY <1>1, <1>2, <2>1
<1>3. CASE n # 0
  <2>1. n - 1 \in Nat /\ n - 1 < n /\ n - 1 \notin Q
    BY <1>1, <1>3
  <2>2. PICK f : Flattening(s, f, n - 1)
    BY <2>1
  <2> DEFINE g == [i \in 1..n |-> IF i = n THEN IF n = 1 THEN s[1] ELSE f[n - 1] \o s[n]
                                  ELSE f[i]]
  <2>3. ASSUME NEW i \in 1..n
        PROVE  g[i] = IF i = 1 THEN s[i] ELSE g[i - 1] \o s[i]
    <3>1. CASE i = n
      <4>1. CASE n = 1
        BY <3>1, <4>1
      <4>2. CASE n # 1
        <5>1. n - 1 \in 1..n /\ n - 1 # n
          BY <1>1, <1>3, <4>2
        <5> QED
          BY <3>1, <4>2, <5>1
      <4> QED
        BY <4>1, <4>2
    <3>2. CASE i # n
      <4>1. i \in 1..(n - 1)
        BY <1>1, <3>2
      <4>2. f[i] = IF i = 1 THEN s[i] ELSE f[i - 1] \o s[i]
        BY <2>2, <4>1 DEF Flattening
      <4>3. i # 1 => i - 1 \in 1..n /\ i - 1 # n
        BY <1>1, <4>1
      <4> QED
        BY <3>2, <4>2, <4>3
    <3> QED
      BY <3>1, <3>2
  <2>4. g = [i \in 1..n |-> IF i = 1 THEN s[i] ELSE g[i - 1] \o s[i]]
    BY <2>3
  <2>5. Flattening(s, g, n)
    BY <2>4 DEF Flattening
  <2> QED
    BY <1>1, <2>5
<1> QED
  BY <1>2, <1>3

LEMMA Flattened ==
  ASSUME NEW s, Len(s) \in Nat, Len(s) # 0
  PROVE  \E f : Flattening(s, f, Len(s)) /\ FlattenSeq(s) = f[Len(s)]
<1> DEFINE f == CHOOSE f : Flattening(s, f, Len(s))
<1>1. Flattening(s, f, Len(s))
  BY FlatteningExists
<1>2. FlattenSeq(s) = f[Len(s)]
  BY DEF FlattenSeq, Flattening
<1> QED
  BY <1>1, <1>2

-----------------------------------------------------------------------------
(* Replication *)

Packets == [kind : {"create"}, n : Nodes, val : [Kinds -> 0..MaxEdits]]
             \cup [kind : Kinds, n : Nodes, val : 0..MaxEdits]
             \cup [kind : {"remove", "remove_component", "create_component"}, n : Nodes]

\* A client with the nodes c has n by the time it gets packet i of w.
Created(c, w, n, i) ==
  \/ c[n] # NoNode
  \/ \E j \in 1..Len(w) : j < i /\ w[j].kind = "create" /\ w[j].n = n
Gets(c, w, n) == Created(c, w, n, Len(w) + 1)

\* Each packet of w finds the node that its handler needs.
Usable(c, w) ==
  \A i \in 1..Len(w) :
    /\ w[i].kind = "delta" => Created(c, w, w[i].n, i)
    /\ w[i].kind = "create" /\ Parent[w[i].n] # NoNode => Created(c, w, Parent[w[i].n], i)

SRTypeInv == SRTypeOK /\ wire \in [Peers -> Seq(Packets)]

\* What replicate takes a peer to have it was sent, and all that a peer was not
\* sent of its scene is to be looked at by the next sync.
SentInv ==
  /\ \A n \in Live : Parent[n] \in Live \cup {NoNode}
  /\ \A p \in rooted : Live \subseteq known[p] \cup dirty[p]
  /\ \A p \in Peers : /\ Usable(copy[p], wire[p])
                      /\ \A n \in known[p] : Gets(copy[p], wire[p], n)

SRInv == SRTypeInv /\ SentInv /\ CopiesAreWellFormed

-----------------------------------------------------------------------------
(* What packets do to the wire of a client *)

After(c, w, v) ==
  v \in Seq(Packets) /\ Usable(c, v) /\ \A n : Gets(c, w, n) => Gets(c, v, n)

LEMMA PacketSent ==
  ASSUME NEW c, NEW w \in Seq(Packets), NEW m \in Packets, Usable(c, w),
         m.kind = "delta" => Gets(c, w, m.n),
         m.kind = "create" /\ Parent[m.n] # NoNode => Gets(c, w, Parent[m.n])
  PROVE  After(c, w, w \o <<m>>) /\ (m.kind = "create" => Gets(c, w \o <<m>>, m.n))
<1> DEFINE v == w \o <<m>>
           k == Len(w)
<1>1. /\ v \in Seq(Packets) /\ k \in Nat /\ Len(v) = k + 1
      /\ \A j \in 1..k : v[j] = w[j]
      /\ v[k + 1] = m
  OBVIOUS
<1>2. \A j \in 1..(k + 1) : j \in 1..k \/ j = k + 1
  BY <1>1
<1>3. \A j \in 1..k : j \in 1..(k + 1) /\ j < k + 2
  BY <1>1
<1>4. k + 1 \in 1..(k + 1) /\ k + 1 < k + 2 /\ (k + 1) + 1 = k + 2
  BY <1>1
<1>5. k = Len(w)
  OBVIOUS
<1> HIDE DEF v, k
<1>6. ASSUME NEW n, NEW i \in 1..(k + 1), Created(c, w, n, i) PROVE Created(c, v, n, i)
  BY <1>1, <1>3, <1>5, <1>6 DEF Created
<1>7. \A n : Gets(c, w, n) => Gets(c, v, n)
  BY <1>1, <1>3, <1>4, <1>5 DEF Gets, Created
<1>8. Usable(c, v)
  <2>1. ASSUME NEW i \in 1..k
        PROVE  /\ v[i].kind = "delta" => Created(c, v, v[i].n, i)
               /\ v[i].kind = "create" /\ Parent[v[i].n] # NoNode
                    => Created(c, v, Parent[v[i].n], i)
    <3>1. v[i] = w[i] /\ i \in 1..(k + 1)
      BY <1>1, <1>3
    <3> QED
      BY <1>5, <1>6, <3>1 DEF Usable
  <2>2. /\ m.kind = "delta" => Created(c, v, m.n, k + 1)
        /\ m.kind = "create" /\ Parent[m.n] # NoNode => Created(c, v, Parent[m.n], k + 1)
    BY <1>4, <1>5, <1>6 DEF Gets
  <2> QED
    BY <1>1, <1>2, <2>1, <2>2 DEF Usable
<1>9. m.kind = "create" => Gets(c, v, m.n)
  BY <1>1, <1>4 DEF Gets, Created
<1> QED
  BY <1>1, <1>7, <1>8, <1>9 DEF After, v

\* ... if there is a packet
LEMMA PerhapsSent ==
  ASSUME NEW c, NEW w \in Seq(Packets), NEW m, NEW s, Usable(c, w),
         s = <<>> \/ (s = <<m>> /\ m \in Packets),
         m.kind = "delta" => Gets(c, w, m.n), m.kind # "create"
  PROVE  s \in Seq(Packets) /\ After(c, w, w \o s)
<1>1. CASE s = <<>>
  <2>1. w \o s = w /\ s \in Seq(Packets)
    BY <1>1, ConcatEmptySeq
  <2> QED
    BY <2>1 DEF After
<1>2. CASE s = <<m>> /\ m \in Packets
  BY <1>2, PacketSent
<1> QED
  BY <1>1, <1>2

LEMMA NodeSent ==
  ASSUME SRTypeInv, NEW p \in Peers, NEW n \in Nodes, NEW c, NEW w \in Seq(Packets),
         Usable(c, w), n \in known[p] => Gets(c, w, n),
         n \notin known[p] /\ n \in Live /\ Parent[n] # NoNode => Gets(c, w, Parent[n])
  PROVE  /\ NodePackets(p, n) \in Seq(Packets)
         /\ After(c, w, w \o NodePackets(p, n))
         /\ n \in Live \cup known[p] => Gets(c, w \o NodePackets(p, n), n)
<1>0. node[n].val \in [Kinds -> 0..MaxEdits]
  BY DEF SRTypeInv, SRTypeOK
<1>1. CASE n \notin known[p] /\ n \in Live
  <2> DEFINE m == [kind |-> "create", n |-> n, val |-> node[n].val]
  <2>1. m \in Packets /\ m.kind = "create" /\ m.n = n
    BY <1>0 DEF Packets
  <2>2. NodePackets(p, n) = <<m>>
    BY <1>1 DEF NodePackets
  <2> HIDE DEF m
  <2> QED
    BY <1>1, <2>1, <2>2, PacketSent
<1>2. CASE n \notin known[p] /\ n \notin Live
  <2>1. NodePackets(p, n) = <<>>
    BY <1>2 DEF NodePackets
  <2>2. w \o <<>> = w /\ <<>> \in Seq(Packets)
    BY ConcatEmptySeq
  <2> QED
    BY <1>2, <2>1, <2>2 DEF After
<1>3. CASE n \in known[p] /\ n \notin Live
  <2> DEFINE m == [kind |-> "remove", n |-> n]
  <2>1. m \in Packets /\ m.kind = "remove"
    BY DEF Packets
  <2>2. NodePackets(p, n) = <<m>>
    BY <1>3 DEF NodePackets
  <2> HIDE DEF m
  <2> QED
    BY <1>3, <2>1, <2>2, PacketSent DEF After
<1>4. CASE n \in known[p] /\ n \in Live
  <2> DEFINE of(k) == IF <<n, k>> \in changed[p]
                      THEN <<[kind |-> k, n |-> n, val |-> node[n].val[k]]>> ELSE <<>>
             s == ComponentPackets(p, n)
             a == of("latest")
             b == of("delta")
  <2>1. NodePackets(p, n) = (a \o b) \o s
    BY <1>4 DEF NodePackets, DataPackets
  <2>2. /\ [kind |-> "latest", n |-> n, val |-> node[n].val["latest"]] \in Packets
        /\ [kind |-> "delta", n |-> n, val |-> node[n].val["delta"]] \in Packets
        /\ [kind |-> "remove_component", n |-> n] \in Packets
        /\ [kind |-> "create_component", n |-> n] \in Packets
    BY <1>0 DEF Packets, Kinds
  <2>3. PICK m \in Packets : (a = <<>> \/ a = <<m>>) /\ m.kind = "latest"
    BY <2>2
  <2>4. PICK d \in Packets : (b = <<>> \/ b = <<d>>) /\ d.kind = "delta" /\ d.n = n
    BY <2>2
  <2>5. PICK e \in Packets : (s = <<>> \/ s = <<e>>) /\ e.kind \notin {"delta", "create"}
    BY <2>2 DEF ComponentPackets
  <2> HIDE DEF a, b, s
  <2>6. a \in Seq(Packets) /\ After(c, w, w \o a)
    BY <2>3, PerhapsSent
  <2>7. /\ w \o a \in Seq(Packets) /\ Usable(c, w \o a) /\ Gets(c, w \o a, n)
    BY <1>4, <2>6 DEF After
  <2>8. b \in Seq(Packets) /\ After(c, w \o a, (w \o a) \o b)
    BY <2>4, <2>7, PerhapsSent
  <2>9. (w \o a) \o b \in Seq(Packets) /\ Usable(c, (w \o a) \o b)
    BY <2>8 DEF After
  <2>10. s \in Seq(Packets) /\ After(c, (w \o a) \o b, ((w \o a) \o b) \o s)
    BY <2>5, <2>9, PerhapsSent
  <2>11. a \o b \in Seq(Packets) /\ (a \o b) \o s \in Seq(Packets)
    BY <2>6, <2>8, <2>10
  <2>12. ((w \o a) \o b) \o s = w \o ((a \o b) \o s)
    <3>1. (w \o a) \o b = w \o (a \o b)
      BY <2>6, <2>8, ConcatAssociative
    <3>2. (w \o (a \o b)) \o s = w \o ((a \o b) \o s)
      BY SMTT(30), <2>10, <2>11, ConcatAssociative
    <3> QED
      BY <3>1, <3>2
  <2> QED
    BY <1>4, <2>1, <2>6, <2>8, <2>10, <2>11, <2>12 DEF After
<1> QED
  BY <1>1, <1>2, <1>3, <1>4

LEMMA AfterTwice ==
  ASSUME NEW c, NEW u, NEW v, NEW w, After(c, u, v), After(c, v, w)
  PROVE  After(c, u, w)
BY DEF After

LEMMA Together ==
  \A u, v, w \in Seq(Packets) : (u \o v) \o w = u \o (v \o w)
BY SMTT(30), ConcatAssociative

\* What sync_changes() sends to a peer
LEMMA NodesSent ==
  ASSUME SRTypeInv, SentInv, NEW p \in Peers,
         NEW S \in SUBSET Nodes, NEW order \in SetToSeqs(S),
         ToSet(order) = ToSync(p), RightOrder(order, p)
  PROVE  /\ After(copy[p], wire[p], wire[p] \o PacketsOf(p, order))
         /\ \A n \in ToSync(p) \cap (Live \cup known[p]) :
              Gets(copy[p], wire[p] \o PacketsOf(p, order), n)
<1> DEFINE c == copy[p]
           w == wire[p]
           s == [i \in DOMAIN order |-> NodePackets(p, order[i])]
           k == Cardinality(S)
<1>1. /\ w \in Seq(Packets) /\ Usable(c, w) /\ \A n \in known[p] : Gets(c, w, n)
      /\ ToSync(p) \subseteq Nodes
  <2>1. dirty[p] \subseteq Nodes
    BY DEF SRTypeInv, SRTypeOK
  <2> QED
    BY <2>1 DEF SRTypeInv, SentInv, ToSync, Live
<1>2. k \in Nat
  <2>1. IsFiniteSet(S)
    BY SceneReplicationAssumption, FS_Subset
  <2> QED
    BY <2>1, FS_CardinalityType
<1>3. /\ DOMAIN order = 1..k /\ \A i \in 1..k : order[i] \in ToSync(p)
      /\ \A n \in ToSync(p) : \E i \in 1..k : order[i] = n
  BY DEF SetToSeqs, ToSet
<1>4. DOMAIN s = 1..k /\ Len(s) = k /\ \A i \in 1..k : s[i] = NodePackets(p, order[i])
  BY <1>2, <1>3
<1>5. PacketsOf(p, order) = FlattenSeq(s)
  BY DEF PacketsOf
<1>6. \A n \in ToSync(p) : n \notin known[p] /\ n \in Live /\ Parent[n] # NoNode =>
        Parent[n] \in known[p] \/ \E j \in 1..k : order[j] = Parent[n]
  <2> SUFFICES ASSUME NEW n \in ToSync(p), n \in Live, Parent[n] # NoNode,
                      Parent[n] \notin known[p]
               PROVE  Parent[n] \in ToSync(p)
    BY <1>3
  <2>1. Parent[n] \in Live
    BY DEF SentInv
  <2> QED
    BY <2>1 DEF SentInv, ToSync
<1>7. CASE k = 0
  <2>1. s = <<>> /\ FlattenSeq(s) = s
    BY <1>4, <1>7 DEF FlattenSeq
  <2>2. w \o <<>> = w
    BY <1>1, ConcatEmptySeq
  <2>3. ToSync(p) = {}
    BY <1>3, <1>7
  <2> QED
    BY <1>1, <1>5, <2>1, <2>2, <2>3 DEF After
<1>8. CASE k # 0
  <2>1. PICK f : Flattening(s, f, k) /\ FlattenSeq(s) = f[k]
    BY <1>2, <1>4, <1>8, Flattened
  <2>2. ASSUME NEW i \in 1..k
        PROVE  f[i] = IF i = 1 THEN NodePackets(p, order[i])
                               ELSE f[i - 1] \o NodePackets(p, order[i])
    BY <1>4, <2>1, <2>2 DEF Flattening
  <2> DEFINE Good(i) == /\ f[i] \in Seq(Packets) /\ After(c, w, w \o f[i])
                        /\ \A j \in 1..i : order[j] \in Live \cup known[p] =>
                             Gets(c, w \o f[i], order[j])
             Q == {i \in 1..k : ~Good(i)}
  <2> HIDE DEF s, k, w, c
  <2>3. Q = {}
    <3> SUFFICES ASSUME Q # {} PROVE FALSE
      OBVIOUS
    <3>1. Q \subseteq Nat
      OBVIOUS
    <3>2. PICK i \in Q : \A j \in Q : ~(j < i)
      BY <3>1, Least
    <3>3. i \in 1..k /\ ~Good(i) /\ i \in Nat
      BY <3>2
    <3> DEFINE n == order[i]
    <3>4. n \in ToSync(p) /\ n \in Nodes
      BY <1>1, <1>3, <3>3
    <3>5. CASE i = 1
      <4>1. n \notin known[p] /\ n \in Live /\ Parent[n] # NoNode => Gets(c, w, Parent[n])
        <5> SUFFICES ASSUME n \notin known[p], n \in Live, Parent[n] # NoNode,
                            Parent[n] \notin known[p]
                     PROVE  FALSE
          BY <1>1
        <5>1. PICK j \in 1..k : order[j] = Parent[n]
          BY <1>6, <3>4
        <5>2. j < 1
          BY <1>3, <3>3, <3>5, <5>1 DEF RightOrder
        <5> QED
          BY <5>2
      <4>2. /\ NodePackets(p, n) \in Seq(Packets)
            /\ After(c, w, w \o NodePackets(p, n))
            /\ n \in Live \cup known[p] => Gets(c, w \o NodePackets(p, n), n)
        <5> HIDE DEF n
        <5> QED
          BY <1>1, <3>4, <4>1, NodeSent
      <4>3. f[1] = NodePackets(p, n) /\ \A j \in 1..1 : order[j] = n
        BY <2>2, <3>3, <3>5
      <4> QED
        BY <3>3, <3>5, <4>2, <4>3
    <3>6. CASE i # 1
      <4>1. i - 1 \in 1..k /\ i - 1 < i /\ \A j \in 1..i : j \in 1..(i - 1) \/ j = i
        BY <1>2, <3>3, <3>6
      <4>2. Good(i - 1)
        BY <3>2, <4>1
      <4> DEFINE u == w \o f[i - 1]
      <4>3. u \in Seq(Packets) /\ Usable(c, u) /\ (\A x : Gets(c, w, x) => Gets(c, u, x))
            /\ f[i - 1] \in Seq(Packets) /\ After(c, w, u)
        BY <4>2 DEF After
      <4>4. \A j \in 1..(i - 1) : order[j] \in Live \cup known[p] => Gets(c, u, order[j])
        BY <4>2
      <4>5. n \in known[p] => Gets(c, u, n)
        BY <1>1, <4>3
      <4>6. n \notin known[p] /\ n \in Live /\ Parent[n] # NoNode => Gets(c, u, Parent[n])
        <5> SUFFICES ASSUME n \notin known[p], n \in Live, Parent[n] # NoNode,
                            Parent[n] \notin known[p]
                     PROVE  Gets(c, u, Parent[n])
          BY <1>1, <4>3
        <5>1. PICK j \in 1..k : order[j] = Parent[n]
          BY <1>6, <3>4
        <5>2. j < i
          BY <1>3, <3>3, <5>1 DEF RightOrder
        <5>3. j \in 1..(i - 1)
          BY <3>3, <5>2
        <5>4. order[j] \in Live
          BY <5>1 DEF SentInv
        <5> QED
          BY <4>4, <5>1, <5>3, <5>4
      <4> HIDE DEF u
      <4>7. /\ NodePackets(p, n) \in Seq(Packets)
            /\ After(c, u, u \o NodePackets(p, n))
            /\ n \in Live \cup known[p] => Gets(c, u \o NodePackets(p, n), n)
        <5> HIDE DEF n
        <5> QED
          BY <3>4, <4>3, <4>5, <4>6, NodeSent
      <4>8. f[i] = f[i - 1] \o NodePackets(p, n)
        BY <2>2, <3>3, <3>6
      <4>9. f[i] \in Seq(Packets) /\ w \o f[i] = u \o NodePackets(p, n)
        <5> HIDE DEF n
        <5>1. f[i] \in Seq(Packets)
          BY <4>3, <4>7, <4>8
        <5>2. (w \o f[i - 1]) \o NodePackets(p, n) = w \o (f[i - 1] \o NodePackets(p, n))
          <6>1. \E g, z \in Seq(Packets) : g = f[i - 1] /\ z = NodePackets(p, n)
            BY <4>3, <4>7
          <6>2. \A g, z \in Seq(Packets) : (w \o g) \o z = w \o (g \o z)
            BY <1>1, Together
          <6> QED
            BY <6>1, <6>2
        <5> QED
          BY <4>8, <5>1, <5>2 DEF u
      <4>10. After(c, w, w \o f[i]) /\ \A x : Gets(c, u, x) => Gets(c, w \o f[i], x)
        BY <4>3, <4>7, <4>9, AfterTwice DEF After
      <4>11. ASSUME NEW j \in 1..i, order[j] \in Live \cup known[p]
             PROVE  Gets(c, w \o f[i], order[j])
        BY <4>1, <4>4, <4>7, <4>9, <4>10, <4>11
      <4> QED
        BY <3>3, <4>9, <4>10, <4>11
    <3> QED
      BY <3>5, <3>6
  <2>4. k \in 1..k
    BY <1>2, <1>8
  <2>5. Good(k)
    BY <2>3, <2>4
  <2>6. \A n \in ToSync(p) : \E j \in 1..k : order[j] = n
    BY <1>3
  <2> QED
    BY <1>5, <2>1, <2>5, <2>6 DEF w, c
<1> QED
  BY <1>2, <1>7, <1>8

\* What the client does with a packet
LEMMA PacketReceived ==
  ASSUME NEW w \in Seq(Packets), w # <<>>, NEW c, NEW d, Usable(c, w),
         \A n \in Nodes : c[n] # NoNode => d[n] # NoNode,
         Head(w).kind = "create" => d[Head(w).n] # NoNode
  PROVE  /\ Tail(w) \in Seq(Packets) /\ Usable(d, Tail(w))
         /\ \A n \in Nodes : Gets(c, w, n) => Gets(d, Tail(w), n)
         /\ Head(w) \in Packets
         /\ Head(w).kind = "delta" => c[Head(w).n] # NoNode
         /\ Head(w).kind = "create" /\ Parent[Head(w).n] # NoNode
              => c[Parent[Head(w).n]] # NoNode
<1> DEFINE v == Tail(w)
           m == Head(w)
           k == Len(v)
<1>1. /\ v \in Seq(Packets) /\ k \in Nat /\ Len(w) = k + 1 /\ m \in Packets /\ w[1] = m
      /\ \A j \in 1..k : v[j] = w[j + 1]
  OBVIOUS
<1>2. \A j \in 1..k : j + 1 \in 1..(k + 1)
  BY <1>1
<1>3. \A j \in 1..(k + 1) : j # 1 => j - 1 \in 1..k /\ (j - 1) + 1 = j
  BY <1>1
<1>4. k = Len(v) /\ 1 \in 1..(k + 1)
  BY <1>1
<1> HIDE DEF v, m, k
<1>5. ASSUME NEW n \in Nodes, NEW i \in Nat, Created(c, w, n, i + 1) PROVE Created(d, v, n, i)
  <2>1. CASE c[n] # NoNode
    BY <2>1 DEF Created
  <2>2. CASE \E j \in 1..Len(w) : j < i + 1 /\ w[j].kind = "create" /\ w[j].n = n
    <3>1. PICK j \in 1..(k + 1) : j < i + 1 /\ w[j].kind = "create" /\ w[j].n = n
      BY <1>1, <2>2
    <3>2. CASE j = 1
      <4>1. m.kind = "create" /\ m.n = n
        BY <1>1, <3>1, <3>2
      <4> QED
        BY <4>1 DEF Created, m
    <3>3. CASE j # 1
      <4>1. j - 1 \in 1..k /\ j - 1 < i /\ v[j - 1] = w[j]
        BY <1>1, <1>3, <3>1, <3>3
      <4> QED
        BY <1>4, <3>1, <4>1 DEF Created
    <3> QED
      BY <3>2, <3>3
  <2> QED
    BY <1>5, <2>1, <2>2 DEF Created
<1>6. Usable(d, v)
  <2> SUFFICES ASSUME NEW i \in 1..k
               PROVE  /\ v[i].kind = "delta" => Created(d, v, v[i].n, i)
                      /\ v[i].kind = "create" /\ Parent[v[i].n] # NoNode
                           => Created(d, v, Parent[v[i].n], i)
    BY <1>4 DEF Usable
  <2>1. v[i] = w[i + 1] /\ i + 1 \in 1..Len(w) /\ i \in Nat
    BY <1>1, <1>2
  <2>2. v[i] \in Packets /\ v[i].n \in Nodes
    BY <1>1, <1>4 DEF Packets
  <2>3. Parent[v[i].n] # NoNode => Parent[v[i].n] \in Nodes
    BY <2>2, SceneReplicationAssumption
  <2> QED
    BY <1>5, <2>1, <2>2, <2>3 DEF Usable
<1>7. ASSUME NEW n \in Nodes, Gets(c, w, n) PROVE Gets(d, v, n)
  <2>1. Created(c, w, n, (k + 1) + 1) /\ k + 1 \in Nat
    BY <1>1, <1>7 DEF Gets
  <2> QED
    BY <1>4, <1>5, <2>1 DEF Gets
<1>8. \A n : ~\E j \in 1..Len(w) : j < 1 /\ w[j].kind = "create" /\ w[j].n = n
  OBVIOUS
<1>9. /\ m.kind = "delta" => c[m.n] # NoNode
      /\ m.kind = "create" /\ Parent[m.n] # NoNode => c[Parent[m.n]] # NoNode
  BY <1>1, <1>4, <1>8 DEF Usable, Created
<1> QED
  BY <1>1, <1>6, <1>7, <1>9 DEF v, m

-----------------------------------------------------------------------------
(* The invariant *)

LEMMA SRInitial == SRInit => SRInv
<1> SUFFICES ASSUME SRInit PROVE SRInv
  OBVIOUS
<1>1. SRTypeOK
  BY SceneReplicationAssumption DEF SRInit, SRTypeOK, Live, OnScene, NoData, Kinds
<1>2. wire \in [Peers -> Seq(Packets)]
  BY DEF SRInit
<1>3. Live = {}
  BY DEF SRInit, Live
<1>4. SentInv
  BY <1>3 DEF SRInit, SentInv, Usable
<1>5. CopiesAreWellFormed
  BY DEF SRInit, CopiesAreWellFormed, ClientsSurvive, ParentsFirst
<1> QED
  BY <1>1, <1>2, <1>4, <1>5 DEF SRInv, SRTypeInv

\* Changes of the scene, and of the peers on it
LEMMA SceneChanged ==
  ASSUME SRInv, UNCHANGED <<wire, clients, known>>, SRTypeOK',
         \A n \in Live' : Parent[n] \in Live' \cup {NoNode},
         \A p \in rooted' : Live' \subseteq known[p] \cup dirty'[p]
  PROVE  SRInv'
<1>1. SentInv'
  BY DEF SRInv, SentInv, clients
<1> QED
  BY <1>1 DEF SRInv, SRTypeInv, CopiesAreWellFormed, ClientsSurvive, ParentsFirst, clients

NodeStates == [st : {"none", "live", "removed"}, val : [Kinds -> 0..MaxEdits]]

LEMMA CreateNodeStep ==
  ASSUME SRInv, NEW n \in Nodes, CreateNode(n) PROVE SRInv'
<1>1. /\ edits' = edits + 1 /\ edits' \in 0..MaxEdits /\ scene' = scene
      /\ node' = [node EXCEPT ![n] = [st |-> "live", val |-> [k \in Kinds |-> edits']]]
      /\ Parent[n] \in Live \cup {NoNode}
      /\ UNCHANGED <<peer, rooted, known, kcomp, changed, wire, hooks, clients>>
      /\ dirty' = [p \in Peers |-> IF p \in rooted THEN dirty[p] \cup {n} ELSE dirty[p]]
      /\ comp' \subseteq comp \cup {n}
  BY SceneReplicationAssumption DEF CreateNode, Edit, MarkDirty, SRInv, SRTypeInv, SRTypeOK
<1>2. [k \in Kinds |-> edits'] \in [Kinds -> 0..MaxEdits]
  BY <1>1
<1>3. node' \in [Nodes -> NodeStates]
  <2> DEFINE r == [st |-> "live", val |-> [k \in Kinds |-> edits']]
  <2>1. r \in NodeStates
    BY <1>2 DEF NodeStates
  <2>2. node \in [Nodes -> NodeStates] /\ node[n] \in NodeStates
    BY DEF SRInv, SRTypeInv, SRTypeOK, NodeStates
  <2>3. node' = [node EXCEPT ![n] = r]
    BY <1>1
  <2> HIDE DEF r
  <2> QED
    BY <2>1, <2>2, <2>3
<1>4. Live' = Live \cup {n}
  BY <1>1 DEF Live, SRInv, SRTypeInv, SRTypeOK
<1>5. SRTypeOK'
  BY <1>1, <1>3, <1>4 DEF NodeStates, SRInv, SRTypeInv, SRTypeOK, OnScene, hooks, clients
<1>6. /\ \A x \in Live' : Parent[x] \in Live' \cup {NoNode}
      /\ \A p \in rooted' : Live' \subseteq known[p] \cup dirty'[p]
  BY <1>1, <1>4 DEF SRInv, SentInv, SRTypeInv, SRTypeOK, OnScene
<1> QED
  BY <1>1, <1>5, <1>6, SceneChanged

\* Changes of a node that stays
LEMMA NodeChanged ==
  ASSUME SRInv, NEW n \in Live,
         edits' \in 0..MaxEdits,
         node' \in [Nodes -> NodeStates],
         \A x \in Nodes : node'[x].st = node[x].st,
         comp' \in SUBSET (comp \cup {n}), changed' \in [Peers -> SUBSET (Nodes \X Kinds)],
         MarkDirty(n, Knowing(n)),
         UNCHANGED <<scene, peer, rooted, known, kcomp, wire, hooks, clients>>
  PROVE  SRInv'
<1>1. n \in Nodes /\ dirty' = [p \in Peers |->
                                 IF p \in Knowing(n) THEN dirty[p] \cup {n} ELSE dirty[p]]
  BY DEF MarkDirty, Live
<1>2. Live' = Live
  BY DEF Live
<1>3. SRTypeOK'
  BY <1>1, <1>2 DEF NodeStates, SRInv, SRTypeInv, SRTypeOK, OnScene, hooks, clients
<1>4. /\ \A x \in Live' : Parent[x] \in Live' \cup {NoNode}
      /\ \A p \in rooted' : Live' \subseteq known[p] \cup dirty'[p]
  BY <1>1, <1>2 DEF SRInv, SentInv, SRTypeInv, SRTypeOK, OnScene
<1> QED
  BY <1>3, <1>4, SceneChanged

LEMMA ChangeNodeStep ==
  ASSUME SRInv, NEW n \in Nodes, NEW k \in Kinds, ChangeNode(n, k) PROVE SRInv'
<1>1. /\ edits' \in 0..MaxEdits /\ n \in Live
      /\ node' = [node EXCEPT ![n].val[k] = edits']
      /\ changed' = [p \in Peers |->
           IF p \in Knowing(n) THEN changed[p] \cup {<<n, k>>} ELSE changed[p]]
      /\ UNCHANGED <<scene, comp, peer, rooted, known, kcomp, wire, hooks, clients>>
  BY SceneReplicationAssumption DEF ChangeNode, Edit, SRInv, SRTypeInv, SRTypeOK
<1>2. /\ node' \in [Nodes -> NodeStates]
      /\ \A x \in Nodes : node'[x].st = node[x].st
  <2>1. node \in [Nodes -> NodeStates] /\ node[n] \in NodeStates /\ n \in Nodes
    BY DEF SRInv, SRTypeInv, SRTypeOK, NodeStates
  <2> DEFINE r == [node[n] EXCEPT !.val[k] = edits']
  <2>2. r \in NodeStates /\ r.st = node[n].st
    BY <1>1, <2>1 DEF NodeStates
  <2>3. node' = [node EXCEPT ![n] = r]
    BY <1>1
  <2> HIDE DEF r
  <2> QED
    BY <2>1, <2>2, <2>3
<1>3. changed' \in [Peers -> SUBSET (Nodes \X Kinds)]
  BY <1>1 DEF SRInv, SRTypeInv, SRTypeOK
<1>4. MarkDirty(n, Knowing(n))
  BY DEF ChangeNode
<1> QED
  BY <1>1, <1>2, <1>3, <1>4, NodeChanged

LEMMA ToggleComponentStep ==
  ASSUME SRInv, NEW n \in Nodes, ToggleComponent(n) PROVE SRInv'
<1>1. /\ edits' \in 0..MaxEdits /\ n \in Live /\ MarkDirty(n, Knowing(n))
      /\ comp' \in SUBSET (comp \cup {n})
      /\ UNCHANGED <<scene, node, peer, rooted, known, kcomp, changed, wire, hooks, clients>>
  BY SceneReplicationAssumption DEF ToggleComponent, Edit, SRInv, SRTypeInv, SRTypeOK
<1>2. /\ node' \in [Nodes -> NodeStates]
      /\ \A x \in Nodes : node'[x].st = node[x].st
      /\ changed' \in [Peers -> SUBSET (Nodes \X Kinds)]
  BY <1>1 DEF NodeStates, SRInv, SRTypeInv, SRTypeOK
<1> QED
  BY <1>1, <1>2, NodeChanged

LEMMA RemoveNodeStep ==
  ASSUME SRInv, NEW n \in Nodes, RemoveNode(n) PROVE SRInv'
<1>1. /\ edits' \in 0..MaxEdits /\ n \in Live /\ \A c \in Live : Parent[c] # n
      /\ node' = [node EXCEPT ![n].st = "removed"] /\ comp' = comp \ {n}
      /\ dirty' = [p \in Peers |-> IF p \in rooted THEN dirty[p] \cup {n} ELSE dirty[p]]
      /\ UNCHANGED <<scene, peer, rooted, known, kcomp, changed, wire, hooks, clients>>
  BY SceneReplicationAssumption DEF RemoveNode, Edit, MarkDirty, SRInv, SRTypeInv, SRTypeOK
<1>2. node' \in [Nodes -> NodeStates]
  <2>1. node \in [Nodes -> NodeStates] /\ node[n] \in NodeStates /\ n \in Nodes
    BY DEF SRInv, SRTypeInv, SRTypeOK, NodeStates
  <2> DEFINE r == [node[n] EXCEPT !.st = "removed"]
  <2>2. r \in NodeStates
    BY <2>1 DEF NodeStates
  <2>3. node' = [node EXCEPT ![n] = r]
    BY <1>1
  <2> HIDE DEF r
  <2> QED
    BY <2>1, <2>2, <2>3
<1>3. Live' = Live \ {n}
  BY <1>1 DEF Live, SRInv, SRTypeInv, SRTypeOK
<1>4. SRTypeOK'
  <2>1. comp' \in SUBSET Live' /\ OnScene' = OnScene
    BY <1>1, <1>3 DEF SRInv, SRTypeInv, SRTypeOK, OnScene
  <2>2. dirty' \in [Peers -> SUBSET Nodes]
    BY <1>1 DEF SRInv, SRTypeInv, SRTypeOK
  <2> QED
    BY <1>1, <1>2, <2>1, <2>2 DEF NodeStates, SRInv, SRTypeInv, SRTypeOK, hooks, clients
<1>5. /\ \A x \in Live' : Parent[x] \in Live' \cup {NoNode}
      /\ \A p \in rooted' : Live' \subseteq known[p] \cup dirty'[p]
  BY <1>1, <1>3 DEF SRInv, SentInv, SRTypeInv, SRTypeOK, OnScene
<1> QED
  BY <1>1, <1>4, <1>5, SceneChanged

LEMMA OtherSceneSteps ==
  ASSUME SRInv,
         DeleteScene \/ EmitAfterNextSync \/ (\E p \in Peers : Assign(p))
           \/ UNCHANGED srVars
  PROVE  SRInv'
<1>1. UNCHANGED <<wire, clients, states, node, comp>>
  BY DEF DeleteScene, EmitAfterNextSync, Assign, srVars, server
<1>2. Live' = Live /\ OnScene \subseteq OnScene'
  <2>1. peer' = peer \/ \E p \in Peers : peer[p] = "away" /\ peer' = [peer EXCEPT ![p] = "on_scene"]
    BY DEF DeleteScene, EmitAfterNextSync, Assign, srVars
  <2>2. OnScene \subseteq OnScene'
    BY <2>1 DEF OnScene, SRInv, SRTypeInv, SRTypeOK
  <2> QED
    BY <1>1, <2>2 DEF Live
<1>3. SRTypeOK'
  <2>1. scene' \in {"live", "deleted"} /\ edits' \in 0..MaxEdits
    BY SceneReplicationAssumption
    DEF DeleteScene, EmitAfterNextSync, Assign, srVars, server, Edit, SRInv, SRTypeInv, SRTypeOK
  <2>2. peer' \in [Peers -> {"away", "on_scene", "gone"}]
    BY DEF DeleteScene, EmitAfterNextSync, Assign, srVars, SRInv, SRTypeInv, SRTypeOK
  <2>3. waiting' \in SUBSET SUBSET Nodes /\ emitted' \in SUBSET Nodes
    BY DEF DeleteScene, EmitAfterNextSync, Assign, srVars, hooks, SRInv, SRTypeInv, SRTypeOK, Live
  <2> QED
    BY <1>1, <1>2, <2>1, <2>2, <2>3 DEF SRInv, SRTypeInv, SRTypeOK, states, clients
<1>4. /\ \A n \in Live' : Parent[n] \in Live' \cup {NoNode}
      /\ \A p \in rooted' : Live' \subseteq known[p] \cup dirty'[p]
  BY <1>1, <1>2 DEF SRInv, SentInv, states
<1> QED
  BY <1>1, <1>3, <1>4, SceneChanged DEF states

\* The connection's state is dropped, and its packets with it or not.
LEMMA PeersDropped ==
  ASSUME SRInv, UNCHANGED <<server, clients>>,
         peer' \in [Peers -> {"away", "on_scene", "gone"}],
         waiting' \in SUBSET SUBSET Nodes, UNCHANGED emitted,
         rooted' \in SUBSET (rooted \cap OnScene'),
         known' \in [Peers -> SUBSET Nodes], kcomp' \in [Peers -> SUBSET Nodes],
         dirty' \in [Peers -> SUBSET Nodes], changed' \in [Peers -> SUBSET (Nodes \X Kinds)],
         \A p \in Peers :
           \/ /\ known'[p] = known[p] /\ kcomp'[p] = kcomp[p] /\ dirty'[p] = dirty[p]
              /\ wire'[p] = wire[p]
           \/ /\ known'[p] = {} /\ kcomp'[p] = {} /\ p \notin rooted'
              /\ wire'[p] \in {wire[p], <<>>},
         wire' \in [Peers -> Seq(Packets)]
  PROVE  SRInv'
<1>1. Live' = Live /\ comp' = comp
  BY DEF Live, server
<1>2. SRTypeOK'
  BY <1>1 DEF SRInv, SRTypeInv, SRTypeOK, server, clients
<1>3. \A n \in Live' : Parent[n] \in Live' \cup {NoNode}
  BY <1>1 DEF SRInv, SentInv
<1>4. \A p \in rooted' : Live' \subseteq known'[p] \cup dirty'[p]
  BY <1>1 DEF SRInv, SentInv, SRTypeInv, SRTypeOK, OnScene
<1>5. ASSUME NEW p \in Peers
      PROVE  Usable(copy'[p], wire'[p]) /\ \A n \in known'[p] : Gets(copy'[p], wire'[p], n)
  <2>1. Usable(copy[p], <<>>)
    BY DEF Usable
  <2> QED
    BY <2>1 DEF SRInv, SentInv, clients
<1>6. SentInv'
  BY <1>3, <1>4, <1>5 DEF SentInv
<1>7. CopiesAreWellFormed'
  BY DEF SRInv, CopiesAreWellFormed, ClientsSurvive, ParentsFirst, clients
<1> QED
  BY <1>2, <1>6, <1>7 DEF SRInv, SRTypeInv

LEMMA DisconnectStep == ASSUME SRInv, NEW p \in Peers, Disconnect(p) PROVE SRInv'
<1>1. /\ peer' = [peer EXCEPT ![p] = "gone"] /\ rooted' = rooted \ {p}
      /\ known' = [known EXCEPT ![p] = {}] /\ kcomp' = [kcomp EXCEPT ![p] = {}]
      /\ dirty' = [dirty EXCEPT ![p] = {}] /\ changed' = [changed EXCEPT ![p] = {}]
      /\ wire' = [wire EXCEPT ![p] = <<>>]
      /\ UNCHANGED <<server, waiting, emitted, clients>>
  BY DEF Disconnect, hooks
<1>2. /\ peer' \in [Peers -> {"away", "on_scene", "gone"}]
      /\ waiting' \in SUBSET SUBSET Nodes
      /\ known' \in [Peers -> SUBSET Nodes] /\ kcomp' \in [Peers -> SUBSET Nodes]
      /\ dirty' \in [Peers -> SUBSET Nodes]
      /\ changed' \in [Peers -> SUBSET (Nodes \X Kinds)]
  BY <1>1 DEF SRInv, SRTypeInv, SRTypeOK
<1>3. wire' \in [Peers -> Seq(Packets)]
  BY <1>1 DEF SRInv, SRTypeInv
<1>4. rooted' \in SUBSET (rooted \cap OnScene')
  BY <1>1 DEF SRInv, SRTypeInv, SRTypeOK, OnScene
<1>5. \A q \in Peers :
        \/ /\ known'[q] = known[q] /\ kcomp'[q] = kcomp[q] /\ dirty'[q] = dirty[q]
           /\ wire'[q] = wire[q]
        \/ /\ known'[q] = {} /\ kcomp'[q] = {} /\ q \notin rooted'
           /\ wire'[q] \in {wire[q], <<>>}
  BY <1>1 DEF SRInv, SRTypeInv, SRTypeOK
<1> QED
  BY <1>1, <1>2, <1>3, <1>4, <1>5, PeersDropped

LEMMA ReloadStep == ASSUME SRInv, Reload PROVE SRInv'
<1>1. /\ peer' = [p \in Peers |-> IF p \in OnScene THEN "gone" ELSE peer[p]]
      /\ rooted' = {} /\ waiting' = {}
      /\ known' = [p \in Peers |-> {}] /\ kcomp' = [p \in Peers |-> {}]
      /\ dirty' = [p \in Peers |-> {}] /\ changed' = [p \in Peers |-> {}]
      /\ UNCHANGED <<server, wire, emitted, clients>>
  BY DEF Reload
<1>2. /\ peer' \in [Peers -> {"away", "on_scene", "gone"}]
      /\ wire' \in [Peers -> Seq(Packets)]
  BY <1>1 DEF SRInv, SRTypeInv, SRTypeOK
<1>3. \A p \in Peers : known'[p] = {} /\ kcomp'[p] = {} /\ p \notin rooted' /\ wire'[p] = wire[p]
  BY <1>1
<1> QED
  BY <1>1, <1>2, <1>3, PeersDropped

\* What every sync has in common: the peers are sent the nodes of toSend.
LEMMA SyncStep ==
  ASSUME SRInv, NEW toSend \in [Peers -> SUBSET Nodes], SyncStates(toSend),
         wire' \in [Peers -> Seq(Packets)],
         UNCHANGED <<server, peer, clients>>,
         waiting' \in SUBSET SUBSET Nodes, emitted' \in SUBSET Nodes,
         rooted' \in SUBSET OnScene,
         \A p \in rooted' : p \in rooted \/ Live \subseteq toSend[p],
         \A p \in Peers :
           /\ After(copy[p], wire[p], wire'[p])
           /\ \A n \in toSend[p] \cap Live : Gets(copy[p], wire'[p], n)
  PROVE  SRInv'
<1>1. /\ \A p \in Peers : /\ known'[p] = known[p] \cup (toSend[p] \cap Live)
                          /\ kcomp'[p] = (kcomp[p] \ (toSend[p] \cap Live)) \cup (toSend[p] \cap comp)
                          /\ dirty'[p] = dirty[p] \ {n \in toSend[p] : n \in Live \/ n \notin known[p]}
      /\ known' \in [Peers -> SUBSET Nodes] /\ kcomp' \in [Peers -> SUBSET Nodes]
      /\ dirty' \in [Peers -> SUBSET Nodes] /\ changed' \in [Peers -> SUBSET (Nodes \X Kinds)]
  BY DEF SyncStates, SyncKnown, SyncDirty, SRInv, SRTypeInv, SRTypeOK
<1>2. Live' = Live /\ comp' = comp /\ comp \subseteq Live /\ OnScene' = OnScene
  BY DEF Live, server, OnScene, SRInv, SRTypeInv, SRTypeOK
<1>3. SRTypeOK'
  <2>1. \A p \in Peers : kcomp'[p] \subseteq known'[p]
    BY <1>1, <1>2 DEF SRInv, SRTypeInv, SRTypeOK
  <2> QED
    BY <1>1, <1>2, <2>1 DEF SRInv, SRTypeInv, SRTypeOK, server, clients
<1>4. ASSUME NEW p \in rooted', NEW n \in Live PROVE n \in known'[p] \cup dirty'[p]
  <2>1. p \in Peers
    BY DEF OnScene
  <2>2. n \in toSend[p] \/ n \in known[p] \cup dirty[p]
    BY DEF SRInv, SentInv
  <2> QED
    BY <1>1, <2>1, <2>2
<1>5. ASSUME NEW p \in Peers
      PROVE  Usable(copy'[p], wire'[p]) /\ \A n \in known'[p] : Gets(copy'[p], wire'[p], n)
  BY <1>1 DEF SRInv, SentInv, clients, After
<1>6. SentInv'
  BY <1>2, <1>4, <1>5 DEF SRInv, SentInv
<1>7. CopiesAreWellFormed'
  BY DEF SRInv, CopiesAreWellFormed, ClientsSurvive, ParentsFirst, clients
<1> QED
  BY <1>3, <1>6, <1>7 DEF SRInv, SRTypeInv

LEMMA SyncTickStep == ASSUME SRInv, SyncTick PROVE SRInv'
<1>1. /\ emitted' = UNION waiting /\ waiting' = {} /\ UNCHANGED <<server, peer, clients>>
  BY DEF SyncTick, EmitEvents
<1>2. waiting' \in SUBSET SUBSET Nodes /\ emitted' \in SUBSET Nodes
  BY <1>1 DEF SRInv, SRTypeInv, SRTypeOK
<1>3. CASE scene # "live"
  <2>1. UNCHANGED <<states, wire, server, peer, clients>>
    BY <1>1, <1>3 DEF SyncTick
  <2>2. Live' = Live /\ OnScene' = OnScene
    BY <2>1 DEF Live, OnScene, server
  <2>3. SRTypeOK'
    BY <1>2, <2>1, <2>2 DEF SRInv, SRTypeInv, SRTypeOK, server, states, clients
  <2>4. /\ \A n \in Live' : Parent[n] \in Live' \cup {NoNode}
        /\ \A p \in rooted' : Live' \subseteq known[p] \cup dirty'[p]
    BY <2>1, <2>2 DEF SRInv, SentInv, states
  <2> QED
    BY <2>1, <2>3, <2>4, SceneChanged DEF states
<1>4. CASE scene = "live"
  <2> DEFINE toSend == [p \in Peers |-> ToSync(p)]
  <2>1. PICK order \in [Peers -> UNION {SetToSeqs(S) : S \in SUBSET Nodes}] :
          /\ \A p \in Peers : ToSet(order[p]) = ToSync(p) /\ RightOrder(order[p], p)
          /\ wire' = [p \in Peers |-> wire[p] \o PacketsOf(p, order[p])]
    BY <1>4 DEF SyncTick, Send
  <2>2. rooted' = OnScene /\ SyncStates(toSend)
    BY <1>4 DEF SyncTick
  <2>3. ASSUME NEW p \in Peers PROVE toSend[p] = ToSync(p) /\ ToSync(p) \subseteq Nodes
    BY DEF ToSync, SRInv, SRTypeInv, SRTypeOK, Live
  <2>4. ASSUME NEW p \in Peers
        PROVE  /\ After(copy[p], wire[p], wire'[p])
               /\ \A n \in toSend[p] \cap Live : Gets(copy[p], wire'[p], n)
    <3>1. PICK S \in SUBSET Nodes : order[p] \in SetToSeqs(S)
      BY <2>1
    <3>2. wire'[p] = wire[p] \o PacketsOf(p, order[p])
      BY <2>1
    <3>3. ToSet(order[p]) = ToSync(p) /\ RightOrder(order[p], p)
      BY <2>1
    <3> HIDE DEF toSend
    <3> QED
      BY <2>3, <3>1, <3>2, <3>3, NodesSent DEF SRInv
  <2>5. wire' \in [Peers -> Seq(Packets)]
    BY <2>1, <2>4 DEF After
  <2>6. \A p \in rooted' : p \in rooted \/ Live \subseteq toSend[p]
    BY <2>2 DEF ToSync, OnScene
  <2>7. toSend \in [Peers -> SUBSET Nodes]
    BY <2>3
  <2> HIDE DEF toSend
  <2> QED
    BY <1>1, <1>2, <2>2, <2>4, <2>5, <2>6, <2>7, SyncStep
<1> QED
  BY <1>3, <1>4

LEMMA SyncNowStep == ASSUME SRInv, NEW n \in Nodes, SyncNow(n) PROVE SRInv'
<1> DEFINE peers == IF scene = "live" /\ n \in Live THEN OnScene ELSE {}
           toSend == [p \in Peers |-> IF p \in peers THEN {n} ELSE {}]
<1>1. /\ Parent[n] = NoNode /\ SyncStates(toSend)
      /\ wire' = [p \in Peers |-> wire[p] \o IF p \in peers THEN NodePackets(p, n) ELSE <<>>]
      /\ UNCHANGED <<server, peer, clients, rooted, waiting, emitted>>
  BY DEF SyncNow, SyncImmediate, Send, hooks
<1>2. toSend \in [Peers -> SUBSET Nodes]
  OBVIOUS
<1>3. ASSUME NEW p \in Peers
      PROVE  /\ After(copy[p], wire[p], wire'[p])
             /\ \A x \in toSend[p] \cap Live : Gets(copy[p], wire'[p], x)
  <2>1. /\ wire[p] \in Seq(Packets) /\ Usable(copy[p], wire[p])
        /\ n \in known[p] => Gets(copy[p], wire[p], n)
    BY DEF SRInv, SRTypeInv, SentInv
  <2>2. CASE p \in peers
    <3>1. /\ After(copy[p], wire[p], wire[p] \o NodePackets(p, n))
          /\ n \in Live \cup known[p] => Gets(copy[p], wire[p] \o NodePackets(p, n), n)
      BY <1>1, <2>1, NodeSent DEF SRInv
    <3>2. wire'[p] = wire[p] \o NodePackets(p, n) /\ toSend[p] = {n}
      BY <1>1, <2>2
    <3> HIDE DEF toSend
    <3> QED
      BY <3>1, <3>2
  <2>3. CASE p \notin peers
    <3>1. wire'[p] = wire[p] /\ toSend[p] = {}
      BY <1>1, <2>1, <2>3, ConcatEmptySeq
    <3> HIDE DEF toSend
    <3> QED
      BY <2>1, <3>1 DEF After
  <2> QED
    BY <2>2, <2>3
<1>4. wire' \in [Peers -> Seq(Packets)]
  BY <1>1, <1>3 DEF After
<1>5. waiting' \in SUBSET SUBSET Nodes /\ emitted' \in SUBSET Nodes /\ rooted' \in SUBSET OnScene
  BY <1>1 DEF SRInv, SRTypeInv, SRTypeOK
<1> HIDE DEF toSend, peers
<1> QED
  BY <1>1, <1>2, <1>3, <1>4, <1>5, SyncStep

LEMMA ReceiveStep == ASSUME SRInv, NEW p \in Peers, Receive(p) PROVE SRInv'
<1> DEFINE w == wire[p]
           m == Head(w)
           c == copy[p]
           d == copy'[p]
           Values == [Kinds -> 0..MaxEdits]
<1>1. /\ w # <<>> /\ wire' = [wire EXCEPT ![p] = Tail(w)] /\ Apply(p, m)
      /\ client' = IF m.kind = "delta" /\ c[m.n] = NoNode
                   THEN [client EXCEPT ![p] = "crashed"] ELSE client
      /\ UNCHANGED <<server, peer, states, hooks>>
  BY DEF Receive
<1>2. /\ wire \in [Peers -> Seq(Packets)] /\ copy \in [Peers -> [Nodes -> {NoNode} \cup Values]]
      /\ client \in [Peers -> {"up", "crashed"}]
      /\ w \in Seq(Packets) /\ c \in [Nodes -> {NoNode} \cup Values] /\ Usable(c, w)
  BY DEF SRInv, SRTypeInv, SRTypeOK, SentInv
<1>3. m \in Packets
  BY <1>1, <1>2
<1>4. NoNode \notin Values
  <2>1. ASSUME NEW f \in Values PROVE f \in [{"latest", "delta"} -> Nat]
    BY SceneReplicationAssumption DEF Kinds
  <2> QED
    BY <2>1, SceneReplicationAssumption
<1>5. /\ m.n \in Nodes
      /\ m.kind = "create" => m.val \in Values
      /\ m.kind \in Kinds => m.val \in 0..MaxEdits
  BY <1>3 DEF Packets, Kinds
<1> HIDE DEF m, w, c, d, Values
<1>6. PICK f \in [Nodes -> {NoNode} \cup Values] :
        /\ copy' = [copy EXCEPT ![p] = f]
        /\ \A n \in Nodes : f[n] # NoNode <=> c[n] # NoNode \/ (m.kind = "create" /\ m.n = n)
  <2>1. CASE m.kind = "create"
    <3>1. copy' = [copy EXCEPT ![p] = [c EXCEPT ![m.n] = m.val]]
      BY <1>1, <2>1 DEF Apply, c
    <3>2. [c EXCEPT ![m.n] = m.val] \in [Nodes -> {NoNode} \cup Values]
      BY <1>2, <1>5, <2>1
    <3> QED
      BY <1>2, <1>4, <1>5, <2>1, <3>1, <3>2
  <2>2. CASE m.kind \in Kinds /\ c[m.n] # NoNode
    <3>1. copy' = [copy EXCEPT ![p] = [c EXCEPT ![m.n] = [c[m.n] EXCEPT ![m.kind] = m.val]]]
      BY <1>1, <2>2 DEF Apply, c, Kinds
    <3>2. [c[m.n] EXCEPT ![m.kind] = m.val] \in Values
      BY <1>2, <1>5, <2>2 DEF Values
    <3>3. PICK v \in Values : v = [c[m.n] EXCEPT ![m.kind] = m.val]
      BY <3>2
    <3>4. [c EXCEPT ![m.n] = v] \in [Nodes -> {NoNode} \cup Values]
      BY <1>2, <1>5
    <3>5. m.kind # "create"
      BY <2>2 DEF Kinds
    <3> QED
      BY <1>2, <1>4, <1>5, <2>2, <3>1, <3>3, <3>4, <3>5
  <2>3. CASE m.kind # "create" /\ ~(m.kind \in Kinds /\ c[m.n] # NoNode)
    <3>1. copy' = copy
      BY <1>1, <2>3 DEF Apply, c
    <3>2. copy' = [copy EXCEPT ![p] = c]
      BY <1>2, <3>1 DEF c
    <3> QED
      BY <1>2, <2>3, <3>2
  <2> QED
    BY <2>1, <2>2, <2>3
<1>7. d = f /\ copy' \in [Peers -> [Nodes -> {NoNode} \cup Values]]
      /\ \A q \in Peers : q # p => copy'[q] = copy[q] /\ wire'[q] = wire[q]
  BY <1>1, <1>2, <1>6 DEF d
<1>8. wire'[p] = Tail(w) /\ wire[p] = w /\ copy[p] = c /\ copy'[p] = f
  BY <1>1, <1>2, <1>7 DEF w, c, d
<1>9. /\ Tail(w) \in Seq(Packets) /\ Usable(f, Tail(w))
      /\ \A n \in Nodes : Gets(c, w, n) => Gets(f, Tail(w), n)
      /\ m.kind = "delta" => c[m.n] # NoNode
      /\ m.kind = "create" /\ Parent[m.n] # NoNode => c[Parent[m.n]] # NoNode
  BY <1>1, <1>2, <1>5, <1>6, PacketReceived DEF m
<1>10. client' = client
  BY <1>1, <1>9
<1>11. wire' \in [Peers -> Seq(Packets)]
  BY <1>1, <1>2, <1>9
<1>12. Live' = Live /\ OnScene' = OnScene
  BY <1>1 DEF Live, OnScene, server
<1>13. SRTypeOK'
  BY <1>1, <1>7, <1>10, <1>12 DEF SRInv, SRTypeInv, SRTypeOK, server, states, hooks, Values
<1>14. ASSUME NEW q \in Peers
       PROVE  Usable(copy'[q], wire'[q]) /\ \A n \in known'[q] : Gets(copy'[q], wire'[q], n)
  <2>1. known' = known /\ known[q] \subseteq Nodes
    BY <1>1 DEF states, SRInv, SRTypeInv, SRTypeOK
  <2>2. Usable(copy[q], wire[q]) /\ \A n \in known[q] : Gets(copy[q], wire[q], n)
    BY DEF SRInv, SentInv
  <2> QED
    BY <1>7, <1>8, <1>9, <2>1, <2>2
<1>15. SentInv'
  BY <1>1, <1>12, <1>14 DEF SRInv, SentInv, states
<1>16. ParentsFirst'
  <2> SUFFICES ASSUME NEW q \in Peers, NEW n \in Nodes, copy'[q][n] # NoNode, Parent[n] # NoNode
               PROVE  copy'[q][Parent[n]] # NoNode
    BY DEF ParentsFirst
  <2>1. Parent[n] \in Nodes
    BY SceneReplicationAssumption
  <2>2. copy[q][n] # NoNode => copy[q][Parent[n]] # NoNode
    BY DEF SRInv, CopiesAreWellFormed, ParentsFirst
  <2> QED
    BY <1>6, <1>7, <1>8, <1>9, <2>1, <2>2
<1>17. CopiesAreWellFormed'
  BY <1>10, <1>16 DEF SRInv, CopiesAreWellFormed, ClientsSurvive
<1> QED
  BY <1>11, <1>13, <1>15, <1>17 DEF SRInv, SRTypeInv

LEMMA SRInvariance == SRSpec => []SRInv
<1>1. SRInv /\ [SRNext]_srVars => SRInv'
  <2> SUFFICES ASSUME SRInv, [SRNext]_srVars PROVE SRInv'
    OBVIOUS
  <2>1. CASE DeleteScene \/ EmitAfterNextSync \/ (\E p \in Peers : Assign(p))
               \/ UNCHANGED srVars
    BY <2>1, OtherSceneSteps
  <2>2. ASSUME NEW n \in Nodes, CreateNode(n) PROVE SRInv'
    BY <2>2, CreateNodeStep
  <2>3. ASSUME NEW n \in Nodes, ToggleComponent(n) PROVE SRInv'
    BY <2>3, ToggleComponentStep
  <2>4. ASSUME NEW n \in Nodes, RemoveNode(n) PROVE SRInv'
    BY <2>4, RemoveNodeStep
  <2>5. ASSUME NEW n \in Nodes, SyncNow(n) PROVE SRInv'
    BY <2>5, SyncNowStep
  <2>6. ASSUME NEW n \in Nodes, NEW k \in Kinds, ChangeNode(n, k) PROVE SRInv'
    BY <2>6, ChangeNodeStep
  <2>7. CASE Reload
    BY <2>7, ReloadStep
  <2>8. CASE SyncTick
    BY <2>8, SyncTickStep
  <2>9. ASSUME NEW p \in Peers, Disconnect(p) PROVE SRInv'
    BY <2>9, DisconnectStep
  <2>10. ASSUME NEW p \in Peers, Receive(p) PROVE SRInv'
    BY <2>10, ReceiveStep
  <2> QED
    BY <2>1, <2>2, <2>3, <2>4, <2>5, <2>6, <2>7, <2>8, <2>9, <2>10 DEF SRNext
<1> QED
  BY SRInitial, <1>1, PTL DEF SRSpec

\* No client is sent the change of a node that it does not have, nor a node
\* before its parent: in whatever order sync_changes() and
\* sync_node_immediate() look at the nodes.
THEOREM CopiesHold == SRSpec => []CopiesAreWellFormed
<1>1. SRInv => CopiesAreWellFormed
  BY DEF SRInv
<1> QED
  BY SRInvariance, <1>1, PTL

\* on_tick() sends what emit_after_next_sync() was left after the nodes that
\* were there.
THEOREM NodesBeforeEvents == SRSpec => EmittedAfterSync
<1> DEFINE A == waiting # {} /\ waiting' = {} /\ scene = "live" =>
                  \A p \in OnScene :
                    (UNION waiting) \cap Live \subseteq known'[p] \/ peer'[p] = "gone"
<1>1. SRInv /\ [SRNext]_srVars => A \/ UNCHANGED srVars
  <2> SUFFICES ASSUME SRInv, SRNext PROVE A
    OBVIOUS
  <2> SUFFICES ASSUME waiting # {}, waiting' = {}, scene = "live",
                      NEW p \in OnScene
               PROVE  Live \subseteq known'[p] \/ peer'[p] = "gone"
    OBVIOUS
  <2>1. p \in Peers /\ peer[p] = "on_scene"
    BY DEF OnScene
  <2>2. CASE SyncTick
    <3>1. known' = [q \in Peers |-> known[q] \cup (ToSync(q) \cap Live)]
      BY <2>2 DEF SyncTick, SyncStates, SyncKnown
    <3>2. Live \subseteq known[p] \cup ToSync(p)
      BY <2>1 DEF SRInv, SentInv, ToSync
    <3> QED
      BY <2>1, <3>1, <3>2
  <2>3. CASE Reload
    BY <2>1, <2>3 DEF Reload
  <2>4. ~SyncTick /\ ~Reload => waiting' = waiting \/ waiting' = {Live}
    BY DEF SRNext, CreateNode, ToggleComponent, RemoveNode, SyncNow, ChangeNode, DeleteScene,
           EmitAfterNextSync, Assign, Disconnect, Receive, hooks
  <2> QED
    BY <2>2, <2>3, <2>4
<1> QED
  BY SRInvariance, <1>1, PTL DEF SRSpec, EmittedAfterSync
=============================================================================
