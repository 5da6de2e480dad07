--------------------------- MODULE Network_proofs ---------------------------
(***************************************************************************)
(* Packets become events in their order (PacketsInOrder of Network), for   *)
(* any number of clients, names and sockets, and over reloads.             *)
(*                                                                         *)
(* What a peer has in its buffer and what is on the wire behind it are     *)
(* what is still to be read of its client: a Stream, each packet of which  *)
(* has two pieces, the name and the type that its sender gave it, and a    *)
(* higher number than those before it and those that became events.  What  *)
(* is cut off at its beginning leaves a Stream, wherever recv() cuts.  A   *)
(* client whose stream a reload cut within a packet is in garbled from its *)
(* first bytes on that are read in another way than they were written, and *)
(* nothing is said of it any more; the others keep what they had.  It      *)
(* needs that no client has two sockets (ConnInv) and that the peers made  *)
(* of the stored ones begin with empty buffers (NewInv).                   *)
(***************************************************************************)
EXTENDS Network, SequenceTheorems, FiniteSetTheorems, WellFoundedInduction,
        NaturalsInduction, TLAPS

-----------------------------------------------------------------------------
(* Numbers in order, and least numbers *)

LEMMA Least ==
  ASSUME NEW Q, Q \subseteq Nat, Q # {}
  PROVE  \E i \in Q : \A j \in Q : i <= j
<1>1. IsWellFoundedOn(OpToRel(<, Nat), Nat)
  BY NatLessThanWellFounded
<1>2. \E i \in Q : \A j \in Q : ~(<<j, i>> \in OpToRel(<, Nat))
  BY <1>1, WFMin
<1>3. PICK i \in Q : \A j \in Q : ~(j < i)
  BY <1>2 DEF OpToRel
<1> QED
  BY <1>3

LEMMA LeastIsMin ==
  ASSUME NEW Q, Q \subseteq Nat, Q # {}
  PROVE  Min(Q) \in Q /\ \A j \in Q : Min(Q) <= j
BY Least DEF Min

\* InOrder(S) has only elements of S, and each once.
LEMMA InOrderRises ==
  ASSUME NEW S, S \subseteq Nat, IsFiniteSet(S)
  PROVE  /\ InOrder(S) \in Seq(S) /\ Len(InOrder(S)) = Cardinality(S)
         /\ \A j, k \in 1..Cardinality(S) : j < k => InOrder(S)[j] < InOrder(S)[k]
<1> DEFINE Below(n) == {m \in S : m < n}
           Rank(n) == Cardinality(Below(n))
           size == Cardinality(S)
           rank == [n \in S |-> Rank(n)]
<1>1. size \in Nat
  BY FS_CardinalityType
<1>2. \A n : IsFiniteSet(Below(n)) /\ Rank(n) \in Nat /\ Rank(n) <= size
  <2>1. ASSUME NEW n PROVE IsFiniteSet(Below(n)) /\ Rank(n) <= size
    <3>1. Below(n) \subseteq S
      OBVIOUS
    <3> QED
      BY <3>1, FS_Subset
  <2> QED
    BY <2>1, FS_CardinalityType
<1>3. ASSUME NEW n \in S, NEW T, IsFiniteSet(T), Below(n) \subseteq T, n \in T
      PROVE  Rank(n) < Cardinality(T)
  <2>1. Below(n) # T
    BY <1>3
  <2>2. Rank(n) <= Cardinality(T) /\ (Rank(n) = Cardinality(T) => Below(n) = T)
    BY <1>3, FS_Subset
  <2>3. Rank(n) \in Nat /\ Cardinality(T) \in Nat
    BY <1>2, <1>3, FS_CardinalityType
  <2> HIDE DEF Rank, Below
  <2> QED
    BY <2>1, <2>2, <2>3
<1>4. ASSUME NEW m \in S, NEW n \in S, m < n PROVE Rank(m) < Rank(n)
  <2>1. m \in Nat /\ n \in Nat /\ S \subseteq Nat
    OBVIOUS
  <2>2. \A x \in S : x < m => x < n
    BY <1>4, <2>1
  <2>3. Below(m) \subseteq Below(n) /\ m \in Below(n)
    BY <1>4, <2>2
  <2>4. IsFiniteSet(Below(n))
    BY <1>2
  <2> HIDE DEF Below
  <2> QED
    BY <1>3, <2>3, <2>4
<1>5. ASSUME NEW n \in S PROVE Rank(n) \in 0..(size - 1)
  <2>1. Rank(n) < size
    BY <1>3
  <2>2. Rank(n) \in Nat
    BY <1>2
  <2> HIDE DEF Rank, size
  <2> QED
    BY <1>1, <2>1, <2>2
<1>6. rank \in Injection(S, 0..(size - 1))
  <2>1. rank \in [S -> 0..(size - 1)]
    BY <1>5
  <2>2. ASSUME NEW m \in S, NEW n \in S, rank[m] = rank[n] PROVE m = n
    <3>1. Rank(m) = Rank(n) /\ m \in Nat /\ n \in Nat
      BY <2>2
    <3>2. Rank(m) \in Nat
      BY <1>2
    <3> HIDE DEF Rank, rank
    <3> QED
      BY <1>4, <3>1, <3>2
  <2> HIDE DEF rank, size
  <2> QED
    BY <2>1, <2>2 DEF Injection, IsInjective
<1>7. IsFiniteSet(0..(size - 1)) /\ Cardinality(0..(size - 1)) = size
  <2>1. 0 \in Int /\ size - 1 \in Int
    BY <1>1
  <2>2. IsFiniteSet(0..(size - 1)) /\
          Cardinality(0..(size - 1)) = IF 0 > size - 1 THEN 0 ELSE (size - 1) - 0 + 1
    BY <2>1, FS_Interval
  <2> HIDE DEF size
  <2> QED
    BY <1>1, <2>2
<1>8. rank \in Surjection(S, 0..(size - 1))
  BY <1>6, <1>7, FS_Injection
<1>9. ASSUME NEW k \in 1..size PROVE \E n \in S : Rank(n) = k - 1
  <2>1. k - 1 \in 0..(size - 1)
    BY <1>1, <1>9
  <2>2. \E n \in S : rank[n] = k - 1
    BY <1>8, <2>1 DEF Surjection
  <2> QED
    BY <2>2
<1> DEFINE r == InOrder(S)
<1>10. r = [k \in 1..size |-> CHOOSE n \in S : Rank(n) = k - 1]
  BY DEF InOrder
<1>11. \A k \in 1..size : r[k] \in S /\ Rank(r[k]) = k - 1
  <2> HIDE DEF Rank, size, r
  <2> QED
    BY <1>9, <1>10
<1>12. r \in Seq(S) /\ Len(r) = size
  <2>1. r = [k \in 1..size |-> r[k]]
    BY <1>10
  <2>2. \A k \in 1..size : r[k] \in S
    BY <1>11
  <2> HIDE DEF size, r
  <2> QED
    BY <1>1, <2>1, <2>2
<1>13. ASSUME NEW j \in 1..size, NEW k \in 1..size, j < k PROVE r[j] < r[k]
  <2>1. r[j] \in S /\ r[k] \in S /\ Rank(r[j]) = j - 1 /\ Rank(r[k]) = k - 1
    BY <1>11, <1>13
  <2>2. CASE r[k] < r[j]
    <3>1. Rank(r[k]) < Rank(r[j])
      BY <1>4, <2>1, <2>2
    <3> HIDE DEF Rank, size, r
    <3> QED
      BY <1>1, <1>13, <2>1, <3>1
  <2>3. CASE r[k] = r[j]
    <3>1. j - 1 = k - 1
      BY <2>1, <2>3
    <3> HIDE DEF Rank, size, r
    <3> QED
      BY <1>1, <1>13, <3>1
  <2>4. r[j] \in Nat /\ r[k] \in Nat
    BY <2>1
  <2> HIDE DEF Rank, size, r
  <2> QED
    BY <2>2, <2>3, <2>4
<1> HIDE DEF size, r
<1> QED
  BY <1>12, <1>13 DEF size, r

LEMMA InOrderOfNone == InOrder({}) = <<>>
<1>1. IsFiniteSet({}) /\ Cardinality({}) = 0
  BY FS_EmptySet
<1> QED
  BY <1>1, InOrderRises

LEMMA OnlyOfNone ==
  ASSUME NEW S
  PROVE  Only(<<>>, S) = <<>>
<1>1. {k \in DOMAIN <<>> : <<>>[k] \in S} = {}
  OBVIOUS
<1> QED
  BY <1>1, InOrderOfNone DEF Only

-----------------------------------------------------------------------------
(* The invariant.  T, S and G stand for types[c], sent[c] and got[c].      *)

\* A packet has its sender's number for its name and is one of those it sent.
Own(T, S, p) ==
  /\ p.no \in 1..Len(S) /\ (IsData(p) => S[p.no] = p.name)
  /\ p.type - FirstType + 1 \in 1..Len(T) /\ T[p.type - FirstType + 1] = p.name

\* A packet is whole when its tail is there.
IsRead(piece) == piece[2] = "tail" /\ IsData(piece[1])

\* w is still to be read.
Stream(T, S, G, w) ==
  /\ \A k \in 1..Len(w) : Own(T, S, w[k][1])
  /\ \A k \in 1..Len(w) : w[k][2] = "tail" <=> (Len(w) - k) % 2 = 0
  /\ \A j, k \in 1..Len(w) :
       j < k /\ IsRead(w[j]) /\ IsRead(w[k]) => w[j][1].no < w[k][1].no
  /\ \A k \in 1..Len(w), j \in 1..Len(G) : IsRead(w[k]) => G[j][1] < w[k][1].no

\* Numbers that can be looked up lead to their names.
Knows(T, K) ==
  \A t \in Nat, n \in Names : <<t, n>> \in K =>
    t - FirstType + 1 \in 1..Len(T) /\ T[t - FirstType + 1] = n

InTurn(S, G) ==
  \A j \in 1..Len(G) :
    /\ G[j][1] \in 1..Len(S) /\ G[j][2] = S[G[j][1]]
    /\ \A k \in 1..(j - 1) : G[k][1] < G[j][1]

\* Data of the socket would go into the buffer of the peer.
Serves(i, f) == peers[i] = f /\ bySocket[f] = i /\ conn[f] # None

TypeInv ==
  /\ backlog \in Seq(Clients)
  /\ types \in [Clients -> Seq(Names)] /\ sent \in [Clients -> Seq(Names)]
  /\ wire \in [Clients -> Seq(Pieces)]
  /\ got \in [Clients -> Seq(Nat \X Names)]
  /\ conn \in [Fds -> Clients \cup {None}]
  /\ buffer \in [PeerIds -> Seq(Pieces)]
  /\ known \in [PeerIds -> SUBSET (Int \X Names)]
  /\ peers = [i \in PeerIds |-> peers[i]] /\ bySocket = [f \in Fds |-> bySocket[f]]
  /\ stored = [i \in PeerIds |-> stored[i]]

\* A client has one connection, or waits for it once.
ConnInv ==
  /\ \A k, l \in 1..Len(backlog) : backlog[k] = backlog[l] => k = l
  /\ \A k \in 1..Len(backlog) : backlog[k] \in came
  /\ \A f \in Fds : conn[f] # None =>
       conn[f] \in came /\ \A k \in 1..Len(backlog) : backlog[k] # conn[f]
  /\ \A f, g \in Fds : conn[f] = conn[g] /\ conn[f] # None => f = g

\* Until core:continue the module has nothing and does nothing.
NewInv ==
  mod = "init" =>
    /\ buffer = NoBuffers /\ known = NoTypes /\ peers = NoPeers
    /\ ~bound /\ watched = <<>> /\ active = <<>>

\* A name has one number.
NumberInv ==
  \A c \in Clients : \A k, l \in 1..Len(types[c]) :
    types[c][k] = types[c][l] => k = l

StreamInv ==
  /\ \A c \in Clients \ garbled : Stream(types[c], sent[c], got[c], wire[c])
  /\ \A i \in PeerIds, f \in Fds : Serves(i, f) /\ conn[f] \notin garbled =>
       /\ Stream(types[conn[f]], sent[conn[f]], got[conn[f]],
                 buffer[i] \o wire[conn[f]])
       /\ Knows(types[conn[f]], known[i])

TurnInv == \A c \in Clients \ garbled : InTurn(sent[c], got[c])

IInv == TypeInv /\ ConnInv /\ NewInv /\ NumberInv /\ StreamInv /\ TurnInv

-----------------------------------------------------------------------------
(* Streams *)

\* A Stream may be cut anywhere.
LEMMA StreamEnd ==
  ASSUME NEW T, NEW S, NEW G, NEW w \in Seq(Pieces), NEW v \in Seq(Pieces),
         NEW d \in Nat, Len(v) + d = Len(w),
         \A k \in 1..Len(v) : v[k] = w[k + d], Stream(T, S, G, w)
  PROVE  Stream(T, S, G, v)
<1>1. Len(v) \in Nat /\ Len(w) \in Nat
  OBVIOUS
<1>2. \A k \in 1..Len(v) : k + d \in 1..Len(w) /\ Len(w) - (k + d) = Len(v) - k
  BY <1>1
<1>3. \A k \in 1..Len(v) : Own(T, S, v[k][1])
  BY <1>2 DEF Stream
<1>4. \A k \in 1..Len(v) : v[k][2] = "tail" <=> (Len(v) - k) % 2 = 0
  BY <1>2 DEF Stream
<1>5. ASSUME NEW j \in 1..Len(v), NEW k \in 1..Len(v),
             j < k, IsRead(v[j]), IsRead(v[k])
      PROVE  v[j][1].no < v[k][1].no
  <2>1. j + d < k + d
    BY <1>1, <1>5
  <2> QED
    BY <1>2, <1>5, <2>1 DEF Stream
<1>6. \A k \in 1..Len(v), j \in 1..Len(G) : IsRead(v[k]) => G[j][1] < v[k][1].no
  BY <1>2 DEF Stream
<1> QED
  BY <1>3, <1>4, <1>5, <1>6 DEF Stream

LEMMA LenIsNat ==
  ASSUME NEW X, NEW s \in Seq(X)
  PROVE  Len(s) \in Nat
OBVIOUS

LEMMA Together ==
  \A u, v, w \in Seq(Pieces) : u \o (v \o w) = (u \o v) \o w
OBVIOUS

LEMMA JoinParts ==
  ASSUME NEW X, NEW s \in Seq(X), NEW t \in Seq(X)
  PROVE  /\ s \o t \in Seq(X) /\ Len(s \o t) = Len(s) + Len(t)
         /\ \A k \in 1..Len(s \o t) :
              (s \o t)[k] = IF k <= Len(s) THEN s[k] ELSE t[k - Len(s)]
OBVIOUS

LEMMA FourPieces ==
  \A a, b, c, d \in Pieces : <<a, b>> \o <<c, d>> = <<a, b, c, d>>
<1> SUFFICES ASSUME NEW a \in Pieces, NEW b \in Pieces, NEW c \in Pieces, NEW d \in Pieces
             PROVE  <<a, b>> \o <<c, d>> = <<a, b, c, d>>
  OBVIOUS
<1> DEFINE s == <<a, b>>
           t == <<c, d>>
           u == s \o t
           v == <<a, b, c, d>>
<1>1. /\ s \in Seq(Pieces) /\ Len(s) = 2 /\ s[1] = a /\ s[2] = b
      /\ t \in Seq(Pieces) /\ Len(t) = 2 /\ t[1] = c /\ t[2] = d
  OBVIOUS
<1>2. v \in Seq(Pieces) /\ Len(v) = 4 /\ v[1] = a /\ v[2] = b /\ v[3] = c /\ v[4] = d
  OBVIOUS
<1> HIDE DEF s, t
<1>3. u \in Seq(Pieces) /\ Len(u) = 4 /\ u[1] = a /\ u[2] = b /\ u[3] = c /\ u[4] = d
  <2>1. /\ u \in Seq(Pieces) /\ Len(u) = 4
        /\ \A k \in 1..4 : u[k] = IF k <= 2 THEN s[k] ELSE t[k - 2]
    <3>1. /\ u \in Seq(Pieces) /\ Len(u) = Len(s) + Len(t)
          /\ \A k \in 1..Len(u) : u[k] = IF k <= Len(s) THEN s[k] ELSE t[k - Len(s)]
      BY <1>1, JoinParts, Zenon
    <3> HIDE DEF u
    <3> QED
      BY <1>1, <3>1
  <2> HIDE DEF u
  <2> QED
    BY <1>1, <2>1
<1> HIDE DEF u, v
<1>4. ASSUME NEW i \in 1..Len(u) PROVE u[i] = v[i]
  <2>1. i = 1 \/ i = 2 \/ i = 3 \/ i = 4
    BY <1>3
  <2> QED
    BY <1>2, <1>3, <2>1
<1>5. u = v
  BY <1>2, <1>3, <1>4, SeqEqual
<1> QED
  BY <1>5 DEF u, v, s, t

\* The first k elements of a sequence and the others
LEMMA Split ==
  ASSUME NEW X, NEW s \in Seq(X), NEW k \in 0..Len(s)
  PROVE  /\ SubSeq(s, 1, k) \in Seq(X) /\ Len(SubSeq(s, 1, k)) = k
         /\ \A j \in 1..k : SubSeq(s, 1, k)[j] = s[j]
         /\ SubSeq(s, k + 1, Len(s)) \in Seq(X)
         /\ Len(SubSeq(s, k + 1, Len(s))) = Len(s) - k
         /\ \A j \in 1..(Len(s) - k) : SubSeq(s, k + 1, Len(s))[j] = s[j + k]
         /\ SubSeq(s, 1, k) \o SubSeq(s, k + 1, Len(s)) = s
<1> DEFINE u == SubSeq(s, 1, k)
           v == SubSeq(s, k + 1, Len(s))
<1>1. Len(s) \in Nat /\ k \in Nat /\ k <= Len(s)
  OBVIOUS
<1>2. u \in Seq(X) /\ Len(u) = k /\ \A j \in 1..k : u[j] = s[j]
  OBVIOUS
<1>3. v \in Seq(X) /\ Len(v) = Len(s) - k /\ \A j \in 1..(Len(s) - k) : v[j] = s[j + k]
  OBVIOUS
<1> HIDE DEF u, v
<1>4. Len(u \o v) = Len(s) /\ u \o v \in Seq(X)
  BY <1>1, <1>2, <1>3
<1>5. ASSUME NEW j \in 1..Len(s) PROVE (u \o v)[j] = s[j]
  <2>1. CASE j <= k
    <3>1. j \in 1..Len(u) /\ u[j] = s[j]
      BY <1>1, <1>2, <2>1
    <3> QED
      BY <1>2, <1>3, <3>1
  <2>2. CASE j > k
    <3>1. j - k \in 1..Len(v) /\ v[j - k] = s[j]
      BY <1>1, <1>3, <2>2
    <3>2. (u \o v)[j] = v[j - k]
      BY <1>1, <1>2, <1>3, <2>2
    <3> QED
      BY <3>1, <3>2
  <2>3. j <= k \/ j > k
    BY <1>1
  <2> QED
    BY <2>1, <2>2, <2>3
<1>6. u \o v = s
  BY <1>4, <1>5, SeqEqual
<1> QED
  BY <1>2, <1>3, <1>6 DEF u, v

LEMMA EvenShift ==
  ASSUME NEW a \in Nat, NEW b \in Nat, b % 2 = 0
  PROVE  (a + b) % 2 = a % 2
OBVIOUS

LEMMA EvenRest ==
  ASSUME NEW b \in Nat, NEW a \in 0..b, b % 2 = 0
  PROVE  (b - a) % 2 = 0 <=> a % 2 = 0
OBVIOUS

\* A number of S that was sent with name n, and n added to the names
LEMMA StreamGrows ==
  ASSUME NEW T \in Seq(Names), NEW S \in Seq(Names), NEW G,
         NEW w \in Seq(Pieces), Stream(T, S, G, w),
         \A j \in 1..Len(G) : G[j][1] \in 1..Len(S),
         NEW n \in Names, NEW T1 \in Seq(Names), Len(T) <= Len(T1),
         \A k \in 1..Len(T) : T1[k] = T[k],
         NEW new \in Seq(Pieces), Len(new) % 2 = 0,
         \A k \in 1..Len(new) : /\ Own(T1, Append(S, n), new[k][1])
                                /\ new[k][1].no = Len(S) + 1
                                /\ new[k][2] = "tail" <=> k % 2 = 0,
         \A j, k \in 1..Len(new) : IsRead(new[j]) /\ IsRead(new[k]) => j = k
  PROVE  Stream(T1, Append(S, n), G, w \o new)
<1> DEFINE v == w \o new
           S1 == Append(S, n)
<1>1. /\ Len(T) \in Nat /\ Len(T1) \in Nat /\ Len(S) \in Nat
      /\ Len(w) \in Nat /\ Len(new) \in Nat
  BY LenIsNat
<1>11. S1 \in Seq(Names) /\ Len(S1) = Len(S) + 1
  OBVIOUS
<1>10. \A k \in 1..Len(S) : S1[k] = S[k]
  OBVIOUS
<1>2. /\ v \in Seq(Pieces) /\ Len(v) = Len(w) + Len(new)
      /\ \A k \in 1..Len(w) : v[k] = w[k]
      /\ \A k \in 1..Len(v) : k > Len(w) => v[k] = new[k - Len(w)]
  OBVIOUS
<1> HIDE DEF v, S1
<1>3. \A k \in 1..Len(v) :
        \/ k \in 1..Len(w) /\ v[k] = w[k]
        \/ k > Len(w) /\ k - Len(w) \in 1..Len(new) /\ v[k] = new[k - Len(w)]
  BY <1>1, <1>2
<1>4. ASSUME NEW p, Own(T, S, p) PROVE Own(T1, S1, p) /\ p.no <= Len(S)
  BY <1>1, <1>4, <1>10, <1>11 DEF Own
<1>5. ASSUME NEW k \in 1..Len(w)
      PROVE  Own(T, S, w[k][1]) /\ (w[k][2] = "tail" <=> (Len(w) - k) % 2 = 0)
  BY DEF Stream
<1>6. ASSUME NEW k \in 1..Len(v) PROVE Own(T1, S1, v[k][1])
  BY <1>3, <1>4, <1>5 DEF S1
<1>7. ASSUME NEW k \in 1..Len(v) PROVE v[k][2] = "tail" <=> (Len(v) - k) % 2 = 0
  <2>1. CASE k \in 1..Len(w) /\ v[k] = w[k]
    <3> DEFINE a == Len(w) - k
    <3>4. k \in Nat /\ Len(v) = Len(w) + Len(new)
      BY <1>2
    <3>2. a \in Nat /\ Len(v) - k = a + Len(new)
      BY <1>1, <2>1, <3>4
    <3> HIDE DEF a
    <3>3. (a + Len(new)) % 2 = a % 2
      BY <1>1, <3>2, EvenShift
    <3>1. (Len(v) - k) % 2 = (Len(w) - k) % 2
      BY <3>2, <3>3 DEF a
    <3> QED
      BY <1>5, <2>1, <3>1
  <2>2. CASE k > Len(w) /\ k - Len(w) \in 1..Len(new) /\ v[k] = new[k - Len(w)]
    <3> DEFINE a == k - Len(w)
    <3>4. k \in Nat /\ Len(v) = Len(w) + Len(new)
      BY <1>2
    <3>2. a \in 0..Len(new) /\ Len(v) - k = Len(new) - a
      BY <1>1, <2>2, <3>4
    <3> HIDE DEF a
    <3>3. (Len(new) - a) % 2 = 0 <=> a % 2 = 0
      BY <1>1, <3>2, EvenRest
    <3>1. (Len(v) - k) % 2 = 0 <=> (k - Len(w)) % 2 = 0
      BY <3>2, <3>3 DEF a
    <3> QED
      BY <2>2, <3>1
  <2> QED
    BY <1>3, <2>1, <2>2
<1>8. ASSUME NEW j \in 1..Len(v), NEW k \in 1..Len(v), j < k,
             IsRead(v[j]), IsRead(v[k])
      PROVE  v[j][1].no < v[k][1].no
  <2>1. CASE k \in 1..Len(w) /\ v[k] = w[k]
    <3>1. j \in 1..Len(w) /\ v[j] = w[j]
      BY <1>1, <1>2, <1>8, <2>1
    <3> QED
      BY <1>8, <2>1, <3>1 DEF Stream
  <2>2. CASE k > Len(w) /\ k - Len(w) \in 1..Len(new) /\ v[k] = new[k - Len(w)]
    <3>1. v[k][1].no = Len(S) + 1
      BY <2>2
    <3>2. CASE j \in 1..Len(w) /\ v[j] = w[j]
      <4>1. v[j][1].no <= Len(S) /\ v[j][1].no \in Nat
        BY SMTT(30), <1>4, <1>5, <3>2 DEF Own
      <4> QED
        BY <1>1, <3>1, <4>1
    <3>3. CASE j > Len(w) /\ j - Len(w) \in 1..Len(new) /\ v[j] = new[j - Len(w)]
      <4>1. j - Len(w) = k - Len(w)
        BY <1>8, <2>2, <3>3
      <4> QED
        BY <1>1, <1>8, <4>1
    <3> QED
      BY <1>3, <3>2, <3>3
  <2> QED
    BY <1>3, <2>1, <2>2
<1>9. ASSUME NEW k \in 1..Len(v), NEW j \in 1..Len(G), IsRead(v[k])
      PROVE  G[j][1] < v[k][1].no
  <2>1. CASE k \in 1..Len(w) /\ v[k] = w[k]
    BY <1>9, <2>1 DEF Stream
  <2>2. CASE k > Len(w) /\ k - Len(w) \in 1..Len(new) /\ v[k] = new[k - Len(w)]
    <3>1. v[k][1].no = Len(S) + 1
      BY <2>2
    <3> QED
      BY <1>1, <3>1
  <2> QED
    BY <1>3, <1>9, <2>1, <2>2
<1> QED
  BY <1>6, <1>7, <1>8, <1>9 DEF Stream, v, S1

-----------------------------------------------------------------------------
(* What a peer reads *)

LEMMA RestIsEven ==
  /\ \A a \in Nat : a > 0 /\ (a - 1) % 2 # 0 => a % 2 = 0
  /\ \A a, k \in Nat : a % 2 = 0 /\ 2 * k <= a => (a - 2 * k) % 2 = 0
<1>1. ASSUME NEW a \in Nat, a > 0, (a - 1) % 2 # 0 PROVE a % 2 = 0
  BY <1>1
<1>2. ASSUME NEW a \in Nat, NEW k \in Nat, a % 2 = 0, 2 * k <= a
      PROVE  (a - 2 * k) % 2 = 0
  BY <1>2
<1> QED
  BY <1>1, <1>2

LEMMA Halves ==
  ASSUME NEW a \in Nat
  PROVE  a \div 2 \in Nat /\ 2 * (a \div 2) <= a
OBVIOUS

\* A number that is not negative was read as it was written.
LEMMA ParsedIsWritten ==
  ASSUME NEW t \in Types
  PROVE  Parsed(t) \in Int /\ (Parsed(t) \in Nat => Parsed(t) = t)
<1> DEFINE two == 2 * SignBit
           low == t % two
           half == 2 * SignBit * SignBit
           whole == 4 * SignBit * SignBit
<1>1. Cardinality(Names) \in Nat
  BY NetworkAssumption, FS_CardinalityType
<1>2. SignBit \in Nat \ {0} /\ two \in Nat \ {0} /\ half \in Nat /\ whole \in Nat
  BY NetworkAssumption
<1>3. t \in Nat /\ t < whole
  BY <1>1, <1>2, NetworkAssumption DEF Types
<1>4. low \in 0..(two - 1)
  BY <1>2, <1>3
<1>5. Parsed(t) = IF low >= SignBit THEN low - two ELSE IF t >= half THEN t - whole ELSE t
  BY DEF Parsed
<1> HIDE DEF two, low, half, whole
<1> QED
  BY <1>2, <1>3, <1>4, <1>5

\* What packets define leads to their names.
LEMMA DefinedKnows ==
  ASSUME NEW T \in Seq(Names), NEW S, NEW K \in SUBSET (Int \X Names), Knows(T, K),
         NEW N \in Nat, NEW ps, \A j \in 1..N : ps[j] \in Packets /\ Own(T, S, ps[j]),
         NEW k \in 1..(N + 1)
  PROVE  Defined(ps, k, K) \in SUBSET (Int \X Names) /\ Knows(T, Defined(ps, k, K))
<1>1. \A j \in 1..(k - 1) : j \in 1..N
  OBVIOUS
<1>2. ASSUME NEW j \in 1..(k - 1)
      PROVE  /\ Parsed(ps[j].type) \in Int /\ ps[j].name \in Names
             /\ Parsed(ps[j].type) \in Nat => Parsed(ps[j].type) = ps[j].type
             /\ Own(T, S, ps[j])
  <2>1. ps[j] \in Packets /\ Own(T, S, ps[j])
    BY <1>1
  <2>2. ps[j].type \in Types /\ ps[j].name \in Names
    BY <2>1 DEF Packets
  <2> QED
    BY <2>1, <2>2, ParsedIsWritten
<1>3. Defined(ps, k, K) \in SUBSET (Int \X Names)
  BY <1>2 DEF Defined
<1>4. ASSUME NEW t \in Nat, NEW n \in Names, <<t, n>> \in Defined(ps, k, K)
      PROVE  t - FirstType + 1 \in 1..Len(T) /\ T[t - FirstType + 1] = n
  <2>1. CASE <<t, n>> \in K
    BY <2>1 DEF Knows
  <2>2. CASE <<t, n>> \notin K
    <3>1. PICK j \in 1..(k - 1) : <<t, n>> = <<Parsed(ps[j].type), ps[j].name>>
      BY <1>4, <2>2 DEF Defined
    <3>2. t = ps[j].type /\ n = ps[j].name
      BY <1>2, <3>1
    <3> QED
      BY <1>2, <3>2 DEF Own
  <2> QED
    BY <2>1, <2>2
<1> QED
  BY <1>3, <1>4 DEF Knows

\* Types T, the packets S that were sent, the events G, the names K that the
\* peer knows and v, what is still to be read, agree.
Reads(T, S, G, K, v) ==
  /\ G \in Seq(Nat \X Names) /\ InTurn(S, G)
  /\ K \in SUBSET (Int \X Names) /\ Knows(T, K)
  /\ v \in Seq(Pieces) /\ Stream(T, S, G, v)

LEMMA CutStream ==
  ASSUME NEW T, NEW S, NEW G, NEW b \in Seq(Pieces), NEW w \in Seq(Pieces),
         Stream(T, S, G, b \o w), NEW m \in 0..Len(b)
  PROVE  LET v == SubSeq(b, m + 1, Len(b)) \o w
         IN /\ v \in Seq(Pieces) /\ Len(v) + m = Len(b \o w)
            /\ \A k \in 1..Len(v) : k + m \in 1..Len(b \o w) /\ v[k] = (b \o w)[k + m]
            /\ Stream(T, S, G, v)
<1> DEFINE u == b \o w
           c == SubSeq(b, m + 1, Len(b))
           v == c \o w
<1>1. /\ c \in Seq(Pieces) /\ Len(c) = Len(b) - m
      /\ \A k \in 1..(Len(b) - m) : c[k] = b[k + m]
  BY Split
<1> HIDE DEF c
<1>2. Len(b) \in Nat /\ Len(w) \in Nat /\ Len(c) \in Nat /\ m \in Nat /\ m <= Len(b)
  BY <1>1, LenIsNat
<1>3. /\ u \in Seq(Pieces) /\ Len(u) = Len(b) + Len(w)
      /\ \A k \in 1..Len(u) : u[k] = IF k <= Len(b) THEN b[k] ELSE w[k - Len(b)]
  BY JoinParts
<1>4. /\ v \in Seq(Pieces) /\ Len(v) = Len(c) + Len(w)
      /\ \A k \in 1..Len(v) : v[k] = IF k <= Len(c) THEN c[k] ELSE w[k - Len(c)]
  BY <1>1, JoinParts
<1>5. Stream(T, S, G, u)
  OBVIOUS
<1> HIDE DEF u, v
<1>6. ASSUME NEW k \in 1..Len(v) PROVE k + m \in 1..Len(u) /\ v[k] = u[k + m]
  <2>1. /\ k \in Nat /\ k + m \in 1..Len(u)
        /\ k <= Len(c) <=> k + m <= Len(b)
        /\ k - Len(c) = (k + m) - Len(b)
    BY SMTT(30), <1>1, <1>2, <1>3, <1>4
  <2>2. k <= Len(c) => k \in 1..(Len(b) - m)
    BY <1>1, <1>2, <1>4, <2>1
  <2> QED
    BY <1>1, <1>3, <1>4, <2>1, <2>2
<1>7. Len(v) + m = Len(u)
  BY <1>1, <1>2, <1>3, <1>4
<1>8. Stream(T, S, G, v)
  BY <1>2, <1>3, <1>4, <1>5, <1>6, <1>7, StreamEnd
<1> QED
  BY <1>4, <1>6, <1>7, <1>8 DEF c, u, v

\* The peer handled m pieces of b.
Handled(T, S, i, c, b, w) ==
  \E m, G, K :
    /\ m \in 0..Len(b)
    /\ buffer' = [buffer EXCEPT ![i] = SubSeq(b, m + 1, Len(b))]
    /\ got' = [got EXCEPT ![c] = G]
    /\ known' = [known EXCEPT ![i] = K]
    /\ Reads(T, S, G, K, SubSeq(b, m + 1, Len(b)) \o w)

\* A peer that has the beginning of a packet reads what it was sent.
LEMMA InputReads ==
  ASSUME NEW T \in Seq(Names), NEW S \in Seq(Names), NEW c \in Clients, NEW i \in PeerIds,
         got[c] \in Seq(Nat \X Names), InTurn(S, got[c]),
         known[i] \in SUBSET (Int \X Names), Knows(T, known[i]),
         NEW b \in Seq(Pieces), NEW w \in Seq(Pieces), Stream(T, S, got[c], b \o w),
         b # <<>>, b[1][2] = "head", Input(b, i, c)
  PROVE  Handled(T, S, i, c, b, w)
<1> DEFINE ps == WholePackets(b)
           names == [k \in DOMAIN ps |-> NamesOf(ps[k].type, Defined(ps, k, known[i]))]
           unknown == {k \in DOMAIN ps : IsData(ps[k]) /\ names[k] = {}}
           end == IF unknown = {} THEN Len(ps) + 1 ELSE Min(unknown)
           R == {k \in 1..(end - 1) : IsData(ps[k])}
           read == InOrder(R)
           Named(k) == <<ps[k].no, CHOOSE n \in names[k] : TRUE>>
           reads == [j \in DOMAIN read |-> Named(read[j])]
           m == 2 * Min({end, Len(ps)})
           half == Len(b) \div 2
           u == b \o w
<1>1. /\ buffer' = [buffer EXCEPT ![i] = SubSeq(b, m + 1, Len(b))]
      /\ known' = [known EXCEPT ![i] = Defined(ps, end, known[i])]
      /\ got' = [got EXCEPT ![c] = got[c] \o reads]
  BY DEF Input
<1>2. Len(b) \in Nat /\ half \in Nat /\ 2 * half <= Len(b) /\ Len(b) > 0
  BY LenIsNat, Halves
<1>3. /\ u \in Seq(Pieces) /\ Len(u) \in Nat /\ Len(u) >= Len(b)
      /\ \A k \in 1..Len(b) : k \in 1..Len(u) /\ u[k] = b[k]
  BY LenIsNat, JoinParts
<1>4. /\ DOMAIN ps = 1..half /\ Len(ps) = half /\ \A k \in 1..half : ps[k] = b[2 * k][1]
  BY <1>2 DEF WholePackets
<1> HIDE DEF ps, half
<1>5. Stream(T, S, got[c], u)
  OBVIOUS
<1> HIDE DEF u
<1>6. Len(u) % 2 = 0
  <2>1. 1 \in 1..Len(u) /\ u[1][2] = "head"
    BY <1>2, <1>3
  <2>2. (Len(u) - 1) % 2 # 0
    BY <1>5, <2>1 DEF Stream
  <2> QED
    BY <1>2, <1>3, <2>2, RestIsEven
<1>7. ASSUME NEW k \in 1..half
      PROVE  /\ 2 * k \in 1..Len(u) /\ 2 * k <= Len(b) /\ ps[k] = u[2 * k][1]
             /\ u[2 * k][2] = "tail" /\ ps[k] \in Packets /\ Own(T, S, ps[k])
  <2>1. 2 * k \in 1..Len(b) /\ 2 * k <= Len(u) /\ k \in Nat
    BY <1>2, <1>3
  <2>2. 2 * k \in 1..Len(u) /\ u[2 * k] = b[2 * k]
    BY <1>3, <2>1
  <2>3. (Len(u) - 2 * k) % 2 = 0
    BY <1>3, <1>6, <2>1, RestIsEven
  <2>4. u[2 * k] \in Pieces
    BY <1>3, <2>2
  <2>5. ps[k] = u[2 * k][1]
    BY <1>4, <2>2
  <2>6. u[2 * k][2] = "tail" /\ Own(T, S, u[2 * k][1])
    BY <1>5, <2>2, <2>3 DEF Stream
  <2>7. u[2 * k][1] \in Packets
    BY <2>4 DEF Pieces
  <2> QED
    BY <2>1, <2>2, <2>5, <2>6, <2>7
<1>8. /\ end \in 1..(half + 1) /\ \A k \in 1..(end - 1) : k \in 1..half /\ k \notin unknown
  <2>1. unknown \subseteq 1..half
    BY <1>4
  <2> HIDE DEF unknown
  <2>2. CASE unknown = {}
    <3>1. end = half + 1
      BY <1>4, <2>2
    <3> HIDE DEF end
    <3> QED
      BY <1>2, <2>2, <3>1
  <2>3. CASE unknown # {}
    <3>2. unknown \subseteq Nat
      BY <1>2, <2>1
    <3>3. end = Min(unknown)
      BY <2>3
    <3>1. end \in unknown /\ \A k \in unknown : end <= k
      BY <2>3, <3>2, <3>3, LeastIsMin
    <3> HIDE DEF end
    <3> QED
      BY <1>2, <2>1, <3>1
  <2> QED
    BY <2>2, <2>3
<1>9. \A k \in 1..(end - 1) : IsData(ps[k]) => names[k] # {}
  <2> HIDE DEF names, end
  <2> QED
    BY <1>4, <1>8
<1>10. \A k \in 1..half : names[k] = NamesOf(ps[k].type, Defined(ps, k, known[i]))
  BY <1>4
<1> HIDE DEF names, unknown, end
<1>11. ASSUME NEW k \in R
       PROVE  /\ k \in 1..half /\ k < end /\ IsData(ps[k])
              /\ Named(k) = <<ps[k].no, S[ps[k].no]>> /\ ps[k].no \in 1..Len(S)
  <2>1. k \in 1..half /\ k < end /\ IsData(ps[k]) /\ k \in 1..(half + 1)
    BY <1>2, <1>8
  <2>2. ps[k] \in Packets /\ Own(T, S, ps[k]) /\ \A j \in 1..half : ps[j] \in Packets /\ Own(T, S, ps[j])
    BY <1>7, <2>1
  <2> DEFINE n == CHOOSE n \in names[k] : TRUE
             D == Defined(ps, k, known[i])
  <2>3. names[k] # {} /\ names[k] = NamesOf(ps[k].type, D)
    BY <1>8, <1>9, <1>10, <2>1
  <2>4. n \in NamesOf(ps[k].type, D)
    BY <2>3
  <2>5. Knows(T, D)
    BY <1>2, <2>1, <2>2, DefinedKnows
  <2>6. ps[k].type \in Nat
    BY SMTT(30), <2>2, NetworkAssumption, FS_CardinalityType DEF Packets, Types
  <2> HIDE DEF n, D
  <2>7. n \in Names /\ <<ps[k].type, n>> \in D
    BY <2>4 DEF NamesOf
  <2>8. T[ps[k].type - FirstType + 1] = n
    BY <2>5, <2>6, <2>7 DEF Knows
  <2>9. n = ps[k].name /\ S[ps[k].no] = ps[k].name /\ ps[k].no \in 1..Len(S)
    BY <2>1, <2>2, <2>8 DEF Own
  <2> QED
    BY <2>1, <2>9 DEF n
<1>12. R \subseteq Nat /\ IsFiniteSet(R)
  <2>1. R \subseteq 1..half
    BY <1>8
  <2>2. IsFiniteSet(1..half)
    BY <1>2, FS_Interval
  <2> QED
    BY <1>2, <2>1, <2>2, FS_Subset
<1> HIDE DEF R
<1> DEFINE size == Cardinality(R)
<1>13. /\ read \in Seq(R) /\ Len(read) = size /\ size \in Nat
       /\ \A j, k \in 1..size : j < k => read[j] < read[k]
  BY <1>12, InOrderRises, FS_CardinalityType
<1> HIDE DEF read, size, Named
<1>14. DOMAIN read = 1..size /\ \A j \in 1..size : read[j] \in R
  BY <1>13
<1>15. \A j \in 1..size : reads[j] = Named(read[j])
  BY <1>14
<1>16. \A j \in 1..size : Named(read[j]) \in Nat \X Names
  <2>1. ASSUME NEW j \in 1..size PROVE Named(read[j]) \in Nat \X Names
    <3> DEFINE no == ps[read[j]].no
    <3>1. Named(read[j]) = <<no, S[no]>> /\ no \in 1..Len(S)
      BY <1>11, <1>14
    <3> HIDE DEF no
    <3>2. no \in Nat /\ S[no] \in Names
      BY <3>1, LenIsNat
    <3> QED
      BY <3>1, <3>2
  <2> QED
    BY <2>1
<1>17. reads \in Seq(Nat \X Names) /\ Len(reads) = size
  <2>1. reads = [j \in 1..size |-> Named(read[j])]
    BY <1>14
  <2> HIDE DEF reads
  <2> QED
    BY <1>13, <1>16, <2>1
<1> HIDE DEF reads
<1> DEFINE G == got[c]
           G1 == G \o reads
<1>18. /\ G1 \in Seq(Nat \X Names) /\ Len(G) \in Nat /\ Len(G1) = Len(G) + size
       /\ \A j \in 1..Len(G1) : G1[j] = IF j <= Len(G) THEN G[j] ELSE reads[j - Len(G)]
  BY <1>17, LenIsNat, JoinParts
<1>19. G \in Seq(Nat \X Names) /\ InTurn(S, G) /\ Stream(T, S, G, u)
  BY <1>5
<1> HIDE DEF G, G1
\* What is read is on the stream.
<1>20. ASSUME NEW j \in 1..size
       PROVE  /\ 2 * read[j] \in 1..Len(u) /\ IsRead(u[2 * read[j]])
              /\ reads[j][1] = u[2 * read[j]][1].no
              /\ reads[j][1] \in 1..Len(S) /\ reads[j][2] = S[reads[j][1]]
              /\ read[j] \in 1..half /\ read[j] < end
  <2>1. read[j] \in R /\ reads[j] = Named(read[j])
    BY <1>14, <1>15
  <2>2. /\ read[j] \in 1..half /\ read[j] < end /\ IsData(ps[read[j]])
        /\ reads[j] = <<ps[read[j]].no, S[ps[read[j]].no]>> /\ ps[read[j]].no \in 1..Len(S)
    BY <1>11, <2>1
  <2>3. /\ 2 * read[j] \in 1..Len(u) /\ ps[read[j]] = u[2 * read[j]][1]
        /\ u[2 * read[j]][2] = "tail"
    BY <1>7, <2>2
  <2> QED
    BY <2>2, <2>3 DEF IsRead
<1>21. ASSUME NEW j \in 1..size, NEW k \in 1..size, k < j
       PROVE  reads[k][1] < reads[j][1]
  <2>1. read[k] < read[j] /\ read[k] \in 1..half /\ read[j] \in 1..half
    BY <1>13, <1>20, <1>21
  <2>2. 2 * read[k] < 2 * read[j]
    BY <1>2, <2>1
  <2>3. /\ 2 * read[j] \in 1..Len(u) /\ IsRead(u[2 * read[j]])
        /\ reads[j][1] = u[2 * read[j]][1].no
    BY <1>20
  <2>4. /\ 2 * read[k] \in 1..Len(u) /\ IsRead(u[2 * read[k]])
        /\ reads[k][1] = u[2 * read[k]][1].no
    BY <1>20
  <2> QED
    BY <1>19, <2>2, <2>3, <2>4 DEF Stream
<1>22. ASSUME NEW j \in 1..size, NEW k \in 1..Len(G)
       PROVE  G[k][1] < reads[j][1]
  BY <1>19, <1>20 DEF Stream
<1>23. \A j \in 1..Len(G1) :
         \/ j \in 1..Len(G) /\ G1[j] = G[j]
         \/ j > Len(G) /\ j - Len(G) \in 1..size /\ G1[j] = reads[j - Len(G)]
  <2> TAKE j \in 1..Len(G1)
  <2>1. Len(G) \in Nat /\ size \in Nat /\ Len(G1) = Len(G) + size
    BY <1>13, <1>18
  <2>2. CASE j <= Len(G)
    BY <1>18, <2>1, <2>2
  <2>3. CASE j > Len(G)
    <3>1. j - Len(G) \in 1..size
      BY <2>1, <2>3
    <3> QED
      BY <1>18, <2>1, <2>3, <3>1
  <2> QED
    BY <2>1, <2>2, <2>3
<1>24. InTurn(S, G1)
  <2>1. ASSUME NEW j \in 1..Len(G1)
        PROVE  G1[j][1] \in 1..Len(S) /\ G1[j][2] = S[G1[j][1]]
    BY <1>19, <1>20, <1>23 DEF InTurn
  <2>2. ASSUME NEW j \in 1..Len(G1), NEW k \in 1..(j - 1)
        PROVE  G1[k][1] < G1[j][1]
    <3>1. k \in 1..Len(G1) /\ k < j
      BY <1>13, <1>18
    <3>2. CASE j \in 1..Len(G) /\ G1[j] = G[j]
      <4>1. k \in 1..Len(G) /\ G1[k] = G[k]
        BY <1>18, <3>1, <3>2
      <4> QED
        BY <1>19, <3>1, <3>2, <4>1 DEF InTurn
    <3>3. CASE j > Len(G) /\ j - Len(G) \in 1..size /\ G1[j] = reads[j - Len(G)]
      <4>1. CASE k \in 1..Len(G) /\ G1[k] = G[k]
        BY <1>22, <3>3, <4>1
      <4>2. CASE k > Len(G) /\ k - Len(G) \in 1..size /\ G1[k] = reads[k - Len(G)]
        <5>1. k - Len(G) < j - Len(G)
          BY <1>18, <3>1, <3>3, <4>2
        <5> QED
          BY <1>21, <3>3, <4>2, <5>1
      <4> QED
        BY <1>23, <3>1, <4>1, <4>2
    <3> QED
      BY <1>23, <3>2, <3>3
  <2> QED
    BY <2>1, <2>2 DEF InTurn
<1>25. /\ m \in 0..Len(b) /\ \A j \in 1..size : 2 * read[j] <= m
  <2> DEFINE least == Min({end, Len(ps)})
  <2>1. {end, Len(ps)} \subseteq Nat /\ {end, Len(ps)} # {} /\ end \in Nat /\ half \in Nat
    BY <1>2, <1>4, <1>8
  <2>2. least \in {end, half} /\ least <= half
    BY <1>4, <2>1, LeastIsMin
  <2> HIDE DEF least
  <2>3. least \in Nat /\ m = 2 * least
    BY <2>1, <2>2 DEF least
  <2> HIDE DEF m
  <2>4. ASSUME NEW j \in 1..size PROVE 2 * read[j] <= m
    <3>1. read[j] \in 1..half /\ read[j] < end
      BY <1>20
    <3> QED
      BY <2>1, <2>2, <2>3, <3>1
  <2> QED
    BY <1>2, <2>1, <2>2, <2>3, <2>4
<1> HIDE DEF m
<1> DEFINE v == SubSeq(b, m + 1, Len(b)) \o w
<1>26. /\ v \in Seq(Pieces) /\ Len(v) + m = Len(u)
       /\ \A k \in 1..Len(v) : k + m \in 1..Len(u) /\ v[k] = u[k + m]
       /\ Stream(T, S, G, v)
  BY <1>19, <1>25, CutStream DEF u
<1> HIDE DEF v
<1>27. ASSUME NEW k \in 1..Len(v), NEW j \in 1..Len(G1), IsRead(v[k])
       PROVE  G1[j][1] < v[k][1].no
  <2>1. CASE j \in 1..Len(G) /\ G1[j] = G[j]
    BY <1>26, <1>27, <2>1 DEF Stream
  <2>2. CASE j > Len(G) /\ j - Len(G) \in 1..size /\ G1[j] = reads[j - Len(G)]
    <3> DEFINE l == j - Len(G)
    <3>1. /\ l \in 1..size /\ 2 * read[l] \in 1..Len(u) /\ IsRead(u[2 * read[l]])
          /\ reads[l][1] = u[2 * read[l]][1].no /\ 2 * read[l] <= m
      BY <1>20, <1>25, <2>2
    <3>2. k + m \in 1..Len(u) /\ v[k] = u[k + m]
      BY <1>26
    <3>3. k \in Nat \ {0} /\ m \in Nat
      BY <1>2, <1>25
    <3> HIDE DEF l
    <3>4. 2 * read[l] < k + m
      BY SMTT(30), <3>1, <3>2, <3>3
    <3>5. u[2 * read[l]][1].no < u[k + m][1].no
      BY <1>19, <1>27, <3>1, <3>2, <3>4 DEF Stream
    <3> QED
      BY <2>2, <3>1, <3>2, <3>5 DEF l
  <2> QED
    BY <1>23, <2>1, <2>2
<1>28. Stream(T, S, G1, v)
  BY <1>26, <1>27 DEF Stream
<1>29. Defined(ps, end, known[i]) \in SUBSET (Int \X Names)
         /\ Knows(T, Defined(ps, end, known[i]))
  <2>1. \A j \in 1..half : ps[j] \in Packets /\ Own(T, S, ps[j])
    BY <1>7
  <2> QED
    BY <1>2, <1>8, <2>1, DefinedKnows
<1>30. Reads(T, S, G1, Defined(ps, end, known[i]), v)
  BY <1>18, <1>24, <1>26, <1>28, <1>29 DEF Reads
<1>31. got' = [got EXCEPT ![c] = G1]
  BY <1>1 DEF G, G1
<1> QED
  BY <1>1, <1>25, <1>30, <1>31 DEF v, Handled

-----------------------------------------------------------------------------
(* Steps *)

\* What a name is given is within the two bytes of a type.
LEMMA NumbersSuffice ==
  ASSUME NEW T \in Seq(Names), \A k, l \in 1..Len(T) : T[k] = T[l] => k = l
  PROVE  Len(T) <= Cardinality(Names)
<1> DEFINE n == Len(T)
<1>1. n \in Nat /\ T \in [1..n -> Names]
  BY LenIsNat
<1>2. T \in Injection(1..n, Names)
  BY <1>1 DEF Injection, IsInjective
<1>3. Cardinality(1..n) <= Cardinality(Names)
  BY <1>2, NetworkAssumption, FS_Injection
<1>4. Cardinality(1..n) = n
  BY SMTT(30), <1>1, FS_Interval
<1> QED
  BY <1>3, <1>4

LEMMA InitIInv == Init => IInv
<1> SUFFICES ASSUME Init PROVE IInv
  OBVIOUS
<1> USE NetworkAssumption DEF Init, NoNames, NoPeers, NoBuffers, NoTypes
<1>1. TypeInv
  BY DEF TypeInv
<1>2. ConnInv
  BY DEF ConnInv
<1>3. NewInv
  BY DEF NewInv
<1>4. NumberInv
  BY DEF NumberInv
<1>5. StreamInv
  <2>1. ASSUME NEW c \in Clients PROVE Stream(types[c], sent[c], got[c], wire[c])
    BY DEF Stream
  <2>2. \A i \in PeerIds, f \in Fds : ~Serves(i, f)
    BY DEF Serves
  <2> QED
    BY <2>1, <2>2 DEF StreamInv
<1>6. TurnInv
  BY DEF TurnInv, InTurn
<1> QED
  BY <1>1, <1>2, <1>3, <1>4, <1>5, <1>6 DEF IInv

\* Steps that neither send, connect nor read.
LEMMA StreamsStay ==
  ASSUME IInv,
         UNCHANGED <<came, backlog, types, wire, sent, conn, peers, bySocket, buffer,
                     known, got, garbled>>,
         stored' = stored \/ stored' = peers, NewInv'
  PROVE  IInv'
<1>1. TypeInv' /\ ConnInv' /\ NumberInv' /\ TurnInv'
  BY DEF IInv, TypeInv, ConnInv, NumberInv, TurnInv
<1>2. StreamInv'
  BY DEF IInv, StreamInv, Serves
<1> QED
  BY <1>1, <1>2 DEF IInv

\* A step that leaves the bookkeeping of a peer and its client as they are.
LEMMA ConnectStep ==
  ASSUME IInv, NEW c \in Clients, Connect(c)
  PROVE  IInv'
<1> USE DEF Connect, peerVars, threadVars
<1>1. /\ backlog \in Seq(Clients) /\ backlog' = Append(backlog, c)
      /\ c \notin came /\ came' = came \cup {c} /\ Len(backlog) \in Nat
  BY LenIsNat DEF IInv, TypeInv
<1>2. /\ backlog' \in Seq(Clients) /\ Len(backlog') = Len(backlog) + 1
      /\ \A k \in 1..Len(backlog') :
           \/ k \in 1..Len(backlog) /\ backlog'[k] = backlog[k]
           \/ k = Len(backlog) + 1 /\ backlog'[k] = c
  BY <1>1
<1>3. TypeInv'
  BY <1>2 DEF IInv, TypeInv
<1>4. ConnInv'
  <2>1. ConnInv
    BY DEF IInv
  <2> QED
    BY <1>1, <1>2, <2>1 DEF ConnInv
<1>5. NewInv' /\ NumberInv' /\ TurnInv'
  BY DEF IInv, NewInv, NumberInv, TurnInv
<1>6. StreamInv'
  BY DEF IInv, StreamInv, Serves
<1> QED
  BY <1>3, <1>4, <1>5, <1>6 DEF IInv

LEMMA LeaveStep ==
  ASSUME IInv, NEW c \in Clients, Leave(c)
  PROVE  IInv'
<1>1. NewInv'
  BY DEF IInv, NewInv, Leave, peerVars, threadVars
<1> QED
  BY <1>1, StreamsStay DEF Leave, peerVars, threadVars

LEMMA QuietStep ==
  ASSUME IInv,
         \/ GetSockets \/ Discarded \/ Select \/ HandleNothing \/ NoPeer \/ ThreadEnds
         \/ (\E f \in Fds, i \in PeerIds : InputThrows(f, i))
         \/ OnUnload \/ Erase \/ RequestStop \/ UNCHANGED vars
  PROVE  IInv'
<1>1. /\ UNCHANGED
           <<came, backlog, types, wire, sent, conn, bound, peers, bySocket, buffer,
             known, got, garbled>>
      /\ stored' = stored \/ stored' = peers
  BY DEF GetSockets, Discarded, Select, HandleNothing, NoPeer, ThreadEnds, InputThrows,
         OnUnload, Erase, RequestStop, NextSocket, Crash, vars, clientVars, peerVars, threadVars
<1>2. NewInv'
  <2> SUFFICES ASSUME mod' = "init"
               PROVE  watched' = <<>> /\ active' = <<>> /\ NewInv /\ mod = "init"
    BY <1>1 DEF NewInv
  <2>1. mod = "init"
    BY DEF GetSockets, Discarded, Select, HandleNothing, NoPeer, ThreadEnds, InputThrows,
           OnUnload, Erase, RequestStop, Crash, vars
  <2>2. NewInv /\ watched = <<>> /\ active = <<>> /\ ~bound /\ peers = NoPeers
    BY <2>1 DEF IInv, NewInv
  <2>3. CASE GetSockets
    <3>1. {i \in PeerIds : peers[i] # None} = {}
      BY <2>2 DEF NoPeers
    <3>2. PeersInOrder = <<>>
      BY <3>1, InOrderOfNone DEF PeersInOrder
    <3>3. Sockets = <<>>
      BY <2>2, <3>2 DEF Sockets
    <3> QED
      BY <2>1, <2>2, <2>3, <3>3 DEF GetSockets, Accessible, Crash
  <2>4. CASE Select
    <3>1. Only(watched, {f \in ToSet(watched) : Readable(f)}) = <<>>
      BY <2>2, OnlyOfNone
    <3> QED
      BY <2>1, <2>2, <2>4, <3>1 DEF Select
  <2>5. CASE NoPeer
    BY <2>2, <2>5 DEF NoPeer, Handling
  <2> QED
    BY <2>1, <2>2, <2>3, <2>4, <2>5
       DEF Discarded, HandleNothing, ThreadEnds, InputThrows, OnUnload, Erase, RequestStop, Crash,
           vars, threadVars
<1> QED
  BY <1>1, <1>2, StreamsStay

LEMMA SendStep ==
  ASSUME IInv, NEW c \in Clients, NEW n \in Names, Send(c, n)
  PROVE  IInv'
<1> DEFINE T == types[c]
           S == sent[c]
           isKnown == n \in ToSet(T)
           T1 == IF isKnown THEN T ELSE Append(T, n)
           S1 == Append(S, n)
           place == CHOOSE t \in DOMAIN T1 : T1[t] = n
           packet == [from |-> c, no |-> Len(S) + 1, kind |-> "data",
                      type |-> TypeIn(T1, n), name |-> n]
           define == [packet EXCEPT !.kind = "define"]
           first == IF isKnown THEN <<>> ELSE InPieces(define)
           new == first \o InPieces(packet)
<1>1. /\ types' = [types EXCEPT ![c] = T1] /\ sent' = [sent EXCEPT ![c] = S1]
      /\ wire' = [wire EXCEPT ![c] = (wire[c] \o first) \o InPieces(packet)]
      /\ UNCHANGED <<came, backlog, conn, bound, peers, bySocket, buffer, known, watched,
                     active, mod, stored, got, garbled>>
  BY DEF Send, Output, peerVars, threadVars
<1>2. /\ T \in Seq(Names) /\ S \in Seq(Names) /\ Len(T) \in Nat /\ Len(S) \in Nat
      /\ \A k, l \in 1..Len(T) : T[k] = T[l] => k = l
      /\ wire[c] \in Seq(Pieces)
  BY LenIsNat DEF IInv, TypeInv, NumberInv
<1> HIDE DEF T, S
<1>3. /\ T1 \in Seq(Names) /\ Len(T1) \in Nat /\ Len(T) <= Len(T1)
      /\ \A k \in 1..Len(T) : T1[k] = T[k]
      /\ \A k, l \in 1..Len(T1) : T1[k] = T1[l] => k = l
      /\ \E k \in 1..Len(T1) : T1[k] = n
  <2>1. CASE isKnown
    <3>1. \E k \in 1..Len(T) : T[k] = n
      BY <1>2, <2>1 DEF ToSet
    <3> QED
      BY <1>2, <2>1, <3>1
  <2>2. CASE ~isKnown
    <3>1. \A k \in 1..Len(T) : T[k] # n
      BY <1>2, <2>2 DEF ToSet
    <3>2. T1 = Append(T, n)
      BY <2>2
    <3> HIDE DEF T1
    <3>3. /\ T1 \in Seq(Names) /\ Len(T1) = Len(T) + 1
          /\ \A k \in 1..Len(T) : T1[k] = T[k]
          /\ T1[Len(T) + 1] = n
      BY <1>2, <3>2
    <3>4. \A k \in 1..Len(T1) : k \in 1..Len(T) \/ k = Len(T) + 1
      BY <1>2, <3>3
    <3>5. \A k, l \in 1..Len(T1) : T1[k] = T1[l] => k = l
      BY <1>2, <3>1, <3>3, <3>4
    <3>6. Len(T) + 1 \in 1..Len(T1)
      BY <1>2, <3>3
    <3>7. Len(T1) \in Nat /\ Len(T) <= Len(T1)
      BY <1>2, <3>3
    <3>8. \E k \in 1..Len(T1) : T1[k] = n
      BY <3>3, <3>6
    <3> QED
      BY <3>3, <3>5, <3>7, <3>8
  <2> QED
    BY <2>1, <2>2
<1>4. S1 \in Seq(Names) /\ Len(S1) = Len(S) + 1 /\ S1[Len(S) + 1] = n
        /\ \A k \in 1..Len(S) : S1[k] = S[k]
  BY <1>2
<1> HIDE DEF T1
<1>5. place \in 1..Len(T1) /\ T1[place] = n /\ place \in Nat
  BY <1>3
<1>6. TypeIn(T1, n) = FirstType - 1 + place
  BY DEF TypeIn
<1> HIDE DEF place
<1>7. TypeIn(T1, n) \in Types /\ TypeIn(T1, n) - FirstType + 1 = place
  <2>1. Len(T1) <= Cardinality(Names) /\ Cardinality(Names) \in Nat
    BY <1>3, NumbersSuffice, NetworkAssumption, FS_CardinalityType
  <2> QED
    BY <1>3, <1>5, <1>6, <2>1, NetworkAssumption DEF Types
<1>8. /\ packet \in Packets /\ define \in Packets
      /\ packet.no = Len(S) + 1 /\ define.no = Len(S) + 1
      /\ packet.type = TypeIn(T1, n) /\ define.type = TypeIn(T1, n)
      /\ packet.name = n /\ define.name = n /\ IsData(packet) /\ ~IsData(define)
  BY <1>2, <1>7 DEF Packets, IsData
<1> HIDE DEF packet, define, S1
<1>9. Own(T1, S1, packet) /\ Own(T1, S1, define)
  BY <1>2, <1>4, <1>5, <1>7, <1>8 DEF Own
<1>10. /\ new \in Seq(Pieces) /\ Len(new) \in Nat /\ Len(new) % 2 = 0
       /\ \A k \in 1..Len(new) : /\ Own(T1, S1, new[k][1])
                                 /\ new[k][1].no = Len(S) + 1
                                 /\ new[k][2] = "tail" <=> k % 2 = 0
       /\ \A j, k \in 1..Len(new) : IsRead(new[j]) /\ IsRead(new[k]) => j = k
  <2>1. CASE isKnown
    <3>1. new = <<<<packet, "head">>, <<packet, "tail">>>>
      BY <2>1 DEF InPieces
    <3> HIDE DEF new
    <3>2. /\ new \in Seq(Pieces) /\ Len(new) = 2
          /\ new[1] = <<packet, "head">> /\ new[2] = <<packet, "tail">>
      BY <1>8, <3>1 DEF Pieces
    <3>3. \A k \in 1..Len(new) : k = 1 \/ k = 2
      BY <3>2
    <3> QED
      BY <1>8, <1>9, <3>2, <3>3 DEF IsRead
  <2>2. CASE ~isKnown
    <3>1. new = <<<<define, "head">>, <<define, "tail">>,
                  <<packet, "head">>, <<packet, "tail">>>>
      <4>1. /\ <<define, "head">> \in Pieces /\ <<define, "tail">> \in Pieces
            /\ <<packet, "head">> \in Pieces /\ <<packet, "tail">> \in Pieces
        BY <1>8 DEF Pieces
      <4>2. new = <<<<define, "head">>, <<define, "tail">>>>
                    \o <<<<packet, "head">>, <<packet, "tail">>>>
        BY <2>2 DEF InPieces
      <4> QED
        BY ZenonT(30), <4>1, <4>2, FourPieces
    <3> HIDE DEF new
    <3>2. /\ new \in Seq(Pieces) /\ Len(new) = 4
          /\ new[1] = <<define, "head">> /\ new[2] = <<define, "tail">>
          /\ new[3] = <<packet, "head">> /\ new[4] = <<packet, "tail">>
      BY <1>8, <3>1 DEF Pieces
    <3>3. \A k \in 1..Len(new) : k = 1 \/ k = 2 \/ k = 3 \/ k = 4
      BY <3>2
    <3> QED
      BY <1>8, <1>9, <3>2, <3>3 DEF IsRead
  <2> QED
    BY <2>1, <2>2
<1>11. wire' = [wire EXCEPT ![c] = wire[c] \o new]
  <2>1. first \in Seq(Pieces) /\ InPieces(packet) \in Seq(Pieces)
    <3>1. InPieces(packet) \in Seq(Pieces)
      BY <1>8 DEF InPieces, Pieces
    <3>2. InPieces(define) \in Seq(Pieces)
      BY <1>8 DEF InPieces, Pieces
    <3>3. <<>> \in Seq(Pieces)
      OBVIOUS
    <3> QED
      BY <3>1, <3>2, <3>3
  <2> HIDE DEF first
  <2>2. wire[c] \o (first \o InPieces(packet)) = (wire[c] \o first) \o InPieces(packet)
    BY <1>2, <2>1, Together
  <2> QED
    BY <1>1, <2>2
<1> HIDE DEF new, isKnown
<1>12. ASSUME c \notin garbled, NEW w \in Seq(Pieces), Stream(T, S, got[c], w)
       PROVE  Stream(T1, S1, got[c], w \o new)
  <2>1. \A j \in 1..Len(got[c]) : got[c][j][1] \in 1..Len(S)
    BY <1>12 DEF IInv, TurnInv, InTurn, S
  <2> QED
    BY <1>2, <1>3, <1>10, <1>12, <2>1, StreamGrows DEF S1
<1>13. TypeInv'
  <2>1. wire[c] \o new \in Seq(Pieces)
    BY <1>2, <1>10
  <2>2. /\ types' \in [Clients -> Seq(Names)] /\ sent' \in [Clients -> Seq(Names)]
        /\ wire' \in [Clients -> Seq(Pieces)]
    BY ZenonT(30), <1>1, <1>3, <1>4, <1>11, <2>1 DEF IInv, TypeInv
  <2> QED
    BY <1>1, <2>2 DEF IInv, TypeInv
<1>14. ConnInv'
  BY <1>1 DEF IInv, ConnInv
<1>15. NewInv'
  BY <1>1 DEF IInv, NewInv
<1>16. types'[c] = T1 /\ sent'[c] = S1 /\ wire'[c] = wire[c] \o new /\ got'[c] = got[c]
  BY <1>1, <1>11 DEF IInv, TypeInv
<1>17. ASSUME NEW d \in Clients, d # c
       PROVE  types'[d] = types[d] /\ sent'[d] = sent[d] /\ wire'[d] = wire[d] /\ got'[d] = got[d]
  BY <1>1, <1>11, <1>17 DEF IInv, TypeInv
<1>18. NumberInv'
  BY <1>3, <1>16, <1>17 DEF IInv, NumberInv
<1>19. StreamInv'
  <2>1. ASSUME NEW d \in Clients \ garbled
        PROVE  Stream(types'[d], sent'[d], got'[d], wire'[d])
    <3>1. Stream(types[d], sent[d], got[d], wire[d])
      BY DEF IInv, StreamInv
    <3>2. CASE d = c
      BY <1>2, <1>12, <1>16, <3>1, <3>2 DEF T, S
    <3> QED
      BY <1>17, <3>1, <3>2
  <2>2. ASSUME NEW i \in PeerIds, NEW f \in Fds, Serves(i, f)', conn[f] \notin garbled
        PROVE  /\ Stream(types'[conn[f]], sent'[conn[f]], got'[conn[f]],
                         buffer[i] \o wire'[conn[f]])
               /\ Knows(types'[conn[f]], known[i])
    <3>1. Serves(i, f) /\ conn[f] \in Clients
      BY <1>1, <2>2 DEF Serves, IInv, TypeInv
    <3>2. /\ Stream(types[conn[f]], sent[conn[f]], got[conn[f]], buffer[i] \o wire[conn[f]])
          /\ Knows(types[conn[f]], known[i])
      BY <2>2, <3>1 DEF IInv, StreamInv
    <3>3. CASE conn[f] = c
      <4>1. buffer[i] \in Seq(Pieces)
        BY DEF IInv, TypeInv
      <4>2. buffer[i] \o wire[c] \in Seq(Pieces)
        BY <1>2, <4>1
      <4>3. Stream(T1, S1, got[c], (buffer[i] \o wire[c]) \o new)
        BY <1>12, <2>2, <3>2, <3>3, <4>2 DEF T, S
      <4>4. (buffer[i] \o wire[c]) \o new = buffer[i] \o (wire[c] \o new)
        BY <1>2, <1>10, <4>1, Together
      <4>5. Knows(T, known[i])
        BY <3>2, <3>3 DEF T
      <4>6. Knows(T1, known[i])
        BY <1>2, <1>3, <4>5 DEF Knows
      <4> QED
        BY <1>16, <3>3, <4>3, <4>4, <4>6
    <3> QED
      BY <1>17, <3>1, <3>2, <3>3
  <2> QED
    BY <1>1, <2>1, <2>2 DEF StreamInv
<1>20. TurnInv'
  <2>1. ASSUME NEW d \in Clients \ garbled PROVE InTurn(sent'[d], got'[d])
    <3>1. InTurn(sent[d], got[d])
      BY DEF IInv, TurnInv
    <3>2. CASE d = c
      <4>1. InTurn(S, got[c])
        BY <3>1, <3>2 DEF S
      <4>2. InTurn(S1, got[c])
        BY <1>2, <1>4, <4>1 DEF InTurn
      <4> QED
        BY <1>16, <3>2, <4>2
    <3> QED
      BY <1>17, <3>1, <3>2
  <2> QED
    BY <1>1, <2>1 DEF TurnInv
<1> QED
  BY <1>13, <1>14, <1>15, <1>18, <1>19, <1>20 DEF IInv

\* A new peer begins with nothing, and its client with all it sent.
LEMMA FreshPeer ==
  ASSUME IInv, NEW c \in Clients \ garbled
  PROVE  /\ Stream(types[c], sent[c], got[c], <<>> \o wire[c])
         /\ Knows(types[c], {})
<1>1. <<>> \o wire[c] = wire[c]
  BY DEF IInv, TypeInv
<1>2. Stream(types[c], sent[c], got[c], wire[c])
  BY DEF IInv, StreamInv
<1> QED
  BY <1>1, <1>2 DEF Knows

LEMMA AcceptStep ==
  ASSUME IInv, Accept
  PROVE  IInv'
<1> DEFINE c == Head(backlog)
<1>1. PICK f \in Fds :
        /\ conn[f] = None
        /\ conn' = [g \in Fds |-> IF g = peers[nextId] THEN None
                                  ELSE IF g = f THEN c ELSE conn[g]]
        /\ peers' = [peers EXCEPT ![nextId] = f]
        /\ bySocket' = [bySocket EXCEPT ![f] = nextId]
  BY DEF Accept
<1>2. /\ backlog # <<>> /\ active # <<>> /\ backlog' = Tail(backlog)
      /\ buffer' = [buffer EXCEPT ![nextId] = <<>>]
      /\ known' = [known EXCEPT ![nextId] = {}]
      /\ UNCHANGED <<came, types, wire, sent, mod, stored, got, garbled>>
  BY DEF Accept, Handling
<1>3. /\ backlog \in Seq(Clients) /\ conn \in [Fds -> Clients \cup {None}]
      /\ bySocket = [g \in Fds |-> bySocket[g]]
      /\ peers = [i \in PeerIds |-> peers[i]]
      /\ buffer \in [PeerIds -> Seq(Pieces)] /\ known \in [PeerIds -> SUBSET (Int \X Names)]
  BY DEF IInv, TypeInv
<1>4. /\ c \in Clients /\ c = backlog[1] /\ 1 \in 1..Len(backlog)
      /\ backlog' \in Seq(Clients)
      /\ \A k \in 1..Len(backlog') : k + 1 \in 1..Len(backlog) /\ backlog'[k] = backlog[k + 1]
  <2>1. Len(backlog) \in Nat /\ Len(backlog) > 0
    BY <1>2, <1>3
  <2>2. /\ c \in Clients /\ c = backlog[1] /\ backlog' \in Seq(Clients)
        /\ Len(backlog') = Len(backlog) - 1
        /\ \A k \in 1..Len(backlog') : backlog'[k] = backlog[k + 1]
    BY <1>2, <1>3
  <2> QED
    BY <2>1, <2>2
<1> HIDE DEF c
<1>5. /\ conn' \in [Fds -> Clients \cup {None}]
      /\ \A g \in Fds : conn'[g] = conn[g] \/ conn'[g] = None \/ (g = f /\ conn'[g] = c)
      /\ \A g \in Fds : g # f /\ conn'[g] # None => conn'[g] = conn[g]
      /\ c # None
  BY <1>1, <1>3, <1>4, NetworkAssumption
<1>6. TypeInv'
  <2>1. /\ peers' = [i \in PeerIds |-> peers'[i]]
        /\ bySocket' = [g \in Fds |-> bySocket'[g]]
    BY <1>1, <1>3
  <2>2. buffer' \in [PeerIds -> Seq(Pieces)] /\ known' \in [PeerIds -> SUBSET (Int \X Names)]
    <3>1. <<>> \in Seq(Pieces) /\ {} \in SUBSET (Int \X Names)
      OBVIOUS
    <3> QED
      BY <1>2, <1>3, <3>1
  <2> QED
    BY <1>2, <1>4, <1>5, <2>1, <2>2 DEF IInv, TypeInv
<1>7. ConnInv'
  <2>1. ConnInv
    BY DEF IInv
  <2>2. /\ \A k, l \in 1..Len(backlog') : backlog'[k] = backlog'[l] => k = l
        /\ \A k \in 1..Len(backlog') : backlog'[k] \in came' /\ backlog'[k] # c
    <3>1. ASSUME NEW k \in 1..Len(backlog'), NEW l \in 1..Len(backlog'),
                 backlog'[k] = backlog'[l]
          PROVE  k = l
      <4>1. k + 1 = l + 1
        BY <1>4, <2>1, <3>1 DEF ConnInv
      <4>2. k \in Nat /\ l \in Nat
        BY <1>4, LenIsNat
      <4> QED
        BY <4>1, <4>2
    <3>2. ASSUME NEW k \in 1..Len(backlog')
          PROVE  backlog'[k] \in came' /\ backlog'[k] # c
      <4>1. k + 1 \in 1..Len(backlog) /\ backlog'[k] = backlog[k + 1] /\ k + 1 # 1
        BY <1>4
      <4> QED
        BY <1>2, <1>4, <2>1, <4>1 DEF ConnInv
    <3> QED
      BY <3>1, <3>2
  <2>3. ASSUME NEW g \in Fds, conn'[g] # None
        PROVE  conn'[g] \in came' /\ \A k \in 1..Len(backlog') : backlog'[k] # conn'[g]
    <3>1. CASE g = f /\ conn'[g] = c
      BY <1>2, <1>4, <2>1, <2>2, <3>1 DEF ConnInv
    <3>2. CASE conn'[g] = conn[g]
      BY <1>2, <1>4, <2>1, <2>3, <3>2 DEF ConnInv
    <3> QED
      BY <1>5, <2>3, <3>1, <3>2
  <2>4. ASSUME NEW g \in Fds, NEW h \in Fds, conn'[g] = conn'[h], conn'[g] # None
        PROVE  g = h
    <3>1. \A e \in Fds : conn[e] # c
      BY <1>4, <1>5, <2>1 DEF ConnInv
    <3> QED
      BY <1>5, <2>1, <2>4, <3>1 DEF ConnInv
  <2> QED
    BY <2>2, <2>3, <2>4 DEF ConnInv
<1>8. NewInv'
  BY <1>2 DEF IInv, NewInv
<1>9. NumberInv' /\ TurnInv'
  BY <1>2 DEF IInv, NumberInv, TurnInv
<1>10. StreamInv'
  <2>1. \A d \in Clients \ garbled : Stream(types'[d], sent'[d], got'[d], wire'[d])
    BY <1>2 DEF IInv, StreamInv
  <2>2. ASSUME NEW i \in PeerIds, NEW g \in Fds, Serves(i, g)', conn'[g] \notin garbled
        PROVE  /\ Stream(types'[conn'[g]], sent'[conn'[g]], got'[conn'[g]],
                         buffer'[i] \o wire'[conn'[g]])
               /\ Knows(types'[conn'[g]], known'[i])
    <3>1. peers'[i] = g /\ bySocket'[g] = i /\ conn'[g] # None
      BY <2>2 DEF Serves
    <3>2. CASE i = nextId
      <4>1. buffer'[i] = <<>> /\ known'[i] = {} /\ conn'[g] \in Clients
        BY <1>2, <1>3, <1>5, <3>1, <3>2
      <4> QED
        BY <1>2, <2>2, <4>1, FreshPeer
    <3>3. CASE i # nextId
      <4>1. buffer'[i] = buffer[i] /\ known'[i] = known[i] /\ peers[i] = g
        BY <1>1, <1>2, <1>3, <3>1, <3>3
      <4>2. g # f
        BY <1>1, <1>3, <3>1, <3>3
      <4>3. bySocket[g] = i /\ conn'[g] = conn[g]
        BY <1>1, <1>3, <1>5, <3>1, <4>2
      <4>4. Serves(i, g)
        BY <3>1, <4>1, <4>3 DEF Serves
      <4> QED
        BY <1>2, <2>2, <4>1, <4>3, <4>4 DEF IInv, StreamInv
    <3> QED
      BY <3>2, <3>3
  <2> QED
    BY <1>2, <2>1, <2>2 DEF StreamInv
<1> QED
  BY <1>6, <1>7, <1>8, <1>9, <1>10 DEF IInv

LEMMA DisconnectStep ==
  ASSUME IInv, NEW f \in Fds, NEW i \in PeerIds, Disconnect(f, i)
  PROVE  IInv'
<1>1. /\ peers' = [peers EXCEPT ![i] = None] /\ bySocket' = [bySocket EXCEPT ![f] = None]
      /\ conn' = [conn EXCEPT ![f] = None] /\ buffer' = [buffer EXCEPT ![i] = <<>>]
      /\ known' = [known EXCEPT ![i] = {}] /\ active # <<>>
      /\ UNCHANGED <<came, backlog, types, wire, sent, mod, stored, got, garbled>>
  BY DEF Disconnect, Incoming, Handling, clientVars
<1>2. TypeInv
  BY DEF IInv
<1>3. None \notin Fds /\ None \notin PeerIds
  BY NetworkAssumption, FS_CardinalityType DEF PeerIds
<1>4. TypeInv'
  <2>1. <<>> \in Seq(Pieces) /\ {} \in SUBSET (Int \X Names)
    OBVIOUS
  <2>2. /\ buffer' \in [PeerIds -> Seq(Pieces)] /\ known' \in [PeerIds -> SUBSET (Int \X Names)]
        /\ conn' \in [Fds -> Clients \cup {None}]
    BY <1>1, <1>2, <2>1 DEF TypeInv
  <2>3. peers' = [j \in PeerIds |-> peers'[j]] /\ bySocket' = [g \in Fds |-> bySocket'[g]]
    BY <1>1, <1>2 DEF TypeInv
  <2> QED
    BY <1>1, <1>2, <2>2, <2>3 DEF TypeInv
<1>5. ConnInv'
  <2>1. ConnInv /\ \A g \in Fds : conn'[g] # None => conn'[g] = conn[g]
    BY <1>1, <1>2 DEF IInv, TypeInv
  <2> QED
    BY <1>1, <2>1 DEF ConnInv
<1>6. NewInv' /\ NumberInv' /\ TurnInv'
  BY <1>1 DEF IInv, NewInv, NumberInv, TurnInv
<1>7. StreamInv'
  <2>1. \A d \in Clients \ garbled : Stream(types'[d], sent'[d], got'[d], wire'[d])
    BY <1>1 DEF IInv, StreamInv
  <2>2. ASSUME NEW j \in PeerIds, NEW g \in Fds, Serves(j, g)'
        PROVE  /\ Serves(j, g) /\ conn'[g] = conn[g]
               /\ buffer'[j] = buffer[j] /\ known'[j] = known[j]
    <3>1. peers'[j] = g /\ bySocket'[g] = j /\ conn'[g] # None
      BY <2>2 DEF Serves
    <3>2. j # i /\ g # f
      BY <1>1, <1>2, <1>3, <3>1 DEF TypeInv
    <3> QED
      BY <1>1, <1>2, <3>1, <3>2 DEF TypeInv, Serves
  <2> QED
    BY <1>1, <2>1, <2>2 DEF IInv, StreamInv
<1> QED
  BY <1>4, <1>5, <1>6, <1>7 DEF IInv

LEMMA RestartStep ==
  ASSUME IInv, Restart
  PROVE  IInv'
<1>1. /\ mod' = "init" /\ bound' = FALSE /\ peers' = NoPeers
      /\ bySocket' = [f \in Fds |-> None] /\ buffer' = NoBuffers /\ known' = NoTypes
      /\ watched' = <<>> /\ active' = <<>>
      /\ UNCHANGED <<came, backlog, types, wire, sent, conn, stored, got, garbled>>
  BY DEF Restart, clientVars
<1>2. TypeInv'
  BY <1>1 DEF IInv, TypeInv, NoPeers, NoBuffers, NoTypes
<1>3. ConnInv' /\ NewInv' /\ NumberInv' /\ TurnInv'
  BY <1>1 DEF IInv, ConnInv, NewInv, NumberInv, TurnInv
<1>4. StreamInv'
  <2>1. \A i \in PeerIds, f \in Fds : ~Serves(i, f)'
    BY <1>1, NetworkAssumption DEF Serves, NoPeers
  <2> QED
    BY <1>1, <2>1 DEF IInv, StreamInv
<1> QED
  BY <1>2, <1>3, <1>4 DEF IInv

LEMMA OnContinueStep ==
  ASSUME IInv, OnContinue
  PROVE  IInv'
<1> DEFINE ids(f) == {i \in PeerIds : stored[i] = f}
<1>1. /\ mod = "init" /\ mod' = "up" /\ peers' = stored
      /\ bySocket' = [f \in Fds |-> IF ids(f) = {} THEN None ELSE Max(ids(f))]
      /\ UNCHANGED <<came, backlog, types, wire, sent, conn, buffer, known, stored, got,
                     garbled>>
  BY DEF OnContinue, clientVars
<1>2. buffer = NoBuffers /\ known = NoTypes
  BY <1>1 DEF IInv, NewInv
<1>3. bySocket' = [f \in Fds |-> bySocket'[f]]
  BY <1>1
<1>4. TypeInv'
  BY <1>1, <1>3 DEF IInv, TypeInv
<1>5. ConnInv' /\ NewInv' /\ NumberInv' /\ TurnInv'
  BY <1>1 DEF IInv, ConnInv, NewInv, NumberInv, TurnInv
<1>6. StreamInv'
  <2>1. \A d \in Clients \ garbled : Stream(types'[d], sent'[d], got'[d], wire'[d])
    BY <1>1 DEF IInv, StreamInv
  <2>2. ASSUME NEW i \in PeerIds, NEW f \in Fds, conn[f] # None, conn[f] \notin garbled
        PROVE  /\ Stream(types'[conn'[f]], sent'[conn'[f]], got'[conn'[f]],
                         buffer'[i] \o wire'[conn'[f]])
               /\ Knows(types'[conn'[f]], known'[i])
    <3>1. conn[f] \in Clients
      BY <2>2 DEF IInv, TypeInv
    <3>2. buffer'[i] = <<>> /\ known'[i] = {}
      BY <1>1, <1>2 DEF NoBuffers, NoTypes
    <3> QED
      BY <1>1, <2>2, <3>1, <3>2, FreshPeer
  <2> QED
    BY <1>1, <2>1, <2>2 DEF StreamInv, Serves
<1> QED
  BY <1>4, <1>5, <1>6 DEF IInv

\* A stream that is not cut.
LEMMA ReceiveStep ==
  ASSUME IInv, NEW f \in Fds, NEW i \in PeerIds, Receive(f, i), garbled' = garbled,
         conn[f] \notin garbled
  PROVE  IInv'
<1> DEFINE c == conn[f]
           w == wire[c]
<1>1. /\ Serves(i, f) /\ active # <<>>
      /\ UNCHANGED <<came, backlog, types, sent, conn, peers, bySocket, mod, stored, garbled>>
  BY DEF Receive, Incoming, Handling, Serves
<1>2. TypeInv /\ ConnInv /\ StreamInv /\ TurnInv
  BY DEF IInv
<1>3. /\ c \in Clients /\ w \in Seq(Pieces) /\ buffer[i] \in Seq(Pieces)
      /\ types[c] \in Seq(Names) /\ sent[c] \in Seq(Names) /\ got[c] \in Seq(Nat \X Names)
      /\ known[i] \in SUBSET (Int \X Names) /\ InTurn(sent[c], got[c])
  <2>1. c \in Clients
    BY <1>1, <1>2 DEF TypeInv, Serves
  <2>2. c \notin garbled
    OBVIOUS
  <2> HIDE DEF c
  <2> QED
    BY <1>2, <2>1, <2>2 DEF TypeInv, TurnInv
<1>4. /\ Stream(types[c], sent[c], got[c], buffer[i] \o w)
      /\ Knows(types[c], known[i])
  BY <1>1, <1>2 DEF StreamInv
<1>5. PICK k \in 1..Len(w) :
        LET b == buffer[i] \o SubSeq(w, 1, k)
        IN /\ wire' = [wire EXCEPT ![c] = SubSeq(w, k + 1, Len(w))]
           /\ IF Cut(b, c) THEN InputGarbled(b, i, c) ELSE Input(b, i, c)
  BY DEF Receive
<1> DEFINE piece == SubSeq(w, 1, k)
           rest == SubSeq(w, k + 1, Len(w))
           b == buffer[i] \o piece
           T == types[c]
           S == sent[c]
<1>6. /\ piece \in Seq(Pieces) /\ rest \in Seq(Pieces) /\ piece \o rest = w
      /\ Len(piece) = k /\ k \in Nat /\ k > 0
  <2>1. Len(w) \in Nat /\ k \in 0..Len(w) /\ k \in Nat /\ k > 0
    BY <1>3, LenIsNat
  <2> HIDE DEF w
  <2> QED
    BY <1>3, <2>1, Split
<1> HIDE DEF piece, rest
<1>7. b \in Seq(Pieces) /\ b # <<>>
  <2>1. b \in Seq(Pieces) /\ Len(b) = Len(buffer[i]) + k
    BY <1>3, <1>6, JoinParts
  <2>2. Len(b) > 0
    BY <1>3, <1>6, <2>1, LenIsNat
  <2> HIDE DEF b
  <2> QED
    BY <2>1, <2>2
<1>8. b \o rest = buffer[i] \o w
  <2>1. (buffer[i] \o piece) \o rest = buffer[i] \o (piece \o rest)
    BY <1>3, <1>6, Together
  <2> QED
    BY <1>6, <2>1
<1>9. /\ wire' = [wire EXCEPT ![c] = rest]
      /\ b[1][2] # "tail" /\ Input(b, i, c)
  <2>1. /\ wire' = [wire EXCEPT ![c] = rest]
        /\ IF Cut(b, c) THEN InputGarbled(b, i, c) ELSE Input(b, i, c)
    BY <1>5 DEF rest, piece
  <2>2. ~InputGarbled(b, i, c)
    BY DEF InputGarbled
  <2> HIDE DEF b
  <2> QED
    BY <1>7, <2>1, <2>2 DEF Cut
<1> HIDE DEF b, w
<1>10. T \in Seq(Names) /\ S \in Seq(Names) /\ Stream(T, S, got[c], b \o rest) /\ Knows(T, known[i])
  BY <1>3, <1>4, <1>8
<1>11. /\ TypeInv /\ InTurn(S, got[c]) /\ got[c] \in Seq(Nat \X Names)
       /\ known[i] \in SUBSET (Int \X Names)
  BY <1>2, <1>3
<1>12. c \in Clients
  BY <1>3
<1> HIDE DEF c, T, S
<1>13. Handled(T, S, i, c, b, rest)
  <2>1. b[1] \in Pieces
    BY <1>7
  <2>2. b[1][2] = "head"
    BY <1>9, <2>1 DEF Pieces
  <2> QED
    BY <1>6, <1>7, <1>9, <1>10, <1>11, <1>12, <2>2, InputReads
<1>14. PICK m, G, K :
         /\ m \in 0..Len(b)
         /\ buffer' = [buffer EXCEPT ![i] = SubSeq(b, m + 1, Len(b))]
         /\ got' = [got EXCEPT ![c] = G]
         /\ known' = [known EXCEPT ![i] = K]
         /\ Reads(T, S, G, K, SubSeq(b, m + 1, Len(b)) \o rest)
  BY <1>13 DEF Handled
<1> DEFINE left1 == SubSeq(b, m + 1, Len(b))
<1>15. left1 \in Seq(Pieces)
  BY <1>7, <1>14, Split
<1> HIDE DEF left1
<1>16. /\ buffer' = [buffer EXCEPT ![i] = left1] /\ got' = [got EXCEPT ![c] = G]
       /\ known' = [known EXCEPT ![i] = K] /\ wire' = [wire EXCEPT ![c] = rest]
       /\ G \in Seq(Nat \X Names) /\ InTurn(S, G) /\ K \in SUBSET (Int \X Names) /\ Knows(T, K)
       /\ Stream(T, S, G, left1 \o rest)
  BY <1>9, <1>14 DEF Reads, left1
<1>17. Stream(T, S, G, rest)
  <2> DEFINE v == left1 \o rest
             d == Len(left1)
  <2>1. /\ v \in Seq(Pieces) /\ Len(v) = d + Len(rest) /\ d \in Nat /\ Len(rest) \in Nat
        /\ \A j \in 1..Len(v) : v[j] = IF j <= d THEN left1[j] ELSE rest[j - d]
    BY <1>6, <1>15, LenIsNat, JoinParts
  <2>2. Stream(T, S, G, v)
    BY <1>16
  <2> HIDE DEF v, d
  <2>3. ASSUME NEW j \in 1..Len(rest) PROVE rest[j] = v[j + d]
    <3>1. j + d \in 1..Len(v) /\ ~(j + d <= d) /\ (j + d) - d = j
      BY <2>1
    <3> QED
      BY <2>1, <3>1
  <2>4. Len(rest) + d = Len(v)
    BY <2>1
  <2> QED
    BY <1>6, <2>1, <2>2, <2>3, <2>4, StreamEnd
<1>18. /\ buffer'[i] = left1 /\ got'[c] = G /\ known'[i] = K /\ wire'[c] = rest
       /\ \A j \in PeerIds : j # i => buffer'[j] = buffer[j] /\ known'[j] = known[j]
       /\ \A d \in Clients : d # c => got'[d] = got[d] /\ wire'[d] = wire[d]
  BY <1>2, <1>12, <1>16 DEF TypeInv
<1>19. TypeInv'
  <2>1. /\ buffer' \in [PeerIds -> Seq(Pieces)] /\ known' \in [PeerIds -> SUBSET (Int \X Names)]
        /\ wire' \in [Clients -> Seq(Pieces)] /\ got' \in [Clients -> Seq(Nat \X Names)]
    BY <1>2, <1>6, <1>15, <1>16 DEF TypeInv
  <2> QED
    BY <1>1, <1>2, <2>1 DEF TypeInv
<1>20. ConnInv' /\ NewInv' /\ NumberInv'
  BY <1>1 DEF IInv, ConnInv, NewInv, NumberInv
<1>21. TurnInv'
  <2>1. ASSUME NEW d \in Clients \ garbled PROVE InTurn(sent'[d], got'[d])
    BY <1>1, <1>2, <1>16, <1>18 DEF TurnInv, S
  <2> QED
    BY <1>1, <2>1 DEF TurnInv
<1>22. StreamInv'
  <2>1. ASSUME NEW d \in Clients \ garbled
        PROVE  Stream(types'[d], sent'[d], got'[d], wire'[d])
    <3>1. CASE d = c
      BY <1>1, <1>17, <1>18, <3>1 DEF T, S
    <3>2. CASE d # c
      BY <1>1, <1>2, <1>18, <3>2 DEF StreamInv
    <3> QED
      BY <3>1, <3>2
  <2>2. ASSUME NEW j \in PeerIds, NEW g \in Fds, Serves(j, g)', conn[g] \notin garbled
        PROVE  /\ Stream(types'[conn'[g]], sent'[conn'[g]], got'[conn'[g]],
                         buffer'[j] \o wire'[conn'[g]])
               /\ Knows(types'[conn'[g]], known'[j])
    <3>1. Serves(j, g) /\ conn[g] \in Clients
      BY <1>1, <1>2, <2>2 DEF Serves, TypeInv
    <3>2. CASE g = f
      <4>1. j = i /\ conn[g] = c
        BY <1>1, <3>1, <3>2 DEF Serves, c
      <4> QED
        BY <1>1, <1>16, <1>18, <4>1 DEF T, S
    <3>3. CASE g # f
      <4>1. j # i /\ conn[g] # c
        BY <1>1, <1>2, <3>1, <3>3 DEF Serves, ConnInv, c
      <4> QED
        BY <1>1, <1>2, <1>18, <2>2, <3>1, <4>1 DEF StreamInv
    <3> QED
      BY <3>2, <3>3
  <2> QED
    BY <1>1, <2>1, <2>2 DEF StreamInv
<1> QED
  BY <1>19, <1>20, <1>21, <1>22 DEF IInv

\* A stream that is cut is not followed any more, and the others are as they
\* were.
LEMMA GarbledStep ==
  ASSUME IInv, NEW f \in Fds, NEW i \in PeerIds, Receive(f, i),
         ~(garbled' = garbled /\ conn[f] \notin garbled)
  PROVE  IInv'
<1> DEFINE c == conn[f]
           w == wire[c]
<1>1. /\ Serves(i, f) /\ active # <<>>
      /\ UNCHANGED <<came, backlog, types, sent, conn, peers, bySocket, mod, stored>>
  BY DEF Receive, Incoming, Handling, Serves
<1>2. TypeInv /\ ConnInv /\ StreamInv /\ TurnInv
  BY DEF IInv
<1>3. PICK k \in 1..Len(w) :
        LET b == buffer[i] \o SubSeq(w, 1, k)
        IN wire' = [wire EXCEPT ![c] = SubSeq(w, k + 1, Len(w))] /\ InputGarbled(b, i, c)
  BY Zenon DEF Receive, Cut
<1>4. c \in Clients /\ w \in Seq(Pieces) /\ buffer[i] \in Seq(Pieces)
  BY <1>1, <1>2 DEF TypeInv, Serves
<1> DEFINE b == buffer[i] \o SubSeq(w, 1, k)
           rest == SubSeq(w, k + 1, Len(w))
<1>5. rest \in Seq(Pieces) /\ b \in Seq(Pieces)
  <2>1. Len(w) \in Nat /\ k \in 0..Len(w)
    BY <1>4, LenIsNat
  <2> HIDE DEF w
  <2>2. SubSeq(w, 1, k) \in Seq(Pieces) /\ rest \in Seq(Pieces)
    BY <1>4, <2>1, Split
  <2> QED
    BY <1>4, <2>2, JoinParts
<1>6. wire' = [wire EXCEPT ![c] = rest] /\ InputGarbled(b, i, c)
  BY <1>3
<1> HIDE DEF b, rest, w
<1>7. PICK B \in Seq(Pieces) : buffer' = [buffer EXCEPT ![i] = B]
  <2>1. PICK B \in {b, <<>>} : buffer' = [buffer EXCEPT ![i] = B]
    BY <1>6 DEF InputGarbled
  <2>2. <<>> \in Seq(Pieces)
    OBVIOUS
  <2> QED
    BY <1>5, <2>1, <2>2
<1>8. PICK K \in SUBSET (Int \X Names) : known' = [known EXCEPT ![i] = K]
  <2>1. CASE known' = known
    BY <1>2, <2>1 DEF TypeInv
  <2>2. CASE \E t \in Types, n \in Names :
               known' = [known EXCEPT ![i] = {d \in @ : d[1] # t} \cup {<<t, n>>}]
    <3>1. Types \subseteq Int
      BY NetworkAssumption DEF Types
    <3>2. known[i] \in SUBSET (Int \X Names)
      BY <1>2 DEF TypeInv
    <3>3. PICK t \in Types, n \in Names :
            known' = [known EXCEPT ![i] = {d \in known[i] : d[1] # t} \cup {<<t, n>>}]
      BY <2>2
    <3>4. {d \in known[i] : d[1] # t} \cup {<<t, n>>} \in SUBSET (Int \X Names)
      BY <3>1, <3>2
    <3> QED
      BY <3>3, <3>4
  <2> QED
    BY <1>6, <2>1, <2>2 DEF InputGarbled
<1>9. PICK G \in Seq(Nat \X Names) : got' = [got EXCEPT ![c] = G]
  <2>1. got[c] \in Seq(Nat \X Names)
    BY <1>2, <1>4 DEF TypeInv
  <2>2. CASE got' = got
    BY <1>2, <1>4, <2>1, <2>2 DEF TypeInv
  <2>3. CASE \E n \in Names : got' = [got EXCEPT ![c] = Append(@, <<0, n>>)]
    <3>1. PICK n \in Names : got' = [got EXCEPT ![c] = Append(got[c], <<0, n>>)]
      BY <2>3
    <3>2. Append(got[c], <<0, n>>) \in Seq(Nat \X Names)
      BY <2>1
    <3> QED
      BY <3>1, <3>2
  <2> QED
    BY <1>6, <2>2, <2>3 DEF InputGarbled
<1>10. garbled' = garbled \cup {c}
  BY <1>6 DEF InputGarbled
<1> HIDE DEF c
<1>11. /\ \A j \in PeerIds : j # i => buffer'[j] = buffer[j] /\ known'[j] = known[j]
       /\ \A d \in Clients : d # c => got'[d] = got[d] /\ wire'[d] = wire[d]
  BY <1>2, <1>4, <1>6, <1>7, <1>8, <1>9 DEF TypeInv
<1>12. TypeInv'
  <2>1. /\ buffer' \in [PeerIds -> Seq(Pieces)] /\ known' \in [PeerIds -> SUBSET (Int \X Names)]
        /\ wire' \in [Clients -> Seq(Pieces)] /\ got' \in [Clients -> Seq(Nat \X Names)]
    BY <1>2, <1>5, <1>6, <1>7, <1>8, <1>9 DEF TypeInv
  <2> QED
    BY <1>1, <1>2, <2>1 DEF TypeInv
<1>13. ConnInv' /\ NewInv' /\ NumberInv'
  BY <1>1 DEF IInv, ConnInv, NewInv, NumberInv
<1>14. TurnInv'
  BY <1>1, <1>2, <1>10, <1>11 DEF TurnInv
<1>15. StreamInv'
  <2>1. ASSUME NEW d \in Clients \ garbled'
        PROVE  Stream(types'[d], sent'[d], got'[d], wire'[d])
    BY <1>1, <1>2, <1>10, <1>11, <2>1 DEF StreamInv
  <2>2. ASSUME NEW j \in PeerIds, NEW g \in Fds, Serves(j, g)', conn[g] \notin garbled'
        PROVE  /\ Stream(types'[conn'[g]], sent'[conn'[g]], got'[conn'[g]],
                         buffer'[j] \o wire'[conn'[g]])
               /\ Knows(types'[conn'[g]], known'[j])
    <3>1. Serves(j, g) /\ conn[g] \in Clients
      BY <1>1, <1>2, <2>2 DEF Serves, TypeInv
    <3>2. conn[g] # c /\ conn[g] \notin garbled
      BY <1>10, <2>2
    <3>3. j # i
      BY <1>1, <3>1, <3>2 DEF Serves, c
    <3> QED
      BY <1>1, <1>2, <1>11, <3>1, <3>2, <3>3 DEF StreamInv
  <2> QED
    BY <1>1, <2>1, <2>2 DEF StreamInv
<1> QED
  BY <1>12, <1>13, <1>14, <1>15 DEF IInv

\* What clients send becomes events with its names and in its order, whatever
\* pieces recv() delivers, whichever numbers names have, over any number of
\* connections and reloads, as long as no reload cuts their stream within a
\* packet.
THEOREM EventsInOrder == Spec => []PacketsInOrder
<1>1. Init => IInv
  BY InitIInv
<1>2. IInv /\ [Next]_vars => IInv'
  <2> SUFFICES ASSUME IInv, [Next]_vars PROVE IInv'
    OBVIOUS
  <2>1. CASE ClientStep
    BY <2>1, ConnectStep, LeaveStep, SendStep DEF ClientStep
  <2>2. CASE ThreadStep
    BY <2>2, QuietStep, AcceptStep, DisconnectStep, ReceiveStep,
       GarbledStep DEF ThreadStep
  <2>3. CASE ModuleStep
    BY <2>3, QuietStep, RestartStep, OnContinueStep DEF ModuleStep
  <2>4. CASE UNCHANGED vars
    BY <2>4, QuietStep
  <2> QED
    BY <2>1, <2>2, <2>3, <2>4 DEF Next
<1>3. IInv => PacketsInOrder
  <2> SUFFICES ASSUME IInv PROVE PacketsInOrder
    OBVIOUS
  <2>1. ASSUME NEW c \in Clients \ garbled, NEW j \in DOMAIN got[c]
        PROVE  /\ got[c][j][2] = sent[c][got[c][j][1]]
               /\ \A k \in 1..(j - 1) : got[c][k][1] < got[c][j][1]
    <3>1. j \in 1..Len(got[c]) /\ InTurn(sent[c], got[c])
      BY DEF IInv, TypeInv, TurnInv
    <3> QED
      BY <3>1 DEF InTurn
  <2> QED
    BY <2>1 DEF PacketsInOrder
<1> QED
  BY <1>1, <1>2, <1>3, PTL DEF Spec

=============================================================================
