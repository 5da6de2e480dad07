---------------------------- MODULE Parts_proofs ----------------------------
(***************************************************************************)
(* GroundPlaneLighting: light reaches as far down as the columns say once  *)
(* every event has been handled, and clients know of it: for any columns   *)
(* of any height, sectors and clients.  Each handler looks at a column     *)
(* from its own chunk downwards, and does nothing if the light ends above  *)
(* it.  That is enough because a chunk with something that stops the light *)
(* above yst, and a chunk where yst stands for nothing any more, still     *)
(* have their event to come (GroundInv).                                   *)
(*                                                                         *)
(* Loader: any modules with any dependencies are loaded after what they    *)
(* require, and the loader gives up only where no order would do: when     *)
(* step() finds nothing, each module left requires one that is left        *)
(* (NoRightOrder).                                                         *)
(*                                                                         *)
(* ClientVoxels: the set of values leads to exactly the items of the       *)
(* queue, which is in its order, whatever is put, replaced, popped and put *)
(* anew.  Once nothing is left to be done, a node near enough is shown for *)
(* the distance at which it is: its next update is still kept in one of    *)
(* the two queues (KeptBy), and it is not due for a reason (NotDue).       *)
(*                                                                         *)
(* VoxelRegistry: voxels and tasks have the textures of their definitions  *)
(* at every level of detail, and blocks show all of their images, for any  *)
(* images, blocks and size of the atlases.  An atlas for whole images      *)
(* draws each in a place of its own that is never used again               *)
(* (AtlasIsRight), and the parts of an image are as many as the segments   *)
(* at that side of the block (SideIsShown).                                *)
(*                                                                         *)
(* VoxelMesh: the collision boxes of a volume cover its solid voxels and   *)
(* nothing else, because the search comes to every voxel and a box is only *)
(* stretched over layers of solid ones.  The first visible cell of every   *)
(* line is drawn on that side, in its place and not turned, at full detail *)
(* and at any lower level: both extract an array that has the cells of the *)
(* volume, with nothing around them (IsGrid).                              *)
(*                                                                         *)
(* JsonParser: the words of any text suffice, because what is read takes   *)
(* no more words than bytes.  The one word that may be missing is that of  *)
(* the comma or the bracket that has to come (JPInv).                      *)
(***************************************************************************)
EXTENDS ClientVoxels, GroundPlaneLighting, JsonParser, Loader, VoxelMesh,
        VoxelRegistry, FiniteSetTheorems, SequenceTheorems, WellFoundedInduction, TLAPS

-----------------------------------------------------------------------------
(* GroundPlaneLighting: the inductive invariant                            *)

Packets == UNION {[D -> Int] : D \in SUBSET Columns}

GPLTypeInv ==
  /\ world \in [Columns -> [Heights -> {"undefined", "clear", "solid"}]]
  /\ changed \subseteq Chunks /\ IsFiniteSet(changed)
  /\ events \in Seq(Chunks)
  /\ yst \in [Columns -> Int]
  /\ IsFiniteSet(dirty) /\ IsFiniteSet(KnownSectors)
  /\ peers \in [Clients -> {"out", "ready", "gone"}]
  /\ wire \in [Clients -> Seq(Packets)]
  /\ copy \in [Clients -> [Columns -> Int]]
  /\ scene \in {"live", "deleted", "dropped"}

\* Chunks whose event is still to come.
Pending(c) ==
  {level \in 1..Levels : \/ <<c, level>> \in changed
                         \/ \E i \in 1..Len(events) : events[i] = <<c, level>>}

LoadedAt(c) == {y \in Heights : world[c][y] # "undefined"}

\* A chunk with an event to come is loaded.
LoadedInv ==
  \A c \in Columns : \A level \in Pending(c) : Upper(level) \in LoadedAt(c)

\* In a column the light ends below something loaded, at something that stops
\* it, and at nothing further up, but for chunks with an event to come.
GroundAt(c) ==
  /\ yst[c] = Unset \/ yst[c] \in 0..Top
  /\ yst[c] # Unset => \E y \in LoadedAt(c) : yst[c] <= y
  /\ yst[c] = Unset /\ LoadedAt(c) # {} => Pending(c) # {}
  /\ yst[c] > 0 /\ world[c][yst[c]] = "clear" =>
       \E level \in Pending(c) : Lower(level) <= yst[c] /\ yst[c] <= Upper(level)
  /\ \A h \in Heights : \A y \in LoadedAt(c) :
       yst[c] < h /\ h <= y /\ world[c][h] # "clear" =>
         \E level \in Pending(c) : h <= Upper(level)

GroundInv == scene = "live" => \A c \in Columns : GroundAt(c)

\* Of the packets q, which come after f, the j-th is the last with column c.
LastWith(q, c, j) ==
  /\ j \in 0..Len(q) /\ (j = 0 \/ c \in DOMAIN q[j])
  /\ \A k \in (j + 1)..Len(q) : c \notin DOMAIN q[k]

\* Who has f and takes all of q, has x for column c.
Shows(q, f, c, x) ==
  \A j \in 0..Len(q) : LastWith(q, c, j) => x = IF j = 0 THEN f[c] ELSE q[j][c]

\* What a client knows after a packet.
Updated(f, packet) ==
  [c \in Columns |-> IF c \in DOMAIN packet THEN packet[c] ELSE f[c]]

SeenInv ==
  scene # "dropped" =>
    \A p \in Clients : peers[p] = "ready" =>
      \A c \in Columns : SectorOf[c] \notin dirty =>
        Shows(wire[p], copy[p], c, yst[c])

GPLInv == GPLTypeInv /\ LoadedInv /\ GroundInv /\ SeenInv

-----------------------------------------------------------------------------
(* GroundPlaneLighting: sequences and columns *)

\* A set of numbers up to n has a greatest one.
LEMMA GreatestExists ==
  ASSUME NEW n \in Nat, NEW S \in SUBSET (0..n), S # {}
  PROVE  \E g \in S : \A k \in S : k <= g
<1> DEFINE T == {k \in 0..n : n - k \in S}
<1>1. T \subseteq Nat /\ T # {}
  <2>1. PICK k \in S : TRUE
    OBVIOUS
  <2>2. n - k \in T
    BY <2>1
  <2>3. T \subseteq Nat
    OBVIOUS
  <2> HIDE DEF T
  <2> QED
    BY <2>2, <2>3
<1>2. \E x \in T : \A y \in T : <<y, x>> \notin OpToRel(<, Nat)
  BY <1>1, NatLessThanWellFounded, WFMin
<1>3. PICK x \in T : \A y \in T : <<y, x>> \notin OpToRel(<, Nat)
  BY <1>2
<1>4. \A y \in T : ~(y < x)
  BY <1>1, <1>3 DEF OpToRel
<1>5. ASSUME NEW k \in S PROVE k <= n - x
  <2>1. n - k \in T
    OBVIOUS
  <2>2. ~(n - k < x)
    BY <1>4, <2>1
  <2> QED
    BY <2>2
<1> QED
  BY <1>5

\* An order of a set has every element.
LEMMA OrderIsOfAll ==
  ASSUME NEW S, IsFiniteSet(S), NEW o \in SetToSeqs(S)
  PROVE  /\ o \in Seq(S) /\ Len(o) \in Nat
         /\ \A x \in S : \E i \in 1..Len(o) : o[i] = x
<1> DEFINE n == Cardinality(S)
<1>1. n \in Nat
  BY FS_CardinalityType
<1>2. o \in [1..n -> S] /\ \A i, j \in 1..n : i # j => o[i] # o[j]
  BY DEF SetToSeqs
<1>3. Cardinality(1..n) = n
  BY <1>1, FS_Interval
<1>4. o \in Injection(1..n, S)
  BY <1>2 DEF Injection, IsInjective
<1>5. o \in Surjection(1..n, S)
  BY <1>3, <1>4, FS_Injection
<1>6. o \in Seq(S) /\ Len(o) = n
  BY <1>1, <1>2
<1> HIDE DEF n
<1> QED
  BY <1>1, <1>5, <1>6 DEF Surjection

LEMMA ElementsOfTail ==
  ASSUME NEW S, NEW s \in Seq(S), s # <<>>
  PROVE  /\ Head(s) \in S /\ Tail(s) \in Seq(S)
         /\ \A i \in 1..Len(Tail(s)) : i + 1 \in 1..Len(s) /\ Tail(s)[i] = s[i + 1]
         /\ \A i \in 1..Len(s) : s[i] = Head(s) \/
              \E j \in 1..Len(Tail(s)) : Tail(s)[j] = s[i]
<1> DEFINE t == Tail(s)
<1>1. /\ Head(s) \in S /\ t \in Seq(S) /\ Head(s) = s[1] /\ Len(s) \in Nat \ {0}
      /\ Len(t) = Len(s) - 1 /\ \A i \in 1..Len(t) : t[i] = s[i + 1]
  OBVIOUS
<1> HIDE DEF t
<1>2. ASSUME NEW i \in 1..Len(s), i # 1 PROVE \E j \in 1..Len(t) : t[j] = s[i]
  <2>1. i - 1 \in 1..Len(t) /\ t[i - 1] = s[i]
    BY <1>1, <1>2
  <2> QED
    BY <2>1
<1>3. \A i \in 1..Len(t) : i + 1 \in 1..Len(s)
  BY <1>1
<1> QED
  BY <1>1, <1>2, <1>3 DEF t

LEMMA ElementsOfJoin ==
  ASSUME NEW S, NEW s \in Seq(S), NEW r \in Seq(S)
  PROVE  /\ s \o r \in Seq(S) /\ Len(s \o r) = Len(s) + Len(r)
         /\ \A i \in 1..Len(s) : i \in 1..Len(s \o r) /\ (s \o r)[i] = s[i]
         /\ \A i \in 1..Len(r) : /\ Len(s) + i \in 1..Len(s \o r)
                                 /\ (s \o r)[Len(s) + i] = r[i]
         /\ \A i \in 1..Len(s \o r) :
              i \in 1..Len(s) \/ (i - Len(s) \in 1..Len(r) /\ (s \o r)[i] = r[i - Len(s)])
<1>1. Len(s) \in Nat /\ Len(r) \in Nat
  OBVIOUS
<1>2. /\ s \o r \in Seq(S) /\ Len(s \o r) = Len(s) + Len(r)
      /\ \A i \in 1..Len(s) : (s \o r)[i] = s[i]
      /\ \A i \in 1..Len(s \o r) : i > Len(s) => (s \o r)[i] = r[i - Len(s)]
  OBVIOUS
<1> DEFINE q == s \o r
<1> HIDE DEF q
<1>3. ASSUME NEW i \in 1..Len(r) PROVE Len(s) + i \in 1..Len(q) /\ q[Len(s) + i] = r[i]
  <2>1. Len(s) + i \in 1..Len(q) /\ Len(s) + i > Len(s) /\ (Len(s) + i) - Len(s) = i
    BY <1>1, <1>2 DEF q
  <2> QED
    BY <1>2, <2>1 DEF q
<1>4. ASSUME NEW i \in 1..Len(q)
      PROVE i \in 1..Len(s) \/ (i - Len(s) \in 1..Len(r) /\ q[i] = r[i - Len(s)])
  BY <1>1, <1>2 DEF q
<1> QED
  BY <1>1, <1>2, <1>3, <1>4 DEF q

\* Chunks are above each other in the column.
LEMMA CellsOfLevels ==
  ASSUME NEW level \in 1..Levels
  PROVE  /\ Lower(level) \in Nat \ {0} /\ Upper(level) \in Nat
         /\ Lower(level) <= Upper(level) /\ Upper(level) <= Top /\ Top \in Nat
         /\ Upper(level) \in Heights
<1>1. /\ level \in Nat /\ level - 1 \in Nat /\ Levels - level \in Nat
      /\ Levels \in Nat /\ ChunkHeight \in Nat /\ ChunkHeight >= 1
  BY SizesArePositive
<1>2. (level - 1) * ChunkHeight \in Nat /\ (Levels - level) * ChunkHeight \in Nat
  BY <1>1
<1>3. /\ level * ChunkHeight = (level - 1) * ChunkHeight + ChunkHeight
      /\ Levels * ChunkHeight = level * ChunkHeight + (Levels - level) * ChunkHeight
  BY <1>1
<1> QED
  BY <1>1, <1>2, <1>3 DEF Lower, Upper, Top, Heights

\* Below() finds the highest place at or under y that stops the light.
LEMMA BelowFinds ==
  ASSUME NEW c, NEW y \in Nat
  PROVE  /\ Below(c, y) \in 0..y
         /\ Below(c, y) = 0 \/ world[c][Below(c, y)] # "clear"
         /\ \A g \in (Below(c, y) + 1)..y : world[c][g] = "clear"
<1> DEFINE S == {h \in 0..y : h = 0 \/ world[c][h] # "clear"}
<1>1. S \in SUBSET (0..y) /\ 0 \in S
  OBVIOUS
<1>2. PICK m \in S : \A k \in S : k <= m
  BY <1>1, GreatestExists
<1>3. \A g \in (m + 1)..y : world[c][g] = "clear"
  BY <1>1, <1>2
<1>4. \E h \in 0..y : /\ h = 0 \/ world[c][h] # "clear"
                      /\ \A g \in (h + 1)..y : world[c][g] = "clear"
  BY <1>2, <1>3
<1> QED
  BY <1>4 DEF Below

-----------------------------------------------------------------------------
(* GroundPlaneLighting: what clients are shown *)

LEMMA ShowsTail ==
  ASSUME NEW q \in Seq(Packets), q # <<>>, NEW f \in [Columns -> Int],
         NEW c \in Columns, NEW x, Shows(q, f, c, x)
  PROVE  Shows(Tail(q), Updated(f, Head(q)), c, x)
<1> DEFINE t == Tail(q)
           g == Updated(f, Head(q))
<1>1. /\ Len(q) \in Nat \ {0} /\ Len(t) = Len(q) - 1 /\ Head(q) = q[1]
      /\ \A k \in 1..Len(t) : t[k] = q[k + 1]
  OBVIOUS
<1>2. g[c] = IF c \in DOMAIN q[1] THEN q[1][c] ELSE f[c]
  BY <1>1 DEF Updated
<1> HIDE DEF t, g
<1> SUFFICES ASSUME NEW j \in 0..Len(t), LastWith(t, c, j)
             PROVE  x = IF j = 0 THEN g[c] ELSE t[j][c]
  BY DEF Shows, t, g
<1>3. \A k \in (j + 2)..Len(q) : c \notin DOMAIN q[k]
  <2> SUFFICES ASSUME NEW k \in (j + 2)..Len(q) PROVE c \notin DOMAIN q[k]
    OBVIOUS
  <2>1. k - 1 \in (j + 1)..Len(t) /\ k - 1 \in 1..Len(t) /\ (k - 1) + 1 = k
    BY <1>1
  <2> QED
    BY <1>1, <2>1 DEF LastWith
<1>4. CASE j # 0
  <2>1. j + 1 \in 0..Len(q) /\ j + 1 # 0 /\ t[j] = q[j + 1] /\ c \in DOMAIN t[j]
    BY <1>1, <1>4 DEF LastWith
  <2>2. LastWith(q, c, j + 1)
    BY <1>3, <2>1 DEF LastWith
  <2> QED
    BY <1>4, <2>1, <2>2 DEF Shows
<1>5. CASE j = 0 /\ c \in DOMAIN q[1]
  <2>1. 1 \in 0..Len(q) /\ LastWith(q, c, 1)
    BY <1>1, <1>3, <1>5 DEF LastWith
  <2> QED
    BY <1>2, <1>5, <2>1 DEF Shows
<1>6. CASE j = 0 /\ c \notin DOMAIN q[1]
  <2>1. \A k \in 1..Len(q) : c \notin DOMAIN q[k]
    BY <1>1, <1>3, <1>6
  <2>2. 0 \in 0..Len(q) /\ LastWith(q, c, 0)
    BY <1>1, <2>1 DEF LastWith
  <2> QED
    BY <1>2, <1>6, <2>2 DEF Shows
<1> QED
  BY <1>4, <1>5, <1>6

\* Packets with the value x for the column, after others that have it, or when
\* one of them has the column.
LEMMA ShowsJoin ==
  ASSUME NEW q \in Seq(Packets), NEW s \in Seq(Packets), NEW f, NEW c, NEW x,
         \A k \in 1..Len(s) : c \in DOMAIN s[k] => s[k][c] = x,
         Shows(q, f, c, x) \/ \E k \in 1..Len(s) : c \in DOMAIN s[k]
  PROVE  Shows(q \o s, f, c, x)
<1> DEFINE r == q \o s
<1>1. Len(q) \in Nat /\ Len(s) \in Nat /\ Len(r) = Len(q) + Len(s)
  OBVIOUS
<1>2. /\ \A i \in 1..Len(q) : r[i] = q[i]
      /\ \A i \in 1..Len(s) : Len(q) + i \in 1..Len(r) /\ r[Len(q) + i] = s[i]
      /\ \A i \in 1..Len(r) :
           i \in 1..Len(q) \/ (i - Len(q) \in 1..Len(s) /\ r[i] = s[i - Len(q)])
  BY ElementsOfJoin
<1> HIDE DEF r
<1> SUFFICES ASSUME NEW j \in 0..Len(r), LastWith(r, c, j)
             PROVE  x = IF j = 0 THEN f[c] ELSE r[j][c]
  BY DEF Shows, r
<1>3. CASE j > Len(q)
  <2>1. j \in 1..Len(r) /\ j \notin 1..Len(q) /\ j # 0
    BY <1>1, <1>3
  <2>2. j - Len(q) \in 1..Len(s) /\ r[j] = s[j - Len(q)]
    BY <1>2, <2>1
  <2>3. c \in DOMAIN r[j]
    BY <2>1 DEF LastWith
  <2> QED
    BY <2>1, <2>2, <2>3
<1>4. CASE j <= Len(q)
  <2>1. ASSUME NEW k \in 1..Len(s) PROVE c \notin DOMAIN s[k]
    <3>1. Len(q) + k \in (j + 1)..Len(r)
      BY <1>1, <1>4
    <3> QED
      BY <1>2, <3>1 DEF LastWith
  <2>2. Shows(q, f, c, x)
    BY <2>1
  <2>3. j \in 0..Len(q) /\ (j # 0 => j \in 1..Len(q))
    BY <1>1, <1>4
  <2>4. \A k \in (j + 1)..Len(q) : k \in 1..Len(q) /\ k \in (j + 1)..Len(r)
    BY <1>1, <1>4
  <2>5. LastWith(q, c, j)
    BY <1>2, <2>3, <2>4 DEF LastWith
  <2> QED
    BY <1>2, <2>2, <2>3, <2>5 DEF Shows
<1> QED
  BY <1>1, <1>3, <1>4

\* send_initial_sectors() and on_tick() send every sector of a set as it is.
LEMMA SectorsAreSent ==
  ASSUME GPLTypeInv, NEW S, IsFiniteSet(S), NEW m \in Messages(S)
  PROVE  /\ m \in Seq(Packets)
         /\ \A c \in Columns : \A k \in 1..Len(m) : c \in DOMAIN m[k] => m[k][c] = yst[c]
         /\ \A c \in Columns : SectorOf[c] \in S => \E k \in 1..Len(m) : c \in DOMAIN m[k]
<1>1. PICK o \in SetToSeqs(S) : m = [i \in 1..Len(o) |-> Sector(o[i])]
  BY DEF Messages
<1>2. Len(o) \in Nat /\ \A x \in S : \E i \in 1..Len(o) : o[i] = x
  BY OrderIsOfAll
<1>3. ASSUME NEW s
      PROVE  /\ Sector(s) \in Packets
             /\ DOMAIN Sector(s) = {d \in Columns : SectorOf[d] = s}
             /\ \A c \in DOMAIN Sector(s) : Sector(s)[c] = yst[c]
  <2>1. {d \in Columns : SectorOf[d] = s} \in SUBSET Columns
    OBVIOUS
  <2>2. Sector(s) \in [{d \in Columns : SectorOf[d] = s} -> Int]
    BY DEF Sector, GPLTypeInv
  <2> QED
    BY <2>1, <2>2 DEF Sector, Packets
<1> HIDE DEF Sector
<1>4. m \in Seq(Packets) /\ Len(m) = Len(o)
  <2>1. \A i \in 1..Len(o) : Sector(o[i]) \in Packets
    BY <1>3
  <2> DEFINE n == Len(o)
  <2>2. n \in Nat /\ m = [i \in 1..n |-> Sector(o[i])] /\ \A i \in 1..n : m[i] \in Packets
    BY <1>1, <1>2, <2>1
  <2>3. m = [i \in 1..n |-> m[i]]
    BY <2>2
  <2> HIDE DEF n
  <2>4. m \in Seq(Packets) /\ Len(m) = n
    BY <2>2, <2>3
  <2> QED
    BY <2>4 DEF n
<1>5. \A k \in 1..Len(m) : m[k] = Sector(o[k])
  BY <1>1, <1>4
<1>6. ASSUME NEW c \in Columns, SectorOf[c] \in S
      PROVE  \E k \in 1..Len(m) : c \in DOMAIN m[k]
  <2>1. PICK k \in 1..Len(m) : o[k] = SectorOf[c]
    BY <1>2, <1>4, <1>6
  <2> QED
    BY <1>3, <1>5, <2>1
<1>7. ASSUME NEW c \in Columns, NEW k \in 1..Len(m), c \in DOMAIN m[k]
      PROVE  m[k][c] = yst[c]
  <2>1. m[k] = Sector(o[k])
    BY <1>5
  <2>2. c \in DOMAIN Sector(o[k])
    BY <1>7, <2>1
  <2>3. \A d \in DOMAIN Sector(o[k]) : Sector(o[k])[d] = yst[d]
    BY <1>3
  <2> QED
    BY <2>1, <2>2, <2>3
<1> QED
  BY <1>4, <1>6, <1>7

-----------------------------------------------------------------------------
(* GroundPlaneLighting: the steps *)

\* What a change, a commit and an event do to the chunks with an event to come.
LEMMA PendingAfterSet ==
  ASSUME NEW chunk \in Chunks, SetVoxels(chunk), NEW c
  PROVE  Pending(c)' = Pending(c) \cup {level \in 1..Levels : <<c, level>> = chunk}
BY DEF Pending, SetVoxels

LEMMA PendingAfterCommit ==
  ASSUME GPLTypeInv, Commit, NEW c
  PROVE  Pending(c)' = Pending(c)
<1>1. PICK chunks \in SetToSeqs(changed) : events' = events \o chunks
  BY DEF Commit
<1>2. /\ chunks \in Seq(Chunks) /\ chunks \in Seq(changed) /\ events \in Seq(Chunks)
      /\ \A x \in changed : \E i \in 1..Len(chunks) : chunks[i] = x
  BY OrderIsOfAll DEF GPLTypeInv
<1>3. changed' = {}
  BY DEF Commit
<1>4. ASSUME NEW level \in Pending(c) PROVE level \in Pending(c)'
  <2>1. CASE <<c, level>> \in changed
    <3>1. PICK i \in 1..Len(chunks) : chunks[i] = <<c, level>>
      BY <1>2, <2>1
    <3>2. /\ Len(events) + i \in 1..Len(events \o chunks)
          /\ (events \o chunks)[Len(events) + i] = chunks[i]
      BY <1>2, ElementsOfJoin
    <3>3. Len(events) + i \in 1..Len(events') /\ events'[Len(events) + i] = <<c, level>>
      BY <1>1, <3>1, <3>2
    <3> QED
      BY <3>3 DEF Pending
  <2>2. ASSUME NEW i \in 1..Len(events), events[i] = <<c, level>>
        PROVE  level \in Pending(c)'
    <3>1. i \in 1..Len(events') /\ events'[i] = <<c, level>>
      BY <1>1, <1>2, <2>2, ElementsOfJoin
    <3> QED
      BY <3>1 DEF Pending
  <2> QED
    BY <2>1, <2>2 DEF Pending
<1>5. ASSUME NEW level \in Pending(c)' PROVE level \in Pending(c)
  <2>1. PICK i \in 1..Len(events') : events'[i] = <<c, level>>
    BY <1>3 DEF Pending
  <2>2. CASE i \in 1..Len(events)
    <3>1. events[i] = <<c, level>>
      BY <1>1, <1>2, <2>1, <2>2, ElementsOfJoin
    <3> QED
      BY <2>2, <3>1 DEF Pending
  <2>3. CASE i \notin 1..Len(events)
    <3>1. i - Len(events) \in 1..Len(chunks) /\ chunks[i - Len(events)] = <<c, level>>
      BY SMTT(30), <1>1, <1>2, <2>1, <2>3, ElementsOfJoin
    <3>2. \A j \in 1..Len(chunks) : chunks[j] \in changed
      <4>1. chunks \in Seq(changed)
        BY <1>2
      <4> QED
        BY <4>1
    <3>3. <<c, level>> \in changed
      BY <3>1, <3>2
    <3> QED
      BY <3>3 DEF Pending
  <2> QED
    BY <2>2, <2>3
<1> QED
  BY <1>4, <1>5

LEMMA PendingAfterEvent ==
  ASSUME GPLTypeInv, OnNodeVolumeUpdated, NEW c
  PROVE  /\ Pending(c)' \subseteq Pending(c)
         /\ \A level \in Pending(c) : level \in Pending(c)' \/ <<c, level>> = Head(events)
<1>1. /\ events \in Seq(Chunks) /\ events # <<>> /\ events' = Tail(events)
      /\ changed' = changed
  BY DEF OnNodeVolumeUpdated, worldVars, GPLTypeInv
<1>2. /\ \A i \in 1..Len(events') : i + 1 \in 1..Len(events) /\ events'[i] = events[i + 1]
      /\ \A i \in 1..Len(events) : events[i] = Head(events) \/
           \E j \in 1..Len(events') : events'[j] = events[i]
  BY <1>1, ElementsOfTail
<1>3. ASSUME NEW level \in Pending(c)' PROVE level \in Pending(c)
  BY SMTT(60), <1>1, <1>2 DEF Pending
<1>4. ASSUME NEW level \in Pending(c), level \notin Pending(c)'
      PROVE  <<c, level>> = Head(events)
  BY <1>1, <1>2, <1>4 DEF Pending
<1> QED
  BY <1>3, <1>4

\* The event of a handler is about a chunk of the world.
LEMMA EventIsPending ==
  ASSUME GPLTypeInv, OnNodeVolumeUpdated
  PROVE  /\ Head(events) = <<Head(events)[1], Head(events)[2]>>
         /\ Head(events)[1] \in Columns /\ Head(events)[2] \in 1..Levels
         /\ Head(events)[2] \in Pending(Head(events)[1])
<1>1. events \in Seq(Chunks) /\ events # <<>>
  BY DEF OnNodeVolumeUpdated, GPLTypeInv
<1>2. Head(events) \in Chunks /\ Head(events) = events[1] /\ 1 \in 1..Len(events)
  BY <1>1
<1>3. /\ Head(events) = <<Head(events)[1], Head(events)[2]>>
      /\ Head(events)[1] \in Columns /\ Head(events)[2] \in 1..Levels
  BY <1>2 DEF Chunks
<1> QED
  BY <1>2, <1>3 DEF Pending

\* What setting voxels leaves alone, and what it does.
LEMMA WorldAfterSet ==
  ASSUME GPLTypeInv, NEW chunk \in Chunks, SetVoxels(chunk)
  PROVE  /\ world' \in [Columns -> [Heights -> {"undefined", "clear", "solid"}]]
         /\ \A c \in Columns : \A y \in Heights :
              \/ world'[c][y] = world[c][y]
              \/ /\ c = chunk[1] /\ y \in Lower(chunk[2])..Upper(chunk[2])
                 /\ world'[c][y] # "undefined"
         /\ \A y \in Heights : y \in Lower(chunk[2])..Upper(chunk[2]) =>
              world'[chunk[1]][y] # "undefined"
<1> DEFINE cells == Lower(chunk[2])..Upper(chunk[2])
<1>1. PICK content \in [cells -> {"clear", "solid"}] :
        world' = [world EXCEPT ![chunk[1]] =
                    [y \in Heights |-> IF y \in cells THEN content[y] ELSE @[y]]]
  BY DEF SetVoxels
<1>2. chunk[1] \in Columns
  BY DEF Chunks
<1>3. world \in [Columns -> [Heights -> {"undefined", "clear", "solid"}]]
  BY DEF GPLTypeInv
<1> HIDE DEF cells
<1>4. world' \in [Columns -> [Heights -> {"undefined", "clear", "solid"}]]
  BY <1>1, <1>2, <1>3
<1>5. ASSUME NEW c \in Columns, NEW y \in Heights
      PROVE  world'[c][y] = IF c = chunk[1] /\ y \in cells THEN content[y]
                                                          ELSE world[c][y]
  BY <1>1, <1>2, <1>3
<1>6. \A y \in cells : content[y] # "undefined"
  BY <1>1
<1> QED
  BY <1>2, <1>4, <1>5, <1>6 DEF cells

\* Every step keeps the types.
LEMMA NothingIsPacket ==
  Nothing \in Packets
<1>1. Nothing \in [Columns -> Int]
  BY DEF Nothing, Unset
<1> QED
  BY <1>1 DEF Packets

LEMMA TypeStep ==
  ASSUME GPLTypeInv, [GPLNext]_gplVars
  PROVE  GPLTypeInv'
<1> USE DEF GPLTypeInv, KnownSectors, gplVars, worldVars, ystVars, peerVars
<1>1. CASE Commit
  <2>1. PICK chunks \in SetToSeqs(changed) : events' = events \o chunks
    BY <1>1 DEF Commit
  <2>2. chunks \in Seq(Chunks)
    BY OrderIsOfAll
  <2>3. events' \in Seq(Chunks) /\ changed' = {} /\ IsFiniteSet({})
    BY <1>1, <2>1, <2>2, FS_EmptySet DEF Commit
  <2> QED
    BY <1>1, <2>3 DEF Commit
<1>2. CASE DeleteScene
  BY <1>2 DEF DeleteScene
<1>3. CASE OnNodeVolumeUpdated
  <2> DEFINE c == Head(events)[1]
             y == Upper(Head(events)[2])
  <2>1. c \in Columns /\ y \in Nat /\ Below(c, y) \in Int
    BY <1>3, EventIsPending, CellsOfLevels, BelowFinds
  <2>2. \/ yst' = yst /\ dirty' = dirty
        \/ /\ yst' = [yst EXCEPT ![c] = Below(c, y)]
           /\ dirty' = dirty \cup {SectorOf[c]}
    BY <1>3 DEF OnNodeVolumeUpdated
  <2> HIDE DEF c, y
  <2>3. yst' \in [Columns -> Int] /\ \A d \in Columns : d # c => yst'[d] = yst[d]
    BY <2>1, <2>2
  <2>4. IsFiniteSet(dirty')
    <3>1. IsFiniteSet(dirty) /\ IsFiniteSet(dirty \cup {SectorOf[c]})
      BY FS_AddElement
    <3>2. dirty' = dirty \/ dirty' = dirty \cup {SectorOf[c]}
      BY <2>2
    <3> QED
      BY <3>1, <3>2
  <2>5. IsFiniteSet(KnownSectors')
    <3>1. KnownSectors' \subseteq KnownSectors \cup {SectorOf[c]}
      BY <2>3
    <3>2. IsFiniteSet(KnownSectors \cup {SectorOf[c]})
      BY FS_AddElement
    <3> QED
      BY <3>1, <3>2, FS_Subset
  <2>6. events' \in Seq(Chunks)
    BY <1>3 DEF OnNodeVolumeUpdated
  <2> QED
    BY <1>3, <2>3, <2>4, <2>5, <2>6 DEF OnNodeVolumeUpdated
<1>4. CASE OnTick
  <2>1. PICK messages \in Messages(dirty) :
          wire' = [p \in Clients |-> IF peers[p] = "ready" THEN wire[p] \o messages
                                                            ELSE wire[p]]
    BY <1>4 DEF OnTick
  <2>2. messages \in Seq(Packets)
    BY SectorsAreSent
  <2>3. wire' \in [Clients -> Seq(Packets)]
    BY <2>1, <2>2
  <2>4. dirty' = {} /\ IsFiniteSet({})
    BY <1>4, FS_EmptySet DEF OnTick
  <2> QED
    BY <1>4, <2>3, <2>4 DEF OnTick
<1>5. CASE OnSceneDeleted
  <2>1. yst' = Nothing /\ dirty' = {} /\ events' = <<>>
    BY <1>5 DEF OnSceneDeleted
  <2>2. yst' \in [Columns -> Int] /\ KnownSectors' \subseteq {}
    BY <2>1 DEF Nothing, Unset
  <2>3. IsFiniteSet(KnownSectors')
    BY <2>2, FS_EmptySet, FS_Subset
  <2>4. dirty' = {} /\ IsFiniteSet({}) /\ events' \in Seq(Chunks) /\ scene' = "dropped"
    BY <1>5, <2>1, FS_EmptySet DEF OnSceneDeleted
  <2>5. /\ world' = world /\ changed' = changed
        /\ peers' = peers /\ wire' = wire /\ copy' = copy
    BY <1>5 DEF OnSceneDeleted
  <2> QED
    BY <2>2, <2>3, <2>4, <2>5
<1>6. ASSUME NEW chunk \in Chunks, SetVoxels(chunk) PROVE GPLTypeInv'
  <2>1. changed' \subseteq Chunks /\ IsFiniteSet(changed')
    BY <1>6, FS_AddElement DEF SetVoxels
  <2>2. world' \in [Columns -> [Heights -> {"undefined", "clear", "solid"}]]
    BY <1>6, WorldAfterSet
  <2> QED
    BY <1>6, <2>1, <2>2 DEF SetVoxels
<1>7. ASSUME NEW p \in Clients, OnPeerJoinedScene(p) PROVE GPLTypeInv'
  <2>1. PICK messages \in Messages(KnownSectors) :
          wire' = [wire EXCEPT ![p] = Append(@, Nothing) \o messages]
    BY <1>7 DEF OnPeerJoinedScene, Joining
  <2>2. messages \in Seq(Packets)
    BY SectorsAreSent
  <2>3. Nothing \in Packets
    BY NothingIsPacket
  <2>4. Append(wire[p], Nothing) \o messages \in Seq(Packets)
    BY <2>2, <2>3
  <2>5. wire' \in [Clients -> Seq(Packets)]
    BY <2>1, <2>4
  <2> QED
    BY <1>7, <2>5 DEF OnPeerJoinedScene, Joining
<1>8. ASSUME NEW p \in Clients, Disconnect(p) PROVE GPLTypeInv'
  <2>1. copy' \in [Clients -> [Columns -> Int]]
    BY <1>8 DEF Disconnect, Nothing, Unset
  <2> QED
    BY <1>8, <2>1 DEF Disconnect
<1>9. ASSUME NEW p \in Clients, OnPeerLeftScene(p) PROVE GPLTypeInv'
  BY <1>9 DEF OnPeerLeftScene
<1>10. ASSUME NEW p \in Clients, Receive(p) PROVE GPLTypeInv'
  <2>1. Head(wire[p]) \in Packets /\ Tail(wire[p]) \in Seq(Packets)
    BY <1>10 DEF Receive
  <2>2. Updated(copy[p], Head(wire[p])) \in [Columns -> Int]
    BY <2>1 DEF Updated, Packets
  <2>3. copy' = [copy EXCEPT ![p] = Updated(copy[p], Head(wire[p]))]
    BY <1>10 DEF Receive, Updated
  <2>4. copy' \in [Clients -> [Columns -> Int]] /\ wire' \in [Clients -> Seq(Packets)]
    BY <1>10, <2>1, <2>2, <2>3 DEF Receive
  <2> QED
    BY <1>10, <2>4 DEF Receive
<1>11. CASE UNCHANGED gplVars
  BY <1>11
<1> QED
  BY <1>1, <1>2, <1>3, <1>4, <1>5, <1>6, <1>7, <1>8, <1>9, <1>10, <1>11
     DEF GPLNext

\* An event is about a chunk that is loaded.
LEMMA LoadedStep ==
  ASSUME GPLTypeInv, LoadedInv, [GPLNext]_gplVars
  PROVE  LoadedInv'
<1> USE DEF LoadedInv, LoadedAt, gplVars, worldVars, ystVars, peerVars
<1>1. CASE Commit
  <2>1. \A c : Pending(c)' = Pending(c)
    BY <1>1, PendingAfterCommit
  <2> QED
    BY <1>1, <2>1 DEF Commit
<1>2. CASE DeleteScene
  <2>1. \A c : Pending(c)' = Pending(c)
    BY <1>2 DEF DeleteScene, Pending
  <2> QED
    BY <1>2, <2>1 DEF DeleteScene
<1>3. CASE OnNodeVolumeUpdated
  <2>1. \A c : Pending(c)' \subseteq Pending(c)
    BY <1>3, PendingAfterEvent
  <2> QED
    BY <1>3, <2>1 DEF OnNodeVolumeUpdated
<1>4. CASE OnTick
  <2>1. \A c : Pending(c)' = Pending(c)
    BY <1>4 DEF OnTick, Pending
  <2> QED
    BY <1>4, <2>1 DEF OnTick
<1>5. CASE OnSceneDeleted
  <2>1. \A c : Pending(c)' \subseteq Pending(c)
    BY <1>5 DEF OnSceneDeleted, Pending
  <2> QED
    BY <1>5, <2>1 DEF OnSceneDeleted
<1>6. ASSUME NEW chunk \in Chunks, SetVoxels(chunk) PROVE LoadedInv'
  <2> SUFFICES ASSUME NEW c \in Columns, NEW level \in Pending(c)'
               PROVE  Upper(level) \in LoadedAt(c)'
    OBVIOUS
  <2>1. level \in 1..Levels /\ Upper(level) \in Heights
    BY CellsOfLevels DEF Pending
  <2>2. CASE level \in Pending(c)
    BY <1>6, <2>1, <2>2, WorldAfterSet DEF GPLTypeInv
  <2>3. CASE <<c, level>> = chunk
    <3>1. Upper(level) \in Lower(level)..Upper(level) /\ chunk[1] = c /\ chunk[2] = level
      BY <2>1, <2>3, CellsOfLevels
    <3> QED
      BY <1>6, <2>1, <3>1, WorldAfterSet
  <2> QED
    BY <1>6, <2>2, <2>3, PendingAfterSet
<1>7. ASSUME NEW p \in Clients, OnPeerJoinedScene(p) PROVE LoadedInv'
  <2>1. \A c : Pending(c)' = Pending(c)
    BY <1>7 DEF OnPeerJoinedScene, Pending
  <2> QED
    BY <1>7, <2>1 DEF OnPeerJoinedScene
<1>8. ASSUME NEW p \in Clients, Disconnect(p) PROVE LoadedInv'
  <2>1. \A c : Pending(c)' = Pending(c)
    BY <1>8 DEF Disconnect, Pending
  <2> QED
    BY <1>8, <2>1 DEF Disconnect
<1>9. ASSUME NEW p \in Clients, OnPeerLeftScene(p) PROVE LoadedInv'
  <2>1. \A c : Pending(c)' = Pending(c)
    BY <1>9 DEF OnPeerLeftScene, Pending
  <2> QED
    BY <1>9, <2>1 DEF OnPeerLeftScene
<1>10. ASSUME NEW p \in Clients, Receive(p) PROVE LoadedInv'
  <2>1. \A c : Pending(c)' = Pending(c)
    BY <1>10 DEF Receive, Pending
  <2> QED
    BY <1>10, <2>1 DEF Receive
<1>11. CASE UNCHANGED gplVars
  BY <1>11 DEF Pending
<1> QED
  BY <1>1, <1>2, <1>3, <1>4, <1>5, <1>6, <1>7, <1>8, <1>9, <1>10, <1>11
     DEF GPLNext

LEMMA TopIsNatural == Top \in Nat
<1>1. Levels \in Nat /\ ChunkHeight \in Nat
  BY SizesArePositive
<1> QED
  BY <1>1 DEF Top

\* Columns are right but for what an event to come will put right.
LEMMA GroundStep ==
  ASSUME GPLTypeInv, LoadedInv, GroundInv, [GPLNext]_gplVars
  PROVE  GroundInv'
<1> USE DEF GroundInv, gplVars, worldVars, ystVars, peerVars
<1>1. CASE Commit
  <2>1. \A c : Pending(c)' = Pending(c)
    BY <1>1, PendingAfterCommit
  <2> QED
    BY <1>1, <2>1 DEF Commit, GroundAt, LoadedAt
<1>2. CASE DeleteScene
  BY <1>2 DEF DeleteScene
<1>3. CASE OnNodeVolumeUpdated
  <2> SUFFICES ASSUME NEW c \in Columns, scene = "live" PROVE GroundAt(c)'
    BY <1>3 DEF OnNodeVolumeUpdated
  <2> DEFINE c0 == Head(events)[1]
             level == Head(events)[2]
  <2>1. /\ c0 \in Columns /\ level \in 1..Levels /\ level \in Pending(c0)
        /\ Head(events) = <<c0, level>>
    BY <1>3, EventIsPending
  <2>2. /\ Pending(c)' \subseteq Pending(c)
        /\ \A k \in Pending(c) : k \in Pending(c)' \/ (c = c0 /\ k = level)
    BY <1>3, <2>1, PendingAfterEvent
  <2>3. GroundAt(c) /\ world' = world
    BY <1>3 DEF OnNodeVolumeUpdated
  <2>4. \/ Hidden(c0, level) /\ yst' = yst
        \/ ~Hidden(c0, level) /\ yst' = [yst EXCEPT ![c0] = Below(c0, Upper(level))]
    BY <1>3 DEF OnNodeVolumeUpdated
  <2>5. /\ Upper(level) \in Nat /\ Upper(level) <= Top /\ Top \in Nat
        /\ Upper(level) \in LoadedAt(c0) /\ Heights \subseteq Nat
    BY <2>1, CellsOfLevels DEF Heights, LoadedInv
  <2> HIDE DEF c0, level
  <2>6. yst[c] = -1 \/ yst[c] \in 0..Top
    BY <2>3 DEF GroundAt, Unset
  <2>7. CASE c # c0
    <3>1. Pending(c) \subseteq Pending(c)'
      BY <2>2, <2>7
    <3>2. yst'[c] = yst[c]
      BY <2>4, <2>7 DEF GPLTypeInv
    <3> QED
      BY <2>3, <3>1, <3>2 DEF GroundAt, LoadedAt
  <2>8. CASE c = c0 /\ Hidden(c0, level)
    <3>1. yst' = yst /\ yst[c] > Upper(level)
      BY <2>4, <2>8 DEF Hidden
    <3>2. \A k \in Pending(c) : yst[c] <= Upper(k) => k \in Pending(c)'
      BY <2>2, <2>5, <2>6, <3>1
    <3>3. \A h \in Heights : \A k \in Pending(c) :
            yst[c] < h /\ h <= Upper(k) => k \in Pending(c)'
      BY <2>2, <2>5, <2>6, <3>1
    <3>4. yst[c] # Unset
      BY <2>5, <3>1 DEF Unset
    <3> QED
      BY <2>3, <3>1, <3>2, <3>3, <3>4 DEF GroundAt, LoadedAt
  <2>9. CASE c = c0 /\ ~Hidden(c0, level)
    <3> DEFINE b == Below(c, Upper(level))
    <3>1. /\ b \in 0..Upper(level) /\ (b = 0 \/ world[c][b] # "clear")
          /\ \A g \in (b + 1)..Upper(level) : world[c][g] = "clear"
      BY <2>5, BelowFinds
    <3>2. yst'[c] = b /\ yst[c] <= Upper(level)
      BY <2>4, <2>5, <2>6, <2>9 DEF Hidden, GPLTypeInv
    <3> HIDE DEF b
    <3>3. yst'[c] \in 0..Top /\ yst'[c] # Unset
      BY <2>5, <3>1, <3>2 DEF Unset
    <3>4. \E y \in LoadedAt(c) : yst'[c] <= y
      BY <2>5, <2>9, <3>1, <3>2
    <3>5. ~(yst'[c] > 0 /\ world[c][yst'[c]] = "clear")
      BY <3>1, <3>2
    <3>6. ASSUME NEW h \in Heights, NEW y \in LoadedAt(c),
                 yst'[c] < h, h <= y, world[c][h] # "clear"
          PROVE  \E k \in Pending(c)' : h <= Upper(k)
      <4>1. h \notin (b + 1)..Upper(level)
        BY <3>1, <3>6
      <4>2. h > Upper(level) /\ yst[c] < h
        BY <2>5, <2>6, <3>1, <3>2, <3>6, <4>1
      <4>3. PICK k \in Pending(c) : h <= Upper(k)
        BY <2>3, <3>6, <4>2 DEF GroundAt
      <4>4. k # level
        BY <2>5, <4>2, <4>3
      <4> QED
        BY <2>2, <4>3, <4>4
    <3> QED
      BY <2>3, <3>3, <3>4, <3>5, <3>6 DEF GroundAt, LoadedAt
  <2> QED
    BY <2>7, <2>8, <2>9
<1>4. CASE OnTick
  <2>1. \A c : Pending(c)' = Pending(c)
    BY <1>4 DEF OnTick, Pending
  <2> QED
    BY <1>4, <2>1 DEF OnTick, GroundAt, LoadedAt
<1>5. CASE OnSceneDeleted
  BY <1>5 DEF OnSceneDeleted
<1>6. ASSUME NEW chunk \in Chunks, SetVoxels(chunk) PROVE GroundInv'
  <2> SUFFICES ASSUME NEW c \in Columns, scene = "live" PROVE GroundAt(c)'
    BY <1>6 DEF SetVoxels
  <2>1. chunk = <<chunk[1], chunk[2]>> /\ chunk[1] \in Columns /\ chunk[2] \in 1..Levels
    BY DEF Chunks
  <2>2. GroundAt(c) /\ yst' = yst
    BY <1>6 DEF SetVoxels
  <2>3. CASE c # chunk[1]
    <3>1. world'[c] = world[c]
      BY <1>6, <2>3 DEF SetVoxels, GPLTypeInv
    <3>2. Pending(c)' = Pending(c)
      <4>1. {k \in 1..Levels : <<c, k>> = chunk} = {}
        BY <2>1, <2>3
      <4>2. Pending(c)' = Pending(c) \cup {k \in 1..Levels : <<c, k>> = chunk}
        BY <1>6, PendingAfterSet
      <4> QED
        BY <4>1, <4>2
    <3> QED
      BY <2>2, <3>1, <3>2 DEF GroundAt, LoadedAt
  <2>4. CASE c = chunk[1]
    <3> DEFINE level == chunk[2]
    <3>1. level \in Pending(c)' /\ Pending(c) \subseteq Pending(c)'
      BY <1>6, <2>1, <2>4, PendingAfterSet
    <3>2. /\ Lower(level) \in Nat /\ Upper(level) \in Nat /\ Upper(level) \in Heights
          /\ Lower(level) <= Upper(level) /\ Heights \subseteq Nat
      BY <2>1, CellsOfLevels DEF Heights
    <3>3. \A y \in Heights :
            \/ world'[c][y] = world[c][y]
            \/ y \in Lower(level)..Upper(level) /\ world'[c][y] # "undefined"
      BY <1>6, <2>4, WorldAfterSet
    <3> HIDE DEF level
    <3>4. LoadedAt(c) \subseteq LoadedAt(c)'
      BY <3>3 DEF LoadedAt
    <3>5. yst[c] = -1 \/ yst[c] \in 0..Top
      BY <2>2 DEF GroundAt, Unset
    <3>6. yst[c] > 0 => yst[c] \in Heights
      BY <3>5, TopIsNatural DEF Heights
    <3>7. yst'[c] # Unset => \E y \in LoadedAt(c)' : yst'[c] <= y
      BY <2>2, <3>4 DEF GroundAt
    <3>8. ASSUME yst'[c] > 0, world'[c][yst'[c]] = "clear"
          PROVE  \E k \in Pending(c)' : Lower(k) <= yst'[c] /\ yst'[c] <= Upper(k)
      <4>1. CASE yst[c] \in Lower(level)..Upper(level)
        BY <2>2, <3>1, <4>1
      <4>2. CASE yst[c] \notin Lower(level)..Upper(level)
        BY <2>2, <3>1, <3>3, <3>6, <3>8, <4>2 DEF GroundAt
      <4> QED
        BY <4>1, <4>2
    <3>9. ASSUME NEW h \in Heights, NEW y \in LoadedAt(c)',
                 yst'[c] < h, h <= y, world'[c][h] # "clear"
          PROVE  \E k \in Pending(c)' : h <= Upper(k)
      <4>1. CASE h <= Upper(level)
        BY <3>1, <4>1
      <4>2. CASE h > Upper(level)
        <5>1. y \in Heights /\ y > Upper(level)
          BY <3>2, <3>9, <4>2 DEF LoadedAt
        <5>2. world'[c][h] = world[c][h] /\ y \in LoadedAt(c)
          BY <3>2, <3>3, <4>2, <5>1 DEF LoadedAt
        <5> QED
          BY <2>2, <3>1, <3>9, <5>2 DEF GroundAt
      <4> QED
        BY <3>2, <4>1, <4>2
    <3> QED
      BY <2>2, <3>1, <3>7, <3>8, <3>9 DEF GroundAt
  <2> QED
    BY <2>3, <2>4
<1>7. ASSUME NEW p \in Clients, OnPeerJoinedScene(p) PROVE GroundInv'
  <2>1. \A c : Pending(c)' = Pending(c)
    BY <1>7 DEF OnPeerJoinedScene, Pending
  <2> QED
    BY <1>7, <2>1 DEF OnPeerJoinedScene, GroundAt, LoadedAt
<1>8. ASSUME NEW p \in Clients, Disconnect(p) PROVE GroundInv'
  <2>1. \A c : Pending(c)' = Pending(c)
    BY <1>8 DEF Disconnect, Pending
  <2> QED
    BY <1>8, <2>1 DEF Disconnect, GroundAt, LoadedAt
<1>9. ASSUME NEW p \in Clients, OnPeerLeftScene(p) PROVE GroundInv'
  <2>1. \A c : Pending(c)' = Pending(c)
    BY <1>9 DEF OnPeerLeftScene, Pending
  <2> QED
    BY <1>9, <2>1 DEF OnPeerLeftScene, GroundAt, LoadedAt
<1>10. ASSUME NEW p \in Clients, Receive(p) PROVE GroundInv'
  <2>1. \A c : Pending(c)' = Pending(c)
    BY <1>10 DEF Receive, Pending
  <2> QED
    BY <1>10, <2>1 DEF Receive, GroundAt, LoadedAt
<1>11. CASE UNCHANGED gplVars
  <2>1. \A c : Pending(c)' = Pending(c)
    BY <1>11 DEF Pending
  <2> QED
    BY <1>11, <2>1 DEF GroundAt, LoadedAt
<1> QED
  BY <1>1, <1>2, <1>3, <1>4, <1>5, <1>6, <1>7, <1>8, <1>9, <1>10, <1>11
     DEF GPLNext

\* What is on its way shows a client what the columns are.
LEMMA SeenStep ==
  ASSUME GPLTypeInv, SeenInv, [GPLNext]_gplVars
  PROVE  SeenInv'
<1> USE DEF SeenInv, gplVars, worldVars, ystVars, peerVars
<1>1. CASE Commit
  BY <1>1 DEF Commit
<1>2. CASE DeleteScene
  BY <1>2 DEF DeleteScene
<1>3. CASE OnNodeVolumeUpdated
  <2>1. wire' = wire /\ copy' = copy /\ peers' = peers /\ scene' = scene
    BY <1>3 DEF OnNodeVolumeUpdated
  <2>2. \A c \in Columns : SectorOf[c] \notin dirty' =>
          SectorOf[c] \notin dirty /\ yst'[c] = yst[c]
    BY <1>3 DEF OnNodeVolumeUpdated, GPLTypeInv
  <2> QED
    BY <2>1, <2>2
<1>4. CASE OnTick
  <2>1. PICK messages \in Messages(dirty) :
          wire' = [p \in Clients |-> IF peers[p] = "ready" THEN wire[p] \o messages
                                                            ELSE wire[p]]
    BY <1>4 DEF OnTick
  <2>2. IsFiniteSet(dirty)
    BY DEF GPLTypeInv
  <2>3. /\ messages \in Seq(Packets)
        /\ \A c \in Columns : \A k \in 1..Len(messages) :
             c \in DOMAIN messages[k] => messages[k][c] = yst[c]
        /\ \A c \in Columns : SectorOf[c] \in dirty =>
             \E k \in 1..Len(messages) : c \in DOMAIN messages[k]
    BY <2>2, SectorsAreSent
  <2>4. yst' = yst /\ copy' = copy /\ peers' = peers /\ scene' = scene
    BY <1>4 DEF OnTick
  <2>5. ASSUME scene # "dropped", NEW p \in Clients, peers[p] = "ready", NEW c \in Columns
        PROVE  Shows(wire[p] \o messages, copy[p], c, yst[c])
    <3>1. wire[p] \in Seq(Packets)
      BY DEF GPLTypeInv
    <3>2. \/ Shows(wire[p], copy[p], c, yst[c])
          \/ \E k \in 1..Len(messages) : c \in DOMAIN messages[k]
      BY <2>3, <2>5
    <3> QED
      BY <2>3, <3>1, <3>2, ShowsJoin
  <2> QED
    BY <2>1, <2>4, <2>5
<1>5. CASE OnSceneDeleted
  BY <1>5 DEF OnSceneDeleted
<1>6. ASSUME NEW chunk \in Chunks, SetVoxels(chunk) PROVE SeenInv'
  BY <1>6 DEF SetVoxels
<1>7. ASSUME NEW p \in Clients, OnPeerJoinedScene(p) PROVE SeenInv'
  <2>1. PICK messages \in Messages(KnownSectors) :
          wire' = [wire EXCEPT ![p] = Append(@, Nothing) \o messages]
    BY <1>7 DEF OnPeerJoinedScene, Joining
  <2>2. /\ IsFiniteSet(KnownSectors) /\ wire \in [Clients -> Seq(Packets)]
        /\ Nothing \in Packets
    BY NothingIsPacket DEF GPLTypeInv
  <2>3. /\ messages \in Seq(Packets)
        /\ \A c \in Columns : \A k \in 1..Len(messages) :
             c \in DOMAIN messages[k] => messages[k][c] = yst[c]
        /\ \A c \in Columns : SectorOf[c] \in KnownSectors =>
             \E k \in 1..Len(messages) : c \in DOMAIN messages[k]
    BY <2>2, SectorsAreSent
  <2>4. /\ yst' = yst /\ dirty' = dirty /\ copy' = copy /\ scene' = scene
        /\ \A q \in Clients : q # p => peers'[q] = peers[q] /\ wire'[q] = wire[q]
    BY <1>7, <2>2 DEF OnPeerJoinedScene, Joining, GPLTypeInv
  <2>5. ASSUME NEW c \in Columns PROVE Shows(wire'[p], copy[p], c, yst[c])
    <3> DEFINE w == wire[p] \o <<Nothing>>
    <3>1. /\ w \in Seq(Packets) /\ <<Nothing>> \in Seq(Packets) /\ wire[p] \in Seq(Packets)
          /\ Append(wire[p], Nothing) = w /\ wire'[p] = w \o messages
      BY <2>1, <2>2
    <3>2. /\ Len(<<Nothing>>) = 1 /\ <<Nothing>>[1] = Nothing
          /\ c \in DOMAIN Nothing /\ Nothing[c] = Unset
      BY DEF Nothing
    <3>3. Shows(w, copy[p], c, Unset)
      <4> DEFINE s == <<Nothing>>
      <4>1. \A k \in 1..Len(s) : s[k] = Nothing
        BY <3>2
      <4>2. 1 \in 1..Len(s)
        BY <3>2
      <4>3. s \in Seq(Packets)
        BY <3>1
      <4> HIDE DEF s
      <4>4. Shows(wire[p] \o s, copy[p], c, Unset)
        BY <3>1, <3>2, <4>1, <4>2, <4>3, ShowsJoin
      <4> QED
        BY <4>4 DEF s
    <3> HIDE DEF w
    <3>4. SectorOf[c] \notin KnownSectors => yst[c] = Unset
      BY DEF KnownSectors
    <3>5. \/ Shows(w, copy[p], c, yst[c])
          \/ \E k \in 1..Len(messages) : c \in DOMAIN messages[k]
      BY <2>3, <3>3, <3>4
    <3>6. Shows(w \o messages, copy[p], c, yst[c])
      BY <2>3, <3>1, <3>5, ShowsJoin
    <3> QED
      BY <3>1, <3>6
  <2> QED
    BY <2>4, <2>5
<1>8. ASSUME NEW p \in Clients, Disconnect(p) PROVE SeenInv'
  <2>1. /\ peers'[p] = "gone"
        /\ \A q \in Clients : q # p =>
             peers'[q] = peers[q] /\ wire'[q] = wire[q] /\ copy'[q] = copy[q]
    BY <1>8 DEF Disconnect, GPLTypeInv
  <2> QED
    BY <1>8, <2>1 DEF Disconnect
<1>9. ASSUME NEW p \in Clients, OnPeerLeftScene(p) PROVE SeenInv'
  <2>1. peers'[p] = "out" /\ \A q \in Clients : q # p => peers'[q] = peers[q]
    BY <1>9 DEF OnPeerLeftScene, GPLTypeInv
  <2> QED
    BY <1>9, <2>1 DEF OnPeerLeftScene
<1>10. ASSUME NEW p \in Clients, Receive(p) PROVE SeenInv'
  <2>1. /\ wire[p] \in Seq(Packets) /\ wire[p] # <<>> /\ copy[p] \in [Columns -> Int]
        /\ wire \in [Clients -> Seq(Packets)] /\ copy \in [Clients -> [Columns -> Int]]
    BY <1>10 DEF Receive, GPLTypeInv
  <2>2. /\ wire' = [wire EXCEPT ![p] = Tail(wire[p])]
        /\ copy' = [copy EXCEPT ![p] = Updated(copy[p], Head(wire[p]))]
        /\ yst' = yst /\ dirty' = dirty /\ peers' = peers /\ scene' = scene
    BY <1>10, <2>1 DEF Receive, Updated
  <2>3. \A c \in Columns : \A x : Shows(wire[p], copy[p], c, x) =>
          Shows(Tail(wire[p]), Updated(copy[p], Head(wire[p])), c, x)
    BY <2>1, ShowsTail
  <2>4. /\ wire'[p] = Tail(wire[p]) /\ copy'[p] = Updated(copy[p], Head(wire[p]))
        /\ \A q \in Clients : q # p => wire'[q] = wire[q] /\ copy'[q] = copy[q]
    BY <2>1, <2>2
  <2> QED
    BY <2>2, <2>3, <2>4
<1>11. CASE UNCHANGED gplVars
  BY <1>11
<1> QED
  BY <1>1, <1>2, <1>3, <1>4, <1>5, <1>6, <1>7, <1>8, <1>9, <1>10, <1>11
     DEF GPLNext

-----------------------------------------------------------------------------
(* GroundPlaneLighting: the theorems *)

LEMMA GPLInvariance == GPLSpec => []GPLInv
<1>1. GPLInit => GPLInv
  <2> SUFFICES ASSUME GPLInit PROVE GPLInv
    OBVIOUS
  <2>1. GPLTypeInv
    <3>1. KnownSectors = {} /\ IsFiniteSet({})
      BY FS_EmptySet DEF GPLInit, KnownSectors, Nothing
    <3>2. yst \in [Columns -> Int] /\ copy \in [Clients -> [Columns -> Int]]
      BY DEF GPLInit, Nothing, Unset
    <3> QED
      BY <3>1, <3>2 DEF GPLInit, GPLTypeInv
  <2>2. \A c \in Columns : Pending(c) = {} /\ LoadedAt(c) = {} /\ yst[c] = -1
    BY DEF GPLInit, Pending, LoadedAt, Nothing, Unset
  <2>3. LoadedInv
    BY <2>2 DEF LoadedInv
  <2>4. GroundInv
    BY <2>2 DEF GroundInv, GroundAt, Unset
  <2>5. SeenInv
    BY DEF GPLInit, SeenInv
  <2> QED
    BY <2>1, <2>3, <2>4, <2>5 DEF GPLInv
<1>2. GPLInv /\ [GPLNext]_gplVars => GPLInv'
  BY TypeStep, LoadedStep, GroundStep, SeenStep DEF GPLInv
<1> QED
  BY <1>1, <1>2, PTL DEF GPLSpec

\* Once no change is uncommitted and no event waits, the light of every column
\* ends where a search of the whole column finds that it does, for columns of
\* any height: on_node_volume_updated() may search from its own chunk, stop at
\* what is not loaded and do nothing if the light ends above.
THEOREM GroundFollows == GPLSpec => []GroundIsCurrent
<1>1. GPLInv => GroundIsCurrent
  <2> SUFFICES ASSUME GPLInv, scene = "live", changed = {}, events = <<>>, NEW c \in Columns
               PROVE  yst[c] = Ground(c)
    BY DEF GroundIsCurrent
  <2>1. Pending(c) = {} /\ GroundAt(c)
    BY DEF Pending, GPLInv, GroundInv
  <2>2. CASE LoadedAt(c) = {}
    BY <2>1, <2>2 DEF GroundAt, Ground, LoadedAt
  <2>3. CASE LoadedAt(c) # {}
    <3> DEFINE y == CHOOSE y \in LoadedAt(c) : \A g \in LoadedAt(c) : g <= y
    <3>1. Top \in Nat /\ LoadedAt(c) \in SUBSET (0..Top)
      BY TopIsNatural DEF LoadedAt, Heights
    <3>2. y \in LoadedAt(c) /\ \A g \in LoadedAt(c) : g <= y
      BY <2>3, <3>1, GreatestExists
    <3>3. Ground(c) = Below(c, y)
      BY <2>3 DEF Ground, LoadedAt
    <3> HIDE DEF y
    <3>4. /\ Below(c, y) \in 0..y
          /\ Below(c, y) = 0 \/ world[c][Below(c, y)] # "clear"
          /\ \A g \in (Below(c, y) + 1)..y : world[c][g] = "clear"
      BY <3>1, <3>2, BelowFinds
    <3>5. yst[c] \in 0..Top /\ yst[c] <= y
      BY <2>1, <2>3, <3>1, <3>2 DEF GroundAt
    <3>6. yst[c] = 0 \/ world[c][yst[c]] # "clear"
      BY <2>1, <3>5 DEF GroundAt
    <3>7. \A h \in (yst[c] + 1)..y : world[c][h] = "clear"
      <4> SUFFICES ASSUME NEW h \in (yst[c] + 1)..y, world[c][h] # "clear" PROVE FALSE
        OBVIOUS
      <4>1. h \in Heights /\ yst[c] < h /\ h <= y
        BY <3>1, <3>2, <3>5 DEF Heights
      <4> QED
        BY <2>1, <3>2, <4>1 DEF GroundAt
    <3>8. ~(yst[c] < Below(c, y)) /\ ~(Below(c, y) < yst[c])
      <4>1. ASSUME yst[c] < Below(c, y) PROVE FALSE
        BY <3>1, <3>2, <3>4, <3>5, <3>7, <4>1
      <4>2. ASSUME Below(c, y) < yst[c] PROVE FALSE
        BY <3>1, <3>2, <3>4, <3>5, <3>6, <4>2
      <4> QED
        BY <4>1, <4>2
    <3> QED
      BY <3>1, <3>2, <3>3, <3>4, <3>5, <3>8
  <2> QED
    BY <2>2, <2>3
<1> QED
  BY <1>1, GPLInvariance, PTL

\* A client that has taken its packets knows every sector that is not about to
\* be sent, whenever it joined and whatever was sent meanwhile.
THEOREM PeersAreTold == GPLSpec => []ClientsAreTold
<1>1. GPLInv => ClientsAreTold
  <2> SUFFICES ASSUME GPLInv, scene # "dropped", NEW p \in Clients, peers[p] = "ready",
                      wire[p] = <<>>, NEW c \in Columns, SectorOf[c] \notin dirty
               PROVE  copy[p][c] = yst[c]
    BY DEF ClientsAreTold
  <2>1. Shows(<<>>, copy[p], c, yst[c])
    BY DEF GPLInv, SeenInv
  <2>2. 0 \in 0..Len(<<>>) /\ LastWith(<<>>, c, 0)
    BY DEF LastWith
  <2> QED
    BY <2>1, <2>2 DEF Shows
<1> QED
  BY <1>1, GPLInvariance, PTL

\* Together: once no change is on its way, clients see light as far down as it
\* comes, for columns of any height and any clients.
THEOREM ClientsAreShown == GPLSpec => []ClientsSeeGround
BY GroundFollows, PeersAreTold, PTL DEF ClientsSeeGround

-----------------------------------------------------------------------------
(* Loader: the inductive invariant                                         *)

LDTypeInv ==
  /\ meta \in Metas
  /\ phase \in {"inactive", "optional_too", "all", "load", "active", "failed"}
  /\ required \subseteq Modules /\ order \in Seq(Modules) /\ loaded \in Nat

\* The walk came to everything that is required and found it.
RequiredInv ==
  phase \in {"optional_too", "all", "load", "active"} =>
    required = {m \in Reached : Exists(m)} /\ Missing = {}

\* What a module requires is before it, and before it was required nothing was
\* in the order.
OrderInv ==
  /\ phase = "inactive" => order = <<>>
  /\ \A i \in 1..Len(order) : order[i] \in required
  /\ \A i, j \in 1..Len(order) : order[i] = order[j] => i = j
  /\ \A i \in 1..Len(order), d \in Modules :
       Depends(order[i], d, "required") => \E j \in 1..Len(order) : j < i /\ order[j] = d

\* step(false) finds nothing that step(true) did not find.
StuckInv == phase = "all" => Ready(TRUE) = {}

\* How step_through() and the loading end.
EndInv ==
  /\ phase \in {"load", "active"} => required \subseteq ToSet(order)
  /\ phase = "failed" => \/ Missing # {} \/ loaded < Len(order)
                         \/ ~\E o \in SetToSeqs(required) : RightOrder(o)

LDInv == LDTypeInv /\ RequiredInv /\ OrderInv /\ StuckInv /\ EndInv

-----------------------------------------------------------------------------
(* Loader: the walk *)

LEMMA ReachedIsComplete == Complete(Reached)
<1>1. Main \subseteq Reached
  BY ModulesAssumption DEF Reached, Complete
<1>2. ASSUME NEW m \in Reached, Exists(m), NEW d \in Successors(m) PROVE d \in Reached
  <2>1. d \in Modules
    BY DEF Successors
  <2>2. ASSUME NEW visited \in SUBSET Modules, Complete(visited) PROVE d \in visited
    BY <1>2, <2>2 DEF Reached, Complete
  <2> QED
    BY <2>1, <2>2 DEF Reached
<1> QED
  BY <1>1, <1>2 DEF Complete

\* What a required module requires is required, if nothing is missing.
LEMMA RequiredIsClosed ==
  ASSUME Missing = {}, required = {m \in Reached : Exists(m)},
         NEW m \in required, NEW d \in Modules, Depends(m, d, "required")
  PROVE  d \in required
<1>1. CASE meta.depends[m][d] = "required"
  <2>1. m \in Reached /\ Exists(m)
    OBVIOUS
  <2>2. d \in Successors(m)
    BY <1>1 DEF Successors
  <2>3. d \in Reached
    BY <2>1, <2>2, ReachedIsComplete DEF Complete
  <2>4. Exists(d)
    BY <1>1, <2>1, <2>3 DEF Missing
  <2> QED
    BY <2>3, <2>4
<1>2. CASE d \in required
  BY <1>2
<1> QED
  BY <1>1, <1>2 DEF Depends

-----------------------------------------------------------------------------
(* Loader: orders *)

LEMMA LeastExists ==
  ASSUME NEW Q, Q \subseteq Nat, Q # {}
  PROVE  \E i \in Q : \A j \in Q : i <= j
<1>1. IsWellFoundedOn(OpToRel(<, Nat), Nat)
  BY NatLessThanWellFounded
<1>2. \E i \in Q : \A j \in Q : ~(<<j, i>> \in OpToRel(<, Nat))
  BY <1>1, WFMin
<1>3. PICK i \in Q : \A j \in Q : ~(j < i)
  BY <1>2 DEF OpToRel
<1> QED
  BY <1>3

\* Where each of what is left requires something that is left, there is no order.
LEMMA NoRightOrder ==
  ASSUME required \subseteq Modules, NEW x \in required \ ToSet(order),
         \A m \in required \ ToSet(order) :
           \E d \in required \ ToSet(order) : Depends(m, d, "required"),
         NEW o \in SetToSeqs(required), RightOrder(o)
  PROVE  FALSE
<1>1. IsFiniteSet(required)
  BY ModulesAssumption, FS_Subset
<1>2. /\ o \in Seq(required) /\ Len(o) \in Nat
      /\ \A y \in required : \E i \in 1..Len(o) : o[i] = y
  BY <1>1, OrderIsOfAll
<1>3. \A i \in 1..Len(o) : o[i] \in required
  BY <1>2
<1> DEFINE Q == {i \in 1..Len(o) : o[i] \notin ToSet(order)}
<1>4. Q \subseteq Nat /\ Q # {}
  <2>1. PICK i \in 1..Len(o) : o[i] = x
    BY <1>2
  <2>2. i \in Q
    BY <2>1
  <2>3. \A k \in Q : k \in Nat
    BY <1>2
  <2> HIDE DEF Q
  <2> QED
    BY <2>2, <2>3
<1>5. PICK i \in Q : \A j \in Q : i <= j
  BY <1>4, LeastExists
<1>6. PICK d \in required \ ToSet(order) : Depends(o[i], d, "required")
  BY <1>3, <1>5
<1>7. PICK j \in 1..Len(o) : o[j] = d
  BY <1>2, <1>6
<1>8. j \in Q /\ i <= j
  BY <1>5, <1>6, <1>7
<1> QED
  BY <1>5, <1>6, <1>7, <1>8 DEF RightOrder

-----------------------------------------------------------------------------
(* Loader: the steps *)

LEMMA LDInitInv == LDInit => LDInv
<1> SUFFICES ASSUME LDInit PROVE LDInv
  OBVIOUS
<1>1. LDTypeInv
  BY DEF LDInit, LDTypeInv
<1>2. RequiredInv /\ StuckInv /\ EndInv
  BY DEF LDInit, RequiredInv, StuckInv, EndInv
<1>3. OrderInv
  BY DEF LDInit, OrderInv
<1> QED
  BY <1>1, <1>2, <1>3 DEF LDInv

LEMMA ActivateStep == LDInv /\ Activate => LDInv'
<1> SUFFICES ASSUME LDInv, Activate PROVE LDInv'
  OBVIOUS
<1> USE DEF LDInv
<1>1. LDTypeInv'
  BY DEF Activate, LDTypeInv, Reached
<1>2. order' = <<>> /\ meta' = meta /\ loaded' = loaded
  BY DEF Activate, OrderInv
<1>3. Missing' = Missing /\ Reached' = Reached /\ \A m : Exists(m)' = Exists(m)
  BY <1>2 DEF Missing, Reached, Complete, Exists, Successors
<1>4. RequiredInv' /\ StuckInv' /\ EndInv'
  BY <1>3 DEF Activate, RequiredInv, StuckInv, EndInv
<1>5. OrderInv'
  BY <1>2 DEF OrderInv
<1> QED
  BY <1>1, <1>4, <1>5

LEMMA OrderStep == LDInv /\ Step => LDInv'
<1> SUFFICES ASSUME LDInv, Step PROVE LDInv'
  OBVIOUS
<1> USE DEF LDInv
<1> DEFINE ready == Ready(phase = "optional_too")
           m == CHOOSE x \in ready : \A k \in ready : x <= k
           n == Len(order)
<1>1. /\ phase \in {"optional_too", "all"} /\ ready # {} /\ order' = Append(order, m)
      /\ UNCHANGED <<meta, phase, required, loaded>>
  BY DEF Step
<1>2. ready \subseteq Modules /\ ready \subseteq Nat
  BY ModulesAssumption DEF Ready, LDTypeInv
<1>3. m \in ready
  <2>1. \E x \in ready : \A k \in ready : x <= k
    BY <1>1, <1>2, LeastExists
  <2> QED
    BY <2>1
<1> HIDE DEF m
<1>4. /\ m \in required /\ m \in Modules /\ m \notin ToSet(order)
      /\ \A d \in Modules : Depends(m, d, "required") => d \in ToSet(order)
  BY <1>2, <1>3 DEF Ready, Hinders
<1>5. order \in Seq(Modules) /\ n \in Nat
  BY DEF LDTypeInv
<1>6. /\ order' \in Seq(Modules) /\ Len(order') = n + 1 /\ order'[n + 1] = m
      /\ \A i \in 1..n : order'[i] = order[i]
  BY <1>1, <1>4, <1>5
<1>7. \A i \in 1..(n + 1) : i \in 1..n \/ i = n + 1
  BY <1>5
<1>8. \A y \in ToSet(order) : \E i \in 1..n : order[i] = y
  BY DEF ToSet
<1>9. \A i \in 1..n : order[i] \in ToSet(order)
  BY DEF ToSet
<1>10. LDTypeInv'
  BY <1>1, <1>6 DEF LDTypeInv
<1>11. /\ Missing' = Missing /\ Reached' = Reached /\ \A x : Exists(x)' = Exists(x)
       /\ \A x, d, k : Depends(x, d, k)' = Depends(x, d, k)
  BY <1>1 DEF Missing, Reached, Complete, Exists, Successors, Depends
<1>12. RequiredInv'
  BY <1>1, <1>11 DEF RequiredInv
<1>13. OrderInv'
  <2>1. \A i \in 1..(n + 1) : order'[i] \in required
    BY <1>4, <1>6, <1>7 DEF OrderInv
  <2>2. ASSUME NEW i \in 1..(n + 1), NEW j \in 1..(n + 1), order'[i] = order'[j] PROVE i = j
    BY <1>4, <1>6, <1>7, <1>9, <2>2 DEF OrderInv
  <2>3. ASSUME NEW i \in 1..(n + 1), NEW d \in Modules, Depends(order'[i], d, "required")
        PROVE  \E j \in 1..(n + 1) : j < i /\ order'[j] = d
    <3>1. CASE i \in 1..n
      <4>1. PICK j \in 1..n : j < i /\ order[j] = d
        BY <1>6, <2>3, <3>1 DEF OrderInv
      <4> QED
        BY <1>5, <1>6, <4>1
    <3>2. CASE i = n + 1
      <4>1. d \in ToSet(order)
        BY <1>4, <1>6, <2>3, <3>2
      <4>2. PICK j \in 1..n : order[j] = d
        BY <1>8, <4>1
      <4> QED
        BY <1>5, <1>6, <3>2, <4>2
    <3> QED
      BY <1>7, <3>1, <3>2
  <2> HIDE DEF n
  <2> QED
    BY <1>1, <1>6, <1>11, <2>1, <2>2, <2>3 DEF OrderInv
<1>14. StuckInv'
  <2>1. ASSUME phase = "all" PROVE FALSE
    <3>1. m \in Ready(TRUE)
      BY <1>3, <2>1 DEF Ready, Hinders
    <3> QED
      BY <2>1, <3>1 DEF StuckInv
  <2> QED
    BY <1>1, <2>1 DEF StuckInv
<1>15. EndInv'
  BY <1>1 DEF EndInv
<1> QED
  BY <1>10, <1>12, <1>13, <1>14, <1>15

\* Steps that leave modules and their order as they are.
LEMMA SameOrder ==
  ASSUME UNCHANGED <<meta, required, order>>
  PROVE  /\ Missing' = Missing /\ Reached' = Reached /\ \A x : Exists(x)' = Exists(x)
         /\ \A x, d, k : Depends(x, d, k)' = Depends(x, d, k)
         /\ Ready(TRUE)' = Ready(TRUE) /\ Ready(FALSE)' = Ready(FALSE)
         /\ \A o : RightOrder(o)' = RightOrder(o)
BY DEF Missing, Reached, Complete, Exists, Successors, Depends, Ready, Hinders, RightOrder

LEMMA EndStepsStep == LDInv /\ EndSteps => LDInv'
<1> SUFFICES ASSUME LDInv, EndSteps PROVE LDInv'
  OBVIOUS
<1> USE DEF LDInv
<1>1. UNCHANGED <<meta, required, order, loaded>>
  BY DEF EndSteps, resolveVars
<1>2. phase' \in {"all", "load", "failed"} /\ phase \in {"optional_too", "all"}
  BY DEF EndSteps
<1>3. LDTypeInv'
  BY <1>1, <1>2 DEF LDTypeInv
<1>4. RequiredInv'
  BY <1>1, <1>2, SameOrder DEF RequiredInv
<1>5. OrderInv'
  <2>1. \A x, d, k : Depends(x, d, k)' = Depends(x, d, k)
    BY <1>1, SameOrder
  <2> QED
    BY <1>1, <1>2, <2>1 DEF OrderInv
<1>6. StuckInv'
  <2>1. phase' = "all" => phase = "optional_too" /\ Ready(TRUE) = {}
    BY DEF EndSteps
  <2> QED
    BY <1>1, <2>1, SameOrder DEF StuckInv
<1>7. ASSUME phase' = "failed", NEW o \in SetToSeqs(required), RightOrder(o) PROVE FALSE
  <2>1. phase = "all" /\ Ready(TRUE) = {} /\ ~(required \subseteq ToSet(order))
    BY <1>7 DEF EndSteps, StuckInv
  <2>2. PICK x \in required : x \notin ToSet(order)
    BY <2>1
  <2>3. ASSUME NEW m \in required \ ToSet(order)
        PROVE  \E d \in required \ ToSet(order) : Depends(m, d, "required")
    <3>1. PICK d \in Modules : d \notin ToSet(order) /\ Depends(m, d, "required")
      BY <2>1 DEF Ready, Hinders
    <3>2. d \in required
      BY <2>1, <3>1, RequiredIsClosed DEF RequiredInv
    <3> QED
      BY <3>1, <3>2
  <2>4. required \subseteq Modules
    BY DEF LDTypeInv
  <2> QED
    BY <1>7, <2>2, <2>3, <2>4, NoRightOrder
<1>8. EndInv'
  <2>1. phase' = "load" => required \subseteq ToSet(order)
    BY DEF EndSteps
  <2>2. required' = required /\ order' = order
    BY <1>1
  <2>3. \A o : RightOrder(o)' = RightOrder(o)
    BY <1>1, SameOrder
  <2>4. phase' = "failed" => ~\E o \in SetToSeqs(required) : RightOrder(o)
    BY <1>7
  <2> QED
    BY <1>2, <2>1, <2>2, <2>3, <2>4 DEF EndInv
<1> QED
  BY <1>3, <1>4, <1>5, <1>6, <1>8

\* Loading, and modules that are modified, leave the order alone.
LEMMA LoadingStep ==
  ASSUME LDInv, UNCHANGED <<meta, required, order>>, loaded' \in Nat,
         \/ UNCHANGED <<phase, loaded>>
         \/ phase = "load" /\ phase' \in {"load", "active"}
         \/ phase = "load" /\ phase' = "failed" /\ loaded' < Len(order)
  PROVE  LDInv'
<1> USE DEF LDInv
<1>1. phase' \in {"load", "active", "failed"} \/ phase' = phase
  OBVIOUS
<1>2. LDTypeInv'
  BY <1>1 DEF LDTypeInv
<1>3. RequiredInv'
  BY SameOrder DEF RequiredInv
<1>4. OrderInv'
  <2>1. \A x, d, k : Depends(x, d, k)' = Depends(x, d, k)
    BY SameOrder
  <2> QED
    BY <1>1, <2>1 DEF OrderInv
<1>5. StuckInv'
  BY <1>1, SameOrder DEF StuckInv
<1>6. EndInv'
  <2>1. Missing' = Missing /\ \A o : RightOrder(o)' = RightOrder(o)
    BY SameOrder
  <2>2. UNCHANGED <<required, order>>
    OBVIOUS
  <2>3. CASE UNCHANGED <<phase, loaded>>
    BY <2>1, <2>2, <2>3 DEF EndInv
  <2>4. CASE phase = "load" /\ phase' \in {"load", "active"}
    BY <2>2, <2>4 DEF EndInv
  <2>5. CASE phase = "load" /\ phase' = "failed" /\ loaded' < Len(order)
    BY <2>2, <2>5 DEF EndInv
  <2> QED
    BY <2>3, <2>4, <2>5
<1> QED
  BY <1>2, <1>3, <1>4, <1>5, <1>6

LEMMA LDInvariance == LDSpec => []LDInv
<1>1. LDInv /\ [LDNext]_ldVars => LDInv'
  <2> SUFFICES ASSUME LDInv, [LDNext]_ldVars PROVE LDInv'
    OBVIOUS
  <2>1. loaded \in Nat
    BY DEF LDInv, LDTypeInv
  <2>2. CASE Activate
    BY <2>2, ActivateStep
  <2>3. CASE Step
    BY <2>3, OrderStep
  <2>4. CASE EndSteps
    BY <2>4, EndStepsStep
  <2>5. CASE LoadNext
    BY <2>1, <2>5, LoadingStep DEF LoadNext, resolveVars
  <2>6. CASE EndLoading
    BY <2>1, <2>6, LoadingStep DEF EndLoading, resolveVars
  <2>7. ASSUME NEW m \in Modules, OnModuleModified(m) PROVE LDInv'
    BY <2>1, <2>7, LoadingStep DEF OnModuleModified, resolveVars
  <2>8. CASE SecondPasses
    BY <2>1, <2>8, LoadingStep DEF SecondPasses, resolveVars
  <2>9. CASE LoaderTick
    BY <2>1, <2>9, LoadingStep DEF LoaderTick, resolveVars
  <2>10. CASE UNCHANGED ldVars
    BY <2>1, <2>10, LoadingStep DEF ldVars, resolveVars
  <2> QED
    BY <2>2, <2>3, <2>4, <2>5, <2>6, <2>7, <2>8, <2>9, <2>10 DEF LDNext
<1> QED
  BY <1>1, LDInitInv, PTL DEF LDSpec

\* load_modules() loads everything that is wanted or required, each module once
\* and after what it requires, and gives up only where there is no such order,
\* or a module is missing or cannot be built: for any modules with any
\* dependencies.
THEOREM LoadOrder == LDSpec => []LoadsInOrder
<1>1. LDInv => LoadsInOrder
  <2> SUFFICES ASSUME LDInv PROVE LoadsInOrder
    OBVIOUS
  <2> USE DEF LDInv
  <2>1. phase = "failed" => \/ Missing # {} \/ loaded < Len(order)
                            \/ ~\E o \in SetToSeqs(required) : RightOrder(o)
    BY DEF EndInv
  <2>2. ASSUME phase \in {"load", "active"}
        PROVE  /\ RightOrder(order) /\ IsInjective(order)
               /\ ToSet(order) = {m \in Reached : Exists(m)}
    <3>1. order \in Seq(Modules) /\ DOMAIN order = 1..Len(order)
      BY DEF LDTypeInv
    <3>2. IsInjective(order)
      BY <3>1 DEF IsInjective, OrderInv
    <3>3. ASSUME NEW i \in 1..Len(order), NEW j \in 1..Len(order), i <= j,
                 Depends(order[i], order[j], "required")
          PROVE  FALSE
      <4>1. order[j] \in Modules /\ Len(order) \in Nat
        BY <3>1
      <4>2. PICK k \in 1..Len(order) : k < i /\ order[k] = order[j]
        BY <3>3, <4>1 DEF OrderInv
      <4>3. k = j
        BY <4>2 DEF OrderInv
      <4> QED
        BY <3>3, <4>1, <4>2, <4>3
    <3>4. RightOrder(order)
      BY <3>3 DEF RightOrder
    <3>5. ToSet(order) = required
      BY <2>2, <3>1 DEF ToSet, OrderInv, EndInv
    <3> QED
      BY <2>2, <3>2, <3>4, <3>5 DEF RequiredInv
  <2> QED
    BY <2>1, <2>2 DEF LoadsInOrder
<1> QED
  BY <1>1, LDInvariance, PTL

-----------------------------------------------------------------------------
(* ClientVoxels: items and their order                                     *)

Whats == {"initial", "modified", "clipped", "lod1", "lod2", "lod3", "lod4",
          "boxes", "outside", "inside"}

\* The floats of an item: never 0 / 0.
Floats == {x \in Nat \X Nat : x[1] + x[2] > 0}

Items == [value : Values, what : Whats, d : Nat, f : Nat \X Nat, fw : Floats]

LEMMA DistanceIsNatural ==
  ASSUME NEW value \in Values, NEW p \in Int
  PROVE  Distance(value, p) \in Nat
<1>1. PlaceOf[value[1]] \in Int
  BY PlacesAssumption DEF Values
<1> QED
  BY <1>1 DEF Distance, Abs

\* Triggers are at a distance above 0, and weights are positive.
LEMMA TriggersArePositive ==
  ASSUME NEW what \in Whats
  PROVE  /\ Near(what) # Never => Near(what) \in (Nat \ {0}) \X (Nat \ {0})
         /\ Far(what) # Never => Far(what) \in (Nat \ {0}) \X (Nat \ {0})
         /\ Near(what) = Never => Far(what) # Never
<1>1. (FarClip * 12) \div 10 \in Nat \ {0} /\ (FarClip * 14) \div 10 \in Nat \ {0}
  BY PlacesAssumption
<1>2. \A a, b : <<a, b>> # <<>>
  OBVIOUS
<1>3. CASE what \in {"initial", "modified", "clipped"}
  BY <1>1, <1>2, <1>3 DEF Near, Far, Never
<1>4. CASE what \in {"lod1", "lod2", "lod3", "lod4"}
  BY <1>1, <1>2, <1>4 DEF Near, Far, Never
<1>5. CASE what \in {"boxes", "outside", "inside"}
  BY <1>1, <1>2, <1>5 DEF Near, Far, Never
<1> QED
  BY <1>3, <1>4, <1>5 DEF Whats

LEMMA EvaluateIsItem ==
  ASSUME NEW value \in Values, NEW what \in Whats, NEW p \in Int
  PROVE  /\ Evaluate(value, what, p) \in Items
         /\ Evaluate(value, what, p).value = value
         /\ Evaluate(value, what, p).what = what
         /\ Evaluate(value, what, p).d = Distance(value, p)
<1> DEFINE d == Distance(value, p)
           near == Near(what)
           far == Far(what)
           nearItem == [value |-> value, what |-> what, d |-> d,
                        f |-> <<d, near[1]>>, fw |-> <<d * 20, near[1] * near[2]>>]
           farItem == [value |-> value, what |-> what, d |-> d,
                       f |-> <<far[1], d>>, fw |-> <<far[1] * 20, d * far[2]>>]
<1>1. d \in Nat
  BY DistanceIsNatural
<1>2. ASSUME near # Never PROVE nearItem \in Items
  <2>1. near[1] \in Nat \ {0} /\ near[2] \in Nat \ {0}
    BY <1>2, TriggersArePositive
  <2>2. near[1] * near[2] \in Nat \ {0} /\ d * 20 \in Nat
    BY <1>1, <2>1
  <2> HIDE DEF d, near
  <2>3. <<d * 20, near[1] * near[2]>> \in Floats
    BY <2>2 DEF Floats
  <2> QED
    BY <1>1, <2>1, <2>3 DEF Items
<1>3. ASSUME far # Never PROVE farItem \in Items
  <2>1. far[1] \in Nat \ {0} /\ far[2] \in Nat \ {0}
    BY <1>3, TriggersArePositive
  <2>2. d * far[2] \in Nat /\ far[1] * 20 \in Nat \ {0}
    BY <1>1, <2>1
  <2> HIDE DEF d, far
  <2>3. <<far[1] * 20, d * far[2]>> \in Floats
    BY <2>2 DEF Floats
  <2> QED
    BY <1>1, <2>1, <2>3 DEF Items
<1>4. near = Never => far # Never
  BY TriggersArePositive
<1>5. Evaluate(value, what, p) =
        IF near = Never THEN farItem
        ELSE IF far # Never /\ Less(farItem.fw, nearItem.fw) /\ Less(farItem.f, nearItem.f)
          THEN farItem ELSE nearItem
  BY DEF Evaluate
<1>6. Evaluate(value, what, p) \in {nearItem, farItem} /\ Evaluate(value, what, p) \in Items
  BY <1>2, <1>3, <1>4, <1>5
<1> HIDE DEF d, near, far
<1> QED
  BY <1>6 DEF d

\* Fractions a1 / a2 <= b1 / b2 <= c1 / c2; a denominator may be 0.
LEMMA LessIsTransitive ==
  ASSUME NEW a \in Floats, NEW b \in Floats, NEW c \in Floats, ~Less(b, a), ~Less(c, b)
  PROVE  ~Less(c, a)
<1>1. /\ a[1] \in Nat /\ a[2] \in Nat /\ b[1] \in Nat /\ b[2] \in Nat
      /\ c[1] \in Nat /\ c[2] \in Nat /\ b[1] + b[2] > 0 /\ c[1] + c[2] > 0
  BY DEF Floats
<1>2. a[1] * b[2] <= b[1] * a[2] /\ b[1] * c[2] <= c[1] * b[2]
  <2>1. \A x, y \in Nat : ~(x < y) => y <= x
    OBVIOUS
  <2>2. b[1] * a[2] \in Nat /\ a[1] * b[2] \in Nat /\ c[1] * b[2] \in Nat /\ b[1] * c[2] \in Nat
    BY <1>1
  <2> QED
    BY <2>1, <2>2 DEF Less
<1> DEFINE x == a[1] * c[2]
           y == c[1] * a[2]
<1>3. x \in Nat /\ y \in Nat
  BY <1>1
<1>4. x <= y
  <2>1. CASE b[2] = 0
    <3>1. b[1] >= 1 /\ b[1] * c[2] <= 0
      BY <1>1, <1>2, <2>1
    <3>2. c[2] = 0
      <4>1. \A m, n \in Nat : m >= 1 /\ m * n <= 0 => n = 0
        OBVIOUS
      <4> QED
        BY <1>1, <3>1, <4>1
    <3>3. x = 0
      BY <1>1, <3>2
    <3> QED
      BY <1>3, <3>3
  <2>2. CASE b[2] # 0
    <3>1. \A m, n, k \in Nat : m <= n => m * k <= n * k
      OBVIOUS
    <3>0. a[1] * b[2] \in Nat /\ b[1] * a[2] \in Nat /\ b[1] * c[2] \in Nat /\ c[1] * b[2] \in Nat
      BY <1>1
    <3>2. (a[1] * b[2]) * c[2] <= (b[1] * a[2]) * c[2]
      BY <1>1, <1>2, <3>0, <3>1
    <3>3. (b[1] * c[2]) * a[2] <= (c[1] * b[2]) * a[2]
      BY <1>1, <1>2, <3>0, <3>1
    <3>4. \A m, n, k \in Nat : (m * n) * k = (m * k) * n
      OBVIOUS
    <3>5. (a[1] * b[2]) * c[2] = x * b[2] /\ (b[1] * a[2]) * c[2] = (b[1] * c[2]) * a[2]
          /\ (c[1] * b[2]) * a[2] = y * b[2]
      BY <1>1, <3>4
    <3>6. x * b[2] <= y * b[2]
      <4>1. \A m, n, k \in Nat : m <= n /\ n <= k => m <= k
        OBVIOUS
      <4>2. x * b[2] \in Nat /\ y * b[2] \in Nat /\ (b[1] * c[2]) * a[2] \in Nat
        BY <1>1, <1>3
      <4> QED
        BY <3>2, <3>3, <3>5, <4>1, <4>2
    <3>7. \A m, n, k \in Nat : k # 0 /\ m * k <= n * k => m <= n
      OBVIOUS
    <3> HIDE DEF x, y
    <3> QED
      BY <1>1, <1>3, <2>2, <3>6, <3>7
  <2> QED
    BY <2>1, <2>2
<1> QED
  BY <1>3, <1>4 DEF Less

LEMMA LessIsAsymmetric ==
  ASSUME NEW a \in Floats, NEW b \in Floats, Less(a, b)
  PROVE  ~Less(b, a)
<1>1. a[1] * b[2] \in Nat /\ b[1] * a[2] \in Nat
  BY DEF Floats
<1> QED
  BY <1>1 DEF Less

\* The order of items: what is not greater than what is not greater is not.
LEMMA GreaterIsTransitive ==
  ASSUME NEW x \in Items, NEW y \in Items, NEW z \in Items, ~Greater(x, y), ~Greater(y, z)
  PROVE  ~Greater(x, z)
<1>1. x.fw \in Floats /\ y.fw \in Floats /\ z.fw \in Floats
  BY DEF Items
<1>2. Due(x) \in BOOLEAN /\ Due(y) \in BOOLEAN /\ Due(z) \in BOOLEAN
  BY DEF Due
<1>3. CASE Due(x) = Due(y) /\ Due(y) = Due(z)
  BY <1>1, <1>3, LessIsTransitive DEF Greater
<1>4. CASE ~(Due(x) = Due(y) /\ Due(y) = Due(z))
  BY <1>2, <1>4 DEF Greater
<1> QED
  BY <1>3, <1>4

LEMMA GreaterIsAsymmetric ==
  ASSUME NEW x \in Items, NEW y \in Items, Greater(x, y)
  PROVE  ~Greater(y, x)
<1>1. x.fw \in Floats /\ y.fw \in Floats
  BY DEF Items
<1>2. Due(x) \in BOOLEAN /\ Due(y) \in BOOLEAN
  BY DEF Due
<1>3. CASE Due(x) = Due(y)
  BY <1>1, <1>3, LessIsAsymmetric DEF Greater
<1>4. CASE Due(x) # Due(y)
  BY <1>2, <1>4 DEF Greater
<1> QED
  BY <1>3, <1>4

\* ValueSet::remove() takes out the value that it is given, if it is there.
LEMMA RemovesTheValue ==
  ASSUME NEW set \in SUBSET Values, NEW value \in set
  PROVE  RemoveValue(set, value) = set \ {value}
<1>1. \A v \in Values : v[1] \in Int /\ v[2] \in {"geometry", "physics"} /\ v = <<v[1], v[2]>>
  <2>1. \A n \in VoxelNodes : n \in Int
    BY PlacesAssumption
  <2> QED
    BY <2>1 DEF Values, Types
<1>2. ~EntryGreater(value, value)
  BY <1>1 DEF EntryGreater
<1>3. \A v \in set : v # value => EntryGreater(v, value) \/ EntryGreater(value, v)
  BY <1>1 DEF EntryGreater
<1>4. \A v \in set : v # value => v \in RemoveValue(set, value)
  BY <1>2, <1>3 DEF RemoveValue
<1>5. value \notin RemoveValue(set, value)
  BY <1>2 DEF RemoveValue
<1> QED
  BY <1>4, <1>5 DEF RemoveValue

-----------------------------------------------------------------------------
(* ClientVoxels: sequences                                                 *)

LEMMA MinIsLeast ==
  ASSUME NEW Q, Q \subseteq Nat, Q # {}
  PROVE  Min(Q) \in Q /\ \A j \in Q : Min(Q) <= j
<1>1. \E i \in Q : \A j \in Q : i <= j
  BY LeastExists
<1> QED
  BY <1>1 DEF Min

LEMMA RemovedAt ==
  ASSUME NEW S, NEW s \in Seq(S), NEW k \in 1..Len(s)
  PROVE  /\ RemoveAt(s, k) \in Seq(S) /\ Len(RemoveAt(s, k)) = Len(s) - 1
         /\ \A i \in 1..(Len(s) - 1) :
              RemoveAt(s, k)[i] = IF i < k THEN s[i] ELSE s[i + 1]
<1> DEFINE n == Len(s)
           a == SubSeq(s, 1, k - 1)
           b == SubSeq(s, k + 1, n)
<1>1. n \in Nat /\ k \in Int /\ 1 <= k /\ k <= n /\ \A i \in 1..n : s[i] \in S
  OBVIOUS
<1>2. a \in Seq(S) /\ Len(a) = k - 1 /\ \A i \in 1..(k - 1) : a[i] = s[i]
  BY <1>1, SubSeqProperties
<1>3. b \in Seq(S) /\ Len(b) = n - k /\ \A i \in 1..(n - k) : b[i] = s[k + i]
  <2>1. b \in Seq(S) /\ Len(b) = IF k + 1 <= n THEN n - (k + 1) + 1 ELSE 0
    BY <1>1, SubSeqProperties
  <2>2. \A i \in 1..(n - (k + 1) + 1) : b[i] = s[(k + 1) + i - 1]
    BY <1>1, SubSeqProperties
  <2>3. \A i \in 1..(n - k) : b[i] = s[k + i]
    <3> SUFFICES ASSUME NEW i \in 1..(n - k) PROVE b[i] = s[k + i]
      OBVIOUS
    <3>1. i \in 1..(n - (k + 1) + 1) /\ (k + 1) + i - 1 = k + i
      BY <1>1
    <3> QED
      BY <2>2, <3>1
  <2> HIDE DEF b, n
  <2> QED
    BY <1>1, <2>1, <2>3
<1> HIDE DEF a, b, n
<1>4. a \o b \in Seq(S) /\ Len(a \o b) = Len(a) + Len(b)
      /\ \A i \in 1..(Len(a) + Len(b)) :
           (a \o b)[i] = IF i <= Len(a) THEN a[i] ELSE b[i - Len(a)]
  BY <1>2, <1>3, ConcatProperties
<1>5. Len(a) + Len(b) = n - 1
  BY <1>1, <1>2, <1>3
<1>6. ASSUME NEW i \in 1..(n - 1) PROVE (a \o b)[i] = IF i < k THEN s[i] ELSE s[i + 1]
  <2>1. CASE i < k
    BY <1>1, <1>2, <1>4, <1>5, <2>1
  <2>2. CASE ~(i < k)
    <3>1. i - (k - 1) \in 1..(n - k) /\ k + (i - (k - 1)) = i + 1
      BY <1>1, <2>2
    <3>2. (a \o b)[i] = b[i - (k - 1)]
      BY <1>1, <1>2, <1>4, <1>5, <2>2
    <3> QED
      BY <1>3, <2>2, <3>1, <3>2
  <2> QED
    BY <2>1, <2>2
<1>7. RemoveAt(s, k) = a \o b
  BY DEF RemoveAt, a, b, n
<1> QED
  BY <1>4, <1>5, <1>6, <1>7 DEF n

\* t is s with e at k.
Inserted(t, s, k, e) ==
  /\ Len(t) = Len(s) + 1
  /\ \A i \in 1..(k - 1) : t[i] = s[i]
  /\ t[k] = e
  /\ \A i \in (k + 1)..(Len(s) + 1) : t[i] = s[i - 1]

LEMMA InsertedAt ==
  ASSUME NEW S, NEW s \in Seq(S), NEW k \in 1..(Len(s) + 1), NEW e \in S
  PROVE  InsertAt(s, k, e) \in Seq(S) /\ Inserted(InsertAt(s, k, e), s, k, e)
<1> DEFINE n == Len(s)
           a == SubSeq(s, 1, k - 1)
           b == SubSeq(s, k, n)
           c == a \o <<e>>
<1>1. n \in Nat /\ k \in Int /\ 1 <= k /\ k <= n + 1 /\ \A i \in 1..n : s[i] \in S
  OBVIOUS
<1>2. a \in Seq(S) /\ Len(a) = k - 1 /\ \A i \in 1..(k - 1) : a[i] = s[i]
  BY <1>1, SubSeqProperties
<1>3. b \in Seq(S) /\ Len(b) = n - k + 1 /\ \A i \in 1..(n - k + 1) : b[i] = s[k + i - 1]
  <2>1. b \in Seq(S) /\ Len(b) = IF k <= n THEN n - k + 1 ELSE 0
    BY <1>1, SubSeqProperties
  <2>2. \A i \in 1..(n - k + 1) : b[i] = s[k + i - 1]
    BY <1>1, SubSeqProperties
  <2> HIDE DEF b, n
  <2> QED
    BY <1>1, <2>1, <2>2
<1> HIDE DEF a, b, n
<1>4. c \in Seq(S) /\ Len(c) = k /\ c[k] = e /\ \A i \in 1..(k - 1) : c[i] = s[i]
  <2>1. <<e>> \in Seq(S) /\ Len(<<e>>) = 1 /\ <<e>>[1] = e
    OBVIOUS
  <2>2. c \in Seq(S) /\ Len(c) = Len(a) + 1
        /\ \A i \in 1..(Len(a) + 1) : c[i] = IF i <= Len(a) THEN a[i] ELSE <<e>>[i - Len(a)]
    BY <1>2, <2>1, ConcatProperties
  <2> HIDE DEF c
  <2>3. k \in 1..(Len(a) + 1) /\ ~(k <= Len(a)) /\ k - Len(a) = 1
    BY <1>1, <1>2
  <2>4. c[k] = e
    BY <2>1, <2>2, <2>3
  <2> QED
    BY <1>1, <1>2, <2>2, <2>4
<1> HIDE DEF c
<1>5. c \o b \in Seq(S) /\ Len(c \o b) = Len(c) + Len(b)
      /\ \A i \in 1..(Len(c) + Len(b)) :
           (c \o b)[i] = IF i <= Len(c) THEN c[i] ELSE b[i - Len(c)]
  BY <1>3, <1>4, ConcatProperties
<1>6. Len(c) + Len(b) = n + 1
  BY <1>1, <1>3, <1>4
<1>7. \A i \in 1..k : (c \o b)[i] = c[i]
  BY <1>1, <1>4, <1>5, <1>6
<1>8. \A i \in 1..(k - 1) : (c \o b)[i] = s[i]
  <2>1. \A i \in 1..(k - 1) : i \in 1..k
    BY <1>1
  <2> QED
    BY <1>4, <1>7, <2>1
<1>9. (c \o b)[k] = e
  <2>1. k \in 1..k
    BY <1>1
  <2> QED
    BY <1>4, <1>7, <2>1
<1>10. ASSUME NEW i \in (k + 1)..(n + 1) PROVE (c \o b)[i] = s[i - 1]
  <2>1. i - k \in 1..(n - k + 1) /\ k + (i - k) - 1 = i - 1
    BY <1>1
  <2>2. i \in 1..(n + 1) /\ ~(i <= k)
    BY <1>1
  <2>3. (c \o b)[i] = b[i - k]
    BY <1>4, <1>5, <1>6, <2>2
  <2> QED
    BY <1>3, <2>1, <2>3
<1>11. InsertAt(s, k, e) = c \o b
  BY DEF InsertAt, a, b, c, n
<1> QED
  BY <1>5, <1>6, <1>8, <1>9, <1>10, <1>11 DEF Inserted, n

-----------------------------------------------------------------------------
(* ClientVoxels: the queue and its set of values                           *)

ValuesOf(s) == {s[i].value : i \in 1..Len(s)}

Distinct(s) == \A i, j \in 1..Len(s) : s[i].value = s[j].value => i = j

Descending(s) == \A i, j \in 1..Len(s) : i < j => ~Greater(s[j], s[i])

Indexed(q) ==
  /\ q \in [queue : Seq(Items), set : SUBSET Values, displaced : SUBSET Values]
  /\ q.set = ValuesOf(q.queue)
  /\ Distinct(q.queue) /\ Descending(q.queue)

LEMMA RemoveKeepsOrder ==
  ASSUME NEW s \in Seq(Items), Distinct(s), Descending(s), NEW k \in 1..Len(s)
  PROVE  /\ RemoveAt(s, k) \in Seq(Items)
         /\ Distinct(RemoveAt(s, k)) /\ Descending(RemoveAt(s, k))
         /\ ValuesOf(RemoveAt(s, k)) = ValuesOf(s) \ {s[k].value}
<1> DEFINE t == RemoveAt(s, k)
           n == Len(s)
           at(i) == IF i < k THEN i ELSE i + 1
<1>1. n \in Nat /\ k \in 1..n
  OBVIOUS
<1>2. t \in Seq(Items) /\ Len(t) = n - 1 /\ \A i \in 1..(n - 1) : t[i] = s[at(i)]
  BY RemovedAt
<1>3. \A i \in 1..(n - 1) : at(i) \in 1..n /\ at(i) # k
  BY <1>1
<1>4. \A i, j \in 1..(n - 1) : (i < j => at(i) < at(j)) /\ (at(i) = at(j) => i = j)
  BY <1>1
<1>5. \A i \in 1..n : i # k => \E j \in 1..(n - 1) : at(j) = i
  <2> SUFFICES ASSUME NEW i \in 1..n, i # k PROVE \E j \in 1..(n - 1) : at(j) = i
    OBVIOUS
  <2>1. CASE i < k
    <3>1. i \in 1..(n - 1) /\ at(i) = i
      BY <1>1, <2>1
    <3> QED
      BY <3>1
  <2>2. CASE k < i
    <3>1. i - 1 \in 1..(n - 1) /\ at(i - 1) = i
      BY <1>1, <2>2
    <3> QED
      BY <3>1
  <2> QED
    BY <1>1, <2>1, <2>2
<1> HIDE DEF t, n, at
<1>6. Distinct(t) /\ Descending(t)
  <2> SUFFICES ASSUME NEW i \in 1..(n - 1), NEW j \in 1..(n - 1)
               PROVE  /\ t[i].value = t[j].value => i = j
                      /\ i < j => ~Greater(t[j], t[i])
    BY <1>2 DEF Distinct, Descending
  <2>1. t[i] = s[at(i)] /\ t[j] = s[at(j)] /\ at(i) \in 1..n /\ at(j) \in 1..n
    BY <1>2, <1>3
  <2>2. (i < j => at(i) < at(j)) /\ (at(i) = at(j) => i = j)
    BY <1>4
  <2> QED
    BY <2>1, <2>2 DEF Distinct, Descending, n
<1>7. ValuesOf(t) \subseteq ValuesOf(s) \ {s[k].value}
  <2> SUFFICES ASSUME NEW i \in 1..(n - 1) PROVE t[i].value \in ValuesOf(s) \ {s[k].value}
    BY <1>2 DEF ValuesOf
  <2>1. at(i) \in 1..n /\ t[i] = s[at(i)] /\ at(i) # k
    BY <1>2, <1>3
  <2> QED
    BY <1>1, <2>1 DEF ValuesOf, Distinct, n
<1>8. ValuesOf(s) \ {s[k].value} \subseteq ValuesOf(t)
  <2> SUFFICES ASSUME NEW i \in 1..n, s[i].value # s[k].value PROVE s[i].value \in ValuesOf(t)
    BY DEF ValuesOf, n
  <2>1. PICK j \in 1..(n - 1) : at(j) = i
    BY <1>5
  <2>2. t[j] = s[i]
    BY <1>2, <2>1
  <2> QED
    BY <1>2, <2>2 DEF ValuesOf
<1> QED
  BY <1>2, <1>6, <1>7, <1>8 DEF t

LEMMA FrontKeepsOrder ==
  ASSUME NEW s \in Seq(Items), Distinct(s), Descending(s), s # <<>>
  PROVE  /\ Front(s) \in Seq(Items) /\ Last(s) \in Items
         /\ Distinct(Front(s)) /\ Descending(Front(s))
         /\ ValuesOf(Front(s)) = ValuesOf(s) \ {Last(s).value}
         /\ Last(s).value \in ValuesOf(s)
<1> DEFINE n == Len(s)
<1>1. n \in Nat \ {0} /\ n \in 1..n /\ \A i \in 1..n : s[i] \in Items
  OBVIOUS
<1> HIDE DEF n
<1>2. Front(s) \in Seq(Items) /\ Len(Front(s)) = n - 1 /\ \A i \in 1..(n - 1) : Front(s)[i] = s[i]
  <2>1. \A i \in 1..(n - 1) : s[i] \in Items
    BY <1>1
  <2>2. (n - 1) - 1 + 1 = n - 1 /\ (1 <= n - 1 \/ n - 1 = 0) /\ n - 1 \in Int
    BY <1>1
  <2> QED
    BY <1>1, <2>1, <2>2, SubSeqProperties DEF Front, n
<1>3. \A i \in 1..(n - 1) : i \in 1..n /\ i # n
  BY <1>1
<1>4. \A i \in 1..n : i = n \/ i \in 1..(n - 1)
  BY <1>1
<1>5. Last(s) = s[n]
  BY DEF Last, n
<1>6. Distinct(Front(s)) /\ Descending(Front(s))
  <2> SUFFICES ASSUME NEW i \in 1..(n - 1), NEW j \in 1..(n - 1)
               PROVE  /\ Front(s)[i].value = Front(s)[j].value => i = j
                      /\ i < j => ~Greater(Front(s)[j], Front(s)[i])
    BY <1>2 DEF Distinct, Descending
  <2>1. Front(s)[i] = s[i] /\ Front(s)[j] = s[j] /\ i \in 1..n /\ j \in 1..n
    BY <1>2, <1>3
  <2> QED
    BY <2>1 DEF Distinct, Descending, n
<1>7. \A i \in 1..(n - 1) : s[i].value # s[n].value
  BY <1>1, <1>3 DEF Distinct, n
<1>8. ValuesOf(Front(s)) = ValuesOf(s) \ {s[n].value}
  <2>1. ValuesOf(Front(s)) = {s[i].value : i \in 1..(n - 1)}
    BY <1>2 DEF ValuesOf
  <2>2. ValuesOf(s) = {s[i].value : i \in 1..n}
    BY DEF ValuesOf, n
  <2> QED
    BY <1>3, <1>4, <1>7, <2>1, <2>2
<1> QED
  BY <1>1, <1>2, <1>5, <1>6, <1>8 DEF ValuesOf, n

\* An item goes before the first that is not greater.
LEMMA InsertKeepsOrder ==
  ASSUME NEW s \in Seq(Items), Distinct(s), Descending(s),
         NEW item \in Items, item.value \notin ValuesOf(s),
         NEW k \in 1..(Len(s) + 1), \A i \in 1..(k - 1) : Greater(s[i], item),
         k <= Len(s) => ~Greater(s[k], item)
  PROVE  /\ InsertAt(s, k, item) \in Seq(Items)
         /\ Distinct(InsertAt(s, k, item)) /\ Descending(InsertAt(s, k, item))
         /\ ValuesOf(InsertAt(s, k, item)) = ValuesOf(s) \cup {item.value}
<1> DEFINE t == InsertAt(s, k, item)
           n == Len(s)
<1>1. n \in Nat /\ k \in 1..(n + 1) /\ \A i \in 1..n : s[i] \in Items
  OBVIOUS
<1> HIDE DEF t, n
<1>2. /\ t \in Seq(Items) /\ Len(t) = n + 1
      /\ \A i \in 1..(k - 1) : t[i] = s[i]
      /\ t[k] = item
      /\ \A i \in (k + 1)..(n + 1) : t[i] = s[i - 1]
  <2>1. InsertAt(s, k, item) \in Seq(Items) /\ Inserted(InsertAt(s, k, item), s, k, item)
    BY InsertedAt
  <2> QED
    BY <2>1 DEF Inserted, t, n
<1>3. /\ \A i \in 1..(n + 1) : i < k => i \in 1..n /\ i \in 1..(k - 1)
      /\ \A i \in 1..(n + 1) : k < i => /\ i - 1 \in 1..n /\ k <= i - 1 /\ k <= n
                                        /\ i \in (k + 1)..(n + 1)
      /\ \A i \in 1..(n + 1) : i < k \/ i = k \/ k < i
  BY <1>1
<1>4. \A i \in 1..n : s[i].value # item.value
  BY DEF ValuesOf, n
<1>5. Distinct(t)
  <2> SUFFICES ASSUME NEW i \in 1..(n + 1), NEW j \in 1..(n + 1), t[i].value = t[j].value
               PROVE  i = j
    BY <1>2 DEF Distinct
  <2>1. CASE i = k \/ j = k
    BY <1>1, <1>2, <1>3, <1>4, <2>1
  <2>2. CASE i # k /\ j # k
    <3> DEFINE a == IF i < k THEN i ELSE i - 1
               b == IF j < k THEN j ELSE j - 1
    <3>1. a \in 1..n /\ b \in 1..n /\ t[i] = s[a] /\ t[j] = s[b]
      BY <1>1, <1>2, <1>3, <2>2
    <3>2. a = b
      BY <3>1 DEF Distinct, n
    <3> QED
      BY <1>1, <1>3, <2>2, <3>2
  <2> QED
    BY <2>1, <2>2
<1>6. ASSUME NEW i \in 1..n, k <= i PROVE ~Greater(s[i], item)
  <2>1. k \in 1..n /\ ~Greater(s[k], item)
    BY <1>1, <1>6 DEF n
  <2>2. CASE i = k
    BY <2>1, <2>2
  <2>3. CASE k < i
    <3>1. ~Greater(s[i], s[k])
      BY <2>1, <2>3 DEF Descending, n
    <3> QED
      BY <1>1, <2>1, <3>1, GreaterIsTransitive
  <2> QED
    BY <1>1, <1>6, <2>2, <2>3
<1>7. ASSUME NEW i \in 1..(k - 1) PROVE ~Greater(item, s[i])
  <2>1. i \in 1..n /\ Greater(s[i], item)
    BY <1>1
  <2> QED
    BY <1>1, <2>1, GreaterIsAsymmetric
<1>8. Descending(t)
  <2> SUFFICES ASSUME NEW i \in 1..(n + 1), NEW j \in 1..(n + 1), i < j
               PROVE  ~Greater(t[j], t[i])
    BY <1>2 DEF Descending
  <2>1. CASE i = k
    <3>1. t[i] = item /\ t[j] = s[j - 1] /\ j - 1 \in 1..n /\ k <= j - 1
      BY <1>1, <1>2, <1>3, <2>1
    <3> QED
      BY <1>6, <3>1
  <2>2. CASE j = k
    <3>1. t[j] = item /\ t[i] = s[i] /\ i \in 1..(k - 1)
      BY <1>1, <1>2, <1>3, <2>2
    <3> QED
      BY <1>7, <3>1
  <2>3. CASE i # k /\ j # k
    <3> DEFINE a == IF i < k THEN i ELSE i - 1
               b == IF j < k THEN j ELSE j - 1
    <3>1. a \in 1..n /\ b \in 1..n /\ t[i] = s[a] /\ t[j] = s[b]
      BY <1>1, <1>2, <1>3, <2>3
    <3>2. a < b
      BY <1>1, <1>3, <2>3
    <3> QED
      BY <3>1, <3>2 DEF Descending, n
  <2> QED
    BY <2>1, <2>2, <2>3
<1>9. ValuesOf(t) \subseteq ValuesOf(s) \cup {item.value}
  <2> SUFFICES ASSUME NEW i \in 1..(n + 1) PROVE t[i].value \in ValuesOf(s) \cup {item.value}
    BY <1>2 DEF ValuesOf
  <2>1. CASE i = k
    BY <1>1, <1>2, <2>1
  <2>2. CASE i # k
    <3> DEFINE a == IF i < k THEN i ELSE i - 1
    <3>1. a \in 1..n /\ t[i] = s[a]
      BY <1>1, <1>2, <1>3, <2>2
    <3> QED
      BY <3>1 DEF ValuesOf, n
  <2> QED
    BY <2>1, <2>2
<1>10. ValuesOf(s) \cup {item.value} \subseteq ValuesOf(t)
  <2>1. item.value \in ValuesOf(t)
    <3>1. k \in 1..(n + 1) /\ t[k] = item
      BY <1>1, <1>2
    <3> QED
      BY <1>2, <3>1 DEF ValuesOf
  <2>2. ASSUME NEW i \in 1..n PROVE s[i].value \in ValuesOf(t)
    <3> DEFINE a == IF i < k THEN i ELSE i + 1
    <3>1. a \in 1..(n + 1) /\ t[a] = s[i]
      <4>1. CASE i < k
        <5>1. i \in 1..(n + 1) /\ i \in 1..(k - 1)
          BY <1>1, <4>1
        <5> QED
          BY <1>2, <4>1, <5>1
      <4>2. CASE ~(i < k)
        <5>1. i + 1 \in 1..(n + 1) /\ i + 1 \in (k + 1)..(n + 1) /\ (i + 1) - 1 = i
          BY <1>1, <4>2
        <5> QED
          BY <1>2, <4>2, <5>1
      <4> QED
        BY <4>1, <4>2
    <3> QED
      BY <1>2, <3>1 DEF ValuesOf
  <2> QED
    BY <2>1, <2>2 DEF ValuesOf, n
<1> QED
  BY <1>2, <1>5, <1>8, <1>9, <1>10 DEF t

\* put_item() keeps the set of values and the order of the queue.
LEMMA PutKeepsIndex ==
  ASSUME NEW q, Indexed(q), NEW item \in Items
  PROVE  Indexed(PutItem(q, item))
<1> DEFINE value == item.value
           n == Len(q.queue)
           F == {i \in 1..n : q.queue[i].value = value}
           old == SelectInSeq(q.queue, LAMBDA x : x.value = item.value)
           rest == IF value \in q.set THEN RemoveAt(q.queue, old) ELSE q.queue
           set == IF value \in q.set THEN RemoveValue(q.set, value) ELSE q.set
           A == {i \in 1..Len(rest) : ~Greater(rest[i], item)}
           ahead == SelectInSeq(rest, LAMBDA x : ~Greater(x, item))
           place == IF ahead = 0 THEN Len(rest) + 1 ELSE ahead
           t == InsertAt(rest, place, item)
<1>1. /\ q.queue \in Seq(Items) /\ q.set \in SUBSET Values /\ q.displaced \in SUBSET Values
      /\ q.set = ValuesOf(q.queue) /\ Distinct(q.queue) /\ Descending(q.queue)
  BY DEF Indexed
<1>2. value \in Values /\ n \in Nat
  BY <1>1 DEF Items
<1>3. ASSUME value \in q.set PROVE old \in 1..n /\ q.queue[old].value = value
  <2>1. F # {} /\ F \subseteq Nat
    BY <1>1, <1>3 DEF ValuesOf
  <2>2. old = Min(F)
    BY <2>1 DEF SelectInSeq
  <2> HIDE DEF F, old
  <2>3. old \in F
    BY <2>1, <2>2, MinIsLeast
  <2> QED
    BY <2>3 DEF F
<1> HIDE DEF old
<1>4. /\ rest \in Seq(Items) /\ Distinct(rest) /\ Descending(rest)
      /\ ValuesOf(rest) = q.set \ {value}
  <2>1. CASE value \in q.set
    <3>1. old \in 1..Len(q.queue) /\ q.queue[old].value = value
      BY <1>3, <2>1
    <3>2. rest = RemoveAt(q.queue, old)
      BY <2>1
    <3> HIDE DEF rest, value
    <3> QED
      BY <1>1, <3>1, <3>2, RemoveKeepsOrder
  <2>2. CASE value \notin q.set
    BY <1>1, <2>2
  <2> QED
    BY <2>1, <2>2
<1>5. set = q.set \ {value} /\ set \cup {value} = q.set \cup {value}
  BY <1>1, RemovesTheValue
<1> HIDE DEF rest, set
<1>6. /\ place \in 1..(Len(rest) + 1)
      /\ \A i \in 1..(place - 1) : Greater(rest[i], item)
      /\ place <= Len(rest) => ~Greater(rest[place], item)
  <2>1. Len(rest) \in Nat /\ A \subseteq Nat
    BY <1>4
  <2>2. ahead = IF A # {} THEN Min(A) ELSE 0
    BY DEF SelectInSeq
  <2>3. CASE A = {}
    <3>1. place = Len(rest) + 1
      BY <2>2, <2>3
    <3>2. \A i \in 1..Len(rest) : Greater(rest[i], item)
      BY <2>3
    <3> HIDE DEF place
    <3> QED
      BY <2>1, <3>1, <3>2
  <2>4. CASE A # {}
    <3> HIDE DEF A, ahead
    <3>1. ahead \in A /\ \A j \in A : ahead <= j
      BY <2>1, <2>2, <2>4, MinIsLeast
    <3>2. ahead \in 1..Len(rest) /\ ~Greater(rest[ahead], item)
      BY <3>1 DEF A
    <3>3. place = ahead
      BY <2>1, <3>2
    <3>4. ASSUME NEW i \in 1..(ahead - 1) PROVE Greater(rest[i], item)
      <4>1. i \in 1..Len(rest) /\ ~(ahead <= i)
        BY <2>1, <3>2
      <4> QED
        BY <3>1, <4>1 DEF A
    <3> HIDE DEF place
    <3> QED
      BY <2>1, <3>2, <3>3, <3>4
  <2> QED
    BY <2>3, <2>4
<1> HIDE DEF place, ahead
<1>7. /\ t \in Seq(Items) /\ Distinct(t) /\ Descending(t)
      /\ ValuesOf(t) = q.set \cup {value}
  <2>1. value \notin ValuesOf(rest)
    BY <1>4
  <2>2. /\ t \in Seq(Items) /\ Distinct(t) /\ Descending(t)
        /\ ValuesOf(t) = ValuesOf(rest) \cup {item.value}
    BY <1>4, <1>6, <2>1, InsertKeepsOrder
  <2> QED
    BY <1>4, <2>2
<1> HIDE DEF t
<1>8. ASSUME NEW dd \in SUBSET Values
      PROVE  Indexed([queue |-> t, set |-> set \cup {value}, displaced |-> dd])
  BY <1>1, <1>2, <1>5, <1>7 DEF Indexed
<1>9. ASSUME NEW dd \in SUBSET Values PROVE Indexed([q EXCEPT !.displaced = dd])
  BY <1>1 DEF Indexed
<1>10. \E dd \in SUBSET Values :
         \/ PutItem(q, item) = [queue |-> t, set |-> set \cup {value}, displaced |-> dd]
         \/ PutItem(q, item) = [q EXCEPT !.displaced = dd]
  <2> DEFINE if(lost) == IF lost THEN q.displaced \cup {item.value} ELSE q.displaced
             a == if(item.what \in VolumeUpdates /\ q.queue[old].what \notin VolumeUpdates)
             b == if(item.what \notin VolumeUpdates /\ item.what # q.queue[old].what)
  <2>1. a \in SUBSET Values /\ b \in SUBSET Values
    BY <1>1, <1>2
  <2>2. PutItem(q, item) =
          IF item.value \notin q.set
            THEN [queue |-> t, set |-> set \cup {item.value}, displaced |-> q.displaced]
          ELSE IF Less(q.queue[old].fw, item.fw)
            THEN [q EXCEPT !.displaced = a]
          ELSE [queue |-> t, set |-> set \cup {item.value}, displaced |-> b]
    BY DEF PutItem, t, set, rest, old, place, ahead
  <2> HIDE DEF a, b
  <2> QED
    BY <1>1, <2>1, <2>2
<1> QED
  BY <1>8, <1>9, <1>10

LEMMA PopKeepsIndex ==
  ASSUME Indexed(Content), queue # <<>>
  PROVE  Indexed(Popped) /\ Last(queue) \in Items
<1>1. /\ queue \in Seq(Items) /\ valueSet \in SUBSET Values /\ displaced \in SUBSET Values
      /\ valueSet = ValuesOf(queue) /\ Distinct(queue) /\ Descending(queue)
  BY DEF Indexed, Content
<1>2. /\ Front(queue) \in Seq(Items) /\ Last(queue) \in Items
      /\ Distinct(Front(queue)) /\ Descending(Front(queue))
      /\ ValuesOf(Front(queue)) = ValuesOf(queue) \ {Last(queue).value}
      /\ Last(queue).value \in ValuesOf(queue)
  BY <1>1, FrontKeepsOrder
<1>3. RemoveValue(valueSet, Last(queue).value) = valueSet \ {Last(queue).value}
  BY <1>1, <1>2, RemovesTheValue
<1> QED
  BY <1>1, <1>2, <1>3 DEF Indexed, Popped

\* What update() has after putting the n-th of the old items on c.
PutNth(c, n, old, p) ==
  LET item == old[Len(old) - n + 1]
  IN PutItem(c, Evaluate(item.value, item.what, p))

Anew(f, q, old, count, p) ==
  f = [n \in 0..count |-> IF n = 0 THEN q ELSE PutNth(f[n - 1], n, old, p)]

\* The recursive function of PutAnew exists.
LEMMA AnewExists ==
  ASSUME NEW q, NEW old, NEW p, NEW count \in Nat
  PROVE  \E f : Anew(f, q, old, count, p)
<1> DEFINE Q == {n \in Nat : ~\E f : Anew(f, q, old, n, p)}
<1> SUFFICES ASSUME Q # {} PROVE FALSE
  OBVIOUS
<1>1. PICK n \in Q : \A j \in Q : n <= j
  BY LeastExists
<1>2. CASE n = 0
  <2> DEFINE f == [i \in 0..0 |-> q]
  <2>1. \A i \in 0..0 : i = 0
    OBVIOUS
  <2>2. Anew(f, q, old, 0, p)
    BY <2>1 DEF Anew
  <2> QED
    BY <1>1, <1>2, <2>2
<1>3. CASE n # 0
  <2>1. n - 1 \in Nat /\ n - 1 \notin Q
    BY <1>1, <1>3
  <2>2. PICK f : Anew(f, q, old, n - 1, p)
    BY <2>1
  <2> DEFINE g == [i \in 0..n |-> IF i = n THEN PutNth(f[n - 1], n, old, p) ELSE f[i]]
  <2>3. n - 1 \in 0..n /\ n - 1 # n
    BY <2>1
  <2>4. ASSUME NEW i \in 0..n
        PROVE  g[i] = IF i = 0 THEN q ELSE PutNth(g[i - 1], i, old, p)
    <3>1. CASE i = n
      <4>1. g[i - 1] = f[n - 1]
        BY <2>3, <3>1
      <4> QED
        BY <1>3, <3>1, <4>1
    <3>2. CASE i # n
      <4>1. i \in 0..(n - 1)
        BY <2>1, <3>2
      <4>2. f[i] = IF i = 0 THEN q ELSE PutNth(f[i - 1], i, old, p)
        BY <2>2, <4>1 DEF Anew
      <4>3. i # 0 => i - 1 \in 0..n /\ i - 1 # n
        BY <2>1, <4>1
      <4> QED
        BY <3>2, <4>2, <4>3
    <3> QED
      BY <3>1, <3>2
  <2>5. g = [i \in 0..n |-> IF i = 0 THEN q ELSE PutNth(g[i - 1], i, old, p)]
    BY <2>4
  <2> HIDE DEF g
  <2>6. Anew(g, q, old, n, p)
    BY <2>5 DEF Anew
  <2> QED
    BY <1>1, <2>6
<1> QED
  BY <1>2, <1>3

Puts(f, q, old, count, p) ==
  /\ PutAnew(q, old, count, p) = f[count] /\ f[0] = q
  /\ \A n \in 1..count : f[n] = PutNth(f[n - 1], n, old, p)
  /\ \A n \in 0..count : Indexed(f[n])

\* It puts one item after the other.
LEMMA AnewIsPut ==
  ASSUME NEW q, Indexed(q), NEW old \in Seq(Items), NEW count \in 0..Len(old), NEW p \in Int
  PROVE  \E f : Puts(f, q, old, count, p)
<1> DEFINE f == CHOOSE f : Anew(f, q, old, count, p)
<1>1. Anew(f, q, old, count, p)
  <2>1. count \in Nat
    OBVIOUS
  <2> QED
    BY <2>1, AnewExists
<1>2. PutAnew(q, old, count, p) = f[count]
  BY DEF PutAnew, Anew, PutNth
<1> HIDE DEF f
<1>3. \A n \in 0..count : f[n] = IF n = 0 THEN q ELSE PutNth(f[n - 1], n, old, p)
  BY <1>1 DEF Anew
<1> DEFINE Q == {n \in 0..count : ~Indexed(f[n])}
<1>4. Q = {}
  <2> SUFFICES ASSUME Q # {} PROVE FALSE
    OBVIOUS
  <2>1. Q \subseteq Nat
    OBVIOUS
  <2>2. PICK n \in Q : \A j \in Q : n <= j
    BY <2>1, LeastExists
  <2>3. n # 0
    BY <1>3, <2>2
  <2>4. n - 1 \in 0..count /\ n - 1 \notin Q
    BY <2>1, <2>2, <2>3
  <2>5. Indexed(f[n - 1])
    BY <2>4
  <2>6. Len(old) - n + 1 \in 1..Len(old)
    BY <2>2, <2>3
  <2>7. /\ old[Len(old) - n + 1].value \in Values /\ old[Len(old) - n + 1].what \in Whats
    <3>1. old[Len(old) - n + 1] \in Items
      BY <2>6
    <3> QED
      BY <3>1 DEF Items
  <2>8. Indexed(PutNth(f[n - 1], n, old, p))
    BY <2>5, <2>7, EvaluateIsItem, PutKeepsIndex DEF PutNth
  <2> QED
    BY <1>3, <2>2, <2>3, <2>8
<1>5. count \in Nat /\ 0 \in 0..count /\ \A n \in 1..count : n \in 0..count /\ n # 0
  OBVIOUS
<1>6. \A n \in 1..count : f[n] = PutNth(f[n - 1], n, old, p)
  BY <1>3, <1>5
<1>7. f[0] = q /\ \A n \in 0..count : Indexed(f[n])
  BY <1>3, <1>4, <1>5
<1> QED
  BY <1>2, <1>6, <1>7 DEF Puts

LEMMA PutAnewKeepsIndex ==
  ASSUME NEW q, Indexed(q), NEW old \in Seq(Items), NEW count \in 0..Len(old), NEW p \in Int
  PROVE  Indexed(PutAnew(q, old, count, p))
<1>1. count \in 0..count
  OBVIOUS
<1>2. PICK f : Puts(f, q, old, count, p)
  BY AnewIsPut
<1> QED
  BY <1>1, <1>2 DEF Puts

-----------------------------------------------------------------------------
(* ClientVoxels: the steps                                                 *)

CVInv == cameraP \in Int /\ oldQueue \in Seq(Items) /\ Indexed(Content)

LEMMA SetContentIs ==
  ASSUME NEW q, Indexed(q), SetContent(q)
  PROVE  Indexed(Content')
<1>1. q = [queue |-> q.queue, set |-> q.set, displaced |-> q.displaced]
  BY DEF Indexed
<1>2. Content' = [queue |-> q.queue, set |-> q.set, displaced |-> q.displaced]
  BY DEF SetContent, Content
<1> QED
  BY <1>1, <1>2

LEMMA PutOne ==
  ASSUME NEW q, Indexed(q), cameraP \in Int, NEW value \in Values, NEW what \in Whats
  PROVE  Indexed(Put(q, value, what))
BY EvaluateIsItem, PutKeepsIndex DEF Put

LEMMA CVInvariance == CVSpec => []CVInv
<1>1. CVInit => CVInv
  <2> SUFFICES ASSUME CVInit PROVE CVInv
    OBVIOUS
  <2>1. <<>> \in Seq(Items) /\ Len(<<>>) = 0
    OBVIOUS
  <2>2. ValuesOf(<<>>) = {} /\ Distinct(<<>>) /\ Descending(<<>>)
    BY <2>1 DEF ValuesOf, Distinct, Descending
  <2> QED
    BY <2>1, <2>2 DEF CVInit, CVInv, Content, Indexed
<1>2. CVInv /\ [CVNext]_cvVars => CVInv'
  <2> SUFFICES ASSUME CVInv, [CVNext]_cvVars PROVE CVInv'
    OBVIOUS
  <2>1. cameraP \in Int /\ oldQueue \in Seq(Items) /\ Indexed(Content)
    BY DEF CVInv
  <2>2. ASSUME NEW n \in VoxelNodes, NodeVolume(n) PROVE CVInv'
    <3> DEFINE what == IF volume[n] = 0 THEN "initial" ELSE "modified"
               q == Put(Put(Content, <<n, "geometry">>, what), <<n, "physics">>, "boxes")
    <3>1. what \in Whats /\ "boxes" \in Whats
      BY DEF Whats
    <3>2. <<n, "geometry">> \in Values /\ <<n, "physics">> \in Values
      BY DEF Values, Types
    <3> HIDE DEF what
    <3>3. Indexed(q)
      BY <2>1, <3>1, <3>2, PutOne
    <3>4. SetContent(q) /\ UNCHANGED <<cameraP, oldQueue>>
      BY <2>2 DEF NodeVolume, what
    <3> HIDE DEF q
    <3> QED
      BY <2>1, <3>3, <3>4, SetContentIs DEF CVInv
  <2>3. ASSUME NEW p \in CameraPlaces, BeginFrame(p) PROVE CVInv'
    <3> DEFINE old == IF Outdated(p) THEN queue ELSE oldQueue
               content == IF Outdated(p) THEN [Content EXCEPT !.queue = <<>>, !.set = {}]
                                         ELSE Content
    <3>1. p \in Int /\ cameraP' = p
      BY <2>3, PlacesAssumption DEF BeginFrame
    <3>2. PICK count \in 0..Len(old) :
            /\ SetContent(PutAnew(content, old, count, p))
            /\ oldQueue' = SubSeq(old, 1, Len(old) - count)
      BY <2>3 DEF BeginFrame
    <3>3. old \in Seq(Items)
      BY <2>1 DEF Indexed, Content
    <3>4. Indexed(content)
      <4>1. <<>> \in Seq(Items) /\ Len(<<>>) = 0
        OBVIOUS
      <4>2. ValuesOf(<<>>) = {} /\ Distinct(<<>>) /\ Descending(<<>>)
        BY <4>1 DEF ValuesOf, Distinct, Descending
      <4>3. Indexed([Content EXCEPT !.queue = <<>>, !.set = {}])
        BY <2>1, <4>1, <4>2 DEF Indexed
      <4> QED
        BY <2>1, <4>3
    <3> HIDE DEF old, content
    <3>5. Indexed(Content')
      <4>1. Indexed(PutAnew(content, old, count, p))
        BY <3>1, <3>3, <3>4, PutAnewKeepsIndex
      <4> QED
        BY <3>2, <4>1, SetContentIs
    <3>6. oldQueue' \in Seq(Items)
      <4>1. \A i \in 1..(Len(old) - count) : old[i] \in Items
        BY <3>3
      <4>2. Len(old) - count \in Int
        BY <3>3
      <4> QED
        BY <3>2, <4>1, <4>2, SubSeqProperties
    <3> QED
      BY <3>1, <3>5, <3>6 DEF CVInv
  <2>4. ASSUME HandleUpdate PROVE CVInv'
    <3> DEFINE value == Last(queue).value
               what == Wanted(value)
    <3>1. queue # <<>> /\ SetContent(Put(Popped, value, what)) /\ UNCHANGED <<cameraP, oldQueue>>
      BY <2>4 DEF HandleUpdate, NextIsDue
    <3>2. Indexed(Popped) /\ Last(queue) \in Items
      BY <2>1, <3>1, PopKeepsIndex
    <3>3. value \in Values
      BY <3>2 DEF Items
    <3>4. what \in Whats
      BY DEF Wanted, Whats
    <3> HIDE DEF value, what
    <3>5. Indexed(Put(Popped, value, what))
      BY <2>1, <3>2, <3>3, <3>4, PutOne
    <3> QED
      BY <2>1, <3>1, <3>5, SetContentIs DEF CVInv
  <2>5. ASSUME UNCHANGED <<queueVars, displaced>> PROVE CVInv'
    BY <2>1, <2>5 DEF CVInv, Content, queueVars
  <2>6. CASE EndFrame
    BY <2>5, <2>6 DEF EndFrame
  <2>7. ASSUME NEW i \in 1..PoolThreads, PostTask(i) PROVE CVInv'
    BY <2>5, <2>7 DEF PostTask
  <2>8. CASE UNCHANGED cvVars
    BY SMTT(60), <2>5, <2>8 DEF cvVars
  <2> QED
    BY <2>2, <2>3, <2>4, <2>6, <2>7, <2>8 DEF CVNext
<1> QED
  BY <1>1, <1>2, PTL DEF CVSpec

\* The set of values leads to exactly the items of the queue, which is in its
\* descending order, whatever put(), pop(), set_p() and update() do and in
\* whichever order: for any nodes, and places of them and of the camera.
THEOREM QueueStaysIndexed == CVSpec => []QueueIsIndexed
<1>1. CVInv => QueueIsIndexed
  <2> SUFFICES ASSUME CVInv PROVE QueueIsIndexed
    OBVIOUS
  <2> DEFINE n == Len(queue)
             f == [i \in 1..n |-> queue[i].value]
  <2>1. /\ queue \in Seq(Items) /\ valueSet = ValuesOf(queue)
        /\ Distinct(queue) /\ Descending(queue) /\ n \in Nat
    BY DEF CVInv, Indexed, Content
  <2>2. valueSet = {queue[i].value : i \in 1..n}
    BY <2>1 DEF ValuesOf
  <2>3. Cardinality(valueSet) = n
    <3>1. f \in Surjection(1..n, valueSet)
      BY <2>2 DEF Surjection
    <3>2. f \in Injection(1..n, valueSet)
      <4>1. \A i, j \in 1..n : f[i] = f[j] => i = j
        BY <2>1 DEF Distinct
      <4>2. f \in [1..n -> valueSet] /\ DOMAIN f = 1..n
        BY <2>2
      <4> HIDE DEF f, n
      <4> QED
        BY <4>1, <4>2 DEF Injection, IsInjective
    <3> HIDE DEF f, n
    <3>3. IsFiniteSet(1..n) /\ Cardinality(1..n) = n
      <4>1. n \in Int /\ (1 > n => n = 0) /\ n - 1 + 1 = n
        BY <2>1
      <4> QED
        BY <4>1, FS_Interval
    <3> QED
      BY <3>1, <3>2, <3>3, FS_Surjection
  <2>4. \A i \in 1..(n - 1) : ~Greater(queue[i + 1], queue[i])
    <3>1. \A i \in 1..(n - 1) : i \in 1..n /\ i + 1 \in 1..n /\ i < i + 1
      BY <2>1
    <3> QED
      BY <2>1, <3>1 DEF Descending
  <2> QED
    BY <2>2, <2>3, <2>4 DEF QueueIsIndexed
<1> QED
  BY <1>1, CVInvariance, PTL

-----------------------------------------------------------------------------
(* ClientVoxels: what becomes of each item                                 *)

ItemsOf(s) == {s[i] : i \in 1..Len(s)}

LEMMA ItemsAfterRemoveAt ==
  ASSUME NEW S, NEW s \in Seq(S), NEW k \in 1..Len(s)
  PROVE  /\ ItemsOf(RemoveAt(s, k)) \subseteq ItemsOf(s)
         /\ \A i \in 1..Len(s) : i # k => s[i] \in ItemsOf(RemoveAt(s, k))
<1> DEFINE t == RemoveAt(s, k)
           n == Len(s)
<1>1. n \in Nat /\ k \in 1..n
  OBVIOUS
<1>2. Len(t) = n - 1 /\ \A i \in 1..(n - 1) : t[i] = IF i < k THEN s[i] ELSE s[i + 1]
  BY RemovedAt
<1> HIDE DEF t, n
<1>3. ASSUME NEW i \in 1..Len(t) PROVE t[i] \in ItemsOf(s)
  <2>1. i \in 1..n /\ i + 1 \in 1..n
    BY <1>1, <1>2
  <2> QED
    BY <1>2, <2>1 DEF ItemsOf, n
<1>4. ASSUME NEW i \in 1..n, i # k PROVE s[i] \in ItemsOf(t)
  <2>1. CASE i < k
    <3>1. i \in 1..(n - 1)
      BY <1>1, <2>1
    <3> QED
      BY <1>2, <2>1, <3>1 DEF ItemsOf
  <2>2. CASE i > k
    <3>1. i - 1 \in 1..(n - 1) /\ ~(i - 1 < k) /\ (i - 1) + 1 = i
      BY <1>1, <2>2
    <3> QED
      BY <1>2, <3>1 DEF ItemsOf
  <2> QED
    BY <1>1, <1>4, <2>1, <2>2
<1>5. ItemsOf(t) \subseteq ItemsOf(s)
  BY <1>3 DEF ItemsOf
<1> QED
  BY <1>4, <1>5 DEF t, n

LEMMA ItemsAfterInsertAt ==
  ASSUME NEW S, NEW s \in Seq(S), NEW k \in 1..(Len(s) + 1), NEW e \in S
  PROVE  ItemsOf(InsertAt(s, k, e)) = ItemsOf(s) \cup {e}
<1> DEFINE t == InsertAt(s, k, e)
           n == Len(s)
<1>1. n \in Nat /\ k \in 1..(n + 1)
  OBVIOUS
<1>2. /\ Len(t) = n + 1 /\ t[k] = e
      /\ \A i \in 1..(k - 1) : t[i] = s[i]
      /\ \A i \in (k + 1)..(n + 1) : t[i] = s[i - 1]
  <2>1. Inserted(t, s, k, e)
    BY InsertedAt
  <2> HIDE DEF t
  <2> QED
    BY <2>1 DEF Inserted
<1> HIDE DEF t, n
<1>3. ASSUME NEW i \in 1..Len(t) PROVE t[i] \in ItemsOf(s) \cup {e}
  <2>1. CASE i < k
    <3>1. i \in 1..(k - 1) /\ i \in 1..n
      BY <1>1, <2>1
    <3> QED
      BY <1>2, <3>1 DEF ItemsOf, n
  <2>2. CASE i = k
    BY <1>2, <2>2
  <2>3. CASE i > k
    <3>1. i \in (k + 1)..(n + 1) /\ i - 1 \in 1..n
      BY <1>1, <1>2, <2>3
    <3> QED
      BY <1>2, <3>1 DEF ItemsOf, n
  <2> QED
    BY <1>1, <2>1, <2>2, <2>3
<1>4. ASSUME NEW i \in 1..n PROVE s[i] \in ItemsOf(t)
  <2>1. CASE i < k
    <3>1. i \in 1..(k - 1) /\ i \in 1..(n + 1)
      BY <1>1, <2>1
    <3> QED
      BY <1>2, <3>1 DEF ItemsOf
  <2>2. CASE i >= k
    <3>1. i + 1 \in (k + 1)..(n + 1) /\ i + 1 \in 1..(n + 1) /\ (i + 1) - 1 = i
      BY <1>1, <2>2
    <3> QED
      BY <1>2, <3>1 DEF ItemsOf
  <2> QED
    BY <1>1, <2>1, <2>2
<1>5. e \in ItemsOf(t)
  <2>1. k \in 1..Len(t)
    BY <1>1, <1>2
  <2> QED
    BY <1>2, <2>1 DEF ItemsOf
<1> QED
  BY <1>3, <1>4, <1>5 DEF ItemsOf, t, n

LEMMA ItemsOfFront ==
  ASSUME NEW s \in Seq(Items), s # <<>>
  PROVE  /\ ItemsOf(Front(s)) \subseteq ItemsOf(s) /\ Last(s) \in ItemsOf(s)
         /\ \A x \in ItemsOf(s) : x # Last(s) => x \in ItemsOf(Front(s))
<1> DEFINE n == Len(s)
           t == Front(s)
<1>1. n \in Nat \ {0} /\ \A i \in 1..n : s[i] \in Items
  OBVIOUS
<1>2. Last(s) = s[n]
  BY DEF Last
<1> HIDE DEF n
<1>3. Len(t) = n - 1 /\ \A i \in 1..(n - 1) : t[i] = s[i]
  <2>1. \A i \in 1..(n - 1) : s[i] \in Items
    BY <1>1
  <2>2. (n - 1) - 1 + 1 = n - 1 /\ (1 <= n - 1 \/ n - 1 = 0) /\ n - 1 \in Int
    BY <1>1
  <2> QED
    BY <1>1, <2>1, <2>2, SubSeqProperties DEF Front, n
<1> HIDE DEF t
<1>4. \A i \in 1..n : i = n \/ i \in 1..(n - 1)
  BY <1>1
<1>5. n \in 1..n /\ \A i \in 1..(n - 1) : i \in 1..n
  BY <1>1
<1>6. \A i \in 1..(n - 1) : t[i] \in ItemsOf(s) /\ s[i] \in ItemsOf(t)
  BY <1>3, <1>5 DEF ItemsOf, n
<1>7. s[n] \in ItemsOf(s)
  BY <1>5 DEF ItemsOf, n
<1>8. ItemsOf(t) \subseteq ItemsOf(s)
  BY <1>3, <1>6 DEF ItemsOf
<1>9. \A x \in ItemsOf(s) : x # Last(s) => x \in ItemsOf(t)
  BY <1>2, <1>4, <1>6 DEF ItemsOf, n
<1> QED
  BY <1>2, <1>7, <1>8, <1>9 DEF t

\* The items of the other values are left alone.
Others(q, value) == {x \in ItemsOf(q.queue) : x.value # value}

\* What put_item() does: it puts in the item, discards it, or replaces that of
\* its value.
PutDoes(q, item, r) ==
  \/ /\ item.value \notin q.set
     /\ ItemsOf(r.queue) = Others(q, item.value) \cup {item}
     /\ r.displaced = q.displaced
  \/ \E o \in ItemsOf(q.queue) :
       /\ o.value = item.value
       /\ r.queue = q.queue
       /\ r.displaced =
            IF item.what \in VolumeUpdates /\ o.what \notin VolumeUpdates
              THEN q.displaced \cup {item.value} ELSE q.displaced
  \/ \E o \in ItemsOf(q.queue) :
       /\ o.value = item.value
       /\ ItemsOf(r.queue) = Others(q, item.value) \cup {item}
       /\ r.displaced =
            IF item.what \notin VolumeUpdates /\ item.what # o.what
              THEN q.displaced \cup {item.value} ELSE q.displaced

LEMMA PutItemDoes ==
  ASSUME NEW q, Indexed(q), NEW item \in Items
  PROVE  PutDoes(q, item, PutItem(q, item))
<1> DEFINE value == item.value
           n == Len(q.queue)
           F == {i \in 1..n : q.queue[i].value = value}
           old == SelectInSeq(q.queue, LAMBDA x : x.value = item.value)
           rest == IF value \in q.set THEN RemoveAt(q.queue, old) ELSE q.queue
           set == IF value \in q.set THEN RemoveValue(q.set, value) ELSE q.set
           A == {i \in 1..Len(rest) : ~Greater(rest[i], item)}
           ahead == SelectInSeq(rest, LAMBDA x : ~Greater(x, item))
           place == IF ahead = 0 THEN Len(rest) + 1 ELSE ahead
           t == InsertAt(rest, place, item)
           r == PutItem(q, item)
<1>1. /\ q.queue \in Seq(Items) /\ n \in Nat /\ q.set = ValuesOf(q.queue) /\ Distinct(q.queue)
  BY DEF Indexed
<1>2. ASSUME value \in q.set
      PROVE  old \in 1..n /\ q.queue[old].value = value
  <2>1. F # {} /\ F \subseteq Nat
    BY <1>1, <1>2 DEF ValuesOf
  <2>2. old = Min(F)
    BY <2>1 DEF SelectInSeq
  <2> HIDE DEF F, old
  <2>3. old \in F
    BY <2>1, <2>2, MinIsLeast
  <2> QED
    BY <2>3 DEF F
<1> HIDE DEF old
<1>3. rest \in Seq(Items) /\ ItemsOf(rest) = Others(q, value)
  <2>1. CASE value \in q.set
    <3>1. old \in 1..n /\ q.queue[old].value = value /\ rest = RemoveAt(q.queue, old)
      BY <1>2, <2>1
    <3> HIDE DEF rest
    <3>2. /\ rest \in Seq(Items) /\ ItemsOf(rest) \subseteq ItemsOf(q.queue)
          /\ \A i \in 1..n : i # old => q.queue[i] \in ItemsOf(rest)
      BY <1>1, <3>1, RemovedAt, ItemsAfterRemoveAt
    <3>3. \A i \in 1..n : q.queue[i].value # value => i # old
      BY <3>1
    <3>4. \A x \in ItemsOf(rest) : x.value # value
      <4>1. ValuesOf(rest) = ValuesOf(q.queue) \ {value}
        BY <1>1, <3>1, RemoveKeepsOrder DEF Indexed
      <4> QED
        BY <4>1 DEF ValuesOf, ItemsOf
    <3> QED
      BY <3>2, <3>3, <3>4 DEF ItemsOf, Others
  <2>2. CASE value \notin q.set
    <3>1. rest = q.queue /\ \A x \in ItemsOf(q.queue) : x.value # value
      BY <1>1, <2>2 DEF ValuesOf, ItemsOf
    <3> QED
      BY <1>1, <3>1 DEF Others
  <2> QED
    BY <2>1, <2>2
<1> HIDE DEF rest, set
<1>4. place \in 1..(Len(rest) + 1)
  <2>1. Len(rest) \in Nat /\ A \subseteq Nat
    BY <1>3
  <2>2. ahead = IF A # {} THEN Min(A) ELSE 0
    BY DEF SelectInSeq
  <2>3. CASE A = {}
    <3>1. place = Len(rest) + 1
      BY <2>2, <2>3
    <3> HIDE DEF place
    <3> QED
      BY <2>1, <3>1
  <2>4. CASE A # {}
    <3> HIDE DEF A, ahead
    <3>1. ahead \in A
      BY <2>1, <2>2, <2>4, MinIsLeast
    <3>2. ahead \in 1..Len(rest) /\ place = ahead
      BY <2>1, <3>1 DEF A
    <3> HIDE DEF place
    <3> QED
      BY <2>1, <3>2
  <2> QED
    BY <2>3, <2>4
<1> HIDE DEF place, ahead
<1>5. ItemsOf(t) = Others(q, value) \cup {item}
  BY <1>3, <1>4, ItemsAfterInsertAt
<1> HIDE DEF t
<1> DEFINE if(lost) == IF lost THEN q.displaced \cup {item.value} ELSE q.displaced
           a == if(item.what \in VolumeUpdates /\ q.queue[old].what \notin VolumeUpdates)
           b == if(item.what \notin VolumeUpdates /\ item.what # q.queue[old].what)
<1>6. r = IF item.value \notin q.set
            THEN [queue |-> t, set |-> set \cup {item.value}, displaced |-> q.displaced]
          ELSE IF Less(q.queue[old].fw, item.fw)
            THEN [q EXCEPT !.displaced = a]
          ELSE [queue |-> t, set |-> set \cup {item.value}, displaced |-> b]
  BY DEF PutItem, t, set, rest, old, place, ahead
<1> HIDE DEF r
<1>7. ASSUME value \notin q.set PROVE PutDoes(q, item, r)
  BY <1>5, <1>6, <1>7 DEF PutDoes
<1>8. ASSUME value \in q.set PROVE PutDoes(q, item, r)
  <2>1. q.queue[old] \in ItemsOf(q.queue) /\ q.queue[old].value = item.value
    BY <1>2, <1>8 DEF ItemsOf
  <2>2. CASE Less(q.queue[old].fw, item.fw)
    <3>1. r.queue = q.queue /\ r.displaced = a
      BY <1>6, <1>8, <2>2 DEF Indexed
    <3> QED
      BY <2>1, <3>1 DEF PutDoes
  <2>3. CASE ~Less(q.queue[old].fw, item.fw)
    <3>1. r.queue = t /\ r.displaced = b
      BY <1>6, <1>8, <2>3
    <3> QED
      BY <1>5, <2>1, <3>1 DEF PutDoes
  <2> QED
    BY <2>2, <2>3
<1> QED
  BY <1>7, <1>8 DEF r

-----------------------------------------------------------------------------
(* ClientVoxels: updates that are not lost                                 *)

UpdatesOf(type) ==
  IF type = "physics" THEN {"boxes", "outside", "inside"}
  ELSE {"initial", "modified", "clipped", "lod1", "lod2", "lod3", "lod4"}

\* Items are evaluated for a place that the camera had.
Evaluated(x) ==
  /\ x.value \in Values /\ x.what \in UpdatesOf(x.value[2])
  /\ \E p \in Int : x = Evaluate(x.value, x.what, p)

AllEvaluated(s) == \A x \in ItemsOf(s) : Evaluated(x)

TaskDefs == [value : Values, what : Whats, volume : Nat]

TasksOf(v) == {t \in ItemsOf(tasks) : t.value = v}

\* What v is shown as, once its tasks are posted.
Made(v) == IF TasksOf(v) = {} THEN {shown[v]} ELSE TasksOf(v)

\* The updates that v may wait for: of its volume, or the one that follows what
\* it is shown as.
Fitting(v) ==
  VolumeUpdates \cup
  {what \in Whats : \A m \in Made(v) : /\ m.what = what
                                       /\ what \in Cleared \/ m.volume = volume[v[1]]}

\* An update in G is kept for v in the queue of q, or in the old queue.
KeptBy(q, old, v, G) ==
  \/ v \in q.displaced
  \/ \E x \in ItemsOf(q.queue) : x.value = v /\ x.what \in G
  \/ /\ \A x \in ItemsOf(q.queue) : x.value # v
     /\ \E x \in ItemsOf(old) : x.value = v
     /\ \A x \in ItemsOf(old) : x.value = v => x.what \in G

CurrentInv ==
  /\ volume \in [VoxelNodes -> Nat] /\ tasks \in Seq(TaskDefs)
  /\ shown \in [Values -> [what : Whats \cup {"nothing"}, volume : Nat]]
  /\ AllEvaluated(queue) /\ AllEvaluated(oldQueue)
  /\ \A v \in Values : volume[v[1]] # 0 /\ v \notin raced =>
                         KeptBy(Content, oldQueue, v, Fitting(v))

LEMMA UpdatesAreWhats ==
  ASSUME NEW type
  PROVE  UpdatesOf(type) \subseteq Whats
BY DEF UpdatesOf, Whats

LEMMA EvaluatedAnew ==
  ASSUME NEW value \in Values, NEW what \in UpdatesOf(value[2]), NEW p \in Int
  PROVE  /\ Evaluated(Evaluate(value, what, p)) /\ Evaluate(value, what, p) \in Items
         /\ Evaluate(value, what, p).value = value /\ Evaluate(value, what, p).what = what
<1>1. what \in Whats
  BY UpdatesAreWhats
<1> DEFINE x == Evaluate(value, what, p)
<1>2. x \in Items /\ x.value = value /\ x.what = what
  BY <1>1, EvaluateIsItem
<1>3. x = Evaluate(x.value, x.what, p)
  BY <1>2
<1> HIDE DEF x
<1>4. Evaluated(x)
  BY <1>2, <1>3 DEF Evaluated
<1> QED
  BY <1>2, <1>4 DEF x

\* Items of one value are the same.
LEMMA SameItem ==
  ASSUME NEW q, Indexed(q), NEW x \in ItemsOf(q.queue), NEW y \in ItemsOf(q.queue),
         x.value = y.value
  PROVE  x = y
BY DEF Indexed, Distinct, ItemsOf

LEMMA SetIsOfItems ==
  ASSUME NEW q, Indexed(q)
  PROVE  \A value : value \in q.set <=> \E x \in ItemsOf(q.queue) : x.value = value
BY DEF Indexed, ValuesOf, ItemsOf

LEMMA PutEvaluates ==
  ASSUME NEW q, Indexed(q), NEW item \in Items, AllEvaluated(q.queue), Evaluated(item)
  PROVE  AllEvaluated(PutItem(q, item).queue)
<1> DEFINE r == PutItem(q, item)
<1>1. PutDoes(q, item, r)
  BY PutItemDoes
<1> HIDE DEF r
<1>2. ItemsOf(r.queue) \subseteq ItemsOf(q.queue) \cup {item}
  BY <1>1 DEF PutDoes, Others
<1> QED
  BY <1>2 DEF AllEvaluated, r

\* Another value's update stays.
LEMMA PutKeepsOthers ==
  ASSUME NEW q, Indexed(q), NEW item \in Items, NEW old, NEW v, NEW G,
         KeptBy(q, old, v, G), v # item.value
  PROVE  KeptBy(PutItem(q, item), old, v, G)
<1> DEFINE r == PutItem(q, item)
<1>1. PutDoes(q, item, r)
  BY PutItemDoes
<1> HIDE DEF r
<1>2. q.displaced \subseteq r.displaced
  BY <1>1 DEF PutDoes
<1>3. \A x \in ItemsOf(q.queue) : x.value = v => x \in ItemsOf(r.queue)
  BY <1>1 DEF PutDoes, Others
<1>4. \A x \in ItemsOf(r.queue) : x.value = v => x \in ItemsOf(q.queue)
  BY <1>1 DEF PutDoes, Others
<1> QED
  BY <1>2, <1>3, <1>4 DEF KeptBy, r

\* The update of a new volume stays, is not needed for the one already there, or
\* gives way.
LEMMA PutKeepsVolume ==
  ASSUME NEW q, Indexed(q), NEW item \in Items, item.what \in VolumeUpdates, NEW old
  PROVE  KeptBy(PutItem(q, item), old, item.value, VolumeUpdates)
<1> DEFINE r == PutItem(q, item)
<1>1. PutDoes(q, item, r)
  BY PutItemDoes
<1> HIDE DEF r
<1>2. CASE item \in ItemsOf(r.queue)
  BY <1>2 DEF KeptBy, r
<1>3. CASE item \notin ItemsOf(r.queue)
  <2>1. PICK o \in ItemsOf(q.queue) :
          /\ o.value = item.value
          /\ r.queue = q.queue
          /\ r.displaced =
               IF item.what \in VolumeUpdates /\ o.what \notin VolumeUpdates
                 THEN q.displaced \cup {item.value} ELSE q.displaced
    BY <1>1, <1>3 DEF PutDoes
  <2>2. CASE o.what \in VolumeUpdates
    BY <2>1, <2>2 DEF KeptBy, r
  <2>3. CASE o.what \notin VolumeUpdates
    BY <2>1, <2>3 DEF KeptBy, r
  <2> QED
    BY <2>2, <2>3
<1> QED
  BY <1>2, <1>3

\* The last of the old items is put anew.
LEMMA PutKeepsOld ==
  ASSUME NEW q, Indexed(q), NEW item \in Items, NEW v, NEW G, VolumeUpdates \subseteq G,
         NEW old, NEW rest, NEW last \in ItemsOf(old),
         ItemsOf(rest) \subseteq ItemsOf(old), ItemsOf(old) \subseteq ItemsOf(rest) \cup {last},
         item.value = last.value, item.what = last.what,
         KeptBy(q, old, v, G)
  PROVE  KeptBy(PutItem(q, item), rest, v, G)
<1> DEFINE r == PutItem(q, item)
<1>1. CASE v # item.value
  <2>1. KeptBy(q, rest, v, G)
    BY <1>1 DEF KeptBy
  <2> QED
    BY <1>1, <2>1, PutKeepsOthers
<1>2. CASE v = item.value
  <2>1. PutDoes(q, item, r)
    BY PutItemDoes
  <2> HIDE DEF r
  <2>2. q.displaced \subseteq r.displaced
    BY <2>1 DEF PutDoes
  <2>3. CASE v \in q.displaced
    BY <2>2, <2>3 DEF KeptBy, r
  <2>4. ASSUME NEW x \in ItemsOf(q.queue), x.value = v, x.what \in G
        PROVE  KeptBy(r, rest, v, G)
    <3>1. item.value \in q.set
      BY <1>2, <2>4, SetIsOfItems
    <3>2. \A o \in ItemsOf(q.queue) : o.value = item.value => o = x
      BY <1>2, <2>4, SameItem
    <3>3. CASE r.queue = q.queue
      BY <2>4, <3>3 DEF KeptBy
    <3>4. CASE r.queue # q.queue
      <4>1. /\ item \in ItemsOf(r.queue)
            /\ r.displaced = IF item.what \notin VolumeUpdates /\ item.what # x.what
                               THEN q.displaced \cup {item.value} ELSE q.displaced
        BY <2>1, <3>1, <3>2, <3>4 DEF PutDoes
      <4>2. CASE item.what \in G
        BY <1>2, <4>1, <4>2 DEF KeptBy
      <4>3. CASE item.what \notin G
        <5>1. item.what \notin VolumeUpdates /\ item.what # x.what
          BY <2>4, <4>3
        <5> QED
          BY <1>2, <4>1, <5>1 DEF KeptBy
      <4> QED
        BY <4>2, <4>3
    <3> QED
      BY <3>3, <3>4
  <2>5. ASSUME \A x \in ItemsOf(q.queue) : x.value # v,
               \A x \in ItemsOf(old) : x.value = v => x.what \in G
        PROVE  KeptBy(r, rest, v, G)
    <3>1. item \in ItemsOf(r.queue)
      BY <1>2, <2>1, <2>5 DEF PutDoes
    <3>2. item.what \in G
      BY <1>2, <2>5
    <3> QED
      BY <1>2, <3>1, <3>2 DEF KeptBy
  <2> QED
    BY <2>3, <2>4, <2>5 DEF KeptBy, r
<1> QED
  BY <1>1, <1>2

\* update() loses no update, or v is displaced.
LEMMA AnewKeeps ==
  ASSUME NEW q, Indexed(q), NEW old \in Seq(Items), NEW count \in 0..Len(old), NEW p \in Int,
         AllEvaluated(q.queue), AllEvaluated(old)
  PROVE  /\ AllEvaluated(PutAnew(q, old, count, p).queue)
         /\ \A v, G : VolumeUpdates \subseteq G /\ KeptBy(q, old, v, G) =>
              KeptBy(PutAnew(q, old, count, p), SubSeq(old, 1, Len(old) - count), v, G)
<1>0. PICK f : Puts(f, q, old, count, p)
  BY AnewIsPut
<1>1. /\ PutAnew(q, old, count, p) = f[count] /\ f[0] = q
      /\ \A n \in 1..count : f[n] = PutNth(f[n - 1], n, old, p)
      /\ \A n \in 0..count : Indexed(f[n])
  BY <1>0 DEF Puts
<1> DEFINE Rest(n) == SubSeq(old, 1, Len(old) - n)
           Nth(n) == old[Len(old) - n + 1]
           Item(n) == Evaluate(Nth(n).value, Nth(n).what, p)
<1> DEFINE Good(n) ==
             /\ AllEvaluated(f[n].queue)
             /\ \A v, G : VolumeUpdates \subseteq G /\ KeptBy(q, old, v, G) =>
                  KeptBy(f[n], Rest(n), v, G)
           Q == {n \in 0..count : ~Good(n)}
<1>2. Len(old) \in Nat /\ count \in 0..Len(old)
  OBVIOUS
<1>3. ASSUME NEW n \in 0..Len(old)
      PROVE  ItemsOf(Rest(n)) = {old[i] : i \in 1..(Len(old) - n)}
  <2>1. /\ Len(old) - n \in Int /\ Len(old) - n <= Len(old)
        /\ \A i \in 1..(Len(old) - n) : old[i] \in Items
    BY <1>2
  <2>2. /\ Len(Rest(n)) = IF 1 <= Len(old) - n THEN Len(old) - n - 1 + 1 ELSE 0
        /\ \A i \in 1..(Len(old) - n - 1 + 1) : Rest(n)[i] = old[1 + i - 1]
    BY <2>1, SubSeqProperties
  <2>3. Len(Rest(n)) = Len(old) - n /\ \A i \in 1..(Len(old) - n) : Rest(n)[i] = old[i]
    <3> HIDE DEF Rest
    <3> QED
      BY <1>2, <2>1, <2>2
  <2> HIDE DEF Rest
  <2> QED
    BY <2>3 DEF ItemsOf
<1>4. Good(0)
  <2>1. ItemsOf(Rest(0)) = ItemsOf(old)
    BY <1>2, <1>3 DEF ItemsOf
  <2> HIDE DEF Rest
  <2>2. f[0] = q
    BY <1>1
  <2> QED
    BY <2>1, <2>2 DEF KeptBy
<1>5. ASSUME NEW n \in 1..count, Good(n - 1) PROVE Good(n)
  <2>1. /\ n - 1 \in 0..Len(old) /\ n \in 0..Len(old) /\ n - 1 \in 0..count
        /\ Len(old) - n + 1 \in 1..Len(old) /\ Len(old) - (n - 1) = Len(old) - n + 1
    BY <1>2
  <2>2. Nth(n) \in ItemsOf(old)
    BY <2>1 DEF ItemsOf
  <2>3. f[n] = PutItem(f[n - 1], Item(n)) /\ Indexed(f[n - 1])
    BY <1>1, <2>1 DEF PutNth
  <2>4. /\ ItemsOf(Rest(n)) \subseteq ItemsOf(Rest(n - 1))
        /\ ItemsOf(Rest(n - 1)) \subseteq ItemsOf(Rest(n)) \cup {Nth(n)}
        /\ Nth(n) \in ItemsOf(Rest(n - 1))
    <3>1. /\ ItemsOf(Rest(n)) = {old[i] : i \in 1..(Len(old) - n)}
          /\ ItemsOf(Rest(n - 1)) = {old[i] : i \in 1..(Len(old) - n + 1)}
      BY <1>3, <2>1
    <3>2. /\ \A i \in 1..(Len(old) - n) : i \in 1..(Len(old) - n + 1)
          /\ \A i \in 1..(Len(old) - n + 1) : i \in 1..(Len(old) - n) \/ i = Len(old) - n + 1
          /\ Len(old) - n + 1 \in 1..(Len(old) - n + 1)
      BY <1>2, <2>1
    <3> HIDE DEF Rest
    <3> QED
      BY <3>1, <3>2
  <2> HIDE DEF Rest, Nth
  <2>5. Nth(n).value \in Values /\ Nth(n).what \in UpdatesOf(Nth(n).value[2])
    BY <2>2 DEF AllEvaluated, Evaluated
  <2>6. /\ Evaluated(Item(n)) /\ Item(n) \in Items
        /\ Item(n).value = Nth(n).value /\ Item(n).what = Nth(n).what
    BY <2>5, EvaluatedAnew
  <2> HIDE DEF Item
  <2>7. AllEvaluated(f[n].queue)
    BY <1>5, <2>3, <2>6, PutEvaluates
  <2>8. ASSUME NEW v, NEW G, VolumeUpdates \subseteq G, KeptBy(q, old, v, G)
        PROVE  KeptBy(f[n], Rest(n), v, G)
    <3>1. KeptBy(f[n - 1], Rest(n - 1), v, G)
      BY <1>5, <2>8
    <3> QED
      BY <2>3, <2>4, <2>6, <2>8, <3>1, PutKeepsOld
  <2> QED
    BY <2>7, <2>8
<1> HIDE DEF Good
<1>6. Q = {}
  <2> SUFFICES ASSUME Q # {} PROVE FALSE
    OBVIOUS
  <2>1. Q \subseteq Nat
    OBVIOUS
  <2>2. PICK n \in Q : \A j \in Q : n <= j
    BY <2>1, LeastExists
  <2>3. n # 0
    BY <1>4, <2>2
  <2>4. n - 1 \in 0..count /\ n - 1 \notin Q /\ n \in 1..count
    BY <2>1, <2>2, <2>3
  <2> QED
    BY <1>5, <2>2, <2>4
<1>7. Good(count)
  BY <1>2, <1>6
<1> QED
  BY <1>1, <1>7 DEF Good

-----------------------------------------------------------------------------
(* ClientVoxels: the steps and the updates that are not lost               *)

LEMMA KeptForMore ==
  ASSUME NEW q, NEW old, NEW v, NEW G, NEW H, G \subseteq H, KeptBy(q, old, v, G)
  PROVE  KeptBy(q, old, v, H)
BY DEF KeptBy

LEMMA VolumeUpdatesFit ==
  ASSUME NEW v
  PROVE  VolumeUpdates \subseteq Fitting(v) /\ VolumeUpdates \subseteq Fitting(v)'
BY DEF Fitting

LEMMA ContentAfter ==
  ASSUME NEW q, Indexed(q), SetContent(q)
  PROVE  Content' = q /\ queue' = q.queue
<1>1. q = [queue |-> q.queue, set |-> q.set, displaced |-> q.displaced]
  BY DEF Indexed
<1>2. Content' = [queue |-> q.queue, set |-> q.set, displaced |-> q.displaced]
  BY DEF SetContent, Content
<1> QED
  BY <1>1, <1>2 DEF SetContent

\* What an item of Items that is put does to the queue.
LEMMA PutCurrent ==
  ASSUME NEW q, Indexed(q), AllEvaluated(q.queue), cameraP \in Int,
         NEW value \in Values, NEW what \in UpdatesOf(value[2])
  PROVE  /\ Indexed(Put(q, value, what)) /\ AllEvaluated(Put(q, value, what).queue)
         /\ \A old, v, G : v # value /\ KeptBy(q, old, v, G) =>
              KeptBy(Put(q, value, what), old, v, G)
         /\ \A old : what \in VolumeUpdates =>
              KeptBy(Put(q, value, what), old, value, VolumeUpdates)
<1> DEFINE x == Evaluate(value, what, cameraP)
<1>1. Evaluated(x) /\ x \in Items /\ x.value = value /\ x.what = what
  BY EvaluatedAnew
<1>2. Put(q, value, what) = PutItem(q, x)
  BY DEF Put
<1> HIDE DEF x
<1>3. Indexed(PutItem(q, x)) /\ AllEvaluated(PutItem(q, x).queue)
  BY <1>1, PutKeepsIndex, PutEvaluates
<1>4. ASSUME NEW old, NEW v, NEW G, v # value, KeptBy(q, old, v, G)
      PROVE  KeptBy(PutItem(q, x), old, v, G)
  BY <1>1, <1>4, PutKeepsOthers
<1>5. ASSUME NEW old, what \in VolumeUpdates
      PROVE  KeptBy(PutItem(q, x), old, value, VolumeUpdates)
  <2>1. KeptBy(PutItem(q, x), old, x.value, VolumeUpdates)
    BY <1>1, <1>5, PutKeepsVolume
  <2> QED
    BY <1>1, <2>1
<1> QED
  BY <1>2, <1>3, <1>4, <1>5

LEMMA FittingStays ==
  ASSUME NEW v, tasks' = tasks, shown' = shown, volume'[v[1]] = volume[v[1]]
  PROVE  Fitting(v)' = Fitting(v)
BY DEF Fitting, Made, TasksOf

\* A new volume is queued for the node's geometry and boxes.
LEMMA NodeVolumeKeeps ==
  ASSUME CVInv, CurrentInv, NEW n \in VoxelNodes, NodeVolume(n)
  PROVE  CurrentInv'
<1> DEFINE g == <<n, "geometry">>
           b == <<n, "physics">>
           what == IF volume[n] = 0 THEN "initial" ELSE "modified"
           q == Put(Content, g, what)
           r == Put(q, b, "boxes")
<1>1. g \in Values /\ b \in Values /\ g # b /\ g[1] = n /\ b[1] = n
  BY DEF Values, Types
<1>2. \A v \in Values : v[1] = n => v = g \/ v = b
  BY DEF Values, Types
<1>3. /\ what \in UpdatesOf(g[2]) /\ what \in VolumeUpdates
      /\ "boxes" \in UpdatesOf(b[2]) /\ "boxes" \in VolumeUpdates
  BY DEF UpdatesOf, VolumeUpdates
<1>4. cameraP \in Int /\ Indexed(Content) /\ AllEvaluated(Content.queue)
  BY DEF CVInv, CurrentInv, Content
<1>5. /\ SetContent(r) /\ oldQueue' = oldQueue /\ tasks' = tasks /\ shown' = shown
      /\ raced' = raced /\ volume' = [volume EXCEPT ![n] = @ + 1]
  BY DEF NodeVolume
<1> HIDE DEF g, b, what
<1>6. /\ Indexed(q) /\ AllEvaluated(q.queue)
      /\ \A v, G : v # g /\ KeptBy(Content, oldQueue, v, G) => KeptBy(q, oldQueue, v, G)
      /\ KeptBy(q, oldQueue, g, VolumeUpdates)
  BY <1>1, <1>3, <1>4, PutCurrent
<1> HIDE DEF q
<1>7. /\ Indexed(r) /\ AllEvaluated(r.queue)
      /\ \A v, G : v # b /\ KeptBy(q, oldQueue, v, G) => KeptBy(r, oldQueue, v, G)
      /\ KeptBy(r, oldQueue, b, VolumeUpdates)
  BY <1>1, <1>3, <1>4, <1>6, PutCurrent
<1> HIDE DEF r
<1>8. Content' = r /\ queue' = r.queue
  BY <1>5, <1>7, ContentAfter
<1>9. volume' \in [VoxelNodes -> Nat] /\ \A m \in VoxelNodes : m # n => volume'[m] = volume[m]
  BY <1>5 DEF CurrentInv
<1>10. ASSUME NEW v \in Values, volume'[v[1]] # 0, v \notin raced'
       PROVE  KeptBy(Content', oldQueue', v, Fitting(v)')
  <2>1. CASE v = g \/ v = b
    <3>1. KeptBy(r, oldQueue, v, VolumeUpdates)
      BY <1>1, <1>6, <1>7, <2>1
    <3>2. KeptBy(r, oldQueue, v, Fitting(v)')
      BY <3>1, KeptForMore, VolumeUpdatesFit
    <3> QED
      BY <1>5, <1>8, <3>2
  <2>2. CASE ~(v = g \/ v = b)
    <3>1. v[1] # n /\ v[1] \in VoxelNodes
      BY <1>2, <2>2 DEF Values
    <3>2. volume'[v[1]] = volume[v[1]]
      BY <1>9, <3>1
    <3>3. KeptBy(Content, oldQueue, v, Fitting(v))
      BY <1>5, <1>10, <3>2 DEF CurrentInv
    <3>4. KeptBy(r, oldQueue, v, Fitting(v))
      BY <1>6, <1>7, <2>2, <3>3
    <3>5. Fitting(v)' = Fitting(v)
      BY <1>5, <3>2, FittingStays
    <3> QED
      BY <1>5, <1>8, <3>4, <3>5
  <2> QED
    BY <2>1, <2>2
<1>11. AllEvaluated(queue') /\ AllEvaluated(oldQueue')
  BY <1>5, <1>7, <1>8 DEF CurrentInv
<1> QED
  BY <1>5, <1>9, <1>10, <1>11 DEF CurrentInv

\* An empty queue into which nothing is put yet.
LEMMA EmptyIsIndexed ==
  /\ <<>> \in Seq(Items) /\ ItemsOf(<<>>) = {}
  /\ \A q : Indexed(q) => Indexed([q EXCEPT !.queue = <<>>, !.set = {}])
<1>1. <<>> \in Seq(Items) /\ Len(<<>>) = 0
  OBVIOUS
<1>2. ValuesOf(<<>>) = {} /\ Distinct(<<>>) /\ Descending(<<>>) /\ ItemsOf(<<>>) = {}
  BY <1>1 DEF ValuesOf, Distinct, Descending, ItemsOf
<1> QED
  BY <1>1, <1>2 DEF Indexed

LEMMA SubSeqOfItems ==
  ASSUME NEW old \in Seq(Items), NEW count \in 0..Len(old)
  PROVE  LET rest == SubSeq(old, 1, Len(old) - count)
         IN rest \in Seq(Items) /\ ItemsOf(rest) \subseteq ItemsOf(old)
<1> DEFINE m == Len(old) - count
           rest == SubSeq(old, 1, m)
<1>1. Len(old) \in Nat /\ m \in Int /\ m <= Len(old) /\ m >= 0
  OBVIOUS
<1>2. \A i \in 1..m : i \in 1..Len(old)
  BY <1>1
<1> HIDE DEF m
<1>3. \A i \in 1..m : old[i] \in Items
  BY <1>2
<1>4. /\ rest \in Seq(Items)
      /\ Len(rest) = IF 1 <= m THEN m - 1 + 1 ELSE 0
      /\ \A i \in 1..(m - 1 + 1) : rest[i] = old[1 + i - 1]
  BY <1>1, <1>3, SubSeqProperties
<1> HIDE DEF rest
<1>5. Len(rest) = m /\ \A i \in 1..m : rest[i] = old[i]
  BY <1>1, <1>4
<1>6. ItemsOf(rest) \subseteq ItemsOf(old)
  BY <1>2, <1>5 DEF ItemsOf
<1> QED
  BY <1>4, <1>6 DEF rest, m

\* The camera moves and a part of the old queue is put anew.
LEMMA BeginFrameKeeps ==
  ASSUME CVInv, CurrentInv, NEW p \in CameraPlaces, BeginFrame(p)
  PROVE  CurrentInv'
<1> DEFINE old == IF Outdated(p) THEN queue ELSE oldQueue
           content == IF Outdated(p) THEN [Content EXCEPT !.queue = <<>>, !.set = {}]
                                     ELSE Content
<1>1. p \in Int
  BY PlacesAssumption
<1>2. /\ oldQueue \in Seq(Items) /\ queue \in Seq(Items) /\ Indexed(Content)
      /\ Content.queue = queue /\ Content.displaced = displaced
      /\ AllEvaluated(queue) /\ AllEvaluated(oldQueue)
  BY DEF CVInv, CurrentInv, Indexed, Content
<1>3. PICK count \in 0..Len(old) :
        /\ SetContent(PutAnew(content, old, count, p))
        /\ oldQueue' = SubSeq(old, 1, Len(old) - count)
  BY DEF BeginFrame
<1>4. UNCHANGED <<volume, tasks, shown, raced>>
  BY DEF BeginFrame
<1>5. old \in Seq(Items) /\ AllEvaluated(old)
  BY <1>2
<1>6. Indexed(content) /\ AllEvaluated(content.queue)
  <2>1. CASE Outdated(p)
    <3>1. content.queue = <<>> /\ Indexed(content)
      BY <1>2, <2>1, EmptyIsIndexed DEF Content
    <3> HIDE DEF content
    <3> QED
      BY <3>1, EmptyIsIndexed DEF AllEvaluated
  <2>2. CASE ~Outdated(p)
    BY <1>2, <2>2
  <2> QED
    BY <2>1, <2>2
<1>7. ASSUME NEW v, NEW G, KeptBy(Content, oldQueue, v, G)
      PROVE  KeptBy(content, old, v, G)
  <2>1. CASE Outdated(p)
    <3>1. ItemsOf(oldQueue) = {} /\ old = queue
      BY <2>1, EmptyIsIndexed DEF Outdated
    <3>2. ItemsOf(content.queue) = {} /\ content.displaced = displaced
      BY <2>1, EmptyIsIndexed DEF Content
    <3>3. \A x, y \in ItemsOf(queue) : x.value = y.value => x = y
      BY <1>2, SameItem
    <3> HIDE DEF content, old
    <3> QED
      BY <1>2, <1>7, <3>1, <3>2, <3>3 DEF KeptBy
  <2>2. CASE ~Outdated(p)
    BY <1>7, <2>2
  <2> QED
    BY <2>1, <2>2
<1> HIDE DEF content, old
<1> DEFINE q == PutAnew(content, old, count, p)
           rest == SubSeq(old, 1, Len(old) - count)
<1>8. /\ AllEvaluated(q.queue)
      /\ \A v, G : VolumeUpdates \subseteq G /\ KeptBy(content, old, v, G) =>
           KeptBy(q, rest, v, G)
  BY <1>1, <1>5, <1>6, AnewKeeps
<1>9. Indexed(q)
  BY <1>1, <1>5, <1>6, PutAnewKeepsIndex
<1>10. ItemsOf(rest) \subseteq ItemsOf(old)
  BY <1>5, SubSeqOfItems
<1> HIDE DEF q, rest
<1>11. Content' = q /\ queue' = q.queue /\ oldQueue' = rest
  BY <1>3, <1>9, ContentAfter DEF q, rest
<1>12. AllEvaluated(queue') /\ AllEvaluated(oldQueue')
  BY <1>5, <1>8, <1>10, <1>11 DEF AllEvaluated
<1>13. ASSUME NEW v \in Values, volume'[v[1]] # 0, v \notin raced'
       PROVE  KeptBy(Content', oldQueue', v, Fitting(v)')
  <2>1. KeptBy(Content, oldQueue, v, Fitting(v))
    BY <1>4, <1>13 DEF CurrentInv
  <2>2. KeptBy(q, rest, v, Fitting(v))
    BY <1>7, <1>8, <2>1, VolumeUpdatesFit
  <2>3. Fitting(v)' = Fitting(v)
    BY <1>4, FittingStays
  <2> QED
    BY <1>11, <2>2, <2>3
<1> QED
  BY <1>4, <1>12, <1>13 DEF CurrentInv

\* A task's geometry or boxes are what its value is shown as from then on.
LEMMA PostTaskKeeps ==
  ASSUME CVInv, CurrentInv, NEW i \in 1..PoolThreads, PostTask(i)
  PROVE  CurrentInv'
<1> DEFINE task == tasks[i]
<1>1. /\ tasks \in Seq(TaskDefs) /\ volume \in [VoxelNodes -> Nat]
      /\ shown \in [Values -> [what : Whats \cup {"nothing"}, volume : Nat]]
  BY DEF CurrentInv
<1>2. /\ i <= Len(tasks) /\ tasks' = RemoveAt(tasks, i)
      /\ shown' = [shown EXCEPT ![task.value] = [what |-> task.what, volume |-> task.volume]]
      /\ UNCHANGED <<queueVars, volume, raced, displaced>>
  BY DEF PostTask
<1>3. Content' = Content /\ queue' = queue /\ oldQueue' = oldQueue
  BY <1>2 DEF Content, queueVars
<1>4. i \in 1..Len(tasks)
  BY <1>1, <1>2
<1>5. task \in TaskDefs /\ task \in ItemsOf(tasks)
  BY <1>1, <1>4 DEF ItemsOf
<1>6. /\ RemoveAt(tasks, i) \in Seq(TaskDefs)
      /\ ItemsOf(RemoveAt(tasks, i)) \subseteq ItemsOf(tasks)
      /\ \A j \in 1..Len(tasks) : j # i => tasks[j] \in ItemsOf(RemoveAt(tasks, i))
  BY <1>1, <1>4, RemovedAt, ItemsAfterRemoveAt
<1>7. /\ ItemsOf(tasks') \subseteq ItemsOf(tasks)
      /\ \A t \in ItemsOf(tasks) : t # task => t \in ItemsOf(tasks')
  BY <1>2, <1>6 DEF ItemsOf
<1> HIDE DEF task
<1>8. shown' \in [Values -> [what : Whats \cup {"nothing"}, volume : Nat]]
  BY <1>1, <1>2, <1>5 DEF TaskDefs
<1>9. ASSUME NEW v \in Values PROVE Fitting(v) \subseteq Fitting(v)'
  <2> DEFINE left == {t \in ItemsOf(tasks') : t.value = v}
  <2>1. Made(v)' = IF left = {} THEN {shown'[v]} ELSE left
    BY DEF Made, TasksOf
  <2>2. \A m \in Made(v)' : \E k \in Made(v) : m.what = k.what /\ m.volume = k.volume
    <3>1. CASE left # {}
      <4>1. left \subseteq TasksOf(v) /\ TasksOf(v) # {}
        BY <1>7, <3>1 DEF TasksOf
      <4> HIDE DEF left
      <4> QED
        BY <2>1, <3>1, <4>1 DEF Made
    <3>2. CASE left = {} /\ task.value = v
      <4>1. task \in Made(v)
        BY <1>5, <3>2 DEF Made, TasksOf
      <4>2. shown'[v] = [what |-> task.what, volume |-> task.volume]
        BY <1>1, <1>2, <3>2
      <4> HIDE DEF left
      <4> QED
        BY <2>1, <3>2, <4>1, <4>2
    <3>3. CASE left = {} /\ task.value # v
      <4>1. TasksOf(v) = {}
        BY <1>7, <3>3 DEF TasksOf
      <4>2. shown'[v] = shown[v]
        BY <1>1, <1>2, <3>3
      <4> HIDE DEF left
      <4> QED
        BY <2>1, <3>3, <4>1, <4>2 DEF Made
    <3> QED
      BY <3>1, <3>2, <3>3
  <2>3. volume' = volume
    BY <1>2
  <2> HIDE DEF left
  <2>4. Fitting(v)' = VolumeUpdates \cup
          {what \in Whats : \A m \in Made(v)' : /\ m.what = what
                                                /\ what \in Cleared \/ m.volume = volume[v[1]]}
    BY <2>3 DEF Fitting
  <2> QED
    BY <2>2, <2>4 DEF Fitting
<1>10. ASSUME NEW v \in Values, volume'[v[1]] # 0, v \notin raced'
       PROVE  KeptBy(Content', oldQueue', v, Fitting(v)')
  <2>1. KeptBy(Content, oldQueue, v, Fitting(v))
    BY <1>2, <1>10 DEF CurrentInv
  <2> QED
    BY <1>3, <1>9, <2>1, KeptForMore
<1>11. AllEvaluated(queue') /\ AllEvaluated(oldQueue')
  BY <1>3 DEF CurrentInv
<1> QED
  BY <1>1, <1>2, <1>6, <1>8, <1>10, <1>11 DEF CurrentInv

LEMMA ItemsAfterAppend ==
  ASSUME NEW S, NEW s \in Seq(S), NEW e \in S
  PROVE  Append(s, e) \in Seq(S) /\ ItemsOf(Append(s, e)) = ItemsOf(s) \cup {e}
<1> DEFINE t == Append(s, e)
           n == Len(s)
<1>1. n \in Nat /\ t \in Seq(S) /\ Len(t) = n + 1 /\ t[n + 1] = e
      /\ \A i \in 1..n : t[i] = s[i]
  OBVIOUS
<1> HIDE DEF t, n
<1>2. n + 1 \in 1..(n + 1) /\ (\A i \in 1..n : i \in 1..(n + 1))
      /\ \A i \in 1..(n + 1) : i = n + 1 \/ i \in 1..n
  BY <1>1
<1> QED
  BY <1>1, <1>2 DEF ItemsOf, t, n

\* The update that is taken out, and what it leaves.
LEMMA PoppedIs ==
  ASSUME CVInv, CurrentInv, queue # <<>>
  PROVE  /\ Last(queue).value \in Values /\ Indexed(Popped) /\ AllEvaluated(Popped.queue)
         /\ Last(queue).value \notin Popped.set
         /\ \A v, G : v # Last(queue).value /\ KeptBy(Content, oldQueue, v, G) =>
              KeptBy(Popped, oldQueue, v, G)
<1>1. /\ queue \in Seq(Items) /\ Indexed(Content) /\ AllEvaluated(queue)
      /\ Distinct(queue) /\ Descending(queue)
      /\ Content.queue = queue /\ Content.displaced = displaced
  BY DEF CVInv, CurrentInv, Indexed, Content
<1>2. Indexed(Popped) /\ Last(queue) \in Items
  BY <1>1, PopKeepsIndex
<1>3. /\ ItemsOf(Front(queue)) \subseteq ItemsOf(queue)
      /\ \A x \in ItemsOf(queue) : x # Last(queue) => x \in ItemsOf(Front(queue))
  BY <1>1, ItemsOfFront
<1>4. ValuesOf(Front(queue)) = ValuesOf(queue) \ {Last(queue).value}
  BY <1>1, FrontKeepsOrder
<1>5. Popped.queue = Front(queue) /\ Popped.displaced = displaced \ {Last(queue).value}
  BY DEF Popped
<1>6. Last(queue).value \in Values
  BY <1>2 DEF Items
<1>7. Last(queue).value \notin Popped.set
  BY <1>2, <1>4, <1>5 DEF Indexed
<1>8. AllEvaluated(Popped.queue)
  BY <1>1, <1>3, <1>5 DEF AllEvaluated
<1>9. ASSUME NEW v, NEW G, v # Last(queue).value, KeptBy(Content, oldQueue, v, G)
      PROVE  KeptBy(Popped, oldQueue, v, G)
  BY <1>1, <1>3, <1>5, <1>9 DEF KeptBy
<1> QED
  BY <1>2, <1>6, <1>7, <1>8, <1>9

LEMMA WantedIsUpdate ==
  ASSUME NEW value \in Values
  PROVE  Wanted(value) \in UpdatesOf(value[2]) /\ Wanted(value) \in Whats
<1>1. CASE value[2] = "physics"
  BY <1>1 DEF Wanted, UpdatesOf, Whats
<1>2. CASE value[2] # "physics"
  BY <1>2 DEF Wanted, UpdatesOf, Whats
<1> QED
  BY <1>1, <1>2

\* The update that is due is followed by that of what the node gets.
LEMMA HandleUpdateKeeps ==
  ASSUME CVInv, CurrentInv, HandleUpdate
  PROVE  CurrentInv'
<1>0. PICK value \in Values : value = Last(queue).value
  BY PoppedIs DEF HandleUpdate, NextIsDue
<1> DEFINE what == Wanted(value)
           q == Popped
           r == Put(q, value, what)
           task == [value |-> value, what |-> what, volume |-> volume[value[1]]]
           clear == [what |-> what, volume |-> 0]
<1>1. /\ queue # <<>> /\ SetContent(r) /\ UNCHANGED <<oldQueue, volume>>
      /\ \/ what \in Cleared /\ shown' = [shown EXCEPT ![value] = clear] /\ tasks' = tasks
         \/ what \notin Cleared /\ tasks' = Append(tasks, task) /\ shown' = shown
      /\ raced' = IF InFlight(value) THEN raced \cup {value} ELSE raced \ {value}
  BY <1>0 DEF HandleUpdate, NextIsDue, Clear, RequestTask
<1>2. /\ tasks \in Seq(TaskDefs) /\ volume \in [VoxelNodes -> Nat]
      /\ shown \in [Values -> [what : Whats \cup {"nothing"}, volume : Nat]]
      /\ cameraP \in Int /\ AllEvaluated(oldQueue)
  BY DEF CurrentInv, CVInv
<1>3. /\ value \in Values /\ Indexed(q) /\ AllEvaluated(q.queue) /\ value \notin q.set
      /\ \A v, G : v # value /\ KeptBy(Content, oldQueue, v, G) => KeptBy(q, oldQueue, v, G)
  BY <1>0, <1>1, PoppedIs
<1> HIDE DEF q
<1>4. what \in UpdatesOf(value[2]) /\ what \in Whats
  BY <1>3, WantedIsUpdate
<1> HIDE DEF what
<1>5. /\ Indexed(r) /\ AllEvaluated(r.queue)
      /\ \A v, G : v # value /\ KeptBy(q, oldQueue, v, G) => KeptBy(r, oldQueue, v, G)
  BY <1>2, <1>3, <1>4, PutCurrent
<1>6. \E x \in ItemsOf(r.queue) : x.value = value /\ x.what = what
  <2> DEFINE x == Evaluate(value, what, cameraP)
  <2>1. x \in Items /\ x.value = value /\ x.what = what
    BY <1>2, <1>3, <1>4, EvaluatedAnew
  <2>2. r = PutItem(q, x)
    BY DEF Put
  <2> HIDE DEF x, r
  <2>3. PutDoes(q, x, r)
    BY <1>3, <2>1, <2>2, PutItemDoes
  <2>4. \A o \in ItemsOf(q.queue) : o.value # value
    BY <1>3, SetIsOfItems
  <2> QED
    BY <2>1, <2>3, <2>4 DEF PutDoes
<1> HIDE DEF r
<1>7. Content' = r /\ queue' = r.queue
  BY <1>1, <1>5, ContentAfter
<1>8. task \in TaskDefs /\ task.value = value /\ task.what = what /\ task.volume = volume[value[1]]
  <2>1. volume[value[1]] \in Nat
    BY <1>2, <1>3 DEF Values
  <2> QED
    BY <1>3, <1>4, <2>1 DEF TaskDefs
<1> HIDE DEF task
<1>9. /\ tasks' \in Seq(TaskDefs)
      /\ what \notin Cleared => ItemsOf(tasks') = ItemsOf(tasks) \cup {task}
  <2>1. /\ Append(tasks, task) \in Seq(TaskDefs)
        /\ ItemsOf(Append(tasks, task)) = ItemsOf(tasks) \cup {task}
    BY <1>2, <1>8, ItemsAfterAppend
  <2> QED
    BY <1>1, <1>2, <2>1
<1>10. /\ shown' \in [Values -> [what : Whats \cup {"nothing"}, volume : Nat]]
       /\ what \in Cleared => shown'[value] = clear
       /\ \A v \in Values : v # value => shown'[v] = shown[v]
  BY <1>1, <1>2, <1>3, <1>4
<1>11. ASSUME NEW v \in Values, v # value PROVE Fitting(v)' = Fitting(v)
  <2>1. TasksOf(v)' = TasksOf(v)
    BY <1>1, <1>8, <1>9, <1>11 DEF TasksOf
  <2>2. Made(v)' = Made(v)
    BY <1>10, <1>11, <2>1 DEF Made
  <2> QED
    BY <1>1, <2>2 DEF Fitting
<1>12. ASSUME value \notin raced' PROVE what \in Fitting(value)'
  <2>1. ~InFlight(value)
    BY <1>1, <1>12
  <2>2. TasksOf(value) = {}
    BY <2>1 DEF InFlight, TasksOf, ItemsOf
  <2>3. ASSUME what \in Cleared PROVE Made(value)' = {clear}
    <3>1. TasksOf(value)' = {}
      BY <1>1, <2>2, <2>3 DEF TasksOf
    <3> QED
      BY <1>10, <2>3, <3>1 DEF Made
  <2>4. ASSUME what \notin Cleared PROVE Made(value)' = {task}
    <3>1. TasksOf(value)' = {task}
      BY <1>8, <1>9, <2>2, <2>4 DEF TasksOf
    <3> QED
      BY <3>1 DEF Made
  <2>5. clear.what = what /\ volume'[value[1]] = task.volume
    BY <1>1, <1>8
  <2> HIDE DEF clear
  <2>6. \A m \in Made(value)' :
          m.what = what /\ (what \in Cleared \/ m.volume = volume'[value[1]])
    BY <1>8, <2>3, <2>4, <2>5
  <2> QED
    BY <1>4, <2>6 DEF Fitting
<1>13. ASSUME NEW v \in Values, volume'[v[1]] # 0, v \notin raced'
       PROVE  KeptBy(Content', oldQueue', v, Fitting(v)')
  <2>1. CASE v = value
    BY <1>6, <1>7, <1>12, <1>13, <2>1 DEF KeptBy
  <2>2. CASE v # value
    <3>1. v \notin raced /\ volume[v[1]] # 0
      BY <1>1, <1>13, <2>2
    <3>2. KeptBy(Content, oldQueue, v, Fitting(v))
      BY <3>1 DEF CurrentInv
    <3>3. KeptBy(r, oldQueue, v, Fitting(v))
      BY <1>3, <1>5, <2>2, <3>2
    <3> QED
      BY <1>1, <1>7, <1>11, <2>2, <3>3
  <2> QED
    BY <2>1, <2>2
<1>14. AllEvaluated(queue') /\ AllEvaluated(oldQueue') /\ volume' \in [VoxelNodes -> Nat]
  BY <1>1, <1>2, <1>5, <1>7
<1> QED
  BY <1>9, <1>10, <1>13, <1>14 DEF CurrentInv

LEMMA CurrentInvariance == CVSpec => []CurrentInv
<1>1. CVInit => CurrentInv
  <2> SUFFICES ASSUME CVInit PROVE CurrentInv
    OBVIOUS
  <2>1. <<>> \in Seq(TaskDefs) /\ ItemsOf(<<>>) = {}
    <3>1. <<>> \in Seq(TaskDefs) /\ Len(<<>>) = 0
      OBVIOUS
    <3> QED
      BY <3>1 DEF ItemsOf
  <2>2. AllEvaluated(<<>>)
    BY <2>1 DEF AllEvaluated
  <2>3. \A v \in Values : volume[v[1]] = 0
    BY DEF CVInit, Values
  <2> QED
    BY <2>1, <2>2, <2>3 DEF CVInit, CurrentInv
<1>2. CVInv /\ CurrentInv /\ [CVNext]_cvVars => CurrentInv'
  <2> SUFFICES ASSUME CVInv, CurrentInv, [CVNext]_cvVars PROVE CurrentInv'
    OBVIOUS
  <2>1. ASSUME UNCHANGED <<queueVars, volume, tasks, shown, raced, displaced>>
        PROVE  CurrentInv'
    <3>1. Content' = Content /\ queue' = queue /\ oldQueue' = oldQueue
      BY <2>1 DEF Content, queueVars
    <3>2. \A v \in Values : Fitting(v)' = Fitting(v)
      BY <2>1, FittingStays
    <3> QED
      BY <2>1, <3>1, <3>2 DEF CurrentInv
  <2>2. CASE EndFrame
    BY <2>1, <2>2 DEF EndFrame
  <2>3. CASE UNCHANGED cvVars
    BY <2>1, <2>3 DEF cvVars
  <2> QED
    BY <2>2, <2>3, NodeVolumeKeeps, BeginFrameKeeps, HandleUpdateKeeps, PostTaskKeeps
       DEF CVNext
<1> QED
  BY <1>1, <1>2, CVInvariance, PTL DEF CVSpec

-----------------------------------------------------------------------------
(* ClientVoxels: what is not due                                           *)

LEMMA ProductsGrow ==
  ASSUME NEW a \in Nat, NEW b \in Nat, NEW c \in Nat, NEW e \in Nat, a <= b, c <= e
  PROVE  a * c <= b * e
<1>1. \A m, n, k \in Nat : m <= n => m * k <= n * k
  OBVIOUS
<1>2. a * c <= b * c
  BY <1>1
<1>3. c * b <= e * b
  BY <1>1
<1>4. c * b = b * c /\ e * b = b * e /\ a * c \in Nat /\ b * c \in Nat /\ b * e \in Nat
  OBVIOUS
<1> QED
  BY <1>2, <1>3, <1>4

\* An item that is not due waits with reason: its value is beyond the distance
\* at which it comes near, and within that at which it is far; but the far
\* trigger of "lod4" may be passed over for the near one, which weighs more.
LEMMA NotDue ==
  ASSUME NEW value \in Values, NEW what \in Whats, NEW p \in Int,
         ~Due(Evaluate(value, what, p))
  PROVE  /\ Near(what) # Never => Distance(value, p) > Near(what)[1]
         /\ Far(what) # Never => Distance(value, p) < Far(what)[1] \/ what = "lod4"
<1> DEFINE d == Distance(value, p)
           near == Near(what)
           far == Far(what)
           nearItem == [value |-> value, what |-> what, d |-> d,
                        f |-> <<d, near[1]>>, fw |-> <<d * 20, near[1] * near[2]>>]
           farItem == [value |-> value, what |-> what, d |-> d,
                       f |-> <<far[1], d>>, fw |-> <<far[1] * 20, d * far[2]>>]
           x == Evaluate(value, what, p)
<1>1. d \in Nat
  BY DistanceIsNatural
<1>2. /\ near # Never => near[1] \in Nat \ {0} /\ near[2] \in Nat \ {0}
      /\ far # Never => far[1] \in Nat \ {0} /\ far[2] \in Nat \ {0}
      /\ near = Never => far # Never
  BY TriggersArePositive
<1>3. x = IF near = Never THEN farItem
          ELSE IF far # Never /\ Less(farItem.fw, nearItem.fw) /\ Less(farItem.f, nearItem.f)
            THEN farItem ELSE nearItem
  BY DEF Evaluate
<1>4. ~Due(x)
  OBVIOUS
<1>5. /\ Less(farItem.f, nearItem.f) <=> far[1] * near[1] < d * d
      /\ Less(farItem.fw, nearItem.fw)
           <=> (far[1] * 20) * (near[1] * near[2]) < (d * 20) * (d * far[2])
      /\ Due(farItem) <=> far[1] <= d
      /\ Due(nearItem) <=> d <= near[1]
  BY DEF Less, Due
<1>6. ASSUME near # Never, far # Never, ~Less(farItem.fw, nearItem.fw)
      PROVE  d < far[1] \/ what = "lod4"
  <2>1. ~((far[1] * 20) * (near[1] * near[2]) < (d * 20) * (d * far[2]))
    BY <1>5, <1>6
  <2>2. what \in {"lod2", "lod3", "lod4"}
    BY <1>6 DEF Near, Far, Never, Whats
  <2>3. CASE what = "lod2"
    <3>1. near[1] = 64 /\ near[2] = 15 /\ far[1] = 192 /\ far[2] = 8
      BY <2>3 DEF Near, Far
    <3>2. d >= 192 => 192 * 192 <= d * d
      BY <1>1, ProductsGrow
    <3>3. \A n \in Nat : (n * 20) * (n * 8) = 160 * (n * n)
      OBVIOUS
    <3>4. (d * 20) * (d * 8) = 160 * (d * d) /\ d * d \in Nat
      BY <1>1, <3>3
    <3> HIDE DEF d, near, far
    <3> QED
      BY <1>1, <2>1, <3>1, <3>2, <3>4
  <2>4. CASE what = "lod3"
    <3>1. near[1] = 128 /\ near[2] = 12 /\ far[1] = 288 /\ far[2] = 8
      BY <2>4 DEF Near, Far
    <3>2. d >= 288 => 288 * 288 <= d * d
      BY <1>1, ProductsGrow
    <3>3. \A n \in Nat : (n * 20) * (n * 8) = 160 * (n * n)
      OBVIOUS
    <3>4. (d * 20) * (d * 8) = 160 * (d * d) /\ d * d \in Nat
      BY <1>1, <3>3
    <3> HIDE DEF d, near, far
    <3> QED
      BY <1>1, <2>1, <3>1, <3>2, <3>4
  <2> QED
    BY <2>2, <2>3, <2>4
<1> HIDE DEF d, near, far
<1>7. CASE x = nearItem /\ near # Never
  <2>1. d > near[1]
    BY <1>1, <1>2, <1>4, <1>5, <1>7
  <2>2. ASSUME far # Never PROVE d < far[1] \/ what = "lod4"
    <3>1. CASE ~Less(farItem.fw, nearItem.fw)
      BY <1>6, <1>7, <2>2, <3>1
    <3>2. CASE ~Less(farItem.f, nearItem.f)
      <4>1. ~(far[1] * near[1] < d * d)
        BY <1>5, <3>2
      <4>2. ASSUME far[1] <= d PROVE FALSE
        <5>1. far[1] * d <= d * d
          BY <1>1, <1>2, <2>2, <4>2, ProductsGrow
        <5>2. \A m, n, k \in Nat : m # 0 /\ n < k => m * n < m * k
          OBVIOUS
        <5>3. far[1] * near[1] < far[1] * d
          BY <1>1, <1>2, <1>7, <2>1, <2>2, <5>2
        <5>4. far[1] * near[1] \in Nat /\ far[1] * d \in Nat /\ d * d \in Nat
          BY <1>1, <1>2, <1>7, <2>2
        <5> QED
          BY <4>1, <5>1, <5>3, <5>4
      <4> QED
        BY <1>1, <1>2, <2>2, <4>2
    <3>3. Less(farItem.fw, nearItem.fw) /\ Less(farItem.f, nearItem.f) => x = farItem
      BY <1>3, <1>7, <2>2
    <3>4. x = farItem => d < far[1]
      BY <1>1, <1>2, <1>4, <1>5, <2>2
    <3> QED
      BY <3>1, <3>2, <3>3, <3>4
  <2> QED
    BY <2>1, <2>2 DEF d, near, far
<1>8. CASE x = farItem /\ far # Never
  <2>1. d < far[1]
    BY <1>1, <1>2, <1>4, <1>5, <1>8
  <2>2. ASSUME near # Never PROVE d > near[1]
    <3>1. CASE x = nearItem
      BY <1>1, <1>2, <1>4, <1>5, <2>2, <3>1
    <3>2. CASE x # nearItem
      <4>1. far[1] * near[1] < d * d
        BY <1>3, <1>5, <2>2, <3>2
      <4>2. d <= near[1] => d * d <= far[1] * near[1]
        BY <1>1, <1>2, <1>8, <2>1, <2>2, ProductsGrow
      <4>3. far[1] * near[1] \in Nat /\ d * d \in Nat
        BY <1>1, <1>2, <1>8, <2>2
      <4> QED
        BY <1>1, <1>2, <2>2, <4>1, <4>2, <4>3
    <3> QED
      BY <3>1, <3>2
  <2> QED
    BY <2>1, <2>2 DEF d, near, far
<1> QED
  BY <1>2, <1>3, <1>7, <1>8

\* When nothing is left to be done, a node near enough has the geometry and the
\* boxes of its last volume, for the distance at which it is: for any nodes,
\* places of them and of the camera, far clip distance, and number of volumes,
\* tasks and threads, no update is lost between the two queues, or discarded
\* for one that is not due, but where an older one or one of the camera
\* displaced it.
THEOREM NodesStayCurrent == CVSpec => []NodesAreCurrent
<1>1. CVInv /\ CurrentInv => NodesAreCurrent
  <2> SUFFICES ASSUME CVInv, CurrentInv, Settled, NEW v \in Values,
                      volume[v[1]] # 0, v \notin raced \cup displaced, ~Misjudged(v),
                      ~(Distance(v, cameraP) + Slack >= Reach(v))
               PROVE  LET d == Distance(v, cameraP)
                          what == shown[v].what
                      IN /\ what # "nothing"
                         /\ what \notin Cleared => shown[v].volume = volume[v[1]]
                         /\ Near(what) # Never => d + Slack > Near(what)[1]
                         /\ Far(what) # Never => d < Far(what)[1] + Slack
    BY DEF NodesAreCurrent
  <2> DEFINE d == Distance(v, cameraP)
             w == shown[v].what
  <2>1. /\ cameraP \in Int /\ queue \in Seq(Items) /\ Descending(queue)
        /\ AllEvaluated(queue) /\ d \in Nat
        /\ Content.queue = queue /\ Content.displaced = displaced
    BY DistanceIsNatural DEF CVInv, CurrentInv, Indexed, Content
  <2>2. KeptBy(Content, oldQueue, v, Fitting(v))
    BY DEF CurrentInv
  <2>3. tasks = <<>> /\ oldQueue = <<>> /\ ~NextIsDue
    BY DEF Settled
  <2>4. ItemsOf(<<>>) = {}
    BY EmptyIsIndexed
  <2>5. PICK i \in 1..Len(queue) : queue[i].value = v /\ queue[i].what \in Fitting(v)
    BY <2>1, <2>2, <2>3, <2>4 DEF KeptBy, ItemsOf
  <2> DEFINE x == queue[i]
  <2>6. Len(queue) \in Nat /\ i \in 1..Len(queue) /\ queue # <<>>
    BY <2>1, <2>5
  <2>7. ~Due(x)
    <3>1. Last(queue) = queue[Len(queue)] /\ ~Due(Last(queue))
      BY <2>3, <2>6 DEF NextIsDue, Last
    <3>2. CASE i = Len(queue)
      BY <3>1, <3>2
    <3>3. CASE i < Len(queue)
      <4>1. Len(queue) \in 1..Len(queue)
        BY <2>6
      <4>2. ~Greater(queue[Len(queue)], x)
        BY <2>1, <2>6, <3>3, <4>1 DEF Descending
      <4> QED
        BY <3>1, <4>2 DEF Greater, Due
    <3> QED
      BY <2>6, <3>2, <3>3
  <2>8. /\ Evaluated(x) /\ x.value = v
        /\ x.what \in Fitting(v) /\ ~(Abs(x.d - d) > Slack)
    <3>1. ~(Abs(x.d - d) > Slack)
      BY <2>5 DEF Misjudged
    <3> QED
      BY <2>1, <2>5, <3>1 DEF AllEvaluated, ItemsOf
  <2> HIDE DEF x
  <2>9. x.what \in Whats /\ x.what \in UpdatesOf(v[2])
    BY <2>8, UpdatesAreWhats DEF Evaluated
  <2>10. PICK p \in Int : x = Evaluate(v, x.what, p)
    BY <2>8 DEF Evaluated
  <2>11. x.d = Distance(v, p) /\ x.d \in Nat
    <3>1. Evaluate(v, x.what, p).d = Distance(v, p)
      BY <2>9, EvaluateIsItem
    <3>2. Distance(v, p) \in Nat
      BY DistanceIsNatural
    <3> QED
      BY <2>10, <3>1, <3>2
  <2>12. x.d - d <= 20 /\ d - x.d <= 20
    BY <2>1, <2>8, <2>11 DEF Abs, Slack
  <2>13. /\ Near(x.what) # Never => x.d > Near(x.what)[1]
         /\ Far(x.what) # Never => x.d < Far(x.what)[1] \/ x.what = "lod4"
    <3>1. ~Due(Evaluate(v, x.what, p))
      BY <2>7, <2>10
    <3> QED
      BY <2>9, <2>11, <3>1, NotDue
  <2>14. d + 20 < Reach(v)
    <3>1. Reach(v) \in Nat
      BY PlacesAssumption DEF Reach
    <3> QED
      BY <2>1, <3>1 DEF Slack
  <2> HIDE DEF d
  <2>15. x.what \notin VolumeUpdates
    <3> SUFFICES ASSUME x.what \in VolumeUpdates PROVE FALSE
      OBVIOUS
    <3>1. Near(x.what)[1] = Reach(v) /\ Near(x.what) # Never
      <4>1. v[2] \in Types
        BY DEF Values
      <4>2. \A a, b : <<a, b>> # <<>>
        OBVIOUS
      <4>3. CASE x.what = "boxes"
        BY <2>9, <4>1, <4>2, <4>3 DEF Near, Never, Reach, UpdatesOf, Types
      <4>4. CASE x.what \in {"initial", "modified"}
        BY <2>9, <4>1, <4>2, <4>4 DEF Near, Never, Reach, UpdatesOf, Types
      <4> QED
        BY <4>3, <4>4 DEF VolumeUpdates
    <3>2. Reach(v) \in Nat
      BY PlacesAssumption DEF Reach
    <3> QED
      BY <2>1, <2>11, <2>12, <2>13, <2>14, <3>1, <3>2
  <2>16. Made(v) = {shown[v]}
    BY <2>3, <2>4 DEF Made, TasksOf
  <2>17. w = x.what /\ (w \in Cleared \/ shown[v].volume = volume[v[1]])
    BY <2>8, <2>15, <2>16 DEF Fitting
  <2> HIDE DEF w
  <2>18. w # "nothing"
    BY <2>9, <2>17 DEF Whats
  <2>19. ASSUME Near(w) # Never PROVE d + 20 > Near(w)[1]
    <3>1. Near(w)[1] \in Nat
      BY <2>9, <2>17, <2>19, TriggersArePositive
    <3> QED
      BY <2>1, <2>11, <2>12, <2>13, <2>17, <2>19, <3>1
  <2>20. ASSUME Far(w) # Never PROVE d < Far(w)[1] + 20
    <3>1. Far(w)[1] \in Nat
      BY <2>9, <2>17, <2>20, TriggersArePositive
    <3>2. CASE w # "lod4"
      BY <2>1, <2>11, <2>12, <2>13, <2>17, <2>20, <3>1, <3>2
    <3>3. CASE w = "lod4"
      <4>1. Far(w)[1] = (FarClip * 14) \div 10
        BY <3>3 DEF Far
      <4>2. Reach(v) = (FarClip * 12) \div 10
        BY <2>9, <2>17, <3>3 DEF Reach, UpdatesOf
      <4>3. (FarClip * 12) \div 10 <= (FarClip * 14) \div 10
        BY PlacesAssumption
      <4>4. (FarClip * 12) \div 10 \in Nat
        BY PlacesAssumption
      <4> QED
        BY <2>1, <2>14, <3>1, <4>1, <4>2, <4>3, <4>4
    <3> QED
      BY <3>2, <3>3
  <2> QED
    BY <2>17, <2>18, <2>19, <2>20 DEF d, w, Slack
<1> QED
  BY <1>1, CVInvariance, CurrentInvariance, PTL

-----------------------------------------------------------------------------
(* VoxelRegistry: the inductive invariant                                  *)

LodSides == {"own", "top", "semibright1", "semibright2", "side"}

SegmentDefs ==
  [image : {b.sides[f] : b \in Blocks, f \in Faces}, lod : Lods \X LodSides,
   total : (Nat \ {0}) \X (Nat \ {0}), select : Int \X Int]

VoxelDefs ==
  [name : {b.name : b \in Blocks} \X (Int \X Int \X Int), textures : [Faces -> SegmentDefs]]

\* What AddSegment and AddTo give an atlas of this resolution.
TotalOf(r) == <<(MaxResolution \div r[1]) \div 2, (MaxResolution \div r[2]) \div 2>>
PlaceIn(r, n) == SegmentPlace([resolution |-> r, total |-> TotalOf(r)], n)

Resolutions == Nat \X Nat
Spots == {<<>>} \cup {PlaceIn(r, n) : r \in Resolutions, n \in Nat}

AtlasDefs ==
  [resolution : Resolutions, total : {TotalOf(r) : r \in Resolutions},
   segments : Seq(SegmentDefs),
   drawn : Seq(Spots)]

Whole(seg) == seg.total = <<1, 1>>

\* An atlas of this resolution has room for a segment.
Sized(r) == r[1] > 0 /\ r[2] > 0 /\ 2 * r[1] <= MaxResolution /\ 2 * r[2] <= MaxResolution

\* Whole images are in atlases of their size, and all that is in an atlas is
\* drawn in its place, if there is room for anything.
AtlasIsRight(atlas) ==
  LET n == Len(atlas.segments)
  IN /\ Len(atlas.drawn) = n
     /\ atlas.total = TotalOf(atlas.resolution)
     /\ \A k \in 1..n :
          /\ atlas.segments[k].image \in DOMAIN Images
          /\ Whole(atlas.segments[k]) => atlas.resolution = Images[atlas.segments[k].image]
     /\ Sized(atlas.resolution) =>
          \A k \in 1..n : /\ k <= atlas.total[1] * atlas.total[2]
                          /\ atlas.drawn[k] = PlaceIn(atlas.resolution, k - 1)

AtlasesAreRight(all) ==
  all \in Seq(AtlasDefs) /\ \A a \in 1..Len(all) : AtlasIsRight(all[a])

\* Segments stay where they are when others are added.
Grows(all, more) ==
  \A a \in 1..Len(all) :
    /\ a \in 1..Len(more)
    /\ \A k \in 1..Len(all[a].segments) :
         /\ k \in 1..Len(more[a].segments)
         /\ more[a].segments[k] = all[a].segments[k]

RefersTo(all, ref, seg) ==
  /\ ref.atlas \in 1..Len(all)
  /\ ref.segment \in 1..Len(all[ref.atlas].segments)
  /\ all[ref.atlas].segments[ref.segment] = seg

Textured(all, refs, def) ==
  \A f \in Faces, l \in Lods :
    def.textures[f].image # "" =>
      RefersTo(all, refs[<<f, l>>], Simulated(def.textures[f], f, l))

Refs == [Faces \X Lods -> [atlas : Int, segment : Nat]]
CachedDefs == [valid : BOOLEAN, textured : BOOLEAN, refs : Refs]

CacheInv ==
  /\ DOMAIN cached \subseteq DOMAIN defs
  /\ \A id \in DOMAIN cached :
       /\ cached[id] \in CachedDefs
       /\ cached[id].textured => Textured(atlases, cached[id].refs, defs[id])

Jobs ==
  [at : {"none"}] \cup
  [at : {"preloaded", "generating", "generated"}, id : Nat, of : VoxelDefs,
   torn : BOOLEAN, drawn : Refs]

\* Until a task has read the registries they are as it needs them, unless it is
\* torn.
JobIsRight(job) ==
  /\ job.at # "none" => job.id \in 1..Len(defs)
  /\ job.at \in {"preloaded", "generating"} /\ ~job.torn =>
       /\ job.id \in DOMAIN cached /\ cached[job.id].textured
       /\ job.of = defs[job.id]
  /\ job.at = "generated" /\ ~job.torn => Textured(atlases, job.drawn, job.of)

Count(b) == b.size[1] * b.size[2] * b.size[3]

BlockDef(b, base) ==
  [name |-> b.name, size |-> b.size, segments |-> [i \in 1..Count(b) |-> base + i]]

BlockDefs == {BlockDef(b, base) : b \in Blocks, base \in Nat}

\* A block has the voxels that were generated for it.
BlockIsRight(all, block) ==
  \E b \in Blocks, base \in Nat :
    /\ block = BlockDef(b, base)
    /\ \A i \in 1..Count(b) : /\ base + i \in 1..Len(all)
                              /\ all[base + i] = SegmentVoxels(b)[i]

BlocksInv ==
  /\ blocks \in Seq(BlockDefs)
  /\ \A k \in 1..Len(blocks) : BlockIsRight(definitions, blocks[k])

VRInv ==
  /\ definitions \in Seq(VoxelDefs) /\ defs \in Seq(VoxelDefs)
  /\ Len(defs) <= Len(definitions)
  /\ AtlasesAreRight(atlases)
  /\ CacheInv
  /\ jobs \in [1..Tasks -> Jobs] /\ \A t \in 1..Tasks : JobIsRight(jobs[t])
  /\ BlocksInv

-----------------------------------------------------------------------------
(* VoxelRegistry: rows and columns                                         *)

LEMMA Divided ==
  ASSUME NEW n \in Nat, NEW s \in Nat \ {0}
  PROVE  /\ n \div s \in Nat /\ n % s \in 0..(s - 1)
         /\ n = s * (n \div s) + (n % s)
OBVIOUS

LEMMA DividedBelow ==
  ASSUME NEW n \in Nat, NEW s \in Nat \ {0}, NEW m \in Nat, n < s * m
  PROVE  n \div s < m
<1> DEFINE q == n \div s
<1>1. q \in Nat /\ n >= s * q
  BY Divided
<1> HIDE DEF q
<1>2. CASE q >= m
  <2>1. s * q >= s * m
    <3>1. PICK d \in Nat : q = m + d
      BY <1>1, <1>2
    <3>2. s * q = s * m + s * d /\ s * d \in Nat /\ s * m \in Nat
      BY <3>1
    <3> QED
      BY <3>2
  <2> QED
    BY <1>1, <2>1
<1> QED
  BY <1>1, <1>2 DEF q

LEMMA DividedBack ==
  ASSUME NEW s \in Nat \ {0}, NEW x \in 0..(s - 1), NEW q \in Nat
  PROVE  (x + s * q) \div s = q /\ (x + s * q) % s = x
<1> DEFINE n == x + s * q
<1>1. n \in Nat
  OBVIOUS
<1>2. n \div s \in Nat /\ n % s \in 0..(s - 1) /\ n = s * (n \div s) + (n % s)
  BY <1>1, Divided
<1>3. \A a, b \in Nat : a < b => s * a + s <= s * b
  <2> SUFFICES ASSUME NEW a \in Nat, NEW b \in Nat, a < b PROVE s * a + s <= s * b
    OBVIOUS
  <2>1. PICK d \in Nat : b = a + 1 + d
    <3>1. b - a - 1 \in Nat /\ b = a + 1 + (b - a - 1)
      OBVIOUS
    <3> QED
      BY <3>1
  <2>2. s * b = s * a + s + s * d /\ s * d \in Nat /\ s * a \in Nat
    BY <2>1
  <2> QED
    BY <2>2
<1>4. n = s * q + x
  OBVIOUS
<1> HIDE DEF n
<1>5. n \div s = q
  <2> DEFINE r == n \div s
             m == n % s
  <2>1. r \in Nat /\ m \in 0..(s - 1) /\ n = s * r + m
    BY <1>2
  <2> HIDE DEF r, m
  <2>2. ~(r < q) /\ ~(q < r)
    <3>1. s * r \in Nat /\ s * q \in Nat
      BY <2>1
    <3> QED
      BY <2>1, <1>3, <1>4, <3>1
  <2> QED
    BY <2>1, <2>2 DEF r
<1> QED
  BY <1>2, <1>4, <1>5 DEF n


-----------------------------------------------------------------------------
(* VoxelRegistry: the segments of a block                                  *)

Sizes == (Nat \ {0}) \X (Nat \ {0}) \X (Nat \ {0})
Box(s) == (0..(s[1] - 1)) \X (0..(s[2] - 1)) \X (0..(s[3] - 1))

LEMMA SegmentIsInside ==
  ASSUME NEW s \in Sizes, NEW i \in 1..(s[1] * s[2] * s[3])
  PROVE  /\ SegmentAt(s, i) \in Box(s)
         /\ i = 1 + SegmentAt(s, i)[1] + s[1] * (SegmentAt(s, i)[2] + s[2] * SegmentAt(s, i)[3])
<1> DEFINE n == i - 1
           m == s[2] * s[3]
           q == n \div s[1]
           z == q \div s[2]
<1>1. s[1] \in Nat \ {0} /\ s[2] \in Nat \ {0} /\ s[3] \in Nat \ {0}
  BY DEF Sizes
<1>2. m \in Nat
  BY <1>1
<1>3. s[1] * s[2] * s[3] = s[1] * m
  BY <1>1
<1> HIDE DEF m
<1>4. n \in Nat /\ n < s[1] * m /\ i = 1 + n
  <2>1. s[1] * m \in Nat
    BY <1>1, <1>2
  <2> QED
    BY <1>3, <2>1
<1> HIDE DEF n
<1>5. q \in Nat /\ n % s[1] \in 0..(s[1] - 1) /\ n = s[1] * q + (n % s[1]) /\ q < m
  BY <1>1, <1>2, <1>4, Divided, DividedBelow
<1> HIDE DEF q
<1>6. /\ z \in Nat /\ q % s[2] \in 0..(s[2] - 1) /\ q = s[2] * z + (q % s[2])
      /\ z < s[3]
  BY <1>1, <1>5, Divided, DividedBelow DEF m
<1>7. SegmentAt(s, i) = <<n % s[1], q % s[2], z>>
  BY DEF SegmentAt, n, q
<1> HIDE DEF z
<1>8. q = (q % s[2]) + s[2] * z
  <2>1. s[2] * z \in Nat
    BY <1>1, <1>6
  <2> QED
    BY <1>6, <2>1
<1>9. i = 1 + (n % s[1]) + s[1] * q
  <2>1. s[1] * q \in Nat
    BY <1>1, <1>5
  <2> QED
    BY <1>4, <1>5, <2>1
<1> DEFINE a == n % s[1]
           b == q % s[2]
<1>10. /\ a \in 0..(s[1] - 1) /\ b \in 0..(s[2] - 1) /\ z \in 0..(s[3] - 1)
       /\ SegmentAt(s, i) = <<a, b, z>> /\ q = b + s[2] * z /\ i = 1 + a + s[1] * q
  BY <1>1, <1>5, <1>6, <1>7, <1>8, <1>9
<1> HIDE DEF a, b
<1> QED
  BY <1>10 DEF Box

LEMMA SegmentIsThere ==
  ASSUME NEW s \in Sizes, NEW p \in Box(s)
  PROVE  \E i \in 1..(s[1] * s[2] * s[3]) : SegmentAt(s, i) = p
<1> DEFINE q == p[2] + s[2] * p[3]
           n == p[1] + s[1] * q
<1>1. s[1] \in Nat \ {0} /\ s[2] \in Nat \ {0} /\ s[3] \in Nat \ {0}
  BY DEF Sizes
<1>2. /\ p[1] \in 0..(s[1] - 1) /\ p[2] \in 0..(s[2] - 1) /\ p[3] \in 0..(s[3] - 1)
      /\ p = <<p[1], p[2], p[3]>>
  BY DEF Box
<1>3. \A a \in Nat, b, c \in Nat : c >= a + 1 => b * a + b <= b * c
  <2> SUFFICES ASSUME NEW a \in Nat, NEW b \in Nat, NEW c \in Nat, c >= a + 1
               PROVE  b * a + b <= b * c
    OBVIOUS
  <2>1. PICK d \in Nat : c = a + 1 + d
    <3>1. c - a - 1 \in Nat /\ c = a + 1 + (c - a - 1)
      OBVIOUS
    <3> QED
      BY <3>1
  <2>2. b * c = b * a + b + b * d /\ b * d \in Nat /\ b * a \in Nat
    BY <2>1
  <2> QED
    BY <2>2
<1>4. q \in Nat /\ q + 1 <= s[2] * s[3]
  <2>1. s[2] * p[3] \in Nat /\ s[2] * p[3] + s[2] <= s[2] * s[3] /\ s[2] * s[3] \in Nat
    BY <1>1, <1>2, <1>3
  <2> QED
    BY <1>1, <1>2, <2>1
<1>5. q \div s[2] = p[3] /\ q % s[2] = p[2]
  <2>1. p[3] \in Nat
    BY <1>1, <1>2
  <2> QED
    BY <1>1, <1>2, <2>1, DividedBack
<1> HIDE DEF q
<1>6. n \in Nat /\ n + 1 <= s[1] * s[2] * s[3]
  <2>1. s[2] * s[3] \in Nat /\ s[1] * s[2] * s[3] = s[1] * (s[2] * s[3])
    BY <1>1
  <2>2. s[1] * q \in Nat /\ s[1] * q + s[1] <= s[1] * (s[2] * s[3])
    BY <1>1, <1>3, <1>4, <2>1
  <2>3. s[1] * (s[2] * s[3]) \in Nat
    BY <1>1, <2>1
  <2> QED
    BY <1>1, <1>2, <2>1, <2>2, <2>3
<1>7. n \div s[1] = q /\ n % s[1] = p[1]
  BY <1>1, <1>2, <1>4, DividedBack
<1> HIDE DEF n
<1>8. n + 1 \in 1..(s[1] * s[2] * s[3]) /\ (n + 1) - 1 = n
  <2>1. s[1] * s[2] * s[3] \in Int
    BY <1>1
  <2> QED
    BY <1>6, <2>1
<1>9. SegmentAt(s, n + 1) = <<p[1], p[2], p[3]>>
  BY <1>5, <1>7, <1>8 DEF SegmentAt
<1> QED
  BY <1>2, <1>8, <1>9

LEMMA SegmentsDiffer ==
  ASSUME NEW s \in Sizes, NEW i \in 1..(s[1] * s[2] * s[3]), NEW j \in 1..(s[1] * s[2] * s[3]),
         SegmentAt(s, i) = SegmentAt(s, j)
  PROVE  i = j
BY SegmentIsInside

\* The part of an image that a segment at p shows on a face.
Shown(s, p, f) == TexmapSegmentFace(s, p, f).select
OnSide(s, p, f) == p[Normal(f)] = IF f % 2 = 0 THEN s[Normal(f)] - 1 ELSE 0

LEMMA ShownOnce ==
  ASSUME NEW s \in Sizes, NEW f \in Faces, NEW p \in Box(s), NEW q \in Box(s),
         OnSide(s, p, f), OnSide(s, q, f), Shown(s, p, f) = Shown(s, q, f)
  PROVE  p = q
<1>1. /\ p[1] \in Int /\ p[2] \in Int /\ p[3] \in Int /\ p = <<p[1], p[2], p[3]>>
      /\ q[1] \in Int /\ q[2] \in Int /\ q[3] \in Int /\ q = <<q[1], q[2], q[3]>>
      /\ s[1] \in Int /\ s[2] \in Int /\ s[3] \in Int
  BY DEF Box, Sizes
<1>2. f = 0 \/ f = 1 \/ f = 2 \/ f = 3 \/ f = 4 \/ f = 5
  BY DEF Faces
<1>3. p[1] = q[1] /\ p[2] = q[2] /\ p[3] = q[3]
  <2>1. CASE f = 0
    BY <1>1, <2>1 DEF Shown, OnSide, TexmapSegmentFace, FaceAxes, Normal
  <2>2. CASE f = 1
    BY <1>1, <2>2 DEF Shown, OnSide, TexmapSegmentFace, FaceAxes, Normal
  <2>3. CASE f = 2
    BY <1>1, <2>3 DEF Shown, OnSide, TexmapSegmentFace, FaceAxes, Normal
  <2>4. CASE f = 3
    BY <1>1, <2>4 DEF Shown, OnSide, TexmapSegmentFace, FaceAxes, Normal
  <2>5. CASE f = 4
    BY <1>1, <2>5 DEF Shown, OnSide, TexmapSegmentFace, FaceAxes, Normal
  <2>6. CASE f = 5
    BY <1>1, <2>6 DEF Shown, OnSide, TexmapSegmentFace, FaceAxes, Normal
  <2> QED
    BY <1>2, <2>1, <2>2, <2>3, <2>4, <2>5, <2>6
<1> QED
  BY <1>1, <1>3

Parts(s, f) ==
  LET total == TexmapSegmentFace(s, <<0, 0, 0>>, f).total
  IN (0..(total[1] - 1)) \X (0..(total[2] - 1))

LEMMA ShownIsPart ==
  ASSUME NEW s \in Sizes, NEW f \in Faces, NEW p \in Box(s)
  PROVE  Shown(s, p, f) \in Parts(s, f)
<1>1. /\ p[1] \in 0..(s[1] - 1) /\ p[2] \in 0..(s[2] - 1) /\ p[3] \in 0..(s[3] - 1)
      /\ s[1] \in Int /\ s[2] \in Int /\ s[3] \in Int
  BY DEF Box, Sizes
<1>2. f = 0 \/ f = 1 \/ f = 2 \/ f = 3 \/ f = 4 \/ f = 5
  BY DEF Faces
<1> QED
  BY <1>1, <1>2 DEF Shown, TexmapSegmentFace, FaceAxes, Parts

LEMMA PartIsShown ==
  ASSUME NEW s \in Sizes, NEW f \in Faces, NEW part \in Parts(s, f)
  PROVE  \E p \in Box(s) : OnSide(s, p, f) /\ Shown(s, p, f) = part
<1>1. s[1] \in Nat \ {0} /\ s[2] \in Nat \ {0} /\ s[3] \in Nat \ {0}
  BY DEF Sizes
<1>2. f = 0 \/ f = 1 \/ f = 2 \/ f = 3 \/ f = 4 \/ f = 5
  BY DEF Faces
<1> DEFINE a == part[1]
           b == part[2]
<1>3. a \in Int /\ b \in Int /\ part = <<a, b>>
  BY <1>1, <1>2 DEF Parts, TexmapSegmentFace, FaceAxes
<1>4. CASE f = 0
  <2> DEFINE p == <<a, s[2] - 1, b>>
  <2>1. p \in Box(s)
    BY <1>1, <1>4 DEF Box, Parts, TexmapSegmentFace, FaceAxes
  <2>2. OnSide(s, p, f) /\ Shown(s, p, f) = <<a, b>>
    BY <1>1, <1>3, <1>4 DEF OnSide, Normal, Shown, TexmapSegmentFace, FaceAxes
  <2> QED
    BY <1>3, <2>1, <2>2
<1>5. CASE f = 1
  <2> DEFINE p == <<s[1] - 1 - a, 0, s[3] - 1 - b>>
  <2>1. p \in Box(s)
    BY <1>1, <1>5 DEF Box, Parts, TexmapSegmentFace, FaceAxes
  <2>2. OnSide(s, p, f) /\ Shown(s, p, f) = <<a, b>>
    BY <1>1, <1>3, <1>5 DEF OnSide, Normal, Shown, TexmapSegmentFace, FaceAxes
  <2> QED
    BY <1>3, <2>1, <2>2
<1>6. CASE f = 2
  <2> DEFINE p == <<s[1] - 1, a, b>>
  <2>1. p \in Box(s)
    BY <1>1, <1>6 DEF Box, Parts, TexmapSegmentFace, FaceAxes
  <2>2. OnSide(s, p, f) /\ Shown(s, p, f) = <<a, b>>
    BY <1>1, <1>3, <1>6 DEF OnSide, Normal, Shown, TexmapSegmentFace, FaceAxes
  <2> QED
    BY <1>3, <2>1, <2>2
<1>7. CASE f = 3
  <2> DEFINE p == <<0, s[2] - 1 - a, s[3] - 1 - b>>
  <2>1. p \in Box(s)
    BY <1>1, <1>7 DEF Box, Parts, TexmapSegmentFace, FaceAxes
  <2>2. OnSide(s, p, f) /\ Shown(s, p, f) = <<a, b>>
    BY <1>1, <1>3, <1>7 DEF OnSide, Normal, Shown, TexmapSegmentFace, FaceAxes
  <2> QED
    BY <1>3, <2>1, <2>2
<1>8. CASE f = 4
  <2> DEFINE p == <<a, b, s[3] - 1>>
  <2>1. p \in Box(s)
    BY <1>1, <1>8 DEF Box, Parts, TexmapSegmentFace, FaceAxes
  <2>2. OnSide(s, p, f) /\ Shown(s, p, f) = <<a, b>>
    BY <1>1, <1>3, <1>8 DEF OnSide, Normal, Shown, TexmapSegmentFace, FaceAxes
  <2> QED
    BY <1>3, <2>1, <2>2
<1>9. CASE f = 5
  <2> DEFINE p == <<s[1] - 1 - a, s[2] - 1 - b, 0>>
  <2>1. p \in Box(s)
    BY <1>1, <1>9 DEF Box, Parts, TexmapSegmentFace, FaceAxes
  <2>2. OnSide(s, p, f) /\ Shown(s, p, f) = <<a, b>>
    BY <1>1, <1>3, <1>9 DEF OnSide, Normal, Shown, TexmapSegmentFace, FaceAxes
  <2> QED
    BY <1>3, <2>1, <2>2
<1> QED
  BY <1>2, <1>4, <1>5, <1>6, <1>7, <1>8, <1>9


-----------------------------------------------------------------------------
(* VoxelRegistry: the places in an atlas                                   *)

LEMMA MaxIsNatural == MaxResolution \in Nat
BY ImagesAssumption

Half(x) == (MaxResolution \div x) \div 2

LEMMA HalfHasRoom ==
  ASSUME NEW x \in Nat \ {0}, 2 * x <= MaxResolution
  PROVE  /\ Half(x) \in Nat \ {0}
         /\ \A k \in Nat : k < Half(x) => k * x * 2 + 2 * x <= MaxResolution
<1> DEFINE d == MaxResolution \div x
           h == d \div 2
<1>1. d \in Nat /\ MaxResolution % x \in 0..(x - 1) /\ MaxResolution = x * d + (MaxResolution % x)
  BY MaxIsNatural, Divided
<1>2. d >= 2
  <2>1. CASE d = 0
    <3>1. MaxResolution < x
      BY <1>1, <2>1
    <3> QED
      BY <3>1, MaxIsNatural
  <2>2. CASE d = 1
    <3>1. MaxResolution < 2 * x
      BY <1>1, <2>2
    <3> QED
      BY <3>1, MaxIsNatural
  <2> HIDE DEF d
  <2> QED
    BY <1>1, <2>1, <2>2
<1> HIDE DEF d
<1>3. h \in Nat \ {0} /\ 2 * h <= d
  BY <1>1, <1>2
<1> HIDE DEF h
<1>4. ASSUME NEW k \in Nat, k < h PROVE k * x * 2 + 2 * x <= MaxResolution
  <2>1. PICK e \in Nat : d = 2 * (k + 1) + e
    <3>1. d - 2 * (k + 1) \in Nat /\ d = 2 * (k + 1) + (d - 2 * (k + 1))
      BY <1>1, <1>3, <1>4
    <3> QED
      BY <3>1
  <2>2. x * d = k * x * 2 + 2 * x + x * e
    BY <2>1
  <2>3. x * e \in Nat /\ k * x * 2 + 2 * x \in Nat /\ x * d \in Nat
    BY <1>1
  <2>4. x * d <= MaxResolution
    BY <1>1, <2>3, MaxIsNatural
  <2> QED
    BY <2>2, <2>3, <2>4, MaxIsNatural
<1> QED
  BY <1>3, <1>4 DEF h, d, Half

LEMMA PlaceIsInside ==
  ASSUME NEW r \in Resolutions, Sized(r), NEW n \in Nat, n < TotalOf(r)[1] * TotalOf(r)[2]
  PROVE  /\ TotalOf(r)[1] \in Nat \ {0} /\ TotalOf(r)[2] \in Nat \ {0}
         /\ PlaceIn(r, n) = <<(n % TotalOf(r)[1]) * r[1] * 2, (n \div TotalOf(r)[1]) * r[2] * 2>>
         /\ n % TotalOf(r)[1] \in Nat /\ n \div TotalOf(r)[1] \in Nat
         /\ (n % TotalOf(r)[1]) * r[1] * 2 + 2 * r[1] <= MaxResolution
         /\ (n \div TotalOf(r)[1]) * r[2] * 2 + 2 * r[2] <= MaxResolution
<1>1. r[1] \in Nat \ {0} /\ r[2] \in Nat \ {0} /\ MaxResolution \in Nat
  BY ImagesAssumption DEF Resolutions, Sized
<1>3. TotalOf(r)[1] = Half(r[1]) /\ TotalOf(r)[2] = Half(r[2])
  BY DEF TotalOf, Half
<1>4. 2 * r[1] <= MaxResolution /\ 2 * r[2] <= MaxResolution
  BY DEF Sized
<1> DEFINE t == TotalOf(r)[1]
           u == TotalOf(r)[2]
<1>5. t \in Nat \ {0} /\ u \in Nat \ {0}
  BY <1>1, <1>3, <1>4, HalfHasRoom
<1>6. \A k \in Nat : k < t => k * r[1] * 2 + 2 * r[1] <= MaxResolution
  BY <1>1, <1>3, <1>4, HalfHasRoom
<1>7. \A k \in Nat : k < u => k * r[2] * 2 + 2 * r[2] <= MaxResolution
  BY <1>1, <1>3, <1>4, HalfHasRoom
<1>8. PlaceIn(r, n) = <<(n - (n \div t) * t) * r[1] * 2, (n \div t) * r[2] * 2>>
  BY DEF PlaceIn, SegmentPlace
<1> HIDE DEF t, u
<1>9. /\ n \div t \in Nat /\ n % t \in 0..(t - 1) /\ n = t * (n \div t) + (n % t)
      /\ n \div t < u
  <2>1. u \in Nat /\ n < t * u
    BY <1>5 DEF t, u
  <2> QED
    BY <1>5, <2>1, Divided, DividedBelow
<1> DEFINE row == n \div t
           col == n % t
<1>10. /\ row \in Nat /\ col \in 0..(t - 1) /\ n = t * row + col /\ row < u
       /\ PlaceIn(r, n) = <<(n - row * t) * r[1] * 2, row * r[2] * 2>>
  BY <1>8, <1>9
<1> HIDE DEF row, col
<1>11. n - row * t = col
  <2>1. row * t = t * row /\ t * row \in Int
    BY <1>5, <1>10
  <2> QED
    BY <1>5, <1>10, <2>1
<1>12. col \in Nat /\ col < t
  BY <1>5, <1>10
<1>13. /\ col * r[1] * 2 + 2 * r[1] <= MaxResolution
       /\ row * r[2] * 2 + 2 * r[2] <= MaxResolution
  BY <1>6, <1>7, <1>10, <1>12
<1>14. PlaceIn(r, n) = <<col * r[1] * 2, row * r[2] * 2>>
  BY <1>10, <1>11
<1> QED
  BY <1>5, <1>10, <1>12, <1>13, <1>14 DEF row, col, t, u

LEMMA PlacesAreApart ==
  ASSUME NEW r \in Resolutions, Sized(r), NEW n \in Nat, NEW m \in Nat, n # m,
         n < TotalOf(r)[1] * TotalOf(r)[2], m < TotalOf(r)[1] * TotalOf(r)[2]
  PROVE  \E i \in 1..2 :
           PlaceIn(r, n)[i] - PlaceIn(r, m)[i] \notin (1 - 2 * r[i])..(2 * r[i] - 1)
<1>1. r[1] \in Nat \ {0} /\ r[2] \in Nat \ {0}
  BY DEF Resolutions, Sized
<1> DEFINE t == TotalOf(r)[1]
<1>2. /\ t \in Nat \ {0}
      /\ n % t \in Nat /\ n \div t \in Nat /\ m % t \in Nat /\ m \div t \in Nat
      /\ PlaceIn(r, n) = <<(n % t) * r[1] * 2, (n \div t) * r[2] * 2>>
      /\ PlaceIn(r, m) = <<(m % t) * r[1] * 2, (m \div t) * r[2] * 2>>
  BY PlaceIsInside
<1> HIDE DEF t
<1>3. n % t # m % t \/ n \div t # m \div t
  BY <1>2, Divided
<1>4. ASSUME NEW a \in Nat, NEW b \in Nat, a # b, NEW x \in Nat \ {0}
      PROVE  a * x * 2 - b * x * 2 \notin (1 - 2 * x)..(2 * x - 1)
  <2>1. \A c, d \in Nat : c < d => c * x * 2 + 2 * x <= d * x * 2
    <3> SUFFICES ASSUME NEW c \in Nat, NEW d \in Nat, c < d
                 PROVE  c * x * 2 + 2 * x <= d * x * 2
      OBVIOUS
    <3>1. PICK e \in Nat : d = c + 1 + e
      <4>1. d - c - 1 \in Nat /\ d = c + 1 + (d - c - 1)
        OBVIOUS
      <4> QED
        BY <4>1
    <3>2. d * x * 2 = c * x * 2 + 2 * x + e * x * 2
      BY <3>1
    <3>3. e * x * 2 \in Nat /\ c * x * 2 \in Nat
      OBVIOUS
    <3> QED
      BY <3>2, <3>3
  <2>2. a < b \/ b < a
    BY <1>4
  <2>3. a * x * 2 \in Nat /\ b * x * 2 \in Nat
    OBVIOUS
  <2> QED
    BY <2>1, <2>2, <2>3
<1>5. CASE n % t # m % t
  <2>1. (n % t) * r[1] * 2 - (m % t) * r[1] * 2 \notin (1 - 2 * r[1])..(2 * r[1] - 1)
    BY <1>1, <1>2, <1>4, <1>5
  <2> QED
    BY <1>2, <2>1
<1>6. CASE n \div t # m \div t
  <2>1. (n \div t) * r[2] * 2 - (m \div t) * r[2] * 2 \notin (1 - 2 * r[2])..(2 * r[2] - 1)
    BY <1>1, <1>2, <1>4, <1>6
  <2> QED
    BY <1>2, <2>1
<1> QED
  BY <1>3, <1>5, <1>6

-----------------------------------------------------------------------------
(* VoxelRegistry: segments in atlases                                      *)

LEMMA GrowsTwice ==
  ASSUME NEW x, NEW y, NEW z, Grows(x, y), Grows(y, z)
  PROVE  Grows(x, z)
BY DEF Grows

LEMMA GrowsNot ==
  ASSUME NEW x
  PROVE  Grows(x, x)
BY DEF Grows

LEMMA StillRefers ==
  ASSUME NEW x, NEW y, Grows(x, y), NEW ref, NEW seg, RefersTo(x, ref, seg)
  PROVE  RefersTo(y, ref, seg)
BY DEF Grows, RefersTo

LEMMA StillTextured ==
  ASSUME NEW x, NEW y, Grows(x, y), NEW refs, NEW def, Textured(x, refs, def)
  PROVE  Textured(y, refs, def)
BY StillRefers DEF Textured

\* A new atlas has room, if it is for an image it has room for.
LEMMA NewAtlasHasRoom ==
  ASSUME NEW r \in Resolutions, Sized(r)
  PROVE  0 < TotalOf(r)[1] * TotalOf(r)[2]
<1>1. Half(r[1]) \in Nat \ {0} /\ Half(r[2]) \in Nat \ {0}
  BY HalfHasRoom DEF Resolutions, Sized
<1>2. TotalOf(r)[1] = Half(r[1]) /\ TotalOf(r)[2] = Half(r[2])
  BY DEF TotalOf, Half
<1>3. \A a, b \in Nat \ {0} : 0 < a * b
  OBVIOUS
<1> QED
  BY <1>1, <1>2, <1>3


AddedIsRight(all, seg, added) ==
  /\ AtlasesAreRight(added.atlases) /\ Grows(all, added.atlases)
  /\ added.ref \in [atlas : Int, segment : Nat]
  /\ added.ref # Failed => RefersTo(added.atlases, added.ref, seg)

LEMMA AtlasOfSequence ==
  ASSUME NEW all \in Seq(AtlasDefs), NEW a \in 1..Len(all)
  PROVE  /\ all[a] \in AtlasDefs /\ all[a].segments \in Seq(SegmentDefs)
         /\ all[a].drawn \in Seq(Spots)
         /\ all[a].resolution \in Resolutions
<1>1. all[a] \in AtlasDefs
  OBVIOUS
<1> QED
  BY <1>1 DEF AtlasDefs

\* A segment is added to an atlas for images of its size, which has room for
\* it if it has room for anything.
LEMMA AddToIsRight ==
  ASSUME NEW all, AtlasesAreRight(all), NEW a \in 1..Len(all), NEW seg \in SegmentDefs,
         seg.image \in DOMAIN Images,
         Whole(seg) => all[a].resolution = Images[seg.image],
         Sized(all[a].resolution) => HasRoom(all[a])
  PROVE  AddedIsRight(all, seg, AddTo(all, a, seg))
<1> DEFINE at == all[a]
           n == Len(at.segments)
           fits == n < at.total[1] * at.total[2]
           place == IF fits THEN SegmentPlace(at, n) ELSE <<>>
           ss == Append(at.segments, seg)
           dd == Append(at.drawn, place)
           new == [at EXCEPT !.segments = ss, !.drawn = dd]
           more == [all EXCEPT ![a] = new]
           ref == IF fits THEN [atlas |-> a, segment |-> n + 1] ELSE Failed
<1>1. all \in Seq(AtlasDefs) /\ AtlasIsRight(at)
  BY DEF AtlasesAreRight
<1>2. AddTo(all, a, seg) = [atlases |-> more, ref |-> ref]
  BY <1>1 DEF AddTo
<1>3. /\ at \in AtlasDefs /\ at.segments \in Seq(SegmentDefs) /\ at.drawn \in Seq(Spots)
      /\ at.resolution \in Resolutions /\ n \in Nat /\ Len(at.drawn) = n
  <2>1. /\ at \in AtlasDefs /\ at.segments \in Seq(SegmentDefs) /\ at.drawn \in Seq(Spots)
        /\ at.resolution \in Resolutions
    BY <1>1, AtlasOfSequence
  <2> HIDE DEF at
  <2> QED
    BY <1>1, <2>1 DEF AtlasIsRight
<1>4. at.total = TotalOf(at.resolution)
  BY <1>1 DEF AtlasIsRight
<1>5. SegmentPlace(at, n) = PlaceIn(at.resolution, n)
  BY <1>4 DEF PlaceIn, SegmentPlace
<1>6. place \in Spots
  BY <1>3, <1>5 DEF Spots
<1>7. Sized(at.resolution) => fits
  BY DEF HasRoom
<1> HIDE DEF place, fits
<1>8. /\ ss \in Seq(SegmentDefs) /\ Len(ss) = n + 1
      /\ \A k \in 1..n : ss[k] = at.segments[k]
      /\ ss[n + 1] = seg
  BY <1>3, AppendProperties
<1>9. /\ dd \in Seq(Spots) /\ Len(dd) = n + 1
      /\ \A k \in 1..n : dd[k] = at.drawn[k]
      /\ dd[n + 1] = place
  BY <1>3, <1>6, AppendProperties
<1>10. /\ new.segments = ss /\ new.drawn = dd
       /\ new.resolution = at.resolution /\ new.total = at.total
  BY <1>3 DEF AtlasDefs
<1>11. new \in AtlasDefs
  <2> DEFINE half == [at EXCEPT !.segments = ss]
  <2>1. half \in AtlasDefs
    <3> HIDE DEF at, ss
    <3> QED
      BY <1>3, <1>8 DEF AtlasDefs
  <2>2. new = [half EXCEPT !.drawn = dd]
    <3> HIDE DEF at, ss, dd
    <3> QED
      BY <1>3 DEF AtlasDefs
  <2> HIDE DEF half, new, dd
  <2> QED
    BY <1>9, <2>1, <2>2 DEF AtlasDefs
<1> HIDE DEF ss, dd
<1>12. \A k \in 1..(n + 1) : k \in 1..n \/ k = n + 1
  BY <1>3
<1>13. AtlasIsRight(new)
  <2>1. ASSUME NEW k \in 1..(n + 1)
        PROVE  /\ new.segments[k].image \in DOMAIN Images
               /\ Whole(new.segments[k]) => new.resolution = Images[new.segments[k].image]
    <3>1. CASE k \in 1..n
      <4>1. new.segments[k] = at.segments[k]
        BY <1>8, <1>10, <3>1
      <4> QED
        BY <1>1, <1>10, <3>1, <4>1 DEF AtlasIsRight
    <3>2. CASE k = n + 1
      BY <1>8, <1>10, <3>2
    <3> QED
      BY <1>12, <3>1, <3>2
  <2>2. ASSUME Sized(new.resolution), NEW k \in 1..(n + 1)
        PROVE  /\ k <= new.total[1] * new.total[2]
               /\ new.drawn[k] = PlaceIn(new.resolution, k - 1)
    <3>1. CASE k \in 1..n
      <4>1. new.drawn[k] = at.drawn[k]
        BY <1>9, <1>10, <3>1
      <4> QED
        BY <1>1, <1>10, <2>2, <3>1, <4>1 DEF AtlasIsRight
    <3>2. CASE k = n + 1
      <4>1. fits /\ new.drawn[k] = SegmentPlace(at, n)
        BY <1>7, <1>9, <1>10, <2>2, <3>2 DEF place
      <4>2. TotalOf(at.resolution)[1] \in Int /\ TotalOf(at.resolution)[2] \in Int
        BY <1>3, <1>10, <2>2, HalfHasRoom DEF TotalOf, Half, Sized, Resolutions
      <4>3. at.total[1] * at.total[2] \in Int
        BY <1>4, <4>2
      <4>4. k <= at.total[1] * at.total[2]
        BY <1>3, <3>2, <4>1, <4>3 DEF fits
      <4>5. k - 1 = n
        BY <1>3, <3>2
      <4> QED
        BY <1>5, <1>10, <4>1, <4>4, <4>5
    <3> QED
      BY <1>12, <3>1, <3>2
  <2>3. Len(new.segments) = n + 1 /\ Len(new.drawn) = n + 1
    BY <1>8, <1>9, <1>10
  <2>4. new.total = TotalOf(new.resolution)
    BY <1>4, <1>10
  <2> HIDE DEF new, n
  <2> QED
    BY <2>1, <2>2, <2>3, <2>4 DEF AtlasIsRight
<1> HIDE DEF new, at
<1>14. /\ more \in Seq(AtlasDefs) /\ Len(more) = Len(all) /\ more[a] = new
       /\ \A b \in 1..Len(all) : b # a => more[b] = all[b]
  BY <1>1, <1>11
<1> HIDE DEF more
<1>15. AtlasesAreRight(more)
  BY <1>13, <1>14 DEF AtlasesAreRight
<1>16. Grows(all, more)
  <2> SUFFICES ASSUME NEW b \in 1..Len(all)
               PROVE  /\ b \in 1..Len(more)
                      /\ \A k \in 1..Len(all[b].segments) :
                           /\ k \in 1..Len(more[b].segments)
                           /\ more[b].segments[k] = all[b].segments[k]
    BY DEF Grows
  <2>1. CASE b = a
    <3>1. more[b] = new /\ all[b] = at
      BY <1>14, <2>1 DEF at
    <3>2. Len(at.segments) = n /\ Len(new.segments) = n + 1 /\ n \in Nat
      BY <1>3, <1>8, <1>10
    <3>3. b \in 1..Len(more)
      BY <1>14
    <3>4. ASSUME NEW k \in 1..n
          PROVE  k \in 1..(n + 1) /\ new.segments[k] = at.segments[k]
      BY <1>3, <1>8, <1>10, <3>2
    <3> QED
      BY <3>1, <3>2, <3>3, <3>4
  <2>2. CASE b # a
    BY <1>14, <2>2
  <2> QED
    BY <2>1, <2>2
<1>17. ref \in [atlas : Int, segment : Nat]
  BY <1>3 DEF Failed
<1>18. ref # Failed => RefersTo(more, ref, seg)
  <2> SUFFICES ASSUME ref # Failed PROVE RefersTo(more, ref, seg)
    OBVIOUS
  <2>1. ref.atlas = a /\ ref.segment = n + 1
    OBVIOUS
  <2> QED
    BY <1>3, <1>8, <1>10, <1>14, <2>1 DEF RefersTo
<1> HIDE DEF ref
<1> QED
  BY <1>2, <1>15, <1>16, <1>17, <1>18 DEF AddedIsRight

LEMMA LeastOf ==
  ASSUME NEW Q, NEW n, Q \subseteq 1..n, Q # {}
  PROVE  (CHOOSE i \in Q : \A k \in Q : i <= k) \in Q
<1>1. Q \subseteq Nat
  OBVIOUS
<1>2. \E i \in Q : \A k \in Q : i <= k
  BY <1>1, LeastExists
<1> QED
  BY <1>2

LEMMA AddSegmentIsRight ==
  ASSUME NEW all, AtlasesAreRight(all), NEW seg \in SegmentDefs
  PROVE  AddedIsRight(all, seg, AddSegment(all, seg))
<1> DEFINE size == Images[seg.image]
           found == {a \in DOMAIN all : all[a].resolution = size /\ HasRoom(all[a])}
           r == <<size[1] \div seg.total[1], size[2] \div seg.total[2]>>
           new == [resolution |-> r, total |-> TotalOf(r), segments |-> <<>>, drawn |-> <<>>]
<1>1. all \in Seq(AtlasDefs) /\ DOMAIN all = 1..Len(all) /\ Len(all) \in Nat
  BY DEF AtlasesAreRight
<1>2. CASE seg.image \notin DOMAIN Images
  <2>1. AddSegment(all, seg) = [atlases |-> all, ref |-> Failed]
    BY <1>2 DEF AddSegment
  <2>2. Failed \in [atlas : Int, segment : Nat]
    BY DEF Failed
  <2> QED
    BY <2>1, <2>2, GrowsNot DEF AddedIsRight
<1>3. CASE seg.image \in DOMAIN Images /\ found # {}
  <2> DEFINE a == CHOOSE a \in found : \A k \in found : a <= k
  <2>1. a \in found
    <3>1. found \subseteq 1..Len(all)
      BY <1>1
    <3> HIDE DEF found
    <3> QED
      BY <1>3, <3>1, LeastOf
  <2>2. AddSegment(all, seg) = AddTo(all, a, seg)
    BY <1>3 DEF AddSegment
  <2> HIDE DEF a
  <2>3. a \in 1..Len(all) /\ all[a].resolution = size /\ HasRoom(all[a])
    BY <1>1, <2>1
  <2> QED
    BY <1>3, <2>2, <2>3, AddToIsRight
<1>4. CASE seg.image \in DOMAIN Images /\ found = {}
  <2> DEFINE more == Append(all, new)
             b == Len(all) + 1
  <2>1. AddSegment(all, seg) = AddTo(more, b, seg)
    BY <1>4 DEF AddSegment, TotalOf
  <2>2. /\ size[1] \in Nat \ {0} /\ size[2] \in Nat \ {0} /\ size = <<size[1], size[2]>>
        /\ seg.total[1] \in Nat \ {0} /\ seg.total[2] \in Nat \ {0}
    <3>1. size \in (Nat \ {0}) \X (Nat \ {0})
      BY <1>4, ImagesAssumption
    <3>2. seg.total \in (Nat \ {0}) \X (Nat \ {0})
      BY DEF SegmentDefs
    <3> HIDE DEF size
    <3> QED
      BY <3>1, <3>2
  <2>3. r \in Resolutions
    <3>1. size[1] \div seg.total[1] \in Nat /\ size[2] \div seg.total[2] \in Nat
      BY <2>2, Divided
    <3> QED
      BY <3>1 DEF Resolutions
  <2>4. Whole(seg) => r = size
    <3> SUFFICES ASSUME Whole(seg) PROVE r = size
      OBVIOUS
    <3>1. seg.total[1] = 1 /\ seg.total[2] = 1
      BY DEF Whole
    <3>2. \A x \in Nat : x \div 1 = x
      OBVIOUS
    <3> QED
      BY <2>2, <3>1, <3>2
  <2> HIDE DEF r, size
  <2>5. new \in AtlasDefs /\ AtlasIsRight(new)
    <3>1. /\ <<>> \in Seq(SegmentDefs) /\ Len(<<>>) = 0
          /\ <<>> \in Seq(Spots)
      OBVIOUS
    <3>2. new \in AtlasDefs
      BY <2>3, <3>1 DEF AtlasDefs
    <3> QED
      BY <3>1, <3>2 DEF AtlasIsRight
  <2>6. Sized(new.resolution) => HasRoom(new)
    BY <2>3, NewAtlasHasRoom DEF HasRoom
  <2>7. new.resolution = r
    OBVIOUS
  <2> HIDE DEF new
  <2>8. /\ more \in Seq(AtlasDefs) /\ Len(more) = b /\ more[b] = new /\ b \in 1..b
        /\ \A a \in 1..Len(all) : a \in 1..b /\ more[a] = all[a]
        /\ \A a \in 1..b : a \in 1..Len(all) \/ a = b
    BY <1>1, <2>5
  <2> HIDE DEF more, b
  <2>9. AtlasesAreRight(more)
    BY <2>5, <2>8 DEF AtlasesAreRight
  <2>10. Grows(all, more)
    BY <2>8 DEF Grows
  <2>11. AddedIsRight(more, seg, AddTo(more, b, seg))
    BY <1>4, <2>4, <2>6, <2>7, <2>8, <2>9, AddToIsRight DEF size
  <2> QED
    BY <2>1, <2>10, <2>11, GrowsTwice DEF AddedIsRight
<1> QED
  BY <1>2, <1>3, <1>4

LEMMA FindOrAddIsRight ==
  ASSUME NEW all, AtlasesAreRight(all), NEW seg \in SegmentDefs
  PROVE  AddedIsRight(all, seg, FindOrAdd(all, seg))
<1> DEFINE found == {a \in DOMAIN all : seg \in ToSet(all[a].segments)}
           first == CHOOSE a \in found : \A k \in found : a <= k
           at == {i \in DOMAIN all[first].segments : all[first].segments[i] = seg}
           ref == [atlas |-> first, segment |-> CHOOSE i \in at : \A k \in at : i <= k]
<1>1. all \in Seq(AtlasDefs) /\ DOMAIN all = 1..Len(all) /\ Len(all) \in Nat
  BY DEF AtlasesAreRight
<1>2. CASE found = {}
  BY <1>2, AddSegmentIsRight DEF FindOrAdd
<1>3. CASE found # {}
  <2>1. FindOrAdd(all, seg) = [atlases |-> all, ref |-> ref]
    BY <1>3 DEF FindOrAdd
  <2>2. first \in found
    <3>1. found \subseteq 1..Len(all)
      BY <1>1
    <3> HIDE DEF found
    <3> QED
      BY <1>3, <3>1, LeastOf
  <2> HIDE DEF first
  <2>3. first \in 1..Len(all) /\ seg \in ToSet(all[first].segments)
    BY <1>1, <2>2
  <2> HIDE DEF found
  <2>4. all[first].segments \in Seq(SegmentDefs)
    BY <1>1, <2>3, AtlasOfSequence
  <2>5. DOMAIN all[first].segments = 1..Len(all[first].segments)
    BY <2>4
  <2>6. at # {} /\ at \subseteq 1..Len(all[first].segments)
    BY <2>3, <2>5 DEF ToSet
  <2>7. ref.atlas = first /\ ref.segment \in at
    <3> HIDE DEF at
    <3> QED
      BY <2>6, LeastOf
  <2>8. RefersTo(all, ref, seg)
    BY <2>3, <2>6, <2>7 DEF RefersTo
  <2>9. ref \in [atlas : Int, segment : Nat]
    <3> DEFINE chosen == CHOOSE i \in at : \A k \in at : i <= k
    <3>1. chosen \in at
      BY <2>7
    <3> HIDE DEF at, chosen
    <3>2. first \in Int /\ chosen \in Nat
      BY <2>3, <2>6, <3>1
    <3> QED
      BY <3>2 DEF chosen
  <2> QED
    BY <2>1, <2>8, <2>9, GrowsNot DEF AddedIsRight
<1> QED
  BY <1>2, <1>3


-----------------------------------------------------------------------------
(* VoxelRegistry: the textures of a voxel                                  *)

FaceOf(k) == (k - 1) \div 4
LodOf(k) == ((k - 1) % 4) + 1

LEMMA FacesAndLods ==
  /\ \A k \in 1..24 : FaceOf(k) \in Faces /\ LodOf(k) \in Lods
  /\ \A j, k \in 1..24 : <<FaceOf(j), LodOf(j)>> = <<FaceOf(k), LodOf(k)>> => j = k
  /\ \A f \in Faces, l \in Lods : \E k \in 1..24 : f = FaceOf(k) /\ l = LodOf(k)
<1>1. \A k \in 1..24 : FaceOf(k) \in Faces /\ LodOf(k) \in Lods
  BY DEF FaceOf, LodOf, Faces, Lods
<1>2. ASSUME NEW j \in 1..24, NEW k \in 1..24,
             <<FaceOf(j), LodOf(j)>> = <<FaceOf(k), LodOf(k)>>
      PROVE  j = k
  <2>1. FaceOf(j) = FaceOf(k) /\ LodOf(j) = LodOf(k)
    BY <1>2
  <2> QED
    BY <2>1 DEF FaceOf, LodOf
<1>3. ASSUME NEW f \in Faces, NEW l \in Lods
      PROVE  \E k \in 1..24 : f = FaceOf(k) /\ l = LodOf(k)
  <2> DEFINE k == 4 * f + l
  <2>1. k \in 1..24 /\ f = FaceOf(k) /\ l = LodOf(k)
    BY DEF FaceOf, LodOf, Faces, Lods
  <2> QED
    BY <2>1
<1> QED
  BY <1>1, <1>2, <1>3

LEMMA SimulatedIsSegment ==
  ASSUME NEW seg \in SegmentDefs, NEW f, NEW l \in Lods
  PROVE  Simulated(seg, f, l) \in SegmentDefs
<1>1. CASE l = 1
  BY <1>1 DEF Simulated
<1>2. CASE l # 1
  <2> DEFINE side == CASE f = 0 -> "top" [] f = 5 -> "semibright1"
                       [] f = 2 -> "semibright2" [] OTHER -> "side"
  <2>1. Simulated(seg, f, l) = [seg EXCEPT !.lod = <<l, side>>]
    BY <1>2 DEF Simulated
  <2>2. side \in LodSides
    BY DEF LodSides
  <2> HIDE DEF side
  <2>3. <<l, side>> \in Lods \X LodSides
    BY <2>2
  <2> QED
    BY <2>1, <2>3 DEF SegmentDefs
<1> QED
  BY <1>1, <1>2

\* The first n textures of a voxel are in the atlases, or one of them failed.
UpdatedTo(s, all, def, n) ==
  /\ AtlasesAreRight(s.atlases) /\ Grows(all, s.atlases)
  /\ s.ok \in BOOLEAN /\ s.refs \in Refs
  /\ s.ok => \A k \in 1..n :
       def.textures[FaceOf(k)].image # "" =>
         RefersTo(s.atlases, s.refs[<<FaceOf(k), LodOf(k)>>],
                  Simulated(def.textures[FaceOf(k)], FaceOf(k), LodOf(k)))

LEMMA OneUpdated ==
  ASSUME NEW s, NEW all, NEW def \in VoxelDefs, NEW n \in 1..24, UpdatedTo(s, all, def, n - 1)
  PROVE  UpdatedTo(UpdateTexture(s, def, FaceOf(n), LodOf(n)), all, def, n)
<1> DEFINE f == FaceOf(n)
           l == LodOf(n)
           seg == def.textures[f]
           added == FindOrAdd(s.atlases, Simulated(seg, f, l))
           t == UpdateTexture(s, def, f, l)
           Ref(u, k) == RefersTo(u.atlases, u.refs[<<FaceOf(k), LodOf(k)>>],
                                 Simulated(def.textures[FaceOf(k)], FaceOf(k), LodOf(k)))
           Needed(k) == def.textures[FaceOf(k)].image # ""
<1>1. /\ AtlasesAreRight(s.atlases) /\ Grows(all, s.atlases) /\ s.ok \in BOOLEAN
      /\ s.refs \in Refs
      /\ s.ok => \A k \in 1..(n - 1) : Needed(k) => Ref(s, k)
  BY DEF UpdatedTo
<1>2. SUFFICES ASSUME NEW u, u = t
               PROVE  /\ AtlasesAreRight(u.atlases) /\ Grows(all, u.atlases) /\ u.ok \in BOOLEAN
                      /\ u.refs \in Refs
                      /\ u.ok => \A k \in 1..n : Needed(k) => Ref(u, k)
  <2> HIDE DEF t
  <2>1. UpdatedTo(t, all, def, n)
    BY <1>2 DEF UpdatedTo
  <2> QED
    BY <2>1 DEF t
<1>3. f \in Faces /\ l \in Lods
  BY FacesAndLods
<1>4. \A k \in 1..n : k \in 1..(n - 1) \/ k = n
  OBVIOUS
<1>5. CASE ~s.ok \/ seg.image = ""
  <2>1. u = s
    BY <1>2, <1>5 DEF UpdateTexture
  <2>2. s.ok => ~Needed(n)
    BY <1>5
  <2> HIDE DEF t, Needed, Ref
  <2> QED
    BY <1>1, <1>4, <2>1, <2>2
<1>6. CASE s.ok /\ seg.image # ""
  <2> DEFINE key == <<f, l>>
  <2>1. seg \in SegmentDefs
    BY <1>3 DEF VoxelDefs
  <2>2. AddedIsRight(s.atlases, Simulated(seg, f, l), added)
    BY <1>1, <1>3, <2>1, SimulatedIsSegment, FindOrAddIsRight
  <2>3. u = [atlases |-> added.atlases, ok |-> added.ref # Failed,
             refs |-> IF added.ref = Failed THEN s.refs
                      ELSE [s.refs EXCEPT ![key] = added.ref]]
    BY <1>2, <1>6 DEF UpdateTexture
  <2> HIDE DEF t, added
  <2>4. /\ AtlasesAreRight(added.atlases) /\ Grows(s.atlases, added.atlases)
        /\ added.ref \in [atlas : Int, segment : Nat]
        /\ added.ref # Failed =>
             RefersTo(added.atlases, added.ref, Simulated(seg, f, l))
    BY <2>2 DEF AddedIsRight
  <2>5. /\ u.atlases = added.atlases /\ u.ok = (added.ref # Failed)
        /\ added.ref = Failed => u.refs = s.refs
        /\ added.ref # Failed => u.refs = [s.refs EXCEPT ![key] = added.ref]
    BY <2>3
  <2>6. key \in Faces \X Lods
    BY <1>3
  <2> HIDE DEF key
  <2>7. u.refs \in Refs
    BY <1>1, <2>4, <2>5 DEF Refs
  <2>8. ASSUME u.ok, NEW k \in 1..n, Needed(k) PROVE Ref(u, k)
    <3>1. u.refs = [s.refs EXCEPT ![key] = added.ref] /\ added.ref # Failed
      BY <2>5, <2>8
    <3>2. u.refs[key] = added.ref
      BY <1>1, <2>6, <3>1 DEF Refs
    <3>3. CASE k = n
      BY <2>4, <2>5, <3>1, <3>2, <3>3 DEF key
    <3>4. CASE k # n
      <4> DEFINE other == <<FaceOf(k), LodOf(k)>>
      <4>1. k \in 1..24 /\ k \in 1..(n - 1)
        BY <3>4
      <4>2. other # key /\ other \in Faces \X Lods
        BY <3>4, <4>1, FacesAndLods DEF key
      <4>3. u.refs[other] = s.refs[other]
        <5> HIDE DEF other
        <5> QED
          BY <1>1, <3>1, <4>2 DEF Refs
      <4>4. Ref(s, k)
        <5> HIDE DEF Needed, Ref
        <5> QED
          BY <1>1, <1>6, <2>8, <4>1
      <4> QED
        BY <2>4, <2>5, <4>3, <4>4, StillRefers
    <3> QED
      BY <3>3, <3>4
  <2>9. u.ok \in BOOLEAN
    BY <2>5
  <2>10. Grows(all, u.atlases)
    BY <1>1, <2>4, <2>5, GrowsTwice
  <2> QED
    BY <2>4, <2>5, <2>7, <2>8, <2>9, <2>10
<1> QED
  BY <1>1, <1>5, <1>6

Updates(f, all, def, n) ==
  f = [k \in 0..n |->
         IF k = 0 THEN [atlases |-> all, ok |-> TRUE, refs |-> NoRefs]
         ELSE UpdateTexture(f[k - 1], def, FaceOf(k), LodOf(k))]

\* The recursive function of UpdateTextures exists.
LEMMA UpdatedExists ==
  ASSUME NEW all, NEW def, NEW count \in Nat
  PROVE  \E f : Updates(f, all, def, count)
<1> DEFINE Q == {n \in Nat : ~\E f : Updates(f, all, def, n)}
           first == [atlases |-> all, ok |-> TRUE, refs |-> NoRefs]
<1> SUFFICES ASSUME Q # {} PROVE FALSE
  OBVIOUS
<1>1. PICK n \in Q : \A j \in Q : n <= j
  BY LeastExists
<1>2. CASE n = 0
  <2> DEFINE f == [i \in 0..0 |-> first]
  <2>1. \A i \in 0..0 : i = 0
    OBVIOUS
  <2>2. Updates(f, all, def, 0)
    BY <2>1 DEF Updates
  <2> QED
    BY <1>1, <1>2, <2>2
<1>3. CASE n # 0
  <2>1. n - 1 \in Nat /\ n - 1 \notin Q
    BY <1>1, <1>3
  <2>2. PICK f : Updates(f, all, def, n - 1)
    BY <2>1
  <2> DEFINE One(x, k) == UpdateTexture(x, def, FaceOf(k), LodOf(k))
             g == [i \in 0..n |-> IF i = n THEN One(f[n - 1], n) ELSE f[i]]
  <2>3. n - 1 \in 0..n /\ n - 1 # n
    BY <2>1
  <2>4. f = [i \in 0..(n - 1) |-> IF i = 0 THEN first ELSE One(f[i - 1], i)]
    BY <2>2 DEF Updates
  <2> HIDE DEF One, first
  <2>5. ASSUME NEW i \in 0..n
        PROVE  g[i] = IF i = 0 THEN first ELSE One(g[i - 1], i)
    <3>1. CASE i = n
      <4>1. g[i - 1] = f[n - 1]
        BY <2>3, <3>1
      <4> QED
        BY <1>3, <3>1, <4>1
    <3>2. CASE i # n
      <4>1. i \in 0..(n - 1)
        BY <2>1, <3>2
      <4>2. f[i] = IF i = 0 THEN first ELSE One(f[i - 1], i)
        BY <2>4, <4>1
      <4>3. i # 0 => i - 1 \in 0..n /\ i - 1 # n
        BY <2>1, <4>1
      <4> QED
        BY <3>2, <4>2, <4>3
    <3> QED
      BY <3>1, <3>2
  <2>6. g = [i \in 0..n |-> IF i = 0 THEN first ELSE One(g[i - 1], i)]
    BY <2>5
  <2> HIDE DEF g
  <2>7. Updates(g, all, def, n)
    BY <2>6 DEF Updates, One, first
  <2> QED
    BY <1>1, <2>7
<1> QED
  BY <1>2, <1>3

LEMMA UpdateIsRight ==
  ASSUME NEW all, AtlasesAreRight(all), NEW def \in VoxelDefs
  PROVE  LET s == UpdateTextures(all, def)
         IN /\ AtlasesAreRight(s.atlases) /\ Grows(all, s.atlases)
            /\ s.ok \in BOOLEAN /\ s.refs \in Refs
            /\ s.ok => Textured(s.atlases, s.refs, def)
<1> DEFINE f == CHOOSE f : Updates(f, all, def, 24)
           first == [atlases |-> all, ok |-> TRUE, refs |-> NoRefs]
<1>1. Updates(f, all, def, 24)
  BY UpdatedExists
<1>2. UpdateTextures(all, def) = f[24]
  BY DEF UpdateTextures, Updates, FaceOf, LodOf
<1> HIDE DEF f
<1>3. \A k \in 0..24 :
        f[k] = IF k = 0 THEN first ELSE UpdateTexture(f[k - 1], def, FaceOf(k), LodOf(k))
  BY <1>1 DEF Updates
<1>4. UpdatedTo(first, all, def, 0)
  <2>1. NoRefs \in Refs
    BY DEF NoRefs, NoRef, Refs
  <2> QED
    BY <2>1, GrowsNot DEF UpdatedTo
<1> HIDE DEF first
<1> DEFINE Q == {k \in 0..24 : ~UpdatedTo(f[k], all, def, k)}
<1>5. Q = {}
  <2> SUFFICES ASSUME Q # {} PROVE FALSE
    OBVIOUS
  <2>1. Q \subseteq Nat
    OBVIOUS
  <2>2. PICK n \in Q : \A j \in Q : n <= j
    BY <2>1, LeastExists
  <2>3. n # 0
    BY <1>3, <1>4, <2>2
  <2>4. n \in 1..24 /\ n - 1 \in 0..24 /\ n - 1 \notin Q
    BY <2>2, <2>3
  <2>5. UpdatedTo(f[n - 1], all, def, n - 1)
    BY <2>4
  <2>6. UpdatedTo(UpdateTexture(f[n - 1], def, FaceOf(n), LodOf(n)), all, def, n)
    BY <2>4, <2>5, OneUpdated
  <2> QED
    BY <1>3, <2>2, <2>3, <2>6
<1>6. UpdatedTo(f[24], all, def, 24)
  BY <1>5
<1>7. f[24].ok => Textured(f[24].atlases, f[24].refs, def)
  <2> SUFFICES ASSUME f[24].ok, NEW g \in Faces, NEW l \in Lods, def.textures[g].image # ""
               PROVE  RefersTo(f[24].atlases, f[24].refs[<<g, l>>],
                               Simulated(def.textures[g], g, l))
    BY DEF Textured
  <2>1. PICK k \in 1..24 : g = FaceOf(k) /\ l = LodOf(k)
    BY FacesAndLods
  <2> QED
    BY <1>6, <2>1 DEF UpdatedTo
<1> QED
  BY <1>2, <1>6, <1>7 DEF UpdatedTo


-----------------------------------------------------------------------------
(* VoxelRegistry: the steps                                                *)

LEMMA VoxelsAreDefs ==
  ASSUME NEW b \in Blocks
  PROVE  /\ Count(b) \in Nat /\ SegmentVoxels(b) \in Seq(VoxelDefs)
         /\ Len(SegmentVoxels(b)) = Count(b) /\ DOMAIN SegmentVoxels(b) = 1..Count(b)
<1> DEFINE voxels == SegmentVoxels(b)
<1>1. b.size \in Sizes
  BY ImagesAssumption DEF Sizes
<1>2. Count(b) \in Nat
  BY <1>1 DEF Sizes, Count
<1>3. ASSUME NEW i \in 1..Count(b) PROVE voxels[i] \in VoxelDefs
  <2> DEFINE p == SegmentAt(b.size, i)
             Map(f) == TexmapSegmentFace(b.size, p, f)
             textures == [f \in Faces |-> [image |-> b.sides[f], lod |-> <<1, "own">>,
                                           total |-> Map(f).total, select |-> Map(f).select]]
  <2>1. voxels[i] = [name |-> <<b.name, p>>, textures |-> textures]
    BY <1>3 DEF SegmentVoxels, Count
  <2>2. p \in Box(b.size) /\ p \in Int \X Int \X Int
    <3>1. p \in Box(b.size)
      BY <1>1, <1>3, SegmentIsInside DEF Count
    <3> HIDE DEF p
    <3> QED
      BY <1>1, <3>1 DEF Box, Sizes
  <2>3. ASSUME NEW f \in Faces
        PROVE  Map(f).total \in (Nat \ {0}) \X (Nat \ {0}) /\ Map(f).select \in Int \X Int
    <3>1. /\ b.size[1] \in Nat \ {0} /\ b.size[2] \in Nat \ {0} /\ b.size[3] \in Nat \ {0}
          /\ p[1] \in Int /\ p[2] \in Int /\ p[3] \in Int
      <4> HIDE DEF p
      <4> QED
        BY <1>1, <2>2 DEF Sizes
    <3>2. f = 0 \/ f = 1 \/ f = 2 \/ f = 3 \/ f = 4 \/ f = 5
      BY DEF Faces
    <3> HIDE DEF p
    <3> QED
      BY <3>1, <3>2 DEF TexmapSegmentFace, FaceAxes
  <2>4. <<1, "own">> \in Lods \X LodSides
    BY DEF Lods, LodSides
  <2>5. textures \in [Faces -> SegmentDefs]
    <3> HIDE DEF Map
    <3> QED
      BY <2>3, <2>4 DEF SegmentDefs
  <2> HIDE DEF textures, p
  <2> QED
    BY <2>1, <2>2, <2>5 DEF VoxelDefs
<1>4. /\ voxels = [i \in 1..Count(b) |-> voxels[i]]
  BY DEF SegmentVoxels, Count
<1> HIDE DEF voxels
<1>5. voxels \in Seq(VoxelDefs) /\ Len(voxels) = Count(b) /\ DOMAIN voxels = 1..Count(b)
  BY <1>2, <1>3, <1>4
<1> QED
  BY <1>2, <1>5 DEF voxels

LEMMA Lengthened ==
  ASSUME NEW S, NEW s \in Seq(S), NEW t \in Seq(S)
  PROVE  /\ s \o t \in Seq(S) /\ Len(s \o t) = Len(s) + Len(t)
         /\ \A i \in 1..Len(s) : i \in 1..Len(s \o t) /\ (s \o t)[i] = s[i]
         /\ \A i \in 1..Len(t) : /\ Len(s) + i \in 1..Len(s \o t)
                                /\ (s \o t)[Len(s) + i] = t[i]
<1> DEFINE u == s \o t
<1>1. /\ u \in Seq(S) /\ Len(u) = Len(s) + Len(t) /\ Len(s) \in Nat /\ Len(t) \in Nat
      /\ \A i \in 1..(Len(s) + Len(t)) : u[i] = IF i <= Len(s) THEN s[i] ELSE t[i - Len(s)]
  BY ConcatProperties
<1> HIDE DEF u
<1>2. ASSUME NEW i \in 1..Len(t)
      PROVE  Len(s) + i \in 1..Len(u) /\ u[Len(s) + i] = t[i]
  <2>1. (Len(s) + i) - Len(s) = i /\ ~(Len(s) + i <= Len(s)) /\ Len(s) + i \in 1..Len(u)
    BY <1>1
  <2> QED
    BY <1>1, <2>1
<1>3. \A i \in 1..Len(s) : i \in 1..Len(u) /\ u[i] = s[i]
  BY <1>1
<1> QED
  BY <1>1, <1>2, <1>3 DEF u

LEMMA AddBlockStep ==
  ASSUME VRInv, NEW b \in Blocks, AddBlock(b)
  PROVE  VRInv'
<1> DEFINE voxels == SegmentVoxels(b)
           Taken(i) == \E j \in DOMAIN definitions : definitions[j].name = voxels[i].name
           clashes == {i \in DOMAIN voxels : Taken(i)}
           first == IF clashes = {} THEN Len(voxels) + 1
                    ELSE CHOOSE i \in clashes : \A j \in clashes : i <= j
           part == SubSeq(voxels, 1, first - 1)
           n == Len(definitions)
<1>1. /\ definitions \in Seq(VoxelDefs) /\ defs \in Seq(VoxelDefs) /\ Len(defs) <= n
      /\ BlocksInv /\ n \in Nat
  BY DEF VRInv
<1>2. /\ Count(b) \in Nat /\ voxels \in Seq(VoxelDefs)
      /\ Len(voxels) = Count(b) /\ DOMAIN voxels = 1..Count(b)
  BY VoxelsAreDefs
<1>3. /\ definitions' = definitions \o part
      /\ blocks' = IF clashes # {} THEN blocks
                   ELSE Append(blocks, [name |-> b.name, size |-> b.size,
                          segments |-> [i \in DOMAIN voxels |-> n + i]])
      /\ UNCHANGED <<registryVars, jobs>>
  BY DEF AddBlock
<1>4. first \in 1..(Len(voxels) + 1)
  <2>1. CASE clashes = {}
    BY <1>2, <2>1
  <2>2. CASE clashes # {}
    <3>1. clashes \subseteq 1..Len(voxels)
      BY <1>2
    <3>2. first = CHOOSE i \in clashes : \A j \in clashes : i <= j
      BY <2>2
    <3> HIDE DEF clashes, first
    <3>3. first \in clashes
      BY <2>2, <3>1, <3>2, LeastOf
    <3> QED
      BY <1>2, <3>1, <3>3
  <2> QED
    BY <2>1, <2>2
<1>5. clashes = {} => first = Len(voxels) + 1
  OBVIOUS
<1> HIDE DEF first, clashes, voxels
<1>6. /\ part \in Seq(VoxelDefs) /\ Len(part) = first - 1
      /\ \A i \in 1..(first - 1) : part[i] = voxels[i]
  <2>1. \A i \in 1..(first - 1) : voxels[i] \in VoxelDefs
    BY <1>2, <1>4
  <2>2. first - 1 \in Nat
    BY <1>2, <1>4
  <2> QED
    BY <1>2, <2>1, <2>2, SubSeqProperties
<1> HIDE DEF part
<1>7. /\ definitions' \in Seq(VoxelDefs) /\ Len(definitions') = n + Len(part)
      /\ \A i \in 1..n : i \in 1..Len(definitions') /\ definitions'[i] = definitions[i]
      /\ \A i \in 1..Len(part) : /\ n + i \in 1..Len(definitions')
                                 /\ definitions'[n + i] = part[i]
  BY <1>1, <1>3, <1>6, Lengthened
<1>8. BlocksInv'
  <2> DEFINE new == BlockDef(b, n)
  <2>1. blocks \in Seq(BlockDefs) /\ \A k \in 1..Len(blocks) : BlockIsRight(definitions, blocks[k])
    BY <1>1 DEF BlocksInv
  <2>2. ASSUME NEW block, BlockIsRight(definitions, block)
        PROVE  BlockIsRight(definitions', block)
    <3>1. PICK c \in Blocks, base \in Nat :
            /\ block = BlockDef(c, base)
            /\ \A i \in 1..Count(c) : /\ base + i \in 1..n
                                      /\ definitions[base + i] = SegmentVoxels(c)[i]
      BY <2>2 DEF BlockIsRight
    <3>2. ASSUME NEW i \in 1..Count(c)
          PROVE  /\ base + i \in 1..Len(definitions')
                 /\ definitions'[base + i] = SegmentVoxels(c)[i]
      BY <1>7, <3>1
    <3> QED
      BY <3>1, <3>2 DEF BlockIsRight
  <2>3. CASE clashes # {}
    <3>1. blocks' = blocks
      BY <1>3, <2>3
    <3> QED
      BY <2>1, <2>2, <3>1 DEF BlocksInv
  <2>4. CASE clashes = {}
    <3>1. blocks' = Append(blocks, new)
      BY <1>2, <1>3, <2>4 DEF BlockDef
    <3>2. new \in BlockDefs
      BY <1>1 DEF BlockDefs
    <3>3. BlockIsRight(definitions', new)
      <4>1. Len(part) = Count(b)
        BY <1>2, <1>5, <1>6, <2>4
      <4>2. \A i \in 1..Count(b) : part[i] = SegmentVoxels(b)[i]
        BY <1>2, <1>5, <1>6, <2>4 DEF voxels
      <4> HIDE DEF n
      <4> QED
        BY <1>1, <1>7, <4>1, <4>2 DEF BlockIsRight
    <3> HIDE DEF new
    <3>4. /\ blocks' \in Seq(BlockDefs) /\ Len(blocks') = Len(blocks) + 1
          /\ \A k \in 1..Len(blocks) : blocks'[k] = blocks[k]
          /\ blocks'[Len(blocks) + 1] = new
      BY <2>1, <3>1, <3>2, AppendProperties
    <3>5. ASSUME NEW k \in 1..Len(blocks') PROVE BlockIsRight(definitions', blocks'[k])
      <4>1. CASE k \in 1..Len(blocks)
        BY <2>1, <2>2, <3>4, <4>1
      <4>2. CASE k = Len(blocks) + 1
        BY <3>3, <3>4, <4>2
      <4>3. Len(blocks) \in Nat
        BY <2>1
      <4> QED
        BY <3>4, <4>1, <4>2, <4>3
    <3> QED
      BY <3>4, <3>5 DEF BlocksInv
  <2> QED
    BY <2>3, <2>4
<1>9. UNCHANGED <<defs, cached, atlases, jobs>>
  BY <1>3 DEF registryVars
<1>10. Len(defs') <= Len(definitions')
  BY <1>1, <1>6, <1>7, <1>9
<1>11. CacheInv' /\ AtlasesAreRight(atlases') /\ defs' \in Seq(VoxelDefs)
  BY <1>9 DEF VRInv, CacheInv
<1>12. jobs' \in [1..Tasks -> Jobs] /\ (\A t \in 1..Tasks : JobIsRight(jobs[t]))'
  BY <1>9 DEF VRInv, JobIsRight
<1> QED
  BY <1>7, <1>8, <1>10, <1>11, <1>12 DEF VRInv


Grown == [i \in DOMAIN defs |-> IF i \in DOMAIN cached THEN cached[i] ELSE Uncached]

LEMMA UncachedIsDef ==
  /\ Uncached \in CachedDefs /\ ~Uncached.textured /\ NoRefs \in Refs
<1>1. NoRefs \in Refs
  BY DEF NoRefs, NoRef, Refs
<1> QED
  BY <1>1 DEF Uncached, CachedDefs

LEMMA GrownIsRight ==
  ASSUME VRInv
  PROVE  /\ DOMAIN Grown = DOMAIN defs /\ DOMAIN defs = 1..Len(defs)
         /\ \A i \in DOMAIN cached : Grown[i] = cached[i]
         /\ \A i \in DOMAIN defs :
              /\ Grown[i] \in CachedDefs
              /\ Grown[i].textured => Textured(atlases, Grown[i].refs, defs[i])
<1>1. defs \in Seq(VoxelDefs) /\ CacheInv
  BY DEF VRInv
<1>2. \A i \in DOMAIN cached : i \in DOMAIN defs
  BY <1>1 DEF CacheInv
<1>3. ASSUME NEW i \in DOMAIN defs
      PROVE  /\ Grown[i] \in CachedDefs
             /\ Grown[i].textured => Textured(atlases, Grown[i].refs, defs[i])
  <2>1. CASE i \in DOMAIN cached
    BY <1>1, <2>1 DEF CacheInv, Grown
  <2>2. CASE i \notin DOMAIN cached
    BY <2>2, UncachedIsDef DEF Grown
  <2> QED
    BY <2>1, <2>2
<1> QED
  BY <1>1, <1>2, <1>3 DEF Grown

LEMMA PreloadIsRight ==
  ASSUME VRInv, NEW id \in DOMAIN defs, Preload(id), UNCHANGED defs
  PROVE  /\ AtlasesAreRight(atlases') /\ Grows(atlases, atlases') /\ CacheInv'
         /\ DOMAIN cached' = DOMAIN defs
         /\ \A i \in DOMAIN cached : cached[i].textured => cached'[i].textured
<1> DEFINE update == UpdateTextures(atlases, defs[id])
           new == [valid |-> TRUE, textured |-> update.ok, refs |-> update.refs]
<1>1. /\ DOMAIN Grown = DOMAIN defs /\ DOMAIN defs = 1..Len(defs)
      /\ \A i \in DOMAIN cached : i \in DOMAIN defs /\ Grown[i] = cached[i]
      /\ \A i \in DOMAIN defs :
           /\ Grown[i] \in CachedDefs
           /\ Grown[i].textured => Textured(atlases, Grown[i].refs, defs[i])
  BY GrownIsRight DEF VRInv, CacheInv
<1>2. AtlasesAreRight(atlases)
  BY DEF VRInv
<1>3. CASE Grown[id].textured
  <2>1. cached' = Grown /\ atlases' = atlases
    BY <1>3 DEF Preload, Grown
  <2>2. CacheInv'
    BY <1>1, <2>1 DEF CacheInv
  <2> QED
    BY <1>1, <1>2, <2>1, <2>2, GrowsNot
<1>4. CASE ~Grown[id].textured
  <2>1. atlases' = update.atlases /\ cached' = [Grown EXCEPT ![id] = new]
    BY <1>4 DEF Preload, Grown
  <2>2. defs[id] \in VoxelDefs
    BY DEF VRInv
  <2>3. /\ AtlasesAreRight(update.atlases) /\ Grows(atlases, update.atlases)
        /\ update.ok \in BOOLEAN /\ update.refs \in Refs
        /\ update.ok => Textured(update.atlases, update.refs, defs[id])
    BY <1>2, <2>2, UpdateIsRight
  <2>4. new \in CachedDefs /\ new.textured = update.ok /\ new.refs = update.refs
    BY <2>3 DEF CachedDefs
  <2> HIDE DEF update, new
  <2>5. /\ DOMAIN cached' = DOMAIN defs /\ cached'[id] = new
        /\ \A i \in DOMAIN defs : i # id => cached'[i] = Grown[i]
    BY <1>1, <2>1
  <2>6. ASSUME NEW i \in DOMAIN defs
        PROVE  /\ cached'[i] \in CachedDefs
               /\ cached'[i].textured => Textured(atlases', cached'[i].refs, defs[i])
    <3>1. CASE i = id
      BY <2>1, <2>3, <2>4, <2>5, <3>1
    <3>2. CASE i # id
      BY <1>1, <2>1, <2>3, <2>5, <3>2, StillTextured
    <3> QED
      BY <3>1, <3>2
  <2>7. CacheInv'
    BY <2>5, <2>6 DEF CacheInv
  <2>8. \A i \in DOMAIN cached : cached[i].textured => cached'[i].textured
    BY <1>1, <1>4, <2>5
  <2> QED
    BY <2>1, <2>3, <2>5, <2>7, <2>8
<1> QED
  BY <1>3, <1>4

\* What is torn needs nothing but its type.
LEMMA TornIsRight ==
  ASSUME NEW job \in Jobs, job.at # "none"
  PROVE  LET torn == [job EXCEPT !.torn = TRUE]
         IN torn \in Jobs /\ torn.at = job.at /\ torn.id = job.id /\ torn.torn
BY DEF Jobs

LEMMA DeserializeStep ==
  ASSUME VRInv, Deserialize
  PROVE  VRInv'
<1>1. /\ defs' = definitions /\ cached' = <<>>
      /\ jobs' = [t \in 1..Tasks |-> IF jobs[t].at \in {"preloaded", "generating"}
                                       THEN [jobs[t] EXCEPT !.torn = TRUE] ELSE jobs[t]]
      /\ UNCHANGED <<definitions, blocks, atlases>>
  BY DEF Deserialize
<1>2. /\ definitions \in Seq(VoxelDefs) /\ Len(defs) <= Len(definitions)
      /\ defs \in Seq(VoxelDefs)
      /\ AtlasesAreRight(atlases) /\ BlocksInv /\ jobs \in [1..Tasks -> Jobs]
      /\ \A t \in 1..Tasks : JobIsRight(jobs[t])
  BY DEF VRInv
<1>3. CacheInv'
  <2>1. DOMAIN cached' = {}
    BY <1>1
  <2> QED
    BY <2>1 DEF CacheInv
<1>4. ASSUME NEW t \in 1..Tasks
      PROVE  jobs'[t] \in Jobs /\ JobIsRight(jobs[t])'
  <2>1. jobs[t] \in Jobs /\ JobIsRight(jobs[t])
    BY <1>2
  <2>2. jobs[t].at # "none" => jobs[t].id \in 1..Len(defs')
    BY <1>1, <1>2, <2>1 DEF JobIsRight
  <2>3. CASE jobs[t].at \in {"preloaded", "generating"}
    <3>1. jobs'[t] = [jobs[t] EXCEPT !.torn = TRUE]
      BY <1>1, <2>3
    <3>2. /\ jobs'[t] \in Jobs /\ jobs'[t].at = jobs[t].at
          /\ jobs'[t].id = jobs[t].id /\ jobs'[t].torn
      BY <2>1, <2>3, <3>1, TornIsRight
    <3> QED
      BY <2>2, <2>3, <3>2 DEF JobIsRight
  <2>4. CASE jobs[t].at \notin {"preloaded", "generating"}
    <3>1. jobs'[t] = jobs[t]
      BY <1>1, <2>4
    <3> QED
      BY <1>1, <2>1, <2>2, <2>4, <3>1 DEF JobIsRight
  <2> QED
    BY <2>3, <2>4
<1>5. jobs' \in [1..Tasks -> Jobs] /\ (\A t \in 1..Tasks : JobIsRight(jobs[t]))'
  BY <1>1, <1>4
<1>6. BlocksInv'
  BY <1>1, <1>2 DEF BlocksInv
<1> QED
  BY <1>1, <1>2, <1>3, <1>5, <1>6 DEF VRInv

LEMMA ConstructStep ==
  ASSUME VRInv, NEW t \in 1..Tasks, NEW id, Construct(t, id)
  PROVE  VRInv'
<1>1. /\ definitions \in Seq(VoxelDefs) /\ defs \in Seq(VoxelDefs)
      /\ Len(defs) <= Len(definitions)
      /\ AtlasesAreRight(atlases) /\ CacheInv /\ BlocksInv /\ jobs \in [1..Tasks -> Jobs]
      /\ \A u \in 1..Tasks : JobIsRight(jobs[u])
  BY DEF VRInv
<1>2. UNCHANGED <<definitions, blocks>>
  BY DEF Construct
<1>3. BlocksInv'
  BY <1>1, <1>2 DEF BlocksInv
<1>4. CASE id \notin DOMAIN defs
  <2>1. UNCHANGED <<defs, cached, atlases, jobs>>
    BY <1>4 DEF Construct, registryVars
  <2>2. CacheInv' /\ (\A u \in 1..Tasks : JobIsRight(jobs[u]))'
    BY <1>1, <2>1 DEF CacheInv, JobIsRight
  <2> QED
    BY <1>1, <1>2, <1>3, <2>1, <2>2 DEF VRInv
<1>5. CASE id \in DOMAIN defs
  <2>1. /\ Preload(id) /\ UNCHANGED defs
        /\ jobs' = [u \in 1..Tasks |->
             IF u = t /\ cached'[id].textured
               THEN [at |-> "preloaded", id |-> id, of |-> defs[id],
                     torn |-> FALSE, drawn |-> NoRefs]
             ELSE IF jobs[u].at = "generating" /\ atlases' # atlases
               THEN [jobs[u] EXCEPT !.torn = TRUE]
             ELSE jobs[u]]
    BY <1>5 DEF Construct
  <2>2. /\ AtlasesAreRight(atlases') /\ Grows(atlases, atlases') /\ CacheInv'
        /\ DOMAIN cached' = DOMAIN defs /\ DOMAIN defs = 1..Len(defs)
        /\ DOMAIN cached \subseteq DOMAIN defs
        /\ \A i \in DOMAIN cached : cached[i].textured => cached'[i].textured
    BY <1>1, <1>5, <2>1, PreloadIsRight DEF CacheInv
  <2>3. ASSUME NEW u \in 1..Tasks PROVE jobs'[u] \in Jobs /\ JobIsRight(jobs[u])'
    <3>1. jobs[u] \in Jobs /\ JobIsRight(jobs[u])
      BY <1>1
    <3>2. CASE u = t /\ cached'[id].textured
      <4> DEFINE new == [at |-> "preloaded", id |-> id, of |-> defs[id],
                         torn |-> FALSE, drawn |-> NoRefs]
      <4>1. jobs'[u] = new
        BY <2>1, <3>2
      <4>2. id \in Nat /\ defs[id] \in VoxelDefs /\ NoRefs \in Refs
        BY <1>1, <1>5, <2>2, UncachedIsDef
      <4>3. new \in Jobs
        BY <4>2 DEF Jobs
      <4>4. id \in 1..Len(defs') /\ id \in DOMAIN cached' /\ defs'[id] = defs[id]
        BY <1>5, <2>1, <2>2
      <4>5. new.at = "preloaded" /\ new.id = id /\ new.of = defs[id]
        OBVIOUS
      <4> HIDE DEF new
      <4> QED
        BY <3>2, <4>1, <4>3, <4>4, <4>5 DEF JobIsRight
    <3>3. CASE /\ ~(u = t /\ cached'[id].textured)
               /\ jobs[u].at = "generating" /\ atlases' # atlases
      <4>1. jobs'[u] = [jobs[u] EXCEPT !.torn = TRUE]
        BY <2>1, <3>3
      <4>2. /\ jobs'[u] \in Jobs /\ jobs'[u].at = jobs[u].at
            /\ jobs'[u].id = jobs[u].id /\ jobs'[u].torn
        BY <3>1, <3>3, <4>1, TornIsRight
      <4> QED
        BY <2>1, <3>1, <3>3, <4>2 DEF JobIsRight
    <3>4. CASE /\ ~(u = t /\ cached'[id].textured)
               /\ ~(jobs[u].at = "generating" /\ atlases' # atlases)
      <4>1. jobs'[u] = jobs[u]
        BY <2>1, <3>4
      <4> QED
        BY <2>1, <2>2, <3>1, <4>1, StillTextured DEF JobIsRight
    <3> QED
      BY <3>2, <3>3, <3>4
  <2>4. jobs' \in [1..Tasks -> Jobs] /\ (\A u \in 1..Tasks : JobIsRight(jobs[u]))'
    BY <2>1, <2>3
  <2> QED
    BY <1>1, <1>2, <1>3, <2>1, <2>2, <2>4 DEF VRInv
<1> QED
  BY <1>4, <1>5

LEMMA ThreadStep ==
  ASSUME VRInv, NEW t \in 1..Tasks, StartThread(t) \/ EndThread(t)
  PROVE  VRInv'
<1>1. /\ definitions \in Seq(VoxelDefs) /\ defs \in Seq(VoxelDefs)
      /\ Len(defs) <= Len(definitions)
      /\ AtlasesAreRight(atlases) /\ CacheInv /\ BlocksInv /\ jobs \in [1..Tasks -> Jobs]
      /\ \A u \in 1..Tasks : JobIsRight(jobs[u])
  BY DEF VRInv
<1>2. jobs[t] \in Jobs /\ JobIsRight(jobs[t])
  BY <1>1
<1>3. CASE StartThread(t)
  <2>1. /\ jobs[t].at = "preloaded" /\ jobs' = [jobs EXCEPT ![t].at = "generating"]
        /\ UNCHANGED <<definitions, blocks, defs, cached, atlases>>
    BY <1>3 DEF StartThread, registryVars
  <2> DEFINE new == [jobs[t] EXCEPT !.at = "generating"]
  <2>2. /\ new \in Jobs /\ new.at = "generating" /\ new.id = jobs[t].id
        /\ new.of = jobs[t].of /\ new.torn = jobs[t].torn
    BY <1>2, <2>1 DEF Jobs
  <2>3. jobs' = [jobs EXCEPT ![t] = new]
    BY <2>1
  <2> HIDE DEF new
  <2>4. jobs' \in [1..Tasks -> Jobs]
    BY <1>1, <2>2, <2>3
  <2>5. ASSUME NEW u \in 1..Tasks PROVE JobIsRight(jobs[u])'
    <3>1. CASE u = t
      <4>1. jobs'[u] = new
        BY <1>1, <2>3, <3>1
      <4> QED
        BY <1>2, <2>1, <2>2, <4>1 DEF JobIsRight
    <3>2. CASE u # t
      <4>1. jobs'[u] = jobs[u]
        BY <1>1, <2>3, <3>2
      <4> QED
        BY <1>1, <2>1, <4>1 DEF JobIsRight
    <3> QED
      BY <3>1, <3>2
  <2>6. CacheInv' /\ BlocksInv'
    BY <1>1, <2>1 DEF CacheInv, BlocksInv
  <2> QED
    BY <1>1, <2>1, <2>4, <2>5, <2>6 DEF VRInv
<1>4. CASE EndThread(t)
  <2> DEFINE id == jobs[t].id
             drawn == Grown[id].refs
             new == [jobs[t] EXCEPT !.at = "generated", !.drawn = drawn]
  <2>1. /\ jobs[t].at = "generating"
        /\ jobs' = [jobs EXCEPT ![t].at = "generated", ![t].drawn = drawn]
        /\ cached' = [Grown EXCEPT ![id].valid = TRUE]
        /\ UNCHANGED <<definitions, blocks, defs, atlases>>
    BY <1>4 DEF EndThread, Grown
  <2>2. id \in 1..Len(defs)
    BY <1>2, <2>1 DEF JobIsRight
  <2>3. /\ DOMAIN Grown = DOMAIN defs /\ DOMAIN defs = 1..Len(defs)
        /\ \A i \in DOMAIN cached : i \in DOMAIN defs /\ Grown[i] = cached[i]
        /\ \A i \in DOMAIN defs :
             /\ Grown[i] \in CachedDefs
             /\ Grown[i].textured => Textured(atlases, Grown[i].refs, defs[i])
    BY <1>1, GrownIsRight DEF CacheInv
  <2>4. drawn \in Refs
    BY <2>2, <2>3 DEF CachedDefs
  <2>5. ~jobs[t].torn => Textured(atlases, drawn, jobs[t].of)
    BY <1>2, <2>1, <2>2, <2>3 DEF JobIsRight
  <2>6. jobs' = [jobs EXCEPT ![t] = new]
    BY <1>1, <2>1
  <2> HIDE DEF drawn
  <2>7. /\ new \in Jobs /\ new.at = "generated" /\ new.id = id
        /\ new.of = jobs[t].of /\ new.torn = jobs[t].torn /\ new.drawn = drawn
    BY <1>2, <2>1, <2>4 DEF Jobs
  <2> HIDE DEF new
  <2>8. jobs' \in [1..Tasks -> Jobs]
    BY <1>1, <2>6, <2>7
  <2> DEFINE valid == [Grown[id] EXCEPT !.valid = TRUE]
  <2>9. /\ valid \in CachedDefs /\ valid.textured = Grown[id].textured
        /\ valid.refs = Grown[id].refs
    BY <2>2, <2>3 DEF CachedDefs
  <2>10. cached' = [Grown EXCEPT ![id] = valid]
    BY <2>1
  <2> HIDE DEF valid, id
  <2>11. /\ DOMAIN cached' = DOMAIN defs
         /\ \A i \in DOMAIN defs :
              /\ cached'[i] \in CachedDefs
              /\ cached'[i].textured = Grown[i].textured
              /\ cached'[i].refs = Grown[i].refs
    BY <2>2, <2>3, <2>9, <2>10
  <2>12. CacheInv'
    BY <2>1, <2>3, <2>11 DEF CacheInv
  <2>13. ASSUME NEW u \in 1..Tasks PROVE JobIsRight(jobs[u])'
    <3>1. CASE u = t
      <4>1. jobs'[u] = new
        BY <1>1, <2>6, <3>1
      <4> QED
        BY <2>1, <2>2, <2>5, <2>7, <4>1 DEF JobIsRight
    <3>2. CASE u # t
      <4>1. jobs'[u] = jobs[u]
        BY <1>1, <2>6, <3>2
      <4>2. JobIsRight(jobs[u])
        BY <1>1
      <4>3. \A i \in DOMAIN cached :
              cached[i].textured => i \in DOMAIN cached' /\ cached'[i].textured
        BY <2>3, <2>11
      <4> QED
        BY <2>1, <4>1, <4>2, <4>3 DEF JobIsRight
    <3> QED
      BY <3>1, <3>2
  <2>14. BlocksInv'
    BY <1>1, <2>1 DEF BlocksInv
  <2> QED
    BY <1>1, <2>1, <2>8, <2>12, <2>13, <2>14 DEF VRInv
<1> QED
  BY <1>3, <1>4


LEMMA VRInvariance == VRSpec => []VRInv
<1>1. VRInit => VRInv
  <2> SUFFICES ASSUME VRInit PROVE VRInv
    OBVIOUS
  <2>1. /\ definitions = <<>> /\ blocks = <<>> /\ defs = <<>> /\ cached = <<>> /\ atlases = <<>>
        /\ jobs = [t \in 1..Tasks |-> [at |-> "none"]]
    BY DEF VRInit
  <2>2. Len(<<>>) = 0 /\ DOMAIN <<>> = {} /\ \A S : <<>> \in Seq(S)
    OBVIOUS
  <2>3. CacheInv
    BY <2>1, <2>2 DEF CacheInv
  <2>4. AtlasesAreRight(atlases) /\ BlocksInv
    BY <2>1, <2>2 DEF AtlasesAreRight, BlocksInv
  <2>5. jobs \in [1..Tasks -> Jobs] /\ \A t \in 1..Tasks : JobIsRight(jobs[t])
    <3>1. \A t \in 1..Tasks : jobs[t] = [at |-> "none"]
      BY <2>1
    <3>2. [at |-> "none"] \in Jobs
      BY DEF Jobs
    <3>3. JobIsRight([at |-> "none"])
      BY DEF JobIsRight
    <3> QED
      BY <2>1, <3>1, <3>2, <3>3
  <2> QED
    BY <2>1, <2>2, <2>3, <2>4, <2>5 DEF VRInv
<1>2. VRInv /\ [VRNext]_vrVars => VRInv'
  <2> SUFFICES ASSUME VRInv, [VRNext]_vrVars PROVE VRInv'
    OBVIOUS
  <2>1. CASE UNCHANGED vrVars
    <3>1. UNCHANGED <<definitions, blocks, defs, cached, atlases, jobs>>
      BY <2>1 DEF vrVars, registryVars
    <3>2. CacheInv' /\ BlocksInv' /\ (\A t \in 1..Tasks : JobIsRight(jobs[t]))'
      BY SMTT(60), <3>1 DEF VRInv, CacheInv, BlocksInv, JobIsRight
    <3> QED
      BY <3>1, <3>2 DEF VRInv
  <2> QED
    BY <2>1, AddBlockStep, DeserializeStep, ConstructStep, ThreadStep DEF VRNext
<1> QED
  BY <1>1, <1>2, PTL DEF VRSpec

LEMMA TextureIsOwn ==
  ASSUME AtlasesAreRight(atlases), NEW ref, NEW seg \in SegmentDefs,
         RefersTo(atlases, ref, seg), Whole(seg), Fits(seg.image)
  PROVE  IsTexture(ref, seg)
<1> DEFINE a == atlases[ref.atlas]
           n == Len(a.segments)
           k == ref.segment
           place == a.drawn[k]
           r == a.resolution
           size == Images[seg.image]
           Room == TotalOf(r)[1] * TotalOf(r)[2]
<1>1. /\ atlases \in Seq(AtlasDefs) /\ ref.atlas \in 1..Len(atlases) /\ k \in 1..n
      /\ a.segments[k] = seg /\ AtlasIsRight(a)
  BY DEF AtlasesAreRight, RefersTo
<1>2. /\ a.segments \in Seq(SegmentDefs) /\ a.drawn \in Seq(Spots) /\ r \in Resolutions
      /\ ref.atlas \in DOMAIN atlases
  BY <1>1, AtlasOfSequence
<1>3. Len(a.drawn) = n /\ DOMAIN a.drawn = 1..n /\ n \in Nat
  BY <1>1, <1>2 DEF AtlasIsRight
<1>4. r = size /\ a.total = TotalOf(r) /\ seg.image \in DOMAIN Images
  BY <1>1 DEF AtlasIsRight
<1>5. Sized(r) /\ r[1] \in Nat \ {0} /\ r[2] \in Nat \ {0}
  <2>1. size \in (Nat \ {0}) \X (Nat \ {0})
    BY <1>4, ImagesAssumption
  <2>2. 2 * size[1] <= MaxResolution /\ 2 * size[2] <= MaxResolution
    BY <1>4 DEF Fits
  <2> HIDE DEF size, r
  <2> QED
    BY <1>4, <2>1, <2>2 DEF Sized
<1>6. \A j \in 1..n : j <= Room /\ a.drawn[j] = PlaceIn(r, j - 1)
  BY <1>1, <1>4, <1>5 DEF AtlasIsRight
<1>7. Room \in Nat
  <2>1. Half(r[1]) \in Nat /\ Half(r[2]) \in Nat
    BY <1>5, HalfHasRoom DEF Sized
  <2>2. Room = Half(r[1]) * Half(r[2])
    BY DEF TotalOf, Half
  <2> HIDE DEF Room, Half
  <2> QED
    BY <2>1, <2>2
<1> HIDE DEF a, size, r
<1>8. \A j \in 1..n : j - 1 \in Nat /\ j - 1 < Room /\ a.drawn[j] = PlaceIn(r, j - 1)
  <2> HIDE DEF Room, n
  <2> QED
    BY <1>3, <1>6, <1>7
<1>9. \A j \in 1..n :
        /\ a.drawn[j] # <<>>
        /\ a.drawn[j][1] + 2 * r[1] <= MaxResolution
        /\ a.drawn[j][2] + 2 * r[2] <= MaxResolution
  <2> SUFFICES ASSUME NEW j \in 1..n
               PROVE  /\ a.drawn[j] # <<>>
                      /\ a.drawn[j][1] + 2 * r[1] <= MaxResolution
                      /\ a.drawn[j][2] + 2 * r[2] <= MaxResolution
    OBVIOUS
  <2> DEFINE x == ((j - 1) % TotalOf(r)[1]) * r[1] * 2
             y == ((j - 1) \div TotalOf(r)[1]) * r[2] * 2
  <2>1. /\ PlaceIn(r, j - 1) = <<x, y>>
        /\ x + 2 * r[1] <= MaxResolution /\ y + 2 * r[2] <= MaxResolution
    BY <1>2, <1>5, <1>8, PlaceIsInside
  <2> HIDE DEF x, y
  <2>2. a.drawn[j] = <<x, y>>
    BY <1>8, <2>1
  <2> QED
    BY <2>1, <2>2
<1>10. ASSUME NEW j \in 1..n, j # k
       PROVE  \E i \in 1..2 :
                a.drawn[j][i] - place[i] \notin (1 - 2 * r[i])..(2 * r[i] - 1)
  <2>1. /\ j - 1 \in Nat /\ j - 1 < Room
        /\ k - 1 \in Nat /\ k - 1 < Room
    BY <1>1, <1>8
  <2>2. j - 1 # k - 1
    <3> HIDE DEF n, k
    <3> QED
      BY <1>1, <1>3, <1>10
  <2>3. \E i \in 1..2 :
          PlaceIn(r, j - 1)[i] - PlaceIn(r, k - 1)[i] \notin (1 - 2 * r[i])..(2 * r[i] - 1)
    BY <1>2, <1>5, <2>1, <2>2, PlacesAreApart
  <2>4. a.drawn[j] = PlaceIn(r, j - 1) /\ place = PlaceIn(r, k - 1)
    BY <1>1, <1>8
  <2> QED
    BY <2>3, <2>4
<1>11. \A i \in 1..2 : size[i] \div seg.total[i] = r[i]
  <2>1. seg.total[1] = 1 /\ seg.total[2] = 1
    BY DEF Whole
  <2>2. size[1] \in Nat /\ size[2] \in Nat /\ \A x \in Nat : x \div 1 = x
    BY <1>4, <1>5
  <2>3. \A i \in 1..2 : i = 1 \/ i = 2
    OBVIOUS
  <2> QED
    BY <1>4, <2>1, <2>2, <2>3
<1>12. \A i \in 1..2 : place[i] + 2 * r[i] <= MaxResolution
  <2>1. \A i \in 1..2 : i = 1 \/ i = 2
    OBVIOUS
  <2> QED
    BY <1>1, <1>9, <2>1
<1> HIDE DEF n, k, place, Room
<1> QED
  BY <1>1, <1>2, <1>3, <1>4, <1>9, <1>10, <1>11, <1>12 DEF IsTexture, a, r, size, k, place

LEMMA TexturesAreThere ==
  ASSUME AtlasesAreRight(atlases), NEW refs, NEW def \in VoxelDefs,
         Textured(atlases, refs, def)
  PROVE  HasTextures(refs, def)
<1> SUFFICES ASSUME NEW f \in WholeFaces(def), NEW l \in Lods
             PROVE  IsTexture(refs[<<f, l>>], Simulated(def.textures[f], f, l))
  BY DEF HasTextures
<1> DEFINE seg == def.textures[f]
           sim == Simulated(seg, f, l)
<1>1. f \in Faces /\ seg.image # "" /\ Whole(seg) /\ Fits(seg.image)
  BY DEF WholeFaces, Whole
<1>2. seg \in SegmentDefs
  BY <1>1 DEF VoxelDefs
<1>3. sim \in SegmentDefs
  BY <1>2, SimulatedIsSegment
<1>4. sim.image = seg.image /\ sim.total = seg.total
  <2> HIDE DEF seg
  <2> QED
    BY <1>2 DEF Simulated, SegmentDefs
<1>5. RefersTo(atlases, refs[<<f, l>>], sim)
  BY <1>1 DEF Textured
<1>6. Whole(sim) /\ Fits(sim.image)
  BY ZenonT(90), <1>1, <1>4 DEF Whole
<1> HIDE DEF sim
<1> QED
  BY <1>3, <1>5, <1>6, TextureIsOwn DEF sim

\* What BlocksShowImages says of a side of a block.
SideIsShown(all, ids, size, f) ==
  LET outer == {i \in DOMAIN ids :
                  all[ids[i]].name[2][Normal(f)]
                    = IF f % 2 = 0 THEN size[Normal(f)] - 1 ELSE 0}
      parts == {all[ids[i]].textures[f].select : i \in outer}
  IN /\ Cardinality(parts) = Cardinality(outer)
     /\ \A i \in outer :
          LET total == all[ids[i]].textures[f].total
          IN parts = (0..(total[1] - 1)) \X (0..(total[2] - 1))

LEMMA BlockIsShown ==
  ASSUME NEW b \in Blocks, NEW base \in Nat, NEW all,
         \A i \in 1..Count(b) : all[base + i] = SegmentVoxels(b)[i],
         NEW f \in Faces
  PROVE  SideIsShown(all, [i \in 1..Count(b) |-> base + i], b.size, f)
<1> DEFINE s == b.size
           N == Count(b)
           P(i) == SegmentAt(s, i)
           ids == [i \in 1..N |-> base + i]
           outer == {i \in DOMAIN ids :
                       all[ids[i]].name[2][Normal(f)]
                         = IF f % 2 = 0 THEN b.size[Normal(f)] - 1 ELSE 0}
           sel == [i \in outer |-> all[ids[i]].textures[f].select]
           parts == {all[ids[i]].textures[f].select : i \in outer}
           Total(i) == all[ids[i]].textures[f].total
<1>1. s \in Sizes /\ N = s[1] * s[2] * s[3] /\ N \in Nat
  BY ImagesAssumption, VoxelsAreDefs DEF Sizes, Count
<1>2. ASSUME NEW i \in 1..N
      PROVE  /\ all[ids[i]].name[2] = P(i)
             /\ all[ids[i]].textures[f].select = Shown(s, P(i), f)
             /\ Total(i) = TexmapSegmentFace(s, P(i), f).total
  <2>1. all[ids[i]] = SegmentVoxels(b)[i]
    OBVIOUS
  <2>2. SegmentVoxels(b)[i].name = <<b.name, P(i)>>
    BY DEF SegmentVoxels, Count
  <2>3. /\ SegmentVoxels(b)[i].textures[f].select = Shown(s, P(i), f)
        /\ SegmentVoxels(b)[i].textures[f].total = TexmapSegmentFace(s, P(i), f).total
    BY DEF SegmentVoxels, Count, Shown
  <2> QED
    BY <2>1, <2>2, <2>3
<1>3. outer = {i \in 1..N : OnSide(s, P(i), f)}
  BY <1>2 DEF OnSide
<1>4. \A i \in 1..N : P(i) \in Box(s)
  BY <1>1, SegmentIsInside
<1>5. \A i \in 1..N : Total(i) = TexmapSegmentFace(s, <<0, 0, 0>>, f).total
  BY <1>2 DEF TexmapSegmentFace
<1>6. sel = [i \in outer |-> Shown(s, P(i), f)]
  BY <1>2, <1>3
<1>7. parts = {Shown(s, P(i), f) : i \in outer}
  BY <1>2, <1>3
<1> HIDE DEF ids, outer, sel, parts, Total, P, N, s
<1>8. parts = Parts(s, f)
  <2>1. ASSUME NEW x \in parts PROVE x \in Parts(s, f)
    BY <1>1, <1>3, <1>4, <1>7, <2>1, ShownIsPart
  <2>2. ASSUME NEW x \in Parts(s, f) PROVE x \in parts
    <3>1. PICK p \in Box(s) : OnSide(s, p, f) /\ Shown(s, p, f) = x
      BY <1>1, PartIsShown
    <3>2. PICK i \in 1..N : P(i) = p
      BY <1>1, <3>1, SegmentIsThere DEF P
    <3> QED
      BY <1>3, <1>7, <3>1, <3>2
  <2> QED
    BY <2>1, <2>2
<1>9. Cardinality(parts) = Cardinality(outer)
  <2>1. IsFiniteSet(1..N)
    BY <1>1, FS_Interval
  <2>2. IsFiniteSet(outer)
    BY <1>3, <2>1, FS_Subset
  <2>3. \A i, j \in outer : sel[i] = sel[j] => i = j
    <3> SUFFICES ASSUME NEW i \in outer, NEW j \in outer, sel[i] = sel[j] PROVE i = j
      OBVIOUS
    <3>1. /\ i \in 1..N /\ j \in 1..N /\ OnSide(s, P(i), f) /\ OnSide(s, P(j), f)
          /\ Shown(s, P(i), f) = Shown(s, P(j), f)
      BY <1>3, <1>6
    <3>2. P(i) = P(j)
      BY <1>1, <1>4, <3>1, ShownOnce
    <3> QED
      BY <1>1, <3>1, <3>2, SegmentsDiffer DEF P
  <2>4. sel \in [outer -> parts] /\ DOMAIN sel = outer
    BY <1>6, <1>7
  <2>5. sel \in Surjection(outer, parts)
    BY <1>6, <1>7, <2>4 DEF Surjection
  <2>6. sel \in Injection(outer, parts)
    BY <2>3, <2>4 DEF Injection, IsInjective
  <2> QED
    BY <2>2, <2>5, <2>6, FS_Surjection
<1>10. \A i \in outer : parts = (0..(Total(i)[1] - 1)) \X (0..(Total(i)[2] - 1))
  BY <1>3, <1>5, <1>8 DEF Parts
<1> QED
  BY <1>9, <1>10 DEF SideIsShown, ids, outer, parts, Total, N, s

\* Voxels ready to be drawn, and tasks that nothing was changed under, have the
\* textures of their definition, each in a place of an atlas of its own, and the
\* sides of a block show all of their image: for any images and blocks, atlases
\* of any size, however often the registry is replaced.
THEOREM TexturesAreShown == VRSpec => []ImagesAreShown
<1>1. VRInv => ImagesAreShown
  <2> SUFFICES ASSUME VRInv PROVE ImagesAreShown
    OBVIOUS
  <2>1. /\ defs \in Seq(VoxelDefs) /\ AtlasesAreRight(atlases) /\ CacheInv /\ BlocksInv
        /\ jobs \in [1..Tasks -> Jobs] /\ \A t \in 1..Tasks : JobIsRight(jobs[t])
    BY DEF VRInv
  <2>2. TexturesAreOwn
    <3> SUFFICES ASSUME NEW id \in DOMAIN cached, cached[id].textured
                 PROVE  HasTextures(cached[id].refs, defs[id])
      BY DEF TexturesAreOwn
    <3>1. defs[id] \in VoxelDefs /\ Textured(atlases, cached[id].refs, defs[id])
      BY <2>1 DEF CacheInv
    <3> QED
      BY <2>1, <3>1, TexturesAreThere
  <2>3. TasksDrawTextures
    <3> SUFFICES ASSUME NEW t \in 1..Tasks, jobs[t].at = "generated", ~jobs[t].torn
                 PROVE  HasTextures(jobs[t].drawn, jobs[t].of)
      BY DEF TasksDrawTextures
    <3>1. Textured(atlases, jobs[t].drawn, jobs[t].of)
      BY <2>1 DEF JobIsRight
    <3>2. jobs[t] \in Jobs
      BY <2>1
    <3>3. jobs[t].of \in VoxelDefs
      BY <3>2 DEF Jobs
    <3> QED
      BY <2>1, <3>1, <3>3, TexturesAreThere
  <2>4. BlocksShowImages
    <3>1. ASSUME NEW k \in DOMAIN blocks
          PROVE  \E b \in Blocks, base \in Nat :
                   /\ blocks[k] = BlockDef(b, base)
                   /\ \A i \in 1..Count(b) : definitions[base + i] = SegmentVoxels(b)[i]
      <4>1. k \in 1..Len(blocks)
        BY <2>1 DEF BlocksInv
      <4> QED
        BY <2>1, <4>1 DEF BlocksInv, BlockIsRight
    <3> SUFFICES ASSUME NEW k \in DOMAIN blocks, NEW f \in Faces
                 PROVE  SideIsShown(definitions, blocks[k].segments, blocks[k].size, f)
      BY Zenon DEF BlocksShowImages, SideIsShown
    <3>2. PICK b \in Blocks, base \in Nat :
            /\ blocks[k] = BlockDef(b, base)
            /\ \A i \in 1..Count(b) : definitions[base + i] = SegmentVoxels(b)[i]
      BY <3>1
    <3>3. blocks[k].segments = [i \in 1..Count(b) |-> base + i] /\ blocks[k].size = b.size
      BY <3>2 DEF BlockDef
    <3>4. SideIsShown(definitions, [i \in 1..Count(b) |-> base + i], b.size, f)
      BY <3>2, BlockIsShown
    <3> QED
      BY <3>3, <3>4, Zenon
  <2> QED
    BY <2>2, <2>3, <2>4 DEF ImagesAreShown
<1> QED
  BY <1>1, VRInvariance, PTL

-----------------------------------------------------------------------------
(* VoxelMesh: points and arrays                                            *)

Points3 == [Axes -> Int]
Within(lc, uc, p) == \A i \in Axes : lc[i] <= p[i] /\ p[i] <= uc[i]

\* Axes and points that are written out
LEMMA PointsAre ==
  /\ Axes = {1, 2, 3} /\ Ones \in Points3 /\ <<0, 0, 0>> \in Points3
  /\ <<-1, -1, -1>> \in Points3 /\ Size \in Points3 /\ Minus(Size, Ones) \in Points3
  /\ \A x, y, z \in Int : <<x, y, z>> \in Points3
<1>1. Axes = {1, 2, 3}
  BY DEF Axes
<1>2. \A x, y, z \in Int : <<x, y, z>> \in Points3
  <2> SUFFICES ASSUME NEW x \in Int, NEW y \in Int, NEW z \in Int
               PROVE  <<x, y, z>> \in Points3
    OBVIOUS
  <2> QED
    BY DEF Points3, Axes
<1>3. Size \in Points3
  BY MeshAssumption DEF Points3
<1>4. Ones \in Points3 /\ <<0, 0, 0>> \in Points3 /\ <<-1, -1, -1>> \in Points3
  BY <1>2 DEF Ones
<1>5. Minus(Size, Ones) \in Points3
  BY <1>3, <1>4 DEF Points3, Minus
<1> QED
  BY <1>1, <1>2, <1>3, <1>4, <1>5

\* A region is of all points that are within its corners.
LEMMA RegionIs ==
  ASSUME NEW lc \in Points3, NEW uc \in Points3, NEW p
  PROVE  p \in Region(lc, uc) <=> p \in Points3 /\ Within(lc, uc, p)
<1>1. ASSUME p \in Region(lc, uc) PROVE p \in Points3 /\ Within(lc, uc, p)
  <2>0. lc[1] \in Int /\ lc[2] \in Int /\ lc[3] \in Int /\ uc[1] \in Int /\ uc[2] \in Int /\ uc[3] \in Int
    BY DEF Points3, Axes
  <2>1. PICK x \in lc[1]..uc[1], y \in lc[2]..uc[2], z \in lc[3]..uc[3] : p = <<x, y, z>>
    BY <1>1 DEF Region
  <2>2. x \in Int /\ y \in Int /\ z \in Int
    BY <2>0
  <2>3. p \in Points3
    BY <2>1, <2>2, PointsAre
  <2>4. p[1] = x /\ p[2] = y /\ p[3] = z
    BY <2>1
  <2> QED
    BY <2>0, <2>2, <2>3, <2>4 DEF Within, Axes
<1>2. ASSUME p \in Points3, Within(lc, uc, p) PROVE p \in Region(lc, uc)
  <2>1. p = <<p[1], p[2], p[3]>>
    BY <1>2 DEF Points3, Axes
  <2>2. p[1] \in lc[1]..uc[1] /\ p[2] \in lc[2]..uc[2] /\ p[3] \in lc[3]..uc[3]
    BY <1>2 DEF Points3, Axes, Within
  <2> QED
    BY <2>1, <2>2 DEF Region
<1> QED
  BY <1>1, <1>2

\* Points are the same if their coordinates are.
LEMMA SamePoint ==
  ASSUME NEW p \in Points3, NEW q \in Points3, \A i \in Axes : p[i] = q[i]
  PROVE  p = q
BY DEF Points3

-----------------------------------------------------------------------------
(* VoxelMesh: an array has its voxels at their places                      *)

\* The index of a point in rows of w, h of them to each of d layers, gives the
\* point back.
LEMMA RowMajor ==
  ASSUME NEW w \in Nat \ {0}, NEW h \in Nat \ {0}, NEW d \in Nat \ {0},
         NEW a \in 0..(w - 1), NEW b \in 0..(h - 1), NEW c \in 0..(d - 1), NEW i,
         i = a + w * (b + h * c)
  PROVE  /\ i \in 0..(w * h * d - 1)
         /\ i % w = a /\ (i \div w) % h = b /\ i \div (w * h) = c
<1> DEFINE q == b + h * c
           e == a + w * b
           m == w * h
<1>1. q \in Nat /\ e \in Nat /\ m \in Nat
  <2>1. h * c \in Nat /\ w * b \in Nat /\ w * h \in Nat
    OBVIOUS
  <2> QED
    BY <2>1
<1>2. (a + w * q) % w = a /\ (a + w * q) \div w = q
  BY <1>1, DividedBack
<1>3. q % h = b /\ q \div h = c
  BY DividedBack
<1>4. e < m
  <2>1. PICK g \in Nat : h = b + 1 + g
    <3>1. h - b - 1 \in Nat /\ h = b + 1 + (h - b - 1)
      OBVIOUS
    <3> QED
      BY <3>1
  <2>2. m = w * b + w + w * g /\ w * g \in Nat /\ w * b \in Nat
    BY <2>1
  <2> QED
    BY <2>2
<1>5. m \in Nat \ {0} /\ e \in 0..(m - 1)
  BY <1>1, <1>4
<1>6. i = e + m * c
  <2>1. w * q = w * b + w * h * c
    OBVIOUS
  <2>2. w * b \in Int /\ w * h * c \in Int
    OBVIOUS
  <2> QED
    BY <2>1, <2>2
<1>7. i = a + w * q
  OBVIOUS
<1>8. i \in 0..(m * d - 1)
  <2>1. PICK g \in Nat : d = c + 1 + g
    <3>1. d - c - 1 \in Nat /\ d = c + 1 + (d - c - 1)
      OBVIOUS
    <3> QED
      BY <3>1
  <2> HIDE DEF m, e
  <2>2. m * d = m * c + m + m * g /\ m * g \in Nat /\ m * c \in Nat
    BY <1>5, <2>1
  <2> QED
    BY <1>5, <1>6, <2>2
<1> HIDE DEF m, e, q
<1>9. (e + m * c) \div m = c
  BY <1>5, DividedBack
<1>10. i \div m = c
  BY <1>6, <1>9
<1>11. i % w = a /\ i \div w = q
  BY <1>2, <1>7
<1>12. (i \div w) % h = b
  BY <1>3, <1>11
<1> QED
  BY <1>8, <1>10, <1>11, <1>12 DEF m

RowsOf(w, h, d, lc, voxels) ==
  [k \in 0..(w * h * d - 1) |->
     voxels[Plus(lc, <<k % w, (k \div w) % h, k \div (w * h)>>)]]

\* The array has the voxel of a point at its index.
LEMMA RowMajorAt ==
  ASSUME NEW w \in Nat \ {0}, NEW h \in Nat \ {0}, NEW d \in Nat \ {0},
         NEW a \in 0..(w - 1), NEW b \in 0..(h - 1), NEW c \in 0..(d - 1), NEW i,
         i = a + w * (b + h * c), NEW lc, NEW voxels
  PROVE  /\ i \in DOMAIN RowsOf(w, h, d, lc, voxels)
         /\ RowsOf(w, h, d, lc, voxels)[i] = voxels[Plus(lc, <<a, b, c>>)]
<1>1. /\ i \in 0..(w * h * d - 1)
      /\ i % w = a /\ (i \div w) % h = b /\ i \div (w * h) = c
  BY RowMajor
<1>2. i \in DOMAIN RowsOf(w, h, d, lc, voxels)
  BY <1>1 DEF RowsOf
<1>3. RowsOf(w, h, d, lc, voxels)[i]
        = voxels[Plus(lc, <<i % w, (i \div w) % h, i \div (w * h)>>)]
  BY <1>1 DEF RowsOf
<1> QED
  BY <1>1, <1>2, <1>3

\* What is read from an array at a point is the voxel of that point.
LEMMA ArrayHolds ==
  ASSUME NEW lc \in Points3, NEW uc \in Points3, NEW voxels, NEW p \in Region(lc, uc)
  PROVE  /\ IndexIn(Array(lc, uc, voxels), p) \in DOMAIN Array(lc, uc, voxels).at
         /\ Array(lc, uc, voxels).at[IndexIn(Array(lc, uc, voxels), p)] = voxels[p]
         /\ Get(Array(lc, uc, voxels), p) = voxels[p]
<1> DEFINE v == Array(lc, uc, voxels)
           w == uc[1] - lc[1] + 1
           h == uc[2] - lc[2] + 1
           d == uc[3] - lc[3] + 1
           a == p[1] - lc[1]
           b == p[2] - lc[2]
           c == p[3] - lc[3]
           i == IndexIn(v, p)
<1>1. p \in Points3 /\ Within(lc, uc, p)
  BY RegionIs
<1>2. /\ lc[1] \in Int /\ lc[2] \in Int /\ lc[3] \in Int
      /\ uc[1] \in Int /\ uc[2] \in Int /\ uc[3] \in Int
      /\ p[1] \in Int /\ p[2] \in Int /\ p[3] \in Int
  BY <1>1 DEF Points3, Axes
<1>3. /\ lc[1] <= p[1] /\ p[1] <= uc[1] /\ lc[2] <= p[2] /\ p[2] <= uc[2]
      /\ lc[3] <= p[3] /\ p[3] <= uc[3]
  BY <1>1 DEF Within, Axes
<1>4. /\ w \in Nat \ {0} /\ h \in Nat \ {0} /\ d \in Nat \ {0}
      /\ a \in 0..(w - 1) /\ b \in 0..(h - 1) /\ c \in 0..(d - 1)
  BY <1>2, <1>3
<1>5. /\ v.lc = lc /\ v.uc = uc
      /\ v.at = RowsOf(w, h, d, lc, voxels)
  BY DEF Array, RowsOf
<1>6. i = a + w * (b + h * c)
  BY <1>5 DEF IndexIn, Minus, Axes
<1> HIDE DEF i, v, w, h, d, a, b, c
<1>7. /\ i \in DOMAIN RowsOf(w, h, d, lc, voxels)
      /\ RowsOf(w, h, d, lc, voxels)[i] = voxels[Plus(lc, <<a, b, c>>)]
  <2> DEFINE All(x) == x = a + w * (b + h * c) =>
               /\ x \in DOMAIN RowsOf(w, h, d, lc, voxels)
               /\ RowsOf(w, h, d, lc, voxels)[x] = voxels[Plus(lc, <<a, b, c>>)]
  <2>1. \A x : All(x)
    BY <1>4, RowMajorAt
  <2> QED
    BY <1>6, <2>1
<1>8. i \in DOMAIN v.at /\ v.at[i] = voxels[Plus(lc, <<a, b, c>>)]
  BY <1>5, <1>7
<1>9. Plus(lc, <<a, b, c>>) = p
  <2>1. Plus(lc, <<a, b, c>>) \in Points3
    BY <1>2 DEF Points3, Plus, Axes, a, b, c
  <2>2. \A j \in Axes : Plus(lc, <<a, b, c>>)[j] = p[j]
    BY <1>2 DEF Plus, Axes, a, b, c
  <2> QED
    BY <1>1, <2>1, <2>2, SamePoint
<1> QED
  BY <1>8, <1>9 DEF Get, i, v

\* Out of the volume there is a layer that is not solid.
Outer == Region(<<-1, -1, -1>>, Size)

\* The volume, and that with the layer around it, by coordinates
LEMMA OuterIs ==
  /\ \A p : p \in Outer <=>
       p \in Points3 /\ \A i \in Axes : -1 <= p[i] /\ p[i] <= Size[i]
  /\ \A p : p \in Inside <=>
       p \in Points3 /\ \A i \in Axes : 0 <= p[i] /\ p[i] <= Size[i] - 1
  /\ Inside \subseteq Outer
<1>1. ASSUME NEW p
      PROVE  p \in Outer <=> p \in Points3 /\ \A i \in Axes : -1 <= p[i] /\ p[i] <= Size[i]
  <2>1. \A i \in Axes : <<-1, -1, -1>>[i] = -1
    BY DEF Axes
  <2> QED
    BY <2>1, PointsAre, RegionIs DEF Outer, Within
<1>2. ASSUME NEW p
      PROVE  p \in Inside <=>
               p \in Points3 /\ \A i \in Axes : 0 <= p[i] /\ p[i] <= Size[i] - 1
  <2>1. \A i \in Axes : <<0, 0, 0>>[i] = 0 /\ Minus(Size, Ones)[i] = Size[i] - 1
    BY DEF Axes, Minus, Ones
  <2> QED
    BY <2>1, PointsAre, RegionIs DEF Inside, Within
<1>3. \A i \in Axes : Size[i] \in Int
  BY PointsAre DEF Points3
<1>4. ASSUME NEW p \in Inside PROVE p \in Outer
  <2>1. p \in Points3 /\ \A i \in Axes : p[i] \in Int /\ 0 <= p[i] /\ p[i] <= Size[i] - 1
    BY <1>2 DEF Points3
  <2> QED
    BY <1>1, <1>3, <2>1
<1> QED
  BY <1>1, <1>2, <1>4

\* The solidity of a volume, with its padding
SolidAt(voxels, p) == p \in Inside /\ Registry[voxels[p]].solid

\* A padded volume has its voxels inside and undefined ones around them.
LEMMA PaddedHolds ==
  ASSUME NEW voxels, NEW p \in Outer
  PROVE  /\ Get(Padded(voxels), p) = IF p \in Inside THEN voxels[p] ELSE Undefined
         /\ Get(Solidity(Padded(voxels)), p) = IF SolidAt(voxels, p) THEN 1 ELSE 0
<1> DEFINE all == [q \in Outer |-> IF q \in Inside THEN voxels[q] ELSE Undefined]
           v == Array(<<-1, -1, -1>>, Size, all)
           s == Solidity(v)
           i == IndexIn(v, p)
<1>1. Padded(voxels) = v
  BY DEF Padded, Outer
<1>2. i \in DOMAIN v.at /\ v.at[i] = all[p] /\ Get(v, p) = all[p]
  <2> HIDE DEF all
  <2> QED
    BY PointsAre, ArrayHolds DEF Outer
<1>3. all[p] = IF p \in Inside THEN voxels[p] ELSE Undefined
  OBVIOUS
<1>4. v = [lc |-> v.lc, uc |-> v.uc, at |-> v.at]
  BY DEF Array
<1> HIDE DEF v, all
<1>5. /\ s.lc = v.lc /\ s.uc = v.uc
      /\ s.at = [k \in DOMAIN v.at |-> IF Registry[v.at[k]].solid THEN 1 ELSE 0]
  BY <1>4 DEF Solidity
<1>6. IndexIn(s, p) = i
  BY <1>5 DEF IndexIn
<1> HIDE DEF s, i
<1>7. Get(s, p) = IF Registry[all[p]].solid THEN 1 ELSE 0
  BY <1>2, <1>5, <1>6 DEF Get
<1>8. Registry[all[p]].solid <=> SolidAt(voxels, p)
  BY <1>3, MeshAssumption DEF SolidAt
<1> QED
  BY <1>1, <1>2, <1>3, <1>7, <1>8 DEF s

-----------------------------------------------------------------------------
(* VoxelMesh: how far a box reaches                                        *)

LayerFits(v, lo, hi, a, k) == \A p \in Layer(lo, hi, a, k) : Get(v, p) # 0

ReachesBy(f, v, lo, hi, a) ==
  f = [k \in Int |-> IF LayerFits(v, lo, hi, a, k) THEN f[k + 1] ELSE k - 1]

\* From k on, the least of the integers that there are
LEMMA LeastFrom ==
  ASSUME NEW Q, Q \subseteq Int, NEW k \in Int, \E j \in Q : k <= j
  PROVE  \E m \in Q : k <= m /\ \A j \in Q : k <= j => m <= j
<1> DEFINE D == {d \in Nat : k + d \in Q}
<1>1. D \subseteq Nat /\ D # {}
  <2>1. PICK j \in Q : k <= j
    OBVIOUS
  <2>2. j - k \in D
    BY <2>1
  <2> QED
    BY <2>2
<1>2. PICK d \in D : \A e \in D : d <= e
  BY <1>1, LeastExists
<1>3. ASSUME NEW j \in Q, k <= j PROVE k + d <= j
  <2>1. j - k \in D
    BY <1>3
  <2> QED
    BY <1>2, <2>1
<1> QED
  BY <1>2, <1>3

\* Because a layer somewhere does not fit, there is a function that says how far
\* a box reaches, which the recursive one of Stretch therefore is.
LEMMA ReachExists ==
  ASSUME NEW v, NEW lo, NEW hi, NEW a
  PROVE  \E f : ReachesBy(f, v, lo, hi, a)
<1> DEFINE Q == {k \in Int : ~LayerFits(v, lo, hi, a, k)}
           NextIn(k, m) == m \in Q /\ k <= m /\ \A j \in Q : k <= j => m <= j
           f == [k \in Int |-> IF \E j \in Q : k <= j THEN (CHOOSE m \in Int : NextIn(k, m)) - 1
                               ELSE 0]
<1>1. ASSUME NEW k \in Int, NEW m \in Int, NextIn(k, m) PROVE f[k] = m - 1
  <2>1. \A n \in Int : NextIn(k, n) => n = m
    BY <1>1
  <2>2. (CHOOSE n \in Int : NextIn(k, n)) = m
    <3> HIDE DEF NextIn
    <3>1. NextIn(k, CHOOSE n \in Int : NextIn(k, n)) /\ (CHOOSE n \in Int : NextIn(k, n)) \in Int
      BY <1>1
    <3> QED
      BY <2>1, <3>1
  <2>3. \E j \in Q : k <= j
    BY <1>1
  <2> HIDE DEF NextIn, Q
  <2> QED
    BY <2>2, <2>3
<1>2. ASSUME NEW k \in Int, \E j \in Q : k <= j
      PROVE  \E m \in Int : NextIn(k, m)
  BY <1>2, LeastFrom
<1>3. ASSUME NEW k \in Int
      PROVE  f[k] = IF LayerFits(v, lo, hi, a, k) THEN f[k + 1] ELSE k - 1
  <2>1. CASE ~LayerFits(v, lo, hi, a, k)
    <3>1. NextIn(k, k)
      BY <2>1
    <3> HIDE DEF f, NextIn
    <3> QED
      BY <1>1, <2>1, <3>1
  <2>2. CASE LayerFits(v, lo, hi, a, k) /\ \E j \in Q : k <= j
    <3>1. PICK m \in Int : NextIn(k, m)
      BY <1>2, <2>2
    <3>2. NextIn(k + 1, m)
      <4>1. m # k
        BY <2>2, <3>1
      <4> QED
        BY <3>1, <4>1
    <3>3. k + 1 \in Int
      OBVIOUS
    <3>4. f[k] = m - 1 /\ f[k + 1] = m - 1
      <4> HIDE DEF f, NextIn
      <4> QED
        BY <1>1, <3>1, <3>2, <3>3
    <3> HIDE DEF f
    <3> QED
      BY <2>2, <3>4
  <2>3. CASE LayerFits(v, lo, hi, a, k) /\ ~\E j \in Q : k <= j
    <3>1. ~\E j \in Q : k + 1 <= j
      BY <2>3
    <3>2. f[k] = 0 /\ f[k + 1] = 0
      <4> HIDE DEF Q, NextIn
      <4> QED
        BY <2>3, <3>1
    <3> HIDE DEF f
    <3> QED
      BY <2>3, <3>2
  <2> HIDE DEF f
  <2> QED
    BY <2>1, <2>2, <2>3
<1>4. f = [k \in Int |-> f[k]]
  OBVIOUS
<1> HIDE DEF f
<1>5. f = [k \in Int |-> IF LayerFits(v, lo, hi, a, k) THEN f[k + 1] ELSE k - 1]
  BY <1>3, <1>4
<1> QED
  BY <1>5 DEF ReachesBy

\* A box is stretched over layers that fit, and not over one that does not.
LEMMA StretchReaches ==
  ASSUME NEW v, NEW lo, NEW hi, NEW a, NEW stop \in Int, hi[a] \in Int, hi[a] < stop,
         ~LayerFits(v, lo, hi, a, stop)
  PROVE  \E k \in hi[a]..(stop - 1) :
           /\ Stretch(v, lo, hi, a) = [hi EXCEPT ![a] = k]
           /\ \A j \in (hi[a] + 1)..k : LayerFits(v, lo, hi, a, j)
<1> DEFINE f == CHOOSE f : ReachesBy(f, v, lo, hi, a)
           b == hi[a] + 1
           Q == {k \in Int : ~LayerFits(v, lo, hi, a, k)}
<1>1. ReachesBy(f, v, lo, hi, a)
  BY ReachExists
<1>2. Stretch(v, lo, hi, a) = [hi EXCEPT ![a] = f[b]]
  BY DEF Stretch, ReachesBy, LayerFits
<1> HIDE DEF f
<1>3. \A k \in Int : f[k] = IF LayerFits(v, lo, hi, a, k) THEN f[k + 1] ELSE k - 1
  BY <1>1 DEF ReachesBy
<1>4. PICK m \in Q : b <= m /\ \A j \in Q : b <= j => m <= j
  <2>1. stop \in Q /\ b <= stop /\ b \in Int /\ Q \subseteq Int
    OBVIOUS
  <2> HIDE DEF Q, b
  <2> QED
    BY <2>1, LeastFrom
<1>5. m \in Int /\ b \in Int /\ b <= m /\ m <= stop
  BY <1>4
<1> DEFINE R == {d \in 0..(m - b) : f[m - d] # m - 1}
<1>6. R = {}
  <2> SUFFICES ASSUME R # {} PROVE FALSE
    OBVIOUS
  <2>1. R \subseteq Nat
    OBVIOUS
  <2>2. PICK d \in R : \A e \in R : d <= e
    BY <2>1, LeastExists
  <2>3. d # 0
    <3>1. f[m] = m - 1
      BY <1>3, <1>4, <1>5
    <3> QED
      BY <1>5, <2>2, <3>1
  <2>4. d - 1 \in 0..(m - b) /\ d - 1 \notin R
    BY <1>5, <2>2, <2>3
  <2>5. f[m - d + 1] = m - 1
    <3>1. m - (d - 1) = m - d + 1
      BY <1>5, <2>2
    <3> QED
      BY <2>4, <3>1
  <2>6. m - d \in Int /\ b <= m - d /\ m - d < m
    BY <1>5, <2>2, <2>3
  <2>7. LayerFits(v, lo, hi, a, m - d)
    BY <1>4, <2>6
  <2> QED
    BY <1>3, <2>2, <2>5, <2>6, <2>7
<1>7. f[b] = m - 1
  <2>1. m - b \in 0..(m - b) /\ m - b \notin R
    BY <1>5, <1>6
  <2>2. m - (m - b) = b
    BY <1>5
  <2> QED
    BY <2>1, <2>2
<1>8. ASSUME NEW j \in b..(m - 1) PROVE LayerFits(v, lo, hi, a, j)
  BY <1>4, <1>5
<1>9. m - 1 \in hi[a]..(stop - 1)
  BY <1>5
<1> QED
  BY <1>2, <1>7, <1>8, <1>9

-----------------------------------------------------------------------------
(* VoxelMesh: boxes                                                        *)

Ordered(lo, hi) == lo \in Inside /\ hi \in Inside /\ \A i \in Axes : lo[i] <= hi[i]

\* A box inside of the volume, in which every voxel is solid
SolidBox(voxels, lo, hi) ==
  Ordered(lo, hi) /\ \A p \in Region(lo, hi) : SolidAt(voxels, p)

\* A box inside of the volume that is stretched is still one of solid voxels.
LEMMA StretchedIsSolid ==
  ASSUME NEW voxels, NEW lo, NEW hi, NEW a \in Axes, SolidBox(voxels, lo, hi)
  PROVE  SolidBox(voxels, lo, Stretch(Solidity(Padded(voxels)), lo, hi, a))
<1> DEFINE v == Solidity(Padded(voxels))
<1>1. /\ lo \in Points3 /\ hi \in Points3
      /\ \A i \in Axes : /\ lo[i] \in Int /\ hi[i] \in Int /\ Size[i] \in Int
                         /\ 0 <= lo[i] /\ lo[i] <= hi[i] /\ hi[i] <= Size[i] - 1
  <2>1. lo \in Points3 /\ hi \in Points3
    BY OuterIs DEF SolidBox, Ordered
  <2>2. \A i \in Axes : lo[i] \in Int /\ hi[i] \in Int /\ Size[i] \in Int
    BY <2>1, PointsAre DEF Points3
  <2> QED
    BY <2>1, <2>2, OuterIs DEF SolidBox, Ordered
<1>2. \A p \in Outer : Get(v, p) = IF SolidAt(voxels, p) THEN 1 ELSE 0
  BY PaddedHolds
<1> HIDE DEF v
<1>3. ASSUME NEW k \in Int
      PROVE  [lo EXCEPT ![a] = k] \in Points3 /\ [hi EXCEPT ![a] = k] \in Points3
  BY <1>1 DEF Points3
<1>4. ~LayerFits(v, lo, hi, a, Size[a])
  <2> DEFINE q == [lo EXCEPT ![a] = Size[a]]
  <2>1. Size[a] \in Int
    BY <1>1
  <2>2. q \in Points3 /\ q[a] = Size[a] /\ \A i \in Axes : i # a => q[i] = lo[i]
    BY <1>1, <2>1 DEF Points3
  <2>3. q \in Layer(lo, hi, a, Size[a])
    <3> DEFINE g == [hi EXCEPT ![a] = Size[a]]
    <3>1. g \in Points3 /\ g[a] = Size[a] /\ \A i \in Axes : i # a => g[i] = hi[i]
      BY <1>1, <2>1 DEF Points3
    <3>2. Within(q, g, q)
      <4> HIDE DEF q, g
      <4> QED
        BY <1>1, <2>1, <2>2, <3>1 DEF Within
    <3>3. Layer(lo, hi, a, Size[a]) = Region(q, g)
      BY DEF Layer
    <3> HIDE DEF q, g
    <3> QED
      BY <2>2, <3>1, <3>2, <3>3, RegionIs
  <2> HIDE DEF q
  <2>4. q \in Outer
    BY <1>1, <2>1, <2>2, OuterIs
  <2>5. q \notin Inside
    BY <2>1, <2>2, OuterIs
  <2>6. Get(v, q) = 0
    BY <1>2, <2>4, <2>5 DEF SolidAt
  <2> QED
    BY <2>3, <2>6 DEF LayerFits
<1>5. PICK k \in hi[a]..(Size[a] - 1) :
        /\ Stretch(v, lo, hi, a) = [hi EXCEPT ![a] = k]
        /\ \A j \in (hi[a] + 1)..k : LayerFits(v, lo, hi, a, j)
  <2>1. hi[a] \in Int /\ Size[a] \in Int /\ hi[a] < Size[a]
    BY <1>1
  <2> QED
    BY <1>4, <2>1, StretchReaches
<1>6. k \in Int /\ hi[a] <= k /\ k <= Size[a] - 1
  BY <1>1, <1>5
<1> DEFINE g == [hi EXCEPT ![a] = k]
<1>7. g \in Points3 /\ g[a] = k /\ \A i \in Axes : i # a => g[i] = hi[i]
  BY <1>1, <1>6 DEF Points3
<1> HIDE DEF g
<1>8. Ordered(lo, g)
  <2>1. \A i \in Axes : g[i] \in Int /\ hi[i] <= g[i] /\ g[i] <= Size[i] - 1
    BY <1>1, <1>6, <1>7
  <2>2. \A i \in Axes : lo[i] <= g[i] /\ 0 <= g[i]
    BY <1>1, <2>1
  <2>3. g \in Inside
    BY <1>7, <2>1, <2>2, OuterIs
  <2> QED
    BY <2>2, <2>3 DEF Ordered, SolidBox
<1>9. ASSUME NEW p \in Region(lo, g) PROVE SolidAt(voxels, p)
  <2>1. p \in Points3 /\ \A i \in Axes : p[i] \in Int /\ lo[i] <= p[i] /\ p[i] <= g[i]
    BY <1>1, <1>7, RegionIs DEF Within, Points3
  <2>2. CASE p[a] <= hi[a]
    <3>1. \A i \in Axes : p[i] <= hi[i]
      BY <1>7, <2>1, <2>2
    <3>2. p \in Region(lo, hi)
      BY <1>1, <2>1, <3>1, RegionIs DEF Within
    <3> QED
      BY <3>2 DEF SolidBox
  <2>3. CASE p[a] > hi[a]
    <3> DEFINE j == p[a]
               l == [lo EXCEPT ![a] = j]
               m == [hi EXCEPT ![a] = j]
    <3>1. j \in (hi[a] + 1)..k
      BY <1>1, <1>6, <1>7, <2>1, <2>3
    <3>2. /\ l \in Points3 /\ l[a] = j /\ \A i \in Axes : i # a => l[i] = lo[i]
          /\ m \in Points3 /\ m[a] = j /\ \A i \in Axes : i # a => m[i] = hi[i]
      BY <1>1, <2>1 DEF Points3
    <3>3. Layer(lo, hi, a, j) = Region(l, m)
      BY DEF Layer
    <3>4. j = p[a] /\ j \in Int
      BY <2>1
    <3> HIDE DEF l, m, j
    <3>5. Within(l, m, p)
      BY <1>7, <2>1, <3>2, <3>4 DEF Within
    <3>6. p \in Layer(lo, hi, a, j)
      BY <2>1, <3>2, <3>3, <3>5, RegionIs
    <3>7. Get(v, p) # 0
      BY <1>5, <3>1, <3>6 DEF LayerFits
    <3>8. p \in Outer
      <4>1. \A i \in Axes : -1 <= p[i] /\ p[i] <= Size[i]
        <5>1. \A i \in Axes : g[i] \in Int /\ g[i] <= Size[i]
          BY <1>1, <1>6, <1>7
        <5> QED
          BY <1>1, <2>1, <5>1
      <4> QED
        BY <2>1, <4>1, OuterIs
    <3> QED
      BY <1>2, <3>7, <3>8
  <2> QED
    BY <1>1, <2>1, <2>2, <2>3
<1> QED
  BY <1>5, <1>8, <1>9 DEF SolidBox, g, v

\* As many points as the product of the lengths
LEMMA RegionCount ==
  ASSUME NEW lo \in Points3, NEW hi \in Points3, \A i \in Axes : lo[i] <= hi[i]
  PROVE  /\ IsFiniteSet(Region(lo, hi))
         /\ Cardinality(Region(lo, hi))
              = (hi[1] - lo[1] + 1) * (hi[2] - lo[2] + 1) * (hi[3] - lo[3] + 1)
<1> DEFINE A == lo[1]..hi[1]
           B == lo[2]..hi[2]
           C == lo[3]..hi[3]
           S == (A \X B) \X C
           T == Region(lo, hi)
           f == [t \in S |-> <<t[1][1], t[1][2], t[2]>>]
<1>1. /\ lo[1] \in Int /\ lo[2] \in Int /\ lo[3] \in Int
      /\ hi[1] \in Int /\ hi[2] \in Int /\ hi[3] \in Int
      /\ lo[1] <= hi[1] /\ lo[2] <= hi[2] /\ lo[3] <= hi[3]
  BY DEF Points3, Axes
<1>2. /\ IsFiniteSet(A) /\ Cardinality(A) = hi[1] - lo[1] + 1
      /\ IsFiniteSet(B) /\ Cardinality(B) = hi[2] - lo[2] + 1
      /\ IsFiniteSet(C) /\ Cardinality(C) = hi[3] - lo[3] + 1
  <2>1. /\ IsFiniteSet(A) /\ Cardinality(A) = IF lo[1] > hi[1] THEN 0 ELSE hi[1] - lo[1] + 1
    BY <1>1, FS_Interval
  <2>2. /\ IsFiniteSet(B) /\ Cardinality(B) = IF lo[2] > hi[2] THEN 0 ELSE hi[2] - lo[2] + 1
    BY <1>1, FS_Interval
  <2>3. /\ IsFiniteSet(C) /\ Cardinality(C) = IF lo[3] > hi[3] THEN 0 ELSE hi[3] - lo[3] + 1
    BY <1>1, FS_Interval
  <2> HIDE DEF A, B, C
  <2> QED
    BY <1>1, <2>1, <2>2, <2>3
<1>3. T = {<<x, y, z>> : x \in A, y \in B, z \in C}
  BY DEF Region
<1> HIDE DEF A, B, C, T
<1>4. IsFiniteSet(A \X B) /\ Cardinality(A \X B) = Cardinality(A) * Cardinality(B)
  BY <1>2, FS_Product
<1>5. IsFiniteSet(S) /\ Cardinality(S) = Cardinality(A \X B) * Cardinality(C)
  BY <1>2, <1>4, FS_Product
<1>6. f \in [S -> T]
  BY <1>3
<1>7. f \in Injection(S, T)
  <2>1. ASSUME NEW t \in S, NEW u \in S, f[t] = f[u] PROVE t = u
    <3>1. PICK x \in A, y \in B, z \in C : t = <<<<x, y>>, z>>
      OBVIOUS
    <3>2. PICK k \in A, l \in B, m \in C : u = <<<<k, l>>, m>>
      OBVIOUS
    <3>3. f[t] = <<x, y, z>> /\ f[u] = <<k, l, m>>
      BY <3>1, <3>2
    <3> HIDE DEF f
    <3> QED
      BY <2>1, <3>1, <3>2, <3>3
  <2> HIDE DEF f
  <2> QED
    BY <1>6, <2>1 DEF Injection, IsInjective
<1>8. f \in Surjection(S, T)
  <2>1. ASSUME NEW t \in T PROVE \E s \in S : f[s] = t
    <3>1. PICK x \in A, y \in B, z \in C : t = <<x, y, z>>
      BY <1>3
    <3>2. <<<<x, y>>, z>> \in S /\ f[<<<<x, y>>, z>>] = <<x, y, z>>
      OBVIOUS
    <3> QED
      BY <3>1, <3>2
  <2> HIDE DEF f
  <2> QED
    BY <1>6, <2>1 DEF Surjection
<1>9. ExistsBijection(S, T)
  BY <1>7, <1>8 DEF ExistsBijection, Bijection
<1>10. IsFiniteSet(T) /\ Cardinality(T) = Cardinality(S)
  BY <1>5, <1>9, FS_Bijection
<1> QED
  BY <1>2, <1>4, <1>5, <1>10 DEF T

Boxes == [size : [Axes -> Nat \ {0}], position : [Axes -> Int]]

Even == \A i \in Axes : Size[i] % 2 = 0

\* A box covers the voxels that it was stretched over.
LEMMA BoxCovers ==
  ASSUME NEW lo, NEW hi, Ordered(lo, hi)
  PROVE  /\ BoxOf(lo, hi) \in Boxes
         /\ Even => /\ CoveredBy(BoxOf(lo, hi)) = Region(lo, hi)
                    /\ Cardinality(CoveredBy(BoxOf(lo, hi)))
                         = BoxOf(lo, hi).size[1] * BoxOf(lo, hi).size[2] * BoxOf(lo, hi).size[3]
<1> DEFINE box == BoxOf(lo, hi)
<1>1. /\ lo \in Points3 /\ hi \in Points3
      /\ \A i \in Axes : /\ lo[i] \in Int /\ hi[i] \in Int /\ Size[i] \in Nat
                         /\ 0 <= lo[i] /\ lo[i] <= hi[i] /\ hi[i] <= Size[i] - 1
  <2>1. lo \in Points3 /\ hi \in Points3
    BY OuterIs DEF Ordered
  <2>2. \A i \in Axes : lo[i] \in Int /\ hi[i] \in Int /\ Size[i] \in Nat
    BY <2>1, MeshAssumption DEF Points3
  <2> QED
    BY <2>1, <2>2, OuterIs DEF Ordered
<1>2. /\ box.size = Plus(Minus(hi, lo), Ones)
      /\ box.position = Plus(Minus(Plus(lo, hi), [i \in Axes |-> 2 * (Size[i] \div 2)]), Ones)
      /\ box = [size |-> box.size, position |-> box.position]
  BY DEF BoxOf
<1> HIDE DEF box
<1>a. /\ DOMAIN box.size = Axes /\ DOMAIN box.position = Axes
      /\ box.size = [i \in Axes |-> box.size[i]]
      /\ box.position = [i \in Axes |-> box.position[i]]
  BY <1>2 DEF Plus
<1>b. ASSUME NEW i \in Axes
      PROVE  /\ box.size[i] = hi[i] - lo[i] + 1
             /\ box.position[i] = lo[i] + hi[i] - 2 * (Size[i] \div 2) + 1
  <2> DEFINE half == [k \in Axes |-> 2 * (Size[k] \div 2)]
             sum == Plus(lo, hi)
             from == Minus(sum, half)
  <2>1. Ones[i] = 1
    BY DEF Ones, Axes
  <2>2. sum[i] = lo[i] + hi[i] /\ half[i] = 2 * (Size[i] \div 2)
    BY DEF Plus
  <2>3. box.size[i] = Minus(hi, lo)[i] + Ones[i] /\ Minus(hi, lo)[i] = hi[i] - lo[i]
    BY <1>2 DEF Plus, Minus
  <2>4. box.position = Plus(from, Ones)
    BY <1>2
  <2> HIDE DEF half, sum
  <2>5. from[i] = sum[i] - half[i]
    BY DEF Minus
  <2> HIDE DEF from
  <2>6. box.position[i] = from[i] + Ones[i]
    BY <2>4 DEF Plus
  <2>7. box.size[i] = hi[i] - lo[i] + 1
    BY <2>1, <2>3
  <2>8. half[i] \in Int /\ sum[i] \in Int /\ lo[i] \in Int /\ hi[i] \in Int
    <3>1. Size[i] \div 2 \in Int
      BY <1>1
    <3> QED
      BY <1>1, <2>2, <3>1
  <2>9. box.position[i] = sum[i] - half[i] + 1
    BY <2>1, <2>5, <2>6, <2>8
  <2>10. sum[i] - half[i] + 1 = lo[i] + hi[i] - 2 * (Size[i] \div 2) + 1
    BY <2>2, <2>8
  <2> QED
    BY <2>7, <2>9, <2>10
<1>3. box \in Boxes
  <2>1. \A i \in Axes : box.size[i] \in Nat \ {0}
    BY <1>1, <1>b
  <2>2. \A i \in Axes : box.position[i] \in Int
    <3>1. \A i \in Axes : 2 * (Size[i] \div 2) \in Int
      BY <1>1
    <3> QED
      BY <1>1, <1>b, <3>1
  <2>3. box.size \in [Axes -> Nat \ {0}] /\ box.position \in [Axes -> Int]
    BY <1>a, <2>1, <2>2
  <2> QED
    BY <1>2, <2>3 DEF Boxes
<1>4. ASSUME Even
      PROVE  /\ CoveredBy(box) = Region(lo, hi)
             /\ Cardinality(CoveredBy(box)) = box.size[1] * box.size[2] * box.size[3]
  <2>1. \A i \in Axes : box.position[i] = lo[i] + hi[i] - Size[i] + 1
    <3>1. \A n \in Nat : n % 2 = 0 => 2 * (n \div 2) = n
      OBVIOUS
    <3>2. \A i \in Axes : 2 * (Size[i] \div 2) = Size[i]
      BY <1>1, <1>4, <3>1 DEF Even
    <3> QED
      BY <1>b, <3>2
  <2>2. \A i \in Axes : box.size[i] = hi[i] - lo[i] + 1
    BY <1>b
  <2>3. ASSUME NEW p \in Points3, NEW i \in Axes
        PROVE  /\ box.position[i] - box.size[i] <= 2 * p[i] - Size[i]
               /\ box.position[i] + box.size[i] >= 2 * p[i] - Size[i] + 2
               <=> lo[i] <= p[i] /\ p[i] <= hi[i]
    <3>1. p[i] \in Int
      BY DEF Points3
    <3> QED
      BY <1>1, <2>1, <2>2, <3>1
  <2>4. ASSUME NEW p PROVE p \in CoveredBy(box) <=> p \in Region(lo, hi)
    <3>1. p \in CoveredBy(box) <=>
            p \in Inside /\ \A i \in Axes :
              /\ box.position[i] - box.size[i] <= 2 * p[i] - Size[i]
              /\ box.position[i] + box.size[i] >= 2 * p[i] - Size[i] + 2
      BY DEF CoveredBy
    <3>2. p \in CoveredBy(box) <=>
            p \in Inside /\ \A i \in Axes : lo[i] <= p[i] /\ p[i] <= hi[i]
      <4>1. p \in Inside => p \in Points3
        BY OuterIs
      <4> QED
        BY <2>3, <3>1, <4>1
    <3>3. p \in Region(lo, hi) <=>
            p \in Points3 /\ \A i \in Axes : lo[i] <= p[i] /\ p[i] <= hi[i]
      BY <1>1, RegionIs DEF Within
    <3>4. ASSUME p \in Points3, \A i \in Axes : lo[i] <= p[i] /\ p[i] <= hi[i]
          PROVE  p \in Inside
      <4>1. \A i \in Axes : p[i] \in Int
        BY <3>4 DEF Points3
      <4>2. \A i \in Axes : 0 <= p[i] /\ p[i] <= Size[i] - 1
        BY <1>1, <3>4, <4>1
      <4> QED
        BY <3>4, <4>2, OuterIs
    <3>5. p \in Inside => p \in Points3
      BY OuterIs
    <3> QED
      BY <3>2, <3>3, <3>4, <3>5
  <2>5. CoveredBy(box) = Region(lo, hi)
    BY <2>4
  <2>6. \A i \in Axes : lo[i] <= hi[i]
    BY <1>1
  <2>7. Cardinality(Region(lo, hi))
          = (hi[1] - lo[1] + 1) * (hi[2] - lo[2] + 1) * (hi[3] - lo[3] + 1)
    BY <1>1, <2>6, RegionCount
  <2>8. /\ box.size[1] = hi[1] - lo[1] + 1 /\ box.size[2] = hi[2] - lo[2] + 1
        /\ box.size[3] = hi[3] - lo[3] + 1
    BY <2>2 DEF Axes
  <2> QED
    BY <2>5, <2>7, <2>8
<1> QED
  BY <1>3, <1>4 DEF box

-----------------------------------------------------------------------------
(* VoxelMesh: the search for solid voxels                                  *)

\* An index has a point.
LEMMA RowMajorBack ==
  ASSUME NEW w \in Nat \ {0}, NEW h \in Nat \ {0}, NEW d \in Nat \ {0},
         NEW i \in 0..(w * h * d - 1)
  PROVE  i % w \in 0..(w - 1) /\ (i \div w) % h \in 0..(h - 1) /\ i \div (w * h) \in 0..(d - 1)
<1> DEFINE m == w * h
<1>1. m \in Nat \ {0}
  OBVIOUS
<1>2. i \in Nat /\ i < m * d
  <2>1. w * h * d \in Nat
    OBVIOUS
  <2> QED
    BY <2>1
<1>3. i % w \in 0..(w - 1) /\ i \div w \in Nat
  BY <1>2, Divided
<1>4. (i \div w) % h \in 0..(h - 1)
  BY <1>3, Divided
<1> HIDE DEF m
<1>5. i \div m \in Nat /\ i \div m < d
  BY <1>1, <1>2, Divided, DividedBelow
<1>6. i \div m \in 0..(d - 1)
  BY <1>5
<1> QED
  BY <1>3, <1>4, <1>6 DEF m

HasIndex(w, h, d, a, b, c) ==
  \E i \in 0..(w * h * d - 1) :
    i % w = a /\ (i \div w) % h = b /\ i \div (w * h) = c

\* Every point has an index.
LEMMA RowMajorOnto ==
  ASSUME NEW w \in Nat \ {0}, NEW h \in Nat \ {0}, NEW d \in Nat \ {0},
         NEW a \in 0..(w - 1), NEW b \in 0..(h - 1), NEW c \in 0..(d - 1)
  PROVE  HasIndex(w, h, d, a, b, c)
<1> DEFINE Rows(i) == i \in 0..(w * h * d - 1) /\ i % w = a /\ (i \div w) % h = b
                       /\ i \div (w * h) = c
<1>1. ASSUME NEW i, i = a + w * (b + h * c) PROVE Rows(i)
  BY <1>1, RowMajor
<1> DEFINE t == a + w * (b + h * c)
<1>2. Rows(t)
  <2> HIDE DEF Rows
  <2> QED
    BY <1>1
<1> HIDE DEF t
<1>3. t \in 0..(w * h * d - 1) /\ t % w = a /\ (t \div w) % h = b /\ t \div (w * h) = c
  BY <1>2
<1> QED
  BY <1>3 DEF HasIndex

\* The search comes to every point, and to no other.
LEMMA SearchIsComplete ==
  /\ Len(SearchOrder) \in Nat /\ DOMAIN SearchOrder = 1..Len(SearchOrder)
  /\ \A k \in 1..Len(SearchOrder) : SearchOrder[k] \in Outer
  /\ \A p \in Outer : \E k \in 1..Len(SearchOrder) : SearchOrder[k] = p
<1> DEFINE w == Size[2] + 2
           h == Size[1] + 2
           d == Size[3] + 2
           N == h * w * d
           At(k) == <<((k - 1) \div w) % h, (k - 1) % w, (k - 1) \div (h * w)>>
<1>1. /\ w \in Nat \ {0} /\ h \in Nat \ {0} /\ d \in Nat \ {0}
      /\ Size[1] \in Nat /\ Size[2] \in Nat /\ Size[3] \in Nat
      /\ w - 2 = Size[2] /\ h - 2 = Size[1] /\ d - 2 = Size[3]
  <2>1. \A i \in Axes : Size[i] \in Nat
    BY MeshAssumption
  <2>2. Size[1] \in Nat /\ Size[2] \in Nat /\ Size[3] \in Nat
    BY <2>1 DEF Axes
  <2> QED
    BY <2>2
<1>2. SearchOrder = [k \in 1..N |-> Minus(At(k), Ones)]
  <2>1. /\ Plus(Size, Times(2, Ones))[1] = h /\ Plus(Size, Times(2, Ones))[2] = w
        /\ Plus(Size, Times(2, Ones))[3] = d
    BY <1>1 DEF Plus, Times, Ones, Axes
  <2> HIDE DEF w, h, d
  <2> QED
    BY <2>1 DEF SearchOrder
<1> HIDE DEF w, h, d
<1>3. N = w * h * d /\ N \in Nat /\ h * w = w * h
  BY <1>1
<1>4. ASSUME NEW k \in 1..N
      PROVE  /\ (k - 1) % w \in 0..(w - 1) /\ ((k - 1) \div w) % h \in 0..(h - 1)
             /\ (k - 1) \div (h * w) \in 0..(d - 1)
  <2>1. k - 1 \in 0..(w * h * d - 1)
    BY <1>3
  <2>2. /\ (k - 1) % w \in 0..(w - 1) /\ ((k - 1) \div w) % h \in 0..(h - 1)
        /\ (k - 1) \div (w * h) \in 0..(d - 1)
    BY <1>1, <2>1, RowMajorBack
  <2> QED
    BY <1>3, <2>2
<1>5. ASSUME NEW x \in 0..(h - 1), NEW y \in 0..(w - 1), NEW z \in 0..(d - 1)
      PROVE  \E k \in 1..N : At(k) = <<x, y, z>>
  <2>1. PICK i \in 0..(w * h * d - 1) :
          i % w = y /\ (i \div w) % h = x /\ i \div (w * h) = z
    <3>1. w \in Nat \ {0} /\ h \in Nat \ {0} /\ d \in Nat \ {0}
      BY <1>1
    <3>2. HasIndex(w, h, d, y, x, z)
      BY <3>1, RowMajorOnto
    <3> QED
      BY <3>2 DEF HasIndex
  <2>2. i + 1 \in 1..N /\ (i + 1) - 1 = i
    BY <1>3, <2>1
  <2>3. At(i + 1) = <<x, y, z>>
    <3>1. (i + 1) - 1 = i /\ h * w = w * h
      BY <1>3, <2>2
    <3> HIDE DEF N
    <3> QED
      BY <2>1, <3>1
  <2> QED
    BY <2>2, <2>3
<1> HIDE DEF N
<1>6. ASSUME NEW k \in 1..N PROVE SearchOrder[k] \in Outer
  <2> DEFINE x == ((k - 1) \div w) % h
             y == (k - 1) % w
             z == (k - 1) \div (h * w)
             q == <<x, y, z>>
  <2>1. x \in 0..(h - 1) /\ y \in 0..(w - 1) /\ z \in 0..(d - 1)
    BY <1>4
  <2>2. SearchOrder[k] = Minus(q, Ones)
    BY <1>2
  <2> HIDE DEF x, y, z
  <2>3. x \in Int /\ y \in Int /\ z \in Int
    BY <2>1
  <2>4. Minus(q, Ones) \in Points3
    BY <2>3 DEF Minus, Points3, Axes, Ones
  <2>5. Minus(q, Ones)[1] = x - 1 /\ Minus(q, Ones)[2] = y - 1 /\ Minus(q, Ones)[3] = z - 1
    BY DEF Minus, Axes, Ones
  <2>6. \A i \in Axes : -1 <= Minus(q, Ones)[i] /\ Minus(q, Ones)[i] <= Size[i]
    BY <1>1, <2>1, <2>5, PointsAre
  <2> QED
    BY <2>2, <2>4, <2>6, OuterIs
<1>7. ASSUME NEW p \in Outer PROVE \E k \in 1..N : SearchOrder[k] = p
  <2> DEFINE x == p[1] + 1
             y == p[2] + 1
             z == p[3] + 1
  <2>1. p \in Points3 /\ \A i \in Axes : -1 <= p[i] /\ p[i] <= Size[i]
    BY OuterIs
  <2>2. p[1] \in Int /\ p[2] \in Int /\ p[3] \in Int
    BY <2>1 DEF Points3, Axes
  <2>3. x \in 0..(h - 1) /\ y \in 0..(w - 1) /\ z \in 0..(d - 1)
    BY <1>1, <2>1, <2>2 DEF Axes
  <2>4. x - 1 = p[1] /\ y - 1 = p[2] /\ z - 1 = p[3]
    BY <2>2
  <2> HIDE DEF x, y, z
  <2>5. PICK k \in 1..N : At(k) = <<x, y, z>>
    BY <1>5, <2>3
  <2>6. Minus(<<x, y, z>>, Ones) = p
    <3>1. x \in Int /\ y \in Int /\ z \in Int
      BY <2>3
    <3>2. Minus(<<x, y, z>>, Ones) \in Points3
      BY <3>1 DEF Minus, Points3, Axes, Ones
    <3>3. \A i \in Axes : Minus(<<x, y, z>>, Ones)[i] = p[i]
      BY <2>4 DEF Minus, Axes, Ones
    <3> QED
      BY <2>1, <3>2, <3>3, SamePoint
  <2> HIDE DEF At
  <2>7. SearchOrder[k] = Minus(At(k), Ones)
    BY <1>2
  <2> QED
    BY <2>5, <2>6, <2>7
<1>8. SearchOrder \in Seq(Outer) /\ Len(SearchOrder) = N
  <2>1. SearchOrder \in [1..N -> Outer]
    <3>1. SearchOrder = [k \in 1..N |-> SearchOrder[k]]
      BY <1>2
    <3> QED
      BY <1>6, <3>1
  <2> QED
    BY <1>3, <2>1
<1> QED
  BY <1>3, <1>6, <1>7, <1>8

\* Each box was stretched over solid voxels.
AreSolid(voxels, b) ==
  \A i \in 1..Len(b) : \E lo, hi : SolidBox(voxels, lo, hi) /\ b[i] = BoxOf(lo, hi)

\* A voxel is in one of the boxes.
IsIn(voxels, b, p) ==
  \E i \in 1..Len(b) : \E lo, hi :
    SolidBox(voxels, lo, hi) /\ b[i] = BoxOf(lo, hi) /\ p \in Region(lo, hi)

BoxesAreRight(voxels, b) == b \in Seq(Boxes) /\ AreSolid(voxels, b)

\* What was found: the boxes are right, and what is covered is in one of them.
FoundRight(voxels, f) ==
  BoxesAreRight(voxels, f.boxes) /\ \A p \in f.covered : IsIn(voxels, f.boxes, p)

\* Boxes of solid voxels with one more are such boxes.
LEMMA AppendIsRight ==
  ASSUME NEW voxels, NEW b, BoxesAreRight(voxels, b), NEW lo, NEW hi, SolidBox(voxels, lo, hi)
  PROVE  LET g == Append(b, BoxOf(lo, hi))
         IN /\ BoxesAreRight(voxels, g)
            /\ \A p : IsIn(voxels, b, p) \/ p \in Region(lo, hi) => IsIn(voxels, g, p)
<1> DEFINE box == BoxOf(lo, hi)
           g == Append(b, box)
<1>1. box \in Boxes /\ b \in Seq(Boxes)
  BY BoxCovers DEF SolidBox, BoxesAreRight
<1>2. SolidBox(voxels, lo, hi) /\ box = BoxOf(lo, hi)
  OBVIOUS
<1> HIDE DEF box
<1>3. /\ g \in Seq(Boxes) /\ Len(b) \in Nat /\ Len(g) = Len(b) + 1
      /\ g[Len(b) + 1] = box /\ \A i \in 1..Len(b) : g[i] = b[i]
  BY <1>1
<1> HIDE DEF g
<1>4. AreSolid(voxels, g)
  <2> SUFFICES ASSUME NEW i \in 1..Len(g)
               PROVE  \E k, l : SolidBox(voxels, k, l) /\ g[i] = BoxOf(k, l)
    BY DEF AreSolid
  <2>1. CASE i = Len(b) + 1
    BY <1>2, <1>3, <2>1
  <2>2. CASE i \in 1..Len(b)
    BY <1>3, <2>2 DEF BoxesAreRight, AreSolid
  <2> QED
    BY <1>3, <2>1, <2>2
<1>5. ASSUME NEW p, IsIn(voxels, b, p) PROVE IsIn(voxels, g, p)
  <2>1. PICK i \in 1..Len(b) : \E k, l :
          SolidBox(voxels, k, l) /\ b[i] = BoxOf(k, l) /\ p \in Region(k, l)
    BY <1>5 DEF IsIn
  <2>2. i \in 1..Len(g) /\ g[i] = b[i]
    BY <1>3
  <2> QED
    BY <2>1, <2>2 DEF IsIn
<1>6. ASSUME NEW p, p \in Region(lo, hi) PROVE IsIn(voxels, g, p)
  <2>1. Len(b) + 1 \in 1..Len(g)
    BY <1>3
  <2> QED
    BY <1>2, <1>3, <1>6, <2>1 DEF IsIn
<1> QED
  BY <1>1, <1>3, <1>4, <1>5, <1>6 DEF BoxesAreRight, g, box

\* A step of the search covers the voxel that it looks at, if that is solid.
LEMMA CoverIsRight ==
  ASSUME NEW voxels, NEW f, FoundRight(voxels, f), NEW p \in Outer
  PROVE  LET g == Cover(Solidity(Padded(voxels)), f, p)
         IN /\ FoundRight(voxels, g) /\ f.covered \subseteq g.covered
            /\ SolidAt(voxels, p) => p \in g.covered
<1> DEFINE v == Solidity(Padded(voxels))
           g == Cover(v, f, p)
<1>1. Get(v, p) = 1 <=> SolidAt(voxels, p)
  BY PaddedHolds
<1>2. CASE Get(v, p) # 1 \/ p \in f.covered
  <2>1. g = f
    BY <1>2 DEF Cover
  <2> HIDE DEF g, v
  <2>2. SolidAt(voxels, p) => p \in f.covered
    BY <1>1, <1>2
  <2> QED
    BY <2>1, <2>2 DEF g, v
<1>3. CASE Get(v, p) = 1 /\ p \notin f.covered
  <2> DEFINE h1 == Stretch(v, p, p, 1)
             h2 == Stretch(v, p, h1, 2)
             hi == Stretch(v, p, h2, 3)
  <2>1. g.covered = f.covered \cup Region(p, hi) /\ g.boxes = Append(f.boxes, BoxOf(p, hi))
    BY <1>3 DEF Cover
  <2>2. SolidBox(voxels, p, p)
    <3>1. p \in Inside /\ SolidAt(voxels, p)
      BY <1>1, <1>3 DEF SolidAt
    <3>2. p \in Points3 /\ \A i \in Axes : p[i] \in Int
      BY OuterIs DEF Points3
    <3>3. Ordered(p, p)
      BY <3>1, <3>2 DEF Ordered
    <3>4. ASSUME NEW q \in Region(p, p) PROVE q = p
      <4>1. q \in Points3 /\ \A i \in Axes : q[i] \in Int /\ p[i] <= q[i] /\ q[i] <= p[i]
        BY <3>2, RegionIs DEF Within, Points3
      <4>2. \A i \in Axes : q[i] = p[i]
        BY <3>2, <4>1
      <4> QED
        BY <3>2, <4>1, <4>2, SamePoint
    <3> QED
      BY <3>1, <3>3, <3>4 DEF SolidBox
  <2>3. 1 \in Axes /\ 2 \in Axes /\ 3 \in Axes
    BY DEF Axes
  <2>4. SolidBox(voxels, p, h1)
    BY <2>2, <2>3, StretchedIsSolid
  <2> HIDE DEF h1
  <2>5. SolidBox(voxels, p, h2)
    BY <2>3, <2>4, StretchedIsSolid
  <2> HIDE DEF h2
  <2>6. SolidBox(voxels, p, hi)
    BY <2>3, <2>5, StretchedIsSolid
  <2> HIDE DEF hi, g, v
  <2>7. /\ BoxesAreRight(voxels, g.boxes)
        /\ \A q : IsIn(voxels, f.boxes, q) \/ q \in Region(p, hi) => IsIn(voxels, g.boxes, q)
    BY <2>1, <2>6, AppendIsRight DEF FoundRight
  <2>8. FoundRight(voxels, g)
    BY <2>1, <2>7 DEF FoundRight
  <2>9. p \in Region(p, hi)
    <3>1. p \in Points3 /\ hi \in Points3 /\ \A i \in Axes : p[i] \in Int /\ p[i] <= hi[i]
      BY <2>6, OuterIs DEF SolidBox, Ordered, Points3
    <3> QED
      BY <3>1, RegionIs DEF Within
  <2> QED
    BY <2>1, <2>8, <2>9 DEF g, v
<1> QED
  BY <1>2, <1>3

Searches(f, v, n) ==
  f = [k \in 0..n |-> IF k = 0 THEN [covered |-> {}, boxes |-> <<>>]
                      ELSE Cover(v, f[k - 1], SearchOrder[k])]

\* The recursive function of PhysicsBoxes is defined for every step.
LEMMA SearchExists ==
  ASSUME NEW v, NEW n \in Nat
  PROVE  \E f : Searches(f, v, n)
<1> DEFINE first == [covered |-> {}, boxes |-> <<>>]
           Q == {k \in Nat : ~\E f : Searches(f, v, k)}
<1> SUFFICES Q = {}
  OBVIOUS
<1> SUFFICES ASSUME Q # {} PROVE FALSE
  OBVIOUS
<1>1. PICK m \in Q : \A j \in Q : m <= j
  BY LeastExists
<1>2. m # 0
  <2>1. Searches([k \in 0..0 |-> first], v, 0)
    BY DEF Searches
  <2> QED
    BY <1>1, <2>1
<1>3. m - 1 \in Nat /\ m - 1 \notin Q
  BY <1>1, <1>2
<1>4. PICK f : Searches(f, v, m - 1)
  BY <1>3
<1> HIDE DEF first
<1>5. \A k \in 0..(m - 1) : f[k] = IF k = 0 THEN first ELSE Cover(v, f[k - 1], SearchOrder[k])
  BY <1>4 DEF Searches, first
<1> DEFINE g == [k \in 0..m |-> IF k = 0 THEN first ELSE Cover(v, f[k - 1], SearchOrder[k])]
<1>6. \A k \in 0..(m - 1) : g[k] = f[k]
  BY <1>3, <1>5
<1>7. \A k \in 0..m : k # 0 => k - 1 \in 0..(m - 1)
  BY <1>3
<1>8. g = [k \in 0..m |-> IF k = 0 THEN first ELSE Cover(v, g[k - 1], SearchOrder[k])]
  <2>1. \A k \in 0..m : k # 0 => g[k - 1] = f[k - 1]
    <3> HIDE DEF g
    <3> QED
      BY <1>6, <1>7
  <2>2. g = [k \in 0..m |-> g[k]] /\ \A k \in 0..m :
          g[k] = IF k = 0 THEN first ELSE Cover(v, f[k - 1], SearchOrder[k])
    OBVIOUS
  <2> HIDE DEF g
  <2> QED
    BY <2>1, <2>2
<1>9. Searches(g, v, m)
  <2> HIDE DEF g
  <2> QED
    BY <1>8 DEF Searches, first
<1> QED
  BY <1>1, <1>9

\* Every solid voxel is in a box, and each box is of solid voxels.
LEMMA BoxesFill ==
  ASSUME NEW voxels
  PROVE  LET b == PhysicsBoxes(Padded(voxels))
         IN /\ BoxesAreRight(voxels, b)
            /\ \A p \in Inside : SolidAt(voxels, p) => IsIn(voxels, b, p)
<1> DEFINE v == Solidity(Padded(voxels))
           N == Len(SearchOrder)
           f == CHOOSE f : Searches(f, v, N)
           first == [covered |-> {}, boxes |-> <<>>]
<1>1. N \in Nat /\ \A k \in 1..N : SearchOrder[k] \in Outer
  BY SearchIsComplete
<1>2. Searches(f, v, N)
  <2> HIDE DEF N, v
  <2> QED
    BY <1>1, SearchExists
<1>3. PhysicsBoxes(Padded(voxels)) = f[N].boxes
  BY DEF PhysicsBoxes, Searches
<1> HIDE DEF f, N, v
<1>4. \A k \in 0..N : f[k] = IF k = 0 THEN first ELSE Cover(v, f[k - 1], SearchOrder[k])
  BY <1>2 DEF Searches
<1> DEFINE Sought(k) == \A j \in 1..k : SolidAt(voxels, SearchOrder[j])
                                         => SearchOrder[j] \in f[k].covered
           Q == {k \in 0..N : ~(FoundRight(voxels, f[k]) /\ Sought(k))}
<1>5. Q = {}
  <2> SUFFICES ASSUME Q # {} PROVE FALSE
    OBVIOUS
  <2>1. Q \subseteq Nat
    OBVIOUS
  <2>2. PICK k \in Q : \A j \in Q : k <= j
    BY <2>1, LeastExists
  <2>3. k # 0
    <3>1. f[0] = first
      BY <1>1, <1>4
    <3>2. FoundRight(voxels, first)
      <4>1. <<>> \in Seq(Boxes) /\ Len(<<>>) = 0
        OBVIOUS
      <4> QED
        BY <4>1 DEF FoundRight, BoxesAreRight, AreSolid
    <3>3. Sought(0)
      OBVIOUS
    <3> HIDE DEF first
    <3> QED
      BY <2>2, <3>1, <3>2, <3>3
  <2>4. k \in 1..N /\ k - 1 \in 0..N /\ k - 1 \notin Q
    BY <1>1, <2>2, <2>3
  <2>5. FoundRight(voxels, f[k - 1]) /\ Sought(k - 1)
    BY <2>4
  <2>6. f[k] = Cover(v, f[k - 1], SearchOrder[k])
    BY <1>4, <2>3, <2>4
  <2>7. /\ FoundRight(voxels, f[k]) /\ f[k - 1].covered \subseteq f[k].covered
        /\ SolidAt(voxels, SearchOrder[k]) => SearchOrder[k] \in f[k].covered
    BY <1>1, <2>4, <2>5, <2>6, CoverIsRight DEF v
  <2>8. Sought(k)
    <3> SUFFICES ASSUME NEW j \in 1..k, SolidAt(voxels, SearchOrder[j])
                 PROVE  SearchOrder[j] \in f[k].covered
      OBVIOUS
    <3>1. CASE j = k
      BY <2>7, <3>1
    <3>2. CASE j # k
      <4>1. j \in 1..(k - 1)
        BY <2>4, <3>2
      <4> QED
        BY <2>5, <2>7, <4>1
    <3> QED
      BY <3>1, <3>2
  <2> QED
    BY <2>2, <2>7, <2>8
<1>6. FoundRight(voxels, f[N]) /\ Sought(N)
  BY <1>1, <1>5
<1>7. ASSUME NEW p \in Inside, SolidAt(voxels, p) PROVE IsIn(voxels, f[N].boxes, p)
  <2>1. PICK j \in 1..N : SearchOrder[j] = p
    BY SearchIsComplete, OuterIs DEF N
  <2> QED
    BY <1>6, <1>7, <2>1 DEF FoundRight
<1> QED
  BY <1>3, <1>6, <1>7 DEF FoundRight

-----------------------------------------------------------------------------
(* VoxelMesh: the steps                                                    *)

VMInv ==
  /\ shapes \in Seq(Boxes)
  /\ \E voxels :
       /\ data = Padded(voxels)
       /\ boxed => /\ BoxesAreRight(voxels, shapes)
                   /\ \A p \in Inside : SolidAt(voxels, p) => IsIn(voxels, shapes, p)

\* At first there are no shapes of this volume.
LEMMA VMInitInv == VMInit => VMInv
<1> SUFFICES ASSUME VMInit PROVE VMInv
  OBVIOUS
<1>1. \E voxels : data = Padded(voxels)
  BY DEF VMInit
<1>2. shapes \in Seq(Boxes)
  <2> DEFINE box == [size |-> Size, position |-> <<0, 0, 0>>]
  <2>1. box \in Boxes
    BY MeshAssumption, PointsAre DEF Boxes, Points3
  <2>2. PICK n \in 0..OldShapes : shapes = [i \in 1..n |-> box]
    BY DEF VMInit
  <2>3. n \in Nat
    OBVIOUS
  <2> HIDE DEF box
  <2> QED
    BY <2>1, <2>2, <2>3
<1>3. ~boxed
  BY DEF VMInit
<1> QED
  BY <1>1, <1>2, <1>3 DEF VMInv

\* The shapes that were there before are used again, and no other is left.
LEMMA ShapesAreBoxes ==
  ASSUME SetVoxelPhysicsBoxes, shapes \in Seq(Boxes), PhysicsBoxes(data) \in Seq(Boxes)
  PROVE  shapes' = PhysicsBoxes(data)
<1> DEFINE b == PhysicsBoxes(data)
           n == IF Len(shapes) < Len(b) THEN Len(shapes) ELSE Len(b)
           old == [i \in 1..n |-> b[i]]
           new == SubSeq(b, n + 1, Len(b))
<1>1. shapes' = old \o new
  BY DEF SetVoxelPhysicsBoxes
<1>2. b \in Seq(Boxes)
  OBVIOUS
<1> HIDE DEF b
<1>3. n \in Nat /\ n <= Len(b) /\ Len(b) \in Nat
  BY <1>2
<1> HIDE DEF n
<1>4. old \in Seq(Boxes) /\ Len(old) = n /\ \A i \in 1..n : old[i] = b[i]
  <2>1. \A i \in 1..n : b[i] \in Boxes
    BY <1>2, <1>3
  <2>2. old \in [1..n -> Boxes]
    BY <2>1
  <2> QED
    BY <1>3, <2>2
<1>5. /\ new \in Seq(Boxes) /\ Len(new) = Len(b) - n
      /\ \A i \in 1..(Len(b) - n) : new[i] = b[n + i]
  BY <1>2, <1>3
<1> HIDE DEF old, new
<1>6. old \o new \in Seq(Boxes) /\ Len(old \o new) = Len(b)
  <2>1. /\ old \o new \in Seq(Boxes) /\ Len(old \o new) = Len(old) + Len(new)
    BY <1>4, <1>5, ConcatProperties
  <2> QED
    BY <1>3, <1>4, <1>5, <2>1
<1>7. ASSUME NEW i \in 1..Len(b) PROVE (old \o new)[i] = b[i]
  <2>1. CASE i <= n
    BY <1>3, <1>4, <1>5, <2>1
  <2>2. CASE i > n
    <3>1. (old \o new)[i] = new[i - n] /\ i - n \in 1..(Len(b) - n) /\ n + (i - n) = i
      BY <1>3, <1>4, <1>5, <2>2
    <3> QED
      BY <1>5, <3>1
  <2>3. i <= n \/ i > n
    <3>1. i \in Int /\ n \in Int
      BY <1>3
    <3> QED
      BY <3>1
  <2> QED
    BY <2>1, <2>2, <2>3, Zenon
<1>8. old \o new = b
  BY <1>2, <1>6, <1>7, SeqEqual
<1> QED
  BY <1>1, <1>8 DEF b

\* Only the boxes of the volume become shapes of the node.
LEMMA VMStepInv == VMInv /\ [VMNext]_vmVars => VMInv'
<1> SUFFICES ASSUME VMInv, [VMNext]_vmVars PROVE VMInv'
  OBVIOUS
<1>1. CASE SetVoxelGeometry
  BY <1>1 DEF SetVoxelGeometry, VMInv
<1>2. CASE \E lod \in LowerLods : SetVoxelLodGeometry(lod)
  BY <1>2 DEF SetVoxelLodGeometry, VMInv
<1>3. CASE SetVoxelPhysicsBoxes
  <2>1. PICK voxels : data = Padded(voxels)
    BY DEF VMInv
  <2>2. /\ BoxesAreRight(voxels, PhysicsBoxes(data))
        /\ \A p \in Inside : SolidAt(voxels, p) => IsIn(voxels, PhysicsBoxes(data), p)
    BY <2>1, BoxesFill
  <2>3. PhysicsBoxes(data) \in Seq(Boxes)
    BY <2>2 DEF BoxesAreRight
  <2>4. shapes' = PhysicsBoxes(data) /\ data' = data
    <3>1. shapes' = PhysicsBoxes(data)
      BY <1>3, <2>3, ShapesAreBoxes DEF VMInv
    <3> QED
      BY <1>3, <3>1 DEF SetVoxelPhysicsBoxes
  <2> QED
    BY <2>1, <2>2, <2>3, <2>4 DEF VMInv
<1>4. CASE UNCHANGED vmVars
  BY <1>4 DEF vmVars, VMInv
<1> QED
  BY <1>1, <1>2, <1>3, <1>4 DEF VMNext

\* With even sizes a box is placed where the voxels are drawn that it covers.
LEMMA FilledBySolid ==
  ASSUME VMInv, Even
  PROVE  ShapesFillSolid
<1> SUFFICES ASSUME boxed PROVE
      /\ UNION {CoveredBy(shapes[i]) : i \in DOMAIN shapes} = {p \in Inside : Solid(p)}
      /\ \A i \in DOMAIN shapes :
           Cardinality(CoveredBy(shapes[i]))
             = shapes[i].size[1] * shapes[i].size[2] * shapes[i].size[3]
  BY DEF ShapesFillSolid
<1>1. PICK voxels :
        /\ data = Padded(voxels) /\ BoxesAreRight(voxels, shapes)
        /\ \A p \in Inside : SolidAt(voxels, p) => IsIn(voxels, shapes, p)
  BY DEF VMInv
<1>2. shapes \in Seq(Boxes) /\ DOMAIN shapes = 1..Len(shapes)
  BY DEF VMInv
<1>3. \A p \in Inside : Solid(p) <=> SolidAt(voxels, p)
  BY <1>1, OuterIs, PaddedHolds DEF Solid, SolidAt
<1>4. ASSUME NEW lo, NEW hi, SolidBox(voxels, lo, hi)
      PROVE  /\ CoveredBy(BoxOf(lo, hi)) = Region(lo, hi)
             /\ Cardinality(CoveredBy(BoxOf(lo, hi)))
                  = BoxOf(lo, hi).size[1] * BoxOf(lo, hi).size[2] * BoxOf(lo, hi).size[3]
  BY <1>4, BoxCovers DEF SolidBox
<1>5. ASSUME NEW i \in 1..Len(shapes), NEW p \in CoveredBy(shapes[i])
      PROVE  p \in Inside /\ Solid(p)
  <2>1. PICK lo, hi : SolidBox(voxels, lo, hi) /\ shapes[i] = BoxOf(lo, hi)
    BY <1>1 DEF BoxesAreRight, AreSolid
  <2>2. p \in Region(lo, hi)
    BY <1>4, <2>1
  <2>3. SolidAt(voxels, p)
    BY <2>1, <2>2 DEF SolidBox
  <2> QED
    BY <1>3, <2>3 DEF SolidAt
<1>6. ASSUME NEW p \in Inside, Solid(p)
      PROVE  \E i \in 1..Len(shapes) : p \in CoveredBy(shapes[i])
  <2>1. IsIn(voxels, shapes, p)
    BY <1>1, <1>3, <1>6
  <2>2. PICK i \in 1..Len(shapes) : \E lo, hi :
          SolidBox(voxels, lo, hi) /\ shapes[i] = BoxOf(lo, hi) /\ p \in Region(lo, hi)
    BY <2>1 DEF IsIn
  <2> QED
    BY <1>4, <2>2
<1>7. ASSUME NEW i \in 1..Len(shapes)
      PROVE  Cardinality(CoveredBy(shapes[i]))
               = shapes[i].size[1] * shapes[i].size[2] * shapes[i].size[3]
  <2>1. PICK lo, hi : SolidBox(voxels, lo, hi) /\ shapes[i] = BoxOf(lo, hi)
    BY <1>1 DEF BoxesAreRight, AreSolid
  <2> QED
    BY <1>4, <2>1
<1>8. UNION {CoveredBy(shapes[i]) : i \in 1..Len(shapes)} = {p \in Inside : Solid(p)}
  BY <1>5, <1>6
<1> QED
  BY <1>2, <1>7, <1>8

\* The collision shapes of a node cover every solid voxel of the volume that they
\* were made of and nothing else, and none sticks out of it: for any volume of
\* even sizes and any voxel definitions, whatever shapes the node had before.
\* (For odd sizes generate_voxel_physics_boxes() places them half a voxel off.)
THEOREM ShapesFill ==
  ASSUME Even
  PROVE  VMSpec => []ShapesFillSolid
<1>1. VMInit => VMInv
  BY VMInitInv
<1>2. VMInv /\ [VMNext]_vmVars => VMInv'
  BY VMStepInv
<1>3. VMInv => ShapesFillSolid
  BY FilledBySolid
<1> QED
  BY <1>1, <1>2, <1>3, PTL DEF VMSpec

-----------------------------------------------------------------------------
(* VoxelMesh: the cells of a level of detail                               *)

\* A finite set of naturals is bounded.
LEMMA BoundExists ==
  ASSUME NEW S, IsFiniteSet(S), S \subseteq Nat
  PROVE  \E b \in Nat : S \subseteq 0..b
<1> DEFINE n == Cardinality(S)
<1>1. n \in Nat /\ ExistsBijection(1..n, S)
  BY FS_CardinalityType
<1> HIDE DEF n
<1>2. PICK f : f \in Bijection(1..n, S)
  BY <1>1 DEF ExistsBijection
<1>3. /\ \A i \in 1..n : f[i] \in S /\ f[i] \in Nat
      /\ \A x \in S : \E i \in 1..n : f[i] = x
  BY <1>2 DEF Bijection, Injection, Surjection
<1> DEFINE Bound(k, b) == \A i \in 1..k : f[i] <= b
           Q == {k \in 0..n : ~\E b \in Nat : Bound(k, b)}
<1>4. Q = {}
  <2> SUFFICES ASSUME Q # {} PROVE FALSE
    OBVIOUS
  <2>1. Q \subseteq Nat
    OBVIOUS
  <2>2. PICK k \in Q : \A j \in Q : k <= j
    BY <2>1, LeastExists
  <2>3. k # 0
    <3>1. Bound(0, 0) /\ 0 \in Nat
      OBVIOUS
    <3> HIDE DEF Bound
    <3> QED
      BY <2>2, <3>1
  <2>4. k \in 1..n /\ k - 1 \in 0..n /\ k - 1 \notin Q
    <3>1. k \in 0..n /\ k - 1 < k
      BY <1>1, <2>2
    <3>2. k \in 1..n /\ k - 1 \in 0..n
      BY <1>1, <2>3, <3>1
    <3> HIDE DEF Q
    <3> QED
      BY <2>2, <3>1, <3>2
  <2>5. PICK b \in Nat : Bound(k - 1, b)
    BY <2>4
  <2> DEFINE m == IF f[k] <= b THEN b ELSE f[k]
  <2>6. m \in Nat /\ b <= m /\ f[k] <= m
    <3>1. f[k] \in Nat
      BY <1>3, <2>4
    <3> QED
      BY <3>1
  <2> HIDE DEF m
  <2>7. Bound(k, m)
    <3> SUFFICES ASSUME NEW i \in 1..k PROVE f[i] <= m
      OBVIOUS
    <3>0. i \in 1..n
      <4>1. k \in Int /\ n \in Int /\ k <= n
        BY <1>1, <2>4
      <4> QED
        BY <4>1
    <3>1. f[i] \in Nat
      BY <1>3, <3>0
    <3>2. i = k \/ i \in 1..(k - 1)
      BY <2>4
    <3>3. i \in 1..(k - 1) => f[i] <= b
      BY <2>5
    <3> QED
      BY <2>6, <3>1, <3>2, <3>3
  <2> HIDE DEF Bound
  <2> QED
    BY <2>2, <2>6, <2>7
<1>5. PICK b \in Nat : Bound(n, b)
  <2>1. n \in 0..n
    BY <1>1
  <2> HIDE DEF Bound
  <2> QED
    BY <1>4, <2>1
<1>6. \A x \in S : x \in 0..b
  BY <1>3, <1>5
<1> QED
  BY <1>6

\* The greatest of a set is what CHOOSE gives.
LEMMA GreatestIs ==
  ASSUME NEW S, S \subseteq Nat, NEW m \in S, \A k \in S : k <= m
  PROVE  (CHOOSE i \in S : \A k \in S : k <= i) = m
<1> DEFINE Greatest(i) == \A k \in S : k <= i
<1>1. \A i \in S : i \in Int
  OBVIOUS
<1>2. \A i \in S : Greatest(i) => i = m
  <2> SUFFICES ASSUME NEW i \in S, Greatest(i) PROVE i = m
    OBVIOUS
  <2>1. m <= i /\ i <= m
    OBVIOUS
  <2> QED
    BY <1>1, <2>1
<1>3. Greatest(m)
  OBVIOUS
<1> HIDE DEF Greatest
<1>4. (CHOOSE i \in S : Greatest(i)) = m
  BY <1>2, <1>3
<1> QED
  BY <1>4 DEF Greatest

\* Points of a cell
InCell(lod, c, p) == \A i \in Axes : lod * c[i] <= p[i] /\ p[i] <= lod * c[i] + lod - 1

Volume(voxels) == voxels \in [Inside -> Nat] /\ data = Padded(voxels)

\* The volume of the state, by its voxels
LEMMA DataIs ==
  ASSUME NEW voxels, Volume(voxels), NEW p \in Outer
  PROVE  /\ Get(data, p) = (IF p \in Inside THEN voxels[p] ELSE Undefined)
         /\ Get(data, p) \in Nat
         /\ IndexIn(data, p) \in DOMAIN data.at
         /\ data.at[IndexIn(data, p)] = Get(data, p)
<1>1. Get(data, p) = IF p \in Inside THEN voxels[p] ELSE Undefined
  BY PaddedHolds DEF Volume
<1>2. Get(data, p) \in Nat
  BY <1>1 DEF Volume, Undefined
<1>3. IndexIn(data, p) \in DOMAIN data.at
  BY PointsAre, ArrayHolds DEF Volume, Padded, Outer
<1> QED
  BY <1>1, <1>2, <1>3 DEF Get

\* The last cell along an axis
CellCount(lod, i) == (Size[i] - 1) \div lod

\* The cells by their coordinates
LEMMA CellsAre ==
  ASSUME NEW lod \in Nat \ {0}
  PROVE  /\ \A i \in Axes : CellCount(lod, i) \in Nat
         /\ \A c : c \in Cells(lod) <=>
              c \in Points3 /\ \A i \in Axes : 0 <= c[i] /\ c[i] <= CellCount(lod, i)
<1>1. \A i \in Axes : CellCount(lod, i) \in Nat
  <2> SUFFICES ASSUME NEW i \in Axes PROVE CellCount(lod, i) \in Nat
    OBVIOUS
  <2>1. Size[i] - 1 \in Nat
    BY MeshAssumption
  <2> QED
    BY <2>1, Divided DEF CellCount
<1> DEFINE last == [i \in Axes |-> (Size[i] - 1) \div lod]
<1>2. last \in Points3 /\ \A i \in Axes : last[i] = CellCount(lod, i)
  BY <1>1 DEF CellCount, Points3
<1>3. \A i \in Axes : <<0, 0, 0>>[i] = 0
  BY DEF Axes
<1>4. Cells(lod) = Region(<<0, 0, 0>>, last)
  BY DEF Cells
<1> HIDE DEF last
<1> QED
  BY <1>1, <1>2, <1>3, <1>4, PointsAre, RegionIs DEF Within

\* Where a cell of the volume begins and where the next one does
LEMMA CellEnds ==
  ASSUME NEW lod \in Nat \ {0}, NEW i \in Axes, NEW k \in Int
  PROVE  /\ k <= CellCount(lod, i) => lod * k <= Size[i] - 1
         /\ k > CellCount(lod, i) => lod * k >= Size[i]
         /\ k < 0 => lod * k + lod - 1 < 0
         /\ k >= 0 => lod * k >= 0
         /\ lod * k \in Int
<1> DEFINE n == Size[i] - 1
           q == n \div lod
<1>1. n \in Nat /\ n + 1 = Size[i]
  BY MeshAssumption
<1> HIDE DEF n
<1>2. q \in Nat /\ n % lod \in 0..(lod - 1) /\ n = lod * q + (n % lod)
  BY <1>1, Divided
<1>3. CellCount(lod, i) = q
  BY DEF CellCount, n
<1> HIDE DEF q
<1>4. \A a, b \in Int : a <= b => lod * a <= lod * b
  <2> SUFFICES ASSUME NEW a \in Int, NEW b \in Int, a <= b PROVE lod * a <= lod * b
    OBVIOUS
  <2>1. PICK d \in Nat : b = a + d
    <3>1. b - a \in Nat /\ b = a + (b - a)
      OBVIOUS
    <3> QED
      BY <3>1
  <2>2. lod * b = lod * a + lod * d /\ lod * d \in Nat /\ lod * a \in Int
    BY <2>1
  <2> QED
    BY <2>2
<1>5. lod * q \in Int /\ lod * k \in Int /\ lod * (q + 1) = lod * q + lod /\ lod * (-1) = -lod
  BY <1>2
<1>6. k <= q => lod * k <= n
  BY <1>2, <1>4, <1>5
<1>7. k > q => lod * k >= n + 1
  <2> SUFFICES ASSUME k > q PROVE lod * k >= n + 1
    OBVIOUS
  <2>1. q + 1 <= k /\ q + 1 \in Int
    BY <1>2
  <2>2. lod * (q + 1) <= lod * k
    BY <1>4, <2>1
  <2> QED
    BY <1>1, <1>2, <1>5, <2>2
<1>8. k < 0 => lod * k + lod - 1 < 0
  <2> SUFFICES ASSUME k < 0 PROVE lod * k + lod - 1 < 0
    OBVIOUS
  <2>1. k <= -1 /\ -1 \in Int
    OBVIOUS
  <2>2. lod * k <= lod * (-1)
    BY <1>4, <2>1
  <2> QED
    BY <1>5, <2>2
<1>9. k >= 0 => lod * k >= 0
  OBVIOUS
<1> QED
  BY <1>1, <1>3, <1>5, <1>6, <1>7, <1>8, <1>9

\* The highest id of a cell is that of one of its voxels.
LEMMA CellIs ==
  ASSUME NEW voxels, Volume(voxels), NEW lod \in Nat \ {0}, NEW c \in Cells(lod)
  PROVE  /\ CellId(lod, c) \in Nat
         /\ \E p \in Inside : InCell(lod, c, p) /\ Get(data, p) = CellId(lod, c)
         /\ \A p \in Inside : InCell(lod, c, p) => Get(data, p) <= CellId(lod, c)
<1> DEFINE last == [i \in Axes |-> IF (c[i] + 1) * lod < Size[i] THEN (c[i] + 1) * lod - 1
                                   ELSE Size[i] - 1]
           first == Times(lod, c)
           R == Region(first, last)
           ids == {Get(data, p) : p \in R}
<1>1. c \in Points3 /\ \A i \in Axes : c[i] \in Int /\ 0 <= c[i] /\ c[i] <= CellCount(lod, i)
  BY CellsAre DEF Points3
<1>2. \A i \in Axes : Size[i] \in Int
  BY PointsAre DEF Points3
<1>3. ASSUME NEW i \in Axes
      PROVE  /\ first[i] = lod * c[i] /\ first[i] \in Int /\ last[i] \in Int
             /\ 0 <= first[i] /\ first[i] <= last[i] /\ last[i] <= Size[i] - 1
             /\ \A x \in Int : x <= last[i] <=> x <= lod * c[i] + lod - 1 /\ x <= Size[i] - 1
  <2> DEFINE k == c[i]
             t == lod * k
  <2>1. /\ k \in Int /\ t \in Int /\ 0 <= t /\ t <= Size[i] - 1 /\ (k + 1) * lod = t + lod
        /\ first[i] = t /\ lod \in Int /\ lod > 0
    <3>1. k \in Int /\ 0 <= k /\ k <= CellCount(lod, i)
      BY <1>1
    <3> HIDE DEF k
    <3>2. t \in Int /\ 0 <= t /\ t <= Size[i] - 1
      BY <3>1, CellEnds
    <3>3. (k + 1) * lod = t + lod
      BY <3>1
    <3>4. first[i] = t
      BY DEF Times, k
    <3> QED
      BY <3>1, <3>2, <3>3, <3>4
  <2>2. last[i] = IF t + lod < Size[i] THEN t + lod - 1 ELSE Size[i] - 1
    <3>1. last[i] = IF (k + 1) * lod < Size[i] THEN (k + 1) * lod - 1 ELSE Size[i] - 1
      OBVIOUS
    <3> HIDE DEF last, k, t
    <3> QED
      BY <2>1, <3>1
  <2>3. first[i] = lod * c[i]
    BY <2>1
  <2> HIDE DEF t, last, first
  <2> QED
    BY <1>2, <2>1, <2>2, <2>3 DEF t, k
<1>4. first \in Points3 /\ last \in Points3
  <2>1. first = [i \in Axes |-> first[i]] /\ last = [i \in Axes |-> last[i]]
    BY DEF Times
  <2> HIDE DEF first, last
  <2> QED
    BY <1>3, <2>1 DEF Points3
<1>5. CellId(lod, c) = CHOOSE id \in ids : \A k \in ids : k <= id
  BY DEF CellId
<1> HIDE DEF first, last
<1>6. ASSUME NEW p PROVE p \in R <=> p \in Inside /\ InCell(lod, c, p)
  <2>1. p \in R <=> p \in Points3 /\ \A i \in Axes : first[i] <= p[i] /\ p[i] <= last[i]
    BY <1>4, RegionIs DEF Within
  <2>2. p \in Points3 => \A i \in Axes : p[i] \in Int
    BY DEF Points3
  <2>3. p \in Points3 => \A i \in Axes :
          first[i] <= p[i] /\ p[i] <= last[i] <=>
            /\ 0 <= p[i] /\ p[i] <= Size[i] - 1
            /\ lod * c[i] <= p[i] /\ p[i] <= lod * c[i] + lod - 1
    <3> SUFFICES ASSUME p \in Points3, NEW i \in Axes
                 PROVE  first[i] <= p[i] /\ p[i] <= last[i] <=>
                          /\ 0 <= p[i] /\ p[i] <= Size[i] - 1
                          /\ lod * c[i] <= p[i] /\ p[i] <= lod * c[i] + lod - 1
      OBVIOUS
    <3>1. /\ p[i] \in Int /\ first[i] = lod * c[i] /\ first[i] \in Int /\ 0 <= first[i]
          /\ p[i] <= last[i] <=> p[i] <= lod * c[i] + lod - 1 /\ p[i] <= Size[i] - 1
      BY <1>3, <2>2
    <3> QED
      BY <3>1
  <2> QED
    BY <2>1, <2>3, OuterIs DEF InCell
<1>7. IsFiniteSet(R)
  BY <1>3, <1>4, RegionCount
<1>8. IsFiniteSet(ids)
  <2> DEFINE f == [p \in R |-> Get(data, p)]
  <2>1. f \in Surjection(R, ids)
    BY DEF Surjection
  <2> HIDE DEF f, ids, R
  <2> QED
    BY <1>7, <2>1, FS_Surjection
<1>9. ids \subseteq Nat
  BY <1>6, OuterIs, DataIs
<1>10. ids # {}
  <2>1. first \in R
    <3>1. Within(first, last, first)
      BY <1>3 DEF Within
    <3> QED
      BY <1>4, <3>1, RegionIs
  <2> QED
    BY <2>1
<1> HIDE DEF R
<1>11. PICK m \in ids : \A k \in ids : k <= m
  <2> HIDE DEF ids
  <2>1. PICK b \in Nat : ids \subseteq 0..b
    BY <1>8, <1>9, BoundExists
  <2> QED
    BY <1>10, <2>1, GreatestExists
<1>12. CellId(lod, c) = m
  <2> HIDE DEF ids
  <2>1. (CHOOSE id \in ids : \A k \in ids : k <= id) = m
    BY <1>9, <1>11, GreatestIs
  <2> QED
    BY <1>5, <2>1
<1>13. m \in Nat
  BY <1>9, <1>11
<1>14. \E p \in Inside : InCell(lod, c, p) /\ Get(data, p) = m
  BY <1>6, <1>11
<1>15. \A p \in Inside : InCell(lod, c, p) => Get(data, p) <= m
  BY <1>6, <1>11
<1> QED
  BY <1>12, <1>13, <1>14, <1>15

\* The same with the undefined voxel, which is less than all others
LEMMA GreatestOrNothing ==
  ASSUME NEW S, S \subseteq Nat, NEW m \in S \cup {Undefined}, \A k \in S : k <= m
  PROVE  (CHOOSE i \in S \cup {Undefined} : \A k \in S : k <= i) = m
<1> DEFINE T == S \cup {Undefined}
           Greatest(i) == \A k \in S : k <= i
<1>1. \A i \in T : i \in Nat
  BY DEF Undefined
<1>2. \A i \in T : Greatest(i) => i = m
  <2> SUFFICES ASSUME NEW i \in T, Greatest(i) PROVE i = m
    OBVIOUS
  <2>1. i \in Nat /\ m \in Nat
    BY <1>1
  <2>2. i \in S \/ i = 0
    BY DEF Undefined
  <2>3. m \in S \/ m = 0
    BY DEF Undefined
  <2>4. i \in S => i <= m
    OBVIOUS
  <2>5. m \in S => m <= i
    OBVIOUS
  <2> HIDE DEF T, Greatest
  <2> QED
    BY <2>1, <2>2, <2>3, <2>4, <2>5
<1>3. Greatest(m) /\ m \in T
  OBVIOUS
<1> HIDE DEF Greatest, T
<1>4. (CHOOSE i \in T : Greatest(i)) = m
  BY <1>2, <1>3
<1> QED
  BY <1>4 DEF Greatest, T

\* What the lower level has at a point: the id of the cell, or nothing
GridId(lod, p) == IF p \in Cells(lod) THEN CellId(lod, p) ELSE Undefined

\* A lower level has of each cell the highest id, and nothing outside of the volume.
LEMMA HighestIs ==
  ASSUME NEW voxels, Volume(voxels), NEW lod \in Nat \ {0}, NEW c \in Points3
  PROVE  Highest(lod, data, c) = GridId(lod, c)
<1> DEFINE first == Times(lod, c)
           last == Plus(Times(lod, c), Times(lod - 1, Ones))
           R == Region(first, last) \cap Region(data.lc, data.uc)
           ids == {data.at[IndexIn(data, q)] : q \in R}
<1>1. Highest(lod, data, c) = CHOOSE id \in ids \cup {Undefined} : \A k \in ids : k <= id
  BY DEF Highest
<1>2. \A i \in Axes : c[i] \in Int /\ lod * c[i] \in Int /\ lod \in Int
  BY DEF Points3
<1>3. ASSUME NEW i \in Axes
      PROVE  first[i] = lod * c[i] /\ last[i] = lod * c[i] + lod - 1
  <2>1. first[i] = lod * c[i]
    BY DEF Times
  <2>2. Ones[i] = 1
    BY DEF Ones, Axes
  <2>3. Times(lod - 1, Ones)[i] = lod - 1
    BY <2>2 DEF Times
  <2>4. last[i] = first[i] + Times(lod - 1, Ones)[i]
    BY DEF Plus
  <2> HIDE DEF first, last
  <2> QED
    BY <1>2, <2>1, <2>3, <2>4
<1>4. first \in Points3 /\ last \in Points3
  <2>1. first = [i \in Axes |-> first[i]] /\ last = [i \in Axes |-> last[i]]
    BY DEF Times, Plus
  <2> HIDE DEF first, last
  <2>2. \A i \in Axes : first[i] \in Int /\ last[i] \in Int
    BY <1>2, <1>3
  <2> QED
    BY <2>1, <2>2 DEF Points3
<1> HIDE DEF first, last
<1>5. Region(data.lc, data.uc) = Outer
  BY DEF Volume, Padded, Array, Outer
<1>6. ASSUME NEW q PROVE q \in R <=> q \in Outer /\ InCell(lod, c, q)
  <2>1. q \in Region(first, last) <=>
          q \in Points3 /\ \A i \in Axes : first[i] <= q[i] /\ q[i] <= last[i]
    BY <1>4, RegionIs DEF Within
  <2>2. q \in Region(first, last) <=> q \in Points3 /\ InCell(lod, c, q)
    BY <1>3, <2>1 DEF InCell
  <2>3. q \in Outer => q \in Points3
    BY OuterIs
  <2> QED
    BY <1>5, <2>2, <2>3
<1>7. ASSUME NEW q \in R
      PROVE  /\ data.at[IndexIn(data, q)] = Get(data, q) /\ Get(data, q) \in Nat
             /\ q \notin Inside => Get(data, q) = Undefined
  BY <1>6, DataIs
<1> HIDE DEF R
<1>8. ids \subseteq Nat
  BY <1>7
<1>9. CASE c \in Cells(lod)
  <2> DEFINE m == CellId(lod, c)
  <2>1. /\ m \in Nat /\ \E p \in Inside : InCell(lod, c, p) /\ Get(data, p) = m
        /\ \A p \in Inside : InCell(lod, c, p) => Get(data, p) <= m
    BY <1>9, CellIs
  <2> HIDE DEF m
  <2>2. m \in ids
    <3>1. PICK p \in Inside : InCell(lod, c, p) /\ Get(data, p) = m
      BY <2>1
    <3>2. p \in R
      BY <1>6, <3>1, OuterIs
    <3> QED
      BY <1>7, <3>1, <3>2
  <2>3. ASSUME NEW k \in ids PROVE k <= m
    <3>1. PICK q \in R : k = data.at[IndexIn(data, q)]
      OBVIOUS
    <3>2. k = Get(data, q)
      BY <1>7, <3>1
    <3>3. CASE q \in Inside
      BY <1>6, <2>1, <3>2, <3>3
    <3>4. CASE q \notin Inside
      BY <1>7, <2>1, <3>2, <3>4 DEF Undefined
    <3> QED
      BY <3>3, <3>4
  <2> HIDE DEF ids
  <2>4. (CHOOSE id \in ids \cup {Undefined} : \A k \in ids : k <= id) = m
    BY <1>8, <2>2, <2>3, GreatestOrNothing
  <2> QED
    BY <1>1, <1>9, <2>4 DEF GridId, m
<1>10. CASE c \notin Cells(lod)
  <2>1. PICK i \in Axes : c[i] < 0 \/ c[i] > CellCount(lod, i)
    <3>1. \A i \in Axes : CellCount(lod, i) \in Int
      BY CellsAre
    <3> QED
      BY <1>2, <1>10, <3>1, CellsAre
  <2>2. ASSUME NEW q \in R PROVE q \notin Inside
    <3>1. /\ q \in Points3 /\ q[i] \in Int /\ Size[i] \in Int
          /\ lod * c[i] <= q[i] /\ q[i] <= lod * c[i] + lod - 1
      BY <1>6, OuterIs, PointsAre DEF InCell, Points3
    <3>2. /\ lod * c[i] \in Int
          /\ lod * c[i] + lod - 1 < 0 \/ lod * c[i] >= Size[i]
      BY <1>2, <2>1, CellEnds
    <3>3. q[i] < 0 \/ q[i] >= Size[i]
      <4> DEFINE t == lod * c[i]
      <4>1. /\ t \in Int /\ lod \in Int /\ t <= q[i] /\ q[i] <= t + lod - 1
            /\ t + lod - 1 < 0 \/ t >= Size[i]
        BY <3>1, <3>2
      <4> HIDE DEF t
      <4> QED
        BY <3>1, <4>1
    <3>4. ~(0 <= q[i] /\ q[i] <= Size[i] - 1)
      BY <3>1, <3>3
    <3> QED
      BY <3>4, OuterIs
  <2>3. \A k \in ids : k <= Undefined
    BY <1>7, <2>2 DEF Undefined
  <2> HIDE DEF ids
  <2>4. (CHOOSE id \in ids \cup {Undefined} : \A k \in ids : k <= id) = Undefined
    BY <1>8, <2>3, GreatestOrNothing
  <2> QED
    BY <1>1, <1>10, <2>4 DEF GridId
<1> QED
  BY <1>9, <1>10

-----------------------------------------------------------------------------
(* VoxelMesh: what is drawn of the cells                                   *)

\* An array of the cells, with nothing around them
IsGrid(v, lod) ==
  /\ v.lc \in Points3 /\ v.uc \in Points3
  /\ \A i \in Axes : v.lc[i] = -1 /\ CellCount(lod, i) + 1 <= v.uc[i]
  /\ \A p \in Region(v.lc, v.uc) : Get(v, p) = GridId(lod, p)

\* The volume itself is the array of the cells at full detail.
LEMMA DataIsGrid ==
  ASSUME NEW voxels, Volume(voxels)
  PROVE  IsGrid(data, 1)
<1>1. data.lc = <<-1, -1, -1>> /\ data.uc = Size /\ Region(data.lc, data.uc) = Outer
  BY DEF Volume, Padded, Array, Outer
<1>2. \A i \in Axes : CellCount(1, i) = Size[i] - 1
  <2>1. \A n \in Nat : n \div 1 = n
    OBVIOUS
  <2>2. \A i \in Axes : Size[i] - 1 \in Nat
    BY MeshAssumption
  <2> QED
    BY <2>1, <2>2 DEF CellCount
<1>3. \A i \in Axes : <<-1, -1, -1>>[i] = -1
  BY DEF Axes
<1>4. \A i \in Axes : Size[i] \in Int
  BY PointsAre DEF Points3
<1>5. \A p : p \in Cells(1) <=> p \in Inside
  BY <1>2, CellsAre, OuterIs
<1>6. ASSUME NEW p \in Outer PROVE Get(data, p) = GridId(1, p)
  <2>1. CASE p \in Inside
    <3>1. p \in Cells(1)
      BY <1>5, <2>1
    <3>2. PICK q \in Inside : InCell(1, p, q) /\ Get(data, q) = CellId(1, p)
      BY <3>1, CellIs
    <3>3. p \in Points3 /\ q \in Points3 /\ \A i \in Axes : p[i] \in Int /\ q[i] \in Int
      BY <2>1, OuterIs DEF Points3
    <3>4. \A i \in Axes : q[i] = p[i]
      BY <3>2, <3>3 DEF InCell
    <3>5. q = p
      BY <3>3, <3>4, SamePoint
    <3> QED
      BY <3>1, <3>2, <3>5 DEF GridId
  <2>2. CASE p \notin Inside
    BY <1>5, <2>2, DataIs DEF GridId
  <2> QED
    BY <2>1, <2>2
<1> QED
  BY <1>1, <1>2, <1>3, <1>4, <1>6, PointsAre DEF IsGrid

\* Division toward zero of minus one
LEMMA QuotientOfBorder ==
  ASSUME NEW lod \in Nat \ {0, 1}, NEW n \in Int, n + 1 = 0
  PROVE  Quotient(n, lod) = 0
<1>1. 1 \div lod \in Nat /\ 1 % lod \in 0..(lod - 1) /\ 1 = lod * (1 \div lod) + (1 % lod)
  BY Divided
<1>2. 1 \div lod < 1
  <2>1. 1 < lod * 1 /\ 1 \in Nat /\ lod \in Nat \ {0}
    OBVIOUS
  <2> QED
    BY <2>1, DividedBelow
<1>3. n < 0 /\ -n = 1
  OBVIOUS
<1>4. Quotient(n, lod) = -(1 \div lod)
  BY <1>3 DEF Quotient
<1>5. 1 \div lod = 0
  BY <1>1, <1>2
<1> QED
  BY <1>4, <1>5

\* A lower level is the array of its cells, up to the last part of one.
LEMMA LodIsGrid ==
  ASSUME NEW voxels, Volume(voxels), NEW lod \in Nat \ {0, 1}
  PROVE  /\ IsGrid(LodVolume(lod, data), lod)
         /\ \A i \in Axes : LodVolume(lod, data).uc[i] = (Size[i] \div lod) + 1
<1> DEFINE lc == Minus([i \in Axes |-> Quotient(data.lc[i], lod)], Ones)
           uc == Plus([i \in Axes |-> Quotient(data.uc[i], lod)], Ones)
           at == [p \in Region(lc, uc) |-> Highest(lod, data, p)]
           v == LodVolume(lod, data)
<1>1. data.lc = <<-1, -1, -1>> /\ data.uc = Size
  BY DEF Volume, Padded, Array
<1>2. v = Array(lc, uc, at) /\ v.lc = lc /\ v.uc = uc
  BY DEF LodVolume, Array
<1> HIDE DEF v
<1>3. ASSUME NEW i \in Axes PROVE lc[i] = -1 /\ uc[i] = (Size[i] \div lod) + 1
  <2>1. Ones[i] = 1 /\ data.lc[i] = -1 /\ data.uc[i] = Size[i]
    BY <1>1 DEF Ones, Axes
  <2>2. lc[i] = Quotient(-1, lod) - 1 /\ uc[i] = Quotient(Size[i], lod) + 1
    BY <2>1 DEF Minus, Plus
  <2>3. Quotient(-1, lod) = 0
    <3>1. \A n \in Int : n = -1 => n + 1 = 0
      OBVIOUS
    <3>2. -1 \in Int
      OBVIOUS
    <3> QED
      BY <3>1, <3>2, QuotientOfBorder
  <2>4. Quotient(Size[i], lod) = Size[i] \div lod
    <3>1. ~(Size[i] < 0)
      BY MeshAssumption
    <3> QED
      BY <3>1 DEF Quotient
  <2> HIDE DEF lc, uc
  <2> QED
    BY <2>2, <2>3, <2>4
<1>4. ASSUME NEW i \in Axes
      PROVE  /\ Size[i] \div lod \in Nat /\ CellCount(lod, i) \in Nat
             /\ CellCount(lod, i) <= Size[i] \div lod
  <2> DEFINE q == Size[i] \div lod
             k == CellCount(lod, i)
  <2>1. Size[i] \in Nat /\ lod \in Nat \ {0}
    BY MeshAssumption
  <2>2. q \in Nat /\ Size[i] % lod \in 0..(lod - 1) /\ Size[i] = lod * q + (Size[i] % lod)
    BY <2>1, Divided
  <2>3. k \in Nat
    BY <2>1, CellsAre
  <2>4. k <= q
    <3>1. lod * k <= Size[i] - 1
      <4> HIDE DEF k
      <4> QED
        BY <2>1, <2>3, CellEnds DEF k
    <3> HIDE DEF k, q
    <3>2. Size[i] - 1 < lod * (q + 1)
      <4>1. lod * (q + 1) = lod * q + lod /\ lod * q \in Nat
        BY <2>1, <2>2
      <4> QED
        BY <2>1, <2>2, <4>1
    <3>3. lod * k < lod * (q + 1)
      <4>1. lod * k \in Nat /\ lod * (q + 1) \in Nat
        BY <2>1, <2>2, <2>3
      <4> QED
        BY <2>1, <3>1, <3>2, <4>1
    <3>4. ~(k >= q + 1)
      <4> SUFFICES ASSUME k >= q + 1 PROVE FALSE
        OBVIOUS
      <4>1. PICK d \in Nat : k = q + 1 + d
        <5>1. k - (q + 1) \in Nat /\ k = q + 1 + (k - (q + 1))
          BY <2>2, <2>3
        <5> QED
          BY <5>1
      <4>2. lod * k = lod * (q + 1) + lod * d /\ lod * d \in Nat /\ lod * (q + 1) \in Nat
        BY <2>1, <2>2, <4>1
      <4> QED
        BY <3>3, <4>2
    <3> QED
      BY <2>2, <2>3, <3>4
  <2> QED
    BY <2>2, <2>3, <2>4
<1>5. lc \in Points3 /\ uc \in Points3
  <2>1. lc = [i \in Axes |-> lc[i]] /\ uc = [i \in Axes |-> uc[i]]
    BY DEF Minus, Plus
  <2> HIDE DEF lc, uc
  <2>2. \A i \in Axes : lc[i] \in Int /\ uc[i] \in Int
    BY <1>3, <1>4
  <2> QED
    BY <2>1, <2>2 DEF Points3
<1> HIDE DEF lc, uc
<1>6. ASSUME NEW p \in Region(lc, uc) PROVE Get(v, p) = GridId(lod, p)
  <2>1. p \in Points3
    BY <1>5, RegionIs
  <2>2. at[p] = Highest(lod, data, p)
    OBVIOUS
  <2> HIDE DEF at
  <2>3. Get(v, p) = at[p]
    BY <1>2, <1>5, ArrayHolds
  <2> QED
    BY <2>1, <2>2, <2>3, HighestIs
<1>7. \A i \in Axes : lc[i] = -1 /\ CellCount(lod, i) + 1 <= uc[i]
  BY <1>3, <1>4
<1>8. IsGrid(v, lod)
  BY <1>2, <1>5, <1>6, <1>7 DEF IsGrid
<1> QED
  BY <1>2, <1>3, <1>8 DEF v

Side(c, a, sign) == Plus(c, Times(sign, Unit(a)))

\* The neighbour of a cell, to one side of it
LEMMA SideIs ==
  ASSUME NEW c \in Points3, NEW a \in Axes, NEW sign \in {-1, 1}
  PROVE  /\ Side(c, a, sign) \in Points3
         /\ Side(c, a, sign)[a] = c[a] + sign
         /\ \A i \in Axes : i # a => Side(c, a, sign)[i] = c[i]
<1>1. \A i \in Axes : /\ Side(c, a, sign)[i] = c[i] + sign * Unit(a)[i]
                      /\ Unit(a)[i] = IF i = a THEN 1 ELSE 0
                      /\ c[i] \in Int /\ sign \in Int
  BY DEF Side, Plus, Times, Unit, Points3
<1>2. Side(c, a, sign) = [i \in Axes |-> Side(c, a, sign)[i]]
  BY DEF Side, Plus
<1>3. Side(c, a, sign)[a] = c[a] + sign
  <2>1. sign * 1 = sign
    BY <1>1
  <2> QED
    BY <1>1, <2>1
<1>4. ASSUME NEW i \in Axes, i # a PROVE Side(c, a, sign)[i] = c[i]
  <2>1. sign * 0 = 0
    BY <1>1
  <2> QED
    BY <1>1, <1>4, <2>1
<1>5. \A i \in Axes : Side(c, a, sign)[i] \in Int
  BY <1>1, <1>3, <1>4
<1> QED
  BY <1>2, <1>3, <1>4, <1>5 DEF Points3

\* The cells and their neighbours are in the array.
LEMMA CellsInGrid ==
  ASSUME NEW v, NEW lod \in Nat \ {0}, IsGrid(v, lod), NEW c \in Cells(lod),
         NEW a \in Axes, NEW sign \in {-1, 1}
  PROVE  /\ c \in Points3 /\ c \in Region(v.lc, v.uc) /\ Side(c, a, sign) \in Region(v.lc, v.uc)
         /\ Get(v, c) = CellId(lod, c) /\ Get(v, Side(c, a, sign)) = GridId(lod, Side(c, a, sign))
         /\ c \in Region(v.lc, Minus(v.uc, Ones))
         /\ sign = -1 => Side(c, a, sign) \in Region(v.lc, Minus(v.uc, Ones))
<1> DEFINE n == Side(c, a, sign)
           below == Minus(v.uc, Ones)
<1>1. /\ c \in Points3
      /\ \A i \in Axes : /\ c[i] \in Int /\ CellCount(lod, i) \in Int /\ v.uc[i] \in Int
                         /\ 0 <= c[i] /\ c[i] <= CellCount(lod, i)
                         /\ v.lc[i] = -1 /\ CellCount(lod, i) + 1 <= v.uc[i]
  <2>1. c \in Points3 /\ \A i \in Axes : 0 <= c[i] /\ c[i] <= CellCount(lod, i)
    BY CellsAre
  <2>2. \A i \in Axes : c[i] \in Int /\ v.uc[i] \in Int
    BY <2>1 DEF Points3, IsGrid
  <2>3. \A i \in Axes : CellCount(lod, i) \in Int
    BY CellsAre
  <2> QED
    BY <2>1, <2>2, <2>3 DEF IsGrid
<1>2. /\ n \in Points3 /\ n[a] = c[a] + sign /\ \A i \in Axes : i # a => n[i] = c[i]
  BY <1>1, SideIs
<1> HIDE DEF n
<1>3. below \in Points3 /\ \A i \in Axes : below[i] = v.uc[i] - 1
  <2>1. \A i \in Axes : Ones[i] = 1
    BY DEF Ones, Axes
  <2>2. \A i \in Axes : below[i] = v.uc[i] - 1
    BY <2>1 DEF Minus
  <2>3. below = [i \in Axes |-> below[i]]
    BY DEF Minus
  <2> HIDE DEF below
  <2>4. \A i \in Axes : below[i] \in Int
    BY <1>1, <2>2
  <2> QED
    BY <2>2, <2>3, <2>4 DEF Points3
<1> HIDE DEF below
<1>4. v.lc \in Points3 /\ v.uc \in Points3
  BY DEF IsGrid
<1>5. \A i \in Axes : /\ n[i] \in Int /\ -1 <= n[i] /\ n[i] <= CellCount(lod, i) + 1
                      /\ sign = -1 => n[i] <= CellCount(lod, i)
  <2> SUFFICES ASSUME NEW i \in Axes
               PROVE  /\ n[i] \in Int /\ -1 <= n[i] /\ n[i] <= CellCount(lod, i) + 1
                      /\ sign = -1 => n[i] <= CellCount(lod, i)
    OBVIOUS
  <2>1. CASE i = a
    BY <1>1, <1>2, <2>1
  <2>2. CASE i # a
    BY <1>1, <1>2, <2>2
  <2> QED
    BY <2>1, <2>2
<1>6. c \in Region(v.lc, below)
  <2>1. \A i \in Axes : v.lc[i] <= c[i] /\ c[i] <= below[i]
    BY <1>1, <1>3
  <2> QED
    BY <1>1, <1>3, <1>4, <2>1, RegionIs DEF Within
<1>7. c \in Region(v.lc, v.uc)
  <2>1. \A i \in Axes : v.lc[i] <= c[i] /\ c[i] <= v.uc[i]
    BY <1>1
  <2> QED
    BY <1>1, <1>4, <2>1, RegionIs DEF Within
<1>8. n \in Region(v.lc, v.uc)
  <2>1. \A i \in Axes : v.lc[i] <= n[i] /\ n[i] <= v.uc[i]
    BY <1>1, <1>5
  <2> QED
    BY <1>2, <1>4, <2>1, RegionIs DEF Within
<1>9. ASSUME sign = -1 PROVE n \in Region(v.lc, below)
  <2>1. \A i \in Axes : v.lc[i] <= n[i] /\ n[i] <= below[i]
    BY <1>1, <1>3, <1>5, <1>9
  <2> QED
    BY <1>2, <1>3, <1>4, <2>1, RegionIs DEF Within
<1>10. Get(v, c) = CellId(lod, c) /\ Get(v, n) = GridId(lod, n)
  BY <1>7, <1>8 DEF IsGrid, GridId
<1> QED
  BY <1>1, <1>6, <1>7, <1>8, <1>9, <1>10 DEF n, below

\* A side of a cell that needs a face has one.
LEMMA QuadIsThere ==
  ASSUME NEW v, NEW lod \in Nat \ {0}, IsGrid(v, lod), NEW c \in Cells(lod),
         NEW a \in Axes, NEW sign \in {-1, 1},
         QuadNeeded(CellId(lod, c), GridId(lod, Side(c, a, sign)))
  PROVE  [voxel |-> c, axis |-> a, sign |-> sign] \in Quads(v)
<1> DEFINE n == Side(c, a, sign)
           pairs == Region(v.lc, Minus(v.uc, Ones)) \X Axes
           up == {t \in pairs : QuadNeeded(Get(v, t[1]), Get(v, Plus(t[1], Unit(t[2]))))}
           down == {t \in pairs : QuadNeeded(Get(v, Plus(t[1], Unit(t[2]))), Get(v, t[1]))}
<1>1. /\ c \in Points3 /\ c \in Region(v.lc, Minus(v.uc, Ones))
      /\ Get(v, c) = CellId(lod, c) /\ Get(v, n) = GridId(lod, n)
      /\ sign = -1 => n \in Region(v.lc, Minus(v.uc, Ones))
  BY CellsInGrid
<1>2. /\ n \in Points3 /\ n[a] = c[a] + sign /\ \A i \in Axes : i # a => n[i] = c[i]
  BY <1>1, SideIs
<1>3. Quads(v) = {[voxel |-> s[1], axis |-> s[2], sign |-> 1] : s \in up}
                 \cup {[voxel |-> Plus(s[1], Unit(s[2])), axis |-> s[2], sign |-> -1] : s \in down}
  BY DEF Quads
<1>4. QuadNeeded(Get(v, c), Get(v, n))
  BY <1>1
<1>5. ASSUME NEW p \in Points3
      PROVE  /\ Plus(p, Unit(a)) \in Points3 /\ Plus(p, Unit(a))[a] = p[a] + 1
             /\ \A i \in Axes : i # a => Plus(p, Unit(a))[i] = p[i]
  <2>1. \A i \in Axes : /\ Plus(p, Unit(a))[i] = p[i] + (IF i = a THEN 1 ELSE 0)
                        /\ p[i] \in Int
    BY DEF Plus, Unit, Points3
  <2>2. Plus(p, Unit(a)) = [i \in Axes |-> Plus(p, Unit(a))[i]]
    BY DEF Plus
  <2> QED
    BY <2>1, <2>2 DEF Points3
<1> HIDE DEF n
<1>6. CASE sign = 1
  <2>1. Plus(c, Unit(a)) = n
    <3>1. \A i \in Axes : Plus(c, Unit(a))[i] = n[i]
      BY <1>1, <1>2, <1>5, <1>6
    <3> QED
      BY <1>1, <1>2, <1>5, <3>1, SamePoint
  <2>2. <<c, a>> \in pairs /\ <<c, a>>[1] = c /\ <<c, a>>[2] = a
    BY <1>1
  <2>3. <<c, a>> \in up
    BY <1>4, <2>1, <2>2
  <2>4. [voxel |-> c, axis |-> a, sign |-> 1]
          \in {[voxel |-> s[1], axis |-> s[2], sign |-> 1] : s \in up}
    <3> HIDE DEF up
    <3> QED
      BY <2>2, <2>3
  <2> QED
    BY <1>3, <1>6, <2>4
<1>7. CASE sign = -1
  <2>1. Plus(n, Unit(a)) = c
    <3>1. \A i \in Axes : c[i] \in Int /\ n[i] \in Int
      BY <1>1, <1>2 DEF Points3
    <3>2. n[a] + 1 = c[a]
      BY <1>2, <1>7, <3>1
    <3>3. \A i \in Axes : Plus(n, Unit(a))[i] = c[i]
      BY <1>2, <1>5, <3>2
    <3> QED
      BY <1>1, <1>2, <1>5, <3>3, SamePoint
  <2>2. <<n, a>> \in pairs /\ <<n, a>>[1] = n /\ <<n, a>>[2] = a
    BY <1>1, <1>7
  <2>3. <<n, a>> \in down
    BY <1>4, <2>1, <2>2
  <2>4. [voxel |-> Plus(n, Unit(a)), axis |-> a, sign |-> -1]
          \in {[voxel |-> Plus(s[1], Unit(s[2])), axis |-> s[2], sign |-> -1] : s \in down}
    <3> HIDE DEF down
    <3> QED
      BY <2>2, <2>3
  <2> QED
    BY <1>3, <1>7, <2>1, <2>4
<1> QED
  BY <1>6, <1>7

\* A quad is of a voxel of the array.
LEMMA QuadIsOfGrid ==
  ASSUME NEW v, NEW lod \in Nat \ {0}, IsGrid(v, lod), NEW q \in Quads(v)
  PROVE  /\ q = [voxel |-> q.voxel, axis |-> q.axis, sign |-> q.sign]
         /\ q.axis \in Axes /\ q.sign \in {-1, 1}
         /\ Get(v, q.voxel) = GridId(lod, q.voxel)
<1> DEFINE pairs == Region(v.lc, Minus(v.uc, Ones)) \X Axes
           up == {t \in pairs : QuadNeeded(Get(v, t[1]), Get(v, Plus(t[1], Unit(t[2]))))}
           down == {t \in pairs : QuadNeeded(Get(v, Plus(t[1], Unit(t[2]))), Get(v, t[1]))}
<1>1. Quads(v) = {[voxel |-> s[1], axis |-> s[2], sign |-> 1] : s \in up}
                 \cup {[voxel |-> Plus(s[1], Unit(s[2])), axis |-> s[2], sign |-> -1] : s \in down}
  BY DEF Quads
<1>2. PICK s \in pairs : \/ q = [voxel |-> s[1], axis |-> s[2], sign |-> 1]
                         \/ q = [voxel |-> Plus(s[1], Unit(s[2])), axis |-> s[2], sign |-> -1]
  BY <1>1
<1>3. s[1] \in Region(v.lc, Minus(v.uc, Ones)) /\ s[2] \in Axes
  OBVIOUS
<1> DEFINE p == s[1]
           a == s[2]
           below == Minus(v.uc, Ones)
<1>4. v.lc \in Points3 /\ v.uc \in Points3 /\ \A i \in Axes : v.lc[i] \in Int /\ v.uc[i] \in Int
  BY DEF IsGrid, Points3
<1>5. below \in Points3 /\ \A i \in Axes : below[i] = v.uc[i] - 1
  <2>1. \A i \in Axes : Ones[i] = 1
    BY DEF Ones, Axes
  <2>2. \A i \in Axes : below[i] = v.uc[i] - 1
    BY <2>1 DEF Minus
  <2>3. below = [i \in Axes |-> below[i]]
    BY DEF Minus
  <2> HIDE DEF below
  <2>4. \A i \in Axes : below[i] \in Int
    BY <1>4, <2>2
  <2> QED
    BY <2>2, <2>3, <2>4 DEF Points3
<1> HIDE DEF below
<1>6. p \in Points3 /\ \A i \in Axes : p[i] \in Int /\ v.lc[i] <= p[i] /\ p[i] <= v.uc[i] - 1
  <2>1. p \in Region(v.lc, below)
    BY <1>3 DEF below
  <2>2. p \in Points3 /\ \A i \in Axes : v.lc[i] <= p[i] /\ p[i] <= below[i]
    BY <1>4, <1>5, <2>1, RegionIs DEF Within
  <2> QED
    BY <1>5, <2>2 DEF Points3
<1>7. a \in Axes
  BY <1>3
<1> HIDE DEF p, a
<1>8. p \in Region(v.lc, v.uc)
  <2>1. \A i \in Axes : v.lc[i] <= p[i] /\ p[i] <= v.uc[i]
    BY <1>4, <1>6
  <2> QED
    BY <1>4, <1>6, <2>1, RegionIs DEF Within
<1>9. Plus(p, Unit(a)) \in Region(v.lc, v.uc)
  <2>1. \A i \in Axes : Plus(p, Unit(a))[i] = p[i] + (IF i = a THEN 1 ELSE 0)
    BY DEF Plus, Unit
  <2>2. Plus(p, Unit(a)) = [i \in Axes |-> Plus(p, Unit(a))[i]]
    BY DEF Plus
  <2>3. \A i \in Axes : /\ Plus(p, Unit(a))[i] \in Int
                        /\ v.lc[i] <= Plus(p, Unit(a))[i] /\ Plus(p, Unit(a))[i] <= v.uc[i]
    BY <1>4, <1>6, <2>1
  <2>4. Plus(p, Unit(a)) \in Points3
    BY <2>2, <2>3 DEF Points3
  <2> QED
    BY <1>4, <2>3, <2>4, RegionIs DEF Within
<1>10. q = [voxel |-> p, axis |-> a, sign |-> 1]
       \/ q = [voxel |-> Plus(p, Unit(a)), axis |-> a, sign |-> -1]
  BY <1>2 DEF p, a
<1> QED
  BY <1>7, <1>8, <1>9, <1>10 DEF IsGrid

-----------------------------------------------------------------------------
(* VoxelMesh: the faces                                                    *)

\* The vertices of a face, along its two axes
LEMMA VertexIs ==
  ASSUME NEW i \in 0..3
  PROVE  /\ Vertex(1, i)[2] = (IF i >= 2 THEN 1 ELSE -1)
         /\ Vertex(1, i)[3] = (IF i \in {1, 3} THEN 1 ELSE -1)
         /\ Vertex(2, i)[1] = (IF i >= 2 THEN 1 ELSE -1)
         /\ Vertex(2, i)[3] = (IF i \in {1, 3} THEN 1 ELSE -1)
         /\ Vertex(3, i)[1] = (IF i >= 2 THEN 1 ELSE -1)
         /\ Vertex(3, i)[2] = (IF i \in {1, 3} THEN 1 ELSE -1)
<1>1. /\ i \div 2 = 1 <=> i >= 2
      /\ i % 2 = 1 <=> i \in {1, 3}
  OBVIOUS
<1>2. 1 \in Axes /\ 2 \in Axes /\ 3 \in Axes
  BY DEF Axes
<1> QED
  BY <1>1, <1>2 DEF Vertex

\* The products of a vertex with the direction to the right and that up
LEMMA DotIs ==
  ASSUME NEW p \in [Axes -> Int], NEW sign \in {-1, 1}
  PROVE  /\ Dot(p, Right(1, sign)) = sign * p[3]
         /\ Dot(p, Right(2, sign)) = p[1]
         /\ Dot(p, Right(3, sign)) = -(sign * p[1])
         /\ Dot(p, Up(1)) = p[2] /\ Dot(p, Up(2)) = p[3] /\ Dot(p, Up(3)) = p[2]
<1>1. 1 \in Axes /\ 2 \in Axes /\ 3 \in Axes
  BY DEF Axes
<1>2. p[1] \in Int /\ p[2] \in Int /\ p[3] \in Int
  BY <1>1
<1>3. /\ Unit(1)[1] = 1 /\ Unit(1)[2] = 0 /\ Unit(1)[3] = 0
      /\ Unit(2)[1] = 0 /\ Unit(2)[2] = 1 /\ Unit(2)[3] = 0
      /\ Unit(3)[1] = 0 /\ Unit(3)[2] = 0 /\ Unit(3)[3] = 1
  BY <1>1 DEF Unit
<1>4. \A k \in Int : \A u : \A j \in Axes : Times(k, u)[j] = k * u[j]
  BY DEF Times
<1>5. sign \in Int /\ -sign \in Int
  OBVIOUS
<1>6. /\ \A k \in Int : k * 0 = 0 /\ k * 1 = k /\ 0 + k = k /\ k + 0 = k
      /\ sign * p[3] = p[3] * sign /\ (-sign) * p[1] = -(sign * p[1])
      /\ sign * p[3] \in Int /\ sign * p[1] \in Int
      /\ p[1] * (-sign) = -(sign * p[1]) /\ -(sign * p[1]) \in Int
  BY <1>2, <1>5
<1>7. Dot(p, Up(1)) = p[2] /\ Dot(p, Up(2)) = p[3] /\ Dot(p, Up(3)) = p[2]
  BY <1>2, <1>3, <1>6 DEF Dot, Up
<1>8. Dot(p, Right(2, sign)) = p[1]
  BY <1>2, <1>3, <1>6 DEF Dot, Right
<1>9. Dot(p, Right(1, sign)) = sign * p[3]
  <2>1. Right(1, sign) = Times(sign, Unit(3))
    BY DEF Right
  <2>2. /\ Right(1, sign)[1] = 0 /\ Right(1, sign)[2] = 0 /\ Right(1, sign)[3] = sign
    BY <1>1, <1>3, <1>4, <1>5, <1>6, <2>1
  <2> QED
    BY <1>2, <1>6, <2>2 DEF Dot
<1>10. Dot(p, Right(3, sign)) = -(sign * p[1])
  <2>1. Right(3, sign) = Times(-sign, Unit(1))
    BY DEF Right
  <2>2. /\ Right(3, sign)[1] = -sign /\ Right(3, sign)[2] = 0 /\ Right(3, sign)[3] = 0
    BY <1>1, <1>3, <1>4, <1>5, <1>6, <2>1
  <2> QED
    BY <1>2, <1>6, <2>2 DEF Dot
<1> QED
  BY <1>7, <1>8, <1>9, <1>10

\* For one who looks from outside, the corners of the texture are where they belong.
LEMMA CornersRight ==
  ASSUME NEW a \in Axes, NEW sign \in {-1, 1}, NEW i \in 0..3
  PROVE  Corner(a, sign, i) = <<IF Dot(Vertex(a, i), Right(a, sign)) > 0 THEN 1 ELSE 0,
                                IF Dot(Vertex(a, i), Up(a)) > 0 THEN 0 ELSE 1>>
<1>1. Vertex(a, i) \in [Axes -> Int]
  BY DEF Vertex
<1>2. /\ Dot(Vertex(a, i), Right(1, sign)) = sign * Vertex(a, i)[3]
      /\ Dot(Vertex(a, i), Right(2, sign)) = Vertex(a, i)[1]
      /\ Dot(Vertex(a, i), Right(3, sign)) = -(sign * Vertex(a, i)[1])
      /\ Dot(Vertex(a, i), Up(1)) = Vertex(a, i)[2]
      /\ Dot(Vertex(a, i), Up(2)) = Vertex(a, i)[3]
      /\ Dot(Vertex(a, i), Up(3)) = Vertex(a, i)[2]
  BY <1>1, DotIs
<1> DEFINE up == IF i >= 2 THEN 1 ELSE -1
           right == IF i \in {1, 3} THEN 1 ELSE -1
<1>3. CASE a = 1
  <2>1. Vertex(1, i)[2] = up /\ Vertex(1, i)[3] = right
    BY VertexIs
  <2>2. /\ Dot(Vertex(a, i), Right(a, sign)) = sign * right
        /\ Dot(Vertex(a, i), Up(a)) = up
    BY <1>2, <1>3, <2>1
  <2>3. Corner(a, sign, i) = <<IF sign * right > 0 THEN 1 ELSE 0, IF up > 0 THEN 0 ELSE 1>>
    <3>1. CASE sign = 1
      BY <1>3, <3>1 DEF Corner
    <3>2. CASE sign = -1
      BY <1>3, <3>2 DEF Corner
    <3> QED
      BY <3>1, <3>2
  <2> QED
    BY <2>2, <2>3
<1>4. CASE a = 2
  <2>1. Vertex(2, i)[1] = up /\ Vertex(2, i)[3] = right
    BY VertexIs
  <2>2. /\ Dot(Vertex(a, i), Right(a, sign)) = up
        /\ Dot(Vertex(a, i), Up(a)) = right
    BY <1>2, <1>4, <2>1
  <2>3. Corner(a, sign, i) = <<IF up > 0 THEN 1 ELSE 0, IF right > 0 THEN 0 ELSE 1>>
    BY <1>4 DEF Corner
  <2> QED
    BY <2>2, <2>3
<1>5. CASE a = 3
  <2>1. Vertex(3, i)[1] = up /\ Vertex(3, i)[2] = right
    BY VertexIs
  <2>2. /\ Dot(Vertex(a, i), Right(a, sign)) = -(sign * up)
        /\ Dot(Vertex(a, i), Up(a)) = right
    BY <1>2, <1>5, <2>1
  <2>3. Corner(a, sign, i) = <<IF -(sign * up) > 0 THEN 1 ELSE 0, IF right > 0 THEN 0 ELSE 1>>
    <3>1. CASE sign = 1
      BY <1>5, <3>1 DEF Corner
    <3>2. CASE sign = -1
      BY <1>5, <3>2 DEF Corner
    <3> QED
      BY <3>1, <3>2
  <2> QED
    BY <2>2, <2>3
<1> QED
  BY <1>3, <1>4, <1>5 DEF Axes

\* A face of the cell c is shown right by a volume that is moved by shift.
LEMMA DrawnRight ==
  ASSUME NEW v, NEW lod \in Nat \ {0}, IsGrid(v, lod), NEW c \in Cells(lod),
         NEW a \in Axes, NEW sign \in {-1, 1}, NEW shift,
         \A i \in Axes : /\ shift[i] \in Int
                         /\ lod + Size[i] - shift[i] \in (1 - lod)..(lod - 1)
  PROVE  ShownRight(Drawn(v, [voxel |-> c, axis |-> a, sign |-> sign], lod, shift),
                    lod, CellId(lod, c), c, a, sign)
<1> DEFINE q == [voxel |-> c, axis |-> a, sign |-> sign]
           f == Drawn(v, q, lod, shift)
           out == Times(sign, Unit(a))
           middle == Minus(Times(lod, Plus(Times(2, Minus(c, v.lc)), out)), shift)
           place == Plus(Minus(Times(2 * lod, c), Size), Times(lod, Plus(Ones, out)))
<1>1. /\ f.id = Get(v, c) /\ f.face = FaceId(a, sign) /\ f.axis = a /\ f.sign = sign
      /\ f.middle = middle /\ f.corners = [i \in 0..3 |-> Corner(a, sign, i)]
  BY DEF Drawn
<1>2. Get(v, c) = CellId(lod, c)
  BY CellsInGrid
<1>3. ASSUME NEW i \in Axes
      PROVE  middle[i] - place[i] = lod + Size[i] - shift[i]
  <2> DEFINE k == c[i]
             o == out[i]
             e == lod * k
             g == lod * o
  <2>1. k \in Int /\ Size[i] \in Int /\ v.lc[i] = -1 /\ Ones[i] = 1 /\ shift[i] \in Int
    <3>1. c \in Points3 /\ Size \in Points3
      BY CellsAre, PointsAre
    <3>2. k \in Int /\ Size[i] \in Int
      BY <3>1 DEF Points3
    <3>3. Ones[i] = 1
      BY DEF Ones, Axes
    <3>4. v.lc[i] = -1
      BY DEF IsGrid
    <3> QED
      BY <3>2, <3>3, <3>4
  <2>2. o \in Int
    BY DEF Times, Unit
  <2>3. /\ middle[i] = lod * (2 * (k - v.lc[i]) + o) - shift[i]
        /\ place[i] = ((2 * lod) * k - Size[i]) + lod * (Ones[i] + o)
    <3> HIDE DEF o, k, out
    <3> QED
      BY DEF o, k, Minus, Plus, Times
  <2> HIDE DEF k, o, middle, place, out
  <2>4. /\ lod * (2 * (k + 1) + o) = (2 * e + 2 * lod) + g
        /\ (2 * lod) * k = 2 * e /\ lod * (1 + o) = lod + g /\ e \in Int /\ g \in Int
    <3>1. e \in Int /\ g \in Int
      BY <2>1, <2>2
    <3>2. lod * (2 * (k + 1) + o) = (2 * (lod * k) + 2 * lod) + lod * o
      BY <2>1, <2>2
    <3>3. (2 * lod) * k = 2 * (lod * k) /\ lod * (1 + o) = lod + lod * o
      BY <2>1, <2>2
    <3> QED
      BY <3>1, <3>2, <3>3
  <2>5. k - v.lc[i] = k + 1
    BY <2>1
  <2>6. middle[i] = ((2 * e + 2 * lod) + g) - shift[i] /\ place[i] = (2 * e - Size[i]) + (lod + g)
    <3> HIDE DEF e, g
    <3> QED
      BY <2>1, <2>3, <2>4, <2>5
  <2> HIDE DEF e, g
  <2> QED
    BY <2>1, <2>4, <2>6
<1>4. \A i \in Axes : f.middle[i] - place[i] \in (1 - lod)..(lod - 1)
  <2> HIDE DEF f, middle, place
  <2> QED
    BY <1>1, <1>3
<1>5. \A i \in 0..3 :
        f.corners[i] = <<IF Dot(Vertex(a, i), Right(a, sign)) > 0 THEN 1 ELSE 0,
                         IF Dot(Vertex(a, i), Up(a)) > 0 THEN 0 ELSE 1>>
  <2> HIDE DEF f
  <2> QED
    BY <1>1, CornersRight
<1> HIDE DEF f
<1>6. ShownRight(f, lod, CellId(lod, c), c, a, sign)
  BY <1>1, <1>2, <1>4, <1>5 DEF ShownRight
<1> QED
  BY <1>6 DEF f

\* The faces of an array of cells that is moved by shift
FacesAt(v, lod, shift) ==
  {Drawn(v, q, lod, shift) : q \in {r \in Quads(v) : IsTextured(v, r)}}

\* Undefined voxels have no faces.
LEMMA NothingIsTextured ==
  ASSUME NEW a \in Axes, NEW sign \in {-1, 1}
  PROVE  ~Registry[Undefined].textured[FaceId(a, sign)]
<1>1. FaceId(a, sign) \in 0..5
  <2>1. a = 1 \/ a = 2 \/ a = 3
    BY DEF Axes
  <2>2. CASE sign = 1
    BY <2>1, <2>2 DEF FaceId
  <2>3. CASE sign = -1
    BY <2>1, <2>3 DEF FaceId
  <2> QED
    BY <2>2, <2>3
<1> QED
  BY <1>1, MeshAssumption

\* The first visible cell of a line has a face on that side, and every face is
\* of a cell.
LEMMA FacesSeen ==
  ASSUME NEW v, NEW lod \in Nat \ {0}, IsGrid(v, lod), NEW shift,
         \A i \in Axes : /\ shift[i] \in Int
                         /\ lod + Size[i] - shift[i] \in (1 - lod)..(lod - 1)
  PROVE  /\ \A c \in Cells(lod), a \in Axes, sign \in {-1, 1} :
              /\ Visible(CellId(lod, c))
              /\ \A d \in Before(lod, c, a, sign) :
                   ~Visible(CellId(lod, d)) /\ ~Joined(CellId(lod, d), CellId(lod, c))
              /\ Registry[CellId(lod, c)].textured[FaceId(a, sign)]
              => \E f \in FacesAt(v, lod, shift) :
                   ShownRight(f, lod, CellId(lod, c), c, a, sign)
         /\ \A f \in FacesAt(v, lod, shift) :
              \E c \in Cells(lod) : ShownRight(f, lod, CellId(lod, c), c, f.axis, f.sign)
<1>1. ASSUME NEW c \in Cells(lod), NEW a \in Axes, NEW sign \in {-1, 1},
             Visible(CellId(lod, c)),
             \A d \in Before(lod, c, a, sign) : ~Joined(CellId(lod, d), CellId(lod, c)),
             Registry[CellId(lod, c)].textured[FaceId(a, sign)]
      PROVE  \E f \in FacesAt(v, lod, shift) : ShownRight(f, lod, CellId(lod, c), c, a, sign)
  <2> DEFINE n == Side(c, a, sign)
             q == [voxel |-> c, axis |-> a, sign |-> sign]
  <2>1. c \in Points3
    BY CellsAre
  <2>2. /\ n[a] = c[a] + sign /\ \A i \in Axes : i # a => n[i] = c[i]
    BY <2>1, SideIs
  <2> HIDE DEF n
  <2>3. n \in Cells(lod) => n \in Before(lod, c, a, sign)
    <3> SUFFICES ASSUME n \in Cells(lod) PROVE n \in Before(lod, c, a, sign)
      OBVIOUS
    <3>1. c[a] \in Int
      BY <2>1 DEF Points3
    <3>2. sign * (n[a] - c[a]) > 0 /\ n[a] # c[a]
      <4>1. n[a] - c[a] = sign
        BY <2>2, <3>1
      <4>2. sign * sign > 0
        OBVIOUS
      <4>3. n[a] # c[a]
        BY <2>2, <3>1
      <4> QED
        BY <4>1, <4>2, <4>3
    <3>3. \A i \in Axes \ {a} : n[i] = c[i]
      BY <2>2
    <3> QED
      BY <3>2, <3>3 DEF Before
  <2>4. QuadNeeded(CellId(lod, c), GridId(lod, n))
    <3>1. CASE n \in Cells(lod)
      BY <1>1, <2>3, <3>1 DEF Visible, Joined, QuadNeeded, GridId
    <3>2. CASE n \notin Cells(lod)
      BY <1>1, <3>2 DEF Visible, QuadNeeded, GridId
    <3> QED
      BY <3>1, <3>2
  <2>5. q \in Quads(v)
    BY <2>4, QuadIsThere DEF n
  <2>6. IsTextured(v, q)
    <3>1. Get(v, c) = CellId(lod, c)
      BY CellsInGrid
    <3> QED
      BY <1>1, <3>1 DEF IsTextured
  <2>7. ShownRight(Drawn(v, q, lod, shift), lod, CellId(lod, c), c, a, sign)
    BY DrawnRight
  <2>8. Drawn(v, q, lod, shift) \in FacesAt(v, lod, shift)
    <3> HIDE DEF q
    <3> QED
      BY <2>5, <2>6 DEF FacesAt
  <2> HIDE DEF q
  <2> QED
    BY <2>7, <2>8
<1>2. ASSUME NEW f \in FacesAt(v, lod, shift)
      PROVE  \E c \in Cells(lod) : ShownRight(f, lod, CellId(lod, c), c, f.axis, f.sign)
  <2>1. PICK q \in Quads(v) : IsTextured(v, q) /\ f = Drawn(v, q, lod, shift)
    BY DEF FacesAt
  <2>2. /\ q = [voxel |-> q.voxel, axis |-> q.axis, sign |-> q.sign]
        /\ q.axis \in Axes /\ q.sign \in {-1, 1} /\ Get(v, q.voxel) = GridId(lod, q.voxel)
    BY QuadIsOfGrid
  <2>3. q.voxel \in Cells(lod)
    BY <2>1, <2>2, NothingIsTextured DEF IsTextured, GridId
  <2>4. ShownRight(f, lod, CellId(lod, q.voxel), q.voxel, q.axis, q.sign)
    BY <2>1, <2>2, <2>3, DrawnRight
  <2>5. f.axis = q.axis /\ f.sign = q.sign
    BY <2>1 DEF Drawn
  <2> QED
    BY <2>3, <2>4, <2>5
<1> QED
  BY <1>1, <1>2

\* The geometry is that of the volume, at full detail or at a lower level.
GeometryInv ==
  /\ \E voxels : Volume(voxels)
  /\ geometry.lod \in {0, 1} \cup LowerLods
  /\ geometry.lod = 1 => geometry.faces = FacesOf(data)
  /\ geometry.lod \in LowerLods =>
       geometry.faces = LodFaces(geometry.lod, LodVolume(geometry.lod, data))

\* The raw voxels of either kind are naturals.
LEMMA GeometryInitInv == VMInit => GeometryInv
<1> SUFFICES ASSUME VMInit PROVE GeometryInv
  OBVIOUS
<1>1. \E voxels : Volume(voxels)
  <2>1. CASE data \in {Padded(v) : v \in Volumes}
    <3>1. PICK v \in Volumes : data = Padded(v)
      BY <2>1
    <3>2. v \in [Inside -> Nat]
      BY MeshAssumption
    <3> QED
      BY <3>1, <3>2 DEF Volume
  <2>2. CASE data \in {Padded([p \in Inside |-> Voxel8(b[p])]) : b \in ByteVolumes}
    <3>1. PICK b \in ByteVolumes : data = Padded([p \in Inside |-> Voxel8(b[p])])
      BY <2>2
    <3>2. b \in [Inside -> 0..255]
      BY MeshAssumption
    <3>3. \A c \in 0..255 : Voxel8(c) \in Nat
      <4>1. 2^21 \in Nat \ {0}
        OBVIOUS
      <4>2. \A x \in Int, m \in Nat \ {0} : x % m \in Nat
        OBVIOUS
      <4>3. \A c \in 0..255 : c \in Int /\ c - 256 \in Int
        OBVIOUS
      <4> QED
        BY <4>1, <4>2, <4>3 DEF Voxel8
    <3> DEFINE voxels == [p \in Inside |-> Voxel8(b[p])]
    <3>4. voxels \in [Inside -> Nat]
      BY <3>2, <3>3
    <3>5. Volume(voxels)
      BY <3>1, <3>4 DEF Volume
    <3> QED
      BY <3>5
  <2> QED
    BY <2>1, <2>2 DEF VMInit
<1>2. geometry.lod = 0
  BY DEF VMInit
<1>3. 0 # 1 /\ 0 \notin LowerLods
  BY MeshAssumption
<1> QED
  BY <1>1, <1>2, <1>3 DEF GeometryInv

\* The geometry of a node is made of the volume as it is.
LEMMA GeometryStepInv == GeometryInv /\ [VMNext]_vmVars => GeometryInv'
<1> SUFFICES ASSUME GeometryInv, [VMNext]_vmVars PROVE GeometryInv'
  OBVIOUS
<1>1. PICK voxels : Volume(voxels)
  BY DEF GeometryInv
<1>2. data' = data => Volume(voxels)'
  BY <1>1 DEF Volume
<1>3. 1 \notin LowerLods
  BY MeshAssumption
<1>4. CASE SetVoxelGeometry
  <2>1. data' = data /\ geometry' = [lod |-> 1, faces |-> FacesOf(data)]
    BY <1>4 DEF SetVoxelGeometry
  <2> QED
    BY <1>2, <1>3, <2>1 DEF GeometryInv
<1>5. CASE \E lod \in LowerLods : SetVoxelLodGeometry(lod)
  <2>1. PICK lod \in LowerLods :
          /\ data' = data
          /\ geometry' = [lod |-> lod, faces |-> LodFaces(lod, LodVolume(lod, data))]
    BY <1>5 DEF SetVoxelLodGeometry
  <2> QED
    BY <1>2, <1>3, <2>1 DEF GeometryInv
<1>6. CASE SetVoxelPhysicsBoxes
  <2>1. data' = data /\ geometry' = geometry
    BY <1>6 DEF SetVoxelPhysicsBoxes
  <2> QED
    BY <1>2, <2>1 DEF GeometryInv
<1>7. CASE UNCHANGED vmVars
  <2>1. data' = data /\ geometry' = geometry
    BY <1>7 DEF vmVars
  <2> QED
    BY <1>2, <2>1 DEF GeometryInv
<1> QED
  BY <1>4, <1>5, <1>6, <1>7 DEF VMNext

\* Where the faces of full detail are moved to
LEMMA FacesOfIs ==
  /\ FacesOf(data) = FacesAt(data, 1, Plus(Size, Ones))
  /\ \A i \in Axes : /\ Plus(Size, Ones)[i] \in Int
                     /\ 1 + Size[i] - Plus(Size, Ones)[i] \in (1 - 1)..(1 - 1)
<1>1. FacesOf(data) = FacesAt(data, 1, Plus(Size, Ones))
  BY DEF FacesOf, FacesAt
<1>2. ASSUME NEW i \in Axes
      PROVE  /\ Plus(Size, Ones)[i] \in Int
             /\ 1 + Size[i] - Plus(Size, Ones)[i] \in (1 - 1)..(1 - 1)
  <2>1. Plus(Size, Ones)[i] = Size[i] + 1
    BY DEF Plus, Ones, Axes
  <2>2. Size[i] \in Int
    BY MeshAssumption
  <2> QED
    BY <2>1, <2>2
<1> QED
  BY <1>1, <1>2

\* Where those of a lower level are: the last cells may be less than half full.
LEMMA LodFacesIs ==
  ASSUME NEW lod \in Nat \ {0, 1}, NEW v, \A i \in Axes : v.lc[i] = -1,
         \A i \in Axes : v.uc[i] = (Size[i] \div lod) + 1
  PROVE  \E shift :
           /\ LodFaces(lod, v) = FacesAt(v, lod, shift)
           /\ \A i \in Axes : /\ shift[i] \in Int
                              /\ lod + Size[i] - shift[i] \in (1 - lod)..(lod - 1)
<1> DEFINE cells == Minus(v.uc, v.lc)
           w == [i \in Axes |-> (cells[i] - 1) * lod - 2]
           shift == Plus(w, Times(1 + lod, Ones))
<1>1. LodFaces(lod, v) = FacesAt(v, lod, shift)
  BY DEF LodFaces, FacesAt
<1>2. ASSUME NEW i \in Axes
      PROVE  /\ shift[i] \in Int
             /\ lod + Size[i] - shift[i] \in (1 - lod)..(lod - 1)
  <2> DEFINE q == Size[i] \div lod
             r == Size[i] % lod
             t == lod * q
  <2>1. Size[i] \in Nat /\ lod \in Nat \ {0}
    BY MeshAssumption
  <2>2. q \in Nat /\ r \in 0..(lod - 1) /\ Size[i] = t + r
    BY <2>1, Divided
  <2>3. cells[i] = (q + 1) - (-1)
    BY DEF Minus
  <2>4. shift[i] = ((cells[i] - 1) * lod - 2) + (1 + lod) * Ones[i]
    BY DEF Plus, Times
  <2>5. Ones[i] = 1
    BY DEF Ones, Axes
  <2> HIDE DEF q, r, cells, shift
  <2>6. cells[i] - 1 = q + 1
    BY <2>2, <2>3
  <2>7. (q + 1) * lod = t + lod /\ (1 + lod) * 1 = 1 + lod /\ t \in Int
    BY <2>2
  <2>8. shift[i] = ((t + lod) - 2) + (1 + lod)
    BY <2>4, <2>5, <2>6, <2>7
  <2> HIDE DEF t
  <2>9. /\ r \in Int /\ 0 <= r /\ r <= lod - 1 /\ t \in Int /\ Size[i] \in Int /\ lod \in Int
        /\ Size[i] = t + r
    BY <2>1, <2>2, <2>7
  <2>10. lod + Size[i] - shift[i] = r - lod + 1
    BY <2>8, <2>9
  <2>11. shift[i] \in Int
    BY <2>8, <2>9
  <2>12. r - lod + 1 \in (1 - lod)..(lod - 1)
    BY <2>9
  <2> QED
    BY <2>10, <2>11, <2>12
<1> HIDE DEF shift
<1> QED
  BY <1>1, <1>2

\* At each level, the faces are those of an array of cells.
LEMMA SeenByGeometry ==
  ASSUME GeometryInv
  PROVE  SurfaceIsSeen
<1> SUFFICES ASSUME geometry.lod > 0 PROVE SurfaceIsSeen
  BY DEF SurfaceIsSeen
<1> DEFINE lod == geometry.lod
<1>1. PICK voxels : Volume(voxels)
  BY DEF GeometryInv
<1>2. lod = 1 \/ lod \in LowerLods
  BY DEF GeometryInv
<1>3. \E v, shift :
        /\ lod \in Nat \ {0} /\ IsGrid(v, lod) /\ geometry.faces = FacesAt(v, lod, shift)
        /\ \A i \in Axes : /\ shift[i] \in Int
                           /\ lod + Size[i] - shift[i] \in (1 - lod)..(lod - 1)
  <2>1. CASE lod = 1
    <3>1. IsGrid(data, 1)
      BY <1>1, DataIsGrid
    <3>2. geometry.faces = FacesOf(data)
      BY <2>1 DEF GeometryInv
    <3> HIDE DEF lod
    <3> QED
      BY <2>1, <3>1, <3>2, FacesOfIs
  <2>2. CASE lod \in LowerLods
    <3>1. lod \in Nat \ {0, 1}
      BY <2>2, MeshAssumption
    <3> DEFINE v == LodVolume(lod, data)
    <3>2. geometry.faces = LodFaces(lod, v)
      BY <2>2 DEF GeometryInv
    <3> HIDE DEF lod
    <3>3. IsGrid(v, lod) /\ \A i \in Axes : v.uc[i] = (Size[i] \div lod) + 1
      BY <1>1, <3>1, LodIsGrid
    <3> HIDE DEF v
    <3>4. \A i \in Axes : v.lc[i] = -1
      BY <3>3 DEF IsGrid
    <3>5. PICK shift :
           /\ LodFaces(lod, v) = FacesAt(v, lod, shift)
           /\ \A i \in Axes : /\ shift[i] \in Int
                              /\ lod + Size[i] - shift[i] \in (1 - lod)..(lod - 1)
      BY <3>1, <3>3, <3>4, LodFacesIs
    <3> QED
      BY <3>1, <3>2, <3>3, <3>5
  <2> QED
    BY <1>2, <2>1, <2>2
<1>4. PICK v, shift :
        /\ lod \in Nat \ {0} /\ IsGrid(v, lod) /\ geometry.faces = FacesAt(v, lod, shift)
        /\ \A i \in Axes : /\ shift[i] \in Int
                           /\ lod + Size[i] - shift[i] \in (1 - lod)..(lod - 1)
  BY <1>3
<1> QED
  BY <1>4, FacesSeen DEF SurfaceIsSeen

\* Of every line of cells the first visible one is drawn, in its place, with its
\* texture for that side and not turned, and nothing is drawn outside of the
\* volume: for any volume, voxel definitions and levels of detail.
THEOREM SurfaceStaysSeen == VMSpec => []SurfaceIsSeen
<1>1. VMInit => GeometryInv
  BY GeometryInitInv
<1>2. GeometryInv /\ [VMNext]_vmVars => GeometryInv'
  BY GeometryStepInv
<1>3. GeometryInv => SurfaceIsSeen
  BY SeenByGeometry
<1> QED
  BY <1>1, <1>2, <1>3, PTL DEF VMSpec

-----------------------------------------------------------------------------
(* JsonParser: texts *)

IsText(t) == \E S : t \in Seq(S)

LEMMA TextLength ==
  ASSUME NEW t, IsText(t)
  PROVE  Len(t) \in Nat
BY DEF IsText

LEMMA TextOfLength ==
  ASSUME NEW n \in Nat, NEW u, u = [i \in 1..n |-> u[i]]
  PROVE  IsText(u) /\ Len(u) = n
<1> DEFINE S == {u[i] : i \in 1..n}
<1>1. u \in [1..n -> S]
  OBVIOUS
<1> HIDE DEF S
<1>2. u \in Seq(S) /\ Len(u) = n
  BY <1>1
<1> QED
  BY <1>2 DEF IsText

\* What is decoded inside a text leaves it as long as it was.
LEMMA OverwrittenIsText ==
  ASSUME NEW t, IsText(t), NEW at, NEW bytes
  PROVE  /\ IsText(Overwritten(t, at, bytes))
         /\ Len(Overwritten(t, at, bytes)) = Len(t)
<1> DEFINE u == Overwritten(t, at, bytes)
<1>1. u = [i \in 1..Len(t) |-> u[i]]
  BY DEF Overwritten
<1> HIDE DEF u
<1> QED
  BY <1>1, TextLength, TextOfLength DEF u

LEMMA LeastIsOf ==
  ASSUME NEW Q, Q \subseteq Nat, Q # {}
  PROVE  Least(Q) \in Q
BY LeastExists DEF Least

LEMMA BlanksAreSkipped ==
  ASSUME NEW t, IsText(t), NEW p \in 0..Len(t)
  PROVE  SkipBlanks(t, p) \in p..Len(t)
<1> DEFINE Q == {q \in p..Len(t) : q < Len(t) => ByteAt(t, q) \notin {32, 9, 10, 13}}
<1>1. Len(t) \in Nat
  BY TextLength
<1>2. Q \subseteq Nat /\ Len(t) \in Q
  BY <1>1
<1>3. Least(Q) \in Q
  <2> HIDE DEF Q
  <2> QED
    BY <1>2, LeastIsOf
<1> QED
  BY <1>3 DEF SkipBlanks

LEMMA DigitsEnd ==
  ASSUME NEW t, IsText(t), NEW p \in 0..Len(t)
  PROVE  /\ EndOfDigits(t, p) \in p..Len(t)
         /\ p < Len(t) /\ ByteAt(t, p) \in 48..57 => EndOfDigits(t, p) > p
<1> DEFINE Q == {q \in p..Len(t) : q < Len(t) => ByteAt(t, q) \notin 48..57}
<1>1. Len(t) \in Nat
  BY TextLength
<1>2. Q \subseteq Nat /\ Len(t) \in Q
  BY <1>1
<1>3. Least(Q) \in Q
  <2> HIDE DEF Q
  <2> QED
    BY <1>2, LeastIsOf
<1>4. EndOfDigits(t, p) \in Q
  BY <1>3 DEF EndOfDigits
<1> QED
  BY <1>4

-----------------------------------------------------------------------------
(* JsonParser: scalars *)

\* A scalar was read: the text is as long as it was, and the parser behind it.
IsRead(t, p, r) ==
  /\ r.ok
  /\ IsText(r.text) /\ Len(r.text) = Len(t)
  /\ r.p \in p..Len(t)

LEMMA WordIsRead ==
  ASSUME NEW t, IsText(t), NEW p \in 0..Len(t), NEW word, NEW value,
         Len(word) \in Nat, ParseWord(t, p, word, value).ok
  PROVE  /\ IsRead(t, p, ParseWord(t, p, word, value))
         /\ ParseWord(t, p, word, value).p = p + Len(word)
<1>1. Len(t) \in Nat
  BY TextLength
<1> QED
  BY SMTT(60), <1>1 DEF ParseWord, ParseFailed, IsRead

LEMMA NumberIsRead ==
  ASSUME NEW t, IsText(t), NEW p \in 0..Len(t), p < Len(t),
         ByteAt(t, p) = 45 \/ ByteAt(t, p) \in 48..57,
         ParseNumber(t, p).ok
  PROVE  /\ IsRead(t, p, ParseNumber(t, p))
         /\ ParseNumber(t, p).p > p
         /\ "tag" \notin DOMAIN ParseNumber(t, p)
<1> DEFINE
      negative == ByteAt(t, p) = 45
      whole == IF negative THEN p + 1 ELSE p
      point == EndOfDigits(t, whole)
      real == Peek(t, point) = 46
      e == IF real THEN EndOfDigits(t, point + 1) ELSE point
      power == Peek(t, e) \in {69, 101}
      sign == IF power /\ e + 1 < Len(t) THEN Peek(t, e + 1) ELSE 0
      from == IF sign \in {43, 45} THEN e + 2 ELSE e + 1
      end == IF power THEN EndOfDigits(t, from) ELSE e
<1>1. Len(t) \in Nat
  BY TextLength
<1>2. ~(power /\ from >= Len(t)) /\ ParseNumber(t, p).p = end
      /\ ParseNumber(t, p).text = t /\ "tag" \notin DOMAIN ParseNumber(t, p)
  BY DEF ParseNumber, ParseFailed
<1>3. whole \in p..Len(t)
  BY <1>1
<1>4. point \in whole..Len(t) /\ point > p
  <2>1. point \in whole..Len(t)
    BY <1>1, <1>3, DigitsEnd
  <2>2. CASE negative
    BY <1>1, <2>1, <2>2
  <2>3. CASE ~negative
    BY <1>1, <2>3, DigitsEnd
  <2> QED
    BY <2>1, <2>2, <2>3
<1> HIDE DEF point
<1>5. e \in point..Len(t)
  <2>1. CASE real
    <3>1. point + 1 \in 0..Len(t)
      BY <1>1, <1>3, <1>4, <2>1 DEF Peek
    <3> QED
      BY <1>1, <1>4, <2>1, <3>1, DigitsEnd
  <2>2. CASE ~real
    BY <1>1, <1>3, <1>4, <2>2
  <2> QED
    BY <2>1, <2>2
<1> HIDE DEF e, whole
<1>6. end \in e..Len(t)
  <2>1. CASE power
    <3>1. from \in 0..Len(t) /\ from > e
      BY <1>1, <1>2, <1>3, <1>4, <1>5, <2>1
    <3> HIDE DEF from
    <3>2. EndOfDigits(t, from) \in from..Len(t)
      BY <3>1, DigitsEnd
    <3> QED
      BY <1>1, <1>3, <1>4, <1>5, <2>1, <3>1, <3>2
  <2>2. CASE ~power
    BY <1>1, <1>3, <1>4, <1>5, <2>2
  <2> QED
    BY <2>1, <2>2
<1> HIDE DEF end
<1> QED
  BY <1>1, <1>2, <1>3, <1>4, <1>5, <1>6 DEF IsRead

-----------------------------------------------------------------------------
(* JsonParser: strings *)

LEMMA EscapeMoves ==
  ASSUME NEW t, NEW p \in Nat, Len(t) \in Nat, Escape(t, p).ok
  PROVE  Escape(t, p).p \in Nat /\ Escape(t, p).p > p
<1>1. ASSUME NEW i \in Nat, ReadHex(t, i).ok PROVE ReadHex(t, i).p = i + 4
  BY <1>1 DEF ReadHex
<1>2. ASSUME Unicode(t, p + 1).ok
      PROVE  Unicode(t, p + 1).p \in Nat /\ Unicode(t, p + 1).p > p
  <2> DEFINE lead == ReadHex(t, p + 1)
             trail == ReadHex(t, lead.p + 2)
  <2>0. Unicode(t, p + 1) =
          (IF Len(t) - (p + 1) < 4 THEN ParseFailed(t, p + 1)
           ELSE IF ~lead.ok THEN ParseFailed(t, lead.p)
           ELSE IF lead.u \notin 55296..56319
           THEN [ok |-> TRUE, p |-> lead.p, bytes |-> WriteUtf8(lead.u)]
           ELSE IF \/ Len(t) - lead.p < 6
                   \/ SubSeq(t, lead.p + 1, lead.p + 2) # <<Backslash, 117>>
           THEN ParseFailed(t, lead.p)
           ELSE IF ~trail.ok \/ trail.u \notin 56320..57343
           THEN ParseFailed(t, trail.p)
           ELSE [ok |-> TRUE, p |-> trail.p,
                 bytes |-> WriteUtf8(65536 + 1024 * (lead.u - 55296) + (trail.u - 56320))])
    BY DEF Unicode
  <2>1. lead.ok
    <3> HIDE DEF lead, trail
    <3> QED
      BY <1>2, <2>0 DEF ParseFailed
  <2>2. lead.p = p + 5
    BY <1>1, <2>1
  <2>3. \/ Unicode(t, p + 1).p = lead.p
        \/ trail.ok /\ Unicode(t, p + 1).p = trail.p
    <3> DEFINE short == Len(t) - (p + 1) < 4
               alone == lead.u \notin 55296..56319
               other == \/ Len(t) - lead.p < 6
                        \/ SubSeq(t, lead.p + 1, lead.p + 2) # <<Backslash, 117>>
               wrong == ~trail.ok \/ trail.u \notin 56320..57343
               one == [ok |-> TRUE, p |-> lead.p, bytes |-> WriteUtf8(lead.u)]
               two == [ok |-> TRUE, p |-> trail.p,
                       bytes |-> WriteUtf8(65536 + 1024 * (lead.u - 55296) + (trail.u - 56320))]
               nope == ParseFailed(t, p + 1)
               bad == ParseFailed(t, lead.p)
               worse == ParseFailed(t, trail.p)
               read == Unicode(t, p + 1)
    <3>1. \/ read = nope \/ read = bad \/ read = worse \/ read = one
          \/ ~wrong /\ read = two
      <4> HIDE DEF lead, trail
      <4>1. read = (IF short THEN nope ELSE IF ~lead.ok THEN bad
                    ELSE IF alone THEN one ELSE IF other THEN bad
                    ELSE IF wrong THEN worse ELSE two)
        BY <2>0
      <4> HIDE DEF short, alone, other, wrong, one, two, nope, bad, worse, read
      <4> QED
        BY SMTT(60), <4>1
    <3>2. nope.ok = FALSE /\ bad.ok = FALSE /\ worse.ok = FALSE
      <4> HIDE DEF lead, trail
      <4> QED
        BY DEF ParseFailed
    <3>3. one.p = lead.p /\ two.p = trail.p
      <4> HIDE DEF lead, trail
      <4> QED
        OBVIOUS
    <3>4. read.ok
      BY <1>2
    <3>5. ~wrong => trail.ok
      <4> HIDE DEF trail, lead
      <4> QED
        OBVIOUS
    <3> HIDE DEF nope, bad, worse, one, two, read, wrong, lead, trail
    <3>6. read = one \/ (~wrong /\ read = two)
      BY <3>1, <3>2, <3>4
    <3>7. read.p = lead.p \/ (trail.ok /\ read.p = trail.p)
      BY <3>3, <3>5, <3>6
    <3> QED
      BY <3>7 DEF read
  <2>4. trail.ok => trail.p = p + 11
    <3> HIDE DEF lead
    <3>1. lead.p + 2 \in Nat
      BY <2>2
    <3> QED
      BY <1>1, <2>2, <3>1
  <2> HIDE DEF lead, trail
  <2> QED
    BY <2>2, <2>3, <2>4
<1>3. \/ Escape(t, p).p = p + 1
      \/ Unicode(t, p + 1).ok /\ Escape(t, p).p = Unicode(t, p + 1).p
  BY DEF Escape, ParseFailed
<1> QED
  BY <1>2, <1>3

DecodesFrom(d, t, q) ==
  /\ DOMAIN d = {"ok", "open", "text", "p", "tag"}
  /\ IsText(d.text) /\ Len(d.text) = Len(t)
  /\ d.open => d.p \in Nat /\ d.p >= q
  /\ d.ok => ~d.open /\ d.p \in (q + 1)..Len(t)

LEMMA DecodeStep ==
  ASSUME NEW t, NEW q \in Nat, Len(t) \in Nat, NEW d, DecodesFrom(d, t, q)
  PROVE  DecodesFrom(Decode(d), t, q)
<1> DEFINE c == ByteAt(d.text, d.p)
           e == Escape(d.text, d.p + 1)
<1>1. CASE ~d.open
  BY <1>1 DEF Decode
<1>2. ASSUME d.open PROVE d.p \in Nat /\ d.p >= q
  BY <1>2 DEF DecodesFrom
<1>3. ASSUME NEW p PROVE DecodesFrom(Ended(d, FALSE, p), t, q)
  BY DEF DecodesFrom, Ended
<1>4. ASSUME d.open, NEW bytes, NEW p \in Nat, p >= q
      PROVE  DecodesFrom(Wrote(d, bytes, p), t, q)
  <2>1. IsText(d.text) /\ Len(d.text) = Len(t)
    BY DEF DecodesFrom
  <2>2. /\ IsText(Overwritten(d.text, d.tag[2], bytes))
        /\ Len(Overwritten(d.text, d.tag[2], bytes)) = Len(t)
    BY <2>1, OverwrittenIsText
  <2> DEFINE text == Overwritten(d.text, d.tag[2], bytes)
             w == Wrote(d, bytes, p)
             tag == <<d.tag[1], d.tag[2] + Len(bytes)>>
  <2>3. w = [d EXCEPT !.text = text, !.p = p, !.tag = tag]
    BY DEF Wrote
  <2> HIDE DEF text, tag, w
  <2>4. /\ DOMAIN w = {"ok", "open", "text", "p", "tag"}
        /\ w.text = text /\ w.p = p /\ w.open = d.open /\ w.ok = d.ok
    BY <2>3 DEF DecodesFrom
  <2>5. ~w.ok
    BY <1>4, <2>4 DEF DecodesFrom
  <2> QED
    BY <1>4, <2>2, <2>4, <2>5 DEF DecodesFrom, text, w
<1>5. CASE d.open /\ (d.p >= Len(d.text) \/ c < 32 \/ c > 127)
  <2>1. d.p \in Nat /\ Len(d.text) \in Nat
    BY <1>2, <1>5 DEF DecodesFrom
  <2> DEFINE over == d.p >= Len(d.text) \/ c < 32 \/ c > 127
             quote == d.p < Len(d.text) /\ c = Quote
             escape == d.p < Len(d.text) /\ c = Backslash
             read == Ended(d, TRUE, d.p + 1)
             escaped == IF e.ok THEN Wrote(d, e.bytes, e.p) ELSE Ended(d, FALSE, e.p)
             other == Wrote(d, <<c>>, d.p + 1)
  <2>2. Decode(d) = Ended(d, FALSE, d.p)
    <3>1. Decode(d) = CASE ~d.open -> d
                        [] d.open /\ over -> Ended(d, FALSE, d.p)
                        [] d.open /\ quote -> read
                        [] d.open /\ escape -> escaped
                        [] OTHER -> other
      BY DEF Decode
    <3>2. over => ~quote /\ ~escape
      <4> HIDE DEF c
      <4> QED
        BY <2>1 DEF Quote, Backslash
    <3>3. d.open /\ over
      BY <1>5
    <3> HIDE DEF over, quote, escape, read, escaped, other
    <3> QED
      BY <3>1, <3>2, <3>3
  <2> QED
    BY <1>3, <2>2
<1>6. CASE d.open /\ ~(d.p >= Len(d.text) \/ c < 32 \/ c > 127)
  <2>1. d.p \in Nat /\ d.p >= q /\ d.p < Len(t) /\ d.p < Len(d.text)
    BY <1>2, <1>6 DEF DecodesFrom
  <2>2. CASE c = Quote
    <3>1. Decode(d) = Ended(d, TRUE, d.p + 1)
      BY <1>6, <2>1, <2>2 DEF Decode, Quote, Backslash
    <3>2. DecodesFrom(Ended(d, TRUE, d.p + 1), t, q)
      BY <2>1 DEF DecodesFrom, Ended
    <3> QED
      BY <3>1, <3>2
  <2>3. CASE c = Backslash
    <3>1. Decode(d) = IF e.ok THEN Wrote(d, e.bytes, e.p) ELSE Ended(d, FALSE, e.p)
      BY <1>6, <2>1, <2>3 DEF Decode, Quote, Backslash
    <3>2. e.ok => e.p \in Nat /\ e.p >= q
      <4>1. d.p + 1 \in Nat /\ Len(d.text) \in Nat
        BY <2>1 DEF DecodesFrom
      <4> QED
        BY <2>1, <4>1, EscapeMoves
    <3> HIDE DEF e
    <3> QED
      BY <1>3, <1>4, <1>6, <3>1, <3>2
  <2>4. CASE c \notin {Quote, Backslash}
    <3>1. Decode(d) = Wrote(d, <<c>>, d.p + 1)
      BY <1>6, <2>1, <2>4 DEF Decode
    <3>2. d.p + 1 \in Nat /\ d.p + 1 >= q
      BY <2>1
    <3> HIDE DEF c
    <3> QED
      BY <1>4, <1>6, <3>1, <3>2
  <2> QED
    BY <2>2, <2>3, <2>4
<1> QED
  BY <1>1, <1>5, <1>6

\* The function that Decoding names exists for any number of steps, and so it
\* is the one that takes them.
Steps(f, t, start, q, n) ==
  f = [k \in 0..n |->
         IF k = 0
         THEN [ok |-> FALSE, open |-> TRUE, text |-> t, p |-> q, tag |-> <<start, q>>]
         ELSE Decode(f[k - 1])]

LEMMA StepsExist ==
  ASSUME NEW t, NEW start, NEW q, NEW n \in Nat
  PROVE  \E f : Steps(f, t, start, q, n)
<1> DEFINE Q == {k \in Nat : ~ \E f : Steps(f, t, start, q, k)}
           first == [ok |-> FALSE, open |-> TRUE, text |-> t, p |-> q, tag |-> <<start, q>>]
<1>1. SUFFICES ASSUME Q # {} PROVE FALSE
  OBVIOUS
<1>2. PICK m \in Q : \A k \in Q : m <= k
  <2>1. Q \subseteq Nat
    OBVIOUS
  <2> HIDE DEF Q
  <2> QED
    BY <1>1, <2>1, LeastExists
<1>3. CASE m = 0
  <2> DEFINE f == [k \in 0..0 |-> first]
  <2>1. Steps(f, t, start, q, 0)
    BY DEF Steps
  <2> QED
    BY <1>2, <1>3, <2>1
<1>4. CASE m # 0
  <2>1. m - 1 \in Nat /\ m - 1 \notin Q
    BY <1>2, <1>4
  <2>2. PICK f : Steps(f, t, start, q, m - 1)
    BY <2>1
  <2> DEFINE g == [k \in 0..m |-> IF k = 0 THEN first ELSE Decode(f[k - 1])]
  <2>3. ASSUME NEW k \in 0..m, k # 0 PROVE g[k - 1] = f[k - 1]
    <3>1. k - 1 \in 0..m /\ k - 1 \in 0..(m - 1)
      BY <1>2, <2>1, <2>3
    <3>2. f[k - 1] = IF k - 1 = 0 THEN first ELSE Decode(f[k - 1 - 1])
      BY <2>2, <3>1 DEF Steps
    <3> QED
      BY <3>1, <3>2
  <2>4. g = [k \in 0..m |-> IF k = 0 THEN first ELSE Decode(g[k - 1])]
    <3>1. ASSUME NEW k \in 0..m
          PROVE  (IF k = 0 THEN first ELSE Decode(f[k - 1])) =
                 (IF k = 0 THEN first ELSE Decode(g[k - 1]))
      BY <2>3
    <3> QED
      BY <3>1
  <2>5. Steps(g, t, start, q, m)
    BY <2>4 DEF Steps
  <2> QED
    BY <1>2, <2>5
<1> QED
  BY <1>3, <1>4

LEMMA DecodingIsSteps ==
  ASSUME NEW t, NEW start, NEW q, Len(t) - q + 1 \in Nat
  PROVE  Steps(Decoding(t, start, q), t, start, q, Len(t) - q + 1)
<1> DEFINE n == Len(t) - q + 1
<1>1. Decoding(t, start, q) = CHOOSE f : Steps(f, t, start, q, n)
  BY DEF Decoding, Steps
<1>2. \E f : Steps(f, t, start, q, n)
  BY StepsExist
<1> QED
  BY <1>1, <1>2

LEMMA DecodingDecodes ==
  ASSUME NEW t, IsText(t), NEW start, NEW q \in 0..Len(t)
  PROVE  DecodesFrom(Decoding(t, start, q)[Len(t) - q + 1], t, q)
<1> DEFINE n == Len(t) - q + 1
           f == Decoding(t, start, q)
           Q == {k \in 0..n : ~DecodesFrom(f[k], t, q)}
<1>1. Len(t) \in Nat /\ q \in Nat /\ n \in Nat
  BY TextLength
<1>2. Steps(f, t, start, q, n)
  BY <1>1, DecodingIsSteps
<1> HIDE DEF n, f
<1>3. SUFFICES ASSUME Q # {} PROVE FALSE
  BY <1>1 DEF n, f
<1>4. PICK m \in Q : \A k \in Q : m <= k
  <2>1. Q \subseteq Nat
    BY <1>1
  <2> HIDE DEF Q
  <2> QED
    BY <1>3, <2>1, LeastExists
<1>5. CASE m = 0
  <2>1. f[m] = [ok |-> FALSE, open |-> TRUE, text |-> t, p |-> q, tag |-> <<start, q>>]
    BY <1>1, <1>2, <1>5 DEF Steps
  <2>2. DecodesFrom(f[m], t, q)
    BY <1>1, <2>1 DEF DecodesFrom
  <2> QED
    BY <1>4, <2>2
<1>6. CASE m # 0
  <2>1. m - 1 \in 0..n /\ m - 1 \notin Q
    BY <1>1, <1>4, <1>6
  <2>2. DecodesFrom(f[m - 1], t, q)
    BY <2>1
  <2>3. f[m] = Decode(f[m - 1])
    BY <1>1, <1>2, <1>4, <1>6 DEF Steps
  <2>4. DecodesFrom(f[m], t, q)
    BY <1>1, <2>2, <2>3, DecodeStep
  <2> QED
    BY <1>4, <2>4
<1> QED
  BY <1>5, <1>6

LEMMA StringIsRead ==
  ASSUME NEW t, IsText(t), NEW p \in 0..Len(t), p < Len(t), ParseString(t, p).ok
  PROVE  /\ IsRead(t, p, ParseString(t, p))
         /\ ParseString(t, p).p >= p + 2
<1> DEFINE Q == {i \in (p + 1)..Len(t) : \/ i = Len(t)
                                         \/ ByteAt(t, i) \in {Quote, Backslash}
                                         \/ ByteAt(t, i) < 32}
           q == Least(Q)
<1>1. Len(t) \in Nat
  BY TextLength
<1>2. Q \subseteq Nat /\ Len(t) \in Q
  BY <1>1
<1>3. q \in (p + 1)..Len(t)
  <2>1. q \in Q
    <3> HIDE DEF Q
    <3> QED
      BY <1>2, LeastIsOf
  <2> QED
    BY <2>1
<1>4. ParseString(t, p) =
        (IF q = Len(t) \/ Peek(t, q) < 32 THEN ParseFailed(t, q)
         ELSE IF ByteAt(t, q) = Backslash THEN ParseStringSlow(t, p + 1, q)
         ELSE [ok |-> TRUE, text |-> t, p |-> q + 1, tag |-> <<p + 1, q>>])
  BY DEF ParseString
<1> HIDE DEF q
<1>5. q # Len(t)
  BY <1>4 DEF ParseFailed
<1>6. CASE ParseString(t, p) = ParseStringSlow(t, p + 1, q)
  <2> DEFINE d == Decoding(t, p + 1, q)[Len(t) - q + 1]
  <2>1. DecodesFrom(d, t, q)
    BY <1>1, <1>3, DecodingDecodes
  <2>2. ParseString(t, p) = d
    BY <1>6 DEF ParseStringSlow
  <2> HIDE DEF d
  <2> QED
    BY <1>1, <1>3, <2>1, <2>2 DEF DecodesFrom, IsRead
<1>7. CASE ParseString(t, p) = [ok |-> TRUE, text |-> t, p |-> q + 1, tag |-> <<p + 1, q>>]
  BY <1>1, <1>3, <1>5, <1>7 DEF IsRead
<1> QED
  BY <1>4, <1>6, <1>7 DEF ParseFailed

\* A scalar takes as many bytes as its words at least, and one byte.
LEMMA ScalarIsRead ==
  ASSUME NEW t, IsText(t), NEW p \in 0..Len(t), p < Len(t), ByteAt(t, p) \in ScalarStarts,
         ParseScalar(t, p).ok
  PROVE  /\ IsRead(t, p, ParseScalar(t, p))
         /\ Len(WordsOf(ParseScalar(t, p))) \in 0..2
         /\ ParseScalar(t, p).p >= p + 1
         /\ ParseScalar(t, p).p >= p + Len(WordsOf(ParseScalar(t, p)))
<1> DEFINE r == ParseScalar(t, p)
           n == Len(WordsOf(r))
<1>1. Len(t) \in Nat
  BY TextLength
<1>2. n \in 0..2 /\ ("tag" \notin DOMAIN r => n \in 0..1)
  BY DEF WordsOf
<1>3. ASSUME \E word, value : r = ParseWord(t, p, word, value) /\ Len(word) \in {4, 5}
      PROVE  IsRead(t, p, r) /\ r.p >= p + 1 /\ r.p >= p + n
  <2>1. PICK word, value : r = ParseWord(t, p, word, value) /\ Len(word) \in {4, 5}
    BY <1>3
  <2>2. r.ok
    OBVIOUS
  <2> HIDE DEF r, n
  <2>3. IsRead(t, p, r) /\ r.p = p + Len(word)
    <3>1. Len(word) \in Nat
      BY <2>1
    <3> QED
      BY <2>1, <2>2, <3>1, WordIsRead
  <2>4. Len(word) >= 4 /\ Len(word) \in Nat /\ n \in Nat /\ n <= 2
    <3>1. n \in 0..2
      BY <1>2
    <3>2. \A a \in {4, 5} : a >= 4 /\ a \in Nat
      OBVIOUS
    <3>3. \A a \in 0..2 : a \in Nat /\ a <= 2
      OBVIOUS
    <3> QED
      BY <2>1, <3>1, <3>2, <3>3, Zenon
  <2>5. r.p >= p + 1 /\ r.p >= p + n
    BY <1>1, <2>3, <2>4
  <2> QED
    BY <2>3, <2>5
<1>4. ASSUME r = ParseString(t, p)
      PROVE  IsRead(t, p, r) /\ r.p >= p + 1 /\ r.p >= p + n
  <2>1. r.ok
    OBVIOUS
  <2> HIDE DEF r, n
  <2>2. IsRead(t, p, r) /\ r.p >= p + 2
    BY <1>4, <2>1, StringIsRead
  <2> QED
    BY <1>1, <1>2, <2>2 DEF IsRead
<1>5. ASSUME r = ParseNumber(t, p), ByteAt(t, p) = 45 \/ ByteAt(t, p) \in 48..57
      PROVE  IsRead(t, p, r) /\ r.p >= p + 1 /\ r.p >= p + n
  <2>1. r.ok
    OBVIOUS
  <2> HIDE DEF r, n
  <2>2. IsRead(t, p, r) /\ r.p > p /\ "tag" \notin DOMAIN r
    BY <1>5, <2>1, NumberIsRead
  <2> QED
    BY <1>1, <1>2, <2>2 DEF IsRead
<1>6. \/ \E word, value : r = ParseWord(t, p, word, value) /\ Len(word) \in {4, 5}
      \/ r = ParseString(t, p)
      \/ r = ParseNumber(t, p) /\ (ByteAt(t, p) = 45 \/ ByteAt(t, p) \in 48..57)
  <2>1. CASE ByteAt(t, p) = 110
    <3>1. r = ParseWord(t, p, <<110, 117, 108, 108>>, Null)
      BY <2>1 DEF ParseScalar, Quote
    <3>2. Len(<<110, 117, 108, 108>>) = 4
      OBVIOUS
    <3> QED
      BY <3>1, <3>2
  <2>2. CASE ByteAt(t, p) = 102
    <3>1. r = ParseWord(t, p, <<102, 97, 108, 115, 101>>, <<"bool", FALSE>>)
      BY <2>2 DEF ParseScalar, Quote
    <3>2. Len(<<102, 97, 108, 115, 101>>) = 5
      OBVIOUS
    <3> QED
      BY <3>1, <3>2
  <2>3. CASE ByteAt(t, p) = 116
    <3>1. r = ParseWord(t, p, <<116, 114, 117, 101>>, <<"bool", TRUE>>)
      BY <2>3 DEF ParseScalar, Quote
    <3>2. Len(<<116, 114, 117, 101>>) = 4
      OBVIOUS
    <3> QED
      BY <3>1, <3>2
  <2>4. CASE ByteAt(t, p) = Quote
    BY <2>4 DEF ParseScalar, Quote
  <2>5. CASE ByteAt(t, p) = 45 \/ ByteAt(t, p) \in 48..57
    BY <2>5 DEF ParseScalar, Quote
  <2> QED
    BY <2>1, <2>2, <2>3, <2>4, <2>5 DEF ScalarStarts
<1> HIDE DEF r, n
<1> QED
  BY <1>2, <1>3, <1>4, <1>5, <1>6 DEF r, n

-----------------------------------------------------------------------------
(* JsonParser: the inductive invariant *)

Fields == {"at", "text", "p", "temp", "out", "base", "type", "words"}

\* The elements of the containers that are open, from base down to the root.
OpenFrom(words, base) ==
  \E B \in SUBSET (0..base) :
    /\ base \in B
    /\ \A b \in B : words[b][3] \in {RootMarker} \cup (B \cap 0..(b - 1))

\* Words that are left between what is open and what is finished, when the rest
\* of the text takes a word for every byte.
Spare(d) == d.out - d.temp - (Len(d.text) - d.p)

IsUnderway(d) ==
  /\ DOMAIN d = Fields
  /\ IsText(d.text) /\ d.p \in 0..Len(d.text)
  /\ d.temp \in Nat /\ d.base \in 0..(d.temp - 1)
  /\ d.out \in Int /\ d.out <= Len(d.text)
  /\ DOMAIN d.words = 0..(Len(d.text) + 1)
  /\ Spare(d) >= -1
  /\ OpenFrom(d.words, d.base)

\* The last word may be missing before the comma or the bracket that has to
\* come, and not in a container that has nothing yet.
JPInv ==
  /\ IsText(file)
  /\ parser.at \in {"item", "value"} =>
       /\ IsUnderway(parser)
       /\ parser.at = "item" /\ parser.temp = parser.base + 1 => Spare(parser) >= 0
       /\ parser.at = "value" /\ Spare(parser) < 0 =>
            parser.p < Len(parser.text) /\ ByteAt(parser.text, parser.p) \in {93, 125}

LEMMA OpenSame ==
  ASSUME NEW words, NEW base \in Nat, OpenFrom(words, base),
         NEW after, \A b \in 0..base : after[b] = words[b]
  PROVE  OpenFrom(after, base)
BY DEF OpenFrom

LEMMA OpenMore ==
  ASSUME NEW words, NEW base \in Nat, OpenFrom(words, base),
         NEW after, \A b \in 0..base : after[b] = words[b],
         NEW temp \in Nat, base < temp, after[temp][3] = base
  PROVE  OpenFrom(after, temp)
<1>1. PICK B \in SUBSET (0..base) :
        /\ base \in B
        /\ \A b \in B : words[b][3] \in {RootMarker} \cup (B \cap 0..(b - 1))
  BY DEF OpenFrom
<1> DEFINE C == B \cup {temp}
<1>2. C \in SUBSET (0..temp) /\ temp \in C
  OBVIOUS
<1>3. ASSUME NEW b \in C PROVE after[b][3] \in {RootMarker} \cup (C \cap 0..(b - 1))
  <2>1. CASE b = temp
    BY <1>1, <2>1
  <2>2. CASE b \in B
    <3>1. after[b] = words[b]
      BY <2>2
    <3> QED
      BY <1>1, <2>2, <3>1
  <2> QED
    BY <2>1, <2>2
<1> HIDE DEF C
<1> QED
  BY <1>2, <1>3 DEF OpenFrom

LEMMA OpenLess ==
  ASSUME NEW words, NEW base \in Nat, OpenFrom(words, base),
         NEW after, \A b \in 0..(base - 1) : after[b] = words[b],
         words[base][3] # RootMarker
  PROVE  words[base][3] \in 0..(base - 1) /\ OpenFrom(after, words[base][3])
<1>1. PICK B \in SUBSET (0..base) :
        /\ base \in B
        /\ \A b \in B : words[b][3] \in {RootMarker} \cup (B \cap 0..(b - 1))
  BY DEF OpenFrom
<1> DEFINE o == words[base][3]
           C == B \cap 0..o
<1>2. o \in B /\ o \in 0..(base - 1)
  BY <1>1
<1> HIDE DEF o
<1>3. C \in SUBSET (0..o) /\ o \in C
  BY <1>2
<1>4. ASSUME NEW b \in C PROVE after[b][3] \in {RootMarker} \cup (C \cap 0..(b - 1))
  <2>1. after[b] = words[b] /\ b \in B /\ b \in 0..o
    BY <1>2
  <2>2. words[b][3] \in {RootMarker} \cup (B \cap 0..(b - 1))
    BY <1>1, <2>1
  <2>3. 0..(b - 1) \subseteq 0..o
    BY <1>2, <2>1
  <2> QED
    BY <2>1, <2>2, <2>3
<1> HIDE DEF C
<1>5. OpenFrom(after, o)
  BY <1>3, <1>4 DEF OpenFrom
<1> QED
  BY <1>2, <1>5 DEF o

LEMMA ContinueIs ==
  ASSUME NEW at, NEW d, DOMAIN d = Fields, Continue(at, d)
  PROVE  /\ DOMAIN parser' = Fields /\ parser'.at = at
         /\ parser'.text = d.text /\ parser'.p = d.p
         /\ parser'.temp = d.temp /\ parser'.out = d.out
         /\ parser'.base = d.base /\ parser'.type = d.type
         /\ parser'.words = d.words
BY DEF Continue, Fields

LEMMA ContinueUnderway ==
  ASSUME NEW at, NEW d, IsUnderway(d), Continue(at, d)
  PROVE  /\ IsUnderway(parser') /\ Spare(parser') = Spare(d) /\ parser'.at = at
         /\ parser'.temp = d.temp /\ parser'.base = d.base
         /\ parser'.p = d.p /\ parser'.text = d.text
BY ContinueIs DEF IsUnderway, Spare

LEMMA ScalarWritten ==
  ASSUME NEW d, DOMAIN d = Fields, NEW r, NEW e, e = WithScalar(d, r)
  PROVE  /\ DOMAIN e = Fields
         /\ e.text = r.text /\ e.p = r.p /\ e.temp = d.temp /\ e.base = d.base
         /\ e.out = d.out - Len(WordsOf(r))
         /\ DOMAIN e.words = DOMAIN d.words
         /\ \A i \in DOMAIN d.words :
              i \notin (d.out - Len(WordsOf(r)))..(d.out - 1) => e.words[i] = d.words[i]
BY DEF WithScalar, Fields

LEMMA ElementWritten ==
  ASSUME NEW d, DOMAIN d = Fields, NEW type, NEW base, NEW e, e = WithElement(d, type, base)
  PROVE  /\ DOMAIN e = Fields
         /\ e.text = d.text /\ e.p = d.p /\ e.temp = d.temp + 1 /\ e.base = d.base
         /\ e.out = d.out
         /\ DOMAIN e.words = DOMAIN d.words
         /\ \A i \in DOMAIN d.words : i # d.temp => e.words[i] = d.words[i]
BY DEF WithElement, Fields

LEMMA FinishedIs ==
  ASSUME NEW d, DOMAIN d = Fields, Finished(d)
  PROVE  parser'.at \in {"accepted", "rejected"}
<1>1. PICK at \in {"accepted", "rejected"} : Continue(at, d)
  BY DEF Finished
<1> QED
  BY <1>1, ContinueIs

-----------------------------------------------------------------------------
(* JsonParser: every step keeps it *)

LEMMA BeginStep ==
  ASSUME JPInv, Begin
  PROVE  JPInv'
<1> DEFINE p == SkipBlanks(file, 0)
           c == Peek(file, p)
           root == CASE c = 91 -> "array"
                     [] c = 123 -> "object"
                     [] OTHER -> "scalar"
           d == [at |-> "item", text |-> file, p |-> p, temp |-> 1,
                 out |-> Len(file) + IF c \in {Quote, 45} \cup 48..57 THEN 2 ELSE 0,
                 base |-> 0, type |-> root,
                 words |-> [i \in 0..(Len(file) + 1) |->
                              IF i = 0 THEN Element(root, RootMarker) ELSE <<"fresh">>]]
           r == ParseScalar(file, p)
<1>1. IsText(file) /\ IsText(file')
  BY DEF JPInv, Begin
<1>2. Len(file) \in Nat /\ p \in 0..Len(file)
  BY <1>1, TextLength, BlanksAreSkipped
<1>3. DOMAIN d = Fields
  BY DEF Fields
<1>4. \/ root # "scalar" /\ Continue("item", [d EXCEPT !.p = p + 1])
      \/ Continue("rejected", d)
      \/ Finished(WithElement(WithScalar(d, r), WithScalar(d, r).type, 0))
  <2> HIDE DEF d, r, root
  <2>1. (CASE root # "scalar" -> Continue("item", [d EXCEPT !.p = p + 1])
           [] root = "scalar" /\ c \in ScalarStarts \ {110} ->
                IF ~r.ok THEN Continue("rejected", d)
                ELSE Finished(WithElement(WithScalar(d, r), WithScalar(d, r).type, 0))
           [] OTHER -> Continue("rejected", d))
    BY DEF Begin, d, r, root
  <2> HIDE DEF c
  <2> QED
    BY <2>1
<1>5. ASSUME root # "scalar", Continue("item", [d EXCEPT !.p = p + 1])
      PROVE  JPInv'
  <2>1. c \in {91, 123} /\ p < Len(file)
    BY <1>2, <1>5 DEF Peek
  <2> DEFINE e == [d EXCEPT !.p = p + 1]
  <2>2. /\ DOMAIN e = Fields /\ e.text = file /\ e.p = p + 1 /\ e.temp = 1
        /\ e.base = 0 /\ e.words = d.words /\ e.out = d.out
    BY DEF Fields
  <2>3. d.out = Len(file)
    BY SMTT(60), <1>2, <2>1 DEF Quote
  <2>4. DOMAIN d.words = 0..(Len(file) + 1) /\ d.words[0] = Element(root, RootMarker)
    BY <1>2
  <2> HIDE DEF d, e
  <2>5. OpenFrom(e.words, 0)
    <3>1. e.words[0][3] = RootMarker
      BY <2>2, <2>4 DEF Element
    <3>2. {0} \in SUBSET (0..0)
      OBVIOUS
    <3> QED
      BY <3>1, <3>2 DEF OpenFrom
  <2>6. Spare(e) >= 0
    BY <1>2, <2>2, <2>3 DEF Spare
  <2>7. IsUnderway(e)
    BY <1>1, <1>2, <2>1, <2>2, <2>3, <2>4, <2>5, <2>6 DEF IsUnderway, Spare
  <2>8. IsUnderway(parser') /\ Spare(parser') = Spare(e) /\ parser'.at = "item"
    BY <1>5, <2>7, ContinueUnderway DEF e
  <2> QED
    BY <1>1, <2>6, <2>8 DEF JPInv
<1>6. ASSUME Continue("rejected", d) PROVE JPInv'
  <2> HIDE DEF d
  <2>1. parser'.at = "rejected"
    BY <1>3, <1>6, ContinueIs
  <2> QED
    BY <1>1, <2>1 DEF JPInv
<1>7. ASSUME Finished(WithElement(WithScalar(d, r), WithScalar(d, r).type, 0))
      PROVE  JPInv'
  <2> HIDE DEF d, r
  <2>1. DOMAIN WithScalar(d, r) = Fields
    BY <1>3, ScalarWritten
  <2>2. DOMAIN WithElement(WithScalar(d, r), WithScalar(d, r).type, 0) = Fields
    BY <2>1, ElementWritten
  <2>3. parser'.at \in {"accepted", "rejected"}
    BY <1>7, <2>2, FinishedIs
  <2> QED
    BY <1>1, <2>3 DEF JPInv
<1> HIDE DEF d, r, root
<1> QED
  BY <1>4, <1>5, <1>6, <1>7

LEMMA RejectStep ==
  ASSUME JPInv, parser.at \in {"item", "value"}, Reject, UNCHANGED file
  PROVE  JPInv'
<1>1. DOMAIN parser = Fields
  BY DEF JPInv, IsUnderway
<1>2. parser'.at = "rejected"
  BY <1>1 DEF Reject, Fields
<1> QED
  BY <1>2 DEF JPInv

LEMMA SpareAfterScalar ==
  ASSUME NEW out \in Int, NEW temp \in Int, NEW length \in Int, NEW n \in Int,
         NEW q \in Int, NEW p \in Int,
         out - temp - (length - q) >= 0, p - n >= q
  PROVE  out - n - (temp + 1) - (length - p) >= -1
OBVIOUS

LEMMA ScalarStep ==
  ASSUME JPInv, Scalar
  PROVE  JPInv'
<1> DEFINE t == parser.text
           q == SkipBlanks(t, parser.p)
           r == ParseScalar(t, q)
           d == WithScalar(parser, r)
           e == WithElement(d, d.type, d.base)
           f == [e EXCEPT !.type = parser.type]
           n == Len(WordsOf(r))
<1>1. /\ IsUnderway(parser) /\ parser.at = "value"
      /\ Spare(parser) < 0 => parser.p < Len(t) /\ ByteAt(t, parser.p) \in {93, 125}
      /\ IsText(file) /\ IsText(file')
  BY DEF JPInv, Scalar
<1>2. IsText(t) /\ Len(t) \in Nat /\ parser.p \in 0..Len(t) /\ q \in parser.p..Len(t)
  BY ZenonT(90), <1>1, TextLength, BlanksAreSkipped DEF IsUnderway
<1>3. Peek(t, q) \in ScalarStarts
  BY DEF Scalar
<1>4. q < Len(t) /\ ByteAt(t, q) \in ScalarStarts
  BY <1>2, <1>3 DEF Peek, ScalarStarts, Quote
<1>5. Spare(parser) >= 0 \/ q > parser.p
  <2>1. ByteAt(t, q) \notin {93, 125}
    BY <1>4 DEF ScalarStarts, Quote
  <2> QED
    BY SMTT(60), <1>1, <1>2, <2>1 DEF IsUnderway, Spare
<1>6a. /\ Spare(parser) = parser.out - parser.temp - (Len(t) - parser.p)
       /\ Spare(parser) >= -1
       /\ parser.p \in Int /\ q \in Int /\ q >= parser.p /\ Len(t) \in Int
       /\ parser.out \in Int /\ parser.temp \in Int
  BY <1>1, <1>2 DEF Spare, IsUnderway
<1>6b. parser.out - parser.temp - (Len(t) - q) >= 0
  <2> HIDE DEF q, t
  <2> QED
    BY SMTT(60), <1>5, <1>6a
<1>6. ASSUME ~r.ok PROVE JPInv'
  <2>1. Reject /\ UNCHANGED file
    BY <1>6 DEF Scalar
  <2> QED
    BY <1>1, <2>1, RejectStep
<1>7. ASSUME r.ok PROVE JPInv'
  <2>1. Continue("item", f)
    BY <1>7 DEF Scalar
  <2>2. IsRead(t, q, r) /\ n \in 0..2 /\ r.p >= q + 1 /\ r.p >= q + n
    <3> HIDE DEF q
    <3> QED
      BY <1>2, <1>4, <1>7, ScalarIsRead
  <2> HIDE DEF r, n
  <2>3. /\ DOMAIN d = Fields /\ d.text = r.text /\ d.p = r.p /\ d.temp = parser.temp
        /\ d.base = parser.base /\ d.out = parser.out - n
        /\ DOMAIN d.words = DOMAIN parser.words
        /\ \A i \in DOMAIN parser.words :
             i \notin (parser.out - n)..(parser.out - 1) => d.words[i] = parser.words[i]
    <3>1. DOMAIN parser = Fields
      BY <1>1 DEF IsUnderway
    <3> QED
      BY <3>1, ScalarWritten DEF n, d
  <2> HIDE DEF d
  <2>4. /\ DOMAIN e = Fields /\ e.text = d.text /\ e.p = d.p /\ e.temp = d.temp + 1
        /\ e.base = d.base /\ e.out = d.out
        /\ DOMAIN e.words = DOMAIN d.words
        /\ \A i \in DOMAIN d.words : i # d.temp => e.words[i] = d.words[i]
    BY <2>3, ElementWritten DEF e
  <2> HIDE DEF e
  <2>5. /\ DOMAIN f = Fields /\ f.text = e.text /\ f.p = e.p /\ f.temp = e.temp
        /\ f.base = e.base /\ f.out = e.out /\ f.words = e.words
    BY <2>4 DEF Fields
  <2> HIDE DEF f
  <2>6. /\ parser.temp \in Nat /\ parser.base \in Nat /\ parser.base < parser.temp
        /\ parser.out \in Int /\ parser.out <= Len(t) /\ r.p \in Nat /\ r.p <= Len(t)
        /\ q \in Nat /\ Len(r.text) = Len(t) /\ IsText(r.text) /\ n \in Nat
        /\ DOMAIN parser.words = 0..(Len(t) + 1)
    BY SMTT(60), <1>1, <1>2, <2>2 DEF IsUnderway, IsRead
  <2>7. Spare(f) >= -1
    <3>1. Spare(f) = parser.out - n - (parser.temp + 1) - (Len(t) - r.p)
      BY <2>3, <2>4, <2>5, <2>6 DEF Spare
    <3>2. parser.out - parser.temp - (Len(t) - q) >= 0
      BY <1>6b
    <3> HIDE DEF q
    <3>3. r.p - n >= q
      BY <2>2, <2>6
    <3> HIDE DEF t
    <3>4. /\ parser.out \in Int /\ parser.temp \in Int /\ Len(t) \in Int
          /\ r.p \in Int /\ n \in Int /\ q \in Int
      BY <1>2, <2>6
    <3>5. parser.out - n - (parser.temp + 1) - (Len(t) - r.p) >= -1
      BY <3>2, <3>3, <3>4, SpareAfterScalar
    <3> QED
      BY <3>1, <3>5
  <2>8. parser.out - n > parser.base
    <3>1. Spare(f) = parser.out - n - (parser.temp + 1) - (Len(t) - r.p)
      BY <2>3, <2>4, <2>5, <2>6 DEF Spare
    <3> HIDE DEF t, q
    <3>2. /\ parser.out \in Int /\ parser.temp \in Int /\ Len(t) \in Int
          /\ r.p \in Int /\ r.p <= Len(t) /\ n \in Int /\ parser.base \in Int
          /\ parser.base < parser.temp
      BY <1>2, <2>6
    <3> QED
      BY SMTT(60), <2>7, <3>1, <3>2
  <2>9. \A b \in 0..parser.base : f.words[b] = parser.words[b]
    <3> SUFFICES ASSUME NEW b \in 0..parser.base PROVE f.words[b] = parser.words[b]
      OBVIOUS
    <3>1. b \in 0..(Len(t) + 1)
      <4>1. parser.base <= Len(t)
        BY <1>2, <2>6, <2>8
      <4> QED
        BY <1>2, <2>6, <4>1
    <3>2. b # parser.temp /\ b \notin (parser.out - n)..(parser.out - 1)
      BY <2>6, <2>8
    <3> QED
      BY <2>3, <2>4, <2>5, <2>6, <3>1, <3>2
  <2>10. OpenFrom(f.words, f.base)
    BY ZenonT(90), <1>1, <2>3, <2>4, <2>5, <2>6, <2>9, OpenSame DEF IsUnderway
  <2>11. IsUnderway(f)
    BY SMTT(60), <1>2, <2>3, <2>4, <2>5, <2>6, <2>7, <2>10 DEF IsUnderway
  <2>12. /\ IsUnderway(parser') /\ Spare(parser') = Spare(f) /\ parser'.at = "item"
         /\ parser'.temp = f.temp /\ parser'.base = f.base
    BY <2>1, <2>11, ContinueUnderway
  <2>13. parser'.temp # parser'.base + 1
    BY <2>3, <2>4, <2>5, <2>6, <2>12
  <2> QED
    BY <1>1, <2>12, <2>13 DEF JPInv
<1> QED
  BY <1>6, <1>7

LEMMA PushStep ==
  ASSUME JPInv, Push
  PROVE  JPInv'
<1> DEFINE t == parser.text
           q == SkipBlanks(t, parser.p)
           f == [parser EXCEPT !.p = q + 1, !.base = parser.temp, !.temp = @ + 1,
                   !.words[parser.temp] = Element(parser.type, parser.base),
                   !.type = IF Peek(t, q) = 91 THEN "array" ELSE "object"]
<1>1. /\ IsUnderway(parser) /\ parser.at = "value"
      /\ Spare(parser) < 0 => parser.p < Len(t) /\ ByteAt(t, parser.p) \in {93, 125}
      /\ IsText(file) /\ IsText(file')
  BY DEF JPInv, Push
<1>2. IsText(t) /\ Len(t) \in Nat /\ parser.p \in 0..Len(t) /\ q \in parser.p..Len(t)
  BY <1>1, TextLength, BlanksAreSkipped DEF IsUnderway
<1>3. Peek(t, q) \in {91, 123} /\ Continue("item", f)
  BY DEF Push
<1>4. q < Len(t) /\ ByteAt(t, q) \in {91, 123}
  BY <1>2, <1>3 DEF Peek
<1>5. Spare(parser) >= 0 \/ q > parser.p
  BY SMTT(60), <1>1, <1>2, <1>4 DEF IsUnderway, Spare
<1>6. /\ parser.temp \in Nat /\ parser.base \in Nat /\ parser.base < parser.temp
      /\ parser.out \in Int /\ parser.out <= Len(t) /\ q \in Nat
      /\ DOMAIN parser = Fields /\ DOMAIN parser.words = 0..(Len(t) + 1)
  BY <1>1, <1>2 DEF IsUnderway
<1>7. parser.out - parser.temp - (Len(t) - q) >= 0
  <2>1. /\ Spare(parser) = parser.out - parser.temp - (Len(t) - parser.p)
        /\ Spare(parser) >= -1
        /\ parser.p \in Int /\ q \in Int /\ q >= parser.p /\ Len(t) \in Int
        /\ parser.out \in Int /\ parser.temp \in Int
    BY <1>1, <1>2 DEF Spare, IsUnderway
  <2> HIDE DEF q, t
  <2> QED
    BY <1>5, <2>1
<1> HIDE DEF q
<1>8. /\ DOMAIN f = Fields /\ f.text = t /\ f.p = q + 1 /\ f.temp = parser.temp + 1
      /\ f.base = parser.temp /\ f.out = parser.out
      /\ f.words = [parser.words EXCEPT ![parser.temp] = Element(parser.type, parser.base)]
  BY <1>6 DEF Fields
<1> HIDE DEF f
<1>9. Spare(f) >= 0
  BY <1>2, <1>6, <1>7, <1>8 DEF Spare
<1>10. parser.temp \in 0..(Len(t) + 1)
  BY <1>2, <1>6, <1>7
<1>11. f.words[parser.temp][3] = parser.base
  <2>1. f.words[parser.temp] = Element(parser.type, parser.base)
    BY <1>6, <1>8, <1>10
  <2> QED
    BY <2>1 DEF Element
<1>12. \A b \in 0..parser.base : f.words[b] = parser.words[b]
  BY <1>2, <1>6, <1>8, <1>10
<1>13. OpenFrom(f.words, f.base)
  <2>1. OpenFrom(parser.words, parser.base)
    BY <1>1 DEF IsUnderway
  <2>2. OpenFrom(f.words, parser.temp)
    BY SMTT(60), <1>6, <1>11, <1>12, <2>1, OpenMore
  <2> QED
    BY <1>8, <2>2
<1>14. IsUnderway(f)
  <2>1. DOMAIN f.words = 0..(Len(t) + 1)
    BY <1>6, <1>8
  <2>2. f.p \in 0..Len(t) /\ f.temp \in Nat /\ f.base \in 0..(f.temp - 1)
    BY <1>2, <1>4, <1>6, <1>8
  <2>3. Spare(f) >= -1
    <3>1. Spare(f) \in Int
      BY SMTT(60), <1>2, <1>6, <1>8 DEF Spare
    <3> QED
      BY <1>9, <3>1
  <2> QED
    BY <1>2, <1>6, <1>8, <1>13, <2>1, <2>2, <2>3 DEF IsUnderway
<1>15. IsUnderway(parser') /\ Spare(parser') = Spare(f) /\ parser'.at = "item"
  BY <1>3, <1>14, ContinueUnderway
<1> QED
  BY <1>1, <1>9, <1>15 DEF JPInv

LEMMA SpareAtKey ==
  ASSUME NEW spare, NEW out \in Int, NEW temp \in Int, NEW length \in Int, NEW p \in Int,
         NEW k \in Int, spare = out - temp - (length - p), spare + (k - p) >= 0
  PROVE  out - temp - (length - k) >= 0
OBVIOUS

LEMMA SpareAfterKey ==
  ASSUME NEW spare, NEW out \in Int, NEW temp \in Int, NEW length \in Int,
         NEW k \in Int, NEW colon \in Int, colon >= k + 2,
         out - temp - (length - k) >= 0,
         spare = out - (temp + 2) - (length - (colon + 1))
  PROVE  spare \in Int /\ spare >= 0
OBVIOUS

LEMMA ItemStep ==
  ASSUME JPInv, ItemStart
  PROVE  JPInv'
<1> DEFINE t == parser.text
           q == SkipBlanks(t, parser.p)
           c == Peek(t, q)
           first == parser.temp = parser.base + 1
           closing == IF parser.type = "object" THEN 125 ELSE 93
           k == IF ~first /\ c = 44 THEN SkipBlanks(t, q + 1) ELSE q
           key == ParseString(t, k)
           colon == SkipBlanks(key.text, key.p)
           e == [parser EXCEPT !.p = k]
           f == [parser EXCEPT
                   !.text = key.text, !.p = colon + 1, !.temp = @ + 2,
                   !.words = [i \in DOMAIN @ |->
                     IF key.ok /\ i - parser.temp \in {0, 1}
                     THEN Word(key.tag[i - parser.temp + 1]) ELSE @[i]]]
<1>1. /\ IsUnderway(parser) /\ parser.at = "item"
      /\ first => Spare(parser) >= 0
      /\ IsText(file) /\ IsText(file')
  BY DEF JPInv, ItemStart
<1>2. IsText(t) /\ Len(t) \in Nat /\ parser.p \in 0..Len(t) /\ q \in parser.p..Len(t)
  BY <1>1, TextLength, BlanksAreSkipped DEF IsUnderway
<1>3. /\ parser.temp \in Nat /\ parser.base \in Nat /\ parser.base < parser.temp
      /\ parser.out \in Int /\ parser.out <= Len(t)
      /\ DOMAIN parser = Fields /\ DOMAIN parser.words = 0..(Len(t) + 1)
      /\ OpenFrom(parser.words, parser.base)
  BY <1>1, <1>2 DEF IsUnderway
<1>4. \/ Reject
      \/ /\ first \/ c \in {closing, 44}
         /\ Continue("value", e)
      \/ /\ first \/ c \in {closing, 44}
         /\ Peek(t, k) = Quote /\ Peek(key.text, colon) = 58
         /\ \/ key.ok /\ Continue("value", f)
            \/ Continue("undefined", f)
  <2> HIDE DEF e, f, key, colon
  <2>1. (CASE ~first /\ c \notin {closing, 44} -> Reject
           [] (first \/ c \in {closing, 44})
                /\ (parser.type = "array" \/ Peek(t, k) = 125) -> Continue("value", e)
           [] OTHER ->
                IF Peek(t, k) # Quote \/ Peek(key.text, colon) # 58 THEN Reject
                ELSE Continue(IF key.ok THEN "value" ELSE "undefined", f))
    BY DEF ItemStart, e, f, key, colon
  <2> HIDE DEF k, c, closing, first, q
  <2> QED
    BY SMTT(60), <2>1
<1>5. /\ k \in q..Len(t)
      /\ c = 44 /\ ~first => k > q
      /\ ~(c = 44 /\ ~first) => k = q
  <2>1. CASE c = 44 /\ ~first
    <3>1. q + 1 \in 0..Len(t)
      BY <1>2, <2>1 DEF Peek
    <3>2. SkipBlanks(t, q + 1) \in (q + 1)..Len(t)
      <4> HIDE DEF q
      <4> QED
        BY <1>2, <3>1, BlanksAreSkipped
    <3> QED
      BY <1>2, <2>1, <3>2
  <2>2. CASE ~(c = 44 /\ ~first)
    BY <1>2, <2>2
  <2> QED
    BY <2>1, <2>2
<1>6. closing \in {93, 125}
  OBVIOUS
<1>7. /\ Spare(parser) = parser.out - parser.temp - (Len(t) - parser.p)
      /\ Spare(parser) \in Int /\ Spare(parser) >= -1
  BY SMTT(60), <1>1, <1>2, <1>3 DEF Spare, IsUnderway
<1> HIDE DEF q, closing, k
<1>8. ASSUME first \/ c = 44
      PROVE  parser.out - parser.temp - (Len(t) - k) >= 0
  <2>1. Spare(parser) + (k - parser.p) >= 0
    <3>1. parser.p \in Int /\ q \in Int /\ k \in Int /\ q >= parser.p /\ k >= q
      BY <1>2, <1>5
    <3>2. CASE first
      BY <1>1, <1>7, <3>1, <3>2
    <3>3. CASE ~first /\ c = 44
      BY <1>5, <1>7, <3>1, <3>3
    <3> QED
      BY <1>8, <3>2, <3>3
  <2> HIDE DEF t
  <2>2. /\ parser.out \in Int /\ parser.temp \in Int /\ Len(t) \in Int
        /\ parser.p \in Int /\ k \in Int
    BY SMTT(60), <1>2, <1>3, <1>5
  <2> QED
    BY <1>7, <2>1, <2>2, SpareAtKey
<1>9. CASE Reject
  BY <1>1, <1>9, RejectStep DEF ItemStart
<1>10. ASSUME first \/ c \in {closing, 44}, Continue("value", e)
       PROVE  JPInv'
  <2>1. /\ DOMAIN e = Fields /\ e.text = t /\ e.p = k /\ e.temp = parser.temp
        /\ e.base = parser.base /\ e.out = parser.out /\ e.words = parser.words
    BY <1>3 DEF Fields
  <2> HIDE DEF e
  <2>2. Spare(e) = parser.out - parser.temp - (Len(t) - k)
    BY <2>1 DEF Spare
  <2>3. Spare(e) >= -1 /\ (~(first \/ c = 44) \/ Spare(e) >= 0)
    <3>1. CASE first \/ c = 44
      <4>1. Spare(e) >= 0
        BY <1>8, <2>2, <3>1
      <4>2. Spare(e) \in Int
        BY SMTT(60), <1>2, <1>3, <1>5, <2>2
      <4> QED
        BY <4>1, <4>2
    <3>2. CASE ~(first \/ c = 44)
      <4>1. k \in Int /\ k >= parser.p /\ parser.p \in Int
        BY <1>2, <1>5
      <4> HIDE DEF t
      <4>2. /\ parser.out \in Int /\ parser.temp \in Int /\ Len(t) \in Int
        BY <1>2, <1>3
      <4> QED
        BY SMTT(60), <1>7, <2>2, <3>2, <4>1, <4>2
    <3> QED
      BY <3>1, <3>2
  <2>4. IsUnderway(e)
    <3>1. e.p \in 0..Len(t)
      BY <1>2, <1>5, <2>1
    <3> QED
      BY <1>2, <1>3, <2>1, <2>3, <3>1 DEF IsUnderway
  <2>5. /\ IsUnderway(parser') /\ Spare(parser') = Spare(e) /\ parser'.at = "value"
        /\ parser'.p = k /\ parser'.text = t
    BY <1>10, <2>1, <2>4, ContinueUnderway
  <2>6. ASSUME Spare(e) < 0 PROVE k < Len(t) /\ ByteAt(t, k) \in {93, 125}
    <3>1. ~(first \/ c = 44)
      <4>1. Spare(e) \in Int
        BY <1>2, <1>3, <1>5, <2>2
      <4> QED
        BY <2>3, <2>6, <4>1
    <3>2. k = q /\ c \in {93, 125}
      BY <1>5, <1>6, <1>10, <3>1
    <3> QED
      BY <1>2, <3>2 DEF Peek
  <2> QED
    BY <1>1, <2>5, <2>6 DEF JPInv
<1>11. ASSUME first \/ c \in {closing, 44}, Peek(t, k) = Quote, Peek(key.text, colon) = 58,
              key.ok, Continue("value", f)
       PROVE  JPInv'
  <2>1. k < Len(t) /\ k \in 0..Len(t)
    BY <1>2, <1>5, <1>11 DEF Peek, Quote
  <2>2. IsRead(t, k, key) /\ key.p >= k + 2
    BY <1>2, <1>11, <2>1, StringIsRead
  <2> HIDE DEF key
  <2>3. /\ IsText(key.text) /\ Len(key.text) = Len(t) /\ key.p \in 0..Len(t)
    BY <1>2, <2>1, <2>2 DEF IsRead
  <2>4. colon \in key.p..Len(t)
    BY <2>3, BlanksAreSkipped
  <2> HIDE DEF colon
  <2>5. colon < Len(t)
    BY <1>2, <1>11, <2>3, <2>4 DEF Peek
  <2>6. first \/ c = 44
    <3>1. SUFFICES ASSUME ~first, c = closing, c # 44 PROVE FALSE
      BY <1>11
    <3>2. k = q
      BY <1>5, <3>1
    <3> QED
      BY <1>6, <1>11, <3>1, <3>2 DEF Quote
  <2>7. /\ DOMAIN f = Fields /\ f.text = key.text /\ f.p = colon + 1
        /\ f.temp = parser.temp + 2 /\ f.base = parser.base /\ f.out = parser.out
        /\ f.words = [i \in DOMAIN parser.words |->
                        IF key.ok /\ i - parser.temp \in {0, 1}
                        THEN Word(key.tag[i - parser.temp + 1]) ELSE parser.words[i]]
    BY <1>3 DEF Fields
  <2> HIDE DEF f
  <2>8. Spare(f) \in Int /\ Spare(f) >= 0
    <3>1. Spare(f) = parser.out - (parser.temp + 2) - (Len(t) - (colon + 1))
      BY <2>3, <2>7 DEF Spare
    <3>2. colon \in Int /\ k \in Int /\ colon >= k + 2
      BY <1>2, <2>1, <2>2, <2>3, <2>4
    <3>3. parser.out - parser.temp - (Len(t) - k) >= 0
      BY <1>8, <2>6
    <3> HIDE DEF t
    <3>4. parser.out \in Int /\ parser.temp \in Int /\ Len(t) \in Int
      BY <1>2, <1>3
    <3> QED
      BY <3>1, <3>2, <3>3, <3>4, SpareAfterKey
  <2>9. \A b \in 0..parser.base : f.words[b] = parser.words[b]
    <3> SUFFICES ASSUME NEW b \in 0..parser.base PROVE f.words[b] = parser.words[b]
      OBVIOUS
    <3>1. b - parser.temp \notin {0, 1}
      BY <1>3
    <3>2. b \in DOMAIN parser.words
      <4>1. parser.base <= Len(t) + 1
        <5> HIDE DEF t
        <5>1. /\ parser.out \in Int /\ parser.temp \in Int /\ Len(t) \in Int
              /\ parser.base \in Int /\ parser.base < parser.temp
              /\ parser.p \in Int /\ parser.p <= Len(t) /\ parser.out <= Len(t)
          BY <1>2, <1>3
        <5> QED
          BY SMTT(60), <1>7, <5>1
      <4> QED
        BY <1>2, <1>3, <4>1
    <3> QED
      BY <2>7, <3>1, <3>2
  <2>10. OpenFrom(f.words, f.base)
    BY <1>3, <2>7, <2>9, OpenSame
  <2>11. IsUnderway(f)
    <3>1. colon \in Nat
      BY <1>2, <2>3, <2>4
    <3>2. f.p \in 0..Len(t)
      BY <1>2, <2>5, <2>7, <3>1
    <3>3. f.temp \in Nat /\ f.base \in 0..(f.temp - 1)
      BY <1>3, <2>7
    <3>4. Spare(f) >= -1
      BY <2>8
    <3>5. DOMAIN f.words = 0..(Len(t) + 1)
      BY <1>3, <2>7
    <3> QED
      BY <1>3, <2>3, <2>7, <2>10, <3>2, <3>3, <3>4, <3>5 DEF IsUnderway
  <2>12. IsUnderway(parser') /\ Spare(parser') = Spare(f) /\ parser'.at = "value"
    BY <1>11, <2>11, ContinueUnderway
  <2> QED
    BY <1>1, <2>8, <2>12 DEF JPInv
<1>12. ASSUME Continue("undefined", f) PROVE JPInv'
  <2>1. DOMAIN f = Fields
    BY <1>3 DEF Fields
  <2> HIDE DEF f
  <2>2. parser'.at = "undefined"
    BY <1>12, <2>1, ContinueIs
  <2> QED
    BY <1>1, <2>2 DEF JPInv
<1> HIDE DEF e, f, key, colon
<1> QED
  BY SMTT(60), <1>4, <1>9, <1>10, <1>11, <1>12

LEMMA UnexpectedStep ==
  ASSUME JPInv, Unexpected
  PROVE  JPInv'
BY RejectStep DEF Unexpected

\* What is installed takes no more words than the container has, and one.
LEMMA InstalledIs ==
  ASSUME NEW d, DOMAIN d = Fields, d.temp - d.base - 1 \in Nat, d.out \in Int,
         NEW e, e = Installed(d)
  PROVE  \E n \in 0..(d.temp - d.base - 1) :
           /\ DOMAIN e = Fields /\ e.text = d.text /\ e.out = d.out - n - 1
           /\ DOMAIN e.words = DOMAIN d.words
           /\ \A i \in DOMAIN d.words :
                i \notin (d.out - n - 1)..(d.out - 1) => e.words[i] = d.words[i]
<1> DEFINE
      old == [i \in 1..(d.temp - d.base - 1) |-> d.words[d.base + i]]
      length == IF d.type = "array" THEN Len(old) ELSE Len(old) \div 3
      records == SortSeq([i \in 1..length |-> SubSeq(old, 3 * i - 2, 3 * i)],
                         LAMBDA a, b : KeyLess(d.text, a, b))
      new == IF d.type = "array" THEN old
             ELSE [i \in 1..(3 * length) |->
                     LET r == (i - 1) \div 3 IN records[r + 1][i - 3 * r]]
      to == d.out - Len(new) - 1
<1>1. e = [d EXCEPT !.out = to,
             !.words = [i \in DOMAIN @ |->
               CASE i = to -> Word(length)
                 [] i # to /\ i \in to..(to + Len(new)) -> Moved(new[i - to], d.base + 1 - to)
                 [] OTHER -> @[i]]]
  BY DEF Installed
<1>2. Len(old) = d.temp - d.base - 1
  <2>1. old = [i \in 1..(d.temp - d.base - 1) |-> old[i]]
    OBVIOUS
  <2> HIDE DEF old
  <2> QED
    BY <2>1, TextOfLength
<1> HIDE DEF old
<1>3. (length \in Nat /\ 3 * length <= Len(old)) \/ d.type = "array"
  BY <1>2
<1> HIDE DEF length
<1>4. Len(new) \in 0..(d.temp - d.base - 1)
  <2>1. CASE d.type = "array"
    BY <1>2, <2>1
  <2>2. CASE d.type # "array"
    <3>1. length \in Nat /\ 3 * length <= d.temp - d.base - 1
      BY <1>2, <1>3, <2>2
    <3> HIDE DEF records
    <3>2. new = [i \in 1..(3 * length) |-> new[i]]
      BY <2>2
    <3> HIDE DEF new
    <3>3. Len(new) = 3 * length
      BY <3>1, <3>2, TextOfLength
    <3> QED
      BY <3>1, <3>3
  <2> QED
    BY <2>1, <2>2
<1> HIDE DEF new
<1> DEFINE words == [i \in DOMAIN d.words |->
               CASE i = to -> Word(length)
                 [] i # to /\ i \in to..(to + Len(new)) -> Moved(new[i - to], d.base + 1 - to)
                 [] OTHER -> d.words[i]]
<1>5. e = [d EXCEPT !.out = to, !.words = words]
  BY <1>1
<1>6. ASSUME NEW i \in DOMAIN d.words, i \notin (d.out - Len(new) - 1)..(d.out - 1)
      PROVE  words[i] = d.words[i]
  <2>1. i \notin to..(to + Len(new)) /\ i # to
    BY <1>4, <1>6
  <2> HIDE DEF to
  <2> QED
    BY <2>1
<1>7. DOMAIN words = DOMAIN d.words
  OBVIOUS
<1>8. to = d.out - Len(new) - 1
  OBVIOUS
<1> HIDE DEF words, to
<1>9. DOMAIN e = Fields /\ e.text = d.text /\ e.out = to /\ e.words = words
  BY <1>5 DEF Fields
<1> QED
  BY SMTT(60), <1>4, <1>6, <1>7, <1>8, <1>9

LEMMA SpareAfterPop ==
  ASSUME NEW out \in Int, NEW temp \in Int, NEW base \in Int, NEW length \in Int,
         NEW q \in Int, NEW n \in 0..(temp - base - 1), q < length,
         out - temp - (length - q) >= -1
  PROVE  /\ (out - n - 1) - (base + 1) - (length - (q + 1)) >= -1
         /\ out - n - 1 >= base
OBVIOUS

LEMMA PopStep ==
  ASSUME JPInv, Pop
  PROVE  JPInv'
<1> DEFINE t == parser.text
           q == SkipBlanks(t, parser.p)
           element == parser.words[parser.base]
           rest == IF parser.type = "array" THEN 0 ELSE (parser.temp - parser.base - 1) % 3
           z == Installed(parser)
           d == [z EXCEPT !.p = q + 1]
           g == [d EXCEPT !.temp = parser.base]
           e == WithElement(g, parser.type, element[3])
           f == [e EXCEPT !.base = element[3], !.type = element[2]]
<1>1. IsUnderway(parser) /\ parser.at = "value" /\ IsText(file) /\ IsText(file')
  BY DEF JPInv, Pop
<1>2. IsText(t) /\ Len(t) \in Nat /\ parser.p \in 0..Len(t) /\ q \in parser.p..Len(t)
  BY <1>1, TextLength, BlanksAreSkipped DEF IsUnderway
<1>3. /\ parser.temp \in Nat /\ parser.base \in Nat /\ parser.base < parser.temp
      /\ parser.out \in Int /\ parser.out <= Len(t)
      /\ DOMAIN parser = Fields /\ DOMAIN parser.words = 0..(Len(t) + 1)
      /\ OpenFrom(parser.words, parser.base)
  BY <1>1, <1>2 DEF IsUnderway
<1>4. \/ Continue("undefined", parser)
      \/ Finished(d)
      \/ element[3] # RootMarker /\ Continue("item", f)
  <2> HIDE DEF d, f
  <2>1. IF rest > 0 /\ parser.temp - parser.base > 3
        THEN Continue("undefined", parser)
        ELSE IF element[3] = RootMarker THEN Finished(d)
        ELSE Continue("item", f)
    BY DEF Pop, d, f
  <2> HIDE DEF rest, element
  <2> QED
    BY <2>1
<1>5. Peek(t, q) \in {93, 125}
  BY DEF Pop
<1>6. q < Len(t)
  BY <1>2, <1>5 DEF Peek
<1>7. /\ Spare(parser) = parser.out - parser.temp - (Len(t) - parser.p)
      /\ Spare(parser) >= -1
  BY <1>1 DEF Spare, IsUnderway
<1> HIDE DEF q
<1>8. parser.out - parser.temp - (Len(t) - q) >= -1
  <2> HIDE DEF t
  <2>1. /\ parser.out \in Int /\ parser.temp \in Int /\ Len(t) \in Int
        /\ parser.p \in Int /\ q \in Int /\ q >= parser.p
    BY <1>2, <1>3
  <2> QED
    BY <1>7, <2>1
<1>9. PICK n \in 0..(parser.temp - parser.base - 1) :
        /\ DOMAIN z = Fields /\ z.text = t /\ z.out = parser.out - n - 1
        /\ DOMAIN z.words = DOMAIN parser.words
        /\ \A i \in DOMAIN parser.words :
             i \notin (parser.out - n - 1)..(parser.out - 1) => z.words[i] = parser.words[i]
  <2>1. parser.temp - parser.base - 1 \in Nat
    BY <1>3
  <2> HIDE DEF z
  <2> QED
    BY <1>3, <2>1, InstalledIs DEF z
<1> HIDE DEF z
<1>10. /\ DOMAIN d = Fields /\ d.text = t /\ d.p = q + 1 /\ d.out = z.out /\ d.words = z.words
  BY <1>9 DEF Fields
<1> HIDE DEF d
<1>11. CASE Continue("undefined", parser)
  <2>1. parser'.at = "undefined"
    BY <1>3, <1>11, ContinueIs
  <2> QED
    BY <1>1, <2>1 DEF JPInv
<1>12. CASE Finished(d)
  <2>1. parser'.at \in {"accepted", "rejected"}
    BY <1>10, <1>12, FinishedIs
  <2> QED
    BY <1>1, <2>1 DEF JPInv
<1>13. ASSUME element[3] # RootMarker, Continue("item", f) PROVE JPInv'
  <2>1. /\ DOMAIN g = Fields /\ g.text = t /\ g.p = q + 1 /\ g.out = z.out
        /\ g.words = z.words /\ g.temp = parser.base
    BY <1>10 DEF Fields
  <2> HIDE DEF g
  <2>2. /\ DOMAIN e = Fields /\ e.text = g.text /\ e.p = g.p /\ e.temp = g.temp + 1
        /\ e.out = g.out
        /\ DOMAIN e.words = DOMAIN g.words
        /\ \A i \in DOMAIN g.words : i # g.temp => e.words[i] = g.words[i]
    <3> HIDE DEF element
    <3> QED
      BY <2>1, ElementWritten DEF e
  <2> HIDE DEF e
  <2>3. /\ DOMAIN f = Fields /\ f.text = t /\ f.p = q + 1 /\ f.temp = parser.base + 1
        /\ f.base = element[3] /\ f.out = parser.out - n - 1 /\ f.words = e.words
    BY <1>9, <2>1, <2>2 DEF Fields
  <2> HIDE DEF f
  <2>4. /\ (parser.out - n - 1) - (parser.base + 1) - (Len(t) - (q + 1)) >= -1
        /\ parser.out - n - 1 >= parser.base
    <3>1. /\ parser.out \in Int /\ parser.temp \in Int /\ Len(t) \in Int
          /\ parser.base \in Int /\ q \in Int
      BY <1>2, <1>3
    <3> HIDE DEF t
    <3> QED
      BY <1>6, <1>8, <1>9, <3>1, SpareAfterPop
  <2>5. \A b \in 0..(parser.base - 1) : f.words[b] = parser.words[b]
    <3> SUFFICES ASSUME NEW b \in 0..(parser.base - 1)
                 PROVE  f.words[b] = parser.words[b]
      OBVIOUS
    <3>1. parser.base <= Len(t) + 1
      BY SMTT(60), <1>2, <1>3, <1>9, <2>4
    <3>2. b \in DOMAIN parser.words /\ b # parser.base
      BY <1>2, <1>3, <3>1
    <3>3. b \notin (parser.out - n - 1)..(parser.out - 1)
      BY <1>3, <1>9, <2>4
    <3> QED
      BY <1>9, <2>1, <2>2, <2>3, <3>2, <3>3
  <2>6. element[3] \in 0..(parser.base - 1) /\ OpenFrom(f.words, element[3])
    BY <1>3, <1>13, <2>5, OpenLess
  <2> HIDE DEF element
  <2>7. Spare(f) >= -1
    BY <2>3, <2>4 DEF Spare
  <2>8. IsUnderway(f)
    <3>1. f.p \in 0..Len(t)
      BY <1>2, <1>6, <2>3
    <3>2. f.temp \in Nat /\ f.base \in 0..(f.temp - 1)
      BY SMTT(60), <1>3, <2>3, <2>6
    <3>3. f.out \in Int /\ f.out <= Len(t)
      BY SMTT(60), <1>2, <1>3, <1>9, <2>3
    <3>4. DOMAIN f.words = 0..(Len(t) + 1)
      BY <1>3, <1>9, <2>1, <2>2, <2>3
    <3> QED
      BY <1>2, <2>3, <2>6, <2>7, <3>1, <3>2, <3>3, <3>4 DEF IsUnderway
  <2>9. /\ IsUnderway(parser') /\ parser'.at = "item"
        /\ parser'.temp = f.temp /\ parser'.base = f.base
    BY <1>13, <2>8, ContinueUnderway
  <2>10. parser'.temp # parser'.base + 1
    BY <1>3, <2>3, <2>6, <2>9
  <2> QED
    BY <1>1, <2>9, <2>10 DEF JPInv
<1> HIDE DEF f
<1> QED
  BY <1>4, <1>11, <1>12, <1>13

LEMMA JPInitInv == JPInit => JPInv
<1> SUFFICES ASSUME JPInit PROVE JPInv
  OBVIOUS
<1>1. parser.at = "none" /\ file = <<>>
  BY DEF JPInit
<1>2. <<>> \in Seq({})
  OBVIOUS
<1> QED
  BY <1>1, <1>2 DEF JPInv, IsText

LEMMA ArriveStep ==
  ASSUME JPInv, NEW t \in Seq(0..255), Arrive(t)
  PROVE  JPInv'
<1>1. IsText(file')
  BY DEF Arrive, IsText
<1>2. parser'.at = "none"
  BY DEF Arrive, Waiting
<1> QED
  BY <1>1, <1>2 DEF JPInv

LEMMA JPInvariance == JPSpec => []JPInv
<1>1. JPInit => JPInv
  BY JPInitInv
<1>2. JPInv /\ [JPNext]_jpVars => JPInv'
  <2> SUFFICES ASSUME JPInv, [JPNext]_jpVars PROVE JPInv'
    OBVIOUS
  <2>1. CASE \E t \in Seq(0..255) : Arrive(t)
    BY <2>1, ArriveStep
  <2>2. CASE Begin
    BY <2>2, BeginStep
  <2>3. CASE ItemStart
    BY <2>3, ItemStep
  <2>4. CASE Scalar
    BY <2>4, ScalarStep
  <2>5. CASE Push
    BY <2>5, PushStep
  <2>6. CASE Pop
    BY <2>6, PopStep
  <2>7. CASE Unexpected
    BY <2>7, UnexpectedStep
  <2>8. CASE UNCHANGED jpVars
    BY <2>8 DEF jpVars, JPInv, IsUnderway, Spare
  <2> QED
    BY <2>1, <2>2, <2>3, <2>4, <2>5, <2>6, <2>7, <2>8 DEF JPNext, Parse
<1> QED
  BY <1>1, <1>2, PTL DEF JPSpec

\* What is open and what is finished never meet in the array of words while a
\* text is parsed, whatever bytes it has: sajson.h allocates two words more than
\* the text has bytes and tests for no end.
THEOREM WordsAreEnough == JPSpec => []WordsSuffice
<1>1. JPInv => WordsSuffice
  <2> SUFFICES ASSUME JPInv, parser.at \in {"item", "value"}
               PROVE  /\ parser.base < parser.temp
                      /\ parser.temp <= parser.out + IF parser.p = Len(parser.text) THEN 1 ELSE 0
    BY DEF WordsSuffice
  <2> DEFINE length == Len(parser.text)
  <2>1. IsUnderway(parser)
    BY DEF JPInv
  <2>2. length \in Nat
    BY <2>1, TextLength DEF IsUnderway
  <2>3. /\ parser.temp \in Nat /\ parser.base \in Int /\ parser.base < parser.temp
        /\ parser.out \in Int /\ parser.p \in Int /\ parser.p <= length
        /\ parser.out - parser.temp - (length - parser.p) >= -1
    BY <2>1, <2>2 DEF IsUnderway, Spare
  <2> HIDE DEF length
  <2>4. CASE parser.p = length
    BY <2>2, <2>3, <2>4 DEF length
  <2>5. CASE parser.p # length
    BY <2>2, <2>3, <2>5 DEF length
  <2> QED
    BY <2>4, <2>5
<1> QED
  BY <1>1, JPInvariance, PTL
=============================================================================
