------------------------- MODULE ClientFiles_proofs -------------------------
(***************************************************************************)
(* A client has or awaits the contents it was told of, and a reload of     *)
(* client_file forgets no file: for any files, contents, caches, changes   *)
(* and reloads.                                                            *)
(*                                                                         *)
(* NothingMissing is not inductive: a content saves what is awaited only   *)
(* if it has the hash the client was told last.  It has, because the       *)
(* answer to a request goes the same way as the announcement of a newer    *)
(* hash, and client_file answers only for the hash the file has            *)
(* (AnswersInv); which is the one it announced last (ToldInv).             *)
(***************************************************************************)
EXTENDS ClientFiles, FiniteSetTheorems, SequenceTheorems, TLAPS

\* The k-th packet of q announces f.
Says(q, f, k) == q[k] \in Announces /\ q[k].name = f

\* Before the i-th packet of q the client heard of f last in the j-th, or, if
\* j is 0, before all of q.
Hears(q, f, i, j) ==
  /\ j \in 0..(i - 1)
  /\ j = 0 \/ Says(q, f, j)
  /\ \A k \in (j + 1)..(i - 1) : ~Says(q, f, k)

\* The hash it heard, if h is what it had of q before.
HashAt(q, h, f, j) == IF j = 0 THEN h[f] ELSE q[j].hash

\* Contents come while the client still has their hash, but for files of u.
Answers(q, h, u) ==
  \A i \in 1..Len(q) : \A j \in 0..(i - 1) :
    q[i] \in FileContents /\ q[i].name \notin u /\ Hears(q, q[i].name, i, j) =>
      HashAt(q, h, q[i].name, j) = q[i].hash

\* When it has taken all of q, it has the hash x of f, or none.
Told(q, h, f, x) ==
  \A j \in 0..Len(q) :
    Hears(q, f, Len(q) + 1, j) => HashAt(q, h, f, j) \in {None, x}

PeerInv ==
  ~peer => /\ toClient = <<>> /\ toServer = <<>>
           /\ \A f \in Files : hashes[f] = None

ToldInv ==
  \A f \in Files \ unannounced :
    files[f] # None => Told(toClient, hashes, f, files[f])

RequestInv ==
  \A i \in 1..Len(toServer) :
    toServer[i] \in Requests => hashes[toServer[i].name] # None

AnswersInv == Answers(toClient, hashes, unannounced)

\* Files come one at a time.
KnownFiles == {f \in Files : files[f] # None}

FiniteInv == IsFiniteSet(KnownFiles)

SurviveInv ==
  /\ phase = "up" => \A f \in known : files[f] # None
  /\ phase = "told" => \A f \in known : stored[f] # None
  /\ phase = "init" => \A f \in known : files[f] # None \/ stored[f] # None
  /\ phase = "restore" =>
       /\ \A f \in known : files[f] # None \/ f \in restoring
       /\ \A f \in restoring : stored[f] # None

IInv ==
  /\ TypeOK /\ FiniteInv /\ SurviveInv
  /\ PeerInv /\ ToldInv /\ RequestInv /\ AnswersInv /\ NothingMissing

-----------------------------------------------------------------------------
(* What the client hears *)

Packet == Announces \cup FileContents \cup {Tell}

\* What is heard of f in t after g was heard in q after h, where t is the tail.
HeardBefore(q, h, t, g, f) ==
  \A i \in 1..Len(q) : \A j \in 0..(i - 1) : Hears(t, f, i, j) =>
    \E k \in 0..i : /\ Hears(q, f, i + 1, k)
                    /\ HashAt(q, h, f, k) = HashAt(t, g, f, j)

\* When the client takes a packet, it hears later what it would have heard.
LEMMA HearsOfTail ==
  ASSUME NEW q \in Seq(Packet), q # <<>>, NEW h, NEW g, NEW f,
         g[f] = IF Says(q, f, 1) THEN q[1].hash ELSE h[f]
  PROVE  HeardBefore(q, h, Tail(q), g, f)
<1> DEFINE t == Tail(q)
<1> SUFFICES ASSUME NEW i \in 1..Len(q), NEW j \in 0..(i - 1), Hears(t, f, i, j)
             PROVE  \E k \in 0..i : /\ Hears(q, f, i + 1, k)
                                    /\ HashAt(q, h, f, k) = HashAt(t, g, f, j)
  BY DEF HeardBefore
<1>1. /\ Len(q) \in Nat /\ Len(t) = Len(q) - 1
      /\ \A k \in 1..Len(t) : t[k] = q[k + 1]
  OBVIOUS
<1> HIDE DEF t
<1>2. /\ j \in 0..(i - 1) /\ (j = 0 \/ Says(t, f, j))
      /\ \A k \in (j + 1)..(i - 1) : ~Says(t, f, k)
  BY DEF Hears, t
<1>3. \A k \in 1..(i - 1) : Says(t, f, k) <=> Says(q, f, k + 1)
  BY <1>1 DEF Says
<1>4. \A k \in (j + 2)..i : ~Says(q, f, k)
  <2> SUFFICES ASSUME NEW k \in (j + 2)..i PROVE ~Says(q, f, k)
    OBVIOUS
  <2>1. k - 1 \in (j + 1)..(i - 1) /\ k - 1 \in 1..(i - 1) /\ (k - 1) + 1 = k
    BY <1>2
  <2> QED
    BY <1>2, <1>3, <2>1
<1>5. CASE j # 0
  <2>1. j \in 1..(i - 1) /\ j + 1 \in 0..i /\ j + 1 # 0
    BY <1>2, <1>5
  <2>2. Says(q, f, j + 1) /\ HashAt(q, h, f, j + 1) = HashAt(t, g, f, j)
    BY <1>1, <1>2, <1>3, <2>1 DEF HashAt
  <2>3. Hears(q, f, i + 1, j + 1)
    BY <1>4, <2>1, <2>2 DEF Hears
  <2> QED
    BY <2>1, <2>2, <2>3 DEF t
<1>6. CASE j = 0 /\ Says(q, f, 1)
  <2>1. Hears(q, f, i + 1, 1)
    BY <1>4, <1>6 DEF Hears
  <2>2. HashAt(q, h, f, 1) = HashAt(t, g, f, j)
    BY <1>6 DEF HashAt
  <2> QED
    BY <2>1, <2>2 DEF t
<1>7. CASE j = 0 /\ ~Says(q, f, 1)
  <2>1. \A k \in 1..i : ~Says(q, f, k)
    BY <1>4, <1>7
  <2>2. Hears(q, f, i + 1, 0)
    BY <2>1 DEF Hears
  <2>3. HashAt(q, h, f, 0) = HashAt(t, g, f, j)
    BY <1>7 DEF HashAt
  <2> QED
    BY <2>2, <2>3 DEF t
<1> QED
  BY <1>5, <1>6, <1>7

LEMMA AnswersOfTail ==
  ASSUME NEW q \in Seq(Packet), q # <<>>, NEW h, NEW g, NEW u, Answers(q, h, u),
         \A f \in Files : g[f] = IF Says(q, f, 1) THEN q[1].hash ELSE h[f]
  PROVE  Answers(Tail(q), g, u)
<1> DEFINE t == Tail(q)
<1>1. /\ Len(q) \in Nat /\ Len(t) = Len(q) - 1 /\ Len(t) \in Nat
      /\ \A k \in 1..Len(t) : t[k] = q[k + 1]
  OBVIOUS
<1> SUFFICES ASSUME NEW i \in 1..Len(t), NEW j \in 0..(i - 1),
                    t[i] \in FileContents, t[i].name \notin u,
                    Hears(t, t[i].name, i, j)
             PROVE  HashAt(t, g, t[i].name, j) = t[i].hash
  BY DEF Answers
<1>2. t[i].name \in Files
  BY DEF FileContents
<1>3. PICK k \in 0..i : /\ Hears(q, t[i].name, i + 1, k)
                        /\ HashAt(q, h, t[i].name, k) = HashAt(t, g, t[i].name, j)
  <2>1. PICK f \in Files : f = t[i].name
    BY <1>2
  <2>2. g[f] = IF Says(q, f, 1) THEN q[1].hash ELSE h[f]
    OBVIOUS
  <2>3. HeardBefore(q, h, t, g, f)
    BY <2>2, HearsOfTail
  <2>4. i \in 1..Len(q) /\ Hears(t, f, i, j)
    BY <1>1, <2>1
  <2> HIDE DEF t
  <2> QED
    BY <2>1, <2>3, <2>4 DEF HeardBefore
<1>4. i + 1 \in 1..Len(q) /\ k \in 0..((i + 1) - 1) /\ t[i] = q[i + 1]
  BY <1>1
<1> HIDE DEF t
<1> QED
  BY <1>3, <1>4 DEF Answers

LEMMA ToldByTail ==
  ASSUME NEW q \in Seq(Packet), q # <<>>, NEW h, NEW g, NEW f, NEW x,
         g[f] = IF Says(q, f, 1) THEN q[1].hash ELSE h[f], Told(q, h, f, x)
  PROVE  Told(Tail(q), g, f, x)
<1> DEFINE t == Tail(q)
<1>1. Len(q) \in Nat \ {0} /\ Len(t) = Len(q) - 1
  OBVIOUS
<1> SUFFICES ASSUME NEW j \in 0..Len(t), Hears(t, f, Len(t) + 1, j)
             PROVE  HashAt(t, g, f, j) \in {None, x}
  BY DEF Told
<1>2. Hears(t, f, Len(q), j) /\ Len(q) \in 1..Len(q)
  BY <1>1
<1>3. PICK k \in 0..Len(q) : /\ Hears(q, f, Len(q) + 1, k)
                             /\ HashAt(q, h, f, k) = HashAt(t, g, f, j)
  <2>1. HeardBefore(q, h, t, g, f)
    BY HearsOfTail
  <2>2. j \in 0..(Len(q) - 1)
    BY <1>1
  <2> HIDE DEF t
  <2> QED
    BY <1>2, <2>1, <2>2 DEF HeardBefore
<1> HIDE DEF t
<1> QED
  BY <1>3 DEF Told

\* What comes behind changes nothing for what is there.
HeardFirst(q, r, h, f) ==
  \A i \in 1..(Len(q) + 1) : \A j \in 0..(i - 1) : Hears(r, f, i, j) =>
    Hears(q, f, i, j) /\ HashAt(r, h, f, j) = HashAt(q, h, f, j)

LEMMA HearsOfJoin ==
  ASSUME NEW q \in Seq(Packet), NEW s \in Seq(Packet), NEW h, NEW f
  PROVE  HeardFirst(q, q \o s, h, f)
<1> DEFINE r == q \o s
<1> SUFFICES ASSUME NEW i \in 1..(Len(q) + 1), NEW j \in 0..(i - 1),
                    Hears(r, f, i, j)
             PROVE  Hears(q, f, i, j) /\ HashAt(r, h, f, j) = HashAt(q, h, f, j)
  BY DEF HeardFirst
<1>1. Len(q) \in Nat /\ \A k \in 1..Len(q) : r[k] = q[k]
  OBVIOUS
<1> HIDE DEF r
<1>2. \A k \in 1..Len(q) : Says(r, f, k) <=> Says(q, f, k)
  BY <1>1 DEF Says
<1>3. j \in 0..(i - 1) /\ (j = 0 \/ j \in 1..Len(q))
  BY <1>1 DEF Hears
<1>4. \A k \in (j + 1)..(i - 1) : k \in 1..Len(q)
  BY <1>1, <1>3
<1>5. /\ j = 0 \/ Says(r, f, j)
      /\ \A k \in (j + 1)..(i - 1) : ~Says(r, f, k)
  BY DEF Hears, r
<1>6. Hears(q, f, i, j)
  BY <1>2, <1>3, <1>4, <1>5 DEF Hears
<1> QED
  BY <1>1, <1>3, <1>6 DEF HashAt, r

LEMMA AnswersOfJoin ==
  ASSUME NEW q \in Seq(Packet), NEW s \in Seq(Packet), NEW h, NEW u,
         Answers(q, h, u), \A k \in 1..Len(s) : s[k] \notin FileContents
  PROVE  Answers(q \o s, h, u)
<1> DEFINE r == q \o s
<1>1. /\ Len(q) \in Nat /\ Len(s) \in Nat /\ Len(r) = Len(q) + Len(s)
      /\ \A k \in 1..Len(q) : r[k] = q[k]
      /\ \A k \in (Len(q) + 1)..Len(r) : r[k] = s[k - Len(q)]
  OBVIOUS
<1> SUFFICES ASSUME NEW i \in 1..Len(r), NEW j \in 0..(i - 1),
                    r[i] \in FileContents, r[i].name \notin u,
                    Hears(r, r[i].name, i, j)
             PROVE  HashAt(r, h, r[i].name, j) = r[i].hash
  BY DEF Answers
<1>2. i \in 1..Len(q)
  <2>1. ASSUME i > Len(q) PROVE FALSE
    <3>1. i - Len(q) \in 1..Len(s) /\ r[i] = s[i - Len(q)]
      BY <1>1, <2>1
    <3> QED
      BY <3>1
  <2> QED
    BY <1>1, <2>1
<1>3. r[i] = q[i] /\ i \in 1..(Len(q) + 1)
  BY <1>1, <1>2
<1>4. /\ Hears(q, q[i].name, i, j)
      /\ HashAt(r, h, q[i].name, j) = HashAt(q, h, q[i].name, j)
  <2>1. HeardFirst(q, r, h, q[i].name)
    BY HearsOfJoin
  <2> HIDE DEF r
  <2> QED
    BY <1>3, <2>1 DEF HeardFirst
<1> HIDE DEF r
<1> QED
  BY <1>2, <1>3, <1>4 DEF Answers

LEMMA ToldByJoin ==
  ASSUME NEW q \in Seq(Packet), NEW s \in Seq(Packet), NEW h, NEW f, NEW x,
         Told(q, h, f, x), \A k \in 1..Len(s) : Says(s, f, k) => s[k].hash = x
  PROVE  Told(q \o s, h, f, x)
<1> DEFINE r == q \o s
<1>1. /\ Len(q) \in Nat /\ Len(s) \in Nat /\ Len(r) = Len(q) + Len(s)
      /\ \A k \in (Len(q) + 1)..Len(r) : r[k] = s[k - Len(q)]
  OBVIOUS
<1> SUFFICES ASSUME NEW j \in 0..Len(r), Hears(r, f, Len(r) + 1, j)
             PROVE  HashAt(r, h, f, j) \in {None, x}
  BY DEF Told
<1>2. CASE j > Len(q)
  <2>1. j - Len(q) \in 1..Len(s) /\ r[j] = s[j - Len(q)] /\ j # 0
    BY <1>1, <1>2
  <2>2. Says(r, f, j)
    BY <2>1 DEF Hears
  <2>3. s[j - Len(q)].hash = x
    BY <2>1, <2>2 DEF Says
  <2> QED
    BY <2>1, <2>3 DEF HashAt
<1>3. CASE j <= Len(q)
  <2> HIDE DEF r
  <2>1. Hears(r, f, Len(q) + 1, j)
    BY <1>1, <1>3 DEF Hears
  <2>2. Hears(q, f, Len(q) + 1, j) /\ HashAt(r, h, f, j) = HashAt(q, h, f, j)
    <3>1. HeardFirst(q, r, h, f)
      BY HearsOfJoin DEF r
    <3> QED
      BY <1>1, <1>3, <2>1, <3>1 DEF HeardFirst
  <2>3. j \in 0..Len(q)
    BY <1>1, <1>3
  <2> QED
    BY <2>2, <2>3 DEF Told
<1> QED
  BY <1>1, <1>2, <1>3

\* An announcement is heard whatever was announced before.
LEMMA ToldByAnnounce ==
  ASSUME NEW q \in Seq(Packet), NEW h, NEW f \in Files, NEW x \in Contents
  PROVE  Told(Append(q, Announce(f, x)), h, f, x)
<1> DEFINE r == Append(q, Announce(f, x))
<1>1. Len(q) \in Nat /\ Len(r) = Len(q) + 1 /\ r[Len(r)] = Announce(f, x)
  OBVIOUS
<1>2. Says(r, f, Len(r)) /\ r[Len(r)].hash = x
  BY <1>1 DEF Says, Announce, Announces
<1> SUFFICES ASSUME NEW j \in 0..Len(r), Hears(r, f, Len(r) + 1, j)
             PROVE  HashAt(r, h, f, j) = x
  BY DEF Told
<1> HIDE DEF r
<1>3. j = Len(r)
  BY <1>1, <1>2 DEF Hears
<1> QED
  BY <1>1, <1>2, <1>3 DEF HashAt

\* client_file answers with the hash that the client heard last.
LEMMA AnswersOfContent ==
  ASSUME NEW q \in Seq(Packet), NEW h, NEW u, NEW p \in FileContents,
         Answers(q, h, u), None \notin Contents, h[p.name] # None,
         p.name \notin u => Told(q, h, p.name, p.hash)
  PROVE  Answers(Append(q, p), h, u)
<1> DEFINE s == <<p>>
           r == q \o s
<1>1. /\ Append(q, p) = r /\ s \in Seq(Packet) /\ Len(q) \in Nat
      /\ Len(r) = Len(q) + 1 /\ r[Len(r)] = p
      /\ \A k \in 1..Len(q) : r[k] = q[k]
  BY DEF Packet
<1> HIDE DEF s, r
<1> SUFFICES ASSUME NEW i \in 1..Len(r), NEW j \in 0..(i - 1),
                    r[i] \in FileContents, r[i].name \notin u,
                    Hears(r, r[i].name, i, j)
             PROVE  HashAt(r, h, r[i].name, j) = r[i].hash
  BY <1>1 DEF Answers
<1>2. i \in 1..(Len(q) + 1)
  BY <1>1
<1>3. /\ Hears(q, r[i].name, i, j)
      /\ HashAt(r, h, r[i].name, j) = HashAt(q, h, r[i].name, j)
  <2>1. HeardFirst(q, r, h, r[i].name)
    BY <1>1, HearsOfJoin DEF r
  <2> QED
    BY <1>2, <2>1 DEF HeardFirst
<1>4. CASE i \in 1..Len(q)
  BY <1>1, <1>3, <1>4 DEF Answers
<1>5. CASE i = Len(q) + 1
  <2>1. r[i] = p /\ j \in 0..Len(q)
    BY <1>1, <1>5
  <2>2. HashAt(q, h, p.name, j) \in {None, p.hash}
    BY <1>3, <1>5, <2>1 DEF Told
  <2>3. HashAt(q, h, p.name, j) # None
    <3>1. CASE j = 0
      BY <3>1 DEF HashAt
    <3>2. CASE j # 0
      <4>1. Says(q, p.name, j)
        BY <1>3, <2>1, <3>2 DEF Hears
      <4>2. q[j].hash \in Contents
        BY <4>1 DEF Says, Announces
      <4> QED
        BY <3>2, <4>2 DEF HashAt
    <3> QED
      BY <3>1, <3>2
  <2> QED
    BY <1>3, <2>1, <2>2, <2>3
<1> QED
  BY <1>1, <1>4, <1>5

-----------------------------------------------------------------------------
(* Steps *)

\* Every file is announced, with the hash it has.
AllAnnounced(order) ==
  [i \in DOMAIN order |-> Announce(order[i], files[order[i]])] \o <<Tell>>

LEMMA AnnouncedInOrder ==
  ASSUME TypeOK, FiniteInv, NEW order \in SetToSeqs(KnownFiles)
  PROVE  /\ AllAnnounced(order) \in Seq(Packet)
         /\ toClient \o [i \in DOMAIN order |-> Announce(order[i], files[order[i]])]
                     \o <<Tell>> = toClient \o AllAnnounced(order)
         /\ \A k \in 1..Len(AllAnnounced(order)) :
              LET p == AllAnnounced(order)[k]
              IN p = Tell \/ (p \in Announces /\ p.hash = files[p.name])
<1>1. Cardinality(KnownFiles) \in Nat
  BY FS_CardinalityType DEF FiniteInv
<1>2. order \in [1..Cardinality(KnownFiles) -> KnownFiles]
  BY DEF SetToSeqs
<1> DEFINE n == Cardinality(KnownFiles)
           s == [i \in DOMAIN order |-> Announce(order[i], files[order[i]])]
<1>3. \A i \in 1..n : /\ s[i] \in Announces
                      /\ s[i].hash = files[s[i].name]
  BY <1>2 DEF KnownFiles, Announce, Announces, TypeOK
<1>4. DOMAIN s = 1..n
  BY <1>2
<1> HIDE DEF s, n
<1>5. s \in Seq(Packet) /\ Len(s) = n
  <2>1. \A i \in 1..n : s[i] \in Packet
    BY <1>3 DEF Packet
  <2>2. n \in Nat /\ s = [i \in 1..n |-> s[i]]
    BY <1>1, <1>2 DEF n, s
  <2> QED
    BY <2>1, <2>2
<1>6. <<Tell>> \in Seq(Packet)
  BY DEF Packet
<1>7. /\ s \o <<Tell>> \in Seq(Packet) /\ Len(s \o <<Tell>>) = n + 1
      /\ \A k \in 1..n : (s \o <<Tell>>)[k] = s[k]
      /\ (s \o <<Tell>>)[n + 1] = Tell
  BY <1>1, <1>5, <1>6 DEF n
<1>8. AllAnnounced(order) = s \o <<Tell>> /\ n \in Nat
  BY <1>1 DEF AllAnnounced, s, n
<1> HIDE DEF AllAnnounced
<1>9. ASSUME NEW k \in 1..(n + 1)
      PROVE  LET p == (s \o <<Tell>>)[k]
             IN p = Tell \/ (p \in Announces /\ p.hash = files[p.name])
  <2>1. CASE k = n + 1
    BY <1>7, <2>1
  <2>2. CASE k # n + 1
    <3>1. k \in 1..n
      BY <1>8, <2>2
    <3> QED
      BY <1>3, <1>7, <3>1
  <2> QED
    BY <2>1, <2>2
<1>10. (toClient \o s) \o <<Tell>> = toClient \o (s \o <<Tell>>)
  <2>1. toClient \in Seq(Packet)
    BY DEF TypeOK, Packet
  <2> QED
    BY <1>5, <1>6, <2>1, ConcatAssociative
<1>11. toClient \o s \o <<Tell>> = toClient \o AllAnnounced(order)
  BY <1>8, <1>10
<1> QED
  BY <1>7, <1>8, <1>9, <1>11 DEF s

-----------------------------------------------------------------------------
(* What changes files, and what takes packets *)

FileAction ==
  \/ \E f \in Physical : AddFilePath(f)
  \/ \E f \in Files : FileModified(f) \/ RestoreFile(f)
  \/ \E f \in Files \ Physical, h \in Contents : UpdateFileContent(f, h)

\* f gets the content x: it is announced, or it is read unannounced.
Filed(f, x) ==
  /\ files' = [files EXCEPT ![f] = x]
  /\ known' = IF phase = "told" THEN known ELSE known \cup {f}
  /\ \/ /\ toClient' = IF peer THEN Append(toClient, Announce(f, x)) ELSE toClient
        /\ UNCHANGED unannounced
     \/ /\ unannounced' = IF peer /\ files[f] # x THEN unannounced \cup {f}
                                                  ELSE unannounced
        /\ UNCHANGED toClient

LEMMA FileActionsFile ==
  ASSUME FilesAssumption, ContentsAssumption, TypeOK, SurviveInv, FileAction
  PROVE  /\ UNCHANGED <<peer, toServer, clientVars, phase, stored, storedPaths>>
         /\ paths' \subseteq Physical
         /\ \/ UNCHANGED <<files, known, unannounced, toClient>>
            \/ \E f \in Files, x \in Contents : Filed(f, x)
         /\ \/ UNCHANGED restoring
            \/ \E f \in Files : /\ restoring' = restoring \ {f}
                                /\ stored[f] # None => files'[f] # None
<1> USE DEF fileVars, clientVars, storeVars
<1>1. ASSUME NEW f \in Physical, ReadFile(f), UNCHANGED toClient
      PROVE  /\ f \in Files /\ disk[f] \in Contents /\ Filed(f, disk[f])
             /\ paths' \subseteq Physical
  BY <1>1, FilesAssumption DEF ReadFile, Filed, TypeOK
<1>2. ASSUME NEW f \in Files, NEW x \in Contents, Update(f, x)
      PROVE  Filed(f, x) /\ paths' \subseteq Physical
  BY <1>2 DEF Update, Filed, TypeOK
<1>3. ASSUME NEW f \in Files, NEW x \in Contents, Filed(f, x)
      PROVE  files'[f] # None
  BY <1>3, ContentsAssumption DEF Filed, TypeOK
<1>4. paths \subseteq Physical
  BY DEF TypeOK
<1>5. CASE \E f \in Physical : AddFilePath(f)
  BY <1>1, <1>5 DEF AddFilePath
<1>6. CASE \E f \in Files : FileModified(f)
  <2>1. PICK f \in Files : FileModified(f)
    BY <1>6
  <2>2. f \in Physical /\ disk[f] \in Contents
    BY <2>1 DEF FileModified, TypeOK
  <2>3. Update(f, disk[f]) \/ UNCHANGED <<fileVars, toClient>>
    BY <2>1 DEF FileModified
  <2>4. UNCHANGED <<peer, toServer, clientVars, phase, storeVars>>
    BY <2>1 DEF FileModified
  <2> QED
    BY <1>2, <1>4, <2>2, <2>3, <2>4
<1>7. CASE \E f \in Files : RestoreFile(f)
  <2>1. PICK f \in Files : RestoreFile(f)
    BY <1>7
  <2>2. /\ restoring' = restoring \ {f}
        /\ UNCHANGED <<peer, toServer, clientVars, phase, stored, storedPaths>>
    BY <2>1 DEF RestoreFile
  <2>3. CASE f \in storedPaths
    <3>1. ReadFile(f) /\ f \in Physical /\ UNCHANGED toClient
      BY <2>1, <2>3 DEF RestoreFile, TypeOK
    <3> QED
      BY <1>1, <1>3, <2>2, <3>1
  <2>4. CASE files[f] = stored[f] /\ UNCHANGED <<fileVars, toClient>>
    BY <1>4, <2>2, <2>4
  <2>5. CASE files[f] # stored[f] /\ Update(f, stored[f]) /\ stored[f] # None
    <3>1. stored[f] \in Contents
      BY <2>5 DEF TypeOK
    <3> QED
      BY <1>2, <1>3, <2>2, <2>5, <3>1
  <2>6. stored[f] # None
    BY <2>1 DEF RestoreFile, SurviveInv
  <2> QED
    BY <2>1, <2>3, <2>4, <2>5, <2>6 DEF RestoreFile
<1>8. CASE \E f \in Files \ Physical, h \in Contents : UpdateFileContent(f, h)
  BY <1>2, <1>8 DEF UpdateFileContent
<1> QED
  BY <1>5, <1>6, <1>7, <1>8 DEF FileAction

\* The client takes a packet, and with an announcement its hash.
Taken ==
  /\ toClient # <<>> /\ toClient' = Tail(toClient)
  /\ \A f \in Files : hashes'[f] = IF Says(toClient, f, 1) THEN toClient[1].hash
                                                           ELSE hashes[f]
  /\ UNCHANGED <<files, unannounced, peer>>

LEMMA ClientTakes ==
  ASSUME TypeOK, Client
  PROVE  Taken
<1> USE DEF fileVars, clientVars
<1>1. toClient # <<>> => Head(toClient) = toClient[1]
  BY DEF TypeOK
<1>2. CASE HandleAnnounce
  <2>1. /\ toClient # <<>> /\ toClient' = Tail(toClient)
        /\ toClient[1] \in Announces
        /\ hashes' = [hashes EXCEPT ![toClient[1].name] = toClient[1].hash]
        /\ UNCHANGED <<files, unannounced, peer>>
    BY <1>1, <1>2 DEF HandleAnnounce
  <2>2. \A f \in Files : hashes'[f] = IF toClient[1].name = f THEN toClient[1].hash
                                                              ELSE hashes[f]
    BY <2>1 DEF TypeOK
  <2> QED
    BY <2>1, <2>2 DEF Taken, Says
<1>3. CASE HandleTell
  <2>1. toClient[1] \notin Announces
    BY <1>1, <1>3 DEF HandleTell, Tell, Announces
  <2> QED
    BY <1>3, <2>1 DEF HandleTell, Taken, Says
<1>4. CASE HandleContent
  <2>1. toClient[1] \notin Announces
    BY <1>1, <1>4 DEF HandleContent, FileContents, Announces
  <2> QED
    BY <1>4, <2>1 DEF HandleContent, Taken, Says
<1> QED
  BY <1>2, <1>3, <1>4 DEF Client

-----------------------------------------------------------------------------
(* Steps *)

\* Every variable keeps its type.
LEMMA TypeStep ==
  ASSUME BoundsAssumption, FilesAssumption, ContentsAssumption,
         TypeOK, FiniteInv, SurviveInv, [Next]_vars
  PROVE  TypeOK'
<1> USE DEF TypeOK, vars, diskVars, fileVars, watchVars, storeVars, clientVars
<1>1. CASE OnClientConnected
  <2>1. PICK order \in SetToSeqs(KnownFiles) :
          toClient' = toClient
            \o [i \in DOMAIN order |-> Announce(order[i], files[order[i]])]
            \o <<Tell>>
    BY <1>1 DEF OnClientConnected, KnownFiles
  <2> DEFINE s == AllAnnounced(order)
  <2>2. s \in Seq(Packet) /\ toClient' = toClient \o s
    BY <2>1, AnnouncedInOrder
  <2>4. toClient \in Seq(Packet)
    BY DEF Packet
  <2> HIDE DEF s
  <2>5. toClient' \in Seq(Announces \cup FileContents \cup {Tell})
    BY <2>2, <2>4 DEF Packet
  <2>3. toServer' \in Seq(Requests \cup {Connected, AllTransferred})
    BY <1>1 DEF OnClientConnected
  <2> QED
    BY <1>1, <2>3, <2>5 DEF OnClientConnected
<1>2. CASE OnRequestFile
  <2> DEFINE r == Head(toServer)
  <2>1. r \in Requests /\ toServer # <<>>
    BY <1>2 DEF OnRequestFile
  <2>2. Content(r.name, r.hash) \in FileContents
    BY <2>1 DEF Content, FileContents, Requests
  <2>3. toServer' \in Seq(Requests \cup {Connected, AllTransferred})
    BY <1>2 DEF OnRequestFile
  <2>4. toClient' \in Seq(Announces \cup FileContents \cup {Tell})
    <3>1. Append(toClient, Content(r.name, r.hash))
           \in Seq(Announces \cup FileContents \cup {Tell})
      BY <2>2
    <3> QED
      BY <1>2, <3>1 DEF OnRequestFile
  <2> QED
    BY <1>2, <2>3, <2>4 DEF OnRequestFile
<1>3. CASE OnAllFilesTransferred
  BY <1>3 DEF OnAllFilesTransferred
<1>4. CASE HandleAnnounce
  <2> DEFINE p == Head(toClient)
  <2>1. p \in Announces /\ toClient # <<>>
    BY <1>4 DEF HandleAnnounce
  <2>2. p.name \in Files /\ p.hash \in Contents
    BY <2>1 DEF Announces
  <2>3. Tail(toClient) \in Seq(Announces \cup FileContents \cup {Tell})
    BY <2>1
  <2>4. Append(toServer, Request(p.name, p.hash))
         \in Seq(Requests \cup {Connected, AllTransferred})
    BY <2>2 DEF Request, Requests
  <2>5. /\ hashes' \in [Files -> Contents \cup {None}]
        /\ shown' \in [Files -> Contents \cup {None}]
        /\ waiting' \subseteq Files /\ overtaken' \in BOOLEAN
    BY <1>4, <2>2 DEF HandleAnnounce
  <2>6. /\ toServer' \in Seq(Requests \cup {Connected, AllTransferred})
        /\ toClient' \in Seq(Announces \cup FileContents \cup {Tell})
    BY <1>4, <2>3, <2>4 DEF HandleAnnounce
  <2> QED
    BY <1>4, <2>5, <2>6 DEF HandleAnnounce
<1>5. CASE HandleTell
  <2>1. Tail(toClient) \in Seq(Announces \cup FileContents \cup {Tell})
    BY <1>5 DEF HandleTell
  <2>2. Append(toServer, AllTransferred)
         \in Seq(Requests \cup {Connected, AllTransferred})
    OBVIOUS
  <2>3. /\ toServer' \in Seq(Requests \cup {Connected, AllTransferred})
        /\ tell' \in BOOLEAN /\ transferred' \in BOOLEAN
    BY <1>5, <2>2 DEF HandleTell
  <2> QED
    BY <1>5, <2>1, <2>3 DEF HandleTell
<1>6. CASE HandleContent
  <2> DEFINE p == Head(toClient)
  <2>1. p \in FileContents /\ toClient # <<>>
    BY <1>6 DEF HandleContent
  <2>2. p.name \in Files /\ p.hash \in Contents
    BY <2>1 DEF FileContents
  <2>3. Tail(toClient) \in Seq(Announces \cup FileContents \cup {Tell})
    BY <2>1
  <2>4. Append(toServer, AllTransferred)
         \in Seq(Requests \cup {Connected, AllTransferred})
    OBVIOUS
  <2>5. /\ toServer' \in Seq(Requests \cup {Connected, AllTransferred})
        /\ tell' \in BOOLEAN /\ transferred' \in BOOLEAN
    BY <1>6, <2>4 DEF HandleContent, SaveContent
  <2>6. /\ waiting' \subseteq Files /\ cache' \subseteq Contents
        /\ shown' \in [Files -> Contents \cup {None}]
    BY SMTT(30), <1>6, <2>2 DEF HandleContent, SaveContent
  <2> QED
    BY <1>6, <2>3, <2>5, <2>6 DEF HandleContent
<1>7. CASE FileAction
  <2>1. /\ UNCHANGED <<peer, toServer, clientVars, phase, stored, storedPaths>>
        /\ paths' \subseteq Physical
        /\ \/ UNCHANGED <<files, known, unannounced, toClient>>
           \/ \E f \in Files, x \in Contents : Filed(f, x)
        /\ \/ UNCHANGED restoring
           \/ \E f \in Files : restoring' = restoring \ {f}
    BY <1>7, FileActionsFile
  <2>2. ASSUME NEW f \in Files, NEW x \in Contents, Filed(f, x)
        PROVE  /\ files' \in [Files -> Contents \cup {None}]
               /\ known' \subseteq Files /\ unannounced' \subseteq Files
               /\ toClient' \in Seq(Announces \cup FileContents \cup {Tell})
    <3>1. Announce(f, x) \in Announces
      BY DEF Announce, Announces
    <3>2. Append(toClient, Announce(f, x))
           \in Seq(Announces \cup FileContents \cup {Tell})
      BY <3>1
    <3> QED
      BY <2>2, <3>2 DEF Filed
  <2>3. /\ files' \in [Files -> Contents \cup {None}]
        /\ known' \subseteq Files /\ unannounced' \subseteq Files
        /\ toClient' \in Seq(Announces \cup FileContents \cup {Tell})
    BY <2>1, <2>2
  <2>4. restoring' \subseteq Files
    BY <2>1
  <2>5. /\ writes' \in 0..MaxWrites /\ adds' \in 0..MaxAdds
        /\ reloads' = reloads /\ disk' = disk /\ missed' \subseteq Physical
        /\ watched' = watched /\ modified' \subseteq watched
        /\ adding' \in Physical \cup {None}
    <3>1. CASE \E f \in Physical : AddFilePath(f)
      BY <3>1 DEF AddFilePath, ReadFile
    <3>2. CASE \E f \in Files : FileModified(f)
      BY <3>2 DEF FileModified
    <3>3. CASE \E f \in Files : RestoreFile(f)
      BY <3>3 DEF RestoreFile, ReadFile
    <3>4. CASE \E f \in Files \ Physical, h \in Contents : UpdateFileContent(f, h)
      BY <3>4 DEF UpdateFileContent
    <3> QED
      BY <1>7, <3>1, <3>2, <3>3, <3>4 DEF FileAction
  <2> QED
    BY <2>1, <2>3, <2>4, <2>5
<1>8. CASE AddWatch
  BY <1>8 DEF AddWatch
<1>9. CASE Restart
  BY <1>9 DEF Restart
<1>10. CASE OnContinue
  BY <1>10 DEF OnContinue
<1>11. CASE Restored
  BY <1>11 DEF Restored
<1>12. CASE Connect
  BY <1>12 DEF Connect
<1>13. CASE OnUnload
  BY <1>13 DEF OnUnload
<1>16. CASE CannotOpen
  BY <1>16 DEF CannotOpen
<1>14. ASSUME NEW f \in Physical, WriteDisk(f) PROVE TypeOK'
  BY <1>14 DEF WriteDisk
<1>15. CASE UNCHANGED vars
  BY <1>15
<1> QED
  BY <1>1, <1>2, <1>3, <1>4, <1>5, <1>6, <1>7, <1>8, <1>9, <1>10, <1>11, <1>12,
     <1>13, <1>14, <1>15, <1>16
     DEF Next, Serve, Client, FileAction

\* Files come one at a time.
LEMMA FiniteStep ==
  ASSUME BoundsAssumption, FilesAssumption, ContentsAssumption,
         TypeOK, SurviveInv, FiniteInv, [Next]_vars
  PROVE  FiniteInv'
<1> USE DEF FiniteInv, vars, diskVars, fileVars, watchVars, storeVars,
           clientVars
<1>1. CASE OnClientConnected
  BY <1>1 DEF OnClientConnected, KnownFiles
<1>2. CASE OnRequestFile
  BY <1>2 DEF OnRequestFile, KnownFiles
<1>3. CASE OnAllFilesTransferred
  BY <1>3 DEF OnAllFilesTransferred, KnownFiles
<1>4. CASE HandleAnnounce
  BY <1>4 DEF HandleAnnounce, KnownFiles
<1>5. CASE HandleTell
  BY <1>5 DEF HandleTell, KnownFiles
<1>6. CASE HandleContent
  BY <1>6 DEF HandleContent, KnownFiles
<1>7. CASE FileAction
  <2> HIDE DEF FileAction
  <2>1. /\ UNCHANGED <<peer, toServer, clientVars, phase, stored, storedPaths>>
        /\ \/ UNCHANGED <<files, known, unannounced, toClient>>
           \/ \E f \in Files, x \in Contents : Filed(f, x)
    BY <1>7, FileActionsFile
  <2>2. CASE UNCHANGED <<files, known, unannounced, toClient>>
    BY <2>1, <2>2 DEF KnownFiles
  <2>3. ASSUME NEW f \in Files, NEW x \in Contents, Filed(f, x) PROVE FiniteInv'
    <3>1. \A g \in Files \ {f} : files'[g] = files[g]
      BY <2>3 DEF Filed, TypeOK
    <3>2. KnownFiles' \subseteq KnownFiles \cup {f}
      BY <3>1 DEF KnownFiles
    <3>3. IsFiniteSet(KnownFiles \cup {f})
      BY FS_AddElement
    <3> QED
      BY <3>2, <3>3, FS_Subset
  <2> QED
    BY <2>1, <2>2, <2>3
<1>8. CASE AddWatch
  BY <1>8 DEF AddWatch, KnownFiles
<1>9. CASE Restart
  <2>1. KnownFiles' = {}
    BY <1>9 DEF Restart, KnownFiles
  <2> QED
    BY <2>1, FS_EmptySet
<1>10. CASE OnContinue
  BY <1>10 DEF OnContinue, KnownFiles
<1>11. CASE Restored
  BY <1>11 DEF Restored, KnownFiles
<1>12. CASE Connect
  BY <1>12 DEF Connect, KnownFiles
<1>13. CASE OnUnload
  BY <1>13 DEF OnUnload, KnownFiles
<1>16. CASE CannotOpen
  BY <1>16 DEF CannotOpen, KnownFiles
<1>14. ASSUME NEW f \in Physical, WriteDisk(f) PROVE FiniteInv'
  BY <1>14 DEF WriteDisk, KnownFiles
<1>15. CASE UNCHANGED vars
  BY <1>15 DEF KnownFiles
<1> QED
  BY <1>1, <1>2, <1>3, <1>4, <1>5, <1>6, <1>7, <1>8, <1>9, <1>10, <1>11, <1>12,
     <1>13, <1>14, <1>15, <1>16
     DEF Next, Serve, Client, FileAction

\* A file is in m_files, in what is stored, or still to be restored.
LEMMA SurviveStep ==
  ASSUME BoundsAssumption, FilesAssumption, ContentsAssumption,
         TypeOK, SurviveInv, [Next]_vars
  PROVE  SurviveInv'
<1> USE DEF SurviveInv, TypeOK, vars, diskVars, fileVars, watchVars, storeVars,
           clientVars
<1>1. CASE OnClientConnected
  BY <1>1 DEF OnClientConnected
<1>2. CASE OnRequestFile
  BY <1>2 DEF OnRequestFile
<1>3. CASE OnAllFilesTransferred
  BY <1>3 DEF OnAllFilesTransferred
<1>4. CASE HandleAnnounce
  BY <1>4 DEF HandleAnnounce
<1>5. CASE HandleTell
  BY <1>5 DEF HandleTell
<1>6. CASE HandleContent
  BY <1>6 DEF HandleContent
<1>7. CASE FileAction
  <2>1. /\ UNCHANGED <<phase, stored>>
        /\ \/ UNCHANGED <<files, known>>
           \/ \E f \in Files, x \in Contents : Filed(f, x)
        /\ \/ UNCHANGED restoring
           \/ \E f \in Files : /\ restoring' = restoring \ {f}
                               /\ stored[f] # None => files'[f] # None
    BY <1>7, FileActionsFile
  <2>2. \A f \in Files : files[f] # None => files'[f] # None
    BY <2>1, ContentsAssumption DEF Filed, TypeOK
  <2>3. \A f \in known' : f \in known \/ (phase # "told" /\ files'[f] # None)
    BY <2>1, ContentsAssumption DEF Filed, TypeOK
  <2>4. known \subseteq Files
    BY DEF TypeOK
  <2>5. phase = "restore" => \A f \in restoring : f \in restoring' \/ files'[f] # None
    BY <2>1 DEF SurviveInv
  <2>6. restoring' \subseteq restoring
    BY <2>1
  <2> HIDE DEF FileAction
  <2> QED
    BY <2>1, <2>2, <2>3, <2>4, <2>5, <2>6
<1>8. CASE AddWatch
  BY <1>8 DEF AddWatch
<1>9. CASE Restart
  BY <1>9 DEF Restart
<1>10. CASE OnContinue
  BY <1>10 DEF OnContinue
<1>11. CASE Restored
  BY <1>11 DEF Restored
<1>12. CASE Connect
  BY <1>12 DEF Connect
<1>13. CASE OnUnload
  BY <1>13 DEF OnUnload
<1>16. CASE CannotOpen
  BY <1>16 DEF CannotOpen
<1>14. ASSUME NEW f \in Physical, WriteDisk(f) PROVE SurviveInv'
  BY <1>14 DEF WriteDisk
<1>15. CASE UNCHANGED vars
  BY <1>15
<1> QED
  BY <1>1, <1>2, <1>3, <1>4, <1>5, <1>6, <1>7, <1>8, <1>9, <1>10, <1>11, <1>12,
     <1>13, <1>14, <1>15, <1>16
     DEF Next, Serve, Client, FileAction

\* Nothing is on its way to a client that has not come, or from it.
LEMMA PeerStep ==
  ASSUME BoundsAssumption, FilesAssumption, ContentsAssumption,
         TypeOK, SurviveInv, PeerInv, [Next]_vars
  PROVE  PeerInv'
<1> USE DEF PeerInv, vars, diskVars, fileVars, watchVars, storeVars, clientVars
<1>1. CASE OnClientConnected
  BY <1>1 DEF OnClientConnected
<1>2. CASE OnRequestFile
  BY <1>2 DEF OnRequestFile
<1>3. CASE OnAllFilesTransferred
  BY <1>3 DEF OnAllFilesTransferred
<1>4. CASE HandleAnnounce
  BY <1>4 DEF HandleAnnounce
<1>5. CASE HandleTell
  BY <1>5 DEF HandleTell
<1>6. CASE HandleContent
  BY <1>6 DEF HandleContent
<1>7. CASE FileAction
  <2> HIDE DEF FileAction
  <2>1. /\ UNCHANGED <<peer, toServer, clientVars, phase, stored, storedPaths>>
        /\ \/ UNCHANGED <<files, known, unannounced, toClient>>
           \/ \E f \in Files, x \in Contents : Filed(f, x)
    BY <1>7, FileActionsFile
  <2>2. CASE UNCHANGED <<files, known, unannounced, toClient>>
    BY <2>1, <2>2
  <2> QED
    BY <2>1 DEF Filed
<1>8. CASE AddWatch
  BY <1>8 DEF AddWatch
<1>9. CASE Restart
  BY <1>9 DEF Restart
<1>10. CASE OnContinue
  BY <1>10 DEF OnContinue
<1>11. CASE Restored
  BY <1>11 DEF Restored
<1>12. CASE Connect
  BY <1>12 DEF Connect
<1>13. CASE OnUnload
  BY <1>13 DEF OnUnload
<1>16. CASE CannotOpen
  BY <1>16 DEF CannotOpen
<1>14. ASSUME NEW f \in Physical, WriteDisk(f) PROVE PeerInv'
  BY <1>14 DEF WriteDisk
<1>15. CASE UNCHANGED vars
  BY <1>15
<1> QED
  BY <1>1, <1>2, <1>3, <1>4, <1>5, <1>6, <1>7, <1>8, <1>9, <1>10, <1>11, <1>12,
     <1>13, <1>14, <1>15, <1>16
     DEF Next, Serve, Client, FileAction

\* What the client heard last of a file is its hash.
LEMMA ToldStep ==
  ASSUME BoundsAssumption, FilesAssumption, ContentsAssumption,
         TypeOK, FiniteInv, SurviveInv, PeerInv,
         ToldInv, [Next]_vars
  PROVE  ToldInv'
<1> USE DEF ToldInv, vars, diskVars, fileVars, watchVars, storeVars, clientVars
<1>1. CASE OnClientConnected
  <2>1. PICK order \in SetToSeqs(KnownFiles) :
          toClient' = toClient \o AllAnnounced(order)
    BY <1>1, AnnouncedInOrder DEF OnClientConnected, KnownFiles
  <2> DEFINE s == AllAnnounced(order)
  <2>2. /\ s \in Seq(Packet) /\ toClient \in Seq(Packet)
        /\ \A f, k : k \in 1..Len(s) /\ Says(s, f, k) => s[k].hash = files[f]
    <3>1. s \in Seq(Packet) /\ toClient \in Seq(Packet)
      BY AnnouncedInOrder DEF TypeOK, Packet
    <3>2. \A k \in 1..Len(s) :
            s[k] = Tell \/ (s[k] \in Announces /\ s[k].hash = files[s[k].name])
      BY AnnouncedInOrder
    <3>3. Tell \notin Announces
      BY DEF Tell, Announces
    <3> HIDE DEF s
    <3> QED
      BY <3>1, <3>2, <3>3 DEF Says
  <2>3. UNCHANGED <<files, hashes, unannounced>>
    BY <1>1 DEF OnClientConnected
  <2> HIDE DEF s
  <2>4. ASSUME NEW f \in Files \ unannounced, files[f] # None
        PROVE  Told(toClient \o s, hashes, f, files[f])
    BY <2>2, <2>4, ToldByJoin
  <2> QED
    BY <2>1, <2>3, <2>4 DEF s
<1>2. CASE OnRequestFile
  <2>1. UNCHANGED <<files, hashes, unannounced>>
    BY <1>2 DEF OnRequestFile
  <2>2. CASE UNCHANGED toClient
    BY <2>1, <2>2
  <2>3. CASE toClient' # toClient
    <3>1. PICK p \in FileContents : toClient' = Append(toClient, p)
      BY <1>2, <2>3 DEF OnRequestFile, TypeOK, Content, FileContents, Requests
    <3> DEFINE s == <<p>>
    <3>2. /\ s \in Seq(Packet) /\ toClient \in Seq(Packet) /\ Len(s) = 1
          /\ toClient' = toClient \o s
      BY <3>1 DEF TypeOK, Packet
    <3>3. \A f, k : k \in 1..Len(s) => ~Says(s, f, k)
      BY <3>2 DEF Says, Announces, FileContents
    <3> HIDE DEF s
    <3>4. ASSUME NEW f \in Files \ unannounced, files[f] # None
          PROVE  Told(toClient \o s, hashes, f, files[f])
      BY <3>2, <3>3, <3>4, ToldByJoin
    <3> QED
      BY <2>1, <3>2, <3>4
  <2> QED
    BY <2>2, <2>3
<1>3. CASE OnAllFilesTransferred
  BY <1>3 DEF OnAllFilesTransferred
<1>4. CASE HandleAnnounce
  <2>1. Taken
    BY <1>4, ClientTakes DEF Client
  <2>2. toClient \in Seq(Packet)
    BY DEF TypeOK, Packet
  <2>3. ASSUME NEW f \in Files \ unannounced, files[f] # None
        PROVE  Told(Tail(toClient), hashes', f, files[f])
    <3>1. hashes'[f] = IF Says(toClient, f, 1) THEN toClient[1].hash ELSE hashes[f]
      BY <2>1 DEF Taken
    <3>2. toClient # <<>> /\ Told(toClient, hashes, f, files[f])
      BY <2>1, <2>3 DEF Taken
    <3> QED
      BY <2>2, <3>1, <3>2, ToldByTail
  <2> QED
    BY <2>1, <2>3 DEF Taken
<1>5. CASE HandleTell
  <2>1. Taken
    BY <1>5, ClientTakes DEF Client
  <2>2. toClient \in Seq(Packet)
    BY DEF TypeOK, Packet
  <2>3. ASSUME NEW f \in Files \ unannounced, files[f] # None
        PROVE  Told(Tail(toClient), hashes', f, files[f])
    <3>1. hashes'[f] = IF Says(toClient, f, 1) THEN toClient[1].hash ELSE hashes[f]
      BY <2>1 DEF Taken
    <3>2. toClient # <<>> /\ Told(toClient, hashes, f, files[f])
      BY <2>1, <2>3 DEF Taken
    <3> QED
      BY <2>2, <3>1, <3>2, ToldByTail
  <2> QED
    BY <2>1, <2>3 DEF Taken
<1>6. CASE HandleContent
  <2>1. Taken
    BY <1>6, ClientTakes DEF Client
  <2>2. toClient \in Seq(Packet)
    BY DEF TypeOK, Packet
  <2>3. ASSUME NEW f \in Files \ unannounced, files[f] # None
        PROVE  Told(Tail(toClient), hashes', f, files[f])
    <3>1. hashes'[f] = IF Says(toClient, f, 1) THEN toClient[1].hash ELSE hashes[f]
      BY <2>1 DEF Taken
    <3>2. toClient # <<>> /\ Told(toClient, hashes, f, files[f])
      BY <2>1, <2>3 DEF Taken
    <3> QED
      BY <2>2, <3>1, <3>2, ToldByTail
  <2> QED
    BY <2>1, <2>3 DEF Taken
<1>7. CASE FileAction
  <2> HIDE DEF FileAction
  <2>1. /\ UNCHANGED <<peer, toServer, clientVars, phase, stored, storedPaths>>
        /\ \/ UNCHANGED <<files, known, unannounced, toClient>>
           \/ \E f \in Files, x \in Contents : Filed(f, x)
    BY <1>7, FileActionsFile
  <2>2. CASE UNCHANGED <<files, known, unannounced, toClient>>
    BY <2>1, <2>2
  <2>3. ASSUME NEW f \in Files, NEW x \in Contents, Filed(f, x),
               NEW g \in Files \ unannounced', files'[g] # None
        PROVE  Told(toClient', hashes, g, files'[g])
    <3>1. /\ files'[f] = x /\ \A k \in Files \ {f} : files'[k] = files[k]
          /\ toClient \in Seq(Packet) /\ Announce(f, x) \in Packet
      BY <2>3 DEF Filed, TypeOK, Packet, Announce, Announces
    <3>2. g \notin unannounced
      BY <2>3 DEF Filed
    <3>3. CASE ~peer
      <4>1. toClient' = <<>> /\ hashes[g] = None
        BY <2>3, <3>3 DEF Filed, PeerInv
      <4> QED
        BY <4>1 DEF Told, HashAt
    <3>4. CASE peer /\ toClient' = Append(toClient, Announce(f, x))
      <4>1. CASE g = f
        BY <3>1, <3>4, <4>1, ToldByAnnounce
      <4>2. CASE g # f
        <5> DEFINE s == <<Announce(f, x)>>
        <5>1. /\ s \in Seq(Packet) /\ toClient' = toClient \o s /\ Len(s) = 1
              /\ s[1] = Announce(f, x)
          BY <3>1, <3>4
        <5>2. \A k \in 1..Len(s) : ~Says(s, g, k)
          BY <4>2, <5>1 DEF Says, Announce
        <5>3. Told(toClient, hashes, g, files[g])
          BY <2>3, <3>1, <3>2, <4>2
        <5> HIDE DEF s
        <5> QED
          BY <3>1, <4>2, <5>1, <5>2, <5>3, ToldByJoin
      <4> QED
        BY <4>1, <4>2
    <3>5. CASE peer /\ UNCHANGED toClient /\ (files[f] = x \/ g # f)
      BY <2>3, <3>1, <3>2, <3>5
    <3> QED
      BY <2>3, <3>3, <3>4, <3>5 DEF Filed
  <2>4. UNCHANGED hashes
    BY <2>1
  <2> QED
    BY <2>1, <2>2, <2>3, <2>4
<1>8. CASE AddWatch
  BY <1>8 DEF AddWatch
<1>9. CASE Restart
  BY <1>9 DEF Restart
<1>10. CASE OnContinue
  BY <1>10 DEF OnContinue
<1>11. CASE Restored
  BY <1>11 DEF Restored
<1>12. CASE Connect
  BY <1>12 DEF Connect
<1>13. CASE OnUnload
  BY <1>13 DEF OnUnload
<1>16. CASE CannotOpen
  BY <1>16 DEF CannotOpen
<1>14. ASSUME NEW f \in Physical, WriteDisk(f) PROVE ToldInv'
  BY <1>14 DEF WriteDisk
<1>15. CASE UNCHANGED vars
  BY <1>15
<1> QED
  BY <1>1, <1>2, <1>3, <1>4, <1>5, <1>6, <1>7, <1>8, <1>9, <1>10, <1>11, <1>12,
     <1>13, <1>14, <1>15, <1>16
     DEF Next, Serve, Client, FileAction

\* The client asks for files it heard of.
LEMMA RequestStep ==
  ASSUME BoundsAssumption, FilesAssumption, ContentsAssumption,
         TypeOK, SurviveInv, RequestInv, [Next]_vars
  PROVE  RequestInv'
<1> USE DEF RequestInv, TypeOK, vars, diskVars, fileVars, watchVars, storeVars,
           clientVars
<1>1. CASE OnClientConnected
  BY <1>1 DEF OnClientConnected
<1>2. CASE OnRequestFile
  BY <1>2 DEF OnRequestFile
<1>3. CASE OnAllFilesTransferred
  BY <1>3 DEF OnAllFilesTransferred
<1>4. CASE HandleAnnounce
  <2> DEFINE p == Head(toClient)
           r == Request(p.name, p.hash)
  <2>1. p \in Announces /\ p.name \in Files /\ p.hash # None
    BY <1>4, ContentsAssumption DEF HandleAnnounce, Announces
  <2>2. hashes' = [hashes EXCEPT ![p.name] = p.hash]
    BY <1>4 DEF HandleAnnounce
  <2>3. /\ \A f \in Files : hashes[f] # None => hashes'[f] # None
        /\ hashes'[p.name] # None
    BY <2>1, <2>2
  <2>4. toServer' = toServer \/ toServer' = Append(toServer, r)
    BY <1>4 DEF HandleAnnounce
  <2>5. r.name = p.name
    BY DEF Request
  <2>6. \A i \in 1..Len(toServer) : toServer[i] \in Requests => toServer[i].name \in Files
    BY DEF Requests
  <2> HIDE DEF p, r
  <2>7. CASE toServer' = Append(toServer, r)
    <3>1. ASSUME NEW i \in 1..Len(toServer'), toServer'[i] \in Requests
          PROVE  hashes'[toServer'[i].name] # None
      <4>1. toServer'[i] = r \/ (i \in 1..Len(toServer) /\ toServer'[i] = toServer[i])
        BY <2>7
      <4> QED
        BY <2>3, <2>5, <2>6, <3>1, <4>1
    <3> QED
      BY <3>1
  <2> QED
    BY <2>3, <2>4, <2>6, <2>7
<1>5. CASE HandleTell
  <2>1. toServer' = toServer \/ toServer' = Append(toServer, AllTransferred)
    BY <1>5 DEF HandleTell
  <2>2. AllTransferred \notin Requests
    BY DEF AllTransferred, Requests
  <2>3. UNCHANGED hashes
    BY <1>5 DEF HandleTell
  <2>4. ASSUME NEW i \in 1..Len(toServer'), toServer'[i] \in Requests
        PROVE  hashes[toServer'[i].name] # None
    <3>1. toServer'[i] = AllTransferred
          \/ (i \in 1..Len(toServer) /\ toServer'[i] = toServer[i])
      BY <2>1
    <3> QED
      BY <2>2, <2>4, <3>1
  <2> QED
    BY <2>3, <2>4
<1>6. CASE HandleContent
  <2>1. toServer' = toServer \/ toServer' = Append(toServer, AllTransferred)
    BY <1>6 DEF HandleContent, SaveContent
  <2>2. AllTransferred \notin Requests
    BY DEF AllTransferred, Requests
  <2>3. UNCHANGED hashes
    BY <1>6 DEF HandleContent, SaveContent
  <2>4. ASSUME NEW i \in 1..Len(toServer'), toServer'[i] \in Requests
        PROVE  hashes[toServer'[i].name] # None
    <3>1. toServer'[i] = AllTransferred
          \/ (i \in 1..Len(toServer) /\ toServer'[i] = toServer[i])
      BY <2>1
    <3> QED
      BY <2>2, <2>4, <3>1
  <2> QED
    BY <2>3, <2>4
<1>7. CASE FileAction
  BY <1>7, FileActionsFile
<1>8. CASE AddWatch
  BY <1>8 DEF AddWatch
<1>9. CASE Restart
  BY <1>9 DEF Restart
<1>10. CASE OnContinue
  BY <1>10 DEF OnContinue
<1>11. CASE Restored
  BY <1>11 DEF Restored
<1>12. CASE Connect
  <2>1. toServer' = Append(toServer, Connected)
    BY <1>12 DEF Connect
  <2>2. Connected \notin Requests
    BY DEF Connected, Requests
  <2>3. UNCHANGED hashes
    BY <1>12 DEF Connect
  <2>4. ASSUME NEW i \in 1..Len(toServer'), toServer'[i] \in Requests
        PROVE  hashes[toServer'[i].name] # None
    <3>1. toServer'[i] = Connected
          \/ (i \in 1..Len(toServer) /\ toServer'[i] = toServer[i])
      BY <2>1
    <3> QED
      BY <2>2, <2>4, <3>1
  <2> QED
    BY <2>3, <2>4
<1>13. CASE OnUnload
  BY <1>13 DEF OnUnload
<1>16. CASE CannotOpen
  BY <1>16 DEF CannotOpen
<1>14. ASSUME NEW f \in Physical, WriteDisk(f) PROVE RequestInv'
  BY <1>14 DEF WriteDisk
<1>15. CASE UNCHANGED vars
  BY <1>15
<1> QED
  BY <1>1, <1>2, <1>3, <1>4, <1>5, <1>6, <1>7, <1>8, <1>9, <1>10, <1>11, <1>12,
     <1>13, <1>14, <1>15, <1>16
     DEF Next, Serve, Client, FileAction

\* A content comes while the client has its hash.
LEMMA AnswersStep ==
  ASSUME BoundsAssumption, FilesAssumption, ContentsAssumption,
         TypeOK, FiniteInv, SurviveInv, PeerInv,
         ToldInv, RequestInv, AnswersInv, [Next]_vars
  PROVE  AnswersInv'
<1> USE DEF AnswersInv, vars, diskVars, fileVars, watchVars, storeVars,
           clientVars
<1>1. CASE OnClientConnected
  <2>1. PICK order \in SetToSeqs(KnownFiles) :
          toClient' = toClient \o AllAnnounced(order)
    BY <1>1, AnnouncedInOrder DEF OnClientConnected, KnownFiles
  <2> DEFINE s == AllAnnounced(order)
  <2>2. s \in Seq(Packet) /\ toClient \in Seq(Packet)
    BY AnnouncedInOrder DEF TypeOK, Packet
  <2>3. \A k \in 1..Len(s) : s[k] \notin FileContents
    <3>1. \A k \in 1..Len(s) : s[k] = Tell \/ s[k] \in Announces
      BY AnnouncedInOrder
    <3> QED
      BY <3>1 DEF Tell, Announces, FileContents
  <2>4. UNCHANGED <<hashes, unannounced>>
    BY <1>1 DEF OnClientConnected
  <2> HIDE DEF s
  <2>5. Answers(toClient \o s, hashes, unannounced)
    BY <2>2, <2>3, AnswersOfJoin
  <2> QED
    BY <2>1, <2>4, <2>5 DEF s
<1>2. CASE OnRequestFile
  <2> DEFINE r == Head(toServer)
           p == Content(r.name, r.hash)
  <2>1. r \in Requests /\ r = toServer[1] /\ 1 \in 1..Len(toServer)
    BY <1>2 DEF OnRequestFile, TypeOK
  <2>2. /\ p \in FileContents /\ p.name = r.name /\ p.hash = r.hash
        /\ r.name \in Files /\ r.hash \in Contents
    BY <2>1 DEF Content, FileContents, Requests
  <2>3. hashes[p.name] # None
    BY <2>1, <2>2 DEF RequestInv
  <2>4. UNCHANGED <<hashes, unannounced>>
    BY <1>2 DEF OnRequestFile
  <2>5. CASE UNCHANGED toClient
    BY <2>4, <2>5
  <2>6. CASE files[r.name] = r.hash /\ toClient' = Append(toClient, p)
    <3>1. p.name \notin unannounced => Told(toClient, hashes, p.name, p.hash)
      BY <2>2, <2>6, ContentsAssumption DEF ToldInv
    <3>2. toClient \in Seq(Packet)
      BY DEF TypeOK, Packet
    <3> HIDE DEF p, r
    <3>3. Answers(Append(toClient, p), hashes, unannounced)
      BY <2>2, <2>3, <3>1, <3>2, ContentsAssumption, AnswersOfContent
    <3> QED
      BY <2>4, <2>6, <3>3
  <2> QED
    BY <1>2, <2>5, <2>6 DEF OnRequestFile
<1>3. CASE OnAllFilesTransferred
  BY <1>3 DEF OnAllFilesTransferred
<1>4. CASE HandleAnnounce
  <2>1. Taken
    BY <1>4, ClientTakes DEF Client
  <2>2. /\ toClient \in Seq(Packet) /\ toClient # <<>>
        /\ \A f \in Files : hashes'[f] = IF Says(toClient, f, 1) THEN toClient[1].hash
                                                                 ELSE hashes[f]
    BY <2>1 DEF TypeOK, Packet, Taken
  <2>3. Answers(Tail(toClient), hashes', unannounced)
    BY <2>2, AnswersOfTail
  <2> QED
    BY <2>1, <2>3 DEF Taken
<1>5. CASE HandleTell
  <2>1. Taken
    BY <1>5, ClientTakes DEF Client
  <2>2. /\ toClient \in Seq(Packet) /\ toClient # <<>>
        /\ \A f \in Files : hashes'[f] = IF Says(toClient, f, 1) THEN toClient[1].hash
                                                                 ELSE hashes[f]
    BY <2>1 DEF TypeOK, Packet, Taken
  <2>3. Answers(Tail(toClient), hashes', unannounced)
    BY <2>2, AnswersOfTail
  <2> QED
    BY <2>1, <2>3 DEF Taken
<1>6. CASE HandleContent
  <2>1. Taken
    BY <1>6, ClientTakes DEF Client
  <2>2. /\ toClient \in Seq(Packet) /\ toClient # <<>>
        /\ \A f \in Files : hashes'[f] = IF Says(toClient, f, 1) THEN toClient[1].hash
                                                                 ELSE hashes[f]
    BY <2>1 DEF TypeOK, Packet, Taken
  <2>3. Answers(Tail(toClient), hashes', unannounced)
    BY <2>2, AnswersOfTail
  <2> QED
    BY <2>1, <2>3 DEF Taken
<1>7. CASE FileAction
  <2> HIDE DEF FileAction
  <2>1. /\ UNCHANGED <<peer, toServer, clientVars, phase, stored, storedPaths>>
        /\ \/ UNCHANGED <<files, known, unannounced, toClient>>
           \/ \E f \in Files, x \in Contents : Filed(f, x)
    BY <1>7, FileActionsFile
  <2>2. CASE UNCHANGED <<files, known, unannounced, toClient>>
    BY <2>1, <2>2
  <2>3. ASSUME NEW f \in Files, NEW x \in Contents, Filed(f, x) PROVE AnswersInv'
    <3>1. unannounced \subseteq unannounced'
      BY <2>3 DEF Filed
    <3>2. Answers(toClient', hashes, unannounced)
      <4>1. CASE UNCHANGED toClient
        BY <4>1
      <4>2. CASE toClient' = Append(toClient, Announce(f, x))
        <5> DEFINE s == <<Announce(f, x)>>
        <5>1. /\ s \in Seq(Packet) /\ toClient \in Seq(Packet)
              /\ toClient' = toClient \o s /\ Len(s) = 1 /\ s[1] \in Announces
          BY <4>2 DEF TypeOK, Packet, Announce, Announces
        <5>2. \A k \in 1..Len(s) : s[k] \notin FileContents
          BY <5>1 DEF Announces, FileContents
        <5> HIDE DEF s
        <5> QED
          BY <5>1, <5>2, AnswersOfJoin
      <4> QED
        BY <2>3, <4>1, <4>2 DEF Filed
    <3> QED
      BY <2>1, <3>1, <3>2 DEF Answers
  <2> QED
    BY <2>1, <2>2, <2>3
<1>8. CASE AddWatch
  BY <1>8 DEF AddWatch
<1>9. CASE Restart
  BY <1>9 DEF Restart
<1>10. CASE OnContinue
  BY <1>10 DEF OnContinue
<1>11. CASE Restored
  BY <1>11 DEF Restored
<1>12. CASE Connect
  BY <1>12 DEF Connect
<1>13. CASE OnUnload
  BY <1>13 DEF OnUnload
<1>16. CASE CannotOpen
  BY <1>16 DEF CannotOpen
<1>14. ASSUME NEW f \in Physical, WriteDisk(f) PROVE AnswersInv'
  BY <1>14 DEF WriteDisk
<1>15. CASE UNCHANGED vars
  BY <1>15
<1> QED
  BY <1>1, <1>2, <1>3, <1>4, <1>5, <1>6, <1>7, <1>8, <1>9, <1>10, <1>11, <1>12,
     <1>13, <1>14, <1>15, <1>16
     DEF Next, Serve, Client, FileAction

\* What is saved is what was awaited.
LEMMA MissingStep ==
  ASSUME BoundsAssumption, FilesAssumption, ContentsAssumption,
         TypeOK, SurviveInv, AnswersInv, NothingMissing, [Next]_vars
  PROVE  NothingMissing'
<1> USE DEF NothingMissing, vars, diskVars, fileVars, watchVars, storeVars,
           clientVars
<1>1. CASE OnClientConnected
  BY <1>1 DEF OnClientConnected
<1>2. CASE OnRequestFile
  BY <1>2 DEF OnRequestFile
<1>3. CASE OnAllFilesTransferred
  BY <1>3 DEF OnAllFilesTransferred
<1>4. CASE HandleAnnounce
  <2> DEFINE p == Head(toClient)
  <2>1. /\ hashes' = [hashes EXCEPT ![p.name] = p.hash]
        /\ waiting \subseteq waiting' /\ UNCHANGED <<cache, unannounced>>
        /\ p.hash \in cache \/ p.name \in waiting'
    BY <1>4 DEF HandleAnnounce
  <2>2. \A f \in Files : hashes'[f] = IF f = p.name THEN p.hash ELSE hashes[f]
    BY <2>1 DEF TypeOK
  <2> HIDE DEF p
  <2> QED
    BY <2>1, <2>2
<1>5. CASE HandleTell
  BY <1>5 DEF HandleTell
<1>6. CASE HandleContent
  <2> DEFINE p == Head(toClient)
  <2>1. /\ toClient # <<>> /\ p = toClient[1] /\ p \in FileContents
        /\ p.name \in Files /\ 1 \in 1..Len(toClient)
    BY <1>6 DEF HandleContent, TypeOK, FileContents
  <2>2. UNCHANGED <<hashes, unannounced>>
    BY <1>6 DEF HandleContent
  <2>3. CASE p.name \in waiting
    <3>1. waiting' = waiting \ {p.name} /\ cache' = cache \cup {p.hash}
      BY <1>6, <2>3 DEF HandleContent, SaveContent
    <3>2. Hears(toClient, p.name, 1, 0)
      BY DEF Hears
    <3>3. p.name \notin unannounced => hashes[p.name] = p.hash
      BY <2>1, <3>2 DEF AnswersInv, Answers, HashAt
    <3> HIDE DEF p
    <3> QED
      BY <2>1, <2>2, <3>1, <3>3
  <2>4. CASE p.name \notin waiting
    BY <1>6, <2>4 DEF HandleContent
  <2> QED
    BY <2>3, <2>4
<1>7. CASE FileAction
  <2> HIDE DEF FileAction
  <2>1. /\ UNCHANGED <<peer, toServer, clientVars, phase, stored, storedPaths>>
        /\ \/ UNCHANGED <<files, known, unannounced, toClient>>
           \/ \E f \in Files, x \in Contents : Filed(f, x)
    BY <1>7, FileActionsFile
  <2>2. CASE UNCHANGED <<files, known, unannounced, toClient>>
    BY <2>1, <2>2
  <2>3. unannounced \subseteq unannounced'
    BY <2>1 DEF Filed
  <2> QED
    BY <2>1, <2>3
<1>8. CASE AddWatch
  BY <1>8 DEF AddWatch
<1>9. CASE Restart
  BY <1>9 DEF Restart
<1>10. CASE OnContinue
  BY <1>10 DEF OnContinue
<1>11. CASE Restored
  BY <1>11 DEF Restored
<1>12. CASE Connect
  BY <1>12 DEF Connect
<1>13. CASE OnUnload
  BY <1>13 DEF OnUnload
<1>16. CASE CannotOpen
  BY <1>16 DEF CannotOpen
<1>14. ASSUME NEW f \in Physical, WriteDisk(f) PROVE NothingMissing'
  BY <1>14 DEF WriteDisk
<1>15. CASE UNCHANGED vars
  BY <1>15
<1> QED
  BY <1>1, <1>2, <1>3, <1>4, <1>5, <1>6, <1>7, <1>8, <1>9, <1>10, <1>11, <1>12,
     <1>13, <1>14, <1>15, <1>16
     DEF Next, Serve, Client, FileAction

-----------------------------------------------------------------------------
(* The theorems *)

LEMMA Invariance == Spec => []IInv
<1> USE BoundsAssumption, FilesAssumption, ContentsAssumption
<1>1. Init => IInv
  <2> SUFFICES ASSUME Init PROVE IInv
    OBVIOUS
  <2> USE DEF Init
  <2>1. TypeOK
    <3>1. /\ files \in [Files -> Contents \cup {None}]
          /\ stored \in [Files -> Contents \cup {None}]
          /\ hashes \in [Files -> Contents \cup {None}]
          /\ shown \in [Files -> Contents \cup {None}]
      OBVIOUS
    <3>2. disk \in [Physical -> Contents] /\ cache \in SUBSET Contents
      OBVIOUS
    <3>3. /\ toServer \in Seq(Requests \cup {Connected, AllTransferred})
          /\ toClient \in Seq(Announces \cup FileContents \cup {Tell})
      OBVIOUS
    <3>4. /\ writes \in 0..MaxWrites /\ adds \in 0..MaxAdds
          /\ reloads \in 0..MaxReloads /\ phase \in {"up", "told", "init", "restore", "ended"}
      OBVIOUS
    <3>5. /\ peer \in BOOLEAN /\ tell \in BOOLEAN /\ asked \in BOOLEAN
          /\ transferred \in BOOLEAN /\ overtaken \in BOOLEAN
      OBVIOUS
    <3>6. /\ paths \in SUBSET Physical /\ watched \in SUBSET Physical
          /\ modified \in SUBSET watched /\ adding \in Physical \cup {None}
          /\ storedPaths \in SUBSET Physical /\ restoring \in SUBSET Files
          /\ waiting \in SUBSET Files /\ known \in SUBSET Files
          /\ unannounced \in SUBSET Files /\ missed \in SUBSET Physical
      OBVIOUS
    <3> HIDE DEF Init
    <3> QED
      BY <3>1, <3>2, <3>3, <3>4, <3>5, <3>6 DEF TypeOK
  <2>2. FiniteInv
    <3>1. KnownFiles = {}
      BY DEF KnownFiles
    <3> QED
      BY <3>1, FS_EmptySet DEF FiniteInv
  <2>3. SurviveInv /\ PeerInv /\ ToldInv /\ RequestInv /\ NothingMissing
    BY DEF SurviveInv, PeerInv, ToldInv, RequestInv, NothingMissing
  <2>4. AnswersInv
    BY DEF AnswersInv, Answers
  <2> QED
    BY <2>1, <2>2, <2>3, <2>4 DEF IInv
<1>2. IInv /\ [Next]_vars => IInv'
  BY TypeStep, FiniteStep, SurviveStep, PeerStep, ToldStep, RequestStep,
     AnswersStep, MissingStep DEF IInv
<1> QED
  BY <1>1, <1>2, PTL DEF Spec

\* Every variable keeps its type.
THEOREM TypeCorrect == Spec => []TypeOK
<1>1. IInv => TypeOK
  BY DEF IInv
<1> QED
  BY <1>1, Invariance, PTL

\* The content of a file that the client was told of is in its cache or
\* awaited: an answer that was overtaken by a newer announcement is never taken
\* for the newer content.
THEOREM ContentsAreThere == Spec => []NothingMissing
<1>1. IInv => NothingMissing
  BY DEF IInv
<1> QED
  BY <1>1, Invariance, PTL

\* A reload of client_file forgets no file but one added after core:unload.
THEOREM FilesAreKept == Spec => []FilesSurvive
<1>1. IInv => FilesSurvive
  BY DEF IInv, SurviveInv, FilesSurvive
<1> QED
  BY <1>1, Invariance, PTL
=============================================================================
