----------------------- MODULE ServerModules_proofs -----------------------
(***************************************************************************)
(* Modules keep their state over reloads, and the server does not die of   *)
(* requests that meet, for any number of modules, loads, events and        *)
(* requests, whatever events, requests and failed builds come in between.  *)
(*                                                                         *)
(* StateSurvives is not inductive: that tmp_store_data() overwrites what   *)
(* was stored, and that the container goes, is harmless only because a     *)
(* module has all its state itself except between its init() and its       *)
(* core:continue (KeptInv), and no module is erased that has not handled   *)
(* core:unload in the same round (UnloadInv).                              *)
(*                                                                         *)
(* Subscriptions follow m_modules because sub_event() is called once, by   *)
(* the container that is being initialised (SubsInv).  The shutdown's      *)
(* order rests on m_module_load_order alone: whoever is loaded last is     *)
(* last in it, however often it is there (NewerInv), and until the         *)
(* shutdown nobody who is in m_modules was asked to stop (RunInv).         *)
(***************************************************************************)
EXTENDS ServerModules, FiniteSetTheorems, WellFoundedInduction,
        NaturalsInduction, TLAPS

TypeInv ==
  /\ mainPc \in {"boot", "loop", "send", "erase", "request", "join", "load",
                 "init", "continue", "check", "stop", "wait", "crashed", "done"}
  /\ toSend \in Seq(Modules) /\ toUnload \in Seq(Modules)
  /\ toLoad \in Seq(Modules) /\ reloads \in Seq(Modules)
  /\ booted \in BOOLEAN
  /\ container \in [Modules -> 0..MaxLoads] /\ built \in [Modules -> 0..MaxLoads]
  /\ DOMAIN state = Containers /\ state = [c \in Containers |-> state[c]]
  /\ DOMAIN data = Containers /\ data = [c \in Containers |-> data[c]]
  /\ DOMAIN tmpData = Modules /\ tmpData = [m \in Modules |-> tmpData[m]]
  /\ DOMAIN kept = Modules /\ kept = [m \in Modules |-> kept[m]]
  /\ unloads \subseteq Modules /\ IsFiniteSet(unloads)
  /\ told \subseteq Containers

\* Containers are numbered as they are made.
NumberInv ==
  /\ \A m \in Modules : container[m] <= built[m]
  /\ \A c \in told : c[2] <= built[c[1]]

\* Who is being loaded: a container that has not handled core:unload, or
\* none because the build failed.
LoadInv ==
  /\ mainPc \in {"init", "continue"} =>
       /\ toLoad # <<>>
       /\ Loaded(Head(toLoad)) => Current(Head(toLoad)) \notin told
  /\ mainPc = "init" => Loaded(Head(toLoad))
  /\ mainPc = "continue" => booted /\ (Loaded(Head(toLoad)) \/ buildFailed)
  /\ mainPc \notin {"boot", "init"} => booted
  /\ mainPc = "boot" => ~booted
  /\ ~booted => \A m \in Modules : tmpData[m] = {}

\* Whoever is unloaded in this round handles core:unload before any is
\* erased.
UnloadInv ==
  /\ mainPc \in {"send", "erase", "request", "join"} =>
       \A m \in ToSet(toUnload) :
         \/ mainPc = "send" /\ m \in ToSet(toSend)
         \/ Loaded(m) => Current(m) \in told
  /\ mainPc = "send" /\ missing = {} => \A m \in ToSet(toSend) : Loaded(m)
  /\ mainPc \in {"request", "join"} => toUnload # <<>>

\* A container that handles events is the current one, or was told.
ReadyInv ==
  \A c \in Containers :
    state[c] = "ready" => (Loaded(c[1]) /\ c = Current(c[1])) \/ c \in told

\* The module that has its state in tmpData only.
Restoring(m) ==
  mainPc \in {"init", "continue"} /\ booted /\ m = Head(toLoad)

KeptInv ==
  \A m \in Modules :
    /\ ~Loaded(m) => kept[m] \subseteq tmpData[m]
    /\ Loaded(m) => /\ kept[m] \subseteq tmpData[m] \cup data[Current(m)]
                    /\ Restoring(m) \/ kept[m] \subseteq data[Current(m)]
                    /\ Current(m) \in told => kept[m] \subseteq tmpData[m]

IInv ==
  /\ TypeInv /\ NumberInv /\ LoadInv /\ UnloadInv /\ ReadyInv /\ KeptInv
  /\ CrashesHaveACause

\* The rest of the types.
SeqInv ==
  /\ subs \in Seq(Containers) /\ loadOrder \in Seq(Modules)
  /\ toStop \in Seq(Containers)
  /\ newer \subseteq Modules \X Modules

\* Subscribers are current containers; none is subscribed twice, and a module
\* that is being initialised is not subscribed yet.
SubsInv ==
  /\ \A i \in 1..Len(subs) :
       /\ Loaded(subs[i][1]) /\ subs[i] = Current(subs[i][1])
       /\ mainPc = "init" => subs[i][1] # Head(toLoad)
  /\ \A i, j \in 1..Len(subs) : subs[i] = subs[j] => i = j

\* Until the shutdown, whoever is in m_modules runs, except while it is
\* initialised; a container that is unloaded is out of m_modules first.
RunInv ==
  /\ mainPc \notin {"stop", "wait", "crashed", "done"} =>
       \A m \in Modules :
         Loaded(m) => \/ state[Current(m)] = "ready"
                      \/ mainPc = "init" /\ m = Head(toLoad)
  /\ mainPc \in {"request", "join"} =>
       toStop # <<>> /\ Head(toStop) # Current(Head(toStop)[1])

\* Wherever an older module is in the load order, a newer one comes later.
NewerInv ==
  \A p \in newer : \A i \in 1..Len(loadOrder) :
    loadOrder[i] = p[2] =>
      \E j \in 1..Len(loadOrder) : i < j /\ loadOrder[j] = p[1]

\* A newer module was asked to stop, or will be before the older one.
StopInv ==
  mainPc = "stop" =>
    \A p \in newer : \A k \in 1..Len(toStop) :
      Loaded(p[1]) /\ toStop[k] = Current(p[2]) =>
        \/ AskedToStop(p[1])
        \/ \E l \in 1..Len(toStop) : l < k /\ toStop[l] = Current(p[1])

OrderInv ==
  /\ SeqInv /\ SubsInv /\ RunInv /\ NewerInv /\ StopInv /\ StopsNewestFirst

-----------------------------------------------------------------------------
(* Sequences *)

LEMMA TailsElements ==
  ASSUME NEW S, NEW s \in Seq(S), s # <<>>
  PROVE  /\ Tail(s) \in Seq(S) /\ Head(s) \in S
         /\ ToSet(Tail(s)) \subseteq ToSet(s)
         /\ ToSet(s) = ToSet(Tail(s)) \cup {Head(s)}
<1> DEFINE t == Tail(s)
<1>1. t \in Seq(S) /\ Head(s) \in S /\ Len(s) \in Nat \ {0} /\ Head(s) = s[1]
  OBVIOUS
<1>2. Len(t) = Len(s) - 1 /\ \A i \in 1..Len(t) : t[i] = s[i + 1]
  OBVIOUS
<1>3. DOMAIN t = 1..Len(t) /\ DOMAIN s = 1..Len(s)
  BY <1>1
<1> HIDE DEF t
<1>4. ASSUME NEW x \in ToSet(t) PROVE x \in ToSet(s)
  <2>1. PICK i \in 1..Len(t) : x = t[i]
    BY <1>3 DEF ToSet
  <2>2. i + 1 \in 1..Len(s) /\ x = s[i + 1]
    BY <1>1, <1>2, <2>1
  <2> QED
    BY <1>3, <2>2 DEF ToSet
<1>5. Head(s) \in ToSet(s)
  BY <1>1, <1>3 DEF ToSet
<1>6. ASSUME NEW x \in ToSet(s), x # Head(s) PROVE x \in ToSet(t)
  <2>1. PICK i \in 1..Len(s) : x = s[i]
    BY <1>3 DEF ToSet
  <2>2. i # 1
    BY <1>1, <1>6, <2>1
  <2>3. i - 1 \in 1..Len(t) /\ x = t[i - 1]
    BY <1>1, <1>2, <2>1, <2>2
  <2> QED
    BY <1>3, <2>3 DEF ToSet
<1> QED
  BY <1>1, <1>4, <1>5, <1>6 DEF t

\* This round's modules, in an order that the set of requests does not say.
LEMMA RequestsInOrder ==
  ASSUME NEW S, NEW r \in Seq(S), NEW u \in SUBSET S, IsFiniteSet(u),
         NEW order \in SetToSeqs(u)
  PROVE  /\ order \o r \in Seq(S)
         /\ ToSet(order \o r) \subseteq u \cup ToSet(r)
<1>1. Cardinality(u) \in Nat
  BY FS_CardinalityType
<1>2. order \in [1..Cardinality(u) -> u]
  BY DEF SetToSeqs
<1>3. order \in Seq(S) /\ Len(order) = Cardinality(u)
  BY <1>1, <1>2
<1>4. order \o r \in Seq(S) /\ Len(order \o r) = Len(order) + Len(r)
  BY <1>3
<1>5. ASSUME NEW i \in 1..Len(order \o r) PROVE (order \o r)[i] \in u \cup ToSet(r)
  <2>1. CASE i <= Len(order)
    BY <1>1, <1>2, <1>3, <1>5, <2>1
  <2>2. CASE i > Len(order)
    <3>1. i - Len(order) \in 1..Len(r) /\ (order \o r)[i] = r[i - Len(order)]
      BY <1>1, <1>3, <1>4, <2>2
    <3> QED
      BY <3>1 DEF ToSet
  <2> QED
    BY <1>1, <1>3, <1>4, <2>1, <2>2
<1> QED
  BY <1>4, <1>5 DEF ToSet

\* The k-th element of r is the k-th of s that is in S, and is at place[k].
Places(place, s, S, r) ==
  /\ place \in [1..Len(r) -> 1..Len(s)]
  /\ \A k \in 1..Len(r) : r[k] = s[place[k]] /\ s[place[k]] \in S
  /\ \A k, l \in 1..Len(r) : k < l => place[k] < place[l]
  /\ \A i \in 1..Len(s) : s[i] \in S => \E k \in 1..Len(r) : place[k] = i

Selected(s, S, r) == \E place : Places(place, s, S, r)

LEMMA OnlyPlaces ==
  ASSUME NEW T, NEW s \in Seq(T), NEW S
  PROVE  Only(s, S) \in Seq(T) /\ Selected(s, S, Only(s, S))
<1> DEFINE P == {i \in 1..Len(s) : s[i] \in S}
           Upto(i) == {j \in P : j <= i}
           Rank(i) == Cardinality(Upto(i))
           n == Cardinality(P)
           place == [k \in 1..n |-> CHOOSE i \in P : Rank(i) = k]
           r == Only(s, S)
<1>1. Len(s) \in Nat /\ P \subseteq 1..Len(s)
  OBVIOUS
<1>2. \A i : IsFiniteSet(Upto(i))
  <2>1. IsFiniteSet(1..Len(s))
    BY <1>1, FS_Interval
  <2>2. ASSUME NEW i PROVE IsFiniteSet(Upto(i))
    <3>1. Upto(i) \subseteq 1..Len(s)
      BY <1>1
    <3> QED
      BY <2>1, <3>1, FS_Subset
  <2> QED
    BY <2>2
<1>3. \A i : Rank(i) \in Nat
  BY <1>2, FS_CardinalityType
<1>4. Upto(Len(s)) = P /\ Upto(0) = {}
  BY <1>1
<1>5. n = Rank(Len(s)) /\ Rank(0) = 0 /\ n \in Nat
  BY <1>3, <1>4, FS_EmptySet
<1>6. ASSUME NEW i \in 1..Len(s)
      PROVE  /\ i \notin P => Rank(i) = Rank(i - 1)
             /\ i \in P => Rank(i) = Rank(i - 1) + 1
  <2>1. CASE i \notin P
    <3>1. Upto(i) = Upto(i - 1)
      BY <2>1
    <3> QED
      BY <2>1, <3>1
  <2>2. CASE i \in P
    <3>1. Upto(i) = Upto(i - 1) \cup {i} /\ i \notin Upto(i - 1)
      BY <2>2
    <3>2. IsFiniteSet(Upto(i - 1))
      BY <1>2
    <3> QED
      BY <2>2, <3>1, <3>2, FS_AddElement
  <2> QED
    BY <2>1, <2>2
<1>7. ASSUME NEW i \in P, NEW j \in P, i < j PROVE Rank(i) < Rank(j)
  <2>1. Upto(i) \subseteq Upto(j) /\ j \in Upto(j) \ Upto(i)
    BY <1>7
  <2>2. Upto(i) # Upto(j) /\ IsFiniteSet(Upto(j))
    BY <1>2, <2>1
  <2>3. Rank(i) <= Rank(j) /\ (Rank(i) = Rank(j) => Upto(i) = Upto(j))
    BY <2>1, <2>2, FS_Subset
  <2>4. Rank(i) \in Nat /\ Rank(j) \in Nat
    BY <1>3
  <2> HIDE DEF Rank, Upto
  <2> QED
    BY <2>2, <2>3, <2>4
<1>8. ASSUME NEW i \in P PROVE Rank(i) \in 1..n
  <2>1. Upto(i) \subseteq P /\ IsFiniteSet(P)
    BY <1>2, <1>4
  <2>2. Rank(i) <= n
    BY <2>1, FS_Subset
  <2>3. i \in Upto(i)
    BY <1>1
  <2>4. Rank(i) # 0
    BY <1>2, <2>3, FS_EmptySet
  <2>5. Rank(i) \in Nat
    BY <1>3
  <2> HIDE DEF Rank, n
  <2> QED
    BY <1>5, <2>2, <2>4, <2>5
<1>9. ASSUME NEW k \in 1..n PROVE \E i \in P : Rank(i) = k
  <2> DEFINE Q == {i \in Nat : i <= Len(s) /\ Rank(i) >= k}
  <2>1. Q \subseteq Nat /\ Len(s) \in Q
    BY <1>1, <1>5, <1>9
  <2>2. PICK i \in Q : \A j \in Q : ~(j < i)
    <3>1. IsWellFoundedOn(OpToRel(<, Nat), Nat)
      BY NatLessThanWellFounded
    <3>2. \E i \in Q : \A j \in Q : ~(<<j, i>> \in OpToRel(<, Nat))
      BY <2>1, <3>1, WFMin
    <3> QED
      BY <2>1, <3>2 DEF OpToRel
  <2>3. i \in Nat /\ i <= Len(s) /\ Rank(i) >= k
    BY <2>2
  <2> HIDE DEF Rank, n
  <2>4. i # 0
    BY <1>5, <1>9, <2>3
  <2>5. i \in 1..Len(s) /\ i - 1 \in Nat /\ i - 1 <= Len(s) /\ i - 1 < i
    BY <1>1, <2>3, <2>4
  <2>6. i - 1 \notin Q
    BY <2>2, <2>5
  <2>7. ~(Rank(i - 1) >= k)
    BY <2>5, <2>6
  <2> HIDE DEF P, Q
  <2>8. Rank(i) \in Nat /\ Rank(i - 1) \in Nat /\ k \in Nat
    BY <1>3, <1>5, <1>9
  <2>9. i \in P /\ Rank(i) = k
    BY <1>6, <2>3, <2>5, <2>7, <2>8
  <2> QED
    BY <2>9
<1>10. r = [k \in 1..n |-> s[place[k]]]
  BY DEF Only
<1>11. \A k \in 1..n : place[k] \in P /\ Rank(place[k]) = k
  BY <1>9
<1> HIDE DEF r, place, n, Rank, P
<1>12. \A k \in 1..n : place[k] \in 1..Len(s) /\ s[place[k]] \in S
  BY <1>1, <1>11 DEF P
<1>13. r \in Seq(T) /\ Len(r) = n
  <2>1. \A k \in 1..n : s[place[k]] \in T
    BY <1>12
  <2>2. r \in [1..n -> T]
    BY <1>10, <2>1
  <2> QED
    BY <1>5, <2>2
<1>14. place \in [1..n -> 1..Len(s)]
  BY <1>12 DEF place
<1>15. ASSUME NEW k \in 1..n, NEW l \in 1..n, k < l PROVE place[k] < place[l]
  <2>1. place[k] \in P /\ place[l] \in P /\ Rank(place[k]) = k /\ Rank(place[l]) = l
    BY <1>11
  <2>2. place[l] # place[k] /\ ~(place[l] < place[k])
    BY <1>5, <1>7, <1>15, <2>1
  <2> QED
    BY <1>12, <2>2
<1>16. ASSUME NEW i \in 1..Len(s), s[i] \in S PROVE \E k \in 1..n : place[k] = i
  <2>1. i \in P /\ Rank(i) \in 1..n
    BY <1>8, <1>16 DEF P
  <2>2. PICK q \in P : q = place[Rank(i)] /\ Rank(q) = Rank(i)
    BY <1>11, <2>1
  <2>3. Rank(i) \in Nat /\ Rank(q) \in Nat
    BY <1>3
  <2>4. q < i => Rank(q) < Rank(i)
    BY <1>7, <2>1
  <2>5. i < q => Rank(i) < Rank(q)
    BY <1>7, <2>1
  <2>6. q \in Nat /\ i \in Nat
    BY <1>1, <2>1 DEF P
  <2>7. q = i
    BY <2>2, <2>3, <2>4, <2>5, <2>6
  <2> QED
    BY <2>1, <2>2, <2>7
<1>17. \A k \in 1..n : r[k] = s[place[k]] /\ s[place[k]] \in S
  BY <1>10, <1>12
<1> QED
  <2>1. r \in Seq(T) /\ place \in [1..Len(r) -> 1..Len(s)]
    BY <1>13, <1>14
  <2>2. /\ \A k \in 1..Len(r) : r[k] = s[place[k]] /\ s[place[k]] \in S
        /\ \A k, l \in 1..Len(r) : k < l => place[k] < place[l]
        /\ \A i \in 1..Len(s) : s[i] \in S => \E k \in 1..Len(r) : place[k] = i
    BY <1>13, <1>15, <1>16, <1>17
  <2>3. Places(place, s, S, r)
    BY <2>1, <2>2 DEF Places
  <2>4. Selected(s, S, r)
    BY <2>3 DEF Selected
  <2> QED
    BY <2>1, <2>4 DEF r

-----------------------------------------------------------------------------
(* Steps *)

LEMMA ExceptIsFunction ==
  ASSUME NEW S, NEW f, DOMAIN f = S, f = [x \in S |-> f[x]], NEW a, NEW v
  PROVE  LET g == [f EXCEPT ![a] = v]
         IN DOMAIN g = S /\ g = [x \in S |-> g[x]]
  OBVIOUS

\* What load_module() leaves behind: a new container that nobody knows, or
\* the sign that the build failed.
Published(m) ==
  /\ container[m] = 0 /\ built[m] \in 0..(MaxLoads - 1)
  /\ built' = [built EXCEPT ![m] = built[m] + 1]
  /\ container' = [container EXCEPT ![m] = built[m] + 1]
  /\ state' = [state EXCEPT ![<<m, built[m] + 1>>] = "loaded"]
  /\ mainPc' = "init"
  /\ UNCHANGED <<toLoad, booted, buildFailed>>

NotBuilt ==
  /\ buildFailed' = TRUE /\ UNCHANGED <<container, built, state>>
  /\ \/ booted /\ mainPc' = "continue" /\ UNCHANGED <<toLoad, booted>>
     \/ ~booted /\ mainPc' = "loop" /\ toLoad' = <<>> /\ booted' = TRUE

LEMMA LoadModuleOutcome ==
  ASSUME MaxLoads \in Nat, TypeInv, LoadModule
  PROVE  /\ toLoad # <<>> /\ Head(toLoad) \in Modules
         /\ mainPc \in {"boot", "load"} /\ ~Loaded(Head(toLoad))
         /\ Published(Head(toLoad)) \/ NotBuilt
         /\ UNCHANGED <<toSend, toUnload, dataVars, requestVars, missing>>
<1>1. toLoad # <<>> /\ Head(toLoad) \in Modules
  BY DEF LoadModule, TypeInv
<1>2. container[Head(toLoad)] = 0
  BY <1>1 DEF LoadModule, TypeInv, Loaded
<1>3. \/ Publish(Head(toLoad)) /\ mainPc' = "init"
           /\ UNCHANGED <<toLoad, booted, buildFailed>>
      \/ NotBuilt
  BY DEF LoadModule, NotBuilt
<1>4. Publish(Head(toLoad)) /\ mainPc' = "init"
        /\ UNCHANGED <<toLoad, booted, buildFailed>> => Published(Head(toLoad))
  BY <1>1, <1>2 DEF Publish, Published, TypeInv
<1> QED
  BY <1>1, <1>3, <1>4 DEF LoadModule, Loaded, dataVars, requestVars

\* Every variable keeps its type.
LEMMA TypeStep ==
  ASSUME MaxLoads \in Nat, TypeInv, LoadInv, UnloadInv, [Next]_vars
  PROVE  TypeInv'
<1> USE DEF TypeInv, LoadInv, UnloadInv, vars, roundVars, tableVars,
            requestVars, emitVars, dataVars
<1>1. CASE LoadModule
  <2>1. /\ toLoad # <<>> /\ Head(toLoad) \in Modules
        /\ Published(Head(toLoad)) \/ NotBuilt
        /\ UNCHANGED <<toSend, toUnload, dataVars, requestVars, missing>>
    BY <1>1, LoadModuleOutcome
  <2>2. CASE Published(Head(toLoad))
    <3>1. DOMAIN state' = Containers /\ state' = [c \in Containers |-> state'[c]]
      BY <2>2, ExceptIsFunction DEF Published
    <3>2. container' \in [Modules -> 0..MaxLoads] /\ built' \in [Modules -> 0..MaxLoads]
      BY SMTT(30), <2>1, <2>2 DEF Published
    <3>3. mainPc' = "init" /\ UNCHANGED <<toLoad, booted>>
      BY <2>2 DEF Published
    <3> QED
      BY <2>1, <3>1, <3>2, <3>3
  <2>3. CASE NotBuilt
    <3>1. UNCHANGED <<container, built, state>> /\ mainPc' \in {"continue", "loop"}
      BY <2>3 DEF NotBuilt
    <3>2. toLoad' \in Seq(Modules) /\ booted' \in BOOLEAN
      <4>1. CASE booted
        <5>1. toLoad' = toLoad /\ booted' = booted
          BY <2>3, <4>1 DEF NotBuilt
        <5> QED
          BY <5>1
      <4>2. CASE ~booted
        <5>1. toLoad' = <<>> /\ booted' = TRUE
          BY <2>3, <4>2 DEF NotBuilt
        <5> QED
          BY <5>1
      <4> QED
        BY <4>1, <4>2
    <3> QED
      BY <2>1, <3>1, <3>2
  <2> QED
    BY <2>1, <2>2, <2>3
<1>2. CASE InitModule
  <2>1. toLoad # <<>> => Tail(toLoad) \in Seq(Modules)
    BY TailsElements
  <2> QED
    BY <1>2, <2>1 DEF InitModule
<1>3. CASE Continue
  <2>1. toLoad # <<>> => Tail(toLoad) \in Seq(Modules)
    BY TailsElements
  <2> QED
    BY <1>3, <2>1 DEF Continue
<1>4. CASE GrabRequests
  <2>1. PICK order \in SetToSeqs(unloads) :
          toSend' = order \o reloads /\ toUnload' = order \o reloads
    BY <1>4 DEF GrabRequests
  <2>2. order \o reloads \in Seq(Modules)
    BY RequestsInOrder
  <2>3. IsFiniteSet({})
    BY FS_EmptySet
  <2> QED
    BY <1>4, <2>1, <2>2, <2>3 DEF GrabRequests
<1>5. CASE SendUnload
  <2>1. toSend # <<>> => Tail(toSend) \in Seq(Modules)
    BY TailsElements
  <2>2. CASE mainPc' = "crashed"
    BY <1>5, <2>1, <2>2 DEF SendUnload
  <2>3. CASE mainPc' = "send"
    <3>1. DOMAIN tmpData' = Modules /\ tmpData' = [m \in Modules |-> tmpData'[m]]
      BY <1>5, <2>3, ExceptIsFunction DEF SendUnload
    <3>2. Current(Head(toSend)) \in Containers
      BY <1>5, <2>3 DEF SendUnload, Current, Loaded, Containers
    <3>3. told' \subseteq Containers
      BY <1>5, <2>3, <3>2 DEF SendUnload
    <3> QED
      BY <1>5, <2>1, <2>3, <3>1, <3>3 DEF SendUnload
  <2> QED
    BY <1>5, <2>2, <2>3 DEF SendUnload
<1>6. CASE EraseModule
  BY <1>6 DEF EraseModule
<1>7. CASE JoinModule
  <2>1. toUnload # <<>> => Tail(toUnload) \in Seq(Modules)
    BY TailsElements
  <2> QED
    BY <1>7, <2>1 DEF JoinModule
<1>8. CASE Boot
  BY <1>8 DEF Boot
<1>9. CASE NextLoop
  BY <1>9 DEF NextLoop
<1>10. CASE SkipModule
  BY <1>10 DEF SkipModule
<1>11. CASE RequestModuleStop
  BY <1>11 DEF RequestModuleStop
<1>12. CASE CheckShutdown
  BY <1>12 DEF CheckShutdown
<1>13. CASE StopModule
  BY <1>13 DEF StopModule
<1>14. CASE WaitForModule
  BY <1>14 DEF WaitForModule
<1>15. CASE RequestShutdown
  BY <1>15 DEF RequestShutdown
<1>16. ASSUME NEW c \in Containers, HandleEvent(c) PROVE TypeInv'
  BY <1>16 DEF HandleEvent
<1>17. ASSUME NEW c \in Containers, Exit(c) PROVE TypeInv'
  BY <1>17 DEF Exit
<1>18. ASSUME NEW m \in Modules, RequestUnload(m) PROVE TypeInv'
  <2>1. IsFiniteSet(unloads \cup {m})
    BY FS_AddElement
  <2> QED
    BY <1>18, <2>1 DEF RequestUnload
<1>19. ASSUME NEW m \in Modules, RequestReload(m) PROVE TypeInv'
  BY SMTT(30), <1>19 DEF RequestReload
<1>20. ASSUME NEW e \in Emitters, EmitEvent(e) PROVE TypeInv'
  BY <1>20 DEF EmitEvent
<1>21. ASSUME NEW e \in Emitters, PushEvent(e) PROVE TypeInv'
  BY <1>21 DEF PushEvent
<1>22. CASE UNCHANGED vars
  BY <1>22
<1> QED
  BY <1>1, <1>2, <1>3, <1>4, <1>5, <1>6, <1>7, <1>8, <1>9, <1>10,
     <1>11, <1>12, <1>13, <1>14, <1>15, <1>16, <1>17, <1>18, <1>19,
     <1>20, <1>21, <1>22 DEF Next, Main, Terminated

\* Containers are numbered as they are made.
LEMMA NumberStep ==
  ASSUME MaxLoads \in Nat, TypeInv, NumberInv, [Next]_vars
  PROVE  NumberInv'
<1> USE DEF TypeInv, NumberInv, Containers, Current, Loaded, vars, roundVars,
            tableVars, requestVars, emitVars, dataVars
<1>1. CASE LoadModule
  <2>1. /\ toLoad # <<>> /\ Head(toLoad) \in Modules
        /\ Published(Head(toLoad)) \/ NotBuilt
        /\ UNCHANGED <<toSend, toUnload, dataVars, requestVars, missing>>
    BY <1>1, LoadModuleOutcome
  <2>2. CASE Published(Head(toLoad))
    BY SMTT(30), <2>1, <2>2 DEF Published
  <2>3. CASE NotBuilt
    BY <2>1, <2>3 DEF NotBuilt
  <2> QED
    BY <2>1, <2>2, <2>3
<1>2. CASE InitModule
  BY <1>2 DEF InitModule
<1>3. CASE Continue
  BY <1>3 DEF Continue
<1>4. CASE GrabRequests
  BY <1>4 DEF GrabRequests
<1>5. CASE SendUnload
  BY <1>5 DEF SendUnload
<1>6. CASE EraseModule
  BY <1>6 DEF EraseModule
<1>7. CASE JoinModule
  BY <1>7 DEF JoinModule
<1>8. CASE Boot
  BY <1>8 DEF Boot
<1>9. CASE NextLoop
  BY <1>9 DEF NextLoop
<1>10. CASE SkipModule
  BY <1>10 DEF SkipModule
<1>11. CASE RequestModuleStop
  BY <1>11 DEF RequestModuleStop
<1>12. CASE CheckShutdown
  BY <1>12 DEF CheckShutdown
<1>13. CASE StopModule
  BY <1>13 DEF StopModule
<1>14. CASE WaitForModule
  BY <1>14 DEF WaitForModule
<1>15. CASE RequestShutdown
  BY <1>15 DEF RequestShutdown
<1>16. ASSUME NEW c \in Containers, HandleEvent(c) PROVE NumberInv'
  BY <1>16 DEF HandleEvent
<1>17. ASSUME NEW c \in Containers, Exit(c) PROVE NumberInv'
  BY <1>17 DEF Exit
<1>18. ASSUME NEW m \in Modules, RequestUnload(m) PROVE NumberInv'
  BY <1>18 DEF RequestUnload
<1>19. ASSUME NEW m \in Modules, RequestReload(m) PROVE NumberInv'
  BY <1>19 DEF RequestReload
<1>20. ASSUME NEW e \in Emitters, EmitEvent(e) PROVE NumberInv'
  BY <1>20 DEF EmitEvent
<1>21. ASSUME NEW e \in Emitters, PushEvent(e) PROVE NumberInv'
  BY <1>21 DEF PushEvent
<1>22. CASE UNCHANGED vars
  BY <1>22
<1> QED
  BY <1>1, <1>2, <1>3, <1>4, <1>5, <1>6, <1>7, <1>8, <1>9, <1>10,
     <1>11, <1>12, <1>13, <1>14, <1>15, <1>16, <1>17, <1>18, <1>19,
     <1>20, <1>21, <1>22 DEF Next, Main, Terminated

\* Only a container that was never told is initialised or continued.
LEMMA LoadStep ==
  ASSUME MaxLoads \in Nat, TypeInv, NumberInv, LoadInv, [Next]_vars
  PROVE  LoadInv'
<1> USE DEF TypeInv, NumberInv, LoadInv, Containers, Current, Loaded, vars,
            roundVars, tableVars, requestVars, emitVars, dataVars
<1>1. CASE LoadModule
  <2>1. /\ mainPc \in {"boot", "load"} /\ toLoad # <<>>
        /\ ~Loaded(Head(toLoad)) /\ Head(toLoad) \in Modules
        /\ Published(Head(toLoad)) \/ NotBuilt
        /\ UNCHANGED <<toSend, toUnload, dataVars, requestVars, missing>>
    BY <1>1, LoadModuleOutcome
  <2>2. CASE Published(Head(toLoad))
    BY SMTT(30), <2>1, <2>2 DEF Published
  <2>3. CASE NotBuilt
    BY <2>1, <2>3 DEF NotBuilt
  <2> QED
    BY <2>1, <2>2, <2>3
<1>2. CASE InitModule
  BY <1>2 DEF InitModule
<1>3. CASE Continue
  BY <1>3 DEF Continue
<1>4. CASE GrabRequests
  BY <1>4 DEF GrabRequests
<1>5. CASE SendUnload
  BY <1>5 DEF SendUnload
<1>6. CASE EraseModule
  BY <1>6 DEF EraseModule
<1>7. CASE JoinModule
  BY <1>7 DEF JoinModule
<1>8. CASE Boot
  BY <1>8 DEF Boot
<1>9. CASE NextLoop
  BY <1>9 DEF NextLoop
<1>10. CASE SkipModule
  BY <1>10 DEF SkipModule
<1>11. CASE RequestModuleStop
  BY <1>11 DEF RequestModuleStop
<1>12. CASE CheckShutdown
  BY <1>12 DEF CheckShutdown
<1>13. CASE StopModule
  BY <1>13 DEF StopModule
<1>14. CASE WaitForModule
  BY <1>14 DEF WaitForModule
<1>15. CASE RequestShutdown
  BY <1>15 DEF RequestShutdown
<1>16. ASSUME NEW c \in Containers, HandleEvent(c) PROVE LoadInv'
  BY <1>16 DEF HandleEvent
<1>17. ASSUME NEW c \in Containers, Exit(c) PROVE LoadInv'
  BY <1>17 DEF Exit
<1>18. ASSUME NEW m \in Modules, RequestUnload(m) PROVE LoadInv'
  BY <1>18 DEF RequestUnload
<1>19. ASSUME NEW m \in Modules, RequestReload(m) PROVE LoadInv'
  BY <1>19 DEF RequestReload
<1>20. ASSUME NEW e \in Emitters, EmitEvent(e) PROVE LoadInv'
  BY <1>20 DEF EmitEvent
<1>21. ASSUME NEW e \in Emitters, PushEvent(e) PROVE LoadInv'
  BY <1>21 DEF PushEvent
<1>22. CASE UNCHANGED vars
  BY <1>22
<1> QED
  BY <1>1, <1>2, <1>3, <1>4, <1>5, <1>6, <1>7, <1>8, <1>9, <1>10,
     <1>11, <1>12, <1>13, <1>14, <1>15, <1>16, <1>17, <1>18, <1>19,
     <1>20, <1>21, <1>22 DEF Next, Main, Terminated

\* Every module of the round is told, and only then are they erased.
LEMMA UnloadStep ==
  ASSUME MaxLoads \in Nat, TypeInv, UnloadInv, [Next]_vars
  PROVE  UnloadInv'
<1> USE DEF TypeInv, UnloadInv, Current, Loaded, vars, roundVars, tableVars,
            requestVars, emitVars, dataVars
<1>1. CASE LoadModule
  BY <1>1 DEF LoadModule
<1>2. CASE InitModule
  BY <1>2 DEF InitModule
<1>3. CASE Continue
  BY <1>3 DEF Continue
<1>4. CASE GrabRequests
  <2>1. PICK order \in SetToSeqs(unloads) :
          toSend' = order \o reloads /\ toUnload' = order \o reloads
    BY <1>4 DEF GrabRequests
  <2>2. ToSet(order \o reloads) \subseteq unloads \cup ToSet(reloads)
    BY RequestsInOrder
  <2>3. missing' = {} => \A m \in unloads \cup ToSet(reloads) : Loaded(m)
    BY <1>4 DEF GrabRequests
  <2>4. mainPc' = "send" /\ container' = container
    BY <1>4 DEF GrabRequests
  <2> QED
    BY <2>1, <2>2, <2>3, <2>4
<1>5. CASE SendUnload
  <2>1. /\ toSend # <<>> /\ toSend' = Tail(toSend) /\ mainPc = "send"
        /\ UNCHANGED <<container, toUnload, missing>>
        /\ \/ mainPc' = "crashed" /\ UNCHANGED told
           \/ /\ Loaded(Head(toSend)) /\ UNCHANGED mainPc
              /\ told' = told \cup {Current(Head(toSend))}
    BY <1>5 DEF SendUnload
  <2>2. ToSet(toSend) = ToSet(Tail(toSend)) \cup {Head(toSend)}
    BY <2>1, TailsElements
  <2>3. CASE mainPc' = "crashed"
    BY <2>1, <2>3
  <2>4. CASE mainPc' = "send"
    <3>1. \A m \in ToSet(toUnload) :
            m \in ToSet(toSend)' \/ (Loaded(m)' => Current(m)' \in told')
      BY <2>1, <2>2, <2>4
    <3>2. missing' = {} => \A m \in ToSet(toSend)' : Loaded(m)'
      BY <2>1, <2>2
    <3> QED
      BY <2>1, <2>4, <3>1, <3>2
  <2> QED
    BY <2>1, <2>3, <2>4
<1>6. CASE EraseModule
  BY <1>6 DEF EraseModule
<1>7. CASE JoinModule
  <2>1. /\ toUnload' = Tail(toUnload) /\ UNCHANGED <<container, told>>
        /\ mainPc = "join" /\ mainPc' = "erase"
    BY <1>7 DEF JoinModule
  <2>2. ToSet(Tail(toUnload)) \subseteq ToSet(toUnload)
    BY <2>1, TailsElements
  <2>3. \A m \in ToSet(toUnload) : Loaded(m) => Current(m) \in told
    BY <2>1
  <2> QED
    BY <2>1, <2>2, <2>3
<1>8. CASE Boot
  BY <1>8 DEF Boot
<1>9. CASE NextLoop
  <2>1. UNCHANGED <<toUnload, toSend, container, told>>
    BY <1>9 DEF NextLoop
  <2>2. CASE mainPc = "send" /\ toSend = <<>> /\ mainPc' = "erase"
    <3>1. ToSet(toSend) = {}
      BY <2>2 DEF ToSet
    <3> QED
      BY <2>1, <2>2, <3>1
  <2>3. CASE mainPc' \in {"check", "load"}
    BY <2>3
  <2> QED
    BY <1>9, <2>2, <2>3 DEF NextLoop
<1>10. CASE SkipModule
  <2>1. /\ toUnload # <<>> /\ toUnload' = Tail(toUnload) /\ UNCHANGED <<container, told>>
        /\ mainPc = "erase" /\ mainPc' = "erase"
    BY <1>10 DEF SkipModule
  <2>2. ToSet(Tail(toUnload)) \subseteq ToSet(toUnload)
    BY <2>1, TailsElements
  <2>3. \A m \in ToSet(toUnload) : Loaded(m) => Current(m) \in told
    BY <2>1
  <2> QED
    BY <2>1, <2>2, <2>3
<1>11. CASE RequestModuleStop
  BY <1>11 DEF RequestModuleStop
<1>12. CASE CheckShutdown
  BY <1>12 DEF CheckShutdown
<1>13. CASE StopModule
  BY <1>13 DEF StopModule
<1>14. CASE WaitForModule
  BY <1>14 DEF WaitForModule
<1>15. CASE RequestShutdown
  BY <1>15 DEF RequestShutdown
<1>16. ASSUME NEW c \in Containers, HandleEvent(c) PROVE UnloadInv'
  BY <1>16 DEF HandleEvent
<1>17. ASSUME NEW c \in Containers, Exit(c) PROVE UnloadInv'
  BY <1>17 DEF Exit
<1>18. ASSUME NEW m \in Modules, RequestUnload(m) PROVE UnloadInv'
  BY <1>18 DEF RequestUnload
<1>19. ASSUME NEW m \in Modules, RequestReload(m) PROVE UnloadInv'
  BY <1>19 DEF RequestReload
<1>20. ASSUME NEW e \in Emitters, EmitEvent(e) PROVE UnloadInv'
  BY <1>20 DEF EmitEvent
<1>21. ASSUME NEW e \in Emitters, PushEvent(e) PROVE UnloadInv'
  BY <1>21 DEF PushEvent
<1>22. CASE UNCHANGED vars
  BY <1>22
<1> QED
  BY <1>1, <1>2, <1>3, <1>4, <1>5, <1>6, <1>7, <1>8, <1>9, <1>10,
     <1>11, <1>12, <1>13, <1>14, <1>15, <1>16, <1>17, <1>18, <1>19,
     <1>20, <1>21, <1>22 DEF Next, Main, Terminated

\* A container that is no longer the current one has been told.
LEMMA ReadyStep ==
  ASSUME MaxLoads \in Nat, TypeInv, LoadInv, UnloadInv, ReadyInv, [Next]_vars
  PROVE  ReadyInv'
<1> USE DEF TypeInv, LoadInv, UnloadInv, ReadyInv, Containers, Current, Loaded,
            vars, roundVars, tableVars, requestVars, emitVars, dataVars
<1>1. CASE LoadModule
  <2>1. /\ mainPc \in {"boot", "load"} /\ toLoad # <<>>
        /\ ~Loaded(Head(toLoad)) /\ Head(toLoad) \in Modules
        /\ Published(Head(toLoad)) \/ NotBuilt
        /\ UNCHANGED <<toSend, toUnload, dataVars, requestVars, missing>>
    BY <1>1, LoadModuleOutcome
  <2>2. CASE Published(Head(toLoad))
    BY <2>1, <2>2 DEF Published
  <2>3. CASE NotBuilt
    BY <2>1, <2>3 DEF NotBuilt
  <2> QED
    BY <2>1, <2>2, <2>3
<1>2. CASE InitModule
  BY <1>2 DEF InitModule
<1>3. CASE Continue
  BY <1>3 DEF Continue
<1>4. CASE GrabRequests
  BY <1>4 DEF GrabRequests
<1>5. CASE SendUnload
  BY <1>5 DEF SendUnload
<1>6. CASE EraseModule
  <2> DEFINE h == Head(toUnload)
  <2>1. /\ container' = [container EXCEPT ![h] = 0]
        /\ UNCHANGED <<state, told>>
        /\ mainPc = "erase" /\ toUnload # <<>> /\ Loaded(h)
    BY <1>6 DEF EraseModule
  <2>2. h \in ToSet(toUnload) /\ h \in Modules
    BY <2>1, TailsElements
  <2>3. Current(h) \in told
    BY <2>1, <2>2
  <2> HIDE DEF h
  <2>4. ASSUME NEW c \in Containers, state[c] = "ready"
        PROVE  (Loaded(c[1])' /\ c = Current(c[1])') \/ c \in told
    <3>1. (Loaded(c[1]) /\ c = Current(c[1])) \/ c \in told
      BY <2>4
    <3>2. CASE c[1] = h
      BY <2>3, <3>1, <3>2
    <3>3. CASE c[1] # h
      BY <2>1, <2>2, <3>1, <3>3
    <3> QED
      BY <3>2, <3>3
  <2> QED
    BY <2>1, <2>4
<1>7. CASE JoinModule
  BY <1>7 DEF JoinModule
<1>8. CASE Boot
  BY <1>8 DEF Boot
<1>9. CASE NextLoop
  BY <1>9 DEF NextLoop
<1>10. CASE SkipModule
  BY <1>10 DEF SkipModule
<1>11. CASE RequestModuleStop
  BY <1>11 DEF RequestModuleStop
<1>12. CASE CheckShutdown
  BY <1>12 DEF CheckShutdown
<1>13. CASE StopModule
  BY <1>13 DEF StopModule
<1>14. CASE WaitForModule
  BY <1>14 DEF WaitForModule
<1>15. CASE RequestShutdown
  BY <1>15 DEF RequestShutdown
<1>16. ASSUME NEW c \in Containers, HandleEvent(c) PROVE ReadyInv'
  BY <1>16 DEF HandleEvent
<1>17. ASSUME NEW c \in Containers, Exit(c) PROVE ReadyInv'
  BY <1>17 DEF Exit
<1>18. ASSUME NEW m \in Modules, RequestUnload(m) PROVE ReadyInv'
  BY <1>18 DEF RequestUnload
<1>19. ASSUME NEW m \in Modules, RequestReload(m) PROVE ReadyInv'
  BY <1>19 DEF RequestReload
<1>20. ASSUME NEW e \in Emitters, EmitEvent(e) PROVE ReadyInv'
  BY <1>20 DEF EmitEvent
<1>21. ASSUME NEW e \in Emitters, PushEvent(e) PROVE ReadyInv'
  BY <1>21 DEF PushEvent
<1>22. CASE UNCHANGED vars
  BY <1>22
<1> QED
  BY <1>1, <1>2, <1>3, <1>4, <1>5, <1>6, <1>7, <1>8, <1>9, <1>10,
     <1>11, <1>12, <1>13, <1>14, <1>15, <1>16, <1>17, <1>18, <1>19,
     <1>20, <1>21, <1>22 DEF Next, Main, Terminated

\* What was handled before core:unload is in one place or the other.
LEMMA KeptStep ==
  ASSUME MaxLoads \in Nat, TypeInv, NumberInv, LoadInv, UnloadInv, ReadyInv,
         KeptInv, [Next]_vars
  PROVE  KeptInv'
<1> USE DEF TypeInv, KeptInv, Containers, Current, Loaded, Restoring, vars,
            roundVars, tableVars, requestVars, emitVars, dataVars
<1>1. CASE LoadModule
  <2>1. /\ ~Loaded(Head(toLoad)) /\ Head(toLoad) \in Modules
        /\ mainPc \in {"boot", "load"}
        /\ Published(Head(toLoad)) \/ NotBuilt
        /\ UNCHANGED <<data, tmpData, told, kept>>
    BY <1>1, LoadModuleOutcome
  <2>2. CASE Published(Head(toLoad))
    <3>0. PICK h \in Modules : h = Head(toLoad)
      BY <2>1
    <3>1. /\ \A m \in Modules \ {h} : container'[m] = container[m]
          /\ container'[h] = built[h] + 1 /\ built[h] \in Nat
          /\ mainPc' = "init" /\ UNCHANGED <<toLoad, booted>>
      BY <2>1, <2>2, <3>0 DEF Published
    <3>2. kept[h] \subseteq tmpData[h]
      BY <2>1, <3>0
    <3>3. Current(h)' \notin told
      BY <2>1, <3>0, <3>1 DEF NumberInv
    <3>4. ~booted => tmpData[h] = {}
      BY <2>1, <3>0 DEF LoadInv
    <3>5. ASSUME NEW m \in Modules, m # h
          PROVE  /\ ~Loaded(m)' => kept[m] \subseteq tmpData[m]
                 /\ Loaded(m)' => /\ kept[m] \subseteq tmpData[m] \cup data[Current(m)]
                                  /\ kept[m] \subseteq data[Current(m)]
                                  /\ Current(m) \in told => kept[m] \subseteq tmpData[m]
      BY <2>1, <3>1, <3>5
    <3>6. \A m \in Modules \ {h} : Current(m)' = Current(m)
      BY <3>1
    <3>7. booted \/ kept[h] = {}
      BY <3>2, <3>4
    <3>8. /\ Loaded(h)' /\ kept'[h] = kept[h] /\ tmpData'[h] = tmpData[h]
          /\ data' = data /\ told' = told
      BY <2>1, <3>1
    <3>9. Restoring(h)' \/ kept[h] \subseteq data'[Current(h)']
      BY <3>0, <3>1, <3>7
    <3>10. ASSUME NEW m \in Modules
           PROVE  /\ ~Loaded(m)' => kept'[m] \subseteq tmpData'[m]
                  /\ Loaded(m)' =>
                       /\ kept'[m] \subseteq tmpData'[m] \cup data'[Current(m)']
                       /\ Restoring(m)' \/ kept'[m] \subseteq data'[Current(m)']
                       /\ Current(m)' \in told' => kept'[m] \subseteq tmpData'[m]
      <4>1. CASE m = h
        BY <3>2, <3>3, <3>8, <3>9, <4>1
      <4>2. CASE m # h
        BY <2>1, <3>5, <3>6, <4>2
      <4> QED
        BY <4>1, <4>2
    <3> QED
      BY <3>10
  <2>3. CASE NotBuilt
    BY <2>1, <2>3 DEF NotBuilt
  <2> QED
    BY <2>1, <2>2, <2>3
<1>2. CASE InitModule
  BY <1>2 DEF InitModule
<1>3. CASE Continue
  <2> DEFINE h == Head(toLoad)
  <2>1. /\ mainPc = "continue" /\ UNCHANGED <<container, told, kept>>
        /\ h \in Modules
    BY <1>3 DEF Continue, LoadInv
  <2>2. CASE ~Loaded(h)
    BY <1>3, <2>1, <2>2 DEF Continue
  <2>3. CASE Loaded(h)
    <3>1. /\ data' = [data EXCEPT ![Current(h)] = data[Current(h)] \cup tmpData[h]]
          /\ tmpData' = [tmpData EXCEPT ![h] = {}]
          /\ mainPc' \notin {"init", "continue"}
      BY <1>3, <2>3 DEF Continue
    <3>2. Current(h) \in Containers /\ Current(h) \notin told
      BY <2>1, <2>3 DEF LoadInv
    <3>3. /\ data'[Current(h)] = data[Current(h)] \cup tmpData[h]
          /\ \A m \in Modules \ {h} : data'[Current(m)] = data[Current(m)]
                                      /\ tmpData'[m] = tmpData[m]
      BY <3>1, <3>2
    <3>4. kept[h] \subseteq data'[Current(h)]
      BY <2>1, <2>3, <3>3
    <3>5. \A m \in Modules \ {h} : Loaded(m) => kept[m] \subseteq data[Current(m)]
      BY <2>1
    <3> HIDE DEF h
    <3> QED
      BY ZenonT(30), <2>1, <2>3, <3>1, <3>2, <3>3, <3>4, <3>5
  <2> QED
    BY <2>2, <2>3
<1>4. CASE GrabRequests
  BY <1>4 DEF GrabRequests
<1>5. CASE SendUnload
  BY <1>5 DEF SendUnload
<1>6. CASE EraseModule
  <2> DEFINE h == Head(toUnload)
  <2>1. /\ container' = [container EXCEPT ![h] = 0]
        /\ UNCHANGED <<data, tmpData, told, kept>>
        /\ mainPc = "erase" /\ toUnload # <<>> /\ Loaded(h)
    BY <1>6 DEF EraseModule
  <2>2. h \in ToSet(toUnload) /\ h \in Modules
    BY <2>1, TailsElements
  <2>3. kept[h] \subseteq tmpData[h]
    BY <2>1, <2>2 DEF UnloadInv
  <2>4. container'[h] = 0 /\ \A m \in Modules \ {h} : container'[m] = container[m]
    BY <2>1, <2>2
  <2> HIDE DEF h
  <2>5. \A m \in Modules : Loaded(m) => kept[m] \subseteq data[Current(m)]
    BY <2>1
  <2> QED
    BY <2>1, <2>2, <2>3, <2>4, <2>5
<1>7. CASE JoinModule
  BY <1>7 DEF JoinModule
<1>8. CASE Boot
  BY <1>8 DEF Boot
<1>9. CASE NextLoop
  BY <1>9 DEF NextLoop
<1>10. CASE SkipModule
  BY <1>10 DEF SkipModule
<1>11. CASE RequestModuleStop
  BY <1>11 DEF RequestModuleStop
<1>12. CASE CheckShutdown
  BY <1>12 DEF CheckShutdown
<1>13. CASE StopModule
  BY <1>13 DEF StopModule
<1>14. CASE WaitForModule
  BY <1>14 DEF WaitForModule
<1>15. CASE RequestShutdown
  BY <1>15 DEF RequestShutdown
<1>16. ASSUME NEW c \in Containers, HandleEvent(c) PROVE KeptInv'
  <2> DEFINE x == Head(queue[c])
  <2>1. /\ data' = [data EXCEPT ![c] = data[c] \cup {x}]
        /\ kept' = IF c \in told THEN kept
                   ELSE [kept EXCEPT ![c[1]] = kept[c[1]] \cup {x}]
        /\ state[c] = "ready"
        /\ UNCHANGED <<mainPc, toLoad, booted, container, told, tmpData>>
    BY <1>16 DEF HandleEvent
  <2>2. c[1] \in Modules
    OBVIOUS
  <2> HIDE DEF x
  <2>3. /\ data'[c] = data[c] \cup {x}
        /\ \A d \in Containers \ {c} : data'[d] = data[d]
    BY <2>1
  <2>4. \A m \in Modules : Loaded(m) => Current(m) \in Containers
    OBVIOUS
  <2>5. \A m \in Modules : Loaded(m) => data[Current(m)] \subseteq data'[Current(m)]
    BY <2>3, <2>4
  <2>6. CASE c \in told
    BY <2>1, <2>5, <2>6
  <2>7. CASE c \notin told
    <3>1. Loaded(c[1]) /\ c = Current(c[1])
      BY <2>1, <2>7 DEF ReadyInv
    <3>2. /\ kept'[c[1]] = kept[c[1]] \cup {x}
          /\ \A m \in Modules \ {c[1]} : kept'[m] = kept[m]
      BY <2>1, <2>2, <2>7
    <3>3. \A m \in Modules \ {c[1]} :
            /\ ~Loaded(m) => kept'[m] \subseteq tmpData[m]
            /\ Loaded(m) =>
                 /\ kept'[m] \subseteq tmpData[m] \cup data'[Current(m)]
                 /\ Restoring(m) \/ kept'[m] \subseteq data'[Current(m)]
                 /\ Current(m) \in told => kept'[m] \subseteq tmpData[m]
      BY <2>5, <3>2
    <3>4. /\ kept'[c[1]] \subseteq tmpData[c[1]] \cup data'[c]
          /\ Restoring(c[1]) \/ kept'[c[1]] \subseteq data'[c]
      BY <2>2, <2>3, <3>1, <3>2
    <3> HIDE DEF Restoring
    <3>5. ASSUME NEW m \in Modules
          PROVE  /\ ~Loaded(m) => kept'[m] \subseteq tmpData[m]
                 /\ Loaded(m) =>
                      /\ kept'[m] \subseteq tmpData[m] \cup data'[Current(m)]
                      /\ Restoring(m) \/ kept'[m] \subseteq data'[Current(m)]
                      /\ Current(m) \in told => kept'[m] \subseteq tmpData[m]
      <4>1. CASE m = c[1]
        BY <2>7, <3>1, <3>4, <4>1
      <4>2. CASE m # c[1]
        BY <3>3, <4>2
      <4> QED
        BY <4>1, <4>2
    <3>6. \A m \in Modules : Restoring(m)' = Restoring(m)
      BY <2>1 DEF Restoring
    <3> QED
      BY <2>1, <3>5, <3>6
  <2> QED
    BY <2>6, <2>7
<1>17. ASSUME NEW c \in Containers, Exit(c) PROVE KeptInv'
  BY <1>17 DEF Exit
<1>18. ASSUME NEW m \in Modules, RequestUnload(m) PROVE KeptInv'
  BY <1>18 DEF RequestUnload
<1>19. ASSUME NEW m \in Modules, RequestReload(m) PROVE KeptInv'
  BY <1>19 DEF RequestReload
<1>20. ASSUME NEW e \in Emitters, EmitEvent(e) PROVE KeptInv'
  BY <1>20 DEF EmitEvent
<1>21. ASSUME NEW e \in Emitters, PushEvent(e) PROVE KeptInv'
  BY <1>21 DEF PushEvent
<1>22. CASE UNCHANGED vars
  BY <1>22
<1> QED
  BY <1>1, <1>2, <1>3, <1>4, <1>5, <1>6, <1>7, <1>8, <1>9, <1>10,
     <1>11, <1>12, <1>13, <1>14, <1>15, <1>16, <1>17, <1>18, <1>19,
     <1>20, <1>21, <1>22 DEF Next, Main, Terminated

\* access_module() fails only for a module that was never there or whose
\* build failed.
LEMMA CrashStep ==
  ASSUME MaxLoads \in Nat, TypeInv, LoadInv, UnloadInv, CrashesHaveACause, [Next]_vars
  PROVE  CrashesHaveACause'
<1> USE DEF TypeInv, LoadInv, UnloadInv, CrashesHaveACause, Loaded, vars,
            roundVars, tableVars, requestVars, emitVars, dataVars
<1>1. CASE LoadModule
  BY <1>1 DEF LoadModule
<1>2. CASE InitModule
  BY <1>2 DEF InitModule
<1>3. CASE Continue
  BY <1>3 DEF Continue
<1>4. CASE GrabRequests
  BY <1>4 DEF GrabRequests
<1>5. CASE SendUnload
  <2>1. /\ mainPc = "send" /\ toSend # <<>>
        /\ UNCHANGED <<buildFailed, missing>>
        /\ mainPc' = mainPc \/ ~Loaded(Head(toSend))
    BY <1>5 DEF SendUnload
  <2>2. Head(toSend) \in ToSet(toSend)
    BY <2>1, TailsElements
  <2> QED
    BY <2>1, <2>2
<1>6. CASE EraseModule
  BY <1>6 DEF EraseModule
<1>7. CASE JoinModule
  BY <1>7 DEF JoinModule
<1>8. CASE Boot
  BY <1>8 DEF Boot
<1>9. CASE NextLoop
  BY <1>9 DEF NextLoop
<1>10. CASE SkipModule
  BY <1>10 DEF SkipModule
<1>11. CASE RequestModuleStop
  BY <1>11 DEF RequestModuleStop
<1>12. CASE CheckShutdown
  BY <1>12 DEF CheckShutdown
<1>13. CASE StopModule
  BY <1>13 DEF StopModule
<1>14. CASE WaitForModule
  BY <1>14 DEF WaitForModule
<1>15. CASE RequestShutdown
  BY <1>15 DEF RequestShutdown
<1>16. ASSUME NEW c \in Containers, HandleEvent(c) PROVE CrashesHaveACause'
  BY <1>16 DEF HandleEvent
<1>17. ASSUME NEW c \in Containers, Exit(c) PROVE CrashesHaveACause'
  BY <1>17 DEF Exit
<1>18. ASSUME NEW m \in Modules, RequestUnload(m) PROVE CrashesHaveACause'
  BY <1>18 DEF RequestUnload
<1>19. ASSUME NEW m \in Modules, RequestReload(m) PROVE CrashesHaveACause'
  BY <1>19 DEF RequestReload
<1>20. ASSUME NEW e \in Emitters, EmitEvent(e) PROVE CrashesHaveACause'
  BY <1>20 DEF EmitEvent
<1>21. ASSUME NEW e \in Emitters, PushEvent(e) PROVE CrashesHaveACause'
  BY <1>21 DEF PushEvent
<1>22. CASE UNCHANGED vars
  BY <1>22
<1> QED
  BY <1>1, <1>2, <1>3, <1>4, <1>5, <1>6, <1>7, <1>8, <1>9, <1>10,
     <1>11, <1>12, <1>13, <1>14, <1>15, <1>16, <1>17, <1>18, <1>19,
     <1>20, <1>21, <1>22 DEF Next, Main, Terminated

\* What load_module() does to the load order.
LEMMA LoadModuleOrder ==
  ASSUME LoadModule
  PROVE  /\ UNCHANGED <<toStop, subs>> /\ mainPc' \in {"init", "continue", "loop"}
         /\ \/ UNCHANGED <<loadOrder, newer>> /\ NotBuilt
            \/ /\ loadOrder' = Append(loadOrder, Head(toLoad))
               /\ LoadedLast(Head(toLoad))
<1>1. NotBuilt \/ Publish(Head(toLoad))
  BY DEF LoadModule, NotBuilt
<1>2. CASE NotBuilt /\ UNCHANGED <<loadOrder, newer>>
  BY <1>2 DEF LoadModule
<1>3. CASE Publish(Head(toLoad)) /\ mainPc' = "init"
  BY <1>3 DEF LoadModule, Publish
<1> QED
  BY <1>2, <1>3 DEF LoadModule, NotBuilt

\* Who is to be stopped: containers of m_modules, each as often and as late as
\* in the load order from its end.
LEMMA UnloadOrderIs ==
  ASSUME MaxLoads \in Nat, TypeInv, loadOrder \in Seq(Modules)
  PROVE  /\ UnloadOrder \in Seq(Containers)
         /\ \E place \in [1..Len(UnloadOrder) -> 1..Len(loadOrder)] :
              /\ \A k \in 1..Len(UnloadOrder) :
                   /\ Loaded(loadOrder[place[k]])
                   /\ UnloadOrder[k] = Current(loadOrder[place[k]])
              /\ \A k, l \in 1..Len(UnloadOrder) : place[k] < place[l] => l < k
              /\ \A i \in 1..Len(loadOrder) :
                   Loaded(loadOrder[i]) =>
                     \E k \in 1..Len(UnloadOrder) : place[k] = i
<1> DEFINE S == {m \in Modules : Loaded(m)}
           o == Only(loadOrder, S)
           n == Len(o)
<1> HIDE DEF S
<1>1. o \in Seq(Modules) /\ Selected(loadOrder, S, o)
  BY OnlyPlaces
<1>2. PICK at : Places(at, loadOrder, S, o)
  BY <1>1 DEF Selected
<1>3. UnloadOrder = [i \in DOMAIN Reverse(o) |-> Current(Reverse(o)[i])]
  BY DEF UnloadOrder, S
<1> HIDE DEF o
<1> USE DEF Places
<1>4. n \in Nat /\ Reverse(o) = [i \in 1..n |-> o[(n - i) + 1]]
  BY <1>1 DEF Reverse
<1>5. \A i \in 1..n : (n - i) + 1 \in 1..n
  BY <1>4
<1>6. UnloadOrder = [i \in 1..n |-> Current(o[(n - i) + 1])]
  BY <1>3, <1>4
<1>7. \A i \in 1..n : o[i] \in S /\ Current(o[i]) \in Containers
  <2>1. ASSUME NEW m \in Modules, Loaded(m) PROVE Current(m) \in Containers
    BY <2>1 DEF Current, Loaded, Containers, TypeInv
  <2> QED
    BY <1>1, <1>2, <2>1 DEF S
<1>8. UnloadOrder \in [1..n -> Containers]
  BY <1>5, <1>6, <1>7
<1>9. UnloadOrder \in Seq(Containers) /\ Len(UnloadOrder) = n
  BY <1>4, <1>8
<1> DEFINE place == [i \in 1..n |-> at[(n - i) + 1]]
<1>10. place \in [1..n -> 1..Len(loadOrder)]
  BY <1>2, <1>5
<1>11. \A k \in 1..n : /\ Loaded(loadOrder[place[k]])
                       /\ UnloadOrder[k] = Current(loadOrder[place[k]])
  BY <1>2, <1>5, <1>6 DEF S
<1>12. ASSUME NEW k \in 1..n, NEW l \in 1..n, place[k] < place[l] PROVE l < k
  <2>1. (n - k) + 1 \in 1..n /\ (n - l) + 1 \in 1..n
    BY <1>5
  <2>2. CASE k = l
    BY <1>2, <1>12, <2>1, <2>2
  <2>3. CASE k < l
    <3>1. at[(n - l) + 1] < at[(n - k) + 1]
      <4>1. (n - l) + 1 < (n - k) + 1
        <5> HIDE DEF n
        <5> QED
          BY <1>4, <2>3
      <4> QED
        BY <1>2, <2>1, <4>1
    <3>2. place[k] = at[(n - k) + 1] /\ place[l] = at[(n - l) + 1]
      OBVIOUS
    <3> HIDE DEF place
    <3> HIDE DEF n
    <3>3. place[k] \in Nat /\ place[l] \in Nat
      <4>1. place[k] \in 1..Len(loadOrder) /\ place[l] \in 1..Len(loadOrder)
        BY <1>10
      <4> QED
        BY <4>1
    <3> QED
      BY <1>12, <3>1, <3>2, <3>3
  <2> QED
    BY <1>4, <2>2, <2>3
<1>13. ASSUME NEW i \in 1..Len(loadOrder), Loaded(loadOrder[i])
       PROVE  \E k \in 1..n : place[k] = i
  <2>1. loadOrder[i] \in S
    BY <1>13 DEF S
  <2>2. PICK k \in 1..n : at[k] = i
    BY <1>2, <2>1
  <2>3. (n - k) + 1 \in 1..n /\ (n - ((n - k) + 1)) + 1 = k
    BY <1>4
  <2>4. place[(n - k) + 1] = i
    BY <2>2, <2>3
  <2> QED
    BY <2>3, <2>4
<1> HIDE DEF place, n
<1> QED
  BY <1>9, <1>10, <1>11, <1>12, <1>13

LEMMA CurrentIsContainer ==
  ASSUME MaxLoads \in Nat, TypeInv, NEW m \in Modules, Loaded(m)
  PROVE  Current(m) \in Containers
BY DEF TypeInv, Loaded, Current, Containers

\* The load order and the subscriptions keep their types.
LEMMA SeqStep ==
  ASSUME MaxLoads \in Nat, TypeInv, LoadInv, SeqInv, [Next]_vars
  PROVE  SeqInv'
<1> USE DEF TypeInv, LoadInv, SeqInv, Containers, Current, Loaded, vars,
     roundVars, tableVars, requestVars, emitVars, dataVars
<1>1. CASE LoadModule
  <2>1. /\ mainPc \in {"boot", "load"} /\ toLoad # <<>>
        /\ ~Loaded(Head(toLoad)) /\ Head(toLoad) \in Modules
        /\ Published(Head(toLoad)) \/ NotBuilt
        /\ UNCHANGED <<toSend, toUnload, dataVars, requestVars, missing>>
    BY <1>1, LoadModuleOutcome
  <2>2. UNCHANGED <<toStop, subs>>
    BY <1>1, LoadModuleOrder
  <2>3. CASE UNCHANGED <<loadOrder, newer>>
    BY <2>2, <2>3
  <2>4. CASE loadOrder' = Append(loadOrder, Head(toLoad)) /\ LoadedLast(Head(toLoad))
    BY SMTT(30), <2>1, <2>2, <2>4 DEF LoadedLast
  <2> QED
    BY <1>1, <2>3, <2>4, LoadModuleOrder
<1>2. CASE InitModule
  <2>1. Current(Head(toLoad)) \in Containers
    BY SMTT(30), <1>2 DEF InitModule
  <2> QED
    BY <1>2, <2>1 DEF InitModule
<1>3. CASE Continue
  BY <1>3 DEF Continue
<1>4. CASE GrabRequests
  BY <1>4 DEF GrabRequests
<1>5. CASE SendUnload
  BY <1>5 DEF SendUnload
<1>6. CASE EraseModule
  <2>1. Current(Head(toUnload)) \in Containers
    BY <1>6 DEF EraseModule
  <2>2. subs' \in Seq(Containers)
    BY <1>6, OnlyPlaces DEF EraseModule
  <2> QED
    BY <1>6, <2>1, <2>2 DEF EraseModule
<1>7. CASE JoinModule
  BY <1>7 DEF JoinModule
<1>8. CASE Boot
  BY <1>8 DEF Boot
<1>9. CASE NextLoop
  BY <1>9 DEF NextLoop
<1>10. CASE SkipModule
  BY <1>10 DEF SkipModule
<1>11. CASE RequestModuleStop
  BY <1>11 DEF RequestModuleStop
<1>12. CASE CheckShutdown
  BY <1>12, UnloadOrderIs DEF CheckShutdown
<1>13. CASE StopModule
  <2>1. toStop # <<>> => Tail(toStop) \in Seq(Containers)
    OBVIOUS
  <2>2. UnloadOrder \in Seq(Containers)
    BY UnloadOrderIs
  <2>3. toStop' \in Seq(Containers) /\ UNCHANGED <<subs, loadOrder, newer>>
    BY <1>13, <2>1, <2>2 DEF StopModule
  <2> QED
    BY <2>3
<1>14. CASE WaitForModule
  <2>1. toStop # <<>> => Tail(toStop) \in Seq(Containers)
    OBVIOUS
  <2>2. toStop' \in Seq(Containers) /\ UNCHANGED <<subs, loadOrder, newer>>
    BY <1>14, <2>1 DEF WaitForModule
  <2> QED
    BY <2>2
<1>15. CASE RequestShutdown
  BY <1>15 DEF RequestShutdown
<1>16. ASSUME NEW c \in Containers, HandleEvent(c) PROVE SeqInv'
  BY <1>16 DEF HandleEvent
<1>17. ASSUME NEW c \in Containers, Exit(c) PROVE SeqInv'
  BY <1>17 DEF Exit
<1>18. ASSUME NEW m \in Modules, RequestUnload(m) PROVE SeqInv'
  BY <1>18 DEF RequestUnload
<1>19. ASSUME NEW m \in Modules, RequestReload(m) PROVE SeqInv'
  BY <1>19 DEF RequestReload
<1>20. ASSUME NEW e \in Emitters, EmitEvent(e) PROVE SeqInv'
  BY <1>20 DEF EmitEvent
<1>21. ASSUME NEW e \in Emitters, PushEvent(e) PROVE SeqInv'
  BY <1>21 DEF PushEvent
<1>22. CASE UNCHANGED vars
  BY <1>22
<1> QED
  BY <1>1, <1>2, <1>3, <1>4, <1>5, <1>6, <1>7, <1>8, <1>9, <1>10, <1>11,
     <1>12, <1>13, <1>14, <1>15, <1>16, <1>17, <1>18, <1>19, <1>20,
     <1>21, <1>22 DEF Next, Main, Terminated

\* Subscriptions come with init() and go with the container.
LEMMA SubsStep ==
  ASSUME MaxLoads \in Nat, TypeInv, LoadInv, SeqInv, SubsInv, [Next]_vars
  PROVE  SubsInv'
<1> USE DEF TypeInv, LoadInv, SeqInv, SubsInv, Containers, Current,
     Loaded, vars, roundVars, tableVars, requestVars, emitVars, dataVars
<1>1. CASE LoadModule
  <2>1. /\ mainPc \in {"boot", "load"} /\ toLoad # <<>>
        /\ ~Loaded(Head(toLoad)) /\ Head(toLoad) \in Modules
        /\ Published(Head(toLoad)) \/ NotBuilt
        /\ UNCHANGED <<toSend, toUnload, dataVars, requestVars, missing>>
    BY <1>1, LoadModuleOutcome
  <2>2. UNCHANGED subs
    BY <1>1, LoadModuleOrder
  <2>3. CASE Published(Head(toLoad))
    <3>0. \A i \in 1..Len(subs) : subs[i] \in Containers
      OBVIOUS
    <3>1. \A i \in 1..Len(subs) : subs[i][1] # Head(toLoad) /\ subs[i][1] \in Modules
      BY <2>1, <3>0
    <3>2. \A m \in Modules \ {Head(toLoad)} : container'[m] = container[m]
      BY <2>3 DEF Published
    <3>3. toLoad' = toLoad
      BY <2>3 DEF Published
    <3> QED
      BY <2>2, <3>1, <3>2, <3>3
  <2>4. CASE NotBuilt
    <3>1. mainPc' # "init" /\ UNCHANGED container
      BY <2>4 DEF NotBuilt
    <3> QED
      BY <2>2, <3>1
  <2> QED
    BY <2>1, <2>3, <2>4
<1>2. CASE InitModule
  <2> DEFINE m == Head(toLoad)
  <2>1. /\ m \in Modules /\ Loaded(m) /\ Current(m) \in Containers
        /\ Current(m)[1] = m /\ mainPc = "init"
    BY <1>2 DEF InitModule
  <2>2. /\ subs' = Append(subs, Current(m)) /\ UNCHANGED container
        /\ mainPc' # "init"
    BY <1>2 DEF InitModule
  <2> HIDE DEF m
  <2>3. /\ Len(subs') = Len(subs) + 1 /\ Len(subs) \in Nat
        /\ subs'[Len(subs) + 1] = Current(m)
        /\ \A i \in 1..Len(subs) : subs'[i] = subs[i]
    <3> HIDE DEF Current, Containers
    <3> QED
      BY SMTT(30), <2>1, <2>2
  <2>4. \A i \in 1..Len(subs) : subs[i] # Current(m)
    BY <2>1 DEF m
  <2>5. \A i \in 1..Len(subs') : i = Len(subs) + 1 \/ i \in 1..Len(subs)
    BY SMTT(30), <2>3
  <2>6. \A i \in 1..Len(subs') : Loaded(subs'[i][1]) /\ subs'[i] = Current(subs'[i][1])
    BY <2>1, <2>3, <2>5
  <2>7. \A i, j \in 1..Len(subs') : subs'[i] = subs'[j] => i = j
    BY <2>3, <2>4, <2>5
  <2> QED
    BY <2>2, <2>6, <2>7
<1>3. CASE Continue
  BY <1>3 DEF Continue
<1>4. CASE GrabRequests
  BY <1>4 DEF GrabRequests
<1>5. CASE SendUnload
  BY <1>5 DEF SendUnload
<1>6. CASE EraseModule
  <2> DEFINE m == Head(toUnload)
             c == Current(m)
             S == Containers \ {c}
  <2>1. /\ m \in Modules /\ subs' = Only(subs, S) /\ mainPc' = "request"
        /\ container' = [container EXCEPT ![m] = 0]
    BY <1>6 DEF EraseModule
  <2> HIDE DEF S, m
  <2> DEFINE r == Only(subs, S)
  <2>2. r \in Seq(Containers) /\ Selected(subs, S, r)
    <3>1. subs \in Seq(Containers)
      OBVIOUS
    <3> HIDE DEF SubsInv, Containers, TypeInv, LoadInv, SeqInv
    <3> QED
      BY <3>1, OnlyPlaces
  <2>3. PICK place : Places(place, subs, S, r)
    BY <2>2 DEF Selected
  <2> USE DEF Places
  <2> HIDE DEF r
  <2>4. /\ \A k \in 1..Len(r) : place[k] \in 1..Len(subs) /\ place[k] \in Nat
        /\ Len(r) \in Nat /\ subs' = r
    BY SMTT(30), <2>1, <2>2, <2>3 DEF r
  <2>5. ASSUME NEW k \in 1..Len(r)
        PROVE  (Loaded(subs[k][1]) /\ subs[k] = Current(subs[k][1]))'
    <3> DEFINE x == subs[place[k]]
    <3>1. subs'[k] = x /\ x \in Containers /\ x # c /\ Loaded(x[1]) /\ x = Current(x[1])
      BY <2>3, <2>4 DEF S
    <3> HIDE DEF x
    <3>2. x[1] \in Modules /\ x[1] # m
      BY <3>1
    <3>3. container'[x[1]] = container[x[1]]
      BY <2>1, <3>2
    <3> QED
      BY <3>1, <3>3
  <2>6. ASSUME NEW k \in 1..Len(r), NEW l \in 1..Len(r), r[k] = r[l] PROVE k = l
    <3>1. place[k] \in 1..Len(subs) /\ place[l] \in 1..Len(subs)
      BY <2>4
    <3>2. subs[place[k]] = subs[place[l]]
      BY <2>3, <2>6
    <3>3. place[k] = place[l]
      BY <3>1, <3>2
    <3>4. k < l => place[k] < place[l]
      BY <2>3
    <3>5. l < k => place[l] < place[k]
      BY <2>3
    <3> HIDE DEF SubsInv, TypeInv, LoadInv, SeqInv
    <3>6. place[k] \in Nat /\ k \in Nat /\ l \in Nat
      BY <2>4
    <3> QED
      BY <3>3, <3>4, <3>5, <3>6
  <2> QED
    BY <2>1, <2>4, <2>5, <2>6
<1>7. CASE JoinModule
  BY <1>7 DEF JoinModule
<1>8. CASE Boot
  BY <1>8 DEF Boot
<1>9. CASE NextLoop
  BY <1>9 DEF NextLoop
<1>10. CASE SkipModule
  BY <1>10 DEF SkipModule
<1>11. CASE RequestModuleStop
  BY <1>11 DEF RequestModuleStop
<1>12. CASE CheckShutdown
  BY <1>12 DEF CheckShutdown
<1>13. CASE StopModule
  BY <1>13 DEF StopModule
<1>14. CASE WaitForModule
  BY <1>14 DEF WaitForModule
<1>15. CASE RequestShutdown
  BY <1>15 DEF RequestShutdown
<1>16. ASSUME NEW c \in Containers, HandleEvent(c) PROVE SubsInv'
  BY <1>16 DEF HandleEvent
<1>17. ASSUME NEW c \in Containers, Exit(c) PROVE SubsInv'
  BY <1>17 DEF Exit
<1>18. ASSUME NEW m \in Modules, RequestUnload(m) PROVE SubsInv'
  BY <1>18 DEF RequestUnload
<1>19. ASSUME NEW m \in Modules, RequestReload(m) PROVE SubsInv'
  BY <1>19 DEF RequestReload
<1>20. ASSUME NEW e \in Emitters, EmitEvent(e) PROVE SubsInv'
  BY <1>20 DEF EmitEvent
<1>21. ASSUME NEW e \in Emitters, PushEvent(e) PROVE SubsInv'
  BY <1>21 DEF PushEvent
<1>22. CASE UNCHANGED vars
  BY <1>22
<1> QED
  BY <1>1, <1>2, <1>3, <1>4, <1>5, <1>6, <1>7, <1>8, <1>9, <1>10, <1>11,
     <1>12, <1>13, <1>14, <1>15, <1>16, <1>17, <1>18, <1>19, <1>20,
     <1>21, <1>22 DEF Next, Main, Terminated

\* Threads of loaded modules are not asked to stop before the shutdown.
LEMMA RunStep ==
  ASSUME MaxLoads \in Nat, TypeInv, LoadInv, SeqInv, RunInv, [Next]_vars
  PROVE  RunInv'
<1> USE DEF TypeInv, LoadInv, SeqInv, RunInv, Containers, Current,
     Loaded, vars, roundVars, tableVars, requestVars, emitVars, dataVars
<1>1. CASE LoadModule
  <2>1. /\ mainPc \in {"boot", "load"} /\ toLoad # <<>>
        /\ ~Loaded(Head(toLoad)) /\ Head(toLoad) \in Modules
        /\ Published(Head(toLoad)) \/ NotBuilt
        /\ UNCHANGED <<toSend, toUnload, dataVars, requestVars, missing>>
    BY <1>1, LoadModuleOutcome
  <2>2. UNCHANGED <<toStop, subs>>
    BY <1>1, LoadModuleOrder
  <2>3. CASE Published(Head(toLoad))
    <3> DEFINE n == Head(toLoad)
    <3>1. /\ mainPc' = "init" /\ UNCHANGED <<toLoad, toStop>>
          /\ container' = [container EXCEPT ![n] = built[n] + 1]
          /\ state' = [state EXCEPT ![<<n, built[n] + 1>>] = "loaded"]
      BY <2>2, <2>3 DEF Published
    <3>2. ASSUME NEW m \in Modules, m # n, Loaded(m)'
          PROVE  (state[Current(m)] = "ready")'
      <4>1. container'[m] = container[m] /\ Current(m) \in Containers
        BY <2>1, <3>1, <3>2
      <4>2. state[Current(m)] = "ready"
        BY <2>1, <3>2, <4>1
      <4>3. Current(m)' = Current(m) /\ Current(m) # <<n, built[n] + 1>>
        BY <3>2, <4>1
      <4> QED
        BY <3>1, <4>1, <4>2, <4>3
    <3> QED
      BY <3>1, <3>2
  <2>4. CASE NotBuilt
    BY <2>1, <2>2, <2>4 DEF NotBuilt
  <2> QED
    BY <2>1, <2>3, <2>4
<1>2. CASE InitModule
  <2> DEFINE n == Head(toLoad)
  <2>1. /\ n \in Modules /\ Loaded(n) /\ Current(n) \in Containers /\ mainPc = "init"
        /\ state' = [state EXCEPT ![Current(n)] = "ready"]
        /\ UNCHANGED <<container, toStop>> /\ mainPc' \in {"continue", "boot"}
    BY SMTT(30), <1>2 DEF InitModule
  <2>2. ASSUME NEW m \in Modules, Loaded(m) PROVE state'[Current(m)] = "ready"
    <3>1. Current(m) \in Containers
      BY <2>2
    <3>2. m # n => state[Current(m)] = "ready"
      BY <2>1, <2>2
    <3> HIDE DEF Current, n
    <3> QED
      BY <2>1, <3>1, <3>2
  <2> QED
    BY <2>1, <2>2
<1>3. CASE Continue
  BY <1>3 DEF Continue
<1>4. CASE GrabRequests
  BY <1>4 DEF GrabRequests
<1>5. CASE SendUnload
  BY <1>5 DEF SendUnload
<1>6. CASE EraseModule
  <2> DEFINE n == Head(toUnload)
  <2>1. /\ n \in Modules /\ Loaded(n) /\ mainPc = "erase" /\ mainPc' = "request"
        /\ toStop' = <<Current(n)>> /\ UNCHANGED state
        /\ container' = [container EXCEPT ![n] = 0]
    BY <1>6 DEF EraseModule
  <2>2. ASSUME NEW m \in Modules, Loaded(m)' PROVE (state[Current(m)] = "ready")'
    <3>1. m # n /\ container'[m] = container[m]
      BY <2>1, <2>2
    <3>2. state[Current(m)] = "ready"
      BY <2>1, <2>2, <3>1
    <3> QED
      BY <2>1, <3>1, <3>2
  <2>3. toStop' # <<>> /\ Head(toStop') = <<n, container[n]>>
    BY <2>1
  <2>4. container'[n] # container[n]
    BY <2>1
  <2> HIDE DEF n
  <2>5. (Head(toStop) # Current(Head(toStop)[1]))'
    BY <2>3, <2>4
  <2> QED
    BY <2>1, <2>2, <2>3, <2>5
<1>7. CASE JoinModule
  BY <1>7 DEF JoinModule
<1>8. CASE Boot
  BY <1>8 DEF Boot
<1>9. CASE NextLoop
  BY <1>9 DEF NextLoop
<1>10. CASE SkipModule
  BY <1>10 DEF SkipModule
<1>11. CASE RequestModuleStop
  <2>1. /\ mainPc = "request" /\ mainPc' = "join" /\ UNCHANGED <<toStop, container>>
        /\ state' = [state EXCEPT ![Head(toStop)] = "stopping"]
    BY <1>11 DEF RequestModuleStop
  <2>2. ASSUME NEW m \in Modules, Loaded(m) PROVE state'[Current(m)] = "ready"
    <3>1. Current(m) \in Containers /\ Current(m)[1] = m
      BY <2>2
    <3>2. Current(m) # Head(toStop)
      BY <2>1, <3>1
    <3> QED
      BY <2>1, <2>2, <3>1, <3>2
  <2> QED
    BY <2>1, <2>2
<1>12. CASE CheckShutdown
  BY <1>12 DEF CheckShutdown
<1>13. CASE StopModule
  BY <1>13 DEF StopModule
<1>14. CASE WaitForModule
  BY <1>14 DEF WaitForModule
<1>15. CASE RequestShutdown
  BY <1>15 DEF RequestShutdown
<1>16. ASSUME NEW c \in Containers, HandleEvent(c) PROVE RunInv'
  BY <1>16 DEF HandleEvent
<1>17. ASSUME NEW c \in Containers, Exit(c) PROVE RunInv'
  <2>1. /\ state[c] = "stopping" /\ state' = [state EXCEPT ![c] = "exited"]
        /\ UNCHANGED <<mainPc, container, toLoad, toStop>>
    BY <1>17 DEF Exit
  <2>2. \A d \in Containers : state[d] = "ready" => state'[d] = "ready"
    BY <2>1
  <2>3. \A m \in Modules : Loaded(m) => Current(m) \in Containers
    OBVIOUS
  <2> QED
    BY <2>1, <2>2, <2>3
<1>18. ASSUME NEW m \in Modules, RequestUnload(m) PROVE RunInv'
  BY <1>18 DEF RequestUnload
<1>19. ASSUME NEW m \in Modules, RequestReload(m) PROVE RunInv'
  BY <1>19 DEF RequestReload
<1>20. ASSUME NEW e \in Emitters, EmitEvent(e) PROVE RunInv'
  BY <1>20 DEF EmitEvent
<1>21. ASSUME NEW e \in Emitters, PushEvent(e) PROVE RunInv'
  BY <1>21 DEF PushEvent
<1>22. CASE UNCHANGED vars
  BY <1>22
<1> QED
  BY <1>1, <1>2, <1>3, <1>4, <1>5, <1>6, <1>7, <1>8, <1>9, <1>10, <1>11,
     <1>12, <1>13, <1>14, <1>15, <1>16, <1>17, <1>18, <1>19, <1>20,
     <1>21, <1>22 DEF Next, Main, Terminated

\* Whoever is loaded goes to the end of the load order.
LEMMA NewerStep ==
  ASSUME MaxLoads \in Nat, TypeInv, SeqInv, NewerInv, [Next]_vars
  PROVE  NewerInv'
<1> USE DEF NewerInv, vars, roundVars, tableVars, requestVars, emitVars,
     dataVars
<1>1. CASE LoadModule
  <2>1. /\ mainPc \in {"boot", "load"} /\ toLoad # <<>>
        /\ ~Loaded(Head(toLoad)) /\ Head(toLoad) \in Modules
        /\ Published(Head(toLoad)) \/ NotBuilt
        /\ UNCHANGED <<toSend, toUnload, dataVars, requestVars, missing>>
    BY <1>1, LoadModuleOutcome
  <2>2. CASE UNCHANGED <<loadOrder, newer>>
    BY <2>2
  <2>3. CASE loadOrder' = Append(loadOrder, Head(toLoad)) /\ LoadedLast(Head(toLoad))
    <3> DEFINE m == Head(toLoad)
               n == Len(loadOrder)
    <3>1. /\ n \in Nat /\ Len(loadOrder') = n + 1 /\ loadOrder'[n + 1] = m
          /\ \A i \in 1..n : loadOrder'[i] = loadOrder[i]
      BY <2>1, <2>3 DEF SeqInv
    <3>2. ASSUME NEW p \in newer', NEW i \in 1..(n + 1), loadOrder'[i] = p[2]
          PROVE  \E j \in 1..(n + 1) : i < j /\ loadOrder'[j] = p[1]
      <4>1. CASE p \in newer /\ m \notin {p[1], p[2]}
        <5>1. i # n + 1
          BY <3>1, <3>2, <4>1
        <5>2. i \in 1..n
          BY <3>1, <3>2, <5>1
        <5>3. loadOrder[i] = p[2]
          BY <3>1, <3>2, <5>2
        <5>4. PICK j \in 1..n : i < j /\ loadOrder[j] = p[1]
          BY <4>1, <5>2, <5>3
        <5> QED
          BY <3>1, <5>4
      <4>2. CASE p \in {<<m, q>> : q \in {q \in Modules \ {m} : Loaded(q)}}
        <5>1. p[1] = m /\ p[2] # m
          BY <4>2
        <5>2. i # n + 1
          BY <3>1, <3>2, <5>1
        <5>3. i < n + 1 /\ n + 1 \in 1..(n + 1)
          BY <3>1, <3>2, <5>2
        <5> QED
          BY <3>1, <5>1, <5>3
      <4> QED
        BY <2>3, <4>1, <4>2 DEF LoadedLast
    <3> QED
      BY <3>1, <3>2
  <2> QED
    BY <1>1, <2>2, <2>3, LoadModuleOrder
<1>2. CASE InitModule
  BY <1>2 DEF InitModule
<1>3. CASE Continue
  BY <1>3 DEF Continue
<1>4. CASE GrabRequests
  BY <1>4 DEF GrabRequests
<1>5. CASE SendUnload
  BY <1>5 DEF SendUnload
<1>6. CASE EraseModule
  BY <1>6 DEF EraseModule
<1>7. CASE JoinModule
  BY <1>7 DEF JoinModule
<1>8. CASE Boot
  BY <1>8 DEF Boot
<1>9. CASE NextLoop
  BY <1>9 DEF NextLoop
<1>10. CASE SkipModule
  BY <1>10 DEF SkipModule
<1>11. CASE RequestModuleStop
  BY <1>11 DEF RequestModuleStop
<1>12. CASE CheckShutdown
  BY <1>12 DEF CheckShutdown
<1>13. CASE StopModule
  BY <1>13 DEF StopModule
<1>14. CASE WaitForModule
  BY <1>14 DEF WaitForModule
<1>15. CASE RequestShutdown
  BY <1>15 DEF RequestShutdown
<1>16. ASSUME NEW c \in Containers, HandleEvent(c) PROVE NewerInv'
  BY <1>16 DEF HandleEvent
<1>17. ASSUME NEW c \in Containers, Exit(c) PROVE NewerInv'
  BY <1>17 DEF Exit
<1>18. ASSUME NEW m \in Modules, RequestUnload(m) PROVE NewerInv'
  BY <1>18 DEF RequestUnload
<1>19. ASSUME NEW m \in Modules, RequestReload(m) PROVE NewerInv'
  BY <1>19 DEF RequestReload
<1>20. ASSUME NEW e \in Emitters, EmitEvent(e) PROVE NewerInv'
  BY <1>20 DEF EmitEvent
<1>21. ASSUME NEW e \in Emitters, PushEvent(e) PROVE NewerInv'
  BY <1>21 DEF PushEvent
<1>22. CASE UNCHANGED vars
  BY <1>22
<1> QED
  BY <1>1, <1>2, <1>3, <1>4, <1>5, <1>6, <1>7, <1>8, <1>9, <1>10, <1>11,
     <1>12, <1>13, <1>14, <1>15, <1>16, <1>17, <1>18, <1>19, <1>20,
     <1>21, <1>22 DEF Next, Main, Terminated

\* The shutdown asks the modules to stop from the end of the load order.
LEMMA StopStep ==
  ASSUME MaxLoads \in Nat, TypeInv, SeqInv, NewerInv, StopInv, [Next]_vars
  PROVE  StopInv'
<1> USE DEF TypeInv, SeqInv, vars, roundVars, tableVars, requestVars,
     emitVars, dataVars
<1>1. CASE LoadModule
  <2>1. /\ mainPc \in {"boot", "load"} /\ toLoad # <<>>
        /\ ~Loaded(Head(toLoad)) /\ Head(toLoad) \in Modules
        /\ Published(Head(toLoad)) \/ NotBuilt
        /\ UNCHANGED <<toSend, toUnload, dataVars, requestVars, missing>>
    BY <1>1, LoadModuleOutcome
  <2>2. mainPc' # "stop"
    BY <1>1, LoadModuleOrder
  <2> QED
    BY <2>2 DEF StopInv
<1>2. CASE InitModule
  <2>1. mainPc' # "stop"
    BY <1>2 DEF InitModule
  <2> QED
    BY <2>1 DEF StopInv
<1>3. CASE Continue
  <2>1. mainPc' # "stop"
    BY <1>3 DEF Continue
  <2> QED
    BY <2>1 DEF StopInv
<1>4. CASE GrabRequests
  <2>1. mainPc' # "stop"
    BY <1>4 DEF GrabRequests
  <2> QED
    BY <2>1 DEF StopInv
<1>5. CASE SendUnload
  <2>1. mainPc' # "stop"
    BY <1>5 DEF SendUnload
  <2> QED
    BY <2>1 DEF StopInv
<1>6. CASE EraseModule
  <2>1. mainPc' # "stop"
    BY <1>6 DEF EraseModule
  <2> QED
    BY <2>1 DEF StopInv
<1>7. CASE JoinModule
  <2>1. mainPc' # "stop"
    BY <1>7 DEF JoinModule
  <2> QED
    BY <2>1 DEF StopInv
<1>8. CASE Boot
  <2>1. mainPc' # "stop"
    BY <1>8 DEF Boot
  <2> QED
    BY <2>1 DEF StopInv
<1>9. CASE NextLoop
  <2>1. mainPc' # "stop"
    BY <1>9 DEF NextLoop
  <2> QED
    BY <2>1 DEF StopInv
<1>10. CASE SkipModule
  <2>1. mainPc' # "stop"
    BY <1>10 DEF SkipModule
  <2> QED
    BY <2>1 DEF StopInv
<1>11. CASE RequestModuleStop
  <2>1. mainPc' # "stop"
    BY <1>11 DEF RequestModuleStop
  <2> QED
    BY <2>1 DEF StopInv
<1>12. CASE CheckShutdown
  <2>1. CASE mainPc' = "stop"
    <3>1. toStop' = UnloadOrder /\ UNCHANGED <<container, newer, loadOrder, state>>
      BY <1>12, <2>1 DEF CheckShutdown
    <3>2. PICK place \in [1..Len(toStop') -> 1..Len(loadOrder)] :
            /\ \A k \in 1..Len(toStop') :
                 /\ Loaded(loadOrder[place[k]])
                 /\ toStop'[k] = Current(loadOrder[place[k]])
            /\ \A k, l \in 1..Len(toStop') : place[k] < place[l] => l < k
            /\ \A i \in 1..Len(loadOrder) :
                 Loaded(loadOrder[i]) => \E k \in 1..Len(toStop') : place[k] = i
      BY <3>1, UnloadOrderIs
    <3>3. ASSUME NEW p \in newer, NEW k \in 1..Len(toStop'),
                 Loaded(p[1]), toStop'[k] = Current(p[2])
          PROVE  \E l \in 1..Len(toStop') : l < k /\ toStop'[l] = Current(p[1])
      <4>1. place[k] \in 1..Len(loadOrder) /\ loadOrder[place[k]] = p[2]
        BY <3>2, <3>3 DEF Current
      <4>2. PICK j \in 1..Len(loadOrder) : place[k] < j /\ loadOrder[j] = p[1]
        BY <4>1 DEF NewerInv
      <4>3. PICK l \in 1..Len(toStop') : place[l] = j
        BY <3>2, <3>3, <4>2
      <4>4. l < k /\ toStop'[l] = Current(p[1])
        BY <3>2, <4>2, <4>3
      <4> QED
        BY <4>4
    <3> QED
      BY <3>1, <3>3 DEF StopInv, Loaded, Current
  <2>2. CASE mainPc' # "stop"
    BY <2>2 DEF StopInv
  <2> QED
    BY <2>1, <2>2
<1>13. CASE StopModule
  <2>1. CASE toStop # <<>>
    <3> DEFINE t == Tail(toStop)
               c == Head(toStop)
    <3>1. /\ mainPc = "stop" /\ toStop' = t /\ UNCHANGED <<container, newer>>
          /\ state' = [state EXCEPT ![c] = IF state[c] = "exited" THEN "exited"
                                                                  ELSE "stopping"]
      BY <1>13, <2>1 DEF StopModule
    <3>2. /\ c \in Containers /\ c = toStop[1] /\ Len(toStop) \in Nat
          /\ Len(t) = Len(toStop) - 1
          /\ \A i \in 1..Len(t) : i + 1 \in 1..Len(toStop) /\ t[i] = toStop[i + 1]
      BY <2>1
    <3> HIDE DEF t, c
    <3>3. state'[c] # "ready" /\ \A d : state[d] # "ready" /\ d \in Containers => state'[d] # "ready"
      BY <3>1, <3>2
    <3>4. ASSUME NEW p \in newer, NEW k \in 1..Len(t), Loaded(p[1]),
                 t[k] = Current(p[2])
          PROVE  \/ AskedToStop(p[1])'
                 \/ \E l \in 1..Len(t) : l < k /\ t[l] = Current(p[1])
      <4>1. /\ k + 1 \in 1..Len(toStop) /\ toStop[k + 1] = Current(p[2])
            /\ p[1] \in Modules
        BY <3>2, <3>4
      <4>0. Current(p[1]) \in Containers
        BY <3>4, <4>1, CurrentIsContainer
      <4>2. CASE AskedToStop(p[1])
        BY <3>1, <3>3, <4>0, <4>2 DEF AskedToStop, Loaded, Current
      <4>3. ASSUME NEW l \in 1..Len(toStop), l < k + 1, toStop[l] = Current(p[1])
            PROVE  \/ AskedToStop(p[1])'
                   \/ \E i \in 1..Len(t) : i < k /\ t[i] = Current(p[1])
        <5>1. CASE l = 1
          <6>1. Current(p[1]) = c
            BY <3>2, <4>3, <5>1
          <6> QED
            BY <3>1, <3>3, <3>4, <6>1 DEF AskedToStop, Loaded, Current
        <5>2. CASE l # 1
          <6> HIDE DEF TypeInv, SeqInv
          <6>1. l - 1 \in 1..Len(t) /\ l - 1 < k
            BY <3>2, <4>3, <5>2
          <6>2. t[l - 1] = toStop[(l - 1) + 1] /\ (l - 1) + 1 = l
            BY <3>2, <4>3, <6>1
          <6> QED
            BY <4>3, <6>1, <6>2
        <5> QED
          BY <5>1, <5>2
      <4> QED
        BY <3>1, <3>4, <4>1, <4>2, <4>3 DEF StopInv
    <3>5. \A m : (Loaded(m)' <=> Loaded(m)) /\ Current(m)' = Current(m)
      BY <3>1 DEF Loaded, Current
    <3> HIDE DEF TypeInv, SeqInv
    <3>6. ASSUME NEW p \in newer', NEW k \in 1..Len(toStop'), Loaded(p[1])',
                 toStop'[k] = Current(p[2])'
          PROVE  \/ AskedToStop(p[1])'
                 \/ \E l \in 1..Len(toStop') :
                      l < k /\ toStop'[l] = Current(p[1])'
      BY <3>1, <3>4, <3>5, <3>6
    <3> QED
      BY <3>6 DEF StopInv
  <2>2. CASE toStop = <<>>
    BY <1>13, <2>2 DEF StopModule, StopInv
  <2> QED
    BY <2>1, <2>2
<1>14. CASE WaitForModule
  <2>1. mainPc' # "stop"
    BY <1>14 DEF WaitForModule
  <2> QED
    BY <2>1 DEF StopInv
<1>15. CASE RequestShutdown
  BY <1>15 DEF RequestShutdown, StopInv, AskedToStop, Loaded, Current
<1>16. ASSUME NEW c \in Containers, HandleEvent(c) PROVE StopInv'
  <2>1. UNCHANGED <<mainPc, container, newer, toStop, state>>
    BY <1>16 DEF HandleEvent
  <2> QED
    BY <2>1 DEF StopInv, AskedToStop, Loaded, Current
<1>17. ASSUME NEW c \in Containers, Exit(c) PROVE StopInv'
  <2>1. /\ UNCHANGED <<container, newer, toStop, mainPc>> /\ state[c] = "stopping"
        /\ state' = [state EXCEPT ![c] = "exited"]
    BY <1>17 DEF Exit
  <2>2. \A m : AskedToStop(m) => AskedToStop(m)'
    BY <2>1 DEF AskedToStop, Loaded, Current
  <2> QED
    BY <2>1, <2>2 DEF StopInv, Loaded, Current
<1>18. ASSUME NEW m \in Modules, RequestUnload(m) PROVE StopInv'
  BY <1>18 DEF RequestUnload, StopInv, AskedToStop, Loaded, Current
<1>19. ASSUME NEW m \in Modules, RequestReload(m) PROVE StopInv'
  BY <1>19 DEF RequestReload, StopInv, AskedToStop, Loaded, Current
<1>20. ASSUME NEW e \in Emitters, EmitEvent(e) PROVE StopInv'
  BY <1>20 DEF EmitEvent, StopInv, AskedToStop, Loaded, Current
<1>21. ASSUME NEW e \in Emitters, PushEvent(e) PROVE StopInv'
  BY <1>21 DEF PushEvent, StopInv, AskedToStop, Loaded, Current
<1>22. CASE UNCHANGED vars
  BY <1>22 DEF StopInv, AskedToStop, Loaded, Current
<1> QED
  BY <1>1, <1>2, <1>3, <1>4, <1>5, <1>6, <1>7, <1>8, <1>9, <1>10, <1>11,
     <1>12, <1>13, <1>14, <1>15, <1>16, <1>17, <1>18, <1>19, <1>20,
     <1>21, <1>22 DEF Next, Main, Terminated

\* Nobody is asked to stop before who was loaded later.
LEMMA NewestFirstStep ==
  ASSUME MaxLoads \in Nat, TypeInv, SeqInv, RunInv, StopInv, StopsNewestFirst, [Next]_vars
  PROVE  StopsNewestFirst'
<1> USE DEF TypeInv, SeqInv, vars, roundVars, tableVars, requestVars,
     emitVars, dataVars
<1>1. CASE LoadModule
  <2>1. /\ mainPc \in {"boot", "load"} /\ toLoad # <<>>
        /\ ~Loaded(Head(toLoad)) /\ Head(toLoad) \in Modules
        /\ Published(Head(toLoad)) \/ NotBuilt
        /\ UNCHANGED <<toSend, toUnload, dataVars, requestVars, missing>>
    BY <1>1, LoadModuleOutcome
  <2>2. mainPc' \notin {"stop", "wait"}
    BY <1>1, LoadModuleOrder
  <2> QED
    BY <2>2 DEF StopsNewestFirst
<1>2. CASE InitModule
  <2>1. mainPc' \notin {"stop", "wait"}
    BY <1>2 DEF InitModule
  <2> QED
    BY <2>1 DEF StopsNewestFirst
<1>3. CASE Continue
  <2>1. mainPc' \notin {"stop", "wait"}
    BY <1>3 DEF Continue
  <2> QED
    BY <2>1 DEF StopsNewestFirst
<1>4. CASE GrabRequests
  <2>1. mainPc' \notin {"stop", "wait"}
    BY <1>4 DEF GrabRequests
  <2> QED
    BY <2>1 DEF StopsNewestFirst
<1>5. CASE SendUnload
  <2>1. mainPc' \notin {"stop", "wait"}
    BY <1>5 DEF SendUnload
  <2> QED
    BY <2>1 DEF StopsNewestFirst
<1>6. CASE EraseModule
  <2>1. mainPc' \notin {"stop", "wait"}
    BY <1>6 DEF EraseModule
  <2> QED
    BY <2>1 DEF StopsNewestFirst
<1>7. CASE JoinModule
  <2>1. mainPc' \notin {"stop", "wait"}
    BY <1>7 DEF JoinModule
  <2> QED
    BY <2>1 DEF StopsNewestFirst
<1>8. CASE Boot
  <2>1. mainPc' \notin {"stop", "wait"}
    BY <1>8 DEF Boot
  <2> QED
    BY <2>1 DEF StopsNewestFirst
<1>9. CASE NextLoop
  <2>1. mainPc' \notin {"stop", "wait"}
    BY <1>9 DEF NextLoop
  <2> QED
    BY <2>1 DEF StopsNewestFirst
<1>10. CASE SkipModule
  <2>1. mainPc' \notin {"stop", "wait"}
    BY <1>10 DEF SkipModule
  <2> QED
    BY <2>1 DEF StopsNewestFirst
<1>11. CASE RequestModuleStop
  <2>1. mainPc' \notin {"stop", "wait"}
    BY <1>11 DEF RequestModuleStop
  <2> QED
    BY <2>1 DEF StopsNewestFirst
<1>12. CASE CheckShutdown
  <2>1. /\ mainPc = "check" /\ UNCHANGED <<container, newer, state>>
        /\ mainPc' \in {"stop", "loop"}
    BY <1>12 DEF CheckShutdown
  <2>2. \A m \in Modules : ~AskedToStop(m)'
    BY <2>1 DEF AskedToStop, Loaded, Current, RunInv
  <2>3. \A p \in newer' : p[2] \in Modules
    BY <2>1
  <2> QED
    BY <2>2, <2>3 DEF StopsNewestFirst
<1>13. CASE StopModule
  <2>1. CASE toStop # <<>>
    <3> DEFINE c == Head(toStop)
    <3>1. /\ mainPc = "stop" /\ UNCHANGED <<container, newer>>
          /\ state' = [state EXCEPT ![c] = IF state[c] = "exited" THEN "exited"
                                                                  ELSE "stopping"]
      BY <1>13, <2>1 DEF StopModule
    <3>2. c \in Containers /\ c = toStop[1] /\ 1 \in 1..Len(toStop)
      BY <2>1
    <3> HIDE DEF c
    <3>3. /\ \A d : d # c => state'[d] = state[d]
          /\ \A d \in Containers : state[d] # "ready" => state'[d] # "ready"
      BY <3>1, <3>2
    <3>4. ASSUME NEW p \in newer, Loaded(p[1]), AskedToStop(p[2])'
          PROVE  AskedToStop(p[1])'
      <4>1. Current(p[1]) \in Containers
        BY <3>4 DEF Current, Loaded, Containers
      <4>2. AskedToStop(p[1]) => AskedToStop(p[1])'
        BY <3>1, <3>3, <4>1 DEF AskedToStop, Loaded, Current
      <4>3. CASE AskedToStop(p[2])
        BY <3>1, <3>4, <4>2, <4>3 DEF StopsNewestFirst
      <4>4. CASE ~AskedToStop(p[2])
        <5>1. Current(p[2]) = c
          BY <3>1, <3>3, <3>4, <4>4 DEF AskedToStop, Loaded, Current
        <5>2. ~\E l \in 1..Len(toStop) : l < 1 /\ toStop[l] = Current(p[1])
          OBVIOUS
        <5>3. toStop[1] = Current(p[2])
          BY <3>2, <5>1
        <5>4. AskedToStop(p[1])
          BY <3>1, <3>2, <3>4, <5>2, <5>3 DEF StopInv
        <5> QED
          BY <4>2, <5>4
      <4> QED
        BY <4>3, <4>4
    <3>5. \A m : Loaded(m)' <=> Loaded(m)
      BY <3>1 DEF Loaded
    <3> QED
      BY <3>1, <3>4, <3>5 DEF StopsNewestFirst
  <2>2. CASE toStop = <<>>
    BY <1>13, <2>2 DEF StopModule, StopsNewestFirst, AskedToStop, Loaded, Current
  <2> QED
    BY <2>1, <2>2
<1>14. CASE WaitForModule
  BY <1>14 DEF WaitForModule, StopsNewestFirst, AskedToStop, Loaded, Current
<1>15. CASE RequestShutdown
  BY <1>15 DEF RequestShutdown, StopsNewestFirst, AskedToStop, Loaded, Current
<1>16. ASSUME NEW c \in Containers, HandleEvent(c) PROVE StopsNewestFirst'
  BY <1>16 DEF HandleEvent, StopsNewestFirst, AskedToStop, Loaded, Current
<1>17. ASSUME NEW c \in Containers, Exit(c) PROVE StopsNewestFirst'
  <2>1. /\ UNCHANGED <<container, newer, mainPc>> /\ state[c] = "stopping"
        /\ state' = [state EXCEPT ![c] = "exited"]
    BY <1>17 DEF Exit
  <2>2. \A m : Loaded(m)' <=> Loaded(m)
    BY <2>1 DEF Loaded
  <2>3. \A d : d # c => state'[d] = state[d]
    BY <2>1
  <2>4. state'[c] # "ready"
    BY <2>1
  <2>5. ASSUME NEW m PROVE AskedToStop(m)' <=> AskedToStop(m)
    <3>1. CASE Current(m) = c
      BY <2>1, <2>2, <2>4, <3>1 DEF AskedToStop, Current
    <3>2. CASE Current(m) # c
      BY <2>1, <2>2, <2>3, <3>2 DEF AskedToStop, Current
    <3> QED
      BY <3>1, <3>2
  <2> QED
    BY <2>1, <2>2, <2>5 DEF StopsNewestFirst
<1>18. ASSUME NEW m \in Modules, RequestUnload(m) PROVE StopsNewestFirst'
  BY <1>18 DEF RequestUnload, StopsNewestFirst, AskedToStop, Loaded, Current
<1>19. ASSUME NEW m \in Modules, RequestReload(m) PROVE StopsNewestFirst'
  BY <1>19 DEF RequestReload, StopsNewestFirst, AskedToStop, Loaded, Current
<1>20. ASSUME NEW e \in Emitters, EmitEvent(e) PROVE StopsNewestFirst'
  BY <1>20 DEF EmitEvent, StopsNewestFirst, AskedToStop, Loaded, Current
<1>21. ASSUME NEW e \in Emitters, PushEvent(e) PROVE StopsNewestFirst'
  BY <1>21 DEF PushEvent, StopsNewestFirst, AskedToStop, Loaded, Current
<1>22. CASE UNCHANGED vars
  BY <1>22 DEF StopsNewestFirst, AskedToStop, Loaded, Current
<1> QED
  BY <1>1, <1>2, <1>3, <1>4, <1>5, <1>6, <1>7, <1>8, <1>9, <1>10, <1>11,
     <1>12, <1>13, <1>14, <1>15, <1>16, <1>17, <1>18, <1>19, <1>20,
     <1>21, <1>22 DEF Next, Main, Terminated

-----------------------------------------------------------------------------
(* The theorems *)

LEMMA Invariance == Spec => []IInv
<1>1. Init => IInv
  <2>1. IsFiniteSet({})
    BY FS_EmptySet
  <2>2. Init => TypeInv
    <3> SUFFICES ASSUME Init PROVE TypeInv
      OBVIOUS
    <3> USE DEF Init
    <3>1. /\ DOMAIN state = Containers /\ state = [c \in Containers |-> state[c]]
          /\ DOMAIN data = Containers /\ data = [c \in Containers |-> data[c]]
      OBVIOUS
    <3>2. /\ DOMAIN tmpData = Modules /\ tmpData = [m \in Modules |-> tmpData[m]]
          /\ DOMAIN kept = Modules /\ kept = [m \in Modules |-> kept[m]]
      OBVIOUS
    <3>3. /\ container \in [Modules -> 0..MaxLoads]
          /\ built \in [Modules -> 0..MaxLoads]
      BY BoundsAssumption
    <3>4. /\ toSend \in Seq(Modules) /\ toUnload \in Seq(Modules)
          /\ toLoad \in Seq(Modules) /\ reloads \in Seq(Modules)
      BY OrderAssumption
    <3> QED
      BY <2>1, <3>1, <3>2, <3>3, <3>4 DEF TypeInv
  <2>3. Init => NumberInv /\ LoadInv /\ UnloadInv
    BY BoundsAssumption DEF Init, NumberInv, LoadInv, UnloadInv, ToSet
  <2>4. Init => ReadyInv /\ CrashesHaveACause
    BY DEF Init, ReadyInv, CrashesHaveACause
  <2>5. Init => KeptInv
    BY DEF Init, KeptInv, Loaded
  <2> QED
    BY <2>2, <2>3, <2>4, <2>5 DEF IInv
<1>2. IInv /\ [Next]_vars => IInv'
  BY BoundsAssumption, TypeStep, NumberStep, LoadStep, UnloadStep, ReadyStep,
     KeptStep, CrashStep DEF IInv
<1> QED
  BY <1>1, <1>2, PTL DEF Spec

\* What a module handled before its core:unload handler is in what it stored
\* or in its data, and between two rounds in its data: no reload loses it.
THEOREM StateIsKept == Spec => []StateSurvives
<1>1. IInv => StateSurvives
  BY DEF IInv, KeptInv, StateSurvives, Memory, Restoring, Loaded
<1> QED
  BY <1>1, Invariance, PTL

\* The server dies of a module that is not there only after a failed build, or
\* if the module was not there when the round began.
THEOREM DiesWithACause == Spec => []CrashesHaveACause
<1>1. IInv => CrashesHaveACause
  BY DEF IInv
<1> QED
  BY <1>1, Invariance, PTL

LEMMA OrderInvariance == Spec => []OrderInv
<1>1. Init => OrderInv
  <2> SUFFICES ASSUME Init PROVE OrderInv
    OBVIOUS
  <2> USE DEF Init
  <2>1. SeqInv /\ SubsInv
    BY DEF SeqInv, SubsInv
  <2>2. RunInv /\ NewerInv /\ StopInv /\ StopsNewestFirst
    BY DEF RunInv, NewerInv, StopInv, StopsNewestFirst, Loaded
  <2> QED
    BY <2>1, <2>2 DEF OrderInv
<1>2. IInv /\ OrderInv /\ [Next]_vars => OrderInv'
  BY BoundsAssumption, SeqStep, SubsStep, RunStep, NewerStep, StopStep,
     NewestFirstStep DEF IInv, OrderInv
<1> QED
  BY <1>1, <1>2, Invariance, PTL DEF Spec

\* emit_event() finds every loaded module at most once among the subscribers,
\* and nobody else, in whichever order modules come and go.
THEOREM SubscriptionsFollow == Spec => []SubscribersAreLoaded
<1>1. OrderInv => SubscribersAreLoaded
  BY DEF OrderInv, SubsInv, SubscribersAreLoaded
<1> QED
  BY <1>1, OrderInvariance, PTL

\* get_modules_in_unload_order(), which keeps every load of a module, has the
\* shutdown ask each module to stop only after all that were loaded after it.
THEOREM ShutdownOrder == Spec => []StopsNewestFirst
<1>1. OrderInv => StopsNewestFirst
  BY DEF OrderInv
<1> QED
  BY <1>1, OrderInvariance, PTL

=============================================================================
