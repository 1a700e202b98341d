----------------------------- MODULE Quic_proofs ----------------------------
(***************************************************************************)
(* Theorems about the parts of landro-quic that share no state: the pool,  *)
(* the stream transfers, the transfer engine, the breaker with the monitor, *)
(* and the handshake.  Each is proved for the component by itself, for any *)
(* number of peers, connections, callers, chunks and attempts.             *)
(***************************************************************************)
EXTENDS ConnectionPool, StreamTransfer, TransferEngine, CircuitBreaker, Handshake,
        FiniteSetTheorems, TLAPS

(* Cardinalities of finite sets that gain, lose or keep elements. *)
LEMMA CardAdd ==
    ASSUME NEW S, IsFiniteSet(S), NEW x, x \notin S
    PROVE  /\ IsFiniteSet(S \cup {x}) /\ Cardinality(S) \in Nat
           /\ Cardinality(S \cup {x}) = Cardinality(S) + 1
  BY FS_AddElement, FS_CardinalityType

LEMMA CardRemove ==
    ASSUME NEW S, IsFiniteSet(S), NEW x \in S
    PROVE  /\ IsFiniteSet(S \ {x}) /\ Cardinality(S \ {x}) \in Nat
           /\ Cardinality(S) = Cardinality(S \ {x}) + 1
<1>1. IsFiniteSet(S \ {x}) /\ Cardinality(S \ {x}) = Cardinality(S) - 1
  BY FS_RemoveElement
<1>2. Cardinality(S) \in Nat /\ Cardinality(S \ {x}) \in Nat
  BY <1>1, FS_CardinalityType
<1> QED BY <1>1, <1>2

LEMMA CardSubset ==
    ASSUME NEW S, IsFiniteSet(S), NEW T \in SUBSET S
    PROVE  /\ IsFiniteSet(T) /\ Cardinality(T) \in Nat /\ Cardinality(S) \in Nat
           /\ Cardinality(T) <= Cardinality(S)
  BY FS_Subset, FS_CardinalityType

(***************************************************************************)
(* The connection pool.                                                    *)
(***************************************************************************)
(* The pool alone. *)
PoolSpec == PoolInit /\ [][PoolNext]_pvars

PoolTypes ==
    /\ pool \in [Peers -> SUBSET Conns] /\ streams \in [Conns -> {0, 1}]
    /\ made \subseteq Conns /\ foreign \subseteq Conns
    /\ pc \in [Callers -> {"idle", "check", "connect", "add", "using"}]
    /\ peer \in [Callers -> Peers] /\ conn \in [Callers -> Conns \cup {NoConn}]

(* The pool and the callers hold connections that were made. *)
HeldIsMade ==
    /\ \A p \in Peers : pool[p] \subseteq made
    /\ \A c \in Callers : pc[c] \in {"add", "using"} => conn[c] \in made

(* A connection that is about to be added is its creator's alone. *)
AddingAlone ==
    \A c \in Callers : pc[c] = "add" =>
        /\ c \in Reconnectors => conn[c] \in foreign
        /\ \A p \in Peers : conn[c] \notin pool[p]
        /\ \A d \in Callers \ {c} : pc[d] \in {"add", "using"} => conn[d] # conn[c]

(* A connection that counts no stream is used by its creator at most. *)
SharedByTwo(k) ==
    /\ Cardinality(Users(k)) <= 2
    /\ streams[k] = 0 => Cardinality(Users(k)) <= 1

WithinLimit(p) ==
    Cardinality(pool[p] \ foreign) + Cardinality(Creating(p))
        < MaxPerPeer + Cardinality(Callers \ Reconnectors)

PoolInv ==
    /\ PoolTypes /\ HeldIsMade /\ AddingAlone
    /\ \A p \in Peers : WithinLimit(p)
    /\ \A k \in Conns : SharedByTwo(k)

(* A step that adds nothing to either side of the sum keeps the limit. *)
LEMMA LimitKept ==
    ASSUME PoolTypes, NEW p \in Peers, WithinLimit(p),
           pool'[p] \ foreign' \subseteq pool[p] \ foreign, Creating(p)' \subseteq Creating(p)
    PROVE  WithinLimit(p)'
<1>2. IsFiniteSet(pool[p] \ foreign) /\ IsFiniteSet(Creating(p)) /\ IsFiniteSet(Callers \ Reconnectors)
  BY PoolAssumption, CardSubset DEF PoolTypes, Creating
<1>3. /\ Cardinality(pool'[p] \ foreign') <= Cardinality(pool[p] \ foreign)
      /\ Cardinality(Creating(p)') <= Cardinality(Creating(p))
      /\ Cardinality(pool'[p] \ foreign') \in Nat /\ Cardinality(pool[p] \ foreign) \in Nat
      /\ Cardinality(Creating(p)') \in Nat /\ Cardinality(Creating(p)) \in Nat
  BY <1>2, CardSubset
<1>4. Cardinality(Callers \ Reconnectors) \in Nat /\ MaxPerPeer \in Nat
  BY <1>2, PoolAssumption, FS_CardinalityType DEF PoolConfig
<1> QED BY <1>3, <1>4 DEF WithinLimit

LEMMA SharingKept ==
    ASSUME PoolTypes, NEW k \in Conns, SharedByTwo(k),
           Users(k)' \subseteq Users(k), streams'[k] = 0 => streams[k] = 0
    PROVE  SharedByTwo(k)'
<1>1. IsFiniteSet(Users(k))
  BY PoolAssumption, CardSubset DEF Users
<1>2. /\ Cardinality(Users(k)') <= Cardinality(Users(k))
      /\ Cardinality(Users(k)') \in Nat /\ Cardinality(Users(k)) \in Nat
  BY <1>1, CardSubset
<1> QED BY <1>2 DEF SharedByTwo

LEMMA CallersKeep ==
    ASSUME PoolInv, NEW c \in Callers,
           \/ \E p \in Peers : FindNothing(c, p) \/ Reconnect(c, p)
           \/ ConnectFails(c) \/ Done(c) \/ (Check(c) /\ ~can_create_new_connection(peer[c]))
    PROVE  PoolInv'
<1> USE PoolAssumption DEF PoolConfig, PoolTypes
<1>0. PoolTypes /\ HeldIsMade /\ AddingAlone
      /\ (\A p \in Peers : WithinLimit(p)) /\ (\A k \in Conns : SharedByTwo(k))
  BY DEF PoolInv
<1>1. PoolTypes' /\ UNCHANGED <<pool, streams, made, foreign>>
  BY <1>0 DEF FindNothing, Reconnect, ConnectFails, Done, Check
<1>5. ASSUME NEW d \in Callers PROVE
        /\ pc'[d] \in {"add", "using"} => pc[d] = pc'[d] /\ conn'[d] = conn[d]
        /\ d \notin Reconnectors /\ pc'[d] \in {"connect", "add"}
           => pc[d] = pc'[d] /\ peer'[d] = peer[d]
  BY <1>0 DEF FindNothing, Reconnect, ConnectFails, Done, Check
<1>2. HeldIsMade' /\ AddingAlone'
  BY <1>0, <1>1, <1>5 DEF HeldIsMade, AddingAlone
<1>3. ASSUME NEW p \in Peers PROVE WithinLimit(p)'
  <2>1. Creating(p)' \subseteq Creating(p)
    BY <1>0, <1>1, <1>5 DEF Creating
  <2> QED BY <1>0, <1>1, <2>1, LimitKept
<1>4. ASSUME NEW k \in Conns PROVE SharedByTwo(k)'
  <2>1. Users(k)' \subseteq Users(k)
    BY <1>0, <1>1, <1>5 DEF Users
  <2> QED BY <1>0, <1>1, <2>1, SharingKept
<1> QED BY <1>1, <1>2, <1>3, <1>4 DEF PoolInv

(* The test precedes the connection by a while, but it admits a caller only *)
(* while the pool itself is below the limit.                                *)
LEMMA CheckKeeps ==
    ASSUME PoolInv, NEW c \in Callers, Check(c), can_create_new_connection(peer[c])
    PROVE  PoolInv'
<1> USE PoolAssumption DEF PoolConfig, PoolTypes
<1>0. PoolTypes /\ HeldIsMade /\ AddingAlone
      /\ (\A p \in Peers : WithinLimit(p)) /\ (\A k \in Conns : SharedByTwo(k))
  BY DEF PoolInv
<1>1. /\ PoolTypes' /\ UNCHANGED <<pool, streams, made, foreign, peer, conn>>
      /\ pc[c] = "check" /\ pc' = [pc EXCEPT ![c] = "connect"]
  BY <1>0 DEF Check
<1>2. HeldIsMade' /\ AddingAlone'
  BY <1>0, <1>1 DEF HeldIsMade, AddingAlone
<1>3. ASSUME NEW p \in Peers PROVE WithinLimit(p)'
  <2>1. CASE p # peer[c]
    <3>1. Creating(p)' \subseteq Creating(p)
      BY <1>0, <1>1, <2>1 DEF Creating
    <3> QED BY <1>0, <1>1, <3>1, LimitKept
  <2>2. CASE p = peer[c]
    <3>1. IsFiniteSet(pool[p]) /\ IsFiniteSet(Callers \ Reconnectors)
      BY <1>0, CardSubset
    <3>2. /\ Cardinality(pool'[p] \ foreign') <= Cardinality(pool[p])
          /\ Cardinality(pool'[p] \ foreign') \in Nat /\ Cardinality(pool[p]) \in Nat
      BY <1>1, <3>1, CardSubset
    <3>3. /\ Cardinality(Creating(p)') <= Cardinality(Callers \ Reconnectors)
          /\ Cardinality(Creating(p)') \in Nat /\ Cardinality(Callers \ Reconnectors) \in Nat
      <4>1. Creating(p)' \in SUBSET (Callers \ Reconnectors)
        BY DEF Creating
      <4> QED BY <3>1, <4>1, CardSubset
    <3>4. Cardinality(pool[p]) < MaxPerPeer
      BY <2>2 DEF can_create_new_connection
    <3> QED BY <3>2, <3>3, <3>4 DEF WithinLimit
  <2> QED BY <2>1, <2>2
<1>4. ASSUME NEW k \in Conns PROVE SharedByTwo(k)'
  <2>1. Users(k)' \subseteq Users(k)
    BY <1>0, <1>1 DEF Users
  <2> QED BY <1>0, <1>1, <2>1, SharingKept
<1> QED BY <1>1, <1>2, <1>3, <1>4 DEF PoolInv

LEMMA ConnectKeeps ==
    ASSUME PoolInv, NEW c \in Callers, Connect(c) PROVE PoolInv'
<1> USE PoolAssumption DEF PoolConfig, PoolTypes
<1>0. PoolTypes /\ HeldIsMade /\ AddingAlone
      /\ (\A p \in Peers : WithinLimit(p)) /\ (\A k \in Conns : SharedByTwo(k))
  BY DEF PoolInv
<1>1. PICK k \in Conns \ made :
        /\ conn' = [conn EXCEPT ![c] = k] /\ made' = made \cup {k}
        /\ foreign' = IF c \in Reconnectors THEN foreign \cup {k} ELSE foreign
  BY DEF Connect
<1>2. pc[c] = "connect" /\ pc' = [pc EXCEPT ![c] = "add"] /\ UNCHANGED <<pool, streams, peer>>
  BY DEF Connect
<1>3. PoolTypes' /\ HeldIsMade'
  BY <1>0, <1>1, <1>2 DEF HeldIsMade
<1>4. AddingAlone'
  BY <1>0, <1>1, <1>2 DEF AddingAlone, HeldIsMade
<1>5. ASSUME NEW p \in Peers PROVE WithinLimit(p)'
  <2>1. Creating(p)' \subseteq Creating(p)
    BY <1>0, <1>2 DEF Creating
  <2>2. pool'[p] \ foreign' \subseteq pool[p] \ foreign
    BY <1>1, <1>2
  <2> QED BY <1>0, <2>1, <2>2, LimitKept
<1>6. ASSUME NEW j \in Conns PROVE SharedByTwo(j)'
  <2>1. Users(j)' \subseteq Users(j)
    BY <1>0, <1>1, <1>2 DEF Users
  <2> QED BY <1>0, <1>2, <2>1, SharingKept
<1> QED BY <1>3, <1>4, <1>5, <1>6 DEF PoolInv

(* The creator leaves one side of the sum and its connection joins the      *)
(* other; it is the only user of an entry without streams.                  *)
LEMMA AddKeeps ==
    ASSUME PoolInv, NEW c \in Callers, add_to_pool(c) PROVE PoolInv'
<1> USE PoolAssumption DEF PoolConfig, PoolTypes
<1> DEFINE k == conn[c]
<1>0. PoolTypes /\ HeldIsMade /\ AddingAlone
      /\ (\A p \in Peers : WithinLimit(p)) /\ (\A j \in Conns : SharedByTwo(j))
  BY DEF PoolInv
<1>1. /\ pc[c] = "add" /\ k \in Conns
      /\ pool' = [pool EXCEPT ![peer[c]] = @ \cup {k}]
      /\ streams' = [streams EXCEPT ![k] = 0]
      /\ pc' = [pc EXCEPT ![c] = IF c \in Reconnectors THEN "idle" ELSE "using"]
      /\ conn' = IF c \in Reconnectors THEN [conn EXCEPT ![c] = NoConn] ELSE conn
      /\ UNCHANGED <<made, peer, foreign>>
  BY <1>0 DEF add_to_pool, HeldIsMade
<1>2. PoolTypes'
  BY <1>0, <1>1
<1>3. HeldIsMade' /\ AddingAlone'
  BY <1>0, <1>1 DEF HeldIsMade, AddingAlone
<1>4. ASSUME NEW p \in Peers PROVE WithinLimit(p)'
  <2>1. CASE p # peer[c] \/ c \in Reconnectors
    <3>1. Creating(p)' \subseteq Creating(p)
      BY <1>0, <1>1 DEF Creating
    <3>2. pool'[p] \ foreign' \subseteq pool[p] \ foreign
      BY <1>0, <1>1, <2>1 DEF AddingAlone
    <3> QED BY <1>0, <3>1, <3>2, LimitKept
  <2>2. CASE p = peer[c] /\ c \notin Reconnectors
    <3>1. c \in Creating(p) /\ Creating(p)' = Creating(p) \ {c}
      BY <1>0, <1>1, <2>2 DEF Creating
    <3>2. IsFiniteSet(Creating(p)) /\ IsFiniteSet(pool[p] \ foreign) /\ IsFiniteSet(Callers \ Reconnectors)
      BY <1>0, CardSubset DEF Creating
    <3>3. /\ Cardinality(Creating(p)) = Cardinality(Creating(p)') + 1
          /\ Cardinality(Creating(p)') \in Nat
      BY <3>1, <3>2, CardRemove
    <3>4. pool'[p] \ foreign' \subseteq (pool[p] \ foreign) \cup {k} /\ k \notin pool[p] \ foreign
      BY <1>0, <1>1, <2>2 DEF AddingAlone
    <3>5. /\ IsFiniteSet((pool[p] \ foreign) \cup {k}) /\ Cardinality(pool[p] \ foreign) \in Nat
          /\ Cardinality((pool[p] \ foreign) \cup {k}) = Cardinality(pool[p] \ foreign) + 1
      BY <3>2, <3>4, CardAdd
    <3>6. /\ Cardinality(pool'[p] \ foreign') <= Cardinality(pool[p] \ foreign) + 1
          /\ Cardinality(pool'[p] \ foreign') \in Nat
      BY <3>4, <3>5, CardSubset
    <3>7. Cardinality(Callers \ Reconnectors) \in Nat
      BY <3>2, FS_CardinalityType
    <3>8. MaxPerPeer \in Nat /\ WithinLimit(p)
      BY <1>0
    <3>9. Cardinality(pool'[p] \ foreign') + Cardinality(Creating(p)')
             < MaxPerPeer + Cardinality(Callers \ Reconnectors)
      BY <3>3, <3>5, <3>6, <3>7, <3>8, SMT DEF WithinLimit
    <3> QED BY <3>9 DEF WithinLimit
  <2> QED BY <2>1, <2>2
<1>5. ASSUME NEW j \in Conns PROVE SharedByTwo(j)'
  <2>1. CASE j # k
    <3>1. Users(j)' \subseteq Users(j)
      BY <1>0, <1>1, <2>1 DEF Users
    <3>2. streams'[j] = streams[j]
      BY <1>0, <1>1, <2>1
    <3> QED BY <1>0, <3>1, <3>2, SharingKept
  <2>2. CASE j = k
    <3>1. Users(j)' \subseteq {c}
      BY <1>0, <1>1, <2>2 DEF Users, AddingAlone
    <3>2. Cardinality(Users(j)') <= 1 /\ Cardinality(Users(j)') \in Nat
      <4>1. IsFiniteSet({c}) /\ Cardinality({c}) = 1
        BY FS_Singleton
      <4>2. Cardinality(Users(j)') <= Cardinality({c}) /\ Cardinality(Users(j)') \in Nat
        BY <3>1, <4>1, CardSubset
      <4> QED BY <4>1, <4>2
    <3> QED BY <3>2 DEF SharedByTwo
  <2> QED BY <2>1, <2>2
<1> QED BY <1>2, <1>3, <1>4, <1>5 DEF PoolInv

(* The first caller to find an entry marks it, and nobody unmarks it. *)
LEMMA ReuseKeeps ==
    ASSUME PoolInv, NEW c \in Callers, NEW p \in Peers, Reuse(c, p) PROVE PoolInv'
<1> USE PoolAssumption DEF PoolConfig, PoolTypes
<1>0. PoolTypes /\ HeldIsMade /\ AddingAlone
      /\ (\A q \in Peers : WithinLimit(q)) /\ (\A j \in Conns : SharedByTwo(j))
  BY DEF PoolInv
<1>1. PICK k \in pool[p] : /\ streams[k] = 0 /\ streams' = [streams EXCEPT ![k] = 1]
                           /\ conn' = [conn EXCEPT ![c] = k]
  BY DEF Reuse, Available, is_idle
<1>2. /\ pc[c] = "idle" /\ pc' = [pc EXCEPT ![c] = "using"] /\ peer' = [peer EXCEPT ![c] = p]
      /\ UNCHANGED <<pool, made, foreign>>
  BY DEF Reuse
<1>3. PoolTypes' /\ HeldIsMade' /\ k \in Conns
  BY <1>0, <1>1, <1>2 DEF HeldIsMade
<1>4. AddingAlone'
  BY <1>0, <1>1, <1>2 DEF AddingAlone
<1>5. ASSUME NEW q \in Peers PROVE WithinLimit(q)'
  <2>1. Creating(q)' \subseteq Creating(q)
    BY <1>0, <1>2 DEF Creating
  <2> QED BY <1>0, <1>2, <2>1, LimitKept
<1>6. ASSUME NEW j \in Conns PROVE SharedByTwo(j)'
  <2>1. CASE j # k
    <3>1. Users(j)' \subseteq Users(j) /\ streams'[j] = streams[j]
      BY <1>0, <1>1, <1>2, <2>1 DEF Users
    <3> QED BY <1>0, <3>1, SharingKept
  <2>2. CASE j = k
    <3>1. c \notin Users(j) /\ Users(j)' = Users(j) \cup {c} /\ streams'[j] = 1
      BY <1>0, <1>1, <1>2, <2>2 DEF Users
    <3>2. IsFiniteSet(Users(j))
      BY CardSubset DEF Users
    <3>3. Cardinality(Users(j)') = Cardinality(Users(j)) + 1 /\ Cardinality(Users(j)) \in Nat
      BY <3>1, <3>2, CardAdd
    <3>4. Cardinality(Users(j)) <= 1
      BY <1>0, <1>1, <2>2 DEF SharedByTwo
    <3> QED BY <3>1, <3>3, <3>4 DEF SharedByTwo
  <2> QED BY <2>1, <2>2
<1> QED BY <1>3, <1>4, <1>5, <1>6 DEF PoolInv

(* Whatever is removed or closed meanwhile makes room. *)
LEMMA RemovalKeeps ==
    ASSUME PoolInv, pool' \in [Peers -> SUBSET Conns], \A p \in Peers : pool'[p] \subseteq pool[p],
           UNCHANGED <<streams, made, caller, foreign>>
    PROVE  PoolInv'
<1>0. PoolTypes /\ HeldIsMade /\ AddingAlone
      /\ (\A p \in Peers : WithinLimit(p)) /\ (\A k \in Conns : SharedByTwo(k))
  BY DEF PoolInv
<1>1. PoolTypes' /\ HeldIsMade' /\ AddingAlone'
  BY <1>0 DEF PoolTypes, HeldIsMade, AddingAlone, caller
<1>2. ASSUME NEW p \in Peers PROVE WithinLimit(p)'
  <2>1. Creating(p)' \subseteq Creating(p) /\ pool'[p] \ foreign' \subseteq pool[p] \ foreign
    BY DEF Creating, caller
  <2> QED BY <1>0, <2>1, LimitKept
<1>3. ASSUME NEW k \in Conns PROVE SharedByTwo(k)'
  <2>1. Users(k)' \subseteq Users(k)
    BY DEF Users, caller
  <2> QED BY <1>0, <2>1, SharingKept
<1> QED BY <1>1, <1>2, <1>3 DEF PoolInv

LEMMA PoolStep == PoolInv /\ [PoolNext]_pvars => PoolInv'
<1> SUFFICES ASSUME PoolInv, [PoolNext]_pvars PROVE PoolInv'
  OBVIOUS
<1>1. ASSUME NEW c \in Callers,
             \/ \E p \in Peers : Reuse(c, p) \/ FindNothing(c, p) \/ Reconnect(c, p)
             \/ Check(c) \/ ConnectFails(c) \/ Connect(c) \/ add_to_pool(c) \/ Done(c)
      PROVE  PoolInv'
  BY <1>1, CallersKeep, CheckKeeps, ConnectKeeps, AddKeeps, ReuseKeeps
<1>2. CASE \/ \E k \in Conns : ConnectionDrops(k)
           \/ \E p \in Peers : close_peer_connections(p) \/ remove_peer_connections(p)
           \/ Cleanup \/ shutdown \/ UNCHANGED pvars
  <2>1. /\ pool' \in [Peers -> SUBSET Conns] /\ \A p \in Peers : pool'[p] \subseteq pool[p]
        /\ UNCHANGED <<streams, made, caller, foreign>>
    BY <1>2 DEF PoolInv, PoolTypes, ConnectionDrops, close_peer_connections,
                remove_peer_connections, Cleanup, shutdown, pvars
  <2> QED BY <2>1, RemovalKeeps
<1> QED BY <1>1, <1>2 DEF PoolNext

(* The connections of a peer that get_connection opened, and those it is
   opening, stay fewer than max_connections_per_peer plus the number of
   callers, and a connection is used by two callers at most, however
   get_connection, the reconnection tasks, the cleanup and removals interleave. *)
THEOREM PoolStaysBounded == PoolSpec => []PoolBounded
<1>1. PoolInit => PoolInv
  <2> SUFFICES ASSUME PoolInit PROVE PoolInv
    OBVIOUS
  <2> USE PoolAssumption DEF PoolInit, PoolConfig
  <2>1. PoolTypes /\ HeldIsMade /\ AddingAlone
    BY DEF PoolTypes, HeldIsMade, AddingAlone
  <2>2. Cardinality({}) = 0 /\ IsFiniteSet(Callers \ Reconnectors)
    BY FS_EmptySet, CardSubset
  <2>3. Cardinality(Callers \ Reconnectors) \in Nat
    BY <2>2, FS_CardinalityType
  <2>4. ASSUME NEW p \in Peers PROVE WithinLimit(p)
    <3>1. pool[p] \ foreign = {} /\ Creating(p) = {}
      BY DEF Creating
    <3> QED BY <2>2, <2>3, <3>1 DEF WithinLimit
  <2>5. ASSUME NEW k \in Conns PROVE SharedByTwo(k)
    <3>1. Users(k) = {}
      BY DEF Users
    <3> QED BY <2>2, <3>1 DEF SharedByTwo
  <2> QED BY <2>1, <2>4, <2>5 DEF PoolInv
<1>2. PoolInv => PoolBounded
  BY DEF PoolInv, PoolBounded, WithinLimit, SharedByTwo
<1> QED BY <1>1, <1>2, PoolStep, PTL DEF PoolSpec

(***************************************************************************)
(* Transfers over several streams.                                         *)
(***************************************************************************)
(* The stream transfers alone. *)
FlowSpec == FlowInit /\ [][FlowNext]_fvars

FlowTypes ==
    /\ available \in Int
    /\ acquiring \in [Senders -> {"idle", "lock", "check", "waiting", "load", "exchange"}]
    /\ current \in [Senders -> Int]
    /\ sending \in [ChunkTasks -> {"none", "queued", "sending", "sent", "failed", "reported"}]
    /\ outcome \in [Senders -> [sent : SUBSET (1..ChunksPerCall), failed : Nat]]

WindowKept ==
    /\ IsFiniteSet(Holding)
    /\ available + ChunkBytes * Cardinality(Holding) = Window

Reported(s) == {n \in 1..ChunksPerCall : sending[<<s, n>>] = "reported"}

(* The results of a call that have arrived are those of its tasks that have *)
(* reported, one each.                                                      *)
Accounted(s) ==
    /\ outcome[s].sent \subseteq Reported(s)
    /\ Cardinality(outcome[s].sent) + outcome[s].failed = Cardinality(Reported(s))

FlowInv == FlowTypes /\ WindowKept /\ \A s \in Senders : Accounted(s)

LEMMA ReportedFinite ==
    ASSUME NEW S \in SUBSET (1..ChunksPerCall)
    PROVE  IsFiniteSet(S) /\ Cardinality(S) \in Nat
<1>1. IsFiniteSet(1..ChunksPerCall)
  BY FlowAssumption, FS_Interval
<1>2. IsFiniteSet(S)
  BY <1>1, FS_Subset
<1> QED BY <1>2, FS_CardinalityType

(* Holding and the window, when the tasks that hold a permit do not change. *)
LEMMA NothingHeld ==
    ASSUME FlowInv, UNCHANGED available, Holding' = Holding PROVE WindowKept'
  BY DEF FlowInv, WindowKept

LEMMA PermitTaken ==
    ASSUME FlowInv, NEW k \in ChunkTasks, k \notin Holding,
           Holding' = Holding \cup {k}, available' = available - ChunkBytes
    PROVE  WindowKept'
<1>1. IsFiniteSet(Holding') /\ Cardinality(Holding') = Cardinality(Holding) + 1
      /\ Cardinality(Holding) \in Nat
  BY CardAdd DEF FlowInv, WindowKept
<1>2. ASSUME NEW n \in Nat PROVE ChunkBytes * (n + 1) = ChunkBytes * n + ChunkBytes
  BY FlowAssumption DEF StreamTransferConfig
<1> QED BY <1>1, <1>2, FlowAssumption DEF FlowInv, FlowTypes, WindowKept, StreamTransferConfig

LEMMA PermitDropped ==
    ASSUME FlowInv, NEW k \in Holding,
           Holding' = Holding \ {k}, available' = available + ChunkBytes
    PROVE  WindowKept'
<1>1. IsFiniteSet(Holding') /\ Cardinality(Holding) = Cardinality(Holding') + 1
      /\ Cardinality(Holding') \in Nat
  BY CardRemove DEF FlowInv, WindowKept
<1>2. ASSUME NEW n \in Nat PROVE ChunkBytes * (n + 1) = ChunkBytes * n + ChunkBytes
  BY FlowAssumption DEF StreamTransferConfig
<1> QED BY <1>1, <1>2, FlowAssumption DEF FlowInv, FlowTypes, WindowKept, StreamTransferConfig

(* What a call accounts for, when no task of it begins or ends reporting. *)
LEMMA NothingReported ==
    ASSUME FlowInv, UNCHANGED outcome, NEW s \in Senders,
           \A n \in 1..ChunksPerCall :
               sending'[<<s, n>>] = "reported" <=> sending[<<s, n>>] = "reported"
    PROVE  Accounted(s)'
<1>1. Reported(s)' = Reported(s)
  BY DEF Reported
<1> QED BY <1>1 DEF FlowInv, Accounted

LEMMA FlowStep == FlowInv /\ [FlowNext]_fvars => FlowInv'
<1> SUFFICES ASSUME FlowInv, [FlowNext]_fvars PROVE FlowInv'
  OBVIOUS
<1> USE FlowAssumption DEF FlowTypes, StreamTransferConfig, Scheduled, At, Move
<1>0. /\ FlowTypes /\ WindowKept /\ \A s \in Senders : Accounted(s)
      /\ \A s \in Senders, n \in 1..ChunksPerCall : <<s, n>> \in ChunkTasks
      /\ \A k \in ChunkTasks : k[1] \in Senders /\ k[2] \in 1..ChunksPerCall /\ k = <<k[1], k[2]>>
  BY DEF FlowInv, ChunkTasks
<1>1. ASSUME NEW s \in Senders, stream_chunks(s) PROVE FlowInv'
  <2>1. FlowTypes'
    BY <1>0, <1>1 DEF stream_chunks
  <2>2. Holding' = Holding /\ UNCHANGED available
    BY <1>0, <1>1 DEF stream_chunks, Holding
  <2>3. Accounted(s)'
    <3>1. Reported(s)' = {}
      BY <1>0, <1>1 DEF stream_chunks, Reported
    <3>2. outcome'[s].sent = {} /\ outcome'[s].failed = 0
      BY <1>0, <1>1 DEF stream_chunks
    <3> QED BY <3>1, <3>2, FS_EmptySet DEF Accounted
  <2>4. ASSUME NEW t \in Senders, t # s PROVE Accounted(t)'
    <3>1. Reported(t)' = Reported(t) /\ outcome'[t] = outcome[t]
      BY <1>0, <1>1, <2>4 DEF stream_chunks, Reported
    <3> QED BY <1>0, <3>1 DEF Accounted
  <2> QED BY <2>1, <2>2, <2>3, <2>4, NothingHeld DEF FlowInv
<1>2. ASSUME NEW s \in Senders,
             LockFlow(s) \/ Backpressure(s) \/ LoadCapacity(s) \/ ExchangeFails(s)
      PROVE  FlowInv'
  <2>1. FlowTypes' /\ UNCHANGED <<available, sending, outcome>>
    BY <1>0, <1>2 DEF LockFlow, Backpressure, LoadCapacity, ExchangeFails
  <2> QED BY <1>0, <2>1 DEF FlowInv, WindowKept, Accounted, Reported, Holding
<1>3. ASSUME NEW s \in Senders, ExchangeCapacity(s) PROVE FlowInv'
  <2>1. PICK k \in ChunkTasks : sending[k] = "queued" /\ sending' = [sending EXCEPT ![k] = "sending"]
    BY <1>3 DEF ExchangeCapacity, Spawn
  <2>2. FlowTypes'
    BY <1>0, <1>3, <2>1 DEF ExchangeCapacity, Spawn
  <2>3. k \notin Holding /\ Holding' = Holding \cup {k}
    BY <1>0, <2>1 DEF Holding
  <2>4. available' = available - ChunkBytes /\ UNCHANGED outcome
    BY <1>3 DEF ExchangeCapacity
  <2>5. WindowKept'
    BY <2>3, <2>4, PermitTaken
  <2>6. ASSUME NEW t \in Senders PROVE Accounted(t)'
    BY <1>0, <2>1, <2>4, NothingReported
  <2> QED BY <2>2, <2>5, <2>6 DEF FlowInv
<1>4. ASSUME NEW k \in ChunkTasks, send_chunk_with_timeout(k) \/ SendFails(k) PROVE FlowInv'
  <2>1. FlowTypes' /\ UNCHANGED outcome
    BY <1>0, <1>4 DEF send_chunk_with_timeout, SendFails
  <2>2. WindowKept'
    <3>1. CASE UNCHANGED <<sending, available>>
      BY <3>1, NothingHeld DEF Holding
    <3>2. CASE available' = available + ChunkBytes /\ \E r \in {"sent", "failed"} : sending' = [sending EXCEPT ![k] = r]
      <4>1. k \in Holding /\ Holding' = Holding \ {k}
        BY <1>0, <1>4, <3>2 DEF Holding, send_chunk_with_timeout, SendFails
      <4> QED BY <3>2, <4>1, PermitDropped
    <3> QED BY <1>4, <3>1, <3>2 DEF send_chunk_with_timeout, SendFails
  <2>3. ASSUME NEW t \in Senders PROVE Accounted(t)'
    BY <1>0, <1>4, <2>1, NothingReported DEF send_chunk_with_timeout, SendFails
  <2> QED BY <2>1, <2>2, <2>3 DEF FlowInv
<1>5. ASSUME NEW k \in ChunkTasks, Report(k) PROVE FlowInv'
  <2> DEFINE s == k[1]
             n == k[2]
             o == outcome[s]
             new == IF sending[k] = "sent" THEN [o EXCEPT !.sent = @ \cup {n}]
                    ELSE [o EXCEPT !.failed = @ + 1]
  <2>1. /\ sending[k] \in {"sent", "failed"} /\ sending' = [sending EXCEPT ![k] = "reported"]
        /\ outcome' = [outcome EXCEPT ![s] = new]
        /\ UNCHANGED <<available, acquiring, current>>
    <3>1. CASE sending[k] = "sent"
      BY <1>5, <3>1 DEF Report
    <3>2. CASE sending[k] = "failed"
      BY <1>5, <3>2 DEF Report
    <3> QED BY <1>5, <3>1, <3>2 DEF Report
  <2>2. s \in Senders /\ n \in 1..ChunksPerCall /\ k = <<s, n>>
        /\ o \in [sent : SUBSET (1..ChunksPerCall), failed : Nat]
    BY <1>0
  <2>3. FlowTypes'
    BY <1>0, <2>1, <2>2
  <2>4. WindowKept'
    BY <1>0, <2>1, NothingHeld DEF Holding
  <2>5. Accounted(s)'
    <3>1. n \notin Reported(s) /\ Reported(s)' = Reported(s) \cup {n}
      BY <1>0, <2>1, <2>2 DEF Reported
    <3>2. o.sent \subseteq Reported(s) /\ n \notin o.sent
          /\ Cardinality(o.sent) + o.failed = Cardinality(Reported(s))
      BY <1>0, <2>2, <3>1 DEF Accounted
    <3>3. /\ IsFiniteSet(o.sent) /\ Cardinality(o.sent) \in Nat
          /\ IsFiniteSet(Reported(s)) /\ Cardinality(Reported(s)) \in Nat
      BY <2>2, ReportedFinite DEF Reported
    <3>4. /\ Cardinality(Reported(s)') = Cardinality(Reported(s)) + 1
          /\ Cardinality(o.sent \cup {n}) = Cardinality(o.sent) + 1
      BY <3>1, <3>2, <3>3, CardAdd
    <3>5. outcome'[s] = new
      BY <1>0, <2>1, <2>2
    <3>6. new.sent \subseteq Reported(s)' /\ Cardinality(new.sent) + new.failed = Cardinality(Reported(s)')
      <4>1. CASE sending[k] = "sent"
        <5>1. new.sent = o.sent \cup {n} /\ new.failed = o.failed
          BY <2>2, <4>1
        <5> HIDE DEF new, o, n
        <5> QED BY <3>1, <3>2, <3>3, <3>4, <5>1, <2>2
      <4>2. CASE sending[k] = "failed"
        <5>1. new.sent = o.sent /\ new.failed = o.failed + 1
          BY <2>2, <4>2
        <5> HIDE DEF new, o, n
        <5> QED BY <3>1, <3>2, <3>3, <3>4, <5>1, <2>2
      <4> QED BY <2>1, <4>1, <4>2
    <3> QED BY <3>5, <3>6 DEF Accounted
  <2>6. ASSUME NEW t \in Senders, t # s PROVE Accounted(t)'
    <3>1. Reported(t)' = Reported(t) /\ outcome'[t] = outcome[t]
      BY <1>0, <2>1, <2>2, <2>6 DEF Reported
    <3> QED BY <1>0, <3>1 DEF Accounted
  <2> QED BY <2>3, <2>4, <2>5, <2>6 DEF FlowInv
<1>6. CASE UNCHANGED fvars
  BY <1>0, <1>6 DEF fvars, FlowInv, WindowKept, Accounted, Reported, Holding
<1> QED BY <1>1, <1>2, <1>3, <1>4, <1>5, <1>6 DEF FlowNext, Acquire, Send

(* However the sending tasks of stream_chunks interleave, no byte of the flow
   window is lost or invented, and a call whose tasks have all reported
   accounts for every one of its chunks, by name or as a failure. *)
THEOREM WindowAndResultsConserved == FlowSpec => []FlowConserved
<1>1. FlowInit => FlowInv
  <2> SUFFICES ASSUME FlowInit PROVE FlowInv
    OBVIOUS
  <2> USE FlowAssumption DEF FlowInit, StreamTransferConfig
  <2>1. FlowTypes
    BY DEF FlowTypes
  <2>2. Holding = {} /\ \A s \in Senders : Reported(s) = {}
    BY DEF Holding, Reported, ChunkTasks
  <2>3. WindowKept
    BY <2>2, FS_EmptySet DEF WindowKept
  <2>4. ASSUME NEW s \in Senders PROVE Accounted(s)
    <3>1. outcome[s].sent = {} /\ outcome[s].failed = 0
      OBVIOUS
    <3>2. Reported(s) = {} /\ Cardinality({}) = 0
      BY <2>2, FS_EmptySet
    <3> QED BY <3>1, <3>2 DEF Accounted
  <2> QED BY <2>1, <2>3, <2>4 DEF FlowInv
<1>2. FlowInv => FlowConserved
  <2> SUFFICES ASSUME FlowInv, NEW s \in Senders, \A k \in Scheduled(s) : sending[k] = "reported"
               PROVE  Cardinality(outcome[s].sent) + outcome[s].failed = ChunksPerCall
    BY DEF FlowInv, WindowKept, FlowConserved
  <2>1. Reported(s) = 1..ChunksPerCall
    BY DEF Reported, Scheduled, ChunkTasks
  <2>2. Cardinality(Reported(s)) = ChunksPerCall
    BY <2>1, FlowAssumption, FS_Interval
  <2> QED BY <2>2 DEF FlowInv, Accounted
<1> QED BY <1>1, <1>2, FlowStep, PTL DEF FlowSpec

(***************************************************************************)
(* The transfer engine.                                                    *)
(***************************************************************************)
(* The engine alone. *)
EngineSpec == EngineInit /\ [][EngineNext]_evars

EngineTypes ==
    /\ xfer \in [Ids -> TransferSession \cup {NoEntry}]
    /\ batch \in Ids \cup {NoEntry}
    /\ batch # NoEntry => xfer[batch] \in TransferSession

EngineInv == EngineTypes /\ CompletedHasAll

(* As many chunks as the transfer counts, all of them needed, are all that *)
(* are needed: a chunk named twice only makes the count unreachable.       *)
LEMMA CountedIsAll ==
    ASSUME NEW x \in TransferSession, x.received \subseteq x.needed,
           Cardinality(x.received) = Total(x)
    PROVE  Missing(x) = {}
<1>1. IsFiniteSet(x.needed)
  BY EngineAssumption, FS_Subset DEF TransferSession
<1>2. /\ Cardinality(x.received) <= Cardinality(x.needed)
      /\ Cardinality(x.received) = Cardinality(x.needed) => x.received = x.needed
      /\ Cardinality(x.received) \in Nat /\ Cardinality(x.needed) \in Nat
  BY <1>1, FS_Subset, FS_CardinalityType
<1> QED BY <1>2 DEF Total, Missing, TransferSession

LEMMA EngineStep == EngineInv /\ [EngineNext]_evars => EngineInv'
<1> SUFFICES ASSUME EngineInv, [EngineNext]_evars PROVE EngineInv'
  OBVIOUS
<1> USE EngineAssumption DEF EngineInv, EngineTypes, CompletedHasAll, TransferSession, Missing
<1>1. ASSUME NEW i \in Ids, start_transfer(i) PROVE EngineInv'
  <2>1. PICK x \in TransferSession : x.received = {} /\ x.status = "Active"
                               /\ xfer' = [xfer EXCEPT ![i] = x]
    BY <1>1 DEF start_transfer
  <2>2. batch' = i
    BY <1>1 DEF start_transfer
  <2> QED BY <2>1, <2>2
<1>2. ASSUME NEW i \in Ids, resume_transfer(i) PROVE EngineInv'
  BY <1>2 DEF resume_transfer
<1>3. ASSUME NEW i \in Ids, NothingMissing(i) PROVE EngineInv'
  <2>1. batch = i /\ batch' = NoEntry /\ xfer[i].needed \subseteq xfer[i].received
        /\ xfer' = [xfer EXCEPT ![i] = [xfer[i] EXCEPT !.status = "Completed"]]
    BY <1>3 DEF NothingMissing, complete_transfer
  <2>2. xfer[i] \in TransferSession
    BY <2>1
  <2>3. [xfer[i] EXCEPT !.status = "Completed"] \in TransferSession
    BY <2>2
  <2>4. \A j \in Ids : xfer'[j] = IF j = i THEN [xfer[i] EXCEPT !.status = "Completed"] ELSE xfer[j]
    BY <2>1
  <2> QED BY <2>1, <2>2, <2>3, <2>4
<1>4. ASSUME NEW i \in Ids, transfer_chunks(i) PROVE EngineInv'
  <2>1. PICK replies \in SUBSET (WantedChunks \cup {BadChunk}) :
          LET x == [xfer[i] EXCEPT !.received = @ \cup Kept(Missing(xfer[i]), replies)]
          IN xfer' = [xfer EXCEPT ![i] = IF Cardinality(x.received) = Total(x)
                                         THEN [x EXCEPT !.status = "Completed"] ELSE x]
    BY <1>4, Zenon DEF transfer_chunks
  <2> DEFINE x == [xfer[i] EXCEPT !.received = @ \cup Kept(Missing(xfer[i]), replies)]
  <2>2. x \in TransferSession /\ x.received \subseteq x.needed /\ x.needed = xfer[i].needed
        /\ xfer[i].received \subseteq x.received /\ x.status = xfer[i].status
    <3>1. xfer[i] \in TransferSession /\ (xfer[i] # NoEntry => xfer[i].received \subseteq xfer[i].needed)
      BY <1>4 DEF transfer_chunks
    <3> QED BY <3>1 DEF Kept
  <2>3. Cardinality(x.received) = Total(x) => Missing(x) = {}
    BY <2>2, CountedIsAll
  <2>4. xfer' = [xfer EXCEPT ![i] = IF Cardinality(x.received) = Total(x)
                                    THEN [x EXCEPT !.status = "Completed"] ELSE x]
    BY <2>1
  <2>5. batch' = NoEntry
    BY <1>4 DEF transfer_chunks
  <2> DEFINE y == IF Cardinality(x.received) = Total(x) THEN [x EXCEPT !.status = "Completed"] ELSE x
  <2>6. y \in TransferSession /\ y.received \subseteq y.needed
        /\ (y.status = "Completed" => y.needed \subseteq y.received)
    <3> HIDE DEF x
    <3>1. xfer[i].status = "Completed" => xfer[i].needed \subseteq xfer[i].received
      BY <1>4 DEF transfer_chunks
    <3> QED BY <2>2, <2>3, <3>1
  <2>7. xfer' = [xfer EXCEPT ![i] = y]
    BY <2>4
  <2> HIDE DEF y
  <2> QED BY <2>5, <2>6, <2>7
<1>5. ASSUME NEW i \in Ids, BatchFails(i) PROVE EngineInv'
  BY <1>5 DEF BatchFails
<1>6. ASSUME NEW i \in Ids, pause_transfer(i) PROVE EngineInv'
  BY <1>6 DEF pause_transfer
<1>7. ASSUME NEW i \in Ids, cancel_transfer(i) PROVE EngineInv'
  BY <1>7 DEF cancel_transfer
<1>8. ASSUME UNCHANGED <<xfer, batch>> PROVE EngineInv'
  BY <1>8
<1> QED
  BY <1>1, <1>2, <1>3, <1>4, <1>5, <1>6, <1>7, <1>8
     DEF EngineNext, evars, TransferTimeout, CleanupChooses, CleanupRemoves, remove_checkpoint

(* A transfer the engine calls Completed has received every chunk that was
   needed, whatever was paused, resumed, cleaned up or lost on the way. *)
THEOREM CompletedTransfersHaveAll == EngineSpec => []CompletedHasAll
<1>1. EngineInit => EngineInv
  BY EngineAssumption DEF EngineInit, EngineInv, EngineTypes, CompletedHasAll
<1>2. EngineInv => CompletedHasAll
  BY DEF EngineInv
<1> QED BY <1>1, <1>2, EngineStep, PTL DEF EngineSpec

(***************************************************************************)
(* The circuit breaker and the connection health monitor.                  *)
(***************************************************************************)
(* The two of them, each with steps of its own. *)
BreakerSpec == BreakerInit /\ [][BreakerNext \/ MonitorNext]_bvars

(* The counters of the breaker against the results recorded. *)
BreakerInv ==
    /\ breaker \in Breakers \cup {NoBreaker}
    /\ streak \in [failed : BOOLEAN, count : Nat]
    /\ breaker = NoBreaker => streak = NoStreak
    /\ breaker # NoBreaker =>
        /\ breaker.state = "Closed" =>
             /\ breaker.failures = IF streak.failed THEN streak.count ELSE 0
             /\ breaker.failures < FailureThreshold
        /\ breaker.state = "Open" => streak.failed /\ streak.count > 0
        /\ breaker.state = "HalfOpen" =>
             /\ breaker.successes < SuccessThreshold
             /\ breaker.successes = IF streak.failed THEN 0 ELSE streak.count

(* A ping under way whose entry was not replaced is a ping of the entry's   *)
(* connection; failures of an entry are failures of its connection, but for *)
(* the one ping that may have been under way when it was watched.           *)
MonitorInv ==
    /\ watched \in Watches \cup {NoLink} /\ ping \in Links \cup {NoLink}
    /\ hurt \in [Links -> Nat] /\ swapped \in BOOLEAN /\ ~dropped
    /\ watched # NoLink =>
        /\ watched.failures < MaxPingFailures
        /\ watched.failures <= hurt[watched.link] + 1
        /\ ping # NoLink /\ ping # watched.link =>
             swapped /\ watched.failures <= hurt[watched.link]

(* What recording a result makes of the streak. *)
LEMMA StreakExtended ==
    ASSUME breaker # NoBreaker, streak \in [failed : BOOLEAN, count : Nat],
           NEW failed \in BOOLEAN, Extend(failed)
    PROVE  /\ streak' \in [failed : BOOLEAN, count : Nat]
           /\ streak'.failed = failed /\ streak'.count > 0
           /\ (streak.failed # failed) => streak'.count = 1
           /\ (streak.failed = failed /\ streak.count < Longest) => streak'.count = streak.count + 1
<1>0. Longest \in Nat \ {0}
  BY BreakerAssumption DEF Longest
<1>1. CASE streak.failed # failed
  BY <1>1 DEF Extend
<1>2. CASE streak.failed = failed /\ streak.count < Longest
  BY <1>2 DEF Extend
<1>3. CASE streak.failed = failed /\ ~(streak.count < Longest)
  BY <1>0, <1>3 DEF Extend
<1> QED BY <1>1, <1>2, <1>3

(* What each state of the breaker makes of a success and of a failure. *)
LEMMA BreakerSucceeds ==
    ASSUME NEW b \in Breakers
    PROVE  /\ record_success(b) \in Breakers
           /\ b.state = "Closed" =>
                record_success(b).state = "Closed" /\ record_success(b).failures = 0
           /\ b.state = "Open" \/ (b.state = "HalfOpen" /\ ~(b.successes + 1 < SuccessThreshold)) =>
                record_success(b).state = "Closed" /\ record_success(b).failures = 0
           /\ b.state = "HalfOpen" /\ b.successes + 1 < SuccessThreshold =>
                record_success(b).state = "HalfOpen" /\ record_success(b).successes = b.successes + 1
<1> USE DEF record_success, NewBreaker, Breakers
<1>1. CASE b.state = "Closed"
  BY <1>1
<1>2. CASE b.state = "HalfOpen" /\ b.successes + 1 < SuccessThreshold
  BY <1>2
<1>3. CASE b.state = "Open" \/ (b.state = "HalfOpen" /\ ~(b.successes + 1 < SuccessThreshold))
  BY <1>3
<1> QED BY <1>1, <1>2, <1>3

LEMMA BreakerFails ==
    ASSUME NEW b \in Breakers
    PROVE  /\ record_failure(b) \in Breakers
           /\ b.state = "Closed" /\ b.failures + 1 < FailureThreshold =>
                record_failure(b).state = "Closed" /\ record_failure(b).failures = b.failures + 1
           /\ b.state # "Closed" \/ ~(b.failures + 1 < FailureThreshold) =>
                record_failure(b).state = "Open"
<1>0. FailureThreshold \in Nat \ {0}
  BY BreakerAssumption
<1> USE DEF record_failure, Breakers
<1>5. b.failures \in Nat /\ b.failures + 1 \in Nat /\ (~(b.failures + 1 < FailureThreshold) <=> b.failures + 1 >= FailureThreshold)
  BY <1>0
<1>1. CASE b.state = "Closed" /\ b.failures + 1 < FailureThreshold
  <2>1. record_failure(b) = [b EXCEPT !.failures = b.failures + 1, !.expired = FALSE]
    BY <1>1, <1>5
  <2> HIDE DEF record_failure
  <2> QED BY <1>1, <1>5, <2>1
<1>4. CASE b.state = "Closed" /\ ~(b.failures + 1 < FailureThreshold)
  <2>1. record_failure(b) = [b EXCEPT !.failures = b.failures + 1, !.state = "Open", !.expired = FALSE]
    BY <1>4, <1>5
  <2> HIDE DEF record_failure
  <2> QED BY <1>4, <1>5, <2>1
<1>2. CASE b.state = "HalfOpen"
  BY <1>2
<1>3. CASE b.state = "Open"
  BY <1>3
<1> QED BY <1>1, <1>2, <1>3, <1>4

LEMMA SuccessRecorded ==
    ASSUME BreakerInv, Record(record_success(breaker)), Extend(FALSE) PROVE BreakerInv'
<1> USE BreakerAssumption DEF BreakerInv
<1>1. CASE breaker = NoBreaker
  BY <1>1 DEF Record, Extend, NoStreak
<1>2. CASE breaker # NoBreaker
  <2>1. breaker \in Breakers /\ breaker' = record_success(breaker) /\ breaker' # NoBreaker
    BY <1>2, BreakerSucceeds DEF Record
  <2>2. /\ streak' \in [failed : BOOLEAN, count : Nat]
        /\ streak'.failed = FALSE
        /\ streak.failed => streak'.count = 1
        /\ (~streak.failed /\ streak.count < Longest) => streak'.count = streak.count + 1
    BY <1>2, StreakExtended
  <2>3. breaker.state \in {"Closed", "Open", "HalfOpen"} /\ SuccessThreshold <= Longest
        /\ breaker.successes \in Nat /\ breaker.failures \in Nat /\ streak.failed \in BOOLEAN /\ streak.count \in Nat
    BY <2>1 DEF Breakers, Longest
  <2>4. CASE breaker.state = "Closed"
    BY <2>1, <2>2, <2>4, BreakerSucceeds
  <2>5. CASE breaker.state = "Open" \/ (breaker.state = "HalfOpen" /\ ~(breaker.successes + 1 < SuccessThreshold))
    BY <2>1, <2>2, <2>5, BreakerSucceeds
  <2>6. CASE breaker.state = "HalfOpen" /\ breaker.successes + 1 < SuccessThreshold
    <3>1. streak'.count = breaker.successes + 1
      <4>1. breaker.successes = (IF streak.failed THEN 0 ELSE streak.count)
        BY <1>2, <2>6
      <4>2. breaker.successes < Longest /\ Longest \in Nat
        BY <2>3, <2>6 DEF Longest
      <4> HIDE DEF BreakerInv
      <4> QED BY <2>2, <2>3, <4>1, <4>2
    <3>2. breaker'.state = "HalfOpen" /\ breaker'.successes = breaker.successes + 1 /\ breaker' \in Breakers
      BY <2>1, <2>6, BreakerSucceeds
    <3> QED BY <2>1, <2>2, <2>3, <2>6, <3>1, <3>2
  <2> QED BY <2>3, <2>4, <2>5, <2>6
<1> QED BY <1>1, <1>2

LEMMA FailureRecorded ==
    ASSUME BreakerInv, Record(record_failure(breaker)), Extend(TRUE) PROVE BreakerInv'
<1> USE BreakerAssumption DEF BreakerInv
<1>1. CASE breaker = NoBreaker
  BY <1>1 DEF Record, Extend, NoStreak
<1>2. CASE breaker # NoBreaker
  <2>1. breaker \in Breakers /\ breaker' = record_failure(breaker) /\ breaker' # NoBreaker
    BY <1>2, BreakerFails DEF Record
  <2>2. /\ streak' \in [failed : BOOLEAN, count : Nat]
        /\ streak'.failed = TRUE /\ streak'.count > 0
        /\ ~streak.failed => streak'.count = 1
        /\ (streak.failed /\ streak.count < Longest) => streak'.count = streak.count + 1
    BY <1>2, StreakExtended
  <2>3. breaker.state \in {"Closed", "Open", "HalfOpen"} /\ FailureThreshold <= Longest
        /\ breaker.successes \in Nat /\ breaker.failures \in Nat /\ streak.failed \in BOOLEAN /\ streak.count \in Nat
    BY <2>1 DEF Breakers, Longest
  <2>4. CASE breaker.state = "Closed" /\ breaker.failures + 1 < FailureThreshold
    <3>1. streak'.count = breaker.failures + 1
      <4>1. breaker.failures = (IF streak.failed THEN streak.count ELSE 0)
        BY <1>2, <2>4
      <4>2. breaker.failures < Longest /\ Longest \in Nat
        BY <2>3, <2>4 DEF Longest
      <4> HIDE DEF BreakerInv
      <4> QED BY <2>2, <2>3, <4>1, <4>2
    <3>2. breaker'.state = "Closed" /\ breaker'.failures = breaker.failures + 1 /\ breaker' \in Breakers
      BY <2>1, <2>4, BreakerFails
    <3> QED BY <2>1, <2>2, <2>3, <2>4, <3>1, <3>2
  <2>5. CASE breaker.state # "Closed" \/ ~(breaker.failures + 1 < FailureThreshold)
    <3>1. breaker'.state = "Open" /\ breaker' \in Breakers
      BY <2>1, <2>5, BreakerFails
    <3> QED BY <2>1, <2>2, <3>1
  <2> QED BY <2>4, <2>5
<1> QED BY <1>1, <1>2

LEMMA BreakerKeeps == ASSUME BreakerInv, BreakerNext PROVE BreakerInv'
<1>1. ASSUME NEW r \in Requesters, connect_with_recovery(r) PROVE BreakerInv'
  <2>1. CASE breaker = NoBreaker
    <3>1. breaker' = NewBreaker /\ UNCHANGED streak /\ streak = NoStreak
      BY <1>1, <2>1 DEF connect_with_recovery, allow_request, Admitted, NewBreaker, BreakerInv
    <3>2. NewBreaker \in Breakers /\ NewBreaker.state = "Closed" /\ NewBreaker.failures = 0
      BY DEF NewBreaker, Breakers
    <3>3. NoStreak \in [failed : BOOLEAN, count : Nat] /\ NoStreak.failed = FALSE
      BY DEF NoStreak
    <3> QED BY <3>1, <3>2, <3>3, BreakerAssumption DEF BreakerInv
  <2>2. CASE breaker # NoBreaker
    <3>1. (breaker' = breaker \/ breaker' = Admitted(breaker)) /\ UNCHANGED streak
      BY <1>1, <2>2 DEF connect_with_recovery
    <3>2. breaker \in Breakers
      BY <2>2 DEF BreakerInv
    <3>3. /\ Admitted(breaker) \in Breakers
          /\ breaker.state # "Open" => Admitted(breaker) = breaker
          /\ breaker.state = "Open" =>
               Admitted(breaker).state = "HalfOpen" /\ Admitted(breaker).successes = 0
      BY <3>2 DEF Admitted, Breakers
    <3> QED BY <2>2, <3>1, <3>2, <3>3, BreakerAssumption DEF BreakerInv
  <2> QED BY <2>1, <2>2
<1>2. ASSUME NEW r \in Requesters, with_retry(r) PROVE BreakerInv'
  BY <1>2 DEF with_retry, BreakerInv
<1>3. ASSUME NEW r \in Requesters, Succeeds(r) PROVE BreakerInv'
  BY <1>3, SuccessRecorded DEF Succeeds
<1>4. ASSUME NEW r \in Requesters, Fails(r) PROVE BreakerInv'
  BY <1>4, FailureRecorded DEF Fails
<1>5. CASE TimeoutPasses
  BY <1>5, BreakerAssumption DEF TimeoutPasses, BreakerInv, Breakers
<1>6. CASE reset_circuit_breaker
  BY <1>6 DEF reset_circuit_breaker, BreakerInv, NoStreak
<1> QED BY <1>1, <1>2, <1>3, <1>4, <1>5, <1>6 DEF BreakerNext

LEMMA MonitorKeeps == ASSUME MonitorInv, MonitorNext PROVE MonitorInv'
<1> USE BreakerAssumption DEF MonitorInv, Watches
<1>1. ASSUME NEW l \in Links, monitor_connection(l) PROVE MonitorInv'
  <2>1. watched' \in Watches /\ watched'.link = l /\ watched'.failures = 0
        /\ hurt' = [hurt EXCEPT ![l] = 0] /\ swapped' = (ping # NoLink) /\ UNCHANGED <<ping, dropped>>
    BY <1>1 DEF monitor_connection
  <2>2. hurt' \in [Links -> Nat] /\ hurt'[l] = 0
    BY <2>1
  <2> HIDE DEF Watches
  <2>3. ping # NoLink => swapped'
    BY <2>1
  <2> QED BY <2>1, <2>2, <2>3
<1>2. ASSUME NEW l \in Links, LinkCloses(l) PROVE MonitorInv'
  BY <1>2 DEF LinkCloses
<1>3. CASE unmonitor_connection
  BY <1>3 DEF unmonitor_connection
<1>4. CASE StartPing
  BY <1>4 DEF StartPing
<1>5. CASE RemoveClosed
  BY <1>5 DEF RemoveClosed
<1>6. CASE PingSucceeds
  BY <1>6 DEF PingSucceeds
<1>7. CASE PingFails
  <2>1. /\ ping \in Links /\ ping' = NoLink /\ UNCHANGED swapped
        /\ hurt' = [hurt EXCEPT ![ping] = IF @ < MaxPingFailures THEN @ + 1 ELSE @]
    BY <1>7 DEF PingFails
  <2>2. /\ hurt' \in [Links -> Nat]
        /\ hurt'[ping] = IF hurt[ping] < MaxPingFailures THEN hurt[ping] + 1 ELSE hurt[ping]
        /\ \A l \in Links : l # ping => hurt'[l] = hurt[l]
    BY <2>1
  <2>3. CASE watched = NoLink
    BY <1>7, <2>1, <2>2, <2>3 DEF PingFails
  <2>4. CASE watched # NoLink /\ watched.failures + 1 < MaxPingFailures
    <3>1. watched' \in Watches /\ watched'.link = watched.link /\ UNCHANGED dropped
          /\ watched'.failures = watched.failures + 1
      BY <1>7, <2>4 DEF PingFails
    <3> QED BY <2>1, <2>2, <2>4, <3>1
  <2>5. CASE watched # NoLink /\ ~(watched.failures + 1 < MaxPingFailures)
    <3>1. watched' = NoLink /\ dropped' = (hurt'[watched.link] + 1 < MaxPingFailures)
      BY <1>7, <2>5 DEF PingFails
    <3>2. ~(hurt'[watched.link] + 1 < MaxPingFailures)
      BY <2>1, <2>2, <2>5
    <3>3. ~dropped'
      BY <3>1, <3>2
    <3> QED BY <2>1, <2>2, <3>1, <3>3
  <2> QED BY <2>3, <2>4, <2>5
<1> QED BY <1>1, <1>2, <1>3, <1>4, <1>5, <1>6, <1>7 DEF MonitorNext

(* Whatever results are recorded and whichever pings fail while entries are
   replaced: the circuit breaker opens and closes only for its thresholds of
   results in a row or a failed probe, and the health monitor drops a
   connection only for what happened to that connection. *)
THEOREM BothJudgesJust == BreakerSpec => []CondemnedForCause
<1> DEFINE Inv == BreakerInv /\ MonitorInv
<1>1. BreakerInit => Inv
  <2> SUFFICES ASSUME BreakerInit PROVE BreakerInv /\ MonitorInv
    OBVIOUS
  <2>1. BreakerInv
    BY DEF BreakerInit, BreakerInv, NoStreak
  <2>2. MonitorInv
    BY DEF BreakerInit, MonitorInv
  <2> QED BY <2>1, <2>2
<1>2. Inv /\ [BreakerNext \/ MonitorNext]_bvars => Inv'
  <2> SUFFICES ASSUME Inv, [BreakerNext \/ MonitorNext]_bvars PROVE Inv'
    OBVIOUS
  <2>1. CASE BreakerNext
    <3>1. UNCHANGED monitor
      BY <2>1 DEF BreakerNext, connect_with_recovery, with_retry, Succeeds, Fails,
                  TimeoutPasses, reset_circuit_breaker
    <3> QED BY <2>1, <3>1, BreakerKeeps DEF monitor, MonitorInv
  <2>2. CASE MonitorNext
    <3>1. UNCHANGED client
      BY <2>2 DEF MonitorNext, monitor_connection, LinkCloses, unmonitor_connection,
                  StartPing, RemoveClosed, PingSucceeds, PingFails
    <3> QED BY <2>2, <3>1, MonitorKeeps DEF client, BreakerInv
  <2>3. CASE UNCHANGED bvars
    BY <2>3 DEF bvars, BreakerInv, MonitorInv
  <2> QED BY <2>1, <2>2, <2>3
<1>3. Inv => CondemnedForCause
  BY DEF BreakerInv, MonitorInv, CondemnedForCause, BreakerSound, DroppedForCause, Breakers
<1> QED BY <1>1, <1>2, <1>3, PTL DEF BreakerSpec

(***************************************************************************)
(* The handshake.                                                          *)
(***************************************************************************)
(* The handshake alone. *)
HandshakeSpec == HandshakeInit /\ [][HandshakeNext]_kvars

DialStates == {"idle", "connecting", "established", "waiting", "ok", "failed"}

Current(l, ats) == l = LinkOf(l[1]) /\ dial[l[1]].at \in ats

Dialled(l) == l \in LinkIds /\ l[2] <= dial[l[1]].n

HandshakeTypeOK ==
    /\ dial \in [Dialers -> [at : DialStates, n : 0..MaxDials]]
    /\ incoming \in Seq(LinkIds)
    /\ accepting \in [at : {"receive", "send", "store"}, of : LinkIds]
                     \cup {Accept, [at |-> "stopped", of |-> <<>>]}
    /\ hello \in [LinkIds -> SUBSET {"client", "server"}]
    /\ shutLinks \subseteq LinkIds /\ remote_id \subseteq LinkIds /\ connections \subseteq LinkIds

(* The clients: what an attempt that failed, worked or did not begin implies. *)
DialsInv ==
    \A c \in Dialers :
        /\ dial[c].at = "idle" <=> dial[c].n = 0
        /\ dial[c].at = "failed" => LinkOf(c) \in shutLinks
        /\ dial[c].at = "ok" /\ LinkOf(c) \notin shutLinks => "server" \in hello[LinkOf(c)]

(* The endpoint's queue has no connection twice, and an open one waits in it *)
(* for a client that is connecting.                                          *)
QueueInv ==
    /\ \A i \in 1..Len(incoming) :
        /\ Dialled(incoming[i])
        /\ incoming[i] \notin shutLinks => Current(incoming[i], {"connecting"})
    /\ \A i, j \in 1..Len(incoming) : i # j => incoming[i] # incoming[j]

(* The connection at hand, while it is open. *)
AcceptInv ==
    accepting.at \in {"receive", "send", "store"} =>
        /\ Dialled(accepting.of)
        /\ accepting.at # "receive" => accepting.of \in remote_id
        /\ accepting.of \notin shutLinks =>
            /\ accepting.at = "receive" => Current(accepting.of, {"established", "waiting"})
            /\ accepting.at = "send" => Current(accepting.of, {"waiting"})
            /\ accepting.at = "store" => Current(accepting.of, {"waiting", "ok"})
            /\ accepting.at # "store" => accepting.of \notin connections

(* The hellos sent and the list. *)
HelloInv ==
    \A l \in LinkIds :
        /\ hello[l] # {} \/ l \in connections => Dialled(l)
        /\ "client" \in hello[l] /\ l \notin shutLinks => Current(l, {"waiting", "ok"})
        /\ "server" \in hello[l] =>
            /\ l \in remote_id
            /\ l \in connections \/ l \in shutLinks \/ accepting = [at |-> "store", of |-> l]
        /\ l \in connections /\ l \notin shutLinks => Current(l, {"waiting", "ok"})

HandshakeInv == HandshakeTypeOK /\ DialsInv /\ QueueInv /\ AcceptInv /\ HelloInv

LEMMA LinkParts ==
    ASSUME NEW l \in LinkIds
    PROVE  l[1] \in Dialers /\ l[2] \in 1..MaxDials /\ l = <<l[1], l[2]>>
  BY DEF LinkIds

LEMMA LinkOfDialled ==
    ASSUME HandshakeInv, NEW c \in Dialers, dial[c].at # "idle"
    PROVE  LinkOf(c) \in LinkIds /\ LinkOf(c)[1] = c /\ LinkOf(c)[2] = dial[c].n
<1>1. dial[c].n \in 1..MaxDials
  BY HandshakeAssumption DEF HandshakeInv, HandshakeTypeOK, DialsInv
<1> QED BY <1>1 DEF LinkOf, LinkIds

(* Whichever dials fail, time out or are repeated while the server works
   through its queue: a client whose connection works was understood by the
   server, which has listed the connection or is about to, and an open
   connection in the list is the latest attempt of its client. *)
THEOREM HandshakesAgree == HandshakeSpec => []HandshakeAgrees
<1> USE HandshakeAssumption, LinkParts
<1>1. HandshakeInit => HandshakeInv
  BY DEF HandshakeInit, HandshakeInv, HandshakeTypeOK, DialsInv, QueueInv, AcceptInv, HelloInv, DialStates, Accept, LinkOf, LinkIds, Dialled
<1>2. HandshakeInv /\ [HandshakeNext]_kvars => HandshakeInv'
  <2> SUFFICES ASSUME HandshakeInv, [HandshakeNext]_kvars PROVE HandshakeInv'
    OBVIOUS
  <2>0. HandshakeTypeOK /\ DialsInv /\ QueueInv /\ AcceptInv /\ HelloInv
    BY DEF HandshakeInv
  <2>1. ASSUME NEW c \in Dialers, connect_addr(c) PROVE HandshakeInv'
    <3>0. dial[c].n \in 0..MaxDials /\ dial[c].n < MaxDials
      BY <2>0, <2>1 DEF connect_addr, HandshakeTypeOK
    <3>z. PICK new \in LinkIds : new = <<c, dial[c].n + 1>>
      <4>1. <<c, dial[c].n + 1>> \in Dialers \X (1..MaxDials)
        BY <3>0
      <4> QED BY <4>1 DEF LinkIds
    <3>a. /\ dial[c].at \in {"idle", "failed"} /\ dial[c].n \in 0..MaxDials
          /\ new[1] = c /\ new[2] = dial[c].n + 1
          /\ dial' = [dial EXCEPT ![c] = [at |-> "connecting", n |-> dial[c].n + 1]]
          /\ incoming' = Append(incoming, new)
          /\ UNCHANGED <<accepting, hello, shutLinks, remote_id, connections>>
      BY <2>1, <3>0, <3>z DEF connect_addr
    <3>b. /\ dial'[c].at = "connecting" /\ dial'[c].n = dial[c].n + 1
          /\ \A d \in Dialers : d # c => dial'[d] = dial[d]
          /\ \A d \in Dialers : dial[d].n \in Nat
      BY <2>0, <3>a DEF HandshakeTypeOK
    <3>c. \A l \in LinkIds : /\ Dialled(l) => l # new
                             /\ Dialled(l) => Dialled(l)'
                             /\ Current(l, {"connecting", "established", "waiting", "ok"}) => l[1] # c
      BY <3>a, <3>b DEF Dialled, Current
    <3>d. \A l \in LinkIds, ats \in SUBSET DialStates : Current(l, ats) /\ l[1] # c => Current(l, ats)'
      BY <3>b DEF Current, LinkOf
    <3>1. HandshakeTypeOK'
      BY <2>0, <3>a DEF HandshakeTypeOK, DialStates
    <3>2. DialsInv'
      BY <2>0, <3>a, <3>b DEF DialsInv, LinkOf
    <3>3. QueueInv'
      <4>1. /\ Len(incoming') = Len(incoming) + 1 /\ Len(incoming) \in Nat
            /\ \A i \in 1..Len(incoming) : incoming'[i] = incoming[i] /\ incoming[i] \in LinkIds
            /\ incoming'[Len(incoming) + 1] = new
        BY <2>0, <3>a DEF HandshakeTypeOK
      <4>2. Dialled(new)' /\ Current(new, {"connecting"})'
        BY <3>z, <3>a, <3>b DEF Dialled, Current, LinkOf
      <4>3. ASSUME NEW i \in 1..Len(incoming), NEW l \in LinkIds, l = incoming[i]
            PROVE  /\ Dialled(l)' /\ l # new
                   /\ l \notin shutLinks => Current(l, {"connecting"})'
        <5>1. Dialled(l) /\ (l \notin shutLinks => Current(l, {"connecting"}))
          BY <2>0, <4>3 DEF QueueInv
        <5>2. l \notin shutLinks => l[1] # c
          BY <3>a, <5>1 DEF Current
        <5>3. l[1] # c => dial'[l[1]] = dial[l[1]]
          BY <3>b
        <5>4. l \notin shutLinks => Current(l, {"connecting"})'
          BY <5>1, <5>2, <5>3 DEF Current, LinkOf
        <5>5. Dialled(l)' /\ l # new
          BY <3>a, <3>b, <5>1 DEF Dialled
        <5> QED BY <5>4, <5>5
      <4>4. ASSUME NEW i \in 1..Len(incoming')
            PROVE  Dialled(incoming[i])' /\ (incoming'[i] \notin shutLinks' => Current(incoming[i], {"connecting"})')
        <5>1. CASE i \in 1..Len(incoming)
          <6>1. PICK l \in LinkIds : l = incoming[i] /\ l = incoming'[i]
            BY <4>1, <5>1
          <6> QED BY <3>a, <4>3, <5>1, <6>1 DEF Dialled, Current
        <5>2. CASE i = Len(incoming) + 1
          BY <4>1, <4>2, <5>2 DEF Dialled, Current
        <5> QED BY <4>1, <5>1, <5>2
      <4>5. ASSUME NEW i \in 1..Len(incoming'), NEW j \in 1..Len(incoming'), i # j
            PROVE  incoming'[i] # incoming'[j]
        BY <2>0, <4>1, <4>3, <4>5 DEF QueueInv
      <4> QED BY <4>4, <4>5 DEF QueueInv
    <3>4. AcceptInv'
      BY <2>0, <3>a, <3>b, <3>c DEF AcceptInv, Dialled, Current, LinkOf
    <3>5. HelloInv'
      BY <2>0, <3>a, <3>b, <3>c DEF HelloInv, Dialled, Current, LinkOf
    <3> QED BY <3>1, <3>2, <3>3, <3>4, <3>5 DEF HandshakeInv
  <2>2. ASSUME NEW c \in Dialers, send_hello(c) PROVE HandshakeInv'
    <3>1. HandshakeTypeOK'
      BY <2>0, <2>2, LinkOfDialled DEF HandshakeTypeOK, send_hello, DialAt, close, Current, Dialled, LinkOf, HandshakeTypeOK, DialsInv, QueueInv, AcceptInv, HelloInv, DialStates, Accept
    <3>2. DialsInv'
      BY <2>0, <2>2, LinkOfDialled DEF DialsInv, send_hello, DialAt, close, Current, Dialled, LinkOf, HandshakeTypeOK, DialsInv, QueueInv, AcceptInv, HelloInv, DialStates, Accept
    <3>3. QueueInv'
      BY <2>0, <2>2, LinkOfDialled DEF QueueInv, send_hello, DialAt, close, Current, Dialled, LinkOf, HandshakeTypeOK, DialsInv, QueueInv, AcceptInv, HelloInv, DialStates, Accept
    <3>4. AcceptInv'
      BY <2>0, <2>2, LinkOfDialled DEF AcceptInv, send_hello, DialAt, close, Current, Dialled, LinkOf, HandshakeTypeOK, DialsInv, QueueInv, AcceptInv, HelloInv, DialStates, Accept
    <3>5. HelloInv'
      BY <2>0, <2>2, LinkOfDialled DEF HelloInv, send_hello, DialAt, close, Current, Dialled, LinkOf, HandshakeTypeOK, DialsInv, QueueInv, AcceptInv, HelloInv, DialStates, Accept
    <3> QED BY <3>1, <3>2, <3>3, <3>4, <3>5 DEF HandshakeInv
  <2>3. ASSUME NEW c \in Dialers, receive_hello(c) PROVE HandshakeInv'
    <3>a. /\ dial[c].at = "waiting" /\ "server" \in hello[LinkOf(c)] /\ LinkOf(c) \notin shutLinks
          /\ dial' = [dial EXCEPT ![c].at = "ok"]
          /\ UNCHANGED <<incoming, accepting, hello, shutLinks, remote_id, connections>>
      BY <2>3 DEF receive_hello, DialAt
    <3>b. /\ dial'[c].at = "ok" /\ dial'[c].n = dial[c].n
          /\ \A d \in Dialers : d # c => dial'[d] = dial[d]
          /\ LinkOf(c) \in LinkIds /\ LinkOf(c)[1] = c
      BY <2>0, <3>a, LinkOfDialled DEF HandshakeTypeOK
    <3>c. \A d \in Dialers : LinkOf(d)' = LinkOf(d)
      BY <3>b DEF LinkOf
    <3>1. HandshakeTypeOK'
      BY <2>0, <3>a DEF HandshakeTypeOK, DialStates
    <3>2. DialsInv'
      BY <2>0, <3>a, <3>b, <3>c DEF DialsInv, HandshakeTypeOK
    <3>3. QueueInv'
      BY <2>0, <3>a, <3>b, <3>c DEF QueueInv, Dialled, Current, HandshakeTypeOK
    <3>4. AcceptInv'
      <4>1. accepting.at = "send" /\ accepting.of \notin shutLinks => accepting.of # LinkOf(c)
        BY <2>0, <3>a, <3>b DEF AcceptInv, HelloInv
      <4>2. SUFFICES ASSUME accepting.at \in {"receive", "send", "store"}
                     PROVE  AcceptInv'
        BY <3>a DEF AcceptInv
      <4>3. PICK l \in LinkIds : l = accepting.of
        BY <2>0, <4>2 DEF AcceptInv, Dialled
      <4>4. CASE l[1] # c
        BY <2>0, <3>a, <3>b, <3>c, <4>3, <4>4 DEF AcceptInv, Dialled, Current
      <4>5. CASE l[1] = c
        <5>1. Dialled(l)'
          BY <2>0, <3>b, <4>2, <4>3, <4>5 DEF AcceptInv, Dialled
        <5>2. l \notin shutLinks /\ accepting.at \in {"receive", "send", "store"} =>
                 l = LinkOf(c) /\ accepting.at # "send" /\ (accepting.at = "receive" => "server" \notin hello[l])
          BY <2>0, <3>a, <4>1, <4>3, <4>5 DEF AcceptInv, Current, HelloInv
        <5>3. l \notin shutLinks => accepting.at = "store" /\ Current(l, {"waiting", "ok"})'
          BY <3>a, <3>b, <3>c, <4>2, <4>5, <5>2 DEF Current
        <5>4. accepting' = accepting /\ shutLinks' = shutLinks /\ remote_id' = remote_id
          BY <3>a
        <5>5. accepting.at # "receive" => l \in remote_id
          BY <2>0, <4>2, <4>3 DEF AcceptInv
        <5> QED BY <4>3, <5>1, <5>3, <5>4, <5>5 DEF AcceptInv, Dialled, Current
      <4> QED BY <4>4, <4>5
    <3>5. HelloInv'
      BY <2>0, <3>a, <3>b, <3>c DEF HelloInv, Dialled, Current
    <3> QED BY <3>1, <3>2, <3>3, <3>4, <3>5 DEF HandshakeInv
  <2>4. ASSUME NEW c \in Dialers, ClientFails(c) PROVE HandshakeInv'
    <3>1. HandshakeTypeOK'
      BY <2>0, <2>4, LinkOfDialled DEF HandshakeTypeOK, ClientFails, DialAt, close, Current, Dialled, LinkOf, HandshakeTypeOK, DialsInv, QueueInv, AcceptInv, HelloInv, DialStates, Accept
    <3>2. DialsInv'
      BY <2>0, <2>4, LinkOfDialled DEF DialsInv, ClientFails, DialAt, close, Current, Dialled, LinkOf, HandshakeTypeOK, DialsInv, QueueInv, AcceptInv, HelloInv, DialStates, Accept
    <3>3. QueueInv'
      BY <2>0, <2>4, LinkOfDialled DEF QueueInv, ClientFails, DialAt, close, Current, Dialled, LinkOf, HandshakeTypeOK, DialsInv, QueueInv, AcceptInv, HelloInv, DialStates, Accept
    <3>4. AcceptInv'
      BY <2>0, <2>4, LinkOfDialled DEF AcceptInv, ClientFails, DialAt, close, Current, Dialled, LinkOf, HandshakeTypeOK, DialsInv, QueueInv, AcceptInv, HelloInv, DialStates, Accept
    <3>5. HelloInv'
      BY <2>0, <2>4, LinkOfDialled DEF HelloInv, ClientFails, DialAt, close, Current, Dialled, LinkOf, HandshakeTypeOK, DialsInv, QueueInv, AcceptInv, HelloInv, DialStates, Accept
    <3> QED BY <3>1, <3>2, <3>3, <3>4, <3>5 DEF HandshakeInv
  <2>5. ASSUME NEW c \in Dialers, ClientCloses(c) PROVE HandshakeInv'
    <3>1. HandshakeTypeOK'
      BY <2>0, <2>5, LinkOfDialled DEF HandshakeTypeOK, ClientCloses, DialAt, close, Current, Dialled, LinkOf, HandshakeTypeOK, DialsInv, QueueInv, AcceptInv, HelloInv, DialStates, Accept
    <3>2. DialsInv'
      BY <2>0, <2>5, LinkOfDialled DEF DialsInv, ClientCloses, DialAt, close, Current, Dialled, LinkOf, HandshakeTypeOK, DialsInv, QueueInv, AcceptInv, HelloInv, DialStates, Accept
    <3>3. QueueInv'
      BY <2>0, <2>5, LinkOfDialled DEF QueueInv, ClientCloses, DialAt, close, Current, Dialled, LinkOf, HandshakeTypeOK, DialsInv, QueueInv, AcceptInv, HelloInv, DialStates, Accept
    <3>4. AcceptInv'
      BY <2>0, <2>5, LinkOfDialled DEF AcceptInv, ClientCloses, DialAt, close, Current, Dialled, LinkOf, HandshakeTypeOK, DialsInv, QueueInv, AcceptInv, HelloInv, DialStates, Accept
    <3>5. HelloInv'
      BY <2>0, <2>5, LinkOfDialled DEF HelloInv, ClientCloses, DialAt, close, Current, Dialled, LinkOf, HandshakeTypeOK, DialsInv, QueueInv, AcceptInv, HelloInv, DialStates, Accept
    <3> QED BY <3>1, <3>2, <3>3, <3>4, <3>5 DEF HandshakeInv
  <2>6. CASE accept
    <3>a. /\ accepting.at = "accept" /\ Len(incoming) \in Nat \ {0}
          /\ incoming' \in Seq(LinkIds) /\ Len(incoming') = Len(incoming) - 1
          /\ Head(incoming) = incoming[1] /\ incoming[1] \in LinkIds
          /\ \A i \in 1..Len(incoming') : incoming'[i] = incoming[i + 1] /\ i + 1 \in 1..Len(incoming)
          /\ UNCHANGED <<hello, shutLinks, remote_id, connections>>
      <4>1. incoming \in Seq(LinkIds) /\ incoming # <<>>
        BY <2>0, <2>6 DEF accept, HandshakeTypeOK
      <4>2. Len(incoming) \in Nat \ {0} /\ Head(incoming) = incoming[1] /\ incoming[1] \in LinkIds
        BY <4>1
      <4>3. incoming' = Tail(incoming) /\ Len(Tail(incoming)) = Len(incoming) - 1 /\ Tail(incoming) \in Seq(LinkIds)
        BY <2>6, <4>1 DEF accept
      <4>4. \A i \in 1..Len(incoming') : incoming'[i] = incoming[i + 1] /\ i + 1 \in 1..Len(incoming)
        BY <4>1, <4>2, <4>3
      <4> QED BY <2>6, <4>2, <4>3, <4>4 DEF accept
    <3>1. CASE incoming[1] \in shutLinks
      <4>1. UNCHANGED <<accepting, dial>>
        BY <2>6, <3>a, <3>1 DEF accept
      <4>2. QueueInv'
        <5>1. ASSUME NEW i \in 1..Len(incoming') 
              PROVE  Dialled(incoming[i])' /\ (incoming'[i] \notin shutLinks' => Current(incoming[i], {"connecting"})')
          BY <2>0, <3>a, <4>1 DEF QueueInv, Dialled, Current, LinkOf
        <5>2. \A i, j \in 1..Len(incoming') : i # j => incoming'[i] # incoming'[j]
          BY <2>0, <3>a DEF QueueInv
        <5> QED BY <5>1, <5>2 DEF QueueInv
      <4> QED BY <2>0, <3>a, <4>1, <4>2 DEF HandshakeInv, HandshakeTypeOK, DialsInv, AcceptInv, HelloInv, Dialled, Current, LinkOf
    <3>2. CASE incoming[1] \notin shutLinks
      <4>0. PICK h \in LinkIds : h = incoming[1]
        BY <3>a
      <4>1. PICK c \in Dialers : c = h[1] /\ h = LinkOf(c) /\ dial[c].at = "connecting"
        BY <2>0, <3>a, <3>2, <4>0 DEF QueueInv, Current
      <4>2. accepting' = [at |-> "receive", of |-> h] /\ dial' = [dial EXCEPT ![c].at = "established"]
        BY <2>6, <3>a, <3>2, <4>0, <4>1 DEF accept, DialAt
      <4>3. /\ dial'[c].at = "established" /\ \A d \in Dialers : dial'[d].n = dial[d].n
            /\ \A d \in Dialers : d # c => dial'[d] = dial[d]
            /\ \A d \in Dialers : LinkOf(d)' = LinkOf(d)
        BY <2>0, <4>2 DEF HandshakeTypeOK, LinkOf
      <4>4. \A l \in LinkIds : Dialled(l) => Dialled(l)'
        BY <4>3 DEF Dialled
      <4>5. HandshakeTypeOK'
        BY <2>0, <3>a, <4>2 DEF HandshakeTypeOK, DialStates
      <4>6. DialsInv'
        BY <2>0, <3>a, <4>1, <4>3 DEF DialsInv
      <4>7. QueueInv'
        <5>1. ASSUME NEW i \in 1..Len(incoming') 
              PROVE  Dialled(incoming[i])' /\ (incoming'[i] \notin shutLinks' => Current(incoming[i], {"connecting"})')
          <6>1. PICK l \in LinkIds : l = incoming'[i] /\ l = incoming[i + 1]
            <7>1. incoming'[i] \in LinkIds
              BY <3>a
            <7> QED BY <3>a, <7>1
          <6>2. l # h /\ Dialled(l) /\ (l \notin shutLinks => Current(l, {"connecting"}))
            BY <2>0, <3>a, <4>0, <6>1 DEF QueueInv
          <6>3. l \notin shutLinks => l[1] # c
            BY <4>1, <6>2 DEF Current
          <6>4. l \notin shutLinks => Current(l, {"connecting"})'
            BY <4>3, <6>2, <6>3 DEF Current
          <6> QED BY <3>a, <4>4, <6>1, <6>2, <6>4 DEF Dialled, Current
        <5>2. \A i, j \in 1..Len(incoming') : i # j => incoming'[i] # incoming'[j]
          BY <2>0, <3>a DEF QueueInv
        <5> QED BY <5>1, <5>2 DEF QueueInv
      <4>8. AcceptInv'
        <5>1. accepting'.at = "receive" /\ accepting'.of = h
          BY <4>2
        <5>2. Dialled(h)' /\ Current(h, {"established", "waiting"})' /\ h \notin connections
          BY <2>0, <3>a, <3>2, <4>0, <4>1, <4>3, <4>4 DEF QueueInv, HelloInv, Current
        <5> QED BY <3>a, <5>1, <5>2 DEF AcceptInv, Dialled, Current
      <4>9. HelloInv'
        BY <2>0, <3>a, <4>1, <4>2, <4>3, <4>4 DEF HelloInv, Current, Dialled
      <4> QED BY <4>5, <4>6, <4>7, <4>8, <4>9 DEF HandshakeInv
    <3> QED BY <3>1, <3>2
  <2>7. CASE ServerReceives
    <3>1. HandshakeTypeOK'
      BY <2>0, <2>7, LinkOfDialled DEF HandshakeTypeOK, ServerReceives, DialAt, close, Current, Dialled, LinkOf, HandshakeTypeOK, DialsInv, QueueInv, AcceptInv, HelloInv, DialStates, Accept
    <3>2. DialsInv'
      BY <2>0, <2>7, LinkOfDialled DEF DialsInv, ServerReceives, DialAt, close, Current, Dialled, LinkOf, HandshakeTypeOK, DialsInv, QueueInv, AcceptInv, HelloInv, DialStates, Accept
    <3>3. QueueInv'
      BY <2>0, <2>7, LinkOfDialled DEF QueueInv, ServerReceives, DialAt, close, Current, Dialled, LinkOf, HandshakeTypeOK, DialsInv, QueueInv, AcceptInv, HelloInv, DialStates, Accept
    <3>4. AcceptInv'
      BY <2>0, <2>7, LinkOfDialled DEF AcceptInv, ServerReceives, DialAt, close, Current, Dialled, LinkOf, HandshakeTypeOK, DialsInv, QueueInv, AcceptInv, HelloInv, DialStates, Accept
    <3>5. HelloInv'
      BY <2>0, <2>7, LinkOfDialled DEF HelloInv, ServerReceives, DialAt, close, Current, Dialled, LinkOf, HandshakeTypeOK, DialsInv, QueueInv, AcceptInv, HelloInv, DialStates, Accept
    <3> QED BY <3>1, <3>2, <3>3, <3>4, <3>5 DEF HandshakeInv
  <2>8. CASE ServerSends
    <3>1. HandshakeTypeOK'
      BY <2>0, <2>8, LinkOfDialled DEF HandshakeTypeOK, ServerSends, DialAt, close, Current, Dialled, LinkOf, HandshakeTypeOK, DialsInv, QueueInv, AcceptInv, HelloInv, DialStates, Accept
    <3>2. DialsInv'
      BY <2>0, <2>8, LinkOfDialled DEF DialsInv, ServerSends, DialAt, close, Current, Dialled, LinkOf, HandshakeTypeOK, DialsInv, QueueInv, AcceptInv, HelloInv, DialStates, Accept
    <3>3. QueueInv'
      BY <2>0, <2>8, LinkOfDialled DEF QueueInv, ServerSends, DialAt, close, Current, Dialled, LinkOf, HandshakeTypeOK, DialsInv, QueueInv, AcceptInv, HelloInv, DialStates, Accept
    <3>4. AcceptInv'
      BY <2>0, <2>8, LinkOfDialled DEF AcceptInv, ServerSends, DialAt, close, Current, Dialled, LinkOf, HandshakeTypeOK, DialsInv, QueueInv, AcceptInv, HelloInv, DialStates, Accept
    <3>5. HelloInv'
      BY <2>0, <2>8, LinkOfDialled DEF HelloInv, ServerSends, DialAt, close, Current, Dialled, LinkOf, HandshakeTypeOK, DialsInv, QueueInv, AcceptInv, HelloInv, DialStates, Accept
    <3> QED BY <3>1, <3>2, <3>3, <3>4, <3>5 DEF HandshakeInv
  <2>9. CASE StoreConnection
    <3>1. HandshakeTypeOK'
      BY <2>0, <2>9, LinkOfDialled DEF HandshakeTypeOK, StoreConnection, DialAt, close, Current, Dialled, LinkOf, HandshakeTypeOK, DialsInv, QueueInv, AcceptInv, HelloInv, DialStates, Accept
    <3>2. DialsInv'
      BY <2>0, <2>9, LinkOfDialled DEF DialsInv, StoreConnection, DialAt, close, Current, Dialled, LinkOf, HandshakeTypeOK, DialsInv, QueueInv, AcceptInv, HelloInv, DialStates, Accept
    <3>3. QueueInv'
      BY <2>0, <2>9, LinkOfDialled DEF QueueInv, StoreConnection, DialAt, close, Current, Dialled, LinkOf, HandshakeTypeOK, DialsInv, QueueInv, AcceptInv, HelloInv, DialStates, Accept
    <3>4. AcceptInv'
      BY <2>0, <2>9, LinkOfDialled DEF AcceptInv, StoreConnection, DialAt, close, Current, Dialled, LinkOf, HandshakeTypeOK, DialsInv, QueueInv, AcceptInv, HelloInv, DialStates, Accept
    <3>5. HelloInv'
      BY <2>0, <2>9, LinkOfDialled DEF HelloInv, StoreConnection, DialAt, close, Current, Dialled, LinkOf, HandshakeTypeOK, DialsInv, QueueInv, AcceptInv, HelloInv, DialStates, Accept
    <3> QED BY <3>1, <3>2, <3>3, <3>4, <3>5 DEF HandshakeInv
  <2>10. CASE ServerFails
    <3>1. HandshakeTypeOK'
      BY <2>0, <2>10, LinkOfDialled DEF HandshakeTypeOK, ServerFails, DialAt, close, Current, Dialled, LinkOf, HandshakeTypeOK, DialsInv, QueueInv, AcceptInv, HelloInv, DialStates, Accept
    <3>2. DialsInv'
      BY <2>0, <2>10, LinkOfDialled DEF DialsInv, ServerFails, DialAt, close, Current, Dialled, LinkOf, HandshakeTypeOK, DialsInv, QueueInv, AcceptInv, HelloInv, DialStates, Accept
    <3>3. QueueInv'
      BY <2>0, <2>10, LinkOfDialled DEF QueueInv, ServerFails, DialAt, close, Current, Dialled, LinkOf, HandshakeTypeOK, DialsInv, QueueInv, AcceptInv, HelloInv, DialStates, Accept
    <3>4. AcceptInv'
      BY <2>0, <2>10, LinkOfDialled DEF AcceptInv, ServerFails, DialAt, close, Current, Dialled, LinkOf, HandshakeTypeOK, DialsInv, QueueInv, AcceptInv, HelloInv, DialStates, Accept
    <3>5. HelloInv'
      BY <2>0, <2>10, LinkOfDialled DEF HelloInv, ServerFails, DialAt, close, Current, Dialled, LinkOf, HandshakeTypeOK, DialsInv, QueueInv, AcceptInv, HelloInv, DialStates, Accept
    <3> QED BY <3>1, <3>2, <3>3, <3>4, <3>5 DEF HandshakeInv
  <2>11. CASE stop
    <3>1. HandshakeTypeOK'
      BY <2>0, <2>11, LinkOfDialled DEF HandshakeTypeOK, stop, DialAt, close, Current, Dialled, LinkOf, HandshakeTypeOK, DialsInv, QueueInv, AcceptInv, HelloInv, DialStates, Accept
    <3>2. DialsInv'
      BY <2>0, <2>11, LinkOfDialled DEF DialsInv, stop, DialAt, close, Current, Dialled, LinkOf, HandshakeTypeOK, DialsInv, QueueInv, AcceptInv, HelloInv, DialStates, Accept
    <3>3. QueueInv'
      BY <2>0, <2>11, LinkOfDialled DEF QueueInv, stop, DialAt, close, Current, Dialled, LinkOf, HandshakeTypeOK, DialsInv, QueueInv, AcceptInv, HelloInv, DialStates, Accept
    <3>4. AcceptInv'
      BY <2>0, <2>11, LinkOfDialled DEF AcceptInv, stop, DialAt, close, Current, Dialled, LinkOf, HandshakeTypeOK, DialsInv, QueueInv, AcceptInv, HelloInv, DialStates, Accept
    <3>5. HelloInv'
      BY <2>0, <2>11, LinkOfDialled DEF HelloInv, stop, DialAt, close, Current, Dialled, LinkOf, HandshakeTypeOK, DialsInv, QueueInv, AcceptInv, HelloInv, DialStates, Accept
    <3> QED BY <3>1, <3>2, <3>3, <3>4, <3>5 DEF HandshakeInv
  <2>12. ASSUME NEW l \in LinkIds, RemoveConnection(l) PROVE HandshakeInv'
    <3>1. HandshakeTypeOK'
      BY <2>0, <2>12, LinkOfDialled DEF HandshakeTypeOK, RemoveConnection, DialAt, close, Current, Dialled, LinkOf, HandshakeTypeOK, DialsInv, QueueInv, AcceptInv, HelloInv, DialStates, Accept
    <3>2. DialsInv'
      BY <2>0, <2>12, LinkOfDialled DEF DialsInv, RemoveConnection, DialAt, close, Current, Dialled, LinkOf, HandshakeTypeOK, DialsInv, QueueInv, AcceptInv, HelloInv, DialStates, Accept
    <3>3. QueueInv'
      BY <2>0, <2>12, LinkOfDialled DEF QueueInv, RemoveConnection, DialAt, close, Current, Dialled, LinkOf, HandshakeTypeOK, DialsInv, QueueInv, AcceptInv, HelloInv, DialStates, Accept
    <3>4. AcceptInv'
      BY <2>0, <2>12, LinkOfDialled DEF AcceptInv, RemoveConnection, DialAt, close, Current, Dialled, LinkOf, HandshakeTypeOK, DialsInv, QueueInv, AcceptInv, HelloInv, DialStates, Accept
    <3>5. HelloInv'
      BY <2>0, <2>12, LinkOfDialled DEF HelloInv, RemoveConnection, DialAt, close, Current, Dialled, LinkOf, HandshakeTypeOK, DialsInv, QueueInv, AcceptInv, HelloInv, DialStates, Accept
    <3> QED BY <3>1, <3>2, <3>3, <3>4, <3>5 DEF HandshakeInv
  <2>13. CASE UNCHANGED kvars
    <3>1. HandshakeTypeOK'
      BY <2>0, <2>13 DEF HandshakeTypeOK, kvars, DialAt, close, Current, Dialled, LinkOf, HandshakeTypeOK, DialsInv, QueueInv, AcceptInv, HelloInv, DialStates, Accept
    <3>2. DialsInv'
      BY <2>0, <2>13 DEF DialsInv, kvars, DialAt, close, Current, Dialled, LinkOf, HandshakeTypeOK, DialsInv, QueueInv, AcceptInv, HelloInv, DialStates, Accept
    <3>3. QueueInv'
      BY <2>0, <2>13 DEF QueueInv, kvars, DialAt, close, Current, Dialled, LinkOf, HandshakeTypeOK, DialsInv, QueueInv, AcceptInv, HelloInv, DialStates, Accept
    <3>4. AcceptInv'
      BY <2>0, <2>13 DEF AcceptInv, kvars, DialAt, close, Current, Dialled, LinkOf, HandshakeTypeOK, DialsInv, QueueInv, AcceptInv, HelloInv, DialStates, Accept
    <3>5. HelloInv'
      BY <2>0, <2>13 DEF HelloInv, kvars, DialAt, close, Current, Dialled, LinkOf, HandshakeTypeOK, DialsInv, QueueInv, AcceptInv, HelloInv, DialStates, Accept
    <3> QED BY <3>1, <3>2, <3>3, <3>4, <3>5 DEF HandshakeInv
  <2> QED BY <2>1, <2>2, <2>3, <2>4, <2>5, <2>6, <2>7, <2>8, <2>9, <2>10, <2>11, <2>12, <2>13 DEF HandshakeNext
<1>3. HandshakeInv => HandshakeAgrees
  BY LinkOfDialled DEF HandshakeInv, HandshakeTypeOK, DialsInv, HelloInv, HandshakeAgrees, Current, LinkOf
<1> QED BY <1>1, <1>2, <1>3, PTL DEF HandshakeSpec

=============================================================================
