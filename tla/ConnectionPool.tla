--------------------------- MODULE ConnectionPool ---------------------------
(***************************************************************************)
(* landro-quic/src/pool.rs: connections shared by the tasks of the daemon. *)
(*                                                                         *)
(* Each step is one critical section of the connections lock, or one       *)
(* network event.  A vector of pooled connections is a set: which healthy  *)
(* idle connection is found first is left open.                            *)
(***************************************************************************)
EXTENDS Naturals, FiniteSets

CONSTANTS
    Peers, Callers, Conns, \* peers, tasks, connections ever made (bound)
    Reconnectors,  \* callers that are reconnection tasks: they only add
    NoConn,
    MaxPerPeer, MaxTotal, MaxAttempts, \* PoolConfig
    Events         \* "cleanup", "remove", "shutdown", "drop": what else happens

PoolConfig == MaxPerPeer \in Nat \ {0} /\ MaxTotal \in Nat /\ MaxAttempts \in Nat \ {0}

ASSUME PoolAssumption ==
    /\ PoolConfig
    /\ Reconnectors \subseteq Callers /\ NoConn \notin Conns
    /\ IsFiniteSet(Peers) /\ IsFiniteSet(Callers) /\ IsFiniteSet(Conns)

VARIABLES
    pool,      \* connections: peer -> pooled connections
    streams,   \* PooledConnection::active_streams
    closed,    \* connections closed by either side
    made,      \* connections established so far
    pc,        \* caller -> next step of get_connection
    peer, conn, attempt, \* caller -> peer_addr, connection, attempts failed
    down,      \* shutdown has run
    foreign    \* observation: connections that reconnection tasks made

caller == <<pc, peer, conn, attempt>>
pvars == <<pool, streams, closed, made, caller, down, foreign>>

PoolInit ==
    /\ pool = [p \in Peers |-> {}] /\ streams = [k \in Conns |-> 0]
    /\ closed = {} /\ made = {}
    /\ pc = [c \in Callers |-> "idle"] /\ peer \in [Callers -> Peers]
    /\ conn = [c \in Callers |-> NoConn] /\ attempt = [c \in Callers |-> 0]
    /\ down = FALSE /\ foreign = {}

Pooled == UNION {pool[p] : p \in Peers}
is_idle(k) == streams[k] = 0
Users(k) == {c \in Callers : pc[c] = "using" /\ conn[c] = k}

-----------------------------------------------------------------------------
(* get_connection *)

(* The connections find_available_connection may choose from. *)
Available(p) == {k \in pool[p] \ closed : is_idle(k)}

Reuse(c, p) ==
    /\ pc[c] = "idle" /\ c \notin Reconnectors
    /\ \E k \in Available(p) :
          /\ streams' = [streams EXCEPT ![k] = 1]
          /\ conn' = [conn EXCEPT ![c] = k]
    /\ pc' = [pc EXCEPT ![c] = "using"] /\ peer' = [peer EXCEPT ![c] = p]
    /\ UNCHANGED <<pool, closed, made, attempt, down, foreign>>

FindNothing(c, p) ==
    /\ pc[c] = "idle" /\ c \notin Reconnectors /\ Available(p) = {}
    /\ pc' = [pc EXCEPT ![c] = "check"] /\ peer' = [peer EXCEPT ![c] = p]
    /\ UNCHANGED <<pool, streams, closed, made, conn, attempt, down, foreign>>

CanCreateOffByOne(p) ==
    Cardinality(Pooled) <= MaxTotal /\ Cardinality(pool[p]) <= MaxPerPeer

can_create_new_connection(p) ==
    Cardinality(Pooled) < MaxTotal /\ Cardinality(pool[p]) < MaxPerPeer

Check(c) ==
    /\ pc[c] = "check"
    /\ pc' = [pc EXCEPT ![c] = IF can_create_new_connection(peer[c])
                               THEN "connect" ELSE "idle"]
    /\ UNCHANGED <<pool, streams, closed, made, peer, conn, attempt, down, foreign>>

(* A reconnection task of ReconnectionManager connects without asking. *)
Reconnect(c, p) ==
    /\ pc[c] = "idle" /\ c \in Reconnectors
    /\ pc' = [pc EXCEPT ![c] = "connect"] /\ peer' = [peer EXCEPT ![c] = p]
    /\ UNCHANGED <<pool, streams, closed, made, conn, attempt, down, foreign>>

(* create_connection_with_retry: a failed or timed-out attempt. *)
ConnectFails(c) ==
    /\ pc[c] = "connect"
    /\ IF attempt[c] + 1 = MaxAttempts
       THEN pc' = [pc EXCEPT ![c] = "idle"] /\ attempt' = [attempt EXCEPT ![c] = 0]
       ELSE attempt' = [attempt EXCEPT ![c] = @ + 1] /\ UNCHANGED pc
    /\ UNCHANGED <<pool, streams, closed, made, peer, conn, down, foreign>>

Connect(c) ==
    /\ pc[c] = "connect"
    /\ \E k \in Conns \ made :
          /\ conn' = [conn EXCEPT ![c] = k] /\ made' = made \cup {k}
          /\ foreign' = IF c \in Reconnectors THEN foreign \cup {k} ELSE foreign
    /\ pc' = [pc EXCEPT ![c] = "add"] /\ attempt' = [attempt EXCEPT ![c] = 0]
    /\ UNCHANGED <<pool, streams, closed, peer, down>>

(* add_to_pool: a new entry counts no active stream. *)
add_to_pool(c) ==
    /\ pc[c] = "add"
    /\ pool' = [pool EXCEPT ![peer[c]] = @ \cup {conn[c]}]
    /\ streams' = [streams EXCEPT ![conn[c]] = 0]
    /\ IF c \in Reconnectors
       THEN pc' = [pc EXCEPT ![c] = "idle"] /\ conn' = [conn EXCEPT ![c] = NoConn]
       ELSE pc' = [pc EXCEPT ![c] = "using"] /\ UNCHANGED conn
    /\ UNCHANGED <<closed, made, peer, attempt, down, foreign>>

(* The caller drops its Arc; nothing calls release_stream. *)
Done(c) ==
    /\ pc[c] = "using"
    /\ pc' = [pc EXCEPT ![c] = "idle"] /\ conn' = [conn EXCEPT ![c] = NoConn]
    /\ UNCHANGED <<pool, streams, closed, made, peer, attempt, down, foreign>>

-----------------------------------------------------------------------------
(* What happens to connections meanwhile. *)

ConnectionDrops(k) ==
    /\ "drop" \in Events /\ k \in made \ closed
    /\ closed' = closed \cup {k}
    /\ UNCHANGED <<pool, streams, made, caller, down, foreign>>

(* Any idle connection may have been unused for max_idle_time. *)
Stale == SUBSET {k \in Pooled : is_idle(k)}

(* One tick of the cleanup task, which shutdown stops. *)
Cleanup ==
    /\ "cleanup" \in Events /\ ~down
    /\ \E old \in Stale :
          LET gone == (Pooled \cap closed) \cup old
          IN  /\ gone # {}
              /\ pool' = [p \in Peers |-> pool[p] \ gone]
              /\ closed' = closed \cup gone
    /\ UNCHANGED <<streams, made, caller, down, foreign>>

close_peer_connections(p) ==
    /\ "remove" \in Events /\ pool[p] # {}
    /\ pool' = [pool EXCEPT ![p] = {}] /\ closed' = closed \cup pool[p]
    /\ UNCHANGED <<streams, made, caller, down, foreign>>

(* The entries are dropped, their connections left to whoever uses them. *)
remove_peer_connections(p) ==
    /\ "remove" \in Events /\ pool[p] # {}
    /\ pool' = [pool EXCEPT ![p] = {}]
    /\ UNCHANGED <<streams, closed, made, caller, down, foreign>>

shutdown ==
    /\ "shutdown" \in Events /\ ~down
    /\ pool' = [p \in Peers |-> {}] /\ closed' = closed \cup Pooled
    /\ down' = TRUE
    /\ UNCHANGED <<streams, made, caller, foreign>>

PoolNext ==
    \/ \E c \in Callers :
          \/ \E p \in Peers : Reuse(c, p) \/ FindNothing(c, p) \/ Reconnect(c, p)
          \/ Check(c) \/ ConnectFails(c) \/ Connect(c) \/ add_to_pool(c) \/ Done(c)
    \/ \E k \in Conns : ConnectionDrops(k)
    \/ \E p \in Peers : close_peer_connections(p) \/ remove_peer_connections(p)
    \/ Cleanup \/ shutdown

-----------------------------------------------------------------------------
(* Properties. *)

Creating(p) == {c \in Callers \ Reconnectors :
                    pc[c] \in {"connect", "add"} /\ peer[c] = p}

(* The limit is tested before connecting and not again when the connection is
   added: concurrent calls of get_connection overrun it, but never by as much
   as their number, however often they call and whatever is removed meanwhile.
   A connection is shared by at most two callers, the one that created it and
   the first one to find it: active_streams keeps everybody else away. *)
PoolBounded ==
    /\ \A p \in Peers : Cardinality(pool[p] \ foreign) + Cardinality(Creating(p))
                           < MaxPerPeer + Cardinality(Callers \ Reconnectors)
    /\ \A k \in Conns : Cardinality(Users(k)) <= 2
=============================================================================
