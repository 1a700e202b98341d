------------------------------- MODULE MCQuic -------------------------------
(* Six parts of landro-quic that share no state in this model.  Each        *)
(* behaviour exercises one of them.                                         *)
EXTENDS ConnectionPool, StreamTransfer, TransferEngine, CircuitBreaker,
        Handshake, TLC

VARIABLE focus

AllEvents == {"cleanup", "remove", "shutdown", "drop"}
Symmetry == Permutations(Conns) \cup Permutations(Callers \ Reconnectors)

Init ==
    /\ PoolInit /\ FlowInit /\ EngineInit /\ BreakerInit /\ HandshakeInit
    /\ focus \in {"pool", "flow", "engine", "breaker", "monitor", "handshake"}

Next ==
    /\ UNCHANGED focus
    /\ \/ /\ focus = "pool" /\ PoolNext
          /\ UNCHANGED <<fvars, evars, bvars, kvars>>
       \/ /\ focus = "flow" /\ FlowNext
          /\ UNCHANGED <<pvars, evars, bvars, kvars>>
       \/ /\ focus = "engine" /\ EngineNext
          /\ UNCHANGED <<pvars, fvars, bvars, kvars>>
       \/ /\ focus = "breaker" /\ BreakerNext
          /\ UNCHANGED <<pvars, fvars, evars, kvars>>
       \/ /\ focus = "monitor" /\ MonitorNext
          /\ UNCHANGED <<pvars, fvars, evars, kvars>>
       \/ /\ focus = "handshake" /\ HandshakeNext
          /\ UNCHANGED <<pvars, fvars, evars, bvars>>

Spec == Init /\ [][Next]_<<pvars, fvars, evars, bvars, kvars, focus>>
=============================================================================
