--------------------------- MODULE MCStoreLayers ----------------------------
(* The layers above the object files.  They share no state in this model, *)
(* so each behaviour exercises one of them.                               *)
EXTENDS ChunkCache, ResumableWrite, IntegrityScan, TLC

CONSTANTS a, b

VARIABLE focus

MCSize == a :> 1 @@ b :> 2

Init ==
    /\ CacheInit /\ ResumableInit /\ ScanInit
    /\ focus \in {"cache", "partial", "atomic", "scan"}

Next ==
    \/ focus = "cache" /\ CacheNext /\ UNCHANGED <<rvars, svars, focus>>
    \/ focus = "partial" /\ PartialNext /\ UNCHANGED <<cvars, svars, focus>>
    \/ focus = "atomic" /\ AtomicNext /\ UNCHANGED <<cvars, svars, focus>>
    \/ focus = "scan" /\ ScanNext /\ UNCHANGED <<cvars, rvars, focus>>

Spec == Init /\ [][Next]_<<cvars, rvars, svars, focus>>
=============================================================================
