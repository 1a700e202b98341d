---------------------------- MODULE MCSyncState -----------------------------
(* Six parts of a synchronisation that share no state in this model: the   *)
(* session files, the recovery log with one caller at a time, the two ends *)
(* of a transport, the orchestrator with its scheduler, its locks, and the *)
(* handler of protocol messages.  Each behaviour exercises one of them.    *)
EXTENDS SyncPersistence, RecoveryLog, SyncTransport, SyncOrchestrator,
        SyncHandler, TLC

CONSTANTS f1, f2, c1, c2
VARIABLE focus

(* SessionChunks has the model values of Handlers, and Ids those of Savers:
   one set of permutations does for both. *)
Symmetry == Permutations(Handlers) \cup Permutations(Savers)
AllMethods == {"start", "checkpoint", "complete", "fail"}
ManifestOf == (f1 :> {c1, c2}) @@ (f2 :> {c2})

Init ==
    /\ PersistenceInit /\ LogInit /\ TransportInit /\ SyncOrchestratorInit
    /\ LocksInit /\ HandlerInit
    /\ focus \in {"files", "log", "transport", "orchestrator", "locks", "handler"}
    /\ focus # "transport" => compatible /\ \A e \in Ends : step[e] = "initiate"

Next ==
    /\ UNCHANGED focus
    /\ \/ /\ focus = "files" /\ PersistenceNext
          /\ UNCHANGED <<logvars, tvars, ovars, lvars, hvars>>
       \/ /\ focus = "log" /\ LogNext
          /\ UNCHANGED <<syvars, tvars, ovars, lvars, hvars>>
       \/ /\ focus = "transport" /\ TransportNext
          /\ UNCHANGED <<syvars, logvars, ovars, lvars, hvars>>
       \/ /\ focus = "orchestrator" /\ SyncOrchestratorNext
          /\ UNCHANGED <<syvars, logvars, tvars, lvars, hvars>>
       \/ /\ focus = "locks" /\ LocksNext
          /\ UNCHANGED <<syvars, logvars, tvars, ovars, hvars>>
       \/ /\ focus = "handler" /\ HandlerNext
          /\ UNCHANGED <<syvars, logvars, tvars, ovars, lvars>>

Spec ==
    Init /\ [][Next]_<<syvars, logvars, tvars, ovars, lvars, hvars, focus>>
=============================================================================
