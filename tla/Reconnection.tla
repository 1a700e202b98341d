---------------------------- MODULE Reconnection ----------------------------
(***************************************************************************)
(* landro-quic/src/reconnection_manager.rs: a failure reported for a peer  *)
(* starts a task that retries with growing delays until it connects or     *)
(* gives up.                                                               *)
(*                                                                         *)
(* Each step ends at an await.  report_connection_failure keeps the write  *)
(* lock of peer_states while it looks for, spawns and registers the task.  *)
(***************************************************************************)
EXTENDS Naturals

CONSTANTS
    Peers, Tasks,  \* peers, and slots for spawned tasks (reused when free)
    Reporters,     \* tasks that report failures
    None,          \* no task, no lock holder
    MaxAttempts,   \* max_retry_attempts
    Outcomes,      \* of client.connect: "ok", "refused", "timeout"
    FailsSoon,     \* a connection may fail within the delay of its last attempt
    Events         \* "track", "stop": which other methods are called

ASSUME ReconnectionAssumption ==
    /\ MaxAttempts \in Nat \ {0} /\ Peers # {}
    /\ None \notin Tasks \cup Reporters
    /\ Outcomes \subseteq {"ok", "refused", "timeout"} /\ FailsSoon \in BOOLEAN

VARIABLES
    state, retry_count, \* PeerConnectionState, per peer
    early,   \* peer -> last_attempt.elapsed() < current_delay
    active,  \* active_reconnections: peer -> task
    writer,  \* the reporter holding peer_states.write(), if any
    rpc, rpeer, rtask, \* reporter -> next step, its peer, the task it spawned
    pc, peer, doomed, \* task -> next step, its peer, abort() was called
    stopped  \* observation: stop() was called

reporter == <<writer, rpc, rpeer, rtask>>
task == <<pc, peer, doomed>>
vars == <<state, retry_count, early, active, reporter, task, stopped>>

States == {"Connected", "Reconnecting", "Failed", "Backoff"}

TypeOK ==
    /\ state \in [Peers -> States] /\ retry_count \in [Peers -> Nat]
    /\ stopped \in BOOLEAN
    /\ ~stopped => \A p \in Peers : retry_count[p] <= MaxAttempts
    /\ early \in [Peers -> BOOLEAN] /\ active \in [Peers -> Tasks \cup {None}]
    /\ writer \in Reporters \cup {None}
    /\ rpc \in [Reporters -> {"idle", "look", "spawn", "insert"}]
    /\ rpeer \in [Reporters -> Peers] /\ rtask \in [Reporters -> Tasks \cup {None}]
    /\ pc \in [Tasks -> {"free", "check", "attempt", "connect", "pool",
                         "sleep", "remove"}]
    /\ peer \in [Tasks -> Peers] /\ doomed \in [Tasks -> BOOLEAN]

Init ==
    /\ state = [p \in Peers |-> "Connected"] /\ retry_count = [p \in Peers |-> 0]
    /\ early = [p \in Peers |-> FALSE] /\ active = [p \in Peers |-> None]
    /\ writer = None /\ rpc = [r \in Reporters |-> "idle"]
    /\ rpeer \in [Reporters -> Peers] /\ rtask = [r \in Reporters |-> None]
    /\ pc = [t \in Tasks |-> "free"] /\ peer \in [Tasks -> Peers]
    /\ doomed = [t \in Tasks |-> FALSE] /\ stopped = FALSE

-----------------------------------------------------------------------------
(* report_connection_failure *)

Report(r, p) ==
    /\ rpc[r] = "idle" /\ writer = None
    /\ FailsSoon \/ ~early[p]
    /\ state' = [state EXCEPT ![p] = "Failed"] /\ writer' = r
    /\ rpc' = [rpc EXCEPT ![r] = "look"] /\ rpeer' = [rpeer EXCEPT ![r] = p]
    /\ UNCHANGED <<retry_count, early, active, rtask, task, stopped>>

LookUnlocks(r) ==
    /\ rpc[r] = "look" /\ writer' = None
    /\ rpc' = [rpc EXCEPT ![r] = IF active[rpeer[r]] = None THEN "spawn" ELSE "idle"]
    /\ UNCHANGED <<state, retry_count, early, active, rpeer, rtask, task, stopped>>

(* is_reconnection_active; the lock goes when the report returns. *)
Look(r) ==
    /\ rpc[r] = "look"
    /\ IF active[rpeer[r]] = None
       THEN rpc' = [rpc EXCEPT ![r] = "spawn"] /\ UNCHANGED writer
       ELSE rpc' = [rpc EXCEPT ![r] = "idle"] /\ writer' = None
    /\ UNCHANGED <<state, retry_count, early, active, rpeer, rtask, task, stopped>>

(* start_reconnection_task: the task is spawned, then registered. *)
Spawn(r) ==
    /\ rpc[r] = "spawn"
    /\ \E t \in Tasks :
          /\ pc[t] = "free"
          /\ pc' = [pc EXCEPT ![t] = "check"]
          /\ peer' = [peer EXCEPT ![t] = rpeer[r]]
          /\ doomed' = [doomed EXCEPT ![t] = FALSE]
          /\ rtask' = [rtask EXCEPT ![r] = t]
    /\ rpc' = [rpc EXCEPT ![r] = "insert"]
    /\ UNCHANGED <<state, retry_count, early, active, writer, rpeer, stopped>>

Insert(r) ==
    /\ rpc[r] = "insert"
    /\ active' = [active EXCEPT ![rpeer[r]] = rtask[r]]
    /\ rtask' = [rtask EXCEPT ![r] = None]
    /\ rpc' = [rpc EXCEPT ![r] = "idle"] /\ writer' = None
    /\ UNCHANGED <<state, retry_count, early, rpeer, task, stopped>>

track_peer(p) ==
    /\ "track" \in Events /\ writer = None
    /\ state' = [state EXCEPT ![p] = "Connected"]
    /\ retry_count' = [retry_count EXCEPT ![p] = 0]
    /\ UNCHANGED <<early, active, reporter, task, stopped>>

(* The registered tasks are aborted and forgotten. *)
stop ==
    /\ "stop" \in Events
    /\ doomed' = [t \in Tasks |-> doomed[t] \/ \E p \in Peers : active[p] = t]
    /\ active' = [p \in Peers |-> None] /\ stopped' = TRUE
    /\ UNCHANGED <<state, retry_count, early, reporter, pc, peer>>

-----------------------------------------------------------------------------
(* The reconnection task.  Every access to peer_states waits for a reporter
   that holds the write lock. *)

Goto(t, step) == pc' = [pc EXCEPT ![t] = step]

is_ready_for_retry(p) == retry_count[p] < MaxAttempts /\ ~early[p]

Check(t) ==
    /\ pc[t] = "check" /\ writer = None
    /\ Goto(t, IF is_ready_for_retry(peer[t]) /\ state[peer[t]] # "Connected"
               THEN "attempt" ELSE "remove")
    /\ UNCHANGED <<state, retry_count, early, active, reporter, peer, doomed, stopped>>

(* start_retry_attempt: last_attempt is now. *)
AttemptUncounted(t) ==
    /\ pc[t] = "attempt" /\ writer = None /\ Goto(t, "connect")
    /\ early' = [early EXCEPT ![peer[t]] = TRUE]
    /\ state' = [state EXCEPT ![peer[t]] = "Reconnecting"]
    /\ UNCHANGED <<retry_count, active, reporter, peer, doomed, stopped>>

Attempt(t) ==
    /\ pc[t] = "attempt" /\ writer = None /\ Goto(t, "connect")
    /\ retry_count' = [retry_count EXCEPT ![peer[t]] = @ + 1]
    /\ early' = [early EXCEPT ![peer[t]] = TRUE]
    /\ state' = [state EXCEPT ![peer[t]] = "Reconnecting"]
    /\ UNCHANGED <<active, reporter, peer, doomed, stopped>>

(* mark_success; what last_attempt was stays. *)
Connected(t) ==
    /\ "ok" \in Outcomes
    /\ pc[t] = "connect" /\ ~doomed[t] /\ writer = None /\ Goto(t, "pool")
    /\ state' = [state EXCEPT ![peer[t]] = "Connected"]
    /\ retry_count' = [retry_count EXCEPT ![peer[t]] = 0]
    /\ UNCHANGED <<early, active, reporter, peer, doomed, stopped>>

Refused(t) ==
    /\ "refused" \in Outcomes
    /\ pc[t] = "connect" /\ ~doomed[t] /\ writer = None
    /\ IF retry_count[peer[t]] >= MaxAttempts
       THEN state' = [state EXCEPT ![peer[t]] = "Failed"] /\ Goto(t, "remove")
       ELSE state' = [state EXCEPT ![peer[t]] = "Backoff"] /\ Goto(t, "sleep")
    /\ UNCHANGED <<retry_count, early, active, reporter, peer, doomed, stopped>>

TimedOut(t) ==
    /\ "timeout" \in Outcomes
    /\ pc[t] = "connect" /\ ~doomed[t] /\ writer = None
    /\ state' = [state EXCEPT ![peer[t]] = "Backoff"] /\ Goto(t, "sleep")
    /\ UNCHANGED <<retry_count, early, active, reporter, peer, doomed, stopped>>

(* pool.add_to_pool: see ConnectionPool. *)
AddToPool(t) ==
    /\ pc[t] = "pool" /\ Goto(t, "remove")
    /\ UNCHANGED <<state, retry_count, early, active, reporter, peer, doomed, stopped>>

(* The task slept for current_delay, so the last attempt is that old. *)
Sleep(t) ==
    /\ pc[t] = "sleep" /\ ~doomed[t] /\ Goto(t, "check")
    /\ early' = [early EXCEPT ![peer[t]] = FALSE]
    /\ UNCHANGED <<state, retry_count, active, reporter, peer, doomed, stopped>>

RemoveEntry(t) ==
    /\ pc[t] = "remove" /\ Goto(t, "free")
    /\ active' = [active EXCEPT ![peer[t]] = None]
    /\ UNCHANGED <<state, retry_count, early, reporter, peer, doomed, stopped>>

(* An aborted task ends at an await that has to wait. *)
Dropped(t) ==
    /\ doomed[t] /\ pc[t] # "free" /\ Goto(t, "free")
    /\ UNCHANGED <<state, retry_count, early, active, reporter, peer, doomed, stopped>>

TimePasses(p) ==
    /\ early[p] /\ early' = [early EXCEPT ![p] = FALSE]
    /\ UNCHANGED <<state, retry_count, active, reporter, task, stopped>>

-----------------------------------------------------------------------------
ReportStep(r) == Look(r) \/ Spawn(r) \/ Insert(r)

TaskStep(t) ==
    \/ Check(t) \/ Attempt(t) \/ Connected(t) \/ Refused(t) \/ TimedOut(t)
    \/ AddToPool(t) \/ Sleep(t) \/ RemoveEntry(t) \/ Dropped(t)

Next ==
    \/ \E r \in Reporters : ReportStep(r) \/ \E p \in Peers : Report(r, p)
    \/ \E t \in Tasks : TaskStep(t)
    \/ \E p \in Peers : track_peer(p) \/ TimePasses(p)
    \/ stop

Spec == Init /\ [][Next]_vars

(* The runtime polls every task, and tokio's RwLock is fair: a task that waits
   for it gets it however often others take it. *)
FairSpec ==
    /\ Spec
    /\ \A t \in Tasks : SF_vars(TaskStep(t))
    /\ WF_vars(\E r \in Reporters : ReportStep(r))

-----------------------------------------------------------------------------
(* Properties. *)

Live(t) == pc[t] # "free" /\ ~doomed[t]

(* However reports and tasks interleave, a peer has one reconnection task at a
   time: two would compete for its state and connect twice.  After stop() that
   no longer holds, for a task it aborted may still remove a newer entry. *)
OneTaskPerPeer ==
    ~stopped => \A t, u \in Tasks : Live(t) /\ Live(u) /\ peer[t] = peer[u] => t = u

(* An entry of active_reconnections belongs to a task that still runs and will
   remove it. A stale entry would keep every later failure from being acted
   on. *)
NoStaleEntry ==
    \A p \in Peers : active[p] # None =>
        Live(active[p]) /\ peer[active[p]] = p

(* The table and the tasks agree, in both directions. *)
OneLiveTask == OneTaskPerPeer /\ NoStaleEntry

(* No reconnection task retries for ever: it ends, or its peer is connected at
   some point, by the task itself or by somebody who tracks it anew. *)
TasksEnd ==
    \A t \in Tasks : pc[t] # "free" ~> pc[t] = "free" \/ state[peer[t]] = "Connected"

=============================================================================
