---------------------------- MODULE EndToEndSync ----------------------------
(***************************************************************************)
(* EndToEndSyncOrchestrator of landro-daemon/src/end_to_end_sync.rs: the   *)
(* workflow of each session in a task of its own, and the three tables     *)
(* that show it: active_sessions, the sessions of CliProgressApi           *)
(* (cli_progress_api.rs) and the health checks.  Nothing is removed from   *)
(* the first two.                                                          *)
(*                                                                         *)
(* Only the manifest phase, which indexes the folder, can fail.  The diff, *)
(* the transfer and the conflicts are placeholders in the code: they only  *)
(* report progress.  No checkpoint has a session's id here: sessions are   *)
(* never registered with the resume manager.                               *)
(***************************************************************************)
EXTENDS Naturals, FiniteSets

CONSTANTS
    MaxSessions,    \* calls of start_complete_sync (bound)
    NoRow

SyncIds == 1..MaxSessions

SyncStages == {"Initializing", "ConnectingToPeer", "ExchangingManifests", "ComputingBloomDiff",
               "TransferringFiles", "ResolvingConflicts", "Verifying", "Completed", "Failed"}

(* EndToEndSession, of which the stage, the status and the percentage are
   kept: the only parts that change together; and SessionProgress. *)
SessionRows  == [stage : SyncStages, status : {"Active", "Completed", "Failed"}, percent : 0..100]
ProgressRows == [stage : SyncStages, percent : 0..100]

ASSUME EndToEndAssumption ==
    MaxSessions \in Nat \ {0} /\ NoRow \notin SessionRows /\ NoRow \notin ProgressRows

VARIABLES
    session_counter,
    starting,   \* calls of start_complete_sync: what each does next
    workflow,   \* the task of each session: its next phase
    row,        \* active_sessions
    cli,        \* active_sessions of CliProgressApi
    cli_monitors, \* sessions with a monitor_session_progress task
    health      \* health_checks

xvars == <<session_counter, starting, workflow, row, cli, cli_monitors, health>>

EndToEndInit ==
    /\ session_counter = 0
    /\ starting = [s \in SyncIds |-> "none"]
    /\ workflow = [s \in SyncIds |-> "none"]
    /\ row = [s \in SyncIds |-> NoRow]
    /\ cli = [s \in SyncIds |-> NoRow]
    /\ cli_monitors = {}
    /\ health = {}

(* start_complete_sync: the id, the session, the progress tracking, the    *)
(* health check, and the task at last.                                     *)
start_complete_sync ==
    /\ session_counter < MaxSessions
    /\ session_counter' = session_counter + 1
    /\ starting' = [starting EXCEPT ![session_counter + 1] = "insert"]
    /\ UNCHANGED <<workflow, row, cli, cli_monitors, health>>

NewSession == [stage |-> "Initializing", status |-> "Active", percent |-> 0]

InsertSession(s) ==
    /\ starting[s] = "insert"
    /\ row' = [row EXCEPT ![s] = NewSession]
    /\ starting' = [starting EXCEPT ![s] = "track"]
    /\ UNCHANGED <<session_counter, workflow, cli, cli_monitors, health>>

start_session_tracking(s) ==
    /\ starting[s] = "track"
    /\ cli' = [cli EXCEPT ![s] = [stage |-> "Initializing", percent |-> 0]]
    /\ cli_monitors' = cli_monitors \cup {s}
    /\ starting' = [starting EXCEPT ![s] = "monitor"]
    /\ UNCHANGED <<session_counter, workflow, row, health>>

SpawnFirst(s) ==
    \/ /\ starting[s] = "monitor" /\ workflow[s] = "none"
       /\ workflow' = [workflow EXCEPT ![s] = "connect"]
       /\ UNCHANGED <<session_counter, starting, row, cli, cli_monitors, health>>
    \/ /\ starting[s] = "monitor" /\ workflow[s] # "none"
       /\ health' = health \cup {s}
       /\ starting' = [starting EXCEPT ![s] = "done"]
       /\ UNCHANGED <<session_counter, workflow, row, cli, cli_monitors>>

start_monitoring(s) ==
    /\ starting[s] = "monitor"
    /\ health' = health \cup {s}
    /\ workflow' = [workflow EXCEPT ![s] = "connect"]
    /\ starting' = [starting EXCEPT ![s] = "done"]
    /\ UNCHANGED <<session_counter, row, cli, cli_monitors>>

-----------------------------------------------------------------------------
Phase(s, from, to, stage, percent) ==
    /\ workflow[s] = from
    /\ row' = [row EXCEPT ![s].stage = stage, ![s].percent = percent]
    /\ workflow' = [workflow EXCEPT ![s] = to]
    /\ UNCHANGED <<session_counter, starting, cli, cli_monitors, health>>

handle_connection_phase(s) == Phase(s, "connect", "manifest", "ConnectingToPeer", 10)
handle_manifest_exchange_phase(s) == Phase(s, "manifest", "diff", "ExchangingManifests", 25)
handle_bloom_diff_phase(s) == Phase(s, "diff", "transfer", "ComputingBloomDiff", 50)

(* It reports 50 to 100 percent, and a stable network to the progress API. *)
handle_file_transfer_phase(s) ==
    \/ Phase(s, "transfer", "transfer", "TransferringFiles", 75)
    \/ Phase(s, "transfer", "conflicts", "TransferringFiles", 100)

handle_conflict_resolution_phase(s) == Phase(s, "conflicts", "verify", "ResolvingConflicts", 95)
handle_verification_phase(s) == Phase(s, "verify", "complete", "Verifying", 99)

FolderFails(s) ==
    /\ workflow[s] = "manifest"
    /\ row' = [row EXCEPT ![s].stage = "ExchangingManifests"]
    /\ workflow' = [workflow EXCEPT ![s] = "fail"]
    /\ UNCHANGED <<session_counter, starting, cli, cli_monitors, health>>

(* complete_sync_session and handle_session_failure: the session, the      *)
(* progress, and the health check, one after the other.                    *)
complete_sync_session(s) ==
    /\ workflow[s] = "complete"
    /\ row' = [row EXCEPT ![s] = [stage |-> "Completed", status |-> "Completed", percent |-> 100]]
    /\ workflow' = [workflow EXCEPT ![s] = "report completed"]
    /\ UNCHANGED <<session_counter, starting, cli, cli_monitors, health>>

handle_session_failure(s) ==
    /\ workflow[s] = "fail"
    /\ row' = [row EXCEPT ![s].stage = "Failed", ![s].status = "Failed"]
    /\ workflow' = [workflow EXCEPT ![s] = "report failed"]
    /\ UNCHANGED <<session_counter, starting, cli, cli_monitors, health>>

complete_session(s) ==
    /\ workflow[s] = "report completed"
    /\ cli' = [cli EXCEPT ![s] = [stage |-> "Completed", percent |-> 100]]
    /\ workflow' = [workflow EXCEPT ![s] = "stop"]
    /\ UNCHANGED <<session_counter, starting, row, cli_monitors, health>>

fail_session(s) ==
    /\ workflow[s] = "report failed"
    /\ cli' = [cli EXCEPT ![s].stage = "Failed"]
    /\ workflow' = [workflow EXCEPT ![s] = "stop"]
    /\ UNCHANGED <<session_counter, starting, row, cli_monitors, health>>

stop_monitoring(s) ==
    /\ workflow[s] = "stop"
    /\ health' = health \ {s}
    /\ workflow' = [workflow EXCEPT ![s] = "ended"]
    /\ UNCHANGED <<session_counter, starting, row, cli, cli_monitors>>

(* The monitor of the progress ends when it finds the session finished. *)
monitor_session_progress(s) ==
    /\ s \in cli_monitors /\ cli[s].stage \in {"Completed", "Failed"}
    /\ cli_monitors' = cli_monitors \ {s}
    /\ UNCHANGED <<session_counter, starting, workflow, row, cli, health>>

EndToEndNext ==
    \/ start_complete_sync
    \/ \E s \in SyncIds :
        \/ InsertSession(s) \/ start_session_tracking(s) \/ start_monitoring(s)
        \/ handle_connection_phase(s) \/ handle_manifest_exchange_phase(s) \/ FolderFails(s)
        \/ handle_bloom_diff_phase(s) \/ handle_file_transfer_phase(s)
        \/ handle_conflict_resolution_phase(s) \/ handle_verification_phase(s)
        \/ complete_sync_session(s) \/ handle_session_failure(s)
        \/ complete_session(s) \/ fail_session(s) \/ stop_monitoring(s)
        \/ monitor_session_progress(s)

-----------------------------------------------------------------------------
(* Once a workflow has ended, however quickly, the three tables agree on   *)
(* how: the session and its progress are both completed or both failed,    *)
(* and no health check is left.  The progress monitor of a session only    *)
(* ends after that verdict was reported.                                   *)
TablesAgree ==
    \A s \in SyncIds :
        /\ workflow[s] = "ended" /\ starting[s] = "done" =>
            /\ row[s].status \in {"Completed", "Failed"} /\ cli[s].stage = row[s].status
            /\ s \notin health
        /\ workflow[s] \in {"connect", "manifest", "diff", "transfer", "conflicts", "verify"}
            => s \in health /\ s \in cli_monitors
=============================================================================
