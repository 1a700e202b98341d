--------------------------- MODULE Services_proofs --------------------------
(***************************************************************************)
(* Theorems about the services around a synchronisation: the checkpoint    *)
(* file, the tables of end-to-end sessions, file transfers, the Bloom      *)
(* filter diff, migrations, conflicts, the pending changes of a peer, the  *)
(* shell of the daemon, the folder watcher, the chunker and the hash of a  *)
(* manifest.  Each is proved for the component by itself, for any size of  *)
(* it.                                                                     *)
(***************************************************************************)
EXTENDS ResumeManager, EndToEndSync, SimpleTransfer, BloomDiff, Migrations,
        ConflictDetection, IncrementalDiff, DaemonShell, FolderWatcher,
        Chunker, ManifestHash, FiniteSetTheorems, WellFoundedInduction, TLAPS

(* What Append and Tail make of a queue. *)
LEMMA AppendFacts ==
    ASSUME NEW S, NEW q \in Seq(S), NEW x \in S
    PROVE  /\ Append(q, x) \in Seq(S) /\ Len(q) \in Nat /\ Len(Append(q, x)) = Len(q) + 1
           /\ \A i \in 1..Len(q) : Append(q, x)[i] = q[i]
           /\ Append(q, x)[Len(q) + 1] = x
  OBVIOUS

LEMMA TailFacts ==
    ASSUME NEW S, NEW q \in Seq(S), q # <<>>
    PROVE  /\ Len(q) \in Nat \ {0} /\ Head(q) = q[1] /\ Head(q) \in S
           /\ Tail(q) \in Seq(S) /\ Len(Tail(q)) = Len(q) - 1
           /\ \A i \in 1..Len(Tail(q)) : Tail(q)[i] = q[i + 1] /\ i + 1 \in 1..Len(q)
  OBVIOUS

(***************************************************************************)
(* The checkpoint file of the resume manager.                              *)
(***************************************************************************)
(* The resume manager alone. *)
ResumeSpec == ResumeInit /\ [][ResumeNext]_rvars

(* While a save is under way nobody changes the checkpoints, so that every
   save under the read lock writes the same ones; a torn file has somebody who
   opened it and has still to fill it, or was left by a save that stopped. *)
CheckpointsInv ==
    /\ table \in Tables /\ disk \in Tables \cup {TornTable}
    /\ resuming # NoCheckpoint => resuming.session \in ResumeIds /\ resuming.checkpoint \in Checkpoints
    /\ DOMAIN monitors \subseteq ResumeIds /\ DOMAIN beginning \subseteq ResumeIds
    /\ monitors \in [DOMAIN monitors -> {"wait", "open", "fill"}]
    /\ DOMAIN copy = Reading /\ \A s \in Reading : copy[s] = table
    /\ writer \in {"none", "open", "fill"} /\ cut \in BOOLEAN
    /\ writer # "none" => Reading = {}
    /\ \A s \in Reading : monitors[s] = "fill" => disk \in {TornTable, table}
    /\ writer = "fill" => disk = TornTable
    /\ disk = TornTable => cut \/ writer = "fill" \/ \E s \in Reading : monitors[s] = "fill"

(* save_checkpoint keeps the table of the right type. *)
LEMMA SavedTable ==
    ASSUME table \in Tables, NEW s \in ResumeIds, NEW c \in Checkpoints, save_checkpoint(s, c)
    PROVE  table' \in Tables /\ writer' \in {"none", "open"}
  BY DEF save_checkpoint, Tables

(* A step under the write lock that opens no file leaves no reader behind. *)
LEMMA ExclusiveKept ==
    ASSUME CheckpointsInv, CanWrite, table' \in Tables, writer' \in {"none", "open"},
           UNCHANGED <<disk, monitors, copy, cut>>, DOMAIN beginning' \subseteq ResumeIds,
           resuming' # NoCheckpoint => resuming'.session \in ResumeIds /\ resuming'.checkpoint \in Checkpoints
    PROVE  CheckpointsInv'
<1>1. Reading' = {} /\ Reading = {} /\ writer = "none"
  BY DEF CanWrite, Reading
<1>2. DOMAIN copy' = {}
  BY <1>1 DEF CheckpointsInv
<1> QED BY <1>1, <1>2 DEF CheckpointsInv

(* Every step keeps the saves exclusive and the file whole between them. *)
LEMMA CheckpointsKept ==
    ASSUME CheckpointsInv, [ResumeNext]_rvars
    PROVE  CheckpointsInv'
<1> USE ResumeAssumption
<1>1. ASSUME NEW s \in ResumeIds, start_resumable_session(s) PROVE CheckpointsInv'
  <2>1. NewCheckpoint \in Checkpoints
    BY DEF NewCheckpoint, Checkpoints
  <2>2. table' \in Tables /\ writer' \in {"none", "open"}
    BY <1>1, <2>1, SavedTable DEF start_resumable_session, CheckpointsInv
  <2>3. DOMAIN beginning' = DOMAIN beginning \cup {s}
    BY <1>1 DEF start_resumable_session
  <2> QED BY <1>1, <2>2, <2>3, ExclusiveKept DEF start_resumable_session, CheckpointsInv
<1>2. ASSUME NEW s \in ResumeIds, resume_session(s) PROVE CheckpointsInv'
  <2>1. table[s] \in Checkpoints
    BY <1>2 DEF resume_session, can_resume_session, CheckpointsInv, Tables
  <2>2. resuming'.session = s /\ resuming'.checkpoint = table[s]
    BY <1>2 DEF resume_session
  <2>3. UNCHANGED <<table, disk, monitors, copy, writer, beginning, cut>>
    BY <1>2 DEF resume_session
  <2>4. Reading' = Reading
    BY <2>3 DEF Reading
  <2> QED BY <2>1, <2>2, <2>3, <2>4 DEF CheckpointsInv
<1>3. ASSUME NEW exists \in BOOLEAN, ResumePrepared(exists) PROVE CheckpointsInv'
  <2>1. table' \in Tables /\ writer' \in {"none", "open"}
    <3>1. CASE validate_checkpoint(exists)
      BY <1>3, <3>1, SavedTable DEF ResumePrepared, CheckpointsInv
    <3>2. CASE ~ validate_checkpoint(exists)
      BY <1>3, <3>2 DEF ResumePrepared, CheckpointsInv, CanWrite
    <3> QED BY <3>1, <3>2
  <2> QED BY <1>3, <2>1, ExclusiveKept DEF ResumePrepared, CheckpointsInv
<1>4. ASSUME NEW s \in ResumeIds, NEW c \in Checkpoints, Update(s, c) PROVE CheckpointsInv'
  <2>1. table' \in Tables
    BY <1>4 DEF Update, CheckpointsInv, Tables
  <2> QED BY <1>4, <2>1, ExclusiveKept DEF Update, CheckpointsInv, CanWrite
<1>5. ASSUME NEW s \in ResumeIds, NEW h \in SavedChunks,
             ChunkTransferred(s, h) \/ ChunkFailed(s, h)
      PROVE  CheckpointsInv'
  <2>1. table[s] \in Checkpoints
    BY <1>5 DEF ChunkTransferred, ChunkFailed, Update, CheckpointsInv, Tables
  <2>2. PICK c \in Checkpoints : Update(s, c)
    BY <1>5, <2>1 DEF ChunkTransferred, ChunkFailed, Checkpoints
  <2> QED BY <1>4, <2>2
<1>6. ASSUME NEW s \in ResumeIds, Progress(s) \/ Complete(s) PROVE CheckpointsInv'
  <2>1. table[s] \in Checkpoints
    BY <1>6 DEF Progress, Complete, Update, CheckpointsInv, Tables
  <2>2. PICK c \in Checkpoints : Update(s, c)
    BY <1>6, <2>1 DEF Progress, Complete, Checkpoints
  <2> QED BY <1>4, <2>2
<1>7. ASSUME NEW old \in SUBSET {s \in Checkpointed : table[s].done}, cleanup_old_checkpoints(old)
      PROVE  CheckpointsInv'
  <2>1. table' \in Tables
    BY <1>7 DEF cleanup_old_checkpoints, CheckpointsInv, Tables
  <2> QED BY <1>7, <2>1, ExclusiveKept DEF cleanup_old_checkpoints, CheckpointsInv
<1>8. ASSUME NEW s \in DOMAIN monitors, StartSave(s) PROVE CheckpointsInv'
  <2>1. DOMAIN monitors' = DOMAIN monitors /\ Reading' = Reading \cup {s}
    BY <1>8 DEF StartSave, Reading, CheckpointsInv
  <2>2. \A i \in Reading : i # s /\ monitors'[i] = monitors[i]
    BY <1>8 DEF StartSave, Reading, CheckpointsInv
  <2>3. monitors'[s] = "open"
    BY <1>8 DEF StartSave, CheckpointsInv
  <2>4. DOMAIN copy' = Reading' /\ \A i \in Reading' : copy'[i] = table'
    BY <1>8, <2>1, <2>2 DEF StartSave, CheckpointsInv
  <2>5. writer' = "none" /\ disk' = disk /\ cut' = cut /\ table' = table /\ resuming' = resuming /\ writer = "none"
        /\ beginning' = beginning
    BY <1>8 DEF StartSave, CanRead
  <2>6. monitors' \in [DOMAIN monitors' -> {"wait", "open", "fill"}]
    BY <1>8 DEF StartSave, CheckpointsInv
  <2> QED BY <2>1, <2>2, <2>3, <2>4, <2>5, <2>6 DEF CheckpointsInv
<1>9. ASSUME NEW s \in DOMAIN monitors, OpenShared(s) PROVE CheckpointsInv'
  <2>1. DOMAIN monitors' = DOMAIN monitors /\ Reading' = Reading /\ s \in Reading
    BY <1>9 DEF OpenShared, Reading, CheckpointsInv
  <2>2. monitors'[s] = "fill"
    BY <1>9 DEF OpenShared, CheckpointsInv
  <2>3. writer' = writer /\ disk' = TornTable /\ cut' = cut /\ table' = table /\ resuming' = resuming /\ copy' = copy
        /\ beginning' = beginning
    BY <1>9 DEF OpenShared
  <2>4. monitors' \in [DOMAIN monitors' -> {"wait", "open", "fill"}]
    BY <1>9 DEF OpenShared, CheckpointsInv
  <2> QED BY <2>1, <2>2, <2>3, <2>4 DEF CheckpointsInv
<1>10. ASSUME NEW s \in DOMAIN monitors, FillShared(s) \/ OpenSharedFails(s) \/ FillSharedFails(s)
       PROVE  CheckpointsInv'
  <2>0. EndSave(s) /\ monitors[s] \in {"open", "fill"}
    BY <1>10 DEF FillShared, OpenSharedFails, FillSharedFails
  <2>1. DOMAIN monitors' = DOMAIN monitors /\ Reading' = Reading \ {s} /\ s \in Reading
    BY <2>0 DEF EndSave, Reading, CheckpointsInv
  <2>2. \A i \in Reading' : monitors'[i] = monitors[i]
    BY <2>0, <2>1 DEF EndSave, Reading, CheckpointsInv
  <2>3. DOMAIN copy' = Reading' /\ \A i \in Reading' : copy'[i] = table'
    BY <2>0, <2>1 DEF EndSave, CheckpointsInv
  <2>4. \/ disk' = table /\ cut' = FALSE
        \/ disk' = disk /\ cut' = TRUE
        \/ disk' = disk /\ cut' = cut /\ monitors[s] = "open"
    <3>1. copy[s] = table /\ (monitors[s] = "fill" => disk \in {TornTable, table})
      BY <2>1 DEF CheckpointsInv
    <3>2. CASE FillShared(s)
      BY <3>1, <3>2 DEF FillShared, Filled
    <3>3. CASE OpenSharedFails(s)
      BY <3>3 DEF OpenSharedFails
    <3>4. CASE FillSharedFails(s)
      BY <3>1, <3>4 DEF FillSharedFails, PartFilled
    <3> QED BY <1>10, <3>2, <3>3, <3>4
  <2>5. writer' = writer /\ writer # "fill" /\ table' = table /\ resuming' = resuming /\ beginning' = beginning
    BY <2>0, <2>1 DEF EndSave, CheckpointsInv
  <2>6. monitors' \in [DOMAIN monitors' -> {"wait", "open", "fill"}]
    BY <2>0 DEF EndSave, CheckpointsInv
  <2>7. table # TornTable /\ table \in Tables /\ (writer # "none" => Reading' = {})
    BY <2>1 DEF CheckpointsInv
  <2>8. disk' \in Tables \cup {TornTable} /\ cut' \in BOOLEAN
    BY <2>4, <2>7 DEF CheckpointsInv
  <2>9. \A i \in Reading' : monitors'[i] = "fill" => disk' \in {TornTable, table}
    BY <2>1, <2>2, <2>4 DEF CheckpointsInv
  <2>10. disk' = TornTable => cut' \/ \E i \in Reading' : monitors'[i] = "fill"
    <3>1. CASE disk' = disk /\ cut' = cut /\ monitors[s] = "open"
      BY <2>1, <2>2, <2>5, <3>1 DEF CheckpointsInv
    <3> QED BY <2>4, <2>7, <3>1
  <2> QED BY <2>1, <2>3, <2>5, <2>6, <2>7, <2>8, <2>9, <2>10 DEF CheckpointsInv
<1>11. ASSUME OpenExclusive PROVE CheckpointsInv'
  <2>1. Reading' = Reading /\ Reading = {}
    BY <1>11 DEF OpenExclusive, Reading, CheckpointsInv
  <2> QED BY <1>11, <2>1 DEF OpenExclusive, CheckpointsInv
<1>12. ASSUME FillExclusive PROVE CheckpointsInv'
  <2>1. Reading' = Reading /\ Reading = {} /\ disk = TornTable
    BY <1>12 DEF FillExclusive, Reading, CheckpointsInv
  <2>2. disk' = table
    BY <1>12, <2>1 DEF FillExclusive, Filled
  <2>3. DOMAIN beginning' = DOMAIN beginning
    BY <1>12 DEF FillExclusive
  <2> QED BY <1>12, <2>1, <2>2, <2>3 DEF FillExclusive, CheckpointsInv
<1>13. ASSUME RestartResume PROVE CheckpointsInv'
  <2>1. table' \in Tables
    BY <1>13 DEF RestartResume, CheckpointsInv, Tables
  <2>2. DOMAIN monitors' = {} /\ DOMAIN copy' = {} /\ DOMAIN beginning' = {}
    BY <1>13 DEF RestartResume
  <2>3. Reading' = {}
    BY <2>2 DEF Reading
  <2>4. monitors' \in [DOMAIN monitors' -> {"wait", "open", "fill"}]
    BY <1>13, <2>2 DEF RestartResume
  <2>5. cut' = (cut \/ writer = "fill" \/ \E s \in DOMAIN monitors : monitors[s] = "fill")
    BY <1>13 DEF RestartResume
  <2>6. cut' \in BOOLEAN
    BY <2>5
  <2>7. disk = TornTable => cut \/ writer = "fill" \/ \E s \in DOMAIN monitors : monitors[s] = "fill"
    BY DEF CheckpointsInv, Reading
  <2>8. disk = TornTable => cut'
    BY <2>5, <2>7, Zenon
  <2>9. disk' = disk /\ writer' = "none" /\ resuming' = NoCheckpoint
    BY <1>13 DEF RestartResume
  <2> QED BY <2>1, <2>2, <2>3, <2>4, <2>6, <2>8, <2>9 DEF CheckpointsInv
<1>14. CASE UNCHANGED rvars
  BY <1>14 DEF rvars, CheckpointsInv, Reading
<1>15. ASSUME OpenExclusiveFails \/ FillExclusiveFails PROVE CheckpointsInv'
  <2>1. SaveFails /\ writer \in {"open", "fill"}
    BY <1>15 DEF OpenExclusiveFails, FillExclusiveFails
  <2>2. UNCHANGED <<table, monitors, copy, resuming>> /\ writer' = "none"
    BY <2>1 DEF SaveFails
  <2>3. Reading' = Reading /\ Reading = {}
    BY <2>1, <2>2 DEF Reading, CheckpointsInv
  <2>4. DOMAIN beginning' \subseteq DOMAIN beginning
    BY <2>1 DEF SaveFails
  <2>5. disk' = disk /\ cut' \in BOOLEAN /\ (disk' = TornTable => cut')
    <3>1. CASE OpenExclusiveFails
      BY <2>3, <3>1 DEF OpenExclusiveFails, CheckpointsInv
    <3>2. CASE FillExclusiveFails
      <4>1. disk = TornTable
        BY <3>2 DEF FillExclusiveFails, CheckpointsInv
      <4> QED BY <3>2, <4>1 DEF FillExclusiveFails, PartFilled
    <3> QED BY <1>15, <3>1, <3>2
  <2> QED BY <2>2, <2>3, <2>4, <2>5 DEF CheckpointsInv
<1>16. ASSUME NEW s \in DOMAIN beginning, TrackSession(s) PROVE CheckpointsInv'
  <2>1. UNCHANGED <<table, disk, copy, writer, resuming, cut>>
    BY <1>16 DEF TrackSession
  <2>2. /\ DOMAIN beginning' \subseteq DOMAIN beginning
        /\ DOMAIN monitors' = DOMAIN monitors \cup {s}
        /\ \A i \in DOMAIN monitors' : monitors'[i] = IF i \in DOMAIN monitors THEN monitors[i] ELSE "wait"
    BY <1>16 DEF TrackSession
  <2>3. monitors' \in [DOMAIN monitors' -> {"wait", "open", "fill"}]
    BY <1>16, <2>2 DEF TrackSession, CheckpointsInv
  <2>4. Reading' = Reading /\ \A i \in Reading : monitors'[i] = monitors[i]
    BY <2>2 DEF Reading
  <2> QED BY <2>1, <2>2, <2>3, <2>4 DEF CheckpointsInv
<1>17. ASSUME NEW s \in ResumeIds, NEW h \in SentChunks[s] PROVE h \in SavedChunks
  BY DEF SavedChunks
<1> QED
  BY <1>1, <1>2, <1>3, <1>5, <1>6, <1>7, <1>8, <1>9, <1>10, <1>11, <1>12, <1>13, <1>14, <1>15, <1>16, <1>17
  DEF ResumeNext

(* Between saves sync_checkpoints.json is whole, although saves under the
   shared lock race with each other and take turns with those under the
   exclusive one, unless a save stopped after it had truncated the file - the
   process died in it or the write failed - and none was completed since. *)
THEOREM CheckpointFileStaysWhole == ResumeSpec => []CheckpointFileWhole
<1>1. ResumeInit => CheckpointsInv
  <2> SUFFICES ASSUME ResumeInit PROVE CheckpointsInv
    OBVIOUS
  <2>1. table \in Tables /\ table # TornTable
    BY ResumeAssumption DEF ResumeInit, Tables
  <2>2. DOMAIN monitors = {} /\ DOMAIN copy = {} /\ Reading = {} /\ DOMAIN beginning = {}
    BY DEF ResumeInit, Reading
  <2> QED BY <2>1, <2>2 DEF ResumeInit, CheckpointsInv
<1>2. CheckpointsInv /\ [ResumeNext]_rvars => CheckpointsInv'
  BY CheckpointsKept
<1>3. CheckpointsInv => CheckpointFileWhole
  BY DEF CheckpointsInv, CheckpointFileWhole
<1> QED BY <1>1, <1>2, <1>3, PTL DEF ResumeSpec

(***************************************************************************)
(* The tables of the end-to-end sessions.                                  *)
(***************************************************************************)
(* The sessions alone. *)
EndToEndSpec == EndToEndInit /\ [][EndToEndNext]_xvars

UnderWay == {"connect", "manifest", "diff", "transfer", "conflicts", "verify"}

Closing == {"complete", "fail", "report completed", "report failed", "stop"}

(* The tables have the types the code gives them; a session has its rows as
   soon as the call that starts it has inserted them. *)
TablesInv ==
    /\ session_counter \in 0..MaxSessions
    /\ starting \in [SyncIds -> {"none", "insert", "track", "monitor", "done"}]
    /\ workflow \in [SyncIds -> {"none", "ended"} \cup UnderWay \cup Closing]
    /\ row \in [SyncIds -> SessionRows \cup {NoRow}]
    /\ cli \in [SyncIds -> ProgressRows \cup {NoRow}]
    /\ \A s \in SyncIds :
        /\ starting[s] \in {"track", "monitor", "done"} => row[s] # NoRow
        /\ s \in cli_monitors \/ starting[s] \in {"monitor", "done"} => cli[s] # NoRow

(* A workflow runs only once the call of start_complete_sync is through, so
   that the progress tracking and the health check are there before it; its
   row is closed first, its progress next, its health check last. *)
InOrder(s) ==
    /\ s > session_counter => starting[s] = "none"
    /\ starting[s] = "done" <=> workflow[s] # "none"
    /\ starting[s] \in {"monitor", "done"} /\ workflow[s] \notin {"stop", "ended"} =>
          s \in cli_monitors /\ cli[s].stage = "Initializing"
    /\ workflow[s] \in UnderWay => s \in health
    /\ workflow[s] = "report completed" => row[s].status = "Completed"
    /\ workflow[s] = "report failed" => row[s].status = "Failed"
    /\ workflow[s] \in {"stop", "ended"} =>
          row[s].status \in {"Completed", "Failed"} /\ cli[s].stage = row[s].status
    /\ workflow[s] = "ended" => s \notin health

WorkflowInv == \A s \in SyncIds : InOrder(s)

(* Every step keeps the types of the tables. *)
LEMMA TablesKept ==
    ASSUME TablesInv, WorkflowInv, [EndToEndNext]_xvars
    PROVE  TablesInv'
<1> USE EndToEndAssumption DEF SyncIds
<1>1. ASSUME start_complete_sync PROVE TablesInv'
  <2>1. PICK n \in SyncIds : n = session_counter + 1
    BY <1>1 DEF start_complete_sync, TablesInv
  <2>2. starting' = [starting EXCEPT ![n] = "insert"] /\ session_counter' = n
    BY <1>1, <2>1 DEF start_complete_sync
  <2>4. n > session_counter /\ n \in 0..MaxSessions
    BY <2>1 DEF TablesInv
  <2>5. starting[n] = "none"
    BY <2>4 DEF WorkflowInv, InOrder
  <2>3. UNCHANGED <<workflow, row, cli, cli_monitors, health>>
    BY <1>1 DEF start_complete_sync
  <2> QED BY <2>1, <2>2, <2>3, <2>4, <2>5 DEF TablesInv, WorkflowInv, InOrder
<1>2. ASSUME NEW s \in SyncIds, InsertSession(s) \/ start_session_tracking(s) \/ start_monitoring(s)
      PROVE  TablesInv'
  <2>1. NewSession \in SessionRows /\ [stage |-> "Initializing", percent |-> 0] \in ProgressRows
    BY DEF NewSession, SessionRows, ProgressRows, SyncStages
  <2>2. CASE InsertSession(s)
    BY <2>1, <2>2 DEF InsertSession, TablesInv
  <2>3. CASE start_session_tracking(s)
    BY <2>1, <2>3 DEF start_session_tracking, TablesInv
  <2>4. CASE start_monitoring(s)
    BY <2>4 DEF start_monitoring, TablesInv, UnderWay
  <2> QED BY <1>2, <2>2, <2>3, <2>4
<1>3. ASSUME NEW s \in SyncIds,
             NEW from \in UnderWay \cup Closing, NEW to \in UnderWay \cup Closing,
             NEW r \in SessionRows,
             workflow[s] = from, row' = [row EXCEPT ![s] = r], workflow' = [workflow EXCEPT ![s] = to],
             UNCHANGED <<session_counter, starting, cli, cli_monitors, health>>
      PROVE  TablesInv'
  BY <1>3 DEF TablesInv
<1>4. ASSUME NEW s \in SyncIds, workflow[s] \in UnderWay \cup Closing PROVE row[s] \in SessionRows /\ cli[s] \in ProgressRows
  <2>1. starting[s] = "done"
    BY <1>4 DEF WorkflowInv, InOrder, UnderWay, Closing
  <2> QED BY <2>1 DEF TablesInv
<1>5. ASSUME NEW s \in SyncIds, NEW from \in UnderWay, NEW to \in UnderWay \cup Closing,
             NEW stage \in SyncStages, NEW percent \in 0..100, Phase(s, from, to, stage, percent)
      PROVE  TablesInv'
  <2>1. row[s] \in SessionRows
    BY <1>4, <1>5 DEF Phase
  <2>2. [row[s] EXCEPT !.stage = stage, !.percent = percent] \in SessionRows
    BY <2>1 DEF SessionRows
  <2>3. row' = [row EXCEPT ![s] = [row[s] EXCEPT !.stage = stage, !.percent = percent]]
    BY <1>5 DEF Phase
  <2> QED BY <1>3, <1>5, <2>2, <2>3 DEF Phase
<1>6. ASSUME NEW s \in SyncIds,
             \/ handle_connection_phase(s) \/ handle_manifest_exchange_phase(s) \/ handle_bloom_diff_phase(s)
             \/ handle_file_transfer_phase(s) \/ handle_conflict_resolution_phase(s) \/ handle_verification_phase(s)
      PROVE  TablesInv'
  <2>1. CASE handle_connection_phase(s)
    BY <1>5, <2>1 DEF handle_connection_phase, UnderWay, SyncStages
  <2>2. CASE handle_manifest_exchange_phase(s)
    BY <1>5, <2>2 DEF handle_manifest_exchange_phase, UnderWay, SyncStages
  <2>3. CASE handle_bloom_diff_phase(s)
    BY <1>5, <2>3 DEF handle_bloom_diff_phase, UnderWay, SyncStages
  <2>4. CASE handle_file_transfer_phase(s)
    BY <1>5, <2>4 DEF handle_file_transfer_phase, UnderWay, SyncStages
  <2>5. CASE handle_conflict_resolution_phase(s)
    BY <1>5, <2>5 DEF handle_conflict_resolution_phase, UnderWay, SyncStages
  <2>6. CASE handle_verification_phase(s)
    <3>1. Phase(s, "verify", "complete", "Verifying", 99)
      BY <2>6 DEF handle_verification_phase
    <3>2. "verify" \in UnderWay /\ "complete" \in UnderWay \cup Closing /\ "Verifying" \in SyncStages
      BY DEF UnderWay, Closing, SyncStages
    <3> QED BY <1>5, <3>1, <3>2
  <2> QED BY <1>6, <2>1, <2>2, <2>3, <2>4, <2>5, <2>6
<1>7. ASSUME NEW s \in SyncIds, FolderFails(s) \/ complete_sync_session(s) \/ handle_session_failure(s)
      PROVE  TablesInv'
  <2>1. row[s] \in SessionRows
    BY <1>4, <1>7 DEF FolderFails, complete_sync_session, handle_session_failure, UnderWay, Closing
  <2>2. /\ [row[s] EXCEPT !.stage = "ExchangingManifests"] \in SessionRows
        /\ [row[s] EXCEPT !.stage = "Failed", !.status = "Failed"] \in SessionRows
    BY <2>1 DEF SessionRows, SyncStages
  <2>6. [stage |-> "Completed", status |-> "Completed", percent |-> 100] \in SessionRows
    BY DEF SessionRows, SyncStages
  <2>3. CASE FolderFails(s)
    BY <1>3, <2>2, <2>3 DEF FolderFails, UnderWay, Closing
  <2>4. CASE complete_sync_session(s)
    BY <1>3, <2>4, <2>6 DEF complete_sync_session, UnderWay, Closing
  <2>5. CASE handle_session_failure(s)
    BY <1>3, <2>2, <2>5 DEF handle_session_failure, UnderWay, Closing
  <2> QED BY <1>7, <2>3, <2>4, <2>5
<1>8. ASSUME NEW s \in SyncIds, complete_session(s) \/ fail_session(s) PROVE TablesInv'
  <2>1. cli[s] \in ProgressRows
    BY <1>4, <1>8 DEF complete_session, fail_session, UnderWay, Closing
  <2>2. /\ [stage |-> "Completed", percent |-> 100] \in ProgressRows
        /\ [cli[s] EXCEPT !.stage = "Failed"] \in ProgressRows
    BY <2>1 DEF ProgressRows, SyncStages
  <2>3. CASE complete_session(s)
    BY <2>2, <2>3 DEF complete_session, TablesInv, UnderWay, Closing
  <2>4. CASE fail_session(s)
    <3>1. cli' = [cli EXCEPT ![s] = [cli[s] EXCEPT !.stage = "Failed"]]
      BY <2>4 DEF fail_session
    <3>2. workflow' = [workflow EXCEPT ![s] = "stop"] /\ UNCHANGED <<session_counter, starting, row, cli_monitors>>
      BY <2>4 DEF fail_session
    <3>3. \A t \in SyncIds : cli'[t] # NoRow \/ cli'[t] = cli[t]
      BY <2>2, <3>1 DEF TablesInv
    <3> QED BY <2>2, <3>1, <3>2, <3>3 DEF TablesInv, UnderWay, Closing
  <2> QED BY <1>8, <2>3, <2>4
<1>9. ASSUME NEW s \in SyncIds, stop_monitoring(s) \/ monitor_session_progress(s) PROVE TablesInv'
  BY <1>9 DEF stop_monitoring, monitor_session_progress, TablesInv
<1>10. CASE UNCHANGED xvars
  BY <1>10 DEF xvars, TablesInv
<1> QED BY <1>1, <1>2, <1>6, <1>7, <1>8, <1>9, <1>10 DEF EndToEndNext

(* Every step keeps every session in order. *)
LEMMA WorkflowsKept ==
    ASSUME TablesInv, WorkflowInv, [EndToEndNext]_xvars
    PROVE  WorkflowInv'
<1> USE EndToEndAssumption DEF SyncIds
<1>1. ASSUME start_complete_sync PROVE WorkflowInv'
  <2>1. PICK n \in SyncIds : n = session_counter + 1
    BY <1>1 DEF start_complete_sync, TablesInv
  <2>2. starting' = [starting EXCEPT ![n] = "insert"] /\ session_counter' = n
    BY <1>1, <2>1 DEF start_complete_sync
  <2>4. n > session_counter /\ n \in 0..MaxSessions
    BY <2>1 DEF TablesInv
  <2>5. starting[n] = "none"
    BY <2>4 DEF WorkflowInv, InOrder
  <2>3. UNCHANGED <<workflow, row, cli, cli_monitors, health>>
    BY <1>1 DEF start_complete_sync
  <2>6. \A t \in SyncIds : t # n => starting'[t] = starting[t]
    BY <2>2 DEF TablesInv
  <2>7. starting'[n] = "insert" /\ workflow[n] = "none"
    BY <2>2, <2>5 DEF TablesInv, WorkflowInv, InOrder
  <2>8. \A t \in SyncIds : t > session_counter' => t > session_counter /\ t # n
    BY <2>2, <2>4 DEF TablesInv
  <2> QED BY <2>3, <2>6, <2>7, <2>8 DEF WorkflowInv, InOrder, UnderWay
<1>2. ASSUME NEW s \in SyncIds, InsertSession(s) PROVE WorkflowInv'
  BY <1>2 DEF InsertSession, TablesInv, WorkflowInv, InOrder, UnderWay
<1>3. ASSUME NEW s \in SyncIds, start_session_tracking(s) PROVE WorkflowInv'
  BY <1>3 DEF start_session_tracking, TablesInv, WorkflowInv, InOrder, UnderWay
<1>4. ASSUME NEW s \in SyncIds, start_monitoring(s) PROVE WorkflowInv'
  BY <1>4 DEF start_monitoring, TablesInv, WorkflowInv, InOrder, UnderWay
<1>5. ASSUME NEW s \in SyncIds, NEW from \in UnderWay, NEW to \in UnderWay \cup {"complete"},
             NEW stage, NEW percent, Phase(s, from, to, stage, percent)
      PROVE  WorkflowInv'
  BY <1>5 DEF Phase, TablesInv, WorkflowInv, InOrder, UnderWay
<1>6. ASSUME NEW s \in SyncIds,
             \/ handle_connection_phase(s) \/ handle_manifest_exchange_phase(s) \/ handle_bloom_diff_phase(s)
             \/ handle_file_transfer_phase(s) \/ handle_conflict_resolution_phase(s) \/ handle_verification_phase(s)
      PROVE  WorkflowInv'
  BY <1>5, <1>6 DEF handle_connection_phase, handle_manifest_exchange_phase, handle_bloom_diff_phase,
       handle_file_transfer_phase, handle_conflict_resolution_phase, handle_verification_phase, UnderWay
<1>7. ASSUME NEW s \in SyncIds, FolderFails(s) PROVE WorkflowInv'
  BY <1>7 DEF FolderFails, TablesInv, WorkflowInv, InOrder, UnderWay
<1>8. ASSUME NEW s \in SyncIds, complete_sync_session(s) PROVE WorkflowInv'
  BY <1>8 DEF complete_sync_session, TablesInv, WorkflowInv, InOrder, UnderWay
<1>9. ASSUME NEW s \in SyncIds, handle_session_failure(s) PROVE WorkflowInv'
  <2>1. starting[s] = "done" /\ row[s] \in SessionRows
    BY <1>9 DEF handle_session_failure, TablesInv, WorkflowInv, InOrder
  <2>2. row'[s].status = "Failed" /\ \A t \in SyncIds \ {s} : row'[t] = row[t]
    BY <1>9, <2>1 DEF handle_session_failure, TablesInv, SessionRows
  <2> QED BY <1>9, <2>1, <2>2 DEF handle_session_failure, TablesInv, WorkflowInv, InOrder, UnderWay
<1>10. ASSUME NEW s \in SyncIds, complete_session(s) PROVE WorkflowInv'
  BY <1>10 DEF complete_session, TablesInv, WorkflowInv, InOrder, UnderWay
<1>11. ASSUME NEW s \in SyncIds, fail_session(s) PROVE WorkflowInv'
  <2>1. starting[s] = "done" /\ cli[s] \in ProgressRows
    BY <1>11 DEF fail_session, TablesInv, WorkflowInv, InOrder
  <2>3. row' = row /\ row'[s].status = "Failed"
    BY <1>11 DEF fail_session, WorkflowInv, InOrder
  <2>2. cli'[s].stage = "Failed" /\ \A t \in SyncIds \ {s} : cli'[t] = cli[t]
    BY <1>11, <2>1 DEF fail_session, TablesInv, ProgressRows
  <2>4. workflow'[s] = "stop" /\ \A t \in SyncIds \ {s} : workflow'[t] = workflow[t]
    BY <1>11 DEF fail_session, TablesInv
  <2>5. UNCHANGED <<session_counter, starting, cli_monitors, health>>
    BY <1>11 DEF fail_session
  <2>6. s > session_counter' => starting'[s] = "none"
    BY <2>1, <2>5 DEF WorkflowInv, InOrder
  <2>7. ASSUME NEW t \in SyncIds \ {s} PROVE workflow'[t] = workflow[t] /\ cli'[t] = cli[t] /\ row'[t] = row[t]
    BY <2>2, <2>3, <2>4
  <2>8. ASSUME NEW t \in SyncIds \ {s} PROVE InOrder(t)'
    BY <2>5, <2>7 DEF WorkflowInv, InOrder, UnderWay
  <2>9. InOrder(s)'
    BY <2>1, <2>2, <2>3, <2>4, <2>5, <2>6 DEF InOrder, UnderWay
  <2> QED BY <2>8, <2>9 DEF WorkflowInv
<1>12. ASSUME NEW s \in SyncIds, stop_monitoring(s) PROVE WorkflowInv'
  BY <1>12 DEF stop_monitoring, TablesInv, WorkflowInv, InOrder, UnderWay
<1>13. ASSUME NEW s \in SyncIds, monitor_session_progress(s) PROVE WorkflowInv'
  BY <1>13 DEF monitor_session_progress, TablesInv, WorkflowInv, InOrder, UnderWay
<1>14. CASE UNCHANGED xvars
  BY <1>14 DEF xvars, WorkflowInv, InOrder
<1> QED
  BY <1>1, <1>2, <1>3, <1>4, <1>6, <1>7, <1>8, <1>9, <1>10, <1>11, <1>12, <1>13, <1>14 DEF EndToEndNext

(* However a workflow of start_complete_sync ends, the session table, the
   progress table and the health checks agree on how it ended, and a workflow
   under way has its health check and its progress monitor. *)
THEOREM TablesKeepAgreeing == EndToEndSpec => []TablesAgree
<1>1. EndToEndInit => TablesInv /\ WorkflowInv
  BY EndToEndAssumption DEF EndToEndInit, TablesInv, WorkflowInv, InOrder, UnderWay, SyncIds
<1>2. TablesInv /\ WorkflowInv /\ [EndToEndNext]_xvars => (TablesInv /\ WorkflowInv)'
  BY TablesKept, WorkflowsKept
<1>3. TablesInv /\ WorkflowInv => TablesAgree
  BY DEF TablesInv, WorkflowInv, InOrder, TablesAgree, UnderWay
<1> QED BY <1>1, <1>2, <1>3, PTL DEF EndToEndSpec

(***************************************************************************)
(* Simple file transfers.                                                  *)
(***************************************************************************)
(* The transfers alone. *)
SimpleSpec == SimpleInit /\ [][SimpleNext]_zvars

Answers == {"accepted", "refused", "complete", "failed"}

Says(q, m) == \E i \in 1..Len(q) : q[i] = m

(* A receiver that writes has verified; only one that has written everything
   says so, and it does nothing after that. *)
Confirmed(s) ==
    /\ receiver[s] \in {"open", "fill", "done"} \/ dest[s] # NoData => payload[s] = announced[s]
    /\ receiver[s] = "done" => dest[s] = payload[s]
    /\ Says(toSender[s], "complete") \/ sender[s] = "ok" => receiver[s] = "done"

SimpleTypes ==
    /\ sender \in [Streams -> {"request", "response", "completion", "ok", "error"}]
    /\ receiver \in [Streams -> {"idle", "data", "open", "fill", "done", "error"}]
    /\ toSender \in [Streams -> Seq(Answers)]
    /\ dest \in [Streams -> Datas \cup {NoData, TornData}]
    /\ payload \in [Streams -> Datas]

TransferInv == SimpleTypes /\ \A s \in Streams \ Handled : Confirmed(s)

(* A message more on the way back. *)
LEMMA MoreAnswers ==
    ASSUME NEW q \in Seq(Answers), NEW m \in Answers
    PROVE  Append(q, m) \in Seq(Answers) /\ (Says(Append(q, m), "complete") <=> Says(q, "complete") \/ m = "complete")
<1>1. /\ Append(q, m) \in Seq(Answers) /\ Len(q) \in Nat /\ Len(Append(q, m)) = Len(q) + 1
      /\ \A i \in 1..Len(q) : Append(q, m)[i] = q[i]
      /\ Append(q, m)[Len(q) + 1] = m
  BY AppendFacts
<1> QED BY <1>1 DEF Says

(* The first message taken. *)
LEMMA FewerAnswers ==
    ASSUME NEW q \in Seq(Answers), q # <<>>
    PROVE  /\ Tail(q) \in Seq(Answers) /\ (Says(Tail(q), "complete") => Says(q, "complete"))
           /\ Head(q) \in Answers /\ (Head(q) = "complete" => Says(q, "complete"))
<1>1. /\ Len(q) \in Nat \ {0} /\ Head(q) = q[1] /\ Head(q) \in Answers
      /\ Tail(q) \in Seq(Answers) /\ Len(Tail(q)) = Len(q) - 1
      /\ \A i \in 1..Len(Tail(q)) : Tail(q)[i] = q[i + 1] /\ i + 1 \in 1..Len(q)
  BY TailFacts
<1> QED BY <1>1 DEF Says

(* A step of one stream that keeps the types leaves the others as they were. *)
LEMMA OneStream ==
    ASSUME TransferInv, SimpleTypes', NEW s \in Streams, UNCHANGED fixed,
           \A t \in Streams \ {s} : /\ sender'[t] = sender[t] /\ receiver'[t] = receiver[t]
                                    /\ toSender'[t] = toSender[t] /\ dest'[t] = dest[t],
           s \notin Handled => Confirmed(s)'
    PROVE  TransferInv'
<1>1. ASSUME NEW t \in Streams \ Handled, t # s PROVE Confirmed(t)'
  <2>1. Confirmed(t)
    BY DEF TransferInv
  <2> QED BY <1>1, <2>1 DEF Confirmed, fixed
<1> QED BY <1>1 DEF TransferInv

(* Every step of a transfer keeps what success means. *)
LEMMA TransfersKept ==
    ASSUME TransferInv, [SimpleNext]_zvars
    PROVE  TransferInv'
<1> DEFINE Same(s) == \A t \in Streams \ {s} : /\ sender'[t] = sender[t] /\ receiver'[t] = receiver[t]
                                               /\ toSender'[t] = toSender[t] /\ dest'[t] = dest[t]
<1>1. SimpleTypes /\ \A s \in Streams \ Handled : Confirmed(s)
  BY DEF TransferInv
<1>2. ASSUME NEW s \in Streams, SendRequest(s) PROVE TransferInv'
  <2>1. SimpleTypes' /\ Same(s) /\ UNCHANGED fixed
    BY <1>1, <1>2 DEF SendRequest, SenderAt, SimpleTypes, fixed
  <2>2. Confirmed(s) => Confirmed(s)'
    BY <1>1, <1>2 DEF SendRequest, SenderAt, Confirmed, SimpleTypes, fixed
  <2> QED BY <1>1, <2>1, <2>2, OneStream
<1>3. ASSUME NEW s \in Streams, Accepted(s) PROVE TransferInv'
  <2>1. toSender[s] \in Seq(Answers) /\ toSender[s] # <<>>
    BY <1>1, <1>3 DEF Accepted, SimpleTypes
  <2>2. Tail(toSender[s]) \in Seq(Answers) /\ (Says(Tail(toSender[s]), "complete") => Says(toSender[s], "complete"))
    BY <2>1, FewerAnswers
  <2>3. PICK pc \in {"completion", "error"} : sender' = [sender EXCEPT ![s] = pc]
    BY <1>3 DEF Accepted, SenderAt
  <2>4. toSender' = [toSender EXCEPT ![s] = Tail(toSender[s])] /\ UNCHANGED <<fixed, receiver, dest>>
    BY <1>3 DEF Accepted, Take
  <2>5. SimpleTypes' /\ Same(s)
    BY <1>1, <2>2, <2>3, <2>4 DEF SimpleTypes, fixed
  <2>6. Confirmed(s) => Confirmed(s)'
    BY <1>1, <2>2, <2>3, <2>4 DEF Confirmed, SimpleTypes, fixed
  <2> QED BY <1>1, <2>4, <2>5, <2>6, OneStream
<1>4. ASSUME NEW s \in Streams, Completion(s) PROVE TransferInv'
  <2>1. toSender[s] \in Seq(Answers) /\ toSender[s] # <<>>
    BY <1>1, <1>4 DEF Completion, SimpleTypes
  <2>2. /\ Tail(toSender[s]) \in Seq(Answers) /\ (Says(Tail(toSender[s]), "complete") => Says(toSender[s], "complete"))
        /\ (Head(toSender[s]) = "complete" => Says(toSender[s], "complete"))
    BY <2>1, FewerAnswers
  <2>3. PICK pc \in {"ok", "error"} : sender' = [sender EXCEPT ![s] = pc] /\ (pc = "ok" => Says(toSender[s], "complete"))
    BY <1>4, <2>2 DEF Completion, SenderAt
  <2>4. toSender' = [toSender EXCEPT ![s] = Tail(toSender[s])] /\ UNCHANGED <<fixed, receiver, dest>>
    BY <1>4 DEF Completion, Take
  <2>5. SimpleTypes' /\ Same(s)
    BY <1>1, <2>2, <2>3, <2>4 DEF SimpleTypes, fixed
  <2>6. Confirmed(s) => Confirmed(s)'
    BY <1>1, <2>2, <2>3, <2>4 DEF Confirmed, SimpleTypes, fixed
  <2> QED BY <1>1, <2>4, <2>5, <2>6, OneStream
<1>5. ASSUME NEW s \in Streams, NEW m \in Answers, Replies(s, m)
      PROVE  /\ toSender'[s] \in Seq(Answers) /\ toSender' \in [Streams -> Seq(Answers)]
             /\ Says(toSender'[s], "complete") => Says(toSender[s], "complete") \/ m = "complete"
             /\ \A t \in Streams \ {s} : toSender'[t] = toSender[t]
  <2>1. toSender[s] \in Seq(Answers)
    BY <1>1 DEF SimpleTypes
  <2>2. toSender' = [toSender EXCEPT ![s] = Append(toSender[s], m)]
    BY <1>5 DEF Replies
  <2>3. toSender'[s] = Append(toSender[s], m)
    BY <1>1, <2>2 DEF SimpleTypes
  <2> QED BY <1>1, <2>1, <2>2, <2>3, MoreAnswers DEF SimpleTypes
<1>6. ASSUME NEW s \in Streams, ReceiveRequest(s) PROVE TransferInv'
  <2>1. receiver[s] = "idle" /\ UNCHANGED <<fixed, sender, dest>>
    BY <1>6 DEF ReceiveRequest
  <2>2. PICK m \in {"accepted", "refused"} : Replies(s, m)
    BY <1>6 DEF ReceiveRequest, HandlerRefuses
  <2>3. PICK pc \in {"idle", "data"} : receiver' = [receiver EXCEPT ![s] = pc]
    BY <1>1, <1>6, <2>1 DEF ReceiveRequest, HandlerRefuses, ReceiverAt, SimpleTypes
  <2>4. SimpleTypes' /\ Same(s)
    BY <1>1, <1>5, <2>1, <2>2, <2>3 DEF SimpleTypes, Answers, fixed
  <2>5. Confirmed(s) => Confirmed(s)'
    BY <1>1, <1>5, <2>1, <2>2, <2>3 DEF Confirmed, SimpleTypes, Answers, fixed
  <2> QED BY <1>1, <2>1, <2>4, <2>5, OneStream
<1>7. ASSUME NEW s \in Streams, ReceiveData(s) PROVE TransferInv'
  <2>1. receiver[s] = "data" /\ UNCHANGED <<fixed, sender, dest>>
    BY <1>7 DEF ReceiveData
  <2>2. CASE s \in Handled \/ payload[s] = announced[s]
    <3>1. receiver' = [receiver EXCEPT ![s] = "open"] /\ toSender' = toSender
      BY <1>7, <2>2 DEF ReceiveData, ReceiverAt
    <3>2. SimpleTypes' /\ Same(s)
      BY <1>1, <2>1, <3>1 DEF SimpleTypes, fixed
    <3>3. s \notin Handled => Confirmed(s)'
      BY <1>1, <2>1, <2>2, <3>1 DEF Confirmed, SimpleTypes, fixed
    <3> QED BY <2>1, <3>2, <3>3, OneStream
  <2>3. CASE ~ (s \in Handled \/ payload[s] = announced[s])
    <3>1. receiver' = [receiver EXCEPT ![s] = "error"] /\ Replies(s, "failed")
      BY <1>7, <2>3 DEF ReceiveData, ReceiverAt
    <3>2. SimpleTypes' /\ Same(s)
      BY <1>1, <1>5, <2>1, <3>1 DEF SimpleTypes, Answers, fixed
    <3>3. s \notin Handled => Confirmed(s)'
      BY <1>1, <1>5, <2>1, <3>1 DEF Confirmed, SimpleTypes, Answers, fixed
    <3> QED BY <2>1, <3>2, <3>3, OneStream
  <2> QED BY <2>2, <2>3
<1>8. ASSUME NEW s \in Streams, OpenDest(s) PROVE TransferInv'
  <2>1. receiver[s] = "open" /\ receiver' = [receiver EXCEPT ![s] = "fill"] /\ UNCHANGED <<fixed, sender, toSender>>
    BY <1>8 DEF OpenDest, ReceiverAt
  <2>2. IF s \in Handled THEN dest' = dest ELSE dest' = [dest EXCEPT ![s] = TornData]
    BY <1>8 DEF OpenDest
  <2>3. SimpleTypes' /\ Same(s)
    BY <1>1, <2>1, <2>2 DEF SimpleTypes, fixed
  <2>4. s \notin Handled => Confirmed(s)'
    BY <1>1, <2>1, <2>2 DEF Confirmed, SimpleTypes, fixed
  <2> QED BY <2>1, <2>3, <2>4, OneStream
<1>9. ASSUME NEW s \in Streams, FillDest(s) PROVE TransferInv'
  <2>1. receiver[s] = "fill" /\ UNCHANGED <<fixed, sender>> /\ Replies(s, "complete")
    BY <1>9 DEF FillDest
  <2>2. receiver' = [receiver EXCEPT ![s] = IF s \in Handled THEN "idle" ELSE "done"]
    BY <1>9 DEF FillDest, ReceiverAt
  <2>3. IF s \in Handled THEN dest' = dest ELSE dest' = [dest EXCEPT ![s] = payload[s]]
    BY <1>9 DEF FillDest
  <2>4. payload[s] \in Datas
    BY <1>1 DEF SimpleTypes
  <2>5. SimpleTypes' /\ Same(s)
    BY <1>1, <1>5, <2>1, <2>2, <2>3, <2>4 DEF SimpleTypes, Answers, fixed
  <2>6. s \notin Handled => Confirmed(s)'
    BY <1>1, <1>5, <2>1, <2>2, <2>3 DEF Confirmed, SimpleTypes, Answers, fixed
  <2> QED BY <2>1, <2>5, <2>6, OneStream
<1>10. ASSUME NEW s \in Streams, WriteFails(s) PROVE TransferInv'
  <2>1. receiver[s] \in {"open", "fill"} /\ UNCHANGED <<fixed, sender, dest>>
    BY <1>10 DEF WriteFails
  <2>2. CASE s \in Handled
    <3>1. Replies(s, "failed") /\ receiver' = [receiver EXCEPT ![s] = "idle"]
      BY <1>10, <2>2 DEF WriteFails, ReceiverAt
    <3>2. SimpleTypes' /\ Same(s)
      BY <1>1, <1>5, <2>1, <3>1 DEF SimpleTypes, Answers, fixed
    <3> QED BY <2>1, <2>2, <3>2, OneStream
  <2>3. CASE s \notin Handled
    <3>1. toSender' = toSender /\ receiver' = [receiver EXCEPT ![s] = "error"]
      BY <1>10, <2>3 DEF WriteFails, ReceiverAt
    <3>2. SimpleTypes' /\ Same(s)
      BY <1>1, <2>1, <3>1 DEF SimpleTypes, fixed
    <3>3. Confirmed(s)'
      BY <1>1, <2>1, <2>3, <3>1 DEF Confirmed, SimpleTypes, fixed
    <3> QED BY <2>1, <3>2, <3>3, OneStream
  <2> QED BY <2>2, <2>3
<1>11. ASSUME NEW s \in Streams, StreamBreaks(s) PROVE TransferInv'
  <2>1. sender' = [sender EXCEPT ![s] = "error"] /\ UNCHANGED <<fixed, dest>>
    BY <1>11 DEF StreamBreaks, SenderAt
  <2>2. receiver' = [receiver EXCEPT ![s] = IF receiver[s] \in {"idle", "data"} THEN "error" ELSE receiver[s]]
    BY <1>11 DEF StreamBreaks
  <2>3. toSender' = [toSender EXCEPT ![s] = <<>>] /\ <<>> \in Seq(Answers) /\ ~ Says(<<>>, "complete")
    BY <1>11 DEF StreamBreaks, Says
  <2>4. receiver[s] \in {"idle", "data", "open", "fill", "done", "error"}
    BY <1>1 DEF SimpleTypes
  <2>5. SimpleTypes' /\ Same(s)
    BY <1>1, <2>1, <2>2, <2>3, <2>4 DEF SimpleTypes, fixed
  <2>6. Confirmed(s) => Confirmed(s)'
    BY <1>1, <2>1, <2>2, <2>3 DEF Confirmed, SimpleTypes, fixed
  <2> QED BY <1>1, <2>1, <2>5, <2>6, OneStream
<1>12. CASE UNCHANGED zvars
  BY <1>12 DEF zvars, TransferInv, SimpleTypes, Confirmed
<1> QED
  BY <1>2, <1>3, <1>4, <1>6, <1>7, <1>8, <1>9, <1>10, <1>11, <1>12 DEF SimpleNext

(* A sender told that its transfer is complete finds the file stored whole
   at a peer that runs receive_file, and a transfer refused for its checksum
   left no file, through lost streams and failed writes. *)
THEOREM SuccessStaysStored == SimpleSpec => []SuccessIsStored
<1>1. SimpleInit => TransferInv
  <2> SUFFICES ASSUME SimpleInit PROVE TransferInv
    OBVIOUS
  <2>1. SimpleTypes
    BY DEF SimpleInit, SimpleTypes
  <2>2. ASSUME NEW s \in Streams PROVE Confirmed(s)
    <3>1. ~ Says(<<>>, "complete") /\ toSender[s] = <<>>
      BY DEF SimpleInit, Says
    <3>2. receiver[s] = "idle" /\ sender[s] = "request" /\ dest[s] = NoData
      BY DEF SimpleInit
    <3> QED BY <3>1, <3>2 DEF Confirmed
  <2> QED BY <2>1, <2>2 DEF TransferInv
<1>2. TransferInv /\ [SimpleNext]_zvars => TransferInv'
  BY TransfersKept
<1>3. TransferInv => SuccessIsStored
  BY DEF TransferInv, Confirmed, SuccessIsStored
<1> QED BY <1>1, <1>2, <1>3, PTL DEF SimpleSpec

(***************************************************************************)
(* The Bloom filter diff.                                                  *)
(***************************************************************************)
(* The exchange alone. *)
BloomSpec == BloomInit /\ [][BloomNext]_dvars

(* The filter made from a manifest contains every path of it. *)
LEMMA NoFalseNegatives ==
    ASSUME NEW manifest, NEW f \in manifest
    PROVE  contains(Filter(manifest), f)
<1>1. Bits(f, 0..(num_hashes - 1)) \subseteq add(NewFilter, f)
  BY DEF add
<1>2. add(NewFilter, f) \subseteq Filter(manifest)
  BY DEF Filter
<1> QED BY <1>1, <1>2 DEF contains

(* Every message asks only for what a filter did not contain. *)
LEMMA SuspectedKept ==
    ASSUME SuspectedIsMissing, [BloomNext]_dvars
    PROVE  SuspectedIsMissing'
<1>1. ASSUME NEW m \in messages, NEW reply, Replace(m, {reply}),
             reply.type = "RequestDiffDetails" => reply.about.suspected \cap reply.about.summarised = {}
      PROVE  SuspectedIsMissing'
  BY <1>1 DEF Replace, SuspectedIsMissing
<1>2. ASSUME NEW h \in Differs, NEW peer \in Differs, NEW r \in Roots, start_diff(h, peer, r)
      PROVE  SuspectedIsMissing'
  BY <1>2 DEF start_diff, Message, SuspectedIsMissing
<1>3. ASSUME NEW m \in messages, handle_summary_request(m) PROVE SuspectedIsMissing'
  BY <1>3 DEF handle_summary_request, Replace, Message, SuspectedIsMissing
<1>4. ASSUME NEW m \in messages, handle_summary_response(m) PROVE SuspectedIsMissing'
  <2> DEFINE suspected == {f \in manifests[m.to][m.root] : ~ contains(Filter(m.about), f)}
             about == [suspected |-> suspected, summarised |-> m.about]
             reply == IF suspected # {} THEN Message("RequestDiffDetails", m.to, m.from, m.root, about)
                      ELSE Message("Acknowledge", m.to, m.from, m.root, {})
  <2>1. Replace(m, {reply})
    BY <1>4 DEF handle_summary_response
  <2>2. suspected \cap m.about = {}
    BY NoFalseNegatives
  <2> HIDE DEF suspected
  <2>3. CASE suspected # {}
    <3>1. reply.about = about
      BY <2>3 DEF Message
    <3> QED BY <1>1, <2>1, <2>2, <3>1
  <2>4. CASE suspected = {}
    <3>1. reply.type # "RequestDiffDetails"
      BY <2>4 DEF Message
    <3> QED BY <1>1, <2>1, <3>1
  <2> QED BY <2>3, <2>4
<1>5. ASSUME NEW m \in messages, handle_details_request(m) PROVE SuspectedIsMissing'
  BY <1>5 DEF handle_details_request, Replace, Message, SuspectedIsMissing
<1>6. ASSUME NEW m \in messages, handle_details_response(m) \/ handle_acknowledge(m) \/ MessageLost(m)
      PROVE  SuspectedIsMissing'
  BY <1>6 DEF handle_details_response, handle_acknowledge, MessageLost, Replace, SuspectedIsMissing
<1>7. CASE UNCHANGED dvars
  BY <1>7 DEF dvars, SuspectedIsMissing
<1> QED BY <1>2, <1>3, <1>4, <1>5, <1>6, <1>7 DEF BloomNext

(* A diff asks for details only of paths that the summarised manifest did not
   have: the Bloom filter of a manifest has no false negatives, whatever the
   hash functions, the number of bits and the order of the messages. *)
THEOREM SuspectedStaysMissing == BloomSpec => []SuspectedIsMissing
<1>1. BloomInit => SuspectedIsMissing
  BY DEF BloomInit, SuspectedIsMissing
<1>2. SuspectedIsMissing /\ [BloomNext]_dvars => SuspectedIsMissing'
  BY SuspectedKept
<1> QED BY <1>1, <1>2, PTL DEF BloomSpec

(***************************************************************************)
(* Schema migrations.                                                      *)
(***************************************************************************)
(* What a program has left to do is an interval of versions: an upgrade's
   begins at most one above the version n of the database, a downgrade's ends
   at it or above.  Whoever gets ahead or behind finds its next version there,
   or gone already. *)
PlanFits(plan, n) ==
    plan.at = "migrating" =>
        \E k, m \in 0..MaxVersion :
            /\ k < m /\ plan.todo = (k + 1)..m
            /\ IF plan.up THEN k <= n ELSE n <= m

Plans == [at : {"stopped", "migrating", "ok", "error"}, up : BOOLEAN,
          todo : SUBSET Migration, target : 0..MaxVersion]

NoGap(n) ==
    /\ schema_version = 1..n
    /\ \A p \in Programs : PlanFits(running[p], n)
    /\ \A p, q \in Programs : running[p].at = "migrating" /\ running[q].at = "migrating"
                                => running[p].up = running[q].up

GapInv ==
    /\ running \in [Programs -> Plans]
    /\ crossed \in BOOLEAN /\ beheaded \in BOOLEAN
    /\ ~ crossed /\ ~ beheaded => \E n \in 0..MaxVersion : NoGap(n)

(* The least and the greatest element of an interval. *)
LEMMA IntervalEnds ==
    ASSUME NEW k \in Nat, NEW m \in Nat, k < m
    PROVE  Min((k + 1)..m) = k + 1 /\ Max((k + 1)..m) = m
<1>1. \A x \in (k + 1)..m : (\A y \in (k + 1)..m : x <= y) <=> x = k + 1
  OBVIOUS
<1>2. \A x \in (k + 1)..m : (\A y \in (k + 1)..m : x >= y) <=> x = m
  OBVIOUS
<1>3. k + 1 \in (k + 1)..m /\ m \in (k + 1)..m
  OBVIOUS
<1>4. Min((k + 1)..m) = k + 1
  BY <1>1, <1>3 DEF Min
<1>5. Max((k + 1)..m) = m
  BY <1>2, <1>3 DEF Max
<1> QED BY <1>4, <1>5

(* The version of a database without a gap. *)
LEMMA CurrentVersion ==
    ASSUME NEW n \in 0..MaxVersion, schema_version = 1..n, MaxVersion \in Nat
    PROVE  get_current_version = n
<1>1. CASE n = 0
  BY <1>1 DEF get_current_version
<1>2. CASE n # 0
  <2>1. 1..n # {} /\ 0 < n
    BY <1>2
  <2>2. Max((0 + 1)..n) = n
    BY <2>1, IntervalEnds
  <2> QED BY <2>1, <2>2 DEF get_current_version
<1> QED BY <1>1, <1>2

(* The migrations of a program that passes validate are those up to some
   version, its target among them. *)
LEMMA Registered ==
    ASSUME NEW registered \in SUBSET Migration, NEW target \in 0..MaxVersion,
           validate(registered, target), MaxVersion \in Nat
    PROVE  \E c \in 0..MaxVersion : registered = 1..c /\ (c # 0 => target \in 1..c)
<1>1. IsFiniteSet(Migration) /\ Cardinality(Migration) = MaxVersion
  BY FS_Interval DEF Migration
<1>2. IsFiniteSet(registered) /\ Cardinality(registered) <= MaxVersion
  BY <1>1, FS_Subset
<1>3. Cardinality(registered) \in Nat
  BY <1>2, FS_CardinalityType
<1>4. PICK c \in 0..MaxVersion : c = Cardinality(registered)
  BY <1>2, <1>3
<1>5. registered = 1..c /\ (registered # {} => target \in registered)
  BY <1>4 DEF validate
<1>6. c # 0 => registered # {}
  BY <1>5
<1> QED BY <1>5, <1>6

(* Every step of a program keeps the versions without a gap. *)
LEMMA GapKept ==
    ASSUME GapInv, [MigrationNext]_gvars
    PROVE  GapInv'
<1> USE MigrationAssumption
<1>1. ASSUME NEW p \in Programs, NEW registered \in SUBSET Migration, NEW target \in 0..MaxVersion,
             run_migrations(p, registered, target)
      PROVE  GapInv'
  <2> DEFINE from == get_current_version
             upward == from <= target
             todo == IF upward THEN Pending(registered, from, target) ELSE Undone(registered, from, target)
             plan == [at |-> IF todo = {} THEN "ok" ELSE "migrating", up |-> upward, todo |-> todo, target |-> target]
  <2>1. running' = [running EXCEPT ![p] = plan] /\ schema_version' = schema_version
    BY <1>1 DEF run_migrations
  <2>2. crossed' = (crossed \/ \E q \in Programs \ {p} :
               running[q].at = "migrating" /\ todo # {} /\ running[q].up # upward)
    BY <1>1 DEF run_migrations
  <2>3. beheaded' = (beheaded \/ (todo # {} /\ ~ upward /\ from \notin registered))
    BY <1>1 DEF run_migrations
  <2>4. todo \in SUBSET Migration
    BY DEF Pending, Undone
  <2>5. plan \in Plans
    BY <2>4 DEF Plans
  <2>6. running' \in [Programs -> Plans]
    BY <2>1, <2>5 DEF GapInv
  <2>7. crossed' \in BOOLEAN /\ beheaded' \in BOOLEAN
    BY <2>2, <2>3 DEF GapInv
  <2>8. ASSUME ~ crossed', ~ beheaded' PROVE \E n \in 0..MaxVersion : NoGap(n)'
    <3>1. PICK n \in 0..MaxVersion : NoGap(n)
      BY <2>2, <2>3, <2>8 DEF GapInv
    <3>2. from = n
      BY <3>1, CurrentVersion DEF NoGap
    <3>3. PICK c \in 0..MaxVersion : registered = 1..c /\ (c # 0 => target \in 1..c)
      BY <1>1, Registered DEF run_migrations
    <3>4. PlanFits(plan, n)
      <4>1. CASE todo = {}
        BY <4>1 DEF PlanFits
      <4>2. CASE todo # {} /\ upward
        <5>1. todo = (n + 1)..target /\ n < target
          BY <3>2, <3>3, <4>2 DEF Pending
        <5> QED BY <4>2, <5>1 DEF PlanFits
      <4>3. CASE todo # {} /\ ~ upward
        <5>1. n \in 1..c
          BY <2>3, <2>8, <3>2, <3>3, <4>3
        <5>2. todo = (target + 1)..n /\ target < n
          BY <3>2, <3>3, <4>3, <5>1 DEF Undone
        <5> QED BY <4>3, <5>2 DEF PlanFits
      <4> QED BY <4>1, <4>2, <4>3
    <3>5. ASSUME NEW q \in Programs \ {p}, running[q].at = "migrating", plan.at = "migrating"
          PROVE  running[q].up = plan.up
      <4>1. todo # {}
        BY <3>5
      <4> QED BY <2>2, <2>8, <3>5, <4>1
    <3> HIDE DEF plan, upward, todo
    <3>6. running'[p] = plan /\ \A q \in Programs \ {p} : running'[q] = running[q]
      BY <2>1 DEF GapInv
    <3>7. \A q \in Programs : PlanFits(running[q], n)'
      BY <3>1, <3>4, <3>6 DEF NoGap, PlanFits
    <3>8. \A q, r \in Programs : running'[q].at = "migrating" /\ running'[r].at = "migrating"
                                => running'[q].up = running'[r].up
      BY <3>1, <3>5, <3>6 DEF NoGap
    <3>9. NoGap(n)'
      BY <2>1, <3>1, <3>7, <3>8 DEF NoGap
    <3> QED BY <3>9
  <2> QED BY <2>6, <2>7, <2>8 DEF GapInv
<1>2. ASSUME NEW p \in Programs, NEW n \in 0..MaxVersion, NEW new \in 0..MaxVersion, NEW vers,
             NEW k \in 0..MaxVersion, NEW m \in 0..MaxVersion,
             running \in [Programs -> Plans], NoGap(n), running[p].at = "migrating", Advance(p, vers),
             schema_version' = 1..new,
             running[p].todo \ {vers} # {} =>
                k < m /\ running[p].todo \ {vers} = (k + 1)..m /\ IF running[p].up THEN k <= new ELSE new <= m,
             IF running[p].up THEN n <= new ELSE new <= n
      PROVE  NoGap(new)'
  <2> DEFINE rest == running[p].todo \ {vers}
             plan == [running[p] EXCEPT !.todo = rest, !.at = IF rest = {} THEN "ok" ELSE "migrating"]
  <2>1. running' = [running EXCEPT ![p] = plan]
    BY <1>2 DEF Advance
  <2>2. running[p] \in Plans
    BY <1>2
  <2>3. plan.at = (IF rest = {} THEN "ok" ELSE "migrating") /\ plan.todo = rest /\ plan.up = running[p].up
    BY <2>2 DEF Plans
  <2>4. PlanFits(plan, new)
    BY <1>2, <2>3 DEF PlanFits
  <2>5. running'[p] = plan /\ \A q \in Programs \ {p} : running'[q] = running[q]
    BY <1>2, <2>1
  <2> HIDE DEF plan, rest
  <2>6. ASSUME NEW q \in Programs \ {p} PROVE PlanFits(running[q], new)
    <3>1. CASE running[q].at = "migrating"
      <4>1. PICK i, j \in 0..MaxVersion : i < j /\ running[q].todo = (i + 1)..j /\ IF running[q].up THEN i <= n ELSE n <= j
        BY <1>2, <3>1 DEF NoGap, PlanFits
      <4>2. running[q].up = running[p].up
        BY <1>2, <3>1 DEF NoGap
      <4>3. IF running[q].up THEN i <= new ELSE new <= j
        BY <1>2, <4>1, <4>2
      <4> QED BY <4>1, <4>3 DEF PlanFits
    <3>2. CASE running[q].at # "migrating"
      BY <3>2 DEF PlanFits
    <3> QED BY <3>1, <3>2
  <2>7. \A q \in Programs : PlanFits(running[q], new)'
    BY <2>4, <2>5, <2>6 DEF PlanFits
  <2>8. \A q, r \in Programs : running'[q].at = "migrating" /\ running'[r].at = "migrating"
                                => running'[q].up = running'[r].up
    BY <1>2, <2>3, <2>5 DEF NoGap
  <2> QED BY <1>2, <2>7, <2>8 DEF NoGap
<1>3. ASSUME NEW p \in Programs, NEW vers, running \in [Programs -> Plans], Advance(p, vers)
      PROVE  running' \in [Programs -> Plans]
  <2>1. running[p] \in Plans
    BY <1>3
  <2>2. [running[p] EXCEPT !.todo = running[p].todo \ {vers},
                           !.at = IF running[p].todo \ {vers} = {} THEN "ok" ELSE "migrating"] \in Plans
    BY <2>1 DEF Plans
  <2>3. running' = [running EXCEPT ![p] = [running[p] EXCEPT !.todo = running[p].todo \ {vers},
                           !.at = IF running[p].todo \ {vers} = {} THEN "ok" ELSE "migrating"]]
    BY <1>3 DEF Advance
  <2> QED BY <1>3, <2>2, <2>3
<1>4. ASSUME NEW p \in Programs, apply(p) PROVE GapInv'
  <2> DEFINE vers == NextVersion(running[p].todo, TRUE)
  <2>1. /\ running[p].at = "migrating" /\ running[p].up /\ vers \notin schema_version
        /\ schema_version' = schema_version \cup {vers} /\ crossed' = crossed /\ beheaded' = beheaded
        /\ Advance(p, vers)
    BY <1>4 DEF apply
  <2> HIDE DEF vers
  <2>2. running' \in [Programs -> Plans]
    BY <1>3, <2>1 DEF GapInv
  <2>3. ASSUME ~ crossed, ~ beheaded PROVE \E n \in 0..MaxVersion : NoGap(n)'
    <3>1. PICK n \in 0..MaxVersion : NoGap(n)
      BY <2>3 DEF GapInv
    <3>2. PICK k, m \in 0..MaxVersion : k < m /\ running[p].todo = (k + 1)..m /\ k <= n
      BY <2>1, <3>1 DEF NoGap, PlanFits
    <3>3. vers = k + 1
      BY <3>2, IntervalEnds DEF vers, NextVersion
    <3>4. k = n
      BY <2>1, <3>1, <3>2, <3>3 DEF NoGap
    <3>5. PICK new \in 0..MaxVersion : new = n + 1
      BY <3>2, <3>4
    <3>6. schema_version' = 1..new
      BY <2>1, <3>1, <3>3, <3>4, <3>5 DEF NoGap
    <3>7. running[p].todo \ {vers} = (new + 1)..m
      BY <3>2, <3>3, <3>4, <3>5
    <3>8. running[p].todo \ {vers} # {} => new < m
      BY <3>7
    <3>9. n <= new /\ new <= new
      BY <3>5
    <3>10. NoGap(new)'
      BY <1>2, <2>1, <3>1, <3>6, <3>7, <3>8, <3>9 DEF GapInv
    <3> QED BY <3>10
  <2> QED BY <2>1, <2>2, <2>3 DEF GapInv
<1>5. ASSUME NEW p \in Programs, rollback(p) PROVE GapInv'
  <2> DEFINE vers == NextVersion(running[p].todo, FALSE)
  <2>1. /\ running[p].at = "migrating" /\ ~ running[p].up
        /\ schema_version' = schema_version \ {vers} /\ crossed' = crossed /\ beheaded' = beheaded
        /\ Advance(p, vers)
    BY <1>5 DEF rollback
  <2> HIDE DEF vers
  <2>2. running' \in [Programs -> Plans]
    BY <1>3, <2>1 DEF GapInv
  <2>3. ASSUME ~ crossed, ~ beheaded PROVE \E n \in 0..MaxVersion : NoGap(n)'
    <3>1. PICK n \in 0..MaxVersion : NoGap(n)
      BY <2>3 DEF GapInv
    <3>2. PICK k, m \in 0..MaxVersion : k < m /\ running[p].todo = (k + 1)..m /\ n <= m
      BY <2>1, <3>1 DEF NoGap, PlanFits
    <3>3. vers = m
      BY <3>2, IntervalEnds DEF vers, NextVersion
    <3>4. PICK new \in 0..MaxVersion : new = IF n = m THEN n - 1 ELSE n
      BY <3>2
    <3>5. schema_version' = 1..new
      BY <2>1, <3>1, <3>2, <3>3, <3>4 DEF NoGap
    <3>6. m - 1 \in 0..MaxVersion /\ running[p].todo \ {vers} = (k + 1)..(m - 1)
      BY <3>2, <3>3
    <3>7. running[p].todo \ {vers} # {} => k < m - 1
      BY <3>2, <3>6
    <3>8. new <= m - 1 /\ new <= n
      BY <3>2, <3>4
    <3>9. NoGap(new)'
      BY <1>2, <2>1, <3>1, <3>2, <3>5, <3>6, <3>7, <3>8 DEF GapInv
    <3> QED BY <3>9
  <2> QED BY <2>1, <2>2, <2>3 DEF GapInv
<1>6. ASSUME NEW p \in Programs, MigrationFails(p) PROVE GapInv'
  <2>1. running[p] \in Plans
    BY DEF GapInv
  <2>2. running' = [running EXCEPT ![p] = [running[p] EXCEPT !.at = "error", !.todo = {}]]
    BY <1>6 DEF MigrationFails
  <2>3. [running[p] EXCEPT !.at = "error", !.todo = {}] \in Plans
    BY <2>1 DEF Plans
  <2>4. running' \in [Programs -> Plans] /\ running'[p].at = "error" /\ \A q \in Programs \ {p} : running'[q] = running[q]
    BY <2>1, <2>2, <2>3 DEF GapInv, Plans
  <2>5. UNCHANGED <<schema_version, crossed, beheaded>>
    BY <1>6 DEF MigrationFails
  <2>6. ASSUME NEW n \in 0..MaxVersion, NoGap(n) PROVE NoGap(n)'
    <3>1. \A q \in Programs : PlanFits(running[q], n)'
      BY <2>4, <2>6 DEF NoGap, PlanFits
    <3> QED BY <2>4, <2>5, <2>6, <3>1 DEF NoGap
  <2> QED BY <2>4, <2>5, <2>6 DEF GapInv
<1>7. CASE UNCHANGED gvars
  BY <1>7 DEF gvars, GapInv, NoGap, PlanFits
<1> QED BY <1>1, <1>4, <1>5, <1>6, <1>7 DEF MigrationNext

(* The versions recorded by programs that migrate one database at once have
   no gap, although each decides by a version it read before and may stop at
   any step, unless an upgrade ran beside a downgrade or a downgrade began
   below the latest version of the database. *)
THEOREM VersionsStayWithoutGap == MigrationSpec => []VersionsHaveNoGap
<1>1. MigrationInit => GapInv
  <2> SUFFICES ASSUME MigrationInit PROVE GapInv
    OBVIOUS
  <2>1. Stopped \in Plans /\ Stopped.at = "stopped"
    BY MigrationAssumption DEF Stopped, Plans
  <2>2. running \in [Programs -> Plans] /\ \A p \in Programs : running[p].at = "stopped"
    BY <2>1 DEF MigrationInit
  <2>3. 0 \in 0..MaxVersion /\ schema_version = 1..0 /\ crossed = FALSE /\ beheaded = FALSE
    BY MigrationAssumption DEF MigrationInit
  <2>4. NoGap(0)
    BY <2>2, <2>3 DEF NoGap, PlanFits
  <2> QED BY <2>2, <2>3, <2>4 DEF GapInv
<1>2. GapInv /\ [MigrationNext]_gvars => GapInv'
  BY GapKept
<1>3. GapInv => VersionsHaveNoGap
  <2> SUFFICES ASSUME GapInv, ~ crossed, ~ beheaded PROVE schema_version = 1..Cardinality(schema_version)
    BY DEF VersionsHaveNoGap
  <2>1. PICK n \in 0..MaxVersion : schema_version = 1..n
    BY DEF GapInv, NoGap
  <2>2. Cardinality(1..n) = n
    BY <2>1, MigrationAssumption, FS_Interval
  <2> QED BY <2>1, <2>2
<1> QED BY <1>1, <1>2, <1>3, PTL DEF MigrationSpec

(***************************************************************************)
(* Conflicts and their resolution.                                         *)
(***************************************************************************)
(* The two devices alone. *)
ConflictSpec == ConflictInit /\ [][ConflictNext]_cvars

(* A conflict between two versions has both of them, one with a deletion
   the version that is left. *)
Justified(c) ==
    IF c.type = "BothModified" THEN c.local \in Versions /\ c.remote \in Versions
    ELSE \/ c.local \in Versions /\ c.remote = NoCopy
         \/ c.local = NoCopy /\ c.remote \in Versions

JustConflicts == {c \in Conflicts : Justified(c)}

ConflictInv ==
    /\ files \in [Devices -> [ConflictPaths -> Versions \cup {NoCopy}]]
    /\ now \in Times
    /\ detected \in [Devices -> [ConflictPaths -> JustConflicts \cup {NoConflict}]]

(* What detect_conflicts finds is a conflict of two versions. *)
LEMMA FoundIsJust ==
    ASSUME NEW local \in Versions \cup {NoCopy}, NEW remote \in Versions \cup {NoCopy}
    PROVE  check_file_conflict(local, remote) \in JustConflicts \cup {NoConflict}
<1> USE ConflictAssumption
<1>1. CASE local \in Versions /\ remote \in Versions
  <2>1. local # NoCopy /\ remote # NoCopy
    BY <1>1
  <2>2. ConflictType(local, remote) \in {"BothModified", NoConflict}
    BY <2>1 DEF ConflictType
  <2>3. Conflict("BothModified", local, remote) \in JustConflicts
    BY <1>1 DEF Conflict, JustConflicts, Justified, Conflicts, Types
  <2> QED BY <2>2, <2>3 DEF check_file_conflict
<1>2. CASE local \in Versions /\ remote = NoCopy
  <2>1. local # NoCopy
    BY <1>2
  <2>2. ConflictType(local, remote) \in {"DeletedModified", NoConflict}
    BY <1>2, <2>1 DEF ConflictType
  <2>3. Conflict("DeletedModified", local, remote) \in JustConflicts
    BY <1>2 DEF Conflict, JustConflicts, Justified, Conflicts, Types
  <2> QED BY <2>2, <2>3 DEF check_file_conflict
<1>3. CASE local = NoCopy /\ remote \in Versions
  <2>1. remote # NoCopy
    BY <1>3
  <2>2. ConflictType(local, remote) \in {"DeletedModified", NoConflict}
    BY <1>3, <2>1 DEF ConflictType
  <2>3. Conflict("DeletedModified", local, remote) \in JustConflicts
    BY <1>3 DEF Conflict, JustConflicts, Justified, Conflicts, Types
  <2> QED BY <2>2, <2>3 DEF check_file_conflict
<1>4. CASE local = NoCopy /\ remote = NoCopy
  BY <1>4 DEF check_file_conflict, ConflictType
<1> QED BY <1>1, <1>2, <1>3, <1>4

(* Every step keeps the conflicts justified. *)
LEMMA ConflictsKept ==
    ASSUME ConflictInv, [ConflictNext]_cvars
    PROVE  ConflictInv'
<1> USE ConflictAssumption
<1>1. ASSUME NEW d \in Devices, detect_conflicts(d) PROVE ConflictInv'
  <2> DEFINE found(p) == check_file_conflict(files[d][p], files[Other(d)][p])
             new == [p \in ConflictPaths |-> IF found(p) = NoConflict THEN detected[d][p] ELSE found(p)]
  <2>1. Other(d) \in Devices
    OBVIOUS
  <2>2. \A p \in ConflictPaths : found(p) \in JustConflicts \cup {NoConflict}
    BY <2>1, FoundIsJust DEF ConflictInv
  <2>3. detected' = [detected EXCEPT ![d] = new] /\ UNCHANGED <<files, now>>
    BY <1>1 DEF detect_conflicts
  <2> HIDE DEF found
  <2>4. new \in [ConflictPaths -> JustConflicts \cup {NoConflict}]
    BY <2>2 DEF ConflictInv
  <2> QED BY <2>3, <2>4 DEF ConflictInv
<1>2. ASSUME NEW c \in JustConflicts, NEW b \in BOOLEAN PROVE [c EXCEPT !.resolved = b] \in JustConflicts
  BY DEF JustConflicts, Justified, Conflicts
<1>3. ASSUME NEW d \in Devices, NEW p \in ConflictPaths, mark_resolved(d, p) PROVE ConflictInv'
  <2>1. detected[d][p] \in JustConflicts
    BY <1>3 DEF mark_resolved, ConflictInv
  <2>2. [detected[d][p] EXCEPT !.resolved = TRUE] \in JustConflicts
    BY <1>2, <2>1
  <2>3. detected' = [detected EXCEPT ![d] = [detected[d] EXCEPT ![p] = [detected[d][p] EXCEPT !.resolved = TRUE]]]
    BY <1>3 DEF mark_resolved
  <2>4. [detected[d] EXCEPT ![p] = [detected[d][p] EXCEPT !.resolved = TRUE]] \in [ConflictPaths -> JustConflicts \cup {NoConflict}]
    BY <2>2 DEF ConflictInv
  <2>5. UNCHANGED <<files, now>>
    BY <1>3 DEF mark_resolved
  <2> QED BY <2>3, <2>4, <2>5 DEF ConflictInv
<1>4. ASSUME NEW d \in Devices, clear_resolved_conflicts(d) PROVE ConflictInv'
  BY <1>4 DEF clear_resolved_conflicts, ConflictInv
<1>5. ASSUME NEW d \in Devices, NEW p \in ConflictPaths, ChangeFile(d, p) \/ DeleteFile(d, p) PROVE ConflictInv'
  <2>1. PICK v \in Versions \cup {NoCopy} : files' = [files EXCEPT ![d] = [files[d] EXCEPT ![p] = v]]
    BY <1>5 DEF ChangeFile, DeleteFile, Versions, ConflictInv
  <2>2. [files[d] EXCEPT ![p] = v] \in [ConflictPaths -> Versions \cup {NoCopy}]
    BY DEF ConflictInv
  <2>3. UNCHANGED <<now, detected>>
    BY <1>5 DEF ChangeFile, DeleteFile
  <2> QED BY <2>1, <2>2, <2>3 DEF ConflictInv
<1>6. CASE Synchronised
  BY <1>6 DEF Synchronised, ConflictInv
<1>7. CASE ClockTicks
  BY <1>7 DEF ClockTicks, ConflictInv, Times
<1>8. CASE UNCHANGED cvars
  BY <1>8 DEF cvars, ConflictInv
<1> QED BY <1>1, <1>3, <1>4, <1>5, <1>6, <1>7, <1>8 DEF ConflictNext

(* Seen from the two sides, a conflict has one survivor. *)
LEMMA SurvivorsAgree ==
    ASSUME NEW c \in JustConflicts, NEW e \in JustConflicts,
           c.local = e.remote, c.remote = e.local
    PROVE  Survivor(c) = Survivor(e) \/ c.local.at = c.remote.at
<1> USE ConflictAssumption
<1>1. CASE c.type = "BothModified"
  <2>1. c.local \in Versions /\ c.remote \in Versions /\ e.type = "BothModified"
    BY <1>1 DEF JustConflicts, Justified
  <2>2. c.local.at \in Nat /\ c.remote.at \in Nat
    BY <2>1 DEF Versions, Times
  <2> QED BY <1>1, <2>1, <2>2 DEF Survivor, auto_resolve_conflict
<1>2. CASE c.type # "BothModified"
  <2>1. \/ c.local \in Versions /\ c.remote = NoCopy
        \/ c.local = NoCopy /\ c.remote \in Versions
    BY <1>2 DEF JustConflicts, Justified
  <2>2. e.type # "BothModified"
    BY <2>1 DEF JustConflicts, Justified
  <2> QED BY <1>2, <2>1, <2>2 DEF Survivor, auto_resolve_conflict
<1> QED BY <1>1, <1>2

(* No resolution keeps the absence of a version. *)
LEMMA SurvivorExists ==
    ASSUME NEW c \in JustConflicts
    PROVE  Survivor(c) # NoCopy
  BY ConflictAssumption DEF JustConflicts, Justified, Survivor, auto_resolve_conflict

(* Two devices that resolve one conflict, each from its own side, keep the
   same version, and never the absence of one, unless both versions were
   modified at the same time. *)
THEOREM ResolutionsKeepAgreeing == ConflictSpec => []ResolutionsAgree
<1>1. ConflictInit => ConflictInv
  BY ConflictAssumption DEF ConflictInit, ConflictInv, Times
<1>2. ConflictInv /\ [ConflictNext]_cvars => ConflictInv'
  BY ConflictsKept
<1>3. ConflictInv => ResolutionsAgree
  <2> SUFFICES ASSUME ConflictInv, NEW d \in Devices, NEW p \in ConflictPaths
               PROVE  LET mine == detected[d][p]
                          theirs == detected[Other(d)][p]
                      IN  /\ mine # NoConflict => Survivor(mine) # NoCopy
                          /\ (/\ mine # NoConflict /\ theirs # NoConflict
                              /\ mine.local = theirs.remote /\ mine.remote = theirs.local)
                             => \/ Survivor(mine) = Survivor(theirs)
                                \/ mine.local.at = mine.remote.at
    BY DEF ResolutionsAgree
  <2>1. Other(d) \in Devices
    BY ConflictAssumption
  <2>2. /\ detected[d][p] # NoConflict => detected[d][p] \in JustConflicts
        /\ detected[Other(d)][p] # NoConflict => detected[Other(d)][p] \in JustConflicts
    BY <2>1 DEF ConflictInv
  <2> QED BY <2>2, SurvivorsAgree, SurvivorExists
<1> QED BY <1>1, <1>2, <1>3, PTL DEF ConflictSpec

(***************************************************************************)
(* The pending changes of a peer.                                          *)
(***************************************************************************)
(* The change log alone. *)
DiffSpec == DiffInit /\ [][DiffNext]_diffvars

Diffs == [source : Manifests, target : Manifests, changes : SUBSET Changes]

(* What is pending comes from the last diff, without what was acknowledged
   since, and only that is left out. *)
FollowsDiff(p) ==
    /\ required_chunks(last[p].changes) \subseteq acked[p] \cup required_chunks(pending[p])
    /\ \A c \in pending[p] :
        \E d \in last[p].changes : c.path = d.path /\ c.required \subseteq d.required \ acked[p]

PendingInv ==
    /\ pending \in [Peers -> SUBSET Changes]
    /\ last \in [Peers -> Diffs] /\ acked \in [Peers -> SUBSET Chunks]
    /\ \A p \in Peers : last[p].changes # {} =>
        last[p].changes = compute_diff(last[p].source, last[p].target, Cache) /\ FollowsDiff(p)

(* The chunks of an entry are chunks. *)
LEMMA EntryChunks ==
    ASSUME NEW e \in Entries
    PROVE  ToSet(e.chunks) \subseteq Chunks
  BY DEF Entries, SeqOf, ToSet

(* The changes of one path: what it requires of the chunks, and that this
   completes the file. *)
LEMMA FileChangesFit ==
    ASSUME NEW p \in Paths, NEW source \in Manifests, NEW target \in Manifests
    PROVE  /\ FileChanges(p, source, target, Cache) \subseteq Changes
           /\ \A c \in FileChanges(p, source, target, Cache) :
                /\ c.path = p /\ c.required \cap Cache = {}
                /\ source[p] # NoFile => c.required \cap ToSet(source[p].chunks) = {}
           /\ target[p] # NoFile =>
                ToSet(target[p].chunks) \subseteq
                    (IF source[p] = NoFile THEN {} ELSE ToSet(source[p].chunks)) \cup Cache
                        \cup required_chunks(FileChanges(p, source, target, Cache))
<1> DEFINE s == source[p]
           t == target[p]
<1>1. s \in Entries \cup {NoFile} /\ t \in Entries \cup {NoFile}
  BY DEF Manifests
<1>2. CASE s = NoFile /\ t = NoFile
  BY <1>2 DEF FileChanges
<1>3. CASE s = NoFile /\ t # NoFile
  <2>1. ToSet(t.chunks) \subseteq Chunks
    BY <1>1, <1>3, EntryChunks
  <2> DEFINE c == Change(p, "Added", ToSet(t.chunks) \ Cache)
  <2>2. FileChanges(p, source, target, Cache) = {c}
    BY <1>3 DEF FileChanges, find_required_chunks
  <2>3. c \in Changes /\ c.path = p /\ c.required = ToSet(t.chunks) \ Cache
    BY <2>1 DEF Change, Changes
  <2> HIDE DEF c
  <2> QED BY <1>3, <2>2, <2>3 DEF required_chunks
<1>4. CASE s # NoFile /\ t = NoFile
  <2> DEFINE c == Change(p, "Deleted", {})
  <2>1. FileChanges(p, source, target, Cache) = {c}
    BY <1>4 DEF FileChanges
  <2>2. c \in Changes /\ c.path = p /\ c.required = {}
    BY DEF Change, Changes
  <2> HIDE DEF c
  <2> QED BY <1>4, <2>1, <2>2 DEF required_chunks
<1>5. CASE s # NoFile /\ t # NoFile
  <2> DEFINE required == ToSet(t.chunks) \ (ToSet(s.chunks) \cup Cache)
             meta == Change(p, "MetadataOnly", {})
             c == Change(p, "Modified", required)
  <2>1. required \subseteq Chunks
    BY <1>1, <1>5, EntryChunks
  <2>2. /\ c \in Changes /\ c.path = p /\ c.required = required
        /\ meta \in Changes /\ meta.path = p /\ meta.required = {}
    BY <2>1 DEF Change, Changes
  <2>3. FileChanges(p, source, target, Cache) =
            IF content_hash(s) = content_hash(t) THEN {}
            ELSE IF required = {} /\ size(s) = size(t) THEN {meta} ELSE {c}
    BY <1>5 DEF FileChanges, compute_chunk_diff
  <2>4. content_hash(s) = content_hash(t) => required = {}
    BY DEF content_hash
  <2> HIDE DEF c, meta
  <2>5. CASE content_hash(s) = content_hash(t)
    BY <1>5, <2>3, <2>4, <2>5 DEF required_chunks
  <2>6. CASE content_hash(s) # content_hash(t) /\ required = {} /\ size(s) = size(t)
    BY <1>5, <2>2, <2>3, <2>6 DEF required_chunks
  <2>7. CASE content_hash(s) # content_hash(t) /\ ~ (required = {} /\ size(s) = size(t))
    BY <1>5, <2>2, <2>3, <2>7 DEF required_chunks
  <2> QED BY <2>5, <2>6, <2>7
<1> QED BY <1>2, <1>3, <1>4, <1>5

(* Every step keeps what is pending of the last diff. *)
LEMMA PendingKept ==
    ASSUME PendingInv, [DiffNext]_diffvars
    PROVE  PendingInv'
<1> USE DiffAssumption
<1>1. ASSUME NEW p \in Peers, NEW m \in Trees, NEW n \in Trees, compute_incremental(p, m, n)
      PROVE  PendingInv'
  <2> DEFINE changes == compute_diff(n, m, Cache)
             found == [source |-> n, target |-> m, changes |-> changes]
  <2>1. m \in Manifests /\ n \in Manifests
    OBVIOUS
  <2>2. changes \subseteq Changes
    BY <2>1, FileChangesFit DEF compute_diff
  <2>3. /\ pending' = IF changes = {} THEN pending ELSE [pending EXCEPT ![p] = changes]
        /\ last' = [last EXCEPT ![p] = found] /\ acked' = [acked EXCEPT ![p] = {}]
    BY <1>1 DEF compute_incremental
  <2> HIDE DEF changes
  <2>4. found \in Diffs
    BY <2>1, <2>2 DEF Diffs
  <2>5. last'[p] = found /\ acked'[p] = {}
    BY <2>2, <2>3 DEF PendingInv
  <2>6. \A q \in Peers \ {p} : last'[q] = last[q] /\ acked'[q] = acked[q] /\ pending'[q] = pending[q]
    BY <2>3 DEF PendingInv
  <2>7. changes # {} => pending'[p] = changes
    BY <2>3 DEF PendingInv
  <2>8. changes # {} => FollowsDiff(p)'
    BY <2>5, <2>7 DEF FollowsDiff
  <2>9. \A q \in Peers \ {p} : FollowsDiff(q) => FollowsDiff(q)'
    BY <2>6 DEF FollowsDiff
  <2>10. /\ pending' \in [Peers -> SUBSET Changes]
         /\ last' \in [Peers -> Diffs] /\ acked' \in [Peers -> SUBSET Chunks]
    BY <2>2, <2>3, <2>4 DEF PendingInv
  <2> QED BY <2>5, <2>6, <2>8, <2>9, <2>10 DEF PendingInv, changes
<1>2. ASSUME NEW p \in Peers, NEW chunks \in SUBSET Chunks, acknowledge_changes(p, chunks)
      PROVE  PendingInv'
  <2> DEFINE left == Retain(pending[p], chunks)
  <2>1. pending[p] \in SUBSET Changes
    BY DEF PendingInv
  <2>2. /\ left \subseteq Changes
        /\ \A c \in left : \E d \in pending[p] : c.path = d.path /\ c.required = d.required \ chunks
        /\ \A d \in pending[p] : d.required \subseteq chunks \/ \E c \in left : c.required = d.required \ chunks
    <3>1. ASSUME NEW d \in Changes
          PROVE  /\ [d EXCEPT !.required = @ \ chunks] \in Changes
                 /\ [d EXCEPT !.required = @ \ chunks].path = d.path
                 /\ [d EXCEPT !.required = @ \ chunks].required = d.required \ chunks
      BY DEF Changes
    <3>2. \A c \in left : \E d \in pending[p] : c = [d EXCEPT !.required = @ \ chunks]
      BY DEF Retain
    <3>3. \A d \in pending[p] : [d EXCEPT !.required = @ \ chunks].required # {} => [d EXCEPT !.required = @ \ chunks] \in left
      BY DEF Retain
    <3> HIDE DEF left
    <3>4. left \subseteq Changes
      BY <2>1, <3>1, <3>2
    <3>5. \A c \in left : \E d \in pending[p] : c.path = d.path /\ c.required = d.required \ chunks
      BY <2>1, <3>1, <3>2
    <3>6. ASSUME NEW d \in pending[p] PROVE d.required \subseteq chunks \/ \E c \in left : c.required = d.required \ chunks
      BY <2>1, <3>1, <3>3
    <3> QED BY <3>4, <3>5, <3>6
  <2>3. pending' = [pending EXCEPT ![p] = left]
    BY <1>2 DEF acknowledge_changes
  <2>4. acked' = [acked EXCEPT ![p] = acked[p] \cup chunks] /\ last' = last
    BY <1>2 DEF acknowledge_changes
  <2> HIDE DEF left
  <2>5. pending'[p] = left
    BY <2>1, <2>2, <2>3 DEF PendingInv
  <2>6. acked'[p] = acked[p] \cup chunks
    BY <2>4 DEF PendingInv
  <2>7. ASSUME FollowsDiff(p) PROVE FollowsDiff(p)'
    <3>1. required_chunks(pending[p]) \subseteq chunks \cup required_chunks(left)
      BY <2>2 DEF required_chunks
    <3>2. required_chunks(last[p].changes) \subseteq acked'[p] \cup required_chunks(left)
      BY <2>5, <2>6, <2>7, <3>1 DEF FollowsDiff
    <3>3. ASSUME NEW c \in left PROVE \E d \in last[p].changes : c.path = d.path /\ c.required \subseteq d.required \ acked'[p]
      <4>1. PICK e \in pending[p] : c.path = e.path /\ c.required = e.required \ chunks
        BY <2>2
      <4>2. PICK d \in last[p].changes : e.path = d.path /\ e.required \subseteq d.required \ acked[p]
        BY <2>5, <2>7 DEF FollowsDiff
      <4> QED BY <2>6, <4>1, <4>2
    <3> QED BY <2>4, <2>5, <3>2, <3>3 DEF FollowsDiff
  <2>8. \A q \in Peers \ {p} : FollowsDiff(q) => FollowsDiff(q)'
    BY <2>3, <2>4 DEF FollowsDiff, PendingInv
  <2>11. pending' \in [Peers -> SUBSET Changes]
    BY <2>2, <2>3 DEF PendingInv
  <2>9. acked' \in [Peers -> SUBSET Chunks]
    BY <2>4 DEF PendingInv
  <2> QED BY <2>4, <2>7, <2>8, <2>9, <2>11 DEF PendingInv
<1>3. ASSUME NEW p \in Peers, reset_peer(p) PROVE PendingInv'
  <2>1. Nothing \in Diffs /\ Nothing.changes = {}
    BY DEF Nothing, Empty, Diffs, Manifests
  <2>2. last'[p].changes = {} /\ last' \in [Peers -> Diffs]
    BY <1>3, <2>1 DEF reset_peer, PendingInv
  <2>3. \A q \in Peers \ {p} : last'[q] = last[q] /\ acked'[q] = acked[q] /\ pending'[q] = pending[q]
    BY <1>3 DEF reset_peer, PendingInv
  <2>4. \A q \in Peers \ {p} : FollowsDiff(q) => FollowsDiff(q)'
    BY <2>3 DEF FollowsDiff
  <2>5. pending' \in [Peers -> SUBSET Changes]
    BY <1>3 DEF reset_peer, PendingInv
  <2>6. {} \in SUBSET Chunks /\ acked' = [acked EXCEPT ![p] = {}]
    BY <1>3 DEF reset_peer
  <2>7. acked' \in [Peers -> SUBSET Chunks]
    BY <2>6 DEF PendingInv
  <2> QED BY <2>2, <2>3, <2>4, <2>5, <2>7 DEF PendingInv
<1>4. CASE UNCHANGED diffvars
  BY <1>4 DEF diffvars, PendingInv, FollowsDiff
<1> QED BY <1>1, <1>2, <1>3, <1>4 DEF DiffNext

(* What is pending for a peer is what it lacks of the target manifest: no
   chunk is dropped before it was acknowledged, and none is pending that it
   acknowledged, that is cached, or that its own file has. *)
THEOREM PendingStaysWhatIsLacking == DiffSpec => []PendingIsWhatIsLacking
<1>1. DiffInit => PendingInv
  <2>1. Nothing \in Diffs /\ Nothing.changes = {}
    BY DEF Nothing, Empty, Diffs, Manifests
  <2>2. {} \in SUBSET Chunks
    OBVIOUS
  <2>3. ASSUME DiffInit PROVE acked \in [Peers -> SUBSET Chunks]
    BY <2>2, <2>3 DEF DiffInit
  <2> QED BY <2>1, <2>3 DEF DiffInit, PendingInv
<1>2. PendingInv /\ [DiffNext]_diffvars => PendingInv'
  BY PendingKept
<1>3. PendingInv => PendingIsWhatIsLacking
  <2> SUFFICES ASSUME PendingInv, NEW p \in Peers, last[p].changes # {}
               PROVE  /\ ChunksOf(last[p].target) \subseteq
                            ChunksOf(last[p].source) \cup Cache \cup acked[p]
                                \cup required_chunks(pending[p])
                      /\ \A c \in pending[p] :
                            /\ c.required \cap (acked[p] \cup Cache) = {}
                            /\ last[p].source[c.path] # NoFile =>
                                  c.required \cap ToSet(last[p].source[c.path].chunks) = {}
    BY DEF PendingIsWhatIsLacking
  <2>1. PICK source \in Manifests, target \in Manifests, changes \in SUBSET Changes :
            last[p].source = source /\ last[p].target = target /\ last[p].changes = changes
    BY DEF PendingInv, Diffs
  <2>2. changes = compute_diff(source, target, Cache) /\ FollowsDiff(p)
    BY <2>1 DEF PendingInv
  <2>3. ASSUME NEW q \in Paths, target[q] # NoFile
        PROVE  ToSet(target[q].chunks) \subseteq ChunksOf(source) \cup Cache \cup required_chunks(changes)
    <3>1. ToSet(target[q].chunks) \subseteq
              (IF source[q] = NoFile THEN {} ELSE ToSet(source[q].chunks)) \cup Cache
                  \cup required_chunks(FileChanges(q, source, target, Cache))
      BY <2>3, FileChangesFit
    <3>2. required_chunks(FileChanges(q, source, target, Cache)) \subseteq required_chunks(changes)
      BY <2>2 DEF compute_diff, required_chunks
    <3>3. source[q] # NoFile => ToSet(source[q].chunks) \subseteq ChunksOf(source)
      BY DEF ChunksOf
    <3> QED BY <3>1, <3>2, <3>3
  <2>4. ChunksOf(target) \subseteq ChunksOf(source) \cup Cache \cup required_chunks(changes)
    BY <2>3 DEF ChunksOf
  <2>5. \A d \in changes : /\ d.required \cap Cache = {}
                           /\ source[d.path] # NoFile => d.required \cap ToSet(source[d.path].chunks) = {}
    BY <2>2, FileChangesFit DEF compute_diff
  <2> QED BY <2>1, <2>2, <2>4, <2>5 DEF FollowsDiff
<1> QED BY <1>1, <1>2, <1>3, PTL DEF DiffSpec

(***************************************************************************)
(* The daemon shell with its discovery and its watchers.                   *)
(***************************************************************************)
(* The shell with the parts it owns. *)
ShellSpec == ShellInit /\ [][ShellNext]_shvars

Services == [flag : BOOLEAN, registered : BOOLEAN,
             browser : {"none", "waits", "applies", "aborted", "overruns", "ended"},
             event : Neighbours \cup {Self, NoEvent},
             peers : [Neighbours -> {"unknown", "fresh", "old"}],
             outlived : BOOLEAN]

Aborted == {"aborted", "overruns", "ended"}

(* The task of a service that does not run was aborted if there ever was
   one; if it had ended when the service was stopped, nobody is known. *)
KnowsFew(s) ==
    ~ s.flag =>
        /\ s.browser \in Aborted \cup {"none"}
        /\ ~ s.outlived => s.browser \in {"none", "ended"} /\ s.peers = NoPeers

ServiceInv ==
    /\ service \in [Starts -> Services]
    /\ \A g \in Starts : KnowsFew(service[g])

(* A step of the event processor, of a browse or of the passing of time
   leaves the flags as they are, and ends no task but an aborted one. *)
Quiet(s, t) ==
    /\ t \in Services /\ t.flag = s.flag /\ t.outlived = s.outlived
    /\ s.browser = t.browser \/ (s.browser \in {"waits", "applies"} /\ t.browser \in {"waits", "applies"})
         \/ (s.browser \in AtWork /\ t.browser \in Aborted)

(* The steps of the discovery and of the callbacks leave the flag alone. *)
LEMMA ServiceKept ==
    ASSUME ServiceInv, DiscoveryStep \/ \E w \in Watchers : HandleEvents(w)
    PROVE  ServiceInv' /\ \A g \in Starts : Quiet(service[g], service'[g])
<1>1. ASSUME NEW g \in Starts, NEW n \in Neighbours \cup {Self}, ServiceResolved(g, n)
      PROVE  ServiceInv' /\ \A k \in Starts : Quiet(service[k], service'[k])
  <2> DEFINE s == service[g]
             b == IF s.browser = "waits" THEN "applies" ELSE "aborted"
             t == [s EXCEPT !.browser = b, !.event = n]
  <2>1. s \in Services /\ s.browser \in {"waits", "overruns"} /\ KnowsFew(s)
    BY <1>1 DEF ServiceResolved, ServiceInv
  <2>2. service' = [service EXCEPT ![g] = t]
    BY <1>1, <2>1 DEF ServiceResolved, Services, ServiceInv
  <2>3. t \in Services /\ t.flag = s.flag /\ t.browser = b /\ t.peers = s.peers /\ t.outlived = s.outlived
    BY <2>1 DEF Services
  <2>4. service'[g] = t /\ \A k \in Starts \ {g} : service'[k] = service[k]
    BY <2>2 DEF ServiceInv
  <2>5. service' \in [Starts -> Services]
    <3> HIDE DEF t
    <3> QED BY <2>2, <2>3 DEF ServiceInv
  <2> HIDE DEF t
  <2>6. KnowsFew(t)
    <3> HIDE DEF s
    <3> QED BY <2>1, <2>3 DEF KnowsFew, Aborted
  <2>7. Quiet(s, t)
    <3> HIDE DEF s
    <3> QED BY <2>1, <2>3 DEF Quiet, AtWork, Aborted
  <2>8. \A k \in Starts : KnowsFew(service'[k])
    BY <2>4, <2>6 DEF ServiceInv
  <2> QED BY <2>4, <2>5, <2>7, <2>8 DEF Quiet, ServiceInv, KnowsFew
<1>2. ASSUME NEW g \in Starts, InsertPeer(g)
      PROVE  ServiceInv' /\ \A k \in Starts : Quiet(service[k], service'[k])
  <2> DEFINE s == service[g]
             b == IF s.browser = "applies" THEN "waits" ELSE "overruns"
             p == [n \in Neighbours |-> IF n = s.event THEN "fresh" ELSE s.peers[n]]
             t == [s EXCEPT !.browser = b, !.event = NoEvent, !.peers = p]
  <2>1. s \in Services /\ s.browser \in {"applies", "aborted"} /\ KnowsFew(s)
    BY <1>2 DEF InsertPeer, ServiceInv
  <2>2. service' = [service EXCEPT ![g] = t]
    BY <1>2, <2>1 DEF InsertPeer, Services, ServiceInv
  <2>3. p \in [Neighbours -> {"unknown", "fresh", "old"}]
    BY <2>1 DEF Services
  <2>4. t \in Services /\ t.flag = s.flag /\ t.browser = b /\ t.outlived = s.outlived
    <3> HIDE DEF p
    <3> QED BY <2>1, <2>3 DEF Services
  <2>5. service'[g] = t /\ \A k \in Starts \ {g} : service'[k] = service[k]
    BY <2>2 DEF ServiceInv
  <2>6. service' \in [Starts -> Services]
    <3> HIDE DEF t
    <3> QED BY <2>2, <2>4 DEF ServiceInv
  <2> HIDE DEF t, p
  <2>7. KnowsFew(t)
    <3> HIDE DEF s
    <3> QED BY <2>1, <2>4 DEF KnowsFew, Aborted
  <2>8. Quiet(s, t)
    <3> HIDE DEF s
    <3> QED BY <2>1, <2>4 DEF Quiet, AtWork, Aborted
  <2>9. \A k \in Starts : KnowsFew(service'[k])
    BY <2>5, <2>7 DEF ServiceInv
  <2> QED BY <2>5, <2>6, <2>8, <2>9 DEF Quiet, ServiceInv, KnowsFew
<1>3. ASSUME NEW g \in Starts, EventDropped(g)
      PROVE  ServiceInv' /\ \A k \in Starts : Quiet(service[k], service'[k])
  <2> DEFINE s == service[g]
             t == [s EXCEPT !.browser = "ended", !.event = NoEvent]
  <2>1. s \in Services /\ s.browser \in AtWork /\ KnowsFew(s)
    BY <1>3 DEF EventDropped, ServiceInv
  <2>2. service' = [service EXCEPT ![g] = t]
    BY <1>3, <2>1 DEF EventDropped, Services, ServiceInv
  <2>3. t \in Services /\ t.flag = s.flag /\ t.browser = "ended" /\ t.peers = s.peers /\ t.outlived = s.outlived
    BY <2>1 DEF Services
  <2>4. service'[g] = t /\ \A k \in Starts \ {g} : service'[k] = service[k]
    BY <2>2 DEF ServiceInv
  <2>5. service' \in [Starts -> Services]
    BY <2>2, <2>3 DEF ServiceInv
  <2> HIDE DEF t
  <2>6. KnowsFew(t)
    <3> HIDE DEF s
    <3> QED BY <2>1, <2>3 DEF KnowsFew, Aborted
  <2>7. Quiet(s, t)
    <3> HIDE DEF s
    <3> QED BY <2>1, <2>3 DEF Quiet, AtWork, Aborted
  <2> QED BY <2>4, <2>5, <2>6, <2>7 DEF ServiceInv, Quiet
<1>4. ASSUME NEW g, NEW p \in [Neighbours -> {"unknown", "fresh", "old"}],
             service' = [service EXCEPT ![g].peers = p],
             g \in Starts => \A n \in Neighbours : p[n] # "unknown" => service[g].peers[n] # "unknown"
      PROVE  ServiceInv' /\ \A k \in Starts : Quiet(service[k], service'[k])
  <2>1. CASE g \notin Starts
    <3>1. service' = service
      BY <1>4, <2>1 DEF ServiceInv
    <3> QED BY <3>1 DEF ServiceInv, KnowsFew, Quiet
  <2>2. CASE g \in Starts
    <3> DEFINE t == [service[g] EXCEPT !.peers = p]
    <3>1. service[g] \in Services /\ KnowsFew(service[g])
      BY <2>2 DEF ServiceInv
    <3>2. service' = [service EXCEPT ![g] = t]
      BY <1>4, <2>2 DEF ServiceInv
    <3>3. /\ t \in Services /\ t.flag = service[g].flag /\ t.browser = service[g].browser
          /\ t.peers = p /\ t.outlived = service[g].outlived
      BY <3>1 DEF Services
    <3>4. service'[g] = t /\ \A k \in Starts \ {g} : service'[k] = service[k]
      BY <2>2, <3>2 DEF ServiceInv
    <3>5. service' \in [Starts -> Services]
      BY <3>2, <3>3 DEF ServiceInv
    <3>6. service[g].peers = NoPeers => p = NoPeers
      <4>1. ASSUME service[g].peers = NoPeers PROVE \A n \in Neighbours : p[n] = NoPeers[n]
        BY <1>4, <2>2, <4>1 DEF NoPeers
      <4> QED BY <4>1 DEF NoPeers
    <3> HIDE DEF t
    <3>7. KnowsFew(t)
      BY <1>4, <2>2, <3>1, <3>3, <3>6 DEF KnowsFew
    <3> QED BY <3>1, <3>3, <3>4, <3>5, <3>7 DEF ServiceInv, Quiet
  <2> QED BY <2>1, <2>2
<1>5. ASSUME NEW g \in Starts, NEW n \in Neighbours, NotSeenLately(g, n)
      PROVE  ServiceInv' /\ \A k \in Starts : Quiet(service[k], service'[k])
  <2> DEFINE p == [service[g].peers EXCEPT ![n] = "old"]
  <2>1. service[g].peers \in [Neighbours -> {"unknown", "fresh", "old"}] /\ service[g].peers[n] = "fresh"
    BY <1>5 DEF NotSeenLately, ServiceInv, Services
  <2>2. service' = [service EXCEPT ![g].peers = p]
    BY <1>5, <2>1 DEF NotSeenLately, ServiceInv, Services
  <2>3. p \in [Neighbours -> {"unknown", "fresh", "old"}]
    BY <2>1
  <2>4. \A k \in Neighbours : p[k] # "unknown" => service[g].peers[k] # "unknown"
    BY <2>1
  <2> HIDE DEF p
  <2> QED BY <1>4, <2>2, <2>3, <2>4
<1>6. ASSUME NEW w \in Watchers, HandleEvents(w)
      PROVE  ServiceInv' /\ \A k \in Starts : Quiet(service[k], service'[k])
  <2> DEFINE g == origin[w]
             p == [n \in Neighbours |-> IF service[g].peers[n] = "old" THEN "unknown" ELSE service[g].peers[n]]
  <2>1. service' = [service EXCEPT ![g].peers = p]
    BY <1>6 DEF HandleEvents, browse_peers
  <2>2. CASE g \in Starts
    <3>1. service[g].peers \in [Neighbours -> {"unknown", "fresh", "old"}]
      BY <2>2 DEF ServiceInv, Services
    <3>2. p \in [Neighbours -> {"unknown", "fresh", "old"}]
      BY <3>1
    <3>3. \A n \in Neighbours : p[n] # "unknown" => service[g].peers[n] # "unknown"
      OBVIOUS
    <3> HIDE DEF p, g
    <3> QED BY <1>4, <2>1, <3>2, <3>3
  <2>3. CASE g \notin Starts
    <3>1. service' = service
      BY <2>1, <2>3 DEF ServiceInv
    <3> QED BY <3>1 DEF ServiceInv, KnowsFew, Quiet
  <2> QED BY <2>2, <2>3
<1> QED BY <1>1, <1>2, <1>3, <1>5, <1>6 DEF DiscoveryStep

(* The type of a running add_sync_folder. *)
Additions == [root : SyncRoots, watcher : Watchers]

Stopping == {"abort", "shutdown", "watchers", "clear"}

(* start runs only in a daemon that is not up, stop only in one that is; the
   parts that `state` names exist, and the discovery among them runs until
   stop reaches it. *)
ControlInv ==
    /\ up \in BOOLEAN /\ stop_failed \in BOOLEAN
    /\ ctl \in {"none", "serve", "advertise", "install"} \cup Stopping
    /\ starts \in 0..MaxStarts /\ tasks \in Nat
    /\ ctl \in Stopping => up
    /\ ctl \in {"serve", "advertise", "install"} => ~ up
    /\ ctl \in {"advertise", "install"} => tasks >= 1
    /\ up => installed \in Starts /\ tasks >= 1
    /\ ~ up => installed = 0 /\ adding = NotAdding
    /\ ~ AnyPort => tasks <= 1

DiscoveryInv ==
    /\ ctl = "install" => starts \in Starts /\ service[starts].flag
                          /\ service[starts].browser \in {"waits", "applies"}
    /\ up /\ ctl \in {"none", "abort", "shutdown"} => service[installed].flag
    /\ \A g \in Starts : service[g].flag => service[g].browser # "none"
    /\ ctl = "shutdown" => service[installed].browser \in Aborted
    /\ up /\ ctl \in {"none", "abort"} /\ service[installed].browser \in Aborted => stop_failed

FoldersInv == ctl = "clear" \/ ~ up => DOMAIN folders \subseteq late

(* What the steps of the folders, the discovery and the watchers leave. *)
LEMMA ControlQuiet ==
    ASSUME ServiceInv, ControlInv, DiscoveryInv, FoldersInv,
           UNCHANGED <<up, ctl, starts, installed, tasks, stop_failed>>,
           ~ up => adding' = adding,
           \A g \in Starts : Quiet(service[g], service'[g]),
           ctl = "clear" \/ ~ up => DOMAIN folders' \subseteq late'
    PROVE  ControlInv' /\ DiscoveryInv' /\ FoldersInv'
<1>1. ControlInv'
  BY DEF ControlInv, NotAdding
<1>2. FoldersInv'
  BY DEF FoldersInv
<1>3. ASSUME ctl = "install" PROVE starts \in Starts /\ service'[starts].flag
                          /\ service'[starts].browser \in {"waits", "applies"}
  <2>1. starts \in Starts /\ service[starts].flag /\ service[starts].browser \in {"waits", "applies"}
    BY <1>3 DEF DiscoveryInv
  <2>2. Quiet(service[starts], service'[starts])
    BY <2>1
  <2>3. service'[starts].flag
    BY <2>1, <2>2 DEF Quiet
  <2>4. service'[starts].browser \in {"waits", "applies"}
    BY <2>1, <2>2 DEF Quiet, AtWork
  <2> QED BY <2>1, <2>3, <2>4
<1>4. ASSUME up PROVE Quiet(service[installed], service'[installed])
  BY <1>4 DEF ControlInv
<1>5. up /\ ctl \in {"none", "abort", "shutdown"} => service'[installed].flag
  BY <1>4 DEF DiscoveryInv, Quiet
<1>6. ctl = "shutdown" => service'[installed].browser \in Aborted
  <2> SUFFICES ASSUME ctl = "shutdown" PROVE service'[installed].browser \in Aborted
    OBVIOUS
  <2>1. up /\ service[installed].browser \in Aborted
    BY DEF ControlInv, DiscoveryInv, Stopping
  <2> QED BY <1>4, <2>1 DEF Quiet, AtWork, Aborted
<1>7. up /\ ctl \in {"none", "abort"} /\ service'[installed].browser \in Aborted => stop_failed
  <2> SUFFICES ASSUME up, ctl \in {"none", "abort"}, service'[installed].browser \in Aborted
               PROVE  stop_failed
    OBVIOUS
  <2>1. service[installed].browser \in Aborted
    BY <1>4 DEF Quiet, AtWork, Aborted
  <2> QED BY <2>1 DEF DiscoveryInv
<1>8. ASSUME NEW g \in Starts, service'[g].flag PROVE service'[g].browser # "none"
  <2>1. Quiet(service[g], service'[g])
    OBVIOUS
  <2>2. service[g].flag
    BY <1>8, <2>1, Zenon DEF Quiet
  <2>3. service[g].browser # "none"
    BY <2>2 DEF DiscoveryInv
  <2> QED BY <2>1, <2>3 DEF Quiet, Aborted
<1> QED BY <1>1, <1>2, <1>3, <1>5, <1>6, <1>7, <1>8 DEF DiscoveryInv

(* The steps of start and stop, and the others between them. *)
LEMMA ControlKept ==
    ASSUME ServiceInv, ControlInv, DiscoveryInv, FoldersInv, [ShellNext]_shvars
    PROVE  (ServiceInv /\ ControlInv /\ DiscoveryInv /\ FoldersInv)'
<1> DEFINE Inv == ServiceInv /\ ControlInv /\ DiscoveryInv /\ FoldersInv
<1>0. MaxStarts \in Nat
  BY DiscoveryAssumption
<1>1. ASSUME start PROVE Inv'
  BY <1>1 DEF start, ServiceInv, KnowsFew, ControlInv, DiscoveryInv, FoldersInv, Stopping, NotAdding
<1>2. ASSUME start_quic_server PROVE Inv'
  BY <1>2 DEF start_quic_server, ServiceInv, KnowsFew, ControlInv, DiscoveryInv, FoldersInv, Stopping, NotAdding
<1>3. ASSUME NEW o, o \in {"register fails", "browse fails", "starts"}, start_discovery_service(o) PROVE Inv'
  <2>a. starts' = starts + 1 /\ starts < MaxStarts /\ ctl = "advertise" /\ start_advertising(starts', o)
    BY <1>3 DEF start_discovery_service
  <2>b. starts \in 0..MaxStarts /\ tasks \in Nat /\ tasks >= 1
    BY <2>a DEF ControlInv
  <2>c. ~ up
    BY <2>a, Zenon DEF ControlInv
  <2>d. ~ service[starts'].flag
    BY <2>a, Zenon DEF start_advertising
  <2>1. starts' = starts + 1 /\ starts' \in Starts /\ ~ service[starts'].flag /\ ctl = "advertise" /\ ~ up
    <3>1. starts' = starts + 1 /\ starts' \in Starts
      <4>1. starts' = starts + 1 /\ starts < MaxStarts
        BY <2>a
      <4>2. starts + 1 \in 1..MaxStarts
        BY <1>0, <4>1, <2>b
      <4> QED BY <4>1, <4>2 DEF Starts
    <3> QED BY <2>a, <2>c, <2>d, <3>1, Zenon
  <2>2. PICK g \in Starts : g = starts'
    BY <2>1
  <2>3. service[g] \in Services /\ KnowsFew(service[g])
    BY DEF ServiceInv
  <2>4. \E t \in Services : /\ service' = [service EXCEPT ![g] = t]
                            /\ KnowsFew(t)
                            /\ (o = "starts" => t.flag /\ t.browser = "waits")
                            /\ (o # "starts" => t.browser = service[g].browser /\ t.flag = service[g].flag)
    <3>1. CASE o = "register fails"
      <4>1. service' = [service EXCEPT ![g] = service[g]]
        BY <1>3, <2>2, <3>1 DEF start_discovery_service, start_advertising
      <4> QED BY <2>3, <3>1, <4>1
    <3>2. CASE o = "browse fails"
      <4> DEFINE t == [service[g] EXCEPT !.registered = TRUE]
      <4>1. service' = [service EXCEPT ![g] = t]
        BY <1>3, <2>2, <3>2 DEF start_discovery_service, start_advertising
      <4>2. t \in Services /\ t.flag = service[g].flag /\ t.browser = service[g].browser /\ t.peers = service[g].peers
            /\ t.outlived = service[g].outlived
        BY <2>3 DEF Services
      <4> HIDE DEF t
      <4>3. KnowsFew(t)
        BY <2>3, <4>2 DEF KnowsFew
      <4> QED BY <3>2, <4>1, <4>2, <4>3
    <3>3. CASE o = "starts"
      <4> DEFINE t == [service[g] EXCEPT !.flag = TRUE, !.registered = TRUE, !.browser = "waits"]
      <4>1. service' = [service EXCEPT ![g] = t]
        BY <1>3, <2>2, <3>3 DEF start_discovery_service, start_advertising
      <4>2. t \in Services /\ t.flag /\ t.browser = "waits"
        BY <2>3 DEF Services
      <4> HIDE DEF t
      <4>3. KnowsFew(t)
        BY <4>2 DEF KnowsFew
      <4> QED BY <3>3, <4>1, <4>2, <4>3
    <3> QED BY <1>3, <3>1, <3>2, <3>3
  <2>5. PICK t \in Services : /\ service' = [service EXCEPT ![g] = t]
                              /\ KnowsFew(t)
                              /\ (o = "starts" => t.flag /\ t.browser = "waits")
                              /\ (o # "starts" => t.browser = service[g].browser /\ t.flag = service[g].flag)
    BY <2>4
  <2>6. service' \in [Starts -> Services] /\ service'[g] = t /\ \A k \in Starts \ {g} : service'[k] = service[k]
    BY <2>5 DEF ServiceInv
  <2>k. \A k \in Starts : KnowsFew(service'[k])
    BY <2>5, <2>6 DEF ServiceInv
  <2>7. ServiceInv'
    BY <2>6, <2>k DEF ServiceInv, KnowsFew
  <2>8. ctl' = (IF o = "starts" THEN "install" ELSE "none") /\ UNCHANGED <<up, installed, tasks, adding, folders, stop_failed, late>>
    BY <1>3 DEF start_discovery_service
  <2>9. ControlInv'
    <3>1. starts' \in 0..MaxStarts /\ ctl' \in {"install", "none"} /\ tasks' \in Nat /\ tasks' >= 1
      <4>1. starts' \in 0..MaxStarts
        BY <1>0, <2>1 DEF Starts
      <4> QED BY <2>b, <2>8, <4>1
    <3>2. ctl' \notin Stopping
      BY <3>1 DEF Stopping
    <3>3. up' \in BOOLEAN /\ stop_failed' \in BOOLEAN
      BY <2>8, Zenon DEF ControlInv
    <3>4. ~ up' /\ installed' = 0 /\ adding' = NotAdding
      BY <2>1, <2>8, Zenon DEF ControlInv
    <3>5. (~ AnyPort => tasks' <= 1)
      BY <2>8 DEF ControlInv
    <3>6. NotAdding' = NotAdding
      BY DEF NotAdding
    <3>7. ctl' \in {"none", "serve", "advertise", "install"} \cup Stopping
      BY <3>1
    <3> QED BY <3>1, <3>2, <3>3, <3>4, <3>5, <3>6, <3>7, Zenon DEF ControlInv, Stopping
  <2>10. DiscoveryInv'
    <3>1. \A k \in Starts : service'[k].flag => service'[k].browser # "none"
      <4>1. o # "starts" => t.browser = service[g].browser /\ t.flag = service[g].flag
        BY <2>5
      <4> QED BY <2>5, <2>6, <4>1 DEF DiscoveryInv
    <3>2. ctl' = "install" => starts' \in Starts /\ service'[starts'].flag
                             /\ service'[starts'].browser \in {"waits", "applies"}
      BY <2>1, <2>2, <2>5, <2>6, <2>8
    <3>3. ~ up' /\ ctl' # "shutdown"
      BY <2>1, <2>8
    <3> QED BY <3>1, <3>2, <3>3, Zenon DEF DiscoveryInv
  <2>11. FoldersInv'
    BY <2>1, <2>8 DEF FoldersInv
  <2> QED BY <2>7, <2>9, <2>10, <2>11
<1>4. ASSUME Install PROVE Inv'
  <2>1. ctl = "install" /\ adding = NotAdding /\ installed' = starts /\ up' = TRUE /\ ctl' = "none" /\ stop_failed' = FALSE
    BY <1>4 DEF Install, StateFree
  <2>2. UNCHANGED <<starts, tasks, adding, folders, late, service>>
    BY <1>4 DEF Install
  <2>3. PICK g \in Starts : /\ g = starts /\ service[g].flag
                            /\ service[g].browser \in {"waits", "applies"} /\ tasks >= 1
    BY <2>1 DEF DiscoveryInv, ControlInv
  <2>4. ServiceInv'
    BY <2>2 DEF ServiceInv, KnowsFew
  <2>5. ControlInv'
    <3>1. tasks' \in Nat /\ tasks' >= 1 /\ (~ AnyPort => tasks' <= 1) /\ starts' \in 0..MaxStarts
      BY <2>2, <2>3 DEF ControlInv
    <3>2. installed' \in Starts
      BY <2>1, <2>3
    <3>3. ctl' = "none" /\ "none" \notin Stopping
      BY <2>1 DEF Stopping
    <3> QED BY <2>1, <3>1, <3>2, <3>3 DEF ControlInv, Stopping
  <2>6. DiscoveryInv'
    <3>1. service'[installed'].flag
      BY <2>1, <2>2, <2>3
    <3>2. service'[installed'].browser \in {"waits", "applies"}
      BY <2>1, <2>2, <2>3
    <3>3. \A k \in Starts : service'[k].flag => service'[k].browser # "none"
      BY <2>2 DEF DiscoveryInv
    <3>4. ctl' = "none" /\ service'[installed'].browser \notin Aborted
      BY <2>1, <3>2 DEF Aborted
    <3> QED BY <3>1, <3>3, <3>4 DEF DiscoveryInv
  <2>7. FoldersInv'
    BY <2>1 DEF FoldersInv
  <2> QED BY <2>4, <2>5, <2>6, <2>7
<1>5. ASSUME stop PROVE Inv'
  BY <1>5 DEF stop, ServiceInv, KnowsFew, ControlInv, DiscoveryInv, FoldersInv, Stopping, NotAdding
<1>6. ASSUME StopDiscovery PROVE Inv'
  <2>1. up /\ ctl = "abort" /\ installed \in Starts /\ service[installed].flag /\ adding = NotAdding
    BY <1>6 DEF StopDiscovery, StateFree, ControlInv, DiscoveryInv, Stopping
  <2>2. PICK g \in Starts : g = installed
    BY <2>1
  <2>3. AbortTask(g) /\ ctl' = "shutdown" /\ UNCHANGED <<up, starts, installed, tasks, adding, folders, stop_failed, late>>
    BY <1>6, <2>1, <2>2 DEF StopDiscovery
  <2> DEFINE b == CASE service[g].browser = "waits" -> "ended"
                    [] service[g].browser = "applies" -> "aborted"
                    [] OTHER -> service[g].browser
             t == [service[g] EXCEPT !.browser = b]
  <2>4. service[g] \in Services /\ service[g].flag
    BY <2>1, <2>2 DEF ServiceInv
  <2>5. service' = [service EXCEPT ![g] = t]
    BY <2>3, <2>4 DEF AbortTask, ServiceInv, Services
  <2>6. b \in Aborted
    <3>1. service[g].browser # "none"
      BY <2>4 DEF DiscoveryInv
    <3> QED BY <2>4, <3>1 DEF Services, Aborted
  <2>7. t \in Services /\ t.flag /\ t.browser = b
    <3> HIDE DEF b
    <3> QED BY <2>4, <2>6 DEF Services, Aborted
  <2>8. service' \in [Starts -> Services] /\ service'[g] = t /\ \A k \in Starts \ {g} : service'[k] = service[k]
    <3> HIDE DEF t
    <3> QED BY <2>5, <2>7 DEF ServiceInv
  <2> HIDE DEF t, b
  <2>9. KnowsFew(t)
    BY <2>7 DEF KnowsFew
  <2>10. \A k \in Starts : KnowsFew(service'[k])
    BY <2>8, <2>9 DEF ServiceInv
  <2>11. ServiceInv'
    BY <2>8, <2>10 DEF ServiceInv, KnowsFew
  <2>12. ControlInv'
    BY <2>1, <2>3 DEF ControlInv, Stopping, NotAdding
  <2>13. DiscoveryInv'
    <3>1. \A k \in Starts : service'[k].flag => service'[k].browser # "none"
      BY <2>6, <2>7, <2>8 DEF DiscoveryInv, Aborted
    <3> QED BY <2>1, <2>2, <2>3, <2>6, <2>7, <2>8, <3>1 DEF DiscoveryInv
  <2>14. FoldersInv'
    BY <2>1, <2>3 DEF FoldersInv
  <2> QED BY <2>11, <2>12, <2>13, <2>14
<1>7. ASSUME NEW ok \in BOOLEAN, ShutdownDiscovery(ok) PROVE Inv'
  <2>1. up /\ ctl = "shutdown" /\ installed \in Starts /\ service[installed].flag
        /\ service[installed].browser \in Aborted
    BY <1>7 DEF ShutdownDiscovery, ControlInv, DiscoveryInv, Stopping
  <2>2. UNCHANGED <<up, starts, installed, tasks, adding, folders, late>>
        /\ ctl' = (IF ok THEN "watchers" ELSE "none")
    BY <1>7 DEF ShutdownDiscovery
  <2>3. ControlInv'
    <3>1. stop_failed' \in BOOLEAN
      BY <1>7, Zenon DEF ShutdownDiscovery
    <3>2. ctl' \in {"watchers", "none"}
      BY <2>2
    <3> QED BY <2>1, <2>2, <3>1, <3>2 DEF ControlInv, Stopping, NotAdding
  <2>4. FoldersInv'
    BY <2>1, <2>2 DEF FoldersInv
  <2>5. CASE ~ ok
    <3>1. service' = service /\ ctl' = "none"
      BY <1>7, <2>2, <2>5 DEF ShutdownDiscovery, Shutdown
    <3>2. stop_failed'
      BY <1>7, <2>5, Zenon DEF ShutdownDiscovery
    <3>3. ServiceInv'
      BY <3>1 DEF ServiceInv, KnowsFew
    <3>4. DiscoveryInv'
      BY <2>1, <2>2, <3>1, <3>2 DEF DiscoveryInv
    <3> QED BY <2>3, <2>4, <3>3, <3>4
  <2>6. CASE ok
    <3> DEFINE o == service[installed].browser \in AtWork
               t == [service[installed] EXCEPT !.peers = NoPeers, !.flag = FALSE, !.registered = FALSE, !.outlived = o]
    <3>1. service' = [service EXCEPT ![installed] = t]
      <4>1. service' = [service EXCEPT ![installed].peers = NoPeers, ![installed].flag = FALSE,
                                        ![installed].registered = FALSE, ![installed].outlived = o]
        BY <1>7, <2>6 DEF ShutdownDiscovery, Shutdown
      <4> QED BY <2>1, <4>1 DEF ServiceInv
    <3>2. service[installed] \in Services /\ NoPeers \in [Neighbours -> {"unknown", "fresh", "old"}]
      BY <2>1 DEF ServiceInv, NoPeers
    <3>b. o \in BOOLEAN
      OBVIOUS
    <3>3. t \in Services /\ t.flag = FALSE /\ t.peers = NoPeers /\ t.browser = service[installed].browser
          /\ t.outlived = o
      <4> HIDE DEF NoPeers, o
      <4> QED BY <3>2, <3>b DEF Services
    <3> HIDE DEF t
    <3>4. service' \in [Starts -> Services] /\ service'[installed] = t
          /\ \A k \in Starts \ {installed} : service'[k] = service[k]
      BY <2>1, <3>1, <3>3 DEF ServiceInv
    <3>5. KnowsFew(t)
      <4>1. ~ t.outlived => t.browser = "ended"
        BY <2>1, <3>3 DEF Aborted, AtWork
      <4> QED BY <2>1, <3>3, <4>1 DEF KnowsFew
    <3>6. \A k \in Starts : KnowsFew(service'[k])
      BY <3>4, <3>5 DEF ServiceInv
    <3>7. ServiceInv'
      BY <3>4, <3>6 DEF ServiceInv, KnowsFew
    <3>8. \A k \in Starts : service'[k].flag => service'[k].browser # "none"
      BY <2>1, <3>3, <3>4 DEF DiscoveryInv, Aborted
    <3>9. DiscoveryInv'
      BY <2>1, <2>2, <2>6, <3>8 DEF DiscoveryInv
    <3> QED BY <2>3, <2>4, <3>7, <3>9
  <2> QED BY <2>5, <2>6
<1>8. ASSUME StopWatchers PROVE Inv'
  <2>1. up /\ ctl = "watchers" /\ ctl' = "clear" /\ folders' = <<>> /\ late' = {} /\ DOMAIN folders' = {}
    BY <1>8 DEF StopWatchers, ControlInv, Stopping
  <2>2. UNCHANGED <<up, starts, installed, tasks, adding, stop_failed, service>>
    BY <1>8 DEF StopWatchers
  <2>3. ServiceInv'
    BY <2>2 DEF ServiceInv, KnowsFew
  <2>4. ControlInv'
    BY <2>1, <2>2 DEF ControlInv, Stopping, NotAdding
  <2>5. DiscoveryInv'
    BY <2>1, <2>2 DEF DiscoveryInv
  <2>6. FoldersInv'
    BY <2>1 DEF FoldersInv
  <2> QED BY <2>3, <2>4, <2>5, <2>6
<1>9. ASSUME ClearState PROVE Inv'
  <2>1. ctl = "clear" /\ ctl' = "none" /\ adding = NotAdding /\ tasks' = 0 /\ installed' = 0 /\ up' = FALSE
    BY <1>9 DEF ClearState, StateFree
  <2>2. UNCHANGED <<starts, adding, folders, late, stop_failed, service>>
    BY <1>9 DEF ClearState
  <2>3. ServiceInv'
    BY <2>2 DEF ServiceInv, KnowsFew
  <2>4. ControlInv'
    <3>1. adding' = NotAdding' /\ ctl' \notin Stopping
      BY <2>1, <2>2 DEF NotAdding, Stopping
    <3>2. starts' \in 0..MaxStarts /\ stop_failed' \in BOOLEAN
      BY <2>2, Zenon DEF ControlInv
    <3>3. tasks' \in Nat /\ tasks' <= 1
      BY <2>1
    <3>4. ctl' = "none" /\ ~ up' /\ installed' = 0
      BY <2>1
    <3>5. ctl' \notin {"serve", "advertise", "install"}
      BY <3>4
    <3>6. up' \in BOOLEAN
      BY <2>1
    <3> QED BY <3>1, <3>2, <3>3, <3>4, <3>5, <3>6, Zenon DEF ControlInv
  <2>5. DiscoveryInv'
    BY <2>1, <2>2 DEF DiscoveryInv
  <2>6. FoldersInv'
    BY <2>1, <2>2 DEF FoldersInv
  <2> QED BY <2>3, <2>4, <2>5, <2>6
<1>10. ASSUME service' = service PROVE ServiceInv' /\ \A g \in Starts : Quiet(service[g], service'[g])
  BY <1>10 DEF ServiceInv, KnowsFew, Quiet
<1>11. ASSUME NEW w \in Watchers, NEW r \in SyncRoots, add_sync_folder(w, r) PROVE Inv'
  <2>1. up
    BY <1>11, Zenon DEF add_sync_folder, ControlInv
  <2>2. UNCHANGED <<up, ctl, starts, installed, tasks, stop_failed, folders, late, service>>
    BY <1>11 DEF add_sync_folder
  <2>3. ctl = "clear" \/ ~ up => DOMAIN folders' \subseteq late'
    BY <2>2 DEF FoldersInv
  <2> QED BY <1>10, <2>1, <2>2, <2>3, ControlQuiet
<1>12. ASSUME FolderAdded PROVE Inv'
  <2>1. adding # NotAdding
    BY <1>12 DEF FolderAdded, StateFree
  <2>2. up
    BY <2>1, Zenon DEF ControlInv
  <2>3. UNCHANGED <<up, ctl, starts, installed, tasks, stop_failed, service>>
    BY <1>12 DEF FolderAdded
  <2>4. DOMAIN folders' = DOMAIN folders \cup {adding.watcher}
        /\ late' = IF ctl = "clear" THEN late \cup {adding.watcher} ELSE late
    BY <1>12 DEF FolderAdded
  <2>5. ctl = "clear" \/ ~ up => DOMAIN folders' \subseteq late'
    BY <2>2, <2>4 DEF FoldersInv
  <2> QED BY <1>10, <2>2, <2>3, <2>5, ControlQuiet
<1>13. ASSUME NEW r \in SyncRoots, remove_sync_folder(r) PROVE Inv'
  <2>1. UNCHANGED <<up, ctl, starts, installed, tasks, stop_failed, adding, service, late>>
    BY <1>13 DEF remove_sync_folder
  <2>2. DOMAIN folders' \subseteq DOMAIN folders
    BY <1>13 DEF remove_sync_folder
  <2>3. ctl = "clear" \/ ~ up => DOMAIN folders' \subseteq late'
    BY <2>1, <2>2 DEF FoldersInv
  <2> QED BY <1>10, <2>1, <2>3, ControlQuiet
<1>14. ASSUME DiscoveryStep \/ \E w \in Watchers : HandleEvents(w) PROVE Inv'
  <2>1. UNCHANGED <<up, ctl, starts, installed, tasks, stop_failed, adding, folders, late>>
    BY <1>14 DEF DiscoveryStep, ShellUnchanged, HandleEvents
  <2>2. ServiceInv' /\ \A g \in Starts : Quiet(service[g], service'[g])
    BY <1>14, ServiceKept
  <2>3. ctl = "clear" \/ ~ up => DOMAIN folders' \subseteq late'
    BY <2>1 DEF FoldersInv
  <2> QED BY <2>1, <2>2, <2>3, ControlQuiet
<1>15. ASSUME WatchingStep \/ UNCHANGED shvars PROVE Inv'
  <2>1. UNCHANGED <<up, ctl, starts, installed, tasks, stop_failed, adding, folders, late, service>>
    BY <1>15 DEF WatchingStep, ShellUnchanged, shvars
  <2>2. ctl = "clear" \/ ~ up => DOMAIN folders' \subseteq late'
    BY <2>1 DEF FoldersInv
  <2> QED BY <1>10, <2>1, <2>2, ControlQuiet
<1> QED BY <1>1, <1>2, <1>3, <1>4, <1>5, <1>6, <1>7, <1>8, <1>9, <1>11, <1>12, <1>13, <1>14, <1>15
        DEF ShellNext, ControlStep, FolderStep

(* What a record of a watcher holds. *)
Watches == [task : {"none", "spawned", "loops", "ended"}, connected : BOOLEAN,
            flag : BOOLEAN, stops : Nat, stopped : BOOLEAN,
            channel : Seq(BOOLEAN), pending : Nat, reported : Nat,
            events : Nat, changes : Nat, sent : Nat]

(* n of the events in channel q are worth a report: the sums over the
   prefixes of q go from 0 to n. *)
Owed(q, n) ==
    \E c \in [0..Len(q) -> Int] :
        /\ c[0] = 0
        /\ c[Len(q)] = n
        /\ \A i \in 1..Len(q) : c[i] = c[i - 1] + Converted(q[i])

(* Until stop is called, what was sent is reported, pending or in the
   channel, and only the end of the notify watcher ends the task. *)
WatchSound(s) ==
    /\ ~ s.stopped => Owed(s.channel, s.sent - s.reported - s.pending)
    /\ s.stops > 0 => s.stopped
    /\ s.task = "loops" /\ ~ s.flag => s.stopped
    /\ s.task = "ended" /\ ~ s.stopped => ~ s.connected /\ s.reported = s.sent

WatcherInv ==
    /\ watcher \in [Watchers -> Watches]
    /\ \A w \in Watchers : WatchSound(watcher[w])

(* An event is worth one report or none. *)
LEMMA ConvertedType == \A k : Converted(k) \in {0, 1}
BY DEF Converted

(* What is owed in an empty channel, after a send and after a receive. *)
LEMMA OwedNothing == Owed(<<>>, 0) /\ \A n : Owed(<<>>, n) => n = 0
<1>1. Len(<<>>) = 0
  OBVIOUS
<1>2. Owed(<<>>, 0)
  <2> DEFINE c == [i \in 0..0 |-> 0]
  <2>1. c \in [0..Len(<<>>) -> Int] /\ c[0] = 0
    BY <1>1
  <2>2. \A i \in 1..Len(<<>>) : c[i] = c[i - 1] + Converted(<<>>[i])
    BY <1>1
  <2> HIDE DEF c
  <2> QED BY <1>1, <2>1, <2>2 DEF Owed
<1>3. ASSUME NEW n, Owed(<<>>, n) PROVE n = 0
  BY <1>1, <1>3 DEF Owed
<1> QED BY <1>2, <1>3

LEMMA OwedAppend ==
    ASSUME NEW q \in Seq(BOOLEAN), NEW n, Owed(q, n), NEW k \in BOOLEAN
    PROVE  Owed(Append(q, k), n + Converted(k))
<1>1. PICK c \in [0..Len(q) -> Int] : c[0] = 0 /\ c[Len(q)] = n
             /\ \A i \in 1..Len(q) : c[i] = c[i - 1] + Converted(q[i])
  BY DEF Owed
<1>2. PICK m \in Nat : m = Len(q)
  OBVIOUS
<1>3. PICK r : r = Append(q, k)
  OBVIOUS
<1>4. Len(r) = m + 1 /\ r[m + 1] = k /\ \A i \in 1..m : r[i] = q[i]
  BY <1>2, <1>3
<1> DEFINE d == [i \in 0..(m + 1) |-> IF i = m + 1 THEN n + Converted(k) ELSE c[i]]
<1>5. n \in Int /\ Converted(k) \in Int /\ \A i \in 0..m : c[i] \in Int
  BY <1>1, <1>2, ConvertedType
<1>6. d \in [0..(m + 1) -> Int] /\ d[m + 1] = n + Converted(k) /\ \A i \in 0..m : d[i] = c[i]
  <2>1. \A i \in 0..(m + 1) : i # m + 1 => i \in 0..m
    BY <1>2
  <2> QED BY <1>2, <1>5, <2>1
<1> HIDE DEF d
<1>7. ASSUME NEW i \in 1..(m + 1) PROVE d[i] = d[i - 1] + Converted(r[i])
  <2>1. CASE i = m + 1
    <3>1. i - 1 = m /\ m \in 0..m
      BY <1>2, <2>1
    <3>2. d[i - 1] = n
      BY <1>1, <1>2, <1>6, <3>1
    <3> QED BY <1>4, <1>6, <2>1, <3>2
  <2>2. CASE i # m + 1
    <3>1. i \in 1..m /\ i \in 0..m /\ i - 1 \in 0..m
      BY <1>2, <1>7, <2>2
    <3>2. c[i] = c[i - 1] + Converted(q[i])
      BY <1>1, <1>2, <3>1
    <3> QED BY <1>4, <1>6, <3>1, <3>2
  <2> QED BY <2>1, <2>2
<1>8. d[0] = 0
  BY <1>1, <1>2, <1>6
<1>9. Owed(r, n + Converted(k))
  BY <1>4, <1>6, <1>7, <1>8 DEF Owed
<1> QED BY <1>3, <1>9

LEMMA OwedTail ==
    ASSUME NEW q \in Seq(BOOLEAN), NEW n, Owed(q, n), q # <<>>
    PROVE  Owed(Tail(q), n - Converted(Head(q)))
<1>1. PICK c \in [0..Len(q) -> Int] : c[0] = 0 /\ c[Len(q)] = n
             /\ \A i \in 1..Len(q) : c[i] = c[i - 1] + Converted(q[i])
  BY DEF Owed
<1>2. PICK m \in Nat : Len(q) = m + 1
  <2>1. Len(q) \in Nat /\ Len(q) # 0
    OBVIOUS
  <2>2. Len(q) - 1 \in Nat /\ Len(q) = (Len(q) - 1) + 1
    BY <2>1
  <2> QED BY <2>2
<1>3. PICK r : r = Tail(q)
  OBVIOUS
<1>4. Len(r) = m /\ \A i \in 1..m : r[i] = q[i + 1]
  BY <1>2, <1>3
<1>5. Head(q) = q[1]
  BY <1>2
<1> DEFINE d == [i \in 0..m |-> c[i + 1] - c[1]]
<1>6. \A i \in 0..(m + 1) : c[i] \in Int
  BY <1>1, <1>2
<1>7. c[1] = Converted(q[1])
  <2>1. c[1] = c[1 - 1] + Converted(q[1])
    BY <1>1, <1>2
  <2> QED BY <1>1, <2>1, ConvertedType
<1>8. d \in [0..m -> Int] /\ \A i \in 0..m : d[i] = c[i + 1] - c[1]
  <2>1. \A i \in 0..m : i + 1 \in 0..(m + 1)
    BY <1>2
  <2>2. 1 \in 0..(m + 1)
    BY <1>2
  <2> QED BY <1>6, <2>1, <2>2
<1> HIDE DEF d
<1>9. ASSUME NEW i \in 1..m PROVE d[i] = d[i - 1] + Converted(r[i])
  <2>1. i \in 0..m /\ i - 1 \in 0..m /\ (i - 1) + 1 = i /\ i + 1 \in 1..(m + 1) /\ (i + 1) - 1 = i
    BY <1>2
  <2>2. c[i + 1] = c[i] + Converted(q[i + 1])
    BY <1>1, <1>2, <2>1
  <2>3. d[i] = c[i + 1] - c[1] /\ d[i - 1] = c[i] - c[1]
    BY <1>8, <2>1
  <2>4. r[i] = q[i + 1]
    BY <1>4
  <2>5. c[1] \in Int /\ c[i] \in Int /\ Converted(q[i + 1]) \in Int
    BY <1>2, <1>6, <2>1, ConvertedType
  <2> QED BY <2>2, <2>3, <2>4, <2>5
<1>10. d[0] = 0
  <2>1. 0 \in 0..m /\ c[1] \in Int
    BY <1>2, <1>6
  <2> QED BY <1>8, <2>1
<1>11. d[m] = n - Converted(Head(q))
  BY <1>1, <1>2, <1>5, <1>7, <1>8
<1>12. Owed(r, n - Converted(Head(q)))
  BY <1>4, <1>8, <1>9, <1>10, <1>11 DEF Owed
<1> QED BY <1>3, <1>12

(* A step that gives one watcher a sound record keeps the table sound. *)
LEMMA WatchUpdated ==
    ASSUME WatcherInv, NEW w, NEW t, watcher' = [watcher EXCEPT ![w] = t],
           w \in Watchers => t \in Watches /\ WatchSound(t)
    PROVE  WatcherInv'
<1>1. CASE w \in Watchers
  <2>1. watcher' \in [Watchers -> Watches]
    BY <1>1 DEF WatcherInv
  <2>2. watcher'[w] = t /\ \A v \in Watchers \ {w} : watcher'[v] = watcher[v]
    BY <1>1 DEF WatcherInv
  <2>3. \A v \in Watchers : WatchSound(watcher'[v])
    BY <1>1, <2>2 DEF WatcherInv
  <2> QED BY <2>1, <2>3 DEF WatcherInv, WatchSound
<1>2. CASE w \notin Watchers
  <2>1. watcher' = watcher
    BY <1>2 DEF WatcherInv
  <2> QED BY <2>1 DEF WatcherInv, WatchSound
<1> QED BY <1>1, <1>2

(* The steps of the batching task, of stop and of the notify watcher. *)
LEMMA WatchBegins ==
    ASSUME WatcherInv, NEW w \in Watchers, BeginWatch(w)
    PROVE  WatcherInv'
<1> DEFINE t == [watcher[w] EXCEPT !.task = "spawned", !.connected = TRUE]
<1>1. watcher[w] \in Watches /\ WatchSound(watcher[w]) /\ watcher[w].task = "none"
  BY DEF WatcherInv, BeginWatch
<1>2. watcher' = [watcher EXCEPT ![w] = t]
  BY <1>1 DEF BeginWatch, WatcherInv, Watches
<1>3. t \in Watches /\ t.task = "spawned" /\ t.stopped = watcher[w].stopped /\ t.stops = watcher[w].stops
      /\ t.channel = watcher[w].channel /\ t.sent = watcher[w].sent /\ t.reported = watcher[w].reported
      /\ t.pending = watcher[w].pending
  BY <1>1 DEF Watches
<1> HIDE DEF t
<1>4. WatchSound(t)
  BY <1>1, <1>3 DEF WatchSound
<1> QED BY <1>2, <1>3, <1>4, WatchUpdated

LEMMA WatchCut ==
    ASSUME WatcherInv, NEW w, EndWatch(w)
    PROVE  WatcherInv'
<1>1. CASE w \in Watchers
  <2> DEFINE t == [watcher[w] EXCEPT !.connected = FALSE]
  <2>1. watcher[w] \in Watches /\ WatchSound(watcher[w])
    BY <1>1 DEF WatcherInv
  <2>2. watcher' = [watcher EXCEPT ![w] = t]
    BY <1>1, <2>1 DEF EndWatch, WatcherInv, Watches
  <2>3. t \in Watches /\ t.task = watcher[w].task /\ t.stopped = watcher[w].stopped /\ t.stops = watcher[w].stops
        /\ t.channel = watcher[w].channel /\ t.sent = watcher[w].sent /\ t.reported = watcher[w].reported
        /\ t.pending = watcher[w].pending /\ t.flag = watcher[w].flag /\ t.connected = FALSE
    BY <2>1 DEF Watches
  <2> HIDE DEF t
  <2>4. WatchSound(t)
    BY <2>1, <2>3 DEF WatchSound
  <2> QED BY <2>2, <2>3, <2>4, WatchUpdated
<1>2. CASE w \notin Watchers
  <2>1. watcher' = watcher
    BY <1>2 DEF WatcherInv, EndWatch
  <2> QED BY <2>1 DEF WatcherInv, WatchSound
<1> QED BY <1>1, <1>2

LEMMA WatchEvent ==
    ASSUME WatcherInv, NEW w \in Watchers, NEW kept \in BOOLEAN, FileEvent(w, kept)
    PROVE  WatcherInv'
<1> DEFINE s == watcher[w]
           live == s.connected
           t == [s EXCEPT !.events = @ + 1, !.changes = @ + Converted(kept),
                          !.sent = IF live THEN @ + Converted(kept) ELSE @,
                          !.channel = IF live THEN Append(@, kept) ELSE @]
<1>1. s \in Watches /\ WatchSound(s)
  BY DEF WatcherInv
<1>2. watcher' = [watcher EXCEPT ![w] = t]
  BY <1>1 DEF FileEvent, WatcherInv, Watches
<1>3. PICK n \in {0, 1} : n = Converted(kept)
  BY ConvertedType
<1>4. PICK q \in Seq(BOOLEAN) : q = s.channel
  BY <1>1 DEF Watches
<1>5. PICK sent \in Nat, reported \in Nat, due \in Nat :
          sent = s.sent /\ reported = s.reported /\ due = s.pending
  BY <1>1 DEF Watches
<1>a. PICK events \in Nat, changes \in Nat : events = s.events /\ changes = s.changes
  BY <1>1 DEF Watches
<1>c. n \in Nat
  OBVIOUS
<1>b. sent + n \in Nat /\ events + 1 \in Nat /\ changes + n \in Nat
  BY <1>5, <1>a, <1>c
<1>6. Append(q, kept) \in Seq(BOOLEAN)
  BY <1>4
<1>7. t \in Watches /\ t.task = s.task /\ t.connected = s.connected /\ t.flag = s.flag /\ t.stops = s.stops
      /\ t.stopped = s.stopped /\ t.reported = reported /\ t.pending = due
      /\ t.sent = (IF live THEN sent + n ELSE sent) /\ t.channel = (IF live THEN Append(q, kept) ELSE q)
  BY <1>1, <1>3, <1>4, <1>5, <1>6, <1>a, <1>b DEF Watches
<1> HIDE DEF t
<1>8. ~ t.stopped => Owed(t.channel, t.sent - t.reported - t.pending)
  <2> SUFFICES ASSUME ~ t.stopped PROVE Owed(t.channel, t.sent - t.reported - t.pending)
    OBVIOUS
  <2>1. Owed(q, sent - reported - due)
    BY <1>1, <1>4, <1>5, <1>7 DEF WatchSound
  <2>2. CASE live
    <3>1. Owed(Append(q, kept), (sent - reported - due) + n)
      BY <1>3, <2>1, OwedAppend
    <3>2. (sent - reported - due) + n = (sent + n) - reported - due
      BY <1>c
    <3>3. t.channel = Append(q, kept) /\ t.sent - t.reported - t.pending = (sent + n) - reported - due
      BY <1>7, <2>2
    <3> HIDE DEF live
    <3> QED BY <3>1, <3>2, <3>3
  <2>3. CASE ~ live
    BY <1>7, <2>1, <2>3
  <2> QED BY <2>2, <2>3
<1>9. WatchSound(t)
  <2>1. t.stops > 0 => t.stopped
    BY <1>1, <1>7 DEF WatchSound
  <2>2. t.task = "loops" /\ ~ t.flag => t.stopped
    BY <1>1, <1>7, Zenon DEF WatchSound
  <2>3. t.task = "ended" /\ ~ t.stopped => ~ t.connected /\ t.reported = t.sent
    BY <1>1, <1>5, <1>7 DEF WatchSound
  <2> QED BY <1>8, <2>1, <2>2, <2>3, Zenon DEF WatchSound
<1> QED BY <1>2, <1>7, <1>9, WatchUpdated

LEMMA WatchTaskStep ==
    ASSUME WatcherInv, NEW w \in Watchers, WatcherStep(w)
    PROVE  WatcherInv'
<1> DEFINE s == watcher[w]
<1>1. s \in Watches /\ WatchSound(s)
  BY DEF WatcherInv
<1>2. PICK q \in Seq(BOOLEAN) : q = s.channel
  BY <1>1 DEF Watches
<1>3. PICK sent \in Nat, reported \in Nat, due \in Nat, stops \in Nat :
          sent = s.sent /\ reported = s.reported /\ due = s.pending /\ stops = s.stops
  BY <1>1 DEF Watches
<1>4. CASE TaskBegins(w)
  <2> DEFINE t == [s EXCEPT !.task = "loops", !.flag = TRUE]
  <2>1. watcher' = [watcher EXCEPT ![w] = t]
    BY <1>1, <1>4 DEF TaskBegins, WatcherInv, Watches
  <2>2. t \in Watches /\ t.task = "loops" /\ t.flag /\ t.stops = s.stops /\ t.stopped = s.stopped
        /\ t.channel = s.channel /\ t.sent = s.sent /\ t.reported = s.reported /\ t.pending = s.pending
    BY <1>1 DEF Watches
  <2> HIDE DEF t
  <2>3. WatchSound(t)
    BY <1>1, <2>2 DEF WatchSound
  <2> QED BY <2>1, <2>2, <2>3, WatchUpdated
<1>5. CASE TaskReceives(w)
  <2> DEFINE n == Converted(Head(q))
             t == [s EXCEPT !.pending = due + n, !.channel = Tail(q)]
  <2>1. q # <<>> /\ s.task = "loops" /\ s.flag
    BY <1>2, <1>5 DEF TaskReceives
  <2>2. watcher' = [watcher EXCEPT ![w] = t]
    BY <1>1, <1>2, <1>3, <1>5 DEF TaskReceives, WatcherInv, Watches
  <2>3. n \in Nat /\ Tail(q) \in Seq(BOOLEAN)
    <3>1. n \in {0, 1}
      BY ConvertedType
    <3>2. n \in Nat
      BY <3>1
    <3>3. Tail(q) \in Seq(BOOLEAN)
      BY <2>1
    <3> QED BY <3>2, <3>3
  <2> HIDE DEF n
  <2>4. due + n \in Nat
    BY <1>3, <2>3
  <2>5. t \in Watches /\ t.task = "loops" /\ t.flag = s.flag /\ t.stops = s.stops /\ t.stopped = s.stopped
        /\ t.channel = Tail(q) /\ t.sent = sent /\ t.reported = reported /\ t.pending = due + n
    BY <1>1, <1>3, <2>1, <2>3, <2>4 DEF Watches
  <2> HIDE DEF t
  <2>6. ~ t.stopped => Owed(t.channel, t.sent - t.reported - t.pending)
    <3> SUFFICES ASSUME ~ t.stopped PROVE Owed(t.channel, t.sent - t.reported - t.pending)
      OBVIOUS
    <3>1. Owed(q, sent - reported - due)
      BY <1>1, <1>2, <1>3, <2>5 DEF WatchSound
    <3>2. Owed(Tail(q), (sent - reported - due) - n)
      BY <2>1, <3>1, OwedTail DEF n
    <3>3. (sent - reported - due) - n = sent - reported - (due + n)
      BY <2>3
    <3> QED BY <2>5, <3>2, <3>3
  <2>7. WatchSound(t)
    <3>1. t.stops > 0 => t.stopped
      BY <1>1, <2>5 DEF WatchSound
    <3>2. t.flag /\ t.task # "ended"
      BY <2>1, <2>5
    <3> QED BY <2>6, <3>1, <3>2 DEF WatchSound
  <2> QED BY <2>2, <2>5, <2>7, WatchUpdated
<1>6. CASE TaskTimesOut(w)
  <2> DEFINE t == [s EXCEPT !.reported = reported + due, !.pending = 0]
  <2>1. s.task = "loops" /\ s.flag
    BY <1>6 DEF TaskTimesOut
  <2>2. watcher' = [watcher EXCEPT ![w] = t]
    BY <1>1, <1>3, <1>6 DEF TaskTimesOut, WatcherInv, Watches
  <2>3. reported + due \in Nat
    BY <1>3
  <2>4. t \in Watches /\ t.task = "loops" /\ t.flag = s.flag /\ t.stops = s.stops /\ t.stopped = s.stopped
        /\ t.channel = q /\ t.sent = sent /\ t.reported = reported + due /\ t.pending = 0
    BY <1>1, <1>2, <1>3, <2>1, <2>3 DEF Watches
  <2> HIDE DEF t
  <2>5. ~ t.stopped => Owed(t.channel, t.sent - t.reported - t.pending)
    <3> SUFFICES ASSUME ~ t.stopped PROVE Owed(t.channel, t.sent - t.reported - t.pending)
      OBVIOUS
    <3>1. Owed(q, sent - reported - due)
      BY <1>1, <1>2, <1>3, <2>4 DEF WatchSound
    <3>2. sent - reported - due = sent - (reported + due) - 0
      OBVIOUS
    <3> QED BY <2>4, <3>1, <3>2
  <2>6. WatchSound(t)
    <3>1. t.stops > 0 => t.stopped
      BY <1>1, <2>4 DEF WatchSound
    <3>2. t.flag /\ t.task # "ended"
      BY <2>1, <2>4
    <3> QED BY <2>5, <3>1, <3>2 DEF WatchSound
  <2> QED BY <2>2, <2>4, <2>6, WatchUpdated
<1>7. CASE TaskEnds(w)
  <2> DEFINE t == [s EXCEPT !.task = "ended", !.reported = reported + due, !.pending = 0, !.channel = <<>>]
  <2>1. s.task = "loops" /\ (~ s.flag \/ (q = <<>> /\ ~ s.connected))
    BY <1>2, <1>7 DEF TaskEnds
  <2>2. watcher' = [watcher EXCEPT ![w] = t]
    BY <1>1, <1>3, <1>7 DEF TaskEnds, WatcherInv, Watches
  <2>3. reported + due \in Nat /\ <<>> \in Seq(BOOLEAN)
    OBVIOUS
  <2>4. t \in Watches /\ t.task = "ended" /\ t.flag = s.flag /\ t.stops = s.stops /\ t.stopped = s.stopped
        /\ t.connected = s.connected
        /\ t.channel = <<>> /\ t.sent = sent /\ t.reported = reported + due /\ t.pending = 0
    BY <1>1, <1>3, <2>3 DEF Watches
  <2> HIDE DEF t
  <2>5. ~ t.stopped => ~ t.connected /\ t.reported = t.sent
    <3> SUFFICES ASSUME ~ t.stopped PROVE ~ t.connected /\ t.reported = t.sent
      OBVIOUS
    <3>1. s.flag
      BY <1>1, <2>1, <2>4, Zenon DEF WatchSound
    <3>2. q = <<>> /\ ~ s.connected
      BY <2>1, <3>1
    <3>3. Owed(<<>>, sent - reported - due)
      BY <1>1, <1>2, <1>3, <2>4, <3>2 DEF WatchSound
    <3>4. sent - reported - due = 0
      BY <3>3, OwedNothing
    <3>5. sent = reported + due
      BY <3>4
    <3> QED BY <2>4, <3>2, <3>5
  <2>6. ~ t.stopped => Owed(t.channel, t.sent - t.reported - t.pending)
    <3> SUFFICES ASSUME ~ t.stopped PROVE Owed(t.channel, t.sent - t.reported - t.pending)
      OBVIOUS
    <3>1. t.sent - t.reported - t.pending = 0
      BY <1>3, <2>4, <2>5
    <3> QED BY <2>4, <3>1, OwedNothing
  <2>7. WatchSound(t)
    <3>1. t.stops > 0 => t.stopped
      BY <1>1, <2>4 DEF WatchSound
    <3>2. t.task # "loops"
      BY <2>4
    <3> QED BY <2>5, <2>6, <3>1, <3>2, Zenon DEF WatchSound
  <2> QED BY <2>2, <2>4, <2>7, WatchUpdated
<1>8. CASE StopTask(w)
  <2> DEFINE t == [s EXCEPT !.stops = stops - 1, !.flag = FALSE]
  <2>1. stops > 0 /\ s.stopped
    BY <1>1, <1>3, <1>8 DEF StopTask, WatchSound
  <2>2. watcher' = [watcher EXCEPT ![w] = t]
    BY <1>1, <1>3, <1>8 DEF StopTask, WatcherInv, Watches
  <2>3. stops - 1 \in Nat
    BY <1>3, <2>1
  <2>4. t \in Watches /\ t.stopped = s.stopped
    BY <1>1, <2>3 DEF Watches
  <2> HIDE DEF t
  <2>5. WatchSound(t)
    BY <2>1, <2>4, Zenon DEF WatchSound
  <2> QED BY <2>2, <2>4, <2>5, WatchUpdated
<1> QED BY <1>4, <1>5, <1>6, <1>7, <1>8 DEF WatcherStep

(* stop of the daemon stops all watchers it knows at once. *)
LEMMA WatchersStopped ==
    ASSUME WatcherInv, NEW ws, watcher' = AllStopped(ws)
    PROVE  WatcherInv'
<1>1. ASSUME NEW v \in Watchers PROVE watcher'[v] \in Watches /\ WatchSound(watcher'[v])
  <2> DEFINE s == watcher[v]
             t == [s EXCEPT !.stops = @ + 1, !.stopped = TRUE]
  <2>1. s \in Watches /\ WatchSound(s)
    BY DEF WatcherInv
  <2>a. PICK n \in Nat : s.stops + 1 = n
    BY <2>1 DEF Watches
  <2>2. t \in Watches /\ t.stopped
    <3>1. t = [s EXCEPT !.stops = n, !.stopped = TRUE]
      BY <2>a
    <3> HIDE DEF t
    <3> QED BY <2>1, <3>1 DEF Watches
  <2>3. watcher'[v] = IF v \in ws THEN t ELSE s
    BY DEF AllStopped
  <2> HIDE DEF t, s
  <2>4. WatchSound(t)
    BY <2>2, Zenon DEF WatchSound
  <2> QED BY <2>1, <2>2, <2>3, <2>4
<1>2. watcher' \in [Watchers -> Watches]
  <2>1. watcher' = [v \in Watchers |-> watcher'[v]]
    BY DEF AllStopped
  <2> QED BY <1>1, <2>1
<1> QED BY <1>1, <1>2 DEF WatcherInv, WatchSound

(* No step of the shell disturbs the invariant of the watchers. *)
LEMMA WatchersKept ==
    ASSUME WatcherInv, [ShellNext]_shvars
    PROVE  WatcherInv'
<1>1. ASSUME UNCHANGED watcher PROVE WatcherInv'
  BY <1>1 DEF WatcherInv, WatchSound
<1>2. ASSUME ControlStep PROVE WatcherInv'
  <2>1. CASE StopWatchers
    BY <2>1, WatchersStopped DEF StopWatchers
  <2>2. CASE ~ StopWatchers
    BY <1>1, <1>2, <2>2 DEF ControlStep, start, start_quic_server, start_discovery_service, Install, stop,
       StopDiscovery, ShutdownDiscovery, ClearState
  <2> QED BY <2>1, <2>2
<1>3. ASSUME FolderStep PROVE WatcherInv'
  <2>1. CASE FolderAdded
    BY <2>1, WatchCut DEF FolderAdded
  <2>2. ASSUME NEW w \in Watchers, NEW r, add_sync_folder(w, r) PROVE WatcherInv'
    BY <2>2, WatchBegins DEF add_sync_folder
  <2>3. ASSUME NEW r, remove_sync_folder(r) PROVE WatcherInv'
    BY <1>1, <2>3 DEF remove_sync_folder
  <2>4. ASSUME NEW w, HandleEvents(w) PROVE WatcherInv'
    BY <1>1, <2>4 DEF HandleEvents
  <2> QED BY <1>3, <2>1, <2>2, <2>3, <2>4 DEF FolderStep
<1>4. ASSUME WatchingStep PROVE WatcherInv'
  BY <1>4, WatchTaskStep, WatchEvent DEF WatchingStep
<1>5. ASSUME DiscoveryStep \/ UNCHANGED shvars PROVE WatcherInv'
  BY <1>1, <1>5 DEF DiscoveryStep, shvars
<1> QED BY <1>2, <1>3, <1>4, <1>5 DEF ShellNext

(* A daemon that has not been started yet. *)
LEMMA ShellStarts == ShellInit => ServiceInv /\ ControlInv /\ DiscoveryInv /\ FoldersInv /\ WatcherInv
<1> SUFFICES ASSUME ShellInit PROVE ServiceInv /\ ControlInv /\ DiscoveryInv /\ FoldersInv /\ WatcherInv
  OBVIOUS
<1>1. NewService \in Services /\ KnowsFew(NewService)
  <2>1. NoPeers \in [Neighbours -> {"unknown", "fresh", "old"}] /\ \A n \in Neighbours : NoPeers[n] = "unknown"
    BY DEF NoPeers
  <2> DEFINE none == NoPeers
  <2>2. NewService = [flag |-> FALSE, registered |-> FALSE, browser |-> "none", event |-> NoEvent,
                     peers |-> none, outlived |-> FALSE]
    BY DEF NewService
  <2>3. none \in [Neighbours -> {"unknown", "fresh", "old"}]
    BY <2>1
  <2>4. NewService.peers = NoPeers /\ NewService.browser = "none" /\ NewService.outlived = FALSE
    BY <2>2
  <2> HIDE DEF none
  <2>5. NewService \in Services
    BY <2>2, <2>3 DEF Services
  <2>6. KnowsFew(NewService)
    BY <2>1, <2>4 DEF KnowsFew
  <2> QED BY <2>5, <2>6
<1>2. ServiceInv
  <2>1. service = [g \in Starts |-> NewService]
    BY DEF ShellInit, DiscoveryInit
  <2> QED BY <1>1, <2>1 DEF ServiceInv
<1>3. up = FALSE /\ ctl = "none" /\ starts = 0 /\ installed = 0 /\ tasks = 0 /\ adding = NotAdding /\ folders = <<>>
      /\ stop_failed = FALSE /\ late = {}
  BY DEF ShellInit
<1>4. MaxStarts \in Nat
  BY DiscoveryAssumption
<1>5. ControlInv
  <2>1. ctl = "none" /\ ctl \notin Stopping /\ ctl \notin {"serve", "advertise", "install"}
    BY <1>3 DEF Stopping
  <2>2. up \in BOOLEAN /\ stop_failed \in BOOLEAN /\ ~ up
    BY <1>3
  <2>3. starts \in 0..MaxStarts /\ tasks \in Nat /\ tasks <= 1
    BY <1>3, <1>4
  <2> QED BY <1>3, <2>1, <2>2, <2>3, Zenon DEF ControlInv
<1>6. DiscoveryInv
  <2>1. \A g \in Starts : service[g].flag = FALSE
    BY DEF ShellInit, DiscoveryInit, NewService
  <2> QED BY <1>3, <2>1 DEF DiscoveryInv
<1>7. FoldersInv
  BY <1>3 DEF FoldersInv
<1>8. NewWatcher \in Watches /\ NewWatcher.stops = 0 /\ NewWatcher.task = "none"
      /\ NewWatcher.channel = <<>> /\ NewWatcher.sent - NewWatcher.reported - NewWatcher.pending = 0
  BY DEF NewWatcher, Watches
<1>9. WatchSound(NewWatcher)
  BY <1>8, OwedNothing DEF WatchSound
<1>10. WatcherInv
  <2>1. watcher = [w \in Watchers |-> NewWatcher]
    BY DEF ShellInit, WatcherInit
  <2> QED BY <1>8, <1>9, <2>1 DEF WatcherInv
<1> QED BY <1>2, <1>5, <1>6, <1>7, <1>10

(* A daemon that says it runs has all its parts and looks for neighbours, a
   stopped one keeps only the folders added while it stopped, a stopped
   discovery knows nobody unless its task was at work when stop cleared the
   map, and a watcher nobody stopped has reported all it was sent when its
   task ends, whichever calls overlap or fail. *)
THEOREM ShellStaysSound == ShellSpec => []ShellSound
<1> DEFINE Inv == ServiceInv /\ ControlInv /\ DiscoveryInv /\ FoldersInv /\ WatcherInv
<1>1. ShellInit => Inv
  BY ShellStarts
<1>2. Inv /\ [ShellNext]_shvars => Inv'
  <2> SUFFICES ASSUME Inv, [ShellNext]_shvars PROVE Inv'
    OBVIOUS
  <2>1. (ServiceInv /\ ControlInv /\ DiscoveryInv /\ FoldersInv)'
    BY ControlKept
  <2>2. WatcherInv'
    BY WatchersKept
  <2> QED BY <2>1, <2>2
<1>3. Inv => ShellSound
  <2> SUFFICES ASSUME Inv PROVE ShellSound
    OBVIOUS
  <2>1. RunningIsWhole
    <3>1. up => installed # 0 /\ tasks >= 1
      BY DEF ControlInv, Starts
    <3>2. up /\ ctl = "none" => service[installed].flag
      BY DEF DiscoveryInv
    <3>3. up /\ ctl = "none" /\ service[installed].browser \in AtWork \cup {"ended"} => stop_failed
      BY DEF DiscoveryInv, Aborted, AtWork
    <3>4. ~ AnyPort => tasks <= 1
      BY DEF ControlInv
    <3>5. ~ up /\ ctl = "none" => DOMAIN folders \subseteq late
      BY DEF FoldersInv
    <3> QED BY <3>1, <3>2, <3>3, <3>4, <3>5 DEF RunningIsWhole
  <2>2. StoppedForgets
    <3>1. ASSUME NEW g \in Starts, ~ service[g].flag, ~ service[g].outlived PROVE Known(g) = {}
      <4>1. service[g].peers = NoPeers
        BY <3>1 DEF ServiceInv, KnowsFew
      <4> QED BY <4>1 DEF Known, NoPeers
    <3> QED BY <3>1 DEF StoppedForgets
  <2>3. SentIsReported
    BY DEF SentIsReported, WatcherInv, WatchSound
  <2> QED BY <2>1, <2>2, <2>3 DEF ShellSound
<1> QED BY <1>1, <1>2, <1>3, PTL DEF ShellSpec

(***************************************************************************)
(* The folder watcher of the index.                                        *)
(***************************************************************************)
(* The watcher alone. *)
FolderSpec == FolderInit /\ [][FolderNext]_wvars

(* What the two parts of a queue hold. *)
LEMMA SplitFacts ==
    ASSUME NEW S, NEW q \in Seq(S), NEW n \in 0..Len(q)
    PROVE  /\ SubSeq(q, 1, n) \in Seq(S) /\ Len(SubSeq(q, 1, n)) = n
           /\ SubSeq(q, n + 1, Len(q)) \in Seq(S) /\ Len(SubSeq(q, n + 1, Len(q))) = Len(q) - n
           /\ \A i \in 1..n : SubSeq(q, 1, n)[i] = q[i]
           /\ \A i \in 1..(Len(q) - n) : SubSeq(q, n + 1, Len(q))[i] = q[n + i]
  OBVIOUS

(* The full batches among n events. *)
LEMMA FullBatches ==
    ASSUME NEW n \in Nat, NEW b \in Nat \ {0}
    PROVE  (n \div b) * b \in 0..n
  OBVIOUS

(* SetToSeq lists all elements of a finite set. *)
LEMMA Listed ==
    ASSUME NEW S, IsFiniteSet(S)
    PROVE  /\ SetToSeq(S) \in Seq(S)
           /\ \A x \in S : \E i \in 1..Len(SetToSeq(S)) : SetToSeq(S)[i] = x
<1>1. PICK n \in Nat : n = Cardinality(S)
  BY FS_CardinalityType
<1>2. \E f \in [1..n -> S] : IsInjective(f)
  BY <1>1, FS_CardinalityType DEF ExistsBijection, Bijection, Injection, IsInjective
<1>3. PICK f \in [1..n -> S] : f = SetToSeq(S) /\ IsInjective(f)
  BY <1>1, <1>2 DEF SetToSeq
<1>4. f \in Injection(1..n, S)
  BY <1>3 DEF Injection
<1>5. Cardinality(1..n) = Cardinality(S)
  BY <1>1, FS_Interval
<1>6. f \in Surjection(1..n, S)
  BY <1>4, <1>5, FS_Injection
<1>7. \A x \in S : \E i \in 1..n : f[i] = x
  BY <1>6 DEF Surjection
<1>8. f \in Seq(S) /\ Len(f) = n
  BY <1>3
<1> QED BY <1>3, <1>7, <1>8

(* A bounded set of positions has a greatest. *)
LEMMA Greatest ==
    ASSUME NEW n \in Nat, NEW S \in SUBSET (1..n), S # {}
    PROVE  /\ Max(S) \in S /\ \A y \in S : Max(S) >= y
           /\ \A x \in S : (\A y \in S : x >= y) => x = Max(S)
<1> DEFINE R == {k \in Nat : n - k \in S}
<1>1. R # {}
  <2>1. PICK y \in S : TRUE
    OBVIOUS
  <2>2. n - y \in Nat /\ n - (n - y) = y
    OBVIOUS
  <2> QED BY <2>2
<1>2. PICK m \in R : \A k \in R : ~ (<<k, m>> \in OpToRel(<, Nat))
  BY <1>1, WFMin, NatLessThanWellFounded, Zenon
<1>3. \A k \in R : ~ (k < m)
  BY <1>2 DEF OpToRel
<1>4. n - m \in S /\ m \in Nat
  OBVIOUS
<1>5. ASSUME NEW y \in S PROVE n - m >= y
  <2>1. n - y \in Nat /\ n - (n - y) = y
    OBVIOUS
  <2>2. n - y \in R
    BY <2>1
  <2>3. ~ (n - y < m)
    BY <1>3, <2>2
  <2> QED BY <1>4, <2>1, <2>3
<1>6. \E x \in S : \A y \in S : x >= y
  BY <1>4, <1>5
<1>7. Max(S) \in S /\ \A y \in S : Max(S) >= y
  BY <1>6 DEF Max
<1>8. ASSUME NEW x \in S, \A y \in S : x >= y PROVE x = Max(S)
  <2>1. PICK y \in S : y = Max(S)
    BY <1>7
  <2>2. x >= y /\ y >= x
    BY <1>7, <1>8, <2>1
  <2>3. x \in 1..n /\ y \in 1..n
    BY <1>8, <2>1
  <2>4. x = y
    BY <2>2, <2>3
  <2> QED BY <2>1, <2>4
<1> QED BY <1>7, <1>8

Kinds == {"Created", "Modified", "AttributeChanged", "Rescan", "Removed", "Renamed"}

Events == [path : WatchedFiles, kind : Kinds]

FolderTypes ==
    /\ watched \in BOOLEAN /\ polling \in BOOLEAN /\ missed \in BOOLEAN
    /\ fs_channel \in Seq(Events) /\ batch \in Seq(Events) /\ forwarded \in Seq(Events)
    /\ DOMAIN debounced \subseteq WatchedFiles
    /\ debounced \in [DOMAIN debounced -> [kind : Kinds, ready : BOOLEAN]]
    /\ version \in [WatchedFiles -> Nat] /\ rows \in [WatchedFiles -> Nat]
    /\ count \in Nat /\ owed \subseteq WatchedFiles

(* Events added to a queue of events: c is q followed by e. *)
Appended(c, q, e, n, k) ==
    /\ c \in Seq(Events) /\ Len(c) = n + k
    /\ \A i \in 1..n : c[i] = q[i]
    /\ \A i \in 1..k : c[n + i] = e[i]

LEMMA EventsAdded ==
    ASSUME NEW q \in Seq(Events), NEW e \in Seq(Events),
           NEW n \in Nat, NEW k \in Nat, Len(q) = n, Len(e) = k
    PROVE  Appended(q \o e, q, e, n, k)
  BY DEF Appended

(* The last of events that is of f makes the indexer scan. *)
ScanLast(events, f) ==
    \E i \in 1..Len(events) :
        /\ events[i].path = f /\ events[i].kind # "Removed"
        /\ \A j \in 1..Len(events) : events[j].path = f => j <= i

NoneOf(events, f) == \A i \in 1..Len(events) : events[i].path # f

(* Some of events, whatever its file, makes the indexer scan. *)
SomeScan(events) == \E i \in 1..Len(events) : events[i].kind # "Removed"

(* A scan is coming that was or will be begun after the last change of f. *)
Coming(f) ==
    \/ ScanLast(fs_channel, f)
    \/ NoneOf(fs_channel, f) /\ f \in DOMAIN debounced /\ debounced[f].kind # "Removed"
    \/ SomeScan(batch)
    \/ SomeScan(forwarded)

NothingForgotten ==
    watched /\ ~ missed =>
        \A f \in owed \ IgnoredFiles :
            version[f] # 0 /\ rows[f] # version[f] => Coming(f)

FolderInv ==
    /\ FolderTypes
    /\ ~ watched => owed = {}
    /\ NothingForgotten

(* Scans stay where the queues that hold them go. *)
LEMMA ScansAppended ==
    ASSUME NEW q \in Seq(Events), NEW e \in Seq(Events)
    PROVE  /\ q \o e \in Seq(Events)
           /\ SomeScan(q) \/ SomeScan(e) => SomeScan(q \o e)
<1>1. PICK n \in Nat, k \in Nat : Len(q) = n /\ Len(e) = k
  OBVIOUS
<1>2. Appended(q \o e, q, e, n, k)
  BY <1>1, EventsAdded
<1>3. PICK c : c = q \o e
  OBVIOUS
<1>4. /\ c \in Seq(Events) /\ Len(c) = n + k
      /\ \A i \in 1..n : c[i] = q[i]
      /\ \A i \in 1..k : c[n + i] = e[i]
  BY <1>2, <1>3 DEF Appended
<1>5. ASSUME SomeScan(q) PROVE SomeScan(c)
  <2>1. PICK i \in 1..n : q[i].kind # "Removed"
    BY <1>1, <1>5 DEF SomeScan
  <2>2. i \in 1..(n + k)
    OBVIOUS
  <2> QED BY <1>4, <2>1, <2>2 DEF SomeScan
<1>6. ASSUME SomeScan(e) PROVE SomeScan(c)
  <2>1. PICK i \in 1..k : e[i].kind # "Removed"
    BY <1>1, <1>6 DEF SomeScan
  <2>2. n + i \in 1..(n + k)
    OBVIOUS
  <2> QED BY <1>4, <2>1, <2>2 DEF SomeScan
<1> QED BY <1>3, <1>4, <1>5, <1>6

LEMMA ScansSplit ==
    ASSUME NEW q \in Seq(Events), NEW m \in 0..Len(q)
    PROVE  /\ SubSeq(q, 1, m) \in Seq(Events) /\ SubSeq(q, m + 1, Len(q)) \in Seq(Events)
           /\ SomeScan(q) => SomeScan(SubSeq(q, 1, m)) \/ SomeScan(SubSeq(q, m + 1, Len(q)))
<1>1. PICK n \in Nat : Len(q) = n
  OBVIOUS
<1>2. PICK u, v : u = SubSeq(q, 1, m) /\ v = SubSeq(q, m + 1, Len(q))
  OBVIOUS
<1>3. /\ u \in Seq(Events) /\ Len(u) = m /\ v \in Seq(Events) /\ Len(v) = n - m
      /\ \A i \in 1..m : u[i] = q[i]
      /\ \A i \in 1..(n - m) : v[i] = q[m + i]
  BY <1>1, <1>2, SplitFacts
<1>4. ASSUME SomeScan(q) PROVE SomeScan(u) \/ SomeScan(v)
  <2>1. PICK i \in 1..n : q[i].kind # "Removed"
    BY <1>1, <1>4 DEF SomeScan
  <2>2. CASE i <= m
    <3>1. i \in 1..m
      BY <1>1, <2>2
    <3> QED BY <1>3, <2>1, <3>1 DEF SomeScan
  <2>3. CASE ~ (i <= m)
    <3>1. PICK j \in 1..(n - m) : m + j = i
      <4>1. i - m \in 1..(n - m) /\ m + (i - m) = i
        BY <1>1, <2>3
      <4> QED BY <4>1
    <3>2. v[j] = q[i]
      BY <1>3, <3>1
    <3> QED BY <1>3, <2>1, <3>2 DEF SomeScan
  <2> QED BY <2>2, <2>3
<1> QED BY <1>2, <1>3, <1>4

LEMMA ScansFollow ==
    ASSUME NEW q \in Seq(Events), q # <<>>
    PROVE  /\ Tail(q) \in Seq(Events)
           /\ Head(q).kind = "Removed" /\ SomeScan(q) => SomeScan(Tail(q))
<1>1. PICK n \in Nat : Len(q) = n
  OBVIOUS
<1>0. PICK t : t = Tail(q)
  OBVIOUS
<1>2. /\ t \in Seq(Events) /\ Len(t) = n - 1 /\ Head(q) = q[1]
      /\ \A i \in 1..(n - 1) : t[i] = q[i + 1]
  BY <1>1, <1>0
<1>3. ASSUME q[1].kind = "Removed", SomeScan(q) PROVE SomeScan(t)
  <2>1. PICK i \in 1..n : q[i].kind # "Removed"
    BY <1>1, <1>3 DEF SomeScan
  <2>2. i # 1
    BY <1>3, <2>1
  <2>3. i - 1 \in 1..(n - 1) /\ (i - 1) + 1 = i
    BY <2>2
  <2> QED BY <1>2, <2>1, <2>3 DEF SomeScan
<1> QED BY <1>0, <1>2, <1>3

(* A change of the folder that notify reports for the files fs. *)
LEMMA FolderChanged ==
    ASSUME FolderInv, NEW found \in [WatchedFiles -> Nat], NEW fs \in Seq(WatchedFiles),
           NEW kind \in Kinds, FolderChange(found, fs, kind),
           \A i, j \in 1..Len(fs) : fs[i] = fs[j] => i = j,
           kind = "Removed" => \A i \in 1..Len(fs) : found[fs[i]] = 0,
           \A g \in WatchedFiles : \/ \E i \in 1..Len(fs) : fs[i] = g
                                   \/ found[g] = version[g] \/ found[g] = 0
    PROVE  FolderInv'
<1> USE DEF FolderInv
<1>1. UNCHANGED <<watched, polling, debounced, batch, forwarded, rows, missed>>
      /\ version' = found /\ count' = count + 1 /\ Notified(fs, kind)
  BY DEF FolderChange
<1>2. CASE ~ watched
  <2>1. UNCHANGED <<fs_channel, owed>> /\ owed = {}
    BY <1>1, <1>2 DEF Notified
  <2>2. FolderTypes'
    BY <1>1, <2>1 DEF FolderTypes
  <2>3. NothingForgotten'
    BY <1>1, <1>2 DEF NothingForgotten
  <2> QED BY <1>1, <2>1, <2>2, <2>3
<1>3. CASE watched
  <2> DEFINE es == [i \in 1..Len(fs) |-> [path |-> fs[i], kind |-> kind]]
  <2>1. fs_channel' = fs_channel \o es /\ owed' = owed \cup ToSet(fs)
    BY <1>1, <1>3 DEF Notified
  <2>2. es \in Seq(Events) /\ Len(es) = Len(fs)
        /\ \A i \in 1..Len(fs) : es[i].path = fs[i] /\ es[i].kind = kind
    BY DEF Events
  <2>3. ToSet(fs) \subseteq WatchedFiles /\ \A g \in ToSet(fs) : \E i \in 1..Len(fs) : fs[i] = g
    BY DEF ToSet
  <2> HIDE DEF es
  <2>4. PICK n \in Nat, k \in Nat : n = Len(fs_channel) /\ k = Len(fs)
    <3>1. fs_channel \in Seq(Events)
      BY DEF FolderTypes
    <3>2. Len(fs_channel) \in Nat /\ Len(fs) \in Nat
      BY <3>1
    <3> QED BY <3>2
  <2>5. fs_channel' \in Seq(Events) /\ Len(fs_channel') = n + k
        /\ (\A i \in 1..n : fs_channel'[i] = fs_channel[i])
        /\ (\A i \in 1..k : fs_channel'[n + i] = es[i])
    <3>1. fs_channel \in Seq(Events)
      BY DEF FolderTypes
    <3>2. PICK q \in Seq(Events), e \in Seq(Events) : q = fs_channel /\ e = es
      BY <2>2, <3>1
    <3>3. Len(q) = n /\ Len(e) = k
      BY <2>2, <2>4, <3>2
    <3>4. Appended(q \o e, q, e, n, k)
      BY <3>3, EventsAdded
    <3> QED BY <2>1, <3>2, <3>4 DEF Appended
  <2>6. FolderTypes'
    BY <1>1, <2>1, <2>3, <2>5 DEF FolderTypes
  <2>7. ASSUME NEW i \in 1..(n + k) PROVE i \in 1..n \/ \E j \in 1..k : i = n + j
    <3>1. CASE i <= n
      BY <2>4, <3>1
    <3>2. CASE ~ (i <= n)
      <4>1. i - n \in 1..k /\ i = n + (i - n)
        BY <2>4, <3>2
      <4> QED BY <4>1
    <3> QED BY <3>1, <3>2
  <2>8. ASSUME NEW g \in owed' \ IgnoredFiles, watched', ~ missed', version'[g] # 0, rows'[g] # version'[g]
        PROVE  Coming(g)'
    <3>1. g \in WatchedFiles
      BY <2>6 DEF FolderTypes
    <3>2. CASE \E i \in 1..Len(fs) : fs[i] = g
      <4>1. PICK i \in 1..k : fs[i] = g
        BY <2>4, <3>2
      <4>2. kind # "Removed"
        BY <1>1, <2>4, <2>8, <4>1
      <4>3. n + i \in 1..Len(fs_channel') /\ fs_channel'[n + i].path = g /\ fs_channel'[n + i].kind # "Removed"
        <5>1. n + i \in 1..(n + k)
          OBVIOUS
        <5>2. i \in 1..Len(fs) /\ es[i].path = g /\ es[i].kind = kind
          BY <2>2, <2>4, <4>1
        <5>3. fs_channel'[n + i] = es[i]
          BY <2>5
        <5> QED BY <2>5, <4>2, <5>1, <5>2, <5>3
      <4>4. ASSUME NEW j \in 1..Len(fs_channel'), fs_channel'[j].path = g PROVE j <= n + i
        <5>1. CASE j \in 1..n
          BY <2>4, <5>1
        <5>2. ASSUME NEW m \in 1..k, j = n + m PROVE j <= n + i
          <6>1. fs[m] = g
            BY <2>2, <2>4, <2>5, <4>4, <5>2
          <6>2. m = i
            BY <2>4, <4>1, <6>1
          <6> QED BY <5>2, <6>2
        <5> QED BY <2>5, <2>7, <5>1, <5>2
      <4>5. ScanLast(fs_channel', g)
        BY <4>3, <4>4 DEF ScanLast
      <4> QED BY <4>5 DEF Coming
    <3>3. CASE ~ \E i \in 1..Len(fs) : fs[i] = g
      <4>1. g \in owed /\ version[g] = version'[g] /\ rows[g] = rows'[g]
        BY <1>1, <2>1, <2>3, <2>8, <3>1, <3>3
      <4>2. Coming(g)
        BY <1>1, <2>8, <4>1 DEF NothingForgotten
      <4>3. ASSUME NEW j \in 1..k PROVE fs_channel'[n + j].path # g
        <5>1. j \in 1..Len(fs)
          BY <2>4
        <5>2. es[j].path = fs[j] /\ fs[j] # g
          BY <2>2, <3>3, <5>1
        <5> QED BY <2>5, <5>2
      <4>4. ASSUME ScanLast(fs_channel, g) PROVE ScanLast(fs_channel', g)
        <5>1. PICK i \in 1..n : /\ fs_channel[i].path = g /\ fs_channel[i].kind # "Removed"
                                /\ \A j \in 1..n : fs_channel[j].path = g => j <= i
          BY <2>4, <4>4 DEF ScanLast
        <5>2. i \in 1..Len(fs_channel') /\ fs_channel'[i] = fs_channel[i]
          BY <2>4, <2>5
        <5>3. ASSUME NEW j \in 1..Len(fs_channel'), fs_channel'[j].path = g PROVE j <= i
          <6>1. j \in 1..n
            BY <2>5, <2>7, <4>3, <5>3
          <6> QED BY <2>5, <5>1, <5>3, <6>1
        <5> QED BY <5>1, <5>2, <5>3 DEF ScanLast
      <4>5. ASSUME NoneOf(fs_channel, g) PROVE NoneOf(fs_channel', g)
        <5>1. ASSUME NEW j \in 1..Len(fs_channel') PROVE fs_channel'[j].path # g
          <6>1. CASE j \in 1..n
            BY <2>4, <2>5, <4>5, <6>1 DEF NoneOf
          <6>2. CASE \E m \in 1..k : j = n + m
            BY <4>3, <6>2
          <6> QED BY <2>5, <2>7, <6>1, <6>2
        <5> QED BY <5>1 DEF NoneOf
      <4>6. SomeScan(batch) => SomeScan(batch')
        BY <1>1
      <4>7. SomeScan(forwarded) => SomeScan(forwarded')
        BY <1>1
      <4> QED BY <1>1, <4>2, <4>4, <4>5, <4>6, <4>7 DEF Coming
    <3> QED BY <3>2, <3>3
  <2>9. NothingForgotten'
    BY <2>8 DEF NothingForgotten
  <2> QED BY <1>1, <1>3, <2>6, <2>9
<1> QED BY <1>2, <1>3

LEMMA WriteChanges ==
    ASSUME FolderInv, NEW f \in WatchedFiles, WriteFile(f)
    PROVE  FolderInv'
<1> DEFINE found == [version EXCEPT ![f] = count + 1]
<1>1. version \in [WatchedFiles -> Nat] /\ count \in Nat
  BY DEF FolderInv, FolderTypes
<1>2. PICK kind \in Kinds : kind # "Removed" /\ FolderChange(found, <<f>>, kind)
  BY DEF WriteFile, Kinds
<1>3. /\ found \in [WatchedFiles -> Nat]
      /\ \A g \in WatchedFiles : g = f \/ found[g] = version[g]
  BY <1>1
<1>4. <<f>> \in Seq(WatchedFiles) /\ Len(<<f>>) = 1 /\ <<f>>[1] = f
  OBVIOUS
<1>5. \A i, j \in 1..Len(<<f>>) : <<f>>[i] = <<f>>[j] => i = j
  BY <1>4
<1>6. \A g \in WatchedFiles : (\E i \in 1..Len(<<f>>) : <<f>>[i] = g) \/ found[g] = version[g] \/ found[g] = 0
  BY <1>3, <1>4
<1> HIDE DEF found
<1> QED BY <1>2, <1>3, <1>4, <1>5, <1>6, FolderChanged

LEMMA TouchChanges ==
    ASSUME FolderInv, NEW f \in WatchedFiles, Touch(f)
    PROVE  FolderInv'
<1> DEFINE found == [version EXCEPT ![f] = count + 1]
<1>1. version \in [WatchedFiles -> Nat] /\ count \in Nat
  BY DEF FolderInv, FolderTypes
<1>2. PICK kind \in Kinds : kind # "Removed" /\ FolderChange(found, <<f>>, kind)
  BY DEF Touch, Kinds
<1>3. /\ found \in [WatchedFiles -> Nat]
      /\ \A g \in WatchedFiles : g = f \/ found[g] = version[g]
  BY <1>1
<1>4. <<f>> \in Seq(WatchedFiles) /\ Len(<<f>>) = 1 /\ <<f>>[1] = f
  OBVIOUS
<1>5. \A i, j \in 1..Len(<<f>>) : <<f>>[i] = <<f>>[j] => i = j
  BY <1>4
<1>6. \A g \in WatchedFiles : (\E i \in 1..Len(<<f>>) : <<f>>[i] = g) \/ found[g] = version[g] \/ found[g] = 0
  BY <1>3, <1>4
<1> HIDE DEF found
<1> QED BY <1>2, <1>3, <1>4, <1>5, <1>6, FolderChanged

LEMMA RemoveChanges ==
    ASSUME FolderInv, NEW f \in WatchedFiles, RemoveFile(f)
    PROVE  FolderInv'
<1> DEFINE found == [version EXCEPT ![f] = 0]
<1>1. version \in [WatchedFiles -> Nat]
  BY DEF FolderInv, FolderTypes
<1>2. "Removed" \in Kinds /\ FolderChange(found, <<f>>, "Removed")
  BY DEF RemoveFile, Kinds
<1>3. /\ found \in [WatchedFiles -> Nat] /\ found[f] = 0
      /\ \A g \in WatchedFiles : g = f \/ found[g] = version[g]
  BY <1>1
<1>4. <<f>> \in Seq(WatchedFiles) /\ Len(<<f>>) = 1 /\ <<f>>[1] = f
  OBVIOUS
<1>5. /\ \A i, j \in 1..Len(<<f>>) : <<f>>[i] = <<f>>[j] => i = j
      /\ \A i \in 1..Len(<<f>>) : found[<<f>>[i]] = 0
  BY <1>3, <1>4
<1>6. \A g \in WatchedFiles : (\E i \in 1..Len(<<f>>) : <<f>>[i] = g) \/ found[g] = version[g] \/ found[g] = 0
  BY <1>3, <1>4
<1> HIDE DEF found
<1> QED BY <1>2, <1>3, <1>4, <1>5, <1>6, FolderChanged

LEMMA RenameChanges ==
    ASSUME FolderInv, NEW f \in WatchedFiles, NEW g \in WatchedFiles, RenameFile(f, g)
    PROVE  FolderInv'
<1> DEFINE found == [version EXCEPT ![f] = 0, ![g] = count + 1]
<1>1. version \in [WatchedFiles -> Nat] /\ count \in Nat
  BY DEF FolderInv, FolderTypes
<1>2. f # g /\ (FolderChange(found, <<g>>, "Renamed") \/ FolderChange(found, <<f, g>>, "Modified"))
  BY DEF RenameFile
<1>3. /\ found \in [WatchedFiles -> Nat] /\ found[f] = 0
      /\ \A h \in WatchedFiles : h = f \/ h = g \/ found[h] = version[h]
  BY <1>1, <1>2
<1> HIDE DEF found
<1>4. "Renamed" \in Kinds /\ "Modified" \in Kinds
  BY DEF Kinds
<1>5. CASE FolderChange(found, <<g>>, "Renamed")
  <2>1. <<g>> \in Seq(WatchedFiles) /\ Len(<<g>>) = 1 /\ <<g>>[1] = g
    OBVIOUS
  <2>2. \A i, j \in 1..Len(<<g>>) : <<g>>[i] = <<g>>[j] => i = j
    BY <2>1
  <2>3. \A h \in WatchedFiles : (\E i \in 1..Len(<<g>>) : <<g>>[i] = h) \/ found[h] = version[h] \/ found[h] = 0
    BY <1>3, <2>1
  <2>4. PICK kind \in Kinds : kind # "Removed" /\ FolderChange(found, <<g>>, kind)
    BY <1>4, <1>5
  <2>5. found \in [WatchedFiles -> Nat] /\ <<g>> \in Seq(WatchedFiles)
    BY <1>3, <2>1
  <2> QED BY <2>2, <2>3, <2>4, <2>5, FolderChanged
<1>6. CASE FolderChange(found, <<f, g>>, "Modified")
  <2>1. <<f, g>> \in Seq(WatchedFiles) /\ Len(<<f, g>>) = 2 /\ <<f, g>>[1] = f /\ <<f, g>>[2] = g
    OBVIOUS
  <2>2. \A i \in 1..Len(<<f, g>>) : i = 1 \/ i = 2
    BY <2>1
  <2>3. \A i, j \in 1..Len(<<f, g>>) : <<f, g>>[i] = <<f, g>>[j] => i = j
    BY <1>2, <2>1, <2>2
  <2>4. \A h \in WatchedFiles : (\E i \in 1..Len(<<f, g>>) : <<f, g>>[i] = h) \/ found[h] = version[h] \/ found[h] = 0
    BY <1>3, <2>1
  <2> QED BY <1>3, <1>4, <1>6, <2>1, <2>3, <2>4, FolderChanged
<1> QED BY <1>2, <1>5, <1>6

LEMMA DelayKeeps ==
    ASSUME FolderInv, NEW f \in WatchedFiles, DelayPasses(f)
    PROVE  FolderInv'
<1>1. FolderTypes /\ NothingForgotten /\ (~ watched => owed = {})
  BY DEF FolderInv
<1>2. UNCHANGED <<watched, polling, fs_channel, batch, forwarded, version, rows, count, owed, missed>>
  BY DEF DelayPasses
<1>3. f \in DOMAIN debounced /\ debounced' = [debounced EXCEPT ![f].ready = TRUE]
  BY DEF DelayPasses
<1>4. DOMAIN debounced \subseteq WatchedFiles /\ debounced \in [DOMAIN debounced -> [kind : Kinds, ready : BOOLEAN]]
  BY <1>1 DEF FolderTypes
<1>5. /\ DOMAIN debounced' = DOMAIN debounced
      /\ debounced' \in [DOMAIN debounced -> [kind : Kinds, ready : BOOLEAN]]
      /\ \A g \in DOMAIN debounced : debounced'[g].kind = debounced[g].kind
  BY <1>3, <1>4
<1>6. FolderTypes'
  BY <1>1, <1>2, <1>4, <1>5 DEF FolderTypes
<1>7. ASSUME NEW g, Coming(g) PROVE Coming(g)'
  BY <1>2, <1>5, <1>7 DEF Coming
<1>8. NothingForgotten'
  BY <1>1, <1>2, <1>7 DEF NothingForgotten
<1> QED BY <1>1, <1>2, <1>6, <1>8 DEF FolderInv

LEMMA HandledKeeps ==
    ASSUME FolderInv, NEW ok \in BOOLEAN, handle_fs_event(ok)
    PROVE  FolderInv'
<1>1. FolderTypes /\ NothingForgotten /\ (~ watched => owed = {})
  BY DEF FolderInv
<1>2. UNCHANGED <<watched, polling, fs_channel, debounced, batch, version, count, owed>>
  BY DEF handle_fs_event
<1>3. forwarded # <<>> /\ forwarded' = Tail(forwarded)
  BY DEF handle_fs_event
<1>4. PICK q \in Seq(Events) : q = forwarded
  BY <1>1 DEF FolderTypes
<1>5. Tail(q) \in Seq(Events) /\ (Head(q).kind = "Removed" /\ SomeScan(q) => SomeScan(Tail(q)))
  BY <1>3, <1>4, ScansFollow
<1>6. version \in [WatchedFiles -> Nat] /\ rows \in [WatchedFiles -> Nat] /\ owed \subseteq WatchedFiles
  BY <1>1 DEF FolderTypes
<1>7. CASE watched /\ Head(forwarded).kind # "Removed"
  <2>1. missed' = ~ ok
        /\ rows' = [f \in WatchedFiles |-> IF ok /\ version[f] # 0 THEN version[f] ELSE rows[f]]
    BY <1>7 DEF handle_fs_event
  <2>2. missed' \in BOOLEAN /\ rows' \in [WatchedFiles -> Nat]
    BY <1>6, <2>1
  <2>3. FolderTypes'
    BY <1>1, <1>2, <1>3, <1>4, <1>5, <2>2 DEF FolderTypes
  <2>4. ~ missed' => \A f \in owed : version[f] # 0 => rows'[f] = version[f]
    BY <1>6, <2>1
  <2>5. NothingForgotten'
    BY <1>2, <2>4 DEF NothingForgotten
  <2> QED BY <1>1, <1>2, <2>3, <2>5 DEF FolderInv
<1>8. CASE ~ (watched /\ Head(forwarded).kind # "Removed")
  <2>1. UNCHANGED <<missed, rows>>
    BY <1>8 DEF handle_fs_event
  <2>2. FolderTypes'
    BY <1>1, <1>2, <1>3, <1>4, <1>5, <2>1 DEF FolderTypes
  <2>3. ASSUME NEW f, watched, Coming(f) PROVE Coming(f)'
    <3>1. SomeScan(forwarded) => SomeScan(forwarded')
      BY <1>3, <1>4, <1>5, <1>8, <2>3
    <3>2. UNCHANGED <<fs_channel, debounced, batch>>
      BY <1>2
    <3> QED BY <2>3, <3>1, <3>2 DEF Coming
  <2>4. NothingForgotten'
    BY <1>1, <1>2, <2>1, <2>3 DEF NothingForgotten
  <2> QED BY <1>1, <1>2, <2>2, <2>4 DEF FolderInv
<1> QED BY <1>7, <1>8

(* What the debouncer holds after a poll. *)
LEMMA Debounced ==
    ASSUME NEW d, DOMAIN d \subseteq WatchedFiles,
           d \in [DOMAIN d -> [kind : Kinds, ready : BOOLEAN]],
           NEW q \in Seq(Events)
    PROVE  /\ DOMAIN add_event(d, q) \subseteq WatchedFiles
           /\ add_event(d, q) \in [DOMAIN add_event(d, q) -> [kind : Kinds, ready : BOOLEAN]]
           /\ \A f \in WatchedFiles \ IgnoredFiles : ScanLast(q, f) =>
                  f \in DOMAIN add_event(d, q) /\ add_event(d, q)[f].kind # "Removed"
           /\ \A f \in DOMAIN d : NoneOf(q, f) =>
                  f \in DOMAIN add_event(d, q) /\ add_event(d, q)[f] = d[f]
<1>1. PICK n \in Nat : n = Len(q)
  OBVIOUS
<1>2. \A i \in 1..n : q[i] \in Events
  BY <1>1
<1>3. \A i \in 1..n : q[i].path \in WatchedFiles /\ q[i].kind \in Kinds
  BY <1>2 DEF Events
<1> DEFINE D == DOMAIN d \cup {g \in WatchedFiles : EventsOf(q, g) # {}}
           V(f) == IF EventsOf(q, f) = {} THEN d[f]
                   ELSE [kind |-> q[Max(EventsOf(q, f))].kind, ready |-> FALSE]
<1>4. add_event(d, q) = [f \in D |-> V(f)]
  BY DEF add_event
<1>5. ASSUME NEW f, EventsOf(q, f) # {}
      PROVE  /\ Max(EventsOf(q, f)) \in 1..n /\ Max(EventsOf(q, f)) \in EventsOf(q, f)
             /\ \A x \in EventsOf(q, f) : (\A y \in EventsOf(q, f) : x >= y) => x = Max(EventsOf(q, f))
  <2>1. EventsOf(q, f) \in SUBSET (1..n)
    BY <1>1 DEF EventsOf
  <2> QED BY <1>5, <2>1, Greatest
<1>6. ASSUME NEW f \in D PROVE V(f) \in [kind : Kinds, ready : BOOLEAN]
  <2>1. CASE EventsOf(q, f) = {}
    BY <2>1
  <2>2. CASE EventsOf(q, f) # {}
    <3>1. q[Max(EventsOf(q, f))].kind \in Kinds
      BY <1>3, <1>5, <2>2
    <3> QED BY <2>2, <3>1
  <2> QED BY <2>1, <2>2
<1>7. ASSUME NEW f \in WatchedFiles \ IgnoredFiles, ScanLast(q, f)
      PROVE  f \in D /\ V(f).kind # "Removed"
  <2>1. PICK i \in 1..n : /\ q[i].path = f /\ q[i].kind # "Removed"
                          /\ \A j \in 1..n : q[j].path = f => j <= i
    BY <1>1, <1>7 DEF ScanLast
  <2>2. i \in EventsOf(q, f)
    BY <1>1, <2>1 DEF EventsOf, should_ignore_path
  <2>3. ASSUME NEW y \in EventsOf(q, f) PROVE i >= y
    <3>1. y \in 1..n /\ q[y].path = f
      BY <1>1 DEF EventsOf
    <3>2. y <= i
      BY <2>1, <3>1
    <3> QED BY <3>1, <3>2
  <2>4. i = Max(EventsOf(q, f))
    BY <1>5, <2>2, <2>3
  <2> QED BY <2>1, <2>2, <2>4
<1>8. ASSUME NEW f \in DOMAIN d, NoneOf(q, f) PROVE f \in D /\ V(f) = d[f]
  BY <1>8 DEF EventsOf, NoneOf
<1> HIDE DEF V, D
<1>9. D \subseteq WatchedFiles
  BY DEF D
<1> QED BY <1>4, <1>6, <1>7, <1>8, <1>9

(* The ready events, and what stays pending. *)
LEMMA ReadyEvents ==
    ASSUME NEW p, DOMAIN p \subseteq WatchedFiles,
           p \in [DOMAIN p -> [kind : Kinds, ready : BOOLEAN]]
    PROVE  /\ get_ready_events(p) \in Seq(Events)
           /\ DOMAIN StillPending(p) \subseteq WatchedFiles
           /\ StillPending(p) \in [DOMAIN StillPending(p) -> [kind : Kinds, ready : BOOLEAN]]
           /\ \A f \in DOMAIN p : p[f].kind # "Removed" =>
                  \/ SomeScan(get_ready_events(p))
                  \/ f \in DOMAIN StillPending(p) /\ StillPending(p)[f].kind # "Removed"
<1> DEFINE G == {g \in DOMAIN p : p[g].ready}
           R == {[path |-> f, kind |-> p[f].kind] : f \in G}
           h == [f \in G |-> [path |-> f, kind |-> p[f].kind]]
<1>1. IsFiniteSet(G)
  <2>1. G \in SUBSET WatchedFiles
    OBVIOUS
  <2> QED BY <2>1, FolderAssumption, FS_Subset
<1>2. h \in Surjection(G, R)
  BY DEF Surjection
<1>3. IsFiniteSet(R)
  BY <1>1, <1>2, FS_Surjection
<1>4. R \in SUBSET Events
  BY DEF Events
<1>5. get_ready_events(p) = SetToSeq(R)
  BY DEF get_ready_events
<1>6. \A f \in G : [path |-> f, kind |-> p[f].kind] \in R
  OBVIOUS
<1> HIDE DEF R, h
<1>7. PICK s : s = SetToSeq(R)
  OBVIOUS
<1>8. s \in Seq(R) /\ \A x \in R : \E i \in 1..Len(s) : s[i] = x
  BY <1>3, <1>7, Listed
<1>9. s \in Seq(Events)
  BY <1>4, <1>8
<1>10. DOMAIN StillPending(p) = DOMAIN p \ G /\ \A f \in DOMAIN p \ G : StillPending(p)[f] = p[f]
  BY DEF StillPending
<1>11. StillPending(p) \in [DOMAIN StillPending(p) -> [kind : Kinds, ready : BOOLEAN]]
  BY DEF StillPending
<1>12. ASSUME NEW f \in G, p[f].kind # "Removed" PROVE SomeScan(s)
  <2>1. PICK i \in 1..Len(s) : s[i] = [path |-> f, kind |-> p[f].kind]
    BY <1>6, <1>8
  <2> QED BY <1>12, <2>1 DEF SomeScan
<1> HIDE DEF G
<1> QED BY <1>5, <1>7, <1>9, <1>10, <1>11, <1>12

LEMMA TickKeeps ==
    ASSUME FolderInv, process_events
    PROVE  FolderInv'
<1>1. FolderTypes /\ NothingForgotten /\ (~ watched => owed = {})
  BY DEF FolderInv
<1>2. UNCHANGED <<watched, polling, version, rows, count, owed, missed>> /\ fs_channel' = <<>>
  BY DEF process_events, poll_events
<1>3. PICK q \in Seq(Events), b \in Seq(Events), w \in Seq(Events) :
        q = fs_channel /\ b = batch /\ w = forwarded
  BY <1>1 DEF FolderTypes
<1>4. PICK d : d = debounced
  OBVIOUS
<1>5. DOMAIN d \subseteq WatchedFiles /\ d \in [DOMAIN d -> [kind : Kinds, ready : BOOLEAN]]
  BY <1>1, <1>4 DEF FolderTypes
<1>6. PICK p : p = add_event(d, q)
  OBVIOUS
<1>7. /\ DOMAIN p \subseteq WatchedFiles
      /\ p \in [DOMAIN p -> [kind : Kinds, ready : BOOLEAN]]
      /\ \A f \in WatchedFiles \ IgnoredFiles : ScanLast(q, f) => f \in DOMAIN p /\ p[f].kind # "Removed"
      /\ \A f \in DOMAIN d : NoneOf(q, f) => f \in DOMAIN p /\ p[f] = d[f]
  BY <1>5, <1>6, Debounced
<1>8. PICK r, l : r = get_ready_events(p) /\ l = StillPending(p)
  OBVIOUS
<1>9. /\ r \in Seq(Events)
      /\ DOMAIN l \subseteq WatchedFiles
      /\ l \in [DOMAIN l -> [kind : Kinds, ready : BOOLEAN]]
      /\ \A f \in DOMAIN p : p[f].kind # "Removed" =>
            SomeScan(r) \/ (f \in DOMAIN l /\ l[f].kind # "Removed")
  BY <1>7, <1>8, ReadyEvents
<1>10. PICK a : a = b \o r
  OBVIOUS
<1>11. a \in Seq(Events) /\ (SomeScan(b) \/ SomeScan(r) => SomeScan(a))
  BY <1>9, <1>10, ScansAppended
<1>12. PICK m \in 0..Len(a) : /\ debounced' = l
                              /\ forwarded' = w \o SubSeq(a, 1, m)
                              /\ batch' = SubSeq(a, m + 1, Len(a))
  <2>1. PICK n \in Nat : n = Len(a)
    BY <1>11
  <2>2. (n \div batch_size) * batch_size \in 0..n
    BY FolderAssumption, FullBatches DEF WatcherConfig
  <2>3. n \in 0..n
    OBVIOUS
  <2>4. LET out == IF DOMAIN l = {} THEN n ELSE (n \div batch_size) * batch_size
        IN  /\ debounced' = l
            /\ forwarded' = w \o SubSeq(a, 1, out)
            /\ batch' = SubSeq(a, out + 1, Len(a))
    BY <1>3, <1>4, <1>6, <1>8, <1>10, <2>1 DEF process_events
  <2>5. PICK out \in 0..n : /\ debounced' = l
                            /\ forwarded' = w \o SubSeq(a, 1, out)
                            /\ batch' = SubSeq(a, out + 1, Len(a))
    BY <2>2, <2>3, <2>4
  <2> QED BY <2>1, <2>5
<1>13. /\ SubSeq(a, 1, m) \in Seq(Events) /\ SubSeq(a, m + 1, Len(a)) \in Seq(Events)
       /\ SomeScan(a) => SomeScan(SubSeq(a, 1, m)) \/ SomeScan(SubSeq(a, m + 1, Len(a)))
  BY <1>11, ScansSplit
<1>14. PICK o \in Seq(Events) : o = SubSeq(a, 1, m)
  BY <1>13
<1>15. w \o o \in Seq(Events) /\ (SomeScan(w) \/ SomeScan(o) => SomeScan(w \o o))
  BY ScansAppended
<1>16. /\ batch' \in Seq(Events) /\ forwarded' \in Seq(Events)
       /\ SomeScan(w) => SomeScan(forwarded')
       /\ SomeScan(a) => SomeScan(forwarded') \/ SomeScan(batch')
  BY <1>12, <1>13, <1>14, <1>15
<1>17. fs_channel' \in Seq(Events)
  BY <1>2
<1>18. DOMAIN debounced' \subseteq WatchedFiles
       /\ debounced' \in [DOMAIN debounced' -> [kind : Kinds, ready : BOOLEAN]]
  BY <1>9, <1>12
<1>19. FolderTypes'
  BY <1>1, <1>2, <1>16, <1>17, <1>18 DEF FolderTypes
<1>20. ASSUME NEW f \in WatchedFiles \ IgnoredFiles, Coming(f) PROVE Coming(f)'
  <2>1. NoneOf(fs_channel', f)
    BY <1>2 DEF NoneOf
  <2>2. CASE f \in DOMAIN p /\ p[f].kind # "Removed"
    <3>1. SomeScan(r) \/ (f \in DOMAIN l /\ l[f].kind # "Removed")
      BY <1>9, <2>2
    <3> QED BY <1>11, <1>12, <1>16, <2>1, <3>1 DEF Coming
  <2>3. CASE SomeScan(b)
    BY <1>11, <1>16, <2>3 DEF Coming
  <2>4. CASE SomeScan(w)
    BY <1>16, <2>4 DEF Coming
  <2>5. ScanLast(q, f) \/ (NoneOf(q, f) /\ f \in DOMAIN d /\ d[f].kind # "Removed")
        \/ SomeScan(b) \/ SomeScan(w)
    BY <1>3, <1>4, <1>20 DEF Coming
  <2> QED BY <1>7, <2>2, <2>3, <2>4, <2>5
<1>21. owed \subseteq WatchedFiles
  BY <1>1 DEF FolderTypes
<1>22. NothingForgotten'
  BY <1>1, <1>2, <1>20, <1>21 DEF NothingForgotten
<1> QED BY <1>1, <1>2, <1>19, <1>22 DEF FolderInv

(* When the watcher is idle the index holds the last reported version of every
   file that is not ignored, unless the last scan failed: coalescing, batching
   and the scans begun for other files lose no change. *)
THEOREM QuietStaysIndexed == FolderSpec => []QuietIsIndexed
<1>1. FolderInit => FolderInv
  <2> SUFFICES ASSUME FolderInit PROVE FolderInv
    OBVIOUS
  <2>1. DOMAIN debounced = {} /\ debounced \in [DOMAIN debounced -> [kind : Kinds, ready : BOOLEAN]]
    BY DEF FolderInit
  <2>2. fs_channel \in Seq(Events) /\ batch \in Seq(Events) /\ forwarded \in Seq(Events)
    BY DEF FolderInit
  <2>3. FolderTypes
    BY <2>1, <2>2 DEF FolderInit, FolderTypes
  <2> QED BY <2>3 DEF FolderInit, FolderInv, NothingForgotten
<1>2. FolderInv /\ [FolderNext]_wvars => FolderInv'
  <2> SUFFICES ASSUME FolderInv, [FolderNext]_wvars PROVE FolderInv'
    OBVIOUS
  <2>1. CASE watch_folder
    <3>1. UNCHANGED <<polling, fs_channel, debounced, batch, forwarded, version, rows, count, owed, missed>>
          /\ ~ watched /\ watched' = TRUE
      BY <2>1 DEF watch_folder, watch
    <3>2. owed' = {}
      BY <3>1 DEF FolderInv
    <3>3. FolderTypes'
      BY <3>1 DEF FolderInv, FolderTypes
    <3>4. NothingForgotten'
      BY <3>2 DEF NothingForgotten
    <3> QED BY <3>1, <3>3, <3>4 DEF FolderInv
  <2>2. CASE unwatch_folder
    <3>1. UNCHANGED <<polling, fs_channel, debounced, batch, forwarded, version, rows, count, missed>>
          /\ watched' = FALSE /\ owed' = {}
      BY <2>2 DEF unwatch_folder, unwatch
    <3>2. FolderTypes'
      BY <3>1 DEF FolderInv, FolderTypes
    <3> QED BY <3>1, <3>2 DEF FolderInv, NothingForgotten
  <2>3. CASE start_with_indexer
    <3>1. UNCHANGED <<watched, fs_channel, debounced, batch, forwarded, version, rows, count, owed, missed>>
          /\ polling' = TRUE
      BY <2>3 DEF start_with_indexer
    <3>2. FolderTypes'
      BY <3>1 DEF FolderInv, FolderTypes
    <3> QED BY <3>1, <3>2 DEF FolderInv, NothingForgotten, Coming
  <2>4. CASE UNCHANGED wvars
    BY <2>4 DEF wvars, FolderInv, FolderTypes, NothingForgotten, Coming
  <2> QED BY <2>1, <2>2, <2>3, <2>4, WriteChanges, TouchChanges, RemoveChanges, RenameChanges,
             DelayKeeps, TickKeeps, HandledKeeps DEF FolderNext
<1>3. FolderInv => QuietIsIndexed
  <2> SUFFICES ASSUME FolderInv, watched, ~ missed, fs_channel = <<>>, debounced = <<>>,
                      batch = <<>>, forwarded = <<>>,
                      NEW f \in owed \ IgnoredFiles, version[f] # 0, rows[f] # version[f]
               PROVE  FALSE
    BY DEF QuietIsIndexed
  <2>1. Coming(f)
    BY DEF FolderInv, NothingForgotten
  <2>2. DOMAIN debounced = {} /\ Len(fs_channel) = 0 /\ Len(batch) = 0 /\ Len(forwarded) = 0
    OBVIOUS
  <2> QED BY <2>1, <2>2 DEF Coming, ScanLast, SomeScan
<1> QED BY <1>1, <1>2, <1>3, PTL DEF FolderSpec

(***************************************************************************)
(* The chunker.  An induction is put as a statement about the set of the   *)
(* numbers for which a fact holds.                                         *)
(***************************************************************************)
(* What holds of 0 and of the successor of every number it holds of. *)
LEMMA InductionOnSets ==
    ASSUME NEW T, 0 \in T, \A n \in Nat : n \in T => n + 1 \in T
    PROVE  \A n \in Nat : n \in T
<1> DEFINE left == {n \in Nat : n \notin T}
<1> SUFFICES ASSUME left # {} PROVE FALSE
  OBVIOUS
<1>1. PICK m \in left : \A n \in left : ~ (<<n, m>> \in OpToRel(<, Nat))
  BY WFMin, NatLessThanWellFounded, Zenon
<1>2. \A n \in left : ~ (n < m)
  BY <1>1 DEF OpToRel
<1>3. m \in Nat /\ m \notin T /\ m # 0 /\ m - 1 \in Nat
  OBVIOUS
<1>4. m - 1 \notin left
  BY <1>2, <1>3
<1>5. m - 1 \in T
  BY <1>3, <1>4
<1>6. (m - 1) + 1 \in T
  BY <1>3, <1>5
<1> QED BY <1>3, <1>6

LEMMA SizesInOrder ==
    /\ min_size \in Nat /\ max_size \in Nat \ {0} /\ min_size < max_size
    /\ WINDOW_SIZE \in Nat \ {0}
  BY ChunkerAssumption DEF validate_config

(* Two contents with the same first n bytes. *)
Agree(d, e, n) == \A i \in 1..n : d[i] = e[i]

(* The hash at a position depends on nothing behind it. *)
LEMMA SameHash ==
    ASSUME NEW d, NEW e, NEW n \in Nat, Agree(d, e, n),
           NEW s \in Nat, NEW p \in Nat, s + WINDOW_SIZE <= p, p < n
    PROVE  HashAt(d, s, p) = HashAt(e, s, p)
<1>1. FirstHash(d, s) = FirstHash(e, s)
  <2>1. \A i \in 0..WINDOW_SIZE : i # 0 => d[s + i] = e[s + i]
    BY SizesInOrder DEF Agree
  <2>2. \A f : [i \in 0..WINDOW_SIZE |-> IF i = 0 THEN 0 ELSE wrapping_add(rotate_left(f[i - 1], 1), Gear[d[s + i]])]
             = [i \in 0..WINDOW_SIZE |-> IF i = 0 THEN 0 ELSE wrapping_add(rotate_left(f[i - 1], 1), Gear[e[s + i]])]
    BY <2>1, Zenon
  <2> QED BY <2>2, Zenon DEF FirstHash
<1> DEFINE first == s + WINDOW_SIZE - 1
<1>2. \A q \in first..p : q # first => d[q - WINDOW_SIZE + 1] = e[q - WINDOW_SIZE + 1] /\ d[q + 1] = e[q + 1]
  BY SizesInOrder DEF Agree
<1>3. \A h : [q \in first..p |-> IF q = first THEN FirstHash(d, s)
                                 ELSE Roll(h[q - 1], d[q - WINDOW_SIZE + 1], d[q + 1])]
           = [q \in first..p |-> IF q = first THEN FirstHash(e, s)
                                 ELSE Roll(h[q - 1], e[q - WINDOW_SIZE + 1], e[q + 1])]
  BY <1>1, <1>2, Zenon
<1> QED BY <1>3, Zenon DEF HashAt

LEMMA SmallerFacts ==
    ASSUME NEW x \in Nat, NEW y \in Nat
    PROVE  /\ Smaller(x, y) \in {x, y} /\ Smaller(x, y) <= x /\ Smaller(x, y) <= y
<1>1. CASE x <= y
  <2>1. x \in {x, y} /\ \A z \in {x, y} : x <= z
    BY <1>1
  <2> QED BY <2>1 DEF Smaller, Min
<1>2. CASE y < x
  <2>1. y \in {x, y} /\ \A z \in {x, y} : y <= z
    BY <1>2
  <2> QED BY <2>1 DEF Smaller, Min
<1> QED BY <1>1, <1>2

LEMMA MinFacts ==
    ASSUME NEW S \in SUBSET Nat, S # {}
    PROVE  Min(S) \in S /\ \A y \in S : Min(S) <= y
<1>1. PICK m \in S : \A n \in S : ~ (<<n, m>> \in OpToRel(<, Nat))
  BY WFMin, NatLessThanWellFounded, Zenon
<1>2. \A n \in S : ~ (n < m)
  BY <1>1 DEF OpToRel
<1>3. \A n \in S : m <= n
  BY <1>2
<1> QED BY <1>3, Zenon DEF Min

(* Where the scan stops, and what it has seen by then. *)
Hit(d, s, p) == HashAt(d, s, p) % 2^mask_bits = 0

LEMMA BoundaryFacts ==
    ASSUME NEW d, Len(d) \in Nat, NEW s \in Nat, NEW m \in Nat,
           NEW limit, limit = Smaller(m, Len(d)), NEW b, b = find_chunk_boundary(d, s, m)
    PROVE  /\ limit \in Nat /\ b \in Nat /\ b <= limit
           /\ \A p \in (s + WINDOW_SIZE)..(limit - 1) : Hit(d, s, p) => b <= p + 1
           /\ b = limit \/ (b - 1 \in (s + WINDOW_SIZE)..(limit - 1) /\ Hit(d, s, b - 1))
<1> DEFINE hits == {p \in (s + WINDOW_SIZE)..(limit - 1) : HashAt(d, s, p) % 2^mask_bits = 0}
<1>1. limit \in Nat /\ limit <= m /\ limit <= Len(d)
  BY SmallerFacts
<1>2. b = IF hits = {} THEN limit ELSE Min(hits) + 1
  BY Zenon DEF find_chunk_boundary
<1>3. hits \in SUBSET Nat
  BY <1>1, SizesInOrder
<1>4. CASE hits = {}
  <2>1. \A p \in (s + WINDOW_SIZE)..(limit - 1) : ~ Hit(d, s, p)
    BY <1>4 DEF Hit
  <2> QED BY <1>1, <1>2, <1>4, <2>1
<1>5. CASE hits # {}
  <2>1. Min(hits) \in hits /\ \A p \in hits : Min(hits) <= p
    BY <1>3, <1>5, MinFacts
  <2>2. b = Min(hits) + 1
    BY <1>2, <1>5
  <2>3. Min(hits) \in (s + WINDOW_SIZE)..(limit - 1) /\ Min(hits) \in Nat /\ Hit(d, s, Min(hits))
    BY <1>3, <2>1 DEF Hit
  <2>4. \A p \in (s + WINDOW_SIZE)..(limit - 1) : Hit(d, s, p) => Min(hits) <= p
    BY <2>1 DEF Hit
  <2>5. b - 1 = Min(hits) /\ b \in Nat
    BY <2>2, <2>3
  <2> HIDE DEF hits
  <2> QED BY <1>1, <2>2, <2>3, <2>4, <2>5
<1> QED BY <1>4, <1>5

(* A chunk ends behind its beginning, within the content, and has its size.   *)
LEMMA ChunkEnds ==
    ASSUME NEW d, Len(d) \in Nat, NEW s \in 0..(Len(d) - 1)
    PROVE  /\ ChunkEnd(d, s) \in (s + 1)..Len(d) /\ ChunkEnd(d, s) <= s + max_size
           /\ ChunkEnd(d, s) < Len(d) => ChunkEnd(d, s) >= s + min_size
           /\ Smaller(ChunkEnd(d, s), Len(d)) = ChunkEnd(d, s)
<1> DEFINE remaining == Len(d) - s
           least     == s + Smaller(min_size, remaining)
           furthest  == Smaller(s + max_size, Len(d))
           found     == find_chunk_boundary(d, least, furthest)
<1>1. remaining \in Nat \ {0} /\ s \in Nat /\ s < Len(d)
  OBVIOUS
<1>2. Smaller(min_size, remaining) \in {min_size, remaining} /\ Smaller(min_size, remaining) <= min_size
      /\ Smaller(min_size, remaining) <= remaining
  BY <1>1, SizesInOrder, SmallerFacts
<1>3. least \in Nat /\ least <= Len(d) /\ least <= s + min_size /\ s <= least
      /\ least \in {s + min_size, Len(d)}
  BY <1>1, <1>2, SizesInOrder
<1>4. furthest \in {s + max_size, Len(d)} /\ furthest <= s + max_size /\ furthest <= Len(d) /\ furthest \in Nat
  BY <1>1, SizesInOrder, SmallerFacts
<1>5. Smaller(furthest, Len(d)) = furthest
  BY <1>4, SmallerFacts
<1>6. ChunkEnd(d, s) = IF least < Len(d) /\ remaining > min_size THEN found ELSE least
  BY Zenon DEF ChunkEnd
<1>7. /\ found \in Nat /\ found <= furthest
      /\ found = furthest \/ found - 1 >= least + WINDOW_SIZE
  <2>1. furthest = Smaller(furthest, Len(d)) /\ found = find_chunk_boundary(d, least, furthest)
    BY <1>5
  <2> HIDE DEF furthest, found, least
  <2>2. /\ found \in Nat /\ found <= furthest
        /\ found = furthest \/ found - 1 \in (least + WINDOW_SIZE)..(furthest - 1)
    BY <1>3, <1>4, <2>1, BoundaryFacts
  <2> QED BY <1>3, <1>4, <2>2, SizesInOrder
<1> HIDE DEF remaining, least, furthest, found
<1>8. CASE least < Len(d) /\ remaining > min_size
  <2>1. least = s + min_size /\ ChunkEnd(d, s) = found
    BY <1>3, <1>6, <1>8
  <2>2. /\ ChunkEnd(d, s) \in (s + 1)..Len(d) /\ ChunkEnd(d, s) <= s + max_size
        /\ ChunkEnd(d, s) >= s + min_size \/ ChunkEnd(d, s) = Len(d)
    BY <1>1, <1>3, <1>4, <1>7, <1>8, <2>1, SizesInOrder
  <2> QED BY <1>1, <2>2, SizesInOrder, SmallerFacts
<1>9. CASE ~ (least < Len(d) /\ remaining > min_size)
  <2>1. ChunkEnd(d, s) = least
    BY <1>6, <1>9
  <2>2. least = Len(d)
    BY <1>1, <1>2, <1>3, <1>9, SizesInOrder DEF remaining, least
  <2> QED BY <1>1, <1>3, <2>1, <2>2, SizesInOrder, SmallerFacts
<1> QED BY <1>8, <1>9

(* A chunk that ends within a prefix of the content ends there in the prefix. *)
LEMMA ChunkEndStable ==
    ASSUME NEW B, NEW d \in Seq(B), NEW n \in 0..Len(d),
           NEW e \in Seq(B), Len(e) = n, Agree(e, d, n),
           NEW s \in 0..(n - 1), ChunkEnd(d, s) <= n
    PROVE  ChunkEnd(e, s) = ChunkEnd(d, s)
<1>1. /\ Len(d) \in Nat /\ Len(e) = n /\ n \in Nat /\ n <= Len(d) /\ s \in Nat /\ s < n
  OBVIOUS
<1> DEFINE least(c)    == s + Smaller(min_size, Len(c) - s)
           furthest(c) == Smaller(s + max_size, Len(c))
           found(c)    == find_chunk_boundary(c, least(c), furthest(c))
<1>2. \A c : ChunkEnd(c, s) = IF least(c) < Len(c) /\ Len(c) - s > min_size THEN found(c) ELSE least(c)
  BY Zenon DEF ChunkEnd
<1>3. CASE n = Len(d)
  <2>1. e = d
    BY <1>1, <1>3 DEF Agree
  <2> QED BY <2>1
<1>4. CASE n < Len(d)
  <2>1. /\ Smaller(min_size, Len(d) - s) \in {min_size, Len(d) - s}
        /\ Smaller(min_size, Len(d) - s) <= min_size
        /\ Smaller(min_size, n - s) \in {min_size, n - s}
        /\ Smaller(min_size, n - s) <= min_size /\ Smaller(min_size, n - s) <= n - s
        /\ Smaller(s + max_size, Len(d)) \in {s + max_size, Len(d)}
        /\ Smaller(s + max_size, Len(d)) <= s + max_size
        /\ Smaller(s + max_size, n) \in {s + max_size, n}
        /\ Smaller(s + max_size, n) <= s + max_size /\ Smaller(s + max_size, n) <= n
    BY <1>1, SizesInOrder, SmallerFacts
  <2>2. /\ least(d) \in {s + min_size, Len(d)} /\ least(d) <= s + min_size
        /\ least(e) \in {s + min_size, n} /\ least(e) <= s + min_size /\ least(e) <= n
        /\ furthest(d) \in {s + max_size, Len(d)} /\ furthest(d) <= s + max_size
        /\ furthest(e) \in {s + max_size, n} /\ furthest(e) <= s + max_size /\ furthest(e) <= n
    <3>1. Len(e) - s = n - s /\ Smaller(min_size, Len(e) - s) = Smaller(min_size, n - s)
      BY <1>1
    <3>2. least(d) \in {s + min_size, Len(d)} /\ least(d) <= s + min_size
      BY <1>1, <2>1, SizesInOrder
    <3>3. least(e) \in {s + min_size, n} /\ least(e) <= s + min_size /\ least(e) <= n
      BY <1>1, <2>1, <3>1, SizesInOrder
    <3>4. furthest(e) = Smaller(s + max_size, n)
      BY <1>1
    <3> QED BY <2>1, <3>2, <3>3, <3>4
  <2>3. /\ least(d) \in Nat /\ least(e) \in Nat /\ furthest(d) \in Nat /\ furthest(e) \in Nat
        /\ furthest(e) <= furthest(d)
        /\ furthest(d) <= Len(d)
    BY <1>1, <1>4, <2>1, SizesInOrder, SmallerFacts
  <2>4. furthest(d) = Smaller(furthest(d), Len(d)) /\ furthest(e) = Smaller(furthest(e), Len(e))
    BY <1>1, <2>2, <2>3, SmallerFacts
  <2> HIDE DEF least, furthest, found
  <2>5. least(d) < Len(d) /\ Len(d) - s > min_size
    <3>1. CASE ~ (least(d) < Len(d) /\ Len(d) - s > min_size)
      <4>1. ChunkEnd(d, s) = least(d)
        BY <1>2, <3>1
      <4>2. least(d) < Len(d) /\ least(d) = s + min_size
        BY <1>1, <1>4, <2>2, <2>3, <4>1
      <4>3. s + min_size < Len(d)
        BY <4>2
      <4> QED BY <1>1, <3>1, <4>2, <4>3, SizesInOrder
    <3> QED BY <3>1
  <2>6. ChunkEnd(d, s) = found(d) /\ least(d) = s + min_size
    BY <1>2, <2>2, <2>5
  <2>7. /\ found(d) \in Nat /\ found(d) <= furthest(d)
        /\ \A p \in (least(d) + WINDOW_SIZE)..(furthest(d) - 1) : Hit(d, least(d), p) => found(d) <= p + 1
        /\ \/ found(d) = furthest(d)
           \/ found(d) - 1 \in (least(d) + WINDOW_SIZE)..(furthest(d) - 1) /\ Hit(d, least(d), found(d) - 1)
    BY <1>1, <2>3, <2>4, BoundaryFacts DEF found
  <2>8. found(d) <= n
    BY <2>6
  <2>9. least(e) = s + min_size /\ least(e) < n /\ n - s > min_size
    <3>1. s + min_size < found(d)
      BY <1>1, <1>4, <2>2, <2>3, <2>5, <2>6, <2>7, SizesInOrder
    <3>2. s + min_size < n
      BY <1>1, <2>7, <2>8, <3>1, SizesInOrder
    <3> QED BY <1>1, <2>2, <3>2, SizesInOrder
  <2>10. ChunkEnd(e, s) = found(e) /\ least(e) = least(d)
    BY <1>1, <1>2, <2>6, <2>9
  <2>11. /\ found(e) \in Nat /\ found(e) <= furthest(e)
         /\ \A p \in (least(d) + WINDOW_SIZE)..(furthest(e) - 1) : Hit(e, least(d), p) => found(e) <= p + 1
         /\ \/ found(e) = furthest(e)
            \/ found(e) - 1 \in (least(d) + WINDOW_SIZE)..(furthest(e) - 1) /\ Hit(e, least(d), found(e) - 1)
    <3>1. found(e) = find_chunk_boundary(e, least(d), furthest(e))
      BY <2>10 DEF found
    <3> QED BY <1>1, <2>3, <2>4, <3>1, BoundaryFacts
  <2>12. \A p \in (least(d) + WINDOW_SIZE)..(n - 1) : Hit(e, least(d), p) = Hit(d, least(d), p)
    <3> SUFFICES ASSUME NEW p \in (least(d) + WINDOW_SIZE)..(n - 1)
                 PROVE  HashAt(e, least(d), p) = HashAt(d, least(d), p)
      BY DEF Hit
    <3>1. p \in Nat /\ least(d) + WINDOW_SIZE <= p /\ p < n
      BY <1>1, <2>3, SizesInOrder
    <3> QED BY <1>1, <2>3, <3>1, SameHash
  <2>13. found(e) <= found(d)
    <3>1. CASE found(d) = furthest(d)
      BY <1>1, <1>4, <2>2, <2>3, <2>7, <2>8, <2>11, <3>1, SizesInOrder
    <3>2. CASE found(d) - 1 \in (least(d) + WINDOW_SIZE)..(furthest(d) - 1) /\ Hit(d, least(d), found(d) - 1)
      <4>1. found(d) - 1 <= n - 1 /\ found(d) - 1 < s + max_size
        BY <1>1, <2>2, <2>3, <2>7, <2>8, <3>2, SizesInOrder
      <4>2. found(d) - 1 \in (least(d) + WINDOW_SIZE)..(furthest(e) - 1)
        <5>1. found(d) - 1 < furthest(e)
          BY <1>1, <2>2, <2>7, <4>1, SizesInOrder
        <5> QED BY <2>3, <2>7, <3>2, <5>1, SizesInOrder
      <4>3. Hit(e, least(d), found(d) - 1)
        BY <1>1, <2>3, <2>12, <3>2, <4>1, SizesInOrder
      <4>4. found(e) <= (found(d) - 1) + 1
        BY <2>11, <4>2, <4>3
      <4> QED BY <2>7, <2>11, <4>4
    <3> QED BY <2>7, <3>1, <3>2
  <2>14. found(d) <= found(e)
    <3>1. CASE found(e) = furthest(e)
      BY <1>1, <2>2, <2>3, <2>7, <2>8, <3>1, SizesInOrder
    <3>2. CASE found(e) - 1 \in (least(d) + WINDOW_SIZE)..(furthest(e) - 1) /\ Hit(e, least(d), found(e) - 1)
      <4>1. found(e) - 1 \in (least(d) + WINDOW_SIZE)..(n - 1) /\ found(e) - 1 \in (least(d) + WINDOW_SIZE)..(furthest(d) - 1)
        BY <1>1, <2>2, <2>3, <2>11, <3>2, SizesInOrder
      <4>2. Hit(d, least(d), found(e) - 1)
        BY <2>12, <3>2, <4>1
      <4>3. found(d) <= (found(e) - 1) + 1
        BY <2>7, <4>1, <4>2
      <4> QED BY <2>7, <2>11, <4>3
    <3> QED BY <2>11, <3>1, <3>2
  <2> QED BY <2>6, <2>7, <2>10, <2>11, <2>13, <2>14
<1> QED BY <1>1, <1>3, <1>4

(* What the loop of chunk_bytes cuts from each position on. *)
FirstPiece(d, s) == Chunk(d, s, ChunkEnd(d, s))
CutsFrom(d, f) ==
    f = [s \in 0..Len(d) |-> IF s >= Len(d) THEN <<>> ELSE <<FirstPiece(d, s)>> \o f[ChunkEnd(d, s)]]

LEMMA CutsExist ==
    ASSUME NEW d, Len(d) \in Nat
    PROVE  \E f : CutsFrom(d, f)
<1> DEFINE next(f, s) == IF s >= Len(d) THEN <<>> ELSE <<FirstPiece(d, s)>> \o f[ChunkEnd(d, s)]
           reached(k)    == {s \in 0..Len(d) : s + k >= Len(d)}
           T == {k \in Nat : \E f : f = [s \in 0..Len(d) |-> f[s]] /\ \A s \in reached(k) : f[s] = next(f, s)}
<1>1. \A s \in 0..Len(d) : s < Len(d) => ChunkEnd(d, s) \in (s + 1)..Len(d)
  BY ChunkEnds
<1>2. 0 \in T
  <2> DEFINE f == [s \in 0..Len(d) |-> <<>>]
  <2>1. \A s \in reached(0) : f[s] = next(f, s)
    OBVIOUS
  <2>2. f = [s \in 0..Len(d) |-> f[s]]
    OBVIOUS
  <2> QED BY <2>1, <2>2
<1>3. ASSUME NEW k \in Nat, k \in T PROVE k + 1 \in T
  <2>1. PICK f : f = [s \in 0..Len(d) |-> f[s]] /\ \A s \in reached(k) : f[s] = next(f, s)
    BY <1>3
  <2> DEFINE g == [s \in 0..Len(d) |-> IF s \in reached(k) THEN f[s] ELSE next(f, s)]
  <2>2. \A s \in 0..Len(d) : g[s] = next(f, s)
    BY <2>1
  <2>3. \A s \in reached(k + 1) : s < Len(d) => ChunkEnd(d, s) \in reached(k)
    BY <1>1
  <2>4. \A s \in reached(k) : g[s] = f[s]
    OBVIOUS
  <2>5. \A s \in reached(k + 1) : next(g, s) = next(f, s)
    <3> SUFFICES ASSUME NEW s \in reached(k + 1) PROVE next(g, s) = next(f, s)
      OBVIOUS
    <3>1. s < Len(d) => g[ChunkEnd(d, s)] = f[ChunkEnd(d, s)]
      BY <2>3, <2>4
    <3>2. s < Len(d) \/ s >= Len(d)
      OBVIOUS
    <3> HIDE DEF g, reached
    <3> QED BY <3>1, <3>2
  <2>6. g = [s \in 0..Len(d) |-> g[s]]
    OBVIOUS
  <2>7. \A s \in reached(k + 1) : g[s] = next(g, s)
    <3> HIDE DEF g, next
    <3> QED BY <2>2, <2>5
  <2> HIDE DEF g, next, reached
  <2> QED BY <2>6, <2>7
<1> HIDE DEF T
<1>4. Len(d) \in T
  BY <1>2, <1>3, InductionOnSets
<1>5. PICK f : f = [s \in 0..Len(d) |-> f[s]] /\ \A s \in reached(Len(d)) : f[s] = next(f, s)
  BY <1>4 DEF T
<1>6. \A s \in 0..Len(d) : f[s] = next(f, s)
  <2>1. \A s \in 0..Len(d) : s \in reached(Len(d))
    OBVIOUS
  <2> HIDE DEF reached, next
  <2> QED BY <1>5, <2>1
<1>7. f = [s \in 0..Len(d) |-> next(f, s)]
  BY <1>5, <1>6, Zenon
<1> QED BY <1>7, Zenon DEF CutsFrom

LEMMA BytesAreCut ==
    ASSUME NEW d, Len(d) \in Nat
    PROVE  \E f : CutsFrom(d, f) /\ chunk_bytes(d) = f[0]
<1> DEFINE f == CHOOSE h : CutsFrom(d, h)
<1>1. CutsFrom(d, f)
  BY CutsExist, Zenon
<1>2. chunk_bytes(d) = f[0]
  BY Zenon DEF chunk_bytes, CutsFrom, FirstPiece
<1> QED BY <1>1, <1>2, Zenon

(* Cutting once more at the end of the buffer changes nothing. *)
LEMMA LoopsAgree ==
    ASSUME NEW d, Len(d) \in Nat
    PROVE  Cut(d) = chunk_bytes(d)
<1>1. \A s \in 0..Len(d) : ~ (s >= Len(d)) => Smaller(ChunkEnd(d, s), Len(d)) = ChunkEnd(d, s)
  BY ChunkEnds
<1>2. \A f : [s \in 0..Len(d) |-> IF s >= Len(d) THEN <<>>
                                  ELSE LET end == Smaller(ChunkEnd(d, s), Len(d))
                                       IN  <<Chunk(d, s, end)>> \o f[end]]
           = [s \in 0..Len(d) |-> IF s >= Len(d) THEN <<>>
                                  ELSE <<Chunk(d, s, ChunkEnd(d, s))>> \o f[ChunkEnd(d, s)]]
  BY <1>1, Zenon
<1> QED BY <1>2, Zenon DEF Cut, chunk_bytes

LEMMA CutAt ==
    ASSUME NEW d, NEW f, CutsFrom(d, f), NEW s \in 0..Len(d)
    PROVE  f[s] = IF s >= Len(d) THEN <<>> ELSE <<FirstPiece(d, s)>> \o f[ChunkEnd(d, s)]
<1> DEFINE next(h) == [t \in 0..Len(d) |-> IF t >= Len(d) THEN <<>> ELSE <<FirstPiece(d, t)>> \o h[ChunkEnd(d, t)]]
<1>1. f = next(f)
  BY Zenon DEF CutsFrom
<1>2. next(f)[s] = IF s >= Len(d) THEN <<>> ELSE <<FirstPiece(d, s)>> \o f[ChunkEnd(d, s)]
  BY Zenon
<1> HIDE DEF next
<1> QED BY <1>1, <1>2, Zenon

Pieces(B) == [offset : Nat, data : Seq(B)]

LEMMA PutFirst ==
    ASSUME NEW S, NEW c \in S, NEW r \in Seq(S)
    PROVE  /\ <<c>> \o r \in Seq(S) /\ Len(r) \in Nat /\ Len(<<c>> \o r) = Len(r) + 1
           /\ (<<c>> \o r)[1] = c
           /\ \A i \in 1..Len(r) : (<<c>> \o r)[i + 1] = r[i]
           /\ \A i \in 1..Len(<<c>> \o r) : i = 1 \/ (i - 1 \in 1..Len(r) /\ (<<c>> \o r)[i] = r[i - 1])
  OBVIOUS

LEMMA SameChunk ==
    ASSUME NEW B, NEW d \in Seq(B), NEW e \in Seq(B), NEW n \in Nat, Agree(e, d, n),
           NEW lo \in Nat, NEW hi \in Nat, hi <= n
    PROVE  Chunk(e, lo, hi) = Chunk(d, lo, hi)
<1>1. PICK a \in Nat \ {0} : a = lo + 1
  OBVIOUS
<1>2. \A x \in 1..(hi - a + 1) : e[x + a - 1] = d[x + a - 1]
  <2> TAKE x \in 1..(hi - a + 1)
  <2>1. x + a - 1 \in 1..n
    OBVIOUS
  <2> QED BY <2>1 DEF Agree
<1>3. SubSeq(e, a, hi) = [x \in 1..(hi - a + 1) |-> e[x + a - 1]]
  OBVIOUS
<1>4. SubSeq(d, a, hi) = [x \in 1..(hi - a + 1) |-> d[x + a - 1]]
  OBVIOUS
<1>5. SubSeq(e, a, hi) = SubSeq(d, a, hi)
  BY <1>2, <1>3, <1>4
<1>6. Chunk(e, lo, hi) = [offset |-> lo, data |-> SubSeq(e, a, hi)]
  BY <1>1 DEF Chunk
<1>7. Chunk(d, lo, hi) = [offset |-> lo, data |-> SubSeq(d, a, hi)]
  BY <1>1 DEF Chunk
<1> QED BY <1>5, <1>6, <1>7, Zenon

LEMMA PieceFacts ==
    ASSUME NEW B, NEW d \in Seq(B), NEW s \in 0..(Len(d) - 1)
    PROVE  /\ FirstPiece(d, s) \in Pieces(B) /\ FirstPiece(d, s).offset = s
           /\ End(FirstPiece(d, s)) = ChunkEnd(d, s)
           /\ Len(FirstPiece(d, s).data) = ChunkEnd(d, s) - s
<1>1. Len(d) \in Nat /\ ChunkEnd(d, s) \in (s + 1)..Len(d)
  BY ChunkEnds
<1> DEFINE data == SubSeq(d, s + 1, ChunkEnd(d, s))
<1>2. data \in Seq(B) /\ Len(data) = ChunkEnd(d, s) - s
  BY <1>1
<1>3. FirstPiece(d, s) = [offset |-> s, data |-> data]
  BY DEF FirstPiece, Chunk
<1> HIDE DEF data
<1> QED BY <1>1, <1>2, <1>3 DEF End, Pieces

(* The chunks q from position s on: consecutive, of their sizes, to the end. *)
SoundFrom(d, s, q) ==
    /\ s < Len(d) => Len(q) > 0
    /\ \A i \in 1..Len(q) :
        /\ q[i].offset = IF i = 1 THEN s ELSE End(q[i - 1])
        /\ End(q[i]) \in Nat /\ End(q[i]) > s
        /\ Len(q[i].data) \in 1..max_size
        /\ i < Len(q) => Len(q[i].data) >= min_size
        /\ i = Len(q) => End(q[i]) = Len(d)

LEMMA CutStep ==
    ASSUME NEW B, NEW d \in Seq(B), NEW f, CutsFrom(d, f), NEW s \in 0..(Len(d) - 1),
           f[ChunkEnd(d, s)] \in Seq(Pieces(B)), SoundFrom(d, ChunkEnd(d, s), f[ChunkEnd(d, s)])
    PROVE  f[s] \in Seq(Pieces(B)) /\ SoundFrom(d, s, f[s])
<1> DEFINE e == ChunkEnd(d, s)
           r == f[e]
           c == FirstPiece(d, s)
           q == <<c>> \o r
<1>1. /\ Len(d) \in Nat /\ s \in Nat /\ s < Len(d) /\ e \in (s + 1)..Len(d) /\ e <= s + max_size
      /\ e < Len(d) => e >= s + min_size
  BY ChunkEnds
<1>2. f[s] = q
  <2>1. s \in 0..Len(d) /\ ~ (s >= Len(d))
    BY <1>1
  <2> QED BY <2>1, CutAt, Zenon
<1>3. c \in Pieces(B) /\ c.offset = s /\ End(c) = e /\ Len(c.data) = e - s
  BY PieceFacts
<1>4. /\ q \in Seq(Pieces(B)) /\ Len(r) \in Nat /\ Len(q) = Len(r) + 1 /\ q[1] = c
      /\ \A i \in 1..Len(r) : q[i + 1] = r[i]
      /\ \A i \in 1..Len(q) : i = 1 \/ (i - 1 \in 1..Len(r) /\ q[i] = r[i - 1])
  BY <1>3, PutFirst
<1>5. SoundFrom(d, e, r)
  OBVIOUS
<1> HIDE DEF e, r, c, q
<1>6. ASSUME NEW i \in 1..Len(q), i = 1
      PROVE  /\ q[i].offset = s /\ End(q[i]) \in Nat /\ End(q[i]) > s
             /\ Len(q[i].data) \in 1..max_size
             /\ i < Len(q) => Len(q[i].data) >= min_size
             /\ i = Len(q) => End(q[i]) = Len(d)
  <2>1. q[i] = c
    BY <1>4, <1>6
  <2>2. e < Len(d) => Len(r) > 0
    BY <1>5 DEF SoundFrom
  <2>3. i < Len(q) => e < Len(d)
    <3>1. ASSUME e = Len(d), 1 \in 1..Len(r) PROVE FALSE
      <4>1. End(r[1]) \in Nat /\ End(r[1]) > e /\ r[1].offset = e
        BY <1>5, <3>1 DEF SoundFrom
      <4>2. PICK j \in 1..Len(r) : j = Len(r)
        BY <1>4, <3>1
      <4>3. End(r[j]) = Len(d) /\ End(r[j]) > e
        BY <1>5, <4>2 DEF SoundFrom
      <4> QED BY <1>1, <3>1, <4>3
    <3> QED BY <1>1, <1>4, <1>6, <3>1
  <2>4. /\ q[i].offset = s /\ End(q[i]) = e /\ Len(q[i].data) = e - s
    BY <1>3, <2>1
  <2>5. e - s \in 1..max_size /\ (e < Len(d) => e - s >= min_size)
    BY <1>1, SizesInOrder
  <2>6. i = Len(q) => e = Len(d)
    BY <1>1, <1>4, <1>6, <2>2
  <2>7. e \in Nat /\ e > s
    BY <1>1
  <2>8. End(q[i]) \in Nat /\ End(q[i]) > s
    BY <2>4, <2>7
  <2>9. Len(q[i].data) \in 1..max_size
    BY <2>4, <2>5
  <2>10. i < Len(q) => Len(q[i].data) >= min_size
    BY <2>3, <2>4, <2>5
  <2>11. i = Len(q) => End(q[i]) = Len(d)
    BY <2>4, <2>6
  <2> QED BY <2>4, <2>8, <2>9, <2>10, <2>11
<1>7. ASSUME NEW i \in 1..Len(q), i # 1
      PROVE  /\ q[i].offset = End(q[i - 1]) /\ End(q[i]) \in Nat /\ End(q[i]) > s
             /\ Len(q[i].data) \in 1..max_size
             /\ i < Len(q) => Len(q[i].data) >= min_size
             /\ i = Len(q) => End(q[i]) = Len(d)
  <2>1. PICK j \in 1..Len(r) : i = j + 1 /\ q[i] = r[j]
    <3>1. i - 1 \in 1..Len(r) /\ q[i] = r[i - 1]
      BY <1>4, <1>7, Zenon
    <3>2. i = (i - 1) + 1
      OBVIOUS
    <3> QED BY <3>1, <3>2, Zenon
  <2>2. /\ r[j].offset = IF j = 1 THEN e ELSE End(r[j - 1])
        /\ End(r[j]) \in Nat /\ End(r[j]) > e
        /\ Len(r[j].data) \in 1..max_size
        /\ j < Len(r) => Len(r[j].data) >= min_size
        /\ j = Len(r) => End(r[j]) = Len(d)
    BY <1>5 DEF SoundFrom
  <2>3. End(q[i - 1]) = IF j = 1 THEN e ELSE End(r[j - 1])
    <3>1. CASE j = 1
      BY <1>3, <1>4, <2>1, <3>1
    <3>2. CASE j # 1
      <4>1. i - 1 \in 1..Len(q) /\ i - 1 # 1 /\ (i - 1) - 1 = j - 1
        BY <1>4, <2>1, <3>2
      <4>2. q[i - 1] = r[j - 1]
        BY <1>4, <4>1
      <4> QED BY <3>2, <4>2
    <3> QED BY <3>1, <3>2
  <2> QED BY <1>1, <1>4, <2>1, <2>2, <2>3
<1>8. SoundFrom(d, s, q)
  BY <1>4, <1>6, <1>7 DEF SoundFrom
<1> QED BY <1>2, <1>4, <1>8

LEMMA CutsSound ==
    ASSUME NEW B, NEW d \in Seq(B), NEW f, CutsFrom(d, f)
    PROVE  \A s \in 0..Len(d) : f[s] \in Seq(Pieces(B)) /\ SoundFrom(d, s, f[s])
<1> DEFINE Good(s) == f[s] \in Seq(Pieces(B)) /\ SoundFrom(d, s, f[s])
           T == {k \in Nat : \A s \in 0..Len(d) : s + k >= Len(d) => Good(s)}
<1>1. Len(d) \in Nat
  OBVIOUS
<1>2. 0 \in T
  <2>1. f[Len(d)] = <<>>
    <3>1. Len(d) \in 0..Len(d) /\ Len(d) >= Len(d)
      BY <1>1
    <3> QED BY <3>1, CutAt, Zenon
  <2>2. Good(Len(d))
    BY <1>1, <2>1 DEF SoundFrom
  <2> HIDE DEF Good
  <2>3. ASSUME NEW s \in 0..Len(d), s + 0 >= Len(d) PROVE Good(s)
    <3>1. s = Len(d)
      BY <1>1, <2>3
    <3> QED BY <2>2, <3>1
  <2> QED BY <2>3
<1>3. ASSUME NEW k \in Nat, k \in T PROVE k + 1 \in T
  <2> SUFFICES ASSUME NEW s \in 0..Len(d), s + (k + 1) >= Len(d) PROVE Good(s)
    OBVIOUS
  <2> HIDE DEF Good
  <2>1. CASE s + k >= Len(d)
    BY <1>3, <2>1
  <2>2. CASE s + k < Len(d)
    <3>1. s \in 0..(Len(d) - 1) /\ ChunkEnd(d, s) \in (s + 1)..Len(d)
      BY <1>1, <2>2, ChunkEnds
    <3>2. ChunkEnd(d, s) \in 0..Len(d) /\ ChunkEnd(d, s) + k >= Len(d)
      BY <1>1, <3>1
    <3>3. Good(ChunkEnd(d, s))
      BY <1>3, <3>2
    <3> QED BY <3>1, <3>3, CutStep DEF Good
  <2> QED BY <1>1, <2>1, <2>2
<1> HIDE DEF T, Good
<1>4. Len(d) \in T
  BY <1>1, <1>2, <1>3, InductionOnSets
<1>5. ASSUME NEW s \in 0..Len(d) PROVE Good(s)
  BY <1>1, <1>4 DEF T
<1> QED BY <1>5 DEF Good

(* What is cut of a prefix is what is cut of the whole, as far as it ends there. *)
LEMMA PrefixCuts ==
    ASSUME NEW B, NEW d \in Seq(B), NEW n \in 0..Len(d), NEW e \in Seq(B), Len(e) = n, Agree(e, d, n),
           NEW f, CutsFrom(d, f), NEW g, CutsFrom(e, g)
    PROVE  \A s \in 0..n : \A i \in 1..Len(f[s]) : End(f[s][i]) <= n => i \in 1..Len(g[s]) /\ g[s][i] = f[s][i]
<1> DEFINE Same(s) == \A i \in 1..Len(f[s]) : End(f[s][i]) <= n => i \in 1..Len(g[s]) /\ g[s][i] = f[s][i]
           T == {k \in Nat : \A s \in 0..n : s + k >= n => Same(s)}
<1>1. Len(d) \in Nat /\ n \in Nat /\ n <= Len(d)
  OBVIOUS
<1>2. \A s \in 0..n : f[s] \in Seq(Pieces(B)) /\ SoundFrom(d, s, f[s])
  BY <1>1, CutsSound
<1>3. \A s \in 0..n : g[s] \in Seq(Pieces(B))
  BY CutsSound
<1>4. 0 \in T
  <2>1. Same(n)
    BY <1>1, <1>2 DEF SoundFrom
  <2> HIDE DEF Same
  <2>2. ASSUME NEW s \in 0..n, s + 0 >= n PROVE Same(s)
    <3>1. s = n
      BY <1>1, <2>2
    <3> QED BY <2>1, <3>1
  <2> QED BY <2>2
<1>5. ASSUME NEW k \in Nat, k \in T PROVE k + 1 \in T
  <2> SUFFICES ASSUME NEW s \in 0..n, s + (k + 1) >= n, NEW i \in 1..Len(f[s]), End(f[s][i]) <= n
               PROVE  i \in 1..Len(g[s]) /\ g[s][i] = f[s][i]
    OBVIOUS
  <2>1. CASE s + k >= n
    BY <1>5, <2>1
  <2>2. CASE s + k < n
    <3> DEFINE m == ChunkEnd(d, s)
    <3>1. s \in 0..(n - 1) /\ s \in 0..(Len(d) - 1) /\ m \in (s + 1)..Len(d) /\ ~ (s >= Len(d)) /\ ~ (s >= n)
      BY <1>1, <2>2, ChunkEnds
    <3>2. f[s] = <<FirstPiece(d, s)>> \o f[m]
      <4>1. s \in 0..Len(d) /\ ~ (s >= Len(d))
        BY <1>1, <3>1
      <4> QED BY <4>1, CutAt, Zenon
    <3>3. FirstPiece(d, s) \in Pieces(B) /\ End(FirstPiece(d, s)) = m
      BY <3>1, PieceFacts
    <3>4. f[m] \in Seq(Pieces(B)) /\ SoundFrom(d, m, f[m])
      BY <3>1, CutsSound
    <3>5. \/ i = 1 /\ f[s][i] = FirstPiece(d, s)
          \/ i - 1 \in 1..Len(f[m]) /\ f[s][i] = f[m][i - 1]
      BY <3>2, <3>3, <3>4, PutFirst
    <3>6. m <= n
      <4>1. CASE i = 1 /\ f[s][i] = FirstPiece(d, s)
        BY <3>3, <4>1
      <4>2. CASE i - 1 \in 1..Len(f[m]) /\ f[s][i] = f[m][i - 1]
        <5>1. End(f[s][i]) \in Nat /\ End(f[s][i]) > m
          BY <3>4, <4>2 DEF SoundFrom
        <5> QED BY <1>1, <3>1, <5>1
      <4> QED BY <3>5, <4>1, <4>2
    <3>7. ChunkEnd(e, s) = m
      BY <3>1, <3>6, ChunkEndStable
    <3>8. FirstPiece(e, s) = FirstPiece(d, s)
      <4>1. s \in Nat /\ m \in Nat /\ n \in Nat
        BY <1>1, <3>1
      <4> HIDE DEF m
      <4>2. Chunk(e, s, m) = Chunk(d, s, m)
        <5>1. \A lo, hi \in Nat : hi <= n => Chunk(e, lo, hi) = Chunk(d, lo, hi)
          BY <4>1, SameChunk
        <5> QED BY <3>6, <4>1, <5>1
      <4> USE DEF m
      <4> QED BY <3>7, <4>2, Zenon DEF FirstPiece
    <3>9. g[s] = <<FirstPiece(d, s)>> \o g[m]
      <4>1. s \in 0..Len(e) /\ ~ (s >= Len(e))
        BY <1>1, <3>1
      <4> QED BY <3>7, <3>8, <4>1, CutAt, Zenon
    <3>10. m \in 0..n /\ m + k >= n
      BY <1>1, <3>1, <3>6
    <3>11. Same(m)
      BY <1>5, <3>10
    <3>12. g[m] \in Seq(Pieces(B))
      BY <1>3, <3>10
    <3> HIDE DEF m, Same
    <3>13. CASE i = 1
      BY <3>2, <3>3, <3>4, <3>9, <3>12, <3>13, PutFirst
    <3>14. CASE i - 1 \in 1..Len(f[m]) /\ f[s][i] = f[m][i - 1]
      <4>1. End(f[m][i - 1]) <= n
        BY <3>14
      <4>2. i - 1 \in 1..Len(g[m]) /\ g[m][i - 1] = f[m][i - 1]
        BY <3>11, <3>14, <4>1 DEF Same
      <4>3. i \in 1..Len(g[s])
        BY <3>3, <3>9, <3>12, <4>2, PutFirst
      <4>4. (<<FirstPiece(d, s)>> \o g[m])[(i - 1) + 1] = g[m][i - 1]
        BY <3>3, <3>12, <4>2, PutFirst
      <4> QED BY <3>9, <3>14, <4>2, <4>3, <4>4
    <3> QED BY <3>5, <3>13, <3>14
  <2> QED BY <1>1, <2>1, <2>2
<1> HIDE DEF T
<1>6. n \in T
  BY <1>1, <1>4, <1>5, InductionOnSets
<1> QED BY <1>1, <1>6 DEF T

LEMMA BufferTyped == ChunkerInit /\ [][chunk_stream]_buffer => [](buffer \in Seq(DOMAIN Gear))
<1>1. ChunkerInit => buffer \in Seq(DOMAIN Gear)
  BY DEF ChunkerInit
<1>2. buffer \in Seq(DOMAIN Gear) /\ [chunk_stream]_buffer => (buffer \in Seq(DOMAIN Gear))'
  BY DEF chunk_stream
<1> QED BY <1>1, <1>2, PTL

LEMMA StableCuts ==
    ASSUME NEW B, buffer \in Seq(B)
    PROVE  CutsAreStable
<1> DEFINE all == chunk_bytes(buffer)
<1>1. Len(buffer) \in Nat
  OBVIOUS
<1>2. PICK f : CutsFrom(buffer, f) /\ all = f[0]
  BY <1>1, BytesAreCut
<1>3. all \in Seq(Pieces(B)) /\ SoundFrom(buffer, 0, all)
  BY <1>1, <1>2, CutsSound
<1>4. Cut(buffer) = all
  BY <1>1, LoopsAgree
<1> HIDE DEF all
<1>5. ASSUME NEW i \in 1..Len(all), NEW n \in End(all[i])..Len(buffer)
      PROVE  chunk_bytes(SubSeq(buffer, 1, n))[i] = all[i]
  <2>1. End(all[i]) \in Nat /\ n \in 0..Len(buffer) /\ End(all[i]) <= n
    BY <1>1, <1>3 DEF SoundFrom
  <2>2. PICK e : e = SubSeq(buffer, 1, n)
    OBVIOUS
  <2>3. e \in Seq(B) /\ Len(e) = n /\ Agree(e, buffer, n) /\ Len(e) \in Nat
    BY <1>1, <2>1, <2>2 DEF Agree
  <2>4. PICK g : CutsFrom(e, g) /\ chunk_bytes(e) = g[0]
    BY <2>3, BytesAreCut
  <2>5. \A s \in 0..n : \A j \in 1..Len(f[s]) : End(f[s][j]) <= n => j \in 1..Len(g[s]) /\ g[s][j] = f[s][j]
    BY <1>2, <2>1, <2>3, <2>4, PrefixCuts
  <2>6. 0 \in 0..n /\ i \in 1..Len(f[0]) /\ End(f[0][i]) <= n
    BY <1>2, <2>1
  <2>7. g[0][i] = f[0][i]
    BY <2>5, <2>6
  <2> QED BY <1>2, <2>2, <2>4, <2>7
<1> QED BY <1>3, <1>4, <1>5 DEF all, CutsAreStable, SoundFrom

ChunkerSpec == ChunkerInit /\ [][chunk_stream]_buffer

(* CutsAreStable: for every content, table and sizes in order, both loops of  *)
(* the chunker cut the content into the same consecutive chunks of at least   *)
(* min_size, but for the last, and at most max_size, and a file that only     *)
(* grew keeps all of its chunks but the last.                                 *)
THEOREM CutsStayStable == ChunkerSpec => []CutsAreStable
<1>1. buffer \in Seq(DOMAIN Gear) => CutsAreStable
  BY StableCuts
<1> QED BY <1>1, BufferTyped, PTL DEF ChunkerSpec

(***************************************************************************)
(* The hash of a manifest.                                                 *)
(***************************************************************************)
LEMMA PlaceIsBijection ==
    ASSUME NEW fs \in Seq(FileEntries)
    PROVE  /\ \A i \in 1..Len(fs) : Cardinality(Before(fs, i)) \in 1..Len(fs)
           /\ \A n \in 1..Len(fs) : \E i \in 1..Len(fs) : Cardinality(Before(fs, i)) = n
           /\ \A i, j \in 1..Len(fs) : Cardinality(Before(fs, i)) = Cardinality(Before(fs, j)) => i = j
<1> DEFINE mine  == 1..Len(fs)
           place == [i \in mine |-> Cardinality(Before(fs, i))]
<1>1. /\ Len(fs) \in Nat /\ mine \subseteq Nat
      /\ \A i \in mine : fs[i].path \in Nat
  BY ManifestHashAssumption
<1>2. IsFiniteSet(mine) /\ Cardinality(mine) = Len(fs)
  <2>1. Len(fs) \in Nat
    OBVIOUS
  <2> QED BY <2>1, FS_Interval
<1>3. \A i \in mine : IsFiniteSet(Before(fs, i)) /\ Cardinality(Before(fs, i)) <= Len(fs)
  <2> TAKE i \in mine
  <2>1. Before(fs, i) \in SUBSET mine
    BY DEF Before
  <2> QED BY <1>2, <2>1, FS_Subset
<1>4. \A i \in mine : Cardinality(Before(fs, i)) \in 1..Len(fs)
  <2> TAKE i \in mine
  <2>1. Cardinality(Before(fs, i)) \in Nat
    BY <1>3, FS_CardinalityType
  <2>2. i \in Before(fs, i)
    BY <1>1 DEF Before
  <2>3. Cardinality(Before(fs, i)) # 0
    BY <1>3, <2>2, FS_EmptySet
  <2> QED BY <1>1, <1>3, <2>1, <2>3
<1>5. ASSUME NEW i \in mine, NEW j \in mine, i # j, j \in Before(fs, i)
      PROVE  Cardinality(Before(fs, j)) # Cardinality(Before(fs, i))
  <2>1. Before(fs, j) \in SUBSET Before(fs, i)
    BY <1>1, <1>5 DEF Before
  <2>2. i \in Before(fs, i) /\ i \notin Before(fs, j)
    BY <1>1, <1>5 DEF Before
  <2> QED BY <1>3, <2>1, <2>2, FS_Subset
<1>6. \A i, j \in mine : i \in Before(fs, j) \/ j \in Before(fs, i)
  BY <1>1 DEF Before
<1>7. \A i, j \in mine : place[i] = place[j] => i = j
  BY <1>5, <1>6
<1>8. place \in Injection(mine, 1..Len(fs))
  BY <1>4, <1>7 DEF Injection, IsInjective
<1>9. place \in Surjection(mine, 1..Len(fs))
  BY <1>2, <1>8, FS_Injection
<1>10. \A n \in 1..Len(fs) : \E i \in mine : place[i] = n
  BY <1>9 DEF Surjection
<1> QED BY <1>4, <1>7, <1>10

LEMMA SortedFacts ==
    ASSUME NEW fs \in Seq(FileEntries)
    PROVE  /\ Len(fs) \in Nat /\ \A i \in 1..Len(fs) : fs[i] \in FileEntries
           /\ \A n \in 1..Len(fs) : \E i \in 1..Len(fs) :
                 Cardinality(Before(fs, i)) = n /\ Sorted(fs)[n] = fs[i]
           /\ \A i \in 1..Len(fs) : \E n \in 1..Len(fs) : Sorted(fs)[n] = fs[i]
<1> DEFINE at(n) == CHOOSE i \in 1..Len(fs) : Cardinality(Before(fs, i)) = n
           s     == [n \in 1..Len(fs) |-> fs[at(n)]]
<1>1. Len(fs) \in Nat /\ \A i \in 1..Len(fs) : fs[i] \in FileEntries
  OBVIOUS
<1>2. \A n \in 1..Len(fs) : at(n) \in 1..Len(fs) /\ Cardinality(Before(fs, at(n))) = n
  BY PlaceIsBijection
<1> HIDE DEF at
<1>3. s \in Seq(FileEntries) /\ Len(s) = Len(fs) /\ \A n \in 1..Len(fs) : s[n] = fs[at(n)]
  BY <1>1, <1>2
<1>4. Sorted(fs) = SubSeq(s, 1, Len(fs))
  BY Zenon DEF Sorted, at
<1> HIDE DEF s
<1>5. \A n \in 1..Len(fs) : Sorted(fs)[n] = fs[at(n)]
  BY <1>1, <1>3, <1>4
<1>6. ASSUME NEW i \in 1..Len(fs) PROVE \E n \in 1..Len(fs) : Sorted(fs)[n] = fs[i]
  <2>1. PICK n \in 1..Len(fs) : n = Cardinality(Before(fs, i))
    BY PlaceIsBijection
  <2>2. at(n) = i
    BY <1>2, <2>1, PlaceIsBijection
  <2> QED BY <1>5, <2>2
<1>7. ASSUME NEW n \in 1..Len(fs)
      PROVE  \E i \in 1..Len(fs) : Cardinality(Before(fs, i)) = n /\ Sorted(fs)[n] = fs[i]
  BY <1>2, <1>5
<1> QED BY <1>1, <1>6, <1>7

(* The levels of the tree over the files, as calculate_hash builds them. *)
Leaf(fs) == [i \in 1..Len(fs) |-> hash_file_entry(Sorted(fs)[i])]
LevelOver(below) == IF Len(below) > 1 THEN hash_pairs(below) ELSE below
LevelsOver(leaf, top, h) ==
    h = [n \in 0..top |-> IF n = 0 THEN leaf ELSE LevelOver(h[n - 1])]
Levels(fs, h) == LevelsOver(Leaf(fs), Len(fs), h)

LEMMA LevelsExist ==
    ASSUME NEW fs, Len(fs) \in Nat
    PROVE  \E h : Levels(fs, h)
<1> DEFINE next(h, n) == IF n = 0 THEN Leaf(fs) ELSE LevelOver(h[n - 1])
           T == {k \in Nat : \E h : h = [n \in 0..Len(fs) |-> h[n]]
                                    /\ \A n \in 0..Len(fs) : n <= k => h[n] = next(h, n)}
<1>1. 0 \in T
  <2> DEFINE h == [n \in 0..Len(fs) |-> Leaf(fs)]
  <2>1. h = [n \in 0..Len(fs) |-> h[n]]
    OBVIOUS
  <2>2. \A n \in 0..Len(fs) : n <= 0 => h[n] = next(h, n)
    OBVIOUS
  <2> HIDE DEF h, next
  <2> QED BY <2>1, <2>2
<1>2. ASSUME NEW k \in Nat, k \in T PROVE k + 1 \in T
  <2>1. PICK h : h = [n \in 0..Len(fs) |-> h[n]] /\ \A n \in 0..Len(fs) : n <= k => h[n] = next(h, n)
    BY <1>2
  <2> DEFINE g == [n \in 0..Len(fs) |-> IF n <= k THEN h[n] ELSE next(h, n)]
  <2>2. \A n \in 0..Len(fs) : g[n] = next(h, n)
    BY <2>1
  <2>3. \A n \in 0..Len(fs) : n <= k => g[n] = h[n]
    OBVIOUS
  <2>4. \A n \in 0..Len(fs) : n <= k + 1 => next(g, n) = next(h, n)
    <3> SUFFICES ASSUME NEW n \in 0..Len(fs), n <= k + 1, n # 0 PROVE g[n - 1] = h[n - 1]
      OBVIOUS
    <3>1. n - 1 \in 0..Len(fs) /\ n - 1 <= k
      OBVIOUS
    <3> HIDE DEF g
    <3> QED BY <2>3, <3>1
  <2>5. g = [n \in 0..Len(fs) |-> g[n]]
    OBVIOUS
  <2> HIDE DEF g, next
  <2>6. \A n \in 0..Len(fs) : n <= k + 1 => g[n] = next(g, n)
    BY <2>2, <2>4
  <2> QED BY <2>5, <2>6
<1> HIDE DEF T, next
<1>3. Len(fs) \in T
  BY <1>1, <1>2, InductionOnSets
<1>4. PICK h : h = [n \in 0..Len(fs) |-> h[n]] /\ \A n \in 0..Len(fs) : n <= Len(fs) => h[n] = next(h, n)
  BY <1>3 DEF T
<1>5. \A n \in 0..Len(fs) : h[n] = next(h, n)
  <2>1. \A n \in 0..Len(fs) : n <= Len(fs)
    OBVIOUS
  <2> QED BY <1>4, <2>1
<1>6. h = [n \in 0..Len(fs) |-> next(h, n)]
  BY <1>4, <1>5, Zenon
<1> QED BY <1>6, Zenon DEF Levels, LevelsOver, next

LEMMA TreeHash ==
    ASSUME NEW fs, Len(fs) \in Nat, fs # <<>>
    PROVE  \E h : Levels(fs, h) /\ calculate_hash(fs) = h[Len(fs)][1]
<1> DEFINE h == CHOOSE g : Levels(fs, g)
<1>1. Levels(fs, h)
  BY LevelsExist, Zenon
<1>2. calculate_hash(fs) = h[Len(fs)][1]
  BY Zenon DEF calculate_hash, Levels, LevelsOver, Leaf, LevelOver
<1> QED BY <1>1, <1>2, Zenon

LEMMA LevelAt ==
    ASSUME NEW fs, Len(fs) \in Nat, NEW h, Levels(fs, h)
    PROVE  h[0] = Leaf(fs) /\ \A n \in 1..Len(fs) : h[n] = LevelOver(h[n - 1])
<1> DEFINE next(g) == [n \in 0..Len(fs) |-> IF n = 0 THEN Leaf(fs) ELSE LevelOver(g[n - 1])]
<1>1. h = next(h)
  BY Zenon DEF Levels, LevelsOver
<1>2. 0 \in 0..Len(fs) /\ \A n \in 1..Len(fs) : n \in 0..Len(fs) /\ n # 0
  OBVIOUS
<1>3. next(h)[0] = Leaf(fs) /\ \A n \in 1..Len(fs) : next(h)[n] = LevelOver(h[n - 1])
  BY <1>2, Zenon
<1> HIDE DEF next
<1> QED BY <1>1, <1>3, Zenon

Values(q) == {q[i] : i \in 1..Len(q)}
Halves(V) == {v.left : v \in V} \cup {v.right : v \in V}
AllPairs(V) == \A v \in V : "left" \in DOMAIN v

LEMMA PairUp ==
    ASSUME NEW S, NEW q \in Seq(S), Len(q) > 1
    PROVE  /\ hash_pairs(q) \in Seq([left : S, right : S])
           /\ Len(hash_pairs(q)) \in Nat \ {0} /\ Len(hash_pairs(q)) < Len(q)
           /\ Halves(Values(hash_pairs(q))) = Values(q) /\ AllPairs(Values(hash_pairs(q)))
<1> DEFINE n == Len(q)
           m == (n + 1) \div 2
           right(i) == IF 2 * i <= n THEN q[2 * i] ELSE q[2 * i - 1]
           p == [i \in 1..m |-> [left |-> q[2 * i - 1], right |-> right(i)]]
<1>1. n \in Nat /\ n > 1 /\ m \in Nat \ {0} /\ m < n
  OBVIOUS
<1>2. \A i \in 1..m : 2 * i - 1 \in 1..n
  BY <1>1
<1>3. \A i \in 1..m : q[2 * i - 1] \in S /\ right(i) \in S /\ right(i) \in Values(q) /\ q[2 * i - 1] \in Values(q)
  <2> TAKE i \in 1..m
  <2>1. 2 * i <= n => 2 * i \in 1..n
    BY <1>1
  <2> QED BY <1>2, <2>1 DEF Values
<1>4. hash_pairs(q) = p
  BY DEF hash_pairs
<1> HIDE DEF right, m
<1>5. p \in Seq([left : S, right : S]) /\ Len(p) = m
  BY <1>1, <1>3
<1>6. \A i \in 1..m : p[i].left = q[2 * i - 1] /\ p[i].right = right(i) /\ "left" \in DOMAIN p[i]
  OBVIOUS
<1> HIDE DEF p
<1>7. Halves(Values(p)) \subseteq Values(q)
  <2>1. ASSUME NEW v \in Values(p) PROVE v.left \in Values(q) /\ v.right \in Values(q)
    <3>1. PICK i \in 1..m : v = p[i]
      BY <1>5 DEF Values
    <3> QED BY <1>3, <1>6, <3>1
  <2> QED BY <2>1 DEF Halves
<1>8. Values(q) \subseteq Halves(Values(p))
  <2> SUFFICES ASSUME NEW j \in 1..n PROVE q[j] \in Halves(Values(p))
    BY DEF Values
  <2>1. PICK i \in 1..m : j = 2 * i - 1 \/ j = 2 * i
    <3>1. (j + 1) \div 2 \in 1..m /\ (j = 2 * ((j + 1) \div 2) - 1 \/ j = 2 * ((j + 1) \div 2))
      BY <1>1 DEF m
    <3> QED BY <3>1
  <2>2. p[i] \in Values(p)
    BY <1>5 DEF Values
  <2>3. p[i].left \in Halves(Values(p)) /\ p[i].right \in Halves(Values(p))
    BY <2>2 DEF Halves
  <2>4. CASE j = 2 * i - 1
    BY <1>6, <2>3, <2>4
  <2>5. CASE j = 2 * i
    BY <1>1, <1>6, <2>3, <2>5 DEF right
  <2> QED BY <2>1, <2>4, <2>5
<1>9. AllPairs(Values(p))
  BY <1>5, <1>6 DEF AllPairs, Values
<1> QED BY <1>1, <1>4, <1>5, <1>7, <1>8, <1>9

(* Some set has the elements of q. *)
IsSequence(q) == \E S : q \in Seq(S)

LEMMA LevelFacts ==
    ASSUME NEW fs \in Seq(FileEntries), fs # <<>>, NEW h, Levels(fs, h)
    PROVE  \A n \in 0..Len(fs) :
              /\ IsSequence(h[n]) /\ Len(h[n]) \in Nat \ {0}
              /\ Len(h[n]) = 1 \/ Len(h[n]) + n <= Len(fs)
<1> DEFINE Good(n) == /\ IsSequence(h[n]) /\ Len(h[n]) \in Nat \ {0}
                      /\ Len(h[n]) = 1 \/ Len(h[n]) + n <= Len(fs)
           T == {n \in Nat : n <= Len(fs) => Good(n)}
<1>1. Len(fs) \in Nat \ {0}
  OBVIOUS
<1>2. h[0] = Leaf(fs) /\ \A n \in 1..Len(fs) : h[n] = LevelOver(h[n - 1])
  BY <1>1, LevelAt
<1>3. 0 \in T
  <2> DEFINE S == {hash_file_entry(Sorted(fs)[i]) : i \in 1..Len(fs)}
  <2>1. Leaf(fs) \in Seq(S) /\ Len(Leaf(fs)) = Len(fs)
    BY <1>1 DEF Leaf
  <2>2. IsSequence(h[0])
    BY <1>2, <2>1, Zenon DEF IsSequence
  <2> QED BY <1>1, <1>2, <2>1, <2>2
<1>4. ASSUME NEW n \in Nat, n \in T PROVE n + 1 \in T
  <2> HIDE DEF Good
  <2> SUFFICES ASSUME n + 1 <= Len(fs) PROVE Good(n + 1)
    OBVIOUS
  <2>0. Good(n)
    BY <1>1, <1>4
  <2>1. Len(h[n]) \in Nat \ {0} /\ (Len(h[n]) = 1 \/ Len(h[n]) + n <= Len(fs))
    BY <2>0, Zenon DEF Good
  <2>2. h[n + 1] = LevelOver(h[n])
    <3>1. n + 1 \in 1..Len(fs) /\ (n + 1) - 1 = n
      BY <1>1
    <3> QED BY <1>2, <3>1
  <2>3. PICK S : h[n] \in Seq(S)
    BY <2>0 DEF IsSequence, Good
  <2>4. CASE Len(h[n]) > 1
    <3>1. h[n + 1] = hash_pairs(h[n])
      BY <2>2, <2>4 DEF LevelOver
    <3>2. /\ h[n + 1] \in Seq([left : S, right : S])
          /\ Len(h[n + 1]) \in Nat \ {0} /\ Len(h[n + 1]) < Len(h[n])
      BY <2>3, <2>4, <3>1, PairUp
    <3>3. IsSequence(h[n + 1])
      BY <3>2, Zenon DEF IsSequence
    <3>4. Len(h[n + 1]) + (n + 1) <= Len(fs)
      <4>1. ASSUME NEW a \in Nat, NEW b \in Nat, a > 1, b < a, a = 1 \/ a + n <= Len(fs)
            PROVE  b + (n + 1) <= Len(fs)
        BY <1>1, <4>1
      <4>2. Len(h[n]) \in Nat /\ Len(h[n + 1]) \in Nat
        BY <2>1, <3>2
      <4> QED BY <2>1, <2>4, <3>2, <4>1, <4>2, Zenon
    <3> QED BY <3>2, <3>3, <3>4, Zenon DEF Good
  <2>5. CASE ~ (Len(h[n]) > 1)
    <3>1. h[n + 1] = h[n]
      BY <2>2, <2>5 DEF LevelOver
    <3>2. Len(h[n]) = 1
      <4>1. \A x \in Nat \ {0} : ~ (x > 1) => x = 1
        OBVIOUS
      <4> QED BY <2>1, <2>5, <4>1, Zenon
    <3>3. IsSequence(h[n + 1])
      BY <2>0, <3>1 DEF Good
    <3>4. Len(h[n + 1]) \in Nat \ {0} /\ Len(h[n + 1]) = 1
      BY <3>1, <3>2
    <3> QED BY <3>3, <3>4, Zenon DEF Good
  <2> QED BY <2>4, <2>5
<1> HIDE DEF T, Good
<1>5. \A n \in Nat : n \in T
  BY <1>3, <1>4, InductionOnSets
<1>6. ASSUME NEW n \in 0..Len(fs) PROVE Good(n)
  BY <1>1, <1>5 DEF T
<1> QED BY <1>6 DEF Good

(* A level is that of the leaves, or the halves of its pairs are a level below. *)
LEMMA LevelsBelow ==
    ASSUME NEW fs \in Seq(FileEntries), fs # <<>>, NEW h, Levels(fs, h)
    PROVE  \A n \in 0..Len(fs) :
              \/ Values(h[n]) = Leaves(fs)
              \/ /\ AllPairs(Values(h[n]))
                 /\ \E m \in 0..Len(fs) : m < n /\ Values(h[m]) = Halves(Values(h[n]))
<1> DEFINE Good(n) == \/ Values(h[n]) = Leaves(fs)
                      \/ /\ AllPairs(Values(h[n]))
                         /\ \E m \in 0..Len(fs) : m < n /\ Values(h[m]) = Halves(Values(h[n]))
           T == {n \in Nat : n <= Len(fs) => Good(n)}
<1>1. Len(fs) \in Nat \ {0}
  OBVIOUS
<1>2. h[0] = Leaf(fs) /\ \A n \in 1..Len(fs) : h[n] = LevelOver(h[n - 1])
  BY <1>1, LevelAt
<1>3. 0 \in T
  <2>1. Len(Leaf(fs)) = Len(fs) /\ \A n \in 1..Len(fs) : Leaf(fs)[n] = hash_file_entry(Sorted(fs)[n])
    BY <1>1 DEF Leaf
  <2>2. Values(Leaf(fs)) \subseteq Leaves(fs)
    <3> SUFFICES ASSUME NEW n \in 1..Len(fs) PROVE hash_file_entry(Sorted(fs)[n]) \in Leaves(fs)
      BY <2>1 DEF Values
    <3>1. PICK i \in 1..Len(fs) : Sorted(fs)[n] = fs[i]
      BY SortedFacts
    <3> QED BY <3>1 DEF Leaves
  <2>3. Leaves(fs) \subseteq Values(Leaf(fs))
    <3> SUFFICES ASSUME NEW i \in 1..Len(fs) PROVE hash_file_entry(fs[i]) \in Values(Leaf(fs))
      BY DEF Leaves
    <3>1. PICK n \in 1..Len(fs) : Sorted(fs)[n] = fs[i]
      BY SortedFacts
    <3>2. Leaf(fs)[n] = hash_file_entry(fs[i])
      BY <2>1, <3>1
    <3> QED BY <2>1, <3>2 DEF Values
  <2>4. Values(h[0]) = Leaves(fs)
    BY <1>2, <2>2, <2>3
  <2> QED BY <2>4
<1>4. ASSUME NEW n \in Nat, n \in T PROVE n + 1 \in T
  <2> SUFFICES ASSUME n + 1 <= Len(fs) PROVE Good(n + 1)
    OBVIOUS
  <2>1. Good(n) /\ n \in 0..Len(fs)
    BY <1>1, <1>4
  <2>2. h[n + 1] = LevelOver(h[n])
    <3>1. n + 1 \in 1..Len(fs) /\ (n + 1) - 1 = n
      BY <1>1
    <3> QED BY <1>2, <3>1
  <2>3. CASE Len(h[n]) > 1
    <3>1. PICK S : h[n] \in Seq(S)
      BY <2>1, LevelFacts DEF IsSequence
    <3>2. h[n + 1] = hash_pairs(h[n])
      BY <2>2, <2>3 DEF LevelOver
    <3>3. AllPairs(Values(h[n + 1])) /\ Values(h[n]) = Halves(Values(h[n + 1]))
      BY <2>3, <3>1, <3>2, PairUp
    <3> QED BY <1>1, <2>1, <3>3
  <2>4. CASE ~ (Len(h[n]) > 1)
    <3>1. h[n + 1] = h[n]
      BY <2>2, <2>4 DEF LevelOver
    <3> QED BY <1>1, <2>1, <3>1
  <2> QED BY <2>3, <2>4
<1> HIDE DEF T, Good
<1>5. \A n \in Nat : n \in T
  BY <1>3, <1>4, InductionOnSets
<1>6. ASSUME NEW n \in 0..Len(fs) PROVE Good(n)
  BY <1>1, <1>5 DEF T
<1> QED BY <1>6 DEF Good

LEMMA LeavesAreNoPairs ==
    ASSUME NEW fs \in Seq(FileEntries), NEW v \in Leaves(fs)
    PROVE  /\ "left" \notin DOMAIN v /\ "path" \in DOMAIN v /\ "empty" \notin DOMAIN v
           /\ \E i \in 1..Len(fs) : v = hash_file_entry(fs[i])
<1>1. PICK i \in 1..Len(fs) : v = hash_file_entry(fs[i])
  BY DEF Leaves
<1>2. PICK e \in FileEntries : e = fs[i]
  OBVIOUS
<1>3. e = [path |-> e.path, data |-> e.data, mode |-> e.mode]
  BY ManifestHashAssumption
<1>4. DOMAIN e = {"path", "data", "mode"}
  BY <1>3
<1>5. DOMAIN v = DOMAIN e
  BY <1>1, <1>2 DEF hash_file_entry
<1> QED BY <1>1, <1>4, <1>5

(* The last level has one value: the hash, or the one leaf. *)
LEMMA RootIsLast ==
    ASSUME NEW fs \in Seq(FileEntries), fs # <<>>
    PROVE  \E h : Levels(fs, h) /\ Values(h[Len(fs)]) = {calculate_hash(fs)}
<1>1. Len(fs) \in Nat \ {0}
  OBVIOUS
<1>2. PICK h : Levels(fs, h) /\ calculate_hash(fs) = h[Len(fs)][1]
  BY <1>1, TreeHash
<1>3. Len(fs) \in 0..Len(fs)
  BY <1>1
<1>4. /\ Len(h[Len(fs)]) \in Nat \ {0}
      /\ Len(h[Len(fs)]) = 1 \/ Len(h[Len(fs)]) + Len(fs) <= Len(fs)
  BY <1>2, <1>3, LevelFacts, Zenon
<1>5. Len(h[Len(fs)]) = 1
  <2>1. \A x \in Nat \ {0} : ~ (x + Len(fs) <= Len(fs))
    BY <1>1
  <2> QED BY <1>4, <2>1, Zenon
<1>6. Values(h[Len(fs)]) = {h[Len(fs)][1]}
  BY <1>5 DEF Values
<1> QED BY <1>2, <1>6

LEMMA SameValuesSameLeaves ==
    ASSUME NEW a \in Seq(FileEntries), a # <<>>, NEW h, Levels(a, h),
           NEW b \in Seq(FileEntries), b # <<>>, NEW g, Levels(b, g)
    PROVE  \A n \in 0..Len(a), m \in 0..Len(b) : Values(h[n]) = Values(g[m]) => Leaves(a) = Leaves(b)
<1> DEFINE Good(n) == \A m \in 0..Len(b) : Values(h[n]) = Values(g[m]) => Leaves(a) = Leaves(b)
           T == {k \in Nat : \A n \in 0..Len(a) : n < k => Good(n)}
<1>1. Len(a) \in Nat \ {0} /\ Len(b) \in Nat \ {0}
  OBVIOUS
<1>2. 0 \in T
  <2> HIDE DEF Good
  <2> QED BY <1>1
<1>3. ASSUME NEW k \in Nat, k \in T PROVE k + 1 \in T
  <2> SUFFICES ASSUME k <= Len(a), NEW m \in 0..Len(b), Values(h[k]) = Values(g[m])
               PROVE  Leaves(a) = Leaves(b)
    <3>1. Good(k) \/ ~ (k <= Len(a))
      OBVIOUS
    <3> HIDE DEF Good
    <3> QED BY <1>1, <1>3, <3>1
  <2>1. \A n \in 0..Len(a) : n < k => Good(n)
    BY <1>3
  <2>2. k \in 0..Len(a)
    BY <1>1
  <2> HIDE DEF T, Good
  <2>3. \/ Values(h[k]) = Leaves(a)
        \/ /\ AllPairs(Values(h[k]))
           /\ \E i \in 0..Len(a) : i < k /\ Values(h[i]) = Halves(Values(h[k]))
    BY <2>2, LevelsBelow
  <2>4. \/ Values(g[m]) = Leaves(b)
        \/ /\ AllPairs(Values(g[m]))
           /\ \E i \in 0..Len(b) : i < m /\ Values(g[i]) = Halves(Values(g[m]))
    BY LevelsBelow
  <2>5. ~ AllPairs(Leaves(a)) /\ ~ AllPairs(Leaves(b))
    <3>1. hash_file_entry(a[1]) \in Leaves(a) /\ hash_file_entry(b[1]) \in Leaves(b)
      BY <1>1 DEF Leaves
    <3> QED BY <3>1, LeavesAreNoPairs DEF AllPairs
  <2>6. CASE Values(h[k]) = Leaves(a)
    BY <2>4, <2>5, <2>6
  <2>7. CASE /\ AllPairs(Values(h[k]))
             /\ \E i \in 0..Len(a) : i < k /\ Values(h[i]) = Halves(Values(h[k]))
    <3>1. PICK i \in 0..Len(a) : i < k /\ Values(h[i]) = Halves(Values(h[k]))
      BY <2>7
    <3>2. PICK j \in 0..Len(b) : Values(g[j]) = Halves(Values(g[m]))
      BY <2>4, <2>5, <2>7
    <3>3. Values(h[i]) = Values(g[j]) /\ Good(i)
      BY <2>1, <3>1, <3>2
    <3> QED BY <3>3 DEF Good
  <2> QED BY <2>3, <2>6, <2>7
<1> HIDE DEF T, Good
<1>4. Len(a) + 1 \in T
  BY <1>1, <1>2, <1>3, InductionOnSets
<1>5. ASSUME NEW n \in 0..Len(a) PROVE Good(n)
  BY <1>1, <1>4 DEF T
<1> QED BY <1>5 DEF Good

(* Manifests of one hash have the same leaves. *)
LEMMA HashTellsLeaves ==
    ASSUME NEW a \in Seq(FileEntries), NEW b \in Seq(FileEntries), calculate_hash(a) = calculate_hash(b)
    PROVE  Leaves(a) = Leaves(b)
<1>1. calculate_hash(<<>>) = [empty |-> TRUE]
  BY DEF calculate_hash
<1>2. ASSUME NEW fs \in Seq(FileEntries), fs # <<>> PROVE calculate_hash(fs) # [empty |-> TRUE]
  <2>1. PICK h : Levels(fs, h) /\ Values(h[Len(fs)]) = {calculate_hash(fs)}
    BY <1>2, RootIsLast
  <2>2. Len(fs) \in 0..Len(fs)
    OBVIOUS
  <2>3. calculate_hash(fs) \in Leaves(fs) \/ "left" \in DOMAIN calculate_hash(fs)
    BY <1>2, <2>1, <2>2, LevelsBelow DEF AllPairs
  <2>4. "left" \notin DOMAIN [empty |-> TRUE] /\ "empty" \in DOMAIN [empty |-> TRUE]
    OBVIOUS
  <2>5. [empty |-> TRUE] \notin Leaves(fs)
    BY <2>4, LeavesAreNoPairs, Zenon
  <2> QED BY <2>3, <2>4, <2>5, Zenon
<1>3. CASE a = <<>> \/ b = <<>>
  <2>1. a = b
    BY <1>1, <1>2, <1>3
  <2> QED BY <2>1
<1>4. CASE a # <<>> /\ b # <<>>
  <2>1. PICK h : Levels(a, h) /\ Values(h[Len(a)]) = {calculate_hash(a)}
    BY <1>4, RootIsLast
  <2>2. PICK g : Levels(b, g) /\ Values(g[Len(b)]) = {calculate_hash(b)}
    BY <1>4, RootIsLast
  <2>3. Len(a) \in 0..Len(a) /\ Len(b) \in 0..Len(b)
    OBVIOUS
  <2> QED BY <1>4, <2>1, <2>2, <2>3, SameValuesSameLeaves
<1> QED BY <1>3, <1>4

(* Each path is in it once at most. *)
OncePerPath(fs) == \A i, j \in 1..Len(fs) : fs[i].path = fs[j].path => i = j
PathsOf(fs) == {fs[i].path : i \in 1..Len(fs)}
UpTo(P, p) == {q \in P : q <= p}

LEMMA LeafPaths ==
    ASSUME NEW fs \in Seq(FileEntries)
    PROVE  \A i \in 1..Len(fs) : fs[i].path \in Nat /\ hash_file_entry(fs[i]).path = fs[i].path
<1> TAKE i \in 1..Len(fs)
<1>1. PICK e \in FileEntries : e = fs[i]
  OBVIOUS
<1>2. e = [path |-> e.path, data |-> e.data, mode |-> e.mode] /\ e.path \in Nat
  BY ManifestHashAssumption
<1>3. "path" \in DOMAIN e
  BY <1>2
<1>4. hash_file_entry(e).path = e.path
  BY <1>3 DEF hash_file_entry
<1> QED BY <1>1, <1>2, <1>4

LEMMA PlaceOfPath ==
    ASSUME NEW fs \in Seq(FileEntries), OncePerPath(fs), NEW i \in 1..Len(fs)
    PROVE  Cardinality(Before(fs, i)) = Cardinality(UpTo(PathsOf(fs), fs[i].path))
<1> DEFINE f == [j \in Before(fs, i) |-> fs[j].path]
           U == UpTo(PathsOf(fs), fs[i].path)
<1>1. \A j \in 1..Len(fs) : fs[j].path \in Nat
  BY LeafPaths
<1>2. \A j \in 1..Len(fs) : j \in Before(fs, i) <=> fs[j].path <= fs[i].path
  <2> TAKE j \in 1..Len(fs)
  <2>1. fs[j].path = fs[i].path => j <= i
    BY DEF OncePerPath
  <2> QED BY <1>1, <2>1 DEF Before
<1>3. Before(fs, i) \subseteq 1..Len(fs)
  BY DEF Before
<1>4. \A j \in Before(fs, i) : f[j] \in U
  <2> SUFFICES ASSUME NEW j \in Before(fs, i) PROVE fs[j].path \in U
    OBVIOUS
  <2> QED BY <1>2, <1>3 DEF UpTo, PathsOf
<1>5. \A p \in U : \E j \in Before(fs, i) : f[j] = p
  <2> SUFFICES ASSUME NEW p \in U PROVE \E j \in Before(fs, i) : fs[j].path = p
    OBVIOUS
  <2>1. PICK j \in 1..Len(fs) : p = fs[j].path
    BY DEF UpTo, PathsOf
  <2>2. p <= fs[i].path
    BY DEF UpTo
  <2> QED BY <1>2, <2>1, <2>2
<1>6. \A j, k \in Before(fs, i) : f[j] = f[k] => j = k
  <2> SUFFICES ASSUME NEW j \in Before(fs, i), NEW k \in Before(fs, i), fs[j].path = fs[k].path PROVE j = k
    OBVIOUS
  <2> QED BY <1>3 DEF OncePerPath
<1>7. f \in [Before(fs, i) -> U]
  <2> HIDE DEF U
  <2> QED BY <1>4
<1> HIDE DEF f, U
<1>8. f \in Bijection(Before(fs, i), U)
  BY <1>5, <1>6, <1>7 DEF Bijection, Injection, Surjection, IsInjective
<1>9. IsFiniteSet(Before(fs, i))
  <2>1. Len(fs) \in Nat
    OBVIOUS
  <2>2. IsFiniteSet(1..Len(fs))
    BY <2>1, FS_Interval
  <2> QED BY <1>3, <2>2, FS_Subset
<1>10. ExistsBijection(Before(fs, i), U)
  BY <1>8 DEF ExistsBijection
<1> QED BY <1>9, <1>10, FS_Bijection DEF U

(* As many entries over the same paths leave none of them twice. *)
LEMMA OnceAsWell ==
    ASSUME NEW a \in Seq(FileEntries), NEW b \in Seq(FileEntries), Len(a) = Len(b),
           OncePerPath(a), PathsOf(a) = PathsOf(b)
    PROVE  OncePerPath(b) /\ IsFiniteSet(PathsOf(a))
<1> DEFINE n == Len(a)
           P == PathsOf(a)
           f == [i \in 1..n |-> a[i].path]
           g == [i \in 1..n |-> b[i].path]
<1>1. n \in Nat
  OBVIOUS
<1>2. IsFiniteSet(1..n) /\ Cardinality(1..n) = n
  <2> HIDE DEF n
  <2> QED BY <1>1, FS_Interval
<1>3. f \in Surjection(1..n, P) /\ g \in Surjection(1..n, P)
  BY DEF Surjection, PathsOf
<1>4. f \in Injection(1..n, P)
  BY <1>3 DEF Injection, IsInjective, Surjection, OncePerPath
<1> HIDE DEF f, P
<1>5. IsFiniteSet(P) /\ Cardinality(P) = Cardinality(1..n)
  BY <1>2, <1>3, <1>4, FS_Surjection
<1>6. g \in Injection(1..n, P)
  <2> HIDE DEF g
  <2> QED BY <1>2, <1>3, <1>5, FS_SurjSameCardinalityImpliesInj
<1>7. \A i, j \in 1..n : g[i] = g[j] => i = j
  <2> HIDE DEF g
  <2> QED BY <1>6 DEF Injection, IsInjective
<1> QED BY <1>5, <1>7 DEF OncePerPath, P

LEMMA UpToTells ==
    ASSUME NEW P \in SUBSET Nat, IsFiniteSet(P), NEW p \in P, NEW q \in P,
           Cardinality(UpTo(P, p)) = Cardinality(UpTo(P, q))
    PROVE  p = q
<1>1. ASSUME NEW x \in P, NEW y \in P, x < y PROVE Cardinality(UpTo(P, x)) # Cardinality(UpTo(P, y))
  <2>1. UpTo(P, x) \in SUBSET UpTo(P, y)
    <3>1. \A z \in P : z <= x => z <= y
      BY <1>1
    <3> QED BY <3>1 DEF UpTo
  <2>2. y \in UpTo(P, y) /\ y \notin UpTo(P, x)
    BY <1>1 DEF UpTo
  <2>3. UpTo(P, y) \in SUBSET P
    BY DEF UpTo
  <2>4. IsFiniteSet(UpTo(P, y))
    BY <2>3, FS_Subset
  <2> QED BY <2>1, <2>2, <2>4, FS_Subset
<1>2. p < q \/ q < p \/ p = q
  OBVIOUS
<1> QED BY <1>1, <1>2

(* The order of the files makes no difference. *)
LEMMA SameLeavesSameHash ==
    ASSUME NEW a \in Seq(FileEntries), NEW b \in Seq(FileEntries), Len(a) = Len(b),
           OncePerPath(a), Leaves(a) = Leaves(b)
    PROVE  calculate_hash(a) = calculate_hash(b)
<1>1. PathsOf(a) = PathsOf(b)
  <2>1. ASSUME NEW c \in Seq(FileEntries), NEW d \in Seq(FileEntries), Leaves(c) = Leaves(d),
               NEW i \in 1..Len(c)
        PROVE  c[i].path \in PathsOf(d)
    <3>1. hash_file_entry(c[i]) \in Leaves(d)
      BY <2>1 DEF Leaves
    <3>2. PICK j \in 1..Len(d) : hash_file_entry(c[i]) = hash_file_entry(d[j])
      BY <3>1, LeavesAreNoPairs
    <3>3. c[i].path = d[j].path
      BY <3>2, LeafPaths
    <3> QED BY <3>3 DEF PathsOf
  <2>2. PathsOf(a) \subseteq PathsOf(b)
    BY <2>1 DEF PathsOf
  <2>3. PathsOf(b) \subseteq PathsOf(a)
    BY <2>1 DEF PathsOf
  <2> QED BY <2>2, <2>3
<1>2. OncePerPath(b) /\ IsFiniteSet(PathsOf(a))
  BY <1>1, OnceAsWell
<1>3. PathsOf(a) \in SUBSET Nat
  BY LeafPaths DEF PathsOf
<1>4. ASSUME NEW n \in 1..Len(a) PROVE hash_file_entry(Sorted(a)[n]) = hash_file_entry(Sorted(b)[n])
  <2>1. PICK i \in 1..Len(a) : Cardinality(Before(a, i)) = n /\ Sorted(a)[n] = a[i]
    BY SortedFacts
  <2>2. PICK k \in 1..Len(b) : Cardinality(Before(b, k)) = n /\ Sorted(b)[n] = b[k]
    BY SortedFacts
  <2>3. a[i].path \in PathsOf(a) /\ b[k].path \in PathsOf(a)
    BY <1>1 DEF PathsOf
  <2>4. Cardinality(UpTo(PathsOf(a), a[i].path)) = n
    BY <2>1, PlaceOfPath
  <2>5. Cardinality(UpTo(PathsOf(a), b[k].path)) = n
    BY <1>1, <1>2, <2>2, PlaceOfPath
  <2>6. a[i].path = b[k].path
    BY <1>2, <1>3, <2>3, <2>4, <2>5, UpToTells
  <2>7. hash_file_entry(a[i]) \in Leaves(b)
    BY DEF Leaves
  <2>8. PICK j \in 1..Len(b) : hash_file_entry(a[i]) = hash_file_entry(b[j])
    BY <2>7, LeavesAreNoPairs
  <2>9. b[j].path = b[k].path
    BY <2>6, <2>8, LeafPaths
  <2>10. j = k
    BY <1>2, <2>9 DEF OncePerPath
  <2> QED BY <2>1, <2>2, <2>8, <2>10
<1>5. Leaf(a) = Leaf(b)
  <2> SUFFICES [n \in 1..Len(a) |-> hash_file_entry(Sorted(a)[n])] = [n \in 1..Len(a) |-> hash_file_entry(Sorted(b)[n])]
    BY Zenon DEF Leaf
  <2> QED BY <1>4, Zenon
<1>6. a = <<>> <=> b = <<>>
  OBVIOUS
<1>7. \A fs : fs # <<>> =>
         calculate_hash(fs) = (CHOOSE h : LevelsOver(Leaf(fs), Len(fs), h))[Len(fs)][1]
  BY Zenon DEF calculate_hash, LevelsOver, Leaf, LevelOver
<1>8. calculate_hash(<<>>) = [empty |-> TRUE]
  BY DEF calculate_hash
<1> QED BY <1>5, <1>6, <1>7, <1>8, Zenon

-----------------------------------------------------------------------------
ManifestSpec == ManifestInit /\ [][ManifestNext]_mvars

ManifestInv ==
    /\ content \in Seq(FileEntries) /\ sealed \in Seq(FileEntries)
    /\ root # NoRoot => root = calculate_hash(sealed)

LEMMA ManifestInduction == ManifestInv /\ [ManifestNext]_mvars => ManifestInv'
<1> SUFFICES ASSUME ManifestInv, [ManifestNext]_mvars PROVE ManifestInv'
  OBVIOUS
<1> USE DEF ManifestInv
<1>1. CASE UNCHANGED mvars
  BY <1>1 DEF mvars
<1>2. CASE \E e \in FileEntries : add_file(e)
  BY <1>2 DEF add_file
<1>3. CASE finalize
  BY <1>3 DEF finalize
<1>4. CASE Returned
  <2>1. PICK i \in 1..Len(content) :
            \/ content' = RemoveAt(content, i)
            \/ \E e \in FileEntries : content' = [content EXCEPT ![i] = e]
            \/ content' = Reverse(content)
    BY <1>4 DEF Returned
  <2>2. UNCHANGED <<root, sealed>>
    BY <1>4 DEF Returned
  <2>3. content' \in Seq(FileEntries)
    <3>1. CASE content' = RemoveAt(content, i)
      BY <3>1 DEF RemoveAt
    <3>2. CASE \E e \in FileEntries : content' = [content EXCEPT ![i] = e]
      BY <3>2
    <3>3. CASE content' = Reverse(content)
      BY <3>3 DEF Reverse
    <3> QED BY <2>1, <3>1, <3>2, <3>3
  <2> QED BY <2>2, <2>3
<1> QED BY <1>1, <1>2, <1>3, <1>4 DEF ManifestNext

(* VerifiedIsSealed: for any files, of any number, a manifest that verifies   *)
(* has the leaves it was finalized with, and one with a path once that has    *)
(* them verifies in whatever order they are, unless hashes collide.           *)
THEOREM VerifiedStaysSealed == ManifestSpec => []VerifiedIsSealed
<1>1. ManifestInit => ManifestInv
  BY DEF ManifestInit, ManifestInv
<1>2. ManifestInv => VerifiedIsSealed
  <2> SUFFICES ASSUME ManifestInv PROVE VerifiedIsSealed
    OBVIOUS
  <2>1. ASSUME verify PROVE Leaves(content) = Leaves(sealed)
    BY <2>1, HashTellsLeaves DEF verify, ManifestInv
  <2>2. ASSUME root # NoRoot, Len(content) = Len(sealed), OncePerPath(content), Leaves(content) = Leaves(sealed)
        PROVE  verify
    BY <2>2, SameLeavesSameHash DEF verify, ManifestInv
  <2> QED BY <2>1, <2>2 DEF VerifiedIsSealed, OncePerPath
<1> QED BY <1>1, <1>2, ManifestInduction, PTL DEF ManifestSpec
=============================================================================
