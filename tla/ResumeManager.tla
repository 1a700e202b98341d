---------------------------- MODULE ResumeManager ----------------------------
(***************************************************************************)
(* landro-daemon/src/resume_manager.rs: the checkpoints of the sessions in *)
(* memory, the one file they are all saved to, and the monitor of each     *)
(* session, which saves every thirty seconds.  Nothing removes a session   *)
(* from active_sessions, so monitors run as long as the process.           *)
(*                                                                         *)
(* A save holds the checkpoints' lock while it writes: a monitor's the     *)
(* read lock, a new checkpoint's or a cleanup's the write lock.            *)
(* tokio::fs::write truncates the file and then fills it.  Either may fail *)
(* with the process alive: the caller of the save returns the error, a     *)
(* monitor only logs it.                                                   *)
(*                                                                         *)
(* Bounds: one monitor and one call of start_resumable_session at a time   *)
(* for each session; no caller drops a call while it saves.                *)
(***************************************************************************)
EXTENDS Naturals, FiniteSets

CONSTANTS
    ResumeIds,      \* session ids
    SentChunks,     \* the hashes of the chunks of each session
    SaveEvery,      \* 10: save_checkpoint writes when the number of checkpoints is a multiple
    NoCheckpoint, TornTable

SavedChunks == UNION {SentChunks[s] : s \in ResumeIds}

(* SyncCheckpoint.  full: progress_percent is 100; done: the stage is
   Completed. *)
Checkpoints == [full : BOOLEAN, done : BOOLEAN,
                transferred : SUBSET SavedChunks, failed : SUBSET SavedChunks]
Tables == [ResumeIds -> Checkpoints \cup {NoCheckpoint}]

ASSUME ResumeAssumption ==
    /\ SaveEvery \in Nat \ {0} /\ IsFiniteSet(ResumeIds)
    /\ NoCheckpoint \notin Checkpoints /\ TornTable \notin Tables

VARIABLES
    table,      \* checkpoints, of every session
    disk,       \* sync_checkpoints.json
    monitors,   \* active_sessions, each with its monitor task: "wait", "open" or "fill"
    copy,       \* the table each save in progress writes
    writer,     \* the save under the write lock: "none", "open" or "fill"
    resuming,   \* the copy a call of resume_session works on (bound: one call)
    beginning,  \* sessions that start_resumable_session has inserted and not tracked:
                \* "saves" while it writes the file, then "saved"
    cut         \* a save truncated the file and did not fill it, and no save has since

rvars == <<table, disk, monitors, copy, writer, resuming, beginning, cut>>

Checkpointed == {s \in ResumeIds : table[s] # NoCheckpoint}
Reading == {s \in DOMAIN monitors : monitors[s] # "wait"}

ResumeInit ==
    /\ table = [s \in ResumeIds |-> NoCheckpoint]
    /\ disk = table
    /\ monitors = [s \in {} |-> "wait"]
    /\ copy = [s \in {} |-> table]
    /\ writer = "none"
    /\ resuming = NoCheckpoint
    /\ beginning = [s \in {} |-> "saved"]
    /\ cut = FALSE

CanRead == writer = "none"
WriteBesideReaders == writer = "none"
CanWrite == writer = "none" /\ Reading = {}

(* What is in the file after a save fills it: text over other text is torn. *)
Filled(content) == IF disk \in {TornTable, content} THEN {content} ELSE {content, TornTable}

(* After a save fails in the middle of it: part of its text over another   *)
(* text is torn, over a truncated file too.                                *)
PartFilled(content) == IF disk \in {TornTable, content} THEN {disk} ELSE {disk, TornTable}

NewCheckpoint == [full |-> FALSE, done |-> FALSE, transferred |-> {}, failed |-> {}]

(* save_checkpoint inserts, and writes the file now and then. *)
save_checkpoint(s, c) ==
    LET t == [table EXCEPT ![s] = c]
        n == Cardinality({i \in ResumeIds : t[i] # NoCheckpoint})
    IN /\ table' = t
       /\ writer' = IF n % SaveEvery = 0 THEN "open" ELSE "none"

-----------------------------------------------------------------------------
start_resumable_session(s) ==
    /\ CanWrite /\ s \notin DOMAIN beginning
    /\ save_checkpoint(s, NewCheckpoint)
    /\ beginning' = [i \in DOMAIN beginning \cup {s} |->
                       IF i # s THEN beginning[i] ELSE IF writer' = "open" THEN "saves" ELSE "saved"]
    /\ UNCHANGED <<disk, monitors, copy, resuming, cut>>

(* After the save the session is tracked, and its monitor spawned. *)
TrackSession(s) ==
    /\ beginning[s] = "saved"
    /\ monitors' = [i \in DOMAIN monitors \cup {s} |-> IF i \in DOMAIN monitors THEN monitors[i] ELSE "wait"]
    /\ beginning' = [i \in DOMAIN beginning \ {s} |-> beginning[i]]
    /\ UNCHANGED <<table, disk, copy, writer, resuming, cut>>

can_resume_session(s) == table[s] # NoCheckpoint /\ ~table[s].full

(* resume_session copies the checkpoint under the read lock and puts the   *)
(* copy back under the write lock: it undoes updates made in between, and  *)
(* brings back a checkpoint that a cleanup removed.  When chunks were      *)
(* transferred, the subtraction from total_chunks_needed, which is never   *)
(* set, overflows; a build that does not check goes on.                    *)
resume_session(s) ==
    /\ CanRead /\ resuming = NoCheckpoint /\ can_resume_session(s)
    /\ resuming' = [session |-> s, checkpoint |-> table[s]]
    /\ UNCHANGED <<table, disk, monitors, copy, writer, beginning, cut>>

(* The folder must be there; no transferred chunk has an empty hash. *)
validate_checkpoint(folderExists) == folderExists

ResumePrepared(folderExists) ==
    /\ CanWrite /\ resuming # NoCheckpoint
    /\ IF validate_checkpoint(folderExists)
       THEN save_checkpoint(resuming.session, resuming.checkpoint)
       ELSE UNCHANGED <<table, writer>>
    /\ resuming' = NoCheckpoint
    /\ UNCHANGED <<disk, monitors, copy, beginning, cut>>

Update(s, c) ==
    /\ CanWrite /\ table[s] # NoCheckpoint
    /\ table' = [table EXCEPT ![s] = c]
    /\ UNCHANGED <<disk, monitors, copy, writer, resuming, beginning, cut>>

ChunkTransferred(s, h) ==
    Update(s, IF h \in table[s].transferred THEN table[s]
              ELSE [table[s] EXCEPT !.transferred = @ \cup {h}, !.failed = @ \ {h}])
(* Bound: a chunk that was transferred is not reported as failed later. *)
ChunkFailed(s, h) ==
    /\ table[s] # NoCheckpoint /\ h \notin table[s].transferred
    /\ Update(s, [table[s] EXCEPT !.failed = @ \cup {h}])
(* Bound: progress is reported below 100; 100 comes with Complete. *)
Progress(s) == Update(s, [table[s] EXCEPT !.full = FALSE])
Complete(s) == Update(s, [table[s] EXCEPT !.full = TRUE, !.done = TRUE])

(* Completed checkpoints of more than a week, old. *)
cleanup_old_checkpoints(old) ==
    /\ CanWrite
    /\ table' = [s \in ResumeIds |-> IF s \in old THEN NoCheckpoint ELSE table[s]]
    /\ writer' = "open"
    /\ UNCHANGED <<disk, monitors, copy, resuming, beginning, cut>>

-----------------------------------------------------------------------------
(* save_checkpoints_to_disk under the write lock.  A call that starts a    *)
(* session ends with the error of its save, and never tracks the session.  *)
OpenExclusive ==
    /\ writer = "open"
    /\ writer' = "fill" /\ disk' = TornTable
    /\ UNCHANGED <<table, monitors, copy, resuming, beginning, cut>>
FillExclusive ==
    /\ writer = "fill"
    /\ writer' = "none" /\ disk' \in Filled(table) /\ cut' = FALSE
    /\ beginning' = [s \in DOMAIN beginning |-> "saved"]
    /\ UNCHANGED <<table, monitors, copy, resuming>>

SaveFails ==
    /\ writer' = "none"
    /\ beginning' = [s \in {i \in DOMAIN beginning : beginning[i] = "saved"} |-> "saved"]
    /\ UNCHANGED <<table, monitors, copy, resuming>>
OpenExclusiveFails ==
    /\ writer = "open"
    /\ SaveFails
    /\ UNCHANGED <<disk, cut>>
FillExclusiveFails ==
    /\ writer = "fill"
    /\ SaveFails
    /\ disk' \in PartFilled(table) /\ cut' = TRUE

(* force_checkpoint_save of a monitor, under the read lock. *)
StartSave(s) ==
    /\ monitors[s] = "wait" /\ CanRead
    /\ copy' = [i \in DOMAIN copy \cup {s} |-> IF i = s THEN table ELSE copy[i]]
    /\ monitors' = [monitors EXCEPT ![s] = "open"]
    /\ UNCHANGED <<table, disk, writer, resuming, beginning, cut>>
OpenShared(s) ==
    /\ monitors[s] = "open"
    /\ monitors' = [monitors EXCEPT ![s] = "fill"] /\ disk' = TornTable
    /\ UNCHANGED <<table, copy, writer, resuming, beginning, cut>>

EndSave(s) ==
    /\ monitors' = [monitors EXCEPT ![s] = "wait"]
    /\ copy' = [i \in DOMAIN copy \ {s} |-> copy[i]]
    /\ UNCHANGED <<table, writer, resuming, beginning>>
FillShared(s) ==
    /\ monitors[s] = "fill"
    /\ disk' \in Filled(copy[s]) /\ cut' = FALSE
    /\ EndSave(s)
OpenSharedFails(s) ==
    /\ monitors[s] = "open"
    /\ EndSave(s)
    /\ UNCHANGED <<disk, cut>>
FillSharedFails(s) ==
    /\ monitors[s] = "fill"
    /\ disk' \in PartFilled(copy[s]) /\ cut' = TRUE
    /\ EndSave(s)

(* The process dies; the next one takes what parses, or nothing at all. *)
RestartResume ==
    /\ Checkpointed # {}
    /\ table' = IF disk = TornTable THEN [s \in ResumeIds |-> NoCheckpoint] ELSE disk
    /\ monitors' = [s \in {} |-> "wait"] /\ copy' = [s \in {} |-> table]
    /\ writer' = "none" /\ resuming' = NoCheckpoint /\ beginning' = [s \in {} |-> "saved"]
    /\ cut' = (cut \/ writer = "fill" \/ \E s \in DOMAIN monitors : monitors[s] = "fill")
    /\ UNCHANGED disk

ResumeNext ==
    \/ \E s \in ResumeIds :
        \/ start_resumable_session(s) \/ resume_session(s) \/ Complete(s)
        \/ Progress(s)
        \/ \E h \in SentChunks[s] : ChunkTransferred(s, h) \/ ChunkFailed(s, h)
    \/ \E old \in SUBSET {s \in Checkpointed : table[s].done} \ {{}} : cleanup_old_checkpoints(old)
    \/ \E s \in DOMAIN beginning : TrackSession(s)
    \/ \E s \in DOMAIN monitors :
        \/ StartSave(s) \/ OpenShared(s) \/ FillShared(s)
        \/ OpenSharedFails(s) \/ FillSharedFails(s)
    \/ \E exists \in BOOLEAN : ResumePrepared(exists)
    \/ OpenExclusive \/ FillExclusive \/ OpenExclusiveFails \/ FillExclusiveFails
    \/ RestartResume

-----------------------------------------------------------------------------
(* Several monitors save into one file at the same time, between updates   *)
(* and new sessions.  Whenever no save is under way the file is whole,     *)
(* unless a save stopped between the truncation and the end of the text -  *)
(* the process died or the write failed - and none was completed since: a  *)
(* file that does not parse loses the checkpoints of every session.        *)
CheckpointFileWhole ==
    Reading = {} /\ writer = "none" /\ ~cut => disk # TornTable
=============================================================================
