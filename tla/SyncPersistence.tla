--------------------------- MODULE SyncPersistence ---------------------------
(***************************************************************************)
(* SyncPersistenceManager of landro-sync/src/sync_persistence.rs: the sync *)
(* sessions in memory, the counters that decide when a session is saved,   *)
(* and the session files.  Its callers are the tasks of QuicSyncTransport  *)
(* (landro-sync/src/quic_integration.rs): start_sync, resume_sync,         *)
(* complete_sync, interrupt_sync and the loop that books transfer results. *)
(*                                                                         *)
(* save_session copies a session under the lock and writes the copy after  *)
(* releasing it.  tokio::fs::write truncates the file and then fills it.   *)
(* A session is [status, pending, failed, completed]; time stamps, bytes   *)
(* and conflicts, which no decision reads, are left out.                   *)
(***************************************************************************)
EXTENDS Naturals, FiniteSets

CONSTANTS
    SessionIds,       \* identifiers of sessions
    SessionChunks,    \* hashes of chunks
    Savers,           \* tasks that call the manager
    SaveInterval,     \* save_interval_chunks
    NoSession,        \* no entry in the map, no file
    TornFile          \* a file that load_session cannot parse

(* PersistedSyncSession *)
SessionRecords == [status : {"Active", "Interrupted", "Completed"}, pending : SUBSET SessionChunks,
                   failed : SUBSET SessionChunks, completed : SUBSET SessionChunks]

ASSUME PersistenceAssumption ==
    /\ SaveInterval \in Nat \ {0} /\ IsFiniteSet(SessionChunks)
    /\ {NoSession, TornFile} \cap SessionRecords = {} /\ NoSession # TornFile
    /\ NoSession \notin SessionIds

Absent == 0           \* chunk_counter has no entry: or_insert(0) reads 0

VARIABLES
    sessions,   \* the map in memory
    counter,    \* chunk_counter
    file,       \* <state_dir>/<id>.json
    active,     \* active_sessions of the transport
    task,       \* each task: [pc, id, copy]
    overlap,    \* the task's save overlapped another save of the session
    raced,      \* the last save of the session overlapped another, or failed
    ended       \* complete_session was called

syvars == <<sessions, counter, file, active, task, overlap, raced, ended>>

Free == [pc |-> "free", id |-> NoSession, copy |-> NoSession, next |-> "free"]

PersistenceInit ==
    /\ sessions = [s \in SessionIds |-> NoSession]
    /\ counter = [s \in SessionIds |-> Absent]
    /\ file = [s \in SessionIds |-> NoSession]
    /\ active = {}
    /\ task = [t \in Savers |-> Free]
    /\ overlap = [t \in Savers |-> FALSE]
    /\ raced = [s \in SessionIds |-> FALSE]
    /\ ended = {}

(* PersistedSyncSession::new, with the chunks its caller found missing. *)
NewSession(chunks) ==
    [status |-> "Active", pending |-> chunks, failed |-> {}, completed |-> {}]

can_resume(session) == session.status = "Interrupted" /\ session.pending # {}

(* A free task goes to pc, and to next after it has saved the session. *)
Call(t, s, pc, next) ==
    /\ task[t] = Free
    /\ task' = [task EXCEPT ![t] = [pc |-> pc, id |-> s, copy |-> NoSession, next |-> next]]

Then(t, pc) == [task EXCEPT ![t] = IF pc = "free" THEN Free ELSE [@ EXCEPT !.pc = pc]]

Change(s, f(_)) == sessions' = [sessions EXCEPT ![s] = f(@)]

-----------------------------------------------------------------------------
(* start_sync inserts the session, zeroes its counter and saves it. *)
start_session(t, s) ==
    /\ s \notin active /\ sessions[s] = NoSession /\ file[s] = NoSession
    /\ Call(t, s, "copy", "free")
    /\ \E chunks \in SUBSET SessionChunks :
        sessions' = [sessions EXCEPT ![s] = NewSession(chunks)]
    /\ counter' = [counter EXCEPT ![s] = 0]
    /\ active' = active \cup {s}
    /\ UNCHANGED <<file, overlap, raced, ended>>

(* The session changes and is counted under the write lock.  The counter   *)
(* is set to zero before the copy is taken.                                *)
mark_chunk_completed(t, s) ==
    /\ sessions[s] # NoSession
    /\ \E c \in sessions[s].pending \cup sessions[s].failed :
        Change(s, LAMBDA old : [old EXCEPT !.pending = @ \ {c}, !.failed = @ \ {c},
                                           !.completed = @ \cup {c}])
    /\ counter' = [counter EXCEPT ![s] = @ + 1]
    /\ IF counter[s] + 1 >= SaveInterval
       THEN Call(t, s, "reset", "free")
       ELSE task[t] = Free /\ UNCHANGED task
    /\ UNCHANGED <<file, active, overlap, raced, ended>>

Saving(t, s) == task[t].id = s /\ task[t].pc \in {"write", "fill"}

ResetAndSkip(t) ==
    LET s == task[t].id IN
    /\ task[t].pc = "reset"
    /\ counter' = [counter EXCEPT ![s] = 0]
    /\ task' = Then(t, IF \E u \in Savers : Saving(u, s) THEN "free" ELSE "copy")
    /\ UNCHANGED <<sessions, file, active, overlap, raced, ended>>

ResetCounter(t) ==
    /\ task[t].pc = "reset"
    /\ counter' = [counter EXCEPT ![task[t].id] = 0]
    /\ task' = [task EXCEPT ![t].pc = "copy"]
    /\ UNCHANGED <<sessions, file, active, overlap, raced, ended>>

mark_chunk_failed(t, s) ==
    /\ sessions[s] # NoSession
    /\ \E c \in sessions[s].pending :
        Change(s, LAMBDA old : [old EXCEPT !.pending = @ \ {c}, !.failed = @ \cup {c}])
    /\ Call(t, s, "copy", "free")
    /\ UNCHANGED <<counter, file, active, overlap, raced, ended>>

complete_session(t, s) ==
    /\ s \in active /\ sessions[s] # NoSession
    /\ Change(s, LAMBDA old : [old EXCEPT !.status = "Completed"])
    /\ Call(t, s, "copy", "uncount")
    /\ ended' = ended \cup {s}
    /\ UNCHANGED <<counter, file, active, overlap, raced>>

interrupt_session(t, s) ==
    /\ s \in active /\ sessions[s] # NoSession
    /\ Change(s, LAMBDA old : [old EXCEPT !.status = "Interrupted"])
    /\ Call(t, s, "copy", "remove")
    /\ UNCHANGED <<counter, file, active, overlap, raced, ended>>

(* resume_sync registers a session that can be resumed.  The chunks it     *)
(* transfers are booked under another identifier, which no session has, so *)
(* that the session itself stays as it was.                                *)
resume_sync(s) ==
    /\ sessions[s] # NoSession /\ can_resume(sessions[s]) /\ s \notin active
    /\ active' = active \cup {s}
    /\ UNCHANGED <<sessions, counter, file, task, overlap, raced, ended>>

-----------------------------------------------------------------------------
(* save_session: the copy, the truncated file, the full file. *)
CopySession(t) ==
    LET s == task[t].id IN
    /\ task[t].pc = "copy"
    /\ IF sessions[s] = NoSession
       THEN task' = Then(t, task[t].next) /\ UNCHANGED overlap
       ELSE /\ task' = [task EXCEPT ![t].pc = "write", ![t].copy = sessions[s]]
            /\ overlap' = [u \in Savers |->
                   IF u = t THEN \E v \in Savers : Saving(v, s)
                   ELSE overlap[u] \/ Saving(u, s)]
    /\ UNCHANGED <<sessions, counter, file, active, raced, ended>>

OpenFile(t) ==
    /\ task[t].pc = "write"
    /\ file' = [file EXCEPT ![task[t].id] = TornFile]
    /\ task' = [task EXCEPT ![t].pc = "fill"]
    /\ UNCHANGED <<sessions, counter, active, overlap, raced, ended>>

(* Over what another task wrote in the meantime, a shorter text leaves a   *)
(* tail that does not parse.                                               *)
FillFile(t) ==
    LET s == task[t].id IN
    /\ task[t].pc = "fill"
    /\ \E result \in IF file[s] = TornFile THEN {task[t].copy} ELSE {task[t].copy, TornFile} :
        file' = [file EXCEPT ![s] = result]
    /\ raced' = [raced EXCEPT ![s] = overlap[t]]
    /\ overlap' = [overlap EXCEPT ![t] = FALSE]
    /\ task' = Then(t, task[t].next)
    /\ UNCHANGED <<sessions, counter, active, ended>>

(* The disk is full: the call returns the error and does nothing more. *)
FillFails(t) ==
    /\ task[t].pc = "fill"
    /\ raced' = [raced EXCEPT ![task[t].id] = TRUE]
    /\ overlap' = [overlap EXCEPT ![t] = FALSE]
    /\ task' = [task EXCEPT ![t] = Free]
    /\ UNCHANGED <<sessions, counter, file, active, ended>>

(* complete_session forgets the counter, then complete_sync and            *)
(* interrupt_sync remove the session from active_sessions.                 *)
Uncount(t) ==
    /\ task[t].pc = "uncount"
    /\ counter' = [counter EXCEPT ![task[t].id] = Absent]
    /\ task' = [task EXCEPT ![t].pc = "remove"]
    /\ UNCHANGED <<sessions, file, active, overlap, raced, ended>>

RemoveActive(t) ==
    /\ task[t].pc = "remove"
    /\ active' = active \ {task[t].id}
    /\ task' = [task EXCEPT ![t] = Free]
    /\ UNCHANGED <<sessions, counter, file, overlap, raced, ended>>

-----------------------------------------------------------------------------
(* cleanup_old_sessions takes completed sessions of more than a week,      *)
(* which nobody works on any more: first out of memory, then their files.  *)
remove_session(t, s) ==
    /\ sessions[s] # NoSession /\ sessions[s].status = "Completed"
    /\ s \notin active /\ \A u \in Savers : task[u].id # s
    /\ Call(t, s, "delete", "free")
    /\ sessions' = [sessions EXCEPT ![s] = NoSession]
    /\ UNCHANGED <<counter, file, active, overlap, raced, ended>>

DeleteFile(t) ==
    /\ task[t].pc = "delete"
    /\ file' = [file EXCEPT ![task[t].id] = NoSession]
    /\ task' = [task EXCEPT ![t] = Free]
    /\ UNCHANGED <<sessions, counter, active, overlap, raced, ended>>

(* The process dies.  The next one loads the files that parse, as they     *)
(* are: a session that was Active stays so.                                *)
load_sessions ==
    /\ \E s \in SessionIds : sessions[s] # NoSession
    /\ sessions' = [s \in SessionIds |-> IF file[s] = TornFile THEN NoSession ELSE file[s]]
    /\ counter' = [s \in SessionIds |-> Absent]
    /\ active' = {}
    /\ task' = [t \in Savers |-> Free]
    /\ overlap' = [t \in Savers |-> FALSE]
    /\ raced' = [s \in SessionIds |-> FALSE]
    /\ UNCHANGED <<file, ended>>

PersistenceNext ==
    \/ \E t \in Savers, s \in SessionIds :
        \/ start_session(t, s) \/ mark_chunk_completed(t, s) \/ mark_chunk_failed(t, s)
        \/ complete_session(t, s) \/ interrupt_session(t, s) \/ remove_session(t, s)
    \/ \E t \in Savers :
        \/ ResetCounter(t) \/ CopySession(t) \/ OpenFile(t) \/ FillFile(t) \/ FillFails(t)
        \/ Uncount(t) \/ RemoveActive(t) \/ DeleteFile(t)
    \/ \E s \in SessionIds : resume_sync(s)
    \/ load_sessions

-----------------------------------------------------------------------------
(* How far a session file may lag behind: when nobody is saving a session  *)
(* and its last save met no other, its file is whole, has its status and   *)
(* its failures, and misses no more completed chunks than chunk_counter    *)
(* counts, so fewer than save_interval_chunks.  A chunk that completes     *)
(* while another task resets the counter and copies is never forgotten.    *)
SaveLag ==
    \A s \in SessionIds :
        sessions[s] # NoSession /\ (\A t \in Savers : task[t].id # s) /\ ~raced[s] /\ s \notin ended
        => /\ file[s] \notin {NoSession, TornFile}
           /\ file[s].status = sessions[s].status
           /\ sessions[s].failed \subseteq file[s].failed
           /\ Cardinality(sessions[s].completed \ file[s].completed) <= counter[s]
           /\ counter[s] < SaveInterval
=============================================================================
