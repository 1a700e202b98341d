---------------------------- MODULE RecoveryLog ----------------------------
(***************************************************************************)
(* landro-sync/src/recovery.rs: RecoveryManager tracks operations in       *)
(* memory and in recovery.log, so that recover_on_startup can take up what *)
(* a crash interrupted.                                                    *)
(*                                                                         *)
(* Clones of the manager share active_operations and one log file.  A log  *)
(* is a function from operation identifiers to records.  Files are         *)
(* rewritten as a whole: a write truncates, then fills, and goes to the    *)
(* file that was opened even when a rename has moved it meanwhile.         *)
(***************************************************************************)
EXTENDS Naturals

CONSTANTS
    Ids,      \* operation identifiers (generate_operation_id: used once)
    Clients,  \* tasks that call the manager
    NoTask,   \* nobody holds the lock
    NoOp,     \* no record for this identifier
    NoTemp,   \* there is no recovery.log.tmp
    Methods,  \* which of the manager's methods tasks call
    LogFaults \* "crash", "io", "database": what can go wrong

Statuses == {"InProgress", "Completed", "Failed", "Interrupted", "Recovering"}
MaxRetries == 3
RetryBound == MaxRetries + 1  \* failures of one operation (bound)
Records == [status : Statuses, retries : 0..RetryBound, done : BOOLEAN]
Logs    == [Ids -> Records \cup {NoOp}]

ASSUME LogAssumption ==
    /\ NoOp \notin Records /\ NoTask \notin Clients /\ Ids # {}
    /\ Methods \subseteq {"start", "checkpoint", "complete", "fail"}

VARIABLES
    tracked,    \* active_operations
    lock,       \* the task holding active_operations.write(), if any
    log, log_tmp, \* recovery.log and recovery.log.tmp
    at,         \* task -> next step
    method, id, rec, \* task -> method, operation, and the record being saved
    snap, opened, \* task -> contents to write, and the file it has open
    manager,    \* "up", or "recovering" while recover_on_startup runs
    loaded,     \* loaded records recover_on_startup has yet to process
    used, owed, completed, damaged \* observation: see below

(* used: identifiers some start_operation was given; owed: operations whose
   start returned Ok, not yet completed nor given up; completed: operations
   whose complete_operation returned Ok, or found finished by a recovery;
   damaged: a system call failed, or a crash met a log that remove_operation
   had truncated.  Callers take a fresh identifier for every operation, and go
   on with one only after its start returned Ok. *)
witnessed == <<used, owed, completed, damaged>>
taskState == <<at, method, id, rec, snap, opened>>
logvars == <<tracked, lock, log, log_tmp, taskState, manager, loaded, witnessed>>

Blank == [i \in Ids |-> NoOp]
Fresh == [status |-> "InProgress", retries |-> 0, done |-> FALSE]
NoneRunning == \A t \in Clients : at[t] = "idle"

LogInit ==
    /\ tracked = Blank /\ lock = NoTask /\ log = Blank /\ log_tmp = NoTemp
    /\ at = [t \in Clients |-> "idle"] /\ method = [t \in Clients |-> "none"]
    /\ id = [t \in Clients |-> NoOp]
    /\ rec = [t \in Clients |-> Fresh] /\ snap = [t \in Clients |-> Blank]
    /\ opened = [t \in Clients |-> "gone"]
    /\ manager = "up" /\ loaded = Blank
    /\ used = {} /\ owed = {} /\ completed = {} /\ damaged = FALSE

-----------------------------------------------------------------------------
(* The methods: each one begins by deciding what to save. *)

Advance(t, step) == at' = [at EXCEPT ![t] = step]

(* The call returns, and its local variables are gone. *)
Return(t) ==
    /\ Advance(t, "idle")
    /\ method' = [method EXCEPT ![t] = "none"] /\ id' = [id EXCEPT ![t] = NoOp]
    /\ rec' = [rec EXCEPT ![t] = Fresh]

(* Task t is about to save record r for operation i on behalf of method c. *)
BeginSave(t, c, i, r) ==
    /\ Advance(t, "read")
    /\ method' = [method EXCEPT ![t] = c] /\ id' = [id EXCEPT ![t] = i]
    /\ rec' = [rec EXCEPT ![t] = r]
    /\ UNCHANGED <<log, log_tmp, snap, opened>>

(* start_operation: the lock is released before the log is written. *)
start_operation(t, i) ==
    /\ "start" \in Methods /\ i \notin used /\ lock = NoTask
    /\ tracked' = [tracked EXCEPT ![i] = Fresh]
    /\ used' = used \cup {i}
    /\ BeginSave(t, "start", i, Fresh)
    /\ UNCHANGED <<lock, manager, loaded, owed, completed, damaged>>

(* A method that takes the lock, for an operation it still tracks. *)
CanCall(m, i) == m \in Methods /\ i \in owed /\ tracked[i] # NoOp /\ lock = NoTask

(* checkpoint_operation: progress_update says the work is all done. *)
checkpoint_operation(t, i) ==
    /\ CanCall("checkpoint", i)
    /\ lock' = t
    /\ tracked' = [tracked EXCEPT ![i].done = TRUE]
    /\ BeginSave(t, "checkpoint", i, tracked'[i])
    /\ UNCHANGED <<manager, loaded, witnessed>>

CompletesUnmarked(t, i) ==
    /\ CanCall("complete", i)
    /\ lock' = t
    /\ tracked' = [tracked EXCEPT ![i] = NoOp]
    /\ BeginSave(t, "complete", i, tracked[i])
    /\ UNCHANGED <<manager, loaded, witnessed>>

complete_operation(t, i) ==
    /\ CanCall("complete", i)
    /\ lock' = t
    /\ tracked' = [tracked EXCEPT ![i] = NoOp]
    /\ BeginSave(t, "complete", i, [tracked[i] EXCEPT !.status = "Completed"])
    /\ UNCHANGED <<manager, loaded, witnessed>>

fail_operation(t, i) ==
    /\ CanCall("fail", i)
    /\ tracked[i].retries < RetryBound
    /\ lock' = t
    /\ tracked' = [tracked EXCEPT ![i].status = "Failed", ![i].retries = @ + 1]
    /\ BeginSave(t, "fail", i, tracked'[i])
    /\ UNCHANGED <<manager, loaded, witnessed>>

CallMethod(t) ==
    /\ manager = "up" /\ at[t] = "idle"
    /\ \E i \in Ids : \/ start_operation(t, i) \/ checkpoint_operation(t, i)
                      \/ complete_operation(t, i) \/ fail_operation(t, i)

-----------------------------------------------------------------------------
(* save_operation and remove_operation, one file system call per step. *)

ReadLog(t) ==
    /\ at[t] = "read" /\ Advance(t, "truncate")
    /\ snap' = [snap EXCEPT ![t] = [log EXCEPT ![id[t]] = rec[t]]]
    /\ UNCHANGED <<tracked, lock, log, log_tmp, method, id, rec, opened,
                   manager, loaded, witnessed>>

(* A log that cannot be read counts as empty. *)
ReadLogFails(t) ==
    /\ "io" \in LogFaults /\ at[t] = "read" /\ Advance(t, "truncate")
    /\ snap' = [snap EXCEPT ![t] = [Blank EXCEPT ![id[t]] = rec[t]]]
    /\ damaged' = TRUE
    /\ UNCHANGED <<tracked, lock, log, log_tmp, method, id, rec, opened,
                   manager, loaded, used,
                   owed, completed>>

OpenTemp(t) ==
    /\ at[t] = "truncate" /\ Advance(t, "fill")
    /\ log_tmp' = Blank /\ opened' = [opened EXCEPT ![t] = "tmp"]
    /\ UNCHANGED <<tracked, lock, log, method, id, rec, snap, manager, loaded,
                   witnessed>>

(* The bytes go to whatever the open file is called by now. *)
WriteOpenFile(t) ==
    /\ log' = IF opened[t] = "log" THEN snap[t] ELSE log
    /\ log_tmp' = IF opened[t] = "tmp" THEN snap[t] ELSE log_tmp
    /\ opened' = [opened EXCEPT ![t] = "gone"]
    /\ snap' = [snap EXCEPT ![t] = Blank]

FillLogTemp(t) ==
    /\ at[t] = "fill" /\ Advance(t, "rename") /\ WriteOpenFile(t)
    /\ UNCHANGED <<tracked, lock, method, id, rec, manager, loaded, witnessed>>

RenameTemp(t) ==
    /\ at[t] = "rename" /\ log_tmp # NoTemp
    /\ Advance(t, "saved")
    /\ log' = log_tmp /\ log_tmp' = NoTemp
    /\ opened' = [u \in Clients |-> IF opened[u] = "tmp" THEN "log" ELSE "gone"]
    /\ UNCHANGED <<tracked, lock, method, id, rec, snap, manager, loaded,
                   witnessed>>

ReadForRemoval(t) ==
    /\ at[t] = "rm_read" /\ Advance(t, "rm_truncate")
    /\ snap' = [snap EXCEPT ![t] = [log EXCEPT ![id[t]] = NoOp]]
    /\ UNCHANGED <<tracked, lock, log, log_tmp, method, id, rec, opened,
                   manager, loaded, witnessed>>

(* remove_operation writes recovery.log in place. *)
OpenLog(t) ==
    /\ at[t] = "rm_truncate" /\ Advance(t, "rm_fill")
    /\ log' = Blank /\ opened' = [opened EXCEPT ![t] = "log"]
    /\ UNCHANGED <<tracked, lock, log_tmp, method, id, rec, snap, manager,
                   loaded, witnessed>>

(* complete_operation returns, releasing the lock. *)
FillLog(t) ==
    /\ at[t] = "rm_fill" /\ Return(t) /\ WriteOpenFile(t)
    /\ lock' = NoTask
    /\ owed' = owed \ {id[t]} /\ completed' = completed \cup {id[t]}
    /\ UNCHANGED <<tracked, manager, loaded, used, damaged>>

(* save_operation returned Ok: what each method does next. *)
Saved(t) ==
    /\ at[t] = "saved"
    /\ \/ /\ method[t] = "start" /\ Return(t)
          /\ owed' = owed \cup {id[t]}
          /\ UNCHANGED <<tracked, lock, loaded>>
       \/ /\ method[t] = "checkpoint" /\ Return(t) /\ lock' = NoTask
          /\ UNCHANGED <<tracked, loaded, owed>>
       \/ /\ method[t] = "fail" /\ Return(t) /\ lock' = NoTask
          /\ IF rec[t].retries >= MaxRetries
             THEN /\ tracked' = [tracked EXCEPT ![id[t]] = NoOp]
                  /\ owed' = owed \ {id[t]}
             ELSE UNCHANGED <<tracked, owed>>
          /\ UNCHANGED loaded
       \/ /\ method[t] = "complete" /\ Advance(t, "rm_read")
          /\ UNCHANGED <<tracked, lock, loaded, owed, method, id, rec>>
       \/ /\ method[t] = "recover" /\ Advance(t, "attempt")
          /\ UNCHANGED <<tracked, lock, loaded, owed, method, id, rec>>
       \/ /\ method[t] = "settle" /\ Return(t)
          /\ loaded' = [loaded EXCEPT ![id[t]] = NoOp]
          /\ owed' = IF rec[t].status = "InProgress" THEN owed ELSE owed \ {id[t]}
          /\ UNCHANGED <<tracked, lock>>
    /\ completed' = IF method[t] = "settle" /\ rec[t].status = "Completed"
                    THEN completed \cup {id[t]} ELSE completed
    /\ UNCHANGED <<log, log_tmp, snap, opened, manager, used, damaged>>

MissingTempWaits(t) == FALSE

(* Another save has already renamed the temporary file. *)
MissingTemp(t) == at[t] = "rename" /\ log_tmp = NoTemp

(* A system call of save_operation or remove_operation fails. Errors of
   remove_operation are only logged; recover_on_startup gives up. *)
LogIoError(t) ==
    /\ \/ "io" \in LogFaults /\ at[t] \in {"truncate", "fill", "rename",
                                    "rm_read", "rm_truncate", "rm_fill"}
       \/ MissingTemp(t)
    /\ Return(t)
    /\ opened' = [opened EXCEPT ![t] = "gone"]
    /\ snap' = [snap EXCEPT ![t] = Blank]
    /\ lock' = IF lock = t THEN NoTask ELSE lock
    /\ IF at[t] \in {"rm_read", "rm_truncate", "rm_fill"}
       THEN owed' = owed \ {id[t]} /\ completed' = completed \cup {id[t]}
       ELSE UNCHANGED <<owed, completed>>
    /\ IF manager = "recovering" THEN manager' = "up" /\ loaded' = Blank
       ELSE UNCHANGED <<manager, loaded>>
    /\ damaged' = TRUE
    /\ UNCHANGED <<tracked, log, log_tmp, used>>

-----------------------------------------------------------------------------
(* A crash, and recover_on_startup, which runs before anything else and does
   nothing when the log cannot be read. *)

(* load_recovery_log: the operations worth recovering. *)
Recoverable == {"InProgress", "Interrupted"}

Crash ==
    /\ "crash" \in LogFaults
    /\ tracked' = Blank /\ lock' = NoTask
    /\ at' = [t \in Clients |-> "idle"] /\ opened' = [t \in Clients |-> "gone"]
    /\ snap' = [t \in Clients |-> Blank] /\ id' = [t \in Clients |-> NoOp]
    /\ method' = [t \in Clients |-> "none"] /\ rec' = [t \in Clients |-> Fresh]
    /\ \/ /\ manager' = "recovering"
          /\ loaded' = [i \in Ids |->
                  IF log[i] # NoOp /\ log[i].status \in Recoverable
                  THEN log[i] ELSE NoOp]
       \/ "io" \in LogFaults /\ manager' = "up" /\ loaded' = Blank
    /\ damaged' = (damaged \/ \E t \in Clients : at[t] = "rm_fill")
    /\ UNCHANGED <<log, log_tmp, used, owed, completed>>

(* The operation is more than 24 hours old. *)
Abandon(i) ==
    /\ manager = "recovering" /\ NoneRunning
    /\ loaded[i] # NoOp /\ loaded' = [loaded EXCEPT ![i] = NoOp]
    /\ owed' = owed \ {i}
    /\ UNCHANGED <<tracked, lock, log, log_tmp, taskState, manager, used,
                   completed,
                   damaged>>

MarkRecovering(t, i) ==
    /\ manager = "recovering" /\ NoneRunning /\ loaded[i] # NoOp
    /\ BeginSave(t, "recover", i, [loaded[i] EXCEPT !.status = "Recovering"])
    /\ UNCHANGED <<tracked, lock, manager, loaded, witnessed>>

(* The record after an attempt that failed. *)
Failed(r) ==
    [r EXCEPT !.retries = @ + 1,
              !.status = IF r.retries + 1 >= MaxRetries THEN "Failed"
                         ELSE "InProgress"]

(* recover_operation: finished work is Completed, unfinished work goes back to
   the pending transfers of the database, which may refuse it. *)
recover_operation(t) ==
    /\ at[t] = "attempt"
    /\ \/ /\ rec[t].done
          /\ BeginSave(t, "settle", id[t], [rec[t] EXCEPT !.status = "Completed"])
       \/ /\ ~rec[t].done
          /\ BeginSave(t, "settle", id[t], [rec[t] EXCEPT !.status = "InProgress"])
       \/ /\ ~rec[t].done /\ "database" \in LogFaults
          /\ BeginSave(t, "settle", id[t], Failed(rec[t]))
    /\ UNCHANGED <<tracked, lock, manager, loaded, witnessed>>

LogRecovered ==
    /\ manager = "recovering" /\ NoneRunning /\ loaded = Blank
    /\ manager' = "up"
    /\ UNCHANGED <<tracked, lock, log, log_tmp, taskState, loaded, witnessed>>

-----------------------------------------------------------------------------
Step(t) ==
    \/ ReadLog(t) \/ OpenTemp(t) \/ FillLogTemp(t) \/ RenameTemp(t) \/ Saved(t)
    \/ ReadForRemoval(t) \/ OpenLog(t) \/ FillLog(t) \/ recover_operation(t)

LogNext ==
    \/ \E t \in Clients : CallMethod(t) \/ Step(t) \/ ReadLogFails(t) \/ LogIoError(t)
    \/ Crash \/ LogRecovered
    \/ \E i \in Ids : Abandon(i) \/ \E t \in Clients : MarkRecovering(t, i)

LogSpec == LogInit /\ [][LogNext]_logvars

(* Every task the runtime polls makes its next system call. *)
FairLogSpec == LogSpec /\ \A t \in Clients : WF_logvars(Step(t) \/ LogIoError(t))

-----------------------------------------------------------------------------
(* Properties. *)

Quiet == manager = "up" /\ NoneRunning

(* Between calls of a single caller the log says of every tracked operation
   exactly what memory says, so that a crash then loses no progress, failure or
   retry count. *)
MemoryIsLogged ==
    Quiet /\ ~damaged => \A i \in Ids : tracked[i] # NoOp => log[i] = tracked[i]

(* An operation whose start returned Ok stays in the log, through crashes and
   recoveries, until it is completed or given up: only an I/O error, or a crash
   while remove_operation rewrites the log in place, loses it. *)
NothingLost ==
    Quiet /\ ~damaged => \A i \in owed : log[i] # NoOp

(* What a recovery would take up from the log was not completed before, however
   the removal of its record ended, and has retries left: the count survives
   restarts, so that no operation is tried forever. *)
NoResurrection ==
    NoneRunning => \A i \in Ids :
        log[i] # NoOp /\ log[i].status \in Recoverable =>
            i \notin completed /\ log[i].retries < MaxRetries

(* The three together: the log can be trusted for what it holds, what it does
   not hold, and what is left to do. *)
LogIsTrue == MemoryIsLogged /\ NothingLost /\ NoResurrection

(* Every call returns and releases the lock, also when another task renames or
   truncates the file it is about to rename. *)
CallsReturn ==
    \A t \in Clients : [](at[t] # "idle" => <>(at[t] = "idle" /\ lock # t))
=============================================================================
