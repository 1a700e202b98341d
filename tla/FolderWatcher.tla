--------------------------- MODULE FolderWatcher ---------------------------
(***************************************************************************)
(* The folder watcher of the index (landro-index, watcher/): the notify    *)
(* based platform watcher (fallback.rs, the one create_platform_watcher    *)
(* returns), the debouncer (mod.rs), and the loop that batches what has    *)
(* been quiet for a while and hands it to the indexer (legacy.rs).         *)
(*                                                                         *)
(* One folder is watched.  A version of a file is the number of the change *)
(* that made it, 0 when there is no file.  start_with_indexer takes the    *)
(* watcher for good, so folders are only watched and unwatched before it.  *)
(* The order in which the ready events leave the hash map is immaterial:   *)
(* each makes the indexer scan the folder, or does nothing.                *)
(*                                                                         *)
(* Left out: statistics, capabilities, file identifiers, nested folders.   *)
(***************************************************************************)
EXTENDS Naturals, Sequences, FiniteSets, SequencesExt, FiniteSetsExt

CONSTANTS
    WatchedFiles,   \* files of the folder
    IgnoredFiles,   \* those whose names match an ignore pattern
    batch_size,     \* events that make a batch
    MaxFileChanges  \* bound on the changes of the folder

(* The files that match ignore_patterns, and the size of a batch. *)
WatcherConfig == IgnoredFiles \subseteq WatchedFiles /\ batch_size \in Nat \ {0}

ASSUME FolderAssumption ==
    WatcherConfig /\ IsFiniteSet(WatchedFiles) /\ MaxFileChanges \in Nat

VARIABLES
    watched,        \* the folder is in watched_paths and watched_folders
    polling,        \* start_with_indexer runs
    fs_channel,     \* events of notify not yet polled
    debounced,      \* the debouncer: file -> its last event
    batch,          \* ready events not yet handed on
    forwarded,      \* events on their way to handle_fs_event
    version,           \* file -> version on disk
    rows,           \* file -> version in the index
    count,          \* changes so far
    owed,           \* history: files whose version notify reported
    missed          \* history: the last indexing failed

wvars == <<watched, polling, fs_channel, debounced, batch, forwarded, version,
           rows, count, owed, missed>>

FolderInit ==
    /\ watched = FALSE
    /\ polling = FALSE
    /\ fs_channel = <<>>
    /\ debounced = <<>>
    /\ batch = <<>>
    /\ forwarded = <<>>
    /\ version = [f \in WatchedFiles |-> 0]
    /\ rows = [f \in WatchedFiles |-> 0]
    /\ count = 0
    /\ owed = {}
    /\ missed = FALSE

----------------------------------------------------------------------------
(* FallbackWatcher: notify watches the folder, or no longer. *)
watch == ~ watched /\ watched' = TRUE
unwatch == watched /\ watched' = FALSE

watch_folder ==
    /\ ~ polling
    /\ watch
    /\ UNCHANGED <<polling, fs_channel, debounced, batch, forwarded, version,
                   rows, count, owed, missed>>

(* Events already in the channel stay there. *)
unwatch_folder ==
    /\ ~ polling
    /\ unwatch
    /\ owed' = {}
    /\ UNCHANGED <<polling, fs_channel, debounced, batch, forwarded, version,
                   rows, count, missed>>

start_with_indexer ==
    /\ ~ polling
    /\ polling' = TRUE
    /\ UNCHANGED <<watched, fs_channel, debounced, batch, forwarded, version,
                   rows, count, owed, missed>>

----------------------------------------------------------------------------
(* The user, and convert_notify_event: what an operation on a file sends.  *)
(* A rename that notify reports in one event names the new path only.      *)

Notified(fs, kind) ==
    IF watched
    THEN /\ fs_channel' = fs_channel \o
                 [i \in 1..Len(fs) |-> [path |-> fs[i], kind |-> kind]]
         /\ owed' = owed \cup ToSet(fs)
    ELSE UNCHANGED <<fs_channel, owed>>

FolderChange(files, fs, kind) ==
    /\ count < MaxFileChanges
    /\ count' = count + 1
    /\ version' = files
    /\ Notified(fs, kind)
    /\ UNCHANGED <<watched, polling, debounced, batch, forwarded, rows, missed>>

WriteFile(f) ==
    FolderChange([version EXCEPT ![f] = count + 1], <<f>>,
                 IF version[f] = 0 THEN "Created" ELSE "Modified")

Touch(f) ==
    /\ version[f] # 0
    /\ \E kind \in {"AttributeChanged", "Rescan"} :
          FolderChange([version EXCEPT ![f] = count + 1], <<f>>, kind)

RemoveFile(f) ==
    /\ version[f] # 0
    /\ FolderChange([version EXCEPT ![f] = 0], <<f>>, "Removed")

RenameFile(f, g) ==
    /\ version[f] # 0
    /\ f # g
    /\ LET moved == [version EXCEPT ![f] = 0, ![g] = count + 1]
       IN  \/ FolderChange(moved, <<g>>, "Renamed")
           \/ FolderChange(moved, <<f, g>>, "Modified")

----------------------------------------------------------------------------
(* The debouncer.  A file has one pending event, the last, and it is ready *)
(* when the delay has passed since.                                        *)

should_ignore_path(e) == e.path \in IgnoredFiles

EventsOf(events, f) ==
    {i \in 1..Len(events) : events[i].path = f /\ ~ should_ignore_path(events[i])}

(* A debouncer that keeps the first event of a file. *)
FirstEventStays(pending, events) ==
    [f \in DOMAIN pending \cup {g \in WatchedFiles : EventsOf(events, g) # {}} |->
        IF f \in DOMAIN pending THEN pending[f]
        ELSE [kind |-> events[Min(EventsOf(events, f))].kind, ready |-> FALSE]]

(* add_event for each of the events that are not ignored, in their order. *)
add_event(pending, events) ==
    [f \in DOMAIN pending \cup {g \in WatchedFiles : EventsOf(events, g) # {}} |->
        IF EventsOf(events, f) = {} THEN pending[f]
        ELSE [kind |-> events[Max(EventsOf(events, f))].kind, ready |-> FALSE]]

DelayPasses(f) ==
    /\ f \in DOMAIN debounced
    /\ ~ debounced[f].ready
    /\ debounced' = [debounced EXCEPT ![f].ready = TRUE]
    /\ UNCHANGED <<watched, polling, fs_channel, batch, forwarded, version, rows,
                   count, owed, missed>>

get_ready_events(pending) ==
    SetToSeq({[path |-> f, kind |-> pending[f].kind] :
                 f \in {g \in DOMAIN pending : pending[g].ready}})

StillPending(pending) ==
    LET left == {f \in DOMAIN pending : ~ pending[f].ready}
    IN  [f \in left |-> pending[f]]

(* FallbackWatcher::poll_events empties the channel. *)
poll_events == fs_channel' = <<>>

(* One tick of process_events.  Full batches are handed on; the rest of    *)
(* the ready events only when nothing is pending.                          *)
process_events ==
    /\ polling
    /\ LET pending == add_event(debounced, fs_channel)
           all  == batch \o get_ready_events(pending)
           left == StillPending(pending)
           out  == IF DOMAIN left = {} THEN Len(all)
                   ELSE (Len(all) \div batch_size) * batch_size
       IN  /\ debounced' = left
           /\ forwarded' = forwarded \o SubSeq(all, 1, out)
           /\ batch' = SubSeq(all, out + 1, Len(all))
    /\ poll_events
    /\ UNCHANGED <<watched, polling, version, rows, count, owed, missed>>

(* handle_fs_event: nothing for a removal, else a scan of the folder.  A   *)
(* scan that fails is logged and the event is gone.  A scan never deletes  *)
(* rows.                                                                   *)
handle_fs_event(succeeds) ==
    /\ forwarded # <<>>
    /\ forwarded' = Tail(forwarded)
    /\ IF watched /\ Head(forwarded).kind # "Removed"
       THEN /\ missed' = ~ succeeds
            /\ rows' = [f \in WatchedFiles |->
                           IF succeeds /\ version[f] # 0 THEN version[f] ELSE rows[f]]
       ELSE UNCHANGED <<missed, rows>>
    /\ UNCHANGED <<watched, polling, fs_channel, debounced, batch, version, count,
                   owed>>

FolderNext ==
    \/ watch_folder
    \/ unwatch_folder
    \/ start_with_indexer
    \/ \E f \in WatchedFiles :
          \/ WriteFile(f)
          \/ Touch(f)
          \/ RemoveFile(f)
          \/ DelayPasses(f)
          \/ \E g \in WatchedFiles : RenameFile(f, g)
    \/ process_events
    \/ \E ok \in BOOLEAN : handle_fs_event(ok)

----------------------------------------------------------------------------
(* When the watcher is idle (nothing in a channel, in the debouncer or in  *)
(* the batch) the index holds the version on disk of every file whose last *)
(* change notify reported, unless the last scan failed: coalescing,        *)
(* batching and the scans of other files lose no change.                   *)
QuietIsIndexed ==
    /\ watched /\ polling /\ ~ missed
    /\ fs_channel = <<>> /\ debounced = <<>> /\ batch = <<>> /\ forwarded = <<>>
    => \A f \in owed \ IgnoredFiles : version[f] # 0 => rows[f] = version[f]

=============================================================================
