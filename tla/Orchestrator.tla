---------------------------- MODULE Orchestrator ----------------------------
(***************************************************************************)
(* landro-daemon/src/orchestrator.rs: the actor that collects file events, *)
(* and after a quiet period has each file chunked, stored and indexed.     *)
(*                                                                         *)
(* The user changes files of the folder.  The watcher may report a change: *)
(* each of its batches is sent to the actor by a task of its own (main.rs),*)
(* so events arrive in any order, and where the rest of the program sends  *)
(* a message at any time the model has the handler's action at any time.   *)
(* The actor handles one message or one tick at a time; process_file_batch *)
(* spawns a task per path, at most MaxConcurrent at once, and waits for    *)
(* them.  Client c > 0 of the indexer is the task in slot c, client 0 the  *)
(* actor.                                                                  *)
(***************************************************************************)
EXTENDS FileIndexer, Sequences

CONSTANTS Peers,
          MaxVersion  \* how often a file is written (bound)

VARIABLES
    writes,   \* path -> how often it was written
    sends,    \* events on their way to the actor
    buffer,   \* debounce_buffer
    pc, closing,          \* the actor's step; the loop of run() has ended
    lists,    \* the batches of process_debounced_changes still to do
    slot,     \* the tasks of process_file_batch
    adding, dir, \* process_folder_for_sync: for add_sync_folder, entries to do
    synced, peers, \* the folder is in synced_folders; active_peers
    known, failed         \* observation: see below

(***************************************************************************)
(* known is the set of paths whose last change was reported to the running *)
(* daemon, failed says that some file could not be read or indexed, which  *)
(* happens at most once between two starts (bound).                        *)
(***************************************************************************)
channel == <<writes, sends>>
folder  == <<adding, dir>>
ovars   == <<channel, buffer, pc, closing, lists, slot, folder, synced, peers,
             known, failed>>
vars    == <<ivars, ovars>>

Kinds    == {"Created", "Modified", "Deleted"}
Events   == [kind : Kinds, path : Paths]
Slots    == 1..MaxConcurrent
Free     == [step |-> "free"]
NoLists  == [k \in Kinds |-> <<>>]

Init ==
    /\ IndexInit
    /\ writes = [p \in Paths |-> 0] /\ sends = {}
    /\ buffer = <<>> /\ pc = "loop" /\ closing = FALSE
    /\ lists = NoLists /\ slot = [i \in Slots |-> Free]
    /\ adding = FALSE /\ dir = {}
    /\ synced = FALSE /\ peers = {}
    /\ known = {} /\ failed = FALSE

-----------------------------------------------------------------------------
(* The user and the watcher.  An event is not sent again while one like it *)
(* is on its way (bound).                                                  *)

Changed(p, kind, content) ==
    /\ disk' = [disk EXCEPT ![p] = content]
    /\ \/ /\ sends' = sends \cup {[kind |-> kind, path |-> p]}
          /\ known' = known \cup {p}
       \/ UNCHANGED sends /\ known' = known \ {p}
    /\ UNCHANGED <<store, tables, call, indexing, buffer, pc, closing,
                   lists, slot, folder, synced, peers, failed>>

WriteFile(p) ==
    /\ writes[p] < MaxVersion
    /\ writes' = [writes EXCEPT ![p] = @ + 1]
    /\ Changed(p, IF disk[p] = Gone THEN "Created" ELSE "Modified", writes[p] + 1)

RemoveFile(p) ==
    /\ disk[p] # Gone
    /\ Changed(p, "Deleted", Gone) /\ UNCHANGED writes

-----------------------------------------------------------------------------
(* handle_message *)

Receive ==
    /\ pc = "loop"
    /\ UNCHANGED <<disk, store, tables, indexing, writes, closing, lists,
                   slot, dir, known, failed>>

FileChanged(e) ==
    /\ Receive /\ e \in sends
    /\ sends' = sends \ {e}
    /\ buffer' = Append(buffer, e)
    /\ UNCHANGED <<call, pc, adding, synced, peers>>

handle_peer_discovered(n) ==
    /\ Receive
    /\ peers' = peers \cup {n}
    /\ UNCHANGED <<sends, call, buffer, pc, adding, synced>>

handle_peer_lost(n) ==
    /\ Receive
    /\ peers' = peers \ {n}
    /\ UNCHANGED <<sends, call, buffer, pc, adding, synced>>

(* process_folder_for_sync begins with index_folder. *)
ProcessFolder(add) ==
    /\ pc' = "folder" /\ adding' = add
    /\ call' = [call EXCEPT ![0] = "asked"]

handle_sync_request(n) ==
    /\ Receive /\ n \in peers
    /\ ProcessFolder(FALSE)
    /\ UNCHANGED <<sends, buffer, synced, peers>>

add_sync_folder ==
    /\ Receive /\ ~synced
    /\ ProcessFolder(TRUE)
    /\ UNCHANGED <<sends, buffer, synced, peers>>

remove_sync_folder ==
    /\ Receive
    /\ synced' = FALSE
    /\ UNCHANGED <<sends, call, buffer, pc, adding, peers>>

Shutdown ==
    /\ Receive
    /\ pc' = "shutdown"
    /\ UNCHANGED <<sends, call, buffer, adding, synced, peers>>

-----------------------------------------------------------------------------
(* process_folder_for_sync, by the actor itself *)

FolderStep ==
    UNCHANGED <<disk, tables, indexing, channel, buffer, closing, lists, slot,
                adding, peers, known>>

FolderIndexed ==
    /\ pc = "folder" /\ call[0] \in {"ok", "error"}
    /\ call' = [call EXCEPT ![0] = "none"]
    /\ IF call[0] = "ok"
         THEN pc' = "entries" /\ dir' = OnDisk
         ELSE pc' = "loop" /\ UNCHANGED dir
    /\ FolderStep /\ UNCHANGED <<store, synced, failed>>

(* process_single_file_internal, process_file_streaming *)
EntryStored ==
    /\ pc = "entries"
    /\ \E p \in dir :
        /\ dir' = dir \ {p}
        /\ IF disk[p] = Gone
             THEN UNCHANGED <<store, call, pc>>
             ELSE /\ store' = store \cup {<<p, disk[p]>>}
                  /\ call' = [call EXCEPT ![0] = "asked"] /\ pc' = "entry"
    /\ FolderStep /\ UNCHANGED <<synced, failed>>

(* An error is logged. *)
EntryIndexed ==
    /\ pc = "entry" /\ call[0] \in {"ok", "error"}
    /\ call' = [call EXCEPT ![0] = "none"]
    /\ pc' = "entries"
    /\ FolderStep /\ UNCHANGED <<store, dir, synced, failed>>

EntryFails ==
    /\ "io" \in Faults /\ ~failed /\ pc = "entries"
    /\ \E p \in dir : dir' = dir \ {p}
    /\ failed' = TRUE
    /\ FolderStep /\ UNCHANGED <<store, call, pc, synced>>

(* The directory cannot be read, or an entry was removed before metadata(). *)
FolderFails ==
    /\ pc = "entries"
    /\ "io" \in Faults \/ \E p \in dir : disk[p] = Gone
    /\ pc' = "loop" /\ dir' = {}
    /\ FolderStep /\ UNCHANGED <<store, call, synced, failed>>

FolderDone ==
    /\ pc = "entries" /\ dir = {}
    /\ pc' = "loop" /\ synced' = (synced \/ adding)
    /\ FolderStep /\ UNCHANGED <<store, call, dir, failed>>

-----------------------------------------------------------------------------
(* process_debounced_changes, on a tick or from shutdown(), once the       *)
(* debounce window has elapsed: at any time.                               *)

BatchStep ==
    UNCHANGED <<ivars, channel, folder, synced, peers, known, failed>>

(* The paths of the events of each kind, in order. *)
Grouped(events) ==
    [k \in Kinds |->
        LET mine    == {i \in DOMAIN events : events[i].kind = k}
            Rank(i) == Cardinality({j \in mine : j <= i})
        IN  [n \in 1..Cardinality(mine) |->
                events[CHOOSE i \in mine : Rank(i) = n].path]]

process_debounced_changes ==
    /\ pc \in {"loop", "shutdown"} /\ buffer # <<>>
    /\ lists' = Grouped(buffer) /\ buffer' = <<>>
    /\ pc' = "batches" /\ closing' = (pc = "shutdown")
    /\ BatchStep /\ UNCHANGED slot

(* Creations, then modifications, then deletions, for which nothing is done. *)
process_file_batch ==
    /\ pc = "batches"
    /\ \E k \in Kinds :
        /\ lists[k] # <<>>
        /\ k = "Modified" => lists["Created"] = <<>>
        /\ k = "Deleted" => lists["Created"] = <<>> /\ lists["Modified"] = <<>>
        /\ slot' = [i \in Slots |->
              IF i > Len(lists[k]) THEN Free
              ELSE [step |-> IF k = "Deleted" THEN "done" ELSE "read",
                    path |-> lists[k][i]]]
        /\ lists' = [lists EXCEPT ![k] = SubSeq(@, MaxConcurrent + 1, Len(@))]
    /\ pc' = "join"
    /\ BatchStep /\ UNCHANGED <<buffer, closing>>

Join ==
    /\ pc = "join" /\ \A i \in Slots : slot[i].step \in {"free", "done"}
    /\ slot' = [i \in Slots |-> Free]
    /\ pc' = "batches"
    /\ BatchStep /\ UNCHANGED <<buffer, closing, lists>>

(* trigger_auto_sync only calls back; then the loop goes on, or run() ends. *)
BatchesDone ==
    /\ pc = "batches" /\ lists = NoLists
    /\ pc' = IF closing THEN "stopped" ELSE "loop"
    /\ BatchStep /\ UNCHANGED <<buffer, closing, lists, slot>>

(* shutdown() without changes, or within the debounce window, when they are *)
(* lost.                                                                    *)
shutdown ==
    /\ pc = "shutdown"
    /\ pc' = "stopped"
    /\ BatchStep /\ UNCHANGED <<buffer, closing, lists, slot>>

-----------------------------------------------------------------------------
(* process_single_file, in a task *)

TaskStep ==
    UNCHANGED <<disk, tables, indexing, channel, buffer, pc, closing, lists,
                folder, synced, peers, known>>

ReadFile(i) ==
    /\ slot[i].step = "read"
    /\ slot' = [slot EXCEPT ![i] =
          IF disk[@.path] = Gone THEN [step |-> "done", path |-> @.path]
          ELSE [step |-> "store", path |-> @.path, content |-> disk[@.path]]]
    /\ TaskStep /\ UNCHANGED <<store, call, failed>>

StoreFile(i) ==
    /\ slot[i].step = "store"
    /\ store' = store \cup {<<slot[i].path, slot[i].content>>}
    /\ slot' = [slot EXCEPT ![i] = [step |-> "index", path |-> @.path]]
    /\ call' = [call EXCEPT ![i] = "asked"]
    /\ TaskStep /\ UNCHANGED failed

(* What index_folder returned is only logged. *)
FileIndexed(i) ==
    /\ slot[i].step = "index" /\ call[i] \in {"ok", "error"}
    /\ call' = [call EXCEPT ![i] = "none"]
    /\ slot' = [slot EXCEPT ![i] = [step |-> "done", path |-> @.path]]
    /\ TaskStep /\ UNCHANGED <<store, failed>>

FileFails(i) ==
    /\ "io" \in Faults /\ ~failed /\ slot[i].step \in {"read", "store"}
    /\ slot' = [slot EXCEPT ![i] = [step |-> "done", path |-> @.path]]
    /\ failed' = TRUE
    /\ TaskStep /\ UNCHANGED <<store, call>>

-----------------------------------------------------------------------------
(* A crash, or an exit after shutdown, and a new start: the folder, the     *)
(* store and the tables survive.                                           *)
Restart ==
    /\ "crash" \in Faults \/ pc = "stopped"
    /\ call' = [c \in Clients |-> "none"] /\ user' = NoClient
    /\ ipc' = "idle" /\ version' = 0 /\ left' = {} /\ entry' = <<>> /\ partial' = NoFiles
    /\ sends' = {} /\ buffer' = <<>>
    /\ pc' = "loop" /\ closing' = FALSE /\ lists' = NoLists
    /\ slot' = [i \in Slots |-> Free]
    /\ adding' = FALSE /\ dir' = {}
    /\ synced' = FALSE /\ peers' = {} /\ known' = {} /\ failed' = FALSE
    /\ UNCHANGED <<disk, store, tables, writes>>

Handle ==
    \/ \E n \in Peers :
         handle_peer_discovered(n) \/ handle_peer_lost(n) \/ handle_sync_request(n)
    \/ add_sync_folder \/ remove_sync_folder \/ Shutdown

ActorStep ==
    \/ FolderIndexed \/ EntryStored \/ EntryIndexed \/ FolderDone
    \/ process_file_batch \/ Join \/ BatchesDone \/ shutdown

FileStep(i) == ReadFile(i) \/ StoreFile(i) \/ FileIndexed(i)

Index(c) == IndexStep(c) /\ UNCHANGED ovars

IndexFails(c) ==
    /\ ~failed /\ IndexFailure(c) /\ failed' = TRUE
    /\ UNCHANGED <<channel, buffer, pc, closing, lists, slot, folder, synced,
                   peers, known>>

Next ==
    \/ \E p \in Paths : WriteFile(p) \/ RemoveFile(p)
    \/ \E e \in Events : FileChanged(e)
    \/ Handle \/ process_debounced_changes \/ ActorStep \/ EntryFails \/ FolderFails
    \/ \E i \in Slots : FileStep(i) \/ FileFails(i)
    \/ \E c \in Clients : Index(c) \/ IndexFails(c)
    \/ Restart

Spec == Init /\ [][Next]_vars

(* The work the actor has begun: its own steps, its tasks and the indexer. *)
Work ==
    \/ ActorStep
    \/ \E i \in Slots : FileStep(i)
    \/ \E c \in Clients : Index(c)

(* The runtime polls every task, the channel is a fair queue, and select!    *)
(* picks at random among what is ready, so ticks are not starved by messages *)
(* nor messages by ticks.                                                    *)
FairSpec ==
    /\ Spec
    /\ WF_vars(Work)
    /\ SF_vars(process_debounced_changes)
    /\ SF_vars(\E e \in Events : FileChanged(e))

-----------------------------------------------------------------------------

(* When no event is on its way and the actor waits, the table files says of *)
(* every changed file that is still there what its latest content is:       *)
(* whichever way changes, events, tasks and index_folder calls overlapped,  *)
(* unless an operation failed.                                              *)
CaughtUp ==
    (pc = "loop" /\ sends = {} /\ buffer = <<>> /\ ~failed) =>
        \A p \in known : disk[p] # Gone => files[p] = disk[p]

(* A changed file is eventually indexed with its new content, unless it is  *)
(* removed, an operation fails or the daemon ends.                          *)
ChangesAreIndexed ==
    \A p \in Paths :
        (p \in known /\ disk[p] # Gone /\ files[p] # disk[p]) ~>
            (files[p] = disk[p] \/ disk[p] = Gone \/ failed \/ pc = "stopped"
               \/ p \notin known)
=============================================================================
