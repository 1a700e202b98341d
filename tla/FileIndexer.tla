---------------------------- MODULE FileIndexer ----------------------------
(***************************************************************************)
(* landro-index: FileIndexer::index_folder behind the lock of AsyncIndexer *)
(* (indexer.rs, async_indexer.rs), and the tables it writes                *)
(* (database_pool.rs), for one folder.                                     *)
(*                                                                         *)
(* A file's content is its version, and one chunk stands for the chunks of *)
(* a content.  The steps of index_folder are separated where the user may  *)
(* change a file or a call may fail in between.                            *)
(***************************************************************************)
EXTENDS Naturals, FiniteSetsExt

CONSTANTS
    Paths,         \* files the folder may have
    Gone,          \* no such file, no such row
    MaxConcurrent, \* callers of index_folder besides the actor, 0
    NoClient,
    Faults         \* "io": reads, writes and the database may fail; "crash"

ASSUME IndexAssumption ==
    MaxConcurrent \in Nat /\ Gone \notin Nat /\ NoClient \notin 0..MaxConcurrent

VARIABLES
    disk,      \* the folder: path -> version
    store,     \* contents in the content store
    files,     \* table files: path -> version its content_hash is of
    manifests, \* table manifests, with the chunk lists of manifest_files
    call,      \* what became of each client's index_folder
    user,      \* the client that holds the lock
    ipc, version, left, entry, partial \* its step, next_version, files still to
               \* index, the one being indexed, and the manifest so far

indexing == <<user, ipc, version, left, entry, partial>>
tables   == <<files, manifests>>
ivars    == <<disk, store, tables, call, indexing>>

Clients  == 0..MaxConcurrent
NoFiles  == [p \in Paths |-> Gone]
OnDisk   == {p \in Paths : disk[p] # Gone}

IndexInit ==
    /\ disk = NoFiles /\ store = {} /\ files = NoFiles /\ manifests = {}
    /\ call = [c \in Clients |-> "none"] /\ user = NoClient
    /\ ipc = "idle" /\ version = 0 /\ left = {} /\ entry = <<>> /\ partial = NoFiles

Return(c, result) ==
    /\ call' = [call EXCEPT ![c] = result]
    /\ user' = NoClient /\ ipc' = "idle"
    /\ version' = 0 /\ left' = {} /\ entry' = <<>> /\ partial' = NoFiles

-----------------------------------------------------------------------------
(* The rows are looked up by the folder's path. *)
get_latest_manifest_version ==
    Max({0} \cup {m.version : m \in {r \in manifests : r.folder_path = "folder"}})

(* The write lock, the next version, and walk_directory. *)
index_folder(c) ==
    /\ call[c] = "asked" /\ user = NoClient
    /\ user' = c /\ ipc' = "next"
    /\ version' = get_latest_manifest_version + 1
    /\ left' = OnDisk
    /\ UNCHANGED <<disk, store, tables, call, entry, partial>>

(* index_file: a file that is no longer there is left out of the manifest. *)
index_file(c) ==
    /\ user = c /\ ipc = "next"
    /\ \E p \in left :
        /\ left' = left \ {p}
        /\ IF disk[p] = Gone
             THEN UNCHANGED <<ipc, entry>>
             ELSE ipc' = "chunks" /\ entry' = <<p, disk[p]>>
    /\ UNCHANGED <<disk, store, tables, call, user, version, partial>>

RowsFirst(c) ==
    /\ user = c /\ ipc = "chunks"
    /\ ipc' = "row" /\ files' = [files EXCEPT ![entry[1]] = entry[2]]
    /\ UNCHANGED <<disk, store, manifests, call, user, version, left, entry, partial>>

store_chunks(c) ==
    /\ user = c /\ ipc = "chunks"
    /\ ipc' = "row" /\ store' = store \cup {entry}
    /\ UNCHANGED <<disk, tables, call, user, version, left, entry, partial>>

RowKept(c) ==
    /\ user = c /\ ipc = "row"
    /\ ipc' = "next" /\ entry' = <<>>
    /\ files' = [files EXCEPT ![entry[1]] = IF @ = Gone THEN entry[2] ELSE @]
    /\ partial' = [partial EXCEPT ![entry[1]] = entry[2]]
    /\ UNCHANGED <<disk, store, manifests, call, user, version, left>>

upsert_file(c) ==
    /\ user = c /\ ipc = "row"
    /\ ipc' = "next" /\ entry' = <<>>
    /\ files' = [files EXCEPT ![entry[1]] = entry[2]]
    /\ partial' = [partial EXCEPT ![entry[1]] = entry[2]]
    /\ UNCHANGED <<disk, store, manifests, call, user, version, left>>

(* Any step of index_file may fail, and the file is left out. *)
index_file_fails(c) ==
    /\ "io" \in Faults /\ user = c /\ ipc \in {"chunks", "row"}
    /\ ipc' = "next" /\ entry' = <<>>
    /\ UNCHANGED <<disk, store, tables, call, user, version, left, partial>>

ConflictKeepsLock(c) ==
    LET row == [folder_path |-> "/", version |-> version, entries |-> partial]
    IN  /\ user = c /\ ipc = "next" /\ left = {}
        /\ \A m \in manifests : m.version # version
        /\ manifests' = manifests \cup {row}
        /\ files' = [p \in Paths |-> IF partial[p] = Gone THEN files[p] ELSE partial[p]]
        /\ Return(c, "ok")
        /\ UNCHANGED <<disk, store>>

(* save_manifest enters the row under "/", whatever the folder, and fails as *)
(* a whole when there is a row with that version.                            *)
save_manifest(c) ==
    LET row == [folder_path |-> "/", version |-> version, entries |-> partial]
    IN  /\ user = c /\ ipc = "next" /\ left = {}
        /\ IF \E m \in manifests : m.version = version
             THEN Return(c, "error") /\ UNCHANGED tables
             ELSE /\ manifests' = manifests \cup {row}
                  /\ files' = [p \in Paths |-> IF partial[p] = Gone
                                                 THEN files[p] ELSE partial[p]]
                  /\ Return(c, "ok")
        /\ UNCHANGED <<disk, store>>

(* The folder cannot be read, or the database does not answer: before the *)
(* first file, or after the last.                                         *)
index_folder_fails(c) ==
    /\ "io" \in Faults
    /\ \/ call[c] = "asked" /\ user = NoClient
       \/ user = c /\ ipc = "next" /\ left = {}
    /\ Return(c, "error")
    /\ UNCHANGED <<disk, store, tables>>

IndexStep(c) ==
    \/ index_folder(c) \/ index_file(c) \/ store_chunks(c) \/ upsert_file(c)
    \/ save_manifest(c)

IndexFailure(c) == index_file_fails(c) \/ index_folder_fails(c)

-----------------------------------------------------------------------------
(* Every content that a row of files or a saved manifest names is in the   *)
(* content store, so a peer that asks for it can be served: index_file     *)
(* stores chunks before it writes rows, also when it fails half way or the *)
(* file changes meanwhile.                                                 *)
NamedIsStored ==
    \A p \in Paths :
        /\ files[p] # Gone => <<p, files[p]>> \in store
        /\ \A m \in manifests : m.entries[p] # Gone => <<p, m.entries[p]>> \in store

(* "Create new manifest with incremented version" (indexer.rs:94): the     *)
(* version about to be saved is a new one.                                 *)
VersionIsNew ==
    user # NoClient => \A m \in manifests : m.version # version
=============================================================================
