# landropic: a verification development in TLA+

landropic synchronises folders between machines of a local network. A daemon
watches a folder, cuts files into content-addressed chunks, keeps them in a
content store, indexes them in SQLite, and exchanges manifests and chunks with
peers over QUIC. This directory models the parts of it that carry its state
through concurrency, failures and restarts, checks them with TLC on small
instances, and proves some of their properties with TLAPS for all instances.

`PROJECT.json` lists components, runs, mutants (deliberately wrong versions of
an action, each of which must break the property it is listed with), the
correspondence of definitions and source lines, findings, hazards and theorems.
Line numbers below are of the repository's sources.

## 1. Inventory

| Component | State | Operations | What makes it correct |
|---|---|---|---|
| Content store, files (`landro-cas/src/storage.rs`) | one file per object, `<hash>.tmp`, `dedup_index` | `write`, `write_stream`, `write_individual_optimized`, `delete`, `recover` | a visible object is complete; an acknowledged one survives crashes; no debris |
| Content store, layers (`storage.rs`, `atomic.rs`) | chunk cache and its byte count, batch, partial transfers, integrity scan | `read`, `write_batch`, `flush_batch`, resumable writes, `scan` | answers are honest; accounts balance; an interrupted write is whole or nothing |
| Recovery log (`landro-sync/src/recovery.rs`) | `active_operations`, `recovery.log` | start, checkpoint, complete, fail, `recover_on_startup` | a started operation is not lost, a completed one not redone |
| Connection pool (`landro-quic/src/pool.rs`) | connections per peer, stream counts | get, add, release, cleanup, remove, shutdown | limits hold; a connection is not shared beyond bounds |
| Reconnection manager (`reconnection_manager.rs`) | per-peer state, `active_reconnections` | report, track, stop; one task per peer | one task per peer, bounded attempts, nobody locked out |
| Breaker and connection monitor (`landro-quic/src/recovery.rs`) | breaker per address, ping counters | allow, success, failure, ping | condemned only for cause |
| Handshake (`client.rs`, `server.rs`, `connection.rs`) | attempts, list of connections | dial, accept, hello, stop | both sides agree which connection lives |
| Stream transfers (`stream_transfer.rs`) | flow-control window, permits | `stream_chunks`, acquire, drop | the window is conserved |
| Resumable transfers (`transfer.rs`, `resumable.rs`, `protocol.rs`) | transfers, checkpoints | want, batch, pause, resume, cleanup | completed means everything arrived |
| Manifest diff (`landro-sync/src/diff.rs`, `landro-index/src/manifest.rs`) | `pending_changes`, Merkle root | `compute_diff`, `compute_incremental`, `mark_synced`, `verify` | no change forgotten, none repeated; a sealed manifest is what was sealed |
| Sync session (`landro-sync/src/protocol.rs`) | phase, manifests, wanted, sent and received chunks | one handler per message | chunks sent and stored once, completion means completion |
| Transport and persistence (`quic_integration.rs`, `sync_persistence.rs`) | a stream per message, session files | initiate, respond, save, resume | both ends progress; a resumed session loses little |
| Sync orchestrator (`landro-sync/src/orchestrator.rs`, `scheduler.rs`, `state.rs`) | peer states, transfer queue, tables | start, schedule, complete | one sync per peer, idle when none is left, no deadlock |
| Conflict detection (`conflict_detection.rs`) | detected conflicts per device | detect, resolve, clear | both devices keep the same version |
| Wire protocol handler (`landro-proto/src/sync_handler.rs`) | state and progress behind locks | one handler per message | handlers do not block each other |
| Daemon orchestrator (`landro-daemon/src/orchestrator.rs`, `main.rs`) | debounce buffer, folders, peers | an actor with one handler per message, ticks, file tasks | every reported change is indexed |
| Daemon shell, discovery, file watcher (`daemon.rs`, `discovery.rs`, `watcher.rs`) | running flag, parts, peers, event channel | start, stop, add and remove folders | running means whole, stopped means stopped |
| Resume manager, end-to-end sync, simple transfer, bloom diff (`landro-daemon`) | checkpoints and their file, session tables, files in transfer, filters | checkpoint, resume, phases, send, receive, compare | file whole, tables agree, success is stored |
| Indexer, migrations, folder watcher (`landro-index`) | tables `files`, `chunks`, `manifests`, schema versions; debouncer | `index_folder`, upgrade, downgrade, poll | what the index names is in the store; versions have no gap; the last change is indexed |
| Chunker (`landro-chunker`) | the buffer | `chunk_stream`, `chunk_bytes` | cuts are within limits and do not depend on what follows |
| Packfiles, metrics, crypto, CLI, idle parts | | | not modelled, section 7 |

Interaction: the watcher's callback spawns a task that sends events to the
orchestrator's channel; the orchestrator's file tasks call the content store and
the indexer, which has a content store of its own on the same directory; a
session reads and fills the content store, records completion in the state
database and asks the incremental diff what is wanted; reconnection tasks add
connections to the pool that transfers take from; the shell owns the server, the
discovery and the watchers. Shared state is protected by tokio locks held over
some awaits and not over others; nothing else serialises two tasks.

The behaviours that are hard: writers of one object meeting in one temporary
file; locks given back between a test and the act; locks taken in two orders;
tasks aborted in the middle; power loss between a rename and the directory's
sync; files truncated and then filled under a read lock; files changed while
they are being indexed; timeouts that race the answer; messages handled out of
phase.

## 2. Modules

| Module | Code | State and actions |
|---|---|---|
| `ContentStore` | `storage.rs` | names, inodes and contents as the kernel shows them (`final`, `tmp`, `data`) and as the disk has them (`dfinal`, `dtmp`, `ddata`); one action per system call of `write_atomic`, `write_stream`, `delete`; `recover` on start; kills and power losses |
| `BlobStore` | | the abstract store: objects, and readers that ask and are answered |
| `ChunkCache` | `storage.rs` | cache as its order of use, byte count, dedup index, the batch and its tasks; reads and prefetch; instantiates `BlobStore` |
| `ResumableWrite` | `storage.rs`, `atomic.rs` | partial transfers with expiry and cleanup; `AtomicWriter` with crash and resumption |
| `IntegrityScan` | `storage.rs` | the scan beside batches of streams, deletions and decay |
| `RecoveryLog` | `landro-sync/src/recovery.rs` | memory, the log and its temporary file; one action per file system call of `save_operation` and `remove_operation`; recovery record by record |
| `ConnectionPool` | `pool.rs` | connections, their counts and callers; one action per critical section |
| `Reconnection` | `reconnection_manager.rs` | per-peer state, the table of tasks, reporters holding the lock; one action per await of the task |
| `CircuitBreaker` | `landro-quic/src/recovery.rs` | the breaker shared by retrying requests; the monitor's pings and dropped links |
| `Handshake` | `client.rs`, `server.rs`, `connection.rs` | dials, the accept loop, hellos, timeouts on both sides |
| `StreamTransfer` | `stream_transfer.rs` | window, each call's place in `acquire_capacity`, each chunk's task |
| `TransferEngine` | `transfer.rs`, `resumable.rs`, `protocol.rs` | transfers of the engine and of the manager, checkpoints, the batch under way |
| `ManifestDiff`, `IncrementalDiff` | `diff.rs` | `compute_diff` as operators; the incremental differ as a state machine on top |
| `ManifestHash` | `manifest.rs` | files, root, `verify` |
| `SyncSession` (extends `ManifestDiff`) | `protocol.rs` | one action per handler; `handle_want` and `handle_ack` in the steps between their locks |
| `SyncTransport` | `quic_integration.rs` | two ends, a queue of streams each, the phase of each end's session |
| `SyncPersistence` | `sync_persistence.rs` | sessions in memory, counters, session files; saves in the steps between which another may come |
| `SyncOrchestrator` | `orchestrator.rs`, `scheduler.rs`, `state.rs` of landro-sync | peers in memory and in the database, global state, queue; in its second half, as a state machine of its own, the two locks with their queues of requests |
| `ConflictDetection` | `conflict_detection.rs` | two devices, their files with times, what each detected |
| `SyncHandler` | `sync_handler.rs` | the handlers with the locks they hold and wait for |
| `FileIndexer` | `indexer.rs`, `async_indexer.rs`, `database_pool.rs` | tables, and `index_folder` in the steps between which files may change or a call fail |
| `Orchestrator` (extends `FileIndexer`) | `landro-daemon/src/orchestrator.rs`, `main.rs` | the actor's handlers, batches and tasks, the user, restarts |
| `Discovery`, `FileWatcher`, `DaemonShell` (composes the two) | `discovery.rs`, `watcher.rs`, `daemon.rs` | services numbered by their start, watchers with channel, task and flag; start and stop step by step |
| `FolderWatcher` | `landro-index/src/watcher/` | channels, debouncer, batch, scans |
| `ResumeManager` | `resume_manager.rs` | table, file, monitors, saves in two steps either of which may fail, the copy of a resumption, the call that begins a session |
| `EndToEndSync` | `end_to_end_sync.rs`, `cli_progress_api.rs` | the starting calls, the workflows, three tables, progress monitors |
| `SimpleTransfer` | `simple_sync_protocol.rs`, `connection_handler.rs` | sender, receiver and messages of each stream, files |
| `BloomDiff` | `bloom_diff.rs` | manifests and stages of two handlers, messages |
| `Migrations` | `migrations.rs` | recorded versions, what each program still applies, and whether a downgrade began below the latest version |
| `Chunker` | `chunker.rs` | the buffer; the rolling hash and both cutting loops as operators |
| `MC*` | | the sets of calls and outcomes, and symmetries, of the instances |
| `ContentStore_proofs`, `Orchestrator_proofs` | | theorems about the module of the same name |
| `Liveness_proofs` | | theorems about `Reconnection` and `SyncSession`, the parts of the run `liveness` |
| `Quic_proofs` | | `ConnectionPool`, `StreamTransfer`, `TransferEngine`, `CircuitBreaker`, `Handshake` |
| `SyncState_proofs` | | `SyncPersistence`, `RecoveryLog`, `SyncTransport`, `SyncOrchestrator` and its locks, `SyncHandler` |
| `StoreLayers_proofs` | | `ChunkCache` with its refinement of `BlobStore`, `ResumableWrite`, `IntegrityScan` |
| `Services_proofs` | | `ResumeManager`, `EndToEndSync`, `SimpleTransfer`, `BloomDiff`, `Migrations`, `ConflictDetection`, `IncrementalDiff`, `DaemonShell` with `Discovery` and `FileWatcher`, `FolderWatcher`, `Chunker`, `ManifestHash` |

Composition. `Orchestrator` runs on `FileIndexer`, `SyncSession` on
`ManifestDiff`, `DaemonShell` on `Discovery` and `FileWatcher`: their actions
change the parts together. The other parts of a run share no state in the
program either; `MCLiveness`, `MCStoreLayers`, `MCQuic`,
`MCSyncState` and `MCServices` put them side by side, and a variable `focus`,
chosen in the initial state, says which of them a behaviour exercises. Interleaving
parts that cannot see each other would multiply states and show nothing. A theorem
is about a component by itself: its specification (`PoolSpec`, `LocksSpec`, ...)
is the component's initial predicate and next-state relation.

`BlobStore` says what the store promises a reader: "not found" only when the
object is not there at that moment, data only for an object that was stored.
`ChunkCache` implements it with `blobs <- objects, ever <- stored,
asked <- reading, answer <- result` (property `ReadsAreHonest`). A deleted object
may be answered for some time, for `delete` leaves the cache alone; a stronger
promise would be false.

Abstractions that matter:

- `ContentStore`: contents are the hash they have, nothing, or garbage. A tokio
  write is handed to a blocking pool (`bg`) and lands later, unless awaited.
  Power loss keeps what was synced and any part of the rest.
- `RecoveryLog`: a record's age is a choice; a write in place is a truncation
  and a fill, so a torn log is the empty log. `SyncPersistence` and
  `ResumeManager` treat `tokio::fs::write` the same way.
- Clocks are choices (is a connection stale, has the delay or the timeout
  passed, is a transfer idle), but for the modification times of
  `ConflictDetection`.
- `SyncSession`: a rejected call changes nothing and is no action.
- `FileIndexer`, `Orchestrator`: a file's content is its version; one chunk
  stands for its chunks; one folder without subfolders. The channel is left out:
  events come from tasks of their own and in any order, and any other message
  may be sent at any time, so its handler is enabled at any time. Whether the
  debounce window has elapsed is a choice. `batch_size` is taken to be no
  smaller than a list of changes. Status counters (`current_operations`,
  `total_bytes_synced`), callbacks and `pending_operations`, into which nothing
  is ever put, are left out, as are rename events. The watcher may leave a
  change unreported (see `FileWatcher`); the properties are about the changes
  that are reported.
- `Chunker`: words of `Width` bits instead of 64 and a table of two bytes; the
  arithmetic wraps as in the code.
- `ManifestHash`: a hash is the record of what was hashed, so that no two
  records collide. What the code hashes alike is alike in the model: times within
  a second, and hashes that are not hexadecimal, which count as zero bytes.
- `ResumeManager`: progress is "below 100" or 100; a chunk that was transferred
  is not reported as failed later; each session has one monitor and one call of
  `start_resumable_session` at a time; no caller drops a call in a save.
  `writer`, `beginning` and `monitors` say where each save is, and `cut` whether
  the last one stopped between truncating and filling.
- `Discovery`: a task that was aborted goes on until it has to wait, so it may
  apply any number of queued events, before and after `stop` clears the map.
- `SyncOrchestrator`: every call of the database that a later step depends on may
  fail. The rows of `pending_transfers` are never read; when one is refused the
  request is in the queue all the same.

## 3. Runs

| Run | Instance | Shows |
|---|---|---|
| `durability` | 2 workers, an object each, I/O errors, failed renames, power loss | `VisibleIsComplete`, `AckedReadable`: write, rename and sync in an order that survives a loss at any point |
| `store_shared` | the same workers on one object: writes, streams, deletes; kills, failed renames and directory syncs | `NoTempLeft`, `NoStrayBytes`: what still holds when writers share `<hash>.tmp` |
| `store_delete_rewrite` (violation) | one worker, write and delete | a write after a delete returns Ok and stores nothing |
| `store_layers` | 2 objects of 1 and 2 bytes, a cache of one entry and 3 bytes, 1 reader, 2 batch tasks; 2 resumable writes, one sized and checked; an atomic writer; a scan over 2 objects and batches of 2 streams | `CacheAndBatchSound`, `ResumedIsWhole`, `ReportsAreTrue`, and `ReadsAreHonest` (refinement of `BlobStore`) |
| `liveness` | 1 peer, 2 reconnection tasks, 2 reporters, 3 attempts, `track_peer`, `stop`; 2 clients of one log; 2 handler tasks and 2 chunks | `TasksEnd`, `CallsReturn`, `HandlersReturn`; with the same interleavings `OneLiveTask`, `SentOnce`, `ReceiptsAreReal`, `OnlyLateAckRevives` |
| `session_completed` (violation) | `MCLiveness` with the other two parts reduced to nothing; 2 tasks, 2 chunks | a session completes without the peer's files |
| `sync_state` | 1 session of 3 chunks and 2 savers, a save every 2 chunks; a recovery log with one client and 2 operations, crashes, I/O errors and a failing database; 2 ends; 2 flows, 2 peers, 2 requests, 1 slot, a database that refuses peers; 3 callers on the locks; 3 handlers, 2 folders | `SaveLag`, `LogIsTrue` (log and memory agree, nothing is lost or revived), `OnlyManifestBlocks`, `SummariesRight`, `DeadlockNeedsThree`, `DeadlockNeedsTwoSummaries` |
| `quic` | 3 callers and a reconnection task, limit 1 per peer; 2 streams of 2 chunks in a window of 10; 1 transfer of 2 chunks and a chunk nobody wants; 2 requests, thresholds 3 and 2; 2 links, 3 missed pings; 2 clients of 2 dials | `PoolBounded`, `FlowConserved`, `CompletedHasAll`, `CondemnedForCause`, `HandshakeAgrees` |
| `daemon` | 1 file written up to twice and removed, 2 tasks, 1 peer; failures and crashes | `NamedIsStored`, `CaughtUp`, `ChangesAreIndexed` |
| `index_again` (violation) | 1 file | the second `index_folder` saves version 1 again |
| `services` | eleven parts, see the cfg | `PendingIsWhatIsLacking` (diff), `CheckpointFileWhole` (resume manager, 2 sessions and a chunk, failing saves), `TablesAgree` (end to end), `SuccessIsStored` (simple transfer), `CutsAreStable` (chunker, all contents of up to 11 bytes over two values), `ResolutionsAgree` (conflicts), `SuspectedIsMissing` (bloom), `VerifiedIsSealed` (manifest), `VersionsHaveNoGap` (migrations, 3 versions, the first without a way back), `ShellSound` (shell, discovery, watchers), `QuietIsIndexed` (folder watcher) |
| `watch_report` (violation) | 1 watcher, 2 changes | a change made after `start` returned is never reported |

Bounds. Two writers are enough to collide, and a third inode lets one be reused
while two are open. Two operations let a record be lost by a save of another.
Three callers at a limit of one show that the pool's overrun grows with callers.
Two reconnection tasks let one be spawned while an aborted one is still about
(the theorems are for any number), and three attempts give a first, a middle and
a last one. A cache of one entry and three bytes is exceeded by entries and by
bytes separately. The deadlocks of two RwLocks need a reader on each side and a
waiting writer, hence three callers. Three completed chunks and a save every two
leave one chunk between two saves. A window of 10 holds three chunks of 3 bytes
and leaves a rest; the fourth chunk waits. Two dials let a retry meet the
handling of the first attempt. In `daemon` a second write meets the indexing of
the first, and a removal and rewrite gives two events of one kind and so two
tasks at once; one operation fails between two starts, after which the properties
claim nothing before a restart. Eleven bytes hold a chunk cut at `max_size` 7, a
later one cut by the hash, and a rest. In `services` two
sessions give two monitors that save at once, in turn with the saves of new
checkpoints; the chunk of one session makes the tables they save differ; one
neighbour, whose event may be queued repeatedly, is enough for a stopped
discovery to know somebody (the theorem is for any number). `RetryBound`, `MaxVersion`, `MaxWanted`, `MaxChunks`,
`MaxAttempts`, `MaxMessages`, `MaxStarts`, `MaxSessions`, `MaxFileChanges`,
`MaxFileEvents`, `MaxStreams`, `MaxReceived`, `MaxTime`, `MaxFiles`, `MaxLength`
and `Inodes` are the bounds; each is a constant or a definition of its module.

Symmetry is over names the code treats alike (inodes, operations, connections,
callers, handlers, savers) and only in runs without liveness. In `sync_state` the
chunks of a session are the model values of the handlers, and the operations of
the log those of the savers, so that one set of permutations serves both.

Deadlock is checked in `durability`, `store_shared` and `daemon`. The other
passing runs hold parts that may stop for good (a pool after shutdown, a transport
whose two ends wait for a manifest, finished transfers, all identifiers used);
where a standstill is a question, a property asks it (`OnlyManifestBlocks`,
`DeadlockNeedsThree`, `DeadlockNeedsTwoSummaries`, `HandlersReturn`).

Type invariants are stated where a proof uses them (`TypeOK` of `ContentStore`,
`ReconnectionTypes`, and the typing parts of the invariants in the proof modules,
which are proved with them); elsewhere a state outside its type would show in the
properties.

## 4. Fairness

- `Reconnection`: tasks, and the report that holds the lock, take their next
  step. A task competes for the lock of `peer_states` with others that come and
  go, and tokio's `RwLock` is a fair queue, hence strong fairness for tasks.
- `RecoveryLog`: weak fairness of each task's step or its failure: a system call
  returns, with a result or an error.
- `SyncSession`: strong fairness for each call, again because the locks are fair
  queues.
- `Orchestrator`: weak fairness for the work in progress as a whole (the actor's
  steps, its tasks, the indexer): tokio polls what is runnable, and a batch has
  finitely many steps. Strong fairness for taking a tick and for taking an event
  from the channel: `select!` chooses at random among ready branches, so neither
  is put off for ever by the other or by other messages. Nothing is assumed of
  the user, of failures, requests or crashes.
- `FileWatcher` (`watch_report`): weak fairness of the batching task and of the
  tasks of `stop`, which tokio polls; the event is lost all the same.

The other modules state safety only and assume no fairness.

## 5. Theorems

All hold for every value of the constants that satisfies the named assumptions of
the modules. The assumptions say what the code's types say (a limit is a positive
number, a set of peers is finite, a marker such as `NoSession` or `NoRow` is none
of the values it marks the absence of) and are evaluated by the runs.

Each safety theorem has one shape: an inductive invariant `XInv`, a lemma that the
initial states have it, a lemma per group of actions that they keep it, and a
lemma or step that it implies the property. What the invariant adds is the part
worth reading:

Content store.

- `ContentStore_proofs!TypeCorrect`, `NoTempLeftBehind`. The second rests on
  `TempOwned`: every `<hash>.tmp` belongs to a worker that is past its creation
  and before its rename or cleanup. `NoTempLeft` alone is not inductive, for it
  does not say which steps a worker still has before it. It assumes that no
  system call on the temporary file itself fails (those paths leave it behind
  until `recover`).
- `NoForeignBytes`, `NoBytesAstray` (`NoStrayBytes`). `StrayInv`: an object
  *claims* the inodes its names have, in memory or on the disk, and those its
  writers have open; no inode is claimed by two objects (`OneObject`), and what
  it holds or is about to be given is harmless to the object that claims it.
  Claims come about only on free inodes, which `ClaimsStep` says of every step.
  `FinishingInv`: an inode that a file or a temporary file of a running store
  names is whole, or has its writer ahead of it. The second theorem excludes
  failing writes (a write that fails can leave a file that another writer's
  rename exposes) and compression (other bytes are stored).
- `VisibleStaysComplete`, `AckedStaysReadable`. `CompleteInv` follows a file
  through the page cache and the disk: what is named for good is *settled*, that
  is whole (on the disk too if power can fail), open nowhere and not the
  temporary file; what a writer filled is written or with the pool until it is
  synced, whole from then on. It needs one writer for each object, or another
  call truncates what was renamed (hence `Alone`: who is at an object is alone
  with its file). `KeptInv` adds the names: an object somebody acknowledged, or
  that is in the dedup index, has its name, on the disk too if power can fail; a
  name the disk lacks has a worker about to sync the directory. The assumptions,
  `CompleteRun` and `ReadableRun`, exclude what section 6 lists: shared writers,
  compression, unsynced files, streams and failing directory syncs under power
  loss, deletes, the object of no bytes, and kills together with power losses,
  for `recover` renames a temporary file that only the page cache has whole.
- `StoreLayers_proofs!CacheAndBatchesSound`. `LruInv`: the cache holds no object
  twice and its bytes are those of the set it holds (`Bytes` counts the units of
  the objects, so that the cardinality theorems apply and no recursive sum is
  needed). `BatchInv`: an object that `write_batch` returned is pending, about to
  be spawned, or has a task that did not try yet. `ReadsStayHonest`: with
  `ReadInv` (whatever is cached, or on its way into the cache, was stored) every
  step of `ChunkCache` is a step of `BlobStore` or a stutter: the refinement.
- `ResumedWritesAreWhole`: `PartialInv` (the file of an open transfer holds what
  was counted unless it is torn, and is taken away only after it expired) and
  `AtomicInv` (a temporary file is a beginning of the content).
  `ReportsStayTrue`: `VerdictInv` follows what the scan reads now into the history
  it belongs to, `StreamsInv` the order in which the streams of a batch are awaited.

Synchronisation.

- `Liveness_proofs!NoEntryGoesStale`: an entry of `active_reconnections`
  belongs to a running task, although the entry is made after the task was
  spawned. The invariant adds that a report holds the lock (`LockHeld`) and that
  a task not yet registered cannot pass its first check, which needs that lock
  (`Inserting`). `AtMostOneTask`, `AttemptsAreBounded`: until `stop()`, every
  live task of a peer is the one in the table or the one about to be entered
  (`Registered`, `Vacant`), and a task about to attempt has attempts left
  (`Counters`). `TableAgrees` joins them into `OneLiveTask`, what the run checks.
- `Liveness_proofs`, sessions: `NoChunkTwice` (a task in the loop of
  `handle_want` holds the state lock and, from its test to its mark, the stats
  lock), `ReceivedAreStored`, `NothingRecordedUnreceived` and, from the two,
  `ReceiptsHold`; the action property `FailedButForLateAcks`.
- `SyncState_proofs!FilesLagBoundedly`. A file lags by what was counted since its
  last save: `CounterInv` (a full counter has a task about to reset it),
  `OverlapInv` (two saves of one session know of each other) and `LagInv`, which
  says of a save under way what it says of the file of a session without one.
- `SummariesStayRight`: `SlotsInv` counts the slots in hand and those lost (the
  handed transfers are a set, whose cardinality the count is), `FlowsInv` and
  `GlobalInv` say which flow is about to correct the global state. A completion
  whose save the database refuses corrects nothing: then `uncounted` holds until
  another call has counted, and Syncing may outlast the last peer.
- `OnlyThreeDeadlock`, `OnlySummariesDeadlock`: deadlock as a state, not as a
  missing step. The invariants say what a caller holds and in which line it
  stands (`TakenInv`, `LineInv`, `OnePlace`; `StateQueueInv`, `ReadersInv`,
  `HolderInv`); that a deadlock needs so many participants is a consequence.
- `LogStaysTrue`, for one caller at a time, as the property is stated (two at once
  lose records, section 6), and any number of operations, I/O errors, crashes and
  recoveries. `FairInv`: whatever is about to become the log, a snapshot, the
  temporary file or the table, gives a recovery nothing more to take up than the
  log may. `RecInv`: where the record being saved has arrived. `KeptInv`: all that
  is owed is in the log or, while `remove_operation` rewrites it in place, in the
  snapshot about to be written.
- `OnlyManifestsBlock` (`TransportInv`): messages by their number. An inbox holds
  what the other end has sent but for what was accepted (`InboxInv`, `Holds`), and
  at most one of the ends is a responder; that the type always fits, and that
  nobody waits for anything else but a Manifest, is then a matter of counting.
- `Orchestrator_proofs!NamedAreStored`: what the index names is in the store.
  `NamedIsStored` is not inductive, because rows and manifests are filled from
  the file and the manifest in progress: `IInv` adds that the file whose row is
  next is stored (`RowIsStored`), and so is all of the manifest so far
  (`PartialIsStored`). Every action outside the indexer leaves these alone or
  adds to the store (`OthersPreserve`).
- `Orchestrator_proofs!IndexCatchesUp`. `NoneForgotten`: until something fails, a
  known file whose row is behind has an event on its way or in `debounce_buffer`,
  or its path is in a list, or a task has it, and if that task asked for a run of
  the indexer and has it, the file is still among those to come. Grouping by kind
  must lose no event for that: `GroupedHasAll`, by counting (`RankIsBijection`).
  `RowsFresh`: every content of a file is new, and no row goes back to an older
  one, because runs of the indexer exclude each other; `ShapeInv` says which
  lists and tasks there are in each phase of the actor. A Deleted event takes no
  part in it: it changes no row.

QUIC (`Quic_proofs`).

- `PoolStaysBounded` (`PoolInv`): the connections of a peer together with those
  that callers are about to add stay below the limit plus the number of callers
  (`WithinLimit`); a caller enters that sum only while the pool itself is below
  the limit. That no connection is shared by three needs that one about to be
  added is its creator's alone (`AddingAlone`) and that an entry without streams
  has one user at most (`SharedByTwo`).
- `WindowAndResultsConserved` (`FlowInv`): the window plus what the permits hold is constant
  (`WindowKept`, over the set of tasks that hold one), and the results of a call
  are those of its tasks that have reported (`Accounted`).
- `CompletedTransfersHaveAll`: the property and its types are inductive once it is
  seen that as many chunks as the transfer counts, all of them
  needed, are all that are needed, a chunk named twice included.
- `BothJudgesJust`: `BreakerInv` relates the counters to the results recorded,
  `MonitorInv` the failures of an entry to those of its connection, but for a
  ping that was under way when the entry was replaced.
- `HandshakesAgree`: where a connection that is open on one side is found on the
  other (`DialsInv`, `QueueInv`, `AcceptInv`, `HelloInv`).

Services (`Services_proofs`).

- `CheckpointFileStaysWhole` (`CheckpointsInv`): while a save is under way nobody
  changes the checkpoints, so that all saves under the read lock write the same
  ones; a torn file has somebody who has still to fill it, or was left by a save
  that a crash or a failed write stopped (`cut`) and is whole again after the
  next save that is completed.
- `TablesKeepAgreeing` (`TablesInv`, `WorkflowInv`): which rows each stage of a
  workflow has behind it.
- `SuccessStaysStored` (`TransferInv`): what a receiver's stage says of the file
  and of the messages still in its stream.
- `SuspectedStaysMissing`: for any hash functions, a filter of a manifest tests
  positive for each of its paths (`NoFalseNegatives`).
- `VersionsStayWithoutGap`: `GapInv` says that the recorded versions are `1..n`
  for some `n`, and what each program still has to do is an interval that begins
  at or below `n` (upwards) or ends at or above it (downwards), all going one way.
- `ResolutionsKeepAgreeing`: both sides keep one of the same two versions; by
  `SurvivorsAgree` the same one when the times differ.
- `PendingStaysWhatIsLacking`: what is pending comes from the last diff, without
  what was acknowledged since, and only that is left out (`FollowsDiff`).
- `ShellStaysSound`: `ControlInv` and `DiscoveryInv` say what start and stop have
  done at each of their steps, `KnowsFew` that a service that does not run
  knows nobody unless its task was at work when `stop` cleared the map, and `WatchSound` that everything sent is reported, pending or in
  the channel: the count of a channel is stated by its sums over prefixes
  (`Owed`), which take the place of an induction.
- `QuietStaysIndexed` (`FolderInv`): for every reported file whose row is behind,
  a scan is `Coming` that begins after its last change: its last event in the
  channel, or with none there its pending event, asks for one, or any event
  behind the debouncer does (`NothingForgotten`). Removals ask for none, which is
  why only the last event of a file counts in the channel, and any event after it.

- `CutsStayStable`: the hash at a position depends on nothing behind it
  (`SameHash`), so a chunk that ends within a prefix of the content ends at the
  same byte of the prefix (`ChunkEndStable`), and both loops look for the ends in
  the same way. The loops are recursive functions; that they exist, and what they
  return, is shown by induction on the number of bytes left.
- `VerifiedStaysSealed`: two equal nodes of the tree have equal nodes below them
  (`LevelsBelow`), so equal roots have equal leaves (`SameValuesSameLeaves`); the
  place of a file in the sorted list is the rank of its path (`PlaceOfPath`), so
  the order in which files were added makes no difference.

These two need an induction over data. The library's theorems of induction take an
operator, which the provers cannot instantiate; `InductionOnSets` says the same of
the set of numbers for which a fact holds, and is itself proved from the least
element of a set of naturals.

Only model-checked:

- all liveness (`TasksEnd`, `CallsReturn`, `HandlersReturn`, `ChangesAreIndexed`):
  fairness and ENABLED are out of the prover's reach;
- the violations.

## 6. Deviations: where the code departs from what one would want

Four runs exhibit a departure (findings in `PROJECT.json`):

1. `delete` leaves `dedup_index` behind, and a later write of the object is
   acknowledged without being stored.
2. A session computes what it wants from the peer's manifest towards its own,
   which is always empty, and completes without the peer's files.
3. `save_manifest` files every manifest under the path `"/"` while the next
   version is looked up under the folder's path: every further `index_folder` of
   a folder ends in a UNIQUE conflict. The rows of `files` are written before
   that, which is why `CaughtUp` holds all the same; but no second manifest is
   ever saved, adding a folder again or restarting the daemon fails and leaves
   `synced_folders` empty, and reference counts only grow.
4. `FileWatcher::start` drops the notify watcher when it returns, and no later
   change is reported.

Others met while modelling. The properties are stated so that they hold beside
them, and say so where they make an exception:

- Store, files: with two writers of one object `VisibleIsComplete` fails (one
  renames the file the other has just truncated); `write_stream` does not sync
  the directory; after a failed directory sync a retry is acknowledged without
  one; `recover` renames a temporary file without syncing it; with
  `Policy = "Never"` an acknowledged object may be short after a power loss; with
  `Compressed` the stored bytes do not have the object's hash; the zero-length
  object (`ZeroLen`) reads as corrupt.
- Store, layers: the eviction loop (`storage.rs:648`) waits for `total_size` to
  fall and spins on an empty cache; `verify` answers from the cache; a damaged
  object is not repaired by writing it again; `delete` leaves the cache alone.
- Recovery log: `start_operation` saves after releasing its lock, so two starts
  can lose one record, and a stale save can revive a completed one;
  `remove_operation` truncates in place, and a crash then loses all; a crash
  during recovery leaves `Recovering`, which is never loaded again.
- Pool: concurrent callers overrun the limit; cleanup may close a connection
  under its creator, who is not counted; stream counts are not given back; a
  connection may be added after shutdown.
- Reconnection: a failure reported between a reconnection and the removal of its
  task starts none; a connection that fails within the retry delay makes the
  task quit; a timeout of the last attempt leaves `Backoff`; after `stop()` an
  aborted task may remove the entry of a newer one, and two may run.
- Stream transfers: a call below the threshold waits on a channel that only
  `notify_waiters` signals (`stream_transfer.rs:480-486`), and nothing calls it.
- Resumable transfers: after a partial batch a transfer stays Active with nothing
  under way; the count of retries survives a restart of the same id.
- Breaker: a success of a request that began before the breaker opened counts
  for the state it meets. `with_retry` never asks the breaker.
- Diff: a file with permuted chunks is reported as a change of metadata; changes
  of mode are not reported; deletions are dropped at the first acknowledgement;
  pending changes survive an empty diff.
- Manifest: `[a, b, c]` and `[a, b, c, c]` have one root, and a mode of zero and
  no mode hash alike.
- Session: an error that arrives between the halves of `handle_ack` is
  overwritten by Completed; a Want is cut to ten; a session with a total of 0
  chunks has no message that ends it.
- Transport: after the folder summaries both ends wait for a Manifest that
  neither sends; the conflict detector it holds is never called.
- Persistence: a copy taken under the lock may land after a newer one, until
  the next save; a crash in a save leaves a file that does not parse.
- Sync orchestrator: three callers can deadlock on `peer_states` and `state`; a
  peer left busy in the database by a restart is refused for ever; a completion
  that the database refuses (`orchestrator.rs:253`) returns before it counts, and
  the global state stays Syncing with no peer active until another call counts; a
  request whose row is refused (line 192) is queued although the caller is told
  that it failed; rows of
  `pending_transfers` are written and never read.
- Wire handler: two FolderSummary messages at once deadlock; Completed and
  Syncing overwrite Failed; a repeated Manifest counts again; a chunk shared by
  two files is counted once.
- Conflicts: two versions of one time: each device keeps its own; only the
  caller's copy is marked resolved.
- Bloom diff: details are asked of the side that lacks the paths; a modified
  file is never noticed; an Acknowledge completes the diffs with every peer; the
  stage RequestingDetails is never set.
- Daemon: shutdown within the debounce window drops the last changes; failed
  files are not retried (`pending_operations` is never filled); deletions are not
  indexed; `main.rs` has an unused copy of the connection handler.
- Shell: a start that fails at discovery leaves a server nobody stops; a folder
  added between the clears of `stop` survives it; `add_sync_folder` on a stopped
  daemon panics; after `stop` has cleared the peers and reset the flag, the aborted
  discovery task may still insert every peer whose event was queued; `ServiceRemoved` removes nothing; device ids are of the second
  and the host's name.
- Folder watcher: events that are ready are held back while others change;
  removals and the old path of a rename never leave the index; a failed scan
  loses its events; patterns are matched with the file name only, and `#*#` is
  taken literally.
- Resume manager: `tokio::fs::write` truncates the file before it fills it, so a
  crash or a write that fails (`resume_manager.rs:438`; a monitor only logs it)
  leaves a file that does not parse, and a restart before the next completed save
  loses the checkpoints of all sessions; a new session whose save fails stays in
  the table untracked; `resume_session` subtracts from `total_chunks_needed`, which
  is never set, and puts back a copy that undoes updates made meanwhile.
- End to end: progress goes 100, 95, 99, 100; sessions are not registered with
  the resume manager.
- Simple transfer: handler and client each open a stream of their own, and two
  streams of one handler write to one `received_file.tmp`.
- Migrations: none is registered and the empty list succeeds, while `validate`
  expects version 1; an upgrade beside a downgrade leaves a gap. A downgrade by a
  program that does not know the latest version goes by the migrations that
  program has registered (`migrations.rs:217`): it removes older versions from
  below the latest one, which leaves a gap and the current version as it was, or
  removes nothing, and reports "Successfully rolled back" either way (line 237).
  This came to light when the proof of `VersionsHaveNoGap` failed; `beheaded`
  records it, and the property excepts it.
- Chunker: a byte that leaves the window has been rotated `WINDOW_SIZE - 1`
  times, not `WINDOW_SIZE` as the comment at `chunker.rs:301` says, so that the
  hash depends on bytes before the window as well.

## 7. Not modelled

- Packfiles (`packfile.rs`): switched off by the code.
- Metrics, progress output, validation of fields, the CLI, start-up code: no
  state that a property relates. Cryptography, certificates, TLS, mDNS, framing:
  pure functions of bytes or libraries.
- Parts no running daemon reaches: `pairing.rs`, `parallel_transfer.rs`,
  `chunk_provider.rs`, `stream_multiplexer.rs`, `health_monitor.rs`,
  `sync_engine.rs`, `bloom_sync_integration.rs`, `daemon_v2.rs`, `network.rs`,
  `conflict.rs`, `database.rs`; the components in `PROJECT.json` say why each.
- What `handle_sync_flow` does after a Manifest: no code sends one.
- Chunk reference counts, rename events, nested folders, the native watchers.

## 8. Plan

Every invariant and action property of the passing runs is proved; liveness and the
violations stay with TLC. Models next: reference counts of chunks with
`save_manifest` and garbage collection, and packfiles once they are switched on.
