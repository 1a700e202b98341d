---------------------------- MODULE DaemonShell ----------------------------
(***************************************************************************)
(* The daemon as a service that is started and stopped (landro-daemon,     *)
(* daemon.rs) with the two parts it owns, Discovery and FileWatcher.       *)
(*                                                                         *)
(* start and stop hold the write lock of `running` from their first step   *)
(* to their last, so they exclude each other; the variable ctl is the next *)
(* step of the one that holds it.  add_sync_folder and remove_sync_folder  *)
(* only take the lock of `state`, which start and stop take for short      *)
(* whiles: they run between their steps.                                   *)
(*                                                                         *)
(* start fills the four optional parts of the state together, and stop     *)
(* empties them together: `installed` is the start whose parts they are,   *)
(* or 0.  A start that fails returns from where it is and undoes nothing.  *)
(*                                                                         *)
(* Left out: directories, database and orchestrator construction (a        *)
(* failure there has changed nothing), the task lists that are commented   *)
(* out in start_background_tasks, status queries.  What a callback does    *)
(* with the peers it finds is SyncOrchestrator's start_sync.               *)
(***************************************************************************)
EXTENDS Discovery, FileWatcher

CONSTANTS
    SyncRoots,      \* folders a user may add
    AnyPort,        \* bind_addr leaves the port to the system
    NotASyncRoot          \* no add_sync_folder is running

ASSUME ShellAssumption ==
    /\ AnyPort \in BOOLEAN
    /\ NotASyncRoot \notin SyncRoots

VARIABLES
    up,             \* the flag `running`
    ctl,            \* the step of start or stop that comes next, or "none"
    starts,         \* starts that got as far as a service
    installed,      \* the start whose parts `state` holds, or 0
    tasks,          \* server tasks that run
    adding,         \* the folder and watcher of the running add_sync_folder
    folders,        \* file_watchers: watcher -> the folder it is for
    handled,        \* watcher -> file events its callbacks are through with
    origin,         \* watcher -> the start whose parts its callback holds
    stop_failed,    \* history: the stop of the service failed in this run
    late            \* history: watchers added while a stop was under way

shvars == <<up, ctl, starts, installed, tasks, adding, folders, handled,
            origin, stop_failed, late, service, watcher>>

NotAdding == [root |-> NotASyncRoot]

StateFree == adding = NotAdding

ShellInit ==
    /\ DiscoveryInit
    /\ WatcherInit
    /\ up = FALSE
    /\ ctl = "none"
    /\ starts = 0
    /\ installed = 0
    /\ tasks = 0
    /\ adding = NotAdding
    /\ folders = <<>>
    /\ handled = [w \in Watchers |-> 0]
    /\ origin = [w \in Watchers |-> 0]
    /\ stop_failed = FALSE
    /\ late = {}

----------------------------------------------------------------------------
(* Daemon::start *)

start ==
    /\ ctl = "none"
    /\ ~ up
    /\ ctl' = "serve"
    /\ UNCHANGED <<up, starts, installed, tasks, adding, folders, handled,
                   origin, stop_failed, late, service, watcher>>

(* start_quic_server binds and spawns the accept loop.  A fixed port that  *)
(* is bound cannot be bound again.                                         *)
start_quic_server ==
    /\ ctl = "serve"
    /\ \/ /\ AnyPort \/ tasks = 0
          /\ tasks' = tasks + 1
          /\ ctl' = "advertise"
       \/ /\ ctl' = "none"
          /\ tasks' = tasks
    /\ UNCHANGED <<up, starts, installed, adding, folders, handled, origin,
                   stop_failed, late, service, watcher>>

(* A start that reports itself running although discovery failed. *)
StartRegardless(outcome) ==
    /\ ctl = "advertise"
    /\ starts < MaxStarts
    /\ starts' = starts + 1
    /\ start_advertising(starts', outcome)
    /\ ctl' = "install"
    /\ UNCHANGED <<up, installed, tasks, adding, folders, handled, origin,
                   stop_failed, late, watcher>>

start_discovery_service(outcome) ==
    /\ ctl = "advertise"
    /\ starts < MaxStarts
    /\ starts' = starts + 1
    /\ start_advertising(starts', outcome)
    /\ ctl' = IF outcome = "starts" THEN "install" ELSE "none"
    /\ UNCHANGED <<up, installed, tasks, adding, folders, handled, origin,
                   stop_failed, late, watcher>>

Install ==
    /\ ctl = "install"
    /\ StateFree
    /\ installed' = starts
    /\ up' = TRUE
    /\ ctl' = "none"
    /\ stop_failed' = FALSE
    /\ UNCHANGED <<starts, tasks, adding, folders, handled, origin, late,
                   service, watcher>>

----------------------------------------------------------------------------
(* Daemon::stop *)

stop ==
    /\ ctl = "none"
    /\ up
    /\ ctl' = "abort"
    /\ UNCHANGED <<up, starts, installed, tasks, adding, folders, handled,
                   origin, stop_failed, late, service, watcher>>

StopDiscovery ==
    /\ ctl = "abort"
    /\ StateFree
    /\ IF service[installed].flag
       THEN AbortTask(installed) /\ ctl' = "shutdown"
       ELSE ctl' = "watchers" /\ service' = service
    /\ UNCHANGED <<up, starts, installed, tasks, adding, folders, handled,
                   origin, stop_failed, late, watcher>>

ShutdownDiscovery(succeeds) ==
    /\ ctl = "shutdown"
    /\ Shutdown(installed, succeeds)
    /\ ctl' = IF succeeds THEN "watchers" ELSE "none"
    /\ stop_failed' = (stop_failed \/ ~ succeeds)
    /\ UNCHANGED <<up, starts, installed, tasks, adding, folders, handled,
                   origin, late, watcher>>

StopWatchers ==
    /\ ctl = "watchers"
    /\ StateFree
    /\ watcher' = AllStopped(DOMAIN folders)
    /\ folders' = <<>>
    /\ late' = {}
    /\ ctl' = "clear"
    /\ UNCHANGED <<up, starts, installed, tasks, adding, handled, origin,
                   stop_failed, service>>

ClearState ==
    /\ ctl = "clear"
    /\ StateFree
    /\ tasks' = 0
    /\ installed' = 0
    /\ up' = FALSE
    /\ ctl' = "none"
    /\ UNCHANGED <<starts, adding, folders, handled, origin, stop_failed,
                   late, service, watcher>>

----------------------------------------------------------------------------
(* Folders.  Without the parts a start installs, add_sync_folder panics on *)
(* the first of its unwraps and changes nothing.  It keeps the state's     *)
(* lock until the first indexing is over, and keeps the watcher when that  *)
(* fails.                                                                  *)

add_sync_folder(w, root) ==
    /\ StateFree
    /\ installed # 0
    /\ BeginWatch(w)
    /\ adding' = [root |-> root, watcher |-> w]
    /\ origin' = [origin EXCEPT ![w] = installed]
    /\ UNCHANGED <<up, ctl, starts, installed, tasks, folders, handled,
                   stop_failed, late, service>>

FolderAdded ==
    /\ ~ StateFree
    /\ EndWatch(adding.watcher)
    /\ folders' = [w \in DOMAIN folders \cup {adding.watcher} |->
                      IF w = adding.watcher THEN adding.root ELSE folders[w]]
    /\ late' = IF ctl = "clear" THEN late \cup {adding.watcher} ELSE late
    /\ adding' = NotAdding
    /\ UNCHANGED <<up, ctl, starts, installed, tasks, handled, origin,
                   stop_failed, service>>

(* The watchers of the folder are dropped without a stop. *)
remove_sync_folder(root) ==
    /\ StateFree
    /\ folders' = [w \in {v \in DOMAIN folders : folders[v] # root} |->
                      folders[w]]
    /\ UNCHANGED <<up, ctl, starts, installed, tasks, adding, handled, origin,
                   stop_failed, late, service, watcher>>

(* The task a callback spawns: it indexes, and browses the peers of the    *)
(* start that added the folder, under the service's mutex.                 *)
HandleEvents(w) ==
    /\ handled[w] < watcher[w].reported
    /\ ~ (ctl = "shutdown" /\ origin[w] = installed)
    /\ browse_peers(origin[w])
    /\ handled' = [handled EXCEPT ![w] = watcher[w].reported]
    /\ UNCHANGED <<up, ctl, starts, installed, tasks, adding, folders, origin,
                   stop_failed, late, watcher>>

----------------------------------------------------------------------------
ControlStep ==
    \/ start
    \/ start_quic_server
    \/ \E o \in {"register fails", "browse fails", "starts"} :
          start_discovery_service(o)
    \/ Install
    \/ stop
    \/ StopDiscovery
    \/ \E ok \in BOOLEAN : ShutdownDiscovery(ok)
    \/ StopWatchers
    \/ ClearState

FolderStep ==
    \/ \E w \in Watchers, r \in SyncRoots : add_sync_folder(w, r)
    \/ FolderAdded
    \/ \E r \in SyncRoots : remove_sync_folder(r)
    \/ \E w \in Watchers : HandleEvents(w)

ShellUnchanged ==
    UNCHANGED <<up, ctl, starts, installed, tasks, adding, folders, handled,
                origin, stop_failed, late>>

DiscoveryStep ==
    /\ \E g \in Starts :
          \/ \E n \in Neighbours \cup {Self} : ServiceResolved(g, n)
          \/ InsertPeer(g)
          \/ EventDropped(g)
          \/ \E n \in Neighbours : NotSeenLately(g, n)
    /\ ShellUnchanged
    /\ UNCHANGED watcher

WatchingStep ==
    /\ \E w \in Watchers :
          \/ WatcherStep(w)
          \/ \E kept \in BOOLEAN : FileEvent(w, kept)
    /\ ShellUnchanged
    /\ UNCHANGED service

ShellNext == ControlStep \/ FolderStep \/ DiscoveryStep \/ WatchingStep

----------------------------------------------------------------------------
(* A daemon that calls itself running serves, has all its parts, and looks *)
(* for its neighbours: only a stop that failed in the shutdown of the mDNS *)
(* daemon leaves it running without the task that does so.  With a fixed   *)
(* port there is never more than one server, so a start that fails at      *)
(* discovery leaves one behind that no stop ends and that keeps every      *)
(* later start from succeeding.  A stopped daemon keeps only the folders   *)
(* added after stop emptied the list and before it emptied the state.      *)
RunningIsWhole ==
    /\ up => installed # 0 /\ tasks >= 1
    /\ up /\ ctl = "none" =>
           service[installed].flag
           /\ (service[installed].browser \in AtWork \cup {"ended"} => stop_failed)
    /\ ~ AnyPort => tasks <= 1
    /\ ~ up /\ ctl = "none" => DOMAIN folders \subseteq late

(* A stopped service knows nobody, unless its task was still at work when  *)
(* stop cleared the map: then it may know every peer whose event was in    *)
(* the queue (start_event_processor and stop in discovery.rs).             *)
StoppedForgets ==
    \A g \in Starts :
        ~ service[g].flag /\ Known(g) # {} => service[g].outlived

(* The batching task of a watcher that nobody stopped reports every change *)
(* that reached its channel before it ends: the disconnection of the       *)
(* channel comes after the events sent before it.                          *)
SentIsReported ==
    \A w \in Watchers :
        watcher[w].task = "ended" /\ ~ watcher[w].stopped =>
            watcher[w].reported = watcher[w].sent

(* The shell, its discovery and its watchers, whichever calls of start,    *)
(* stop and add_sync_folder overlap or fail.                               *)
ShellSound == RunningIsWhole /\ StoppedForgets /\ SentIsReported
=============================================================================
