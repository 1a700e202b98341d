---------------------------- MODULE FileWatcher ----------------------------
(***************************************************************************)
(* The file watcher of the daemon (landro-daemon, watcher.rs).             *)
(*                                                                         *)
(* start makes a notify watcher whose callback sends to a channel, spawns  *)
(* the task that batches what it receives, and returns.  The notify        *)
(* watcher is a local variable: it is dropped on return and the channel is *)
(* disconnected, so only the changes made while start runs are ever sent.  *)
(* stop spawns a task that clears the flag the batching task looks at; the *)
(* batching task sets the flag when it begins, and may begin later.        *)
(*                                                                         *)
(* An event is kept or ignored (hidden and temporary files, other kinds);  *)
(* the paths of the events do not matter here.                             *)
(***************************************************************************)
EXTENDS Naturals, Sequences

CONSTANTS
    Watchers,       \* the watchers the program makes
    MaxFileEvents   \* bound on the changes a watcher is exposed to

ASSUME WatcherAssumption == MaxFileEvents \in Nat

VARIABLE
    watcher         \* watcher -> its channel, its task and its flag

NewWatcher ==
    [task |-> "none", connected |-> FALSE, flag |-> FALSE,
     stops |-> 0,          \* tasks spawned by stop that have not run
     stopped |-> FALSE,    \* stop was called (history)
     channel |-> <<>>, pending |-> 0, reported |-> 0,
     events |-> 0,         \* events since the watch began
     changes |-> 0,        \* those of them not ignored (history)
     sent |-> 0]           \* those of these sent to the channel (history)

WatcherInit == watcher = [w \in Watchers |-> NewWatcher]

----------------------------------------------------------------------------
(* FileWatcher::start up to the spawn, and its return. *)
BeginWatch(w) ==
    /\ watcher[w].task = "none"
    /\ watcher' = [watcher EXCEPT ![w].task = "spawned",
                                  ![w].connected = TRUE]

EndWatch(w) ==
    watcher' = [watcher EXCEPT ![w].connected = FALSE]

(* convert_notify_event: how many file events an event is worth. *)
Converted(kept) == IF kept THEN 1 ELSE 0

(* A file changes: notify calls back while the notify watcher lives. *)
FileEvent(w, kept) ==
    /\ watcher[w].task # "none"
    /\ watcher[w].events < MaxFileEvents
    /\ LET live == watcher[w].connected
       IN  watcher' = [watcher EXCEPT
               ![w].events = @ + 1,
               ![w].changes = @ + Converted(kept),
               ![w].sent = IF live THEN @ + Converted(kept) ELSE @,
               ![w].channel = IF live THEN Append(@, kept) ELSE @]

(* The batching task. *)
TaskBegins(w) ==
    /\ watcher[w].task = "spawned"
    /\ watcher' = [watcher EXCEPT ![w].task = "loops", ![w].flag = TRUE]

TaskReceives(w) ==
    /\ watcher[w].task = "loops"
    /\ watcher[w].flag
    /\ watcher[w].channel # <<>>
    /\ watcher' = [watcher EXCEPT
           ![w].pending = @ + Converted(Head(watcher[w].channel)),
           ![w].channel = Tail(@)]

TaskTimesOut(w) ==
    /\ watcher[w].task = "loops"
    /\ watcher[w].flag
    /\ watcher[w].connected
    /\ watcher[w].channel = <<>>
    /\ watcher[w].pending > 0
    /\ watcher' = [watcher EXCEPT
           ![w].reported = @ + watcher[w].pending, ![w].pending = 0]

TaskEnds(w) ==
    /\ watcher[w].task = "loops"
    /\ \/ ~ watcher[w].flag
       \/ watcher[w].channel = <<>> /\ ~ watcher[w].connected
    /\ watcher' = [watcher EXCEPT
           ![w].task = "ended", ![w].reported = @ + watcher[w].pending,
           ![w].pending = 0, ![w].channel = <<>>]

(* The tasks spawned by stop. *)
StopTask(w) ==
    /\ watcher[w].stops > 0
    /\ watcher' = [watcher EXCEPT ![w].stops = @ - 1, ![w].flag = FALSE]

(* FileWatcher::stop, as an update of the table. *)
AllStopped(ws) ==
    [w \in Watchers |->
        IF w \in ws
        THEN [watcher[w] EXCEPT !.stops = @ + 1, !.stopped = TRUE]
        ELSE watcher[w]]

WatcherStep(w) ==
    \/ TaskBegins(w)
    \/ TaskReceives(w)
    \/ TaskTimesOut(w)
    \/ TaskEnds(w)
    \/ StopTask(w)

----------------------------------------------------------------------------
(* A watcher by itself, with its start returning as the code returns. *)
WatchNext ==
    \E w \in Watchers :
        \/ BeginWatch(w)
        \/ watcher[w].connected /\ EndWatch(w)
        \/ WatcherStep(w)
        \/ \E kept \in BOOLEAN : FileEvent(w, kept)

(* The runtime runs the batching task, whose receive has a timeout. *)
WatchSpec ==
    /\ WatcherInit /\ [][WatchNext]_watcher
    /\ \A w \in Watchers : WF_watcher(WatcherStep(w))

(* What test_file_watcher expects of start: a change made while the         *)
(* directory is watched reaches the callback, unless the watcher is stopped. *)
WatchedIsReported ==
    \A w \in Watchers :
        watcher[w].changes > watcher[w].reported
        ~> watcher[w].reported = watcher[w].changes \/ watcher[w].stopped

=============================================================================
