----------------------------- MODULE SyncHandler -----------------------------
(***************************************************************************)
(* landro-proto/src/sync_handler.rs, SyncProtocolHandler: the state of a   *)
(* session and the progress of its folders, each behind a tokio RwLock,    *)
(* with several messages handled at once.                                  *)
(*                                                                         *)
(* The lock of the state serves its requests in order.  The lock of the    *)
(* progress is only ever taken to write; who gets it next does not matter  *)
(* here and is left open.  sent_chunks and peer_info are not read by any   *)
(* handler and are left out.                                               *)
(***************************************************************************)
EXTENDS FiniteSets, Naturals, Sequences

CONSTANTS
    Handlers, Folders, NoFolder, NoHandler,
    ManifestChunks,   \* folder -> the chunks of its manifest
    MaxReceived       \* chunks a folder counts (bound)

ASSUME HandlerAssumption == NoHandler \notin Handlers

VARIABLES
    session,     \* the SyncState
    progress,    \* the FolderSyncProgress of each folder, or NoFolder
    handling,    \* what each handler is at
    statequeue,  \* requests for the lock of the state
    readers,     \* who reads the state
    holder       \* who holds the lock of the progress

hvars == <<session, progress, handling, statequeue, readers, holder>>

Message(kind, about) == [kind |-> kind, about |-> about]
Idle == [at |-> "idle"]
AllChunks == UNION {ManifestChunks[f] : f \in Folders}

HandlerInit ==
    /\ session = "WaitingForHello"
    /\ progress = [f \in Folders |-> NoFolder]
    /\ handling = [h \in Handlers |-> Idle]
    /\ statequeue = <<>> /\ readers = {} /\ holder = NoHandler

NewFolder == [total |-> 0, received |-> 0, pending |-> {}]
Known == {f \in Folders : progress[f] # NoFolder}
is_complete(p) == p.total > 0 /\ p.received = p.total

-----------------------------------------------------------------------------
(* Locks. *)
Queued(h, mode) == statequeue' = Append(statequeue, [by |-> h, mode |-> mode])
Granted(h, mode) ==
    /\ statequeue # <<>> /\ Head(statequeue) = [by |-> h, mode |-> mode]
    /\ mode = "write" => readers = {}
    /\ statequeue' = Tail(statequeue)
MoveTo(h, at) == handling' = [handling EXCEPT ![h].at = at]
Returned(h) == handling' = [handling EXCEPT ![h] = Idle]

(* The states in which a message is welcome. *)
Welcome == [summary  |-> {"Connected", "Syncing"}, manifest |-> {"Syncing"},
            want     |-> {"Syncing"},              chunk    |-> {"Syncing"}]

(* A message comes in: its handler asks for the state. *)
Receive(h, m) ==
    /\ handling[h] = Idle
    /\ m.kind = "manifest" /\ progress[m.about] # NoFolder => progress[m.about].received < MaxReceived
    /\ handling' = [handling EXCEPT ![h] = [at |-> "start", kind |-> m.kind, about |-> m.about]]
    /\ Queued(h, IF m.kind \in DOMAIN Welcome THEN "read" ELSE "write")
    /\ UNCHANGED <<session, progress, readers, holder>>

(* Holds the lock of the state to its end. *)
handle_hello(h) ==
    /\ handling[h].at = "start" /\ handling[h].kind \in {"hello", "other version"}
    /\ Granted(h, "write")
    /\ session' = IF session # "WaitingForHello" THEN session
                  ELSE IF handling[h].kind = "hello" THEN "Connected" ELSE "Failed"
    /\ Returned(h)
    /\ UNCHANGED <<progress, readers, holder>>

handle_error(h) ==
    /\ handling[h].at = "start" /\ handling[h].kind = "error" /\ Granted(h, "write")
    /\ session' = "Failed"
    /\ Returned(h)
    /\ UNCHANGED <<progress, readers, holder>>

(* The other handlers read the state, and keep it while they wait. *)
CheckState(h) ==
    /\ handling[h].at = "start" /\ handling[h].kind \in DOMAIN Welcome /\ Granted(h, "read")
    /\ IF session \in Welcome[handling[h].kind]
       THEN readers' = readers \cup {h} /\ MoveTo(h, "progress")
       ELSE readers' = readers /\ Returned(h)
    /\ UNCHANGED <<session, progress, holder>>

InProgress(h, kind) ==
    handling[h].at = "progress" /\ handling[h].kind = kind /\ holder = NoHandler

(* Keeps the progress while it waits to write the state. *)
handle_folder_summary(h) ==
    /\ InProgress(h, "summary")
    /\ progress' = [progress EXCEPT ![handling[h].about] = NewFolder]
    /\ readers' = readers \ {h}
    /\ IF session = "Connected"
       THEN holder' = h /\ Queued(h, "write") /\ MoveTo(h, "Syncing")
       ELSE UNCHANGED <<holder, statequeue>> /\ Returned(h)
    /\ UNCHANGED session

(* Requests every chunk of the manifest; the count of those received stays. *)
handle_manifest(h) ==
    /\ InProgress(h, "manifest")
    /\ LET f == handling[h].about
       IN  progress' = IF f \notin Known THEN progress
                       ELSE [progress EXCEPT ![f].total = Cardinality(ManifestChunks[f]),
                                             ![f].pending = ManifestChunks[f]]
    /\ readers' = readers \ {h} /\ Returned(h)
    /\ UNCHANGED <<session, statequeue, holder>>

handle_want(h) ==
    /\ InProgress(h, "want")
    /\ readers' = readers \ {h} /\ Returned(h)
    /\ UNCHANGED <<session, progress, statequeue, holder>>

(* Counts for one folder that waits for it, whichever comes first. *)
Count(chunk) ==
    LET waiting == {f \in Known : chunk \in progress[f].pending}
    IN  IF waiting = {} THEN progress' = progress
        ELSE \E f \in waiting :
            progress' = [progress EXCEPT ![f].received = @ + 1, ![f].pending = @ \ {chunk}]

ChunkKeepsProgress(h) ==
    /\ InProgress(h, "chunk")
    /\ Count(handling[h].about)
    /\ readers' = readers \ {h}
    /\ IF Known # {} /\ \A f \in Known : is_complete(progress'[f])
       THEN Queued(h, "write") /\ MoveTo(h, "Completed") /\ holder' = h
       ELSE UNCHANGED <<statequeue, holder>> /\ Returned(h)
    /\ UNCHANGED session

(* When all folders are complete both locks are released before the state
   is written. *)
handle_chunk_data(h) ==
    /\ InProgress(h, "chunk")
    /\ Count(handling[h].about)
    /\ readers' = readers \ {h}
    /\ IF Known # {} /\ \A f \in Known : is_complete(progress'[f])
       THEN Queued(h, "write") /\ MoveTo(h, "Completed")
       ELSE UNCHANGED statequeue /\ Returned(h)
    /\ UNCHANGED <<session, holder>>

WriteState(h) ==
    /\ handling[h].at \in {"Syncing", "Completed"} /\ Granted(h, "write")
    /\ session' = handling[h].at
    /\ holder' = IF holder = h THEN NoHandler ELSE holder
    /\ Returned(h)
    /\ UNCHANGED <<progress, readers>>

HandlerNext ==
    \E h \in Handlers :
        \/ \E kind \in {"hello", "other version", "error"} : Receive(h, Message(kind, {}))
        \/ \E kind \in {"summary", "manifest", "want"}, f \in Folders : Receive(h, Message(kind, f))
        \/ \E c \in AllChunks : Receive(h, Message("chunk", c))
        \/ handle_hello(h) \/ handle_error(h) \/ CheckState(h) \/ handle_folder_summary(h)
        \/ handle_manifest(h) \/ handle_want(h) \/ handle_chunk_data(h) \/ WriteState(h)

-----------------------------------------------------------------------------
Blocked(h) ==
    \/ handling[h].at = "progress" /\ holder # NoHandler
    \/ /\ handling[h].at \in {"start", "Syncing", "Completed"}
       /\ \/ Head(statequeue).by # h
          \/ Head(statequeue).mode = "write" /\ readers # {}

(* handle_folder_summary keeps the progress while it waits to write the    *)
(* state, and every other handler reads the state while it waits for the   *)
(* progress.  Only another FolderSummary that was let in while the session *)
(* was Connected closes the circle: no other two handlers block each other.*)
DeadlockNeedsTwoSummaries ==
    (/\ \E h \in Handlers : handling[h] # Idle
     /\ \A h \in Handlers : handling[h] # Idle => Blocked(h))
    => /\ holder # NoHandler /\ handling[holder].kind = "summary" /\ handling[holder].at = "Syncing"
       /\ readers # {} /\ \A h \in readers : handling[h].kind = "summary" /\ session = "Connected"
=============================================================================
