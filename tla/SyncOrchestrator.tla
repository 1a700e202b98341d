-------------------------- MODULE SyncOrchestrator --------------------------
(***************************************************************************)
(* SyncOrchestrator of landro-sync/src/orchestrator.rs with its transfer   *)
(* scheduler (scheduler.rs) and its database (state.rs).                   *)
(*                                                                         *)
(* Each flow drives one peer: start_sync, handle_manifest_exchange,        *)
(* transfers, complete_sync, or it gives up on the way.  A call releases   *)
(* its locks between the steps below.  The locks themselves are the second *)
(* half of the module.                                                     *)
(***************************************************************************)
EXTENDS Naturals, FiniteSets, Sequences

CONSTANTS
    Flows,          \* callers
    SyncPeers,      \* peers
    Requests,       \* TransferRequests
    Priorities,     \* TransferPriority, by its number
    MaxConcurrent,  \* max_concurrent_transfers
    NoPeer,
    Callers         \* of the second half

ASSUME SyncOrchestratorAssumption ==
    MaxConcurrent \in Nat /\ Priorities \subseteq Nat /\ NoPeer \notin SyncPeers

VARIABLES
    peer_state,     \* peer_states: current_state of each peer in memory
    peer_row,       \* current_state in the table peer_sync_state
    sync_state,     \* SyncState: "Idle" or "Syncing"
    flow,           \* each flow: [pc, peer]
    queue,          \* the priority queue: waiting requests and their priorities
    active_transfers,
    handed,         \* transfers given and not completed: [by, slot]
    lost,           \* transfers given to flows that gave up
    joined,         \* peers with two flows at once, or left unfinished by a restart
    uncounted       \* a completion failed before it counted: no other call counted since

ovars == <<peer_state, peer_row, sync_state, flow, queue, active_transfers, handed,
           lost, joined, uncounted>>
scheduler == <<queue, active_transfers, handed, lost>>
TransfersOf(f) == {x \in handed : x.by = f}

At(f, pc) == flow[f].pc = pc
Go(f, pc) == flow' = [flow EXCEPT ![f].pc = pc]
Leave(f) == flow' = [flow EXCEPT ![f] = [pc |-> "none", peer |-> NoPeer]]
Syncs(f, p) == flow[f].peer = p

Busy == {"Negotiating", "Transferring"}
ActivePeers == {p \in SyncPeers : peer_state[p] \in Busy}

SyncOrchestratorInit ==
    /\ peer_state = [p \in SyncPeers |-> "none"]
    /\ peer_row = [p \in SyncPeers |-> "none"]
    /\ sync_state = "Idle"
    /\ flow = [f \in Flows |-> [pc |-> "none", peer |-> NoPeer]]
    /\ queue = {}
    /\ active_transfers = 0
    /\ handed = {}
    /\ lost = 0
    /\ joined = {}
    /\ uncounted = FALSE

-----------------------------------------------------------------------------
(* start_sync tests under the read lock, writes the database, inserts      *)
(* under the write lock, and then sets the global state.  For a peer that  *)
(* is being synchronised it returns an error and changes nothing.          *)
start_sync(f, p) ==
    /\ At(f, "none")
    /\ peer_state[p] \notin Busy
    /\ flow' = [flow EXCEPT ![f] = [pc |-> "upsert", peer |-> p]]
    /\ joined' = IF \E g \in Flows : Syncs(g, p) THEN joined \cup {p} ELSE joined
    /\ UNCHANGED <<peer_state, peer_row, sync_state, scheduler, uncounted>>

StartUpsert(f) ==
    /\ At(f, "upsert")
    /\ peer_row' = [peer_row EXCEPT ![flow[f].peer] = "Negotiating"]
    /\ Go(f, "insert")
    /\ UNCHANGED <<peer_state, sync_state, scheduler, joined, uncounted>>

(* The database refuses the peer: start_sync returns the error. *)
StartUpsertFails(f) ==
    /\ At(f, "upsert")
    /\ Leave(f)
    /\ UNCHANGED <<peer_state, peer_row, sync_state, scheduler, joined, uncounted>>

StartInsert(f) ==
    /\ At(f, "insert")
    /\ peer_state' = [peer_state EXCEPT ![flow[f].peer] = "Negotiating"]
    /\ Go(f, "global")
    /\ UNCHANGED <<peer_row, sync_state, scheduler, joined, uncounted>>

StartGlobal(f) ==
    /\ At(f, "global")
    /\ sync_state' = "Syncing"
    /\ uncounted' = FALSE
    /\ Go(f, "started")
    /\ UNCHANGED <<peer_state, peer_row, scheduler, joined>>

handle_manifest_exchange(f) ==
    /\ At(f, "started")
    /\ peer_state' = [peer_state EXCEPT ![flow[f].peer] = "Transferring"]
    /\ Go(f, "exchanged")
    /\ UNCHANGED <<peer_row, sync_state, scheduler, joined, uncounted>>

(* complete_sync marks and saves the peer under the write lock, then       *)
(* counts under the read lock, which it holds while it sets the state.  It *)
(* does not ask whether transfers are in hand: they may end after it.      *)
complete_sync(f) ==
    /\ At(f, "exchanged")
    /\ peer_state' = [peer_state EXCEPT ![flow[f].peer] = "Completed"]
    /\ peer_row' = [peer_row EXCEPT ![flow[f].peer] = "Completed"]
    /\ Go(f, "count")
    /\ UNCHANGED <<sync_state, scheduler, joined, uncounted>>

(* The database refuses the row: complete_sync returns the error with the  *)
(* peer Completed in memory, before it counts.  The caller may try again.  *)
CompleteFails(f) ==
    /\ At(f, "exchanged")
    /\ peer_state' = [peer_state EXCEPT ![flow[f].peer] = "Completed"]
    /\ uncounted' = TRUE
    /\ UNCHANGED <<peer_row, sync_state, flow, scheduler, joined>>

IdleAlways(f) ==
    /\ At(f, "count")
    /\ sync_state' = "Idle" /\ uncounted' = FALSE
    /\ Leave(f)
    /\ UNCHANGED <<peer_state, peer_row, scheduler, joined>>

CompleteGlobal(f) ==
    /\ At(f, "count")
    /\ sync_state' = IF ActivePeers = {} THEN "Idle" ELSE sync_state
    /\ uncounted' = FALSE
    /\ Leave(f)
    /\ UNCHANGED <<peer_state, peer_row, scheduler, joined>>

(* A caller that fails has no call to make: the peer stays as it is. *)
GiveUp(f) ==
    /\ flow[f].pc \in {"started", "exchanged"}
    /\ Leave(f)
    /\ lost' = lost + Cardinality(TransfersOf(f)) /\ handed' = handed \ TransfersOf(f)
    /\ UNCHANGED <<peer_state, peer_row, sync_state, queue, active_transfers, joined, uncounted>>

(* The process ends.  SyncOrchestrator::new loads the peers as they were   *)
(* saved and starts with an empty queue.                                   *)
Restart ==
    /\ \E p \in SyncPeers : peer_row[p] # "none"
    /\ peer_state' = peer_row
    /\ sync_state' = "Idle"
    /\ flow' = [f \in Flows |-> [pc |-> "none", peer |-> NoPeer]]
    /\ queue' = {} /\ active_transfers' = 0 /\ handed' = {} /\ lost' = 0
    /\ joined' = joined \cup {p \in SyncPeers : peer_row[p] \in Busy}
    /\ uncounted' = FALSE
    /\ UNCHANGED peer_row

-----------------------------------------------------------------------------
(* The scheduler.  A request that waits already changes its priority.  The *)
(* row that schedule_transfer adds to pending_transfers is never read; if  *)
(* the database refuses it, the call returns the error with the request in *)
(* the queue, and the caller goes on or gives up.                          *)
schedule_transfer(f) ==
    /\ At(f, "exchanged")
    /\ \E r \in Requests, n \in Priorities :
        queue' = {q \in queue : q.request # r} \cup {[request |-> r, priority |-> n]}
    /\ UNCHANGED <<peer_state, peer_row, sync_state, flow, active_transfers, handed, lost,
                   joined, uncounted>>

Best == {q \in queue : \A o \in queue : o.priority <= q.priority}

next_transfer(f) ==
    /\ At(f, "exchanged") /\ active_transfers < MaxConcurrent
    /\ \E q \in Best : queue' = queue \ {q}
    /\ \E n \in 1..MaxConcurrent :
        /\ [by |-> f, slot |-> n] \notin handed
        /\ handed' = handed \cup {[by |-> f, slot |-> n]}
    /\ active_transfers' = active_transfers + 1
    /\ UNCHANGED <<peer_state, peer_row, sync_state, flow, lost, joined, uncounted>>

complete_transfer(f) ==
    /\ \E x \in TransfersOf(f) : handed' = handed \ {x}
    /\ active_transfers' = IF active_transfers > 0 THEN active_transfers - 1 ELSE 0
    /\ UNCHANGED <<peer_state, peer_row, sync_state, flow, queue, lost, joined, uncounted>>

SyncOrchestratorNext ==
    \/ \E f \in Flows, p \in SyncPeers : start_sync(f, p)
    \/ \E f \in Flows :
        \/ StartUpsert(f) \/ StartUpsertFails(f) \/ StartInsert(f) \/ StartGlobal(f)
        \/ handle_manifest_exchange(f)
        \/ complete_sync(f) \/ CompleteFails(f) \/ CompleteGlobal(f) \/ GiveUp(f)
        \/ schedule_transfer(f) \/ next_transfer(f) \/ complete_transfer(f)
    \/ Restart

-----------------------------------------------------------------------------
(* Between calls the global state is right: Idle while no peer is being    *)
(* synchronised, except peers that a restart left unfinished or that two   *)
(* flows share; Syncing only while some peer is unfinished, except after a *)
(* completion whose save failed: it returns before it counts, and Syncing  *)
(* stays until another call has counted.  A completion that counts while   *)
(* another flow registers its peer never hides it.                         *)
GlobalStateRight ==
    (\A f \in Flows : flow[f].pc \in {"none", "started", "exchanged"})
    => /\ sync_state = "Idle" => ActivePeers \subseteq joined
       /\ sync_state = "Syncing" /\ joined = {} => ActivePeers # {} \/ uncounted

(* Each slot of the scheduler belongs to a transfer in hand, or was lost   *)
(* with a flow that gave up, for which there is no call: no other sequence *)
(* of calls leaves the queue waiting with nothing under way.               *)
SlotsAccounted ==
    /\ active_transfers = Cardinality(handed) + lost
    /\ active_transfers <= MaxConcurrent

(* The summaries that the orchestrator and its scheduler keep of the work  *)
(* under way are right between calls.                                      *)
SummariesRight == GlobalStateRight /\ SlotsAccounted

-----------------------------------------------------------------------------
(***************************************************************************)
(* The locks of SyncOrchestrator: peer_states ("peers") and state          *)
(* ("state"), both tokio::sync::RwLock, which serves requests in their     *)
(* order: a reader waits behind a writer that waits.                       *)
(*                                                                         *)
(* A call is the sequence of its critical sections, and a section the      *)
(* sequence of the locks it takes; it releases them at its end.            *)
(***************************************************************************)
VARIABLES
    call,   \* the critical sections each caller has to go through
    taken,  \* locks of the current section it holds
    line    \* who waits for each lock, first come first

lvars == <<call, taken, line>>

Take(lock, mode) == [lock |-> lock, mode |-> mode]
Locks == {"peers", "state"}

(* start_sync: the test, the insertion, and the global state with the count. *)
StartSections == << <<Take("peers", "read")>>, <<Take("peers", "write")>>,
                    <<Take("state", "write"), Take("peers", "read")>> >>
CompleteUnderWrite == << <<Take("peers", "write"), Take("state", "write")>> >>
(* complete_sync: the peer, then the count with the global state. *)
CompleteSections == << <<Take("peers", "write")>>, <<Take("peers", "read"), Take("state", "write")>> >>
(* handle_manifest_exchange and complete_transfer. *)
UpdateSections == << <<Take("peers", "write")>> >>

LocksInit ==
    /\ call = [c \in Callers |-> <<>>]
    /\ taken = [c \in Callers |-> <<>>]
    /\ line = [l \in Locks |-> <<>>]

Waits(c, l) == \E i \in DOMAIN line[l] : line[l][i].by = c
Held(c) == {taken[c][i] : i \in DOMAIN taken[c]}

Begin(c) ==
    /\ call[c] = <<>>
    /\ call' = [call EXCEPT ![c] = StartSections]
    /\ UNCHANGED <<taken, line>>
BeginComplete(c) ==
    /\ call[c] = <<>>
    /\ call' = [call EXCEPT ![c] = CompleteSections]
    /\ UNCHANGED <<taken, line>>
BeginUpdate(c) ==
    /\ call[c] = <<>>
    /\ call' = [call EXCEPT ![c] = UpdateSections]
    /\ UNCHANGED <<taken, line>>

(* The next lock of the section. *)
Request(c) ==
    /\ call[c] # <<>> /\ Len(taken[c]) < Len(Head(call[c])) /\ \A l \in Locks : ~Waits(c, l)
    /\ LET t == Head(call[c])[Len(taken[c]) + 1]
       IN line' = [line EXCEPT ![t.lock] = Append(@, [by |-> c, mode |-> t.mode])]
    /\ UNCHANGED <<call, taken>>

Grantable(l) ==
    /\ line[l] # <<>>
    /\ \A c \in Callers : \A t \in Held(c) :
        t.lock = l => t.mode = "read" /\ Head(line[l]).mode = "read"

Grant(l) ==
    /\ Grantable(l)
    /\ LET w == Head(line[l]) IN taken' = [taken EXCEPT ![w.by] = Append(@, Take(l, w.mode))]
    /\ line' = [line EXCEPT ![l] = Tail(@)]
    /\ UNCHANGED call

EndSection(c, rest) ==
    /\ call[c] # <<>> /\ Len(taken[c]) = Len(Head(call[c]))
    /\ call' = [call EXCEPT ![c] = rest]
    /\ taken' = [taken EXCEPT ![c] = <<>>]
    /\ UNCHANGED line

Finish(c) == EndSection(c, Tail(call[c]))

(* The peer is being synchronised already, or the database fails: the call *)
(* ends with its first section.                                            *)
EndEarly(c) == call[c] \in {StartSections, CompleteSections} /\ EndSection(c, <<>>)

LocksNext ==
    \/ \E c \in Callers :
        \/ Begin(c) \/ BeginComplete(c) \/ BeginUpdate(c)
        \/ Request(c) \/ Finish(c) \/ EndEarly(c)
    \/ \E l \in Locks : Grant(l)

-----------------------------------------------------------------------------
Deadlocked ==
    /\ \E c \in Callers : call[c] # <<>>
    /\ \A c \in Callers : call[c] # <<>> => \E l \in Locks : Waits(c, l)
    /\ \A l \in Locks : ~Grantable(l)

(* start_sync takes state and then peer_states, complete_sync the other    *)
(* way round.  Since both only read peer_states under the other's lock,    *)
(* they block each other in one way only: a third caller waits to write    *)
(* peer_states between them.  Two callers never deadlock.                  *)
DeadlockNeedsThree ==
    Deadlocked
    => \E a, b, c \in Callers :
        /\ a # b /\ b # c /\ a # c
        /\ Take("state", "write") \in Held(a) /\ Waits(a, "peers")
        /\ Take("peers", "read") \in Held(b) /\ Waits(b, "state")
        /\ Waits(c, "peers") /\ Head(line["peers"]) = [by |-> c, mode |-> "write"]
=============================================================================
