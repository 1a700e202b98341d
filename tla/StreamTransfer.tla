--------------------------- MODULE StreamTransfer ---------------------------
(***************************************************************************)
(* StreamTransferManager of landro-quic/src/stream_transfer.rs: calls of   *)
(* stream_chunks share one flow controller, and every chunk is sent by a   *)
(* task of its own, which holds a permit for the bytes of the chunk.       *)
(*                                                                         *)
(* All chunks have one size.  The flow controller sits behind a RwLock     *)
(* that stream_chunks holds for the whole of acquire_capacity; permits are *)
(* dropped without it.  The stream pool is no limit: acquire drops its     *)
(* semaphore permit when it returns, and release is never called.          *)
(***************************************************************************)
EXTENDS Naturals, FiniteSets

CONSTANTS
    Senders,        \* calls of stream_chunks
    Window,         \* window_size
    Threshold,      \* window_size * backpressure_threshold
    ChunkBytes,     \* size of a chunk
    ChunksPerCall,
    MaxRetransmit   \* max_retransmit_attempts

(* Threshold is the part of the window below which backpressure begins. *)
StreamTransferConfig ==
    Window \in Nat /\ Threshold \in 0..Window /\ MaxRetransmit \in Nat \ {0}

ASSUME FlowAssumption ==
    StreamTransferConfig /\ ChunkBytes \in 1..Window /\ ChunksPerCall \in Nat \ {0}

VARIABLES
    available,   \* available_capacity
    acquiring,   \* each call: where it is in acquire_capacity
    current,     \* the value of available_capacity it read
    sending,     \* the task of each chunk: its state
    attempts,    \* sends it tried
    outcome      \* results in the channel: chunks sent, and failures, which name no chunk

fvars == <<available, acquiring, current, sending, attempts, outcome>>

ChunkTasks == Senders \X (1..ChunksPerCall)

(* PriorityScheduler: what a call gets back from the queues is exactly the *)
(* chunks it scheduled, since both happen under one lock.                  *)
Scheduled(s) == {k \in ChunkTasks : k[1] = s}
Holding == {k \in ChunkTasks : sending[k] = "sending"}

FlowInit ==
    /\ available = Window
    /\ acquiring = [s \in Senders |-> "idle"]
    /\ current = [s \in Senders |-> 0]
    /\ sending = [k \in ChunkTasks |-> "none"]
    /\ attempts = [k \in ChunkTasks |-> 0]
    /\ outcome = [s \in Senders |-> [sent |-> {}, failed |-> 0]]

At(s, where) == acquiring[s] = where
Move(s, where) == acquiring' = [acquiring EXCEPT ![s] = where]

(* Held from the check to the compare-and-exchange. *)
FlowLocked == \E s \in Senders : acquiring[s] \in {"check", "waiting", "load", "exchange"}

-----------------------------------------------------------------------------
(* A call, or the next call of the same caller: its chunks are scheduled.  *)
stream_chunks(s) ==
    /\ At(s, "idle")
    /\ \A k \in Scheduled(s) : sending[k] \in {"none", "reported"}
    /\ Move(s, "lock")
    /\ sending' = [k \in ChunkTasks |-> IF k \in Scheduled(s) THEN "queued" ELSE sending[k]]
    /\ attempts' = [k \in ChunkTasks |-> IF k \in Scheduled(s) THEN 0 ELSE attempts[k]]
    /\ outcome' = [outcome EXCEPT ![s] = [sent |-> {}, failed |-> 0]]
    /\ UNCHANGED <<available, current>>

LockFlow(s) ==
    /\ At(s, "lock") /\ ~FlowLocked
    /\ Move(s, "check")
    /\ UNCHANGED <<available, current, sending, attempts, outcome>>

(* Below the threshold the call queues a channel and waits for it.  The    *)
(* only sender is notify_waiters, which nothing calls.                     *)
Backpressure(s) ==
    /\ At(s, "check")
    /\ Move(s, IF available < Threshold THEN "waiting" ELSE "load")
    /\ UNCHANGED <<available, current, sending, attempts, outcome>>

(* Reads until the capacity is enough, with a pause between. *)
LoadCapacity(s) ==
    /\ At(s, "load")
    /\ current' = [current EXCEPT ![s] = available]
    /\ IF available >= ChunkBytes THEN Move(s, "exchange") ELSE UNCHANGED acquiring
    /\ UNCHANGED <<available, sending, attempts, outcome>>

(* The permit is taken, the lock released, and a task spawned. *)
Spawn(s) ==
    \E k \in Scheduled(s) :
        /\ sending[k] = "queued" /\ \A j \in Scheduled(s) : sending[j] = "queued" => k[2] <= j[2]
        /\ sending' = [sending EXCEPT ![k] = "sending"]
        /\ Move(s, IF k[2] = ChunksPerCall THEN "idle" ELSE "lock")

StoreCapacity(s) ==
    /\ At(s, "exchange")
    /\ available' = current[s] - ChunkBytes
    /\ Spawn(s)
    /\ UNCHANGED <<current, attempts, outcome>>

ExchangeCapacity(s) ==
    /\ At(s, "exchange") /\ available = current[s]
    /\ available' = current[s] - ChunkBytes
    /\ Spawn(s)
    /\ UNCHANGED <<current, attempts, outcome>>

ExchangeFails(s) ==
    /\ At(s, "exchange") /\ available # current[s]
    /\ current' = [current EXCEPT ![s] = available]
    /\ Move(s, IF available >= ChunkBytes THEN "exchange" ELSE "load")
    /\ UNCHANGED <<available, sending, attempts, outcome>>

-----------------------------------------------------------------------------
(* transfer_chunk_stream: a send fails or times out and is tried again.    *)
(* The permit is dropped when the function returns, before the result is   *)
(* put into the channel.                                                   *)
send_chunk_with_timeout(k) ==
    /\ sending[k] = "sending"
    /\ sending' = [sending EXCEPT ![k] = "sent"]
    /\ attempts' = [attempts EXCEPT ![k] = @ + 1]
    /\ available' = available + ChunkBytes
    /\ UNCHANGED <<acquiring, current, outcome>>

SendFails(k) ==
    /\ sending[k] = "sending"
    /\ attempts' = [attempts EXCEPT ![k] = @ + 1]
    /\ IF attempts[k] + 1 < MaxRetransmit
       THEN UNCHANGED <<sending, available>>
       ELSE /\ sending' = [sending EXCEPT ![k] = "failed"]
            /\ available' = available + ChunkBytes
    /\ UNCHANGED <<acquiring, current, outcome>>

Report(k) ==
    /\ sending[k] \in {"sent", "failed"}
    /\ LET o == outcome[k[1]]
       IN outcome' = [outcome EXCEPT ![k[1]] =
              IF sending[k] = "sent" THEN [o EXCEPT !.sent = @ \cup {k[2]}]
              ELSE [o EXCEPT !.failed = @ + 1]]
    /\ sending' = [sending EXCEPT ![k] = "reported"]
    /\ UNCHANGED <<available, acquiring, current, attempts>>

Acquire(s) == LockFlow(s) \/ Backpressure(s) \/ LoadCapacity(s) \/ ExchangeCapacity(s) \/ ExchangeFails(s)
Send(k) == send_chunk_with_timeout(k) \/ SendFails(k) \/ Report(k)

FlowNext ==
    \/ \E s \in Senders : stream_chunks(s) \/ Acquire(s)
    \/ \E k \in ChunkTasks : Send(k)

-----------------------------------------------------------------------------
(* No byte of the window is lost or invented while tasks drop their        *)
(* permits between a call's read and its exchange, and a call whose tasks  *)
(* have all reported accounts for every chunk, by name or as a failure.    *)
FlowConserved ==
    /\ available + ChunkBytes * Cardinality(Holding) = Window
    /\ \A s \in Senders :
        (\A k \in Scheduled(s) : sending[k] = "reported")
        => Cardinality(outcome[s].sent) + outcome[s].failed = ChunksPerCall
=============================================================================
