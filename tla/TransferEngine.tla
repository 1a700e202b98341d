--------------------------- MODULE TransferEngine ---------------------------
(***************************************************************************)
(* QuicTransferEngine of landro-quic/src/transfer.rs with its batch        *)
(* manager (protocol.rs) and its ResumableTransferManager (resumable.rs).  *)
(*                                                                         *)
(* The engine's operations take &mut self: they follow one another.  The   *)
(* manager's cleanup task and the delayed removal of checkpoints run       *)
(* beside them.  A transfer's size is its number of chunks.                *)
(***************************************************************************)
EXTENDS Naturals, FiniteSets

CONSTANTS
    Ids,            \* transfer ids
    WantedChunks,   \* hashes of chunks
    BadChunk,       \* a chunk nobody asked for
    MaxRetries,     \* max_retry_count
    NoEntry

(* What the engine keeps of a transfer. *)
TransferSession ==
    [needed : SUBSET WantedChunks, twice : BOOLEAN, received : SUBSET WantedChunks,
     status : {"Active", "Paused", "Completed"}]

ASSUME EngineAssumption ==
    /\ MaxRetries \in Nat \ {0} /\ BadChunk \notin WantedChunks /\ IsFiniteSet(WantedChunks)
    /\ NoEntry \notin Ids /\ NoEntry \notin TransferSession

VARIABLES
    xfer,       \* active_transfers of the engine: [needed, twice, received, status]
    entry,      \* active_transfers of the manager: [bytes, status, retries, idle]
    checkpoint, \* checkpoints: [bytes, retries]
    batch,      \* the transfer whose Want was sent, or NoEntry
    timedOut,   \* ids the cleanup task has chosen and not yet removed
    forget      \* ids whose checkpoint a timer will remove

evars == <<xfer, entry, checkpoint, batch, timedOut, forget>>

EngineInit ==
    /\ xfer = [i \in Ids |-> NoEntry]
    /\ entry = [i \in Ids |-> NoEntry]
    /\ checkpoint = [i \in Ids |-> NoEntry]
    /\ batch = NoEntry
    /\ timedOut = {}
    /\ forget = {}

(* chunks_needed is a vector: it may name a chunk twice. *)
Total(x) == Cardinality(x.needed) + (IF x.twice THEN 1 ELSE 0)
Missing(x) == x.needed \ x.received

save_checkpoint(i, e) ==
    checkpoint' = [checkpoint EXCEPT ![i] = [bytes |-> e.bytes, retries |-> e.retries]]

SetEntry(i, e) == entry' = [entry EXCEPT ![i] = e]

(* The manager's operations, each on what the one before left. *)
Completed(i) ==
    IF entry[i] = NoEntry THEN UNCHANGED <<entry, checkpoint, forget>>
    ELSE /\ SetEntry(i, NoEntry)
         /\ save_checkpoint(i, entry[i])
         /\ forget' = forget \cup {i}

(* A checkpoint with every byte leaves the manager without an entry. *)
StartManaged(i, total) ==
    LET old == checkpoint[i]
        base == IF old = NoEntry THEN [bytes |-> 0, retries |-> 0] ELSE old
        e == [bytes |-> base.bytes, retries |-> base.retries, status |-> "Active", idle |-> FALSE]
    IN IF base.bytes >= total THEN UNCHANGED <<entry, checkpoint>>
       ELSE SetEntry(i, e) /\ save_checkpoint(i, e)

update_progress(i, got) ==
    IF entry[i] = NoEntry THEN NoEntry ELSE [entry[i] EXCEPT !.bytes = got, !.idle = FALSE]

PauseManaged(i) ==
    IF entry[i] = NoEntry THEN UNCHANGED <<entry, checkpoint>>
    ELSE SetEntry(i, [entry[i] EXCEPT !.status = "Paused"]) /\ save_checkpoint(i, entry[i])

ResumeManaged(i) ==
    /\ entry[i] # NoEntry /\ entry[i].status \in {"Paused", "Failed"}
    /\ SetEntry(i, [entry[i] EXCEPT !.status = "Active", !.idle = FALSE])

(* The count goes on from the checkpoint when an id is started again; only *)
(* whether it has reached max_retry_count matters, and it stops there.     *)
fail_transfer(i) ==
    IF entry[i] = NoEntry THEN UNCHANGED <<entry, checkpoint>>
    ELSE LET failed == [entry[i] EXCEPT !.status = "Failed", !.retries = IF @ < MaxRetries THEN @ + 1 ELSE @]
         IN /\ SetEntry(i, IF failed.retries >= MaxRetries THEN NoEntry ELSE failed)
            /\ save_checkpoint(i, failed)

-----------------------------------------------------------------------------
(* An earlier session of the same id is replaced, with the chunks it had   *)
(* received, whether the manager keeps an entry or not.                    *)
start_transfer(i) ==
    /\ batch = NoEntry
    /\ \E needed \in (SUBSET WantedChunks) \ {{}}, twice \in BOOLEAN :
        LET x == [needed |-> needed, twice |-> twice, received |-> {}, status |-> "Active"]
        IN /\ xfer' = [xfer EXCEPT ![i] = x]
           /\ StartManaged(i, Total(x))
    /\ batch' = i
    /\ UNCHANGED <<timedOut, forget>>

(* resume_transfer goes on with a paused or failed transfer.  Without a    *)
(* session, after a cancellation, it returns an error; the entry is active *)
(* then.                                                                   *)
resume_transfer(i) ==
    /\ batch = NoEntry
    /\ ResumeManaged(i)
    /\ batch' = IF xfer[i] = NoEntry THEN NoEntry ELSE i
    /\ UNCHANGED <<xfer, checkpoint, timedOut, forget>>

complete_transfer(i) ==
    xfer' = [xfer EXCEPT ![i].status = "Completed"] /\ Completed(i)

(* transfer_chunks_resumable with nothing left to request. *)
NothingMissing(i) ==
    /\ batch = i /\ Missing(xfer[i]) = {}
    /\ complete_transfer(i)
    /\ batch' = NoEntry
    /\ UNCHANGED timedOut

(* BatchTransferManager::transfer_chunks receives one message for each     *)
(* hash it asked for, or fewer when the stream fails, and keeps the chunks *)
(* whose hash it asked for.                                                *)
KeepAll(wanted, replies) == replies
Kept(wanted, replies) == replies \cap wanted

transfer_chunks(i) ==
    /\ batch = i /\ Missing(xfer[i]) # {}
    /\ \E replies \in SUBSET (WantedChunks \cup {BadChunk}) :
        /\ Cardinality(replies) <= Cardinality(Missing(xfer[i]))
        /\ LET x == [xfer[i] EXCEPT !.received = @ \cup Kept(Missing(xfer[i]), replies)]
               got == Cardinality(x.received)
               all == got = Total(x)
               e == update_progress(i, got)
           IN /\ xfer' = [xfer EXCEPT ![i] = IF all THEN [x EXCEPT !.status = "Completed"] ELSE x]
              /\ IF all /\ e # NoEntry
                 THEN SetEntry(i, NoEntry) /\ save_checkpoint(i, e) /\ forget' = forget \cup {i}
                 ELSE /\ SetEntry(i, e) \* the checkpoint when its interval has passed
                      /\ \/ UNCHANGED checkpoint
                         \/ e # NoEntry /\ save_checkpoint(i, e)
                      /\ UNCHANGED forget
    /\ batch' = NoEntry
    /\ UNCHANGED timedOut

(* The Want could not be sent. *)
BatchFails(i) ==
    /\ batch = i /\ Missing(xfer[i]) # {}
    /\ fail_transfer(i)
    /\ batch' = NoEntry
    /\ UNCHANGED <<xfer, timedOut, forget>>

pause_transfer(i) ==
    /\ batch = NoEntry
    /\ xfer' = [xfer EXCEPT ![i] = IF @ = NoEntry THEN @ ELSE [@ EXCEPT !.status = "Paused"]]
    /\ PauseManaged(i)
    /\ UNCHANGED <<batch, timedOut, forget>>

cancel_transfer(i) ==
    /\ batch = NoEntry
    /\ xfer' = [xfer EXCEPT ![i] = NoEntry]
    /\ fail_transfer(i)
    /\ UNCHANGED <<batch, timedOut, forget>>

-----------------------------------------------------------------------------
(* The cleanup task chooses under the read lock the active transfers that  *)
(* did nothing for transfer_timeout, and removes them under the write lock *)
(* whatever they are by then.                                              *)
TransferTimeout(i) ==
    /\ entry[i] # NoEntry /\ ~entry[i].idle
    /\ SetEntry(i, [entry[i] EXCEPT !.idle = TRUE])
    /\ UNCHANGED <<xfer, checkpoint, batch, timedOut, forget>>

CleanupChooses ==
    /\ timedOut = {}
    /\ timedOut' = {i \in Ids : entry[i] # NoEntry /\ entry[i].status = "Active" /\ entry[i].idle}
    /\ timedOut' # {}
    /\ UNCHANGED <<xfer, entry, checkpoint, batch, forget>>

CleanupRemoves ==
    /\ timedOut # {}
    /\ entry' = [i \in Ids |-> IF i \in timedOut THEN NoEntry ELSE entry[i]]
    /\ timedOut' = {}
    /\ UNCHANGED <<xfer, checkpoint, batch, forget>>

(* Five minutes after a completion. *)
remove_checkpoint(i) ==
    /\ i \in forget
    /\ checkpoint' = [checkpoint EXCEPT ![i] = NoEntry]
    /\ forget' = forget \ {i}
    /\ UNCHANGED <<xfer, entry, batch, timedOut>>

EngineNext ==
    \/ \E i \in Ids :
        \/ start_transfer(i) \/ resume_transfer(i) \/ NothingMissing(i) \/ transfer_chunks(i)
        \/ BatchFails(i) \/ pause_transfer(i) \/ cancel_transfer(i)
        \/ TransferTimeout(i) \/ remove_checkpoint(i)
    \/ CleanupChooses \/ CleanupRemoves

-----------------------------------------------------------------------------
(* Through pauses, failures, partial and unwanted replies, restarts of an  *)
(* id, the cleanup task and late removals of checkpoints: a transfer that  *)
(* says it is completed has received every chunk it needs, and nothing it  *)
(* received is a chunk it did not ask for.                                 *)
CompletedHasAll ==
    \A i \in Ids : xfer[i] # NoEntry =>
        /\ xfer[i].received \subseteq xfer[i].needed
        /\ xfer[i].status = "Completed" => Missing(xfer[i]) = {}
=============================================================================
