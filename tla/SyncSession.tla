----------------------------- MODULE SyncSession -----------------------------
(***************************************************************************)
(* landro-sync/src/protocol.rs, SyncSession: one session with one peer.    *)
(*                                                                         *)
(* The session is shared by the tasks of a connection (Callers), each of   *)
(* which handles one message at a time.  The handlers for Hello,           *)
(* FolderSummary, Manifest, ChunkData and Error hold the state lock for    *)
(* writing from their first line to their last, so each is one action,     *)
(* taken while nobody holds the lock.  handle_want holds it for reading    *)
(* through its loop and handle_ack releases it between reading the state   *)
(* and writing it: those two are several actions.                          *)
(*                                                                         *)
(* A chunk stands for its bytes, and its hash for the chunk the bytes      *)
(* should be.  A call that a handler rejects changes nothing and is not an *)
(* action.                                                                 *)
(***************************************************************************)
EXTENDS ManifestDiff, FiniteSets

CONSTANTS Callers, NoCaller, NoManifest,
          Stored,         \* chunks in the content store at the start
          MaxWanted,      \* hashes in one Want (bound)
          MaxConcurrent   \* MAX_CONCURRENT_TRANSFERS

ASSUME SessionAssumption ==
    /\ Stored \subseteq Chunks
    /\ NoCaller \notin Callers
    /\ MaxConcurrent \in Nat

VARIABLES
    phase,          \* SessionState, without the counters of Transferring
    total, transferred,
    our, theirs,    \* manifests, or NoManifest
    wanted, sent, received,
    cas,            \* chunks in the content store
    recorded,       \* the peer's row in the database says Completed
    statsLock,      \* the caller writing stats, or NoCaller
    step, todo,     \* a call's step, and the hashes it has yet to look at
    replies         \* how often each chunk was put in a reply

sessionvars == <<phase, total, transferred, our, theirs, wanted, sent, received,
                 cas, recorded, statsLock, step, todo, replies>>
call == <<statsLock, step, todo, replies>>

SessionStates == {"Initializing", "Negotiating", "ComputingDiff", "Transferring",
                  "Verifying", "Completed", "Failed"}
Steps == {"idle", "want_lock", "want", "want_load", "ack_verify", "ack_complete",
          "ack_fail", "ack_record"}

SessionInit ==
    /\ phase = "Initializing" /\ total = 0 /\ transferred = 0
    /\ our = NoManifest /\ theirs = NoManifest
    /\ wanted = {} /\ sent = {} /\ received = {}
    /\ cas = Stored /\ recorded = FALSE
    /\ statsLock = NoCaller
    /\ step = [c \in Callers |-> "idle"]
    /\ todo = [c \in Callers |-> <<>>]
    /\ replies = [k \in Chunks |-> 0]

(* The state lock can be taken for writing: handle_want holds it for reading. *)
StateUnread == \A c \in Callers : step[c] \notin {"want_lock", "want", "want_load"}
-----------------------------------------------------------------------------
HelloAnyState ==
    /\ StateUnread
    /\ phase' \in {"Negotiating", "Failed"}
    /\ UNCHANGED <<total, transferred, our, theirs, wanted, sent, received, cas,
                   recorded, call>>

(* A peer with another major version makes the session fail. *)
handle_hello ==
    /\ StateUnread /\ phase = "Initializing"
    /\ phase' \in {"Negotiating", "Failed"}
    /\ UNCHANGED <<total, transferred, our, theirs, wanted, sent, received, cas,
                   recorded, call>>

(* load_our_manifest returns a manifest without files. *)
load_our_manifest == Empty

handle_folder_summary ==
    /\ StateUnread /\ phase = "Negotiating"
    /\ our' = load_our_manifest
    /\ phase' = "ComputingDiff"
    /\ UNCHANGED <<total, transferred, theirs, wanted, sent, received, cas, recorded,
                   call>>

(* The diff leads from the peer's manifest to ours; the chunk cache is empty. *)
handle_manifest(m) ==
    LET required == required_chunks(compute_diff(m, our, {}))
    IN  /\ StateUnread /\ phase = "ComputingDiff"
        /\ theirs' = m
        /\ wanted' = required
        /\ phase' = "Transferring"
        /\ total' = Cardinality(required) /\ transferred' = 0
        /\ UNCHANGED <<our, sent, received, cas, recorded, call>>

(* What store_chunk and load_chunk succeed with. *)
store_chunk(hash, data) == hash = data
load_chunk(k) == k \in cas

StoreErrorIgnored(hash, data) ==
    /\ StateUnread /\ phase = "Transferring"
    /\ cas' \in {cas, cas \cup {data}}
    /\ received' = received \cup {hash}
    /\ wanted' = wanted \ {hash}
    /\ IF transferred + 1 >= total
         THEN phase' = "Verifying" /\ UNCHANGED <<total, transferred>>
         ELSE transferred' = transferred + 1 /\ UNCHANGED <<phase, total>>
    /\ UNCHANGED <<our, theirs, sent, recorded, call>>

(* A message says that data has this hash.  Storing it may fail, and then   *)
(* nothing has changed.                                                    *)
StoreChunk(hash, data) ==
    /\ StateUnread /\ phase = "Transferring"
    /\ store_chunk(hash, data)
    /\ cas' = cas \cup {data}
    /\ received' = received \cup {hash}
    /\ wanted' = wanted \ {hash}
    /\ IF transferred + 1 >= total
         THEN phase' = "Verifying" /\ UNCHANGED <<total, transferred>>
         ELSE transferred' = transferred + 1 /\ UNCHANGED <<phase, total>>
    /\ UNCHANGED <<our, theirs, sent, recorded, call>>

handle_chunk_data(hash, data) ==
    /\ hash = data
    /\ StoreChunk(hash, data)

handle_error ==
    /\ StateUnread
    /\ phase' = "Failed"
    /\ UNCHANGED <<total, transferred, our, theirs, wanted, sent, received, cas,
                   recorded, call>>
-----------------------------------------------------------------------------
session == <<total, transferred, our, theirs, wanted, received, cas>>

(* handle_want: the first MaxConcurrent hashes, one after the other, with  *)
(* the stats lock held throughout.                                         *)
want_begin(c, hashes) ==
    /\ step[c] = "idle" /\ phase = "Transferring"
    /\ step' = [step EXCEPT ![c] = "want_lock"]
    /\ todo' = [todo EXCEPT ![c] =
                  SubSeq(hashes, 1, IF Len(hashes) < MaxConcurrent
                                      THEN Len(hashes) ELSE MaxConcurrent)]
    /\ UNCHANGED <<session, phase, sent, recorded, statsLock, replies>>

WantNoLock(c) ==
    /\ step[c] = "want_lock"
    /\ step' = [step EXCEPT ![c] = "want"]
    /\ UNCHANGED <<session, phase, sent, recorded, statsLock, todo, replies>>

want_lock(c) ==
    /\ step[c] = "want_lock" /\ statsLock = NoCaller
    /\ statsLock' = c
    /\ step' = [step EXCEPT ![c] = "want"]
    /\ UNCHANGED <<session, phase, sent, recorded, todo, replies>>

(* A hash that is among the sent is skipped. *)
want_check(c) ==
    /\ step[c] = "want" /\ todo[c] # <<>>
    /\ IF Head(todo[c]) \in sent
         THEN todo' = [todo EXCEPT ![c] = Tail(@)] /\ UNCHANGED step
         ELSE step' = [step EXCEPT ![c] = "want_load"] /\ UNCHANGED todo
    /\ UNCHANGED <<session, phase, sent, recorded, statsLock, replies>>

WantRetriesLoad(c) ==
    LET k == Head(todo[c])
    IN  /\ step[c] = "want_load"
        /\ IF k \in cas
             THEN /\ replies' = [replies EXCEPT ![k] = @ + 1]
                  /\ sent' = sent \cup {k}
                  /\ todo' = [todo EXCEPT ![c] = Tail(@)]
             ELSE UNCHANGED <<replies, sent, todo>>
        /\ step' = [step EXCEPT ![c] = "want"]
        /\ UNCHANGED <<session, phase, recorded, statsLock>>

(* load_chunk: the hash is skipped when the store does not have it. *)
want_load(c) ==
    LET k == Head(todo[c])
    IN  /\ step[c] = "want_load"
        /\ IF load_chunk(k)
             THEN /\ replies' = [replies EXCEPT ![k] = @ + 1]
                  /\ sent' = sent \cup {k}
             ELSE UNCHANGED <<replies, sent>>
        /\ todo' = [todo EXCEPT ![c] = Tail(@)]
        /\ step' = [step EXCEPT ![c] = "want"]
        /\ UNCHANGED <<session, phase, recorded, statsLock>>

(* The call returns and both locks are released. *)
want_return(c) ==
    /\ step[c] = "want" /\ todo[c] = <<>>
    /\ statsLock' = NoCaller
    /\ step' = [step EXCEPT ![c] = "idle"]
    /\ UNCHANGED <<session, phase, sent, recorded, todo, replies>>
-----------------------------------------------------------------------------
locals == <<statsLock, todo, replies>>

(* handle_ack: nothing more happens unless the state read is Verifying. *)
ack_begin(c) ==
    /\ step[c] = "idle" /\ phase = "Verifying"
    /\ step' = [step EXCEPT ![c] = "ack_verify"]
    /\ UNCHANGED <<session, phase, sent, recorded, locals>>

verify_transfer(c) ==
    /\ step[c] = "ack_verify"
    /\ step' = [step EXCEPT ![c] = IF wanted = {} THEN "ack_complete" ELSE "ack_fail"]
    /\ UNCHANGED <<session, phase, sent, recorded, locals>>

ack_write(c) ==
    /\ step[c] \in {"ack_complete", "ack_fail"} /\ StateUnread
    /\ phase' = IF step[c] = "ack_complete" THEN "Completed" ELSE "Failed"
    /\ step' = [step EXCEPT ![c] = IF @ = "ack_complete" THEN "ack_record" ELSE "idle"]
    /\ UNCHANGED <<session, sent, recorded, locals>>

(* The database may fail; the call then returns the error. *)
update_peer_state(c) ==
    /\ step[c] = "ack_record" /\ statsLock = NoCaller
    /\ recorded' \in {recorded, TRUE}
    /\ step' = [step EXCEPT ![c] = "idle"]
    /\ UNCHANGED <<session, phase, sent, locals>>
-----------------------------------------------------------------------------
CallStep(c) ==
    \/ want_lock(c) \/ want_check(c) \/ want_load(c) \/ want_return(c)
    \/ verify_transfer(c) \/ ack_write(c) \/ update_peer_state(c)

SessionNext ==
    \/ handle_hello
    \/ handle_folder_summary
    \/ \E m \in Manifests : handle_manifest(m)
    \/ \E hash, data \in Chunks : handle_chunk_data(hash, data)
    \/ handle_error
    \/ \E c \in Callers :
          \/ \E hashes \in SeqOf(Chunks, MaxWanted) : want_begin(c, hashes)
          \/ ack_begin(c)
          \/ CallStep(c)

SessionSpec == SessionInit /\ [][SessionNext]_sessionvars

(* A task that is in a handler is polled until the handler returns.  A lock *)
(* is granted in the order in which it was asked for, so a caller that asks *)
(* again and again does not starve another one.                            *)
FairSessionSpec == SessionSpec /\ \A c \in Callers : SF_sessionvars(CallStep(c))
-----------------------------------------------------------------------------

(* handle_want reads sent_chunks, loads the chunk and marks it sent in     *)
(* separate steps.  Two Wants handled at the same time still never send a  *)
(* chunk twice, because the stats lock keeps their loops apart.            *)
SentOnce == \A k \in Chunks : replies[k] <= 1

(* A chunk handle_chunk_data has counted as received is in the content     *)
(* store under the hash the peer gave for it.                              *)
ReceivedIsStored == received \subseteq cas

(* handle_error makes the session Failed for good, but for acknowledgements *)
(* whose handler had read the state before the error was handled.          *)
OnlyLateAckRevives ==
    [][phase = "Failed" /\ phase' # "Failed"
         => \E c \in Callers : step[c] = "ack_complete"]_sessionvars

(* The database says that a peer was synchronised only if the session got  *)
(* through its transfer: something was received.                           *)
RecordedWasReceived == recorded => received # {}

(* What a session says it received is real: stored, and the ground of what *)
(* the database says.                                                      *)
ReceiptsAreReal == ReceivedIsStored /\ RecordedWasReceived

(* Every handler that was entered returns: the two locks it may hold are   *)
(* asked for in one order and released.                                    *)
HandlersReturn == \A c \in Callers : step[c] # "idle" ~> step[c] = "idle"

(* "Sync completed successfully" (protocol.rs:53): the chunks of the       *)
(* peer's manifest are here.                                               *)
CompletedHasPeersFiles ==
    phase = "Completed" =>
        \A p \in Paths : theirs[p] # NoFile => ToSet(theirs[p].chunks) \subseteq cas
=============================================================================
