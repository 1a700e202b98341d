--------------------------- MODULE SimpleTransfer ---------------------------
(***************************************************************************)
(* The simple protocol of landro-daemon: SimpleFileTransfer::send_file     *)
(* with receive_file (simple_sync_protocol.rs), and with the server side   *)
(* of connection_handler.rs, which every connection of the daemon uses.    *)
(*                                                                         *)
(* One sender and one receiver per stream.  receive_file writes the file   *)
(* of its own transfer; the handler writes all data it gets to one file,   *)
(* received_file.tmp, and verifies nothing.  The handler opens the stream  *)
(* itself, and the peer modelled here speaks on it; FileTransferClient     *)
(* opens another, which the handler never accepts.  A peer may announce a  *)
(* checksum that its data does not have.                                   *)
(***************************************************************************)
EXTENDS Naturals, Sequences

CONSTANTS
    Streams,    \* transfers
    Handled,    \* the transfers whose server is the connection handler
    Datas,      \* contents
    NoData, TornData

ASSUME SimpleAssumption == Handled \subseteq Streams

VARIABLES
    announced, payload,     \* each transfer: the checksum and the data
    sender, receiver,       \* where the two sides are
    toReceiver, toSender,   \* messages under way
    dest,                   \* the file of each transfer
    shared                  \* received_file.tmp

zvars == <<announced, payload, sender, receiver, toReceiver, toSender, dest, shared>>

SimpleInit ==
    /\ announced \in [Streams -> Datas] /\ payload \in [Streams -> Datas]
    /\ sender = [s \in Streams |-> "request"]
    /\ receiver = [s \in Streams |-> "idle"]
    /\ toReceiver = [s \in Streams |-> <<>>]
    /\ toSender = [s \in Streams |-> <<>>]
    /\ dest = [s \in Streams |-> NoData]
    /\ shared = NoData

Sends(s, m) == toReceiver' = [toReceiver EXCEPT ![s] = Append(@, m)]
Take(queue, s) == [queue EXCEPT ![s] = Tail(@)]
Replies(s, m) == toSender' = [toSender EXCEPT ![s] = Append(@, m)]
SenderAt(s, pc) == sender' = [sender EXCEPT ![s] = pc]
ReceiverAt(s, pc) == receiver' = [receiver EXCEPT ![s] = pc]
fixed == <<announced, payload>>

-----------------------------------------------------------------------------
(* send_file *)
SendRequest(s) ==
    /\ sender[s] = "request"
    /\ Sends(s, "FileTransferRequest") /\ SenderAt(s, "response")
    /\ UNCHANGED <<fixed, receiver, toSender, dest, shared>>

Accepted(s) ==
    /\ sender[s] = "response" /\ toSender[s] # <<>>
    /\ toSender' = Take(toSender, s)
    /\ IF Head(toSender[s]) = "accepted"
       THEN Sends(s, "FileData") /\ SenderAt(s, "completion")
       ELSE SenderAt(s, "error") /\ UNCHANGED toReceiver
    /\ UNCHANGED <<fixed, receiver, dest, shared>>

Completion(s) ==
    /\ sender[s] = "completion" /\ toSender[s] # <<>>
    /\ toSender' = Take(toSender, s)
    /\ SenderAt(s, IF Head(toSender[s]) = "complete" THEN "ok" ELSE "error")
    /\ UNCHANGED <<fixed, receiver, toReceiver, dest, shared>>

-----------------------------------------------------------------------------
(* The handler accepts like receive_file, or refuses when it cannot create *)
(* its folder, and waits for the next message.                             *)
HandlerRefuses(s) ==
    s \in Handled /\ Replies(s, "refused") /\ UNCHANGED receiver

(* receive_file *)
ReceiveRequest(s) ==
    /\ receiver[s] = "idle" /\ toReceiver[s] # <<>>
    /\ toReceiver' = Take(toReceiver, s)
    /\ \/ Replies(s, "accepted") /\ ReceiverAt(s, "data")
       \/ HandlerRefuses(s)
    /\ UNCHANGED <<fixed, sender, dest, shared>>

CompleteBeforeWrite(s) ==
    /\ receiver[s] = "data" /\ toReceiver[s] # <<>>
    /\ toReceiver' = Take(toReceiver, s)
    /\ Replies(s, "complete") /\ ReceiverAt(s, "open")
    /\ UNCHANGED <<fixed, sender, dest, shared>>

(* The checksum, which the handler leaves out. *)
ReceiveData(s) ==
    /\ receiver[s] = "data" /\ toReceiver[s] # <<>>
    /\ toReceiver' = Take(toReceiver, s)
    /\ IF s \in Handled \/ payload[s] = announced[s]
       THEN ReceiverAt(s, "open") /\ UNCHANGED toSender
       ELSE ReceiverAt(s, "error") /\ Replies(s, "failed")
    /\ UNCHANGED <<fixed, sender, dest, shared>>

(* tokio::fs::write: truncated, then filled. *)
OpenDest(s) ==
    /\ receiver[s] = "open"
    /\ IF s \in Handled THEN shared' = TornData /\ UNCHANGED dest
       ELSE dest' = [dest EXCEPT ![s] = TornData] /\ UNCHANGED shared
    /\ ReceiverAt(s, "fill")
    /\ UNCHANGED <<fixed, sender, toReceiver, toSender>>

(* The handler's writes of two connections may overlap in the one file. *)
WriteShared(s) ==
    shared' \in {payload[s], IF shared \in {TornData, payload[s]} THEN payload[s] ELSE TornData}

FillDest(s) ==
    /\ receiver[s] = "fill"
    /\ IF s \in Handled
       THEN WriteShared(s) /\ UNCHANGED dest
       ELSE dest' = [dest EXCEPT ![s] = payload[s]] /\ UNCHANGED shared
    /\ Replies(s, "complete") /\ ReceiverAt(s, IF s \in Handled THEN "idle" ELSE "done")
    /\ UNCHANGED <<fixed, sender, toReceiver>>

(* The disk is full: receive_file returns the error, the handler reports it. *)
WriteFails(s) ==
    /\ receiver[s] \in {"open", "fill"}
    /\ IF s \in Handled THEN Replies(s, "failed") /\ ReceiverAt(s, "idle")
       ELSE ReceiverAt(s, "error") /\ UNCHANGED toSender
    /\ UNCHANGED <<fixed, sender, toReceiver, dest, shared>>

(* The stream breaks, or the other side is gone: both calls return errors. *)
StreamBreaks(s) ==
    /\ sender[s] \notin {"ok", "error"}
    /\ SenderAt(s, "error")
    /\ receiver' = [receiver EXCEPT ![s] = IF @ \in {"idle", "data"} THEN "error" ELSE @]
    /\ toReceiver' = [toReceiver EXCEPT ![s] = <<>>]
    /\ toSender' = [toSender EXCEPT ![s] = <<>>]
    /\ UNCHANGED <<fixed, dest, shared>>

SimpleNext ==
    \E s \in Streams :
        \/ SendRequest(s) \/ Accepted(s) \/ Completion(s)
        \/ ReceiveRequest(s) \/ ReceiveData(s) \/ OpenDest(s) \/ FillDest(s)
        \/ WriteFails(s) \/ StreamBreaks(s)

-----------------------------------------------------------------------------
(* A sender that is told the transfer is complete and verified can rely on *)
(* it when its peer runs receive_file: the file is there, whole, with the  *)
(* announced checksum.  A transfer that was refused for its checksum has   *)
(* left no file.                                                           *)
SuccessIsStored ==
    \A s \in Streams \ Handled :
        /\ sender[s] = "ok" => dest[s] = announced[s]
        /\ dest[s] # NoData => payload[s] = announced[s]
=============================================================================
