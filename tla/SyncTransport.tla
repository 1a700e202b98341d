---------------------------- MODULE SyncTransport ----------------------------
(***************************************************************************)
(* Two ends of QuicSyncTransport (landro-sync/src/quic_integration.rs) on  *)
(* one connection: initiate_sync and respond_to_sync up to the manifest    *)
(* exchange.  Each message has a unidirectional stream of its own; streams *)
(* are accepted in the order in which they were opened.                    *)
(*                                                                         *)
(* handle_sync_flow begins with the receipt of a Manifest.  No code sends  *)
(* one, so what follows it (the Want message, the chunks, the monitor) is  *)
(* never reached and has no action here.                                   *)
(***************************************************************************)
EXTENDS Naturals, Sequences

CONSTANT Ends   \* the two ends

ASSUME TransportAssumption == \E e, f \in Ends : e # f /\ Ends = {e, f}

VARIABLES
    step,       \* what each end does next
    inbox,      \* the streams each end has not accepted yet
    handshake,  \* the state of each end's SyncSession
    compatible, \* the two versions are
    link        \* the connection is up

tvars == <<step, inbox, handshake, compatible, link>>

Other(e) == CHOOSE f \in Ends : f # e

(* Both ends may have been told that they are the initiator. *)
TransportInit ==
    /\ step \in {s \in [Ends -> {"initiate", "await_Hello"}] : \E e \in Ends : s[e] = "initiate"}
    /\ inbox = [e \in Ends |-> <<>>]
    /\ handshake = [e \in Ends |-> "Initializing"]
    /\ compatible \in BOOLEAN
    /\ link = TRUE

Awaits ==
    [s \in {"await_reply", "await_Hello", "await_FolderSummary", "await_Manifest"} |->
        CASE s = "await_FolderSummary" -> "FolderSummary"
          [] s = "await_Manifest" -> "Manifest"
          [] OTHER -> "Hello"]
Waiting(e) == step[e] \in DOMAIN Awaits

send_message(e, m) == inbox' = [inbox EXCEPT ![Other(e)] = Append(@, m)]

(* Accepts the next stream, which must be of the expected type. *)
receive_message(e) ==
    /\ Waiting(e) /\ link /\ inbox[e] # <<>>
    /\ Head(inbox[e]) = Awaits[step[e]]

(* Accepting and answering, in one action: nothing else touches the inbox. *)
Answer(e, m) ==
    inbox' = [inbox EXCEPT ![e] = Tail(@), ![Other(e)] = Append(@, m)]

Fail(e, why) ==
    /\ step' = [step EXCEPT ![e] = why]
    /\ inbox' = [inbox EXCEPT ![e] = Tail(@)]
    /\ UNCHANGED <<compatible, link>>

-----------------------------------------------------------------------------
initiate_sync(e) ==
    /\ step[e] = "initiate" /\ link
    /\ send_message(e, "Hello")
    /\ step' = [step EXCEPT ![e] = "await_reply"]
    /\ UNCHANGED <<handshake, compatible, link>>

(* The initiator handles the answer and sends its folder summary. *)
HelloReply(e) ==
    /\ step[e] = "await_reply" /\ receive_message(e) /\ compatible
    /\ handshake' = [handshake EXCEPT ![e] = "Negotiating"]
    /\ Answer(e, "FolderSummary")
    /\ step' = [step EXCEPT ![e] = "await_Manifest"]
    /\ UNCHANGED <<compatible, link>>

SummaryBeforeHello(e) ==
    /\ step[e] = "await_Hello" /\ receive_message(e) /\ compatible
    /\ handshake' = [handshake EXCEPT ![e] = "Negotiating"]
    /\ inbox' = [inbox EXCEPT ![e] = Tail(@)]
    /\ step' = [step EXCEPT ![e] = "await_FolderSummary"]
    /\ UNCHANGED <<compatible, link>>

RespondHello(e) ==
    /\ step[e] = "await_Hello" /\ receive_message(e) /\ compatible
    /\ handshake' = [handshake EXCEPT ![e] = "Negotiating"]
    /\ Answer(e, "Hello")
    /\ step' = [step EXCEPT ![e] = "await_FolderSummary"]
    /\ UNCHANGED <<compatible, link>>

RespondSummary(e) ==
    /\ step[e] = "await_FolderSummary" /\ receive_message(e)
    /\ handshake' = [handshake EXCEPT ![e] = "ComputingDiff"]
    /\ Answer(e, "FolderSummary")
    /\ step' = [step EXCEPT ![e] = "await_Manifest"]
    /\ UNCHANGED <<compatible, link>>

Incompatible(e) ==
    /\ step[e] \in {"await_reply", "await_Hello"} /\ receive_message(e) /\ ~compatible
    /\ handshake' = [handshake EXCEPT ![e] = "Failed"]
    /\ Fail(e, "incompatible")

(* The stream is of another type: the call returns an error. *)
WrongType(e) ==
    /\ Waiting(e) /\ link /\ inbox[e] # <<>> /\ Head(inbox[e]) # Awaits[step[e]]
    /\ Fail(e, IF step[e] = "await_Manifest" THEN "no_manifest" ELSE "wrong_type")
    /\ UNCHANGED handshake

ConnectionLost ==
    /\ link
    /\ link' = FALSE
    /\ UNCHANGED <<step, inbox, handshake, compatible>>

StreamError(e) ==
    /\ ~link /\ (Waiting(e) \/ step[e] = "initiate")
    /\ step' = [step EXCEPT ![e] = "network"]
    /\ UNCHANGED <<inbox, handshake, compatible, link>>

TransportNext ==
    \/ \E e \in Ends :
        \/ initiate_sync(e) \/ HelloReply(e) \/ RespondHello(e) \/ RespondSummary(e)
        \/ Incompatible(e) \/ WrongType(e) \/ StreamError(e)
    \/ ConnectionLost

-----------------------------------------------------------------------------
(* Up to the manifest exchange the two ends agree on the order of their    *)
(* messages: none is refused for its type, the two never wait for each     *)
(* other, and an end whose partner works waits for nothing but a Manifest. *)
OnlyManifestBlocks ==
    /\ \A e \in Ends : step[e] # "wrong_type"
    /\ (\A e \in Ends : Waiting(e) /\ inbox[e] = <<>>) => \A e \in Ends : step[e] = "await_Manifest"
    /\ \A e \in Ends :
        Waiting(e) /\ inbox[e] = <<>> /\ step[e] # "await_Manifest" /\ ~Waiting(Other(e))
        => step[Other(e)] \in {"initiate", "incompatible", "network"}
=============================================================================
