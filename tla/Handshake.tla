------------------------------ MODULE Handshake ------------------------------
(***************************************************************************)
(* The hello exchange of landro-quic: QuicClient::connect_with_retry       *)
(* (client.rs) against the accept loop of QuicServer (server.rs), with the *)
(* handshakes of connection.rs.                                            *)
(*                                                                         *)
(* The server handles one handshake at a time, in its accept loop; each    *)
(* side gives up after ten seconds.  A hello that does not validate fails  *)
(* the handshake like one that does not come.  Handshake errors have their *)
(* own kind, so that only the end of the endpoint ends the loop.           *)
(***************************************************************************)
EXTENDS Naturals, Sequences

CONSTANTS
    Dialers,        \* clients
    MaxDials        \* max_attempts

ASSUME HandshakeAssumption == MaxDials \in Nat \ {0}

VARIABLES
    dial,        \* each client: [at, n], n its attempt
    incoming,    \* connections the endpoint has not handed out
    accepting,   \* the accept loop: [at, of], of the connection at hand
    hello,       \* connection -> the sides whose hello was sent
    shutLinks,   \* connections that are closed
    remote_id,   \* connections whose peer the server knows
    connections  \* the list of the server

kvars == <<dial, incoming, accepting, hello, shutLinks, remote_id, connections>>

LinkIds == Dialers \X (1..MaxDials)
LinkOf(c) == <<c, dial[c].n>>
Accept == [at |-> "accept", of |-> <<>>]

HandshakeInit ==
    /\ dial = [c \in Dialers |-> [at |-> "idle", n |-> 0]]
    /\ incoming = <<>>
    /\ accepting = Accept
    /\ hello = [l \in LinkIds |-> {}]
    /\ shutLinks = {} /\ remote_id = {} /\ connections = {}

DialAt(c, at) == dial' = [dial EXCEPT ![c].at = at]
close(l) == shutLinks' = shutLinks \cup {l}

-----------------------------------------------------------------------------
(* The client. *)
connect_addr(c) ==
    /\ dial[c].at \in {"idle", "failed"} /\ dial[c].n < MaxDials
    /\ accepting.at # "stopped"
    /\ dial' = [dial EXCEPT ![c] = [at |-> "connecting", n |-> dial[c].n + 1]]
    /\ incoming' = Append(incoming, <<c, dial[c].n + 1>>)
    /\ UNCHANGED <<accepting, hello, shutLinks, remote_id, connections>>

send_hello(c) ==
    /\ dial[c].at = "established" /\ LinkOf(c) \notin shutLinks
    /\ hello' = [hello EXCEPT ![LinkOf(c)] = @ \cup {"client"}]
    /\ DialAt(c, "waiting")
    /\ UNCHANGED <<incoming, accepting, shutLinks, remote_id, connections>>

receive_hello(c) ==
    /\ dial[c].at = "waiting" /\ "server" \in hello[LinkOf(c)] /\ LinkOf(c) \notin shutLinks
    /\ DialAt(c, "ok")
    /\ UNCHANGED <<incoming, accepting, hello, shutLinks, remote_id, connections>>

RetryWithoutClose(c) ==
    /\ dial[c].at \in {"connecting", "established", "waiting"}
    /\ DialAt(c, "failed")
    /\ UNCHANGED <<incoming, accepting, hello, shutLinks, remote_id, connections>>

(* Timeout, a closed connection or a hello that does not validate. *)
ClientFails(c) ==
    /\ dial[c].at \in {"connecting", "established", "waiting"}
    /\ DialAt(c, "failed")
    /\ close(LinkOf(c))
    /\ UNCHANGED <<incoming, accepting, hello, remote_id, connections>>

ClientCloses(c) ==
    /\ dial[c].at = "ok" /\ LinkOf(c) \notin shutLinks
    /\ close(LinkOf(c))
    /\ UNCHANGED <<dial, incoming, accepting, hello, remote_id, connections>>

-----------------------------------------------------------------------------
(* The server. *)
accept ==
    /\ accepting.at = "accept" /\ incoming # <<>>
    /\ incoming' = Tail(incoming)
    /\ IF Head(incoming) \in shutLinks THEN UNCHANGED <<accepting, dial>>
       ELSE /\ accepting' = [at |-> "receive", of |-> Head(incoming)]
            /\ DialAt(Head(incoming)[1], "established")
    /\ UNCHANGED <<hello, shutLinks, remote_id, connections>>

ServerReceives ==
    /\ accepting.at = "receive" /\ "client" \in hello[accepting.of]
    /\ remote_id' = remote_id \cup {accepting.of}
    /\ accepting' = [accepting EXCEPT !.at = "send"]
    /\ UNCHANGED <<dial, incoming, hello, shutLinks, connections>>

(* The hello is sent; then the connection is listed. *)
ServerSends ==
    /\ accepting.at = "send" /\ accepting.of \notin shutLinks
    /\ hello' = [hello EXCEPT ![accepting.of] = @ \cup {"server"}]
    /\ accepting' = [accepting EXCEPT !.at = "store"]
    /\ UNCHANGED <<dial, incoming, shutLinks, remote_id, connections>>

StoreConnection ==
    /\ accepting.at = "store"
    /\ connections' = connections \cup {accepting.of}
    /\ accepting' = Accept
    /\ UNCHANGED <<dial, incoming, hello, shutLinks, remote_id>>

ServerFails ==
    /\ accepting.at \in {"receive", "send"}
    /\ close(accepting.of)
    /\ accepting' = Accept
    /\ UNCHANGED <<dial, incoming, hello, remote_id, connections>>

(* The task of each connection looks every second. *)
RemoveConnection(l) ==
    /\ l \in connections /\ l \in shutLinks
    /\ connections' = connections \ {l}
    /\ UNCHANGED <<dial, incoming, accepting, hello, shutLinks, remote_id>>

(* The endpoint closes with its connections, and accept returns the error  *)
(* that ends run.                                                          *)
stop ==
    /\ accepting.at # "stopped"
    /\ accepting' = [at |-> "stopped", of |-> <<>>]
    /\ incoming' = <<>>
    /\ shutLinks' = LinkIds
    /\ UNCHANGED <<dial, hello, remote_id, connections>>

HandshakeNext ==
    \/ \E c \in Dialers :
        \/ connect_addr(c) \/ send_hello(c) \/ receive_hello(c) \/ ClientFails(c) \/ ClientCloses(c)
    \/ accept \/ ServerReceives \/ ServerSends \/ StoreConnection \/ ServerFails \/ stop
    \/ \E l \in LinkIds : RemoveConnection(l)

-----------------------------------------------------------------------------
(* Whatever times out on either side: a client whose connection works was  *)
(* understood by the server, which has listed the connection or is about   *)
(* to; and an open connection in the list belongs to the latest attempt of *)
(* a client that has not given up on it, so that retries never leave two.  *)
HandshakeAgrees ==
    /\ \A c \in Dialers : dial[c].at = "ok" /\ LinkOf(c) \notin shutLinks =>
        /\ LinkOf(c) \in remote_id
        /\ LinkOf(c) \in connections \/ accepting = [at |-> "store", of |-> LinkOf(c)]
    /\ \A l \in connections \ shutLinks : l = LinkOf(l[1]) /\ dial[l[1]].at \in {"waiting", "ok"}
=============================================================================
