----------------------------- MODULE Discovery -----------------------------
(***************************************************************************)
(* The mDNS discovery service (landro-daemon, discovery.rs).               *)
(*                                                                         *)
(* A daemon makes one DiscoveryService at every start; they are numbered   *)
(* by the start.  The service registers itself, browses, and spawns the    *)
(* task that applies resolved services to the map of peers.  stop aborts   *)
(* that task, but a task that runs on another thread ends only where it    *)
(* has to wait: as long as events are queued and the map is free, it goes  *)
(* on to apply them, before and after stop clears the map.                 *)
(*                                                                         *)
(* Left out: names, addresses and capabilities of peers; the interface     *)
(* nobody calls (get_peer, update_peer, remove_peer, re_announce).  A peer *)
(* that leaves the network is not removed: the handler of ServiceRemoved   *)
(* retains every peer.                                                     *)
(***************************************************************************)
EXTENDS Naturals, FiniteSets

CONSTANTS
    MaxStarts,      \* starts of the daemon
    Neighbours,     \* device identifiers seen on the network
    Self,           \* the identifier of this device
    NoEvent         \* the event processor waits

ASSUME DiscoveryAssumption ==
    /\ MaxStarts \in Nat \ {0}
    /\ Self \notin Neighbours
    /\ NoEvent \notin Neighbours \cup {Self}

VARIABLE
    service         \* start -> the service made by it

Starts == 1..MaxStarts

NoPeers == [n \in Neighbours |-> "unknown"]

NewService ==
    [flag |-> FALSE, registered |-> FALSE, browser |-> "none",
     event |-> NoEvent, peers |-> NoPeers,
     outlived |-> FALSE]    \* history: the task was still at work when stop cleared the map

DiscoveryInit == service = [g \in Starts |-> NewService]

----------------------------------------------------------------------------
(* start_advertising: register, browse, spawn the event processor, set the *)
(* flag.  A failure of browse leaves the registration.                     *)

start_advertising(g, outcome) ==
    /\ ~ service[g].flag
    /\ service' = [service EXCEPT ![g] =
           CASE outcome = "register fails" -> @
             [] outcome = "browse fails" -> [@ EXCEPT !.registered = TRUE]
             [] outcome = "starts" ->
                    [@ EXCEPT !.flag = TRUE, !.registered = TRUE,
                              !.browser = "waits"]]

(* The event processor.  It skips this device's own service, and the other *)
(* events change nothing.  After the abort it is "aborted" with an event   *)
(* in hand and "overruns" between two events.                              *)

AtWork == {"aborted", "overruns"}

ServiceResolved(g, n) ==
    /\ service[g].browser \in {"waits", "overruns"}
    /\ service' = [service EXCEPT
           ![g].browser = IF @ = "waits" THEN "applies" ELSE "aborted",
           ![g].event = n]

InsertPeer(g) ==
    /\ service[g].browser \in {"applies", "aborted"}
    /\ service' = [service EXCEPT
           ![g].browser = IF @ = "applies" THEN "waits" ELSE "overruns",
           ![g].event = NoEvent,
           ![g].peers = [n \in Neighbours |->
               IF n = service[g].event THEN "fresh" ELSE @[n]]]

(* The abort reaches the task where it waits, for the map or for an event. *)
EventDropped(g) ==
    /\ service[g].browser \in AtWork
    /\ service' = [service EXCEPT ![g].browser = "ended", ![g].event = NoEvent]

(* Five minutes pass without an answer of a peer. *)
NotSeenLately(g, n) ==
    /\ service[g].peers[n] = "fresh"
    /\ service' = [service EXCEPT ![g].peers[n] = "old"]

(* browse_peers drops the peers not seen lately. *)
browse_peers(g) ==
    service' = [service EXCEPT ![g].peers = [n \in Neighbours |->
                    IF @[n] = "old" THEN "unknown" ELSE @[n]]]

----------------------------------------------------------------------------
(* stop, while the caller holds the service's mutex: the flag, the abort,  *)
(* then the shutdown of the mDNS daemon, which may fail and leave the flag *)
(* and the peers.                                                          *)

AbortTask(g) ==
    service' = [service EXCEPT ![g].browser =
                    CASE @ = "waits" -> "ended"
                      [] @ = "applies" -> "aborted"
                      [] OTHER -> @]

Shutdown(g, succeeds) ==
    service' = IF succeeds
               THEN [service EXCEPT ![g].peers = NoPeers, ![g].flag = FALSE,
                                    ![g].registered = FALSE,
                                    ![g].outlived = service[g].browser \in AtWork]
               ELSE service

Known(g) == {n \in Neighbours : service[g].peers[n] # "unknown"}

=============================================================================
