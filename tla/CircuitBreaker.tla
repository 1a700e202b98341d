--------------------------- MODULE CircuitBreaker ---------------------------
(***************************************************************************)
(* landro-quic/src/recovery.rs: the circuit breaker of one address, shared *)
(* by the retrying calls of RecoveryClient, and ConnectionHealthMonitor.   *)
(*                                                                         *)
(* connect_with_recovery asks the breaker once, before its first attempt;  *)
(* with_retry never asks.  Both record the result of every attempt, under  *)
(* the lock, some time after the attempt.                                  *)
(***************************************************************************)
EXTENDS Naturals

CONSTANTS
    Requesters,         \* concurrent calls
    FailureThreshold, SuccessThreshold, \* 3 and 2 in connect_with_recovery
    MaxTries,           \* RetryPolicy::max_attempts
    Links,              \* connections the monitor may watch under one id
    MaxPingFailures,    \* 3 in ping_connection
    NoBreaker, NoLink

(* The delays of a policy are left out. *)
RetryPolicy == MaxTries \in Nat \ {0}

(* A breaker, and an entry of the monitor. *)
Breakers == [state : {"Closed", "Open", "HalfOpen"}, failures : Nat, successes : Nat,
             expired : BOOLEAN]
Watches == [link : Links, failures : Nat]

ASSUME BreakerAssumption ==
    /\ FailureThreshold \in Nat \ {0} /\ SuccessThreshold \in Nat \ {0}
    /\ RetryPolicy /\ MaxPingFailures \in Nat \ {0}
    /\ NoBreaker \notin Breakers /\ NoLink \notin Links /\ NoLink \notin Watches

VARIABLES
    breaker,    \* circuit_breakers[addr]: [state, failures, successes, expired]
    request,    \* each call: [pc, tries]
    streak,     \* observation: results since the last change, [failed, count]
    watched,    \* the monitor's entry: [link, failures]
    ping,       \* the link being pinged
    shut,       \* links that are closed
    hurt,       \* observation: failed pings of each link since it was watched
    swapped,    \* observation: the entry was replaced while a ping was under way
    dropped     \* observation: the link removed last was open and had not failed often

bvars == <<breaker, request, streak, watched, ping, shut, hurt, swapped, dropped>>
monitor == <<watched, ping, shut, hurt, swapped, dropped>>
client == <<breaker, request, streak>>

NewBreaker == [state |-> "Closed", failures |-> 0, successes |-> 0, expired |-> FALSE]
NoStreak == [failed |-> FALSE, count |-> 0]

BreakerInit ==
    /\ breaker = NoBreaker
    /\ request = [r \in Requesters |-> [pc |-> "idle", tries |-> 0]]
    /\ streak = NoStreak
    /\ watched = NoLink /\ ping = NoLink
    /\ shut = {} /\ hurt = [l \in Links |-> 0] /\ swapped = FALSE /\ dropped = FALSE

-----------------------------------------------------------------------------
(* The breaker: what each operation makes of it. *)
allow_request(b) == b.state # "Open" \/ b.expired
Admitted(b) == IF b.state = "Open" THEN [b EXCEPT !.state = "HalfOpen", !.successes = 0] ELSE b

record_success(b) ==
    CASE b.state = "Closed" -> [b EXCEPT !.failures = 0]
      [] b.state = "HalfOpen" /\ b.successes + 1 < SuccessThreshold -> [b EXCEPT !.successes = @ + 1]
      [] OTHER -> NewBreaker

HalfOpenStays(b) ==
    LET late == [b EXCEPT !.expired = FALSE]
    IN IF b.state = "Closed" /\ b.failures + 1 >= FailureThreshold
       THEN [late EXCEPT !.failures = @ + 1, !.state = "Open"]
       ELSE IF b.state = "Closed" THEN [late EXCEPT !.failures = @ + 1] ELSE late

record_failure(b) ==
    CASE b.state = "Closed" /\ b.failures + 1 < FailureThreshold ->
           [b EXCEPT !.failures = @ + 1, !.expired = FALSE]
      [] b.state = "Closed" /\ b.failures + 1 >= FailureThreshold ->
           [b EXCEPT !.failures = @ + 1, !.state = "Open", !.expired = FALSE]
      [] b.state = "HalfOpen" -> [b EXCEPT !.state = "Open", !.successes = 0, !.expired = FALSE]
      [] OTHER -> [b EXCEPT !.expired = FALSE]

(* The longest run that any threshold tells apart. *)
Longest == IF FailureThreshold > SuccessThreshold THEN FailureThreshold ELSE SuccessThreshold
Extend(failed) ==
    streak' = IF breaker = NoBreaker THEN NoStreak
              ELSE IF streak.failed # failed THEN [failed |-> failed, count |-> 1]
              ELSE [streak EXCEPT !.count = IF @ < Longest THEN @ + 1 ELSE @]

Record(b) == breaker' = IF breaker = NoBreaker THEN NoBreaker ELSE b

-----------------------------------------------------------------------------
connect_with_recovery(r) ==
    /\ request[r].pc = "idle"
    /\ LET b == IF breaker = NoBreaker THEN NewBreaker ELSE breaker
       IN IF allow_request(b)
          THEN /\ breaker' = Admitted(b)
               /\ request' = [request EXCEPT ![r] = [pc |-> "trying", tries |-> 0]]
          ELSE breaker' = b /\ UNCHANGED request
    /\ UNCHANGED <<streak, monitor>>

with_retry(r) ==
    /\ request[r].pc = "idle"
    /\ request' = [request EXCEPT ![r] = [pc |-> "trying", tries |-> 0]]
    /\ UNCHANGED <<breaker, streak, monitor>>

Succeeds(r) ==
    /\ request[r].pc = "trying"
    /\ Record(record_success(breaker)) /\ Extend(FALSE)
    /\ request' = [request EXCEPT ![r] = [pc |-> "idle", tries |-> 0]]
    /\ UNCHANGED monitor

(* An error that is not recoverable, or the last attempt, ends the call. *)
Fails(r) ==
    /\ request[r].pc = "trying"
    /\ Record(record_failure(breaker)) /\ Extend(TRUE)
    /\ \E recoverable \in BOOLEAN :
        request' = [request EXCEPT ![r] =
            IF recoverable /\ @.tries + 1 < MaxTries THEN [pc |-> "trying", tries |-> @.tries + 1]
            ELSE [pc |-> "idle", tries |-> 0]]
    /\ UNCHANGED monitor

TimeoutPasses ==
    /\ breaker # NoBreaker /\ breaker.state = "Open" /\ ~breaker.expired
    /\ breaker' = [breaker EXCEPT !.expired = TRUE]
    /\ UNCHANGED <<request, streak, monitor>>

reset_circuit_breaker ==
    /\ breaker # NoBreaker
    /\ breaker' = NoBreaker
    /\ streak' = NoStreak
    /\ UNCHANGED <<request, monitor>>

-----------------------------------------------------------------------------
(* The monitor pings the connection it found under the read lock, and      *)
(* changes or removes the entry of the same id under the write lock.       *)
monitor_connection(l) ==
    /\ l \notin shut /\ (watched # NoLink => watched.link # l)
    /\ watched' = [link |-> l, failures |-> 0]
    /\ hurt' = [hurt EXCEPT ![l] = 0]
    /\ swapped' = (ping # NoLink)
    /\ UNCHANGED <<client, ping, shut, dropped>>

unmonitor_connection ==
    /\ watched # NoLink
    /\ watched' = NoLink
    /\ UNCHANGED <<client, ping, shut, hurt, swapped, dropped>>

LinkCloses(l) ==
    /\ l \notin shut
    /\ shut' = shut \cup {l}
    /\ UNCHANGED <<client, watched, ping, hurt, swapped, dropped>>

StartPing ==
    /\ ping = NoLink /\ watched # NoLink
    /\ ping' = watched.link
    /\ swapped' = FALSE
    /\ UNCHANGED <<client, watched, shut, hurt, dropped>>

(* The connection is closed: the entry goes, whichever it is now. *)
RemoveClosed ==
    /\ ping # NoLink /\ ping \in shut
    /\ watched' = NoLink
    /\ dropped' = (watched # NoLink /\ watched.link \notin shut /\ ~swapped)
    /\ ping' = NoLink
    /\ UNCHANGED <<client, shut, hurt, swapped>>

PingSucceeds ==
    /\ ping # NoLink /\ ping \notin shut
    /\ watched' = IF watched = NoLink THEN NoLink ELSE [watched EXCEPT !.failures = 0]
    /\ hurt' = [hurt EXCEPT ![ping] = 0]
    /\ ping' = NoLink
    /\ UNCHANGED <<client, shut, swapped, dropped>>

PingFails ==
    /\ ping # NoLink
    /\ hurt' = [hurt EXCEPT ![ping] = IF @ < MaxPingFailures THEN @ + 1 ELSE @]
    /\ IF watched = NoLink THEN UNCHANGED <<watched, dropped>>
       ELSE IF watched.failures + 1 < MaxPingFailures
       THEN watched' = [watched EXCEPT !.failures = @ + 1] /\ UNCHANGED dropped
       ELSE /\ watched' = NoLink
            /\ dropped' = (hurt'[watched.link] + 1 < MaxPingFailures)
    /\ ping' = NoLink
    /\ UNCHANGED <<client, shut, swapped>>

BreakerNext ==
    \/ \E r \in Requesters :
        connect_with_recovery(r) \/ with_retry(r) \/ Succeeds(r) \/ Fails(r)
    \/ TimeoutPasses \/ reset_circuit_breaker
MonitorNext ==
    \/ \E l \in Links : monitor_connection(l) \/ LinkCloses(l)
    \/ unmonitor_connection \/ StartPing \/ RemoveClosed \/ PingSucceeds \/ PingFails

-----------------------------------------------------------------------------
(* Whatever the order in which concurrent calls record their results: the  *)
(* breaker is closed only while fewer than failure_threshold failures      *)
(* followed the last success, it is open only after a failure, and it is   *)
(* half open with exactly the successes since the last failure.            *)
BreakerSound ==
    breaker # NoBreaker =>
        CASE breaker.state = "Closed" -> ~streak.failed \/ streak.count < FailureThreshold
          [] breaker.state = "Open" -> streak.failed /\ streak.count > 0
          [] OTHER -> /\ breaker.successes < SuccessThreshold
                      /\ breaker.successes = IF streak.failed THEN 0 ELSE streak.count

(* The monitor drops a connection that works only when the entry was       *)
(* replaced during a ping of the old connection, or when one such ping     *)
(* counted as a failure of the new one.                                    *)
DroppedForCause == ~dropped

(* Both judges of a connection, the breaker and the monitor, condemn it    *)
(* only for what happened to it.                                           *)
CondemnedForCause == BreakerSound /\ DroppedForCause
=============================================================================
