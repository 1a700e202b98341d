--------------------------- MODULE Liveness_proofs --------------------------
(***************************************************************************)
(* Theorems about the two parts whose tasks must not meet in the wrong     *)
(* place: the reconnection manager, for any peers, tasks, reporters and    *)
(* limits; and the session, for any callers and chunks, any content of the *)
(* store and any limits.  Liveness itself is checked by TLC only.          *)
(***************************************************************************)
EXTENDS Reconnection, SyncSession, TLAPS

(***************************************************************************)
(* The reconnection manager.                                               *)
(***************************************************************************)
(* The types the argument needs: every variable but the counters. *)
ReconnectionTypes ==
    /\ active \in [Peers -> Tasks \cup {None}]
    /\ writer \in Reporters \cup {None}
    /\ rpc \in [Reporters -> {"idle", "look", "spawn", "insert"}]
    /\ rpeer \in [Reporters -> Peers] /\ rtask \in [Reporters -> Tasks \cup {None}]
    /\ pc \in [Tasks -> {"free", "check", "attempt", "connect", "pool",
                         "sleep", "remove"}]
    /\ peer \in [Tasks -> Peers] /\ doomed \in [Tasks -> BOOLEAN]

(* A report in progress holds the write lock of peer_states. *)
LockHeld == \A r \in Reporters : rpc[r] # "idle" => writer = r

(* A task that is spawned and not yet registered waits for that lock, and
   nothing can have aborted it. *)
Inserting ==
    \A r \in Reporters : rpc[r] = "insert" =>
        /\ rtask[r] \in Tasks /\ pc[rtask[r]] = "check" /\ ~doomed[rtask[r]]
        /\ peer[rtask[r]] = rpeer[r]
        /\ \A p \in Peers : active[p] # rtask[r]

EntryInv == ReconnectionTypes /\ LockHeld /\ Inserting /\ NoStaleEntry

LEMMA EntryInit == Init => EntryInv
BY ReconnectionAssumption
   DEF Init, EntryInv, ReconnectionTypes, LockHeld, Inserting, NoStaleEntry

(* The tasks' steps other than the last leave every task's identity alone. *)
LEMMA EntryTaskMoves ==
    ASSUME EntryInv, NEW t \in Tasks,
           NEW dest \in {"check", "attempt", "connect", "pool", "sleep", "remove"},
           pc[t] # "free", pc[t] = "check" => writer = None,
           Goto(t, dest), UNCHANGED <<active, reporter, peer, doomed>>
    PROVE  EntryInv'
<1> USE ReconnectionAssumption
<1>1. ReconnectionTypes'
  BY DEF EntryInv, ReconnectionTypes, Goto, reporter
<1>2. LockHeld'
  BY DEF EntryInv, LockHeld, reporter
<1>3. Inserting'
  BY DEF EntryInv, ReconnectionTypes, LockHeld, Inserting, Goto, reporter
<1>4. NoStaleEntry'
  BY DEF EntryInv, ReconnectionTypes, NoStaleEntry, Live, Goto
<1> QED BY <1>1, <1>2, <1>3, <1>4 DEF EntryInv

LEMMA EntryReports ==
    ASSUME EntryInv, NEW r \in Reporters,
           ReportStep(r) \/ \E p \in Peers : Report(r, p)
    PROVE  EntryInv'
<1> USE ReconnectionAssumption DEF EntryInv, ReconnectionTypes, reporter, task
<1>1. CASE \E p \in Peers : Report(r, p)
  BY <1>1 DEF Report, LockHeld, Inserting, NoStaleEntry, Live
<1>2. CASE Look(r)
  BY <1>2 DEF Look, LockHeld, Inserting, NoStaleEntry, Live
<1>3. CASE Spawn(r)
  <2> PICK t \in Tasks :
         /\ pc[t] = "free" /\ pc' = [pc EXCEPT ![t] = "check"]
         /\ peer' = [peer EXCEPT ![t] = rpeer[r]]
         /\ doomed' = [doomed EXCEPT ![t] = FALSE]
         /\ rtask' = [rtask EXCEPT ![r] = t]
    BY <1>3 DEF Spawn
  <2>1. \A p \in Peers : active[p] # t
    BY DEF NoStaleEntry, Live
  <2>2. ReconnectionTypes' /\ LockHeld'
    BY <1>3 DEF Spawn, LockHeld
  <2>3. Inserting'
    BY <1>3, <2>1 DEF Spawn, LockHeld, Inserting
  <2>4. NoStaleEntry'
    BY <1>3, <2>1 DEF Spawn, NoStaleEntry, Live
  <2> QED BY <2>2, <2>3, <2>4
<1>4. CASE Insert(r)
  <2>1. ReconnectionTypes' /\ LockHeld'
    BY <1>4 DEF Insert, LockHeld, Inserting
  <2>2. Inserting'
    BY <1>4 DEF Insert, LockHeld, Inserting
  <2>3. NoStaleEntry'
    BY <1>4 DEF Insert, Inserting, NoStaleEntry, Live
  <2> QED BY <2>1, <2>2, <2>3
<1> QED BY <1>1, <1>2, <1>3, <1>4 DEF ReportStep

LEMMA EntryTasks ==
    ASSUME EntryInv, NEW t \in Tasks, TaskStep(t) PROVE EntryInv'
<1>1. CASE Check(t)
  BY <1>1, EntryTaskMoves DEF Check
<1>2. CASE Attempt(t)
  BY <1>2, EntryTaskMoves DEF Attempt
<1>3. CASE Connected(t)
  BY <1>3, EntryTaskMoves DEF Connected
<1>4. CASE Refused(t)
  BY <1>4, EntryTaskMoves DEF Refused
<1>5. CASE TimedOut(t)
  BY <1>5, EntryTaskMoves DEF TimedOut
<1>6. CASE AddToPool(t)
  BY <1>6, EntryTaskMoves DEF AddToPool
<1>7. CASE Sleep(t)
  BY <1>7, EntryTaskMoves DEF Sleep
<1>8. CASE RemoveEntry(t)
  <2> USE <1>8, ReconnectionAssumption DEF RemoveEntry, Goto, EntryInv, ReconnectionTypes, reporter
  <2>1. ReconnectionTypes' /\ LockHeld'
    BY DEF LockHeld
  <2>2. Inserting'
    BY DEF Inserting
  <2>3. NoStaleEntry'
    BY DEF NoStaleEntry, Live
  <2> QED BY <2>1, <2>2, <2>3
<1>9. CASE Dropped(t)
  <2> USE <1>9, ReconnectionAssumption DEF Dropped, Goto, EntryInv, ReconnectionTypes, reporter
  <2>1. ReconnectionTypes' /\ LockHeld'
    BY DEF LockHeld
  <2>2. Inserting'
    BY DEF Inserting
  <2>3. NoStaleEntry'
    BY DEF NoStaleEntry, Live
  <2> QED BY <2>1, <2>2, <2>3
<1> QED BY <1>1, <1>2, <1>3, <1>4, <1>5, <1>6, <1>7, <1>8, <1>9 DEF TaskStep

LEMMA EntryNext == EntryInv /\ [Next]_vars => EntryInv'
<1> SUFFICES ASSUME EntryInv, [Next]_vars PROVE EntryInv'
  OBVIOUS
<1> USE DEF EntryInv, ReconnectionTypes, LockHeld, Inserting, NoStaleEntry, Live, reporter, task
<1>1. ASSUME NEW r \in Reporters, ReportStep(r) \/ \E p \in Peers : Report(r, p)
      PROVE  EntryInv'
  BY <1>1, EntryReports
<1>2. ASSUME NEW t \in Tasks, TaskStep(t) PROVE EntryInv'
  BY <1>2, EntryTasks
<1>3. ASSUME NEW p \in Peers, track_peer(p) \/ TimePasses(p) PROVE EntryInv'
  BY <1>3 DEF track_peer, TimePasses
<1>4. CASE stop
  BY <1>4, ReconnectionAssumption DEF stop
<1>5. CASE UNCHANGED vars
  BY <1>5 DEF vars
<1> QED BY <1>1, <1>2, <1>3, <1>4, <1>5 DEF Next

(* Whatever is reported, stopped and aborted in whatever order, every entry of
   active_reconnections belongs to a task that runs and will remove it: no peer
   is locked out of reconnection for good. *)
THEOREM NoEntryGoesStale == Spec => []NoStaleEntry
<1>1. EntryInv => NoStaleEntry
  BY DEF EntryInv
<1> QED BY <1>1, EntryInit, EntryNext, PTL DEF Spec

-----------------------------------------------------------------------------
(* Until stop() is called, every task is registered or about to be, and a reporter that
   is about to register one found no other. *)
NotDoomed  == \A t \in Tasks : ~doomed[t]
Registered ==
    \A t \in Tasks : pc[t] # "free" =>
        \/ active[peer[t]] = t
        \/ \E r \in Reporters : rpc[r] = "insert" /\ rtask[r] = t
Vacant ==
    \A r \in Reporters : rpc[r] \in {"spawn", "insert"} => active[rpeer[r]] = None

(* The types that hold with and without stop(). *)
Kinds ==
    /\ state \in [Peers -> States] /\ retry_count \in [Peers -> Nat]
    /\ early \in [Peers -> BOOLEAN] /\ stopped \in BOOLEAN

(* A task that decided to try has an attempt left. *)
Counters ==
    /\ \A p \in Peers : retry_count[p] <= MaxAttempts
    /\ \A t \in Tasks : pc[t] = "attempt" => retry_count[peer[t]] < MaxAttempts

Sole == NotDoomed /\ Registered /\ Vacant /\ Counters

SoleInv == EntryInv /\ Kinds /\ (~stopped => Sole)

LEMMA SoleInit == Init => SoleInv
<1> SUFFICES ASSUME Init PROVE SoleInv
  OBVIOUS
<1>1. EntryInv
  BY EntryInit
<1>2. Kinds
  BY DEF Init, Kinds, States
<1>3. Sole
  BY ReconnectionAssumption DEF Init, Sole, NotDoomed, Registered, Vacant, Counters
<1> QED BY <1>1, <1>2, <1>3 DEF SoleInv

LEMMA SoleIsOne == SoleInv => OneTaskPerPeer
<1> SUFFICES ASSUME SoleInv, ~stopped, NEW t \in Tasks, NEW u \in Tasks,
                    Live(t), Live(u), peer[t] = peer[u]
             PROVE  t = u
  BY DEF OneTaskPerPeer
<1> USE ReconnectionAssumption
        DEF SoleInv, Sole, EntryInv, ReconnectionTypes, LockHeld, Inserting, Registered, Vacant, Live
<1>1. CASE active[peer[t]] = t /\ active[peer[u]] = u
  BY <1>1
<1>2. CASE active[peer[t]] = t /\ active[peer[u]] # u
  BY <1>2
<1>3. CASE active[peer[t]] # t /\ active[peer[u]] = u
  BY <1>3
<1>4. CASE active[peer[t]] # t /\ active[peer[u]] # u
  <2>1. PICK r \in Reporters : rpc[r] = "insert" /\ rtask[r] = t
    BY <1>4
  <2>2. PICK q \in Reporters : rpc[q] = "insert" /\ rtask[q] = u
    BY <1>4
  <2>3. r = q
    BY <2>1, <2>2
  <2> QED BY <2>1, <2>2, <2>3
<1> QED BY <1>1, <1>2, <1>3, <1>4

LEMMA SoleStep ==
    ASSUME SoleInv, ~stopped, ~stopped', [Next]_vars PROVE Sole'
<1>0. \A t, u \in Tasks : Live(t) /\ Live(u) /\ peer[t] = peer[u] => t = u
  BY SoleIsOne DEF OneTaskPerPeer
<1> USE ReconnectionAssumption DEF SoleInv, Sole, Kinds, EntryInv, ReconnectionTypes
<1>1. ASSUME NEW r \in Reporters, ReportStep(r) \/ \E p \in Peers : Report(r, p)
      PROVE  Sole'
  <2> USE DEF reporter, task, States
  <2>1. CASE \E p \in Peers : Report(r, p)
    BY <2>1, <1>0 DEF Report, NotDoomed, Registered, Vacant, Counters
  <2>2. CASE Look(r)
    BY <2>2, <1>0 DEF Look, NotDoomed, Registered, Vacant, Counters
  <2>3. CASE Spawn(r)
    <3> PICK t \in Tasks :
           /\ pc[t] = "free" /\ pc' = [pc EXCEPT ![t] = "check"]
           /\ peer' = [peer EXCEPT ![t] = rpeer[r]]
           /\ doomed' = [doomed EXCEPT ![t] = FALSE]
           /\ rtask' = [rtask EXCEPT ![r] = t]
      BY <2>3 DEF Spawn
    <3>1. NotDoomed'
      BY DEF NotDoomed
    <3>2. Registered'
      BY <2>3 DEF Spawn, Registered
    <3>3. Vacant'
      BY <2>3 DEF Spawn, Vacant
    <3>4. Counters'
      BY <2>3 DEF Spawn, Counters
    <3> QED BY <1>0, <3>1, <3>2, <3>3, <3>4
  <2>4. CASE Insert(r)
    <3>1. NotDoomed' /\ Counters'
      BY <2>4 DEF Insert, NotDoomed, Counters
    <3>2. Registered'
      BY <2>4 DEF Insert, Registered, Vacant, Inserting, LockHeld
    <3>3. Vacant'
      BY <2>4 DEF Insert, Vacant, LockHeld
    <3> QED BY <1>0, <3>1, <3>2, <3>3
  <2> QED BY <1>1, <2>1, <2>2, <2>3, <2>4 DEF ReportStep
<1>2. ASSUME NEW t \in Tasks, TaskStep(t) PROVE Sole'
  <2> USE DEF reporter, States, Goto, NotDoomed, Registered, Vacant
  <2>1. CASE Check(t)
    BY <2>1, <1>0 DEF Check, Counters, is_ready_for_retry
  <2>2. CASE Attempt(t)
    <3>1. \A u \in Tasks : u # t /\ pc[u] # "free" => peer[u] # peer[t]
      BY <2>2, <1>0 DEF Live, Attempt
    <3>2. Counters'
      BY <2>2, <3>1 DEF Attempt, Counters
    <3> QED BY <2>2, <1>0, <3>2 DEF Attempt
  <2>3. CASE Connected(t)
    BY <2>3, <1>0 DEF Connected, Counters
  <2>4. CASE Refused(t)
    BY <2>4, <1>0 DEF Refused, Counters
  <2>5. CASE TimedOut(t)
    BY <2>5, <1>0 DEF TimedOut, Counters
  <2>6. CASE AddToPool(t)
    BY <2>6, <1>0 DEF AddToPool, Counters
  <2>7. CASE Sleep(t)
    BY <2>7, <1>0 DEF Sleep, Counters
  <2>8. CASE RemoveEntry(t)
    <3>1. \A u \in Tasks : u # t /\ pc[u] # "free" => peer[u] # peer[t]
      BY <2>8, <1>0 DEF Live, RemoveEntry
    <3> QED BY <2>8, <1>0, <3>1 DEF RemoveEntry, Counters
  <2>9. CASE Dropped(t)
    BY <2>9 DEF Dropped
  <2> QED BY <1>2, <2>1, <2>2, <2>3, <2>4, <2>5, <2>6, <2>7, <2>8, <2>9
         DEF TaskStep
<1>3. ASSUME NEW p \in Peers, track_peer(p) \/ TimePasses(p) PROVE Sole'
  <2>1. UNCHANGED <<active, reporter, task>>
    BY <1>3 DEF track_peer, TimePasses
  <2>2. NotDoomed' /\ Registered' /\ Vacant'
    BY <2>1 DEF reporter, task, NotDoomed, Registered, Vacant
  <2>3. Counters'
    <3>1. CASE track_peer(p)
      BY <3>1 DEF track_peer, task, Counters, States
    <3>2. CASE TimePasses(p)
      BY <3>2 DEF TimePasses, task, Counters
    <3> QED BY <1>3, <3>1, <3>2
  <2> QED BY <1>0, <2>2, <2>3
<1>4. CASE UNCHANGED vars
  BY <1>0, <1>4 DEF vars, reporter, task, NotDoomed, Registered, Vacant, Counters
<1>5. ~stop
  BY DEF stop
<1> QED BY <1>1, <1>2, <1>3, <1>4, <1>5 DEF Next

LEMMA SoleNext == SoleInv /\ [Next]_vars => SoleInv'
<1> SUFFICES ASSUME SoleInv, [Next]_vars PROVE SoleInv'
  OBVIOUS
<1>1. EntryInv'
  BY EntryNext DEF SoleInv
<1>2. Kinds' /\ (stopped => stopped')
  <2> USE DEF SoleInv, EntryInv, ReconnectionTypes, Kinds, States
  <2>1. ASSUME NEW r \in Reporters, ReportStep(r) \/ \E p \in Peers : Report(r, p)
        PROVE  Kinds' /\ stopped' = stopped
    <3>1. CASE \E p \in Peers : Report(r, p)
      BY <3>1 DEF Report
    <3>2. CASE ReportStep(r)
      <4>1. UNCHANGED <<state, retry_count, early, stopped>>
        BY <3>2 DEF ReportStep, Look, Spawn, Insert
      <4> QED BY <4>1
    <3> QED BY <2>1, <3>1, <3>2
  <2>2. ASSUME NEW t \in Tasks, TaskStep(t) PROVE Kinds' /\ stopped' = stopped
    <3>1. CASE Check(t) \/ AddToPool(t) \/ RemoveEntry(t) \/ Dropped(t)
      <4>1. UNCHANGED <<state, retry_count, early, stopped>>
        BY <3>1 DEF Check, AddToPool, RemoveEntry, Dropped
      <4> QED BY <4>1
    <3>2. CASE Attempt(t)
      BY <3>2 DEF Attempt
    <3>3. CASE Connected(t)
      BY <3>3 DEF Connected
    <3>4. CASE Refused(t)
      BY <3>4 DEF Refused
    <3>5. CASE TimedOut(t) \/ Sleep(t)
      BY <3>5 DEF TimedOut, Sleep
    <3> QED BY <2>2, <3>1, <3>2, <3>3, <3>4, <3>5 DEF TaskStep
  <2>3. ASSUME NEW p \in Peers, track_peer(p) \/ TimePasses(p)
        PROVE  Kinds' /\ stopped' = stopped
    <3>1. CASE track_peer(p)
      BY <3>1 DEF track_peer
    <3>2. CASE TimePasses(p)
      BY <3>2 DEF TimePasses
    <3> QED BY <2>3, <3>1, <3>2
  <2>4. CASE stop
    BY <2>4 DEF stop
  <2>5. CASE UNCHANGED vars
    BY <2>5 DEF vars
  <2> QED BY <2>1, <2>2, <2>3, <2>4, <2>5 DEF Next
<1>3. ~stopped' => Sole'
  BY <1>2, SoleStep DEF SoleInv
<1> QED BY <1>1, <1>2, <1>3 DEF SoleInv

(* As long as the manager is not stopped, a peer never has two reconnection
   tasks, for any number of concurrent reports. *)
THEOREM AtMostOneTask == Spec => []OneTaskPerPeer
<1> QED BY SoleInit, SoleNext, SoleIsOne, PTL DEF Spec

(* The state keeps its types; above all, as long as the manager is not stopped
   retry_count never exceeds max_retry_attempts, although it is tested and
   incremented under different locks. *)
THEOREM AttemptsAreBounded == Spec => []TypeOK
<1>1. SoleInv => TypeOK
  BY DEF SoleInv, Sole, Kinds, EntryInv, ReconnectionTypes, Counters, TypeOK
<1> QED BY <1>1, SoleInit, SoleNext, PTL DEF Spec

(* The table and the tasks agree for any peers, tasks and reporters: an entry
   belongs to a running task for its peer, and while the manager runs a peer has
   no second one. *)
THEOREM TableAgrees == Spec => []OneLiveTask
<1>1. OneTaskPerPeer /\ NoStaleEntry => OneLiveTask
  BY DEF OneLiveTask
<1> QED BY <1>1, NoEntryGoesStale, AtMostOneTask, PTL

(***************************************************************************)
(* The session.                                                            *)
(***************************************************************************)
(* What keeps two Wants apart: whoever is in the loop owns the stats lock,  *)
(* a chunk is in as many replies as it is times marked, and a caller about  *)
(* to load a chunk still finds it unmarked.                                *)
InLoop == {"want", "want_load"}

SendInv ==
    /\ statsLock \in Callers \cup {NoCaller}
    /\ step \in [Callers -> Steps]
    /\ DOMAIN todo = Callers
    /\ replies \in [Chunks -> Nat]
    /\ sent \subseteq Chunks /\ cas \subseteq Chunks
    /\ \A c \in Callers : step[c] \in InLoop <=> statsLock = c
    /\ \A k \in Chunks : replies[k] = IF k \in sent THEN 1 ELSE 0
    /\ \A c \in Callers : step[c] = "want_load" => Head(todo[c]) \notin sent

LEMMA SendInit == SessionInit => SendInv
  BY SessionAssumption DEF SessionInit, SendInv, Steps, InLoop

(* Handlers under the write lock do not touch what SendInv is about, but    *)
(* for chunks that join the content store.                                 *)
LEMMA SendHandlers ==
  ASSUME SendInv,
         \/ handle_hello \/ handle_folder_summary \/ handle_error
         \/ \E m \in Manifests : handle_manifest(m)
         \/ \E hash, data \in Chunks : handle_chunk_data(hash, data)
  PROVE  SendInv'
  <1>1. UNCHANGED <<statsLock, step, todo, replies, sent>>
    BY DEF handle_hello, handle_folder_summary, handle_error, handle_manifest,
           handle_chunk_data, StoreChunk, call
  <1>2. cas' \subseteq Chunks
    BY DEF SendInv, handle_hello, handle_folder_summary, handle_error,
           handle_manifest, handle_chunk_data, StoreChunk
  <1>3. QED
    BY <1>1, <1>2 DEF SendInv

LEMMA SendWant ==
  ASSUME SendInv, NEW c \in Callers,
         \/ want_lock(c) \/ want_check(c) \/ want_load(c) \/ want_return(c)
         \/ \E hashes \in SeqOf(Chunks, MaxWanted) : want_begin(c, hashes)
  PROVE  SendInv'
  <1> USE SessionAssumption DEF SendInv, InLoop, Steps
  <1>1. CASE \E hashes \in SeqOf(Chunks, MaxWanted) : want_begin(c, hashes)
    BY <1>1 DEF want_begin, session
  <1>2. CASE want_lock(c)
    BY <1>2 DEF want_lock, session
  <1>3. CASE want_check(c)
    BY <1>3 DEF want_check, session
  <1>4. CASE want_load(c)
    <2> DEFINE k == Head(todo[c])
    <2>1. CASE k \in cas
      <3>1. k \in Chunks /\ k \notin sent
        BY <1>4, <2>1 DEF want_load, load_chunk
      <3>2. /\ replies' = [replies EXCEPT ![k] = 1]
            /\ sent' = sent \cup {k}
            /\ UNCHANGED <<cas, statsLock>>
            /\ todo' = [todo EXCEPT ![c] = Tail(@)]
            /\ step' = [step EXCEPT ![c] = "want"]
        BY <1>4, <2>1, <3>1 DEF want_load, load_chunk, session
      <3>3. \A d \in Callers : d # c => step'[d] \notin InLoop
        BY <1>4, <3>2 DEF want_load, load_chunk
      <3> HIDE DEF k
      <3>4. QED
        BY <1>4, <3>1, <3>2, <3>3 DEF want_load, load_chunk
    <2>2. CASE k \notin cas
      BY <1>4, <2>2 DEF want_load, load_chunk, session
    <2>3. QED
      BY <2>1, <2>2
  <1>5. CASE want_return(c)
    BY <1>5 DEF want_return, session
  <1>6. QED
    BY <1>1, <1>2, <1>3, <1>4, <1>5

LEMMA SendAck ==
  ASSUME SendInv, NEW c \in Callers,
         ack_begin(c) \/ verify_transfer(c) \/ ack_write(c) \/ update_peer_state(c)
  PROVE  SendInv'
  BY DEF SendInv, InLoop, Steps, ack_begin, verify_transfer, ack_write,
         update_peer_state, session, locals

LEMMA SendStep == SendInv /\ [SessionNext]_sessionvars => SendInv'
  <1> SUFFICES ASSUME SendInv, [SessionNext]_sessionvars PROVE SendInv'
    OBVIOUS
  <1>1. CASE UNCHANGED sessionvars
    BY <1>1 DEF sessionvars, SendInv
  <1>2. CASE SessionNext
    BY <1>2, SendHandlers, SendWant, SendAck DEF SessionNext, CallStep
  <1>3. QED
    BY <1>1, <1>2

(* handle_want sends a chunk at most once in a session, however many tasks *)
(* handle Wants at the same time.                                          *)
THEOREM NoChunkTwice == SessionSpec => []SentOnce
  <1>1. SendInv => SentOnce
    BY DEF SendInv, SentOnce
  <1>2. QED
    BY SendInit, SendStep, <1>1, PTL DEF SessionSpec
-----------------------------------------------------------------------------
(* A session that has got to Verifying, or an acknowledgement that has read *)
(* that it had, has received a chunk.  Chunks are never taken back.        *)
ReceivedInv ==
    /\ step \in [Callers -> Steps]
    /\ received \subseteq cas
    /\ phase = "Verifying" => received # {}
    /\ \A c \in Callers :
          step[c] \in {"ack_verify", "ack_complete", "ack_fail", "ack_record"}
            => received # {}
    /\ recorded => received # {}

LEMMA ReceivedInit == SessionInit => ReceivedInv
  BY DEF SessionInit, ReceivedInv, Steps

LEMMA ReceivedStep == ReceivedInv /\ [SessionNext]_sessionvars => ReceivedInv'
  <1> SUFFICES ASSUME ReceivedInv, [SessionNext]_sessionvars PROVE ReceivedInv'
    OBVIOUS
  <1> USE DEF ReceivedInv, Steps, session, locals, call
  <1>1. CASE handle_hello \/ handle_folder_summary \/ handle_error
    BY <1>1 DEF handle_hello, handle_folder_summary, handle_error
  <1>2. CASE \E m \in Manifests : handle_manifest(m)
    BY <1>2 DEF handle_manifest
  <1>3. ASSUME NEW hash \in Chunks, NEW data \in Chunks, handle_chunk_data(hash, data)
        PROVE  ReceivedInv'
    BY <1>3 DEF handle_chunk_data, StoreChunk
  <1>4. ASSUME NEW c \in Callers,
               NEW hashes \in SeqOf(Chunks, MaxWanted), want_begin(c, hashes)
        PROVE  ReceivedInv'
    BY <1>4 DEF want_begin
  <1>5. ASSUME NEW c \in Callers,
               want_lock(c) \/ want_check(c) \/ want_load(c) \/ want_return(c)
        PROVE  ReceivedInv'
    BY <1>5 DEF want_lock, want_check, want_load, want_return
  <1>6. ASSUME NEW c \in Callers, ack_begin(c) \/ verify_transfer(c) \/ ack_write(c)
        PROVE  ReceivedInv'
    BY <1>6 DEF ack_begin, verify_transfer, ack_write
  <1>7. ASSUME NEW c \in Callers, update_peer_state(c)
        PROVE  ReceivedInv'
    BY <1>7 DEF update_peer_state
  <1>8. CASE UNCHANGED sessionvars
    BY <1>8 DEF sessionvars
  <1>9. QED
    BY <1>1, <1>2, <1>3, <1>4, <1>5, <1>6, <1>7, <1>8 DEF SessionNext, CallStep

(* Every chunk handle_chunk_data counted as received is in the store.      *)
THEOREM ReceivedAreStored == SessionSpec => []ReceivedIsStored
  <1>1. ReceivedInv => ReceivedIsStored
    BY DEF ReceivedInv, ReceivedIsStored
  <1>2. QED
    BY ReceivedInit, ReceivedStep, <1>1, PTL DEF SessionSpec

(* update_peer_state records a completed synchronisation only for sessions *)
(* that received something.                                                *)
THEOREM NothingRecordedUnreceived == SessionSpec => []RecordedWasReceived
  <1>1. ReceivedInv => RecordedWasReceived
    BY DEF ReceivedInv, RecordedWasReceived
  <1>2. QED
    BY ReceivedInit, ReceivedStep, <1>1, PTL DEF SessionSpec

(* Only an acknowledgement that read the state before the error takes a    *)
(* session out of Failed.                                                  *)
THEOREM FailedButForLateAcks == SessionSpec => OnlyLateAckRevives
  <1>1. ASSUME [SessionNext]_sessionvars, phase = "Failed", phase' # "Failed"
        PROVE  \E c \in Callers : step[c] = "ack_complete"
    <2>1. ~UNCHANGED sessionvars
      BY <1>1 DEF sessionvars
    <2>2. \E c \in Callers : ack_write(c)
      BY <1>1, <2>1 DEF SessionNext, CallStep, handle_hello, handle_folder_summary,
         handle_error, handle_manifest, handle_chunk_data, StoreChunk, want_begin,
         want_lock, want_check, want_load, want_return, ack_begin, verify_transfer,
         update_peer_state
    <2>3. QED
      BY <1>1, <2>2 DEF ack_write
  <1>2. QED
    BY <1>1, PTL DEF SessionSpec, OnlyLateAckRevives

(* What a session counts as received is stored, and what the database records
   was received, whatever the tasks that handle its messages do. *)
THEOREM ReceiptsHold == SessionSpec => []ReceiptsAreReal
<1>1. ReceivedIsStored /\ RecordedWasReceived => ReceiptsAreReal
  BY DEF ReceiptsAreReal
<1>2. QED
  BY <1>1, ReceivedAreStored, NothingRecordedUnreceived, PTL
=============================================================================
