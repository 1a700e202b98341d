-------------------------- MODULE SyncState_proofs --------------------------
(***************************************************************************)
(* Theorems about the parts of landro-sync that keep the state of a        *)
(* synchronisation: the session files, the orchestrator, its locks, the    *)
(* handler of protocol messages, the recovery log and the transport.  Each *)
(* is proved for the component by itself, for any number of sessions,      *)
(* tasks, peers, callers, handlers and operations.                         *)
(***************************************************************************)
EXTENDS SyncPersistence, RecoveryLog, SyncTransport, SyncOrchestrator, SyncHandler,
        FiniteSetTheorems, TLAPS

(* Cardinalities of finite sets that gain, lose or keep elements. *)
LEMMA CardAdd ==
    ASSUME NEW S, IsFiniteSet(S), NEW x, x \notin S
    PROVE  /\ IsFiniteSet(S \cup {x}) /\ Cardinality(S) \in Nat
           /\ Cardinality(S \cup {x}) = Cardinality(S) + 1
  BY FS_AddElement, FS_CardinalityType

LEMMA CardRemove ==
    ASSUME NEW S, IsFiniteSet(S), NEW x \in S
    PROVE  /\ IsFiniteSet(S \ {x}) /\ Cardinality(S \ {x}) \in Nat
           /\ Cardinality(S) = Cardinality(S \ {x}) + 1
<1>1. IsFiniteSet(S \ {x}) /\ Cardinality(S \ {x}) = Cardinality(S) - 1
  BY FS_RemoveElement
<1>2. Cardinality(S) \in Nat /\ Cardinality(S \ {x}) \in Nat
  BY <1>1, FS_CardinalityType
<1> QED BY <1>1, <1>2

LEMMA CardSubset ==
    ASSUME NEW S, IsFiniteSet(S), NEW T \in SUBSET S
    PROVE  /\ IsFiniteSet(T) /\ Cardinality(T) \in Nat /\ Cardinality(S) \in Nat
           /\ Cardinality(T) <= Cardinality(S)
  BY FS_Subset, FS_CardinalityType

(* A finite set without a part of it. *)
LEMMA CardSplit ==
    ASSUME NEW S, IsFiniteSet(S), NEW T \in SUBSET S
    PROVE  /\ IsFiniteSet(S \ T) /\ Cardinality(S \ T) \in Nat /\ Cardinality(T) \in Nat
           /\ Cardinality(S) = Cardinality(S \ T) + Cardinality(T)
<1>1. S \cap T = T
  OBVIOUS
<1>2. IsFiniteSet(T) /\ IsFiniteSet(S \ T) /\ Cardinality(S \ T) = Cardinality(S) - Cardinality(T)
  BY <1>1, FS_Difference, FS_Subset
<1> QED BY <1>2, FS_CardinalityType

(* What Append and Tail make of a queue. *)
LEMMA AppendFacts ==
    ASSUME NEW S, NEW q \in Seq(S), NEW x \in S
    PROVE  /\ Append(q, x) \in Seq(S) /\ Len(q) \in Nat /\ Len(Append(q, x)) = Len(q) + 1
           /\ \A i \in 1..Len(q) : Append(q, x)[i] = q[i]
           /\ Append(q, x)[Len(q) + 1] = x
  OBVIOUS

LEMMA TailFacts ==
    ASSUME NEW S, NEW q \in Seq(S), q # <<>>
    PROVE  /\ Len(q) \in Nat \ {0} /\ Head(q) = q[1] /\ Head(q) \in S
           /\ Tail(q) \in Seq(S) /\ Len(Tail(q)) = Len(q) - 1
           /\ \A i \in 1..Len(Tail(q)) : Tail(q)[i] = q[i + 1] /\ i + 1 \in 1..Len(q)
  OBVIOUS

(***************************************************************************)
(* The session files.                                                      *)
(***************************************************************************)
(* The persistence alone. *)
PersistenceSpec == PersistenceInit /\ [][PersistenceNext]_syvars

Tasks == [pc : {"reset", "copy", "write", "fill", "uncount", "remove", "delete"}, id : SessionIds,
          copy : SessionRecords \cup {NoSession}, next : {"free", "uncount", "remove"}]

PersistenceTypeOK ==
    /\ sessions \in [SessionIds -> SessionRecords \cup {NoSession}]
    /\ counter \in [SessionIds -> Nat]
    /\ file \in [SessionIds -> SessionRecords \cup {NoSession, TornFile}]
    /\ task \in [Savers -> Tasks \cup {Free}]
    /\ overlap \in [Savers -> BOOLEAN] /\ raced \in [SessionIds -> BOOLEAN]

(* A session that is Completed anywhere was completed by a call. *)
EndedInv ==
    /\ \A s \in SessionIds : sessions[s] # NoSession /\ sessions[s].status = "Completed" => s \in ended
    /\ \A s \in SessionIds : file[s] \in SessionRecords /\ file[s].status = "Completed" => s \in ended
    /\ \A t \in Savers :
        /\ task[t].pc \in {"write", "fill"} => task[t].copy \in SessionRecords
        /\ task[t].pc \in {"write", "fill"} /\ task[t].copy.status = "Completed" => task[t].id \in ended
        /\ task[t].pc \in {"uncount", "delete"} => task[t].id \in ended
        /\ task[t].next = "uncount" => task[t].id \in ended

(* A full counter has a task that is about to reset it. *)
CounterInv ==
    \A s \in SessionIds : counter[s] < SaveInterval \/ \E t \in Savers : task[t].id = s /\ task[t].pc = "reset"

(* Two that save the same session know that they overlap, and one that     *)
(* does not overlap fills the file it has truncated.                       *)
OverlapInv ==
    /\ \A t, u \in Savers : t # u /\ Saving(t, task[t].id) /\ Saving(u, task[t].id) => overlap[t]
    /\ \A t \in Savers : task[t].pc = "fill" /\ ~overlap[t] /\ task[t].id \notin ended => file[task[t].id] = TornFile

(* A save of s is under way. *)
Pends(t, s) == task[t].id = s /\ task[t].pc \in {"reset", "copy", "write", "fill"}

(* How far f may be behind the session s. *)
Follows(f, s) ==
    /\ f \in SessionRecords /\ f.status = sessions[s].status
    /\ sessions[s].failed \subseteq f.failed
    /\ Cardinality(sessions[s].completed \ f.completed) <= counter[s]

(* With no save under way the file follows the session; the copy of the    *)
(* only save under way does, unless it overlapped another.                 *)
Lag(s) ==
    sessions[s] # NoSession /\ s \notin ended =>
        /\ ~raced[s] /\ (\A t \in Savers : ~Pends(t, s)) => Follows(file[s], s)
        /\ \A t \in Savers : Saving(t, s) /\ ~overlap[t] /\ (\A u \in Savers : u # t => ~Pends(u, s))
             => Follows(task[t].copy, s)

LagInv == \A s \in SessionIds : Lag(s)

PersistenceInv == PersistenceTypeOK /\ EndedInv /\ CounterInv /\ OverlapInv /\ LagInv

LEMMA TaskTypes ==
    ASSUME PersistenceTypeOK, NEW t \in Savers
    PROVE  /\ Free.pc = "free" /\ Free.id = NoSession /\ Free.next = "free" /\ Free.id \notin SessionIds
           /\ task[t].pc # "free" => /\ task[t] \in Tasks /\ task[t].id \in SessionIds
                                    /\ task[t].next \in {"free", "uncount", "remove"}
           /\ task[t] \in Tasks \cup {Free}
           /\ task[t] = Free \/ task[t].pc \in {"reset", "copy", "write", "fill", "uncount", "remove", "delete"}
  BY PersistenceAssumption DEF PersistenceTypeOK, Tasks, Free

LEMMA CardAtMostOneMore ==
    ASSUME NEW S, IsFiniteSet(S), NEW x
    PROVE  /\ IsFiniteSet(S \cup {x}) /\ Cardinality(S) \in Nat /\ Cardinality(S \cup {x}) \in Nat
           /\ Cardinality(S \cup {x}) <= Cardinality(S) + 1
<1>1. CASE x \in S
  <2>1. S \cup {x} = S
    BY <1>1
  <2>2. Cardinality(S) \in Nat
    BY FS_CardinalityType
  <2>3. Cardinality(S \cup {x}) = Cardinality(S) /\ IsFiniteSet(S \cup {x})
    BY <2>1, Zenon
  <2> QED BY <2>2, <2>3
<1>2. CASE x \notin S
  BY <1>2, CardAdd
<1> QED BY <1>1, <1>2

(* One chunk more is one chunk more behind. *)
LEMMA LagGrows ==
    ASSUME NEW A, NEW B, NEW c, IsFiniteSet(A), NEW n \in Nat, Cardinality(A \ B) <= n
    PROVE  Cardinality((A \cup {c}) \ B) <= n + 1
<1>1. IsFiniteSet(A \ B) /\ Cardinality(A \ B) \in Nat
  BY FS_Difference, FS_CardinalityType
<1>2. IsFiniteSet((A \ B) \cup {c}) /\ Cardinality((A \ B) \cup {c}) <= Cardinality(A \ B) + 1
      /\ Cardinality((A \ B) \cup {c}) \in Nat
  BY <1>1, CardAtMostOneMore
<1>3. (A \cup {c}) \ B \subseteq (A \ B) \cup {c}
  OBVIOUS
<1>4. Cardinality((A \cup {c}) \ B) <= Cardinality((A \ B) \cup {c}) /\ Cardinality((A \cup {c}) \ B) \in Nat
  BY <1>2, <1>3, FS_Subset, FS_CardinalityType
<1> QED BY <1>1, <1>2, <1>4

(* A record follows its own session. *)
LEMMA FollowsItself ==
    ASSUME PersistenceTypeOK, NEW s \in SessionIds, sessions[s] # NoSession PROVE Follows(sessions[s], s)
<1>1. sessions[s].completed \ sessions[s].completed = {} /\ counter[s] \in Nat /\ sessions[s] \in SessionRecords
  BY DEF PersistenceTypeOK
<1>2. Cardinality({}) = 0
  BY FS_EmptySet
<1> QED BY <1>1, <1>2 DEF Follows

(* What a step of task t on session s leaves of another session. *)
LEMMA OtherLag ==
    ASSUME NEW t \in Savers, NEW r \in SessionIds, Lag(r),
           task[t].id # r, task'[t].id # r, \A u \in Savers : u # t => task'[u] = task[u],
           sessions'[r] = sessions[r], counter'[r] = counter[r], file'[r] = file[r], raced'[r] = raced[r],
           r \in ended' => r \in ended, r \in ended => r \in ended',
           \A u \in Savers : task[u].id = r => overlap'[u] = overlap[u]
    PROVE  Lag(r)'
<1>1. \A u \in Savers : Pends(u, r)' <=> Pends(u, r)
  BY DEF Pends
<1>2. \A u \in Savers : Saving(u, r)' => Saving(u, r) /\ task'[u] = task[u] /\ overlap'[u] = overlap[u]
  BY DEF Saving
<1>3. \A f : Follows(f, r) => Follows(f, r)'
  BY DEF Follows
<1> QED BY <1>1, <1>2, <1>3 DEF Lag

(* With task t waiting to copy session s nothing is said of s. *)
LEMMA PendingLag ==
    ASSUME NEW t \in Savers, NEW s \in SessionIds, task'[t].id = s, task'[t].pc \in {"reset", "copy"}
    PROVE  Lag(s)'
  BY DEF Lag, Pends, Saving

(* The parts that concern the tasks, when task t begins a call on s and    *)
(* changes nothing but the session.                                        *)
LEMMA CallBegins ==
    ASSUME PersistenceInv, NEW t \in Savers, NEW s \in SessionIds, NEW pc, NEW next \in {"free", "uncount", "remove"},
           pc \in {"reset", "copy", "delete"}, Call(t, s, pc, next),
           next = "uncount" \/ pc = "delete" => s \in ended', ended \subseteq ended',
           UNCHANGED <<file, overlap, raced>>,
           \A r \in SessionIds : sessions'[r] # NoSession /\ sessions'[r].status = "Completed" => r \in ended',
           sessions' \in [SessionIds -> SessionRecords \cup {NoSession}], counter' \in [SessionIds -> Nat],
           \A r \in SessionIds : r # s => sessions'[r] = sessions[r] /\ counter'[r] = counter[r],
           \A r \in SessionIds : r # s => (r \in ended' => r \in ended),
           pc = "reset" \/ counter'[s] < SaveInterval \/ counter'[s] = counter[s],
           pc \in {"reset", "copy"} \/ s \in ended'
    PROVE  PersistenceInv'
<1>0. PersistenceTypeOK /\ EndedInv /\ CounterInv /\ OverlapInv /\ LagInv
  BY DEF PersistenceInv
<1>1. /\ task[t] = Free /\ task' = [task EXCEPT ![t] = [pc |-> pc, id |-> s, copy |-> NoSession, next |-> next]]
  BY DEF Call
<1>2. /\ task'[t].pc = pc /\ task'[t].id = s /\ task'[t].next = next
      /\ \A u \in Savers : u # t => task'[u] = task[u]
  BY <1>0, <1>1 DEF PersistenceTypeOK
<1>3. task[t].pc = "free" /\ task[t].id \notin SessionIds
  BY <1>0, <1>1, TaskTypes
<1>4. PersistenceTypeOK'
  BY <1>0, <1>1 DEF PersistenceTypeOK, Tasks
<1>5. EndedInv'
  BY <1>0, <1>2 DEF EndedInv
<1>6. CounterInv'
  <2> SUFFICES ASSUME NEW r \in SessionIds
               PROVE  counter'[r] < SaveInterval \/ \E u \in Savers : task'[u].id = r /\ task'[u].pc = "reset"
    BY DEF CounterInv
  <2>1. counter[r] < SaveInterval \/ \E u \in Savers : task[u].id = r /\ task[u].pc = "reset"
    BY <1>0 DEF CounterInv
  <2>2. (\E u \in Savers : task[u].id = r /\ task[u].pc = "reset") => \E u \in Savers : task'[u].id = r /\ task'[u].pc = "reset"
    BY <1>2, <1>3
  <2> QED BY <1>2, <2>1, <2>2
<1>7. OverlapInv'
  BY <1>0, <1>2, <1>3 DEF OverlapInv, Saving
<1>8. LagInv'
  <2> SUFFICES ASSUME NEW r \in SessionIds PROVE Lag(r)'
    BY DEF LagInv
  <2>1. CASE r = s
    <3>1. CASE pc \in {"reset", "copy"}
      BY <1>2, <2>1, <3>1, PendingLag
    <3>2. CASE s \in ended'
      BY <2>1, <3>2 DEF Lag
    <3> QED BY <3>1, <3>2
  <2>2. CASE r # s
    <3>1. Lag(r)
      BY <1>0 DEF LagInv
    <3>2. task[t].id # r /\ task'[t].id # r
      BY <1>2, <1>3, <2>2
    <3> QED BY <1>2, <2>2, <3>1, <3>2, OtherLag
  <2> QED BY <2>1, <2>2
<1> QED BY <1>4, <1>5, <1>6, <1>7, <1>8 DEF PersistenceInv

(* A step of task t that leaves the sessions alone: what is left to show of it. *)
LEMMA TaskMoves ==
    ASSUME PersistenceInv, NEW t \in Savers, NEW s \in SessionIds, task[t].id = s, task[t] \in Tasks,
           task'[t].id \in {s, NoSession}, \A u \in Savers : u # t => task'[u] = task[u],
           UNCHANGED <<sessions, ended>>,
           \A r \in SessionIds : r # s => counter'[r] = counter[r] /\ file'[r] = file[r] /\ raced'[r] = raced[r],
           \A u \in Savers : task[u].id # s => overlap'[u] = overlap[u],
           counter'[s] < SaveInterval \/ (counter'[s] = counter[s] /\ task[t].pc # "reset"),
           Lag(s)'
    PROVE  CounterInv' /\ LagInv'
<1>0. CounterInv /\ LagInv
  BY DEF PersistenceInv
<1>1. CounterInv'
  <2> SUFFICES ASSUME NEW r \in SessionIds
               PROVE  counter'[r] < SaveInterval \/ \E u \in Savers : task'[u].id = r /\ task'[u].pc = "reset"
    BY DEF CounterInv
  <2>1. counter[r] < SaveInterval \/ \E u \in Savers : task[u].id = r /\ task[u].pc = "reset"
    BY <1>0 DEF CounterInv
  <2>2. CASE r = s /\ counter'[s] < SaveInterval
    BY <2>2
  <2>3. CASE r # s \/ (counter'[s] = counter[s] /\ task[t].pc # "reset")
    <3>1. counter'[r] = counter[r]
      BY <2>3
    <3>2. (\E u \in Savers : task[u].id = r /\ task[u].pc = "reset") => \E u \in Savers : task'[u].id = r /\ task'[u].pc = "reset"
      BY <2>3
    <3> QED BY <2>1, <3>1, <3>2
  <2> QED BY <2>2, <2>3
<1>2. LagInv'
  <2> SUFFICES ASSUME NEW r \in SessionIds, r # s PROVE Lag(r)'
    BY DEF LagInv
  <2>1. Lag(r) /\ task[t].id # r /\ task'[t].id # r
    BY <1>0, PersistenceAssumption DEF LagInv
  <2>2. \A u \in Savers : task[u].id = r => overlap'[u] = overlap[u]
    OBVIOUS
  <2> QED BY <2>1, <2>2, OtherLag
<1> QED BY <1>1, <1>2

(* When nobody is saving a session and its last save met no other, its file
   is whole, has its status and its failures, and misses fewer than
   save_interval_chunks completed chunks, whatever checkpoints, saves and
   failures of the session interleaved before. *)
THEOREM FilesLagBoundedly == PersistenceSpec => []SaveLag
<1>1. PersistenceInit => PersistenceInv
  BY PersistenceAssumption DEF PersistenceInit, PersistenceInv, PersistenceTypeOK, EndedInv, CounterInv, OverlapInv,
     LagInv, Lag, Saving, Free, Absent
<1>2. PersistenceInv /\ [PersistenceNext]_syvars => PersistenceInv'
  <2> SUFFICES ASSUME PersistenceInv, [PersistenceNext]_syvars PROVE PersistenceInv'
    OBVIOUS
  <2>0. PersistenceTypeOK /\ EndedInv /\ CounterInv /\ OverlapInv /\ LagInv
    BY DEF PersistenceInv
  <2>a. /\ SaveInterval \in Nat /\ 0 < SaveInterval /\ NoSession \notin SessionRecords /\ TornFile \notin SessionRecords
        /\ NoSession # TornFile /\ NoSession \notin SessionIds
    BY PersistenceAssumption
  <2>1. ASSUME NEW t \in Savers, NEW s \in SessionIds, start_session(t, s) PROVE PersistenceInv'
    <3>1. PICK chunks \in SUBSET SessionChunks : sessions' = [sessions EXCEPT ![s] = NewSession(chunks)]
      BY <2>1 DEF start_session
    <3>2. NewSession(chunks) \in SessionRecords /\ NewSession(chunks).status # "Completed"
      BY DEF NewSession, SessionRecords
    <3>3. /\ sessions' \in [SessionIds -> SessionRecords \cup {NoSession}] /\ sessions'[s] = NewSession(chunks)
          /\ \A r \in SessionIds : r # s => sessions'[r] = sessions[r]
      BY <2>0, <3>1, <3>2 DEF PersistenceTypeOK
    <3>4. /\ counter' \in [SessionIds -> Nat] /\ counter'[s] = 0
          /\ \A r \in SessionIds : r # s => counter'[r] = counter[r]
      BY <2>0, <2>1 DEF PersistenceTypeOK, start_session
    <3>5. \A r \in SessionIds : sessions'[r] # NoSession /\ sessions'[r].status = "Completed" => r \in ended
      BY <2>0, <3>2, <3>3 DEF EndedInv
    <3>6. Call(t, s, "copy", "free") /\ UNCHANGED <<file, overlap, raced, ended>>
      BY <2>1 DEF start_session
    <3> QED BY <2>a, <3>3, <3>4, <3>5, <3>6, CallBegins
  <2>2. ASSUME NEW t \in Savers, NEW s \in SessionIds, mark_chunk_completed(t, s) PROVE PersistenceInv'
    <3>0. sessions[s] # NoSession /\ sessions[s] \in SessionRecords /\ counter[s] \in Nat
      BY <2>0, <2>2 DEF mark_chunk_completed, PersistenceTypeOK
    <3>1. PICK c \in SessionChunks :
            sessions' = [sessions EXCEPT ![s] = [sessions[s] EXCEPT !.pending = sessions[s].pending \ {c},
                           !.failed = sessions[s].failed \ {c}, !.completed = sessions[s].completed \cup {c}]]
      BY <2>2, <3>0 DEF mark_chunk_completed, Change, SessionRecords
    <3>2. /\ sessions'[s] \in SessionRecords /\ sessions'[s].status = sessions[s].status
          /\ sessions'[s].failed = sessions[s].failed \ {c} /\ sessions'[s].completed = sessions[s].completed \cup {c}
          /\ \A r \in SessionIds : r # s => sessions'[r] = sessions[r]
      BY <2>0, <3>0, <3>1 DEF PersistenceTypeOK, SessionRecords
    <3>3. sessions' \in [SessionIds -> SessionRecords \cup {NoSession}]
      BY <2>0, <3>1, <3>2 DEF PersistenceTypeOK
    <3>4. /\ counter' \in [SessionIds -> Nat] /\ counter'[s] = counter[s] + 1
          /\ \A r \in SessionIds : r # s => counter'[r] = counter[r]
      BY <2>0, <2>2 DEF PersistenceTypeOK, mark_chunk_completed
    <3>5. \A r \in SessionIds : sessions'[r] # NoSession /\ sessions'[r].status = "Completed" => r \in ended
      BY <2>0, <3>0, <3>2 DEF EndedInv
    <3>6. UNCHANGED <<file, active, overlap, raced, ended>>
      BY <2>2 DEF mark_chunk_completed
    <3>7. CASE counter[s] + 1 >= SaveInterval
      <4>1. Call(t, s, "reset", "free")
        BY <2>2, <3>7 DEF mark_chunk_completed
      <4>2. /\ ended \subseteq ended' /\ UNCHANGED <<file, overlap, raced>>
            /\ \A r \in SessionIds : r # s => sessions'[r] = sessions[r] /\ counter'[r] = counter[r]
            /\ \A r \in SessionIds : r # s => (r \in ended' => r \in ended)
            /\ \A r \in SessionIds : sessions'[r] # NoSession /\ sessions'[r].status = "Completed" => r \in ended'
        BY <3>2, <3>4, <3>5, <3>6
      <4> QED BY <3>3, <3>4, <4>1, <4>2, CallBegins
    <3>8. CASE counter[s] + 1 < SaveInterval
      <4>1. UNCHANGED task
        BY <2>a, <2>2, <3>0, <3>8 DEF mark_chunk_completed
      <4>2. PersistenceTypeOK' /\ EndedInv' /\ OverlapInv'
        BY <2>0, <3>3, <3>4, <3>5, <3>6, <4>1 DEF PersistenceTypeOK, EndedInv, OverlapInv, Saving
      <4>3. CounterInv'
        BY <2>0, <3>4, <3>8, <4>1 DEF CounterInv
      <4>4. LagInv'
        <5> SUFFICES ASSUME NEW r \in SessionIds PROVE Lag(r)'
          BY DEF LagInv
        <5>0. Lag(r)
          BY <2>0 DEF LagInv
        <5>1. CASE r = s
          <6>1. IsFiniteSet(sessions[s].completed)
            BY <3>0, PersistenceAssumption, FS_Subset DEF SessionRecords
          <6>2. ASSUME NEW f, Follows(f, s) PROVE Follows(f, s)'
            <7>1. Cardinality(sessions'[s].completed \ f.completed) <= counter'[s]
              <8>1. Cardinality(sessions[s].completed \ f.completed) <= counter[s]
                BY <6>2 DEF Follows
              <8>2. Cardinality((sessions[s].completed \cup {c}) \ f.completed) <= counter[s] + 1
                BY <3>0, <6>1, <8>1, LagGrows
              <8> QED BY <3>2, <3>4, <8>2
            <7> QED BY <3>2, <6>2, <7>1 DEF Follows
          <6>3. Follows(file[s], s) => Follows(file[s], s)'
            <7>1. PICK f : f = file[s] /\ f = file'[s]
              BY <3>6
            <7> QED BY <6>2, <7>1 DEF Follows
          <6>4. \A u \in Savers : Follows(task[u].copy, s) => Follows(task[u].copy, s)'
            <7> SUFFICES ASSUME NEW u \in Savers, Follows(task[u].copy, s) PROVE Follows(task[u].copy, s)'
              OBVIOUS
            <7>1. PICK f : f = task[u].copy /\ f = task'[u].copy
              BY <4>1
            <7> QED BY <6>2, <7>1 DEF Follows
          <6>5. \A u \in Savers : (Pends(u, s)' <=> Pends(u, s)) /\ (Saving(u, s)' <=> Saving(u, s))
            BY <4>1 DEF Pends, Saving
          <6> QED BY <3>0, <3>6, <4>1, <5>0, <5>1, <6>3, <6>4, <6>5 DEF Lag
        <5>2. CASE r # s
          BY <3>2, <3>4, <3>6, <4>1, <5>0, <5>2 DEF Lag, Follows, Pends, Saving
        <5> QED BY <5>1, <5>2
      <4> QED BY <4>2, <4>3, <4>4 DEF PersistenceInv
    <3> QED BY <2>a, <3>0, <3>7, <3>8
  <2>3. ASSUME NEW t \in Savers, NEW s \in SessionIds, NEW f, sessions[s] # NoSession,
               f \in SessionRecords, sessions' = [sessions EXCEPT ![s] = f], NEW next \in {"free", "uncount", "remove"},
               f.status = "Completed" => s \in ended', Call(t, s, "copy", next),
               next = "uncount" => s \in ended', ended' \in {ended, ended \cup {s}}, UNCHANGED <<counter, file, overlap, raced>>
        PROVE  PersistenceInv'
    <3>1. /\ sessions' \in [SessionIds -> SessionRecords \cup {NoSession}] /\ sessions'[s] = f
          /\ \A r \in SessionIds : r # s => sessions'[r] = sessions[r]
      BY <2>0, <2>3 DEF PersistenceTypeOK
    <3>2. \A r \in SessionIds : sessions'[r] # NoSession /\ sessions'[r].status = "Completed" => r \in ended'
      BY <2>0, <2>3, <3>1 DEF EndedInv
    <3>3. counter' \in [SessionIds -> Nat]
      BY <2>0, <2>3 DEF PersistenceTypeOK
    <3>4. ended \subseteq ended' /\ \A r \in SessionIds : r # s => (r \in ended' => r \in ended)
      BY <2>3
    <3> QED BY <2>3, <3>1, <3>2, <3>3, <3>4, CallBegins
  <2>4. ASSUME NEW t \in Savers, NEW s \in SessionIds, mark_chunk_failed(t, s) PROVE PersistenceInv'
    <3>0. sessions[s] # NoSession /\ sessions[s] \in SessionRecords
      BY <2>0, <2>4 DEF mark_chunk_failed, PersistenceTypeOK
    <3>1. PICK c \in SessionChunks :
            sessions' = [sessions EXCEPT ![s] = [sessions[s] EXCEPT !.pending = sessions[s].pending \ {c},
                           !.failed = sessions[s].failed \cup {c}]]
      BY <2>4, <3>0 DEF mark_chunk_failed, Change, SessionRecords
    <3>2. PICK f \in SessionRecords : sessions' = [sessions EXCEPT ![s] = f] /\ f.status = sessions[s].status
      <4>1. [sessions[s] EXCEPT !.pending = sessions[s].pending \ {c}, !.failed = sessions[s].failed \cup {c}] \in SessionRecords
        BY <3>0 DEF SessionRecords
      <4>2. [sessions[s] EXCEPT !.pending = sessions[s].pending \ {c}, !.failed = sessions[s].failed \cup {c}].status = sessions[s].status
        BY <3>0 DEF SessionRecords
      <4> QED BY <3>1, <4>1, <4>2
    <3>3. f.status = "Completed" => s \in ended
      BY <2>0, <3>0, <3>2 DEF EndedInv
    <3> QED BY <2>3, <2>4, <3>0, <3>2, <3>3 DEF mark_chunk_failed
  <2>5. ASSUME NEW t \in Savers, NEW s \in SessionIds, complete_session(t, s) PROVE PersistenceInv'
    <3>0. sessions[s] # NoSession /\ sessions[s] \in SessionRecords
      BY <2>0, <2>5 DEF complete_session, PersistenceTypeOK
    <3>1. PICK f \in SessionRecords : sessions' = [sessions EXCEPT ![s] = f]
      <4>1. [sessions[s] EXCEPT !.status = "Completed"] \in SessionRecords
        BY <3>0 DEF SessionRecords
      <4> QED BY <2>5, <4>1 DEF complete_session, Change
    <3> QED BY <2>3, <2>5, <3>0, <3>1 DEF complete_session
  <2>6. ASSUME NEW t \in Savers, NEW s \in SessionIds, interrupt_session(t, s) PROVE PersistenceInv'
    <3>0. sessions[s] # NoSession /\ sessions[s] \in SessionRecords
      BY <2>0, <2>6 DEF interrupt_session, PersistenceTypeOK
    <3>1. PICK f \in SessionRecords : sessions' = [sessions EXCEPT ![s] = f] /\ f.status = "Interrupted"
      <4>1. [sessions[s] EXCEPT !.status = "Interrupted"] \in SessionRecords /\ [sessions[s] EXCEPT !.status = "Interrupted"].status = "Interrupted"
        BY <3>0 DEF SessionRecords
      <4> QED BY <2>6, <4>1 DEF interrupt_session, Change
    <3> QED BY <2>3, <2>6, <3>0, <3>1 DEF interrupt_session
  <2>7. ASSUME NEW t \in Savers, NEW s \in SessionIds, remove_session(t, s) PROVE PersistenceInv'
    <3>1. s \in ended
      BY <2>0, <2>7 DEF remove_session, EndedInv
    <3>2. /\ sessions' \in [SessionIds -> SessionRecords \cup {NoSession}] /\ sessions'[s] = NoSession
          /\ \A r \in SessionIds : r # s => sessions'[r] = sessions[r]
      BY <2>0, <2>7 DEF PersistenceTypeOK, remove_session
    <3>3. counter' \in [SessionIds -> Nat]
      BY <2>0, <2>7 DEF PersistenceTypeOK, remove_session
    <3>4. \A r \in SessionIds : sessions'[r] # NoSession /\ sessions'[r].status = "Completed" => r \in ended
      BY <2>0, <3>2 DEF EndedInv
    <3>5. Call(t, s, "delete", "free") /\ UNCHANGED <<counter, file, overlap, raced, ended>>
      BY <2>7 DEF remove_session
    <3> QED BY <3>1, <3>2, <3>3, <3>4, <3>5, CallBegins
  <2>8. ASSUME NEW t \in Savers, ResetCounter(t) PROVE PersistenceInv'
    <3>1. PICK s \in SessionIds : s = task[t].id /\ task[t] \in Tasks
      BY <2>0, <2>8, TaskTypes DEF ResetCounter
    <3>2. /\ task' = [task EXCEPT ![t].pc = "copy"] /\ counter' = [counter EXCEPT ![s] = 0]
          /\ UNCHANGED <<sessions, file, active, overlap, raced, ended>> /\ task[t].pc = "reset"
      BY <2>8, <3>1 DEF ResetCounter
    <3>3. /\ task'[t] \in Tasks /\ task'[t].pc = "copy" /\ task'[t].id = s /\ task'[t].next = task[t].next
          /\ \A u \in Savers : u # t => task'[u] = task[u]
      BY <2>0, <3>1, <3>2 DEF PersistenceTypeOK, Tasks
    <3>4. counter'[s] = 0 /\ \A r \in SessionIds : r # s => counter'[r] = counter[r]
      BY <2>0, <3>2 DEF PersistenceTypeOK
    <3>5. PersistenceTypeOK'
      BY <2>0, <3>2, <3>3 DEF PersistenceTypeOK
    <3>6. EndedInv'
      BY <2>0, <3>1, <3>2, <3>3 DEF EndedInv
    <3>7. OverlapInv'
      BY <2>0, <3>1, <3>2, <3>3 DEF OverlapInv, Saving
    <3>8. Lag(s)'
      BY <3>3, PendingLag
    <3>9. CounterInv' /\ LagInv'
      BY <2>a, <3>1, <3>2, <3>3, <3>4, <3>8, TaskMoves
    <3> QED BY <3>5, <3>6, <3>7, <3>9 DEF PersistenceInv
  <2>9. ASSUME NEW t \in Savers, CopySession(t) PROVE PersistenceInv'
    <3>1. PICK s \in SessionIds : s = task[t].id /\ task[t] \in Tasks
      BY <2>0, <2>9, TaskTypes DEF CopySession
    <3>2. UNCHANGED <<sessions, counter, file, active, raced, ended>> /\ task[t].pc = "copy"
      BY <2>9 DEF CopySession
    <3>3. CASE sessions[s] = NoSession
      <4>1. task' = Then(t, task[t].next) /\ UNCHANGED overlap
        BY <2>9, <3>1, <3>3 DEF CopySession
      <4>2. /\ task'[t] \in Tasks \cup {Free} /\ task'[t].id \in {s, NoSession}
            /\ task'[t].pc = task[t].next /\ task'[t].next \in {task[t].next, "free"}
            /\ \A u \in Savers : u # t => task'[u] = task[u]
        BY <2>0, <3>1, <4>1 DEF PersistenceTypeOK, Then, Tasks, Free
      <4>3. task[t].next \in {"free", "uncount", "remove"} /\ (task[t].next = "uncount" => task'[t].id = s)
        BY <2>0, <3>1, <4>1 DEF PersistenceTypeOK, Then, Tasks, Free
      <4>4. PersistenceTypeOK'
        BY <2>0, <3>2, <4>1, <4>2 DEF PersistenceTypeOK, Then
      <4>5. EndedInv'
        BY <2>0, <3>1, <3>2, <4>2, <4>3 DEF EndedInv
      <4>6. OverlapInv'
        BY <2>0, <3>1, <3>2, <4>1, <4>2, <4>3 DEF OverlapInv, Saving
      <4>7. Lag(s)'
        BY <3>2, <3>3 DEF Lag
      <4>8. CounterInv' /\ LagInv'
        BY <3>1, <3>2, <4>1, <4>2, <4>7, TaskMoves
      <4> QED BY <4>4, <4>5, <4>6, <4>8 DEF PersistenceInv
    <3>4. CASE sessions[s] # NoSession
      <4>1. /\ task' = [task EXCEPT ![t].pc = "write", ![t].copy = sessions[s]]
            /\ overlap' = [u \in Savers |-> IF u = t THEN \E v \in Savers : Saving(v, s)
                                            ELSE overlap[u] \/ Saving(u, s)]
            /\ sessions[s] \in SessionRecords
        BY <2>0, <2>9, <3>1, <3>4 DEF CopySession, PersistenceTypeOK
      <4>2. /\ task'[t] \in Tasks /\ task'[t].pc = "write" /\ task'[t].id = s /\ task'[t].next = task[t].next
            /\ task'[t].copy = sessions[s] /\ \A u \in Savers : u # t => task'[u] = task[u]
        BY <2>0, <3>1, <4>1 DEF PersistenceTypeOK, Tasks
      <4>3. overlap' \in [Savers -> BOOLEAN]
        BY <2>0, <4>1 DEF PersistenceTypeOK, Saving
      <4>4. PersistenceTypeOK'
        BY <2>0, <3>2, <4>1, <4>2, <4>3 DEF PersistenceTypeOK
      <4>5. EndedInv'
        <5>1. sessions[s].status = "Completed" => s \in ended
          BY <2>0, <3>4 DEF EndedInv
        <5>2. \A u \in Savers :
                /\ task'[u].pc \in {"write", "fill"} => task'[u].copy \in SessionRecords
                /\ task'[u].pc \in {"write", "fill"} /\ task'[u].copy.status = "Completed" => task'[u].id \in ended
                /\ task'[u].pc \in {"uncount", "delete"} => task'[u].id \in ended
                /\ task'[u].next = "uncount" => task'[u].id \in ended
          BY <2>0, <3>1, <4>1, <4>2, <5>1 DEF EndedInv
        <5> QED BY <2>0, <3>2, <5>2 DEF EndedInv
      <4>6. \A u \in Savers : (task[u].id # s \/ ~Saving(u, s)) /\ u # t => (overlap'[u] <=> overlap[u])
        BY <2>0, <4>1 DEF PersistenceTypeOK, Saving
      <4>7. \A u \in Savers : u # t /\ Saving(u, s) => overlap'[u] /\ overlap'[t]
        BY <4>1
      <4>8. OverlapInv'
        <5>1. ASSUME NEW u \in Savers, NEW v \in Savers, u # v, Saving(u, task[u].id)', Saving(v, task[u].id)' PROVE overlap'[u]
          <6>1. CASE u = t
            BY <4>2, <4>7, <5>1, <6>1 DEF Saving
          <6>2. CASE v = t
            BY <4>2, <4>7, <5>1, <6>2 DEF Saving
          <6>3. CASE u # t /\ v # t
            <7>1. overlap[u]
              BY <2>0, <4>2, <5>1, <6>3 DEF OverlapInv, Saving
            <7> QED BY <4>1, <6>3, <7>1
          <6> QED BY <6>1, <6>2, <6>3
        <5>2. ASSUME NEW u \in Savers, task'[u].pc = "fill", ~overlap'[u], task'[u].id \notin ended' PROVE file'[task'[u].id] = TornFile
          <6>1. u # t /\ task'[u] = task[u]
            BY <4>2, <5>2
          <6>2. ~overlap[u]
            BY <4>1, <5>2, <6>1
          <6> QED BY <2>0, <3>2, <5>2, <6>1, <6>2 DEF OverlapInv
        <5> QED BY <5>1, <5>2 DEF OverlapInv
      <4>9. Lag(s)'
        <5>1. Follows(sessions[s], s)
          BY <2>0, <3>4, FollowsItself
        <5>2. Follows(task[t].copy, s)'
          BY <3>2, <4>2, <5>1 DEF Follows
        <5>3. Pends(t, s)'
          BY <4>2 DEF Pends
        <5> QED BY <5>2, <5>3 DEF Lag
      <4>10. \A u \in Savers : task[u].id # s => overlap'[u] = overlap[u]
        BY <2>0, <3>1, <4>3, <4>6 DEF PersistenceTypeOK
      <4>11. CounterInv' /\ LagInv'
        BY <3>1, <3>2, <4>2, <4>9, <4>10, TaskMoves
      <4> QED BY <4>4, <4>5, <4>8, <4>11 DEF PersistenceInv
    <3> QED BY <3>3, <3>4
  <2>10. ASSUME NEW t \in Savers, OpenFile(t) PROVE PersistenceInv'
    <3>1. PICK s \in SessionIds : s = task[t].id /\ task[t] \in Tasks
      BY <2>0, <2>10, TaskTypes DEF OpenFile
    <3>2. /\ task' = [task EXCEPT ![t].pc = "fill"] /\ file' = [file EXCEPT ![s] = TornFile]
          /\ UNCHANGED <<sessions, counter, active, overlap, raced, ended>> /\ task[t].pc = "write"
      BY <2>10, <3>1 DEF OpenFile
    <3>3. /\ task'[t] \in Tasks /\ task'[t].pc = "fill" /\ task'[t].id = s /\ task'[t].next = task[t].next
          /\ task'[t].copy = task[t].copy /\ \A u \in Savers : u # t => task'[u] = task[u]
      BY <2>0, <3>1, <3>2 DEF PersistenceTypeOK, Tasks
    <3>4. file'[s] = TornFile /\ \A r \in SessionIds : r # s => file'[r] = file[r]
      BY <2>0, <3>2 DEF PersistenceTypeOK
    <3>5. PersistenceTypeOK'
      BY <2>0, <3>2, <3>3 DEF PersistenceTypeOK
    <3>6. EndedInv'
      BY <2>0, <2>a, <3>1, <3>2, <3>3, <3>4 DEF EndedInv
    <3>7. OverlapInv'
      <4>1. \A u \in Savers : task'[u].id = task[u].id /\ (Saving(u, task[u].id)' <=> Saving(u, task[u].id))
        BY <3>1, <3>2, <3>3 DEF Saving
      <4>2. ASSUME NEW u \in Savers, NEW v \in Savers, u # v, Saving(u, task[u].id)', Saving(v, task[u].id)' PROVE overlap'[u]
        BY <2>0, <3>1, <3>2, <3>3, <4>2 DEF OverlapInv, Saving
      <4>3. ASSUME NEW u \in Savers, task'[u].pc = "fill", ~overlap'[u], task'[u].id \notin ended' PROVE file'[task'[u].id] = TornFile
        <5>1. CASE u = t
          BY <3>3, <3>4, <5>1
        <5>2. CASE u # t
          <6>1. task[u].id \in SessionIds
            BY <2>0, <3>3, <4>3, <5>2, TaskTypes
          <6> QED BY <2>0, <3>2, <3>3, <3>4, <4>3, <5>2, <6>1 DEF OverlapInv
        <5> QED BY <5>1, <5>2
      <4> QED BY <4>2, <4>3 DEF OverlapInv
    <3>8. Lag(s)'
      <4>1. Lag(s)
        BY <2>0 DEF LagInv
      <4>2. Pends(t, s)' /\ Saving(t, s) /\ \A u \in Savers : u # t => (Pends(u, s)' <=> Pends(u, s))
        BY <3>1, <3>2, <3>3 DEF Pends, Saving
      <4>3. Follows(task[t].copy, s) => Follows(task[t].copy, s)'
        BY <3>2, <3>3 DEF Follows
      <4> QED BY <3>2, <4>1, <4>2, <4>3 DEF Lag
    <3>9. CounterInv' /\ LagInv'
      BY <3>1, <3>2, <3>3, <3>4, <3>8, TaskMoves
    <3> QED BY <3>5, <3>6, <3>7, <3>9 DEF PersistenceInv
  <2>11. ASSUME NEW t \in Savers, NEW s \in SessionIds, NEW result \in SessionRecords \cup {TornFile, NoSession}, s = task[t].id,
                task[t].pc = "fill",
                file' = [file EXCEPT ![s] = result],
                \/ raced' = [raced EXCEPT ![s] = overlap[t]] /\ (s \notin ended /\ ~overlap[t] => result = task[t].copy)
                \/ raced' = [raced EXCEPT ![s] = TRUE],
                result \in SessionRecords /\ result.status = "Completed" => s \in ended,
                overlap' = [overlap EXCEPT ![t] = FALSE], task'[t] \in Tasks \cup {Free},
                task'[t].pc \in {"free", "uncount", "remove"}, task'[t].id \in {s, NoSession},
                task'[t].pc = "uncount" \/ task'[t].next = "uncount" => task'[t].id \in ended,
                task' = [task EXCEPT ![t] = task'[t]],
                UNCHANGED <<sessions, counter, active, ended>>
         PROVE  PersistenceInv'
    <3>1. /\ \A u \in Savers : u # t => task'[u] = task[u] /\ overlap'[u] = overlap[u]
          /\ file'[s] = result /\ \A r \in SessionIds : r # s => file'[r] = file[r] /\ raced'[r] = raced[r]
          /\ \A u \in Savers : task[u].id # s => overlap'[u] = overlap[u]
      BY <2>0, <2>11 DEF PersistenceTypeOK
    <3>2. PersistenceTypeOK'
      <4>1. overlap[t] \in BOOLEAN
        BY <2>0 DEF PersistenceTypeOK
      <4>2. raced' \in [SessionIds -> BOOLEAN]
        BY <2>0, <2>11, <4>1 DEF PersistenceTypeOK
      <4> QED BY <2>0, <2>11, <4>2 DEF PersistenceTypeOK
    <3>3. EndedInv'
      BY <2>0, <2>11, <3>1 DEF EndedInv
    <3>4. \A u \in Savers : u # t /\ Saving(u, s) => overlap[u]
      BY <2>0, <2>11 DEF OverlapInv, Saving
    <3>5. OverlapInv'
      <4>1. ASSUME NEW u \in Savers, NEW v \in Savers, u # v, Saving(u, task[u].id)', Saving(v, task[u].id)' PROVE overlap'[u]
        BY <2>0, <2>11, <3>1, <4>1 DEF OverlapInv, Saving
      <4>2. ASSUME NEW u \in Savers, task'[u].pc = "fill", ~overlap'[u], task'[u].id \notin ended' PROVE file'[task'[u].id] = TornFile
        <5>1. u # t /\ task'[u] = task[u] /\ ~overlap[u] /\ task[u].id \in SessionIds
          BY <2>0, <2>11, <3>1, <4>2, TaskTypes
        <5>2. task[u].id # s
          BY <3>4, <4>2, <5>1 DEF Saving
        <5> QED BY <2>0, <2>11, <3>1, <4>2, <5>1, <5>2 DEF OverlapInv
      <4> QED BY <4>1, <4>2 DEF OverlapInv
    <3>6. Lag(s)'
      <4>1. Lag(s)
        BY <2>0 DEF LagInv
      <4>2. \A u \in Savers : u # t => (Pends(u, s)' <=> Pends(u, s)) /\ (Saving(u, s)' <=> Saving(u, s))
        BY <3>1 DEF Pends, Saving
      <4>3. ~Saving(t, s)' /\ Saving(t, s)
        BY <2>11 DEF Saving
      <4>4. ASSUME sessions[s] # NoSession, s \notin ended, ~raced'[s], \A u \in Savers : ~Pends(u, s)'
            PROVE  Follows(file[s], s)'
        <5>1. ~overlap[t] /\ file'[s] = task[t].copy
          BY <2>0, <2>11, <3>1, <4>4 DEF PersistenceTypeOK
        <5>2. Follows(task[t].copy, s)
          BY <4>1, <4>2, <4>3, <4>4, <5>1 DEF Lag
        <5> QED BY <2>11, <5>1, <5>2 DEF Follows
      <4>5. \A u \in Savers : Saving(u, s)' => u # t /\ overlap'[u]
        BY <3>1, <3>4, <4>2, <4>3
      <4> QED BY <2>11, <4>4, <4>5 DEF Lag
    <3>7. CounterInv' /\ LagInv'
      <4>1. task[t] \in Tasks
        BY <2>0, <2>11, TaskTypes
      <4> QED BY <2>11, <3>1, <3>6, <4>1, TaskMoves
    <3> QED BY <3>2, <3>3, <3>5, <3>7 DEF PersistenceInv
  <2>12. ASSUME NEW t \in Savers, FillFile(t) PROVE PersistenceInv'
    <3>1. PICK s \in SessionIds : s = task[t].id /\ task[t] \in Tasks
      BY <2>0, <2>12, TaskTypes DEF FillFile
    <3>2. PICK result \in (IF file[s] = TornFile THEN {task[t].copy} ELSE {task[t].copy, TornFile}) :
            file' = [file EXCEPT ![s] = result]
      BY <2>12, <3>1 DEF FillFile
    <3>3. /\ task[t].pc = "fill" /\ raced' = [raced EXCEPT ![s] = overlap[t]] /\ overlap' = [overlap EXCEPT ![t] = FALSE]
          /\ task' = Then(t, task[t].next) /\ UNCHANGED <<sessions, counter, active, ended>>
      BY <2>12, <3>1 DEF FillFile
    <3>4. task[t].copy \in SessionRecords /\ (task[t].copy.status = "Completed" => s \in ended)
      BY <2>0, <3>1, <3>3 DEF EndedInv
    <3>5. s \notin ended /\ ~overlap[t] => result = task[t].copy
      BY <2>0, <3>1, <3>2, <3>3 DEF OverlapInv
    <3>6. /\ task'[t] \in Tasks \cup {Free} /\ task'[t].id \in {s, NoSession} /\ task' = [task EXCEPT ![t] = task'[t]]
          /\ task'[t].pc = task[t].next /\ task'[t].next \in {task[t].next, "free"}
          /\ task[t].next \in {"free", "uncount", "remove"} /\ (task[t].next = "uncount" => task'[t].id = s)
      BY <2>0, <3>1, <3>3 DEF PersistenceTypeOK, Then, Tasks, Free
    <3>7. task'[t].pc = "uncount" \/ task'[t].next = "uncount" => task'[t].id \in ended
      BY <2>0, <3>1, <3>6 DEF EndedInv
    <3>8. result \in SessionRecords \cup {TornFile, NoSession} /\ (result \in SessionRecords /\ result.status = "Completed" => s \in ended)
      BY <2>a, <3>2, <3>4
    <3> QED BY <2>11, <3>1, <3>2, <3>3, <3>5, <3>6, <3>7, <3>8
  <2>13. ASSUME NEW t \in Savers, FillFails(t) PROVE PersistenceInv'
    <3>1. PICK s \in SessionIds : s = task[t].id /\ task[t] \in Tasks
      BY <2>0, <2>13, TaskTypes DEF FillFails
    <3>2. /\ task[t].pc = "fill" /\ raced' = [raced EXCEPT ![s] = TRUE] /\ overlap' = [overlap EXCEPT ![t] = FALSE]
          /\ task' = [task EXCEPT ![t] = Free] /\ UNCHANGED <<sessions, counter, file, active, ended>>
      BY <2>13, <3>1 DEF FillFails
    <3>3. PICK result \in SessionRecords \cup {TornFile, NoSession} : result = file[s]
      BY <2>0 DEF PersistenceTypeOK
    <3>4. file' = [file EXCEPT ![s] = result] /\ (result \in SessionRecords /\ result.status = "Completed" => s \in ended)
      BY <2>0, <3>2, <3>3 DEF PersistenceTypeOK, EndedInv
    <3>5. task'[t] = Free /\ Free.pc = "free" /\ Free.id = NoSession /\ Free.next = "free"
      BY <2>0, <3>2, TaskTypes DEF PersistenceTypeOK
    <3> QED BY <2>11, <3>1, <3>2, <3>3, <3>4, <3>5
  (* The steps that do not touch a session that was not completed. *)
  <2>14. ASSUME NEW t \in Savers, NEW s \in SessionIds, s = task[t].id, task[t] \in Tasks,
                task[t].pc \in {"uncount", "remove", "delete"},
                task'[t].pc \in {"remove", "free"}, task'[t] \in Tasks \cup {Free}, task'[t].id \in {s, NoSession},
                task'[t].next = "uncount" => task'[t].id \in ended,
                task' = [task EXCEPT ![t] = task'[t]],
                \/ counter' = [counter EXCEPT ![s] = 0] /\ UNCHANGED file /\ s \in ended
                \/ file' = [file EXCEPT ![s] = NoSession] /\ UNCHANGED counter /\ s \in ended
                \/ UNCHANGED <<counter, file>>,
                UNCHANGED <<sessions, overlap, raced, ended>>
         PROVE  PersistenceInv'
    <3>1. /\ \A u \in Savers : u # t => task'[u] = task[u]
          /\ \A r \in SessionIds : r # s => file'[r] = file[r] /\ counter'[r] = counter[r]
          /\ file'[s] \in {file[s], NoSession} /\ counter'[s] \in {counter[s], 0}
      BY <2>0, <2>14 DEF PersistenceTypeOK
    <3>2. PersistenceTypeOK'
      BY <2>0, <2>14 DEF PersistenceTypeOK
    <3>3. EndedInv'
      BY <2>0, <2>a, <2>14, <3>1 DEF EndedInv
    <3>4. OverlapInv'
      <4>1. ASSUME NEW u \in Savers, NEW v \in Savers, u # v, Saving(u, task[u].id)', Saving(v, task[u].id)' PROVE overlap'[u]
        BY <2>0, <2>14, <3>1, <4>1 DEF OverlapInv, Saving
      <4>2. ASSUME NEW u \in Savers, task'[u].pc = "fill", ~overlap'[u], task'[u].id \notin ended' PROVE file'[task'[u].id] = TornFile
        <5>1. u # t /\ task'[u] = task[u] /\ task[u].id \in SessionIds
          BY <2>0, <2>14, <3>1, <4>2, TaskTypes
        <5>2. file'[task[u].id] = file[task[u].id]
          BY <2>14, <3>1, <4>2, <5>1
        <5> QED BY <2>0, <2>14, <4>2, <5>1, <5>2 DEF OverlapInv
      <4> QED BY <4>1, <4>2 DEF OverlapInv
    <3>5. Lag(s)'
      <4>1. Lag(s)
        BY <2>0 DEF LagInv
      <4>2. CASE s \in ended
        BY <2>14, <4>2 DEF Lag
      <4>3. CASE s \notin ended
        <5>1. \A u \in Savers : (Pends(u, s)' <=> Pends(u, s)) /\ (Saving(u, s)' => Saving(u, s) /\ task'[u] = task[u])
          BY <2>14, <3>1 DEF Pends, Saving
        <5>2. UNCHANGED <<counter, file>>
          BY <2>14, <4>3
        <5>3. \A f : Follows(f, s) => Follows(f, s)'
          BY <2>14, <5>2 DEF Follows
        <5> QED BY <2>14, <4>1, <5>1, <5>2, <5>3 DEF Lag
      <4> QED BY <4>2, <4>3
    <3>6. CounterInv' /\ LagInv'
      BY <2>a, <2>14, <3>1, <3>5, TaskMoves
    <3> QED BY <3>2, <3>3, <3>4, <3>6 DEF PersistenceInv
  <2>15. ASSUME NEW t \in Savers, Uncount(t) PROVE PersistenceInv'
    <3>1. PICK s \in SessionIds : s = task[t].id /\ task[t] \in Tasks
      BY <2>0, <2>15, TaskTypes DEF Uncount
    <3>2. /\ task[t].pc = "uncount" /\ counter' = [counter EXCEPT ![s] = 0] /\ task' = [task EXCEPT ![t].pc = "remove"]
          /\ UNCHANGED <<sessions, file, overlap, raced, ended>>
      BY <2>15, <3>1 DEF Uncount, Absent
    <3>3. /\ task'[t] \in Tasks /\ task'[t].pc = "remove" /\ task'[t].id = s /\ task' = [task EXCEPT ![t] = task'[t]]
      BY <2>0, <3>1, <3>2 DEF PersistenceTypeOK, Tasks
    <3>4. s \in ended
      BY <2>0, <3>1, <3>2 DEF EndedInv
    <3> QED BY <2>14, <3>1, <3>2, <3>3, <3>4
  <2>16. ASSUME NEW t \in Savers, RemoveActive(t) \/ DeleteFile(t) PROVE PersistenceInv'
    <3>1. PICK s \in SessionIds : s = task[t].id /\ task[t] \in Tasks
      BY <2>0, <2>16, TaskTypes DEF RemoveActive, DeleteFile
    <3>2. /\ task[t].pc \in {"remove", "delete"} /\ task' = [task EXCEPT ![t] = Free]
          /\ UNCHANGED <<sessions, counter, overlap, raced, ended>>
          /\ UNCHANGED file \/ (task[t].pc = "delete" /\ file' = [file EXCEPT ![s] = NoSession])
      BY <2>16, <3>1 DEF RemoveActive, DeleteFile
    <3>3. task'[t] = Free /\ Free.pc = "free" /\ Free.id = NoSession /\ Free.next = "free"
      BY <2>0, <3>2, TaskTypes DEF PersistenceTypeOK
    <3>4. task[t].pc = "delete" => s \in ended
      BY <2>0, <3>1 DEF EndedInv
    <3> QED BY <2>14, <3>1, <3>2, <3>3, <3>4
  <2>17. CASE load_sessions
    <3>1. /\ sessions' = [s \in SessionIds |-> IF file[s] = TornFile THEN NoSession ELSE file[s]]
          /\ counter' = [s \in SessionIds |-> 0] /\ task' = [t \in Savers |-> Free]
          /\ overlap' = [t \in Savers |-> FALSE] /\ raced' = [s \in SessionIds |-> FALSE] /\ UNCHANGED <<file, ended>>
      BY <2>17 DEF load_sessions, Absent
    <3>2. PersistenceTypeOK'
      BY <2>0, <3>1 DEF PersistenceTypeOK
    <3>3. \A t \in Savers : task'[t].pc = "free" /\ task'[t].next = "free" /\ task'[t].id = NoSession
      BY <3>1 DEF Free
    <3>4. EndedInv'
      <4>1. \A s \in SessionIds : sessions'[s] # NoSession => file[s] \in SessionRecords /\ sessions'[s] = file[s]
        BY <2>0, <3>1 DEF PersistenceTypeOK
      <4> QED BY <2>0, <3>1, <3>3, <4>1 DEF EndedInv
    <3>5. CounterInv' /\ OverlapInv'
      BY <2>a, <3>1, <3>3 DEF CounterInv, OverlapInv, Saving
    <3>6. LagInv'
      <4> SUFFICES ASSUME NEW s \in SessionIds, sessions'[s] # NoSession PROVE Lag(s)'
        BY DEF LagInv, Lag
      <4>1. /\ sessions'[s].completed \ sessions'[s].completed = {} /\ Cardinality({}) = 0
            /\ counter'[s] = 0 /\ sessions'[s] \in SessionRecords
        BY <3>1, <3>2, FS_EmptySet DEF PersistenceTypeOK
      <4>2. file'[s] = sessions'[s]
        BY <3>1
      <4>3. Follows(file[s], s)'
        BY <4>1, <4>2 DEF Follows
      <4>4. \A t \in Savers : ~Saving(t, s)'
        BY <3>3 DEF Saving
      <4> QED BY <4>3, <4>4 DEF Lag
    <3> QED BY <3>2, <3>4, <3>5, <3>6 DEF PersistenceInv
  <2>18. ASSUME UNCHANGED <<sessions, counter, file, task, overlap, raced, ended>> PROVE PersistenceInv'
    BY <2>0, <2>18 DEF PersistenceInv, PersistenceTypeOK, EndedInv, CounterInv, OverlapInv, LagInv, Lag, Follows, Pends, Saving
  <2>19. ASSUME NEW s \in SessionIds, resume_sync(s) PROVE PersistenceInv'
    BY <2>18, <2>19 DEF resume_sync
  <2>20. CASE UNCHANGED syvars
    BY <2>18, <2>20 DEF syvars
  <2> QED BY <2>1, <2>2, <2>4, <2>5, <2>6, <2>7, <2>8, <2>9, <2>10, <2>12, <2>13, <2>15, <2>16, <2>17, <2>19, <2>20 DEF PersistenceNext
<1>3. PersistenceInv => SaveLag
  <2> SUFFICES ASSUME PersistenceInv, NEW s \in SessionIds, sessions[s] # NoSession, \A t \in Savers : task[t].id # s,
                      ~raced[s], s \notin ended
               PROVE  /\ file[s] \notin {NoSession, TornFile} /\ file[s].status = sessions[s].status
                      /\ sessions[s].failed \subseteq file[s].failed
                      /\ Cardinality(sessions[s].completed \ file[s].completed) <= counter[s]
                      /\ counter[s] < SaveInterval
    BY DEF SaveLag
  <2>1. counter[s] < SaveInterval
    BY DEF PersistenceInv, CounterInv
  <2>2. Follows(file[s], s)
    BY DEF PersistenceInv, LagInv, Lag, Pends
  <2> QED BY <2>1, <2>2, PersistenceAssumption DEF Follows
<1> QED BY <1>1, <1>2, <1>3, PTL DEF PersistenceSpec

(***************************************************************************)
(* The orchestrator with its scheduler.                                    *)
(***************************************************************************)
(* The orchestrator alone. *)
SyncOrchestratorSpec == SyncOrchestratorInit /\ [][SyncOrchestratorNext]_ovars

PeerStates == {"none", "Negotiating", "Transferring", "Completed"}

FlowSteps == {"upsert", "insert", "global", "started", "exchanged", "count"}

NoFlow == [pc |-> "none", peer |-> NoPeer]

OrchestratorTypeOK ==
    /\ peer_state \in [SyncPeers -> PeerStates] /\ peer_row \in [SyncPeers -> PeerStates]
    /\ sync_state \in {"Idle", "Syncing"} /\ uncounted \in BOOLEAN
    /\ flow \in [Flows -> [pc : FlowSteps, peer : SyncPeers] \cup {NoFlow}]

(* The slots taken are those of the transfers in hand and those lost. *)
SlotsInv ==
    /\ active_transfers \in 0..MaxConcurrent /\ lost \in Nat
    /\ IsFiniteSet(handed) /\ active_transfers = Cardinality(handed) + lost

(* A peer that was never shared has one flow at most, and a flow that has  *)
(* registered its peer finds it registered until it completes it.          *)
FlowsInv ==
    /\ \A f, g \in Flows : flow[f].peer = flow[g].peer /\ flow[f].peer \in SyncPeers \ joined => f = g
    /\ \A f \in Flows : flow[f].pc \in {"global", "started"} /\ flow[f].peer \notin joined
         => peer_state[flow[f].peer] \in Busy

(* Idle hides no such peer, but for a flow about to say so; Syncing has a  *)
(* reason, but for a flow about to count or that failed before it counted. *)
GlobalInv ==
    /\ \A p \in SyncPeers \ joined : peer_state[p] \in Busy =>
         sync_state = "Syncing" \/ \E f \in Flows : flow[f].peer = p /\ flow[f].pc = "global"
    /\ sync_state = "Syncing" /\ joined = {} =>
         \/ \E p \in SyncPeers : peer_state[p] \in Busy
         \/ \E f \in Flows : flow[f].pc = "count"
         \/ uncounted

OrchestratorInv == OrchestratorTypeOK /\ SlotsInv /\ FlowsInv /\ GlobalInv

(* The fields of a flow. *)
LEMMA FlowTypes ==
    ASSUME OrchestratorTypeOK, NEW f \in Flows
    PROVE  /\ flow[f].pc \in FlowSteps => flow[f] \in [pc : FlowSteps, peer : SyncPeers] /\ flow[f].peer \in SyncPeers
           /\ flow[f].pc \notin FlowSteps => flow[f] = NoFlow
           /\ NoFlow.pc = "none" /\ NoFlow.peer = NoPeer
  BY DEF OrchestratorTypeOK, NoFlow, FlowSteps

(* Between calls the orchestrator's global state says whether a peer is being
   synchronised, except that Syncing may outlast the last peer after a
   completion the database refused, until another call has counted; and every
   slot the scheduler counts as active belongs to a transfer in hand or to a
   flow that gave up, never more than max_concurrent_transfers of them. *)
THEOREM SummariesStayRight == SyncOrchestratorSpec => []SummariesRight
<1> USE SyncOrchestratorAssumption DEF Busy, PeerStates
<1>1. SyncOrchestratorInit => OrchestratorInv
  <2> SUFFICES ASSUME SyncOrchestratorInit PROVE OrchestratorInv
    OBVIOUS
  <2>1. uncounted \in BOOLEAN
    BY DEF SyncOrchestratorInit
  <2>2. OrchestratorTypeOK
    BY <2>1 DEF SyncOrchestratorInit, OrchestratorTypeOK, NoFlow
  <2>3. SlotsInv
    BY FS_EmptySet DEF SyncOrchestratorInit, SlotsInv
  <2>4. FlowsInv
    BY DEF SyncOrchestratorInit, FlowsInv
  <2>5. GlobalInv
    BY DEF SyncOrchestratorInit, GlobalInv
  <2> QED BY <2>2, <2>3, <2>4, <2>5 DEF OrchestratorInv
<1>2. OrchestratorInv /\ [SyncOrchestratorNext]_ovars => OrchestratorInv'
  <2> SUFFICES ASSUME OrchestratorInv, [SyncOrchestratorNext]_ovars PROVE OrchestratorInv'
    OBVIOUS
  <2>0. OrchestratorTypeOK /\ SlotsInv /\ FlowsInv /\ GlobalInv
    BY DEF OrchestratorInv
  <2>1. ASSUME NEW f \in Flows, StartUpsert(f) PROVE OrchestratorInv'
    <3>1. PICK p \in SyncPeers : p = flow[f].peer /\ flow[f] \in [pc : FlowSteps, peer : SyncPeers] /\ flow[f].pc = "upsert"
      BY <2>0, <2>1, FlowTypes DEF StartUpsert, At, FlowSteps
    <3>2. /\ flow' = [flow EXCEPT ![f].pc = "insert"] /\ UNCHANGED <<scheduler, joined, uncounted>>
      BY <2>1 DEF StartUpsert, Go
    <3>3. /\ flow'[f].pc = "insert" /\ flow'[f].peer = p /\ flow'[f] \in [pc : FlowSteps, peer : SyncPeers]
          /\ \A g \in Flows : g # f => flow'[g] = flow[g]
      BY <2>0, <3>1, <3>2 DEF OrchestratorTypeOK, FlowSteps
    <3>4. peer_row' \in [SyncPeers -> PeerStates] /\ UNCHANGED <<peer_state, sync_state>>
      BY <2>0, <2>1, <3>1 DEF OrchestratorTypeOK, StartUpsert
    <3>5. OrchestratorTypeOK'
      BY <2>0, <3>2, <3>3, <3>4 DEF OrchestratorTypeOK
    <3>6. SlotsInv'
      BY <2>0, <3>2 DEF SlotsInv, scheduler
    <3>7. FlowsInv'
      <4>1. \A g, h \in Flows : flow'[g].peer = flow'[h].peer /\ flow'[g].peer \in SyncPeers \ joined' => g = h
        BY <2>0, <3>1, <3>2, <3>3 DEF FlowsInv
      <4>2. ASSUME NEW g \in Flows, flow'[g].pc \in {"global", "started"}, flow'[g].peer \notin joined'
            PROVE  peer_state'[flow'[g].peer] \in Busy
        <5>1. CASE g = f
          BY <2>0, <3>1, <3>2, <3>3, <3>4, <4>2, <5>1 DEF FlowsInv
        <5>2. CASE g # f
          <6>1. flow[g].peer \in SyncPeers /\ flow[g].peer # p
            BY <2>0, <3>1, <3>2, <3>3, <4>2, <5>2, FlowTypes DEF FlowsInv, FlowSteps
          <6> QED BY <2>0, <3>2, <3>3, <3>4, <4>2, <5>2, <6>1 DEF FlowsInv
        <5> QED BY <5>1, <5>2
      <4> QED BY <4>1, <4>2 DEF FlowsInv
    <3>8. GlobalInv'
      BY <2>0, <3>1, <3>2, <3>3, <3>4 DEF GlobalInv, FlowsInv
    <3> QED BY <3>5, <3>6, <3>7, <3>8 DEF OrchestratorInv
  <2>2. ASSUME NEW f \in Flows, StartInsert(f) PROVE OrchestratorInv'
    <3>1. PICK p \in SyncPeers : p = flow[f].peer /\ flow[f] \in [pc : FlowSteps, peer : SyncPeers] /\ flow[f].pc = "insert"
      BY <2>0, <2>2, FlowTypes DEF StartInsert, At, FlowSteps
    <3>2. /\ flow' = [flow EXCEPT ![f].pc = "global"] /\ UNCHANGED <<scheduler, joined, uncounted>>
      BY <2>2 DEF StartInsert, Go
    <3>3. /\ flow'[f].pc = "global" /\ flow'[f].peer = p /\ flow'[f] \in [pc : FlowSteps, peer : SyncPeers]
          /\ \A g \in Flows : g # f => flow'[g] = flow[g]
      BY <2>0, <3>1, <3>2 DEF OrchestratorTypeOK, FlowSteps
    <3>4. /\ peer_state' \in [SyncPeers -> PeerStates] /\ UNCHANGED <<peer_row, sync_state>>
          /\ peer_state'[p] = "Negotiating" /\ \A q \in SyncPeers : q # p => peer_state'[q] = peer_state[q]
      BY <2>0, <2>2, <3>1 DEF OrchestratorTypeOK, StartInsert
    <3>5. OrchestratorTypeOK'
      BY <2>0, <3>2, <3>3, <3>4 DEF OrchestratorTypeOK
    <3>6. SlotsInv'
      BY <2>0, <3>2 DEF SlotsInv, scheduler
    <3>7. FlowsInv'
      <4>1. \A g, h \in Flows : flow'[g].peer = flow'[h].peer /\ flow'[g].peer \in SyncPeers \ joined' => g = h
        BY <2>0, <3>1, <3>2, <3>3 DEF FlowsInv
      <4>2. ASSUME NEW g \in Flows, flow'[g].pc \in {"global", "started"}, flow'[g].peer \notin joined'
            PROVE  peer_state'[flow'[g].peer] \in Busy
        <5>1. CASE g = f
          BY <2>0, <3>1, <3>2, <3>3, <3>4, <4>2, <5>1 DEF FlowsInv
        <5>2. CASE g # f
          <6>1. flow[g].peer \in SyncPeers /\ flow[g].peer # p
            BY <2>0, <3>1, <3>2, <3>3, <4>2, <5>2, FlowTypes DEF FlowsInv, FlowSteps
          <6> QED BY <2>0, <3>2, <3>3, <3>4, <4>2, <5>2, <6>1 DEF FlowsInv
        <5> QED BY <5>1, <5>2
      <4> QED BY <4>1, <4>2 DEF FlowsInv
    <3>8. GlobalInv'
      BY <2>0, <3>1, <3>2, <3>3, <3>4 DEF GlobalInv, FlowsInv
    <3> QED BY <3>5, <3>6, <3>7, <3>8 DEF OrchestratorInv
  <2>3. ASSUME NEW f \in Flows, StartGlobal(f) PROVE OrchestratorInv'
    <3>1. PICK p \in SyncPeers : p = flow[f].peer /\ flow[f] \in [pc : FlowSteps, peer : SyncPeers] /\ flow[f].pc = "global"
      BY <2>0, <2>3, FlowTypes DEF StartGlobal, At, FlowSteps
    <3>2. /\ flow' = [flow EXCEPT ![f].pc = "started"] /\ UNCHANGED <<scheduler, joined>> /\ uncounted' = FALSE
      BY <2>3 DEF StartGlobal, Go
    <3>3. /\ flow'[f].pc = "started" /\ flow'[f].peer = p /\ flow'[f] \in [pc : FlowSteps, peer : SyncPeers]
          /\ \A g \in Flows : g # f => flow'[g] = flow[g]
      BY <2>0, <3>1, <3>2 DEF OrchestratorTypeOK, FlowSteps
    <3>4. sync_state' = "Syncing" /\ UNCHANGED <<peer_row, peer_state>>
      BY <2>0, <2>3, <3>1 DEF OrchestratorTypeOK, StartGlobal
    <3>5. OrchestratorTypeOK'
      BY <2>0, <3>2, <3>3, <3>4 DEF OrchestratorTypeOK
    <3>6. SlotsInv'
      BY <2>0, <3>2 DEF SlotsInv, scheduler
    <3>7. FlowsInv'
      <4>1. \A g, h \in Flows : flow'[g].peer = flow'[h].peer /\ flow'[g].peer \in SyncPeers \ joined' => g = h
        BY <2>0, <3>1, <3>2, <3>3 DEF FlowsInv
      <4>2. ASSUME NEW g \in Flows, flow'[g].pc \in {"global", "started"}, flow'[g].peer \notin joined'
            PROVE  peer_state'[flow'[g].peer] \in Busy
        <5>1. CASE g = f
          BY <2>0, <3>1, <3>2, <3>3, <3>4, <4>2, <5>1 DEF FlowsInv
        <5>2. CASE g # f
          <6>1. flow[g].peer \in SyncPeers /\ flow[g].peer # p
            BY <2>0, <3>1, <3>2, <3>3, <4>2, <5>2, FlowTypes DEF FlowsInv, FlowSteps
          <6> QED BY <2>0, <3>2, <3>3, <3>4, <4>2, <5>2, <6>1 DEF FlowsInv
        <5> QED BY <5>1, <5>2
      <4> QED BY <4>1, <4>2 DEF FlowsInv
    <3>8. GlobalInv'
      BY <2>0, <3>1, <3>2, <3>3, <3>4 DEF GlobalInv, FlowsInv
    <3> QED BY <3>5, <3>6, <3>7, <3>8 DEF OrchestratorInv
  <2>4. ASSUME NEW f \in Flows, handle_manifest_exchange(f) PROVE OrchestratorInv'
    <3>1. PICK p \in SyncPeers : p = flow[f].peer /\ flow[f] \in [pc : FlowSteps, peer : SyncPeers] /\ flow[f].pc = "started"
      BY <2>0, <2>4, FlowTypes DEF handle_manifest_exchange, At, FlowSteps
    <3>2. /\ flow' = [flow EXCEPT ![f].pc = "exchanged"] /\ UNCHANGED <<scheduler, joined, uncounted>>
      BY <2>4 DEF handle_manifest_exchange, Go
    <3>3. /\ flow'[f].pc = "exchanged" /\ flow'[f].peer = p /\ flow'[f] \in [pc : FlowSteps, peer : SyncPeers]
          /\ \A g \in Flows : g # f => flow'[g] = flow[g]
      BY <2>0, <3>1, <3>2 DEF OrchestratorTypeOK, FlowSteps
    <3>4. /\ peer_state' \in [SyncPeers -> PeerStates] /\ UNCHANGED <<peer_row, sync_state>>
          /\ peer_state'[p] = "Transferring" /\ \A q \in SyncPeers : q # p => peer_state'[q] = peer_state[q]
      BY <2>0, <2>4, <3>1 DEF OrchestratorTypeOK, handle_manifest_exchange
    <3>5. OrchestratorTypeOK'
      BY <2>0, <3>2, <3>3, <3>4 DEF OrchestratorTypeOK
    <3>6. SlotsInv'
      BY <2>0, <3>2 DEF SlotsInv, scheduler
    <3>7. FlowsInv'
      <4>1. \A g, h \in Flows : flow'[g].peer = flow'[h].peer /\ flow'[g].peer \in SyncPeers \ joined' => g = h
        BY <2>0, <3>1, <3>2, <3>3 DEF FlowsInv
      <4>2. ASSUME NEW g \in Flows, flow'[g].pc \in {"global", "started"}, flow'[g].peer \notin joined'
            PROVE  peer_state'[flow'[g].peer] \in Busy
        <5>1. CASE g = f
          BY <2>0, <3>1, <3>2, <3>3, <3>4, <4>2, <5>1 DEF FlowsInv
        <5>2. CASE g # f
          <6>1. flow[g].peer \in SyncPeers /\ flow[g].peer # p
            BY <2>0, <3>1, <3>2, <3>3, <4>2, <5>2, FlowTypes DEF FlowsInv, FlowSteps
          <6> QED BY <2>0, <3>2, <3>3, <3>4, <4>2, <5>2, <6>1 DEF FlowsInv
        <5> QED BY <5>1, <5>2
      <4> QED BY <4>1, <4>2 DEF FlowsInv
    <3>8. GlobalInv'
      BY <2>0, <3>1, <3>2, <3>3, <3>4 DEF GlobalInv, FlowsInv
    <3> QED BY <3>5, <3>6, <3>7, <3>8 DEF OrchestratorInv
  <2>5. ASSUME NEW f \in Flows, complete_sync(f) PROVE OrchestratorInv'
    <3>1. PICK p \in SyncPeers : p = flow[f].peer /\ flow[f] \in [pc : FlowSteps, peer : SyncPeers] /\ flow[f].pc = "exchanged"
      BY <2>0, <2>5, FlowTypes DEF complete_sync, At, FlowSteps
    <3>2. /\ flow' = [flow EXCEPT ![f].pc = "count"] /\ UNCHANGED <<scheduler, joined, uncounted>>
      BY <2>5 DEF complete_sync, Go
    <3>3. /\ flow'[f].pc = "count" /\ flow'[f].peer = p /\ flow'[f] \in [pc : FlowSteps, peer : SyncPeers]
          /\ \A g \in Flows : g # f => flow'[g] = flow[g]
      BY <2>0, <3>1, <3>2 DEF OrchestratorTypeOK, FlowSteps
    <3>4. /\ peer_state' \in [SyncPeers -> PeerStates] /\ peer_row' \in [SyncPeers -> PeerStates] /\ UNCHANGED sync_state
          /\ peer_state'[p] = "Completed" /\ \A q \in SyncPeers : q # p => peer_state'[q] = peer_state[q]
      BY <2>0, <2>5, <3>1 DEF OrchestratorTypeOK, complete_sync
    <3>5. OrchestratorTypeOK'
      BY <2>0, <3>2, <3>3, <3>4 DEF OrchestratorTypeOK
    <3>6. SlotsInv'
      BY <2>0, <3>2 DEF SlotsInv, scheduler
    <3>7. FlowsInv'
      <4>1. \A g, h \in Flows : flow'[g].peer = flow'[h].peer /\ flow'[g].peer \in SyncPeers \ joined' => g = h
        BY <2>0, <3>1, <3>2, <3>3 DEF FlowsInv
      <4>2. ASSUME NEW g \in Flows, flow'[g].pc \in {"global", "started"}, flow'[g].peer \notin joined'
            PROVE  peer_state'[flow'[g].peer] \in Busy
        <5>1. CASE g = f
          BY <2>0, <3>1, <3>2, <3>3, <3>4, <4>2, <5>1 DEF FlowsInv
        <5>2. CASE g # f
          <6>1. flow[g].peer \in SyncPeers /\ flow[g].peer # p
            BY <2>0, <3>1, <3>2, <3>3, <4>2, <5>2, FlowTypes DEF FlowsInv, FlowSteps
          <6> QED BY <2>0, <3>2, <3>3, <3>4, <4>2, <5>2, <6>1 DEF FlowsInv
        <5> QED BY <5>1, <5>2
      <4> QED BY <4>1, <4>2 DEF FlowsInv
    <3>8. GlobalInv'
      BY <2>0, <3>1, <3>2, <3>3, <3>4 DEF GlobalInv, FlowsInv
    <3> QED BY <3>5, <3>6, <3>7, <3>8 DEF OrchestratorInv
  <2>6. ASSUME NEW f \in Flows, NEW p \in SyncPeers, start_sync(f, p) PROVE OrchestratorInv'
    <3>1. /\ flow[f].pc = "none" /\ peer_state[p] \notin Busy /\ flow' = [flow EXCEPT ![f] = [pc |-> "upsert", peer |-> p]]
          /\ joined' = (IF \E g \in Flows : Syncs(g, p) THEN joined \cup {p} ELSE joined)
          /\ UNCHANGED <<peer_state, peer_row, sync_state, scheduler, uncounted>>
      BY <2>6 DEF start_sync, At
    <3>2. flow'[f].pc = "upsert" /\ flow'[f].peer = p /\ \A g \in Flows : g # f => flow'[g] = flow[g]
      BY <2>0, <3>1 DEF OrchestratorTypeOK
    <3>3. joined \subseteq joined' /\ (p \notin joined' => \A g \in Flows : flow[g].peer # p) /\ (joined' = {} => joined = {})
      BY <3>1 DEF Syncs
    <3>4. OrchestratorTypeOK' /\ SlotsInv'
      BY <2>0, <3>1 DEF OrchestratorTypeOK, FlowSteps, SlotsInv, scheduler
    <3>5. FlowsInv'
      BY <2>0, <3>1, <3>2, <3>3 DEF FlowsInv
    <3>6. GlobalInv'
      <4>1. ASSUME NEW q \in SyncPeers \ joined', peer_state'[q] \in Busy
            PROVE  sync_state' = "Syncing" \/ \E g \in Flows : flow'[g].peer = q /\ flow'[g].pc = "global"
        <5>1. sync_state = "Syncing" \/ \E g \in Flows : flow[g].peer = q /\ flow[g].pc = "global"
          BY <2>0, <3>1, <3>3, <4>1 DEF GlobalInv
        <5> QED BY <3>1, <3>2, <5>1
      <4>2. ASSUME sync_state' = "Syncing", joined' = {}
            PROVE  (\E q \in SyncPeers : peer_state'[q] \in Busy) \/ (\E g \in Flows : flow'[g].pc = "count") \/ uncounted'
        <5>1. (\E q \in SyncPeers : peer_state[q] \in Busy) \/ (\E g \in Flows : flow[g].pc = "count") \/ uncounted
          BY <2>0, <3>1, <3>3, <4>2 DEF GlobalInv
        <5> QED BY <3>1, <3>2, <5>1
      <4> QED BY <4>1, <4>2 DEF GlobalInv
    <3> QED BY <3>4, <3>5, <3>6 DEF OrchestratorInv
  <2>7. ASSUME NEW f \in Flows, StartUpsertFails(f) \/ CompleteGlobal(f) \/ GiveUp(f) PROVE OrchestratorInv'
    <3>1. /\ flow' = [flow EXCEPT ![f] = NoFlow] /\ flow[f].pc \in {"upsert", "count", "started", "exchanged"}
          /\ UNCHANGED <<peer_state, peer_row, joined>>
          /\ \/ sync_state' = sync_state /\ ActivePeers # {} /\ uncounted' = FALSE
             \/ sync_state' = sync_state /\ flow[f].pc # "count" /\ uncounted' = uncounted
             \/ sync_state' = "Idle" /\ ActivePeers = {} /\ uncounted' = FALSE
      BY <2>7 DEF StartUpsertFails, CompleteGlobal, GiveUp, At, Leave, NoFlow
    <3>2. flow'[f].pc = "none" /\ flow'[f].peer = NoPeer /\ \A g \in Flows : g # f => flow'[g] = flow[g]
      BY <2>0, <3>1 DEF OrchestratorTypeOK, NoFlow
    <3>3. OrchestratorTypeOK'
      BY <2>0, <3>1 DEF OrchestratorTypeOK
    <3>4. SlotsInv'
      <4>1. CASE StartUpsertFails(f) \/ CompleteGlobal(f)
        BY <2>0, <4>1 DEF SlotsInv, StartUpsertFails, CompleteGlobal, scheduler
      <4>2. CASE GiveUp(f)
        <5>1. /\ lost' = lost + Cardinality(TransfersOf(f)) /\ handed' = handed \ TransfersOf(f)
              /\ TransfersOf(f) \in SUBSET handed /\ active_transfers' = active_transfers
          BY <4>2 DEF GiveUp, TransfersOf
        <5>2. /\ IsFiniteSet(handed') /\ Cardinality(handed') \in Nat
              /\ Cardinality(TransfersOf(f)) \in Nat
              /\ Cardinality(handed) = Cardinality(handed') + Cardinality(TransfersOf(f))
          BY <2>0, <5>1, CardSplit DEF SlotsInv
        <5> QED BY <2>0, <5>1, <5>2 DEF SlotsInv
      <4> QED BY <2>7, <4>1, <4>2
    <3>5. FlowsInv'
      BY <2>0, <3>1, <3>2 DEF FlowsInv
    <3>6. GlobalInv'
      BY <2>0, <3>1, <3>2 DEF GlobalInv, ActivePeers
    <3> QED BY <3>3, <3>4, <3>5, <3>6 DEF OrchestratorInv
  <2>8. CASE Restart
    <3>1. /\ peer_state' = peer_row /\ sync_state' = "Idle" /\ flow' = [f \in Flows |-> NoFlow]
          /\ active_transfers' = 0 /\ handed' = {} /\ lost' = 0
          /\ joined' = joined \cup {p \in SyncPeers : peer_row[p] \in Busy} /\ UNCHANGED peer_row
          /\ uncounted' = FALSE
      BY <2>8 DEF Restart, NoFlow
    <3>2. SlotsInv'
      BY <3>1, FS_EmptySet DEF SlotsInv
    <3> QED BY <2>0, <3>1, <3>2 DEF OrchestratorInv, OrchestratorTypeOK, FlowsInv, GlobalInv, NoFlow
  <2>9. ASSUME SlotsInv', UNCHANGED <<peer_state, peer_row, sync_state, flow, joined, uncounted>> PROVE OrchestratorInv'
    BY <2>0, <2>9 DEF OrchestratorInv, OrchestratorTypeOK, FlowsInv, GlobalInv
  <2>10. ASSUME NEW f \in Flows, schedule_transfer(f) \/ next_transfer(f) \/ complete_transfer(f) PROVE OrchestratorInv'
    <3>1. IsFiniteSet(handed) /\ Cardinality(handed) \in Nat
      BY <2>0, FS_CardinalityType DEF SlotsInv
    <3>2. SlotsInv'
      <4>1. CASE schedule_transfer(f)
        BY <2>0, <4>1 DEF SlotsInv, schedule_transfer
      <4>2. CASE next_transfer(f)
        <5>1. PICK x : x \notin handed /\ handed' = handed \cup {x}
          BY <4>2 DEF next_transfer
        <5>2. IsFiniteSet(handed') /\ Cardinality(handed') = Cardinality(handed) + 1
          BY <3>1, <5>1, CardAdd
        <5> QED BY <2>0, <3>1, <4>2, <5>2 DEF SlotsInv, next_transfer
      <4>3. CASE complete_transfer(f)
        <5>1. PICK x \in handed : handed' = handed \ {x}
          BY <4>3 DEF complete_transfer, TransfersOf
        <5>2. /\ IsFiniteSet(handed') /\ Cardinality(handed') \in Nat
              /\ Cardinality(handed) = Cardinality(handed') + 1
          BY <3>1, <5>1, CardRemove
        <5> QED BY <2>0, <3>1, <4>3, <5>2 DEF SlotsInv, complete_transfer
      <4> QED BY <2>10, <4>1, <4>2, <4>3
    <3> QED BY <2>9, <2>10, <3>2 DEF schedule_transfer, next_transfer, complete_transfer
  <2>11. CASE UNCHANGED ovars
    BY <2>0, <2>9, <2>11 DEF ovars, SlotsInv
  <2>12. ASSUME NEW f \in Flows, CompleteFails(f) PROVE OrchestratorInv'
    <3>1. PICK p \in SyncPeers : p = flow[f].peer /\ flow[f].pc = "exchanged"
      BY <2>0, <2>12, FlowTypes DEF CompleteFails, At, FlowSteps
    <3>2. /\ peer_state' = [peer_state EXCEPT ![p] = "Completed"] /\ uncounted' = TRUE
          /\ UNCHANGED <<peer_row, sync_state, flow, scheduler, joined>>
      BY <2>12, <3>1 DEF CompleteFails
    <3>3. /\ peer_state' \in [SyncPeers -> PeerStates]
          /\ peer_state'[p] = "Completed" /\ \A q \in SyncPeers : q # p => peer_state'[q] = peer_state[q]
      BY <2>0, <3>2 DEF OrchestratorTypeOK
    <3>4. OrchestratorTypeOK' /\ SlotsInv'
      BY <2>0, <3>2, <3>3 DEF OrchestratorTypeOK, SlotsInv, scheduler
    <3>5. FlowsInv'
      <4>1. \A g, h \in Flows : flow'[g].peer = flow'[h].peer /\ flow'[g].peer \in SyncPeers \ joined' => g = h
        BY <2>0, <3>2 DEF FlowsInv
      <4>2. ASSUME NEW g \in Flows, flow'[g].pc \in {"global", "started"}, flow'[g].peer \notin joined'
            PROVE  peer_state'[flow'[g].peer] \in Busy
        <5>1. flow[g].peer \in SyncPeers /\ flow[g].peer # p
          BY <2>0, <3>1, <3>2, <4>2, FlowTypes DEF FlowsInv, FlowSteps
        <5> QED BY <2>0, <3>2, <3>3, <4>2, <5>1 DEF FlowsInv
      <4> QED BY <4>1, <4>2 DEF FlowsInv
    <3>6. GlobalInv'
      BY <2>0, <3>2, <3>3 DEF GlobalInv
    <3> QED BY <3>4, <3>5, <3>6 DEF OrchestratorInv
  <2> QED BY <2>1, <2>2, <2>3, <2>4, <2>5, <2>6, <2>7, <2>8, <2>10, <2>11, <2>12 DEF SyncOrchestratorNext
<1>3. OrchestratorInv => SummariesRight
  BY DEF SummariesRight, SlotsAccounted, OrchestratorInv, OrchestratorTypeOK, SlotsInv, GlobalInv, GlobalStateRight, ActivePeers
<1> QED BY <1>1, <1>2, <1>3, PTL DEF SyncOrchestratorSpec

(***************************************************************************)
(* The orchestrator's locks.                                               *)
(***************************************************************************)
(* The callers of the locks alone. *)
LocksSpec == LocksInit /\ [][LocksNext]_lvars

Modes == {"read", "write"}

Takes == [lock : Locks, mode : Modes]

Waiters == [by : Callers, mode : Modes]

(* The critical sections of the calls. *)
Sections == { <<Take("peers", "read")>>, <<Take("peers", "write")>>,
              <<Take("state", "write"), Take("peers", "read")>>,
              <<Take("peers", "read"), Take("state", "write")>> }

LocksTypeOK ==
    /\ call \in [Callers -> Seq(Sections)]
    /\ taken \in [Callers -> Seq(Takes)]
    /\ line \in [Locks -> Seq(Waiters)]

(* What a caller holds is the beginning of its section. *)
TakenInv ==
    \A c \in Callers :
        /\ call[c] = <<>> => taken[c] = <<>>
        /\ call[c] # <<>> =>
            /\ Len(taken[c]) <= Len(Head(call[c]))
            /\ \A i \in 1..Len(taken[c]) : taken[c][i] = Head(call[c])[i]

(* A caller in a line asks for the next lock of its section... *)
Asks(c, l, m) ==
    /\ call[c] # <<>> /\ Len(taken[c]) < Len(Head(call[c]))
    /\ Head(call[c])[Len(taken[c]) + 1] = Take(l, m)

LineInv ==
    \A l \in Locks : \A i \in 1..Len(line[l]) : Asks(line[l][i].by, l, line[l][i].mode)

(* ...and stands in one place. *)
OnePlace ==
    \A l, m \in Locks : \A i \in 1..Len(line[l]), j \in 1..Len(line[m]) :
        line[l][i].by = line[m][j].by => l = m /\ i = j

LocksInv == LocksTypeOK /\ TakenInv /\ LineInv /\ OnePlace

LEMMA SectionShape ==
    ASSUME NEW s \in Sections
    PROVE  /\ Len(s) \in 1..2
           /\ \A i \in 1..Len(s) : s[i] \in Takes
           /\ Len(s) = 2 => \/ s[1] = Take("state", "write") /\ s[2] = Take("peers", "read")
                            \/ s[1] = Take("peers", "read") /\ s[2] = Take("state", "write")
<1>1. Take("peers", "read") \in Takes /\ Take("peers", "write") \in Takes /\ Take("state", "write") \in Takes
  BY DEF Takes, Take, Locks, Modes
<1> QED BY <1>1 DEF Sections

(* The types, one variable at a time. *)
LEMMA LockTypes ==
    ASSUME LocksTypeOK
    PROVE  /\ \A c \in Callers : /\ call[c] \in Seq(Sections) /\ taken[c] \in Seq(Takes)
                                 /\ Len(taken[c]) \in Nat
                                 /\ \A i \in 1..Len(taken[c]) : taken[c][i] \in Takes
                                 /\ DOMAIN taken[c] = 1..Len(taken[c])
           /\ \A l \in Locks : /\ line[l] \in Seq(Waiters) /\ Len(line[l]) \in Nat
                               /\ DOMAIN line[l] = 1..Len(line[l])
                               /\ \A i \in 1..Len(line[l]) :
                                    line[l][i] \in Waiters /\ line[l][i].by \in Callers /\ line[l][i].mode \in Modes
<1>1. \A c \in Callers : call[c] \in Seq(Sections) /\ taken[c] \in Seq(Takes)
  BY DEF LocksTypeOK
<1>2. \A l \in Locks : line[l] \in Seq(Waiters)
  BY DEF LocksTypeOK
<1>3. \A w \in Waiters : w.by \in Callers /\ w.mode \in Modes
  BY DEF Waiters
<1>4. ASSUME NEW c \in Callers
      PROVE  Len(taken[c]) \in Nat /\ DOMAIN taken[c] = 1..Len(taken[c]) /\ \A i \in 1..Len(taken[c]) : taken[c][i] \in Takes
  BY <1>1
<1>5. ASSUME NEW l \in Locks
      PROVE  Len(line[l]) \in Nat /\ DOMAIN line[l] = 1..Len(line[l]) /\ \A i \in 1..Len(line[l]) : line[l][i] \in Waiters
  BY <1>2
<1> QED BY <1>1, <1>2, <1>3, <1>4, <1>5

LEMMA CallsMadeOfSections ==
    StartSections \in Seq(Sections) /\ CompleteSections \in Seq(Sections) /\ UpdateSections \in Seq(Sections)
    /\ StartSections # <<>> /\ CompleteSections # <<>> /\ UpdateSections # <<>>
<1> DEFINE A == <<Take("peers", "read")>>  B == <<Take("peers", "write")>>
           C == <<Take("state", "write"), Take("peers", "read")>>  D == <<Take("peers", "read"), Take("state", "write")>>
<1>1. A \in Sections /\ B \in Sections /\ C \in Sections /\ D \in Sections
  BY DEF Sections
<1>2. StartSections = <<A, B, C>> /\ CompleteSections = <<B, D>> /\ UpdateSections = <<B>>
  BY DEF StartSections, CompleteSections, UpdateSections
<1> HIDE DEF A, B, C, D
<1> QED BY <1>1, <1>2

(* The first section of a call. *)
LEMMA CurrentSection ==
    ASSUME LocksTypeOK, NEW c \in Callers, call[c] # <<>>
    PROVE  Head(call[c]) \in Sections /\ Tail(call[c]) \in Seq(Sections) /\ Len(Head(call[c])) \in 1..2
  BY LockTypes, TailFacts, SectionShape

(* Only a caller between the two locks of a section waits while it holds.  *)
LEMMA HoldsAndWaits ==
    ASSUME LocksInv, NEW c \in Callers, NEW l \in Locks, Waits(c, l)
    PROVE  /\ call[c] # <<>>
           /\ \A t \in Held(c) :
                \/ t = Take("state", "write") /\ l = "peers"
                \/ t = Take("peers", "read") /\ l = "state"
           /\ \A i \in 1..Len(line[l]) : line[l][i].by = c /\ Held(c) # {} /\ l = "peers" => line[l][i].mode = "read"
<1>0. LocksTypeOK /\ TakenInv /\ LineInv /\ OnePlace
  BY DEF LocksInv
<1>1. PICK i \in 1..Len(line[l]) : line[l][i].by = c
  BY <1>0, LockTypes DEF Waits
<1>2. Asks(c, l, line[l][i].mode)
  BY <1>0, <1>1 DEF LineInv
<1>3. PICK s \in Sections : s = Head(call[c])
  BY <1>0, <1>2, CurrentSection DEF Asks
<1>4. Len(s) \in 1..2 /\ Len(taken[c]) \in Nat
  BY <1>0, SectionShape, LockTypes
<1>5. \A j \in 1..Len(line[l]) : line[l][j].by = c => j = i
  BY <1>0, <1>1 DEF OnePlace
<1>6. ASSUME NEW t \in Held(c)
      PROVE  /\ \/ t = Take("state", "write") /\ l = "peers"
                \/ t = Take("peers", "read") /\ l = "state"
             /\ l = "peers" => line[l][i].mode = "read"
  <2>1. PICK k \in 1..Len(taken[c]) : t = taken[c][k]
    BY <1>0, LockTypes DEF Held
  <2>2. Len(taken[c]) < Len(s)
    BY <1>2, <1>3 DEF Asks
  <2>3. Len(taken[c]) = 1 /\ k = 1 /\ Len(s) = 2
    <3>1. \A m \in 1..2, n \in Nat : n < m => \A j \in 1..n : n = 1 /\ j = 1 /\ m = 2
      OBVIOUS
    <3> QED BY ONLY <1>4, <2>1, <2>2, <3>1
  <2>4. t = s[1] /\ s[2] = Take(l, line[l][i].mode)
    BY <1>0, <1>2, <1>3, <2>1, <2>3 DEF TakenInv, Asks
  <2> QED BY <2>3, <2>4, SectionShape DEF Take
<1> QED BY <1>2, <1>5, <1>6 DEF Asks

(* Calls of the orchestrator that all wait for its fair locks are at least
   three: one that holds the state and wants to read the peers, one that
   holds the peers and wants the state, and a writer of the peers in line
   between them.  Two calls alone never block each other. *)
THEOREM OnlyThreeDeadlock == LocksSpec => []DeadlockNeedsThree
<1>1. LocksInit => LocksInv
  BY DEF LocksInit, LocksInv, LocksTypeOK, TakenInv, LineInv, OnePlace
<1>2. LocksInv /\ [LocksNext]_lvars => LocksInv'
  <2> SUFFICES ASSUME LocksInv, [LocksNext]_lvars PROVE LocksInv'
    OBVIOUS
  <2>0. LocksTypeOK /\ TakenInv /\ LineInv /\ OnePlace
    BY DEF LocksInv
  <2>1. ASSUME NEW c \in Callers, NEW sections \in Seq(Sections), call[c] = <<>>,
               call' = [call EXCEPT ![c] = sections], sections # <<>>, UNCHANGED <<taken, line>>
        PROVE  LocksInv'
    <3>0. taken[c] = <<>> /\ call'[c] = sections /\ \A d \in Callers : d # c => call'[d] = call[d]
      BY <2>0, <2>1 DEF LocksTypeOK, TakenInv
    <3>1. LocksTypeOK'
      BY <2>0, <2>1 DEF LocksTypeOK
    <3>2. TakenInv'
      <4>1. Head(sections) \in Sections /\ Len(Head(sections)) \in 1..2
        BY <2>1, TailFacts, SectionShape
      <4> QED BY <2>0, <2>1, <3>0, <4>1 DEF TakenInv
    <3>3. LineInv'
      <4>1. ASSUME NEW l \in Locks, NEW i \in 1..Len(line[l])
            PROVE  line[l][i].by \in Callers /\ line[l][i].by # c
        BY <2>0, <2>1, LockTypes DEF LineInv, Asks
      <4>2. ASSUME NEW l \in Locks, NEW i \in 1..Len(line[l]) PROVE Asks(line[l][i].by, l, line[l][i].mode)'
        <5>1. PICK d \in Callers : d = line[l][i].by /\ d # c
          BY <4>1
        <5>2. Asks(d, l, line[l][i].mode)
          BY <2>0, <5>1 DEF LineInv
        <5> QED BY <2>1, <3>0, <5>1, <5>2 DEF Asks
      <4> QED BY <2>1, <4>2 DEF LineInv
    <3>4. OnePlace'
      BY <2>0, <2>1 DEF OnePlace
    <3> QED BY <3>1, <3>2, <3>3, <3>4 DEF LocksInv
  <2>2. ASSUME NEW c \in Callers, Request(c) PROVE LocksInv'
    <3>0. PICK s \in Sections : s = Head(call[c])
      BY <2>0, <2>2, CurrentSection DEF Request
    <3>1. PICK t \in Takes : t = s[Len(taken[c]) + 1]
      <4>1. Len(taken[c]) \in Nat /\ Len(s) \in 1..2 /\ Len(taken[c]) < Len(s)
        BY <2>0, <2>2, <3>0, LockTypes, SectionShape DEF Request
      <4> QED BY <4>1, SectionShape
    <3>2. PICK l \in Locks : l = t.lock
      BY DEF Takes
    <3>3. PICK w \in Waiters : w = [by |-> c, mode |-> t.mode] /\ w.by = c /\ w.mode = t.mode
      <4>1. [by |-> c, mode |-> t.mode] \in Waiters
        BY DEF Takes, Waiters
      <4> QED BY <4>1
    <3>4. /\ call[c] # <<>> /\ Len(taken[c]) < Len(s) /\ \A k \in Locks : ~Waits(c, k)
          /\ line' = [line EXCEPT ![l] = Append(line[l], w)]
          /\ UNCHANGED <<call, taken>>
      BY <2>2, <3>0, <3>1, <3>2, <3>3 DEF Request
    <3>5. t = Take(l, w.mode)
      BY <3>2, <3>3 DEF Takes, Take
    <3>6. line'[l] = Append(line[l], w) /\ \A k \in Locks : k # l => line'[k] = line[k]
      BY <2>0, <3>4 DEF LocksTypeOK
    <3>7. /\ line'[l] \in Seq(Waiters) /\ Len(line[l]) \in Nat /\ Len(line'[l]) = Len(line[l]) + 1
          /\ \A i \in 1..Len(line[l]) : line'[l][i] = line[l][i]
          /\ line'[l][Len(line[l]) + 1] = w
      BY <2>0, <3>6, LockTypes, AppendFacts
    <3>8. ASSUME NEW k \in Locks, NEW i \in 1..Len(line'[k])
          PROVE  \/ i \in 1..Len(line[k]) /\ line'[k][i] = line[k][i]
                 \/ k = l /\ i = Len(line[l]) + 1 /\ line'[k][i] = w
      BY <3>6, <3>7
    <3>9. \A k \in Locks : \A i \in 1..Len(line[k]) : line[k][i].by # c
      BY <2>0, <3>4, LockTypes DEF Waits
    <3>10. LocksTypeOK'
      BY <2>0, <3>4, <3>6, <3>7 DEF LocksTypeOK
    <3>11. TakenInv'
      BY <2>0, <3>4 DEF TakenInv
    <3>12. LineInv'
      <4>1. Asks(c, l, w.mode)
        BY <3>0, <3>1, <3>4, <3>5 DEF Asks
      <4>2. ASSUME NEW k \in Locks, NEW i \in 1..Len(line'[k])
            PROVE  Asks(line'[k][i].by, k, line'[k][i].mode)
        BY <2>0, <3>3, <3>8, <4>1 DEF LineInv
      <4> QED BY <3>4, <4>2 DEF LineInv, Asks
    <3>13. OnePlace'
      <4> SUFFICES ASSUME NEW k \in Locks, NEW m \in Locks, NEW i \in 1..Len(line'[k]), NEW j \in 1..Len(line'[m]),
                          line'[k][i].by = line'[m][j].by
                   PROVE  k = m /\ i = j
        BY DEF OnePlace
      <4>1. CASE i \in 1..Len(line[k]) /\ line'[k][i] = line[k][i] /\ j \in 1..Len(line[m]) /\ line'[m][j] = line[m][j]
        BY <2>0, <4>1 DEF OnePlace
      <4> QED BY <3>3, <3>8, <3>9, <4>1
    <3> QED BY <3>10, <3>11, <3>12, <3>13 DEF LocksInv
  <2>3. ASSUME NEW c \in Callers, NEW rest \in Seq(Sections), EndSection(c, rest) PROVE LocksInv'
    <3>1. /\ call[c] # <<>> /\ Len(taken[c]) = Len(Head(call[c]))
          /\ call' = [call EXCEPT ![c] = rest] /\ taken' = [taken EXCEPT ![c] = <<>>]
          /\ UNCHANGED line
      BY <2>3 DEF EndSection
    <3>2. /\ taken'[c] = <<>>
          /\ \A d \in Callers : d # c => taken'[d] = taken[d] /\ call'[d] = call[d]
      BY <2>0, <3>1 DEF LocksTypeOK
    <3>3. LocksTypeOK'
      <4>1. <<>> \in Seq(Takes)
        OBVIOUS
      <4> QED BY <2>0, <3>1, <3>2, <4>1 DEF LocksTypeOK
    <3>4. TakenInv'
      <4>1. call'[c] # <<>> => Head(call'[c]) \in Sections
        BY <3>3, LockTypes, TailFacts DEF LocksTypeOK
      <4>2. call'[c] # <<>> => Len(Head(call'[c])) \in 1..2
        BY <4>1, SectionShape
      <4> QED BY <2>0, <3>2, <4>2 DEF TakenInv
    <3>5. LineInv'
      <4>1. ASSUME NEW l \in Locks, NEW i \in 1..Len(line[l])
            PROVE  line[l][i].by \in Callers /\ line[l][i].by # c
        <5>1. Asks(line[l][i].by, l, line[l][i].mode) /\ line[l][i].by \in Callers
          BY <2>0, LockTypes DEF LineInv
        <5>2. ~(Len(taken[c]) < Len(Head(call[c])))
          BY <2>0, <3>1, LockTypes
        <5> QED BY <5>1, <5>2 DEF Asks
      <4>2. ASSUME NEW l \in Locks, NEW i \in 1..Len(line[l]) PROVE Asks(line[l][i].by, l, line[l][i].mode)'
        <5>1. PICK d \in Callers : d = line[l][i].by /\ d # c
          BY <4>1
        <5>2. Asks(d, l, line[l][i].mode)
          BY <2>0, <5>1 DEF LineInv
        <5> QED BY <3>1, <3>2, <5>1, <5>2 DEF Asks
      <4> QED BY <3>1, <4>2 DEF LineInv
    <3>6. OnePlace'
      BY <2>0, <3>1 DEF OnePlace
    <3> QED BY <3>3, <3>4, <3>5, <3>6 DEF LocksInv
  <2>4. ASSUME NEW l \in Locks, Grant(l) PROVE LocksInv'
    <3>0. line[l] \in Seq(Waiters) /\ line[l] # <<>>
      BY <2>0, <2>4, LockTypes DEF Grant, Grantable
    <3>1. PICK w \in Waiters : w = Head(line[l]) /\ w = line[l][1]
      BY <3>0, TailFacts
    <3>2. PICK c \in Callers : c = w.by
      BY DEF Waiters
    <3>3. /\ taken' = [taken EXCEPT ![c] = Append(taken[c], Take(l, w.mode))]
          /\ line' = [line EXCEPT ![l] = Tail(line[l])] /\ UNCHANGED call
      BY <2>4, <3>1, <3>2 DEF Grant
    <3>4. 1 \in 1..Len(line[l]) /\ Asks(c, l, w.mode)
      BY <2>0, <3>0, <3>1, <3>2, TailFacts DEF LineInv
    <3>5. /\ line'[l] \in Seq(Waiters) /\ Len(line'[l]) = Len(line[l]) - 1
          /\ \A i \in 1..Len(line'[l]) : line'[l][i] = line[l][i + 1] /\ i + 1 \in 1..Len(line[l]) /\ i + 1 # 1
          /\ \A k \in Locks : k # l => line'[k] = line[k]
      <4>1. line'[l] = Tail(line[l]) /\ \A k \in Locks : k # l => line'[k] = line[k]
        BY <2>0, <3>3 DEF LocksTypeOK
      <4> QED BY <3>0, <4>1, TailFacts
    <3>6. /\ Take(l, w.mode) \in Takes /\ taken[c] \in Seq(Takes)
      BY <2>0, LockTypes DEF Takes, Take, Waiters
    <3>7. /\ taken'[c] = Append(taken[c], Take(l, w.mode))
          /\ \A d \in Callers : d # c => taken'[d] = taken[d]
      BY <2>0, <3>3 DEF LocksTypeOK
    <3>8. /\ taken'[c] \in Seq(Takes) /\ Len(taken[c]) \in Nat
          /\ Len(taken'[c]) = Len(taken[c]) + 1 /\ taken'[c][Len(taken[c]) + 1] = Take(l, w.mode)
          /\ \A i \in 1..Len(taken[c]) : taken'[c][i] = taken[c][i]
      BY <3>6, <3>7, AppendFacts
    <3>9. LocksTypeOK'
      BY <2>0, <3>3, <3>5, <3>7, <3>8 DEF LocksTypeOK
    <3>10. TakenInv'
      <4>1. Len(Head(call[c])) \in Nat
        BY <2>0, <3>4, CurrentSection DEF Asks
      <4>2. \A i \in 1..Len(taken'[c]) : taken'[c][i] = Head(call[c])[i]
        <5>1. \A i \in 1..Len(taken[c]) : taken'[c][i] = Head(call[c])[i]
          BY <2>0, <3>4, <3>8 DEF TakenInv, Asks
        <5>2. taken'[c][Len(taken[c]) + 1] = Head(call[c])[Len(taken[c]) + 1]
          BY <3>4, <3>8 DEF Asks
        <5>3. \A i \in 1..Len(taken'[c]) : i \in 1..Len(taken[c]) \/ i = Len(taken[c]) + 1
          BY <3>8
        <5> QED BY <5>1, <5>2, <5>3
      <4> QED BY <2>0, <3>3, <3>4, <3>7, <3>8, <4>1, <4>2 DEF TakenInv, Asks
    <3>11. ASSUME NEW k \in Locks, NEW i \in 1..Len(line'[k])
           PROVE  \E j \in 1..Len(line[k]) : /\ line'[k][i] = line[k][j] /\ j = (IF k = l THEN i + 1 ELSE i)
                                             /\ line[k][j].by \in Callers /\ line[k][j].by # c
      <4>1. PICK j \in 1..Len(line[k]) : line'[k][i] = line[k][j] /\ j = (IF k = l THEN i + 1 ELSE i)
        BY <3>5
      <4>2. k # l \/ j # 1
        BY <2>0, <3>5, <4>1, LockTypes
      <4>3. line[k][j].by # c
        BY <2>0, <3>1, <3>2, <3>4, <4>2 DEF OnePlace
      <4> QED BY <2>0, <4>1, <4>3, LockTypes
    <3>12. LineInv'
      <4> SUFFICES ASSUME NEW k \in Locks, NEW i \in 1..Len(line'[k])
                   PROVE  Asks(line[k][i].by, k, line[k][i].mode)'
        BY DEF LineInv
      <4>1. PICK j \in 1..Len(line[k]) : line'[k][i] = line[k][j] /\ line[k][j].by \in Callers /\ line[k][j].by # c
        BY <3>11
      <4>2. Asks(line[k][j].by, k, line[k][j].mode)
        BY <2>0 DEF LineInv
      <4> QED BY <3>3, <3>7, <4>1, <4>2 DEF Asks
    <3>13. OnePlace'
      <4> SUFFICES ASSUME NEW k \in Locks, NEW m \in Locks, NEW i \in 1..Len(line'[k]), NEW j \in 1..Len(line'[m]),
                          line'[k][i].by = line'[m][j].by
                   PROVE  k = m /\ i = j
        BY DEF OnePlace
      <4>1. PICK u \in 1..Len(line[k]) : line'[k][i] = line[k][u] /\ u = (IF k = l THEN i + 1 ELSE i)
        BY <3>11
      <4>2. PICK v \in 1..Len(line[m]) : line'[m][j] = line[m][v] /\ v = (IF m = l THEN j + 1 ELSE j)
        BY <3>11
      <4>3. k = m /\ u = v
        BY <2>0, <4>1, <4>2 DEF OnePlace
      <4> QED BY <4>1, <4>2, <4>3
    <3> QED BY <3>9, <3>10, <3>12, <3>13 DEF LocksInv
  <2>5. CASE UNCHANGED lvars
    BY <2>0, <2>5 DEF LocksInv, LocksTypeOK, TakenInv, LineInv, Asks, OnePlace, lvars
  <2>6. ASSUME NEW c \in Callers, Finish(c) \/ EndEarly(c) PROVE LocksInv'
    <3>1. CASE Finish(c)
      BY <2>0, <2>3, <3>1, CurrentSection DEF Finish, EndSection
    <3>2. CASE EndEarly(c)
      <4>1. <<>> \in Seq(Sections)
        OBVIOUS
      <4> QED BY <2>3, <3>2, <4>1 DEF EndEarly
    <3> QED BY <2>6, <3>1, <3>2
  <2> QED BY <2>1, <2>2, <2>4, <2>5, <2>6, CallsMadeOfSections DEF LocksNext, Begin, BeginComplete, BeginUpdate
<1>3. LocksInv => DeadlockNeedsThree
  <2> SUFFICES ASSUME LocksInv, Deadlocked PROVE DeadlockNeedsThree!2
    BY DEF DeadlockNeedsThree
  <2>0. LocksTypeOK /\ TakenInv /\ LineInv /\ OnePlace
    BY DEF LocksInv
  <2>1. ASSUME NEW l \in Locks, line[l] # <<>>
        PROVE  \E c \in Callers : \E t \in Held(c) : /\ t.lock = l /\ (t.mode = "write" \/ Head(line[l]).mode = "write")
                                                     /\ \E m \in Locks : Waits(c, m)
    <3>0. PICK c \in Callers :
            \E t \in Held(c) : t.lock = l /\ (t.mode # "read" \/ Head(line[l]).mode # "read")
      BY <2>1 DEF Deadlocked, Grantable
    <3>1. PICK t \in Held(c) : t.lock = l /\ (t.mode # "read" \/ Head(line[l]).mode # "read")
      BY <3>0
    <3>2. t \in Takes /\ Head(line[l]).mode \in Modes /\ call[c] # <<>>
      BY <2>0, <2>1, <3>1, LockTypes, TailFacts DEF TakenInv, Held, Waiters
    <3> QED BY <3>1, <3>2 DEF Deadlocked, Takes, Modes
  <2>2. ASSUME NEW c \in Callers, NEW l \in Locks, Waits(c, l) PROVE line[l] # <<>>
    BY <2>0, <2>2 DEF Waits, LocksTypeOK
  <2>3. line["peers"] # <<>> /\ line["state"] # <<>>
    <3>1. \E l \in Locks : line[l] # <<>>
      BY <2>2 DEF Deadlocked
    <3>2. line["peers"] # <<>> => line["state"] # <<>>
      BY <2>1, <2>2, HoldsAndWaits DEF Locks, Take
    <3>3. line["state"] # <<>> => line["peers"] # <<>>
      BY <2>1, <2>2, HoldsAndWaits DEF Locks, Take
    <3> QED BY <3>1, <3>2, <3>3 DEF Locks
  <2>4. PICK a \in Callers : Take("state", "write") \in Held(a) /\ Waits(a, "peers")
    BY <2>1, <2>3, HoldsAndWaits DEF Locks, Take
  <2>5. PICK b \in Callers : Take("peers", "read") \in Held(b) /\ Waits(b, "state") /\ Head(line["peers"]).mode = "write"
    BY <2>1, <2>3, HoldsAndWaits DEF Locks, Take
  <2>6. PICK c \in Callers : Head(line["peers"]) = [by |-> c, mode |-> "write"] /\ line["peers"][1].by = c
                             /\ line["peers"][1].mode = "write" /\ Len(line["peers"]) \in Nat \ {0}
    <3>1. line["peers"] \in Seq(Waiters)
      BY <2>0, LockTypes DEF Locks
    <3>2. Head(line["peers"]) = line["peers"][1] /\ Head(line["peers"]) \in Waiters /\ Len(line["peers"]) \in Nat \ {0}
      BY <2>3, <3>1, TailFacts
    <3> QED BY <2>5, <3>2 DEF Waiters
  <2>7. Waits(c, "peers")
    BY <2>0, <2>6, LockTypes DEF Waits, Locks
  <2>8. c # a /\ c # b /\ a # b
    BY <2>4, <2>5, <2>6, <2>7, HoldsAndWaits DEF Locks, Take
  <2> QED BY <2>4, <2>5, <2>6, <2>7, <2>8 DEF Locks
<1> QED BY <1>1, <1>2, <1>3, PTL DEF LocksSpec

(***************************************************************************)
(* The handler of protocol messages.                                       *)
(***************************************************************************)
(* The handlers alone. *)
HandlerSpec == HandlerInit /\ [][HandlerNext]_hvars

MessageKinds == {"hello", "other version", "error", "summary", "manifest", "want", "chunk"}

Subjects == Folders \cup AllChunks \cup {{}}

Handlings == [at : {"start", "progress", "Syncing", "Completed"}, kind : MessageKinds, about : Subjects]

Entries == [by : Handlers, mode : {"read", "write"}]

InLine == {"start", "Syncing", "Completed"}

HandlerTypeOK ==
    /\ session \in {"WaitingForHello", "Connected", "Syncing", "Completed", "Failed"}
    /\ handling \in [Handlers -> Handlings \cup {Idle}]
    /\ statequeue \in Seq(Entries)
    /\ readers \subseteq Handlers /\ holder \in Handlers \cup {NoHandler}

(* Whoever asks for the state stands in line, once. *)
StateQueueInv ==
    /\ \A i \in 1..Len(statequeue) : handling[statequeue[i].by].at \in InLine
    /\ \A i, j \in 1..Len(statequeue) : statequeue[i].by = statequeue[j].by => i = j
    /\ \A h \in Handlers : handling[h].at \in InLine => \E i \in 1..Len(statequeue) : statequeue[i].by = h

(* Whoever reads the state waits for the progress, and was welcome. *)
ReadersInv ==
    \A h \in Handlers :
        /\ handling[h].at = "progress" <=> h \in readers
        /\ h \in readers => handling[h].kind \in DOMAIN Welcome /\ session \in Welcome[handling[h].kind]

(* Whoever holds the progress is a summary that found the session Connected. *)
HolderInv ==
    /\ \A h \in Handlers : handling[h].at = "Syncing" => holder = h
    /\ holder # NoHandler => /\ handling[holder].at = "Syncing" /\ handling[holder].kind = "summary"
                             /\ session # "Syncing"

HandlerInv == HandlerTypeOK /\ StateQueueInv /\ ReadersInv /\ HolderInv

LEMMA HandlingTypes ==
    ASSUME HandlerTypeOK
    PROVE  /\ \A i \in 1..Len(statequeue) : statequeue[i] \in Entries /\ statequeue[i].by \in Handlers
           /\ statequeue \in Seq(Entries) /\ Len(statequeue) \in Nat
           /\ \A h \in Handlers : handling[h].at # "idle" => handling[h] \in Handlings
           /\ Idle.at = "idle"
<1>1. statequeue \in Seq(Entries) /\ \A e \in Entries : e.by \in Handlers
  BY DEF HandlerTypeOK, Entries
<1>2. Len(statequeue) \in Nat /\ \A i \in 1..Len(statequeue) : statequeue[i] \in Entries
  BY <1>1
<1>3. \A h \in Handlers : handling[h].at # "idle" => handling[h] \in Handlings
  BY DEF HandlerTypeOK, Idle
<1> QED BY <1>1, <1>2, <1>3 DEF Idle

(* A handler that did not wait asks for the state. *)
LEMMA Enqueue ==
    ASSUME HandlerTypeOK, StateQueueInv, NEW h \in Handlers, NEW mode \in {"read", "write"},
           handling[h].at \notin InLine, handling'[h].at \in InLine,
           \A g \in Handlers : g # h => handling'[g] = handling[g],
           Queued(h, mode)
    PROVE  StateQueueInv' /\ statequeue' \in Seq(Entries)
<1>1. PICK e \in Entries : e = [by |-> h, mode |-> mode] /\ e.by = h
  <2>1. [by |-> h, mode |-> mode] \in Entries
    BY DEF Entries
  <2> QED BY <2>1
<1>2. statequeue' = Append(statequeue, e)
  BY <1>1 DEF Queued
<1>3. /\ statequeue' \in Seq(Entries) /\ Len(statequeue) \in Nat /\ Len(statequeue') = Len(statequeue) + 1
      /\ \A i \in 1..Len(statequeue) : statequeue'[i] = statequeue[i]
      /\ statequeue'[Len(statequeue) + 1] = e
  BY <1>2, HandlingTypes, AppendFacts
<1>4. \A i \in 1..Len(statequeue) : statequeue[i].by \in Handlers /\ statequeue[i].by # h
  BY HandlingTypes DEF StateQueueInv
<1>5. \A i \in 1..Len(statequeue') : i \in 1..Len(statequeue) \/ i = Len(statequeue) + 1
  BY <1>3
<1>6. \A i \in 1..Len(statequeue') : handling'[statequeue'[i].by].at \in InLine
  BY <1>1, <1>3, <1>4, <1>5 DEF StateQueueInv
<1>7. ASSUME NEW i \in 1..Len(statequeue'), NEW j \in 1..Len(statequeue'), statequeue'[i].by = statequeue'[j].by
      PROVE  i = j
  <2>1. CASE i \in 1..Len(statequeue) /\ j \in 1..Len(statequeue)
    BY <1>3, <1>7, <2>1 DEF StateQueueInv
  <2>2. CASE i \in 1..Len(statequeue) /\ j = Len(statequeue) + 1
    BY <1>1, <1>3, <1>4, <1>7, <2>2
  <2>3. CASE i = Len(statequeue) + 1 /\ j \in 1..Len(statequeue)
    BY <1>1, <1>3, <1>4, <1>7, <2>3
  <2>4. CASE i = Len(statequeue) + 1 /\ j = Len(statequeue) + 1
    BY <2>4
  <2> QED BY <1>5, <2>1, <2>2, <2>3, <2>4
<1>8. ASSUME NEW g \in Handlers, handling'[g].at \in InLine PROVE \E i \in 1..Len(statequeue') : statequeue'[i].by = g
  <2>1. CASE g = h
    <3>1. Len(statequeue) + 1 \in 1..Len(statequeue')
      BY <1>3
    <3> QED BY <1>1, <1>3, <2>1, <3>1
  <2>2. CASE g # h
    <3>1. PICK i \in 1..Len(statequeue) : statequeue[i].by = g
      BY <1>8, <2>2 DEF StateQueueInv
    <3>2. i \in 1..Len(statequeue')
      BY <1>3
    <3> QED BY <1>3, <3>1, <3>2
  <2> QED BY <2>1, <2>2
<1> QED BY <1>3, <1>6, <1>7, <1>8 DEF StateQueueInv

(* The first in line gets the state. *)
LEMMA Dequeue ==
    ASSUME HandlerTypeOK, StateQueueInv, NEW h \in Handlers, NEW mode,
           handling'[h].at \notin InLine,
           \A g \in Handlers : g # h => handling'[g] = handling[g],
           Granted(h, mode)
    PROVE  StateQueueInv' /\ statequeue' \in Seq(Entries)
<1>1. /\ statequeue # <<>> /\ statequeue \in Seq(Entries) /\ statequeue' = Tail(statequeue)
      /\ Head(statequeue).by = h
  BY HandlingTypes DEF Granted
<1>2. /\ Len(statequeue) \in Nat \ {0} /\ statequeue[1].by = h /\ statequeue' \in Seq(Entries)
      /\ Len(statequeue') = Len(statequeue) - 1
      /\ \A i \in 1..Len(statequeue') : statequeue'[i] = statequeue[i + 1] /\ i + 1 \in 1..Len(statequeue)
  BY <1>1, TailFacts
<1>3. \A i \in 1..Len(statequeue) : i # 1 => statequeue[i].by # h /\ statequeue[i].by \in Handlers
  BY <1>2, HandlingTypes DEF StateQueueInv
<1>4. \A i \in 1..Len(statequeue') : statequeue[i + 1].by # h /\ statequeue[i + 1].by \in Handlers
  <2> SUFFICES ASSUME NEW i \in 1..Len(statequeue')
               PROVE  statequeue[i + 1].by # h /\ statequeue[i + 1].by \in Handlers
    OBVIOUS
  <2>1. i + 1 \in 1..Len(statequeue) /\ i + 1 # 1
    BY <1>2
  <2> QED BY <1>3, <2>1
<1>5. \A i \in 1..Len(statequeue') : handling'[statequeue'[i].by].at \in InLine
  BY <1>2, <1>4 DEF StateQueueInv
<1>6. \A i, j \in 1..Len(statequeue') : statequeue'[i].by = statequeue'[j].by => i = j
  <2> SUFFICES ASSUME NEW i \in 1..Len(statequeue'), NEW j \in 1..Len(statequeue'), statequeue'[i].by = statequeue'[j].by
               PROVE  i = j
    OBVIOUS
  <2>1. i + 1 = j + 1
    BY <1>2 DEF StateQueueInv
  <2> QED BY <1>2, <2>1
<1>7. ASSUME NEW g \in Handlers, handling'[g].at \in InLine PROVE \E i \in 1..Len(statequeue') : statequeue'[i].by = g
  <2>1. g # h
    BY <1>7
  <2>2. PICK i \in 1..Len(statequeue) : statequeue[i].by = g
    BY <1>7, <2>1 DEF StateQueueInv
  <2>3. i - 1 \in 1..Len(statequeue') /\ (i - 1) + 1 = i
    BY <1>2, <2>1, <2>2
  <2> QED BY <1>2, <2>2, <2>3
<1> QED BY <1>2, <1>5, <1>6, <1>7 DEF StateQueueInv

(* Nobody new stands in line. *)
LEMMA LineStays ==
    ASSUME HandlerTypeOK, StateQueueInv, NEW h \in Handlers,
           handling[h].at \notin InLine, handling'[h].at \notin InLine,
           \A g \in Handlers : g # h => handling'[g] = handling[g],
           UNCHANGED statequeue
    PROVE  StateQueueInv' /\ statequeue' \in Seq(Entries)
<1>1. \A i \in 1..Len(statequeue) : statequeue[i].by \in Handlers /\ statequeue[i].by # h
  BY HandlingTypes DEF StateQueueInv
<1> QED BY <1>1, HandlingTypes DEF StateQueueInv

(* Handlers that all wait are FolderSummary handlers of a Connected session,
   one of which holds the progress: no other two protocol messages block each
   other. *)
THEOREM OnlySummariesDeadlock == HandlerSpec => []DeadlockNeedsTwoSummaries
<1> USE HandlerAssumption
<1>1. HandlerInit => HandlerInv
  BY DEF HandlerInit, HandlerInv, HandlerTypeOK, StateQueueInv, ReadersInv, HolderInv, Idle, InLine
<1>2. HandlerInv /\ [HandlerNext]_hvars => HandlerInv'
  <2> SUFFICES ASSUME HandlerInv, [HandlerNext]_hvars PROVE HandlerInv'
    OBVIOUS
  <2>0. HandlerTypeOK /\ StateQueueInv /\ ReadersInv /\ HolderInv
    BY DEF HandlerInv
  <2>x. Idle.at = "idle" /\ "idle" \notin InLine /\ "progress" \notin InLine /\ "start" \in InLine /\ "Syncing" \in InLine /\ "Completed" \in InLine
    BY DEF Idle, InLine
  <2>1. ASSUME NEW h \in Handlers, NEW k \in MessageKinds, NEW about \in Subjects, Receive(h, Message(k, about))
        PROVE  HandlerInv'
    <3>1. /\ handling[h] = Idle /\ handling' = [handling EXCEPT ![h] = [at |-> "start", kind |-> k, about |-> about]]
          /\ Queued(h, IF k \in DOMAIN Welcome THEN "read" ELSE "write")
          /\ UNCHANGED <<session, readers, holder>>
      BY <2>1 DEF Receive, Message
    <3>2. handling'[h].at = "start" /\ \A g \in Handlers : g # h => handling'[g] = handling[g]
      BY <2>0, <3>1 DEF HandlerTypeOK
    <3>3. StateQueueInv' /\ statequeue' \in Seq(Entries)
      BY <2>0, <2>x, <3>1, <3>2, Enqueue
    <3>4. HandlerTypeOK'
      BY <2>0, <3>1, <3>3 DEF HandlerTypeOK, Handlings
    <3>5. ReadersInv'
      BY <2>0, <2>x, <3>1, <3>2 DEF ReadersInv
    <3>6. HolderInv'
      BY <2>0, <2>x, <3>1, <3>2 DEF HolderInv, HandlerTypeOK
    <3> QED BY <3>3, <3>4, <3>5, <3>6 DEF HandlerInv
  <2>2. ASSUME NEW h \in Handlers, handling[h].at = "start", Granted(h, "write"), Returned(h),
               session' \in {session, "Connected", "Failed"}, UNCHANGED <<readers, holder>>
        PROVE  HandlerInv'
    <3>1. handling'[h] = Idle /\ \A g \in Handlers : g # h => handling'[g] = handling[g]
      BY <2>0, <2>2 DEF HandlerTypeOK, Returned
    <3>2. readers = {}
      BY <2>2 DEF Granted
    <3>3. StateQueueInv' /\ statequeue' \in Seq(Entries)
      BY <2>0, <2>2, <2>x, <3>1, Dequeue
    <3>4. HandlerTypeOK'
      BY <2>0, <2>2, <3>3 DEF HandlerTypeOK, Returned
    <3>5. ReadersInv'
      BY <2>0, <2>2, <2>x, <3>1, <3>2 DEF ReadersInv
    <3>6. HolderInv'
      BY <2>0, <2>2, <2>x, <3>1 DEF HolderInv, HandlerTypeOK
    <3> QED BY <3>3, <3>4, <3>5, <3>6 DEF HandlerInv
  <2>3. ASSUME NEW h \in Handlers, CheckState(h) PROVE HandlerInv'
    <3>1. /\ handling[h].at = "start" /\ handling[h].kind \in DOMAIN Welcome /\ Granted(h, "read")
          /\ UNCHANGED <<session, holder>> /\ handling[h] \in Handlings
      BY <2>0, <2>3, HandlingTypes DEF CheckState
    <3>2. CASE session \in Welcome[handling[h].kind]
      <4>1. readers' = readers \cup {h} /\ handling' = [handling EXCEPT ![h].at = "progress"]
        BY <2>3, <3>2 DEF CheckState, MoveTo
      <4>2. /\ handling'[h].at = "progress" /\ handling'[h].kind = handling[h].kind /\ handling'[h] \in Handlings
            /\ \A g \in Handlers : g # h => handling'[g] = handling[g]
        BY <2>0, <3>1, <4>1 DEF HandlerTypeOK, Handlings
      <4>3. StateQueueInv' /\ statequeue' \in Seq(Entries)
        BY <2>0, <2>x, <3>1, <4>2, Dequeue
      <4>4. HandlerTypeOK'
        BY <2>0, <3>1, <4>1, <4>2, <4>3 DEF HandlerTypeOK
      <4>5. ReadersInv'
        BY <2>0, <3>1, <3>2, <4>1, <4>2 DEF ReadersInv
      <4>6. HolderInv'
        BY <2>0, <3>1, <4>2 DEF HolderInv, HandlerTypeOK
      <4> QED BY <4>3, <4>4, <4>5, <4>6 DEF HandlerInv
    <3>3. CASE session \notin Welcome[handling[h].kind]
      <4>1. readers' = readers /\ handling' = [handling EXCEPT ![h] = Idle]
        BY <2>3, <3>3 DEF CheckState, Returned
      <4>2. handling'[h] = Idle /\ \A g \in Handlers : g # h => handling'[g] = handling[g]
        BY <2>0, <4>1 DEF HandlerTypeOK
      <4>3. StateQueueInv' /\ statequeue' \in Seq(Entries)
        BY <2>0, <2>x, <3>1, <4>2, Dequeue
      <4>4. HandlerTypeOK'
        BY <2>0, <3>1, <4>1, <4>2, <4>3 DEF HandlerTypeOK
      <4>5. ReadersInv'
        BY <2>0, <2>x, <3>1, <4>1, <4>2 DEF ReadersInv
      <4>6. HolderInv'
        BY <2>0, <2>x, <3>1, <4>2 DEF HolderInv, HandlerTypeOK
      <4> QED BY <4>3, <4>4, <4>5, <4>6 DEF HandlerInv
    <3> QED BY <3>2, <3>3
  (* A reader is done: with nothing else to do, or with the state to write. *)
  <2>4. ASSUME NEW h \in Handlers, handling[h].at = "progress", readers' = readers \ {h}, Returned(h),
               UNCHANGED <<session, statequeue, holder>>
        PROVE  HandlerInv'
    <3>1. handling'[h] = Idle /\ \A g \in Handlers : g # h => handling'[g] = handling[g]
      BY <2>0, <2>4 DEF HandlerTypeOK, Returned
    <3>2. StateQueueInv' /\ statequeue' \in Seq(Entries)
      BY <2>0, <2>4, <2>x, <3>1, LineStays
    <3>3. HandlerTypeOK'
      BY <2>0, <2>4, <3>2 DEF HandlerTypeOK, Returned
    <3>4. ReadersInv'
      BY <2>0, <2>4, <2>x, <3>1 DEF ReadersInv
    <3>5. HolderInv'
      BY <2>0, <2>4, <2>x, <3>1 DEF HolderInv, HandlerTypeOK
    <3> QED BY <3>2, <3>3, <3>4, <3>5 DEF HandlerInv
  <2>5. ASSUME NEW h \in Handlers, NEW next \in {"Syncing", "Completed"}, handling[h].at = "progress",
               readers' = readers \ {h}, Queued(h, "write"), MoveTo(h, next),
               \/ next = "Completed" /\ UNCHANGED holder
               \/ next = "Syncing" /\ holder = NoHandler /\ holder' = h /\ handling[h].kind = "summary" /\ session = "Connected",
               UNCHANGED session
        PROVE  HandlerInv'
    <3>1. /\ handling' = [handling EXCEPT ![h].at = next] /\ handling[h] \in Handlings
      BY <2>0, <2>5, HandlingTypes DEF MoveTo
    <3>2. /\ handling'[h].at = next /\ handling'[h].kind = handling[h].kind /\ handling'[h] \in Handlings
          /\ \A g \in Handlers : g # h => handling'[g] = handling[g]
      BY <2>0, <3>1 DEF HandlerTypeOK, Handlings
    <3>3. StateQueueInv' /\ statequeue' \in Seq(Entries)
      BY <2>0, <2>5, <2>x, <3>2, Enqueue
    <3>4. HandlerTypeOK'
      BY <2>0, <2>5, <3>1, <3>2, <3>3 DEF HandlerTypeOK
    <3>5. ReadersInv'
      BY <2>0, <2>5, <3>2 DEF ReadersInv
    <3>6. HolderInv'
      BY <2>0, <2>5, <3>2 DEF HolderInv, HandlerTypeOK
    <3> QED BY <3>3, <3>4, <3>5, <3>6 DEF HandlerInv
  <2>6. ASSUME NEW h \in Handlers, WriteState(h) PROVE HandlerInv'
    <3>1. /\ handling[h].at \in {"Syncing", "Completed"} /\ Granted(h, "write") /\ readers = {}
          /\ session' = handling[h].at /\ holder' = (IF holder = h THEN NoHandler ELSE holder)
          /\ handling' = [handling EXCEPT ![h] = Idle] /\ UNCHANGED readers
      BY <2>6 DEF WriteState, Returned, Granted
    <3>2. handling'[h] = Idle /\ \A g \in Handlers : g # h => handling'[g] = handling[g]
      BY <2>0, <3>1 DEF HandlerTypeOK
    <3>3. StateQueueInv' /\ statequeue' \in Seq(Entries)
      BY <2>0, <2>x, <3>1, <3>2, Dequeue
    <3>4. HandlerTypeOK'
      BY <2>0, <3>1, <3>3 DEF HandlerTypeOK
    <3>5. ReadersInv'
      BY <2>0, <2>x, <3>1, <3>2 DEF ReadersInv
    <3>6. HolderInv'
      BY <2>0, <2>x, <3>1, <3>2 DEF HolderInv, HandlerTypeOK
    <3> QED BY <3>3, <3>4, <3>5, <3>6 DEF HandlerInv
  <2>7. CASE UNCHANGED hvars
    BY <2>0, <2>7 DEF HandlerInv, HandlerTypeOK, StateQueueInv, ReadersInv, HolderInv, hvars
  <2>8. ASSUME NEW h \in Handlers, handle_hello(h) \/ handle_error(h) PROVE HandlerInv'
    BY <2>2, <2>8 DEF handle_hello, handle_error
  <2>9. ASSUME NEW h \in Handlers, handle_folder_summary(h) PROVE HandlerInv'
    <3>1. CASE session = "Connected"
      BY <2>5, <2>9, <3>1 DEF handle_folder_summary, InProgress
    <3>2. CASE session # "Connected"
      BY <2>4, <2>9, <3>2 DEF handle_folder_summary, InProgress
    <3> QED BY <3>1, <3>2
  <2>10. ASSUME NEW h \in Handlers, handle_manifest(h) \/ handle_want(h) PROVE HandlerInv'
    BY <2>4, <2>10 DEF handle_manifest, handle_want, InProgress
  <2>11. ASSUME NEW h \in Handlers, handle_chunk_data(h) PROVE HandlerInv'
    <3>1. CASE Known # {} /\ \A f \in Known : is_complete(progress'[f])
      BY <2>5, <2>11, <3>1 DEF handle_chunk_data, InProgress
    <3>2. CASE ~(Known # {} /\ \A f \in Known : is_complete(progress'[f]))
      BY <2>4, <2>11, <3>2 DEF handle_chunk_data, InProgress
    <3> QED BY <3>1, <3>2
  <2> QED BY <2>1, <2>3, <2>6, <2>7, <2>8, <2>9, <2>10, <2>11 DEF HandlerNext, MessageKinds, Subjects
<1>3. HandlerInv => DeadlockNeedsTwoSummaries
  <2> SUFFICES ASSUME HandlerInv, \E h \in Handlers : handling[h] # Idle,
                      \A h \in Handlers : handling[h] # Idle => Blocked(h)
               PROVE  /\ holder # NoHandler /\ handling[holder].kind = "summary" /\ handling[holder].at = "Syncing"
                      /\ readers # {} /\ \A h \in readers : handling[h].kind = "summary" /\ session = "Connected"
    BY DEF DeadlockNeedsTwoSummaries
  <2>0. HandlerTypeOK /\ StateQueueInv /\ ReadersInv /\ HolderInv
    BY DEF HandlerInv
  <2>1. \A h \in Handlers : handling[h] # Idle => handling[h].at \in InLine \cup {"progress"}
    BY <2>0 DEF HandlerTypeOK, Handlings, InLine
  (* The first in line is blocked by readers. *)
  <2>2. ASSUME NEW h \in Handlers, handling[h].at \in InLine PROVE readers # {}
    <3>1. PICK i \in 1..Len(statequeue) : statequeue[i].by = h
      BY <2>0, <2>2 DEF StateQueueInv
    <3>2. statequeue # <<>> /\ statequeue \in Seq(Entries)
      BY <2>0, <3>1, HandlingTypes
    <3>3. Head(statequeue) = statequeue[1] /\ 1 \in 1..Len(statequeue)
      BY <3>2, TailFacts
    <3>4. PICK g \in Handlers : g = Head(statequeue).by /\ handling[g].at \in InLine
      BY <2>0, <3>3, HandlingTypes DEF StateQueueInv
    <3>5. handling[g] # Idle /\ handling[g].at # "progress"
      BY <3>4 DEF Idle, InLine
    <3> QED BY <3>4, <3>5 DEF Blocked
  <2>3. readers # {}
    <3>1. PICK h \in Handlers : handling[h].at \in InLine \/ handling[h].at = "progress"
      BY <2>1
    <3> QED BY <2>0, <2>2, <3>1 DEF ReadersInv
  <2>4. PICK r \in readers : r \in Handlers /\ handling[r].at = "progress"
    BY <2>0, <2>3 DEF HandlerTypeOK, ReadersInv
  <2>5. holder # NoHandler
    BY <2>4 DEF Blocked, Idle, InLine
  <2>6. ASSUME NEW h \in readers PROVE handling[h].kind = "summary" /\ session = "Connected"
    BY <2>0, <2>5 DEF HandlerTypeOK, ReadersInv, HolderInv, Welcome
  <2> QED BY <2>0, <2>3, <2>5, <2>6 DEF HolderInv
<1> QED BY <1>1, <1>2, <1>3, PTL DEF HandlerSpec
(***************************************************************************)
(* RecoveryLog, with a single caller.                                      *)
(***************************************************************************)
ManagerSteps == {"idle", "read", "truncate", "fill", "rename", "saved", "attempt",
                 "rm_read", "rm_truncate", "rm_fill"}

ManagerMethods == {"none", "start", "checkpoint", "complete", "fail", "recover", "settle"}

Removing == {"rm_read", "rm_truncate", "rm_fill"}

LogTypeOK(t) ==
    /\ tracked \in Logs /\ log \in Logs /\ loaded \in Logs /\ log_tmp \in Logs \cup {NoTemp}
    /\ at \in [Clients -> ManagerSteps] /\ method \in [Clients -> ManagerMethods]
    /\ id \in [Clients -> Ids \cup {NoOp}] /\ rec \in [Clients -> Records]
    /\ snap \in [Clients -> Logs] /\ opened \in [Clients -> {"gone", "tmp", "log"}]
    /\ manager \in {"up", "recovering"}
    /\ used \subseteq Ids /\ owed \subseteq used /\ completed \subseteq used
    /\ at[t] # "idle" => id[t] \in used

(* Where each method is, and what it has open. *)
StepsInv(t) ==
    /\ at[t] = "fill" => opened[t] = "tmp"
    /\ at[t] = "rm_fill" => opened[t] = "log"
    /\ at[t] \in Removing => method[t] = "complete"
    /\ at[t] = "attempt" => method[t] = "recover"
    /\ at[t] # "idle" => (manager = "recovering" <=> method[t] \in {"recover", "settle"})
    /\ manager = "recovering" => tracked = Blank
    /\ manager = "up" => loaded = Blank

(* Nothing is known of an identifier that nobody was given. *)
Unused(t) ==
    \A i \in Ids \ used :
        /\ tracked[i] = NoOp /\ log[i] = NoOp /\ loaded[i] = NoOp /\ snap[t][i] = NoOp
        /\ log_tmp # NoTemp => log_tmp[i] = NoOp

(* A record that a recovery would take up. *)
Takable(r) == r # NoOp /\ r.status \in Recoverable

Fair(l) ==
    \A i \in Ids : Takable(l[i]) => i \notin completed /\ l[i].retries < MaxRetries

(* What is about to become the log is as fit for a recovery as the log is. *)
FairInv(t) ==
    /\ Fair(log) /\ Fair(tracked) /\ Fair(loaded)
    /\ at[t] \in {"truncate", "fill", "rm_truncate", "rm_fill"} => Fair(snap[t])
    /\ at[t] = "rename" /\ log_tmp # NoTemp => Fair(log_tmp)
    /\ \A i \in Ids : /\ loaded[i] # NoOp => Takable(loaded[i])
                      /\ tracked[i] # NoOp => i \notin completed

(* The record being saved, and where it has arrived. *)
RecInv(t) ==
    at[t] # "idle" =>
        /\ Takable(rec[t]) => rec[t].retries < MaxRetries
        /\ at[t] \notin Removing => id[t] \notin completed
        /\ method[t] \in {"start", "checkpoint", "fail"} => tracked[id[t]] = rec[t]
        /\ method[t] = "complete" => tracked[id[t]] = NoOp /\ rec[t].status = "Completed"
        /\ method[t] = "recover" => rec[t].status = "Recovering" /\ rec[t].retries < MaxRetries
        /\ at[t] \in {"truncate", "fill"} => snap[t][id[t]] = rec[t]
        /\ at[t] = "rename" /\ log_tmp # NoTemp => log_tmp[id[t]] = rec[t]
        /\ at[t] \in {"saved", "attempt", "rm_read", "rm_truncate"} => log[id[t]] = rec[t]
        /\ at[t] \in {"rm_truncate", "rm_fill"} => snap[t][id[t]] = NoOp
        /\ at[t] = "rm_fill" => log = Blank
        /\ method[t] # "none"

(* Log l has all that is owed and agrees with memory, except on some of them. *)
Keeps(l, except) ==
    \A j \in Ids \ except : /\ j \in owed => l[j] # NoOp
                            /\ tracked[j] # NoOp => l[j] = tracked[j]

KeptInv(t) ==
    ~damaged =>
        /\ at[t] = "idle" => Keeps(log, {})
        /\ at[t] \notin {"idle", "rm_fill"} =>
              Keeps(log, {id[t]}) /\ (id[t] \in owed => log[id[t]] # NoOp)
        /\ at[t] \in {"truncate", "fill", "rm_truncate", "rm_fill"} => Keeps(snap[t], {id[t]})
        /\ at[t] = "rename" /\ log_tmp # NoTemp => Keeps(log_tmp, {id[t]})

LogInv(t) ==
    LogTypeOK(t) /\ StepsInv(t) /\ Unused(t) /\ FairInv(t) /\ RecInv(t) /\ KeptInv(t)

LEMMA LogPut ==
    ASSUME NEW f \in Logs, NEW i \in Ids, NEW r \in Records \cup {NoOp}
    PROVE  /\ [f EXCEPT ![i] = r] \in Logs /\ [f EXCEPT ![i] = r][i] = r
           /\ \A j \in Ids \ {i} : [f EXCEPT ![i] = r][j] = f[j]
  BY DEF Logs

LEMMA LogBlank == Blank \in Logs /\ \A i \in Ids : Blank[i] = NoOp
  BY DEF Logs, Blank

LEMMA RecordFacts ==
    ASSUME NEW r \in Records
    PROVE  /\ r # NoOp /\ r.status \in Statuses /\ r.retries \in Nat /\ r.done \in BOOLEAN
           /\ r.retries <= RetryBound
           /\ \A s \in Statuses : LET q == [r EXCEPT !.status = s] IN
                 q \in Records /\ q.status = s /\ q.retries = r.retries
           /\ [r EXCEPT !.done = TRUE] \in Records
           /\ [r EXCEPT !.done = TRUE].status = r.status
           /\ [r EXCEPT !.done = TRUE].retries = r.retries
           /\ r.retries < RetryBound =>
                LET q == [r EXCEPT !.status = "Failed", !.retries = @ + 1] IN
                   q \in Records /\ q.status = "Failed"
           /\ r.retries < MaxRetries =>
                /\ Failed(r) \in Records
                /\ Failed(r).status = "InProgress" => Failed(r).retries < MaxRetries
                /\ Failed(r).status \in {"InProgress", "Failed"}
<1>1. r # NoOp
  BY LogAssumption
<1>2. /\ r.status \in Statuses /\ r.retries \in 0..RetryBound /\ r.done \in BOOLEAN
  BY DEF Records
<1>3. r.retries < RetryBound => r.retries + 1 \in 0..RetryBound
  BY <1>2 DEF RetryBound, MaxRetries
<1>4. \A s \in Statuses : /\ [r EXCEPT !.status = s] \in Records
                          /\ [r EXCEPT !.status = s].status = s
                          /\ [r EXCEPT !.status = s].retries = r.retries
  BY DEF Records
<1>5. /\ [r EXCEPT !.done = TRUE] \in Records
      /\ [r EXCEPT !.done = TRUE].status = r.status
      /\ [r EXCEPT !.done = TRUE].retries = r.retries
  BY DEF Records
<1>6. ASSUME r.retries < RetryBound
      PROVE  /\ [r EXCEPT !.status = "Failed", !.retries = @ + 1] \in Records
             /\ [r EXCEPT !.status = "Failed", !.retries = @ + 1].status = "Failed"
  BY <1>3, <1>6 DEF Records, Statuses
<1>7. ASSUME r.retries < MaxRetries
      PROVE  /\ Failed(r) \in Records
             /\ Failed(r).status = "InProgress" => Failed(r).retries < MaxRetries
             /\ Failed(r).status \in {"InProgress", "Failed"}
  <2>1. r.retries < RetryBound
    BY <1>2, <1>7 DEF RetryBound, MaxRetries
  <2>2. /\ Failed(r).retries = r.retries + 1
        /\ Failed(r).status = IF r.retries + 1 >= MaxRetries THEN "Failed" ELSE "InProgress"
    BY DEF Failed, Records
  <2>3. Failed(r) \in Records
    <3>1. r.retries + 1 \in 0..RetryBound
      BY <1>3, <2>1
    <3> DEFINE s == IF r.retries + 1 >= MaxRetries THEN "Failed" ELSE "InProgress"
    <3>2. s \in Statuses
      BY DEF Statuses
    <3> HIDE DEF s
    <3>3. [r EXCEPT !.retries = @ + 1, !.status = s] \in Records
      BY <3>1, <3>2 DEF Records
    <3> QED BY <3>3 DEF Failed, s
  <2> QED BY <1>2, <2>2, <2>3 DEF MaxRetries
<1>8. RetryBound = 4 /\ MaxRetries = 3 /\ r.retries \in Nat /\ r.retries <= RetryBound
  BY <1>2 DEF RetryBound, MaxRetries
<1> QED BY <1>1, <1>2, <1>4, <1>5, <1>6, <1>7, <1>8

(* A method has decided what to save: record r for operation i. *)
LEMMA SaveBegins ==
    ASSUME NEW c, Clients = {c}, LogInv(c), NEW i \in Ids, NEW r \in Records,
           NEW m \in ManagerMethods \ {"none"}, BeginSave(c, m, i, r),
           tracked' \in Logs, manager' = manager, loaded' = loaded,
           i \in used', used \subseteq used', used' \subseteq Ids,
           owed' = owed, completed' = completed, damaged' = damaged,
           m \in {"recover", "settle"} <=> manager = "recovering",
           \A j \in Ids \ {i} : tracked'[j] = tracked[j],
           tracked' = tracked \/ manager = "up",
           Takable(r) => r.retries < MaxRetries,
           i \notin completed,
           m \in {"start", "checkpoint", "fail"} => tracked'[i] = r,
           m = "complete" => tracked'[i] = NoOp /\ r.status = "Completed",
           m = "recover" => r.status = "Recovering" /\ r.retries < MaxRetries,
           at[c] \in {"idle", "attempt"},
           i \in owed => log[i] # NoOp \/ damaged,
           at[c] = "attempt" => id[c] = i
    PROVE  LogInv(c)'
<1>1. /\ at'[c] = "read" /\ method'[c] = m /\ id'[c] = i /\ rec'[c] = r
      /\ log' = log /\ log_tmp' = log_tmp /\ snap' = snap /\ opened' = opened
      /\ at' \in [Clients -> ManagerSteps] /\ method' \in [Clients -> ManagerMethods]
      /\ id' \in [Clients -> Ids \cup {NoOp}] /\ rec' \in [Clients -> Records]
  BY DEF BeginSave, Advance, LogInv, LogTypeOK, ManagerSteps
<1>2. LogTypeOK(c)'
  BY <1>1 DEF LogInv, LogTypeOK
<1>3. StepsInv(c)'
  BY <1>1 DEF LogInv, StepsInv, Removing
<1>4. Unused(c)'
  BY <1>1 DEF LogInv, Unused
<1>5. FairInv(c)'
  <2>1. Fair(tracked)'
    <3>1. Takable(tracked'[i]) => i \notin completed /\ tracked'[i].retries < MaxRetries
      <4>1. CASE m \in {"recover", "settle"}
        BY <4>1 DEF LogInv, FairInv, Fair
      <4>2. CASE m \in {"start", "checkpoint", "fail"}
        BY <4>2
      <4>3. CASE m = "complete"
        BY <4>3 DEF Takable
      <4> QED BY <4>1, <4>2, <4>3 DEF ManagerMethods
    <3>2. \A j \in Ids \ {i} :
             Takable(tracked'[j]) => j \notin completed /\ tracked'[j].retries < MaxRetries
      BY DEF LogInv, FairInv, Fair
    <3> QED BY <3>1, <3>2 DEF Fair
  <2> QED BY <1>1, <2>1 DEF LogInv, FairInv, Fair
<1>6. RecInv(c)'
  BY <1>1 DEF RecInv, Removing, ManagerMethods
<1>7. KeptInv(c)'
  BY <1>1 DEF LogInv, KeptInv, Keeps
<1> QED BY <1>2, <1>3, <1>4, <1>5, <1>6, <1>7 DEF LogInv

LEMMA CallPreserves ==
    ASSUME NEW c, Clients = {c}, LogInv(c), CallMethod(c)
    PROVE  LogInv(c)'
<1>0. /\ manager = "up" /\ at[c] = "idle" /\ tracked \in Logs /\ owed \subseteq used
      /\ used \subseteq Ids /\ completed \subseteq used
      /\ \A i \in Ids : tracked[i] # NoOp => i \notin completed
  BY DEF CallMethod, LogInv, LogTypeOK, FairInv
<1> PICK i \in Ids : \/ start_operation(c, i) \/ checkpoint_operation(c, i)
                     \/ complete_operation(c, i) \/ fail_operation(c, i)
  BY DEF CallMethod
<1>1. CASE start_operation(c, i)
  <2>1. Fresh \in Records /\ Fresh.status = "InProgress" /\ Fresh.retries = 0
    BY DEF Fresh, Records, Statuses, RetryBound, MaxRetries
  <2>2. /\ tracked' \in Logs /\ tracked'[i] = Fresh /\ \A j \in Ids \ {i} : tracked'[j] = tracked[j]
    BY <1>0, <1>1, <2>1 DEF start_operation, Logs
  <2>3. /\ BeginSave(c, "start", i, Fresh) /\ used' = used \cup {i} /\ i \notin used
        /\ manager' = manager /\ loaded' = loaded /\ owed' = owed /\ completed' = completed
        /\ damaged' = damaged
    BY <1>1 DEF start_operation
  <2>4. "start" \in ManagerMethods \ {"none"}
        /\ "start" \notin {"recover", "settle", "complete"}
    BY DEF ManagerMethods
  <2>5. Takable(Fresh) => Fresh.retries < MaxRetries
    BY <2>1 DEF MaxRetries
  <2> QED BY <1>0, <2>1, <2>2, <2>3, <2>4, <2>5, SaveBegins
<1> DEFINE r == tracked[i]
<1>2. ASSUME i \in owed, r # NoOp
      PROVE  /\ r \in Records /\ i \in used /\ i \notin completed /\ (log[i] # NoOp \/ damaged)
             /\ Takable(r) => r.retries < MaxRetries
  BY <1>0, <1>2 DEF Logs, LogInv, FairInv, Fair, KeptInv, Keeps
<1>3. CASE checkpoint_operation(c, i)
  <2> DEFINE q == [r EXCEPT !.done = TRUE]
  <2>0. i \in owed /\ r # NoOp
    BY <1>3 DEF checkpoint_operation, CanCall
  <2>1. q \in Records /\ q.status = r.status /\ q.retries = r.retries
    BY <1>2, <2>0, RecordFacts
  <2>6. tracked' = [tracked EXCEPT ![i] = q]
    BY <1>3 DEF checkpoint_operation
  <2>5. Takable(q) => q.retries < MaxRetries
    BY <1>2, <2>0, <2>1 DEF Takable
  <2> HIDE DEF q, r
  <2>2. /\ tracked' \in Logs /\ tracked'[i] = q /\ \A j \in Ids \ {i} : tracked'[j] = tracked[j]
    BY <1>0, <2>1, <2>6 DEF Logs
  <2>3. /\ BeginSave(c, "checkpoint", i, q)
        /\ manager' = manager /\ loaded' = loaded /\ owed' = owed /\ completed' = completed
        /\ damaged' = damaged /\ used' = used
    BY <1>3, <2>2 DEF checkpoint_operation, witnessed
  <2>4. "checkpoint" \in ManagerMethods \ {"none"}
        /\ "checkpoint" \notin {"recover", "settle", "complete"}
    BY DEF ManagerMethods
  <2> QED BY <1>0, <1>2, <2>0, <2>1, <2>2, <2>3, <2>4, <2>5, SaveBegins
<1>4. CASE complete_operation(c, i)
  <2> DEFINE q == [r EXCEPT !.status = "Completed"]
  <2>0. i \in owed /\ r # NoOp
    BY <1>4 DEF complete_operation, CanCall
  <2>1. q \in Records /\ q.status = "Completed"
    BY <1>2, <2>0, RecordFacts DEF Statuses
  <2>6. tracked' = [tracked EXCEPT ![i] = NoOp] /\ BeginSave(c, "complete", i, q)
    BY <1>4 DEF complete_operation
  <2>5. ~ Takable(q)
    BY <2>1 DEF Takable, Recoverable
  <2> HIDE DEF q, r
  <2>2. /\ tracked' \in Logs /\ tracked'[i] = NoOp /\ \A j \in Ids \ {i} : tracked'[j] = tracked[j]
    BY <1>0, <2>6 DEF Logs
  <2>3. /\ manager' = manager /\ loaded' = loaded /\ owed' = owed /\ completed' = completed
        /\ damaged' = damaged /\ used' = used
    BY <1>4 DEF complete_operation, witnessed
  <2>4. "complete" \in ManagerMethods \ {"none"}
        /\ "complete" \notin {"recover", "settle", "start", "checkpoint", "fail"}
    BY DEF ManagerMethods
  <2> QED BY <1>0, <1>2, <2>0, <2>1, <2>2, <2>3, <2>4, <2>5, <2>6, SaveBegins
<1>5. CASE fail_operation(c, i)
  <2> DEFINE q == [r EXCEPT !.status = "Failed", !.retries = @ + 1]
  <2>0. i \in owed /\ r # NoOp /\ r.retries < RetryBound
    BY <1>5 DEF fail_operation, CanCall
  <2>1. q \in Records /\ q.status = "Failed"
    BY <1>2, <2>0, RecordFacts
  <2>6. tracked' = [tracked EXCEPT ![i] = q]
    BY <1>5 DEF fail_operation
  <2>5. ~ Takable(q)
    BY <2>1 DEF Takable, Recoverable
  <2> HIDE DEF q, r
  <2>2. /\ tracked' \in Logs /\ tracked'[i] = q /\ \A j \in Ids \ {i} : tracked'[j] = tracked[j]
    BY <1>0, <2>1, <2>6 DEF Logs
  <2>3. /\ BeginSave(c, "fail", i, q)
        /\ manager' = manager /\ loaded' = loaded /\ owed' = owed /\ completed' = completed
        /\ damaged' = damaged /\ used' = used
    BY <1>5, <2>2 DEF fail_operation, witnessed
  <2>4. "fail" \in ManagerMethods \ {"none"}
        /\ "fail" \notin {"recover", "settle", "complete"}
    BY DEF ManagerMethods
  <2> QED BY <1>0, <1>2, <2>0, <2>1, <2>2, <2>3, <2>4, <2>5, SaveBegins
<1> QED BY <1>1, <1>3, <1>4, <1>5

(* save_operation reads the log, or takes it for empty. *)
LEMMA ReadPreserves ==
    ASSUME NEW c, Clients = {c}, LogInv(c), ReadLog(c) \/ ReadLogFails(c)
    PROVE  LogInv(c)'
<1>0. /\ at \in [Clients -> ManagerSteps] /\ (id[c] \in used \/ at[c] = "idle")
      /\ used \subseteq Ids /\ log \in Logs /\ snap \in [Clients -> Logs]
      /\ rec[c] \in Records /\ log_tmp \in Logs \cup {NoTemp}
      /\ opened \in [Clients -> {"gone", "tmp", "log"}]
      /\ Blank \in Logs /\ \A i \in Ids : Blank[i] = NoOp
      /\ rec[c] # NoOp /\ ~ Takable(NoOp)
  BY LogBlank, LogAssumption DEF LogInv, LogTypeOK, Takable
<1>1. /\ at[c] = "read" /\ at'[c] = "truncate" /\ at' \in [Clients -> ManagerSteps]
      /\ UNCHANGED <<tracked, log, log_tmp, method, id, rec, opened, manager, loaded,
                     used, owed, completed>>
      /\ snap' \in [Clients -> Logs] /\ snap'[c][id[c]] = rec[c]
      /\ \/ damaged' = damaged /\ \A i \in Ids \ {id[c]} : snap'[c][i] = log[i]
         \/ damaged' /\ \A i \in Ids \ {id[c]} : snap'[c][i] = NoOp
  BY <1>0, LogPut, LogBlank DEF ReadLog, ReadLogFails, Advance, LogInv, LogTypeOK, ManagerSteps,
     Logs, witnessed
<1>2. LogTypeOK(c)'
  BY <1>0, <1>1 DEF LogInv, LogTypeOK
<1>3. StepsInv(c)'
  BY <1>0, <1>1 DEF LogInv, StepsInv, Removing
<1>4. Unused(c)'
  BY <1>0, <1>1 DEF LogInv, Unused
<1>5. FairInv(c)'
  BY <1>0, <1>1 DEF LogInv, FairInv, Fair, RecInv, StepsInv, Removing
<1>6. RecInv(c)'
  BY <1>0, <1>1 DEF LogInv, RecInv, Removing, LogTypeOK
<1>7. KeptInv(c)'
  BY <1>0, <1>1 DEF LogInv, KeptInv, Keeps, RecInv, StepsInv, Removing
<1> QED BY <1>2, <1>3, <1>4, <1>5, <1>6, <1>7 DEF LogInv

(* The temporary file is opened. *)
LEMMA OpenTempPreserves ==
    ASSUME NEW c, Clients = {c}, LogInv(c), OpenTemp(c)
    PROVE  LogInv(c)'
<1>0. /\ at \in [Clients -> ManagerSteps] /\ (id[c] \in used \/ at[c] = "idle")
      /\ used \subseteq Ids /\ log \in Logs /\ snap \in [Clients -> Logs]
      /\ rec[c] \in Records /\ log_tmp \in Logs \cup {NoTemp}
      /\ opened \in [Clients -> {"gone", "tmp", "log"}]
      /\ Blank \in Logs /\ \A i \in Ids : Blank[i] = NoOp
      /\ rec[c] # NoOp /\ ~ Takable(NoOp)
  BY LogBlank, LogAssumption DEF LogInv, LogTypeOK, Takable
<1>1. /\ at[c] = "truncate" /\ at'[c] = "fill" /\ at' \in [Clients -> ManagerSteps]
      /\ UNCHANGED <<tracked, log, method, id, rec, snap, manager, loaded, used, owed,
                     completed, damaged>>
      /\ log_tmp' = Blank /\ opened'[c] = "tmp" /\ opened' \in [Clients -> {"gone", "tmp", "log"}]
  BY <1>0, LogBlank DEF OpenTemp, Advance, LogInv, LogTypeOK, ManagerSteps, Logs, witnessed
<1>2. LogTypeOK(c)'
  BY <1>0, <1>1 DEF LogInv, LogTypeOK
<1>3. StepsInv(c)'
  BY <1>0, <1>1 DEF LogInv, StepsInv, Removing
<1>4. Unused(c)'
  BY <1>0, <1>1 DEF LogInv, Unused
<1>5. FairInv(c)'
  BY <1>0, <1>1 DEF LogInv, FairInv, Fair, RecInv, StepsInv, Removing
<1>6. RecInv(c)'
  BY <1>0, <1>1 DEF LogInv, RecInv, Removing, LogTypeOK
<1>7. KeptInv(c)'
  BY <1>0, <1>1 DEF LogInv, KeptInv, Keeps, RecInv, StepsInv, Removing
<1> QED BY <1>2, <1>3, <1>4, <1>5, <1>6, <1>7 DEF LogInv

(* The temporary file is written. *)
LEMMA FillTempPreserves ==
    ASSUME NEW c, Clients = {c}, LogInv(c), FillLogTemp(c)
    PROVE  LogInv(c)'
<1>0. /\ at \in [Clients -> ManagerSteps] /\ (id[c] \in used \/ at[c] = "idle")
      /\ used \subseteq Ids /\ log \in Logs /\ snap \in [Clients -> Logs]
      /\ rec[c] \in Records /\ log_tmp \in Logs \cup {NoTemp}
      /\ opened \in [Clients -> {"gone", "tmp", "log"}]
      /\ Blank \in Logs /\ \A i \in Ids : Blank[i] = NoOp
      /\ rec[c] # NoOp /\ ~ Takable(NoOp)
  BY LogBlank, LogAssumption DEF LogInv, LogTypeOK, Takable
<1>1. /\ at[c] = "fill" /\ at'[c] = "rename" /\ at' \in [Clients -> ManagerSteps]
      /\ UNCHANGED <<tracked, log, method, id, rec, manager, loaded, used, owed,
                     completed, damaged>>
      /\ log_tmp' = snap[c] /\ snap' \in [Clients -> Logs] /\ snap'[c] = Blank
      /\ opened' \in [Clients -> {"gone", "tmp", "log"}]
  BY <1>0, LogBlank DEF FillLogTemp, Advance, WriteOpenFile, LogInv, LogTypeOK, StepsInv,
     ManagerSteps, Logs, witnessed
<1>2. LogTypeOK(c)'
  BY <1>0, <1>1 DEF LogInv, LogTypeOK
<1>3. StepsInv(c)'
  BY <1>0, <1>1 DEF LogInv, StepsInv, Removing
<1>4. Unused(c)'
  BY <1>0, <1>1 DEF LogInv, Unused
<1>5. FairInv(c)'
  BY <1>0, <1>1 DEF LogInv, FairInv, Fair, RecInv, StepsInv, Removing
<1>6. RecInv(c)'
  BY <1>0, <1>1 DEF LogInv, RecInv, Removing, LogTypeOK
<1>7. KeptInv(c)'
  BY <1>0, <1>1 DEF LogInv, KeptInv, Keeps, RecInv, StepsInv, Removing
<1> QED BY <1>2, <1>3, <1>4, <1>5, <1>6, <1>7 DEF LogInv

(* The temporary file becomes the log. *)
LEMMA RenamePreserves ==
    ASSUME NEW c, Clients = {c}, LogInv(c), RenameTemp(c)
    PROVE  LogInv(c)'
<1>0. /\ at \in [Clients -> ManagerSteps] /\ (id[c] \in used \/ at[c] = "idle")
      /\ used \subseteq Ids /\ log \in Logs /\ snap \in [Clients -> Logs]
      /\ rec[c] \in Records /\ log_tmp \in Logs \cup {NoTemp}
      /\ opened \in [Clients -> {"gone", "tmp", "log"}]
      /\ Blank \in Logs /\ \A i \in Ids : Blank[i] = NoOp
      /\ rec[c] # NoOp /\ ~ Takable(NoOp)
  BY LogBlank, LogAssumption DEF LogInv, LogTypeOK, Takable
<1>1. /\ at[c] = "rename" /\ at'[c] = "saved" /\ at' \in [Clients -> ManagerSteps]
      /\ UNCHANGED <<tracked, method, id, rec, snap, manager, loaded, used, owed,
                     completed, damaged>>
      /\ log_tmp # NoTemp /\ log' = log_tmp /\ log_tmp' = NoTemp /\ log' \in Logs
      /\ opened' \in [Clients -> {"gone", "tmp", "log"}]
  BY <1>0, LogBlank DEF RenameTemp, Advance, LogInv, LogTypeOK, ManagerSteps, Logs, witnessed
<1>2. LogTypeOK(c)'
  BY <1>0, <1>1 DEF LogInv, LogTypeOK
<1>3. StepsInv(c)'
  BY <1>0, <1>1 DEF LogInv, StepsInv, Removing
<1>4. Unused(c)'
  BY <1>0, <1>1 DEF LogInv, Unused
<1>5. FairInv(c)'
  BY <1>0, <1>1 DEF LogInv, FairInv, Fair, RecInv, StepsInv, Removing
<1>6. RecInv(c)'
  BY <1>0, <1>1 DEF LogInv, RecInv, Removing, LogTypeOK
<1>7. KeptInv(c)'
  BY <1>0, <1>1 DEF LogInv, KeptInv, Keeps, RecInv, StepsInv, Removing
<1> QED BY <1>2, <1>3, <1>4, <1>5, <1>6, <1>7 DEF LogInv

(* remove_operation reads the log. *)
LEMMA ReadForRemovalPreserves ==
    ASSUME NEW c, Clients = {c}, LogInv(c), ReadForRemoval(c)
    PROVE  LogInv(c)'
<1>0. /\ at \in [Clients -> ManagerSteps] /\ (id[c] \in used \/ at[c] = "idle")
      /\ used \subseteq Ids /\ log \in Logs /\ snap \in [Clients -> Logs]
      /\ rec[c] \in Records /\ log_tmp \in Logs \cup {NoTemp}
      /\ opened \in [Clients -> {"gone", "tmp", "log"}]
      /\ Blank \in Logs /\ \A i \in Ids : Blank[i] = NoOp
      /\ rec[c] # NoOp /\ ~ Takable(NoOp)
  BY LogBlank, LogAssumption DEF LogInv, LogTypeOK, Takable
<1>1. /\ at[c] = "rm_read" /\ at'[c] = "rm_truncate" /\ at' \in [Clients -> ManagerSteps]
      /\ UNCHANGED <<tracked, log, log_tmp, method, id, rec, opened, manager, loaded,
                     used, owed, completed, damaged>>
      /\ snap' \in [Clients -> Logs] /\ snap'[c][id[c]] = NoOp
      /\ \A i \in Ids \ {id[c]} : snap'[c][i] = log[i]
  BY <1>0, LogPut, LogBlank DEF ReadForRemoval, Advance, LogInv, LogTypeOK, ManagerSteps, Logs,
     witnessed
<1>2. LogTypeOK(c)'
  BY <1>0, <1>1 DEF LogInv, LogTypeOK
<1>3. StepsInv(c)'
  BY <1>0, <1>1 DEF LogInv, StepsInv, Removing
<1>4. Unused(c)'
  BY <1>0, <1>1 DEF LogInv, Unused
<1>5. FairInv(c)'
  BY <1>0, <1>1 DEF LogInv, FairInv, Fair, RecInv, StepsInv, Removing
<1>6. RecInv(c)'
  BY <1>0, <1>1 DEF LogInv, RecInv, Removing, LogTypeOK
<1>7. KeptInv(c)'
  BY <1>0, <1>1 DEF LogInv, KeptInv, Keeps, RecInv, StepsInv, Removing
<1> QED BY <1>2, <1>3, <1>4, <1>5, <1>6, <1>7 DEF LogInv

(* The log is truncated. *)
LEMMA OpenLogPreserves ==
    ASSUME NEW c, Clients = {c}, LogInv(c), OpenLog(c)
    PROVE  LogInv(c)'
<1>0. /\ at \in [Clients -> ManagerSteps] /\ (id[c] \in used \/ at[c] = "idle")
      /\ used \subseteq Ids /\ log \in Logs /\ snap \in [Clients -> Logs]
      /\ rec[c] \in Records /\ log_tmp \in Logs \cup {NoTemp}
      /\ opened \in [Clients -> {"gone", "tmp", "log"}]
      /\ Blank \in Logs /\ \A i \in Ids : Blank[i] = NoOp
      /\ rec[c] # NoOp /\ ~ Takable(NoOp)
  BY LogBlank, LogAssumption DEF LogInv, LogTypeOK, Takable
<1>1. /\ at[c] = "rm_truncate" /\ at'[c] = "rm_fill" /\ at' \in [Clients -> ManagerSteps]
      /\ UNCHANGED <<tracked, log_tmp, method, id, rec, snap, manager, loaded,
                     used, owed, completed, damaged>>
      /\ log' = Blank /\ opened'[c] = "log" /\ opened' \in [Clients -> {"gone", "tmp", "log"}]
  BY <1>0, LogPut, LogBlank DEF OpenLog, Advance, LogInv, LogTypeOK, ManagerSteps, Logs, witnessed
<1>2. LogTypeOK(c)'
  BY <1>0, <1>1 DEF LogInv, LogTypeOK
<1>3. StepsInv(c)'
  BY <1>0, <1>1 DEF LogInv, StepsInv, Removing
<1>4. Unused(c)'
  BY <1>0, <1>1 DEF LogInv, Unused
<1>5. FairInv(c)'
  BY <1>0, <1>1 DEF LogInv, FairInv, Fair, RecInv, StepsInv, Removing
<1>6. RecInv(c)'
  BY <1>0, <1>1 DEF LogInv, RecInv, Removing, LogTypeOK
<1>7. KeptInv(c)'
  BY <1>0, <1>1 DEF LogInv, KeptInv, Keeps, RecInv, StepsInv, Removing
<1> QED BY <1>2, <1>3, <1>4, <1>5, <1>6, <1>7 DEF LogInv

(* remove_operation writes the log, and complete_operation returns. *)
LEMMA FillLogPreserves ==
    ASSUME NEW c, Clients = {c}, LogInv(c), FillLog(c)
    PROVE  LogInv(c)'
<1>0. /\ at \in [Clients -> ManagerSteps] /\ (id[c] \in used \/ at[c] = "idle")
      /\ used \subseteq Ids /\ log \in Logs /\ snap \in [Clients -> Logs]
      /\ loaded \in Logs /\ tracked \in Logs
      /\ rec[c] \in Records /\ log_tmp \in Logs \cup {NoTemp}
      /\ opened \in [Clients -> {"gone", "tmp", "log"}]
      /\ Blank \in Logs /\ \A i \in Ids : Blank[i] = NoOp
      /\ rec[c] # NoOp /\ ~ Takable(NoOp)
  BY LogBlank, LogAssumption DEF LogInv, LogTypeOK, Takable
<1>r. Fresh \in Records
  BY DEF Fresh, Records, Statuses, RetryBound, MaxRetries
<1>1. /\ at[c] = "rm_fill" /\ at'[c] = "idle" /\ at' \in [Clients -> ManagerSteps]
      /\ method' \in [Clients -> ManagerMethods]
      /\ id' \in [Clients -> Ids \cup {NoOp}] /\ rec' \in [Clients -> Records]
      /\ UNCHANGED <<tracked, log_tmp, manager, loaded, used, damaged>>
      /\ opened[c] = "log" /\ log' = snap[c] /\ snap' \in [Clients -> Logs] /\ snap'[c] = Blank
      /\ opened' \in [Clients -> {"gone", "tmp", "log"}]
      /\ owed' = owed \ {id[c]} /\ completed' = completed \cup {id[c]}
  BY <1>0, <1>r DEF FillLog, Return, Advance, WriteOpenFile, LogInv, LogTypeOK, StepsInv,
     ManagerSteps,
     ManagerMethods, witnessed, Removing, Logs, Blank
<1>2. LogTypeOK(c)'
  BY <1>0, <1>1 DEF LogInv, LogTypeOK
<1>3. StepsInv(c)'
  BY <1>0, <1>1 DEF LogInv, StepsInv, Removing
<1>4. Unused(c)'
  BY <1>0, <1>1 DEF LogInv, Unused
<1>5. FairInv(c)'
  <2>1. tracked[id[c]] = NoOp /\ snap[c][id[c]] = NoOp /\ loaded = Blank
    BY <1>0, <1>1 DEF LogInv, LogTypeOK, StepsInv, RecInv, Removing
  <2>2. Fair(snap[c]) /\ Fair(tracked) /\ \A i \in Ids : tracked[i] # NoOp => i \notin completed
    BY <1>1 DEF LogInv, FairInv
  <2>3. Fair(log)' /\ Fair(tracked)' /\ Fair(loaded)'
    BY <1>0, <1>1, <2>1, <2>2 DEF Fair
  <2> QED BY <1>0, <1>1, <2>1, <2>2, <2>3 DEF FairInv
<1>6. RecInv(c)'
  BY <1>0, <1>1 DEF LogInv, RecInv, Removing, LogTypeOK
<1>7. KeptInv(c)'
  BY <1>0, <1>1 DEF LogInv, KeptInv, Keeps, RecInv, StepsInv, Removing
<1> QED BY <1>2, <1>3, <1>4, <1>5, <1>6, <1>7 DEF LogInv

(* A system call fails: what was being saved is dropped. *)
LEMMA IoErrorPreserves ==
    ASSUME NEW c, Clients = {c}, LogInv(c), LogIoError(c)
    PROVE  LogInv(c)'
<1>0. /\ at \in [Clients -> ManagerSteps] /\ (id[c] \in used \/ at[c] = "idle")
      /\ used \subseteq Ids /\ log \in Logs /\ snap \in [Clients -> Logs]
      /\ loaded \in Logs /\ tracked \in Logs
      /\ rec[c] \in Records /\ log_tmp \in Logs \cup {NoTemp}
      /\ opened \in [Clients -> {"gone", "tmp", "log"}]
      /\ Blank \in Logs /\ \A i \in Ids : Blank[i] = NoOp
      /\ rec[c] # NoOp /\ ~ Takable(NoOp)
  BY LogBlank, LogAssumption DEF LogInv, LogTypeOK, Takable
<1>r. Fresh \in Records
  BY DEF Fresh, Records, Statuses, RetryBound, MaxRetries
<1>1. /\ at[c] # "idle" /\ at'[c] = "idle" /\ at' \in [Clients -> ManagerSteps]
      /\ method' \in [Clients -> ManagerMethods]
      /\ id' \in [Clients -> Ids \cup {NoOp}] /\ rec' \in [Clients -> Records]
      /\ UNCHANGED <<tracked, log, log_tmp, used>> /\ damaged'
      /\ snap' \in [Clients -> Logs] /\ snap'[c] = Blank
      /\ opened' \in [Clients -> {"gone", "tmp", "log"}]
      /\ IF at[c] \in Removing
         THEN owed' = owed \ {id[c]} /\ completed' = completed \cup {id[c]}
         ELSE owed' = owed /\ completed' = completed
      /\ manager' = "up" /\ loaded' = Blank
  BY <1>0, <1>r DEF LogIoError, MissingTemp, Return, Advance, LogInv, LogTypeOK, StepsInv,
     ManagerSteps,
     ManagerMethods, witnessed, Removing, Logs, Blank
<1>2. LogTypeOK(c)'
  BY <1>0, <1>1 DEF LogInv, LogTypeOK
<1>3. StepsInv(c)'
  BY <1>0, <1>1 DEF LogInv, StepsInv, Removing
<1>4. Unused(c)'
  BY <1>0, <1>1 DEF LogInv, Unused
<1>5. FairInv(c)'
  <2>1. Fair(log) /\ Fair(tracked) /\ \A i \in Ids : tracked[i] # NoOp => i \notin completed
    BY DEF LogInv, FairInv
  <2>2. CASE at[c] \in Removing
    <3>1. tracked[id[c]] = NoOp /\ ~ Takable(log[id[c]])
      BY <1>0, <1>1, <2>2 DEF LogInv, StepsInv, RecInv, Removing, Takable, Recoverable
    <3>2. Fair(log)' /\ Fair(tracked)' /\ Fair(loaded)'
      BY <1>0, <1>1, <2>1, <2>2, <3>1 DEF Fair
    <3> QED BY <1>0, <1>1, <2>1, <2>2, <3>1, <3>2 DEF FairInv
  <2>3. CASE at[c] \notin Removing
    <3>1. Fair(log)' /\ Fair(tracked)' /\ Fair(loaded)'
      BY <1>0, <1>1, <2>1, <2>3 DEF Fair
    <3> QED BY <1>0, <1>1, <2>1, <2>3, <3>1 DEF FairInv
  <2> QED BY <2>2, <2>3
<1>6. RecInv(c)'
  BY <1>0, <1>1 DEF LogInv, RecInv, Removing, LogTypeOK
<1>7. KeptInv(c)'
  BY <1>0, <1>1 DEF LogInv, KeptInv, Keeps, RecInv, StepsInv, Removing
<1> QED BY <1>2, <1>3, <1>4, <1>5, <1>6, <1>7 DEF LogInv

(* Memory is lost, and what the log has to recover is loaded. *)
LEMMA CrashPreserves ==
    ASSUME NEW c, Clients = {c}, LogInv(c), Crash
    PROVE  LogInv(c)'
<1>0. /\ at \in [Clients -> ManagerSteps] /\ (id[c] \in used \/ at[c] = "idle")
      /\ used \subseteq Ids /\ log \in Logs /\ snap \in [Clients -> Logs]
      /\ loaded \in Logs /\ tracked \in Logs
      /\ rec[c] \in Records /\ log_tmp \in Logs \cup {NoTemp}
      /\ opened \in [Clients -> {"gone", "tmp", "log"}]
      /\ Blank \in Logs /\ \A i \in Ids : Blank[i] = NoOp
      /\ rec[c] # NoOp /\ ~ Takable(NoOp)
  BY LogBlank, LogAssumption DEF LogInv, LogTypeOK, Takable
<1>r. Fresh \in Records
  BY DEF Fresh, Records, Statuses, RetryBound, MaxRetries
<1>1. /\ at'[c] = "idle" /\ at' \in [Clients -> ManagerSteps]
      /\ method' \in [Clients -> ManagerMethods]
      /\ id' \in [Clients -> Ids \cup {NoOp}] /\ rec' \in [Clients -> Records]
      /\ UNCHANGED <<log, log_tmp, used, owed, completed>> /\ tracked' = Blank
      /\ snap' \in [Clients -> Logs] /\ snap'[c] = Blank
      /\ opened' \in [Clients -> {"gone", "tmp", "log"}]
      /\ \/ manager' = "up" /\ loaded' = Blank
         \/ /\ manager' = "recovering" /\ loaded' \in Logs
            /\ \A i \in Ids : loaded'[i] = IF Takable(log[i]) THEN log[i] ELSE NoOp
      /\ damaged' \in BOOLEAN /\ (damaged' <=> (damaged \/ at[c] = "rm_fill"))
  BY <1>0, <1>r DEF Crash, Takable, LogInv, LogTypeOK, ManagerSteps,
     ManagerMethods, witnessed, Removing, Logs, Blank
<1>2. LogTypeOK(c)'
  BY <1>0, <1>1 DEF LogInv, LogTypeOK
<1>3. StepsInv(c)'
  BY <1>0, <1>1 DEF LogInv, StepsInv, Removing
<1>4. Unused(c)'
  BY <1>0, <1>1 DEF LogInv, Unused
<1>5. FairInv(c)'
  BY <1>0, <1>1 DEF LogInv, FairInv, Fair, RecInv, StepsInv, Removing
<1>6. RecInv(c)'
  BY <1>0, <1>1 DEF LogInv, RecInv, Removing, LogTypeOK
<1>7. KeptInv(c)'
  BY <1>0, <1>1 DEF LogInv, KeptInv, Keeps, RecInv, StepsInv, Removing
<1> QED BY <1>2, <1>3, <1>4, <1>5, <1>6, <1>7 DEF LogInv

(* save_operation returned Ok. *)
LEMMA SavedPreserves ==
    ASSUME NEW c, Clients = {c}, LogInv(c), Saved(c)
    PROVE  LogInv(c)'
<1>0. /\ at \in [Clients -> ManagerSteps] /\ at[c] = "saved" /\ id[c] \in used
      /\ used \subseteq Ids /\ log \in Logs /\ snap \in [Clients -> Logs]
      /\ loaded \in Logs /\ tracked \in Logs /\ log_tmp \in Logs \cup {NoTemp}
      /\ rec[c] \in Records /\ rec[c] # NoOp /\ log[id[c]] = rec[c] /\ ~ Takable(NoOp)
      /\ id[c] \notin completed /\ method[c] # "none" /\ c \in Clients
      /\ UNCHANGED <<log, log_tmp, snap, opened, manager, used, damaged>>
  BY LogAssumption DEF LogInv, LogTypeOK, RecInv, Takable, Removing, Saved
<1>m. method[c] \in ManagerMethods
  BY DEF LogInv, LogTypeOK
<1>r. Fresh \in Records
  BY DEF Fresh, Records, Statuses, RetryBound, MaxRetries
<1>1. ASSUME Return(c), manager = "up", UNCHANGED <<loaded, completed>>,
             \/ UNCHANGED <<tracked, owed>>
             \/ tracked' = tracked /\ owed' = owed \cup {id[c]}
             \/ tracked' = [tracked EXCEPT ![id[c]] = NoOp] /\ owed' = owed \ {id[c]},
             tracked[id[c]] = rec[c]
      PROVE  LogInv(c)'
  <2>1. /\ at'[c] = "idle" /\ at' \in [Clients -> ManagerSteps]
        /\ method' \in [Clients -> ManagerMethods]
        /\ id' \in [Clients -> Ids \cup {NoOp}] /\ rec' \in [Clients -> Records]
    BY <1>0, <1>1, <1>r DEF Return, Advance, LogInv, LogTypeOK, ManagerSteps, ManagerMethods
  <2>2. /\ tracked' \in Logs /\ \A i \in Ids : tracked'[i] \in {tracked[i], NoOp}
        /\ owed' \subseteq owed \cup {id[c]}
    BY <1>0, <1>1 DEF Logs
  <2>3. LogTypeOK(c)'
    BY <1>0, <1>1, <2>1, <2>2 DEF LogInv, LogTypeOK
  <2>4. StepsInv(c)'
    BY <1>0, <1>1, <2>1, <2>2 DEF LogInv, StepsInv, Removing
  <2>5. Unused(c)'
    BY <1>0, <1>1, <2>1, <2>2 DEF LogInv, Unused
  <2>6. FairInv(c)'
    BY <1>0, <1>1, <2>1, <2>2 DEF LogInv, FairInv, Fair, RecInv, StepsInv, Removing
  <2>7. RecInv(c)'
    BY <1>0, <1>1, <2>1, <2>2 DEF LogInv, RecInv, Removing, LogTypeOK
  <2>8. KeptInv(c)'
    BY <1>0, <1>1, <2>1, <2>2 DEF LogInv, KeptInv, Keeps, RecInv, StepsInv, Removing
  <2> QED BY <2>3, <2>4, <2>5, <2>6, <2>7, <2>8 DEF LogInv
<1>2. ASSUME method[c] \in {"recover", "complete"},
             UNCHANGED <<tracked, loaded, owed, method, id, rec, completed>>,
             \/ method[c] = "recover" /\ Advance(c, "attempt")
             \/ method[c] = "complete" /\ Advance(c, "rm_read")
      PROVE  LogInv(c)'
  <2>1. at' \in [Clients -> ManagerSteps] /\ at'[c] \in {"attempt", "rm_read"}
        /\ (at'[c] = "attempt" <=> method[c] = "recover")
    BY <1>0, <1>2 DEF Advance, ManagerSteps
  <2>2. id[c] \notin owed \/ log[id[c]] # NoOp
    BY <1>0
  <2>3. LogTypeOK(c)'
    BY <1>0, <1>2, <2>1, <2>2 DEF LogInv, LogTypeOK
  <2>4. StepsInv(c)'
    BY <1>0, <1>2, <2>1, <2>2 DEF LogInv, StepsInv, Removing
  <2>5. Unused(c)'
    BY <1>0, <1>2, <2>1, <2>2 DEF LogInv, Unused
  <2>6. FairInv(c)'
    BY <1>0, <1>2, <2>1, <2>2 DEF LogInv, FairInv, Fair, RecInv, StepsInv, Removing
  <2>7. RecInv(c)'
    BY <1>0, <1>2, <2>1, <2>2 DEF LogInv, RecInv, Removing, LogTypeOK
  <2>8. KeptInv(c)'
    BY <1>0, <1>2, <2>1, <2>2 DEF LogInv, KeptInv, Keeps, RecInv, StepsInv, Removing
  <2> QED BY <2>3, <2>4, <2>5, <2>6, <2>7, <2>8 DEF LogInv
<1>3. ASSUME method[c] = "settle", Return(c), loaded' = [loaded EXCEPT ![id[c]] = NoOp],
             owed' \in {owed, owed \ {id[c]}}, tracked' = tracked,
             completed' = IF rec[c].status = "Completed" THEN completed \cup {id[c]}
                          ELSE completed
      PROVE  LogInv(c)'
  <2>1. /\ at'[c] = "idle" /\ at' \in [Clients -> ManagerSteps]
        /\ method' \in [Clients -> ManagerMethods]
        /\ id' \in [Clients -> Ids \cup {NoOp}] /\ rec' \in [Clients -> Records]
    BY <1>0, <1>3, <1>r DEF Return, Advance, LogInv, LogTypeOK, ManagerSteps, ManagerMethods
  <2>2. /\ loaded' \in Logs /\ loaded'[id[c]] = NoOp /\ manager = "recovering" /\ tracked = Blank
        /\ \A i \in Ids \ {id[c]} : loaded'[i] = loaded[i]
        /\ owed' \subseteq owed /\ completed' \subseteq completed \cup {id[c]}
        /\ Takable(rec[c]) => completed' = completed
        /\ \A i \in Ids : Blank[i] = NoOp
    BY <1>0, <1>3 DEF Logs, LogInv, StepsInv, Blank, Takable, Recoverable
  <2>3. LogTypeOK(c)'
    BY <1>0, <1>3, <2>1, <2>2 DEF LogInv, LogTypeOK
  <2>4. StepsInv(c)'
    BY <1>0, <1>3, <2>1, <2>2 DEF LogInv, StepsInv, Removing
  <2>5. Unused(c)'
    BY <1>0, <1>3, <2>1, <2>2 DEF LogInv, Unused
  <2>6. FairInv(c)'
    BY <1>0, <1>3, <2>1, <2>2 DEF LogInv, FairInv, Fair, RecInv, StepsInv, Removing
  <2>7. RecInv(c)'
    BY <1>0, <1>3, <2>1, <2>2 DEF LogInv, RecInv, Removing, LogTypeOK
  <2>8. KeptInv(c)'
    BY <1>0, <1>3, <2>1, <2>2 DEF LogInv, KeptInv, Keeps, RecInv, StepsInv, Removing
  <2> QED BY <2>3, <2>4, <2>5, <2>6, <2>7, <2>8 DEF LogInv
<1>4. CASE method[c] \in {"start", "checkpoint", "fail"}
  <2>1. manager = "up" /\ tracked[id[c]] = rec[c]
    BY <1>0, <1>4 DEF LogInv, StepsInv, RecInv, LogTypeOK
  <2>2. completed' = completed /\ Return(c) /\ loaded' = loaded
    BY <1>4 DEF Saved
  <2>3. CASE method[c] = "start"
    BY <1>1, <2>1, <2>2, <2>3 DEF Saved
  <2>4. CASE method[c] = "checkpoint"
    BY <1>1, <2>1, <2>2, <2>4 DEF Saved
  <2>5. CASE method[c] = "fail"
    BY <1>1, <2>1, <2>2, <2>5 DEF Saved
  <2> QED BY <1>4, <2>3, <2>4, <2>5
<1>5. CASE method[c] \in {"recover", "complete"}
  BY <1>2, <1>5 DEF Saved
<1>6. CASE method[c] = "settle"
  BY <1>3, <1>6 DEF Saved
<1> QED BY <1>0, <1>m, <1>4, <1>5, <1>6 DEF ManagerMethods

(* recover_on_startup takes up an operation. *)
LEMMA MarkPreserves ==
    ASSUME NEW c, Clients = {c}, LogInv(c), NEW i \in Ids, MarkRecovering(c, i)
    PROVE  LogInv(c)'
<1> DEFINE r == loaded[i]
           q == [r EXCEPT !.status = "Recovering"]
<1>1. /\ manager = "recovering" /\ at[c] = "idle" /\ r # NoOp /\ BeginSave(c, "recover", i, q)
      /\ UNCHANGED <<tracked, manager, loaded, used, owed, completed, damaged>>
  BY DEF MarkRecovering, NoneRunning, witnessed
<1>2. r \in Records /\ Takable(r) /\ r.retries < MaxRetries /\ i \notin completed
  BY <1>1 DEF LogInv, LogTypeOK, FairInv, Fair, Logs
<1>3. q \in Records /\ q.status = "Recovering" /\ q.retries = r.retries
  BY <1>2, RecordFacts DEF Statuses
<1>4. i \in used /\ used \subseteq Ids /\ tracked \in Logs /\ (i \in owed => log[i] # NoOp \/ damaged)
  BY <1>1 DEF LogInv, LogTypeOK, Unused, KeptInv, Keeps
<1>5. "recover" \in ManagerMethods \ {"none"}
      /\ "recover" \notin {"start", "checkpoint", "fail", "complete"}
  BY DEF ManagerMethods
<1> HIDE DEF q, r
<1> QED BY <1>1, <1>2, <1>3, <1>4, <1>5, SaveBegins

(* recover_operation decides what has become of it. *)
LEMMA AttemptPreserves ==
    ASSUME NEW c, Clients = {c}, LogInv(c), recover_operation(c)
    PROVE  LogInv(c)'
<1> DEFINE i == id[c]
<1>1. /\ at[c] = "attempt" /\ method[c] = "recover" /\ manager = "recovering" /\ i \in used
      /\ rec[c] \in Records /\ rec[c].retries < MaxRetries /\ i \notin completed
      /\ log[i] = rec[c] /\ rec[c] # NoOp /\ used \subseteq Ids /\ i \in Ids /\ tracked \in Logs
      /\ UNCHANGED <<tracked, manager, loaded, used, owed, completed, damaged>>
  BY LogAssumption DEF recover_operation, LogInv, LogTypeOK, StepsInv, RecInv, Removing, witnessed
<1>2. PICK q \in Records : BeginSave(c, "settle", i, q) /\ (Takable(q) => q.retries < MaxRetries)
  <2>1. /\ [rec[c] EXCEPT !.status = "Completed"] \in Records
        /\ [rec[c] EXCEPT !.status = "Completed"].retries = rec[c].retries
        /\ [rec[c] EXCEPT !.status = "InProgress"] \in Records
        /\ [rec[c] EXCEPT !.status = "InProgress"].retries = rec[c].retries
        /\ Failed(rec[c]) \in Records
        /\ Takable(Failed(rec[c])) => Failed(rec[c]).retries < MaxRetries
    BY <1>1, RecordFacts DEF Statuses, Takable, Recoverable
  <2> QED BY <1>1, <2>1 DEF recover_operation
<1>5. "settle" \in ManagerMethods \ {"none"}
      /\ "settle" \notin {"start", "checkpoint", "fail", "complete", "recover"}
  BY DEF ManagerMethods
<1> HIDE DEF i
<1>6. at[c] = "attempt" => id[c] = i
  BY DEF i
<1> QED BY <1>1, <1>2, <1>5, <1>6, SaveBegins

(* An old operation is given up, recovery ends, or nothing happens. *)
LEMMA RecoveryPreserves ==
    ASSUME NEW c, Clients = {c}, LogInv(c),
           (\E i \in Ids : Abandon(i)) \/ LogRecovered \/ UNCHANGED logvars
    PROVE  LogInv(c)'
<1>1. ASSUME NEW i \in Ids, Abandon(i) PROVE LogInv(c)'
  <2>0. UNCHANGED <<tracked, log, log_tmp, at, method, id, rec, snap, opened, manager, used,
                    completed, damaged>>
    BY <1>1 DEF Abandon, taskState
  <2>1. /\ at[c] = "idle" /\ manager = "recovering" /\ owed' \subseteq owed
        /\ loaded' \in Logs /\ \A j \in Ids : loaded'[j] \in {loaded[j], NoOp}
        /\ ~ Takable(NoOp)
    BY <1>1 DEF Abandon, NoneRunning, LogInv, LogTypeOK, Logs, Takable
  <2>2. LogTypeOK(c)'
    BY <2>0, <2>1 DEF LogInv, LogTypeOK
  <2>3. StepsInv(c)'
    BY <2>0, <2>1 DEF LogInv, StepsInv, Removing
  <2>4. Unused(c)'
    BY <2>0, <2>1 DEF LogInv, Unused
  <2>5. FairInv(c)'
    BY <2>0, <2>1 DEF LogInv, FairInv, Fair, RecInv, StepsInv, Removing
  <2>6. RecInv(c)'
    BY <2>0, <2>1 DEF LogInv, RecInv, Removing, LogTypeOK
  <2>7. KeptInv(c)'
    BY <2>0, <2>1 DEF LogInv, KeptInv, Keeps, RecInv, StepsInv, Removing
  <2> QED BY <2>2, <2>3, <2>4, <2>5, <2>6, <2>7 DEF LogInv
<1>2. CASE LogRecovered
  <2>0. UNCHANGED <<tracked, log, log_tmp, at, method, id, rec, snap, opened, loaded, used, owed,
                    completed, damaged>>
    BY <1>2 DEF LogRecovered, taskState, witnessed
  <2>1. at[c] = "idle" /\ manager' = "up" /\ loaded = Blank
    BY <1>2 DEF LogRecovered, NoneRunning
  <2>2. LogTypeOK(c)'
    BY <2>0, <2>1 DEF LogInv, LogTypeOK
  <2>3. StepsInv(c)'
    BY <2>0, <2>1 DEF LogInv, StepsInv, Removing
  <2>4. Unused(c)'
    BY <2>0, <2>1 DEF LogInv, Unused
  <2>5. FairInv(c)'
    BY <2>0, <2>1 DEF LogInv, FairInv, Fair, RecInv, StepsInv, Removing
  <2>6. RecInv(c)'
    BY <2>0, <2>1 DEF LogInv, RecInv, Removing, LogTypeOK
  <2>7. KeptInv(c)'
    BY <2>0, <2>1 DEF LogInv, KeptInv, Keeps, RecInv, StepsInv, Removing
  <2> QED BY <2>2, <2>3, <2>4, <2>5, <2>6, <2>7 DEF LogInv
<1>3. CASE UNCHANGED logvars
  BY <1>3 DEF logvars, taskState, witnessed, LogInv, LogTypeOK, StepsInv, Unused, FairInv, Fair,
              RecInv, KeptInv, Keeps
<1> QED BY <1>1, <1>2, <1>3

LEMMA LogNextPreserves ==
    ASSUME NEW c, Clients = {c}, LogInv(c), [LogNext]_logvars
    PROVE  LogInv(c)'
<1>1. CASE CallMethod(c)
  BY <1>1, CallPreserves
<1>2. CASE Step(c)
  BY <1>2, ReadPreserves, OpenTempPreserves, FillTempPreserves, RenamePreserves, SavedPreserves,
     ReadForRemovalPreserves, OpenLogPreserves, FillLogPreserves, AttemptPreserves DEF Step
<1>3. CASE ReadLogFails(c) \/ LogIoError(c) \/ Crash
  BY <1>3, ReadPreserves, IoErrorPreserves, CrashPreserves
<1>4. CASE (\E i \in Ids : Abandon(i)) \/ LogRecovered \/ UNCHANGED logvars
  BY <1>4, RecoveryPreserves
<1>5. CASE \E i \in Ids : MarkRecovering(c, i)
  BY <1>5, MarkPreserves
<1> QED BY <1>1, <1>2, <1>3, <1>4, <1>5 DEF LogNext

(* LogIsTrue: between the calls of a single caller the recovery log agrees  *)
(* with memory, has every operation that was started and neither completed  *)
(* nor given up, and has nothing to recover that was completed or tried too *)
(* often, for any number of operations, I/O errors, crashes and recoveries. *)
THEOREM LogStaysTrue ==
    ASSUME NEW c, Clients = {c}
    PROVE  LogSpec => []LogIsTrue
<1>1. LogInit => LogInv(c)
  <2> SUFFICES ASSUME LogInit PROVE LogInv(c)
    OBVIOUS
  <2>1. Fresh \in Records
    BY DEF Fresh, Records, Statuses, RetryBound, MaxRetries
  <2>2. Blank \in Logs /\ (\A i \in Ids : Blank[i] = NoOp) /\ ~ Takable(NoOp)
    BY LogBlank DEF Takable
  <2> QED BY <2>1, <2>2 DEF LogInit, LogInv, LogTypeOK, StepsInv, Unused, FairInv, Fair, RecInv,
     KeptInv,
             Keeps, ManagerSteps, ManagerMethods, Removing
<1>2. LogInv(c) /\ [LogNext]_logvars => LogInv(c)'
  BY LogNextPreserves
<1>3. LogInv(c) => LogIsTrue
  BY DEF LogInv, FairInv, Fair, KeptInv, Keeps, LogIsTrue, MemoryIsLogged, NothingLost,
         NoResurrection, Quiet, NoneRunning, Takable, LogTypeOK
<1> QED BY <1>1, <1>2, <1>3, PTL DEF LogSpec

(***************************************************************************)
(* SyncTransport.                                                          *)
(***************************************************************************)
TransportSpec == TransportInit /\ [][TransportNext]_tvars

TransportSteps == {"initiate", "await_reply", "await_Hello", "await_FolderSummary",
                   "await_Manifest", "no_manifest", "incompatible", "network"}

(* How many messages an end has sent, or accepted, at each of its steps. *)
HasSent(s, n) ==
    \/ n = 0 /\ s \in {"initiate", "await_Hello", "incompatible", "network"}
    \/ n = 1 /\ s \in {"await_reply", "await_FolderSummary", "incompatible", "network"}
    \/ n = 2 /\ s \in {"await_Manifest", "no_manifest", "network"}

HasAccepted(s, k) ==
    \/ k = 0 /\ s \in {"initiate", "await_reply", "await_Hello", "network"}
    \/ k = 1 /\ s \in {"await_FolderSummary", "await_Manifest", "incompatible", "network"}
    \/ k = 2 /\ s \in {"await_Manifest", "no_manifest", "network"}

(* The messages of an end, in the order in which it opens their streams. *)
NthMessage(i) == IF i = 1 THEN "Hello" ELSE "FolderSummary"

(* q holds all but the first k of the first n messages of an end. *)
Holds(q, k, n) ==
    /\ k <= n /\ Len(q) = n - k
    /\ \A i \in 1..Len(q) : q[i] = NthMessage(k + i)

(* What the other end has sent and this one has not accepted. *)
InboxInv(e) ==
    \E k, n \in 0..2 :
        HasAccepted(step[e], k) /\ HasSent(step[Other(e)], n) /\ Holds(inbox[e], k, n)

(* A responder waits for the Hello and the summary of an initiator. *)
Responding(e) == step[e] \in {"await_Hello", "await_FolderSummary"}

TransportInv ==
    /\ step \in [Ends -> TransportSteps] /\ inbox \in [Ends -> Seq({"Hello", "FolderSummary"})]
    /\ link => \A e \in Ends : step[e] # "network"
    /\ \E e \in Ends : ~ Responding(e)
    /\ \A e \in Ends : InboxInv(e)

LEMMA TwoEnds ==
    ASSUME NEW e \in Ends
    PROVE  /\ Other(e) \in Ends /\ Other(e) # e /\ Other(Other(e)) = e
           /\ Ends = {e, Other(e)}
<1> PICK f \in Ends, g \in Ends : f # g /\ Ends = {f, g}
  BY TransportAssumption
<1>1. e = f \/ e = g
  OBVIOUS
<1>2. Other(f) = g
  BY DEF Other
<1>3. Other(g) = f
  BY DEF Other
<1> QED BY <1>1, <1>2, <1>3

LEMMA AwaitsFacts ==
    /\ DOMAIN Awaits = {"await_reply", "await_Hello", "await_FolderSummary", "await_Manifest"}
    /\ Awaits["await_reply"] = "Hello" /\ Awaits["await_Hello"] = "Hello"
    /\ Awaits["await_FolderSummary"] = "FolderSummary" /\ Awaits["await_Manifest"] = "Manifest"
  BY DEF Awaits

(* The oldest message is accepted, the next one is sent. *)
LEMMA HoldsFacts ==
    ASSUME NEW q \in Seq({"Hello", "FolderSummary"}), NEW k \in 0..2, NEW n \in 0..2,
           Holds(q, k, n)
    PROVE  /\ q = <<>> <=> k = n
           /\ q # <<>> => /\ Head(q) = NthMessage(k + 1) /\ k < n
                          /\ Tail(q) \in Seq({"Hello", "FolderSummary"}) /\ Holds(Tail(q), k + 1, n)
           /\ n < 2 => LET p == Append(q, NthMessage(n + 1))
                       IN  p \in Seq({"Hello", "FolderSummary"}) /\ Holds(p, k, n + 1)
<1>1. Len(q) \in Nat /\ (q = <<>> <=> Len(q) = 0)
  OBVIOUS
<1>2. q = <<>> <=> k = n
  BY <1>1 DEF Holds
<1>3. ASSUME q # <<>>
      PROVE  /\ Head(q) = NthMessage(k + 1) /\ k < n
             /\ Tail(q) \in Seq({"Hello", "FolderSummary"}) /\ Holds(Tail(q), k + 1, n)
  <2>1. /\ Head(q) = q[1] /\ Len(Tail(q)) = Len(q) - 1 /\ Tail(q) \in Seq({"Hello", "FolderSummary"})
        /\ \A i \in 1..Len(Tail(q)) : Tail(q)[i] = q[i + 1] /\ i + 1 \in 1..Len(q)
    BY <1>3, TailFacts
  <2>2. ASSUME NEW i \in 1..Len(Tail(q)) PROVE Tail(q)[i] = NthMessage(k + 1 + i)
    <3>1. q[i + 1] = NthMessage(k + (i + 1))
      BY <2>1 DEF Holds
    <3>2. k + (i + 1) = k + 1 + i
      BY <1>1, <2>1
    <3> QED BY <2>1, <3>1, <3>2
  <2>3. q[1] = NthMessage(k + 1)
    BY <1>1, <1>3 DEF Holds
  <2>4. k < n
    BY <1>1, <1>3 DEF Holds
  <2> QED BY <1>1, <2>1, <2>2, <2>3, <2>4 DEF Holds
<1>4. ASSUME n < 2, NEW p, p = Append(q, NthMessage(n + 1))
      PROVE  p \in Seq({"Hello", "FolderSummary"}) /\ Holds(p, k, n + 1)
  <2>0. NthMessage(n + 1) \in {"Hello", "FolderSummary"}
    BY DEF NthMessage
  <2>1. /\ p \in Seq({"Hello", "FolderSummary"}) /\ Len(p) = Len(q) + 1
        /\ \A i \in 1..Len(q) : p[i] = q[i]
        /\ p[Len(q) + 1] = NthMessage(n + 1)
    BY <1>4, <2>0, AppendFacts
  <2>2. ASSUME NEW i \in 1..Len(p) PROVE p[i] = NthMessage(k + i)
    <3>1. CASE i \in 1..Len(q)
      BY <2>1, <3>1 DEF Holds
    <3>2. CASE i = Len(q) + 1
      <4>1. k + i = n + 1
        BY <1>1, <3>2 DEF Holds
      <4> QED BY <2>1, <3>2, <4>1
    <3> QED BY <1>1, <2>1, <3>1, <3>2
  <2> QED BY <1>1, <2>1, <2>2 DEF Holds
<1> QED BY <1>2, <1>3, <1>4

LEMMA SentFacts ==
    /\ \A n : HasSent("initiate", n) <=> n = 0
    /\ \A n : HasSent("await_Hello", n) <=> n = 0
    /\ \A n : HasSent("await_reply", n) <=> n = 1
    /\ \A n : HasSent("await_FolderSummary", n) <=> n = 1
    /\ \A n : HasSent("await_Manifest", n) <=> n = 2
    /\ \A n : HasSent("no_manifest", n) <=> n = 2
    /\ \A n : HasSent("incompatible", n) <=> n \in {0, 1}
    /\ \A n : HasSent("network", n) <=> n \in {0, 1, 2}
  BY DEF HasSent

LEMMA AcceptedFacts ==
    /\ \A k : HasAccepted("initiate", k) <=> k = 0
    /\ \A k : HasAccepted("await_Hello", k) <=> k = 0
    /\ \A k : HasAccepted("await_reply", k) <=> k = 0
    /\ \A k : HasAccepted("await_FolderSummary", k) <=> k = 1
    /\ \A k : HasAccepted("await_Manifest", k) <=> k \in {1, 2}
    /\ \A k : HasAccepted("no_manifest", k) <=> k = 2
    /\ \A k : HasAccepted("incompatible", k) <=> k = 1
    /\ \A k : HasAccepted("network", k) <=> k \in {0, 1, 2}
  BY DEF HasAccepted

(* OnlyManifestBlocks: between two ends that both, or of which one, were    *)
(* told to initiate, no message is refused for its type, and nobody waits   *)
(* for anything but a Manifest whose partner still works or waits as well,  *)
(* wherever the connection is lost.                                         *)
THEOREM OnlyManifestsBlock == TransportSpec => []OnlyManifestBlocks
<1>1. TransportInit => TransportInv
  <2> SUFFICES ASSUME TransportInit PROVE TransportInv
    OBVIOUS
  <2>0. step \in [Ends -> {"initiate", "await_Hello"}]
    BY DEF TransportInit
  <2>1. step \in [Ends -> TransportSteps] /\ inbox \in [Ends -> Seq({"Hello", "FolderSummary"})]
    <3>1. <<>> \in Seq({"Hello", "FolderSummary"})
      OBVIOUS
    <3> QED BY <2>0, <3>1 DEF TransportInit, TransportSteps
  <2>2. ASSUME NEW e \in Ends PROVE InboxInv(e) /\ step[e] # "network"
    <3>1. step[e] \in {"initiate", "await_Hello"} /\ step[Other(e)] \in {"initiate", "await_Hello"}
      BY <2>0, TwoEnds
    <3>2. HasAccepted(step[e], 0) /\ HasSent(step[Other(e)], 0)
      BY <3>1 DEF HasAccepted, HasSent
    <3>3. Holds(inbox[e], 0, 0)
      <4>1. inbox[e] = <<>>
        BY DEF TransportInit
      <4> QED BY <4>1 DEF Holds
    <3>4. 0 \in 0..2
      OBVIOUS
    <3> QED BY <3>1, <3>2, <3>3, <3>4 DEF InboxInv
  <2>3. \E e \in Ends : ~ Responding(e)
    BY DEF TransportInit, Responding
  <2> QED BY <2>1, <2>2, <2>3 DEF TransportInv
<1>2. TransportInv /\ [TransportNext]_tvars => TransportInv'
  <2> SUFFICES ASSUME TransportInv, [TransportNext]_tvars PROVE TransportInv'
    OBVIOUS
  <2>t. step \in [Ends -> TransportSteps] /\ inbox \in [Ends -> Seq({"Hello", "FolderSummary"})]
    BY DEF TransportInv
  <2>1. ASSUME NEW e \in Ends, NEW s \in TransportSteps, step[e] # "network",
               step' = [step EXCEPT ![e] = s],
               Responding(e) \/ s \notin {"await_Hello", "await_FolderSummary"},
               link' = link, s = "network" => ~ link,
               inbox' \in [Ends -> Seq({"Hello", "FolderSummary"})],
               InboxInv(e)', InboxInv(Other(e))'
        PROVE  TransportInv'
    <3>1. /\ step' \in [Ends -> TransportSteps] /\ step'[e] = s
          /\ \A f \in Ends \ {e} : step'[f] = step[f]
      BY <2>t, <2>1
    <3>2. link' => \A f \in Ends : step'[f] # "network"
      BY <2>1, <3>1 DEF TransportInv
    <3>3. \E f \in Ends : ~ Responding(f)'
      BY <2>1, <3>1 DEF TransportInv, Responding
    <3>4. \A f \in Ends : InboxInv(f)'
      BY <2>1, TwoEnds
    <3> QED BY <2>1, <3>1, <3>2, <3>3, <3>4 DEF TransportInv
  <2>2. ASSUME NEW e \in Ends PROVE
          /\ Other(e) \in Ends /\ Other(e) # e /\ Other(Other(e)) = e
          /\ \E k, n \in 0..2 :
                HasAccepted(step[e], k) /\ HasSent(step[Other(e)], n) /\ Holds(inbox[e], k, n)
          /\ \E j, m \in 0..2 :
                HasAccepted(step[Other(e)], j) /\ HasSent(step[e], m) /\ Holds(inbox[Other(e)], j, m)
    BY TwoEnds DEF TransportInv, InboxInv
  (* The end sends without having accepted anything. *)
  <2>3. ASSUME NEW e \in Ends, initiate_sync(e) PROVE TransportInv'
    <3> DEFINE o == Other(e)
    <3>1. PICK k \in 0..2, n \in 0..2 :
             HasAccepted(step[e], k) /\ HasSent(step[o], n) /\ Holds(inbox[e], k, n)
      BY <2>2
    <3>2. PICK j \in 0..2, m \in 0..2 :
             HasAccepted(step[o], j) /\ HasSent(step[e], m) /\ Holds(inbox[o], j, m)
      BY <2>2
    <3>3. /\ step[e] = "initiate" /\ link /\ link' = link
          /\ step' = [step EXCEPT ![e] = "await_reply"]
          /\ inbox' = [inbox EXCEPT ![o] = Append(@, "Hello")]
      BY <2>3 DEF initiate_sync, send_message
    <3>4. m = 0 /\ k = 0 /\ NthMessage(1) = "Hello"
      BY <3>1, <3>2, <3>3 DEF HasSent, HasAccepted, NthMessage
    <3>5. /\ Append(inbox[o], "Hello") \in Seq({"Hello", "FolderSummary"})
          /\ Holds(Append(inbox[o], "Hello"), j, 1)
      BY <2>t, <2>2, <3>2, <3>4, HoldsFacts
    <3>6. /\ inbox' \in [Ends -> Seq({"Hello", "FolderSummary"})]
          /\ inbox'[e] = inbox[e] /\ inbox'[o] = Append(inbox[o], "Hello")
          /\ step'[e] = "await_reply" /\ step'[o] = step[o]
      BY <2>t, <2>2, <3>3, <3>5
    <3>7. /\ 0 \in 0..2 /\ 1 \in 0..2 /\ "await_reply" \in TransportSteps
          /\ HasAccepted("await_reply", 0) /\ HasSent("await_reply", 1)
      BY DEF HasAccepted, HasSent, TransportSteps
    <3>8. InboxInv(e)' /\ InboxInv(o)'
      BY <2>2, <3>1, <3>2, <3>4, <3>5, <3>6, <3>7 DEF InboxInv
    <3> QED BY <2>1, <3>3, <3>6, <3>7, <3>8
  (* The end accepts a message, answering it with the i-th of its own, if i # 0. *)
  <2>4. ASSUME NEW e \in Ends, NEW s \in TransportSteps \ {"network"}, NEW i \in 0..2,
               link, inbox[e] # <<>>, link' = link, step[e] # "network",
               step' = [step EXCEPT ![e] = s],
               Responding(e) \/ s \notin {"await_Hello", "await_FolderSummary"},
               \A k \in 0..1 : HasAccepted(step[e], k) => HasAccepted(s, k + 1),
               \/ /\ i = 0 /\ inbox' = [inbox EXCEPT ![e] = Tail(@)]
                  /\ \A m \in 0..2 : HasSent(step[e], m) => HasSent(s, m)
               \/ /\ i # 0 /\ HasSent(s, i) /\ \A m \in 0..2 : HasSent(step[e], m) => m + 1 = i
                  /\ inbox' = [inbox EXCEPT ![e] = Tail(@), ![Other(e)] = Append(@, NthMessage(i))]
        PROVE  TransportInv'
    <3> DEFINE o == Other(e)
    <3>1. PICK k \in 0..2, n \in 0..2 :
             HasAccepted(step[e], k) /\ HasSent(step[o], n) /\ Holds(inbox[e], k, n)
      BY <2>2
    <3>2. PICK j \in 0..2, m \in 0..2 :
             HasAccepted(step[o], j) /\ HasSent(step[e], m) /\ Holds(inbox[o], j, m)
      BY <2>2
    <3>3. /\ Tail(inbox[e]) \in Seq({"Hello", "FolderSummary"}) /\ Holds(Tail(inbox[e]), k + 1, n)
          /\ Head(inbox[e]) = NthMessage(k + 1) /\ k < n
      BY <2>t, <2>2, <2>4, <3>1, HoldsFacts
    <3>4. k \in 0..1 /\ k + 1 \in 0..2
      BY <3>3
    <3>5. HasAccepted(s, k + 1) /\ step'[e] = s /\ step'[o] = step[o]
      BY <2>t, <2>2, <2>4, <3>1, <3>3, <3>4
    <3>6. inbox'[e] = Tail(inbox[e])
      BY <2>t, <2>2, <2>4
    <3>7. InboxInv(e)'
      BY <3>1, <3>3, <3>4, <3>5, <3>6 DEF InboxInv
    <3>8. inbox' \in [Ends -> Seq({"Hello", "FolderSummary"})] /\ InboxInv(o)'
      <4>1. CASE i = 0
        <5>1. inbox' \in [Ends -> Seq({"Hello", "FolderSummary"})] /\ inbox'[o] = inbox[o]
          BY <2>t, <2>2, <2>4, <3>3, <4>1
        <5>2. HasSent(s, m)
          BY <2>4, <3>2, <4>1
        <5> QED BY <2>2, <3>2, <3>5, <5>1, <5>2 DEF InboxInv
      <4>2. CASE i # 0
        <5>1. m + 1 = i /\ m < 2 /\ HasSent(s, i)
          BY <2>4, <3>2, <4>2
        <5>2. /\ Append(inbox[o], NthMessage(i)) \in Seq({"Hello", "FolderSummary"})
              /\ Holds(Append(inbox[o], NthMessage(i)), j, i)
          BY <2>t, <2>2, <3>2, <5>1, HoldsFacts
        <5>3. /\ inbox' \in [Ends -> Seq({"Hello", "FolderSummary"})]
              /\ inbox'[o] = Append(inbox[o], NthMessage(i))
          BY <2>t, <2>2, <2>4, <3>3, <4>2, <5>2
        <5> QED BY <2>2, <3>2, <3>5, <5>1, <5>2, <5>3 DEF InboxInv
      <4> QED BY <4>1, <4>2
    <3> QED BY <2>1, <2>4, <3>7, <3>8
  <2>m. NthMessage(1) = "Hello" /\ NthMessage(2) = "FolderSummary"
    BY DEF NthMessage
  <2>n. 0 \in 0..2 /\ 1 \in 0..2 /\ 2 \in 0..2
    OBVIOUS
  <2>5. ASSUME NEW e \in Ends, HelloReply(e) PROVE TransportInv'
    <3>1. /\ step[e] = "await_reply" /\ link /\ link' = link /\ inbox[e] # <<>>
          /\ step' = [step EXCEPT ![e] = "await_Manifest"]
          /\ inbox' = [inbox EXCEPT ![e] = Tail(@), ![Other(e)] = Append(@, NthMessage(2))]
      BY <2>5, <2>m DEF HelloReply, receive_message, Answer
    <3>2. \A k \in 0..1 : HasAccepted(step[e], k) => HasAccepted("await_Manifest", k + 1)
      BY <3>1, AcceptedFacts
    <3>3. 2 # 0 /\ HasSent("await_Manifest", 2) /\ \A m \in 0..2 : HasSent(step[e], m) => m + 1 = 2
      BY <3>1, SentFacts
    <3>4. "await_Manifest" \in TransportSteps \ {"network"}
      BY DEF TransportSteps
    <3> QED BY <2>4, <2>n, <3>1, <3>2, <3>3, <3>4
  <2>6. ASSUME NEW e \in Ends, RespondHello(e) PROVE TransportInv'
    <3>1. /\ step[e] = "await_Hello" /\ link /\ link' = link /\ inbox[e] # <<>>
          /\ step' = [step EXCEPT ![e] = "await_FolderSummary"]
          /\ inbox' = [inbox EXCEPT ![e] = Tail(@), ![Other(e)] = Append(@, NthMessage(1))]
      BY <2>6, <2>m DEF RespondHello, receive_message, Answer
    <3>2. \A k \in 0..1 : HasAccepted(step[e], k) => HasAccepted("await_FolderSummary", k + 1)
      BY <3>1, AcceptedFacts
    <3>3. /\ 1 # 0 /\ HasSent("await_FolderSummary", 1)
          /\ \A m \in 0..2 : HasSent(step[e], m) => m + 1 = 1
      BY <3>1, SentFacts
    <3>4. "await_FolderSummary" \in TransportSteps \ {"network"}
      BY DEF TransportSteps
    <3>5. Responding(e)
      BY <3>1 DEF Responding
    <3> QED BY <2>4, <2>n, <3>1, <3>2, <3>3, <3>4, <3>5
  <2>7. ASSUME NEW e \in Ends, RespondSummary(e) PROVE TransportInv'
    <3>1. /\ step[e] = "await_FolderSummary" /\ link /\ link' = link /\ inbox[e] # <<>>
          /\ step' = [step EXCEPT ![e] = "await_Manifest"]
          /\ inbox' = [inbox EXCEPT ![e] = Tail(@), ![Other(e)] = Append(@, NthMessage(2))]
      BY <2>7, <2>m DEF RespondSummary, receive_message, Answer
    <3>2. \A k \in 0..1 : HasAccepted(step[e], k) => HasAccepted("await_Manifest", k + 1)
      BY <3>1, AcceptedFacts
    <3>3. 2 # 0 /\ HasSent("await_Manifest", 2) /\ \A m \in 0..2 : HasSent(step[e], m) => m + 1 = 2
      BY <3>1, SentFacts
    <3>4. "await_Manifest" \in TransportSteps \ {"network"}
      BY DEF TransportSteps
    <3> QED BY <2>4, <2>n, <3>1, <3>2, <3>3, <3>4
  <2>10. ASSUME NEW e \in Ends, Incompatible(e) PROVE TransportInv'
    <3>1. /\ step[e] \in {"await_reply", "await_Hello"} /\ link /\ link' = link /\ inbox[e] # <<>>
          /\ step' = [step EXCEPT ![e] = "incompatible"] /\ inbox' = [inbox EXCEPT ![e] = Tail(@)]
      BY <2>10 DEF Incompatible, receive_message, Fail
    <3>2. \A k \in 0..1 : HasAccepted(step[e], k) => HasAccepted("incompatible", k + 1)
      BY <3>1, AcceptedFacts
    <3>3. \A m \in 0..2 : HasSent(step[e], m) => HasSent("incompatible", m)
      BY <3>1, SentFacts
    <3>4. "incompatible" \in TransportSteps \ {"network"}
      BY DEF TransportSteps
    <3> QED BY <2>4, <2>n, <3>1, <3>2, <3>3, <3>4
  (* Only the summary meets an end that waits for something else: a Manifest. *)
  <2>11. ASSUME NEW e \in Ends, WrongType(e) PROVE TransportInv'
    <3>1. PICK k \in 0..2, n \in 0..2 :
             HasAccepted(step[e], k) /\ HasSent(step[Other(e)], n) /\ Holds(inbox[e], k, n)
      BY <2>2
    <3>2. /\ Head(inbox[e]) = NthMessage(k + 1) /\ k < n
          /\ Head(inbox[e]) # Awaits[step[e]] /\ Waiting(e)
      BY <2>t, <2>2, <2>11, <3>1, HoldsFacts DEF WrongType
    <3>3. step[e] = "await_Manifest"
      <4>1. step[e] \in {"await_reply", "await_Hello"} => k = 0 /\ Awaits[step[e]] = "Hello"
        BY <3>1, AwaitsFacts, AcceptedFacts
      <4>2. step[e] = "await_FolderSummary" => k = 1 /\ Awaits[step[e]] = "FolderSummary"
        BY <3>1, AwaitsFacts, AcceptedFacts
      <4>3. step[e] \in {"await_reply", "await_Hello", "await_FolderSummary", "await_Manifest"}
        BY <3>2, AwaitsFacts DEF Waiting
      <4> QED BY <2>m, <3>2, <4>1, <4>2, <4>3
    <3>4. /\ link /\ link' = link /\ inbox[e] # <<>>
          /\ step' = [step EXCEPT ![e] = "no_manifest"] /\ inbox' = [inbox EXCEPT ![e] = Tail(@)]
      BY <2>11, <3>3 DEF WrongType, Fail
    <3>5. \A i \in 0..1 : HasAccepted(step[e], i) => HasAccepted("no_manifest", i + 1)
      BY <3>3, AcceptedFacts
    <3>6. \A m \in 0..2 : HasSent(step[e], m) => HasSent("no_manifest", m)
      BY <3>3, SentFacts
    <3>7. "no_manifest" \in TransportSteps \ {"network"}
      BY DEF TransportSteps
    <3> QED BY <2>4, <2>n, <3>3, <3>4, <3>5, <3>6, <3>7
  <2>8. ASSUME NEW e \in Ends, StreamError(e) PROVE TransportInv'
    <3>1. /\ \A n \in 0..2 : HasAccepted("network", n) /\ HasSent("network", n)
          /\ "network" \in TransportSteps
      BY DEF HasAccepted, HasSent, TransportSteps
    <3>2. /\ ~ link /\ step' = [step EXCEPT ![e] = "network"] /\ UNCHANGED <<inbox, link>>
          /\ step[e] # "network"
      BY <2>8, AwaitsFacts DEF StreamError, Waiting
    <3>3. step'[e] = "network" /\ step'[Other(e)] = step[Other(e)]
      BY <2>t, <2>2, <3>2
    <3>4. InboxInv(e)' /\ InboxInv(Other(e))'
      BY <2>2, <3>1, <3>2, <3>3 DEF InboxInv
    <3> QED BY <2>1, <2>t, <3>1, <3>2, <3>4
  <2>9. CASE ConnectionLost \/ UNCHANGED tvars
    <3>1. UNCHANGED <<step, inbox>> /\ (link' => link)
      BY <2>9 DEF ConnectionLost, tvars
    <3> QED BY <3>1 DEF TransportInv, InboxInv, Responding
  <2> QED BY <2>3, <2>5, <2>6, <2>7, <2>8, <2>9, <2>10, <2>11 DEF TransportNext
<1>3. TransportInv => OnlyManifestBlocks
  <2> SUFFICES ASSUME TransportInv PROVE OnlyManifestBlocks
    OBVIOUS
  <2>t. step \in [Ends -> TransportSteps] /\ inbox \in [Ends -> Seq({"Hello", "FolderSummary"})]
    BY DEF TransportInv
  (* Who has nothing to accept has accepted all that was sent. *)
  <2>1. ASSUME NEW e \in Ends, inbox[e] = <<>>
        PROVE  \E k \in 0..2 : HasAccepted(step[e], k) /\ HasSent(step[Other(e)], k)
    <3>1. PICK k \in 0..2, n \in 0..2 :
             HasAccepted(step[e], k) /\ HasSent(step[Other(e)], n) /\ Holds(inbox[e], k, n)
      BY TwoEnds DEF TransportInv, InboxInv
    <3> QED BY <2>1, <2>t, <3>1, HoldsFacts
  <2>2. \A e \in Ends : step[e] # "wrong_type"
    BY <2>t DEF TransportSteps
  <2>3. ASSUME \A e \in Ends : Waiting(e) /\ inbox[e] = <<>>, NEW e \in Ends
        PROVE  step[e] = "await_Manifest"
    <3> DEFINE o == Other(e)
    <3>1. /\ o \in Ends /\ Other(o) = e /\ Ends = {e, o}
      BY TwoEnds
    <3>2. PICK k \in 0..2 : HasAccepted(step[e], k) /\ HasSent(step[o], k)
      BY <2>1, <2>3
    <3>3. PICK j \in 0..2 : HasAccepted(step[o], j) /\ HasSent(step[e], j)
      BY <2>1, <2>3, <3>1
    <3>4. Waiting(e) /\ Waiting(o) /\ ~ (Responding(e) /\ Responding(o))
      BY <2>3, <3>1 DEF TransportInv
    <3>5. step[e] \in DOMAIN Awaits /\ step[o] \in DOMAIN Awaits
      BY <3>4 DEF Waiting
    <3>6. CASE step[e] = "await_Manifest"
      BY <3>6
    <3>7. CASE step[e] = "await_reply"
      <4>1. k = 0 /\ j = 1
        BY <3>2, <3>3, <3>7, SentFacts, AcceptedFacts
      <4> QED BY <3>2, <3>3, <3>5, <4>1, AwaitsFacts, SentFacts, AcceptedFacts
    <3>8. CASE step[e] = "await_Hello"
      <4>1. k = 0 /\ j = 0
        BY <3>2, <3>3, <3>8, SentFacts, AcceptedFacts
      <4>2. step[o] = "await_Hello"
        BY <3>2, <3>3, <3>5, <4>1, AwaitsFacts, SentFacts, AcceptedFacts
      <4> QED BY <3>4, <3>8, <4>2 DEF Responding
    <3>9. CASE step[e] = "await_FolderSummary"
      <4>1. k = 1 /\ j = 1
        BY <3>2, <3>3, <3>9, SentFacts, AcceptedFacts
      <4>2. step[o] = "await_FolderSummary"
        BY <3>2, <3>3, <3>5, <4>1, AwaitsFacts, SentFacts, AcceptedFacts
      <4> QED BY <3>4, <3>9, <4>2 DEF Responding
    <3> QED BY <3>5, <3>6, <3>7, <3>8, <3>9, AwaitsFacts
  <2>4. ASSUME NEW e \in Ends, Waiting(e), inbox[e] = <<>>, step[e] # "await_Manifest",
               ~ Waiting(Other(e))
        PROVE  step[Other(e)] \in {"initiate", "incompatible", "network"}
    <3>1. PICK k \in 0..2 : HasAccepted(step[e], k) /\ HasSent(step[Other(e)], k)
      BY <2>1, <2>4
    <3>2. step[Other(e)] \in TransportSteps
      BY <2>t, TwoEnds
    <3>3. step[e] \in {"await_reply", "await_Hello", "await_FolderSummary"}
      BY <2>4, AwaitsFacts DEF Waiting
    <3>4. k = 0 \/ k = 1
      BY <3>1, <3>3, AcceptedFacts
    <3>5. step[Other(e)] \in {"initiate", "no_manifest", "incompatible", "network"}
      BY <2>4, <3>2, AwaitsFacts DEF Waiting, TransportSteps
    <3> QED BY <3>1, <3>4, <3>5, SentFacts
  <2> QED BY <2>2, <2>3, <2>4 DEF OnlyManifestBlocks
<1> QED BY <1>1, <1>2, <1>3, PTL DEF TransportSpec
=============================================================================
