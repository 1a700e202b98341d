------------------------ MODULE Orchestrator_proofs ------------------------
(***************************************************************************)
(* For any folder, number of tasks and peers, and with failures and        *)
(* crashes: what the index names is in the content store (NamedIsStored),  *)
(* and once nothing is reported, buffered, queued or being worked on, and  *)
(* nothing has failed, the index holds what the folder holds (CaughtUp).   *)
(*                                                                         *)
(* NamedIsStored is not inductive: save_manifest takes the contents it     *)
(* names from the manifest built so far, and upsert_file takes them from   *)
(* the file being indexed, whose chunks store_chunks has stored before.    *)
(* CaughtUp needs, for every path whose row is out of date, the place its  *)
(* change has reached: NoneForgotten.                                      *)
(***************************************************************************)
EXTENDS Orchestrator, FiniteSetTheorems, TLAPS

Contents == [Paths -> Nat \cup {Gone}]

IndexTypes ==
    /\ disk \in Contents /\ files \in Contents /\ partial \in Contents
    /\ \A m \in manifests : m.entries \in Contents
    /\ ipc \in {"idle", "next", "chunks", "row"}
    /\ left \subseteq Paths
    /\ writes \in [Paths -> Nat]

EntryIsFile == ipc \in {"chunks", "row"} => entry \in Paths \X Nat

RowIsStored == ipc = "row" => entry \in store

PartialIsStored ==
    \A p \in Paths : partial[p] # Gone => <<p, partial[p]>> \in store

IInv ==
    /\ IndexTypes /\ EntryIsFile /\ RowIsStored /\ PartialIsStored /\ NamedIsStored

(* A step of the actor, a task or the user that leaves the indexer alone,  *)
(* and at most adds to the store, preserves the invariant.                 *)
LEMMA OthersPreserve ==
    ASSUME IInv, store \subseteq store', disk' \in Contents, writes' \in [Paths -> Nat],
           UNCHANGED <<tables, ipc, left, entry, partial>>
    PROVE  IInv'
  BY DEF IInv, IndexTypes, EntryIsFile, RowIsStored, PartialIsStored, NamedIsStored,
         Contents, tables

(* The lock is given back: whatever was being indexed is dropped. *)
LEMMA ReturnPreserves ==
    ASSUME IInv, UNCHANGED <<disk, store, writes, tables>>,
           NEW c, NEW r, Return(c, r)
    PROVE  IInv'
  BY DEF IInv, IndexTypes, EntryIsFile, RowIsStored, PartialIsStored, NamedIsStored,
         Contents, tables, Return, NoFiles

(* An empty index names nothing. *)
LEMMA InitEstablishes == Init => IInv
  BY DEF Init, IndexInit, IInv, IndexTypes, EntryIsFile, RowIsStored, PartialIsStored,
         NamedIsStored, Contents, NoFiles

(* Chunks before rows, rows before the manifest. *)
LEMMA IndexPreserves ==
    ASSUME IInv, NEW c \in Clients, IndexStep(c) \/ IndexFailure(c), UNCHANGED writes
    PROVE  IInv'
<1> USE DEF tables
<1>1. CASE index_folder(c)
  BY <1>1 DEF index_folder, IInv, IndexTypes, EntryIsFile, RowIsStored,
              PartialIsStored, NamedIsStored, Contents, OnDisk
<1>2. CASE index_file(c)
  BY <1>2 DEF index_file, IInv, IndexTypes, EntryIsFile, RowIsStored,
              PartialIsStored, NamedIsStored, Contents
<1>3. CASE store_chunks(c)
  BY <1>3 DEF store_chunks, IInv, IndexTypes, EntryIsFile, RowIsStored,
              PartialIsStored, NamedIsStored, Contents
<1>4. CASE upsert_file(c)
  <2>1. PICK p \in Paths, v \in Nat : entry = <<p, v>> /\ <<p, v>> \in store
    BY <1>4 DEF upsert_file, IInv, EntryIsFile, RowIsStored
  <2>2. /\ files' = [files EXCEPT ![p] = v] /\ partial' = [partial EXCEPT ![p] = v]
        /\ UNCHANGED <<disk, store, manifests, left>> /\ ipc' = "next"
    BY <1>4, <2>1 DEF upsert_file
  <2>3. IndexTypes' /\ EntryIsFile' /\ RowIsStored'
    BY <2>2 DEF IInv, IndexTypes, EntryIsFile, RowIsStored, Contents
  <2>4. PartialIsStored'
    BY <2>1, <2>2 DEF IInv, IndexTypes, PartialIsStored, Contents
  <2>5. NamedIsStored'
    BY <2>1, <2>2 DEF IInv, IndexTypes, NamedIsStored, Contents
  <2> QED
    BY <2>3, <2>4, <2>5 DEF IInv
<1>5. CASE save_manifest(c)
  <2>1. CASE \E m \in manifests : m.version = version
    BY <1>5, <2>1, ReturnPreserves DEF save_manifest
  <2>2. CASE ~ \E m \in manifests : m.version = version
    <3>1. PICK row : row.entries = partial /\ manifests' = manifests \cup {row}
      BY <1>5, <2>2 DEF save_manifest
    <3>2. files' = [p \in Paths |-> IF partial[p] = Gone THEN files[p] ELSE partial[p]]
      BY <1>5, <2>2 DEF save_manifest
    <3>3. /\ UNCHANGED <<disk, store>> /\ ipc' = "idle" /\ left' = {}
          /\ partial' = [p \in Paths |-> Gone]
      BY <1>5, <2>2 DEF save_manifest, Return, NoFiles
    <3>4. IndexTypes' /\ EntryIsFile' /\ RowIsStored' /\ PartialIsStored'
      BY <3>1, <3>2, <3>3 DEF IInv, IndexTypes, EntryIsFile, RowIsStored,
                              PartialIsStored, Contents
    <3>5. NamedIsStored'
      BY <3>1, <3>2, <3>3 DEF IInv, IndexTypes, PartialIsStored, NamedIsStored, Contents
    <3> QED BY <3>4, <3>5 DEF IInv
  <2> QED BY <2>1, <2>2
<1>6. CASE index_file_fails(c)
  BY <1>6 DEF index_file_fails, IInv, IndexTypes, EntryIsFile, RowIsStored,
              PartialIsStored, NamedIsStored, Contents
<1>7. CASE index_folder_fails(c)
  BY <1>7, ReturnPreserves DEF index_folder_fails
<1> QED
  BY <1>1, <1>2, <1>3, <1>4, <1>5, <1>6, <1>7 DEF IndexStep, IndexFailure

(* Every step of the daemon, the user or a failure preserves the invariant. *)
LEMMA NextPreserves == IInv /\ [Next]_vars => IInv'
<1> SUFFICES ASSUME IInv, [Next]_vars PROVE IInv'
  OBVIOUS
<1>t. disk \in Contents /\ writes \in [Paths -> Nat]
  BY DEF IInv, IndexTypes
<1>1. ASSUME NEW p \in Paths, WriteFile(p) PROVE IInv'
  BY <1>1, <1>t, OthersPreserve DEF WriteFile, Changed, Contents, tables, indexing
<1>2. ASSUME NEW p \in Paths, RemoveFile(p) PROVE IInv'
  BY <1>2, <1>t, OthersPreserve DEF RemoveFile, Changed, Contents, tables, indexing
<1>3. ASSUME NEW e \in Events, FileChanged(e) PROVE IInv'
  BY <1>3, <1>t, OthersPreserve DEF FileChanged, Receive, tables, indexing
<1>4. CASE Handle
  <2> USE <1>t, OthersPreserve DEF Receive, ProcessFolder, tables, indexing
  <2>1. ASSUME NEW n \in Peers,
               \/ handle_peer_discovered(n) \/ handle_peer_lost(n)
               \/ handle_sync_request(n)
        PROVE  IInv'
    BY <2>1 DEF handle_peer_discovered, handle_peer_lost, handle_sync_request
  <2>2. CASE add_sync_folder \/ remove_sync_folder \/ Shutdown
    BY <2>2 DEF add_sync_folder, remove_sync_folder, Shutdown
  <2> QED BY <1>4, <2>1, <2>2 DEF Handle
<1>5. CASE process_debounced_changes \/ process_file_batch \/ Join \/ BatchesDone
             \/ shutdown
  BY <1>5, <1>t, OthersPreserve
     DEF process_debounced_changes, process_file_batch, Join, BatchesDone, shutdown,
         BatchStep, ivars, channel, tables, indexing
<1>6. CASE FolderIndexed \/ EntryStored \/ EntryIndexed \/ FolderDone \/ EntryFails
             \/ FolderFails
  BY <1>6, <1>t, OthersPreserve
     DEF FolderIndexed, EntryStored, EntryIndexed, FolderDone, EntryFails, FolderFails,
         FolderStep, channel, tables, indexing
<1>7. ASSUME NEW i \in Slots, FileStep(i) \/ FileFails(i) PROVE IInv'
  BY <1>7, <1>t, OthersPreserve
     DEF FileStep, ReadFile, StoreFile, FileIndexed, FileFails, TaskStep, channel,
         tables, indexing
<1>8. ASSUME NEW c \in Clients, Index(c) \/ IndexFails(c) PROVE IInv'
  BY <1>8, IndexPreserves DEF Index, IndexFails, ovars, channel
<1>9. CASE Restart
  BY <1>9 DEF Restart, NoFiles, IInv, IndexTypes, EntryIsFile, RowIsStored,
              PartialIsStored, NamedIsStored, Contents, tables
<1>10. CASE UNCHANGED vars
  BY <1>10, <1>t, OthersPreserve DEF vars, ivars, ovars, channel, tables, indexing
<1> QED
  BY <1>1, <1>2, <1>3, <1>4, <1>5, <1>6, <1>7, <1>8, <1>9, <1>10 DEF Next, ActorStep

(* Every content that a row of files or a saved manifest names is in the   *)
(* content store, for any number of files, tasks and peers, whatever fails *)
(* and wherever the daemon is killed: index_file stores before it enters.  *)
THEOREM NamedAreStored == Spec => []NamedIsStored
<1>1. IInv => NamedIsStored
  BY DEF IInv
<1> QED
  BY InitEstablishes, NextPreserves, <1>1, PTL DEF Spec
-----------------------------------------------------------------------------
(* What a change still has to pass before files has it: the event is on its *)
(* way or buffered, its path is in a list, a task has it, or the run of the *)
(* indexer that the task asked for still has to come to the file.           *)
Heard(e, p) == e.path = p /\ e.kind # "Deleted"

Waiting(p) ==
    \/ \E e \in sends : Heard(e, p)
    \/ \E i \in DOMAIN buffer : Heard(buffer[i], p)

Listed(p) == \E k \in Kinds \ {"Deleted"} : \E j \in DOMAIN lists[k] : lists[k][j] = p

Due(p) == p \in left \/ (ipc \in {"chunks", "row"} /\ entry = <<p, disk[p]>>)

Task(p) ==
    \E i \in Slots :
        /\ slot[i].step \in {"read", "store", "index"} /\ slot[i].path = p
        /\ slot[i].step = "index" => call[i] = "asked" /\ (user = i => Due(p))

SlotTypes ==
    /\ DOMAIN slot = Slots
    /\ \A i \in Slots : /\ slot[i].step \in {"free", "read", "store", "index", "done"}
                        /\ slot[i].step # "free" => slot[i].path \in Paths

ActorTypes ==
    /\ known \subseteq Paths /\ sends \subseteq Events /\ buffer \in Seq(Events)
    /\ lists \in [Kinds -> Seq(Paths)]
    /\ pc \in {"loop", "folder", "entries", "entry", "batches", "join", "shutdown", "stopped"}
    /\ call \in [Clients -> {"none", "asked", "ok", "error"}]
    /\ user \in Clients \cup {NoClient}

(* The actor is in its loop only when the batches are done. *)
ActorIdle ==
    /\ pc # "join" => \A i \in Slots : slot[i] = Free
    /\ pc \notin {"batches", "join"} => lists = NoLists

(* Who asks for a run of the indexer waits for it. *)
Askers ==
    /\ \A i \in Slots : call[i] # "none" => slot[i].step = "index"
    /\ user # NoClient => call[user] = "asked"

ShapeInv == SlotTypes /\ ActorTypes /\ ActorIdle /\ Askers

(* Contents are new; what the indexer read of a file is not older than the  *)
(* row, unless the file has changed again.                                  *)
RowsFresh ==
    /\ \A p \in Paths : disk[p] # Gone => disk[p] <= writes[p]
    /\ \A p \in Paths : files[p] # Gone => files[p] <= writes[p]
    /\ ipc \in {"chunks", "row"} =>
          /\ entry[2] <= writes[entry[1]]
          /\ files[entry[1]] = disk[entry[1]] =>
                disk[entry[1]] \in {Gone, entry[2]}
    /\ \A p \in Paths : partial[p] # Gone => files[p] = partial[p]

NoneForgotten ==
    ~failed => \A p \in known : disk[p] # Gone =>
        files[p] = disk[p] \/ Waiting(p) \/ Listed(p) \/ Task(p)

CaughtUpInv == IInv /\ ShapeInv /\ RowsFresh /\ NoneForgotten

-----------------------------------------------------------------------------
(* Grouping loses no event: the events of one kind are numbered by rank.    *)
RankIn(i, mine) == Cardinality({j \in mine : j <= i})

LEMMA RankIsBijection ==
    ASSUME NEW mine \in SUBSET Nat, IsFiniteSet(mine)
    PROVE  /\ \A i \in mine : RankIn(i, mine) \in 1..Cardinality(mine)
           /\ \A i, j \in mine : RankIn(i, mine) = RankIn(j, mine) => i = j
           /\ \A n \in 1..Cardinality(mine) : \E i \in mine : RankIn(i, mine) = n
<1> DEFINE Upto(i) == {j \in mine : j <= i}
           rank == [i \in mine |-> RankIn(i, mine)]
<1>0. \A i \in mine : rank[i] = Cardinality(Upto(i)) /\ rank[i] = RankIn(i, mine)
  BY DEF RankIn
<1> HIDE DEF rank
<1>1. \A i \in mine : IsFiniteSet(Upto(i)) /\ Cardinality(Upto(i)) <= Cardinality(mine)
  <2> TAKE i \in mine
  <2>1. Upto(i) \in SUBSET mine
    OBVIOUS
  <2> QED BY <2>1, FS_Subset
<1>2. Cardinality(mine) \in Nat
  BY FS_CardinalityType
<1>3. \A i \in mine : Cardinality(Upto(i)) \in 1..Cardinality(mine)
  <2> TAKE i \in mine
  <2>1. Cardinality(Upto(i)) \in Nat
    BY <1>1, FS_CardinalityType
  <2>2. i \in Upto(i)
    OBVIOUS
  <2>3. Cardinality(Upto(i)) # 0
    BY <1>1, <2>2, FS_EmptySet
  <2> QED BY <1>1, <1>2, <2>1, <2>3
<1>4. ASSUME NEW i \in mine, NEW j \in mine, i < j PROVE Cardinality(Upto(i)) # Cardinality(Upto(j))
  <2>1. Upto(i) \in SUBSET Upto(j)
    <3>1. \A m \in mine : m <= i => m <= j
      BY <1>4
    <3> QED BY <3>1
  <2>2. j \in Upto(j) /\ j \notin Upto(i)
    BY <1>4
  <2> QED BY <1>1, <2>1, <2>2, FS_Subset
<1>5. \A i, j \in mine : rank[i] = rank[j] => i = j
  <2> SUFFICES ASSUME NEW i \in mine, NEW j \in mine, rank[i] = rank[j], i # j PROVE FALSE
    OBVIOUS
  <2>1. Cardinality(Upto(i)) = Cardinality(Upto(j))
    BY <1>0
  <2>2. i < j \/ j < i
    OBVIOUS
  <2> QED BY <1>4, <2>1, <2>2
<1>6. \A i \in mine : rank[i] \in 1..Cardinality(mine)
  BY <1>0, <1>3
<1>7. \A n \in 1..Cardinality(mine) : \E i \in mine : rank[i] = n
  <2>1. rank \in [mine -> 1..Cardinality(mine)]
    BY <1>6 DEF rank
  <2>2. rank \in Injection(mine, 1..Cardinality(mine))
    BY <1>5, <2>1 DEF Injection, IsInjective
  <2>3. IsFiniteSet(1..Cardinality(mine)) /\ Cardinality(1..Cardinality(mine)) = Cardinality(mine)
    BY <1>2, FS_Interval
  <2>4. rank \in Surjection(mine, 1..Cardinality(mine))
    BY <2>2, <2>3, FS_Injection
  <2> QED BY <2>4 DEF Surjection
<1>8. \A i \in mine : RankIn(i, mine) \in 1..Cardinality(mine)
  BY <1>0, <1>6
<1>9. \A n \in 1..Cardinality(mine) : \E i \in mine : RankIn(i, mine) = n
  BY <1>0, <1>7
<1>10. \A i, j \in mine : RankIn(i, mine) = RankIn(j, mine) => i = j
  BY <1>0, <1>5
<1> QED BY <1>8, <1>9, <1>10

LEMMA GroupedHasAll ==
    ASSUME NEW events \in Seq(Events)
    PROVE  /\ Grouped(events) \in [Kinds -> Seq(Paths)]
           /\ \A i \in DOMAIN events : \E j \in DOMAIN Grouped(events)[events[i].kind] :
                 Grouped(events)[events[i].kind][j] = events[i].path
<1>1. ASSUME NEW k \in Kinds
      PROVE  /\ Grouped(events)[k] \in Seq(Paths)
             /\ \A i \in DOMAIN events : events[i].kind = k =>
                   \E j \in DOMAIN Grouped(events)[k] : Grouped(events)[k][j] = events[i].path
  <2> DEFINE mine    == {i \in DOMAIN events : events[i].kind = k}
             size    == Cardinality(mine)
             Pick(n) == CHOOSE i \in mine : RankIn(i, mine) = n
  <2>1. Grouped(events)[k] = [n \in 1..size |-> events[Pick(n)].path]
    BY DEF Grouped, RankIn
  <2>2. mine \in SUBSET Nat /\ IsFiniteSet(mine) /\ size \in Nat
    <3>1. DOMAIN events = 1..Len(events) /\ Len(events) \in Nat
      OBVIOUS
    <3>2. mine \in SUBSET (1..Len(events))
      BY <3>1
    <3>3. IsFiniteSet(1..Len(events))
      BY <3>1, FS_Interval
    <3>4. IsFiniteSet(mine)
      BY <3>2, <3>3, FS_Subset
    <3> QED BY <3>2, <3>4, FS_CardinalityType
  <2>3. /\ \A i \in mine : RankIn(i, mine) \in 1..size
        /\ \A i, j \in mine : RankIn(i, mine) = RankIn(j, mine) => i = j
        /\ \A n \in 1..size : \E i \in mine : RankIn(i, mine) = n
    <3> HIDE DEF mine
    <3> QED BY <2>2, RankIsBijection
  <2> HIDE DEF size
  <2>5. \A n \in 1..size : Pick(n) \in mine /\ RankIn(Pick(n), mine) = n
    <3> HIDE DEF mine
    <3> QED BY <2>3
  <2>6. \A i \in mine : Pick(RankIn(i, mine)) = i
    <3> HIDE DEF mine
    <3> QED BY <2>3, <2>5
  <2>7. \A i \in mine : events[i] \in Events
    OBVIOUS
  <2> HIDE DEF Pick
  <2>8. Grouped(events)[k] \in [1..size -> Paths]
    BY <2>1, <2>5, <2>7 DEF Events
  <2>9. Grouped(events)[k] \in Seq(Paths)
    <3>1. PICK n \in Nat : n = size
      BY <2>2 DEF size
    <3>2. PICK g : g = Grouped(events)[k]
      OBVIOUS
    <3>3. g \in [1..n -> Paths]
      BY <2>8, <3>1, <3>2
    <3>4. g \in Seq(Paths)
      BY <3>3
    <3> QED BY <3>2, <3>4
  <2>10. ASSUME NEW i \in DOMAIN events, events[i].kind = k
         PROVE  \E j \in DOMAIN Grouped(events)[k] : Grouped(events)[k][j] = events[i].path
    <3>1. i \in mine
      BY <2>10
    <3>2. RankIn(i, mine) \in 1..size /\ Pick(RankIn(i, mine)) = i
      BY <2>3, <2>6, <3>1
    <3> QED BY <2>1, <3>2
  <2> QED BY <2>9, <2>10
<1>2. \A i \in DOMAIN events : events[i].kind \in Kinds
  <2>1. \A i \in DOMAIN events : events[i] \in Events
    OBVIOUS
  <2> QED BY <2>1 DEF Events
<1>3. Grouped(events) \in [Kinds -> Seq(Paths)]
  BY <1>1 DEF Grouped
<1> QED BY <1>1, <1>2, <1>3

(* The actor's, the tasks' and the indexer's steps keep their places apart. *)
LEMMA ShapeStep ==
    ASSUME IInv, ShapeInv, [Next]_vars
    PROVE  ShapeInv'
<1> USE DEF ShapeInv
<1>1. /\ SlotTypes /\ ActorTypes /\ ActorIdle /\ Askers /\ IndexTypes
      /\ \A i \in Slots : i \in Clients /\ i # 0
      /\ 0 \in Clients
  BY IndexAssumption DEF IInv, Slots, Clients
<1>0. \A j \in Slots : /\ slot[j].step \in {"free", "read", "store", "index", "done"}
                       /\ slot[j].step # "free" => slot[j].path \in Paths
  BY DEF SlotTypes
<1> DEFINE Kept == UNCHANGED <<known, sends, buffer, lists, slot, pc, call, user>>
<1>2. ASSUME Kept PROVE ShapeInv'
  BY <1>1, <1>2 DEF SlotTypes, ActorTypes, ActorIdle, Askers
<1>3. ASSUME NEW p \in Paths, WriteFile(p) \/ RemoveFile(p) PROVE ShapeInv'
  <2>1. UNCHANGED <<buffer, lists, slot, pc, call, user>>
    BY <1>3 DEF WriteFile, RemoveFile, Changed, indexing
  <2>2. sends' = sends \/ \E k \in Kinds : sends' = sends \cup {[kind |-> k, path |-> p]}
    BY <1>3 DEF WriteFile, RemoveFile, Changed, Kinds
  <2>3. sends' \subseteq Events /\ known' \subseteq Paths
    <3>1. known' \subseteq known \cup {p}
      BY <1>3 DEF WriteFile, RemoveFile, Changed
    <3> QED BY <1>1, <2>2, <3>1 DEF ActorTypes, Events
  <2> QED BY <1>1, <2>1, <2>3 DEF SlotTypes, ActorTypes, ActorIdle, Askers
<1>4. ASSUME NEW e \in Events, FileChanged(e) PROVE ShapeInv'
  <2>1. /\ UNCHANGED <<known, lists, slot, pc, call, user>>
        /\ sends' \subseteq sends /\ buffer' = Append(buffer, e)
    BY <1>4 DEF FileChanged, Receive, indexing
  <2>2. buffer' \in Seq(Events)
    BY <1>1, <2>1 DEF ActorTypes
  <2> QED BY <1>1, <2>1, <2>2 DEF SlotTypes, ActorTypes, ActorIdle, Askers
<1>5. ASSUME UNCHANGED <<known, sends, buffer, lists, slot, user>>, pc \notin {"batches", "join"},
             pc' \in {"loop", "folder", "entries", "entry", "shutdown", "stopped"},
             \/ UNCHANGED call
             \/ call' = [call EXCEPT ![0] = "asked"]
             \/ call[0] # "asked" /\ call' = [call EXCEPT ![0] = "none"]
      PROVE  ShapeInv'
  <2>1. call' \in [Clients -> {"none", "asked", "ok", "error"}] /\ \A i \in Slots : call'[i] = call[i]
    BY <1>1, <1>5 DEF ActorTypes
  <2>2. user # NoClient => call'[user] = "asked"
    <3>1. user # NoClient => user \in Clients /\ call[user] = "asked"
      BY <1>1 DEF ActorTypes, Askers
    <3> QED BY <1>1, <1>5, <3>1 DEF ActorTypes
  <2> QED BY <1>1, <1>5, <2>1, <2>2 DEF SlotTypes, ActorTypes, ActorIdle, Askers
<1>6. CASE Handle
  <2>1. UNCHANGED <<known, lists, slot, user>> /\ pc = "loop" /\ UNCHANGED <<sends, buffer>>
    BY <1>6 DEF Handle, handle_peer_discovered, handle_peer_lost, handle_sync_request, add_sync_folder,
       remove_sync_folder, Shutdown, Receive, indexing
  <2>2. pc' \in {"loop", "folder", "shutdown"} /\ (UNCHANGED call \/ call' = [call EXCEPT ![0] = "asked"])
    BY <1>6 DEF Handle, handle_peer_discovered, handle_peer_lost, handle_sync_request, add_sync_folder,
       remove_sync_folder, Shutdown, Receive, ProcessFolder
  <2> QED BY <1>5, <2>1, <2>2
<1>7. CASE FolderIndexed \/ EntryStored \/ EntryIndexed \/ FolderDone \/ EntryFails \/ FolderFails
  <2>1. UNCHANGED <<known, sends, buffer, lists, slot, user>>
    BY <1>7 DEF FolderIndexed, EntryStored, EntryIndexed, FolderDone, EntryFails, FolderFails, FolderStep,
       channel, indexing
  <2>2. pc \in {"folder", "entries", "entry"} /\ pc' \in {"loop", "entries", "entry"}
    BY <1>7 DEF FolderIndexed, EntryStored, EntryIndexed, FolderDone, EntryFails, FolderFails
  <2>3. \/ UNCHANGED call
        \/ call' = [call EXCEPT ![0] = "asked"]
        \/ call[0] # "asked" /\ call' = [call EXCEPT ![0] = "none"]
    BY <1>7 DEF FolderIndexed, EntryStored, EntryIndexed, FolderDone, EntryFails, FolderFails
  <2> QED BY <1>5, <2>1, <2>2, <2>3
<1>8. CASE process_debounced_changes
  <2>1. /\ UNCHANGED <<known, sends, slot, call, user>> /\ buffer' = <<>> /\ lists' = Grouped(buffer)
        /\ pc' = "batches" /\ pc # "join"
    BY <1>8 DEF process_debounced_changes, BatchStep, ivars, channel, indexing
  <2>2. lists' \in [Kinds -> Seq(Paths)]
    BY <1>1, <2>1, GroupedHasAll DEF ActorTypes
  <2> QED BY <1>1, <2>1, <2>2 DEF SlotTypes, ActorTypes, ActorIdle, Askers
<1>9. CASE process_file_batch
  <2>1. UNCHANGED <<known, sends, buffer, call, user>> /\ pc = "batches" /\ pc' = "join"
    BY <1>9 DEF process_file_batch, BatchStep, ivars, channel, indexing
  <2>2. PICK k \in Kinds :
          /\ slot' = [i \in Slots |->
                IF i > Len(lists[k]) THEN Free
                ELSE [step |-> IF k = "Deleted" THEN "done" ELSE "read", path |-> lists[k][i]]]
          /\ lists' = [lists EXCEPT ![k] = SubSeq(@, MaxConcurrent + 1, Len(@))]
    BY <1>9 DEF process_file_batch
  <2>3. PICK s \in Seq(Paths) : s = lists[k]
    BY <1>1 DEF ActorTypes
  <2>4. SubSeq(s, MaxConcurrent + 1, Len(s)) \in Seq(Paths)
    BY IndexAssumption
  <2>5. lists' \in [Kinds -> Seq(Paths)]
    BY <1>1, <2>2, <2>3, <2>4 DEF ActorTypes
  <2>6. \A i \in Slots : /\ slot'[i].step \in {"free", "read", "done"}
                         /\ slot'[i].step # "free" => slot'[i].path \in Paths
    <3> TAKE i \in Slots
    <3>1. i \in Nat \ {0} /\ Len(s) \in Nat
      BY IndexAssumption DEF Slots
    <3>2. CASE i > Len(s)
      BY <2>2, <2>3, <3>2 DEF Free
    <3>3. CASE ~ (i > Len(s))
      <4>1. s[i] \in Paths
        BY <3>1, <3>3
      <4> QED BY <2>2, <2>3, <3>3, <4>1
    <3> QED BY <3>2, <3>3
  <2>7. DOMAIN slot' = Slots
    BY <2>2
  <2>8. \A i \in Slots : call[i] = "none"
    BY <1>1, <2>1 DEF ActorIdle, Askers, Free
  <2> QED BY <1>1, <2>1, <2>5, <2>6, <2>7, <2>8 DEF SlotTypes, ActorTypes, ActorIdle, Askers
<1>10. CASE Join
  <2>1. /\ UNCHANGED <<known, sends, buffer, lists, call, user>> /\ pc = "join" /\ pc' = "batches"
        /\ slot' = [i \in Slots |-> Free]
        /\ \A i \in Slots : slot[i].step \in {"free", "done"}
    BY <1>10 DEF Join, BatchStep, ivars, channel, indexing
  <2> QED BY <1>1, <2>1 DEF SlotTypes, ActorTypes, ActorIdle, Askers, Free
<1>11. CASE BatchesDone \/ shutdown
  <2>1. /\ UNCHANGED <<known, sends, buffer, lists, slot, call, user>>
        /\ pc \in {"batches", "shutdown"} /\ pc' \in {"loop", "stopped"}
        /\ pc = "batches" => lists = NoLists
    BY <1>11 DEF BatchesDone, shutdown, BatchStep, ivars, channel, indexing
  <2> QED BY <1>1, <2>1 DEF SlotTypes, ActorTypes, ActorIdle, Askers
<1>12. ASSUME NEW i \in Slots, FileStep(i) \/ FileFails(i) PROVE ShapeInv'
  <2>1. UNCHANGED <<known, sends, buffer, lists, pc, user>>
    BY <1>12 DEF FileStep, ReadFile, StoreFile, FileIndexed, FileFails, TaskStep, channel, indexing
  <2>2. PICK s : /\ slot' = [slot EXCEPT ![i] = s]
                 /\ s.step \in {"store", "index", "done"} /\ s.path = slot[i].path
    BY <1>12 DEF FileStep, ReadFile, StoreFile, FileIndexed, FileFails
  <2>3. slot[i].step # "free" /\ slot[i].path \in Paths
    BY <1>1, <1>12 DEF FileStep, ReadFile, StoreFile, FileIndexed, FileFails, SlotTypes, ActorTypes
  <2>4. pc = "join"
    BY <1>1, <2>3 DEF ActorIdle, Free
  <2>5. \/ UNCHANGED call /\ slot[i].step \in {"read", "store"}
        \/ call' = [call EXCEPT ![i] = "asked"] /\ s.step = "index"
        \/ call' = [call EXCEPT ![i] = "none"] /\ call[i] # "asked"
    BY <1>1, <1>12, <2>2 DEF FileStep, ReadFile, StoreFile, FileIndexed, FileFails, SlotTypes, ActorTypes
  <2>6. call' \in [Clients -> {"none", "asked", "ok", "error"}]
    BY <1>1, <2>5 DEF ActorTypes
  <2>7. user # NoClient => call'[user] = "asked"
    <3>1. user # NoClient => user \in Clients /\ call[user] = "asked"
      BY <1>1 DEF SlotTypes, ActorTypes, Askers
    <3> QED BY <1>1, <2>5, <3>1 DEF ActorTypes
  <2>8. \A j \in Slots : call'[j] # "none" => slot'[j].step = "index"
    <3> TAKE j \in Slots
    <3>1. CASE j = i
      BY <1>1, <2>2, <2>5, <3>1 DEF SlotTypes, ActorTypes, Askers
    <3>2. CASE j # i
      BY <1>1, <2>2, <2>5, <3>2 DEF SlotTypes, ActorTypes, Askers
    <3> QED BY <3>1, <3>2
  <2>9. /\ DOMAIN slot' = Slots
        /\ \A j \in Slots : /\ slot'[j].step \in {"free", "read", "store", "index", "done"}
                            /\ slot'[j].step # "free" => slot'[j].path \in Paths
    <3>1. DOMAIN slot = Slots /\ slot'[i] = s /\ \A j \in Slots : j # i => slot'[j] = slot[j]
      BY <1>1, <2>2 DEF SlotTypes
    <3>2. \A j \in Slots : slot'[j] = s \/ slot'[j] = slot[j]
      BY <3>1
    <3>3. DOMAIN slot' = Slots
      BY <2>2, <3>1
    <3>5. ASSUME NEW j \in Slots
          PROVE  /\ slot'[j].step \in {"free", "read", "store", "index", "done"}
                 /\ slot'[j].step # "free" => slot'[j].path \in Paths
      <4>1. CASE slot'[j] = s
        <5>1. PICK x : x = slot'[j]
          OBVIOUS
        <5> QED BY <2>2, <2>3, <4>1, <5>1
      <4>2. CASE slot'[j] = slot[j]
        BY <1>0, <4>2
      <4> QED BY <3>2, <4>1, <4>2
    <3> QED BY <3>3, <3>5
  <2> QED BY <1>1, <2>1, <2>4, <2>6, <2>7, <2>8, <2>9 DEF SlotTypes, ActorTypes, ActorIdle, Askers
<1>13. ASSUME NEW c \in Clients, Index(c) \/ IndexFails(c) PROVE ShapeInv'
  <2>1. UNCHANGED <<known, sends, buffer, lists, slot, pc>>
    BY <1>13 DEF Index, IndexFails, ovars, channel
  <2>2. \/ UNCHANGED <<call, user>>
        \/ UNCHANGED call /\ call[c] = "asked" /\ user' = c
        \/ call[c] = "asked" /\ user' = NoClient /\ \E r \in {"ok", "error"} : call' = [call EXCEPT ![c] = r]
    BY <1>1, <1>13, IndexAssumption
       DEF Index, IndexFails, IndexStep, IndexFailure, index_folder, index_file, store_chunks, upsert_file,
           save_manifest, index_file_fails, index_folder_fails, Return, Askers, Clients
  <2>3. call' \in [Clients -> {"none", "asked", "ok", "error"}] /\ user' \in Clients \cup {NoClient}
    BY <1>1, <2>2 DEF ActorTypes
  <2>4. /\ user' # NoClient => call'[user'] = "asked"
        /\ \A i \in Slots : call'[i] # "none" => call[i] # "none"
    BY <1>1, <2>2 DEF ActorTypes, Askers
  <2> QED BY <1>1, <2>1, <2>3, <2>4 DEF SlotTypes, ActorTypes, ActorIdle, Askers
<1>14. CASE Restart
  <2>1. NoLists \in [Kinds -> Seq(Paths)]
    BY DEF NoLists
  <2>2. /\ known' = {} /\ sends' = {} /\ buffer' = <<>> /\ lists' = NoLists
        /\ slot' = [i \in Slots |-> Free] /\ pc' = "loop"
        /\ call' = [c \in Clients |-> "none"] /\ user' = NoClient
    BY <1>14 DEF Restart
  <2> QED BY <1>1, <2>1, <2>2 DEF SlotTypes, ActorTypes, ActorIdle, Askers, Free
<1>15. CASE UNCHANGED vars
  BY <1>2, <1>15 DEF vars, ovars, ivars, channel, indexing
<1> QED
  BY <1>3, <1>4, <1>6, <1>7, <1>8, <1>9, <1>10, <1>11, <1>12, <1>13, <1>14, <1>15 DEF Next, ActorStep

(* A row is never replaced by an older content: runs of the indexer exclude *)
(* each other, and the user's contents are all different.                   *)
LEMMA FreshStep ==
    ASSUME IInv, RowsFresh, [Next]_vars
    PROVE  RowsFresh'
<1>1. IndexTypes /\ EntryIsFile /\ Gone \notin Nat
  BY IndexAssumption DEF IInv
<1>2. ASSUME UNCHANGED <<disk, files, partial, writes>>,
             UNCHANGED <<ipc, entry>> \/ ipc' \notin {"chunks", "row"}
      PROVE  RowsFresh'
  BY <1>2 DEF RowsFresh
<1>3. ASSUME NEW p \in Paths, WriteFile(p) PROVE RowsFresh'
  <2>1. /\ writes' = [writes EXCEPT ![p] = @ + 1] /\ disk' = [disk EXCEPT ![p] = writes[p] + 1]
        /\ UNCHANGED <<files, partial, ipc, entry>>
    BY <1>3 DEF WriteFile, Changed, tables, indexing
  <2>2. \A q \in Paths : /\ writes'[q] \in Nat /\ writes[q] \in Nat /\ writes[q] <= writes'[q]
                         /\ disk'[q] = disk[q] \/ (q = p /\ disk'[q] = writes'[q] /\ disk'[q] > writes[q])
    BY <1>1, <2>1 DEF IndexTypes, Contents
  <2>3. \A q \in Paths : disk[q] \in Nat \cup {Gone} /\ files[q] \in Nat \cup {Gone}
    BY <1>1 DEF IndexTypes, Contents
  <2>4. \A q \in Paths : /\ disk'[q] # Gone => disk'[q] <= writes'[q]
                         /\ files[q] # Gone => files[q] <= writes'[q]
    <3> TAKE q \in Paths
    <3>1. /\ disk[q] # Gone => disk[q] <= writes[q]
          /\ files[q] # Gone => files[q] <= writes[q]
      BY DEF RowsFresh
    <3> QED BY <2>2, <2>3, <3>1
  <2>5. ASSUME ipc \in {"chunks", "row"}
        PROVE  /\ entry[2] <= writes'[entry[1]]
               /\ files[entry[1]] = disk'[entry[1]] => disk'[entry[1]] \in {Gone, entry[2]}
    <3>1. PICK q \in Paths, v \in Nat : q = entry[1] /\ v = entry[2]
      BY <1>1, <2>5 DEF EntryIsFile
    <3>2. /\ v <= writes[q] /\ (files[q] = disk[q] => disk[q] \in {Gone, v})
          /\ (files[q] # Gone => files[q] <= writes[q])
      BY <2>5, <3>1 DEF RowsFresh
    <3> QED BY <1>1, <2>2, <2>3, <3>1, <3>2
  <2>6. \A q \in Paths : partial[q] # Gone => files[q] = partial[q]
    BY DEF RowsFresh
  <2> QED BY <2>1, <2>4, <2>5, <2>6 DEF RowsFresh
<1>4. ASSUME NEW p \in Paths, RemoveFile(p) PROVE RowsFresh'
  <2>1. /\ disk' = [disk EXCEPT ![p] = Gone] /\ UNCHANGED <<files, partial, ipc, entry, writes>>
    BY <1>4 DEF RemoveFile, Changed, tables, indexing
  <2>2. \A q \in Paths : disk'[q] \in {disk[q], Gone}
    BY <1>1, <2>1 DEF IndexTypes, Contents
  <2>3. ipc \in {"chunks", "row"} => entry[1] \in Paths
    BY <1>1 DEF EntryIsFile
  <2> QED BY <2>1, <2>2, <2>3 DEF RowsFresh
<1>5. ASSUME NEW e \in Events, FileChanged(e) PROVE RowsFresh'
  BY <1>2, <1>5 DEF FileChanged, Receive, tables, indexing
<1>6. CASE Handle
  BY <1>2, <1>6 DEF Handle, handle_peer_discovered, handle_peer_lost, handle_sync_request, add_sync_folder,
     remove_sync_folder, Shutdown, Receive, tables, indexing
<1>7. CASE FolderIndexed \/ EntryStored \/ EntryIndexed \/ FolderDone \/ EntryFails \/ FolderFails
  BY <1>2, <1>7 DEF FolderIndexed, EntryStored, EntryIndexed, FolderDone, EntryFails, FolderFails, FolderStep,
     channel, tables, indexing
<1>8. CASE process_debounced_changes \/ process_file_batch \/ Join \/ BatchesDone \/ shutdown
  BY <1>2, <1>8 DEF process_debounced_changes, process_file_batch, Join, BatchesDone, shutdown, BatchStep,
     ivars, channel, tables, indexing
<1>9. ASSUME NEW i \in Slots, FileStep(i) \/ FileFails(i) PROVE RowsFresh'
  BY <1>2, <1>9 DEF FileStep, ReadFile, StoreFile, FileIndexed, FileFails, TaskStep, channel, tables, indexing
<1>10. ASSUME NEW c \in Clients, Index(c) \/ IndexFails(c) PROVE RowsFresh'
  <2>1. UNCHANGED writes
    BY <1>10 DEF Index, IndexFails, ovars, channel
  <2>2. CASE index_folder(c) \/ index_file_fails(c)
    BY <1>2, <2>1, <2>2 DEF index_folder, index_file_fails, tables
  <2>3. CASE index_file(c)
    <3>1. UNCHANGED <<disk, files, partial>>
      BY <2>3 DEF index_file, tables
    <3>2. CASE UNCHANGED <<ipc, entry>>
      BY <1>2, <2>1, <3>1, <3>2
    <3>3. CASE ~ UNCHANGED <<ipc, entry>>
      <4>1. PICK p \in left : disk[p] # Gone /\ entry' = <<p, disk[p]>>
        BY <2>3, <3>3 DEF index_file
      <4>2. p \in Paths
        BY <1>1, <4>1 DEF IndexTypes
      <4> QED BY <2>1, <3>1, <4>1, <4>2 DEF RowsFresh
    <3> QED BY <3>2, <3>3
  <2>4. CASE store_chunks(c)
    BY <2>1, <2>4 DEF store_chunks, tables, RowsFresh
  <2>5. CASE upsert_file(c)
    <3>1. PICK p \in Paths, v \in Nat : entry = <<p, v>> /\ v <= writes[p]
      BY <1>1, <2>5 DEF upsert_file, EntryIsFile, RowsFresh
    <3>2. /\ files' = [files EXCEPT ![p] = v] /\ partial' = [partial EXCEPT ![p] = v]
          /\ UNCHANGED disk /\ ipc' = "next"
      BY <2>5, <3>1 DEF upsert_file
    <3>3. \A q \in Paths : IF q = p THEN files'[q] = v /\ partial'[q] = v
                           ELSE files'[q] = files[q] /\ partial'[q] = partial[q]
      BY <1>1, <3>2 DEF IndexTypes, Contents
    <3> QED BY <2>1, <3>1, <3>2, <3>3 DEF RowsFresh
  <2>6. CASE save_manifest(c)
    <3>1. UNCHANGED disk /\ ipc' = "idle" /\ partial' = NoFiles
      BY <2>6 DEF save_manifest, Return
    <3>2. \A p \in Paths : files'[p] = files[p]
      BY <2>6 DEF save_manifest, tables, RowsFresh
    <3> QED BY <2>1, <3>1, <3>2 DEF RowsFresh, NoFiles
  <2>7. CASE index_folder_fails(c)
    <3>1. UNCHANGED <<disk, files>> /\ ipc' = "idle" /\ partial' = NoFiles
      BY <2>7 DEF index_folder_fails, Return, tables
    <3> QED BY <2>1, <3>1 DEF RowsFresh, NoFiles
  <2> QED
    BY <1>10, <2>2, <2>3, <2>4, <2>5, <2>6, <2>7 DEF Index, IndexFails, IndexStep, IndexFailure
<1>11. CASE Restart
  <2>1. UNCHANGED <<disk, files, writes>> /\ ipc' = "idle" /\ partial' = NoFiles
    BY <1>11 DEF Restart, tables
  <2> QED BY <2>1 DEF RowsFresh, NoFiles
<1>12. CASE UNCHANGED vars
  BY <1>2, <1>12 DEF vars, ovars, ivars, channel, tables, indexing
<1> QED
  BY <1>3, <1>4, <1>5, <1>6, <1>7, <1>8, <1>9, <1>10, <1>11, <1>12 DEF Next, ActorStep

(* No step loses sight of a reported change: it is passed on from the event *)
(* to the buffer, a list, a task and a run of the indexer.                  *)
LEMMA ForgottenStep ==
    ASSUME IInv, ShapeInv, RowsFresh, NoneForgotten, [Next]_vars
    PROVE  NoneForgotten'
<1> DEFINE Pending(p) == Waiting(p) \/ Listed(p) \/ Task(p)
<1>1. /\ SlotTypes /\ ActorTypes /\ ActorIdle /\ Askers /\ IndexTypes /\ EntryIsFile
      /\ \A i \in Slots : i \in Clients /\ i # 0
      /\ Gone \notin Nat
  BY IndexAssumption DEF ShapeInv, IInv, Slots, Clients
<1>2. ~ failed => \A p \in known : disk[p] # Gone => files[p] = disk[p] \/ Pending(p)
  BY DEF NoneForgotten
<1>3. SUFFICES ASSUME ~ failed', NEW p \in known', disk'[p] # Gone, files'[p] # disk'[p]
               PROVE  Pending(p)'
  BY DEF NoneForgotten
<1>4. ASSUME ~ failed, p \in known, UNCHANGED <<disk, files>> PROVE Pending(p)
  BY <1>2, <1>3, <1>4
<1>5. ASSUME sends \subseteq sends', UNCHANGED <<buffer, lists, slot, user, left, ipc, entry, disk>>,
             \A i \in Slots : call'[i] = call[i], Pending(p)
      PROVE  Pending(p)'
  <2>1. Waiting(p) => Waiting(p)'
    BY <1>5 DEF Waiting
  <2>2. Listed(p) => Listed(p)'
    BY <1>5 DEF Listed
  <2>3. Due(p) => Due(p)'
    BY <1>5 DEF Due
  <2>4. Task(p) => Task(p)'
    BY <1>5, <2>3 DEF Task
  <2> QED BY <1>5, <2>1, <2>2, <2>4
<1>6. ASSUME NEW q \in Paths, WriteFile(q) \/ RemoveFile(q) PROVE Pending(p)'
  <2>1. /\ UNCHANGED <<buffer, lists, slot, user, left, ipc, entry, files, failed, call>>
        /\ sends \subseteq sends'
    BY <1>6 DEF WriteFile, RemoveFile, Changed, indexing, tables
  <2>2. CASE p = q
    <3>1. p \in Paths /\ ~ RemoveFile(q)
      BY <1>1, <1>3, <2>2 DEF RemoveFile, Changed, IndexTypes, Contents
    <3>2. PICK k \in {"Created", "Modified"} :
            \/ sends' = sends \cup {[kind |-> k, path |-> p]}
            \/ known' = known \ {p}
      BY <1>6, <2>2, <3>1 DEF WriteFile, Changed
    <3>3. [kind |-> k, path |-> p] \in sends'
      BY <1>3, <3>2
    <3>4. Heard([kind |-> k, path |-> p], p)
      BY <3>2 DEF Heard
    <3>5. Waiting(p)'
      BY <3>3, <3>4 DEF Waiting, Heard
    <3> QED BY <3>5
  <2>3. CASE p # q
    <3>1. p \in known
      BY <1>3, <1>6, <2>3 DEF WriteFile, RemoveFile, Changed
    <3>2. disk'[p] = disk[p]
      <4>1. \E v : disk' = [disk EXCEPT ![q] = v]
        BY <1>6 DEF WriteFile, RemoveFile, Changed
      <4> QED BY <1>1, <2>3, <4>1 DEF IndexTypes, Contents
    <3>3. Pending(p)
      BY <1>2, <1>3, <2>1, <3>1, <3>2
    <3>4. Waiting(p) => Waiting(p)'
      BY <2>1 DEF Waiting
    <3>5. Listed(p) => Listed(p)'
      BY <2>1 DEF Listed
    <3>6. Due(p) => Due(p)'
      BY <2>1, <3>2 DEF Due
    <3>7. Task(p) => Task(p)'
      BY <2>1, <3>6 DEF Task
    <3> QED BY <3>3, <3>4, <3>5, <3>7
  <2> QED BY <2>2, <2>3
<1>7. ASSUME NEW e \in Events, FileChanged(e) PROVE Pending(p)'
  <2>1. /\ UNCHANGED <<disk, files, lists, slot, user, left, ipc, entry, failed, known, call>>
        /\ e \in sends /\ sends' = sends \ {e} /\ buffer' = Append(buffer, e)
    BY <1>7 DEF FileChanged, Receive, indexing, tables
  <2>2. Pending(p)
    BY <1>3, <1>4, <2>1
  <2>3. Waiting(p) => Waiting(p)'
    <3>1. buffer \in Seq(Events)
      BY <1>1 DEF ActorTypes
    <3>2. /\ \A i \in DOMAIN buffer : i \in DOMAIN buffer' /\ buffer'[i] = buffer[i]
          /\ Len(buffer) + 1 \in DOMAIN buffer' /\ buffer'[Len(buffer) + 1] = e
      BY <2>1, <3>1
    <3>3. CASE \E i \in DOMAIN buffer : Heard(buffer[i], p)
      BY <3>2, <3>3 DEF Waiting
    <3>4. CASE Heard(e, p)
      BY <3>2, <3>4 DEF Waiting
    <3>5. CASE \E d \in sends' : Heard(d, p)
      BY <3>5 DEF Waiting
    <3> QED BY <2>1, <3>3, <3>4, <3>5 DEF Waiting
  <2>4. Listed(p) => Listed(p)'
    BY <2>1 DEF Listed
  <2>5. Due(p) => Due(p)'
    BY <2>1 DEF Due
  <2>6. Task(p) => Task(p)'
    BY <2>1, <2>5 DEF Task
  <2> QED BY <2>2, <2>3, <2>4, <2>6
<1>8. CASE Handle
  <2>1. UNCHANGED <<disk, files, sends, buffer, lists, slot, user, left, ipc, entry, failed, known>>
    BY <1>8 DEF Handle, handle_peer_discovered, handle_peer_lost, handle_sync_request, add_sync_folder,
       remove_sync_folder, Shutdown, Receive, indexing, tables
  <2>2. UNCHANGED call \/ call' = [call EXCEPT ![0] = "asked"]
    BY <1>8 DEF Handle, handle_peer_discovered, handle_peer_lost, handle_sync_request, add_sync_folder,
       remove_sync_folder, Shutdown, Receive, ProcessFolder
  <2>3. \A i \in Slots : call'[i] = call[i]
    BY <1>1, <2>2 DEF ActorTypes
  <2> QED BY <1>3, <1>4, <1>5, <2>1, <2>3
<1>9. CASE FolderIndexed \/ EntryStored \/ EntryIndexed \/ FolderDone \/ EntryFails \/ FolderFails
  <2>1. /\ UNCHANGED <<disk, files, sends, buffer, lists, slot, user, left, ipc, entry, known>>
        /\ failed' = failed \/ failed'
    BY <1>9 DEF FolderIndexed, EntryStored, EntryIndexed, FolderDone, EntryFails, FolderFails, FolderStep,
       channel, indexing, tables
  <2>2. \/ UNCHANGED call \/ call' = [call EXCEPT ![0] = "asked"] \/ call' = [call EXCEPT ![0] = "none"]
    BY <1>9 DEF FolderIndexed, EntryStored, EntryIndexed, FolderDone, EntryFails, FolderFails
  <2>3. \A i \in Slots : call'[i] = call[i]
    BY <1>1, <2>2 DEF ActorTypes
  <2> QED BY <1>3, <1>4, <1>5, <2>1, <2>3
<1>10. CASE process_debounced_changes
  <2>1. /\ UNCHANGED <<disk, files, sends, slot, user, left, ipc, entry, failed, known, call>>
        /\ lists' = Grouped(buffer) /\ pc \notin {"batches", "join"}
    BY <1>10 DEF process_debounced_changes, BatchStep, ivars, channel, indexing, tables
  <2>2. Pending(p)
    BY <1>3, <1>4, <2>1
  <2>3. ~ Listed(p) /\ ~ Task(p)
    BY <1>1, <2>1 DEF ActorIdle, Listed, Task, NoLists, Free
  <2>4. CASE \E e \in sends : Heard(e, p)
    BY <2>1, <2>4 DEF Waiting
  <2>5. CASE \E i \in DOMAIN buffer : Heard(buffer[i], p)
    <3>1. PICK i \in DOMAIN buffer : Heard(buffer[i], p)
      BY <2>5
    <3>2. buffer \in Seq(Events)
      BY <1>1 DEF ActorTypes
    <3>3. PICK e \in Events : e = buffer[i]
      BY <3>1, <3>2
    <3>4. e.kind \in Kinds \ {"Deleted"} /\ e.path = p
      BY <3>1, <3>3 DEF Heard, Events
    <3>5. \E j \in DOMAIN lists'[e.kind] : lists'[e.kind][j] = e.path
      BY <2>1, <3>1, <3>2, <3>3, GroupedHasAll
    <3>6. Listed(p)'
      BY <3>4, <3>5 DEF Listed
    <3> QED BY <3>6
  <2> QED BY <2>2, <2>3, <2>4, <2>5 DEF Waiting
<1>11. CASE process_file_batch
  <2>1. /\ UNCHANGED <<disk, files, sends, buffer, user, left, ipc, entry, failed, known, call>>
        /\ pc = "batches"
    BY <1>11 DEF process_file_batch, BatchStep, ivars, channel, indexing, tables
  <2>2. Pending(p)
    BY <1>3, <1>4, <2>1
  <2>3. ~ Task(p)
    BY <1>1, <2>1 DEF ActorIdle, Task, Free
  <2>4. Waiting(p) => Waiting(p)'
    BY <2>1 DEF Waiting
  <2>5. PICK k \in Kinds :
          /\ slot' = [i \in Slots |->
                IF i > Len(lists[k]) THEN Free
                ELSE [step |-> IF k = "Deleted" THEN "done" ELSE "read", path |-> lists[k][i]]]
          /\ lists' = [lists EXCEPT ![k] = SubSeq(@, MaxConcurrent + 1, Len(@))]
    BY <1>11 DEF process_file_batch
  <2>6. CASE Listed(p)
    <3>0. PICK g \in Kinds \ {"Deleted"} : \E j \in DOMAIN lists[g] : lists[g][j] = p
      BY <2>6 DEF Listed
    <3>1. PICK j \in DOMAIN lists[g] : lists[g][j] = p
      BY <3>0
    <3>2. CASE g # k
      <4>1. lists'[g] = lists[g]
        BY <1>1, <2>5, <3>1, <3>2 DEF ActorTypes
      <4>2. Listed(p)'
        BY <3>1, <4>1 DEF Listed
      <4> QED BY <4>2
    <3>3. CASE g = k
      <4>1. PICK s \in Seq(Paths) : s = lists[k]
        BY <1>1 DEF ActorTypes
      <4>2. j \in 1..Len(s) /\ s[j] = p /\ Len(s) \in Nat /\ MaxConcurrent \in Nat
        BY <3>1, <3>3, <4>1, IndexAssumption
      <4>3. CASE j <= MaxConcurrent
        <5>1. j \in Slots /\ ~ (j > Len(s))
          BY <4>2, <4>3 DEF Slots
        <5>2. slot'[j] = [step |-> "read", path |-> p]
          BY <2>5, <3>1, <3>3, <4>1, <4>2, <5>1
        <5>3. slot'[j].step = "read" /\ slot'[j].path = p
          BY <5>2
        <5>4. Task(p)'
          BY <5>1, <5>3 DEF Task
        <5> QED BY <5>4
      <4>4. CASE j > MaxConcurrent
        <5>1. PICK t : t = SubSeq(s, MaxConcurrent + 1, Len(s))
          OBVIOUS
        <5>2. PICK m \in Nat : m = j - MaxConcurrent /\ m \in 1..Len(s) - MaxConcurrent
          BY <4>2, <4>4
        <5>3. m \in DOMAIN t /\ t[m] = s[j]
          BY <4>2, <4>4, <5>1, <5>2
        <5>4. lists'[k] = t
          BY <1>1, <2>5, <4>1, <5>1 DEF ActorTypes
        <5>5. Listed(p)'
          BY <3>1, <3>3, <4>2, <5>3, <5>4 DEF Listed
        <5> QED BY <5>5
      <4> QED BY <4>2, <4>3, <4>4
    <3> QED BY <3>2, <3>3
  <2> QED BY <2>2, <2>3, <2>4, <2>6
<1>12. CASE Join
  <2>1. /\ UNCHANGED <<disk, files, sends, buffer, lists, failed, known>>
        /\ \A i \in Slots : slot[i].step \in {"free", "done"}
    BY <1>12 DEF Join, BatchStep, ivars, channel, indexing, tables
  <2>2. Pending(p) /\ ~ Task(p)
    BY <1>3, <1>4, <2>1 DEF Task
  <2>3. (Waiting(p) => Waiting(p)') /\ (Listed(p) => Listed(p)')
    BY <2>1 DEF Waiting, Listed
  <2> QED BY <2>2, <2>3
<1>13. CASE BatchesDone \/ shutdown
  BY <1>3, <1>4, <1>5, <1>13 DEF BatchesDone, shutdown, BatchStep, ivars, channel, indexing, tables
<1>14. ASSUME NEW i \in Slots, FileStep(i) \/ FileFails(i) PROVE Pending(p)'
  <2>1. UNCHANGED <<disk, files, sends, buffer, lists, user, left, ipc, entry, known>>
    BY <1>14 DEF FileStep, ReadFile, StoreFile, FileIndexed, FileFails, TaskStep, channel, indexing, tables
  <2>2. ~ FileFails(i) /\ failed' = failed
    BY <1>3, <1>14 DEF FileFails, FileStep, ReadFile, StoreFile, FileIndexed
  <2>3. Pending(p)
    BY <1>3, <1>4, <2>1, <2>2
  <2>4. (Waiting(p) => Waiting(p)') /\ (Listed(p) => Listed(p)')
    BY <2>1 DEF Waiting, Listed
  <2>5. CASE Task(p)
    <3>1. PICK j \in Slots : /\ slot[j].step \in {"read", "store", "index"} /\ slot[j].path = p
                             /\ slot[j].step = "index" => call[j] = "asked" /\ (user = j => Due(p))
      BY <2>5 DEF Task
    <3>2. Due(p) => Due(p)'
      BY <2>1 DEF Due
    <3>3. CASE j # i
      <4>1. slot'[j] = slot[j] /\ call'[j] = call[j]
        BY <1>1, <1>14, <2>2, <3>3 DEF FileStep, ReadFile, StoreFile, FileIndexed, SlotTypes, ActorTypes
      <4>2. Task(p)'
        BY <2>1, <3>1, <3>2, <4>1 DEF Task
      <4> QED BY <4>2
    <3>4. CASE j = i
      <4>1. CASE ReadFile(i)
        <5>1. disk[p] # Gone
          BY <1>3, <2>1
        <5>2. slot' = [slot EXCEPT ![i] = [step |-> "store", path |-> p, content |-> disk[p]]]
          BY <3>1, <3>4, <4>1, <5>1 DEF ReadFile
        <5>3. slot'[i].step = "store" /\ slot'[i].path = p
          BY <1>1, <5>2 DEF SlotTypes
        <5>4. Task(p)'
          BY <5>3 DEF Task
        <5> QED BY <5>4
      <4>2. CASE StoreFile(i)
        <5>1. slot'[i].step = "index" /\ slot'[i].path = p /\ call'[i] = "asked"
          BY <1>1, <3>1, <3>4, <4>2 DEF StoreFile, SlotTypes, ActorTypes
        <5>2. user # i
          <6>1. slot[i].step = "store" /\ call[i] = "none"
            BY <1>1, <4>2 DEF StoreFile, Askers
          <6>2. NoClient # i
            BY <1>1, IndexAssumption DEF Clients
          <6> QED BY <1>1, <6>1, <6>2 DEF Askers
        <5>3. Task(p)'
          BY <2>1, <5>1, <5>2 DEF Task
        <5> QED BY <5>3
      <4>3. ~ FileIndexed(i)
        BY <3>1, <3>4 DEF FileIndexed
      <4> QED BY <1>14, <2>2, <4>1, <4>2, <4>3 DEF FileStep
    <3> QED BY <3>3, <3>4
  <2> QED BY <2>3, <2>4, <2>5
<1>15. ASSUME NEW c \in Clients, Index(c) \/ IndexFails(c) PROVE Pending(p)'
  <2>1. UNCHANGED <<sends, buffer, lists, slot, known>> /\ Index(c) /\ UNCHANGED failed
    BY <1>3, <1>15 DEF Index, IndexFails, ovars, channel
  <2>2. UNCHANGED disk
    BY <2>1 DEF Index, IndexStep, index_folder, index_file, store_chunks, upsert_file, save_manifest
  <2>3. p \in Paths
    <3>1. p \in known
      BY <1>3, <2>1
    <3> QED BY <1>1, <3>1 DEF ActorTypes
  <2>4. Pending(p) /\ files[p] # disk[p]
    <3>1. CASE files[p] = disk[p]
      <4>1. files'[p] = files[p]
        <5>1. CASE upsert_file(c)
          <6>1. PICK q \in Paths, v \in Nat :
                    entry = <<q, v>> /\ (files[q] = disk[q] => disk[q] \in {Gone, v})
            BY <1>1, <5>1 DEF upsert_file, EntryIsFile, RowsFresh
          <6>2. files' = [files EXCEPT ![q] = v]
            BY <5>1, <6>1 DEF upsert_file
          <6> QED BY <1>1, <1>3, <2>2, <2>3, <3>1, <6>1, <6>2 DEF IndexTypes, Contents
        <5>2. CASE save_manifest(c)
          BY <2>3, <5>2 DEF save_manifest, tables, RowsFresh
        <5>3. CASE index_folder(c) \/ index_file(c) \/ store_chunks(c)
          BY <5>3 DEF index_folder, index_file, store_chunks, tables
        <5> QED BY <2>1, <5>1, <5>2, <5>3 DEF Index, IndexStep
      <4> QED BY <1>3, <2>2, <3>1, <4>1
    <3>2. CASE files[p] # disk[p]
      BY <1>2, <1>3, <2>1, <2>2, <3>2
    <3> QED BY <3>1, <3>2
  <2>5. (Waiting(p) => Waiting(p)') /\ (Listed(p) => Listed(p)')
    BY <2>1 DEF Waiting, Listed
  <2>6. CASE Task(p)
    <3>1. PICK j \in Slots : /\ slot[j].step \in {"read", "store", "index"} /\ slot[j].path = p
                             /\ slot[j].step = "index" => call[j] = "asked" /\ (user = j => Due(p))
      BY <2>6 DEF Task
    <3>2. ASSUME slot[j].step = "index" => call'[j] = "asked" /\ (user' = j => Due(p)')
          PROVE  Pending(p)'
      <4>1. Task(p)'
        BY <2>1, <3>1, <3>2 DEF Task
      <4> QED BY <4>1
    <3>3. CASE slot[j].step # "index"
      BY <3>2, <3>3
    <3>4. CASE slot[j].step = "index"
      <4>1. call[j] = "asked" /\ (user = j => Due(p)) /\ j # NoClient
        BY <1>1, <3>1, <3>4, IndexAssumption DEF Clients
      <4>2. CASE index_folder(c)
        <5>1. UNCHANGED call /\ left' = OnDisk
          BY <4>2 DEF index_folder
        <5>2. p \in OnDisk
          BY <1>3, <2>2, <2>3 DEF OnDisk
        <5>3. Due(p)'
          BY <5>1, <5>2 DEF Due
        <5> QED BY <3>2, <4>1, <5>1, <5>3
      <4>3. CASE index_file(c)
        <5>1. UNCHANGED <<call, user>> /\ ipc = "next"
          BY <4>3 DEF index_file
        <5>2. Due(p) => Due(p)'
          <6>1. PICK q \in left : /\ left' = left \ {q}
                                  /\ disk[q] # Gone => ipc' = "chunks" /\ entry' = <<q, disk[q]>>
            BY <4>3 DEF index_file
          <6> QED BY <1>3, <2>2, <5>1, <6>1 DEF Due
        <5> QED BY <3>2, <4>1, <5>1, <5>2
      <4>4. CASE store_chunks(c)
        <5>1. UNCHANGED <<call, user, left, entry>> /\ ipc' = "row" /\ ipc = "chunks"
          BY <4>4 DEF store_chunks
        <5>2. Due(p) => Due(p)'
          BY <2>2, <5>1 DEF Due
        <5> QED BY <3>2, <4>1, <5>1, <5>2
      <4>5. CASE upsert_file(c)
        <5>1. UNCHANGED <<call, user, left>> /\ files' = [files EXCEPT ![entry[1]] = entry[2]] /\ ipc = "row"
          BY <4>5 DEF upsert_file
        <5>2. entry # <<p, disk[p]>>
          BY <1>1, <1>3, <2>2, <2>3, <5>1 DEF IndexTypes, Contents
        <5>3. Due(p) => Due(p)'
          BY <5>1, <5>2 DEF Due
        <5> QED BY <3>2, <4>1, <5>1, <5>3
      <4>6. CASE save_manifest(c)
        <5>1. /\ user = c /\ ipc = "next" /\ left = {} /\ user' = NoClient
              /\ \E r : call' = [call EXCEPT ![c] = r]
          BY <4>6 DEF save_manifest, Return
        <5>2. ~ Due(p)
          BY <5>1 DEF Due
        <5>3. j # c /\ call'[j] = call[j]
          BY <1>1, <4>1, <5>1, <5>2 DEF ActorTypes
        <5> QED BY <3>2, <4>1, <5>1, <5>3
      <4> QED BY <2>1, <4>2, <4>3, <4>4, <4>5, <4>6 DEF Index, IndexStep
    <3> QED BY <3>3, <3>4
  <2> QED BY <2>4, <2>5, <2>6
<1>16. ~ Restart
  BY <1>3 DEF Restart
<1>17. CASE UNCHANGED vars
  BY <1>3, <1>4, <1>5, <1>17 DEF vars, ovars, ivars, channel, indexing, tables
<1> QED
  BY <1>6, <1>7, <1>8, <1>9, <1>10, <1>11, <1>12, <1>13, <1>14, <1>15, <1>16, <1>17 DEF Next, ActorStep

(* CaughtUp: when no event is on its way and the actor waits, the index has *)
(* the latest content of every file whose last change was reported and that *)
(* is still there, for any number of files, tasks and changes, unless an    *)
(* operation failed since the start.                                        *)
THEOREM IndexCatchesUp == Spec => []CaughtUp
<1>1. Init => CaughtUpInv
  <2> SUFFICES ASSUME Init PROVE CaughtUpInv
    OBVIOUS
  <2>1. SlotTypes /\ ActorIdle /\ Askers
    BY DEF Init, IndexInit, SlotTypes, ActorIdle, Askers, Free, Slots, Clients
  <2>2. ActorTypes
    BY DEF Init, IndexInit, ActorTypes, NoLists
  <2>3. RowsFresh
    BY DEF Init, IndexInit, RowsFresh, NoFiles
  <2>4. NoneForgotten
    BY DEF Init, NoneForgotten
  <2> QED BY <2>1, <2>2, <2>3, <2>4, InitEstablishes DEF CaughtUpInv, ShapeInv
<1>2. CaughtUpInv /\ [Next]_vars => CaughtUpInv'
  BY NextPreserves, ShapeStep, FreshStep, ForgottenStep DEF CaughtUpInv
<1>3. CaughtUpInv => CaughtUp
  <2> SUFFICES ASSUME CaughtUpInv, pc = "loop", sends = {}, buffer = <<>>, ~ failed,
                      NEW p \in known, disk[p] # Gone
               PROVE  files[p] = disk[p]
    BY DEF CaughtUp
  <2>1. ~ Waiting(p)
    BY DEF Waiting
  <2>2. ~ Listed(p) /\ ~ Task(p)
    BY DEF CaughtUpInv, ShapeInv, ActorIdle, Listed, Task, NoLists, Free
  <2> QED BY <2>1, <2>2 DEF CaughtUpInv, NoneForgotten
<1> QED BY <1>1, <1>2, <1>3, PTL DEF Spec
=============================================================================
