---------------------------- MODULE ContentStore ----------------------------
(***************************************************************************)
(* The on-disk half of landro-cas/src/storage.rs: ContentStore writes,     *)
(* streams, deletes and recovers objects with temporary files and renames. *)
(*                                                                         *)
(* Workers are the tokio tasks that call the store concurrently (every     *)
(* clone of a ContentStore shares one directory and one dedup index).  A   *)
(* step of a worker is the code between two awaits.  The file system is    *)
(* names, inodes and their durable images, so that a kill (the page cache  *)
(* survives) and a power loss (only what was written back survives) can    *)
(* both be taken at any point.  Bytes are abstracted to the hash they      *)
(* have: a file holds the bytes of some object, nothing, or bytes whose    *)
(* hash is not the name of any object under discussion.                    *)
(***************************************************************************)
EXTENDS FiniteSets

CONSTANTS
    Hashes,      \* content hashes: the names of objects
    Workers,     \* concurrent callers of the store
    Inodes,      \* files the disk can hold at once (bound)
    None,        \* no inode
    Empty,       \* contents of a file that was created or truncated
    Garbled,     \* non-empty contents whose hash is not the file's name
    Policy,      \* FsyncPolicy of the configuration
    Compressed,  \* TRUE iff config.compression is not CompressionType::None
    ZeroLen,     \* the hash of the zero-length object, if the run has one
    Jobs,        \* the calls workers may make: [worker, op, hash]
    Faults       \* "kill", "power", "io", "rename", "dirsync": which can happen

Ops == {"write", "optimized", "stream", "delete"}

ASSUME StoreAssumption ==
    /\ Hashes # {}
    /\ None \notin Inodes
    /\ Empty \notin Hashes /\ Garbled \notin Hashes /\ Empty # Garbled
    /\ Policy \in {"Always", "Batch", "Async", "Never"}
    /\ Compressed \in BOOLEAN
    /\ ZeroLen \subseteq Hashes
    /\ Jobs \subseteq [worker : Workers, op : Ops, hash : Hashes]

VARIABLES
    final, tmp,          \* directory: name -> inode, for <h> and <h>.tmp
    data,                \* inode -> contents, as the kernel serves them
    dfinal, dtmp, ddata, \* the same three as the disk would after a power loss
    bg,                  \* tokio writes handed to the blocking pool, not yet done
    dedup,               \* dedup_index
    pc, op, obj, fd,     \* where each worker is, in which call, on which file
    mode,                \* "up", or "recovering" while new_with_config runs
    acked, clean, killed \* observation: see below

(***************************************************************************)
(* The last three observe the calls and influence nothing: acked is the    *)
(* set of objects some write reported Ok for and no later delete removed;  *)
(* clean[w] says no delete of its object took place during worker w's      *)
(* call, so that its Ok is newer than every delete; killed, that a crash   *)
(* has taken place.                                                        *)
(***************************************************************************)
names    == <<final, tmp>>
durable  == <<dfinal, dtmp, ddata>>
worker   == <<pc, op, obj, fd>>
observed == <<acked, clean, killed>>
vars == <<names, data, durable, bg, dedup, worker, mode, observed>>

Slots    == Inodes \cup {None}
Contents == Hashes \cup {Empty, Garbled}
Steps    == {"idle", "dedup", "exists", "index", "create", "fill", "sync",
             "rename", "cleanup", "syncdir"}

-----------------------------------------------------------------------------
(* The bytes whose blake3 hash is h. *)
Bytes(h) == IF h \in ZeroLen THEN Empty ELSE h

(* What a call writes for object h: write_individual_optimized compresses,
   the other writers do not. *)
Stored(o, h) == IF o = "optimized" /\ Compressed THEN Garbled ELSE Bytes(h)

FsyncFileNever == FALSE

should_fsync_file == Policy \in {"Always", "Batch"}

FsyncDirectoryNever == FALSE

should_fsync_directory == Policy = "Always"

(* write_stream has its own, stricter, test of the policy. *)
FsyncsFile(o) == IF o = "stream" THEN Policy = "Always" ELSE should_fsync_file

(* An inode no name, durable name, open file or pending write refers to. *)
Free(i) ==
    /\ \A h \in Hashes : i \notin {final[h], tmp[h], dfinal[h], dtmp[h]}
    /\ \A w \in Workers : fd[w] # i
    /\ \A b \in bg : b.ino # i

(* read_individual: the outcome of reading object h from its file. *)
read_individual(h) ==
    CASE final[h] = None -> "ObjectNotFound"
      [] final[h] # None /\ data[final[h]] = Empty -> "CorruptObject"
      [] final[h] # None /\ data[final[h]] \notin {Empty, Bytes(h)} -> "HashMismatch"
      [] OTHER -> "Ok"

TypeOK ==
    /\ final \in [Hashes -> Slots] /\ tmp \in [Hashes -> Slots]
    /\ dfinal \in [Hashes -> Slots] /\ dtmp \in [Hashes -> Slots]
    /\ data \in [Inodes -> Contents] /\ ddata \in [Inodes -> Contents]
    /\ bg \subseteq [by : Workers, ino : Inodes, bytes : Contents]
    /\ dedup \subseteq Hashes
    /\ pc \in [Workers -> Steps] /\ op \in [Workers -> Ops]
    /\ obj \in [Workers -> Hashes] /\ fd \in [Workers -> Slots]
    /\ mode \in {"up", "recovering"}
    /\ acked \subseteq Hashes /\ clean \in [Workers -> BOOLEAN] /\ killed \in BOOLEAN
    /\ \A w \in Workers : pc[w] \in {"fill", "sync"} => fd[w] \in Inodes

Init ==
    /\ final = [h \in Hashes |-> None] /\ tmp = [h \in Hashes |-> None]
    /\ dfinal = [h \in Hashes |-> None] /\ dtmp = [h \in Hashes |-> None]
    /\ data = [i \in Inodes |-> Empty] /\ ddata = [i \in Inodes |-> Empty]
    /\ bg = {} /\ dedup = {}
    /\ pc = [w \in Workers |-> "idle"] /\ op \in [Workers -> {"write"}]
    /\ obj \in [Workers -> {CHOOSE h \in Hashes : TRUE}]
    /\ fd = [w \in Workers |-> None]
    /\ mode = "up"
    /\ acked = {} /\ clean = [w \in Workers |-> TRUE] /\ killed = FALSE

-----------------------------------------------------------------------------
(* Steps common to the calls. *)

Goto(w, step) == pc' = [pc EXCEPT ![w] = step]

(* The call returns Ok. *)
Ack(w) ==
    /\ Goto(w, "idle")
    /\ acked' = IF clean[w] THEN acked \cup {obj[w]} ELSE acked
    /\ UNCHANGED <<clean, killed>>

(* A worker calls write, write_individual_optimized or write_stream. *)
Start(w) ==
    /\ mode = "up" /\ pc[w] = "idle"
    /\ \E j \in Jobs :
        /\ j.worker = w
        /\ op' = [op EXCEPT ![w] = j.op]
        /\ obj' = [obj EXCEPT ![w] = j.hash]
        /\ \/ j.op = "write" /\ Goto(w, "dedup")
           \/ j.op = "optimized" /\ Goto(w, "exists")
           \/ j.op = "stream" /\ Goto(w, "create")
    /\ clean' = [clean EXCEPT ![w] = TRUE]
    /\ UNCHANGED <<names, data, durable, bg, dedup, fd, mode, acked, killed>>

(* write: the dedup index answers before the disk is looked at. *)
CheckDedup(w) ==
    /\ pc[w] = "dedup"
    /\ \/ obj[w] \in dedup /\ Ack(w)
       \/ obj[w] \notin dedup /\ Goto(w, "exists") /\ UNCHANGED observed
    /\ UNCHANGED <<names, data, durable, bg, dedup, op, obj, fd, mode>>

(* object_path(hash).exists(): what each call does with the answer. *)
CheckExists(w) ==
    /\ pc[w] = "exists"
    /\ \/ /\ final[obj[w]] # None
          /\ \/ op[w] = "optimized" /\ Ack(w) /\ UNCHANGED fd
             \/ /\ op[w] # "optimized" /\ Goto(w, "index")
                /\ fd' = [fd EXCEPT ![w] = None] \* a stream drops its temp file
                /\ UNCHANGED observed
       \/ /\ final[obj[w]] = None
          /\ Goto(w, IF op[w] = "stream" THEN "rename" ELSE "create")
          /\ UNCHANGED <<fd, observed>>
    /\ UNCHANGED <<names, data, durable, bg, dedup, op, obj, mode>>

HashUnchecked(w) ==
    /\ pc[w] = "exists" /\ op[w] = "stream" /\ Goto(w, "rename")
    /\ \E h \in Hashes : data' = [data EXCEPT ![fd[w]] = h]
    /\ UNCHANGED <<names, fd, durable, bg, dedup, op, obj, mode, observed>>

(* write_stream: the computed hash is not the expected one. *)
HashMismatch(w) ==
    /\ pc[w] = "exists" /\ op[w] = "stream"
    /\ Goto(w, "idle") /\ fd' = [fd EXCEPT ![w] = None]
    /\ UNCHANGED <<names, data, durable, bg, dedup, op, obj, mode, observed>>

(* dedup_index insertion, the last step of a call that makes one. *)
UpdateDedup(w) ==
    /\ pc[w] = "index"
    /\ dedup' = dedup \cup {obj[w]} /\ Ack(w)
    /\ UNCHANGED <<names, data, durable, bg, op, obj, fd, mode>>

(* File::create: truncates <hash>.tmp if it is there; write_stream has a
   file of its own under .tmp/<uuid>.tmp. *)
CreateTemp(w) ==
    /\ pc[w] = "create" /\ Goto(w, "fill")
    /\ \/ /\ op[w] # "stream" /\ tmp[obj[w]] # None
          /\ data' = [data EXCEPT ![tmp[obj[w]]] = Empty]
          /\ fd' = [fd EXCEPT ![w] = tmp[obj[w]]]
          /\ UNCHANGED <<tmp, ddata>>
       \/ /\ op[w] = "stream" \/ tmp[obj[w]] = None
          /\ \E i \in Inodes :
              /\ Free(i)
              /\ data' = [data EXCEPT ![i] = Empty]
              /\ ddata' = [ddata EXCEPT ![i] = Empty]
              /\ fd' = [fd EXCEPT ![w] = i]
              /\ tmp' = IF op[w] = "stream" THEN tmp
                        ELSE [tmp EXCEPT ![obj[w]] = i]
    /\ UNCHANGED <<final, dfinal, dtmp, bg, dedup, op, obj, mode, observed>>

(* write_all returns once the bytes are handed to tokio's blocking pool. Only
   a file that is synced (or, in write_stream, flushed) waits for them. *)
FillTemp(w) ==
    /\ pc[w] = "fill"
    /\ bg' = bg \cup {[by |-> w, ino |-> fd[w], bytes |-> Stored(op[w], obj[w])]}
    /\ \/ /\ op[w] = "stream" \/ FsyncsFile(op[w])
          /\ Goto(w, "sync") /\ UNCHANGED fd
       \/ /\ op[w] # "stream" /\ ~FsyncsFile(op[w])
          /\ Goto(w, "rename") /\ fd' = [fd EXCEPT ![w] = None]
    /\ UNCHANGED <<names, data, durable, dedup, op, obj, mode, observed>>

(* The blocking pool carries out a write. *)
BackgroundWrite(b) ==
    /\ data' = [data EXCEPT ![b.ino] = b.bytes]
    /\ bg' = bg \ {b}
    /\ UNCHANGED <<names, durable, dedup, worker, mode, observed>>

SyncFile(w) ==
    /\ pc[w] = "sync"
    /\ \A b \in bg : b.by = w => b.ino # fd[w]
    /\ ddata' = IF FsyncsFile(op[w])
                THEN [ddata EXCEPT ![fd[w]] = data[fd[w]]] ELSE ddata
    /\ \/ op[w] = "stream" /\ Goto(w, "exists") /\ UNCHANGED fd
       \/ op[w] # "stream" /\ Goto(w, "rename") /\ fd' = [fd EXCEPT ![w] = None]
    /\ UNCHANGED <<names, data, dfinal, dtmp, bg, dedup, op, obj, mode, observed>>

Rename(w) ==
    /\ pc[w] = "rename"
    /\ \/ /\ op[w] = "stream"
          /\ final' = [final EXCEPT ![obj[w]] = fd[w]]
          /\ fd' = [fd EXCEPT ![w] = None] /\ Goto(w, "index")
          /\ UNCHANGED tmp
       \/ /\ op[w] # "stream" /\ tmp[obj[w]] # None
          /\ final' = [final EXCEPT ![obj[w]] = tmp[obj[w]]]
          /\ tmp' = [tmp EXCEPT ![obj[w]] = None]
          /\ Goto(w, "syncdir") /\ UNCHANGED fd
       \/ /\ op[w] # "stream" /\ tmp[obj[w]] = None
          /\ Goto(w, "cleanup") /\ UNCHANGED <<names, fd>>
    /\ UNCHANGED <<data, durable, bg, dedup, op, obj, mode, observed>>

CleanupTempSkipped(w) ==
    /\ pc[w] = "cleanup" /\ Goto(w, "idle")
    /\ UNCHANGED <<names, data, durable, bg, dedup, op, obj, fd, mode, observed>>

(* A failed rename removes <hash>.tmp, whoever it belongs to, and fails. *)
CleanupTemp(w) ==
    /\ pc[w] = "cleanup"
    /\ tmp' = [tmp EXCEPT ![obj[w]] = None] /\ Goto(w, "idle")
    /\ UNCHANGED <<final, data, durable, bg, dedup, op, obj, fd, mode, observed>>

(* fsync_directory of the object's shard, and the return from write_atomic. *)
SyncDirectory(w) ==
    /\ pc[w] = "syncdir"
    /\ IF should_fsync_directory
       THEN /\ dfinal' = [dfinal EXCEPT ![obj[w]] = final[obj[w]]]
            /\ dtmp' = [dtmp EXCEPT ![obj[w]] = tmp[obj[w]]]
       ELSE UNCHANGED <<dfinal, dtmp>>
    /\ \/ op[w] = "optimized" /\ Goto(w, "index") /\ UNCHANGED observed
       \/ op[w] # "optimized" /\ Ack(w)
    /\ UNCHANGED <<names, data, ddata, bg, dedup, op, obj, fd, mode>>

(* delete: removes the file, and nothing else. *)
Delete(w) ==
    /\ mode = "up" /\ pc[w] = "idle"
    /\ \E j \in Jobs :
        /\ j.worker = w /\ j.op = "delete"
        /\ final' = [final EXCEPT ![j.hash] = None]
        /\ acked' = acked \ {j.hash}
        /\ clean' = [v \in Workers |-> clean[v] /\ obj[v] # j.hash]
    /\ UNCHANGED <<tmp, data, durable, bg, dedup, worker, mode, killed>>

(* A system call of the call fails and the error is returned: the temporary
   file stays as it is, possibly written in part. *)
IoError(w) ==
    /\ \/ /\ \/ "io" \in Faults /\ pc[w] \in {"create", "fill", "sync"}
             \/ "dirsync" \in Faults /\ pc[w] = "syncdir"
          /\ Goto(w, "idle") /\ fd' = [fd EXCEPT ![w] = None]
          /\ \/ UNCHANGED data
             \/ pc[w] = "fill" /\ data' = [data EXCEPT ![fd[w]] = Garbled]
       \/ /\ "rename" \in Faults /\ pc[w] = "rename" /\ UNCHANGED data
          /\ \/ op[w] # "stream" /\ Goto(w, "cleanup") /\ UNCHANGED fd
             \/ /\ op[w] = "stream" /\ Goto(w, "idle")
                /\ fd' = [fd EXCEPT ![w] = None]
    /\ UNCHANGED <<names, durable, bg, dedup, op, obj, mode, observed>>

-----------------------------------------------------------------------------
(* Crashes, the kernel's write-back, and recover(). *)

LoseMemory ==
    /\ pc' = [w \in Workers |-> "idle"] /\ fd' = [w \in Workers |-> None]
    /\ bg' = {} /\ dedup' = {} /\ mode' = "recovering"
    /\ killed' = TRUE
    /\ UNCHANGED <<op, obj, durable, acked, clean>>

Kill ==
    /\ "kill" \in Faults
    /\ LoseMemory /\ UNCHANGED <<names, data>>

PowerLoss ==
    /\ "power" \in Faults
    /\ LoseMemory
    /\ final' = dfinal /\ tmp' = dtmp /\ data' = ddata

(* The kernel may write a directory or a file back whenever it likes. *)
WritebackDir(h) ==
    /\ "power" \in Faults /\ <<dfinal[h], dtmp[h]>> # <<final[h], tmp[h]>>
    /\ dfinal' = [dfinal EXCEPT ![h] = final[h]]
    /\ dtmp' = [dtmp EXCEPT ![h] = tmp[h]]
    /\ UNCHANGED <<names, data, ddata, bg, dedup, worker, mode, observed>>

WritebackData(i) ==
    /\ "power" \in Faults /\ ddata[i] # data[i] /\ ~Free(i)
    /\ ddata' = [ddata EXCEPT ![i] = data[i]]
    /\ UNCHANGED <<names, data, dfinal, dtmp, bg, dedup, worker, mode, observed>>

(* recover_temp_file: complete the write if the object is missing and the
   bytes are the ones the name promises, remove the temporary file otherwise. *)
RecoverTemp(h) ==
    /\ mode = "recovering" /\ tmp[h] # None
    /\ tmp' = [tmp EXCEPT ![h] = None]
    /\ \/ /\ final[h] = None /\ data[tmp[h]] = Bytes(h)
          /\ final' = [final EXCEPT ![h] = tmp[h]]
          /\ IF should_fsync_directory
             THEN /\ dfinal' = [dfinal EXCEPT ![h] = tmp[h]]
                  /\ dtmp' = [dtmp EXCEPT ![h] = None]
             ELSE UNCHANGED <<dfinal, dtmp>>
       \/ /\ final[h] # None \/ data[tmp[h]] # Bytes(h)
          /\ UNCHANGED <<final, dfinal, dtmp>>
    /\ UNCHANGED <<data, ddata, bg, dedup, worker, mode, observed>>

RecoveryDone ==
    /\ mode = "recovering" /\ \A h \in Hashes : tmp[h] = None
    /\ mode' = "up"
    /\ UNCHANGED <<names, data, durable, bg, dedup, worker, observed>>

-----------------------------------------------------------------------------
Progress(w) ==
    \/ CheckDedup(w) \/ CheckExists(w) \/ UpdateDedup(w) \/ CreateTemp(w)
    \/ FillTemp(w) \/ SyncFile(w) \/ Rename(w) \/ CleanupTemp(w)
    \/ SyncDirectory(w)

Next ==
    \/ \E w \in Workers : Start(w) \/ Delete(w) \/ Progress(w) \/ HashMismatch(w)
    \/ \E w \in Workers : IoError(w)
    \/ \E b \in bg : BackgroundWrite(b)
    \/ Kill \/ PowerLoss
    \/ \E h \in Hashes : WritebackDir(h) \/ RecoverTemp(h)
    \/ \E i \in Inodes : WritebackData(i)
    \/ RecoveryDone

Spec == Init /\ [][Next]_vars

-----------------------------------------------------------------------------
(* Properties. *)

(* A file under an object's name holds that object, in full, at every moment:
   the promise of write_atomic's temporary file and rename. *)
VisibleIsComplete ==
    \A h \in Hashes : final[h] # None => data[final[h]] = Bytes(h)

(* Once a write returned Ok the object can be read back, whatever crashes and
   recoveries follow, until somebody deletes it. *)
AckedReadable ==
    mode = "up" => \A h \in acked : read_individual(h) = "Ok"

(* When nobody is writing, recover() would find nothing to do: whichever way
   writers of one object collide on <hash>.tmp, the last one removes it. *)
NoTempLeft ==
    mode = "up" =>
        \A h \in Hashes : tmp[h] # None =>
            \E w \in Workers : obj[w] = h /\ pc[w] # "idle"

(* Colliding writers can expose an unfinished object, but as long as nothing
   crashes one of them is still about to finish that very file. *)
BrokenHasWriter ==
    ~killed => \A h \in Hashes : (final[h] # None /\ data[final[h]] # Bytes(h)) =>
        \/ \E w \in Workers : pc[w] = "fill" /\ fd[w] = final[h]
        \/ \E b \in bg : b.ino = final[h] /\ b.bytes = Bytes(h)

(* read_stream does not verify what it serves: no interleaving, crash or I/O
   error may put one object's bytes under another object's name. *)
NoForeignContent ==
    \A h \in Hashes : final[h] # None =>
        data[final[h]] \in {Bytes(h), Empty, Garbled}

(* What collisions on one temporary file may expose is at worst the object
   itself, unfinished, with its writer still at work: never other bytes. *)
NoStrayBytes == BrokenHasWriter /\ NoForeignContent
=============================================================================
