----------------------------- MODULE ChunkCache -----------------------------
(***************************************************************************)
(* landro-cas/src/storage.rs above the files: the chunk cache with its     *)
(* byte count, the dedup index, write_batch and the tasks that flush it,   *)
(* reads that fill the cache, prefetch and the integrity scan.             *)
(*                                                                         *)
(* A file is there or not: how it gets there is the subject of             *)
(* ContentStore.  The cache is modelled by the order in which its entries  *)
(* were used, latest first.  The loop that evicts never ends when the      *)
(* cache is empty and still over its limit; it holds the cache's lock.     *)
(***************************************************************************)
EXTENDS Naturals, FiniteSets, SequencesExt

CONSTANTS
    Hashes, NoHash,
    Size,        \* bytes of each object
    MaxBytes,    \* cache_config.max_size_bytes
    MaxChunks,   \* cache_config.max_chunks
    Readers,     \* callers of read: verify, prefetch, the integrity scan
    BatchLimit,  \* objects that make a batch full
    Permits,     \* max_concurrent_ops, the permits of write_semaphore
    NoTask

CacheConfig == MaxBytes \in Nat /\ MaxChunks \in Nat \ {0}

BatchTask == [hash : Hashes, step : {"write", "fill", "ok", "error"}]

ASSUME CacheAssumption ==
    /\ CacheConfig /\ Size \in [Hashes -> Nat \ {0}]
    /\ BatchLimit \in Nat \ {0} /\ Permits \in Nat \ {0}
    /\ NoHash \notin Hashes /\ NoTask \notin BatchTask

VARIABLES
    objects,    \* objects with a file
    stored,     \* objects that ever had one
    dedup,      \* dedup_index
    lru, total_size, spinning, \* the cache, its byte count, a loop without end
    reading,    \* the object each reader reads
    rpc,        \* and its step: "idle", "lookup", "disk", "fill"
    result,     \* the last answer
    pending, flushing, \* BatchWriter.pending; what a flush still has to spawn
    handles,    \* tasks the flush waits for; <<>> when the lock is free
    tasks,      \* tasks of write_individual_optimized
    owed        \* objects write_batch returned and no task has tried to write

cache  == <<lru, total_size, spinning>>
reads  == <<reading, rpc, result>>
batch  == <<pending, flushing, handles, tasks, owed>>
cvars  == <<objects, stored, dedup, cache, reads, batch>>

Slots      == 1..(BatchLimit + Permits)
Cached     == ToSet(lru)
Units(S)   == UNION {{h} \X (1..Size[h]) : h \in S}
Bytes(S)   == Cardinality(Units(S))

CacheInit ==
    /\ objects = {} /\ stored = {} /\ dedup = {}
    /\ lru = <<>> /\ total_size = 0 /\ spinning = FALSE
    /\ reading = [r \in Readers |-> NoHash]
    /\ rpc = [r \in Readers |-> "idle"]
    /\ result = [r \in Readers |-> "none"]
    /\ pending = <<>> /\ flushing = <<>> /\ handles = <<>>
    /\ tasks = [t \in Slots |-> NoTask] /\ owed = {}

-----------------------------------------------------------------------------
(* The k entries that were used least recently. *)
Oldest(k) == ToSet(SubSeq(lru, Len(lru) - k + 1, Len(lru)))

FitsAsItIs(h, k) == total_size <= MaxBytes + Bytes(Oldest(k))
Fits(h, k) == total_size + Size[h] <= MaxBytes + Bytes(Oldest(k))

(* How many entries the loop pops before h fits: more than there are when  *)
(* it never does.                                                          *)
Evicts(h, k) ==
    /\ \A j \in 0..k : j < k => ~Fits(h, j)
    /\ k <= Len(lru) => Fits(h, k)

(* put moves h to the front; the entry it replaces, or drops because the   *)
(* cache has max_chunks, is not subtracted from total_size.                *)
Put(s, h) ==
    LET t == <<h>> \o RemoveFirst(s, h)
    IN  SubSeq(t, 1, IF Len(t) > MaxChunks THEN MaxChunks ELSE Len(t))

Fill(h) ==
    /\ ~spinning
    /\ \E k \in 0..(Len(lru) + 1) :
        /\ Evicts(h, k)
        /\ IF k > Len(lru)
             THEN /\ spinning' = TRUE /\ lru' = <<>>
                  /\ total_size' = total_size - Bytes(Cached)
             ELSE /\ lru' = Put(SubSeq(lru, 1, Len(lru) - k), h)
                  /\ total_size' = total_size - Bytes(Oldest(k)) + Size[h]
                  /\ UNCHANGED spinning

clear_cache ==
    /\ ~spinning
    /\ lru' = <<>> /\ total_size' = 0
    /\ UNCHANGED <<objects, stored, dedup, spinning, reads, batch>>

-----------------------------------------------------------------------------
(* read: the cache, then the file, then the cache again, each under its    *)
(* own lock.                                                               *)
read(r, h) ==
    /\ rpc[r] = "idle"
    /\ reading' = [reading EXCEPT ![r] = h]
    /\ rpc' = [rpc EXCEPT ![r] = "lookup"]
    /\ result' = [result EXCEPT ![r] = "none"]

Done(r, a) ==
    /\ reading' = [reading EXCEPT ![r] = NoHash]
    /\ rpc' = [rpc EXCEPT ![r] = "idle"]
    /\ result' = [result EXCEPT ![r] = a]

StartRead(r, h) ==
    /\ read(r, h)
    /\ UNCHANGED <<objects, stored, dedup, cache, batch>>

LookupTrusted(r) ==
    /\ rpc[r] = "lookup" /\ ~spinning
    /\ IF reading[r] \in Cached
         THEN Done(r, "data") /\ UNCHANGED lru
         ELSE Done(r, "missing") /\ UNCHANGED lru
    /\ UNCHANGED <<objects, stored, dedup, total_size, spinning, batch>>

(* prefetch reads what its check did not find in the cache. *)
prefetch(r, h) ==
    /\ ~spinning /\ h \notin Cached
    /\ read(r, h)
    /\ UNCHANGED <<objects, stored, dedup, cache, batch>>

LookupCache(r) ==
    /\ rpc[r] = "lookup" /\ ~spinning
    /\ IF reading[r] \in Cached
         THEN /\ lru' = <<reading[r]>> \o RemoveFirst(lru, reading[r])
              /\ Done(r, "data")
         ELSE /\ rpc' = [rpc EXCEPT ![r] = "disk"]
              /\ UNCHANGED <<lru, reading, result>>
    /\ UNCHANGED <<objects, stored, dedup, total_size, spinning, batch>>

ReadIndividual(r) ==
    /\ rpc[r] = "disk"
    /\ \/ /\ reading[r] \in objects
          /\ rpc' = [rpc EXCEPT ![r] = "fill"]
          /\ UNCHANGED <<reading, result>>
       \/ /\ reading[r] \notin objects
          /\ Done(r, "missing")
       \/ Done(r, "error")
    /\ UNCHANGED <<objects, stored, dedup, cache, batch>>

FillFromRead(r) ==
    /\ rpc[r] = "fill"
    /\ Fill(reading[r])
    /\ IF spinning'
         THEN UNCHANGED <<reading, rpc, result>>
         ELSE Done(r, "data")
    /\ UNCHANGED <<objects, stored, dedup, batch>>

-----------------------------------------------------------------------------
(* write: the dedup index, then the file.  delete removes the file only. *)
write(h) ==
    /\ \/ /\ h \in dedup
          /\ UNCHANGED <<objects, stored, dedup>>
       \/ /\ h \notin dedup /\ h \in objects
          /\ dedup' = dedup \cup {h}
          /\ UNCHANGED <<objects, stored>>
       \/ /\ h \notin dedup /\ h \notin objects
          /\ objects' = objects \cup {h} /\ stored' = stored \cup {h}
          /\ UNCHANGED dedup
    /\ UNCHANGED <<cache, reads, batch>>

delete(h) ==
    /\ h \in objects
    /\ objects' = objects \ {h}
    /\ UNCHANGED <<stored, dedup, cache, reads, batch>>

-----------------------------------------------------------------------------
(* write_batch returns the references of objects that are only pending; *)
(* the batch is full, old enough, or kept for the next call.             *)
LockFree == flushing = <<>> /\ handles = <<>>

StartFlush(p) == flushing' = p /\ pending' = <<>>

write_batch(h) ==
    /\ LockFree
    /\ IF h \in dedup
         THEN UNCHANGED <<pending, flushing, owed>>
         ELSE /\ owed' = owed \cup {h}
              /\ \/ StartFlush(Append(pending, h))
                 \/ /\ Len(pending) + 1 < BatchLimit
                    /\ pending' = Append(pending, h)
                    /\ UNCHANGED flushing
    /\ UNCHANGED <<objects, stored, dedup, cache, reads, handles, tasks>>

flush_batch ==
    /\ LockFree /\ pending # <<>>
    /\ StartFlush(pending)
    /\ UNCHANGED <<objects, stored, dedup, cache, reads, handles, tasks, owed>>

Spawned == {t \in Slots : tasks[t] # NoTask}
Running == {t \in Spawned : tasks[t].step \in {"write", "fill"}}

(* One task for each object, as the semaphore has permits. *)
SpawnWrite ==
    /\ flushing # <<>> /\ Cardinality(Running) < Permits
    /\ \E t \in Slots \ Spawned :
       /\ \A u \in Slots \ Spawned : t <= u
       /\ tasks' = [tasks EXCEPT ![t] = [hash |-> Head(flushing), step |-> "write"]]
       /\ handles' = Append(handles, t)
    /\ flushing' = Tail(flushing)
    /\ UNCHANGED <<objects, stored, dedup, cache, reads, pending, owed>>

(* A task that nobody waits for any more leaves nothing behind. *)
Ends(t, step) ==
    tasks' = [tasks EXCEPT ![t] = IF t \in ToSet(handles) THEN [@ EXCEPT !.step = step]
                                  ELSE NoTask]

WriteIndividual(t) ==
    LET h == tasks[t].hash IN
    /\ tasks[t].step = "write"
    /\ \/ /\ h \in objects
          /\ Ends(t, "ok")
          /\ UNCHANGED <<objects, stored>>
       \/ /\ h \notin objects
          /\ tasks' = [tasks EXCEPT ![t].step = "fill"]
          /\ objects' = objects \cup {h} /\ stored' = stored \cup {h}
       \/ /\ h \notin objects
          /\ Ends(t, "error")
          /\ UNCHANGED <<objects, stored>>
    /\ owed' = owed \ {h}
    /\ UNCHANGED <<dedup, cache, reads, pending, flushing, handles>>

FillFromWrite(t) ==
    /\ tasks[t].step = "fill"
    /\ Fill(tasks[t].hash)
    /\ IF spinning'
         THEN UNCHANGED <<tasks, dedup>>
         ELSE Ends(t, "ok") /\ dedup' = dedup \cup {tasks[t].hash}
    /\ UNCHANGED <<objects, stored, reads, pending, flushing, handles, owed>>

(* The handles are awaited in order; at the first error the flush returns, *)
(* and the tasks behind it go on by themselves.                            *)
AwaitHandle ==
    /\ flushing = <<>> /\ handles # <<>>
    /\ LET t == Head(handles) IN
       /\ tasks[t].step \in {"ok", "error"}
       /\ \/ /\ tasks[t].step = "ok"
             /\ handles' = Tail(handles) /\ tasks' = [tasks EXCEPT ![t] = NoTask]
          \/ /\ tasks[t].step = "error"
             /\ handles' = <<>>
             /\ tasks' = [u \in Slots |-> IF u \in Running THEN tasks[u] ELSE NoTask]
    /\ UNCHANGED <<objects, stored, dedup, cache, reads, pending, flushing, owed>>

-----------------------------------------------------------------------------
CacheNext ==
    \/ \E r \in Readers, h \in Hashes : StartRead(r, h) \/ prefetch(r, h)
    \/ \E r \in Readers : LookupCache(r) \/ ReadIndividual(r) \/ FillFromRead(r)
    \/ clear_cache
    \/ \E h \in Hashes : write(h) \/ delete(h) \/ write_batch(h)
    \/ flush_batch \/ SpawnWrite \/ AwaitHandle
    \/ \E t \in Running : WriteIndividual(t) \/ FillFromWrite(t)

-----------------------------------------------------------------------------
(* The byte count never falls below what the cache holds, although put     *)
(* replaces and drops entries without counting them: the subtractions of   *)
(* the eviction loop cannot underflow, and the cache keeps to its limits.  *)
CacheWithinLimits ==
    /\ Bytes(Cached) <= total_size /\ total_size <= MaxBytes
    /\ Len(lru) <= MaxChunks

(* An object that write_batch has returned stays on its way to a file      *)
(* until a task has tried to write it: the failure of another object of    *)
(* the batch, at which the flush stops waiting, does not lose it.          *)
OnlyOwnFailureLoses ==
    owed \subseteq ToSet(pending) \cup ToSet(flushing) \cup {tasks[t].hash : t \in Running}

(* The cache and the batches keep their accounts through the failures of      *)
(* tasks that share them.                                                     *)
CacheAndBatchSound == CacheWithinLimits /\ OnlyOwnFailureLoses

(* Reads keep the promise of BlobStore. *)
Blobs == INSTANCE BlobStore WITH
            blobs <- objects, ever <- stored, asked <- reading, answer <- result
ReadsAreHonest == Blobs!BlobSpec
=============================================================================
