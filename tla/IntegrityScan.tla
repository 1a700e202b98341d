--------------------------- MODULE IntegrityScan ---------------------------
(***************************************************************************)
(* landro-cas/src/storage.rs: the background integrity scan beside batches *)
(* of streamed writes, deletions, reads and the decay of files.            *)
(*                                                                         *)
(* The scan walks the shard directories and verifies each object with      *)
(* read, which looks into the chunk cache before it opens the file.  An    *)
(* object made or removed meanwhile may be listed or not.  How a streamed  *)
(* write gets its file is the subject of ContentStore; here it has one or  *)
(* has not.  A write that finds a file does not look at it, so a damaged   *)
(* object is not repaired by writing it again.                             *)
(***************************************************************************)
EXTENDS Naturals, FiniteSets, Sequences

CONSTANTS
    Digests,        \* hashes of objects
    StreamPermits,  \* permits of write_semaphore
    MaxStreams      \* streams of a batch (bound)

ASSUME ScanAssumption == StreamPermits \in Nat \ {0} /\ MaxStreams \in Nat \ {0}

VARIABLES
    blob,           \* object -> "none", "whole" or "damaged"
    held,           \* objects in the chunk cache
    stream,         \* the streams of the batch: [of, at]
    awaited,        \* handles awaited, or MaxStreams + 1 without a batch
    batch_result,   \* what the last batch returned
    placed,         \* history: objects streams of the batch left in place
    scan,           \* the scan: [at, of, todo]
    report,         \* object -> the scan's verdict
    whole, broken,  \* history: objects that were whole, were not, since the
                    \* scan began
    hits            \* history: verdicts given from the cache

scanvars  == <<scan, report, hits>>
batchvars == <<stream, awaited, batch_result, placed>>
svars     == <<blob, held, batchvars, scanvars, whole, broken>>

NoScan    == [at |-> "idle", todo |-> {}]
NoBatch   == MaxStreams + 1
Present   == {b \in Digests : blob[b] # "none"}

ScanInit ==
    /\ blob = [b \in Digests |-> "none"]
    /\ held = {}
    /\ stream = <<>>
    /\ awaited = NoBatch
    /\ batch_result = "none"
    /\ placed = {}
    /\ scan = NoScan
    /\ report = [b \in Digests |-> "unseen"]
    /\ whole = {} /\ broken = Digests
    /\ hits = {}

(* The file of an object changes, and the history with it. *)
SetBlob(b, to) ==
    /\ blob' = [blob EXCEPT ![b] = to]
    /\ whole' = IF to = "whole" THEN whole \cup {b} ELSE whole
    /\ broken' = IF to = "whole" THEN broken ELSE broken \cup {b}

----------------------------------------------------------------------------
(* write_batch_stream: a task for each stream as permits come free, then   *)
(* the handles in order.  At the first error the call returns and the      *)
(* tasks behind it go on; the next batch comes when they are through.      *)

StreamsAt(at) == {i \in DOMAIN stream : stream[i].at = at}

write_batch_stream(bs) ==
    /\ awaited = NoBatch
    /\ StreamsAt("runs") = {}
    /\ stream' = [i \in DOMAIN bs |-> [of |-> bs[i], at |-> "waits"]]
    /\ awaited' = 1
    /\ batch_result' = "none"
    /\ placed' = {}
    /\ UNCHANGED <<blob, held, scanvars, whole, broken>>

SpawnStream(i) ==
    /\ awaited # NoBatch
    /\ i \in StreamsAt("waits")
    /\ \A j \in 1..(i - 1) : stream[j].at # "waits"
    /\ Cardinality(StreamsAt("runs")) < StreamPermits
    /\ stream' = [stream EXCEPT ![i].at = "runs"]
    /\ UNCHANGED <<blob, held, awaited, batch_result, placed, scanvars, whole,
                   broken>>

(* write_stream: the reader fails or the hash differs, the object has a    *)
(* file already, or it gets one.                                           *)
write_stream(i, succeeds) ==
    /\ i \in StreamsAt("runs")
    /\ stream' = [stream EXCEPT ![i].at = IF succeeds THEN "ok" ELSE "error"]
    /\ IF succeeds
       THEN /\ placed' = placed \cup {stream[i].of}
            /\ IF stream[i].of \in Present
               THEN UNCHANGED <<blob, whole, broken>>
               ELSE SetBlob(stream[i].of, "whole")
       ELSE UNCHANGED <<placed, blob, whole, broken>>
    /\ UNCHANGED <<held, awaited, batch_result, scanvars>>

BatchReturns(result) ==
    /\ batch_result' = result
    /\ awaited' = NoBatch

AwaitStream ==
    /\ awaited # NoBatch
    /\ StreamsAt("waits") = {}
    /\ stream[awaited].at \in {"ok", "error"}
    /\ IF stream[awaited].at = "error" THEN BatchReturns("error")
       ELSE IF awaited = Len(stream) THEN BatchReturns("ok")
       ELSE awaited' = awaited + 1 /\ batch_result' = batch_result
    /\ UNCHANGED <<blob, held, stream, placed, scanvars, whole, broken>>

----------------------------------------------------------------------------
(* The rest of the store. *)

RemoveBlob(b) ==
    /\ b \in Present
    /\ SetBlob(b, "none")
    /\ UNCHANGED <<held, batchvars, scanvars>>

Decay(b) ==
    /\ blob[b] = "whole"
    /\ SetBlob(b, "damaged")
    /\ UNCHANGED <<held, batchvars, scanvars>>

(* Some caller reads: what was verified goes into the cache. *)
ReadBlob(b) ==
    /\ blob[b] = "whole"
    /\ held' = held \cup {b}
    /\ UNCHANGED <<blob, batchvars, scanvars, whole, broken>>

EvictBlob(b) ==
    /\ b \in held
    /\ held' = held \ {b}
    /\ UNCHANGED <<blob, batchvars, scanvars, whole, broken>>

----------------------------------------------------------------------------
(* verify_integrity, called by the background scanner at every tick. *)

verify_integrity ==
    /\ scan = NoScan
    /\ scan' = [at |-> "list", todo |-> Present]
    /\ report' = [b \in Digests |-> "unseen"]
    /\ whole' = {b \in Digests : blob[b] = "whole"}
    /\ broken' = Digests \ whole'
    /\ hits' = {}
    /\ UNCHANGED <<blob, held, batchvars>>

(* A directory is read after an object of it was made or removed. *)
Relist(b) ==
    /\ scan.at = "list"
    /\ \/ b \in scan.todo /\ b \notin Present
          /\ scan' = [scan EXCEPT !.todo = @ \ {b}]
       \/ b \notin scan.todo /\ b \in Present /\ report[b] = "unseen"
          /\ scan' = [scan EXCEPT !.todo = @ \cup {b}]
    /\ UNCHANGED <<blob, held, batchvars, report, whole, broken, hits>>

verify_single_object(b) ==
    /\ scan.at = "list"
    /\ b \in scan.todo
    /\ IF b \in held
       THEN /\ report' = [report EXCEPT ![b] = "verified"]
            /\ hits' = hits \cup {b}
            /\ scan' = [scan EXCEPT !.todo = @ \ {b}]
       ELSE /\ scan' = [at |-> "file", of |-> b, todo |-> scan.todo \ {b}]
            /\ UNCHANGED <<report, hits>>
    /\ UNCHANGED <<blob, held, batchvars, whole, broken>>

(* A scan that takes a file it can read for a good one. *)
ReadableIsVerified ==
    /\ scan.at = "file"
    /\ LET digest == scan.of
           verdict == IF digest \in Present THEN "verified" ELSE "corrupted"
       IN  /\ report' = [report EXCEPT ![digest] = verdict]
           /\ held' = IF verdict = "verified" THEN held \cup {digest} ELSE held
    /\ scan' = [at |-> "list", todo |-> scan.todo]
    /\ UNCHANGED <<blob, batchvars, whole, broken, hits>>

(* A file that is gone counts as corrupted; an I/O error as an error. *)
ScanReads ==
    /\ scan.at = "file"
    /\ LET digest == scan.of
       IN  \E verdict \in {"error",
                           IF blob[digest] = "whole" THEN "verified" ELSE "corrupted"} :
              /\ report' = [report EXCEPT ![digest] = verdict]
              /\ held' = IF verdict = "verified" THEN held \cup {digest} ELSE held
    /\ scan' = [at |-> "list", todo |-> scan.todo]
    /\ UNCHANGED <<blob, batchvars, whole, broken, hits>>

ScanEnds ==
    /\ scan.at = "list"
    /\ scan.todo = {}
    /\ scan' = NoScan
    /\ UNCHANGED <<blob, held, batchvars, report, whole, broken, hits>>

ScanNext ==
    \/ \E n \in 1..MaxStreams : \E bs \in [1..n -> Digests] : write_batch_stream(bs)
    \/ \E i \in DOMAIN stream :
          SpawnStream(i) \/ \E ok \in BOOLEAN : write_stream(i, ok)
    \/ AwaitStream
    \/ \E b \in Digests :
          \/ RemoveBlob(b) \/ Decay(b) \/ ReadBlob(b) \/ EvictBlob(b)
          \/ Relist(b) \/ verify_single_object(b)
    \/ verify_integrity
    \/ ScanReads
    \/ ScanEnds

----------------------------------------------------------------------------
(* The verdicts of a scan that runs beside writes, deletions and reads: an *)
(* object is called verified only if its file was good at some moment of   *)
(* the scan, or the chunk cache answered for it; it is called corrupted    *)
(* only if at some moment its file was damaged or gone.                    *)
ScanIsJust ==
    \A b \in Digests :
        /\ report[b] = "verified" => b \in whole \cup hits
        /\ report[b] = "corrupted" => b \in broken

(* A batch that reports success has seen every one of its objects in place *)
(* (write_batch_stream with its permits and its errors).                   *)
StreamedIsStored ==
    batch_result = "ok" => \A i \in DOMAIN stream : stream[i].of \in placed

(* What the two report about the store was true of it at some moment.      *)
ReportsAreTrue == ScanIsJust /\ StreamedIsStored
=============================================================================
