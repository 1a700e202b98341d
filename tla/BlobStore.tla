----------------------------- MODULE BlobStore ------------------------------
(***************************************************************************)
(* What the content store promises its callers about reads, whatever       *)
(* caches, batches and deletions do meanwhile: an object is reported       *)
(* missing only when it is not stored at that moment, and data is only     *)
(* ever returned for an object that was stored.  A deleted object may be   *)
(* answered for some time, for delete leaves the caches alone.             *)
(***************************************************************************)
CONSTANTS Hashes, Readers, NoHash

VARIABLES
    blobs,  \* objects on disk
    ever,   \* objects that were on disk at some time
    asked,  \* the object each reader waits for
    answer  \* the last answer each reader had

bvars == <<blobs, ever, asked, answer>>

BlobInit ==
    /\ blobs = {} /\ ever = {}
    /\ asked = [r \in Readers |-> NoHash]
    /\ answer = [r \in Readers |-> "none"]

Put(h) ==
    /\ blobs' = blobs \cup {h} /\ ever' = ever \cup {h}
    /\ UNCHANGED <<asked, answer>>

Remove(h) ==
    /\ blobs' = blobs \ {h}
    /\ UNCHANGED <<ever, asked, answer>>

Ask(r, h) ==
    /\ asked[r] = NoHash
    /\ asked' = [asked EXCEPT ![r] = h]
    /\ answer' = [answer EXCEPT ![r] = "none"]
    /\ UNCHANGED <<blobs, ever>>

Answer(r, a) ==
    /\ asked[r] # NoHash
    /\ a = "data" => asked[r] \in ever
    /\ a = "missing" => asked[r] \notin blobs
    /\ asked' = [asked EXCEPT ![r] = NoHash]
    /\ answer' = [answer EXCEPT ![r] = a]
    /\ UNCHANGED <<blobs, ever>>

BlobNext ==
    \/ \E h \in Hashes : Put(h) \/ Remove(h) \/ \E r \in Readers : Ask(r, h)
    \/ \E r \in Readers, a \in {"data", "missing", "error"} : Answer(r, a)

BlobSpec == BlobInit /\ [][BlobNext]_bvars
=============================================================================
