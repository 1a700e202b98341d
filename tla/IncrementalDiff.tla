--------------------------- MODULE IncrementalDiff ---------------------------
(***************************************************************************)
(* landro-sync/src/diff.rs, IncrementalDiff: the changes a peer has not    *)
(* acknowledged yet, from one diff to the next.                            *)
(***************************************************************************)
EXTENDS ManifestDiff

CONSTANTS Peers, Cache,  \* Cache: the chunk_cache
          Trees          \* the manifests that occur

Changes == [path : Paths, type : {"Added", "Modified", "Deleted", "MetadataOnly"},
            required : SUBSET Chunks]

ASSUME DiffAssumption ==
    /\ Trees \subseteq Manifests /\ Cache \subseteq Chunks
    /\ NoFile \notin Entries /\ SizeOf \in [Chunks -> Nat \ {0}]

VARIABLES
    pending,  \* pending_changes: peer -> changes, {} for no entry
    last,     \* observation: the peer's last diff: [source, target, changes]
    acked     \* observation: chunks acknowledged since

diffvars == <<pending, last, acked>>

Nothing == [source |-> Empty, target |-> Empty, changes |-> {}]

DiffInit ==
    /\ pending = [p \in Peers |-> {}]
    /\ last = [p \in Peers |-> Nothing] /\ acked = [p \in Peers |-> {}]

(* The diff goes from the peer's manifest to ours. *)
compute_incremental(p, current, theirs) ==
    LET changes == compute_diff(theirs, current, Cache)
    IN  /\ pending' = IF changes = {} THEN pending
                      ELSE [pending EXCEPT ![p] = changes]
        /\ last' = [last EXCEPT ![p] = [source |-> theirs, target |-> current,
                                        changes |-> changes]]
        /\ acked' = [acked EXCEPT ![p] = {}]

(* What remains of the pending changes once chunks are acknowledged. *)
Retain(changes, chunks) ==
    {c \in {[d EXCEPT !.required = @ \ chunks] : d \in changes} : c.required # {}}

acknowledge_changes(p, chunks) ==
    /\ pending[p] # {}
    /\ pending' = [pending EXCEPT ![p] = Retain(@, chunks)]
    /\ acked' = [acked EXCEPT ![p] = @ \cup chunks]
    /\ UNCHANGED last

reset_peer(p) ==
    /\ pending' = [pending EXCEPT ![p] = {}]
    /\ last' = [last EXCEPT ![p] = Nothing] /\ acked' = [acked EXCEPT ![p] = {}]

DiffNext ==
    \E p \in Peers :
        \/ \E m, n \in Trees : compute_incremental(p, m, n)
        \/ \E chunks \in SUBSET Chunks : acknowledge_changes(p, chunks)
        \/ reset_peer(p)

-----------------------------------------------------------------------------
(* Properties. *)

ChunksOf(m) == UNION {ToSet(m[p].chunks) : p \in {q \in Paths : m[q] # NoFile}}

(* A peer that holds the chunks of its own manifest and the cached ones, and
   was sent the chunks it acknowledged and those still pending, can build every
   file of our manifest: no chunk is forgotten before it is acknowledged.  And
   none is sent twice: what is pending was not acknowledged, and the peer does
   not have it in the file it is for. *)
PendingIsWhatIsLacking ==
    \A p \in Peers : last[p].changes # {} =>
        /\ ChunksOf(last[p].target) \subseteq
              ChunksOf(last[p].source) \cup Cache \cup acked[p]
                  \cup required_chunks(pending[p])
        /\ \A c \in pending[p] :
              /\ c.required \cap (acked[p] \cup Cache) = {}
              /\ last[p].source[c.path] # NoFile =>
                    c.required \cap ToSet(last[p].source[c.path].chunks) = {}
=============================================================================
