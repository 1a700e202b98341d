------------------------------ MODULE BloomDiff ------------------------------
(***************************************************************************)
(* landro-daemon/src/bloom_diff.rs: Bloom filters of manifests, and the    *)
(* messages by which two DiffProtocolHandlers compare their folders.       *)
(*                                                                         *)
(* A manifest is the set of its files' paths: content hashes go into a     *)
(* second filter that nothing looks at, so that a file which differs but   *)
(* exists on both sides is not noticed.  A filter is the set of its bits   *)
(* that are one.  Messages are handled in any order and may be lost.       *)
(***************************************************************************)
EXTENDS FiniteSets, Naturals

CONSTANTS
    Differs, Roots, Files,
    Hash,           \* the hash of every path for every seed
    num_bits, num_hashes,
    MaxMessages,    \* messages under way (bound)
    NoManifest, NoDiff

ASSUME BloomAssumption == num_bits \in Nat \ {0} /\ num_hashes \in Nat \ {0}

VARIABLES
    manifests,  \* of each handler, for each root
    stages,     \* progress of each handler: the stage of the diff with each peer
    messages    \* under way; two that are the same count as one

dvars == <<manifests, stages, messages>>

BloomInit ==
    /\ manifests = [h \in Differs |-> [r \in Roots |-> NoManifest]]
    /\ stages = [h \in Differs |-> [p \in Differs |-> NoDiff]]
    /\ messages = {}

-----------------------------------------------------------------------------
(* BloomFilter::new.  from_manifest asks for room for a hundred paths or    *)
(* more, so that there is a bit and a hash.                                *)
NewFilter == {}
Bits(path, seeds) == {Hash[path][i] % num_bits : i \in seeds}
add(filter, path) == filter \cup Bits(path, 0..(num_hashes - 1))

OneHashMore(filter, path) == Bits(path, 0..num_hashes) \subseteq filter
contains(filter, path) == Bits(path, 0..(num_hashes - 1)) \subseteq filter

(* from_manifest *)
Filter(manifest) == UNION {add(NewFilter, f) : f \in manifest}

Message(type, from, to, root, about) ==
    [type |-> type, from |-> from, to |-> to, root |-> root, about |-> about]
Replace(m, replies) == messages' = (messages \ {m}) \cup replies

-----------------------------------------------------------------------------
start_diff(h, peer, root) ==
    /\ h # peer /\ Cardinality(messages) < MaxMessages
    /\ \E local \in SUBSET Files : manifests' = [manifests EXCEPT ![h][root] = local]
    /\ stages' = [stages EXCEPT ![h][peer] = "Initializing"]
    /\ messages' = messages \cup {Message("RequestSummary", h, peer, root, {})}

handle_summary_request(m) ==
    LET manifest == manifests[m.to][m.root]
    IN  /\ m.type = "RequestSummary"
        /\ Replace(m, {IF manifest # NoManifest
                       THEN Message("SendSummary", m.to, m.from, m.root, manifest)
                       ELSE Message("Acknowledge", m.to, m.from, m.root, {})})
        /\ UNCHANGED <<manifests, stages>>

(* The message holds the filter of `about', the manifest it was made from. *)
handle_summary_response(m) ==
    LET local == manifests[m.to][m.root]
        suspected == {f \in local : ~contains(Filter(m.about), f)}
    IN  /\ m.type = "SendSummary"
        /\ stages' = [stages EXCEPT ![m.to][m.from] = IF @ = NoDiff THEN @ ELSE "ComparingManifests"]
        /\ Replace(m, {IF suspected # {}
                       THEN Message("RequestDiffDetails", m.to, m.from, m.root,
                                    [suspected |-> suspected, summarised |-> m.about])
                       ELSE Message("Acknowledge", m.to, m.from, m.root, {})})
        /\ UNCHANGED manifests

(* Looks for the paths in the manifests of every root. *)
handle_details_request(m) ==
    /\ m.type = "RequestDiffDetails"
    /\ Replace(m, {Message("SendDiffDetails", m.to, m.from, m.root,
           UNION {manifests[m.to][r] \cap m.about.suspected :
                    r \in {q \in Roots : manifests[m.to][q] # NoManifest}})})
    /\ UNCHANGED <<manifests, stages>>

(* No stage is ever RequestingDetails. *)
handle_details_response(m) ==
    /\ m.type = "SendDiffDetails"
    /\ stages' = [stages EXCEPT ![m.to] = [p \in Differs |->
           IF @[p] = "RequestingDetails" THEN "TransferringChunks" ELSE @[p]]]
    /\ Replace(m, {})
    /\ UNCHANGED manifests

(* Completes the diffs with all peers. *)
handle_acknowledge(m) ==
    /\ m.type = "Acknowledge"
    /\ stages' = [stages EXCEPT ![m.to] = [p \in Differs |->
           IF @[p] = NoDiff THEN NoDiff ELSE "Completed"]]
    /\ Replace(m, {})
    /\ UNCHANGED manifests

MessageLost(m) ==
    /\ messages' = messages \ {m}
    /\ UNCHANGED <<manifests, stages>>

BloomNext ==
    \/ \E h, peer \in Differs, root \in Roots : start_diff(h, peer, root)
    \/ \E m \in messages :
        \/ handle_summary_request(m) \/ handle_summary_response(m)
        \/ handle_details_request(m) \/ handle_details_response(m)
        \/ handle_acknowledge(m) \/ MessageLost(m)

-----------------------------------------------------------------------------
(* Whatever the manifests become while messages are under way, a handler   *)
(* asks only for paths that the summarised manifest did not have: a filter *)
(* has no false negatives, and no summary is compared with a manifest of   *)
(* another root.  Hence a diff in which no manifest changes tells nothing: *)
(* details are asked of the side that does not have them, and the side     *)
(* that has more is told that nothing differs.                             *)
SuspectedIsMissing ==
    \A m \in messages :
        m.type = "RequestDiffDetails" => m.about.suspected \cap m.about.summarised = {}
=============================================================================
