---------------------------- MODULE ManifestDiff ----------------------------
(***************************************************************************)
(* landro-sync/src/diff.rs, DiffComputer: what it takes to turn one folder *)
(* manifest into another.                                                  *)
(*                                                                         *)
(* A manifest is a function from paths to entries or NoFile.  An entry has *)
(* the hashes of its chunks, in order, and a mode.  The content hash is a  *)
(* hash of the bytes, so two files have the same one exactly when they     *)
(* have the same chunks in the same order.                                 *)
(***************************************************************************)
EXTENDS Naturals, SequencesExt

CONSTANTS Paths, Chunks, Modes, NoFile,
          SizeOf,    \* chunk -> its size
          MaxChunks  \* chunks in one file (bound)

Entries   == [chunks : SeqOf(Chunks, MaxChunks), mode : Modes]
Manifests == [Paths -> Entries \cup {NoFile}]
Empty     == [p \in Paths |-> NoFile]   \* Manifest::new

content_hash(e) == e.chunks
size(e) == FoldSeq(LAMBDA c, n : SizeOf[c] + n, 0, e.chunks)

find_required_chunks(e, cache) == ToSet(e.chunks) \ cache
ChunkDiffWhole(s, t, cache) == ToSet(t.chunks) \ cache

(* For a file that exists on both sides. *)
compute_chunk_diff(s, t, cache) == ToSet(t.chunks) \ (ToSet(s.chunks) \cup cache)

Change(p, kind, required) == [path |-> p, type |-> kind, required |-> required]

(* The change reported for path p, if any. *)
FileChanges(p, source, target, cache) ==
    LET s == source[p]
        t == target[p]
    IN  CASE s = NoFile /\ t = NoFile -> {}
          [] s = NoFile /\ t # NoFile ->
                {Change(p, "Added", find_required_chunks(t, cache))}
          [] s # NoFile /\ t = NoFile -> {Change(p, "Deleted", {})}
          [] OTHER ->
                LET required == compute_chunk_diff(s, t, cache)
                IN  IF content_hash(s) = content_hash(t) THEN {}
                    ELSE IF required = {} /\ size(s) = size(t)
                         THEN {Change(p, "MetadataOnly", {})}
                         ELSE {Change(p, "Modified", required)}

compute_diff(source, target, cache) ==
    UNION {FileChanges(p, source, target, cache) : p \in Paths}

required_chunks(changes) == UNION {c.required : c \in changes}
=============================================================================
