---------------------------- MODULE ManifestHash ----------------------------
(***************************************************************************)
(* landro-index/src/manifest.rs: the Merkle root over the files of a       *)
(* manifest, and what a manifest that verifies says about its files.       *)
(*                                                                         *)
(* blake3 is taken to have no collisions: a hash is the record of what was *)
(* hashed.  The fields of a leaf are hashed one after the other without    *)
(* separators; that the boundary between them is found is assumed.         *)
(* What hash_file_entry makes alike is alike in the model already: times   *)
(* within one second, and hashes that are not hexadecimal, which count as  *)
(* zero bytes.                                                             *)
(***************************************************************************)
EXTENDS FiniteSets, Naturals, Sequences, SequencesExt

CONSTANTS
    FileEntries,    \* [path, data, mode]: data stands for the bytes hashed for size, content,
                    \* time and chunks
    NoMode,
    MaxFiles,       \* files of a manifest (bound)
    NoRoot

(* Paths are numbered in their order. *)
ASSUME ManifestHashAssumption ==
    \A e \in FileEntries :
        e = [path |-> e.path, data |-> e.data, mode |-> e.mode] /\ e.path \in Nat

VARIABLES
    content,        \* files
    root,           \* manifest_hash
    sealed          \* observation: the files when the hash was calculated

mvars == <<content, root, sealed>>

(* sort_by is stable: entries of one path stay in their order.  (TLC would
   evaluate the elements again and again but for the SubSeq.) *)
Before(fs, i) ==
    {j \in 1..Len(fs) : fs[j].path < fs[i].path \/ (fs[j].path = fs[i].path /\ j <= i)}
Sorted(fs) ==
    SubSeq([n \in 1..Len(fs) |-> fs[CHOOSE i \in 1..Len(fs) : Cardinality(Before(fs, i)) = n]],
           1, Len(fs))

(* A missing mode is hashed as zero. *)
hash_file_entry(e) == [e EXCEPT !.mode = IF @ = NoMode THEN 0 ELSE @]

DropOdd(hashes) ==
    [i \in 1..(Len(hashes) \div 2) |-> [left |-> hashes[2 * i - 1], right |-> hashes[2 * i]]]

(* The last one of an odd number is paired with itself. *)
hash_pairs(hashes) ==
    [i \in 1..((Len(hashes) + 1) \div 2) |->
        [left |-> hashes[2 * i - 1],
         right |-> IF 2 * i <= Len(hashes) THEN hashes[2 * i] ELSE hashes[2 * i - 1]]]

calculate_hash(fs) ==
    LET sorted == Sorted(fs)
        leaves == [i \in 1..Len(fs) |-> hash_file_entry(sorted[i])]
        level[n \in 0..Len(fs)] ==
            IF n = 0 THEN leaves
            ELSE LET below == level[n - 1] IN IF Len(below) > 1 THEN hash_pairs(below) ELSE below
    IN  IF fs = <<>> THEN [empty |-> TRUE] ELSE level[Len(fs)][1] \* as often as needed

verify == root # NoRoot /\ root = calculate_hash(content)

-----------------------------------------------------------------------------
ManifestInit == content = <<>> /\ root = NoRoot /\ sealed = <<>>

add_file(e) ==
    /\ Len(content) < MaxFiles
    /\ content' = Append(content, e)
    /\ UNCHANGED <<root, sealed>>

finalize ==
    /\ root' = calculate_hash(content)
    /\ sealed' = content
    /\ UNCHANGED content

(* A manifest that was sent or stored comes back with some of its files    *)
(* changed, missing or in another order.                                   *)
Returned ==
    /\ root # NoRoot
    /\ \E i \in 1..Len(content) :
        \/ content' = RemoveAt(content, i)
        \/ \E e \in FileEntries : content' = [content EXCEPT ![i] = e]
        \/ content' = Reverse(content)
    /\ UNCHANGED <<root, sealed>>

ManifestNext == finalize \/ Returned \/ \E e \in FileEntries : add_file(e)

-----------------------------------------------------------------------------
Leaves(fs) == {hash_file_entry(fs[i]) : i \in 1..Len(fs)}

(* A manifest verifies in whatever order its files are, and one that       *)
(* verifies has the files it was finalized with, as far as they are hashed *)
(* (see the head of the module); a file may be in it more often than       *)
(* before, and a mode of zero stand for a missing one.                     *)
VerifiedIsSealed ==
    /\ verify => Leaves(content) = Leaves(sealed)
    /\ (/\ root # NoRoot /\ Len(content) = Len(sealed)
        /\ \A i, j \in 1..Len(content) : content[i].path = content[j].path => i = j
        /\ Leaves(content) = Leaves(sealed)) => verify
=============================================================================
