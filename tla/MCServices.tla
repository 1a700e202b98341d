----------------------------- MODULE MCServices -----------------------------
(* The parts of the daemon around a synchronisation, which share no state   *)
(* in this model but for the shell, the discovery and the file watchers.    *)
(* Each behaviour exercises one of them.                                    *)
EXTENDS IncrementalDiff, ResumeManager, EndToEndSync, SimpleTransfer, Chunker,
        ConflictDetection, BloomDiff, ManifestHash, Migrations, DaemonShell,
        FolderWatcher

CONSTANTS p1, p2, a, b, c, d, old, new, s1, s2, h1
VARIABLE focus

-----------------------------------------------------------------------------
(* IncrementalDiff: files that grow, shrink, move, share chunks, are
   reordered and chmod-ed. *)
UnitSize == [x \in Chunks |-> 1]
File(s) == [chunks |-> s, mode |-> old]
SomeTrees ==
    { Empty,
      [x \in Paths |-> File(<<a, b>>)],
      p1 :> File(<<a>>) @@ p2 :> File(<<b, c>>),
      p1 :> File(<<b, a>>) @@ p2 :> NoFile,
      p1 :> NoFile @@ p2 :> File(<<c>>),
      p1 :> [chunks |-> <<a>>, mode |-> new] @@ p2 :> File(<<b, c>>) }

(* ResumeManager: a session with a chunk, and one without. *)
ChunksOfSessions == s1 :> {h1} @@ s2 :> {}

(* Chunker: two bytes whose entries of the table differ in every bit. *)
GearTable == (0 :> 3) @@ (1 :> 13)

(* BloomDiff: c is where the filter of a and b gives a false positive. *)
HashTable == a :> (0 :> 0 @@ 1 :> 4 @@ 2 :> 6) @@ b :> (0 :> 4 @@ 1 :> 3 @@ 2 :> 2)
             @@ c :> (0 :> 3 @@ 1 :> 4 @@ 2 :> 5)

(* ManifestHash: a file with two contents, and two other files. *)
SomeEntries ==
    { [path |-> 1, data |-> 1, mode |-> 0], [path |-> 1, data |-> 2, mode |-> 0],
      [path |-> 2, data |-> 1, mode |-> 0], [path |-> 3, data |-> 1, mode |-> NoMode] }

-----------------------------------------------------------------------------
Init ==
    /\ DiffInit /\ ResumeInit /\ EndToEndInit /\ SimpleInit /\ ChunkerInit
    /\ ConflictInit /\ BloomInit /\ ManifestInit /\ MigrationInit
    /\ ShellInit /\ FolderInit
    /\ focus \in {"diff", "resume", "end to end", "simple", "chunker", "conflicts",
                  "bloom", "manifest", "migrations", "shell", "folder"}
    /\ focus # "simple" => \A s \in Streams : announced[s] = d /\ payload[s] = d

Next ==
    /\ UNCHANGED focus
    /\ IF focus = "diff" THEN DiffNext ELSE UNCHANGED diffvars
    /\ IF focus = "resume" THEN ResumeNext ELSE UNCHANGED rvars
    /\ IF focus = "end to end" THEN EndToEndNext ELSE UNCHANGED xvars
    /\ IF focus = "simple" THEN SimpleNext ELSE UNCHANGED zvars
    /\ IF focus = "chunker" THEN chunk_stream ELSE UNCHANGED buffer
    /\ IF focus = "conflicts" THEN ConflictNext ELSE UNCHANGED cvars
    /\ IF focus = "bloom" THEN BloomNext ELSE UNCHANGED dvars
    /\ IF focus = "manifest" THEN ManifestNext ELSE UNCHANGED mvars
    /\ IF focus = "migrations" THEN MigrationNext ELSE UNCHANGED gvars
    /\ IF focus = "shell" THEN ShellNext ELSE UNCHANGED shvars
    /\ IF focus = "folder" THEN FolderNext ELSE UNCHANGED wvars

Spec == Init /\ [][Next]_<<diffvars, rvars, xvars, zvars, buffer, cvars, dvars, mvars,
                          gvars, shvars, wvars, focus>>
=============================================================================
