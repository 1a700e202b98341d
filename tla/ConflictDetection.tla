-------------------------- MODULE ConflictDetection --------------------------
(***************************************************************************)
(* ConflictDetector of landro-sync/src/conflict_detection.rs, one on each  *)
(* of two devices that change their files and compare manifests.           *)
(*                                                                         *)
(* A file is [hash, at]: its content and when it was modified.  Between    *)
(* the detection on one device and the one on the other the files change.  *)
(***************************************************************************)
EXTENDS Naturals

CONSTANTS
    Devices,        \* two of them
    ConflictPaths, Hashes,
    MaxTime,        \* modification times (bound)
    NoCopy, NoConflict, Never

Other(d) == CHOOSE e \in Devices : e # d
Times == 0..MaxTime

Versions == [hash : Hashes, at : Times]
Types == {"BothModified", "DeletedModified"}
Conflicts == [type : Types, local : Versions \cup {NoCopy},
              remote : Versions \cup {NoCopy}, resolved : BOOLEAN]

ASSUME ConflictAssumption ==
    /\ MaxTime \in Nat /\ \A d \in Devices : Other(d) # d /\ Devices = {d, Other(d)}
    /\ NoCopy \notin Versions /\ NoConflict \notin Conflicts \cup Types
    /\ Never \notin Times

VARIABLES
    files,        \* the files of each device
    now,
    last_sync,    \* when the two synchronised last, or Never
    detected      \* detected_conflicts of each device

cvars == <<files, now, last_sync, detected>>

ConflictInit ==
    /\ files = [d \in Devices |-> [p \in ConflictPaths |-> NoCopy]]
    /\ now = 0
    /\ last_sync = Never
    /\ detected = [d \in Devices |-> [p \in ConflictPaths |-> NoConflict]]

-----------------------------------------------------------------------------
Since(entry) == last_sync # Never /\ entry.at > last_sync

(* check_file_conflict.  Without a last synchronisation two versions are   *)
(* a conflict and a missing file never is one.                             *)
ConflictType(local, remote) ==
    CASE local # NoCopy /\ remote # NoCopy ->
            IF local.hash # remote.hash /\ (last_sync = Never \/ (Since(local) /\ Since(remote)))
            THEN "BothModified" ELSE NoConflict
      [] local # NoCopy /\ remote = NoCopy -> IF Since(local) THEN "DeletedModified" ELSE NoConflict
      [] local = NoCopy /\ remote # NoCopy -> IF Since(remote) THEN "DeletedModified" ELSE NoConflict
      [] OTHER -> NoConflict

Conflict(type, local, remote) ==
    [type |-> type, local |-> local, remote |-> remote, resolved |-> FALSE]

check_file_conflict(local, remote) ==
    LET type == ConflictType(local, remote)
    IN  IF type = NoConflict THEN NoConflict
        ELSE Conflict(type, local, remote)

DeletionMayWin(c) ==
    IF c.type = "BothModified" /\ c.remote.at > c.local.at THEN "KeepRemote" ELSE "KeepLocal"

(* With the default configuration: the newer of two versions, the local    *)
(* one when they are of the same time, and the file over its deletion.     *)
(* Only the caller's copy of the conflict is marked as resolved.           *)
auto_resolve_conflict(c) ==
    IF c.type = "BothModified"
    THEN IF c.remote.at > c.local.at THEN "KeepRemote" ELSE "KeepLocal"
    ELSE IF c.local # NoCopy THEN "KeepLocal" ELSE "KeepRemote"

-----------------------------------------------------------------------------
detect_conflicts(d) ==
    /\ detected' = [detected EXCEPT ![d] = [p \in ConflictPaths |->
           LET found == check_file_conflict(files[d][p], files[Other(d)][p])
           IN  IF found = NoConflict THEN detected[d][p] ELSE found]]
    /\ UNCHANGED <<files, now, last_sync>>

mark_resolved(d, p) ==
    /\ detected[d][p] # NoConflict /\ ~detected[d][p].resolved
    /\ detected' = [detected EXCEPT ![d][p].resolved = TRUE]
    /\ UNCHANGED <<files, now, last_sync>>

clear_resolved_conflicts(d) ==
    /\ detected' = [detected EXCEPT ![d] = [p \in ConflictPaths |->
           IF @[p] # NoConflict /\ @[p].resolved THEN NoConflict ELSE @[p]]]
    /\ UNCHANGED <<files, now, last_sync>>

(* The users of the detector: files change, and a synchronisation that   *)
(* went well is remembered.                                                *)
ChangeFile(d, p) ==
    /\ \E h \in Hashes : files' = [files EXCEPT ![d][p] = [hash |-> h, at |-> now]]
    /\ UNCHANGED <<now, last_sync, detected>>
DeleteFile(d, p) ==
    /\ files[d][p] # NoCopy
    /\ files' = [files EXCEPT ![d][p] = NoCopy]
    /\ UNCHANGED <<now, last_sync, detected>>
Synchronised ==
    /\ last_sync' = now
    /\ UNCHANGED <<files, now, detected>>
ClockTicks ==
    /\ now < MaxTime
    /\ now' = now + 1
    /\ UNCHANGED <<files, last_sync, detected>>

ConflictNext ==
    \/ \E d \in Devices :
        \/ detect_conflicts(d) \/ clear_resolved_conflicts(d)
        \/ \E p \in ConflictPaths :
            mark_resolved(d, p) \/ ChangeFile(d, p) \/ DeleteFile(d, p)
    \/ Synchronised \/ ClockTicks

-----------------------------------------------------------------------------
Survivor(c) == IF auto_resolve_conflict(c) = "KeepLocal" THEN c.local ELSE c.remote

(* Two devices that resolve the same conflict, each on its own and from    *)
(* its own side, whenever they found it, keep the same version, and never  *)
(* the absence of one.  The one exception are two versions modified at the *)
(* same time: both devices keep their own.                                 *)
ResolutionsAgree ==
    \A d \in Devices, p \in ConflictPaths :
        LET mine == detected[d][p]
            theirs == detected[Other(d)][p]
        IN  /\ mine # NoConflict => Survivor(mine) # NoCopy
            /\ (/\ mine # NoConflict /\ theirs # NoConflict
                /\ mine.local = theirs.remote /\ mine.remote = theirs.local)
               => \/ Survivor(mine) = Survivor(theirs)
                  \/ mine.local.at = mine.remote.at
=============================================================================
