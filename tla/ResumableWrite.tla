--------------------------- MODULE ResumableWrite ---------------------------
(***************************************************************************)
(* Writes that may be interrupted: the PartialTransfer of                  *)
(* landro-cas/src/storage.rs (start, continue, complete and cancel of a    *)
(* resumable write, and the cleanup of old partial files), and the         *)
(* AtomicWriter of landro-cas/src/atomic.rs with its resumption after a    *)
(* crash.                                                                  *)
(*                                                                         *)
(* A content is the sequence of its pieces, and is its own hash.  A caller *)
(* goes on from bytes_received, or from bytes_written.                     *)
(***************************************************************************)
EXTENDS Naturals, Sequences, FiniteSets

CONSTANTS
    Transfers,   \* resumable writes of the same content
    Checked,     \* those started with expected_hash
    Sized,       \* those started with total_size
    Pieces,      \* pieces of the content
    MaxLen,      \* bound on a partial file, which failed calls make longer
    NoFile

ASSUME ResumableAssumption ==
    Pieces \in Nat \ {0} /\ MaxLen \in Nat /\ Checked \subseteq Transfers /\ Sized \subseteq Transfers
    /\ NoFile \notin Seq(Nat) /\ NoFile \notin Nat

Content == [i \in 1..Pieces |-> i]
Part(i, j) == [k \in 1..(j - i + 1) |-> k + i - 1]   \* pieces i to j

VARIABLES
    partial,   \* each handle: "none", "open", or how it ended
    received,  \* bytes_received, in pieces
    temp,      \* its .partial file
    age,       \* "young"; "expired": expires_at is over; "old": so is the file's day
    torn,      \* pieces were appended and not counted
    finals,    \* contents with an object file
    atemp, awriter, afinal, asynced \* AtomicWriter: the temporary file, the
               \* bytes the writer counts (NoFile: none), the file, bytes synced

pvars == <<partial, received, temp, age, torn, finals>>
avars == <<atemp, awriter, afinal, asynced>>
rvars == <<pvars, avars>>

ResumableInit ==
    /\ partial = [t \in Transfers |-> "none"]
    /\ received = [t \in Transfers |-> 0]
    /\ temp = [t \in Transfers |-> NoFile]
    /\ age = [t \in Transfers |-> "young"]
    /\ torn = [t \in Transfers |-> FALSE]
    /\ finals = {}
    /\ atemp = NoFile /\ awriter = NoFile /\ afinal = NoFile /\ asynced = 0

-----------------------------------------------------------------------------
start_resumable_write(t) ==
    /\ partial[t] = "none"
    /\ partial' = [partial EXCEPT ![t] = "open"]
    /\ UNCHANGED <<received, temp, age, torn, finals, avars>>

(* The first call creates the file; a later one appends to what is there. *)
Opened(t) == IF received[t] = 0 THEN <<>> ELSE temp[t]

continue_resumable_write(t) ==
    /\ partial[t] = "open" /\ age[t] = "young"
    /\ received[t] = 0 \/ temp[t] # NoFile
    /\ \E n \in 1..(Pieces - received[t]) :
        /\ Len(Opened(t)) + n <= MaxLen
        /\ temp' = [temp EXCEPT ![t] = Opened(t) \o Part(received[t] + 1, received[t] + n)]
        /\ received' = [received EXCEPT ![t] = @ + n]
    /\ UNCHANGED <<partial, age, torn, finals, avars>>

(* The reader fails: what went through the buffer stays, uncounted. *)
ContinueFails(t) ==
    /\ partial[t] = "open" /\ age[t] = "young" /\ received[t] < Pieces
    /\ received[t] = 0 \/ temp[t] # NoFile
    /\ \E n \in 0..(Pieces - received[t]) :
        /\ Len(Opened(t)) + n <= MaxLen
        /\ temp' = [temp EXCEPT ![t] = Opened(t) \o Part(received[t] + 1, received[t] + n)]
        /\ torn' = [torn EXCEPT ![t] = @ \/ (n > 0 /\ received[t] > 0)]
    /\ UNCHANGED <<partial, received, age, finals, avars>>

(* complete_resumable_write checks the content in the file, not the count. *)
Verdict(t) ==
    IF age[t] # "young" THEN "expired"
    ELSE IF temp[t] = NoFile THEN "not found"
    ELSE IF t \in Checked /\ temp[t] # Content THEN "hash mismatch"
    ELSE IF t \in Sized /\ Len(temp[t]) # Pieces THEN "size mismatch"
    ELSE "stored"

complete_resumable_write(t) ==
    /\ partial[t] = "open"
    /\ partial' = [partial EXCEPT ![t] = Verdict(t)]
    /\ temp' = [temp EXCEPT ![t] = NoFile]
    /\ finals' = IF Verdict(t) = "stored" THEN finals \cup {temp[t]} ELSE finals
    /\ UNCHANGED <<received, age, torn, avars>>

(* The rename fails: the handle is gone and its file is left to the cleanup. *)
CompleteFails(t) ==
    /\ partial[t] = "open" /\ Verdict(t) = "stored" /\ temp[t] \notin finals
    /\ partial' = [partial EXCEPT ![t] = "failed"]
    /\ UNCHANGED <<received, temp, age, torn, finals, avars>>

cancel_resumable_write(t) ==
    /\ partial[t] = "open"
    /\ partial' = [partial EXCEPT ![t] = "cancelled"]
    /\ temp' = [temp EXCEPT ![t] = NoFile]
    /\ UNCHANGED <<received, age, torn, finals, avars>>

(* A day after the start the handle expires, a day after the file was      *)
(* created the cleanup may take it.                                        *)
TimePasses(t) ==
    /\ partial[t] # "none"
    /\ \/ age[t] = "young" /\ age' = [age EXCEPT ![t] = "expired"]
       \/ age[t] = "expired" /\ temp[t] # NoFile /\ age' = [age EXCEPT ![t] = "old"]
    /\ UNCHANGED <<partial, received, temp, torn, finals, avars>>

cleanup_expired_partials ==
    /\ \E t \in Transfers : age[t] = "old" /\ temp[t] # NoFile
    /\ temp' = [t \in Transfers |-> IF age[t] = "old" THEN NoFile ELSE temp[t]]
    /\ UNCHANGED <<partial, received, age, torn, finals, avars>>

-----------------------------------------------------------------------------
(* AtomicWriter, for one path and one writer at a time. *)
NewWriter ==
    /\ awriter = NoFile /\ atemp = NoFile
    /\ atemp' = <<>> /\ awriter' = 0 /\ asynced' = 0
    /\ UNCHANGED <<pvars, afinal>>

AWrite ==
    /\ awriter # NoFile /\ awriter < Pieces
    /\ atemp' = Append(atemp, awriter + 1) /\ awriter' = awriter + 1
    /\ UNCHANGED <<pvars, afinal, asynced>>

AFlush ==
    /\ awriter # NoFile
    /\ asynced' = Len(atemp)
    /\ UNCHANGED <<pvars, atemp, awriter, afinal>>

ACommit ==
    /\ awriter = Pieces
    /\ afinal' = atemp /\ atemp' = NoFile /\ awriter' = NoFile /\ asynced' = 0
    /\ UNCHANGED pvars

AAbort ==
    /\ awriter # NoFile
    /\ atemp' = NoFile /\ awriter' = NoFile /\ asynced' = 0
    /\ UNCHANGED <<pvars, afinal>>

(* A crash keeps what was synced and any more of the file. *)
ACrash ==
    /\ awriter # NoFile
    /\ \E n \in asynced..Len(atemp) : atemp' = SubSeq(atemp, 1, n)
    /\ awriter' = NoFile
    /\ UNCHANGED <<pvars, afinal, asynced>>

ResumeFromStart ==
    /\ awriter = NoFile /\ atemp # NoFile
    /\ awriter' = 0
    /\ UNCHANGED <<pvars, atemp, afinal, asynced>>

(* check_resumable_write finds the file, resume counts what it has. *)
AResume ==
    /\ awriter = NoFile /\ atemp # NoFile
    /\ awriter' = Len(atemp)
    /\ UNCHANGED <<pvars, atemp, afinal, asynced>>

AAbandon ==
    /\ awriter = NoFile /\ atemp # NoFile
    /\ atemp' = NoFile /\ asynced' = 0
    /\ UNCHANGED <<pvars, awriter, afinal>>

-----------------------------------------------------------------------------
PartialNext ==
    \/ \E t \in Transfers :
        \/ start_resumable_write(t) \/ continue_resumable_write(t) \/ ContinueFails(t)
        \/ complete_resumable_write(t) \/ CompleteFails(t) \/ cancel_resumable_write(t)
        \/ TimePasses(t)
    \/ cleanup_expired_partials

AtomicNext ==
    NewWriter \/ AWrite \/ AFlush \/ ACommit \/ AAbort \/ ACrash \/ AResume \/ AAbandon

-----------------------------------------------------------------------------
(* A resumable write is refused as wrong only when pieces were missing, or *)
(* when an earlier call failed after the first one had succeeded: then the *)
(* pieces it appended are appended again.  A first call that fails, a      *)
(* cleanup or another transfer never spoils it, and whatever is stored for *)
(* an expected hash is that content.                                       *)
RefusedOnlyIfTorn ==
    \A t \in Transfers :
        /\ received[t] = Pieces /\ ~torn[t]
           => partial[t] \notin {"hash mismatch", "size mismatch", "not found"}
        /\ partial[t] = "stored" /\ t \in Checked => Content \in finals

(* What an AtomicWriter commits is the whole content, each piece once,     *)
(* wherever it crashed and was resumed before.                             *)
CommittedIsWhole == afinal \in {NoFile, Content}

(* Interrupted writes of both kinds, resumed, store the content or nothing.  *)
ResumedIsWhole == RefusedOnlyIfTorn /\ CommittedIsWhole
=============================================================================
