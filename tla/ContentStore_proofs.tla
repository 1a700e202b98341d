------------------------- MODULE ContentStore_proofs -------------------------
(***************************************************************************)
(* Theorems about ContentStore, for any number of workers, objects and     *)
(* inodes, any fsync policy and any set of calls.                          *)
(***************************************************************************)
EXTENDS ContentStore, TLAPS

LEMMA BytesType == \A h \in Hashes : Bytes(h) \in Contents
  BY DEF Bytes, Contents

LEMMA StoredType == \A o \in Ops, h \in Hashes : Stored(o, h) \in Contents
  BY BytesType DEF Stored, Contents

(* Init establishes the types. *)
LEMMA TypeInit == Init => TypeOK
  <1> SUFFICES ASSUME Init PROVE TypeOK
    OBVIOUS
  <1>1. killed \in BOOLEAN
    BY Zenon DEF Init
  <1> QED
    BY <1>1, StoreAssumption DEF Init, TypeOK, Slots, Contents, Steps, Ops

(* A step of a call, by any worker, preserves the types. *)
LEMMA TypeProgress ==
  ASSUME TypeOK, NEW w \in Workers, Progress(w)
  PROVE  TypeOK'
  <1> USE DEF Slots, Steps, Ops
  <1>1. CASE CheckDedup(w)
    BY <1>1 DEF TypeOK, CheckDedup, Ack, Goto, names, durable, observed
  <1>2. CASE CheckExists(w)
    BY <1>2 DEF TypeOK, CheckExists, Ack, Goto, names, durable, observed
  <1>3. CASE UpdateDedup(w)
    BY <1>3 DEF TypeOK, UpdateDedup, Ack, Goto, names, durable
  <1>4. CASE CreateTemp(w)
    BY <1>4 DEF TypeOK, CreateTemp, Goto, observed, Contents
  <1>5. CASE FillTemp(w)
    <2>1. Stored(op[w], obj[w]) \in Contents
      BY StoredType DEF TypeOK
    <2>2. bg' \subseteq [by : Workers, ino : Inodes, bytes : Contents]
      BY <1>5, <2>1 DEF TypeOK, FillTemp
    <2>3. QED
      BY <1>5, <2>2 DEF TypeOK, FillTemp, Goto, names, durable, observed
  <1>6. CASE SyncFile(w)
    BY <1>6 DEF TypeOK, SyncFile, Goto, names, observed
  <1>7. CASE Rename(w)
    BY <1>7 DEF TypeOK, Rename, Goto, names, durable, observed
  <1>8. CASE CleanupTemp(w)
    BY <1>8 DEF TypeOK, CleanupTemp, Goto, durable, observed
  <1>9. CASE SyncDirectory(w)
    BY <1>9 DEF TypeOK, SyncDirectory, Ack, Goto, names, observed
  <1> QED
    BY <1>1, <1>2, <1>3, <1>4, <1>5, <1>6, <1>7, <1>8, <1>9 DEF Progress

(* Every other step preserves the types. *)
LEMMA TypeStep ==
  ASSUME TypeOK, [Next]_vars
  PROVE  TypeOK'
  <1> USE DEF Slots, Steps
  <1>1. ASSUME NEW w \in Workers, Start(w) PROVE TypeOK'
    BY <1>1, StoreAssumption
    DEF TypeOK, Start, Goto, names, durable, Ops
  <1>2. ASSUME NEW w \in Workers, Delete(w) PROVE TypeOK'
    BY <1>2, StoreAssumption DEF TypeOK, Delete, durable, worker
  <1>3. ASSUME NEW w \in Workers, HashMismatch(w) PROVE TypeOK'
    BY <1>3 DEF TypeOK, HashMismatch, Goto, names, durable, observed
  <1>4. ASSUME NEW w \in Workers, IoError(w) PROVE TypeOK'
    BY <1>4 DEF TypeOK, IoError, Goto, names, durable, observed, Contents
  <1>5. ASSUME NEW b \in bg, BackgroundWrite(b) PROVE TypeOK'
    BY <1>5 DEF TypeOK, BackgroundWrite, names, durable, worker, observed
  <1>6. CASE Kill
    BY <1>6 DEF TypeOK, Kill, LoseMemory, names, durable, observed
  <1>7. CASE PowerLoss
    BY <1>7 DEF TypeOK, PowerLoss, LoseMemory, durable, observed
  <1>8. ASSUME NEW h \in Hashes, WritebackDir(h) PROVE TypeOK'
    BY <1>8 DEF TypeOK, WritebackDir, names, worker, observed
  <1>9. ASSUME NEW h \in Hashes, RecoverTemp(h) PROVE TypeOK'
    BY <1>9 DEF TypeOK, RecoverTemp, worker, observed
  <1>10. ASSUME NEW i \in Inodes, WritebackData(i) PROVE TypeOK'
    BY <1>10 DEF TypeOK, WritebackData, names, worker, observed
  <1>11. CASE RecoveryDone
    BY <1>11 DEF TypeOK, RecoveryDone, names, durable, worker, observed
  <1>12. CASE UNCHANGED vars
    BY <1>12 DEF TypeOK, vars, names, durable, worker, observed
  <1> QED
    BY <1>1, <1>2, <1>3, <1>4, <1>5, <1>6, <1>7, <1>8, <1>9, <1>10, <1>11,
       <1>12, TypeProgress DEF Next

(* The store is well typed; in particular a worker about to write or sync has
   a file open, so the inodes that pending writes name are real. *)
THEOREM TypeCorrect == Spec => []TypeOK
  BY TypeInit, TypeStep, PTL DEF Spec

-----------------------------------------------------------------------------
(* The last writer to touch <hash>.tmp removes it: from its creation until its
   rename or its cleanup, some non-streaming call on that object is between
   File::create and rename. *)
OwnsTemp(w, h) ==
    /\ obj[w] = h /\ op[w] # "stream"
    /\ pc[w] \in {"fill", "sync", "rename", "cleanup"}

TempOwned ==
    mode = "up" =>
        \A h \in Hashes : tmp[h] # None => \E w \in Workers : OwnsTemp(w, h)

LEMMA TempOwnedStep ==
  ASSUME "io" \notin Faults, TypeOK, TempOwned, [Next]_vars
  PROVE  TempOwned'
  <1> SUFFICES ASSUME mode' = "up", NEW h \in Hashes, tmp'[h] # None
               PROVE  \E v \in Workers : OwnsTemp(v, h)'
    BY DEF TempOwned
  <1> DEFINE Kept == /\ mode = "up" /\ tmp[h] # None
                     /\ \A v \in Workers : OwnsTemp(v, h) => OwnsTemp(v, h)'
  <1>0. ASSUME Kept PROVE \E v \in Workers : OwnsTemp(v, h)'
    BY <1>0 DEF TempOwned
  <1>1. ASSUME NEW w \in Workers, Start(w) PROVE Kept
    BY <1>1 DEF TypeOK, Start, Goto, OwnsTemp, names
  <1>2. ASSUME NEW w \in Workers, Delete(w) PROVE Kept
    BY <1>2 DEF TypeOK, Delete, OwnsTemp, worker
  <1>3. ASSUME NEW w \in Workers, HashMismatch(w) PROVE Kept
    BY <1>3 DEF TypeOK, HashMismatch, Goto, OwnsTemp, names
  <1>4. ASSUME NEW w \in Workers, IoError(w) PROVE Kept
    BY <1>4 DEF TypeOK, IoError, Goto, OwnsTemp, names
  <1>5. ASSUME NEW b \in bg, BackgroundWrite(b) PROVE Kept
    BY <1>5 DEF BackgroundWrite, OwnsTemp, worker, names
  <1>6. ASSUME NEW w \in Workers, Progress(w)
        PROVE  \E v \in Workers : OwnsTemp(v, h)'
    <2>1. CASE CheckDedup(w)
      BY <1>0, <1>6, <2>1
      DEF TypeOK, CheckDedup, Ack, Goto, OwnsTemp, names
    <2>2. CASE CheckExists(w)
      BY <1>0, <1>6, <2>2
      DEF TypeOK, CheckExists, Ack, Goto, OwnsTemp, names
    <2>3. CASE UpdateDedup(w)
      BY <1>0, <1>6, <2>3
      DEF TypeOK, UpdateDedup, Ack, Goto, OwnsTemp, names
    <2>4. CASE CreateTemp(w)
      <3>1. CASE op[w] # "stream" /\ obj[w] = h
        BY <1>6, <2>4, <3>1 DEF TypeOK, CreateTemp, Goto, OwnsTemp
      <3>2. CASE op[w] = "stream" \/ obj[w] # h
        <4>1. Kept
          BY <1>6, <2>4, <3>2 DEF TypeOK, CreateTemp, Goto, OwnsTemp
        <4> QED BY <1>0, <4>1
      <3> QED BY <3>1, <3>2
    <2>5. CASE FillTemp(w)
      BY <1>0, <1>6, <2>5 DEF TypeOK, FillTemp, Goto, OwnsTemp, names
    <2>6. CASE SyncFile(w)
      BY <1>0, <1>6, <2>6 DEF TypeOK, SyncFile, Goto, OwnsTemp, names
    <2>7. CASE Rename(w)
      BY <1>0, <1>6, <2>7 DEF TypeOK, Rename, Goto, OwnsTemp, names
    <2>8. CASE CleanupTemp(w)
      BY <1>0, <1>6, <2>8 DEF TypeOK, CleanupTemp, Goto, OwnsTemp
    <2>9. CASE SyncDirectory(w)
      BY <1>0, <1>6, <2>9
      DEF TypeOK, SyncDirectory, Ack, Goto, OwnsTemp, names
    <2> QED
      BY <1>6, <2>1, <2>2, <2>3, <2>4, <2>5, <2>6, <2>7, <2>8, <2>9
      DEF Progress
  <1>7. ~ (Kill \/ PowerLoss)
    BY DEF Kill, PowerLoss, LoseMemory
  <1>8. ASSUME NEW g \in Hashes, WritebackDir(g) PROVE Kept
    BY <1>8 DEF WritebackDir, OwnsTemp, worker, names
  <1>9. ASSUME NEW g \in Hashes, RecoverTemp(g) PROVE FALSE
    BY <1>9 DEF RecoverTemp
  <1>10. ASSUME NEW i \in Inodes, WritebackData(i) PROVE Kept
    BY <1>10 DEF WritebackData, OwnsTemp, worker, names
  <1>11. ASSUME RecoveryDone PROVE FALSE
    BY <1>11 DEF RecoveryDone, names
  <1>12. ASSUME UNCHANGED vars PROVE Kept
    BY <1>12 DEF vars, OwnsTemp, worker, names
  <1> QED
    BY <1>0, <1>1, <1>2, <1>3, <1>4, <1>5, <1>6, <1>7, <1>8, <1>9, <1>10,
       <1>11, <1>12 DEF Next

(* Without I/O errors on the temporary file itself, no interleaving of writers,
   renames that fail, kills or power losses leaves a <hash>.tmp behind for a
   store that is up and idle: recover() only ever matters at start-up. *)
THEOREM NoTempLeftBehind ==
  ASSUME "io" \notin Faults
  PROVE  Spec => []NoTempLeft
  <1>1. Init => TempOwned
    BY DEF Init, TempOwned
  <1>2. TypeOK /\ TempOwned /\ [Next]_vars => TempOwned'
    BY TempOwnedStep
  <1>3. TypeOK /\ TempOwned => NoTempLeft
    BY DEF TempOwned, NoTempLeft, OwnsTemp
  <1> QED
    BY <1>1, <1>2, <1>3, TypeCorrect, PTL DEF Spec

-----------------------------------------------------------------------------
(* Whose bytes an inode may hold.  An object claims the inodes that its two
   names have, on disk or in memory, and those its writers have open; no two
   objects claim the same, so that nothing but the object's own bytes, none, or
   a part of them gets into its file. *)
Claims(i, h) ==
    \/ i = final[h] \/ i = tmp[h] \/ i = dfinal[h] \/ i = dtmp[h]
    \/ \E w \in Workers : fd[w] = i /\ obj[w] = h

OpenFiles ==
    \A w \in Workers :
        /\ fd[w] # None <=> \/ pc[w] \in {"fill", "sync"}
                            \/ op[w] = "stream" /\ pc[w] \in {"exists", "rename"}
        /\ op[w] = "stream" => pc[w] # "dedup"

OneObject == \A i \in Inodes : \A g, h \in Hashes : Claims(i, g) /\ Claims(i, h) => g = h

Harmless(h) == {Bytes(h), Empty, Garbled}

ContentsHarmless ==
    \A i \in Inodes : \A h \in Hashes : Claims(i, h) =>
        /\ data[i] \in Harmless(h) /\ ddata[i] \in Harmless(h)
        /\ \A b \in bg : b.ino = i => b.bytes \in Harmless(h)

StrayInv == TypeOK /\ OpenFiles /\ OneObject /\ ContentsHarmless

LEMMA FreeUnclaimed ==
    ASSUME NEW i \in Inodes, Free(i), NEW h \in Hashes
    PROVE  ~ Claims(i, h)
  BY DEF Free, Claims

LEMMA NoneNoInode == \A i \in Inodes : i # None
  BY StoreAssumption

(* No step gives an object an inode of another: it keeps inodes it has, or
   takes a free one, which is empty. *)
NoNewClaim == \A i \in Inodes : \A h \in Hashes : Claims(i, h)' => Claims(i, h)

NewClaim(w) ==
    \E j \in Inodes :
        /\ Free(j) /\ data'[j] = Empty /\ ddata'[j] = Empty
        /\ \A i \in Inodes : i # j => ddata'[i] = ddata[i] /\ data'[i] = data[i]
        /\ \A i \in Inodes : \A h \in Hashes :
              Claims(i, h)' => Claims(i, h) \/ (i = j /\ h = obj[w])

LEMMA ClaimsProgress ==
    ASSUME StrayInv, NEW w \in Workers, Progress(w)
    PROVE  (NoNewClaim \/ NewClaim(w)) /\ OpenFiles'
<1> USE NoneNoInode DEF StrayInv
<1>1. CASE CheckDedup(w)
  <2>1. NoNewClaim
    BY <1>1 DEF CheckDedup, NoNewClaim, Claims, names, durable
  <2>2. OpenFiles'
    BY <1>1 DEF TypeOK, CheckDedup, Ack, Goto, OpenFiles
  <2> QED BY <2>1, <2>2
<1>2. CASE CheckExists(w)
  <2>1. NoNewClaim
    BY <1>2 DEF TypeOK, CheckExists, NoNewClaim, Claims, names, durable
  <2>2. OpenFiles'
    BY <1>2 DEF TypeOK, CheckExists, Ack, Goto, OpenFiles, Ops, Steps
  <2> QED BY <2>1, <2>2
<1>3. CASE UpdateDedup(w)
  BY <1>3 DEF TypeOK, UpdateDedup, Ack, Goto, OpenFiles, NoNewClaim, Claims, names, durable
<1>4. CASE CreateTemp(w)
  <2>1. OpenFiles'
    BY <1>4 DEF TypeOK, CreateTemp, Goto, OpenFiles, Slots
  <2>2. CASE op[w] # "stream" /\ tmp[obj[w]] # None
    <3>1. NoNewClaim
      BY <1>4, <2>2 DEF TypeOK, CreateTemp, NoNewClaim, Claims
    <3> QED BY <2>1, <3>1
  <2>3. CASE op[w] = "stream" \/ tmp[obj[w]] = None
    <3>1. PICK j \in Inodes :
            /\ Free(j)
            /\ data' = [data EXCEPT ![j] = Empty]
            /\ ddata' = [ddata EXCEPT ![j] = Empty]
            /\ fd' = [fd EXCEPT ![w] = j]
            /\ tmp' = IF op[w] = "stream" THEN tmp ELSE [tmp EXCEPT ![obj[w]] = j]
      BY <1>4, <2>3 DEF CreateTemp
    <3>2. /\ data'[j] = Empty /\ ddata'[j] = Empty
          /\ \A i \in Inodes : i # j => ddata'[i] = ddata[i] /\ data'[i] = data[i]
      BY <3>1 DEF TypeOK
    <3>3. ASSUME NEW i \in Inodes, NEW h \in Hashes, Claims(i, h)'
          PROVE  Claims(i, h) \/ (i = j /\ h = obj[w])
      BY <1>4, <3>1, <3>3 DEF TypeOK, CreateTemp, Claims
    <3> QED BY <2>1, <3>1, <3>2, <3>3 DEF NewClaim
  <2> QED BY <2>2, <2>3
<1>5. CASE FillTemp(w)
  BY <1>5 DEF TypeOK, FillTemp, Goto, OpenFiles, NoNewClaim, Claims, names, durable
<1>6. CASE SyncFile(w)
  BY <1>6 DEF TypeOK, SyncFile, Goto, OpenFiles, NoNewClaim, Claims, names, Steps
<1>7. CASE Rename(w)
  <2>1. NoNewClaim
    BY <1>7 DEF TypeOK, Rename, NoNewClaim, Claims, names, durable
  <2>2. OpenFiles'
    BY <1>7 DEF TypeOK, Rename, Goto, OpenFiles, Ops, Steps
  <2> QED BY <2>1, <2>2
<1>8. CASE CleanupTemp(w)
  BY <1>8 DEF TypeOK, CleanupTemp, Goto, OpenFiles, NoNewClaim, Claims, durable
<1>9. CASE SyncDirectory(w)
  BY <1>9 DEF TypeOK, SyncDirectory, Ack, Goto, OpenFiles, NoNewClaim, Claims, names
<1> QED
  BY <1>1, <1>2, <1>3, <1>4, <1>5, <1>6, <1>7, <1>8, <1>9 DEF Progress

LEMMA ClaimsStep ==
    ASSUME StrayInv, [Next]_vars
    PROVE  (NoNewClaim \/ \E w \in Workers : NewClaim(w)) /\ OpenFiles'
<1> USE NoneNoInode DEF StrayInv
<1>1. ASSUME NEW w \in Workers, Start(w) PROVE NoNewClaim /\ OpenFiles'
  <2>1. fd[w] = None
    BY <1>1 DEF Start, OpenFiles
  <2>2. NoNewClaim
    BY <1>1, <2>1 DEF TypeOK, Start, NoNewClaim, Claims, names, durable
  <2>3. OpenFiles'
    BY <1>1, <2>1 DEF TypeOK, Start, Goto, OpenFiles
  <2> QED BY <2>2, <2>3
<1>2. ASSUME NEW w \in Workers, Delete(w) PROVE NoNewClaim /\ OpenFiles'
  BY <1>2 DEF TypeOK, Delete, NoNewClaim, Claims, OpenFiles, durable, worker
<1>3. ASSUME NEW w \in Workers, HashMismatch(w) PROVE NoNewClaim /\ OpenFiles'
  BY <1>3 DEF TypeOK, HashMismatch, Goto, NoNewClaim, Claims, OpenFiles, names, durable
<1>4. ASSUME NEW w \in Workers, IoError(w) PROVE NoNewClaim /\ OpenFiles'
  <2>1. NoNewClaim
    BY <1>4 DEF TypeOK, IoError, NoNewClaim, Claims, names, durable
  <2>2. OpenFiles'
    BY <1>4 DEF TypeOK, IoError, Goto, OpenFiles, Steps
  <2> QED BY <2>1, <2>2
<1>5. ASSUME NEW b \in bg, BackgroundWrite(b) PROVE NoNewClaim /\ OpenFiles'
  BY <1>5 DEF BackgroundWrite, NoNewClaim, Claims, OpenFiles, names, durable, worker
<1>6. CASE Kill
  BY <1>6 DEF TypeOK, Kill, LoseMemory, NoNewClaim, Claims, OpenFiles, names, durable
<1>7. CASE PowerLoss
  BY <1>7 DEF TypeOK, PowerLoss, LoseMemory, NoNewClaim, Claims, OpenFiles, durable
<1>8. ASSUME NEW h \in Hashes, WritebackDir(h) PROVE NoNewClaim /\ OpenFiles'
  BY <1>8 DEF TypeOK, WritebackDir, NoNewClaim, Claims, OpenFiles, names, worker
<1>9. ASSUME NEW h \in Hashes, RecoverTemp(h) PROVE NoNewClaim /\ OpenFiles'
  BY <1>9 DEF TypeOK, RecoverTemp, NoNewClaim, Claims, OpenFiles, worker
<1>10. ASSUME NEW i \in Inodes, WritebackData(i) PROVE NoNewClaim /\ OpenFiles'
  BY <1>10 DEF WritebackData, NoNewClaim, Claims, OpenFiles, names, worker
<1>11. CASE RecoveryDone
  BY <1>11 DEF RecoveryDone, NoNewClaim, Claims, OpenFiles, names, durable, worker
<1>12. CASE UNCHANGED vars
  BY <1>12 DEF vars, NoNewClaim, Claims, OpenFiles, names, durable, worker
<1> QED
  BY <1>1, <1>2, <1>3, <1>4, <1>5, <1>6, <1>7, <1>8, <1>9, <1>10, <1>11, <1>12,
     ClaimsProgress DEF Next

LEMMA OneObjectStep ==
    ASSUME StrayInv, [Next]_vars
    PROVE  OneObject'
<1>1. CASE NoNewClaim
  BY <1>1 DEF StrayInv, OneObject, NoNewClaim
<1>2. ASSUME NEW w \in Workers, NewClaim(w) PROVE OneObject'
  <2>1. PICK j \in Inodes :
          /\ Free(j)
          /\ \A i \in Inodes : \A h \in Hashes :
                Claims(i, h)' => Claims(i, h) \/ (i = j /\ h = obj[w])
    BY <1>2 DEF NewClaim
  <2>2. \A h \in Hashes : ~ Claims(j, h)
    BY <2>1, FreeUnclaimed
  <2> QED BY <2>1, <2>2 DEF StrayInv, OneObject
<1> QED BY <1>1, <1>2, ClaimsStep

(* Writes are handed to the pool for open files only. *)
LEMMA PendingStep ==
    ASSUME [Next]_vars
    PROVE  \A b \in bg' : b \in bg \/ \E w \in Workers : b.ino = fd[w]
<1>1. ASSUME NEW w \in Workers, Progress(w) PROVE bg' \subseteq bg \/ FillTemp(w)
  BY <1>1 DEF Progress, CheckDedup, CheckExists, UpdateDedup, CreateTemp, SyncFile, Rename,
              CleanupTemp, SyncDirectory
<1>2. ASSUME NEW w \in Workers, FillTemp(w) PROVE \A b \in bg' : b \in bg \/ b.ino = fd[w]
  BY <1>2 DEF FillTemp
<1>3. ASSUME NEW w \in Workers, Start(w) \/ Delete(w) \/ HashMismatch(w) \/ IoError(w) PROVE bg' \subseteq bg
  BY <1>3 DEF Start, Delete, HashMismatch, IoError
<1>4. ASSUME NEW b \in bg, BackgroundWrite(b) PROVE bg' \subseteq bg
  BY <1>4 DEF BackgroundWrite
<1>5. CASE Kill \/ PowerLoss \/ RecoveryDone \/ UNCHANGED vars
  BY <1>5 DEF Kill, PowerLoss, LoseMemory, RecoveryDone, vars
<1>6. ASSUME NEW h \in Hashes, WritebackDir(h) \/ RecoverTemp(h) PROVE bg' \subseteq bg
  BY <1>6 DEF WritebackDir, RecoverTemp
<1>7. ASSUME NEW i \in Inodes, WritebackData(i) PROVE bg' \subseteq bg
  BY <1>7 DEF WritebackData
<1> QED BY <1>1, <1>2, <1>3, <1>4, <1>5, <1>6, <1>7 DEF Next

(* What a step puts into an inode that is claimed before and after. *)
ContentsKept(i, h) ==
    /\ data'[i] \in Harmless(h) /\ ddata'[i] \in Harmless(h)
    /\ \A b \in bg' : b.ino = i => b.bytes \in Harmless(h)

LEMMA ContentsStep ==
    ASSUME StrayInv, [Next]_vars, NEW i \in Inodes, NEW h \in Hashes, Claims(i, h)
    PROVE  ContentsKept(i, h)
<1> USE DEF StrayInv
<1>1. /\ data[i] \in Harmless(h) /\ ddata[i] \in Harmless(h)
      /\ \A b \in bg : b.ino = i => b.bytes \in Harmless(h)
  BY DEF ContentsHarmless
<1>2. Empty \in Harmless(h) /\ Garbled \in Harmless(h)
  BY DEF Harmless
<1>3. data \in [Inodes -> Contents] /\ ddata \in [Inodes -> Contents]
  BY DEF TypeOK
<1>4. \A w \in Workers : fd[w] = i => obj[w] = h
  BY DEF OneObject, Claims, TypeOK
<1> HIDE DEF StrayInv
<1>5. CASE UNCHANGED <<data, ddata, bg>>
  BY <1>1, <1>5 DEF ContentsKept
<1>6. ASSUME NEW w \in Workers, CreateTemp(w) PROVE ContentsKept(i, h)
  <2>1. bg' = bg /\ (data'[i] = data[i] \/ data'[i] = Empty) /\ (ddata'[i] = ddata[i] \/ ddata'[i] = Empty)
    BY <1>3, <1>6 DEF CreateTemp
  <2> QED BY <1>1, <1>2, <2>1 DEF ContentsKept
<1>7. ASSUME NEW w \in Workers, FillTemp(w) PROVE ContentsKept(i, h)
  <2>1. /\ UNCHANGED <<data, ddata>>
        /\ bg' = bg \cup {[by |-> w, ino |-> fd[w], bytes |-> Stored(op[w], obj[w])]}
    BY <1>7 DEF FillTemp, durable
  <2>2. fd[w] = i => Stored(op[w], obj[w]) \in Harmless(h)
    BY <1>4 DEF Stored, Harmless
  <2> QED BY <1>1, <2>1, <2>2 DEF ContentsKept
<1>8. ASSUME NEW w \in Workers, SyncFile(w) PROVE ContentsKept(i, h)
  <2>1. bg' = bg /\ data' = data /\ (ddata'[i] = ddata[i] \/ ddata'[i] = data[i])
    BY <1>3, <1>8 DEF SyncFile
  <2> QED BY <1>1, <2>1 DEF ContentsKept
<1>9. ASSUME NEW w \in Workers, IoError(w) PROVE ContentsKept(i, h)
  <2>1. UNCHANGED <<ddata, bg>> /\ (data'[i] = data[i] \/ data'[i] = Garbled)
    BY <1>3, <1>9 DEF IoError, durable
  <2> QED BY <1>1, <1>2, <2>1 DEF ContentsKept
<1>10. ASSUME NEW b \in bg, BackgroundWrite(b) PROVE ContentsKept(i, h)
  <2>1. ddata' = ddata /\ bg' \subseteq bg /\ (data'[i] = data[i] \/ (b.ino = i /\ data'[i] = b.bytes))
    BY <1>3, <1>10 DEF BackgroundWrite, durable
  <2> QED BY <1>1, <2>1 DEF ContentsKept
<1>11. CASE Kill \/ PowerLoss
  <2>1. ddata' = ddata /\ bg' = {} /\ (data' = data \/ data' = ddata)
    BY <1>11 DEF Kill, PowerLoss, LoseMemory, durable
  <2> QED BY <1>1, <2>1 DEF ContentsKept
<1>12. ASSUME NEW j \in Inodes, WritebackData(j) PROVE ContentsKept(i, h)
  <2>1. UNCHANGED <<data, bg>> /\ (ddata'[i] = ddata[i] \/ ddata'[i] = data[i])
    BY <1>3, <1>12 DEF WritebackData
  <2> QED BY <1>1, <2>1 DEF ContentsKept
<1>13. ASSUME NEW w \in Workers, \/ Start(w) \/ Delete(w) \/ CheckDedup(w) \/ CheckExists(w) \/ UpdateDedup(w)
                                 \/ Rename(w) \/ CleanupTemp(w) \/ SyncDirectory(w) \/ HashMismatch(w)
       PROVE  ContentsKept(i, h)
  BY <1>5, <1>13 DEF Start, Delete, CheckDedup, CheckExists, UpdateDedup, Rename, CleanupTemp,
                     SyncDirectory, HashMismatch, durable
<1>14. ASSUME NEW g \in Hashes, WritebackDir(g) \/ RecoverTemp(g) PROVE ContentsKept(i, h)
  BY <1>5, <1>14 DEF WritebackDir, RecoverTemp
<1>15. CASE RecoveryDone \/ UNCHANGED vars
  BY <1>5, <1>15 DEF RecoveryDone, vars, durable
<1> QED
  BY <1>6, <1>7, <1>8, <1>9, <1>10, <1>11, <1>12, <1>13, <1>14, <1>15 DEF Next, Progress

LEMMA StrayStep ==
    ASSUME StrayInv, [Next]_vars
    PROVE  StrayInv'
<1>1. TypeOK' /\ OpenFiles' /\ OneObject'
  BY TypeStep, ClaimsStep, OneObjectStep DEF StrayInv
<1>2. ASSUME NEW i \in Inodes, NEW h \in Hashes, Claims(i, h)' PROVE ContentsKept(i, h)
  <2>1. CASE Claims(i, h)
    BY <2>1, ContentsStep
  <2>2. CASE ~ Claims(i, h)
    <3>1. PICK w \in Workers : NewClaim(w)
      BY <1>2, <2>2, ClaimsStep DEF NoNewClaim
    <3>2. Free(i) /\ data'[i] = Empty /\ ddata'[i] = Empty
      BY <1>2, <2>2, <3>1 DEF NewClaim
    <3>3. \A b \in bg' : b.ino # i
      BY <3>2, PendingStep DEF Free
    <3> QED BY <3>2, <3>3 DEF ContentsKept, Harmless
  <2> QED BY <2>1, <2>2
<1>3. ContentsHarmless'
  BY <1>2 DEF ContentsHarmless, ContentsKept
<1> QED BY <1>1, <1>3 DEF StrayInv

LEMMA StrayInit == Init => StrayInv
<1> SUFFICES ASSUME Init PROVE StrayInv
  OBVIOUS
<1>1. TypeOK
  BY TypeInit
<1>2. \A i \in Inodes : \A h \in Hashes : ~ Claims(i, h)
  BY NoneNoInode DEF Init, Claims
<1>3. OpenFiles
  BY DEF Init, OpenFiles
<1> QED BY <1>1, <1>2, <1>3 DEF StrayInv, OneObject, ContentsHarmless

LEMMA StraysNowhere == StrayInv => NoForeignContent
  BY DEF StrayInv, NoForeignContent, ContentsHarmless, Claims, Harmless, TypeOK, Slots

-----------------------------------------------------------------------------
(* As long as nothing crashes, every file that an object's names have or that
   one of its writers has open holds the whole object, or is about to: a writer
   is at it, or the bytes are on their way. *)
Live(i, h) ==
    \/ i = final[h] \/ i = tmp[h]
    \/ \E w \in Workers : fd[w] = i /\ obj[w] = h

Finishing(i, h) ==
    \/ data[i] = Bytes(h)
    \/ \E w \in Workers : pc[w] = "fill" /\ fd[w] = i
    \/ \E b \in bg : b.ino = i /\ b.bytes = Bytes(h)

OwnBytesPending(i, h) == \A b \in bg : b.ino = i => b.bytes = Bytes(h)

FinishingInv ==
    ~ killed =>
        /\ mode = "up"
        /\ \A i \in Inodes : \A h \in Hashes :
              Live(i, h) => Finishing(i, h) /\ OwnBytesPending(i, h)

LEMMA LiveClaims ==
    ASSUME NEW i, NEW h, Live(i, h)
    PROVE  Claims(i, h)
  BY DEF Live, Claims

(* The steps that leave the contents alone and no file to be filled. *)
Quiet ==
    /\ UNCHANGED <<data, bg>>
    /\ \A v \in Workers : pc[v] = "fill" => pc'[v] = "fill" /\ fd'[v] = fd[v]

LEMMA QuietFinishing ==
    ASSUME Quiet, NEW i, NEW h, Finishing(i, h) /\ OwnBytesPending(i, h)
    PROVE  (Finishing(i, h) /\ OwnBytesPending(i, h))'
  BY DEF Quiet, Finishing, OwnBytesPending

LEMMA LiveStep ==
    ASSUME StrayInv, [Next]_vars, ~ killed', mode = "up", NEW i \in Inodes, NEW h \in Hashes,
           Live(i, h)', ~ Live(i, h)
    PROVE  /\ Free(i)
           /\ \E w \in Workers : pc'[w] = "fill" /\ fd'[w] = i
<1> USE NoneNoInode
<1>1. ASSUME NEW w \in Workers, CreateTemp(w)
      PROVE  Free(i) /\ pc'[w] = "fill" /\ fd'[w] = i
  <2>1. CASE op[w] # "stream" /\ tmp[obj[w]] # None
    BY <1>1, <2>1 DEF StrayInv, TypeOK, CreateTemp, Live
  <2>2. CASE op[w] = "stream" \/ tmp[obj[w]] = None
    <3>1. PICK j \in Inodes :
            /\ Free(j)
            /\ fd' = [fd EXCEPT ![w] = j]
            /\ tmp' = IF op[w] = "stream" THEN tmp ELSE [tmp EXCEPT ![obj[w]] = j]
      BY <1>1, <2>2 DEF CreateTemp
    <3>2. i = j
      BY <1>1, <3>1 DEF StrayInv, TypeOK, CreateTemp, Live
    <3> QED BY <1>1, <3>1, <3>2 DEF StrayInv, TypeOK, CreateTemp, Goto
  <2> QED BY <2>1, <2>2
<1>2. ASSUME NEW w \in Workers, Start(w) PROVE FALSE
  <2>1. fd[w] = None
    BY <1>2 DEF Start, StrayInv, OpenFiles
  <2> QED BY <1>2, <2>1 DEF StrayInv, TypeOK, Start, Live, names
<1>3. ASSUME NEW w \in Workers, Delete(w) PROVE FALSE
  BY <1>3 DEF StrayInv, TypeOK, Delete, Live, worker
<1>4. ASSUME NEW w \in Workers, \/ CheckDedup(w) \/ CheckExists(w) \/ UpdateDedup(w) \/ FillTemp(w)
                                 \/ SyncFile(w) \/ SyncDirectory(w) \/ HashMismatch(w)
      PROVE  FALSE
  <2>1. UNCHANGED <<final, tmp, obj>> /\ \A v \in Workers : fd'[v] = fd[v] \/ fd'[v] = None
    BY <1>4 DEF StrayInv, TypeOK, CheckDedup, CheckExists, UpdateDedup, FillTemp, SyncFile,
                SyncDirectory, HashMismatch, names
  <2> QED BY <2>1 DEF Live
<1>5. ASSUME NEW w \in Workers, Rename(w) PROVE FALSE
  BY <1>5 DEF StrayInv, TypeOK, Rename, Live, names
<1>6. ASSUME NEW w \in Workers, CleanupTemp(w) PROVE FALSE
  BY <1>6 DEF StrayInv, TypeOK, CleanupTemp, Live
<1>7. ASSUME NEW w \in Workers, IoError(w) PROVE FALSE
  BY <1>7 DEF StrayInv, TypeOK, IoError, Live, names
<1>8. ASSUME NEW b \in bg, BackgroundWrite(b) PROVE FALSE
  BY <1>8 DEF BackgroundWrite, Live, names, worker
<1>9. ~ (Kill \/ PowerLoss)
  BY DEF Kill, PowerLoss, LoseMemory
<1>10. ASSUME NEW g \in Hashes, WritebackDir(g) PROVE FALSE
  BY <1>10 DEF WritebackDir, Live, names, worker
<1>11. ASSUME NEW g \in Hashes, RecoverTemp(g) PROVE FALSE
  BY <1>11 DEF RecoverTemp
<1>12. ASSUME NEW j \in Inodes, WritebackData(j) PROVE FALSE
  BY <1>12 DEF WritebackData, Live, names, worker
<1>13. ~ RecoveryDone
  BY DEF RecoveryDone
<1>14. ~ UNCHANGED vars
  BY DEF vars, Live, names, worker
<1> QED
  BY <1>1, <1>2, <1>3, <1>4, <1>5, <1>6, <1>7, <1>8, <1>9, <1>10, <1>11, <1>12, <1>13, <1>14
  DEF Next, Progress

LEMMA FinishingStep ==
    ASSUME "io" \notin Faults, ~ Compressed, StrayInv, FinishingInv, [Next]_vars
    PROVE  FinishingInv'
<1> SUFFICES ASSUME ~ killed' PROVE /\ mode' = "up"
                                    /\ \A i \in Inodes : \A h \in Hashes :
                                          Live(i, h)' => (Finishing(i, h) /\ OwnBytesPending(i, h))'
  BY DEF FinishingInv
<1>1. ~ killed /\ mode = "up" /\ mode' = "up"
  <2>1. ~ (Kill \/ PowerLoss)
    BY DEF Kill, PowerLoss, LoseMemory
  <2>2. killed' = killed /\ (mode' = mode \/ mode' = "up")
    BY <2>1 DEF Next, Progress, vars, observed, Ack, Start, Delete, CheckDedup, CheckExists, UpdateDedup,
       CreateTemp, FillTemp, SyncFile, Rename, CleanupTemp, SyncDirectory, HashMismatch, IoError,
       BackgroundWrite, WritebackDir, WritebackData, RecoverTemp, RecoveryDone
  <2> QED BY <2>2 DEF FinishingInv
<1>2. ASSUME NEW i \in Inodes, NEW h \in Hashes, Live(i, h)', ~ Live(i, h)
      PROVE  (Finishing(i, h) /\ OwnBytesPending(i, h))'
  <2>1. Free(i) /\ \E w \in Workers : pc'[w] = "fill" /\ fd'[w] = i
    BY <1>1, <1>2, LiveStep
  <2>2. \A b \in bg' : b.ino # i
    BY <2>1, PendingStep DEF Free
  <2> QED BY <2>1, <2>2 DEF Finishing, OwnBytesPending
<1>3. ASSUME NEW i \in Inodes, NEW h \in Hashes, Live(i, h)
      PROVE  (Finishing(i, h) /\ OwnBytesPending(i, h))'
  <2>1. Finishing(i, h) /\ OwnBytesPending(i, h)
    BY <1>1, <1>3 DEF FinishingInv
  <2>2. \A w \in Workers : fd[w] = i => obj[w] = h
    BY <1>3, LiveClaims DEF StrayInv, OneObject, Claims, TypeOK
  <2>3. data \in [Inodes -> Contents] /\ pc \in [Workers -> Steps] /\ fd \in [Workers -> Slots]
        /\ op \in [Workers -> Ops] /\ obj \in [Workers -> Hashes]
    BY DEF StrayInv, TypeOK
  <2>4. CASE Quiet
    BY <2>1, <2>4, QuietFinishing
  <2>5. ASSUME NEW w \in Workers, CreateTemp(w) PROVE (Finishing(i, h) /\ OwnBytesPending(i, h))'
    <3>1. /\ pc[w] = "create" /\ pc' = [pc EXCEPT ![w] = "fill"] /\ bg' = bg
          /\ \E j \in Inodes : data' = [data EXCEPT ![j] = Empty] /\ fd' = [fd EXCEPT ![w] = j]
      <4>1. tmp[obj[w]] # None => tmp[obj[w]] \in Inodes
        BY DEF StrayInv, TypeOK, Slots
      <4> QED BY <2>5, <4>1 DEF CreateTemp, Goto
    <3>2. PICK j \in Inodes : data' = [data EXCEPT ![j] = Empty] /\ fd' = [fd EXCEPT ![w] = j]
      BY <3>1
    <3>3. /\ pc'[w] = "fill" /\ fd'[w] = j
          /\ \A v \in Workers : pc[v] = "fill" => pc'[v] = "fill" /\ fd'[v] = fd[v]
      BY <2>3, <3>1, <3>2
    <3>4. i = j \/ data'[i] = data[i]
      BY <2>3, <3>2
    <3> QED BY <2>1, <3>1, <3>3, <3>4 DEF Finishing, OwnBytesPending
  <2>6. ASSUME NEW w \in Workers, FillTemp(w) PROVE (Finishing(i, h) /\ OwnBytesPending(i, h))'
    <3> DEFINE new == [by |-> w, ino |-> fd[w], bytes |-> Stored(op[w], obj[w])]
    <3>1. data' = data /\ bg' = bg \cup {new} /\ pc[w] = "fill"
          /\ \A v \in Workers : v # w => pc'[v] = pc[v] /\ fd'[v] = fd[v]
      BY <2>3, <2>6 DEF FillTemp, Goto
    <3>2. new.ino = fd[w] /\ (fd[w] = i => new.bytes = Bytes(h))
      BY <2>2 DEF Stored
    <3> HIDE DEF new
    <3>3. OwnBytesPending(i, h)'
      BY <2>1, <3>1, <3>2 DEF OwnBytesPending
    <3>4. CASE fd[w] = i
      BY <3>1, <3>2, <3>4, <3>3 DEF Finishing
    <3>5. CASE fd[w] # i
      BY <2>1, <3>1, <3>5, <3>3 DEF Finishing
    <3> QED BY <3>4, <3>5
  <2>7. ASSUME NEW b \in bg, BackgroundWrite(b) PROVE (Finishing(i, h) /\ OwnBytesPending(i, h))'
    <3>1. data' = [data EXCEPT ![b.ino] = b.bytes] /\ bg' = bg \ {b} /\ UNCHANGED <<pc, fd>>
      BY <2>7 DEF BackgroundWrite, worker
    <3>2. CASE b.ino = i
      BY <2>1, <2>3, <3>1, <3>2 DEF Finishing, OwnBytesPending
    <3>3. CASE b.ino # i
      BY <2>1, <2>3, <3>1, <3>3 DEF Finishing, OwnBytesPending
    <3> QED BY <3>2, <3>3
  <2>8. ASSUME NEW w \in Workers, \/ CheckDedup(w) \/ CheckExists(w) \/ UpdateDedup(w) \/ SyncFile(w)
                                   \/ Rename(w) \/ CleanupTemp(w) \/ SyncDirectory(w) \/ HashMismatch(w)
        PROVE  Quiet
    BY <2>3, <2>8 DEF Quiet, Goto, Ack, CheckDedup, CheckExists, UpdateDedup, SyncFile, Rename, CleanupTemp,
       SyncDirectory, HashMismatch
  <2>9. ASSUME NEW w \in Workers, Start(w) \/ Delete(w) \/ IoError(w) PROVE Quiet
    BY <2>3, <2>9 DEF Quiet, Goto, Start, Delete, IoError, worker
  <2>10. ~ (Kill \/ PowerLoss)
    BY DEF Kill, PowerLoss, LoseMemory
  <2>11. ASSUME NEW g \in Hashes, WritebackDir(g) \/ RecoverTemp(g) PROVE Quiet
    BY <2>11 DEF Quiet, WritebackDir, RecoverTemp, worker
  <2>12. ASSUME NEW j \in Inodes, WritebackData(j) PROVE Quiet
    BY <2>12 DEF Quiet, WritebackData, worker
  <2>13. CASE RecoveryDone \/ UNCHANGED vars
    <3>1. Quiet
      BY <2>13 DEF Quiet, RecoveryDone, vars, worker
    <3> QED BY <2>4, <3>1
  <2> QED
    BY <2>4, <2>5, <2>6, <2>7, <2>8, <2>9, <2>10, <2>11, <2>12, <2>13 DEF Next, Progress
<1> QED BY <1>1, <1>2, <1>3

(* No interleaving of the calls, no crash and no failure of a system call puts
   one object's bytes under another's name (NoForeignContent): the bytes a
   worker, the pool or recover() can bring into a file are those of the one
   object that claims its inode. *)
THEOREM NoForeignBytes == Spec => []NoForeignContent
<1>1. StrayInv /\ [Next]_vars => StrayInv'
  BY StrayStep
<1> QED BY <1>1, StrayInit, StraysNowhere, PTL DEF Spec

(* NoStrayBytes: beside that, as long as nothing crashes a file that is not
   whole has its writer still at work, however the writers of one object
   collide on its temporary file.  A write that fails may leave it short, and
   write_individual_optimized stores other bytes when it compresses. *)
THEOREM NoBytesAstray ==
    ASSUME "io" \notin Faults, ~ Compressed
    PROVE  Spec => []NoStrayBytes
<1>1. Init => StrayInv /\ FinishingInv
  <2>1. Init => FinishingInv
    <3> SUFFICES ASSUME Init PROVE FinishingInv
      OBVIOUS
    <3>1. \A i \in Inodes : \A h \in Hashes : ~ Live(i, h)
      BY NoneNoInode DEF Init, Live
    <3>2. mode = "up"
      BY DEF Init
    <3> QED BY <3>1, <3>2 DEF FinishingInv
  <2> QED BY <2>1, StrayInit
<1>2. StrayInv /\ FinishingInv /\ [Next]_vars => StrayInv' /\ FinishingInv'
  BY StrayStep, FinishingStep
<1>3. StrayInv /\ FinishingInv => NoStrayBytes
  <2> SUFFICES ASSUME StrayInv, FinishingInv PROVE NoStrayBytes
    OBVIOUS
  <2>1. \A h \in Hashes : final[h] # None => final[h] \in Inodes
    BY DEF StrayInv, TypeOK, Slots
  <2>2. BrokenHasWriter
    BY <2>1 DEF FinishingInv, BrokenHasWriter, Live, Finishing
  <2> QED BY <2>2, StraysNowhere DEF NoStrayBytes
<1> QED BY <1>1, <1>2, <1>3, PTL DEF Spec

-----------------------------------------------------------------------------
(* With one writing worker for each object, and files synced before they are
   renamed, no crash and no failed call exposes an unfinished object.  A kill
   and a power loss may not both happen: recover() renames a file that only the
   page cache has whole (see the README). *)
Power == "power" \in Faults

OneWriterEach ==
    \A j, k \in Jobs : j.hash = k.hash /\ j.op # "delete" /\ k.op # "delete" => j.worker = k.worker

CompleteRun ==
    /\ ~ Compressed /\ should_fsync_file
    /\ Power => \A j \in Jobs : j.op = "stream" => Policy = "Always"
    /\ ~ ("kill" \in Faults /\ Power)
    /\ OneWriterEach

CallsInv ==
    \A w \in Workers : pc[w] # "idle" =>
        op[w] # "delete" /\ [worker |-> w, op |-> op[w], hash |-> obj[w]] \in Jobs

RecoveringInv ==
    mode = "recovering" =>
        /\ \A w \in Workers : pc[w] = "idle"
        /\ bg = {}
        /\ Power => data = ddata

PendingInv ==
    \A i \in Inodes : \A h \in Hashes : Claims(i, h) => OwnBytesPending(i, h)

Whole(i, h) == data[i] = Bytes(h) /\ (Power => ddata[i] = Bytes(h))

(* The object's file is whole, and nobody has it open or will truncate it. *)
Settled(i, h) == Whole(i, h) /\ i # tmp[h] /\ \A w \in Workers : fd[w] # i

VisibleInv ==
    \A h \in Hashes :
        /\ final[h] # None => Settled(final[h], h)
        /\ Power /\ dfinal[h] # None => Settled(dfinal[h], h) /\ dtmp[h] # dfinal[h]

(* What was written into a writer's file is in it, or still with the pool. *)
Written(w) == data[fd[w]] = Bytes(obj[w]) \/ \E b \in bg : b.by = w /\ b.ino = fd[w]

(* What a writer has made of its temporary file. *)
WriterInv ==
    \A w \in Workers :
        /\ pc[w] = "sync" => Written(w)
        /\ pc[w] = "rename" /\ op[w] # "stream" /\ tmp[obj[w]] # None => Whole(tmp[obj[w]], obj[w])
        /\ pc[w] \in {"exists", "rename"} /\ op[w] = "stream" => Whole(fd[w], obj[w])
        /\ op[w] # "stream" /\ fd[w] # None => tmp[obj[w]] = fd[w]
        /\ op[w] = "stream" /\ fd[w] # None => tmp[obj[w]] # fd[w]

CompleteInv == StrayInv /\ CallsInv /\ RecoveringInv /\ PendingInv /\ VisibleInv /\ WriterInv

(* What a call does is done by its own steps and by crashes. *)
OwnStep(w) == Start(w) \/ Progress(w) \/ HashMismatch(w) \/ IoError(w)

Crash == Kill \/ PowerLoss

LEMMA OthersLeave ==
    ASSUME TypeOK, [Next]_vars, NEW w \in Workers, ~ OwnStep(w), ~ Crash
    PROVE  pc'[w] = pc[w] /\ fd'[w] = fd[w] /\ op'[w] = op[w] /\ obj'[w] = obj[w]
<1>1. CASE UNCHANGED <<pc, fd, op, obj>>
  BY <1>1
<1>2. ASSUME NEW v \in Workers, v # w, Start(v)
      PROVE  pc'[w] = pc[w] /\ fd' = fd /\ op'[w] = op[w] /\ obj'[w] = obj[w]
  BY <1>2 DEF TypeOK, Start, Goto
<1>3. ASSUME NEW v \in Workers, v # w, Progress(v)
      PROVE  pc'[w] = pc[w] /\ fd'[w] = fd[w] /\ op' = op /\ obj' = obj
  BY <1>3 DEF TypeOK, Progress, Goto, Ack, CheckDedup, CheckExists, UpdateDedup, CreateTemp, FillTemp,
              SyncFile, Rename, CleanupTemp, SyncDirectory
<1>4. ASSUME NEW v \in Workers, v # w, HashMismatch(v) \/ IoError(v)
      PROVE  pc'[w] = pc[w] /\ fd'[w] = fd[w] /\ op' = op /\ obj' = obj
  BY <1>4 DEF TypeOK, HashMismatch, IoError, Goto
<1>5. ASSUME NEW v \in Workers, Delete(v) PROVE UNCHANGED <<pc, fd, op, obj>>
  BY <1>5 DEF Delete, worker
<1>6. ASSUME NEW b \in bg, BackgroundWrite(b) PROVE UNCHANGED <<pc, fd, op, obj>>
  BY <1>6 DEF BackgroundWrite, worker
<1>7. ASSUME NEW h \in Hashes, WritebackDir(h) \/ RecoverTemp(h) PROVE UNCHANGED <<pc, fd, op, obj>>
  BY <1>7 DEF WritebackDir, RecoverTemp, worker
<1>8. ASSUME NEW i \in Inodes, WritebackData(i) PROVE UNCHANGED <<pc, fd, op, obj>>
  BY <1>8 DEF WritebackData, worker
<1>9. RecoveryDone \/ UNCHANGED vars => UNCHANGED <<pc, fd, op, obj>>
  BY DEF RecoveryDone, vars, worker
<1> QED
  BY <1>1, <1>2, <1>3, <1>4, <1>5, <1>6, <1>7, <1>8, <1>9 DEF Next, OwnStep, Crash

(* What the pool still has to write. *)
LEMMA PoolStep ==
    ASSUME [Next]_vars, ~ Crash
    PROVE  \/ \E w \in Workers : FillTemp(w)
           \/ \E b \in bg : BackgroundWrite(b)
           \/ bg' = bg
<1>1. ASSUME NEW w \in Workers, Progress(w) PROVE bg' = bg \/ FillTemp(w)
  BY <1>1 DEF Progress, CheckDedup, CheckExists, UpdateDedup, CreateTemp, SyncFile, Rename,
              CleanupTemp, SyncDirectory
<1>2. ASSUME NEW w \in Workers, Start(w) \/ Delete(w) \/ HashMismatch(w) \/ IoError(w) PROVE bg' = bg
  BY <1>2 DEF Start, Delete, HashMismatch, IoError
<1>3. RecoveryDone \/ UNCHANGED vars => bg' = bg
  BY DEF RecoveryDone, vars
<1>4. ASSUME NEW h \in Hashes, WritebackDir(h) \/ RecoverTemp(h) PROVE bg' = bg
  BY <1>4 DEF WritebackDir, RecoverTemp
<1>5. ASSUME NEW i \in Inodes, WritebackData(i) PROVE bg' = bg
  BY <1>5 DEF WritebackData
<1> QED BY <1>1, <1>2, <1>3, <1>4, <1>5 DEF Next, Crash

(* Names: what a step makes of them. *)
Renamed(w, h) ==
    /\ Rename(w) /\ obj[w] = h
    /\ \/ op[w] = "stream" /\ final'[h] = fd[w] /\ tmp'[h] = tmp[h]
       \/ op[w] # "stream" /\ tmp[h] # None /\ final'[h] = tmp[h] /\ tmp'[h] = None

Recovered(h) == RecoverTemp(h) /\ final[h] = None /\ data[tmp[h]] = Bytes(h) /\ tmp[h] # None
                /\ final'[h] = tmp[h] /\ tmp'[h] = None

LEMMA FinalStep ==
    ASSUME TypeOK, [Next]_vars, ~ Crash, NEW h \in Hashes
    PROVE  \/ final'[h] = final[h]
           \/ final'[h] = None /\ \E w \in Workers : Delete(w)
           \/ \E w \in Workers : Renamed(w, h)
           \/ Recovered(h)
<1>1. ASSUME NEW w \in Workers, Progress(w) PROVE final' = final \/ Rename(w)
  BY <1>1 DEF Progress, CheckDedup, CheckExists, UpdateDedup, CreateTemp, FillTemp, SyncFile,
              CleanupTemp, SyncDirectory, names
<1>2. ASSUME NEW w \in Workers, Rename(w) PROVE final'[h] = final[h] \/ Renamed(w, h)
  BY <1>2 DEF TypeOK, Rename, Renamed, names
<1>3. ASSUME NEW w \in Workers, Start(w) \/ HashMismatch(w) \/ IoError(w) PROVE final' = final
  BY <1>3 DEF Start, HashMismatch, IoError, names
<1>4. ASSUME NEW w \in Workers, Delete(w) PROVE final'[h] = final[h] \/ final'[h] = None
  BY <1>4 DEF TypeOK, Delete
<1>5. RecoveryDone \/ UNCHANGED vars => final' = final
  BY DEF RecoveryDone, vars, names
<1>6. ASSUME NEW g \in Hashes, WritebackDir(g) PROVE final' = final
  BY <1>6 DEF WritebackDir, names
<1>7. ASSUME NEW g \in Hashes, RecoverTemp(g) PROVE final'[h] = final[h] \/ Recovered(h)
  BY <1>7 DEF TypeOK, RecoverTemp, Recovered
<1>8. ASSUME NEW i \in Inodes, WritebackData(i) PROVE final' = final
  BY <1>8 DEF WritebackData, names
<1>9. ASSUME NEW b \in bg, BackgroundWrite(b) PROVE final' = final
  BY <1>9 DEF BackgroundWrite, names
<1> QED BY <1>1, <1>2, <1>3, <1>4, <1>5, <1>6, <1>7, <1>8, <1>9 DEF Next, Crash

LEMMA TmpStep ==
    ASSUME TypeOK, [Next]_vars, ~ Crash, NEW h \in Hashes
    PROVE  \/ tmp'[h] = tmp[h]
           \/ tmp'[h] = None
           \/ \E w \in Workers : /\ CreateTemp(w) /\ obj[w] = h /\ op[w] # "stream" /\ tmp[h] = None
                                 /\ \E j \in Inodes : Free(j) /\ tmp'[h] = j /\ fd'[w] = j
<1>1. ASSUME NEW w \in Workers, CreateTemp(w)
      PROVE  \/ tmp'[h] = tmp[h]
             \/ /\ obj[w] = h /\ op[w] # "stream" /\ tmp[h] = None
                /\ \E j \in Inodes : Free(j) /\ tmp'[h] = j /\ fd'[w] = j
  BY <1>1 DEF TypeOK, CreateTemp
<1>2. ASSUME NEW w \in Workers, Progress(w) PROVE tmp'[h] = tmp[h] \/ tmp'[h] = None \/ CreateTemp(w)
  BY <1>2 DEF TypeOK, Progress, CheckDedup, CheckExists, UpdateDedup, FillTemp, SyncFile, Rename,
              CleanupTemp, SyncDirectory, names
<1>3. ASSUME NEW w \in Workers, Start(w) \/ Delete(w) \/ HashMismatch(w) \/ IoError(w) PROVE tmp' = tmp
  BY <1>3 DEF Start, Delete, HashMismatch, IoError, names
<1>4. RecoveryDone \/ UNCHANGED vars => tmp' = tmp
  BY DEF RecoveryDone, vars, names
<1>5. ASSUME NEW g \in Hashes, WritebackDir(g) PROVE tmp' = tmp
  BY <1>5 DEF WritebackDir, names
<1>6. ASSUME NEW g \in Hashes, RecoverTemp(g) PROVE tmp'[h] = tmp[h] \/ tmp'[h] = None
  BY <1>6 DEF TypeOK, RecoverTemp
<1>7. ASSUME NEW i \in Inodes, WritebackData(i) PROVE tmp' = tmp
  BY <1>7 DEF WritebackData, names
<1>8. ASSUME NEW b \in bg, BackgroundWrite(b) PROVE tmp' = tmp
  BY <1>8 DEF BackgroundWrite, names
<1> QED BY <1>1, <1>2, <1>3, <1>4, <1>5, <1>6, <1>7, <1>8 DEF Next, Crash

LEMMA DurableNames ==
    ASSUME TypeOK, [Next]_vars, NEW h \in Hashes
    PROVE  \/ dfinal'[h] = dfinal[h] /\ dtmp'[h] = dtmp[h]
           \/ dfinal'[h] = final[h] /\ dtmp'[h] = tmp[h] /\ ~ Crash
           \/ Recovered(h) /\ dfinal'[h] = tmp[h] /\ dtmp'[h] = None
<1>1. ASSUME NEW w \in Workers, Progress(w) PROVE UNCHANGED <<dfinal, dtmp>> \/ SyncDirectory(w)
  BY <1>1 DEF Progress, CheckDedup, CheckExists, UpdateDedup, CreateTemp, FillTemp, SyncFile, Rename,
              CleanupTemp, durable
<1>2. ASSUME NEW w \in Workers, SyncDirectory(w)
      PROVE  \/ dfinal'[h] = dfinal[h] /\ dtmp'[h] = dtmp[h]
             \/ dfinal'[h] = final[h] /\ dtmp'[h] = tmp[h] /\ ~ Crash
  <2>1. pc[w] = "syncdir" /\ killed' = killed /\ mode' = mode /\ dedup' = dedup /\ bg' = bg
    BY <1>2 DEF SyncDirectory, Ack, observed
  <2>2. \/ dfinal'[h] = dfinal[h] /\ dtmp'[h] = dtmp[h]
        \/ dfinal'[h] = final[h] /\ dtmp'[h] = tmp[h] /\ UNCHANGED <<final, tmp>>
    BY <1>2 DEF TypeOK, SyncDirectory, names
  <2> QED BY <2>1, <2>2 DEF Crash, Kill, PowerLoss, LoseMemory, durable
<1>3. ASSUME NEW w \in Workers, Start(w) \/ Delete(w) \/ HashMismatch(w) \/ IoError(w)
      PROVE  UNCHANGED <<dfinal, dtmp>>
  BY <1>3 DEF Start, Delete, HashMismatch, IoError, durable
<1>4. RecoveryDone \/ UNCHANGED vars \/ Crash => UNCHANGED <<dfinal, dtmp>>
  BY DEF RecoveryDone, vars, Crash, Kill, PowerLoss, LoseMemory, durable
<1>5. ASSUME NEW g \in Hashes, WritebackDir(g)
      PROVE  \/ dfinal'[h] = dfinal[h] /\ dtmp'[h] = dtmp[h]
             \/ dfinal'[h] = final[h] /\ dtmp'[h] = tmp[h] /\ ~ Crash
  BY <1>5 DEF TypeOK, WritebackDir, Crash, Kill, PowerLoss, LoseMemory, durable
<1>6. ASSUME NEW g \in Hashes, RecoverTemp(g)
      PROVE  \/ dfinal'[h] = dfinal[h] /\ dtmp'[h] = dtmp[h]
             \/ Recovered(h) /\ dfinal'[h] = tmp[h] /\ dtmp'[h] = None
  <2>1. CASE UNCHANGED <<dfinal, dtmp>>
    BY <2>1
  <2>2. CASE /\ final[g] = None /\ data[tmp[g]] = Bytes(g)
             /\ final' = [final EXCEPT ![g] = tmp[g]]
             /\ dfinal' = [dfinal EXCEPT ![g] = tmp[g]] /\ dtmp' = [dtmp EXCEPT ![g] = None]
    <3>1. CASE g = h
      <4>1. tmp[g] # None /\ tmp' = [tmp EXCEPT ![g] = None]
        BY <1>6 DEF RecoverTemp
      <4> QED BY <1>6, <2>2, <3>1, <4>1 DEF TypeOK, Recovered
    <3>2. CASE g # h
      BY <2>2, <3>2 DEF TypeOK
    <3> QED BY <3>1, <3>2
  <2> QED BY <1>6, <2>1, <2>2 DEF RecoverTemp
<1>7. ASSUME NEW i \in Inodes, WritebackData(i) PROVE UNCHANGED <<dfinal, dtmp>>
  BY <1>7 DEF WritebackData
<1>8. ASSUME NEW b \in bg, BackgroundWrite(b) PROVE UNCHANGED <<dfinal, dtmp>>
  BY <1>8 DEF BackgroundWrite, durable
<1> QED BY <1>1, <1>2, <1>3, <1>4, <1>5, <1>6, <1>7, <1>8 DEF Next, Crash

(* No two workers are at one object, nor at one file. *)
LEMMA Alone ==
    ASSUME CompleteRun, CallsInv, StrayInv
    PROVE  /\ \A v, w \in Workers : pc[v] # "idle" /\ pc[w] # "idle" /\ obj[v] = obj[w] => v = w
           /\ \A v, w \in Workers : fd[v] # None /\ fd[v] = fd[w] => v = w
           /\ \A w \in Workers : fd[w] # None => pc[w] # "idle" /\ fd[w] \in Inodes /\ Claims(fd[w], obj[w])
<1>1. \A v, w \in Workers : pc[v] # "idle" /\ pc[w] # "idle" /\ obj[v] = obj[w] => v = w
  <2> SUFFICES ASSUME NEW v \in Workers, NEW w \in Workers, pc[v] # "idle", pc[w] # "idle", obj[v] = obj[w]
               PROVE  v = w
    OBVIOUS
  <2>1. PICK j \in Jobs, k \in Jobs : /\ j = [worker |-> v, op |-> op[v], hash |-> obj[v]]
                                      /\ k = [worker |-> w, op |-> op[w], hash |-> obj[w]]
    BY DEF CallsInv
  <2>2. j.worker = v /\ k.worker = w /\ j.hash = k.hash /\ j.op # "delete" /\ k.op # "delete"
    BY <2>1 DEF CallsInv
  <2> QED BY <2>2 DEF CompleteRun, OneWriterEach
<1>2. \A w \in Workers : fd[w] # None => pc[w] # "idle" /\ fd[w] \in Inodes /\ Claims(fd[w], obj[w])
  BY DEF StrayInv, OpenFiles, TypeOK, Slots, Claims
<1>3. \A v, w \in Workers : fd[v] # None /\ fd[v] = fd[w] => v = w
  BY <1>1, <1>2 DEF StrayInv, OneObject, TypeOK
<1> QED BY <1>1, <1>2, <1>3

(* Crashes apart, a step changes the contents of a claimed inode only for the
   object's writer: it truncates or garbles the file it works on, syncs it,
   or the pool writes the object's bytes. *)
LEMMA DataStep ==
    ASSUME CompleteRun, StrayInv, PendingInv, Next, ~ (Kill \/ PowerLoss),
           NEW i \in Inodes, NEW h \in Hashes, Claims(i, h)
    PROVE  \/ data'[i] = data[i] /\ (ddata'[i] = ddata[i] \/ ddata'[i] = data[i])
           \/ data'[i] = Bytes(h) /\ ddata'[i] = ddata[i]
           \/ \E w \in Workers : /\ \/ CreateTemp(w) /\ op[w] # "stream" /\ tmp[obj[w]] = i
                                    \/ IoError(w) /\ pc[w] = "fill" /\ fd[w] = i
                                 /\ obj[w] = h
<1>1. data \in [Inodes -> Contents] /\ ddata \in [Inodes -> Contents]
  BY DEF StrayInv, TypeOK
<1>2. CASE UNCHANGED <<data, ddata>>
  BY <1>2
<1>3. ASSUME NEW w \in Workers, CreateTemp(w)
      PROVE  \/ data'[i] = data[i] /\ ddata'[i] = ddata[i]
             \/ CreateTemp(w) /\ op[w] # "stream" /\ tmp[obj[w]] = i /\ obj[w] = h
  <2>1. CASE op[w] # "stream" /\ tmp[obj[w]] # None
    <3>1. data' = [data EXCEPT ![tmp[obj[w]]] = Empty] /\ ddata' = ddata
      BY <1>3, <2>1 DEF CreateTemp
    <3>2. tmp[obj[w]] = i => obj[w] = h
      BY DEF StrayInv, OneObject, Claims, TypeOK
    <3> QED BY <1>1, <1>3, <2>1, <3>1, <3>2
  <2>2. CASE op[w] = "stream" \/ tmp[obj[w]] = None
    <3>1. PICK j \in Inodes : /\ Free(j)
                              /\ data' = [data EXCEPT ![j] = Empty]
                              /\ ddata' = [ddata EXCEPT ![j] = Empty]
      BY <1>3, <2>2 DEF CreateTemp
    <3>2. i # j
      BY <3>1, FreeUnclaimed
    <3> QED BY <1>1, <3>1, <3>2
  <2> QED BY <2>1, <2>2
<1>4. ASSUME NEW w \in Workers, SyncFile(w)
      PROVE  data'[i] = data[i] /\ (ddata'[i] = ddata[i] \/ ddata'[i] = data[i])
  BY <1>1, <1>4 DEF SyncFile
<1>5. ASSUME NEW w \in Workers, IoError(w)
      PROVE  ddata' = ddata /\ (data'[i] = data[i] \/ (pc[w] = "fill" /\ fd[w] = i /\ obj[w] = h))
  <2>1. fd[w] = i => obj[w] = h
    BY DEF StrayInv, OneObject, Claims, TypeOK
  <2> QED BY <1>1, <1>5, <2>1 DEF IoError, durable
<1>6. ASSUME NEW b \in bg, BackgroundWrite(b)
      PROVE  ddata' = ddata /\ (data'[i] = data[i] \/ data'[i] = Bytes(h))
  BY <1>1, <1>6 DEF BackgroundWrite, durable, PendingInv, OwnBytesPending
<1>7. ASSUME NEW j \in Inodes, WritebackData(j)
      PROVE  data' = data /\ (ddata'[i] = ddata[i] \/ ddata'[i] = data[i])
  BY <1>1, <1>7 DEF WritebackData
<1>8. ASSUME NEW w \in Workers, \/ Start(w) \/ Delete(w) \/ CheckDedup(w) \/ CheckExists(w) \/ UpdateDedup(w)
                                \/ FillTemp(w) \/ Rename(w) \/ CleanupTemp(w) \/ SyncDirectory(w)
                                \/ HashMismatch(w)
      PROVE  UNCHANGED <<data, ddata>>
  BY <1>8 DEF Start, Delete, CheckDedup, CheckExists, UpdateDedup, FillTemp, Rename, CleanupTemp,
              SyncDirectory, HashMismatch, durable
<1>9. ASSUME NEW g \in Hashes, WritebackDir(g) \/ RecoverTemp(g) PROVE UNCHANGED <<data, ddata>>
  BY <1>9 DEF WritebackDir, RecoverTemp
<1>10. RecoveryDone => UNCHANGED <<data, ddata>>
  BY DEF RecoveryDone, durable
<1> QED
  BY <1>2, <1>3, <1>4, <1>5, <1>6, <1>7, <1>8, <1>9, <1>10 DEF Next, Progress

LEMMA PendingOwn ==
    ASSUME CompleteRun, StrayInv, PendingInv, [Next]_vars
    PROVE  PendingInv'
<1> SUFFICES ASSUME NEW i \in Inodes, NEW h \in Hashes, Claims(i, h)'
             PROVE  OwnBytesPending(i, h)'
  BY DEF PendingInv
<1>1. CASE Claims(i, h)
  <2>1. OwnBytesPending(i, h)
    BY <1>1 DEF PendingInv
  <2>2. ASSUME NEW w \in Workers, FillTemp(w) PROVE OwnBytesPending(i, h)'
    <3>1. bg' = bg \cup {[by |-> w, ino |-> fd[w], bytes |-> Stored(op[w], obj[w])]}
      BY <2>2 DEF FillTemp
    <3>2. fd[w] = i => Stored(op[w], obj[w]) = Bytes(h)
      BY <1>1 DEF Stored, CompleteRun, StrayInv, OneObject, Claims, TypeOK
    <3> QED BY <2>1, <3>1, <3>2 DEF OwnBytesPending
  <2>3. CASE \A w \in Workers : ~ FillTemp(w)
    <3>1. bg' \subseteq bg
      <4>1. Crash => bg' = {}
        BY DEF Crash, Kill, PowerLoss, LoseMemory
      <4> QED BY <2>3, <4>1, PoolStep DEF BackgroundWrite
    <3> QED BY <2>1, <3>1 DEF OwnBytesPending
  <2> QED BY <2>2, <2>3
<1>2. CASE ~ Claims(i, h)
  <2>1. Free(i)
    BY <1>2, ClaimsStep DEF NoNewClaim, NewClaim
  <2> QED BY <2>1, PendingStep DEF Free, OwnBytesPending
<1> QED BY <1>1, <1>2

LEMMA CallsStep ==
    ASSUME StrayInv, CallsInv, [Next]_vars
    PROVE  CallsInv'
<1> SUFFICES ASSUME NEW w \in Workers, pc'[w] # "idle"
             PROVE  (op[w] # "delete" /\ [worker |-> w, op |-> op[w], hash |-> obj[w]] \in Jobs)'
  BY DEF CallsInv
<1>1. CASE Start(w)
  <2>1. PICK j \in Jobs : /\ j.worker = w /\ j.op # "delete"
                          /\ op' = [op EXCEPT ![w] = j.op] /\ obj' = [obj EXCEPT ![w] = j.hash]
    BY <1>1 DEF Start
  <2>2. op'[w] = j.op /\ obj'[w] = j.hash
    BY <2>1 DEF StrayInv, TypeOK
  <2>3. j = [worker |-> j.worker, op |-> j.op, hash |-> j.hash]
    BY StoreAssumption
  <2> QED BY <2>1, <2>2, <2>3
<1>2. CASE ~ Start(w)
  <2>1. ~ Crash
    BY DEF Crash, Kill, PowerLoss, LoseMemory
  <2>2. pc[w] # "idle" /\ op'[w] = op[w] /\ obj'[w] = obj[w]
    <3>1. CASE OwnStep(w)
      BY <1>2, <3>1 DEF StrayInv, TypeOK, OwnStep, Progress, CheckDedup, CheckExists, UpdateDedup, CreateTemp,
         FillTemp, SyncFile, Rename, CleanupTemp, SyncDirectory, HashMismatch, IoError
    <3>2. CASE ~ OwnStep(w)
      BY <2>1, <3>2, OthersLeave DEF StrayInv
    <3> QED BY <3>1, <3>2
  <2> QED BY <2>2 DEF CallsInv
<1> QED BY <1>1, <1>2

LEMMA RecoveringStep ==
    ASSUME CompleteRun, StrayInv, RecoveringInv, [Next]_vars
    PROVE  RecoveringInv'
<1> SUFFICES ASSUME mode' = "recovering"
             PROVE  (\A w \in Workers : pc'[w] = "idle") /\ bg' = {} /\ (Power => data' = ddata')
  BY DEF RecoveringInv, Power
<1>1. CASE Crash
  BY <1>1 DEF Crash, Kill, PowerLoss, LoseMemory, CompleteRun, Power, durable
<1>2. CASE ~ Crash
  <2>1. mode = "recovering"
    <3>1. ASSUME NEW w \in Workers, OwnStep(w) \/ Delete(w) PROVE mode' = mode
      BY <3>1 DEF OwnStep, Progress, Start, CheckDedup, CheckExists, UpdateDedup, CreateTemp,
         FillTemp, SyncFile, Rename, CleanupTemp, SyncDirectory, HashMismatch, IoError, Delete
    <3>2. ASSUME NEW b \in bg, BackgroundWrite(b) PROVE mode' = mode
      BY <3>2 DEF BackgroundWrite
    <3>3. ASSUME NEW h \in Hashes, WritebackDir(h) \/ RecoverTemp(h) PROVE mode' = mode
      BY <3>3 DEF WritebackDir, RecoverTemp
    <3>4. ASSUME NEW i \in Inodes, WritebackData(i) PROVE mode' = mode
      BY <3>4 DEF WritebackData
    <3>5. ~ RecoveryDone /\ (UNCHANGED vars => mode' = mode)
      BY DEF RecoveryDone, vars
    <3> QED BY <1>2, <3>1, <3>2, <3>3, <3>4, <3>5 DEF Next, OwnStep, Crash
  <2>2. /\ \A w \in Workers : pc[w] = "idle"
        /\ bg = {}
        /\ Power => data = ddata
    BY <2>1 DEF RecoveringInv
  <2>3. \A w \in Workers : ~ OwnStep(w) /\ ~ Delete(w)
    BY <2>1, <2>2 DEF OwnStep, Progress, Start, CheckDedup, CheckExists, UpdateDedup, CreateTemp,
       FillTemp, SyncFile, Rename, CleanupTemp, SyncDirectory, HashMismatch, IoError, Delete
  <2>4. ASSUME NEW h \in Hashes, WritebackDir(h) \/ RecoverTemp(h)
        PROVE  UNCHANGED <<pc, bg, data, ddata>>
    BY <2>4 DEF WritebackDir, RecoverTemp, worker
  <2>5. ASSUME NEW i \in Inodes, WritebackData(i)
        PROVE  UNCHANGED <<pc, bg>> /\ (Power => data' = data /\ ddata' = ddata)
    BY <2>2, <2>5 DEF WritebackData, worker, Power
  <2>6. ~ RecoveryDone /\ (UNCHANGED vars => UNCHANGED <<pc, bg, data, ddata>>)
    BY DEF RecoveryDone, vars, worker, durable
  <2> QED BY <1>2, <2>2, <2>3, <2>4, <2>5, <2>6 DEF Next, OwnStep, Crash
<1> QED BY <1>1, <1>2

-----------------------------------------------------------------------------
(* Whole files stay whole while their object's writer does not work on them. *)
LEMMA WholeStep ==
    ASSUME CompleteRun, CompleteInv, [Next]_vars, ~ Crash, NEW i \in Inodes, NEW h \in Hashes,
           Claims(i, h), Whole(i, h),
           \A w \in Workers : obj[w] = h =>
               /\ ~ (CreateTemp(w) /\ op[w] # "stream" /\ tmp[obj[w]] = i)
               /\ ~ (IoError(w) /\ pc[w] = "fill" /\ fd[w] = i)
    PROVE  Whole(i, h)'
<1>1. UNCHANGED vars => Whole(i, h)'
  BY DEF vars, durable, Whole, Power
<1>2. CASE Next
  <2>1. \/ data'[i] = data[i] /\ (ddata'[i] = ddata[i] \/ ddata'[i] = data[i])
        \/ data'[i] = Bytes(h) /\ ddata'[i] = ddata[i]
    BY <1>2, DataStep DEF Crash, CompleteInv
  <2> QED BY <2>1 DEF Whole, Power
<1> QED BY <1>1, <1>2

LEMMA SettledStep ==
    ASSUME CompleteRun, CompleteInv, [Next]_vars, ~ Crash, NEW i \in Inodes, NEW h \in Hashes,
           Claims(i, h), Settled(i, h)
    PROVE  Settled(i, h)'
<1>1. Whole(i, h) /\ i # tmp[h] /\ \A w \in Workers : fd[w] # i
  BY DEF Settled
<1>2. TypeOK
  BY DEF CompleteInv, StrayInv
<1>3. Whole(i, h)'
  BY <1>1, WholeStep
<1>4. i # tmp'[h]
  <2>1. \A j \in Inodes : Free(j) => j # i
    BY FreeUnclaimed
  <2> QED BY <1>1, <1>2, <2>1, TmpStep, NoneNoInode
<1>5. ASSUME NEW w \in Workers PROVE fd'[w] # i
  <2>1. CASE CreateTemp(w)
    <3>1. CASE op[w] # "stream" /\ tmp[obj[w]] # None
      <4>1. fd'[w] = tmp[obj[w]]
        BY <1>2, <2>1, <3>1 DEF CreateTemp, TypeOK
      <4>2. tmp[obj[w]] = i => obj[w] = h
        BY DEF CompleteInv, StrayInv, OneObject, Claims, TypeOK
      <4> QED BY <1>1, <4>1, <4>2
    <3>2. CASE op[w] = "stream" \/ tmp[obj[w]] = None
      <4>1. \E j \in Inodes : Free(j) /\ fd'[w] = j
        BY <1>2, <2>1, <3>2 DEF CreateTemp, TypeOK
      <4> QED BY <4>1, FreeUnclaimed
    <3> QED BY <3>1, <3>2
  <2>2. CASE ~ CreateTemp(w)
    <3>1. fd'[w] = fd[w] \/ fd'[w] = None
      <4>1. CASE OwnStep(w)
        BY <1>2, <2>2, <4>1 DEF TypeOK, OwnStep, Progress, Start, CheckDedup, CheckExists, UpdateDedup,
           FillTemp, SyncFile, Rename, CleanupTemp, SyncDirectory, HashMismatch, IoError
      <4>2. CASE ~ OwnStep(w)
        BY <1>2, <4>2, OthersLeave
      <4> QED BY <4>1, <4>2
    <3> QED BY <1>1, <3>1, NoneNoInode
  <2> QED BY <2>1, <2>2
<1> QED BY <1>3, <1>4, <1>5 DEF Settled

(* What is newly visible was made whole before. *)
LEMMA NewlyVisible ==
    ASSUME CompleteRun, CompleteInv, [Next]_vars, ~ Crash, NEW h \in Hashes,
           NEW i, i = final'[h], i # final[h], i # None
    PROVE  i \in Inodes /\ Claims(i, h) /\ Settled(i, h)'
<1> USE DEF CompleteInv
<1>1. TypeOK
  BY DEF StrayInv
<1>2. /\ \A v, w \in Workers : fd[v] # None /\ fd[v] = fd[w] => v = w
      /\ \A v, w \in Workers : pc[v] # "idle" /\ pc[w] # "idle" /\ obj[v] = obj[w] => v = w
      /\ \A w \in Workers : fd[w] # None => pc[w] # "idle" /\ fd[w] \in Inodes /\ Claims(fd[w], obj[w])
  BY Alone
<1>3. ASSUME NEW w \in Workers, Renamed(w, h)
      PROVE  i \in Inodes /\ Claims(i, h) /\ Settled(i, h)'
  <2>1. /\ obj[w] = h /\ pc[w] = "rename" /\ UNCHANGED <<data, ddata>>
        /\ \A v \in Workers : v # w => fd'[v] = fd[v]
    BY <1>1, <1>3 DEF Renamed, Rename, TypeOK, durable
  <2>2. CASE op[w] = "stream"
    <3>1. i = fd[w] /\ tmp'[h] = tmp[h] /\ fd'[w] = None
      BY <1>1, <1>3, <2>2 DEF Renamed, Rename, TypeOK
    <3>2. Whole(fd[w], h) /\ fd[w] # None /\ tmp[h] # fd[w]
      BY <2>1, <2>2 DEF WriterInv, StrayInv, OpenFiles
    <3>4. \A v \in Workers : fd'[v] # fd[w]
      BY <1>2, <2>1, <3>1, <3>2
    <3>5. Settled(i, h)'
      BY <2>1, <3>1, <3>2, <3>4 DEF Settled, Whole, Power
    <3> QED BY <1>2, <2>1, <3>1, <3>2, <3>5
  <2>3. CASE op[w] # "stream"
    <3>1. i = tmp[h] /\ tmp'[h] = None /\ tmp[h] # None /\ tmp[h] \in Inodes
      BY <1>1, <1>3, <2>3 DEF Renamed, TypeOK, Slots
    <3>2. Whole(tmp[h], h)
      BY <2>1, <2>3, <3>1 DEF WriterInv
    <3>3. fd[w] = None /\ fd'[w] = fd[w]
      BY <1>1, <1>3, <2>1, <2>3 DEF Renamed, Rename, TypeOK, StrayInv, OpenFiles
    <3>4. \A v \in Workers : fd[v] # tmp[h]
      <4> SUFFICES ASSUME NEW v \in Workers, fd[v] = tmp[h] PROVE FALSE
        OBVIOUS
      <4>1. pc[v] # "idle" /\ Claims(fd[v], obj[v])
        BY <1>2, <3>1
      <4>2. obj[v] = h
        BY <1>1, <3>1, <4>1 DEF StrayInv, OneObject, Claims, TypeOK
      <4> QED BY <1>2, <2>1, <3>1, <3>3, <4>1, <4>2
    <3>5. \A v \in Workers : fd'[v] # tmp[h]
      BY <2>1, <3>3, <3>4
    <3>6. Settled(i, h)'
      BY <2>1, <3>1, <3>2, <3>5 DEF Settled, Whole, Power
    <3> QED BY <3>1, <3>6 DEF Claims
  <2> QED BY <2>2, <2>3
<1>4. ASSUME Recovered(h)
      PROVE  i \in Inodes /\ Claims(i, h) /\ Settled(i, h)'
  <2>1. /\ i = tmp[h] /\ tmp'[h] = None /\ tmp[h] # None /\ tmp[h] \in Inodes
        /\ data[tmp[h]] = Bytes(h) /\ UNCHANGED <<data, ddata, pc, fd>> /\ mode = "recovering"
    BY <1>1, <1>4 DEF Recovered, RecoverTemp, TypeOK, Slots, worker
  <2>2. (Power => data = ddata) /\ \A w \in Workers : fd[w] = None
    BY <2>1 DEF RecoveringInv, StrayInv, OpenFiles
  <2>3. Settled(i, h)'
    BY <2>1, <2>2 DEF Settled, Whole, Power
  <2> QED BY <2>1, <2>3 DEF Claims
<1> QED BY <1>1, <1>3, <1>4, FinalStep

LEMMA VisibleStep ==
    ASSUME CompleteRun, CompleteInv, [Next]_vars
    PROVE  VisibleInv'
<1> SUFFICES ASSUME NEW h \in Hashes
             PROVE  /\ final'[h] # None => Settled(final[h], h)'
                    /\ Power /\ dfinal'[h] # None => Settled(dfinal[h], h)' /\ dtmp'[h] # dfinal'[h]
  BY DEF VisibleInv, Power
<1>1. TypeOK
  BY DEF CompleteInv, StrayInv
<1>2. /\ final[h] # None => Settled(final[h], h)
      /\ Power /\ dfinal[h] # None => Settled(dfinal[h], h) /\ dtmp[h] # dfinal[h]
  BY DEF CompleteInv, VisibleInv
<1>3. /\ final[h] # None => final[h] \in Inodes /\ Claims(final[h], h)
      /\ dfinal[h] # None => dfinal[h] \in Inodes /\ Claims(dfinal[h], h)
  BY <1>1 DEF TypeOK, Slots, Claims
<1>4. CASE PowerLoss
  <2>1. /\ Power /\ final' = dfinal /\ tmp' = dtmp /\ data' = ddata /\ UNCHANGED <<dfinal, dtmp, ddata>>
        /\ \A w \in Workers : fd'[w] = None
    BY <1>4 DEF PowerLoss, LoseMemory, durable, Power
  <2>2. dfinal[h] # None => Settled(dfinal[h], h)' /\ dtmp[h] # dfinal[h]
    BY <1>2, <2>1 DEF Settled, Whole, Power
  <2> QED BY <2>1, <2>2
<1>5. CASE Kill
  <2>1. ~ Power /\ UNCHANGED <<final, tmp, data>> /\ \A w \in Workers : fd'[w] = None
    BY <1>5 DEF Kill, LoseMemory, names, CompleteRun
  <2> QED BY <1>2, <2>1 DEF Settled, Whole, Power
<1>6. CASE ~ Crash
  <2>1. ASSUME final'[h] # None
        PROVE  Settled(final[h], h)' /\ final'[h] \in Inodes
    <3>1. CASE final'[h] = final[h]
      <4>1. PICK i \in Inodes : i = final[h] /\ Claims(i, h) /\ Settled(i, h)
        BY <1>2, <1>3, <2>1, <3>1
      <4>2. Settled(i, h)'
        BY <1>6, <4>1, SettledStep
      <4> QED BY <3>1, <4>1, <4>2
    <3>2. CASE final'[h] # final[h]
      BY <1>6, <2>1, <3>2, NewlyVisible
    <3> QED BY <3>1, <3>2
  <2>2. ASSUME Power, dfinal'[h] # None
        PROVE  Settled(dfinal[h], h)' /\ dtmp'[h] # dfinal'[h]
    <3>1. CASE dfinal'[h] = dfinal[h] /\ dtmp'[h] = dtmp[h]
      <4>1. PICK i \in Inodes : i = dfinal[h] /\ Claims(i, h) /\ Settled(i, h)
        BY <1>2, <1>3, <2>2, <3>1
      <4>2. Settled(i, h)'
        BY <1>6, <4>1, SettledStep
      <4> QED BY <1>2, <2>2, <3>1, <4>1, <4>2
    <3>2. CASE dfinal'[h] = final[h] /\ dtmp'[h] = tmp[h]
      <4>1. PICK i \in Inodes : i = final[h] /\ Claims(i, h) /\ Settled(i, h)
        BY <1>2, <1>3, <2>2, <3>2
      <4>2. Settled(i, h)' /\ i # tmp[h]
        BY <1>6, <4>1, SettledStep DEF Settled
      <4> QED BY <3>2, <4>1, <4>2
    <3>3. CASE Recovered(h) /\ dfinal'[h] = tmp[h] /\ dtmp'[h] = None
      <4>1. final'[h] = dfinal'[h] /\ final'[h] # None
        BY <2>2, <3>3 DEF Recovered
      <4>2. PICK i : i = final'[h]
        OBVIOUS
      <4>3. Settled(i, h)'
        BY <2>1, <4>1, <4>2
      <4> QED BY <3>3, <4>1, <4>2, <4>3
    <3> QED BY <1>1, <3>1, <3>2, <3>3, DurableNames
  <2> QED BY <2>1, <2>2
<1> QED BY <1>4, <1>5, <1>6 DEF Crash

(* While a writer is at an object nobody else touches its temporary file. *)
LEMMA TmpKept ==
    ASSUME CompleteRun, CompleteInv, [Next]_vars, ~ Crash, NEW w \in Workers, pc[w] # "idle", ~ OwnStep(w)
    PROVE  tmp'[obj[w]] = tmp[obj[w]]
<1> DEFINE h == obj[w]
<1>1. TypeOK /\ h \in Hashes
  BY DEF CompleteInv, StrayInv, TypeOK
<1>2. \A v \in Workers : pc[v] # "idle" /\ obj[v] = h => v = w
  BY Alone DEF CompleteInv
<1>3. ASSUME NEW v \in Workers, CreateTemp(v) \/ Rename(v) \/ CleanupTemp(v) PROVE obj[v] # h
  BY <1>2, <1>3 DEF CreateTemp, Rename, CleanupTemp, OwnStep, Progress
<1>4. ASSUME NEW v \in Workers, CreateTemp(v) \/ Rename(v) \/ CleanupTemp(v) PROVE tmp'[h] = tmp[h]
  <2>1. obj[v] # h
    BY <1>3, <1>4
  <2>2. UNCHANGED tmp \/ \E x : tmp' = [tmp EXCEPT ![obj[v]] = x]
    BY <1>4 DEF CreateTemp, Rename, CleanupTemp, names
  <2> QED BY <1>1, <2>1, <2>2 DEF TypeOK
<1>5. ASSUME NEW v \in Workers, \/ Start(v) \/ Delete(v) \/ HashMismatch(v) \/ IoError(v) \/ CheckDedup(v)
                                \/ CheckExists(v) \/ UpdateDedup(v) \/ FillTemp(v) \/ SyncFile(v)
                                \/ SyncDirectory(v)
      PROVE  tmp' = tmp
  BY <1>5 DEF Start, Delete, HashMismatch, IoError, CheckDedup, CheckExists, UpdateDedup, FillTemp, SyncFile,
              SyncDirectory, names
<1>6. RecoveryDone \/ UNCHANGED vars => tmp' = tmp
  BY DEF RecoveryDone, vars, names
<1>7. ASSUME NEW g \in Hashes PROVE ~ RecoverTemp(g)
  BY DEF RecoverTemp, CompleteInv, RecoveringInv
<1>8. ASSUME NEW g \in Hashes, WritebackDir(g) PROVE tmp' = tmp
  BY <1>8 DEF WritebackDir, names
<1>9. ASSUME NEW i \in Inodes, WritebackData(i) PROVE tmp' = tmp
  BY <1>9 DEF WritebackData, names
<1>10. ASSUME NEW b \in bg, BackgroundWrite(b) PROVE tmp' = tmp
  BY <1>10 DEF BackgroundWrite, names
<1> QED
  BY <1>4, <1>5, <1>6, <1>7, <1>8, <1>9, <1>10 DEF Next, Progress, Crash

LEMMA WrittenStep ==
    ASSUME CompleteRun, CompleteInv, [Next]_vars, ~ Crash, NEW w \in Workers, pc[w] = "sync", ~ OwnStep(w),
           Written(w)
    PROVE  Written(w)'
<1>1. TypeOK /\ fd[w] \in Inodes /\ Claims(fd[w], obj[w])
  BY DEF CompleteInv, StrayInv, TypeOK, Claims
<1>2. PICK i \in Inodes, h \in Hashes : i = fd[w] /\ h = obj[w]
  BY <1>1 DEF TypeOK
<1>3. fd'[w] = i /\ obj'[w] = h
  BY <1>1, <1>2, OthersLeave
<1>4. \A v \in Workers : pc[v] # "idle" /\ obj[v] = h => v = w
  BY <1>2, Alone DEF CompleteInv
<1>5. CASE UNCHANGED vars
  BY <1>5 DEF vars, worker, Written
<1>6. CASE Next
  <2>1. data'[i] = data[i] \/ data'[i] = Bytes(h)
    <3>1. ASSUME NEW v \in Workers, CreateTemp(v) \/ (IoError(v) /\ pc[v] = "fill"), obj[v] = h PROVE FALSE
      <4>1. pc[v] # "idle"
        BY <3>1 DEF CreateTemp
      <4> QED BY <1>4, <3>1, <4>1 DEF OwnStep, Progress
    <3>2. Claims(i, h)
      BY <1>1, <1>2
    <3> QED BY <1>6, <3>1, <3>2, DataStep DEF CompleteInv, Crash
  <2>2. CASE data[i] = Bytes(h)
    BY <1>3, <2>1, <2>2 DEF Written
  <2>3. CASE data[i] # Bytes(h)
    <3>1. PICK c \in bg : c.by = w /\ c.ino = i
      BY <1>2, <2>3 DEF Written
    <3>2. ASSUME NEW b \in bg, BackgroundWrite(b) PROVE Written(w)'
      <4>1. CASE b = c
        <5>1. b.bytes = Bytes(h)
          BY <1>1, <1>2, <3>1, <4>1 DEF CompleteInv, PendingInv, OwnBytesPending
        <5>2. data'[i] = Bytes(h)
          BY <1>1, <3>1, <3>2, <4>1, <5>1 DEF TypeOK, BackgroundWrite
        <5> QED BY <1>3, <5>2 DEF Written
      <4>2. CASE b # c
        BY <1>3, <3>1, <3>2, <4>2 DEF BackgroundWrite, Written
      <4> QED BY <4>1, <4>2
    <3>3. bg \subseteq bg' => Written(w)'
      BY <1>3, <3>1 DEF Written
    <3> QED BY <3>2, <3>3, PoolStep DEF FillTemp
  <2> QED BY <2>2, <2>3
<1> QED BY <1>5, <1>6

LEMMA WriterStep ==
    ASSUME CompleteRun, CompleteInv, [Next]_vars
    PROVE  WriterInv'
<1> SUFFICES ASSUME NEW w \in Workers
             PROVE  /\ pc'[w] = "sync" => Written(w)'
                    /\ pc'[w] = "rename" /\ op'[w] # "stream" /\ tmp'[obj'[w]] # None =>
                          Whole(tmp[obj[w]], obj[w])'
                    /\ pc'[w] \in {"exists", "rename"} /\ op'[w] = "stream" => Whole(fd[w], obj[w])'
                    /\ op'[w] # "stream" /\ fd'[w] # None => tmp'[obj'[w]] = fd'[w]
                    /\ op'[w] = "stream" /\ fd'[w] # None => tmp'[obj'[w]] # fd'[w]
  BY DEF WriterInv
<1>1. TypeOK
  BY DEF CompleteInv, StrayInv
<1>2. OpenFiles /\ (fd[w] # None => fd[w] \in Inodes /\ Claims(fd[w], obj[w]))
  BY <1>1 DEF CompleteInv, StrayInv, Claims, TypeOK, Slots
<1>3. /\ pc[w] = "sync" => Written(w)
      /\ pc[w] = "rename" /\ op[w] # "stream" /\ tmp[obj[w]] # None => Whole(tmp[obj[w]], obj[w])
      /\ pc[w] \in {"exists", "rename"} /\ op[w] = "stream" => Whole(fd[w], obj[w])
      /\ op[w] # "stream" /\ fd[w] # None => tmp[obj[w]] = fd[w]
      /\ op[w] = "stream" /\ fd[w] # None => tmp[obj[w]] # fd[w]
  BY DEF CompleteInv, WriterInv
<1>4. CASE Crash
  BY <1>4 DEF Crash, Kill, PowerLoss, LoseMemory
<1>5. CASE ~ Crash /\ ~ OwnStep(w)
  <2>1. pc'[w] = pc[w] /\ fd'[w] = fd[w] /\ op'[w] = op[w] /\ obj'[w] = obj[w]
    BY <1>1, <1>5, OthersLeave
  <2>2. CASE pc[w] = "idle"
    BY <1>2, <2>1, <2>2 DEF OpenFiles
  <2>3. CASE pc[w] # "idle"
    <3>1. tmp'[obj[w]] = tmp[obj[w]]
      BY <1>5, <2>3, TmpKept
    <3>2. ASSUME NEW i \in Inodes, Claims(i, obj[w]), Whole(i, obj[w]) PROVE Whole(i, obj[w])'
      <4>1. ASSUME NEW v \in Workers, obj[v] = obj[w], CreateTemp(v) \/ (IoError(v) /\ pc[v] = "fill")
            PROVE  FALSE
        <5>1. pc[v] # "idle"
          BY <4>1 DEF CreateTemp
        <5>2. v = w
          BY <2>3, <4>1, <5>1, Alone DEF CompleteInv
        <5> QED BY <1>5, <4>1, <5>2 DEF OwnStep, Progress
      <4>2. PICK h \in Hashes : h = obj[w]
        BY <1>1 DEF TypeOK
      <4>3. Whole(i, h)'
        BY <1>5, <3>2, <4>1, <4>2, WholeStep
      <4> QED BY <2>1, <4>2, <4>3 DEF Whole, Power
    <3>3. pc[w] = "sync" => Written(w)'
      BY <1>3, <1>5, WrittenStep
    <3>4. tmp[obj[w]] # None => tmp[obj[w]] \in Inodes /\ Claims(tmp[obj[w]], obj[w])
      BY <1>1 DEF TypeOK, Slots, Claims
    <3>5. pc[w] = "rename" /\ op[w] # "stream" /\ tmp[obj[w]] # None => Whole(tmp[obj[w]], obj[w])'
      BY <1>3, <2>1, <3>1, <3>2, <3>4 DEF Whole, Power
    <3>6. pc[w] \in {"exists", "rename"} /\ op[w] = "stream" => Whole(fd[w], obj[w])'
      BY <1>2, <1>3, <2>1, <3>2 DEF OpenFiles, Whole, Power
    <3> QED BY <1>3, <2>1, <3>1, <3>3, <3>5, <3>6
  <2> QED BY <2>2, <2>3
<1>6. CASE ~ Crash /\ OwnStep(w)
  <2>1. CASE Start(w)
    <3>1. fd'[w] = None /\ (pc'[w] \in {"dedup", "create"} \/ (pc'[w] = "exists" /\ op'[w] = "optimized"))
      BY <1>1, <1>2, <2>1 DEF Start, Goto, TypeOK, OpenFiles
    <3> QED BY <3>1
  <2>2. CASE CheckDedup(w)
    BY <1>1, <1>2, <2>2 DEF CheckDedup, Ack, Goto, TypeOK, OpenFiles
  <2>3. CASE CheckExists(w)
    <3>1. UNCHANGED <<op, obj, tmp, data, ddata>>
      BY <2>3 DEF CheckExists, names, durable
    <3>2. \/ pc'[w] \in {"idle", "index", "create"} /\ fd'[w] = None
          \/ pc'[w] = "rename" /\ op[w] = "stream" /\ fd'[w] = fd[w]
      BY <1>1, <1>2, <2>3 DEF CheckExists, Ack, Goto, TypeOK, OpenFiles
    <3>3. pc[w] = "exists"
      BY <2>3 DEF CheckExists
    <3> QED BY <1>3, <3>1, <3>2, <3>3 DEF Whole, Power
  <2>4. CASE UpdateDedup(w) \/ CleanupTemp(w) \/ SyncDirectory(w)
    BY <1>1, <1>2, <2>4 DEF UpdateDedup, CleanupTemp, SyncDirectory, Ack, Goto, TypeOK, OpenFiles
  <2>5. CASE CreateTemp(w)
    <3>1. pc'[w] = "fill" /\ op' = op /\ obj' = obj
      BY <1>1, <2>5 DEF CreateTemp, Goto, TypeOK
    <3>2. CASE op[w] = "stream"
      <4>1. PICK i \in Inodes : Free(i) /\ fd' = [fd EXCEPT ![w] = i] /\ tmp' = tmp
        BY <2>5, <3>2 DEF CreateTemp
      <4>2. tmp[obj[w]] # i /\ fd'[w] = i
        BY <1>1, <4>1 DEF Free, TypeOK
      <4> QED BY <3>1, <3>2, <4>1, <4>2
    <3>3. CASE op[w] # "stream"
      <4>1. tmp'[obj[w]] = fd'[w]
        <5>1. CASE tmp[obj[w]] # None
          BY <1>1, <2>5, <3>3, <5>1 DEF CreateTemp, TypeOK
        <5>2. CASE tmp[obj[w]] = None
          <6>1. PICK i \in Inodes : fd' = [fd EXCEPT ![w] = i] /\ tmp' = [tmp EXCEPT ![obj[w]] = i]
            BY <2>5, <3>3, <5>2 DEF CreateTemp
          <6> QED BY <1>1, <6>1 DEF TypeOK
        <5> QED BY <5>1, <5>2
      <4> QED BY <3>1, <3>3, <4>1
    <3> QED BY <3>2, <3>3
  <2>6. CASE FillTemp(w)
    <3>1. /\ fd' = fd /\ pc'[w] = "sync" /\ UNCHANGED <<tmp, op, obj>>
          /\ bg' = bg \cup {[by |-> w, ino |-> fd[w], bytes |-> Stored(op[w], obj[w])]}
      BY <1>1, <2>6 DEF FillTemp, FsyncsFile, CompleteRun, Goto, TypeOK, names
    <3>2. Written(w)'
      <4>1. PICK b \in bg' : b = [by |-> w, ino |-> fd[w], bytes |-> Stored(op[w], obj[w])]
        BY <3>1
      <4>2. b.by = w /\ b.ino = fd'[w]
        BY <3>1, <4>1
      <4> QED BY <4>2 DEF Written
    <3> QED BY <1>3, <3>1, <3>2
  <2>7. CASE SyncFile(w)
    <3>1. pc[w] = "sync" /\ UNCHANGED <<data, op, obj, tmp>> /\ fd[w] \in Inodes
      BY <1>1, <2>7 DEF SyncFile, TypeOK, names
    <3>2. data[fd[w]] = Bytes(obj[w])
      BY <1>3, <2>7, <3>1 DEF SyncFile, Written
    <3>3. Power => FsyncsFile(op[w])
      <4>1. PICK j \in Jobs : j = [worker |-> w, op |-> op[w], hash |-> obj[w]]
        BY <3>1 DEF CompleteInv, CallsInv
      <4>2. j.op = op[w]
        BY <4>1
      <4> QED BY <4>2 DEF CompleteRun, FsyncsFile
    <3>4. Power => ddata'[fd[w]] = data[fd[w]]
      BY <1>1, <2>7, <3>1, <3>3 DEF SyncFile, TypeOK
    <3>5. PICK i : i = fd[w]
      OBVIOUS
    <3>6. Whole(i, obj[w])'
      BY <3>1, <3>2, <3>4, <3>5 DEF Whole, Power
    <3>7. CASE op[w] = "stream"
      <4>1. pc'[w] = "exists" /\ fd'[w] = i
        BY <1>1, <2>7, <3>5, <3>7 DEF SyncFile, Goto, TypeOK
      <4> QED BY <1>3, <3>1, <3>5, <3>6, <3>7, <4>1 DEF Whole, Power
    <3>8. CASE op[w] # "stream"
      <4>1. pc'[w] = "rename" /\ fd'[w] = None /\ tmp[obj[w]] = i
        BY <1>1, <1>3, <2>7, <3>1, <3>5, <3>8, NoneNoInode DEF SyncFile, Goto, TypeOK
      <4> QED BY <3>1, <3>6, <3>8, <4>1 DEF Whole, Power
    <3> QED BY <3>7, <3>8
  <2>8. CASE Rename(w)
    <3>1. pc'[w] \in {"index", "syncdir", "cleanup"} /\ fd'[w] = None
      BY <1>1, <1>2, <2>8 DEF Rename, Goto, TypeOK, OpenFiles
    <3> QED BY <3>1
  <2>9. CASE HashMismatch(w)
    BY <1>1, <2>9 DEF HashMismatch, Goto, TypeOK
  <2>10. CASE IoError(w)
    <3>1. pc'[w] \in {"idle", "cleanup"} /\ fd'[w] = None
      BY <1>1, <1>2, <2>10 DEF IoError, Goto, TypeOK, OpenFiles
    <3> QED BY <3>1
  <2> QED
    BY <1>6, <2>1, <2>2, <2>3, <2>4, <2>5, <2>6, <2>7, <2>8, <2>9, <2>10 DEF OwnStep, Progress
<1> QED BY <1>4, <1>5, <1>6

LEMMA CompleteStep == CompleteRun /\ CompleteInv /\ [Next]_vars => CompleteInv'
<1> SUFFICES ASSUME CompleteRun, CompleteInv, [Next]_vars PROVE CompleteInv'
  OBVIOUS
<1>1. StrayInv' /\ CallsInv' /\ RecoveringInv' /\ PendingInv'
  BY StrayStep, CallsStep, RecoveringStep, PendingOwn DEF CompleteInv
<1> QED BY <1>1, VisibleStep, WriterStep DEF CompleteInv

LEMMA CompleteInit == Init => CompleteInv
<1> SUFFICES ASSUME Init PROVE CompleteInv
  OBVIOUS
<1>1. CallsInv /\ RecoveringInv /\ PendingInv
  BY DEF Init, CallsInv, RecoveringInv, PendingInv, OwnBytesPending
<1>2. VisibleInv /\ WriterInv
  BY DEF Init, VisibleInv, WriterInv
<1> QED BY <1>1, <1>2, StrayInit DEF CompleteInv

(* VisibleIsComplete: a file under an object's name holds the object in full
   at every moment, whatever crashes and system calls fail: with one writer
   for each object, uncompressed bytes, and a policy under which writers sync
   their files (if power can fail, write_stream too). *)
THEOREM VisibleStaysComplete ==
    ASSUME CompleteRun
    PROVE  Spec => []VisibleIsComplete
<1>1. CompleteInv /\ [Next]_vars => CompleteInv'
  BY CompleteStep
<1>2. CompleteInv => VisibleIsComplete
  BY DEF CompleteInv, VisibleInv, Settled, Whole, VisibleIsComplete
<1> QED BY <1>1, <1>2, CompleteInit, PTL DEF Spec

-----------------------------------------------------------------------------
(* An acknowledged object can be read back when its name is there, and on the
   disk if power can fail: a writer that answers Ok has seen to both. *)
ReadableRun ==
    /\ CompleteRun
    /\ ZeroLen = {}
    /\ \A j \in Jobs : j.op # "delete"
    /\ Power => /\ Policy = "Always" /\ "dirsync" \notin Faults
                /\ \A j \in Jobs : j.op # "stream"

Kept(h) == final[h] # None /\ (Power => dfinal[h] # None)

Unsynced(h) == final[h] # None /\ dfinal[h] = None

KeptInv ==
    /\ \A h \in acked \cup dedup : Kept(h)
    /\ \A w \in Workers : /\ pc[w] = "index" => Kept(obj[w])
                          /\ pc[w] = "syncdir" => final[obj[w]] # None
    /\ Power => \A h \in Hashes :
          /\ dfinal[h] # None => final[h] # None
          /\ Unsynced(h) => \E w \in Workers : pc[w] = "syncdir" /\ obj[w] = h

(* Without deletes a name that is there stays there. *)
LEMMA NamesStay ==
    ASSUME ReadableRun, CompleteInv, [Next]_vars, ~ Crash, NEW h \in Hashes
    PROVE  /\ final[h] # None => final'[h] # None
           /\ final[h] # None /\ dfinal[h] # None => dfinal'[h] # None
<1>1. TypeOK /\ OpenFiles
  BY DEF CompleteInv, StrayInv
<1>2. \A w \in Workers : ~ Delete(w)
  BY DEF ReadableRun, Delete
<1>3. ASSUME NEW w \in Workers, Renamed(w, h) PROVE final'[h] # None
  BY <1>1, <1>3 DEF Renamed, Rename, OpenFiles
<1>4. Recovered(h) => tmp[h] # None /\ final'[h] # None
  BY DEF Recovered
<1>5. final[h] # None => final'[h] # None
  BY <1>1, <1>2, <1>3, <1>4, FinalStep
<1>6. final[h] # None /\ dfinal[h] # None => dfinal'[h] # None
  BY <1>1, <1>4, DurableNames
<1> QED BY <1>5, <1>6

LEMMA KeptStays ==
    ASSUME ReadableRun, CompleteInv, [Next]_vars, NEW h \in Hashes, Kept(h)
    PROVE  Kept(h)'
<1>1. CASE PowerLoss
  <2>1. Power /\ final' = dfinal /\ dfinal' = dfinal
    BY <1>1 DEF PowerLoss, LoseMemory, durable, Power
  <2> QED BY <2>1 DEF Kept, Power
<1>2. CASE Kill
  <2>1. ~ Power /\ final' = final
    BY <1>2 DEF Kill, ReadableRun, CompleteRun, names
  <2> QED BY <2>1 DEF Kept, Power
<1>3. CASE ~ Crash
  BY <1>3, NamesStay DEF Kept, Power
<1> QED BY <1>1, <1>2, <1>3 DEF Crash

(* An object whose name is seen by somebody who works on it is kept: who gave
   it the name is the one writer it has, and syncs the directory next. *)
LEMMA SeenIsKept ==
    ASSUME ReadableRun, CompleteInv, KeptInv, NEW w \in Workers, pc[w] \notin {"idle", "syncdir"},
           final[obj[w]] # None
    PROVE  Kept(obj[w])
<1>1. PICK h \in Hashes : h = obj[w]
  BY DEF CompleteInv, StrayInv, TypeOK
<1>2. \A v \in Workers : pc[v] # "idle" /\ obj[v] = h => v = w
  BY <1>1, Alone DEF CompleteInv, ReadableRun
<1>3. ~ Power \/ ~ Unsynced(h)
  BY <1>2 DEF KeptInv
<1> QED BY <1>1, <1>3 DEF Kept, Unsynced

(* What a call answers Ok for, or enters in the index, is kept. *)
LEMMA AckedAreKept ==
    ASSUME ReadableRun, CompleteInv, KeptInv, [Next]_vars, NEW h \in Hashes, h \in (acked \cup dedup)'
    PROVE  Kept(h)'
<1>1. TypeOK
  BY DEF CompleteInv, StrayInv
<1>2. CASE h \in acked \cup dedup
  BY <1>2, KeptStays DEF KeptInv
<1>3. CASE h \notin acked \cup dedup
  <2>1. ASSUME NEW w \in Workers, CheckDedup(w) PROVE FALSE
    BY <1>3, <2>1 DEF CheckDedup, Ack, observed
  <2>2. ASSUME NEW w \in Workers, CheckExists(w) PROVE Kept(h)'
    <3>1. pc[w] = "exists" /\ obj[w] = h /\ final[h] # None
      BY <1>3, <2>2 DEF CheckExists, Ack, observed
    <3>2. Kept(h)
      BY <3>1, SeenIsKept
    <3> QED BY <3>2, KeptStays
  <2>3. ASSUME NEW w \in Workers, UpdateDedup(w) PROVE Kept(h)'
    <3>1. pc[w] = "index" /\ obj[w] = h
      BY <1>3, <2>3 DEF UpdateDedup, Ack
    <3> QED BY <3>1, KeptStays DEF KeptInv
  <2>4. ASSUME NEW w \in Workers, SyncDirectory(w) PROVE Kept(h)'
    <3>1. pc[w] = "syncdir" /\ obj[w] = h /\ final' = final
      BY <1>3, <2>4 DEF SyncDirectory, Ack, observed, names
    <3>2. final[h] # None
      BY <3>1 DEF KeptInv
    <3>3. Power => dfinal'[h] = final[h]
      BY <1>1, <2>4, <3>1 DEF SyncDirectory, ReadableRun, should_fsync_directory, TypeOK
    <3> QED BY <3>1, <3>2, <3>3 DEF Kept, Power
  <2>5. ASSUME NEW w \in Workers, \/ Start(w) \/ Delete(w) \/ HashMismatch(w) \/ IoError(w) \/ CreateTemp(w)
                                  \/ FillTemp(w) \/ SyncFile(w) \/ Rename(w) \/ CleanupTemp(w)
        PROVE  FALSE
    BY <1>3, <2>5 DEF Start, Delete, HashMismatch, IoError, CreateTemp, FillTemp, SyncFile, Rename,
       CleanupTemp, observed
  <2>6. ~ Kill /\ ~ PowerLoss /\ ~ RecoveryDone /\ ~ UNCHANGED vars
    BY <1>3 DEF Kill, PowerLoss, LoseMemory, RecoveryDone, vars, observed
  <2>7. ASSUME NEW g \in Hashes, WritebackDir(g) \/ RecoverTemp(g) PROVE FALSE
    BY <1>3, <2>7 DEF WritebackDir, RecoverTemp, observed
  <2>8. ASSUME NEW i \in Inodes, WritebackData(i) PROVE FALSE
    BY <1>3, <2>8 DEF WritebackData, observed
  <2>9. ASSUME NEW b \in bg, BackgroundWrite(b) PROVE FALSE
    BY <1>3, <2>9 DEF BackgroundWrite, observed
  <2> QED BY <2>1, <2>2, <2>3, <2>4, <2>5, <2>6, <2>7, <2>8, <2>9 DEF Next, Progress
<1> QED BY <1>2, <1>3

LEMMA CallsKeep ==
    ASSUME ReadableRun, CompleteInv, KeptInv, [Next]_vars, NEW w \in Workers
    PROVE  /\ pc'[w] = "index" => Kept(obj[w])'
           /\ pc'[w] = "syncdir" => final'[obj'[w]] # None
<1>1. TypeOK /\ OpenFiles
  BY DEF CompleteInv, StrayInv
<1>2. PICK h \in Hashes : h = obj[w]
  BY <1>1 DEF TypeOK
<1>3. CASE Crash
  BY <1>3 DEF Crash, Kill, PowerLoss, LoseMemory
<1>4. CASE ~ Crash /\ (pc'[w] = pc[w] /\ obj'[w] = obj[w])
  <2>1. pc[w] = "index" => Kept(h)'
    BY <1>2, KeptStays DEF KeptInv
  <2>2. pc[w] = "syncdir" => final'[h] # None
    BY <1>2, <1>4, NamesStay DEF KeptInv
  <2> QED BY <1>2, <1>4, <2>1, <2>2 DEF Kept, Power
<1>5. CASE ~ Crash /\ ~ (pc'[w] = pc[w] /\ obj'[w] = obj[w])
  <2>1. OwnStep(w)
    BY <1>1, <1>5, OthersLeave
  <2>2. CASE Start(w)
    BY <1>1, <2>2 DEF Start, Goto, TypeOK
  <2>3. CASE CheckExists(w)
    <3>1. pc[w] = "exists" /\ obj' = obj /\ pc'[w] # "syncdir" /\ (pc'[w] = "index" => final[h] # None)
      BY <1>1, <1>2, <2>3 DEF CheckExists, Ack, Goto, TypeOK
    <3>2. pc'[w] = "index" => Kept(h)'
      BY <1>2, <3>1, SeenIsKept, KeptStays
    <3> QED BY <1>2, <3>1, <3>2 DEF Kept, Power
  <2>4. CASE Rename(w)
    <3>1. obj' = obj /\ pc[w] = "rename" /\ (pc'[w] = "index" => op[w] = "stream")
      BY <1>1, <2>4 DEF Rename, Goto, TypeOK
    <3>2. pc'[w] \in {"index", "syncdir"} => final'[h] # None
      BY <1>1, <1>2, <2>4 DEF Rename, Goto, TypeOK, OpenFiles, names
    <3>3. op[w] = "stream" => ~ Power
      <4>1. PICK j \in Jobs : j = [worker |-> w, op |-> op[w], hash |-> obj[w]]
        BY <3>1 DEF CompleteInv, CallsInv
      <4>2. j.op = op[w]
        BY <4>1
      <4> QED BY <4>2 DEF ReadableRun
    <3> QED BY <1>2, <3>1, <3>2, <3>3 DEF Kept, Power
  <2>5. CASE SyncDirectory(w)
    <3>1. pc[w] = "syncdir" /\ obj' = obj /\ final' = final /\ pc'[w] # "syncdir"
      BY <1>1, <2>5 DEF SyncDirectory, Ack, Goto, TypeOK, names
    <3>2. final[h] # None
      BY <1>2, <3>1 DEF KeptInv
    <3>3. Power => dfinal'[h] = final[h]
      BY <1>1, <1>2, <2>5 DEF SyncDirectory, ReadableRun, should_fsync_directory, TypeOK
    <3> QED BY <1>2, <3>1, <3>2, <3>3 DEF Kept, Power
  <2>6. CASE \/ CheckDedup(w) \/ UpdateDedup(w) \/ CreateTemp(w) \/ FillTemp(w) \/ SyncFile(w)
             \/ CleanupTemp(w) \/ HashMismatch(w) \/ IoError(w)
    <3>1. pc'[w] \notin {"index", "syncdir"}
      BY <1>1, <2>6 DEF CheckDedup, UpdateDedup, CreateTemp, FillTemp, SyncFile, CleanupTemp, HashMismatch,
         IoError, Ack, Goto, TypeOK
    <3> QED BY <3>1
  <2> QED BY <2>1, <2>2, <2>3, <2>4, <2>5, <2>6 DEF OwnStep, Progress
<1> QED BY <1>3, <1>4, <1>5

LEMMA DurablyNamed ==
    ASSUME ReadableRun, CompleteInv, KeptInv, [Next]_vars, Power, NEW h \in Hashes
    PROVE  /\ dfinal'[h] # None => final'[h] # None
           /\ Unsynced(h)' => \E w \in Workers : pc'[w] = "syncdir" /\ obj'[w] = h
<1>1. TypeOK
  BY DEF CompleteInv, StrayInv
<1>2. CASE PowerLoss
  <2>1. final' = dfinal /\ dfinal' = dfinal
    BY <1>2 DEF PowerLoss, LoseMemory, durable
  <2> QED BY <2>1 DEF Unsynced
<1>3. ~ Kill
  BY DEF Kill, ReadableRun, CompleteRun
<1>4. CASE ~ Crash
  <2>1. dfinal'[h] # None => final'[h] # None
    <3>1. dfinal[h] # None => final[h] # None
      BY DEF KeptInv
    <3>2. Recovered(h) => final'[h] # None
      BY DEF Recovered
    <3> QED BY <1>1, <1>4, <3>1, <3>2, NamesStay, DurableNames
  <2>2. ASSUME Unsynced(h)' PROVE \E w \in Workers : pc'[w] = "syncdir" /\ obj'[w] = h
    <3>1. CASE final[h] # None
      <4>1. dfinal[h] = None
        BY <1>4, <2>2, <3>1, NamesStay DEF Unsynced
      <4>2. PICK w \in Workers : pc[w] = "syncdir" /\ obj[w] = h
        BY <3>1, <4>1 DEF KeptInv, Unsynced
      <4>3. ~ OwnStep(w)
        <5>1. ~ SyncDirectory(w)
          <6>1. SyncDirectory(w) => dfinal'[h] = final[h]
            BY <1>1, <4>2 DEF SyncDirectory, ReadableRun, should_fsync_directory, TypeOK
          <6> QED BY <2>2, <3>1, <6>1 DEF Unsynced
        <5>2. ~ IoError(w)
          BY <4>2 DEF IoError, ReadableRun
        <5>3. ~ Start(w) /\ ~ HashMismatch(w)
          BY <4>2 DEF Start, HashMismatch
        <5>4. ~ Progress(w)
          BY <4>2, <5>1 DEF Progress, CheckDedup, CheckExists, UpdateDedup, CreateTemp, FillTemp, SyncFile,
             Rename, CleanupTemp
        <5> QED BY <5>1, <5>2, <5>3, <5>4 DEF OwnStep
      <4> QED BY <1>1, <1>4, <4>2, <4>3, OthersLeave
    <3>2. CASE final[h] = None
      <4>1. final'[h] # None /\ final'[h] # final[h]
        BY <2>2, <3>2 DEF Unsynced
      <4>2. ~ Recovered(h)
        <5>1. Recovered(h) => dfinal'[h] = tmp[h] /\ tmp[h] # None
          BY <1>1 DEF Recovered, RecoverTemp, ReadableRun, should_fsync_directory, TypeOK
        <5> QED BY <2>2, <5>1 DEF Unsynced
      <4>3. PICK w \in Workers : Renamed(w, h)
        BY <1>1, <1>4, <4>1, <4>2, FinalStep
      <4>4. pc[w] = "rename" /\ obj[w] = h
        BY <4>3 DEF Renamed, Rename
      <4>5. op[w] # "stream"
        <5>1. PICK j \in Jobs : j = [worker |-> w, op |-> op[w], hash |-> obj[w]]
          BY <4>4 DEF CompleteInv, CallsInv
        <5>2. j.op = op[w]
          BY <5>1
        <5> QED BY <5>2 DEF ReadableRun
      <4>6. pc'[w] = "syncdir" /\ obj'[w] = h
        BY <1>1, <4>3, <4>4, <4>5 DEF Renamed, Rename, Goto, TypeOK
      <4> QED BY <4>6
    <3> QED BY <3>1, <3>2
  <2> QED BY <2>1, <2>2
<1> QED BY <1>2, <1>3, <1>4 DEF Crash

(* AckedReadable: once a write has returned Ok its object can be read back
   after whatever crashes and recoveries: under the assumptions of
   VisibleStaysComplete, without deletes, which the dedup index outlives, or
   an object of no bytes, which reads as corrupt; and if power can fail, with
   the policy Always, no failing directory sync, and no streams, which do not
   sync their directory. *)
THEOREM AckedStaysReadable ==
    ASSUME ReadableRun
    PROVE  Spec => []AckedReadable
<1>1. Init => CompleteInv /\ KeptInv
  <2>1. Init => KeptInv
    BY DEF Init, KeptInv, Unsynced
  <2> QED BY <2>1, CompleteInit
<1>2. CompleteInv /\ KeptInv /\ [Next]_vars => CompleteInv' /\ KeptInv'
  <2> SUFFICES ASSUME CompleteInv, KeptInv, [Next]_vars PROVE CompleteInv' /\ KeptInv'
    OBVIOUS
  <2>1. CompleteInv'
    BY CompleteStep DEF ReadableRun
  <2>2. \A h \in (acked \cup dedup)' : Kept(h)'
    <3>1. (acked \cup dedup)' \subseteq Hashes
      BY <2>1 DEF CompleteInv, StrayInv, TypeOK
    <3> QED BY <3>1, AckedAreKept
  <2>3. KeptInv'
    BY <2>2, CallsKeep, DurablyNamed DEF KeptInv, Power
  <2> QED BY <2>1, <2>3
<1>3. CompleteInv /\ KeptInv => AckedReadable
  <2> SUFFICES ASSUME CompleteInv, KeptInv, NEW h \in acked PROVE read_individual(h) = "Ok"
    BY DEF AckedReadable
  <2>1. h \in Hashes /\ Kept(h)
    BY DEF CompleteInv, StrayInv, TypeOK, KeptInv
  <2>2. final[h] # None /\ data[final[h]] = Bytes(h)
    BY <2>1 DEF Kept, CompleteInv, VisibleInv, Settled, Whole
  <2>3. Bytes(h) # Empty
    BY <2>1, StoreAssumption DEF Bytes, ReadableRun
  <2> QED BY <2>2, <2>3 DEF read_individual
<1> QED BY <1>1, <1>2, <1>3, PTL DEF Spec
=============================================================================
