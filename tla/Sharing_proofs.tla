--------------------------- MODULE Sharing_proofs ---------------------------
(***************************************************************************)
(* Theorems about Sharing for every number of files and hashes, with their *)
(* proofs: the database is sound, and no hash is stored while it is being  *)
(* stored.  At the end, the theorems about how a download is saved to the  *)
(* cache.                                                                  *)
(***************************************************************************)
EXTENDS Sharing, Save, SequenceTheorems, TLAPS

\* Only hashes that are due wait to be refreshed, and only fresh ones are being stored.
AnnounceInv ==
    /\ hashes \in [Hashes -> {"none", "fresh", "due"}]
    /\ refreshing \subseteq Due
    /\ storing \in [Hashes -> {"none", "new", "scan", "refresh"}]
    /\ \A h \in Hashes : storing[h] # "none" => hashes[h] = "fresh"
    /\ clash = FALSE

\* The scan reads whole files only: nothing is downloaded to the directories it hashes.
\* What was read of a file that has not changed since is what is there.
ScanInv ==
    /\ scan \in [step : {"idle", "walk", "hash", "record", "store", "died"},
                 left : SUBSET Files, file : Files \cup {None}, read : Hashes \cup {None},
                 changed : BOOLEAN]
    /\ scan.step \in {"hash", "record"} => scan.file \in OtherFiles
    /\ scan.step = "record" /\ ~scan.changed => disk[scan.file] = scan.read
    /\ \A f \in OtherFiles : disk[f] \in Hashes \cup {None}

TableInv ==
    /\ disk \in [Files -> Contents]
    /\ files \in [Files -> Rows \cup {None}]
    /\ FilesHaveHashes
    /\ RowsAreTrue

\* While the latest saving of a file writes, no whole file is at the path.
WriteInv ==
    /\ save \in [CacheFiles -> {"none", "write", "hash"}]
    /\ \A f \in CacheFiles : save[f] = "write" => disk[f] \in {Partial, None}

OtherTypes == joined \in BOOLEAN /\ other_dirs \in BOOLEAN /\ older \subseteq CacheFiles

IInv == OtherTypes /\ AnnounceInv /\ ScanInv /\ TableInv /\ WriteInv

-----------------------------------------------------------------------------
(* The database. *)

LEMMA RowIsNotNone == ASSUME NEW r \in Rows PROVE r.hash \in Hashes /\ r.current \in BOOLEAN /\ r.late \in BOOLEAN
  BY DEF Rows

\* A hash of the table leaves it only if it has no files.
LEMMA RefreshedKeeps ==
    ASSUME AnnounceInv, TableInv
    PROVE  /\ Refreshed \in [Hashes -> {"none", "fresh", "due"}]
           /\ \A h \in Hashes : hashes[h] = "fresh" => Refreshed[h] = "fresh"
           /\ \A h \in Hashes : h \in ExpiredHashes => Refreshed[h] = "due"
           /\ \A f \in Files : files[f] # None => Refreshed[files[f].hash] # "none"
<1>1. \A h \in Hashes : hashes[h] = "due" <=> h \in Due
  BY DEF Due
<1>2. Refreshed \in [Hashes -> {"none", "fresh", "due"}]
  BY DEF Refreshed, AnnounceInv
<1>3. ASSUME NEW f \in Files, files[f] # None PROVE Refreshed[files[f].hash] # "none"
  <2>1. files[f].hash \in Hashes /\ hashes[files[f].hash] # "none"
    BY <1>3 DEF TableInv, FilesHaveHashes, Rows
  <2>2. f \in RowsOf(files[f].hash)
    BY <1>3 DEF RowsOf
  <2>3. QED
    BY <2>1, <2>2 DEF Refreshed
<1>4. \A h \in Hashes : hashes[h] = "fresh" => Refreshed[h] = "fresh"
  BY <1>1 DEF Refreshed
<1>5. \A h \in Hashes : h \in ExpiredHashes => Refreshed[h] = "due"
  BY <1>1 DEF Refreshed, ExpiredHashes
<1>6. QED
  BY <1>2, <1>3, <1>4, <1>5

LEMMA RefreshFilesStep ==
    ASSUME AnnounceInv, TableInv, NEW free \in SUBSET Hashes, RefreshFiles(free),
           UNCHANGED <<disk, files>>
    PROVE  AnnounceInv' /\ TableInv'
<1> DEFINE list == IF refreshing = {} THEN ExpiredHashes ELSE refreshing
           rows == IF refreshing = {} THEN Refreshed ELSE hashes
           begun == [h \in Hashes |-> IF h \in free THEN "none" ELSE storing[h]]
<1>1. /\ rows \in [Hashes -> {"none", "fresh", "due"}]
      /\ \A h \in Hashes : hashes[h] = "fresh" => rows[h] = "fresh"
      /\ \A h \in list : h \in Hashes /\ rows[h] = "due"
      /\ \A f \in Files : files[f] # None => rows[files[f].hash] # "none"
  <2>1. CASE refreshing = {}
    BY <2>1, RefreshedKeeps DEF ExpiredHashes, Due
  <2>2. CASE refreshing # {}
    BY <2>2 DEF AnnounceInv, TableInv, FilesHaveHashes, Due
  <2>3. QED
    BY <2>1, <2>2
<1>2. /\ begun \in [Hashes -> {"none", "new", "scan", "refresh"}]
      /\ \A h \in Hashes : begun[h] # "none" => hashes[h] = "fresh"
  BY DEF AnnounceInv
<1>3. \/ /\ refreshing' = {} /\ hashes' = rows /\ storing' = begun /\ clash' = clash
      \/ \E h \in list : /\ refreshing' = list \ {h}
                         /\ hashes' = [rows EXCEPT ![h] = "fresh"]
                         /\ storing' = [begun EXCEPT ![h] = "refresh"]
                         /\ clash' = (clash \/ begun[h] # "none")
  BY DEF RefreshFiles
<1> HIDE DEF list, rows, begun
<1>4. AnnounceInv' /\ \A f \in Files : files[f] # None => hashes'[files[f].hash] # "none"
  <2>1. CASE refreshing' = {} /\ hashes' = rows /\ storing' = begun /\ clash' = clash
    BY <1>1, <1>2, <2>1 DEF AnnounceInv, Due
  <2>2. ASSUME NEW h \in list,
               refreshing' = list \ {h},
               hashes' = [rows EXCEPT ![h] = "fresh"],
               storing' = [begun EXCEPT ![h] = "refresh"],
               clash' = (clash \/ begun[h] # "none")
        PROVE  AnnounceInv' /\ \A f \in Files : files[f] # None => hashes'[files[f].hash] # "none"
    <3>1. h \in Hashes /\ rows[h] = "due"
      BY <1>1
    <3>2. begun[h] = "none"
      BY <1>1, <1>2, <3>1
    <3>3. clash' = FALSE
      BY <2>2, <3>2 DEF AnnounceInv
    <3>4. hashes' \in [Hashes -> {"none", "fresh", "due"}]
          /\ storing' \in [Hashes -> {"none", "new", "scan", "refresh"}]
      BY <1>1, <1>2, <2>2
    <3>5. \A g \in Hashes : /\ hashes'[g] = (IF g = h THEN "fresh" ELSE rows[g])
                            /\ storing'[g] = (IF g = h THEN "refresh" ELSE begun[g])
      BY <1>1, <1>2, <2>2
    <3>6. refreshing' \subseteq Due'
      BY <1>1, <2>2, <3>5 DEF Due
    <3>7. \A g \in Hashes : storing'[g] # "none" => hashes'[g] = "fresh"
      BY <1>1, <1>2, <3>5
    <3>8. \A f \in Files : files[f] # None => hashes'[files[f].hash] # "none"
      BY <1>1, <3>5, RowIsNotNone DEF TableInv
    <3>9. QED
      BY <3>3, <3>4, <3>6, <3>7, <3>8 DEF AnnounceInv
  <2>3. QED
    BY <1>3, <2>1, <2>2
<1>5. TableInv'
  BY <1>4 DEF TableInv, FilesHaveHashes, RowsAreTrue, Current
<1>6. QED
  BY <1>4, <1>5

\* Rows are only removed, and files only become what their rows do not say if the rows
\* do not count as current.
LEMMA FewerRows ==
    ASSUME TableInv, UNCHANGED hashes,
           disk' \in [Files -> Contents],
           files' \in [Files -> Rows \cup {None}],
           \A f \in Files : files'[f] # None =>
               /\ files[f] # None /\ files'[f].hash = files[f].hash
               /\ files'[f].current /\ disk'[f] # None =>
                     /\ files[f].current /\ disk'[f] = disk[f]
                     /\ files'[f].late = files[f].late
    PROVE  TableInv'
  BY DEF TableInv, FilesHaveHashes, RowsAreTrue, Current

LEMMA WithoutChangedRows ==
    ASSUME TableInv, NEW F \in SUBSET Files
    PROVE  /\ WithoutChanged(F) \in [Files -> Rows \cup {None}]
           /\ \A f \in Files : WithoutChanged(F)[f] # None => WithoutChanged(F)[f] = files[f]
           /\ \A f \in F : ~Current(f) => WithoutChanged(F)[f] = None
  BY DEF WithoutChanged, TableInv

\* A new row is right if the file is what was hashed, or the row is late.
LEMMA NewRow ==
    ASSUME TableInv, AnnounceInv, NEW f \in Files, NEW h \in Hashes, NEW dht \in BOOLEAN,
           NEW late \in BOOLEAN, StoreHash(h), StoreRow(f, h, dht, late), disk' \in [Files -> Contents],
           late \/ disk'[f] = h,
           \A g \in Files : g # f => disk'[g] = disk[g]
    PROVE  TableInv'
<1>1. /\ files' = [files EXCEPT ![f] = [hash |-> h, dht |-> dht, current |-> TRUE, late |-> late]]
      /\ hashes' = [hashes EXCEPT ![h] = IF @ = "none" THEN "fresh" ELSE @]
  BY DEF StoreHash, StoreRow
<1>2. [hash |-> h, dht |-> dht, current |-> TRUE, late |-> late] \in Rows
  BY DEF Rows
<1>3. files' \in [Files -> Rows \cup {None}]
  BY <1>1, <1>2 DEF TableInv
<1>4. /\ files'[f].hash = h /\ files'[f].late = late
      /\ \A g \in Files : g # f => files'[g] = files[g]
  BY <1>1 DEF TableInv
<1>5. hashes'[h] # "none" /\ \A x \in Hashes : hashes[x] # "none" => hashes'[x] # "none"
  BY <1>1 DEF AnnounceInv
<1>6. FilesHaveHashes'
  BY <1>3, <1>4, <1>5, RowIsNotNone DEF TableInv, FilesHaveHashes
<1>7. RowsAreTrue'
  <2>1. ASSUME NEW g \in Files, g # f, Current(g)', ~files'[g].late PROVE disk'[g] = files'[g].hash
    BY <1>1, <1>4, <2>1 DEF TableInv, RowsAreTrue, Current
  <2>2. ~files'[f].late => disk'[f] = files'[f].hash
    BY <1>4
  <2>3. QED
    BY <2>1, <2>2 DEF RowsAreTrue
<1>8. QED
  BY <1>3, <1>6, <1>7 DEF TableInv

\* A hash that is announced when it is new to the table is not being stored.
LEMMA StoreStep ==
    ASSUME AnnounceInv, NEW h \in Hashes, NEW shared \in BOOLEAN, NEW caller \in {"new", "scan"},
           StoreHash(h), UNCHANGED refreshing,
           \/ Announces(h, shared) /\ Store(h, caller)
           \/ UNCHANGED <<storing, clash>>
    PROVE  AnnounceInv'
<1>1. hashes' = [hashes EXCEPT ![h] = IF @ = "none" THEN "fresh" ELSE @]
  BY DEF StoreHash
<1>2. hashes' \in [Hashes -> {"none", "fresh", "due"}]
      /\ \A g \in Hashes : hashes[g] # "none" => hashes'[g] = hashes[g]
  BY <1>1 DEF AnnounceInv
<1>3. refreshing' \subseteq Due'
  BY <1>2 DEF AnnounceInv, Due
<1>4. CASE UNCHANGED <<storing, clash>>
  BY <1>2, <1>3, <1>4 DEF AnnounceInv
<1>5. CASE Announces(h, shared) /\ Store(h, caller)
  <2>1. hashes[h] = "none" /\ storing[h] = "none"
    BY <1>5 DEF Announces, AnnounceInv
  <2>2. storing' = [storing EXCEPT ![h] = caller] /\ clash' = clash
    BY <1>5, <2>1 DEF Store
  <2>3. hashes'[h] = "fresh"
    BY <1>1, <2>1 DEF AnnounceInv
  <2>4. QED
    BY <1>2, <1>3, <2>2, <2>3 DEF AnnounceInv
<1>6. QED
  BY <1>4, <1>5

LEMMA AnnounceLeftAlone ==
    ASSUME AnnounceInv, UNCHANGED <<hashes, refreshing, storing, clash>>
    PROVE  AnnounceInv'
  BY DEF AnnounceInv, Due

\* A hash may be added to its table without a file.
LEMMA HashAdded ==
    ASSUME AnnounceInv, TableInv, NEW h \in Hashes, StoreHash(h) \/ UNCHANGED hashes,
           UNCHANGED <<files, disk>>
    PROVE  TableInv'
<1>1. \A x \in Hashes : hashes[x] # "none" => hashes'[x] # "none"
  BY DEF AnnounceInv, StoreHash
<1>2. QED
  BY <1>1, RowIsNotNone DEF TableInv, FilesHaveHashes, RowsAreTrue, Current

\* What storeFile records of a saved file is right, if the file is what was hashed, or late.
LEMMA RecordStep ==
    ASSUME AnnounceInv, TableInv, NEW f \in Files, NEW h \in Hashes, NEW dht \in BOOLEAN,
           NEW late \in BOOLEAN, NEW shared \in BOOLEAN, Record(f, h, dht, late),
           disk' \in [Files -> Contents], \A g \in Files : g # f => disk'[g] = disk[g],
           disk[f] = None => UNCHANGED disk,
           disk[f] # None => late \/ disk'[f] = h,
           UNCHANGED refreshing,
           \/ disk[f] # None /\ Announces(h, shared) /\ Store(h, "new")
           \/ UNCHANGED <<storing, clash>>
    PROVE  AnnounceInv' /\ TableInv'
<1>1. CASE disk[f] = None
  <2>1. (StoreHash(h) \/ UNCHANGED hashes) /\ UNCHANGED <<files, storing, clash>>
    BY <1>1 DEF Record
  <2>2. TableInv'
    BY <1>1, <2>1, HashAdded
  <2>3. AnnounceInv'
    BY <2>1, StoreStep, AnnounceLeftAlone
  <2>4. QED
    BY <2>2, <2>3
<1>2. CASE disk[f] # None
  <2>1. StoreHash(h) /\ StoreRow(f, h, dht, late)
    BY <1>2 DEF Record
  <2>2. TableInv'
    BY <1>2, <2>1, NewRow
  <2>3. AnnounceInv'
    BY <2>1, StoreStep
  <2>4. QED
    BY <2>2, <2>3
<1>3. QED
  BY <1>1, <1>2

\* A file that is written to no longer counts as what its row says.
LEMMA WrittenTo ==
    ASSUME TableInv, NEW f \in Files, disk' \in [Files -> Contents],
           \A g \in Files : g # f => disk'[g] = disk[g],
           files' = Stale(f), UNCHANGED hashes
    PROVE  TableInv'
<1> DEFINE stale == [files[f] EXCEPT !.current = FALSE, !.late = FALSE]
<1>1. files' = [files EXCEPT ![f] = IF @ = None THEN None ELSE stale]
  BY DEF Stale
<1>2. ASSUME files[f] # None PROVE stale \in Rows /\ stale.hash = files[f].hash /\ ~stale.current
  BY <1>2 DEF TableInv, Rows
<1> HIDE DEF stale
<1>3. files' \in [Files -> Rows \cup {None}]
  BY <1>1, <1>2 DEF TableInv
<1>4. ASSUME NEW g \in Files, files'[g] # None
      PROVE  /\ files[g] # None /\ files'[g].hash = files[g].hash
             /\ files'[g].current /\ disk'[g] # None =>
                   /\ files[g].current /\ disk'[g] = disk[g]
                   /\ files'[g].late = files[g].late
  <2>1. CASE g = f
    BY <1>1, <1>2, <1>4, <2>1 DEF TableInv
  <2>2. CASE g # f
    BY <1>1, <1>4, <2>2 DEF TableInv
  <2>3. QED
    BY <2>1, <2>2
<1>5. QED
  BY <1>3, <1>4, FewerRows

-----------------------------------------------------------------------------
(* The steps. *)

LEMMA InitIInv == Init => IInv
<1> SUFFICES ASSUME Init PROVE IInv
  OBVIOUS
<1>1. OtherTypes
  <2>1. joined \in BOOLEAN /\ other_dirs \in BOOLEAN
    BY Zenon DEF Init
  <2>2. QED
    BY <2>1 DEF Init, OtherTypes
<1>2. AnnounceInv
  BY DEF Init, AnnounceInv, Due
<1>3. ScanInv
  BY DEF Init, ScanInv, Idle, Files, Contents
<1>4. TableInv
  BY DEF Init, TableInv, FilesHaveHashes, RowsAreTrue, Current, Contents
<1>5. WriteInv
  BY DEF Init, WriteInv
<1>6. QED
  BY <1>1, <1>2, <1>3, <1>4, <1>5 DEF IInv

LEMMA ScanLeftAlone ==
    ASSUME ScanInv, UNCHANGED scan, \A f \in OtherFiles : disk'[f] = disk[f]
    PROVE  ScanInv'
  BY DEF ScanInv

LEMMA TableLeftAlone ==
    ASSUME TableInv, UNCHANGED <<hashes, files, disk>>
    PROVE  TableInv'
  BY DEF TableInv, FilesHaveHashes, RowsAreTrue, Current

LEMMA WriteLeftAlone ==
    ASSUME WriteInv, UNCHANGED save, \A f \in CacheFiles : disk'[f] = disk[f] \/ disk'[f] = None
    PROVE  WriteInv'
  BY DEF WriteInv

\* A step at a file of the cache leaves the other directories and the scan alone.
LEMMA CacheDisk ==
    ASSUME IInv, NEW f \in CacheFiles, NEW c \in Contents,
           disk' = disk \/ disk' = [disk EXCEPT ![f] = c]
    PROVE  /\ disk' \in [Files -> Contents]
           /\ \A g \in Files : g # f => disk'[g] = disk[g]
           /\ \A g \in OtherFiles : disk'[g] = disk[g]
           /\ disk'[f] = disk[f] \/ disk'[f] = c
           /\ UNCHANGED scan => ScanInv'
<1>1. /\ disk' \in [Files -> Contents]
      /\ \A g \in Files : g # f => disk'[g] = disk[g]
      /\ disk'[f] = disk[f] \/ disk'[f] = c
  BY DEF IInv, TableInv, Files
<1>2. \A g \in OtherFiles : disk'[g] = disk[g]
  BY <1>1, SharingAssumption DEF Files
<1>3. QED
  BY <1>1, <1>2, ScanLeftAlone DEF IInv

LEMMA RefreshTimerStep == IInv /\ RefreshTimer => IInv'
<1> SUFFICES ASSUME IInv, RefreshTimer PROVE IInv'
  OBVIOUS
<1>1. RefreshFiles({}) /\ UNCHANGED <<joined, other_dirs, disk, files, save, older, scan>>
  BY DEF RefreshTimer
<1>2. AnnounceInv' /\ TableInv'
  BY <1>1, RefreshFilesStep DEF IInv
<1>3. QED
  BY <1>1, <1>2, ScanLeftAlone, WriteLeftAlone DEF IInv, OtherTypes

LEMMA BecomesDueStep == ASSUME IInv, NEW h \in Hashes, BecomesDue(h) PROVE IInv'
<1>1. /\ hashes' = [hashes EXCEPT ![h] = "due"] /\ hashes[h] = "fresh" /\ storing[h] = "none"
      /\ UNCHANGED <<joined, other_dirs, disk, files, save, older, scan, refreshing, storing, clash>>
  BY DEF BecomesDue
<1>2. AnnounceInv'
  BY <1>1 DEF IInv, AnnounceInv, Due
<1>3. TableInv'
  <2>1. \A x \in Hashes : hashes[x] # "none" => hashes'[x] # "none"
    BY <1>1 DEF IInv, AnnounceInv
  <2>2. QED
    BY <1>1, <2>1, RowIsNotNone DEF IInv, TableInv, FilesHaveHashes, RowsAreTrue, Current
<1>4. QED
  BY <1>1, <1>2, <1>3, ScanLeftAlone, WriteLeftAlone DEF IInv, OtherTypes

LEMMA StoreEndsStep == ASSUME IInv, NEW h \in Hashes, StoreEnds(h) PROVE IInv'
<1>1. UNCHANGED <<joined, other_dirs, disk, files, save, older>>
  BY DEF StoreEnds
<1>2. CASE RefreshFiles({h}) /\ UNCHANGED scan
  BY <1>1, <1>2, RefreshFilesStep, ScanLeftAlone, WriteLeftAlone DEF IInv, OtherTypes
<1>3. CASE ~(RefreshFiles({h}) /\ UNCHANGED scan)
  <2>1. storing' = [storing EXCEPT ![h] = "none"] /\ UNCHANGED <<hashes, refreshing, clash>>
    BY <1>3 DEF StoreEnds
  <2>2. AnnounceInv'
    BY <2>1 DEF IInv, AnnounceInv, Due
  <2>3. TableInv'
    BY <1>1, <2>1, TableLeftAlone DEF IInv
  <2>4. scan' = scan \/ scan' = [scan EXCEPT !.step = "walk", !.file = None, !.read = None]
    BY <1>3 DEF StoreEnds
  <2>5. ScanInv'
    BY <1>1, <2>4 DEF IInv, ScanInv
  <2>6. QED
    BY <1>1, <2>2, <2>3, <2>5, WriteLeftAlone DEF IInv, OtherTypes
<1>4. QED
  BY <1>2, <1>3

LEMMA LookupHashStep == ASSUME IInv, NEW h \in Hashes, LookupHash(h) PROVE IInv'
<1>1. /\ files' = WithoutChanged(RowsOf(h))
      /\ UNCHANGED <<joined, other_dirs, disk, hashes, save, older, scan, refreshing, storing, clash>>
  BY DEF LookupHash
<1>2. RowsOf(h) \in SUBSET Files
  BY DEF RowsOf
<1>3. TableInv'
  BY <1>1, <1>2, WithoutChangedRows, FewerRows DEF IInv, TableInv
<1>4. QED
  BY <1>1, <1>3, AnnounceLeftAlone, ScanLeftAlone, WriteLeftAlone DEF IInv, OtherTypes

LEMMA JoinCompleteStep == IInv /\ JoinComplete => IInv'
<1> SUFFICES ASSUME IInv, JoinComplete PROVE IInv'
  OBVIOUS
<1>1. /\ joined' = TRUE
      /\ scan' = [Idle EXCEPT !.step = "walk", !.left = IF other_dirs THEN Files ELSE CacheFiles]
      /\ UNCHANGED <<other_dirs, disk, table, save, older, refreshing, storing, clash>>
  BY DEF JoinComplete
<1>2. CacheFiles \subseteq Files
  BY DEF Files
<1>3. ScanInv'
  BY <1>1, <1>2 DEF IInv, ScanInv, Idle
<1>4. QED
  BY <1>1, <1>3, AnnounceLeftAlone, TableLeftAlone, WriteLeftAlone DEF IInv, OtherTypes, table

LEMMA ScanFileStep == ASSUME IInv, NEW f \in Files, ScanFile(f) PROVE IInv'
<1> DEFINE skip == disk[f] = None \/ Current(f) \/ f \in CacheFiles
<1>1. /\ files' = IF disk[f] # None THEN WithoutChanged({f}) ELSE files
      /\ scan' = [scan EXCEPT !.left = @ \ {f},
                              !.step = IF skip THEN "walk" ELSE "hash",
                              !.file = IF skip THEN None ELSE f]
      /\ disk' = IF f \in CacheFiles /\ files[f] # None /\ ~Current(f)
                 THEN [disk EXCEPT ![f] = None] ELSE disk
      /\ UNCHANGED <<joined, other_dirs, hashes, save, older, refreshing, storing, clash>>
  BY DEF ScanFile
<1>2. ScanInv'
  <2>1. ~skip => f \in OtherFiles
    BY DEF Files
  <2>2. \A g \in OtherFiles : disk'[g] = disk[g]
    BY <1>1, SharingAssumption DEF IInv, TableInv
  <2> HIDE DEF skip
  <2>3. QED
    BY <1>1, <2>1, <2>2 DEF IInv, ScanInv
<1>3. /\ disk' \in [Files -> Contents]
      /\ \A g \in Files : g # f => disk'[g] = disk[g]
      /\ disk'[f] = disk[f] \/ disk'[f] = None
  BY <1>1 DEF IInv, TableInv, Contents
<1>4. TableInv'
  <2>1. files' \in [Files -> Rows \cup {None}] /\ \A g \in Files : files'[g] # None => files'[g] = files[g]
    BY <1>1, WithoutChangedRows DEF IInv, TableInv
  <2>2. ASSUME NEW g \in Files, files'[g] # None
        PROVE  /\ files[g] # None /\ files'[g].hash = files[g].hash
               /\ files'[g].current /\ disk'[g] # None =>
                     /\ files[g].current /\ disk'[g] = disk[g]
                     /\ files'[g].late = files[g].late
    <3>1. files'[g] = files[g]
      BY <2>1, <2>2
    <3>2. CASE g = f
      BY <1>3, <2>2, <3>1, <3>2
    <3>3. CASE g # f
      BY <1>3, <2>2, <3>1, <3>3
    <3>4. QED
      BY <3>2, <3>3
  <2>3. QED
    BY <1>1, <1>3, <2>1, <2>2, FewerRows DEF IInv
<1>5. \A g \in CacheFiles : disk'[g] = disk[g] \/ disk'[g] = None
  BY <1>3 DEF Files
<1>6. QED
  BY <1>1, <1>2, <1>4, <1>5, AnnounceLeftAlone, WriteLeftAlone DEF IInv, OtherTypes

LEMMA ScanEndsStep == IInv /\ (ScanEnds \/ HashInThread) => IInv'
<1> SUFFICES ASSUME IInv, ScanEnds \/ HashInThread PROVE IInv'
  OBVIOUS
<1>1. UNCHANGED <<joined, other_dirs, disk, table, save, older, refreshing, storing, clash>>
  BY DEF ScanEnds, HashInThread
<1>2. ScanInv'
  <2>1. CASE ScanEnds
    BY <1>1, <2>1 DEF ScanEnds, IInv, ScanInv, Idle
  <2>2. CASE HashInThread
    <3>1. scan' = [scan EXCEPT !.step = "record", !.read = disk[scan.file], !.changed = FALSE]
          /\ scan.step = "hash"
      BY <2>2 DEF HashInThread
    <3>2. scan.file \in OtherFiles /\ disk[scan.file] \in Hashes \cup {None}
      BY <3>1 DEF IInv, ScanInv
    <3>3. QED
      BY <1>1, <3>1, <3>2 DEF IInv, ScanInv
  <2>3. QED
    BY <2>1, <2>2
<1>3. QED
  BY <1>1, <1>2, AnnounceLeftAlone, TableLeftAlone, WriteLeftAlone DEF IInv, OtherTypes, table

LEMMA DoneHashingStep == IInv /\ DoneHashing => IInv'
<1> SUFFICES ASSUME IInv, DoneHashing PROVE IInv'
  OBVIOUS
<1> DEFINE f == scan.file
           h == scan.read
<1>1. scan.step = "record" /\ UNCHANGED <<joined, other_dirs, disk, save, older, refreshing>>
  BY DEF DoneHashing
<1>2. /\ f \in OtherFiles /\ f \in Files /\ h \in Hashes \cup {None}
      /\ scan.changed \in BOOLEAN /\ (scan.changed \/ disk[f] = h)
  BY <1>1 DEF IInv, ScanInv, Files
<1>3. WriteInv' /\ OtherTypes'
  BY <1>1, WriteLeftAlone DEF IInv, OtherTypes
<1>4. CASE h = None
  <2>1. scan' = [scan EXCEPT !.step = "walk", !.file = None, !.changed = FALSE]
        /\ UNCHANGED <<table, storing, clash>>
    BY <1>4 DEF DoneHashing
  <2>2. ScanInv'
    BY <1>1, <2>1 DEF IInv, ScanInv
  <2>3. QED
    BY <1>1, <1>3, <2>1, <2>2, AnnounceLeftAlone, TableLeftAlone DEF IInv, table
<1>5. CASE h # None /\ disk[f] = None
  <2>1. StoreHash(h) /\ scan' = [Idle EXCEPT !.step = "died"] /\ UNCHANGED <<files, storing, clash>>
    BY <1>5 DEF DoneHashing
  <2>2. ScanInv'
    BY <1>1, <2>1 DEF IInv, ScanInv, Idle
  <2>3. h \in Hashes
    BY <1>2, <1>5
  <2> HIDE DEF f, h
  <2>4. AnnounceInv'
    BY <1>1, <2>1, <2>3, StoreStep DEF IInv
  <2>5. TableInv'
    BY <1>1, <2>1, <2>3, HashAdded DEF IInv
  <2>6. QED
    BY <1>3, <2>2, <2>4, <2>5 DEF IInv
<1>6. CASE h # None /\ disk[f] # None
  <2>1. /\ StoreHash(h)
        /\ StoreRow(f, h, TRUE, scan.changed)
        /\ \/ /\ Announces(h, TRUE) /\ Store(h, "scan")
              /\ scan' = [scan EXCEPT !.step = "store", !.changed = FALSE]
           \/ /\ scan' = [scan EXCEPT !.step = "walk", !.file = None, !.read = None,
                                      !.changed = FALSE]
              /\ UNCHANGED <<storing, clash>>
    BY <1>6 DEF DoneHashing
  <2>2. ScanInv'
    <3>1. \/ scan' = [scan EXCEPT !.step = "store", !.changed = FALSE]
          \/ scan' = [scan EXCEPT !.step = "walk", !.file = None, !.read = None, !.changed = FALSE]
      BY <2>1
    <3>2. scan'.step \in {"store", "walk"} /\ disk' = disk
      BY <1>1, <3>1 DEF IInv, ScanInv
    <3>3. QED
      BY <3>1, <3>2 DEF IInv, ScanInv
  <2>3. h \in Hashes
    BY <1>2, <1>6
  <2> HIDE DEF f, h
  <2>4. AnnounceInv'
    BY <1>1, <2>1, <2>3, StoreStep DEF IInv
  <2>5. disk' \in [Files -> Contents] /\ disk' = disk
    BY <1>1 DEF IInv, TableInv
  <2>6. TableInv'
    BY <1>2, <2>1, <2>3, <2>5, NewRow DEF IInv
  <2>7. QED
    BY <1>3, <2>2, <2>4, <2>6 DEF IInv
<1>7. QED
  BY <1>4, <1>5, <1>6

LEMMA RenderChangedStep == ASSUME IInv, NEW f \in CacheFiles, RenderChanged(f) PROVE IInv'
<1>1. /\ ~Current(f) /\ f \in Files
      /\ files' = WithoutChanged({f})
      /\ disk' = [disk EXCEPT ![f] = None]
      /\ UNCHANGED <<joined, other_dirs, hashes, save, older, scan, refreshing, storing, clash>>
  BY DEF RenderChanged, Files
<1>2. /\ disk' \in [Files -> Contents] /\ ScanInv'
      /\ \A g \in Files : g # f => disk'[g] = disk[g]
      /\ disk'[f] = disk[f] \/ disk'[f] = None
  BY <1>1, CacheDisk DEF Contents
<1>3. files'[f] = None
  BY <1>1, WithoutChangedRows DEF IInv
<1>4. files' \in [Files -> Rows \cup {None}] /\ \A g \in Files : files'[g] # None => files'[g] = files[g]
  BY <1>1, WithoutChangedRows DEF IInv
<1>5. TableInv'
  BY <1>1, <1>2, <1>3, <1>4, FewerRows DEF IInv
<1>6. WriteInv'
  BY <1>1, <1>2, WriteLeftAlone DEF IInv, Files
<1>7. QED
  BY <1>1, <1>2, <1>5, <1>6, AnnounceLeftAlone DEF IInv, OtherTypes

LEMMA SaveFileStep == ASSUME IInv, NEW f \in CacheFiles, SaveFile(f) PROVE IInv'
<1>1. /\ save' = [save EXCEPT ![f] = "write"]
      /\ older' = IF save[f] = "none" THEN older ELSE older \cup {f}
      /\ disk' = [disk EXCEPT ![f] = Partial]
      /\ files' = Stale(f)
      /\ UNCHANGED <<joined, other_dirs, hashes, scan, refreshing, storing, clash>>
      /\ f \in Files
  BY DEF SaveFile, Files
<1>2. /\ disk' \in [Files -> Contents] /\ ScanInv'
      /\ \A g \in Files : g # f => disk'[g] = disk[g]
      /\ disk'[f] = Partial
  BY <1>1, CacheDisk DEF Contents, IInv, TableInv
<1>3. TableInv'
  BY <1>1, <1>2, WrittenTo DEF IInv
<1>4. WriteInv'
  BY <1>1, <1>2 DEF IInv, WriteInv, Files
<1>5. QED
  BY <1>1, <1>2, <1>3, <1>4, AnnounceLeftAlone DEF IInv, OtherTypes

LEMMA WriteDataStep == ASSUME IInv, NEW f \in CacheFiles, WriteData(f) PROVE IInv'
<1>1. /\ files' = Stale(f) /\ f \in Files
      /\ UNCHANGED <<joined, other_dirs, disk, hashes, save, older, scan, refreshing, storing, clash>>
  BY DEF WriteData, Files
<1>2. TableInv'
  BY <1>1, WrittenTo DEF IInv, TableInv
<1>3. QED
  BY <1>1, <1>2, AnnounceLeftAlone, ScanLeftAlone, WriteLeftAlone DEF IInv, OtherTypes

LEMMA ChangeStep ==
    ASSUME IInv, NEW f \in OtherFiles, NEW content \in Hashes \cup {None}, Change(f, content)
    PROVE  IInv'
<1>1. /\ disk' = [disk EXCEPT ![f] = content]
      /\ files' = Stale(f)
      /\ scan' = IF scan.step = "record" /\ scan.file = f THEN [scan EXCEPT !.changed = TRUE] ELSE scan
      /\ UNCHANGED <<joined, other_dirs, hashes, save, older, refreshing, storing, clash>>
      /\ f \in Files
  BY DEF Change, Files
<1>2. /\ disk' \in [Files -> Contents] /\ disk'[f] = content
      /\ \A g \in Files : g # f => disk'[g] = disk[g]
  BY <1>1 DEF IInv, TableInv, Contents
<1>3. TableInv'
  BY <1>1, <1>2, WrittenTo DEF IInv
<1>4. ScanInv'
  <2>1. \A g \in OtherFiles : disk'[g] \in Hashes \cup {None} /\ (g # f => disk'[g] = disk[g])
    BY <1>2 DEF IInv, ScanInv, Files
  <2>2. QED
    BY <1>1, <2>1 DEF IInv, ScanInv
<1>5. WriteInv'
  BY <1>1, <1>2, WriteLeftAlone, SharingAssumption DEF IInv, Files
<1>6. QED
  BY <1>1, <1>3, <1>4, <1>5, AnnounceLeftAlone DEF IInv, OtherTypes

LEMMA SaveCompleteStep ==
    ASSUME IInv, NEW f \in CacheFiles, NEW h \in Hashes, NEW wanted \in BOOLEAN,
           SaveComplete(f, h, wanted)
    PROVE  IInv'
<1>1. /\ UNCHANGED <<joined, other_dirs, scan, refreshing>>
      /\ \/ disk[f] # None /\ Announces(h, wanted) /\ Store(h, "new")
         \/ UNCHANGED <<storing, clash>>
      /\ f \in Files /\ h \in Contents
  BY DEF SaveComplete, Files, Contents
<1>2. CASE /\ save[f] = "write"
           /\ LatestEnds(f)
           /\ disk' = Written(f, h)
           /\ Record(f, h, wanted, FALSE)
  <2>1. disk[f] \in {Partial, None}
    BY <1>2 DEF IInv, WriteInv
  <2>2. /\ disk' = disk \/ disk' = [disk EXCEPT ![f] = h]
        /\ disk[f] = None => disk' = disk
    BY <1>2, SharingAssumption DEF Written
  <2>3. disk[f] # None => disk'[f] = h
    BY <1>1, <1>2, <2>1 DEF Written, IInv, TableInv
  <2>4. /\ disk' \in [Files -> Contents] /\ ScanInv'
        /\ \A g \in Files : g # f => disk'[g] = disk[g]
    BY <1>1, <2>2, CacheDisk
  <2>5. AnnounceInv' /\ TableInv'
    BY <1>1, <1>2, <2>2, <2>3, <2>4, RecordStep DEF IInv
  <2>6. WriteInv' /\ UNCHANGED older
    BY <1>2, <2>4 DEF LatestEnds, IInv, WriteInv, Files
  <2>7. QED
    BY <1>1, <2>4, <2>5, <2>6 DEF IInv, OtherTypes
<1>3. CASE OlderEnds(f) /\ UNCHANGED disk /\ Record(f, h, wanted, TRUE)
  <2>1. UNCHANGED <<save, older>> /\ disk' \in [Files -> Contents]
    BY <1>3 DEF OlderEnds, IInv, TableInv
  <2>2. AnnounceInv' /\ TableInv'
    BY <1>1, <1>3, <2>1, RecordStep DEF IInv
  <2>3. QED
    BY <1>1, <1>3, <2>1, <2>2, ScanLeftAlone, WriteLeftAlone DEF IInv, OtherTypes
<1>4. QED
  BY <1>2, <1>3 DEF SaveComplete

LEMMA DecWrittenStep ==
    ASSUME IInv, NEW f \in CacheFiles, NEW h \in Hashes, DecWritten(f, h)
    PROVE  IInv'
<1>1. /\ save[f] = "write"
      /\ disk' = Written(f, h)
      /\ save' = [save EXCEPT ![f] = IF disk[f] = None THEN "none" ELSE "hash"]
      /\ UNCHANGED <<joined, other_dirs, table, older, scan, refreshing, storing, clash>>
      /\ f \in Files /\ h \in Contents
  BY DEF DecWritten, Files, Contents
<1>2. disk' = disk \/ (disk' = [disk EXCEPT ![f] = h] /\ disk[f] = Partial)
  BY <1>1 DEF Written
<1>3. /\ disk' \in [Files -> Contents] /\ ScanInv'
      /\ \A g \in Files : g # f => disk'[g] = disk[g]
  BY <1>1, <1>2, CacheDisk
<1>4. WriteInv'
  BY <1>1, <1>3 DEF IInv, WriteInv, Files
<1>5. TableInv'
  <2>1. \A x \in Hashes : x # Partial
    BY SharingAssumption
  <2>2. files' = files /\ hashes' = hashes
    BY <1>1 DEF table
  <2>3. RowsAreTrue'
    BY <1>1, <1>2, <1>3, <2>1, <2>2, RowIsNotNone, SharingAssumption DEF IInv, TableInv, RowsAreTrue, Current
  <2>4. QED
    BY <1>3, <2>2, <2>3 DEF IInv, TableInv, FilesHaveHashes
<1>6. QED
  BY <1>1, <1>3, <1>4, <1>5, AnnounceLeftAlone DEF IInv, OtherTypes, table

LEMMA DecHashedStep ==
    ASSUME IInv, NEW f \in CacheFiles, NEW h \in Hashes, DecHashed(f, h)
    PROVE  IInv'
<1>1. /\ disk[f] \in {h, None}
      /\ save' = [save EXCEPT ![f] = "none"] /\ UNCHANGED older
      /\ Record(f, h, FALSE, FALSE)
      /\ UNCHANGED <<joined, other_dirs, disk, scan, refreshing, storing, clash>>
      /\ f \in Files
  BY DEF DecHashed, LatestEnds, Files
<1>2. disk' \in [Files -> Contents]
  BY <1>1 DEF IInv, TableInv
<1>3. AnnounceInv' /\ TableInv'
  BY <1>1, <1>2, RecordStep DEF IInv
<1>4. WriteInv'
  BY <1>1 DEF IInv, WriteInv
<1>5. QED
  BY <1>1, <1>3, <1>4, ScanLeftAlone DEF IInv, OtherTypes

\* A file of the cache goes, or stays, and the tables know nothing of it.
LEMMA Removal ==
    ASSUME IInv, NEW f \in CacheFiles,
           disk' = disk \/ disk' = [disk EXCEPT ![f] = None],
           save' = save \/ save' = [save EXCEPT ![f] = "none"], UNCHANGED older,
           UNCHANGED <<joined, other_dirs, table, scan, refreshing, storing, clash>>
    PROVE  IInv'
<1>1. /\ disk' \in [Files -> Contents] /\ ScanInv'
      /\ \A g \in Files : g # f => disk'[g] = disk[g]
      /\ disk'[f] = disk[f] \/ disk'[f] = None
  BY CacheDisk DEF Contents
<1>2. files' \in [Files -> Rows \cup {None}] /\ files' = files
  BY DEF IInv, TableInv, table
<1>3. TableInv'
  BY <1>1, <1>2, FewerRows DEF IInv, table
<1>4. WriteInv'
  BY <1>1 DEF IInv, WriteInv, Files
<1>5. QED
  BY <1>1, <1>3, <1>4, AnnounceLeftAlone DEF IInv, OtherTypes, table

LEMMA RemoveStep ==
    ASSUME IInv, NEW f \in CacheFiles, Remove(f) \/ SaveError(f)
    PROVE  IInv'
<1>1. CASE Remove(f)
  BY <1>1, Removal DEF Remove
<1>2. CASE SaveError(f)
  BY <1>2, Removal DEF SaveError, LatestEnds, OlderEnds
<1>3. QED
  BY <1>1, <1>2

LEMMA RestartStep == IInv /\ Restart => IInv'
<1> SUFFICES ASSUME IInv, Restart PROVE IInv'
  OBVIOUS
<1>1. /\ joined' = FALSE /\ other_dirs' \in BOOLEAN
      /\ save' = [f \in CacheFiles |-> "none"] /\ older' = {}
      /\ scan' = Idle
      /\ files' = [f \in Files |->
                   IF disk[f] = None \/ (f \in OtherFiles /\ ~other_dirs') THEN None ELSE files[f]]
      /\ refreshing' = {}
      /\ storing' = [h \in Hashes |-> "none"]
      /\ UNCHANGED <<disk, hashes, clash>>
  BY Zenon DEF Restart
<1>2. OtherTypes'
  BY <1>1 DEF OtherTypes
<1>3. AnnounceInv'
  BY <1>1 DEF IInv, AnnounceInv
<1>4. ScanInv'
  BY <1>1 DEF IInv, ScanInv, Idle
<1>5. \A f \in Files : files'[f] # None => files'[f] = files[f]
  BY <1>1
<1>6. files' \in [Files -> Rows \cup {None}] /\ disk' \in [Files -> Contents]
  BY <1>1 DEF IInv, TableInv
<1>7. TableInv'
  BY <1>1, <1>5, <1>6, FewerRows DEF IInv
<1>8. WriteInv'
  BY <1>1 DEF WriteInv
<1>9. QED
  BY <1>2, <1>3, <1>4, <1>7, <1>8 DEF IInv

LEMMA NextIInv == IInv /\ [Next]_vars => IInv'
<1> SUFFICES ASSUME IInv, [Next]_vars PROVE IInv'
  OBVIOUS
<1>1. CASE RefreshTimer \/ JoinComplete \/ Restart
  BY <1>1, RefreshTimerStep, JoinCompleteStep, RestartStep
<1>2. CASE \E h \in Hashes : BecomesDue(h) \/ StoreEnds(h) \/ LookupHash(h)
  BY <1>2, BecomesDueStep, StoreEndsStep, LookupHashStep
<1>3. CASE ScanStep
  BY <1>3, ScanFileStep, ScanEndsStep, DoneHashingStep DEF ScanStep
<1>4. CASE \E f \in CacheFiles :
             RenderChanged(f) \/ SaveFile(f) \/ WriteData(f) \/ SaveError(f) \/ Remove(f)
  BY <1>4, RenderChangedStep, SaveFileStep, WriteDataStep, RemoveStep
<1>5. CASE \E f \in CacheFiles, h \in Hashes :
             \/ DecWritten(f, h) \/ DecHashed(f, h)
             \/ \E wanted \in BOOLEAN : SaveComplete(f, h, wanted)
  BY <1>5, DecWrittenStep, DecHashedStep, SaveCompleteStep
<1>6. CASE \E f \in OtherFiles, content \in Hashes \cup {None} : Change(f, content)
  BY <1>6, ChangeStep
<1>7. CASE UNCHANGED vars
  BY <1>7, AnnounceLeftAlone, ScanLeftAlone, TableLeftAlone, WriteLeftAlone
  DEF vars, table, IInv, OtherTypes
<1>8. QED
  BY <1>1, <1>2, <1>3, <1>4, <1>5, <1>6, <1>7 DEF Next

-----------------------------------------------------------------------------
(* The theorems. *)

\* The inductive invariant holds in every reachable state of the shared files, for any
\* number of them, with any number saved to one path at a time.
THEOREM Inductive == Safety => []IInv
  BY InitIInv, NextIInv, PTL DEF Safety

\* What is shared is always well formed.
THEOREM TypeCorrect == Spec => []TypeOK
<1>1. IInv => TypeOK
  <2>1. Due \subseteq Hashes
    BY DEF Due
  <2>2. QED
    BY <2>1 DEF IInv, TypeOK, OtherTypes, AnnounceInv, ScanInv, TableInv, WriteInv
<1>2. QED
  BY <1>1, Inductive, PTL DEF Spec

\* Every file in the database has its hash there, and the hash is that of its content unless
\* the file was changed, or replaced by another download, between being hashed and being
\* recorded: for any number of files, of downloads of one of them, and of scans.
THEOREM SoundDatabase == Spec => []DatabaseIsSound
<1>1. IInv => DatabaseIsSound
  BY DEF IInv, TableInv, DatabaseIsSound
<1>2. QED
  BY <1>1, Inductive, PTL DEF Spec

\* No hash is stored in the DHT while it is being stored, so that storeValue's exception
\* never ends a chain of refreshes.
THEOREM StoredOnceAtATime == Spec => []NeverStoredTwice
<1>1. IInv => NeverStoredTwice
  BY DEF IInv, AnnounceInv, NeverStoredTwice
<1>2. QED
  BY <1>1, Inductive, PTL DEF Spec

-----------------------------------------------------------------------------
(***************************************************************************)
(* How CacheManager saves a download that is passed on to apt (Save):      *)
(* theorems for every set of downloads, file size, size of the pieces and  *)
(* size of the reads.  The inductive invariant, SaveInv, ties each         *)
(* download's HashObject and stream to how far it is; RowInv adds what     *)
(* holds of the row and the destination.                                   *)
(***************************************************************************)

\* A HashObject, and a GrowingFileStream.
HashType == [size : Sizes, pieceSize : 0 .. PIECE_SIZE, pieces : Seq(0 .. PIECE_SIZE)]

StreamType == [available : Sizes, position : Sizes, open : BOOLEAN,
               deferred : BOOLEAN, finished : BOOLEAN, remove : BOOLEAN,
               closed : BOOLEAN, ended : BOOLEAN]

\* While data comes in, all pieces that are hashed are full, and there is data beyond them.
Growing(h) ==
    /\ \A i \in 1 .. Len(h.pieces) : h.pieces[i] = PIECE_SIZE
    /\ h.size = Len(h.pieces) * PIECE_SIZE + h.pieceSize
    /\ h.pieces # <<>> => h.pieceSize > 0

\* PiecesAreWhole of one download.
Whole(h) ==
    h.pieces # <<>> =>
        /\ \A i \in 1 .. Len(h.pieces) - 1 : h.pieces[i] = PIECE_SIZE
        /\ h.pieces[Len(h.pieces)] \in 1 .. PIECE_SIZE
        /\ h.size = (Len(h.pieces) - 1) * PIECE_SIZE + h.pieces[Len(h.pieces)]

-----------------------------------------------------------------------------

\* Division by the size of a piece.
LEMMA Division ==
    ASSUME NEW a \in Nat, NEW b \in Nat \ {0}
    PROVE  a \div b \in Nat /\ (a \div b) * b <= a /\ a < (a \div b) * b + b
  OBVIOUS

\* Two numbers of pieces together.
LEMMA Distributes ==
    ASSUME NEW a \in Nat, NEW b \in Nat, NEW c \in Nat
    PROVE  (a + b) * c = a * c + b * c
  OBVIOUS

\* HashObject.update() hashes full pieces only, and keeps some data for the digest.
LEMMA UpdateGrows ==
    ASSUME NEW h \in HashType, Growing(h), h.size < Length, NEW n \in 1 .. MaxData
    PROVE  Update(h, n) \in HashType /\ Growing(Update(h, n)) /\ Update(h, n).size = h.size + n
<1> DEFINE u == Update(h, n)
           ps == h.pieceSize
           closed == (ps + n - 1) \div PIECE_SIZE
           full == [i \in 1 .. closed |-> PIECE_SIZE]
           old == h.pieces
           new == old \o full
<1>1. /\ PIECE_SIZE \in Nat /\ PIECE_SIZE > 0 /\ Length \in Nat /\ MaxData \in Nat /\ n \in Nat /\ n > 0
      /\ ps \in Nat /\ ps <= PIECE_SIZE /\ h.size \in Nat /\ old \in Seq(0 .. PIECE_SIZE)
  BY SaveAssumption DEF HashType, Sizes
<1>2. /\ closed \in Nat /\ closed * PIECE_SIZE <= ps + n - 1
      /\ ps + n - 1 < closed * PIECE_SIZE + PIECE_SIZE
  <2> DEFINE a == ps + n - 1
  <2>1. a \in Nat /\ PIECE_SIZE \in Nat \ {0}
    BY <1>1
  <2> HIDE DEF a
  <2>2. a \div PIECE_SIZE \in Nat /\ (a \div PIECE_SIZE) * PIECE_SIZE <= a /\ a < (a \div PIECE_SIZE) * PIECE_SIZE + PIECE_SIZE
    BY <2>1, Division
  <2> QED  BY <2>2 DEF a
<1>3. /\ u.size = h.size + n /\ u.pieceSize = ps + n - closed * PIECE_SIZE /\ u.pieces = new
      /\ u = [size |-> h.size + n, pieceSize |-> ps + n - closed * PIECE_SIZE, pieces |-> new]
  BY DEF Update
<1> HIDE DEF u, ps, old, closed
<1>4. full \in Seq(0 .. PIECE_SIZE) /\ Len(full) = closed /\ \A i \in 1 .. closed : full[i] = PIECE_SIZE
  <2>1. full \in [1 .. closed -> 0 .. PIECE_SIZE]
    BY <1>1
  <2>2. full \in Seq(0 .. PIECE_SIZE)
    BY <1>2, <2>1, IsASeq
  <2> QED  BY <1>2, <2>2, LenProperties
<1> HIDE DEF full
<1>5. /\ new \in Seq(0 .. PIECE_SIZE) /\ Len(old) \in Nat /\ Len(new) = Len(old) + closed
      /\ \A i \in 1 .. Len(new) : new[i] = IF i <= Len(old) THEN old[i] ELSE full[i - Len(old)]
  BY <1>1, <1>4, ConcatProperties, LenProperties
<1>6. \A i \in 1 .. Len(new) : new[i] = PIECE_SIZE
  <2>1. \A i \in 1 .. Len(old) : old[i] = PIECE_SIZE
    BY DEF Growing, old
  <2> TAKE i \in 1 .. Len(new)
  <2>2. CASE i <= Len(old)
    BY <1>5, <2>1, <2>2
  <2>3. CASE ~(i <= Len(old))
    <3>1. i - Len(old) \in 1 .. closed
      BY <1>2, <1>5, <2>3
    <3> QED  BY <1>4, <1>5, <2>3, <3>1
  <2> QED  BY <2>2, <2>3
<1> HIDE DEF new
<1>7. u.pieceSize \in 1 .. PIECE_SIZE
  <2> DEFINE most == closed * PIECE_SIZE
  <2>1. most \in Nat /\ most <= ps + n - 1 /\ ps + n - 1 < most + PIECE_SIZE /\ u.pieceSize = ps + n - most
    BY <1>1, <1>2, <1>3
  <2> HIDE DEF most
  <2> QED  BY <1>1, <2>1
<1>8. u.size = Len(new) * PIECE_SIZE + u.pieceSize
  <2>1. h.size = Len(old) * PIECE_SIZE + ps
    BY DEF Growing, old, ps
  <2>2. Len(new) * PIECE_SIZE = Len(old) * PIECE_SIZE + closed * PIECE_SIZE
    BY <1>1, <1>2, <1>5, Distributes
  <2> DEFINE a == Len(old) * PIECE_SIZE
             b == closed * PIECE_SIZE
             c == Len(new) * PIECE_SIZE
  <2>3. a \in Nat /\ b \in Nat
    BY <1>1, <1>2, <1>5
  <2>4. h.size = a + ps /\ c = a + b /\ u.size = h.size + n /\ u.pieceSize = ps + n - b
    BY <1>3, <2>1, <2>2
  <2> HIDE DEF a, b, c
  <2>5. u.size = c + u.pieceSize
    BY <1>1, <2>3, <2>4
  <2> QED  BY <2>5 DEF c
<1>9. Growing(u)
  BY <1>3, <1>6, <1>7, <1>8 DEF Growing
<1>10. u \in HashType
  <2>1. u.size \in Sizes
    BY <1>1, <1>3 DEF Sizes
  <2>2. u.pieceSize \in 0 .. PIECE_SIZE
    BY <1>1, <1>7
  <2> QED  BY <1>3, <1>5, <2>1, <2>2 DEF HashType
<1> QED  BY <1>3, <1>9, <1>10 DEF u

\* HashObject.digest() hashes what is left as the last piece.
LEMMA DigestIsWhole ==
    ASSUME NEW h \in HashType, Growing(h), NEW sha1 \in BOOLEAN
    PROVE  /\ Digest(h, sha1) \in HashType /\ Digest(h, sha1).size = h.size
           /\ sha1 \/ h.size > 0 => Whole(Digest(h, sha1))
<1>1. CASE sha1 /\ h.pieces = <<>>
  BY <1>1 DEF Digest, Whole
<1>2. CASE ~(sha1 /\ h.pieces = <<>>)
  <2> DEFINE old == h.pieces
             ps == h.pieceSize
             new == Append(old, ps)
             g == [h EXCEPT !.pieces = new, !.pieceSize = 0]
  <2>1. /\ old \in Seq(0 .. PIECE_SIZE) /\ ps \in 0 .. PIECE_SIZE /\ PIECE_SIZE \in Nat
        /\ \A i \in 1 .. Len(old) : old[i] = PIECE_SIZE
        /\ h.size = Len(old) * PIECE_SIZE + ps
    BY SaveAssumption DEF HashType, Growing
  <2>2. /\ new \in Seq(0 .. PIECE_SIZE) /\ Len(new) = Len(old) + 1 /\ Len(old) \in Nat
        /\ \A i \in 1 .. Len(old) : new[i] = old[i]
        /\ new[Len(old) + 1] = ps
    BY <2>1, AppendProperties, LenProperties
  <2>3. Digest(h, sha1) = g
    BY <1>2 DEF Digest
  <2>4. g.pieces = new /\ g.size = h.size /\ g.pieceSize = 0 /\ g \in HashType
    <3>1. new \in Seq(0 .. PIECE_SIZE) /\ 0 \in 0 .. PIECE_SIZE
      BY <2>1, <2>2
    <3> HIDE DEF new
    <3> QED  BY <3>1 DEF HashType
  <2>5. sha1 \/ h.size > 0 => ps > 0
    <3>1. CASE old = <<>>
      <4>1. ~sha1 /\ Len(old) = 0
        BY <1>2, <3>1
      <4> QED  BY <2>1, <4>1
    <3>2. CASE old # <<>>
      BY <3>2 DEF Growing
    <3> QED  BY <3>1, <3>2
  <2> HIDE DEF old, ps, new, g
  <2>6. Len(new) - 1 = Len(old) /\ new[Len(new)] = ps
    BY <2>2
  <2>7. ps > 0 => Whole(g)
    <3> SUFFICES ASSUME ps > 0 PROVE Whole(g)
      OBVIOUS
    <3>1. ps \in 1 .. PIECE_SIZE
      BY <2>1
    <3>2. g.size = (Len(new) - 1) * PIECE_SIZE + ps
      BY <2>1, <2>4, <2>6
    <3>3. \A i \in 1 .. Len(new) - 1 : new[i] = PIECE_SIZE
      BY <2>1, <2>2, <2>6
    <3> QED  BY <2>4, <2>6, <3>1, <3>2, <3>3 DEF Whole
  <2> QED  BY <2>3, <2>4, <2>5, <2>7
<1> QED  BY <1>1, <1>2

-----------------------------------------------------------------------------
(* Streams. *)

\* EndIsComplete of one stream, with what it rests on.
StreamFits(s) ==
    /\ s \in StreamType
    /\ s.position <= s.available
    /\ s.ended => s.finished /\ s.position = s.available
    /\ s.open \/ s.closed \/ s.ended

\* s and t differ in what has been read only.
SameButRead(s, t) ==
    /\ t.available = s.available
    /\ t.open = s.open /\ t.finished = s.finished /\ t.remove = s.remove
    /\ t.closed = s.closed /\ t.ended = s.ended

\* What the proofs need of the constants.
LEMMA SaveConstants ==
    /\ Length \in Nat /\ Length > 0 /\ MaxData \in Nat /\ MaxData > 0
    /\ CHUNK_SIZE \in Nat /\ CHUNK_SIZE > 0 /\ NoFile \notin Downloads
  BY SaveAssumption

\* GrowingFileStream reads what is available.
LEMMA ReadDataFits ==
    ASSUME NEW s \in StreamType, StreamFits(s)
    PROVE  StreamFits(ReadData(s)) /\ SameButRead(s, ReadData(s))
<1> DEFINE size == ReadSize(s)
           t == [s EXCEPT !.position = @ + size, !.deferred = FALSE]
<1>1. /\ s.position \in Nat /\ s.available \in Nat /\ s.position <= s.available /\ s.available <= Length + MaxData
      /\ s.ended => s.finished /\ s.position = s.available
      /\ s.open \/ s.closed \/ s.ended
  BY SaveConstants DEF StreamFits, StreamType, Sizes
<1>2. size \in Nat /\ s.position + size <= s.available
  BY <1>1, SaveConstants DEF ReadSize
<1>3. t = ReadData(s)
  BY DEF ReadData
<1> HIDE DEF size
<1>4. s.position + size \in Sizes
  BY <1>1, <1>2, SaveConstants DEF Sizes
<1>5. t \in StreamType /\ t.position = s.position + size /\ SameButRead(s, t)
  BY <1>4 DEF StreamType, SameButRead
<1> HIDE DEF t
<1>6. t.position <= t.available /\ (t.ended => t.position = t.available)
  BY <1>1, <1>2, <1>5 DEF SameButRead
<1> QED  BY <1>1, <1>3, <1>5, <1>6 DEF StreamFits, SameButRead

\* updateAvailable() wakes a reader that waits.
LEMMA UpdateAvailableFits ==
    ASSUME NEW s \in StreamType, StreamFits(s), ~s.finished, NEW n \in 1 .. MaxData,
           s.available + n \in Sizes
    PROVE  LET u == UpdateAvailable(s, n)
           IN  StreamFits(u) /\ SameButRead([s EXCEPT !.available = s.available + n], u)
<1> DEFINE more == [s EXCEPT !.available = s.available + n]
           u == UpdateAvailable(s, n)
<1>1. s.position \in Nat /\ s.available \in Nat /\ n \in Nat /\ s.position <= s.available /\ ~s.ended
  BY SaveConstants DEF StreamFits, StreamType, Sizes
<1>2. /\ more \in StreamType /\ more.available = s.available + n /\ more.position = s.position
      /\ ~more.ended /\ more.open = s.open /\ more.closed = s.closed
  BY <1>1 DEF StreamType
<1>3. u = IF more.deferred /\ more.position < more.available THEN ReadData(more) ELSE more
  <2>1. [s EXCEPT !.available = IF s.finished THEN @ ELSE @ + n] = more
    OBVIOUS
  <2> QED  BY <2>1 DEF UpdateAvailable
<1> HIDE DEF more, u
<1>4. StreamFits(more)
  BY <1>1, <1>2 DEF StreamFits
<1>5. SameButRead(more, more)
  BY DEF SameButRead
<1>6. StreamFits(u) /\ SameButRead(more, u)
  BY <1>2, <1>3, <1>4, <1>5, ReadDataFits
<1> QED  BY <1>6 DEF more, u

\* allAvailable ends the stream of a reader that has got all and waits, and no other.
LEMMA AllAvailableFits ==
    ASSUME NEW s \in StreamType, StreamFits(s), NEW remove \in BOOLEAN
    PROVE  LET u == AllAvailable(s, remove)
           IN  /\ StreamFits(u) /\ u.available = s.available
               /\ u.finished /\ u.remove = remove /\ u.closed = s.closed
               /\ u.ended => s.ended \/ Ends(s)
<1> DEFINE f == Finished(s, remove)
           u == AllAvailable(s, remove)
<1>1. /\ s.position \in Nat /\ s.available \in Nat /\ s.position <= s.available
      /\ s.open \in BOOLEAN /\ s.closed \in BOOLEAN /\ s.ended \in BOOLEAN /\ s.deferred \in BOOLEAN
      /\ s.ended => s.position = s.available
      /\ s.open \/ s.closed \/ s.ended
  BY SaveConstants DEF StreamFits, StreamType, Sizes
<1>2. /\ f \in StreamType /\ f.finished /\ f.remove = remove
      /\ f.available = s.available /\ f.position = s.position
      /\ f.open = s.open /\ f.closed = s.closed /\ f.ended = s.ended /\ f.deferred = s.deferred
  BY DEF Finished, StreamType
<1>3. u = IF Ends(f) THEN [Closed(f) EXCEPT !.deferred = FALSE, !.ended = TRUE]
          ELSE IF f.deferred THEN ReadData(f)
          ELSE IF f.closed THEN Closed(f)
          ELSE f
  BY DEF AllAvailable
<1>4. Ends(f) <=> Ends(s)
  BY <1>2 DEF Ends
<1> HIDE DEF f, u
<1>5. StreamFits(f)
  BY <1>1, <1>2 DEF StreamFits
<1>6. CASE Ends(f)
  <2> DEFINE g == [Closed(f) EXCEPT !.deferred = FALSE, !.ended = TRUE]
  <2>1. u = g /\ f.position = f.available
    BY <1>1, <1>2, <1>3, <1>6 DEF Ends
  <2>2. /\ g \in StreamType /\ g.finished = f.finished /\ g.remove = f.remove
        /\ g.available = f.available /\ g.position = f.position /\ g.closed = f.closed /\ g.ended
    BY <1>2 DEF StreamType, Closed
  <2> HIDE DEF g
  <2>3. StreamFits(g)
    BY <1>1, <1>2, <2>1, <2>2 DEF StreamFits
  <2> QED  BY <1>2, <1>4, <1>6, <2>1, <2>2, <2>3 DEF u
<1>7. CASE ~Ends(f) /\ f.deferred
  <2>1. u = ReadData(f)
    BY <1>3, <1>7
  <2>2. StreamFits(u) /\ SameButRead(f, u)
    BY <1>2, <1>5, <2>1, ReadDataFits
  <2> QED  BY <1>2, <2>2 DEF u, SameButRead
<1>8. CASE ~Ends(f) /\ ~f.deferred /\ f.closed
  <2> DEFINE g == Closed(f)
  <2>1. u = g
    BY <1>3, <1>8
  <2>2. /\ g \in StreamType /\ g.finished = f.finished /\ g.remove = f.remove
        /\ g.available = f.available /\ g.position = f.position /\ g.closed = f.closed /\ g.ended = f.ended
    BY <1>2 DEF StreamType, Closed
  <2> HIDE DEF g
  <2>3. StreamFits(g)
    BY <1>5, <1>8, <2>2 DEF StreamFits
  <2> QED  BY <1>2, <2>1, <2>2, <2>3 DEF u
<1>9. CASE ~Ends(f) /\ ~f.deferred /\ ~f.closed
  BY <1>2, <1>3, <1>5, <1>9 DEF u
<1> QED  BY <1>6, <1>7, <1>8, <1>9

-----------------------------------------------------------------------------
(* Downloads. *)

Phases == {"waiting", "streaming", "saved", "hashing", "failed"}

\* What is true of a download d in the phase ph with the hasher h and the stream s, while
\* p is at the destination and dec at that of the decompressed file.
Fits(d, ph, h, s, p, dec) ==
    /\ StreamFits(s)
    /\ s.available <= h.size
    /\ ph \in {"waiting", "streaming"} => ~s.finished /\ Growing(h)
    /\ ph \in {"saved", "hashing"} => Whole(h)
    /\ ph = "failed" => s.remove /\ dec # d /\ (s.ended /\ ~s.closed => p # d)

\* The types.
SaveTypes ==
    /\ compressed \in BOOLEAN
    /\ expected \subseteq Downloads
    /\ phase \in [Downloads -> Phases]
    /\ right \in [Downloads -> BOOLEAN]
    /\ hasher \in [Downloads -> HashType]
    /\ stream \in [Downloads -> StreamType]
    /\ path \in Downloads \cup {NoFile}
    /\ decFile \in Downloads \cup {NoFile}
    /\ row \in [hashOf : Downloads, file : Downloads, size : Sizes] \cup {NoFile}
    /\ during \in [Downloads -> SUBSET Downloads]

\* The inductive invariant.
SaveInv ==
    /\ SaveTypes
    /\ ~compressed => decFile = NoFile
    /\ \A d \in Downloads : Fits(d, phase[d], hasher[d], stream[d], path, decFile)

\* A step of one download leaves the others as they are.
LEMMA DownloadStep ==
    ASSUME SaveInv, NEW d \in Downloads,
           NEW ph \in Phases, NEW h \in HashType, NEW s \in StreamType,
           phase' = [phase EXCEPT ![d] = ph],
           hasher' = [hasher EXCEPT ![d] = h],
           stream' = [stream EXCEPT ![d] = s],
           UNCHANGED <<compressed, expected>>, right' \in [Downloads -> BOOLEAN],
           path' \in {path, NoFile, d}, decFile' \in {decFile, NoFile, d}, ~compressed => decFile' = NoFile,
           row' \in [hashOf : Downloads, file : Downloads, size : Sizes] \cup {NoFile},
           during' \in [Downloads -> SUBSET Downloads],
           Fits(d, ph, h, s, path', decFile')
    PROVE  SaveInv'
<1>1. SaveTypes
  BY DEF SaveInv
<1>2. /\ phase' \in [Downloads -> Phases] /\ hasher' \in [Downloads -> HashType]
      /\ stream' \in [Downloads -> StreamType]
      /\ path' \in Downloads \cup {NoFile} /\ decFile' \in Downloads \cup {NoFile}
  BY <1>1 DEF SaveTypes
<1>3. SaveTypes'
  BY <1>1, <1>2 DEF SaveTypes
<1>4. ASSUME NEW e \in Downloads
      PROVE  Fits(e, phase'[e], hasher'[e], stream'[e], path', decFile')
  <2>1. CASE e = d
    <3>1. phase'[e] = ph /\ hasher'[e] = h /\ stream'[e] = s
      BY <1>1, <2>1 DEF SaveTypes
    <3> QED  BY <2>1, <3>1
  <2>2. CASE e # d
    <3>1. phase'[e] = phase[e] /\ hasher'[e] = hasher[e] /\ stream'[e] = stream[e]
      BY <1>1, <2>2 DEF SaveTypes
    <3>2. Fits(e, phase[e], hasher[e], stream[e], path, decFile)
      BY DEF SaveInv
    <3>3. (path # e => path' # e) /\ (decFile # e => decFile' # e)
      BY <2>2, SaveConstants
    <3> DEFINE x == phase[e]
               y == hasher[e]
               z == stream[e]
    <3> HIDE DEF x, y, z
    <3>4. Fits(e, x, y, z, path, decFile) => Fits(e, x, y, z, path', decFile')
      BY <3>3 DEF Fits
    <3> QED  BY <3>1, <3>2, <3>4 DEF x, y, z
  <2> QED  BY <2>1, <2>2
<1>5. ~compressed' => decFile' = NoFile
  OBVIOUS
<1> QED  BY <1>3, <1>4, <1>5 DEF SaveInv

\* What a download has when it begins.
LEMMA NewFits ==
    /\ NewHash \in HashType /\ NewStream \in StreamType
    /\ StreamFits(NewStream) /\ Growing(NewHash)
    /\ NewStream.available = 0 /\ NewHash.size = 0
    /\ ~NewStream.finished
<1>1. <<>> \in Seq(0 .. PIECE_SIZE) /\ Len(<<>>) = 0 /\ 0 \in Sizes /\ 0 \in 0 .. PIECE_SIZE /\ PIECE_SIZE \in Nat
  BY EmptySeq, SaveConstants, SaveAssumption DEF Sizes
<1>2. NewHash \in HashType /\ NewHash.pieces = <<>> /\ NewHash.size = 0 /\ NewHash.pieceSize = 0
  BY <1>1 DEF NewHash, HashType
<1>3. NewStream \in StreamType
  BY <1>1 DEF NewStream, StreamType
<1>4. StreamFits(NewStream)
  BY <1>3 DEF NewStream, StreamFits
<1>5. Growing(NewHash)
  BY <1>1, <1>2 DEF Growing
<1> QED  BY <1>2, <1>3, <1>4, <1>5 DEF NewStream

\* The invariant holds before anything is downloaded.
LEMMA SaveInvInit == SaveInit => SaveInv
<1> SUFFICES ASSUME SaveInit PROVE SaveInv
  OBVIOUS
<1>1. SaveTypes
  BY NewFits DEF SaveInit, SaveTypes, Phases
<1>2. ASSUME NEW d \in Downloads PROVE Fits(d, phase[d], hasher[d], stream[d], path, decFile)
  BY NewFits DEF SaveInit, Fits
<1> QED  BY <1>1, <1>2 DEF SaveInv, SaveInit

\* A download fails, whatever has been done to its stream before: SaveError in full.
LEMMA ErrorFits ==
    ASSUME SaveInv, NEW d \in Downloads, NEW s \in StreamType, StreamFits(s),
           s.ended => path # d, NEW h \in HashType, s.available <= h.size,
           hasher' = [hasher EXCEPT ![d] = h], right' \in [Downloads -> BOOLEAN],
           UNCHANGED <<compressed, expected>>, SaveFails(d, s)
    PROVE  SaveInv'
<1> DEFINE u == AllAvailable(s, TRUE)
<1>1. /\ StreamFits(u) /\ u.available = s.available
      /\ u.finished /\ u.remove = TRUE /\ u.closed = s.closed
      /\ u.ended => s.ended \/ Ends(s)
  BY AllAvailableFits
<1>2. /\ phase' = [phase EXCEPT ![d] = "failed"] /\ stream' = [stream EXCEPT ![d] = u]
      /\ path' = AllAvailablePath(s, TRUE)
      /\ decFile' = IF compressed THEN NoFile ELSE decFile
      /\ row' = row /\ during' = during
  BY DEF SaveFails
<1>3. decFile' = NoFile
  BY <1>2 DEF SaveInv
<1>4. path' \in {path, NoFile} /\ (Ends(s) /\ s.open => path' = NoFile)
  BY <1>2 DEF AllAvailablePath, AtPath, Finished, StreamType
<1>5. u.ended /\ ~u.closed => path' # d
  <2> SUFFICES ASSUME u.ended, ~u.closed PROVE path' # d
    OBVIOUS
  <2>1. CASE s.ended
    BY <1>4, <2>1, SaveConstants
  <2>2. CASE ~s.ended /\ Ends(s)
    <3>1. s.open
      BY <1>1, <2>2 DEF StreamFits
    <3> QED  BY <1>4, <2>2, <3>1, SaveConstants
  <2> QED  BY <1>1, <2>1, <2>2
<1> HIDE DEF u
<1>6. Fits(d, "failed", h, u, path', decFile')
  BY <1>1, <1>3, <1>5, SaveConstants DEF Fits
<1>7. u \in StreamType /\ "failed" \in Phases
  BY <1>1 DEF StreamFits, Phases
<1>8. /\ row' \in [hashOf : Downloads, file : Downloads, size : Sizes] \cup {NoFile}
      /\ during' \in [Downloads -> SUBSET Downloads]
  BY <1>2 DEF SaveInv, SaveTypes
<1> QED  BY <1>2, <1>3, <1>4, <1>6, <1>7, <1>8, DownloadStep

\* What is known of a download that is streaming.
LEMMA Streaming ==
    ASSUME SaveInv, NEW d \in Downloads, phase[d] = "streaming"
    PROVE  /\ stream[d] \in StreamType /\ StreamFits(stream[d])
           /\ ~stream[d].finished /\ ~stream[d].ended
           /\ hasher[d] \in HashType /\ Growing(hasher[d])
           /\ stream[d].available <= hasher[d].size
<1>1. stream[d] \in StreamType /\ hasher[d] \in HashType
  BY DEF SaveInv, SaveTypes
<1>2. Fits(d, "streaming", hasher[d], stream[d], path, decFile)
  BY DEF SaveInv
<1>3. /\ StreamFits(stream[d]) /\ ~stream[d].finished /\ Growing(hasher[d])
      /\ stream[d].available <= hasher[d].size
  BY <1>2 DEF Fits
<1> QED  BY <1>1, <1>3 DEF StreamFits

\* save_file() opens the destination, in the place of what was there.
LEMMA SaveFileInv == ASSUME SaveInv, NEW d \in Downloads, SaveBegins(d) PROVE SaveInv'
<1>1. /\ phase[d] = "waiting" /\ phase' = [phase EXCEPT ![d] = "streaming"] /\ path' = d
      /\ decFile' = (IF compressed THEN d ELSE decFile)
      /\ UNCHANGED <<compressed, expected, right, hasher, stream, row>>
      /\ during' \in [Downloads -> SUBSET Downloads]
  BY DEF SaveBegins, SaveInv, SaveTypes
<1>2. SaveTypes /\ Fits(d, "waiting", hasher[d], stream[d], path, decFile)
  BY <1>1 DEF SaveInv
<1>3. Fits(d, "streaming", hasher[d], stream[d], path', decFile')
  BY <1>2 DEF Fits
<1>4. hasher' = [hasher EXCEPT ![d] = hasher[d]] /\ stream' = [stream EXCEPT ![d] = stream[d]]
      /\ hasher[d] \in HashType /\ stream[d] \in StreamType /\ right' \in [Downloads -> BOOLEAN]
      /\ row' \in [hashOf : Downloads, file : Downloads, size : Sizes] \cup {NoFile}
  BY <1>1, <1>2 DEF SaveTypes
<1>5. path' \in {path, NoFile, d} /\ decFile' \in {decFile, NoFile, d} /\ (~compressed => decFile' = NoFile)
  BY <1>1 DEF SaveInv
<1>6. "streaming" \in Phases
  BY DEF Phases
<1> DEFINE h == hasher[d]
           s == stream[d]
<1>7. /\ Fits(d, "streaming", h, s, path', decFile') /\ h \in HashType /\ s \in StreamType
      /\ hasher' = [hasher EXCEPT ![d] = h] /\ stream' = [stream EXCEPT ![d] = s]
  BY <1>3, <1>4
<1> HIDE DEF h, s
<1> QED  BY <1>1, <1>4, <1>5, <1>6, <1>7, DownloadStep

\* StreamToFile writes data, hashes it and makes it available.
LEMMA GotDataInv ==
    ASSUME SaveInv, NEW d \in Downloads, NEW n \in 1 .. MaxData, NEW good \in BOOLEAN,
           GotData(d, n, good)
    PROVE  SaveInv'
<1> DEFINE s == stream[d]
           h == hasher[d]
           g == Update(h, n)
<1>1. /\ phase[d] = "streaming" /\ h.size < Length /\ UNCHANGED <<compressed, expected>>
      /\ SaveTypes /\ (~compressed => decFile = NoFile)
  BY DEF GotData, SaveInv
<1>2. /\ s \in StreamType /\ StreamFits(s) /\ ~s.finished /\ ~s.ended
      /\ h \in HashType /\ Growing(h) /\ s.available <= h.size
  BY <1>1, Streaming
<1>3. g \in HashType /\ Growing(g) /\ g.size = h.size + n
  BY <1>1, <1>2, UpdateGrows
<1>4. s.available \in Nat /\ h.size \in Nat /\ n \in Nat /\ n <= MaxData /\ s.available + n <= g.size
      /\ s.available + n \in Sizes /\ s.available <= g.size
  <2>1. s.available \in Nat /\ h.size \in Nat
    BY <1>2 DEF StreamType, HashType, Sizes
  <2> DEFINE a == s.available
             b == h.size
             c == g.size
  <2>2. a \in Nat /\ b \in Nat /\ a <= b /\ c = b + n /\ b < Length /\ n \in 1 .. MaxData
    BY <1>1, <1>2, <1>3, <2>1
  <2> HIDE DEF a, b, c
  <2>3. /\ a \in Nat /\ b \in Nat /\ n \in Nat /\ n <= MaxData /\ a + n <= c
        /\ a + n \in Sizes /\ a <= c
    BY <2>2, SaveConstants DEF Sizes
  <2> QED  BY <2>3 DEF a, b, c
<1>5. CASE ~s.open /\ SaveFails(d, s) /\ UNCHANGED <<right, hasher>>
  <2>1. hasher' = [hasher EXCEPT ![d] = h] /\ right' \in [Downloads -> BOOLEAN]
    BY <1>1, <1>5 DEF SaveTypes
  <2> HIDE DEF s, h
  <2> QED  BY <1>1, <1>2, <1>5, <2>1, ErrorFits
<1>6. CASE /\ s.open
           /\ hasher' = [hasher EXCEPT ![d] = g]
           /\ right' = [right EXCEPT ![d] = @ /\ good]
           /\ \/ /\ stream' = [stream EXCEPT ![d] = UpdateAvailable(s, n)]
                 /\ UNCHANGED <<phase, path, decFile, row, during>>
              \/ /\ compressed /\ ~right'[d]
                 /\ SaveFails(d, s)
  <2>1. right' \in [Downloads -> BOOLEAN]
    <3>1. right \in [Downloads -> BOOLEAN] /\ right' = [right EXCEPT ![d] = right[d] /\ good]
      BY <1>1, <1>6 DEF SaveTypes
    <3> QED  BY <3>1
  <2>2. CASE SaveFails(d, s)
    <3> HIDE DEF s, h, g
    <3> QED  BY <1>1, <1>2, <1>3, <1>4, <1>6, <2>1, <2>2, ErrorFits
  <2>3. CASE /\ stream' = [stream EXCEPT ![d] = UpdateAvailable(s, n)]
             /\ UNCHANGED <<phase, path, decFile, row, during>>
    <3> DEFINE u == UpdateAvailable(s, n)
               more == [s EXCEPT !.available = s.available + n]
    <3>1. StreamFits(u) /\ SameButRead(more, u)
      BY <1>2, <1>4, UpdateAvailableFits
    <3>2. more.available = s.available + n /\ more.finished = s.finished
      BY <1>2 DEF StreamType
    <3>3. u.available = s.available + n /\ ~u.finished /\ u \in StreamType
      BY <1>2, <3>1, <3>2 DEF SameButRead, StreamFits
    <3> HIDE DEF u, g
    <3>4. Fits(d, "streaming", g, u, path', decFile')
      BY <1>3, <1>4, <3>1, <3>3 DEF Fits
    <3>5. phase' = [phase EXCEPT ![d] = "streaming"] /\ "streaming" \in Phases
      BY <1>1, <2>3 DEF SaveTypes, Phases
    <3>6. /\ row' \in [hashOf : Downloads, file : Downloads, size : Sizes] \cup {NoFile}
          /\ during' \in [Downloads -> SUBSET Downloads]
      BY <1>1, <2>3 DEF SaveTypes
    <3>7. path' \in {path, NoFile, d} /\ decFile' \in {decFile, NoFile, d} /\ (~compressed => decFile' = NoFile)
      BY <1>1, <2>3
    <3>8. stream' = [stream EXCEPT ![d] = u] /\ hasher' = [hasher EXCEPT ![d] = g]
      BY <1>6, <2>3 DEF u
    <3> QED  BY <1>1, <1>3, <2>1, <3>3, <3>4, <3>5, <3>6, <3>7, <3>8, DownloadStep
  <2> QED  BY <1>6, <2>2, <2>3
<1> QED  BY <1>5, <1>6 DEF GotData

\* The download fails.
LEMMA StreamFailsInv ==
    ASSUME SaveInv, NEW d \in Downloads, StreamFails(d) PROVE SaveInv'
<1> DEFINE s == stream[d]
           h == hasher[d]
<1>1. phase[d] = "streaming" /\ SaveFails(d, s) /\ UNCHANGED <<compressed, expected, right, hasher>>
  BY DEF StreamFails
<1>2. /\ s \in StreamType /\ StreamFits(s) /\ ~s.ended /\ h \in HashType /\ s.available <= h.size
  BY <1>1, Streaming
<1>3. hasher' = [hasher EXCEPT ![d] = h] /\ right' \in [Downloads -> BOOLEAN]
  BY <1>1 DEF SaveInv, SaveTypes
<1> HIDE DEF s, h
<1> QED  BY <1>1, <1>2, <1>3, ErrorFits

\* allAvailable(False) removes nothing.
LEMMA NothingRemoved == ASSUME NEW s \in StreamType PROVE AllAvailablePath(s, FALSE) = path
  BY DEF AllAvailablePath, AtPath, Finished, StreamType

\* _save_complete compares the hash and makes the row, or removes the file.
LEMMA SaveCompleteInv ==
    ASSUME SaveInv, NEW d \in Downloads, SaveCompletes(d) PROVE SaveInv'
<1> DEFINE s == stream[d]
           g == Digested(d)
           u == AllAvailable(s, FALSE)
           kept == AllAvailablePath(s, FALSE)
<1>1. /\ phase[d] = "streaming" /\ UNCHANGED <<compressed, expected, right>>
      /\ hasher' = [hasher EXCEPT ![d] = g]
      /\ SaveTypes /\ (~compressed => decFile = NoFile)
  BY DEF SaveCompletes, SaveInv
<1>2. /\ s \in StreamType /\ StreamFits(s) /\ ~s.finished /\ ~s.ended
      /\ hasher[d] \in HashType /\ Growing(hasher[d]) /\ s.available <= hasher[d].size
  BY <1>1, Streaming
<1>3. g \in HashType /\ s.available <= g.size /\ (~Wrong(d) => Whole(g))
  <2>1. /\ g \in HashType /\ g.size = hasher[d].size
        /\ d \notin expected \/ hasher[d].size > 0 => Whole(g)
    BY <1>2, DigestIsWhole DEF Digested
  <2>2. ~Wrong(d) => d \notin expected \/ hasher[d].size > 0
    BY SaveAssumption DEF Wrong
  <2> QED  BY <1>2, <2>1, <2>2
<1>4. StreamFits(u) /\ u.available = s.available /\ u \in StreamType
  <2>1. StreamFits(u) /\ u.available = s.available
    BY <1>2, AllAvailableFits
  <2> QED  BY <2>1 DEF StreamFits
<1>5. kept = path
  BY <1>2, NothingRemoved
<1>6. right' \in [Downloads -> BOOLEAN]
  BY <1>1 DEF SaveTypes
<1>7. \/ SaveFails(d, s)
      \/ kept = NoFile /\ SaveFails(d, u)
      \/ /\ ~Wrong(d) /\ kept # NoFile
         /\ stream' = [stream EXCEPT ![d] = u]
         /\ path' = kept
         /\ row' = [hashOf |-> d, file |-> kept, size |-> hasher[kept].size]
         /\ phase' = [phase EXCEPT ![d] = IF compressed THEN "hashing" ELSE "saved"]
         /\ UNCHANGED <<decFile, during>>
  BY DEF SaveCompletes
<1> HIDE DEF s, g, u, kept
<1>8. CASE SaveFails(d, s)
  BY <1>1, <1>2, <1>3, <1>6, <1>8, ErrorFits
<1>9. CASE kept = NoFile /\ SaveFails(d, u)
  <2>1. path # d /\ u.available <= g.size
    BY <1>3, <1>4, <1>5, <1>9, SaveConstants
  <2> QED  BY <1>1, <1>3, <1>4, <1>6, <1>9, <2>1, ErrorFits
<1>10. CASE /\ ~Wrong(d) /\ kept # NoFile
            /\ stream' = [stream EXCEPT ![d] = u]
            /\ path' = kept
            /\ row' = [hashOf |-> d, file |-> kept, size |-> hasher[kept].size]
            /\ phase' = [phase EXCEPT ![d] = IF compressed THEN "hashing" ELSE "saved"]
            /\ UNCHANGED <<decFile, during>>
  <2> DEFINE ph == IF compressed THEN "hashing" ELSE "saved"
  <2>1. kept \in Downloads /\ hasher[kept].size \in Sizes
    BY <1>1, <1>5, <1>10 DEF SaveTypes, HashType
  <2>2. /\ row' \in [hashOf : Downloads, file : Downloads, size : Sizes] \cup {NoFile}
        /\ during' \in [Downloads -> SUBSET Downloads]
    BY <1>1, <1>10, <2>1 DEF SaveTypes
  <2>3. ph \in Phases /\ ph \in {"hashing", "saved"}
    BY DEF Phases
  <2> HIDE DEF ph
  <2>4. Fits(d, ph, g, u, path', decFile')
    BY <1>3, <1>4, <1>10, <2>3 DEF Fits
  <2>5. phase' = [phase EXCEPT ![d] = ph]
    BY <1>10 DEF ph
  <2>6. path' \in {path, NoFile, d} /\ decFile' \in {decFile, NoFile, d} /\ (~compressed => decFile' = NoFile)
    BY <1>1, <1>5, <1>10
  <2> QED  BY <1>1, <1>3, <1>4, <1>6, <1>10, <2>2, <2>3, <2>4, <2>5, <2>6, DownloadStep
<1> QED  BY <1>7, <1>8, <1>9, <1>10

\* The decompressed file has been hashed.
LEMMA HashedDecFileInv ==
    ASSUME SaveInv, NEW d \in Downloads, HashedDecFile(d) PROVE SaveInv'
<1> DEFINE s == stream[d]
           h == hasher[d]
<1>1. /\ phase[d] = "hashing" /\ phase' = [phase EXCEPT ![d] = "saved"] /\ decFile' \in {decFile, NoFile}
      /\ UNCHANGED <<compressed, expected, right, hasher, stream, path, row, during>>
      /\ SaveTypes /\ (~compressed => decFile = NoFile)
  BY DEF HashedDecFile, SaveInv
<1>2. Fits(d, "hashing", h, s, path, decFile)
  BY <1>1 DEF SaveInv
<1>3. Fits(d, "saved", h, s, path', decFile')
  BY <1>2 DEF Fits
<1>4. /\ hasher' = [hasher EXCEPT ![d] = h] /\ stream' = [stream EXCEPT ![d] = s]
      /\ h \in HashType /\ s \in StreamType /\ right' \in [Downloads -> BOOLEAN]
      /\ row' \in [hashOf : Downloads, file : Downloads, size : Sizes] \cup {NoFile}
      /\ during' \in [Downloads -> SUBSET Downloads]
  BY <1>1 DEF SaveTypes
<1>5. path' \in {path, NoFile, d} /\ decFile' \in {decFile, NoFile, d} /\ (~compressed => decFile' = NoFile)
      /\ "saved" \in Phases
  BY <1>1 DEF Phases
<1> HIDE DEF h, s
<1> QED  BY <1>1, <1>3, <1>4, <1>5, DownloadStep

\* apt reads, or goes away: only the stream and perhaps the destination change.
LEMMA ReaderStep ==
    ASSUME SaveInv, NEW d \in Downloads, NEW s, StreamFits(s),
           s.available = stream[d].available, s.finished = stream[d].finished, s.remove = stream[d].remove,
           phase[d] = "failed" => (s.ended /\ ~s.closed => path' # d),
           stream' = [stream EXCEPT ![d] = s], path' \in {path, NoFile},
           UNCHANGED <<compressed, expected, phase, right, hasher, decFile, row, during>>
    PROVE  SaveInv'
<1> DEFINE h == hasher[d]
           ph == phase[d]
           t == stream[d]
<1>1. SaveTypes /\ (~compressed => decFile = NoFile) /\ Fits(d, ph, h, t, path, decFile)
  BY DEF SaveInv
<1>2. h \in HashType /\ ph \in Phases /\ s \in StreamType
  BY <1>1 DEF SaveTypes, StreamFits
<1>3. hasher' = [hasher EXCEPT ![d] = h] /\ phase' = [phase EXCEPT ![d] = ph] /\ right' \in [Downloads -> BOOLEAN]
      /\ row' \in [hashOf : Downloads, file : Downloads, size : Sizes] \cup {NoFile}
      /\ during' \in [Downloads -> SUBSET Downloads]
  BY <1>1 DEF SaveTypes
<1>4. s.available = t.available /\ s.finished = t.finished /\ s.remove = t.remove
      /\ (ph = "failed" => (s.ended /\ ~s.closed => path' # d)) /\ decFile' = decFile
  OBVIOUS
<1> HIDE DEF h, ph, t
<1>5. Fits(d, ph, h, s, path', decFile')
  BY <1>1, <1>4 DEF Fits
<1>6. path' \in {path, NoFile, d} /\ decFile' \in {decFile, NoFile, d} /\ (~compressed => decFile' = NoFile)
  BY <1>1
<1> QED  BY <1>2, <1>3, <1>5, <1>6, DownloadStep

\* apt reads.
LEMMA ReadInv ==
    ASSUME SaveInv, NEW d \in Downloads, Read(d) PROVE SaveInv'
<1> DEFINE s == stream[d]
<1>1. /\ ~s.ended /\ ~s.closed
      /\ UNCHANGED <<compressed, expected, phase, right, hasher, decFile, row, during>>
      /\ \/ stream' = [stream EXCEPT ![d] = ReadData(s)] /\ UNCHANGED path
         \/ /\ s.position = s.available /\ s.finished
            /\ stream' = [stream EXCEPT ![d] = [Closed(s) EXCEPT !.ended = TRUE]]
            /\ path' = AtPath(s)
         \/ stream' = [stream EXCEPT ![d] = [s EXCEPT !.deferred = TRUE]] /\ UNCHANGED path
  BY DEF Read
<1>2. SaveTypes /\ Fits(d, phase[d], hasher[d], s, path, decFile)
  BY DEF SaveInv
<1>3. s \in StreamType /\ StreamFits(s) /\ (phase[d] = "failed" => s.remove)
  BY <1>2 DEF SaveTypes, Fits
<1>4. CASE stream' = [stream EXCEPT ![d] = ReadData(s)] /\ UNCHANGED path
  <2> DEFINE t == ReadData(s)
  <2>1. StreamFits(t) /\ SameButRead(s, t)
    BY <1>3, ReadDataFits
  <2>2. stream' = [stream EXCEPT ![d] = t] /\ path' \in {path, NoFile}
    BY <1>4
  <2> HIDE DEF t
  <2>3. t.available = stream[d].available /\ t.finished = stream[d].finished /\ t.remove = stream[d].remove /\ ~t.ended
    BY <1>1, <2>1 DEF SameButRead
  <2> QED  BY <1>1, <2>1, <2>2, <2>3, ReaderStep
<1>5. CASE /\ s.position = s.available /\ s.finished
           /\ stream' = [stream EXCEPT ![d] = [Closed(s) EXCEPT !.ended = TRUE]]
           /\ path' = AtPath(s)
  <2> DEFINE t == [Closed(s) EXCEPT !.ended = TRUE]
  <2>1. /\ t \in StreamType /\ t.available = s.available /\ t.position = s.position
        /\ t.finished = s.finished /\ t.remove = s.remove /\ t.ended /\ t.closed = s.closed
    BY <1>3 DEF StreamType, Closed
  <2>2. stream' = [stream EXCEPT ![d] = t]
    BY <1>5
  <2> HIDE DEF t
  <2>3. StreamFits(t)
    BY <1>3, <1>5, <2>1 DEF StreamFits
  <2>4. path' \in {path, NoFile} /\ (phase[d] = "failed" => path' # d)
    <3>1. s.open
      BY <1>1, <1>3 DEF StreamFits
    <3> QED  BY <1>3, <1>5, <3>1, SaveConstants DEF AtPath
  <2> QED  BY <1>1, <2>1, <2>2, <2>3, <2>4, ReaderStep
<1>6. CASE stream' = [stream EXCEPT ![d] = [s EXCEPT !.deferred = TRUE]] /\ UNCHANGED path
  <2> DEFINE t == [s EXCEPT !.deferred = TRUE]
  <2>1. /\ t \in StreamType /\ t.available = s.available /\ t.position = s.position /\ t.open = s.open
        /\ t.finished = s.finished /\ t.remove = s.remove /\ t.ended = s.ended /\ t.closed = s.closed
    BY <1>3 DEF StreamType
  <2>2. stream' = [stream EXCEPT ![d] = t] /\ path' \in {path, NoFile}
    BY <1>6
  <2> HIDE DEF t
  <2>3. StreamFits(t) /\ ~t.ended
    BY <1>1, <1>3, <2>1 DEF StreamFits
  <2> QED  BY <1>1, <2>1, <2>2, <2>3, ReaderStep
<1> QED  BY <1>1, <1>4, <1>5, <1>6

\* apt goes away.
LEMMA CloseInv ==
    ASSUME SaveInv, NEW d \in Downloads, Close(d) PROVE SaveInv'
<1> DEFINE s == stream[d]
           t == [Closed(s) EXCEPT !.closed = TRUE]
<1>1. /\ ~s.ended /\ stream' = [stream EXCEPT ![d] = t] /\ path' = AtPath(s)
      /\ UNCHANGED <<compressed, expected, phase, right, hasher, decFile, row, during>>
  BY DEF Close
<1>2. SaveTypes /\ Fits(d, phase[d], hasher[d], s, path, decFile)
  BY DEF SaveInv
<1>3. s \in StreamType /\ StreamFits(s)
  BY <1>2 DEF SaveTypes, Fits
<1>4. /\ t \in StreamType /\ t.available = s.available /\ t.position = s.position
      /\ t.finished = s.finished /\ t.remove = s.remove /\ t.ended = s.ended /\ t.closed
  BY <1>3 DEF StreamType, Closed
<1>5. path' \in {path, NoFile}
  BY <1>1 DEF AtPath
<1> HIDE DEF t
<1>6. StreamFits(t)
  BY <1>1, <1>3, <1>4 DEF StreamFits
<1> QED  BY <1>1, <1>4, <1>5, <1>6, ReaderStep

\* Every step preserves the invariant.
LEMMA SaveInvNext == ASSUME SaveInv, [SaveNext]_saveVars PROVE SaveInv'
<1>1. ASSUME NEW d \in Downloads, SaveBegins(d) PROVE SaveInv'
  BY <1>1, SaveFileInv
<1>2. ASSUME NEW d \in Downloads, NEW n \in 1 .. MaxData, NEW good \in BOOLEAN, GotData(d, n, good)
      PROVE  SaveInv'
  BY <1>2, GotDataInv
<1>3. ASSUME NEW d \in Downloads, StreamFails(d) PROVE SaveInv'
  BY <1>3, StreamFailsInv
<1>4. ASSUME NEW d \in Downloads, SaveCompletes(d) PROVE SaveInv'
  BY <1>4, SaveCompleteInv
<1>5. ASSUME NEW d \in Downloads, HashedDecFile(d) PROVE SaveInv'
  BY <1>5, HashedDecFileInv
<1>6. ASSUME NEW d \in Downloads, Read(d) PROVE SaveInv'
  BY <1>6, ReadInv
<1>7. ASSUME NEW d \in Downloads, Close(d) PROVE SaveInv'
  BY <1>7, CloseInv
<1>8. CASE UNCHANGED saveVars
  BY <1>8 DEF saveVars, SaveInv, SaveTypes
<1> QED  BY <1>1, <1>2, <1>3, <1>4, <1>5, <1>6, <1>7, <1>8 DEF SaveNext

-----------------------------------------------------------------------------
(* The database. *)

\* What a row r is made from: a download that has ended, and its own file or that of
\* one that began meanwhile.
RowFits(r) ==
    /\ phase[r.hashOf] \in {"saved", "hashing"}
    /\ r.hashOf \in expected => right[r.hashOf] /\ hasher[r.hashOf].size = Length
    /\ IF r.file = r.hashOf THEN r.size = hasher[r.hashOf].size
       ELSE r.file \in during[r.hashOf]

\* While a download goes on, the destination holds its file or that of a later one, or
\* nothing.
RowInv ==
    /\ \A d \in Downloads : phase[d] = "streaming" => path \in {d, NoFile} \cup during[d]
    /\ row # NoFile => RowFits(row)

\* The row says of a download that has ended what it said before.
LEMMA RowStays ==
    ASSUME SaveInv, RowInv, row # NoFile,
           phase'[row.hashOf] \in {"saved", "hashing"},
           right'[row.hashOf] = right[row.hashOf],
           hasher'[row.hashOf].size = hasher[row.hashOf].size,
           during'[row.hashOf] = during[row.hashOf],
           UNCHANGED <<expected, row>>
    PROVE  RowFits(row)'
<1> DEFINE d == row.hashOf
<1>1. RowFits(row) /\ row' = row
  BY DEF RowInv
<1> HIDE DEF d
<1> QED  BY <1>1 DEF RowFits, d

\* A step of a download that does not begin, and makes no row.
LEMMA RowStep ==
    ASSUME SaveInv, RowInv, NEW d \in Downloads,
           NEW ph, phase' = [phase EXCEPT ![d] = ph], ph = phase[d] \/ ph # "streaming",
           phase[d] \in {"saved", "hashing"} =>
               ph \in {"saved", "hashing"} /\ right'[d] = right[d] /\ hasher'[d].size = hasher[d].size,
           \A e \in Downloads \ {d} : right'[e] = right[e] /\ hasher'[e] = hasher[e],
           path' \in {path, NoFile}, UNCHANGED <<expected, row, during>>
    PROVE  RowInv'
<1>1. SaveTypes
  BY DEF SaveInv
<1>2. \A e \in Downloads : phase'[e] = IF e = d THEN ph ELSE phase[e]
  BY <1>1 DEF SaveTypes
<1>3. \A e \in Downloads : phase'[e] = "streaming" => path' \in {e, NoFile} \cup during'[e]
  BY <1>2 DEF RowInv
<1>4. ASSUME row # NoFile PROVE RowFits(row)'
  <2> DEFINE f == row.hashOf
  <2>1. f \in Downloads
    BY <1>1, <1>4 DEF SaveTypes
  <2>2. phase[f] \in {"saved", "hashing"}
    BY <1>4 DEF RowInv, RowFits
  <2> HIDE DEF f
  <2>3. phase'[f] \in {"saved", "hashing"} /\ right'[f] = right[f] /\ hasher'[f].size = hasher[f].size
    BY <1>2, <2>1, <2>2
  <2> QED  BY <1>4, <2>3, RowStays DEF f
<1> QED  BY <1>3, <1>4 DEF RowInv

\* A download that fails makes no row.
LEMMA RowErrorStep ==
    ASSUME SaveInv, RowInv, NEW d \in Downloads, phase[d] = "streaming",
           NEW s \in StreamType, SaveFails(d, s), UNCHANGED expected,
           \A e \in Downloads \ {d} : right'[e] = right[e] /\ hasher'[e] = hasher[e]
    PROVE  RowInv'
<1>1. phase' = [phase EXCEPT ![d] = "failed"] /\ path' \in {path, NoFile} /\ UNCHANGED <<row, during>>
  BY DEF SaveFails, AllAvailablePath, AtPath, Finished, StreamType
<1> QED  BY <1>1, RowStep

\* There is no row before anything is downloaded.
LEMMA RowInit == SaveInit => RowInv
<1> SUFFICES ASSUME SaveInit PROVE RowInv
  OBVIOUS
<1>1. \A d \in Downloads : phase[d] = "waiting"
  BY DEF SaveInit
<1>2. row = NoFile
  BY DEF SaveInit
<1> QED  BY <1>1, <1>2 DEF RowInv

\* A download begins: the others that go on take notice of it, and the row is not of theirs.
LEMMA RowBeginStep == ASSUME SaveInv, RowInv, NEW d \in Downloads, SaveBegins(d) PROVE RowInv'
<1>1. /\ phase[d] = "waiting" /\ phase' = [phase EXCEPT ![d] = "streaming"] /\ path' = d
      /\ during' = [e \in Downloads |-> IF phase[e] = "streaming" THEN during[e] \cup {d} ELSE during[e]]
      /\ UNCHANGED <<expected, right, hasher, row>>
  BY DEF SaveBegins
<1>2. SaveTypes
  BY DEF SaveInv
<1>3. \A e \in Downloads : phase'[e] = IF e = d THEN "streaming" ELSE phase[e]
  BY <1>1, <1>2 DEF SaveTypes
<1>4. \A e \in Downloads : phase'[e] = "streaming" => path' \in {e, NoFile} \cup during'[e]
  BY <1>1, <1>3
<1>5. ASSUME row # NoFile PROVE RowFits(row)'
  <2> DEFINE f == row.hashOf
  <2>1. f \in Downloads
    BY <1>2, <1>5 DEF SaveTypes
  <2>2. phase[f] \in {"saved", "hashing"}
    BY <1>5 DEF RowInv, RowFits
  <2> HIDE DEF f
  <2>3. /\ phase'[f] \in {"saved", "hashing"} /\ during'[f] = during[f]
        /\ right'[f] = right[f] /\ hasher'[f].size = hasher[f].size
    BY <1>1, <1>3, <2>1, <2>2
  <2>4. UNCHANGED <<expected, row>>
    BY <1>1
  <2> QED  BY <1>5, <2>3, <2>4, RowStays DEF f
<1> QED  BY <1>1, <1>4, <1>5 DEF RowInv

\* A download ends: its row is of its file, or of that of one that began meanwhile.
LEMMA RowCompleteStep == ASSUME SaveInv, RowInv, NEW d \in Downloads, SaveCompletes(d) PROVE RowInv'
<1> DEFINE s == stream[d]
           g == Digested(d)
           u == AllAvailable(s, FALSE)
           kept == AllAvailablePath(s, FALSE)
           r == [hashOf |-> d, file |-> kept, size |-> hasher[kept].size]
<1>1. /\ phase[d] = "streaming" /\ UNCHANGED <<expected, right>> /\ hasher' = [hasher EXCEPT ![d] = g]
      /\ \/ SaveFails(d, s)
         \/ SaveFails(d, u)
         \/ /\ ~Wrong(d) /\ kept # NoFile /\ path' = kept /\ row' = r /\ UNCHANGED during
            /\ phase' = [phase EXCEPT ![d] = IF compressed THEN "hashing" ELSE "saved"]
  BY DEF SaveCompletes
<1>2. SaveTypes /\ s \in StreamType /\ StreamFits(s) /\ hasher[d] \in HashType /\ Growing(hasher[d])
  BY <1>1, Streaming DEF SaveInv
<1>3. u \in StreamType /\ kept = path /\ g.size = hasher[d].size
  <2>1. StreamFits(u)
    BY <1>2, AllAvailableFits
  <2> QED  BY <1>2, <2>1, NothingRemoved, DigestIsWhole DEF StreamFits, Digested
<1>4. r.hashOf = d /\ r.file = kept /\ r.size = hasher[kept].size
  OBVIOUS
<1> HIDE DEF s, g, u, kept, r
<1>5. \A e \in Downloads \ {d} : right'[e] = right[e] /\ hasher'[e] = hasher[e]
  BY <1>1, <1>2 DEF SaveTypes
<1>6. CASE SaveFails(d, s) \/ SaveFails(d, u)
  BY <1>1, <1>2, <1>3, <1>5, <1>6, RowErrorStep
<1>7. CASE /\ ~Wrong(d) /\ kept # NoFile /\ path' = kept /\ row' = r /\ UNCHANGED during
           /\ phase' = [phase EXCEPT ![d] = IF compressed THEN "hashing" ELSE "saved"]
  <2>1. kept \in {d} \cup during[d]
    BY <1>1, <1>3, <1>7 DEF RowInv
  <2>2. hasher'[d].size = hasher[d].size /\ phase'[d] \in {"saved", "hashing"}
    BY <1>1, <1>2, <1>3, <1>7 DEF SaveTypes
  <2>3. d \in expected => right[d] /\ hasher[d].size = Length
    BY <1>7 DEF Wrong
  <2>4. RowFits(row)'
    BY <1>1, <1>4, <1>7, <2>1, <2>2, <2>3 DEF RowFits
  <2>5. \A e \in Downloads : phase'[e] = "streaming" => phase[e] = "streaming"
    BY <1>2, <1>7 DEF SaveTypes
  <2>6. \A e \in Downloads : phase'[e] = "streaming" => path' \in {e, NoFile} \cup during'[e]
    BY <1>3, <1>7, <2>5 DEF RowInv
  <2> QED  BY <2>4, <2>6 DEF RowInv
<1> QED  BY <1>1, <1>6, <1>7

\* Every step preserves what is known of the row.
LEMMA RowNext ==
    ASSUME SaveInv, RowInv, [SaveNext]_saveVars
    PROVE  RowInv'
<1> SUFFICES ASSUME SaveTypes PROVE RowInv'
  BY DEF SaveInv
<1>1. ASSUME NEW d \in Downloads, SaveBegins(d) PROVE RowInv'
  BY <1>1, RowBeginStep
<1>2. ASSUME NEW d \in Downloads, NEW n \in 1 .. MaxData, NEW good \in BOOLEAN, GotData(d, n, good)
      PROVE  RowInv'
  <2>1. phase[d] = "streaming" /\ UNCHANGED expected /\ stream[d] \in StreamType
    BY <1>2 DEF GotData, SaveTypes
  <2>2. \A e \in Downloads \ {d} : right'[e] = right[e] /\ hasher'[e] = hasher[e]
    BY <1>2 DEF GotData, SaveTypes
  <2>3. \/ SaveFails(d, stream[d])
        \/ UNCHANGED <<phase, path, row, during>>
    BY <1>2 DEF GotData
  <2>4. CASE UNCHANGED <<phase, path, row, during>>
    <3>1. phase' = [phase EXCEPT ![d] = phase[d]]
      BY <2>4 DEF SaveTypes
    <3> QED  BY <2>1, <2>2, <2>4, <3>1, RowStep
  <2> QED  BY <2>1, <2>2, <2>3, <2>4, RowErrorStep
<1>3. ASSUME NEW d \in Downloads, StreamFails(d) PROVE RowInv'
  <2>1. /\ phase[d] = "streaming" /\ stream[d] \in StreamType /\ SaveFails(d, stream[d])
        /\ UNCHANGED <<expected, right, hasher>>
    BY <1>3 DEF StreamFails, SaveTypes
  <2> QED  BY <2>1, RowErrorStep
<1>4. ASSUME NEW d \in Downloads, SaveCompletes(d) PROVE RowInv'
  BY <1>4, RowCompleteStep
<1>5. ASSUME NEW d \in Downloads, HashedDecFile(d) PROVE RowInv'
  <2>1. /\ phase' = [phase EXCEPT ![d] = "saved"]
        /\ UNCHANGED <<expected, right, hasher, path, row, during>>
    BY <1>5 DEF HashedDecFile
  <2> QED  BY <2>1, RowStep
<1>6. CASE UNCHANGED <<expected, phase, right, hasher, row, during>> /\ path' \in {path, NoFile}
  BY <1>6 DEF RowInv, RowFits
<1>7. ASSUME NEW d \in Downloads, Read(d) \/ Close(d) PROVE RowInv'
  <2>1. UNCHANGED <<expected, phase, right, hasher, row, during>> /\ path' \in {path, NoFile}
    BY <1>7 DEF Read, Close, AtPath
  <2> QED  BY <1>6, <2>1
<1>8. CASE UNCHANGED saveVars
  BY <1>6, <1>8 DEF saveVars
<1> QED  BY <1>1, <1>2, <1>3, <1>4, <1>5, <1>7, <1>8 DEF SaveNext

-----------------------------------------------------------------------------

\* SaveInv holds in every reachable state.
THEOREM SaveInvariance == SaveSpec => []SaveInv
<1>1. SaveInit => SaveInv
  BY SaveInvInit
<1>2. SaveInv /\ [SaveNext]_saveVars => SaveInv'
  BY SaveInvNext
<1> QED  BY <1>1, <1>2, PTL DEF SaveSpec, SaveSafety

\* Every variable of Save keeps its type: no stream is made available beyond what a
\* download can have written.
THEOREM SaveTypeCorrect == SaveSpec => []SaveTypeOK
<1>1. SaveInv => SaveTypeOK
  BY DEF SaveInv, SaveTypes, Phases, HashType, StreamType, SaveTypeOK
<1> QED  BY <1>1, SaveInvariance, PTL

\* The stream that apt reads ends only once the download has ended and all of it was read,
\* whatever way data, reads and failures interleave.
THEOREM SaveEndIsComplete == SaveSpec => []EndIsComplete
<1>1. SaveInv => EndIsComplete
  BY DEF SaveInv, Fits, StreamFits, EndIsComplete
<1> QED  BY <1>1, SaveInvariance, PTL

\* The piece hashes of a saved file are of pieces of PIECE_SIZE, with the rest as the last
\* one, whatever sizes the data came in.
THEOREM SavePiecesAreWhole == SaveSpec => []PiecesAreWhole
<1>1. SaveInv => PiecesAreWhole
  <2> SUFFICES ASSUME SaveInv, NEW d \in Downloads, phase[d] \in {"saved", "hashing"}
               PROVE  Whole(hasher[d])
    BY DEF PiecesAreWhole, Whole
  <2> QED  BY DEF SaveInv, Fits
<1> QED  BY <1>1, SaveInvariance, PTL

\* A download that failed leaves no decompressed file, and no file at the destination once
\* apt has read its stream to the end.
THEOREM SaveFailedIsRemoved == SaveSpec => []FailedIsRemoved
<1>1. SaveInv => FailedIsRemoved
  BY DEF SaveInv, Fits, FailedIsRemoved
<1> QED  BY <1>1, SaveInvariance, PTL

\* The row of the database is of a download that ended with the hash that was expected,
\* and tells the size of its file, unless another download of the URL began meanwhile.
THEOREM SaveRowIsTrue == SaveSpec => []RowIsTrue
<1>1. SaveInit => SaveInv /\ RowInv
  BY SaveInvInit, RowInit
<1>2. (SaveInv /\ RowInv) /\ [SaveNext]_saveVars => (SaveInv /\ RowInv)'
  BY SaveInvNext, RowNext
<1>3. SaveInv /\ RowInv => RowIsTrue
  BY DEF RowInv, RowFits, RowIsTrue
<1> QED  BY <1>1, <1>2, <1>3, PTL DEF SaveSpec, SaveSafety
=============================================================================
