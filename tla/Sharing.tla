------------------------------ MODULE Sharing ------------------------------
(***************************************************************************)
(* What a peer shares: the files on its disk, the tables `files' and       *)
(* `hashes' of its database (db.py), the scan of its directories           *)
(* (CacheManager.py), the files that its HTTP server finds unchanged       *)
(* (HTTPServer.py), and the announcement of their hashes in the DHT        *)
(* (apt_p2p.py's new_cached_file, DHTManager.py's store and refreshFiles). *)
(*                                                                         *)
(* A file is known by its path, its content by its hash.  Size and         *)
(* modification time are not kept: a row is current if they are still what *)
(* they were when the row was made, and any change of a file changes them. *)
(* Files are saved to the cache by downloads, and by the decompression of  *)
(* downloads.  Any number may be saved to one path at a time: the latest   *)
(* has its file there, and what the earlier ones do is not told apart.     *)
(* The storage of a hash stands for all that store does, including the     *)
(* second key that it stores the pieces of some files under.  How          *)
(* downloads are saved is the subject of Save.                             *)
(***************************************************************************)
EXTENDS FiniteSets

CONSTANTS
    CacheFiles,  \* files of the cache directory
    OtherFiles,  \* files of the other directories
    Hashes,      \* the contents that files may have
    Partial,     \* the content of a file that is being saved, or was not saved to its end
    None

Files == CacheFiles \cup OtherFiles
Contents == Hashes \cup {Partial, None}

ASSUME SharingAssumption ==
    /\ CacheFiles \cap OtherFiles = {}
    /\ None \notin Files \cup Hashes /\ Partial \notin Hashes \cup {None}

VARIABLES
    joined,      \* whether the DHT was joined: my_addr is set, the refreshing goes on
    other_dirs,  \* whether the other directories are configured
    disk,        \* the content of each file, or None
    files,       \* the table files: a row for each file, or None
    hashes,      \* the table hashes: rows are fresh, or due to be refreshed
    save,        \* how far the latest saving of a cache file is
    older,       \* the cache files of which earlier savings may go on, to files replaced since
    scan,        \* CacheManager.scanning, what is left of it, and what it waits for
    refreshing,  \* DHT.refreshingHashes
    storing,     \* who called DHTManager's store for a hash, while it goes on
    clash        \* whether a hash was stored that was still being stored

table == <<files, hashes>>
vars == <<joined, other_dirs, disk, table, save, older, scan, refreshing, storing, clash>>

\* A row is late if the file had been changed or replaced between being hashed and being
\* recorded.
Rows == [hash : Hashes, dht : BOOLEAN, current : BOOLEAN, late : BOOLEAN]
Idle == [step |-> "idle", left |-> {}, file |-> None, read |-> None, changed |-> FALSE]

TypeOK ==
    /\ joined \in BOOLEAN /\ other_dirs \in BOOLEAN
    /\ disk \in [Files -> Contents]
    /\ files \in [Files -> Rows \cup {None}]
    /\ hashes \in [Hashes -> {"none", "fresh", "due"}]
    /\ save \in [CacheFiles -> {"none", "write", "hash"}]
    /\ older \subseteq CacheFiles
    /\ scan \in [step : {"idle", "walk", "hash", "record", "store", "died"},
                 left : SUBSET Files, file : Files \cup {None}, read : Hashes \cup {None},
                 changed : BOOLEAN]
    /\ refreshing \subseteq Hashes
    /\ storing \in [Hashes -> {"none", "new", "scan", "refresh"}]
    /\ clash \in BOOLEAN

\* _startFactory with an empty cache.
Init ==
    /\ joined = FALSE /\ other_dirs \in BOOLEAN
    /\ disk \in [Files -> Hashes \cup {None}]
    /\ \A f \in CacheFiles : disk[f] = None
    /\ files = [f \in Files |-> None]
    /\ hashes = [h \in Hashes |-> "none"]
    /\ save = [f \in CacheFiles |-> "none"]
    /\ older = {}
    /\ scan = Idle
    /\ refreshing = {}
    /\ storing = [h \in Hashes |-> "none"]
    /\ clash = FALSE

-----------------------------------------------------------------------------
(* The database. *)

\* Mutant of Current: a file that is still there is taken to be unchanged.
RashCurrent(f) == files[f] # None /\ disk[f] # None

\* _removeChanged's test of whether a file is unchanged, by its size and time.
Current(f) == files[f] # None /\ files[f].current /\ disk[f] # None

\* _removeChanged, for the rows of the files F.
WithoutChanged(F) == [f \in Files |-> IF f \in F /\ ~Current(f) THEN None ELSE files[f]]

\* storeFile: it adds the hash if that is new and then records the file as it is on the
\* disk, which fails if it is not there.
StoreHash(h) == hashes' = [hashes EXCEPT ![h] = IF @ = "none" THEN "fresh" ELSE @]
StoreRow(f, h, dht, late) ==
    files' = [files EXCEPT ![f] = [hash |-> h, dht |-> dht, current |-> TRUE, late |-> late]]

\* The tables after a write to the file f: its size or time is not what a row says.
Stale(f) ==
    [files EXCEPT ![f] = IF @ = None THEN None ELSE [@ EXCEPT !.current = FALSE, !.late = FALSE]]

RowsOf(h) == {f \in Files : files[f] # None /\ files[f].hash = h}
HasDHTFile(h) == \E f \in RowsOf(h) : files[f].dht

\* expiredHashes: the hashes to refresh, and the table that it leaves.
Due == {h \in Hashes : hashes[h] = "due"}

\* Mutant of ExpiredHashes: a hash with a file that is not in the DHT is not refreshed.
UnmixedExpiredHashes == {h \in Due : \A f \in RowsOf(h) : files[f].dht}

ExpiredHashes == {h \in Due : HasDHTFile(h)}

Refreshed ==
    [h \in Hashes |->
        IF h \notin Due \/ HasDHTFile(h) THEN hashes[h]
        ELSE IF RowsOf(h) = {} THEN "none" ELSE "fresh"]

\* Time passes: a hash is older than KEY_REFRESH, which is much longer than it takes to
\* store it; or its last refreshing, which refreshHash does not commit, was lost in a crash.
BecomesDue(h) ==
    /\ hashes[h] = "fresh"
    /\ storing[h] = "none"
    /\ hashes' = [hashes EXCEPT ![h] = "due"]
    /\ UNCHANGED <<joined, other_dirs, disk, files, save, older, scan, refreshing, storing, clash>>

-----------------------------------------------------------------------------
(* The announcement of hashes. *)

\* DHTManager's store, for one of its callers; DHT.storeValue raises an exception if the
\* hash is being stored already.
Store(h, caller) ==
    IF storing[h] # "none" THEN clash' = TRUE /\ UNCHANGED storing
    ELSE /\ storing' = [storing EXCEPT ![h] = caller]
         /\ UNCHANGED clash

\* new_cached_file: only a hash that is new to this peer is announced now.
Announces(h, shared) == joined /\ hashes[h] = "none" /\ shared

\* Mutant of RefreshFiles: a hash counts as refreshed only when it is fetched again.
LateRefreshFiles(free) ==
    LET list == IF refreshing = {} THEN ExpiredHashes ELSE refreshing
        begun == [h \in Hashes |-> IF h \in free THEN "none" ELSE storing[h]]
    IN  \/ /\ list = {} /\ refreshing' = {} /\ hashes' = Refreshed
           /\ storing' = begun /\ UNCHANGED clash
        \/ \E h \in list :
             /\ refreshing' = list \ {h}
             /\ hashes' = IF refreshing = {} THEN Refreshed ELSE hashes
             /\ storing' = [begun EXCEPT ![h] = "refresh"]
             /\ clash' = (clash \/ begun[h] # "none")

\* refreshFiles, with `free' the storages that are not under way any more.
RefreshFiles(free) ==
    LET list == IF refreshing = {} THEN ExpiredHashes ELSE refreshing
        rows == IF refreshing = {} THEN Refreshed ELSE hashes
        begun == [h \in Hashes |-> IF h \in free THEN "none" ELSE storing[h]]
    IN  \/ /\ list = {}
           /\ refreshing' = {}
           /\ hashes' = rows
           /\ storing' = begun
           /\ UNCHANGED clash
        \/ \E h \in list :
             /\ refreshing' = list \ {h}
             /\ hashes' = [rows EXCEPT ![h] = "fresh"]
             /\ storing' = [begun EXCEPT ![h] = "refresh"]
             /\ clash' = (clash \/ begun[h] # "none")

\* The delayed call of refreshFiles, which sets the next one.
RefreshTimer ==
    /\ joined
    /\ RefreshFiles({})
    /\ UNCHANGED <<joined, other_dirs, disk, files, save, older, scan>>

\* Mutant of StoreEnds: the scan waits for good results only.
SilentStoreEnds(h) ==
    /\ storing[h] # "none"
    /\ IF storing[h] = "refresh" THEN RefreshFiles({h})
       ELSE /\ storing' = [storing EXCEPT ![h] = "none"]
            /\ UNCHANGED <<hashes, refreshing, clash>>
    /\ UNCHANGED <<joined, other_dirs, disk, files, save, older, scan>>

\* A storage ends, well or not: the refreshing (refreshFiles) or the scan
\* (_scanDirectories) that waited for it goes on.
StoreEnds(h) ==
    /\ storing[h] # "none"
    /\ \/ /\ storing[h] = "refresh"
          /\ RefreshFiles({h})
          /\ UNCHANGED scan
       \/ /\ storing[h] = "scan"
          /\ scan' = [scan EXCEPT !.step = "walk", !.file = None, !.read = None]
          /\ storing' = [storing EXCEPT ![h] = "none"]
          /\ UNCHANGED <<hashes, refreshing, clash>>
       \/ /\ storing[h] = "new"
          /\ storing' = [storing EXCEPT ![h] = "none"]
          /\ UNCHANGED <<hashes, refreshing, clash, scan>>
    /\ UNCHANGED <<joined, other_dirs, disk, files, save, older>>

-----------------------------------------------------------------------------
(* The scan. *)

\* joinComplete and _dhtStarted: refreshing and scanning start.
JoinComplete ==
    /\ ~joined
    /\ joined' = TRUE
    /\ scan' = [Idle EXCEPT !.step = "walk",
                            !.left = IF other_dirs THEN Files ELSE CacheFiles]
    /\ UNCHANGED <<other_dirs, disk, table, save, older, refreshing, storing, clash>>

\* _scanDirectories: the next file of the directory, the cache directory being the first.
\* A file that appears before its turn counts as one that the walker lists.
ScanFile(f) ==
    /\ scan.step = "walk"
    /\ f \in scan.left
    /\ f \in OtherFiles => scan.left \cap CacheFiles = {}
    /\ files' = IF disk[f] # None THEN WithoutChanged({f}) ELSE files
    /\ LET skip == disk[f] = None \/ Current(f) \/ f \in CacheFiles
       IN  scan' = [scan EXCEPT !.left = @ \ {f},
                                !.step = IF skip THEN "walk" ELSE "hash",
                                !.file = IF skip THEN None ELSE f]
    /\ disk' = IF f \in CacheFiles /\ files[f] # None /\ ~Current(f)
               THEN [disk EXCEPT ![f] = None] ELSE disk
    /\ UNCHANGED <<joined, other_dirs, hashes, save, older, refreshing, storing, clash>>

\* The last directory is done.
ScanEnds ==
    /\ scan.step = "walk" /\ scan.left = {}
    /\ scan' = Idle
    /\ UNCHANGED <<joined, other_dirs, disk, table, save, older, refreshing, storing, clash>>

\* hashInThread, in its thread: the file's content is read.
HashInThread ==
    /\ scan.step = "hash"
    /\ scan' = [scan EXCEPT !.step = "record", !.read = disk[scan.file], !.changed = FALSE]
    /\ UNCHANGED <<joined, other_dirs, disk, table, save, older, refreshing, storing, clash>>

\* _doneHashing: the file is recorded and the main program told of it.  If it has gone
\* meanwhile, storeFile raises an exception, and nobody goes on with the scan.
DoneHashing ==
    /\ scan.step = "record"
    /\ LET f == scan.file
           h == scan.read
       IN  \/ /\ h = None
              /\ scan' = [scan EXCEPT !.step = "walk", !.file = None, !.changed = FALSE]
              /\ UNCHANGED <<table, storing, clash>>
           \/ /\ h # None /\ disk[f] = None
              /\ StoreHash(h)
              /\ scan' = [Idle EXCEPT !.step = "died"]
              /\ UNCHANGED <<files, storing, clash>>
           \/ /\ h # None /\ disk[f] # None
              /\ StoreHash(h)
              /\ StoreRow(f, h, TRUE, scan.changed)
              /\ IF Announces(h, TRUE)
                 THEN /\ Store(h, "scan")
                      /\ scan' = [scan EXCEPT !.step = "store", !.changed = FALSE]
                 ELSE /\ scan' = [scan EXCEPT !.step = "walk", !.file = None, !.read = None,
                                              !.changed = FALSE]
                      /\ UNCHANGED <<storing, clash>>
    /\ UNCHANGED <<joined, other_dirs, disk, save, older, refreshing>>

-----------------------------------------------------------------------------
(* Requests, downloads, and what happens to files otherwise. *)

\* A request for a hash: the rows of its files that have changed go (lookupHash).
LookupHash(h) ==
    /\ files' = WithoutChanged(RowsOf(h))
    /\ UNCHANGED <<joined, other_dirs, disk, hashes, save, older, scan, refreshing, storing, clash>>

\* A request from apt for a cache file that is not what the database says it is, or that
\* it does not know (FileDownloader.renderHTTP).
RenderChanged(f) ==
    /\ f \in CacheFiles /\ ~Current(f)
    /\ files' = WithoutChanged({f})
    /\ disk' = [disk EXCEPT ![f] = None]
    /\ UNCHANGED <<joined, other_dirs, hashes, save, older, scan, refreshing, storing, clash>>

\* save_file, for a file that is downloaded or for the one it is decompressed to: whatever
\* was there is removed, even if it is being saved.
SaveFile(f) ==
    /\ save' = [save EXCEPT ![f] = "write"]
    /\ older' = IF save[f] = "none" THEN older ELSE older \cup {f}
    /\ disk' = [disk EXCEPT ![f] = Partial]
    /\ files' = Stale(f)
    /\ UNCHANGED <<joined, other_dirs, hashes, scan, refreshing, storing, clash>>

\* _gotData, for the file that is at the path.
WriteData(f) ==
    /\ save[f] = "write" /\ disk[f] = Partial
    /\ files' = Stale(f)
    /\ UNCHANGED <<joined, other_dirs, disk, hashes, save, older, scan, refreshing, storing, clash>>

\* The latest saving of a file ends, or an earlier one, which need not be the only one.
LatestEnds(f) == save' = [save EXCEPT ![f] = "none"] /\ UNCHANGED older
OlderEnds(f) == f \in older /\ UNCHANGED <<save, older>>

\* The disk when the latest saving of a file has written the content c, if its file is there.
Written(f, c) == IF disk[f] = Partial THEN [disk EXCEPT ![f] = c] ELSE disk

\* storeFile for what is at the path of a saved file; it fails if nothing is there, perhaps
\* (in os.utime) before the hash is added.
Record(f, h, dht, late) ==
    \/ /\ disk[f] = None
       /\ StoreHash(h) \/ UNCHANGED hashes
       /\ UNCHANGED files
    \/ disk[f] # None /\ StoreHash(h) /\ StoreRow(f, h, dht, late)

\* _save_complete, with a hash that was expected and is the right one, or that was not
\* known before.  An earlier saving records the file of the latest one; that of a
\* decompressed file does so like a download whose hash was not known.
SaveComplete(f, h, expected) ==
    /\ \/ /\ save[f] = "write"
          /\ LatestEnds(f)
          /\ disk' = Written(f, h)
          /\ Record(f, h, expected, FALSE)
       \/ /\ OlderEnds(f)
          /\ UNCHANGED disk
          /\ Record(f, h, expected, TRUE)
    /\ IF disk[f] # None /\ Announces(h, expected) THEN Store(h, "new") ELSE UNCHANGED <<storing, clash>>
    /\ UNCHANGED <<joined, other_dirs, scan, refreshing>>

\* A decompressed file has all its data, and a thread is to hash it; if it has gone, that
\* ends there.
DecWritten(f, h) ==
    /\ save[f] = "write"
    /\ disk' = Written(f, h)
    /\ save' = [save EXCEPT ![f] = IF disk[f] = None THEN "none" ELSE "hash"]
    /\ UNCHANGED <<joined, other_dirs, table, older, scan, refreshing, storing, clash>>

\* hashInThread and _save_complete for a decompressed file, whose hash was not expected.
DecHashed(f, h) ==
    /\ save[f] = "hash" /\ disk[f] \in {h, None}
    /\ LatestEnds(f)
    /\ Record(f, h, FALSE, FALSE)
    /\ UNCHANGED <<joined, other_dirs, disk, scan, refreshing, storing, clash>>

\* A cache file is removed: by the stream of a failed download, which may be closed long
\* after and removes whatever is there then (GrowingFileStream._close), or by the user.
Remove(f) ==
    /\ disk[f] # None
    /\ disk' = [disk EXCEPT ![f] = None]
    /\ UNCHANGED <<joined, other_dirs, table, save, older, scan, refreshing, storing, clash>>

\* _save_error, or a wrong hash: what is at the path is removed, now, later or never, for
\* the stream may have been closed before.  A decompressed file is removed at once.
SaveError(f) ==
    /\ (save[f] # "none" /\ LatestEnds(f)) \/ OlderEnds(f)
    /\ \/ disk' = [disk EXCEPT ![f] = None]
       \/ save[f] # "hash" /\ UNCHANGED disk
    /\ UNCHANGED <<joined, other_dirs, table, scan, refreshing, storing, clash>>

\* Somebody else writes or removes a file of the other directories.
Change(f, content) ==
    /\ f \in OtherFiles /\ disk[f] # content
    /\ disk' = [disk EXCEPT ![f] = content]
    /\ files' = Stale(f)
    /\ scan' = IF scan.step = "record" /\ scan.file = f THEN [scan EXCEPT !.changed = TRUE] ELSE scan
    /\ UNCHANGED <<joined, other_dirs, hashes, save, older, refreshing, storing, clash>>

\* The program ends and is started again, perhaps with other directories; the database
\* forgets the files that are not in them or that are missing (removeUntrackedFiles).
Restart ==
    /\ joined
    /\ joined' = FALSE
    /\ other_dirs' \in BOOLEAN
    /\ files' = [f \in Files |->
                   IF disk[f] = None \/ (f \in OtherFiles /\ ~other_dirs') THEN None ELSE files[f]]
    /\ save' = [f \in CacheFiles |-> "none"]
    /\ older' = {}
    /\ scan' = Idle
    /\ refreshing' = {}
    /\ storing' = [h \in Hashes |-> "none"]
    /\ UNCHANGED <<disk, hashes, clash>>

-----------------------------------------------------------------------------
(* Specification. *)

ScanStep == (\E f \in Files : ScanFile(f)) \/ ScanEnds \/ HashInThread \/ DoneHashing

Next ==
    \/ RefreshTimer
    \/ \E h \in Hashes : BecomesDue(h) \/ StoreEnds(h) \/ LookupHash(h)
    \/ JoinComplete
    \/ ScanStep
    \/ \E f \in CacheFiles :
         RenderChanged(f) \/ SaveFile(f) \/ WriteData(f) \/ SaveError(f) \/ Remove(f)
    \/ \E f \in CacheFiles, h \in Hashes :
         \/ DecWritten(f, h) \/ DecHashed(f, h)
         \/ \E expected \in BOOLEAN : SaveComplete(f, h, expected)
    \/ \E f \in OtherFiles, content \in Hashes \cup {None} : Change(f, content)
    \/ Restart

Safety == Init /\ [][Next]_vars

\* The reactor runs its delayed calls, the thread ends, and storages end (DHT).
Fairness ==
    /\ WF_vars(RefreshTimer)
    /\ WF_vars(ScanStep)
    /\ \A h \in Hashes : WF_vars(StoreEnds(h))

Spec == Safety /\ Fairness

-----------------------------------------------------------------------------
(* Properties. *)

\* Every file in the database has its hash there: no clean-up of hashes that are not
\* announced any more takes away one that a file refers to (expiredHashes, storeFile).
FilesHaveHashes == \A f \in Files : files[f] # None => hashes[files[f].hash] # "none"

\* A file that the database takes to be unchanged has the hash that it is shared under,
\* through scans, downloads, requests and restarts, unless it was changed between being
\* hashed and being recorded, or replaced by another download before it was recorded
\* (storeFile records the size and time of whatever is there then).
RowsAreTrue == \A f \in Files : Current(f) /\ ~files[f].late => disk[f] = files[f].hash

\* What the uploads to peers and the announcements rely on.
DatabaseIsSound == FilesHaveHashes /\ RowsAreTrue

\* A hash is not stored in the DHT while it is still being stored, by one of the chains
\* of refreshes or by a scan or download: DHT.storeValue would raise an exception, and
\* refreshFiles not set its next call (refreshHash before store).
NeverStoredTwice == ~clash

\* A hash that is due and that has a file to share is announced, unless it loses
\* its files or the program is restarted.
DueIsAnnounced ==
    \A h \in Hashes :
        (joined /\ hashes[h] = "due" /\ HasDHTFile(h))
            ~> (storing[h] = "refresh" \/ ~HasDHTFile(h) \/ ~joined)

\* A scan ends, whatever becomes of the files that it hashes and of their storages: it
\* comes to its last directory, or dies of a file that went while it was being hashed.
ScanIsFinite == scan.step \notin {"idle", "died"} ~> scan.step \in {"idle", "died"}
=============================================================================
