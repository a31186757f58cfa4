-------------------------------- MODULE Save --------------------------------
(***************************************************************************)
(* How a download is saved to the cache while it is passed on to apt:      *)
(* CacheManager's save_file, _save_complete and _save_error, StreamToFile  *)
(* and GrowingFileStream (Streams.py), and the piecewise hashing of the    *)
(* data (HashObject in Hash.py).                                           *)
(*                                                                         *)
(* All downloads are of one URL, and go to one path; one may begin while   *)
(* others go on.  A file that is removed, or replaced at its path, is      *)
(* still there for those who have it open: the path holds the name of the  *)
(* download whose data it has.  Data is counted in units and is right or   *)
(* wrong.  The stream that apt reads and the writer share one file object. *)
(***************************************************************************)
EXTENDS Integers, Sequences

CONSTANTS
    Downloads,   \* downloads of the URL
    NotSHA1,     \* those whose hash, if one is expected, is not a SHA1 hash
    NoFile,
    Length,      \* the size of the right file
    PIECE_SIZE,  \* the size of a piece
    CHUNK_SIZE,  \* how much apt's stream is read at a time
    MaxData      \* bound on the size of what the peer or mirror sends at a time

ASSUME SaveAssumption ==
    /\ NoFile \notin Downloads /\ NotSHA1 \subseteq Downloads
    /\ Length \in Nat \ {0} /\ PIECE_SIZE \in Nat \ {0}
    /\ CHUNK_SIZE \in Nat \ {0} /\ MaxData \in Nat \ {0}

VARIABLES
    compressed, \* whether the file is decompressed to another one on the way
    expected,   \* the downloads whose hash is known beforehand
    phase,      \* how far a download is
    right,      \* whether all its data was right so far
    hasher,     \* its HashObject: size, pieceSize and the lengths of the pieces hashed
    stream,     \* its GrowingFileStream
    path,       \* the download whose file is at the destination, or NoFile
    decFile,    \* the download whose decompressed file is at decFile, or NoFile
    row,        \* what the database has of the destination, or NoFile
    during      \* the downloads that began while it received its data

saveVars == <<compressed, expected, phase, right, hasher, stream, path, decFile, row, during>>

NewHash == [size |-> 0, pieceSize |-> 0, pieces |-> <<>>]
NewStream == [available |-> 0, position |-> 0, open |-> TRUE, deferred |-> FALSE,
              finished |-> FALSE, remove |-> FALSE, closed |-> FALSE, ended |-> FALSE]

Sizes == 0 .. Length + MaxData

SaveTypeOK ==
    /\ compressed \in BOOLEAN
    /\ expected \subseteq Downloads
    /\ phase \in [Downloads -> {"waiting", "streaming", "saved", "hashing", "failed"}]
    /\ right \in [Downloads -> BOOLEAN]
    /\ hasher \in [Downloads -> [size : Sizes, pieceSize : 0 .. PIECE_SIZE, pieces : Seq(0 .. PIECE_SIZE)]]
    /\ stream \in [Downloads -> [available : Sizes, position : Sizes, open : BOOLEAN,
                                 deferred : BOOLEAN, finished : BOOLEAN, remove : BOOLEAN,
                                 closed : BOOLEAN, ended : BOOLEAN]]
    /\ path \in Downloads \cup {NoFile}
    /\ decFile \in Downloads \cup {NoFile}
    /\ row \in [hashOf : Downloads, file : Downloads, size : Sizes] \cup {NoFile}
    /\ during \in [Downloads -> SUBSET Downloads]

SaveInit ==
    /\ compressed \in BOOLEAN
    /\ expected \in SUBSET Downloads
    /\ phase = [d \in Downloads |-> "waiting"]
    /\ right = [d \in Downloads |-> TRUE]
    /\ hasher = [d \in Downloads |-> NewHash]
    /\ stream = [d \in Downloads |-> NewStream]
    /\ path = NoFile
    /\ decFile = NoFile
    /\ row = NoFile
    /\ during = [d \in Downloads |-> {}]

-----------------------------------------------------------------------------
(* HashObject. *)

\* Mutant of Update: a piece is closed as soon as it is full.
HastyUpdate(h, n) ==
    LET closed == (h.pieceSize + n) \div PIECE_SIZE
    IN  [size |-> h.size + n,
         pieceSize |-> h.pieceSize + n - closed * PIECE_SIZE,
         pieces |-> h.pieces \o [i \in 1 .. closed |-> PIECE_SIZE]]

\* update: a piece is closed when there is data beyond it.
Update(h, n) ==
    LET closed == (h.pieceSize + n - 1) \div PIECE_SIZE
    IN  [size |-> h.size + n,
         pieceSize |-> h.pieceSize + n - closed * PIECE_SIZE,
         pieces |-> h.pieces \o [i \in 1 .. closed |-> PIECE_SIZE]]

\* digest: the last piece is closed, unless all the data is one piece and has a SHA1 hash.
Digest(h, sha1) ==
    IF sha1 /\ h.pieces = <<>> THEN h
    ELSE [h EXCEPT !.pieces = Append(@, h.pieceSize), !.pieceSize = 0]

-----------------------------------------------------------------------------
(* GrowingFileStream. *)

\* How much there is to read at once.
ReadSize(s) == IF s.available - s.position < CHUNK_SIZE THEN s.available - s.position ELSE CHUNK_SIZE

\* Data is read and returned, or passed to the Deferred of a read that waits.
ReadData(s) == [s EXCEPT !.position = @ + ReadSize(s), !.deferred = FALSE]

\* _close, for the stream itself; AtPath is what it does to the destination.
Closed(s) == [s EXCEPT !.open = FALSE]
AtPath(s) == IF s.open /\ s.remove THEN NoFile ELSE path

\* updateAvailable.
UpdateAvailable(s, n) ==
    LET more == [s EXCEPT !.available = IF s.finished THEN @ ELSE @ + n]
    IN  IF more.deferred /\ more.position < more.available THEN ReadData(more) ELSE more

\* How allAvailable begins, and whether it ends the stream.
Finished(s, remove) == [s EXCEPT !.finished = TRUE, !.remove = remove]
Ends(s) == s.deferred /\ s.position >= s.available

\* Mutant of AllAvailable: a read that waits is left alone where there is nothing to read.
SilentAllAvailable(s, remove) ==
    LET f == Finished(s, remove)
    IN  IF f.deferred /\ f.position < f.available THEN ReadData(f)
        ELSE IF f.closed THEN Closed(f)
        ELSE f

\* allAvailable: a read that waits gets the last data, or the end.
AllAvailable(s, remove) ==
    LET f == Finished(s, remove)
    IN  IF Ends(f) THEN [Closed(f) EXCEPT !.deferred = FALSE, !.ended = TRUE]
        ELSE IF f.deferred THEN ReadData(f)
        ELSE IF f.closed THEN Closed(f)
        ELSE f

\* What allAvailable does to the destination.
AllAvailablePath(s, remove) ==
    IF Ends(s) \/ (s.closed /\ ~s.deferred) THEN AtPath(Finished(s, remove)) ELSE path

\* Mutant of Read: at the end of the download, apt's stream ends.
CurtRead(d) ==
    LET s == stream[d]
    IN  /\ phase[d] # "waiting"
        /\ ~s.deferred /\ ~s.ended /\ ~s.closed
        /\ IF s.finished
           THEN /\ stream' = [stream EXCEPT ![d] = [Closed(s) EXCEPT !.ended = TRUE]]
                /\ path' = AtPath(s)
           ELSE /\ stream' = [stream EXCEPT ![d] =
                                IF s.position < s.available THEN ReadData(s)
                                ELSE [s EXCEPT !.deferred = TRUE]]
                /\ UNCHANGED path
        /\ UNCHANGED <<compressed, expected, phase, right, hasher, decFile, row, during>>

\* read: data, the end, or a Deferred to wait for.
Read(d) ==
    LET s == stream[d]
    IN  /\ phase[d] # "waiting"
        /\ ~s.deferred /\ ~s.ended /\ ~s.closed
        /\ \/ /\ s.position < s.available
              /\ stream' = [stream EXCEPT ![d] = ReadData(s)]
              /\ UNCHANGED path
           \/ /\ s.position = s.available /\ s.finished
              /\ stream' = [stream EXCEPT ![d] = [Closed(s) EXCEPT !.ended = TRUE]]
              /\ path' = AtPath(s)
           \/ /\ s.position = s.available /\ ~s.finished
              /\ stream' = [stream EXCEPT ![d] = [s EXCEPT !.deferred = TRUE]]
              /\ UNCHANGED path
        /\ UNCHANGED <<compressed, expected, phase, right, hasher, decFile, row, during>>

\* close: apt has gone away.
Close(d) ==
    /\ phase[d] # "waiting"
    /\ ~stream[d].ended /\ ~stream[d].closed
    /\ stream' = [stream EXCEPT ![d] = [Closed(@) EXCEPT !.closed = TRUE]]
    /\ path' = AtPath(stream[d])
    /\ UNCHANGED <<compressed, expected, phase, right, hasher, decFile, row, during>>

-----------------------------------------------------------------------------
(* CacheManager and StreamToFile. *)

\* save_file: what is at the destinations is removed, whoever writes it, and the download
\* begins.
SaveBegins(d) ==
    /\ phase[d] = "waiting"
    /\ during' = [e \in Downloads |-> IF phase[e] = "streaming" THEN during[e] \cup {d} ELSE during[e]]
    /\ phase' = [phase EXCEPT ![d] = "streaming"]
    /\ path' = d
    /\ decFile' = IF compressed THEN d ELSE decFile
    /\ UNCHANGED <<compressed, expected, right, hasher, stream, row>>

\* Mutant of SaveFails: the decompressed file stays.
HalfSaveFails(d, s) ==
    /\ phase' = [phase EXCEPT ![d] = "failed"]
    /\ stream' = [stream EXCEPT ![d] = AllAvailable(s, TRUE)]
    /\ path' = AllAvailablePath(s, TRUE)
    /\ UNCHANGED <<decFile, row, during>>

\* _save_error, and _save_complete if the hash is wrong, with the stream as it is then:
\* the destination goes by way of the stream.
SaveFails(d, s) ==
    /\ phase' = [phase EXCEPT ![d] = "failed"]
    /\ stream' = [stream EXCEPT ![d] = AllAvailable(s, TRUE)]
    /\ path' = AllAvailablePath(s, TRUE)
    /\ decFile' = IF compressed THEN NoFile ELSE decFile
    /\ UNCHANGED <<row, during>>

\* _gotData: the data is written, hashed and decompressed, and apt's stream told of it.
\* It fails if that stream was closed, or if the data cannot be decompressed.
GotData(d, n, good) ==
    LET s == stream[d]
    IN  /\ phase[d] = "streaming" /\ hasher[d].size < Length
        /\ \/ /\ ~s.open
              /\ SaveFails(d, s)
              /\ UNCHANGED <<right, hasher>>
           \/ /\ s.open
              /\ hasher' = [hasher EXCEPT ![d] = Update(@, n)]
              /\ right' = [right EXCEPT ![d] = @ /\ good]
              /\ \/ /\ stream' = [stream EXCEPT ![d] = UpdateAvailable(s, n)]
                    /\ UNCHANGED <<phase, path, decFile, row, during>>
                 \/ /\ compressed /\ ~right'[d]
                    /\ SaveFails(d, s)
        /\ UNCHANGED <<compressed, expected>>

\* The peer or mirror fails (_error).
StreamFails(d) ==
    /\ phase[d] = "streaming"
    /\ SaveFails(d, stream[d])
    /\ UNCHANGED <<compressed, expected, right, hasher>>

\* HashObject.verify: whether a hash that was expected is the right one.
Wrong(d) == d \in expected /\ ~(right[d] /\ hasher[d].size = Length)

\* The HashObject of a download at its end.
Digested(d) == Digest(hasher[d], d \notin expected \cap NotSHA1)

\* Mutant of SaveCompletes: only a result of None is an error, not False.
TrustingSaveCompletes(d) ==
    LET s == stream[d]
        kept == AllAvailablePath(s, FALSE)
    IN  /\ phase[d] = "streaming"
        /\ hasher' = [hasher EXCEPT ![d] = Digested(d)]
        /\ kept # NoFile
        /\ stream' = [stream EXCEPT ![d] = AllAvailable(s, FALSE)]
        /\ path' = kept
        /\ row' = [hashOf |-> d, file |-> kept, size |-> hasher[kept].size]
        /\ phase' = [phase EXCEPT ![d] = IF compressed THEN "hashing" ELSE "saved"]
        /\ UNCHANGED <<compressed, expected, right, decFile, during>>

\* _done and _save_complete, at the end of the data.  storeFile records the file
\* that is now at the destination; it fails if there is none.
SaveCompletes(d) ==
    LET s == stream[d]
        kept == AllAvailablePath(s, FALSE)
    IN  /\ phase[d] = "streaming"
        /\ hasher' = [hasher EXCEPT ![d] = Digested(d)]
        /\ \/ /\ Wrong(d)
              /\ SaveFails(d, s)
           \/ /\ ~Wrong(d) /\ kept = NoFile
              /\ SaveFails(d, AllAvailable(s, FALSE))
           \/ /\ ~Wrong(d) /\ kept # NoFile
              /\ stream' = [stream EXCEPT ![d] = AllAvailable(s, FALSE)]
              /\ path' = kept
              /\ row' = [hashOf |-> d, file |-> kept, size |-> hasher[kept].size]
              /\ phase' = [phase EXCEPT ![d] = IF compressed THEN "hashing" ELSE "saved"]
              /\ UNCHANGED <<decFile, during>>
        /\ UNCHANGED <<compressed, expected, right>>

\* _save_complete for the decompressed file, once it is hashed, or _save_error.
HashedDecFile(d) ==
    /\ phase[d] = "hashing"
    /\ phase' = [phase EXCEPT ![d] = "saved"]
    /\ decFile' \in {decFile, NoFile}
    /\ UNCHANGED <<compressed, expected, right, hasher, stream, path, row, during>>

-----------------------------------------------------------------------------
(* Specification. *)

SaveNext ==
    \E d \in Downloads :
        \/ SaveBegins(d)
        \/ \E n \in 1 .. MaxData, good \in BOOLEAN : GotData(d, n, good)
        \/ StreamFails(d)
        \/ SaveCompletes(d)
        \/ HashedDecFile(d)
        \/ Read(d)
        \/ Close(d)

SaveSafety == SaveInit /\ [][SaveNext]_saveVars

\* The data ends or fails, since connections to peers and mirrors time out; the thread
\* that hashes ends.  apt need not read.
SaveFairness ==
    \A d \in Downloads : WF_saveVars(SaveCompletes(d) \/ StreamFails(d) \/ HashedDecFile(d))

SaveSpec == SaveSafety /\ SaveFairness

-----------------------------------------------------------------------------
(* Properties. *)

\* When apt has read its stream to the end it has read all that was made available, in
\* whatever order the data, its end and apt's reads come (read, updateAvailable
\* and allAvailable share a read that waits).
EndIsComplete ==
    \A d \in Downloads : stream[d].ended =>
        stream[d].finished /\ stream[d].position = stream[d].available

\* The pieces that are hashed do not depend on how the data came: all but the last
\* have the piece size, the last is not empty, and together they are the data.  Other
\* peers check the pieces they get with these hashes (update and digest).
PiecesAreWhole ==
    \A d \in Downloads :
        LET h == hasher[d]
            last == Len(h.pieces)
        IN  h.pieces # <<>> /\ phase[d] \in {"saved", "hashing"} =>
                /\ \A i \in 1 .. last - 1 : h.pieces[i] = PIECE_SIZE
                /\ h.pieces[last] \in 1 .. PIECE_SIZE
                /\ h.size = (last - 1) * PIECE_SIZE + h.pieces[last]

\* What the database says of the cached file is of a download that was hashed to the end
\* and has the expected hash if there was one, and it is the size of that download's file,
\* although the streams of other downloads may still remove what is at the path; unless
\* another download of the URL began meanwhile, for then the row may be of that one's file,
\* as far as it was written (_save_complete, storeFile, _close).
RowIsTrue ==
    row # NoFile =>
        /\ phase[row.hashOf] \in {"saved", "hashing"}
        /\ row.hashOf \in expected =>
               right[row.hashOf] /\ hasher[row.hashOf].size = Length
        /\ IF row.file = row.hashOf THEN row.size = hasher[row.hashOf].size
           ELSE row.file \in during[row.hashOf]

\* A download that failed or had the wrong hash leaves no file, once apt has read what
\* there was of it, and no decompressed file at all (_save_error, _close).
FailedIsRemoved ==
    \A d \in Downloads : phase[d] = "failed" =>
        /\ decFile # d
        /\ stream[d].ended /\ ~stream[d].closed => path # d

\* A read that waits gets data or the end.
ReadsAreAnswered ==
    \A d \in Downloads : stream[d].deferred /\ ~stream[d].closed ~> ~stream[d].deferred \/ stream[d].closed
=============================================================================
