---------------------------- MODULE FileDownload ----------------------------
(***************************************************************************)
(* One download of a file in pieces from several peers and the mirror:     *)
(* PeerManager.py's FileDownload, from the lookup of the piece hashes to   *)
(* the last piece handed to the stream that the HTTP client reads.         *)
(*                                                                         *)
(* A peer is known by its site.  Its HTTP connection, which queues and     *)
(* pipelines the requests, is the environment: a request is answered some  *)
(* time, with a response or an error.  The ranks by which the next peer is *)
(* picked, and the order of the dictionary of peers, are abstracted to any *)
(* choice.                                                                 *)
(***************************************************************************)
EXTENDS Integers, FiniteSets, FiniteSetsExt, Functions

CONSTANTS
    Sites,              \* the peers found for the file
    Mirror,             \* the mirror's site
    DHT,                \* the DHT, as a source of piece hashes
    N,                  \* number of pieces
    MAX_OUTSTANDING,    \* requests made at a time (4 in the code)
    MIN_DOWNLOAD_PEERS, \* the mirror is used below this number of peers
    MAX_ERRORS,         \* errors in a row that a peer is dropped for (3 in the code)
    Lookups             \* the ways of finding the piece hashes to consider

ASSUME FileDownloadAssumption ==
    /\ IsFiniteSet(Sites) /\ Sites # {} /\ Mirror \notin Sites /\ DHT \notin Sites
    /\ N \in Nat \ {0} /\ MAX_OUTSTANDING \in Nat \ {0} /\ MAX_ERRORS \in Nat \ {0}
    /\ MIN_DOWNLOAD_PEERS \in Nat
    /\ Lookups \subseteq {"direct", "dht", "peers"}
    /\ {"free", "done"} \cap (Sites \cup {Mirror}) = {}

VARIABLES
    lookup,        \* how run() gets the piece hashes, "none" before it is called
    pieces,        \* None ("unknown"), the hashes, or a list of None ("unchecked")
    lookups,       \* piece hash requests to each source that are not answered yet
    failed,        \* the peers whose piece hash request failed
    started,       \* FileDownload.started
    raised,        \* whether an exception that nobody handles has ended a lookup
    late,          \* whether a peer's piece hash request failed after the lookup had ended
    outstanding,   \* FileDownload.outstanding
    sitelist,      \* FileDownload.sitelist: peers to send the next requests to
    addedMirror,   \* FileDownload.addedMirror
    errors,        \* self.peers[site]['errors'], not counted beyond MAX_ERRORS
    complete,      \* FileDownload.completePieces: "free" (False), "done" (True) or a site
    nextFinish,    \* FileDownload.nextFinish: pieces made available to the stream
    asked,         \* requests for a piece whose response has not come yet
    streaming,     \* responses being written to the file
    data,          \* what the file holds of a piece
    reader,        \* "waiting" for self.defer, "streaming" from self.stream, "refused"
    ended,         \* whether stream.allAvailable has been called
    fileClosed     \* whether the reader has closed the file

lookupVars == <<lookup, pieces, lookups, failed, started, raised, late>>
pieceVars == <<outstanding, sitelist, addedMirror, errors, complete, nextFinish, asked>>
fileVars == <<streaming, data, reader, ended, fileClosed>>
vars == <<lookupVars, pieceVars, fileVars>>

Pieces == 1 .. N
AllSites == Sites \cup {Mirror}
Sources == Sites \cup {DHT}

TypeOK ==
    /\ lookup \in Lookups \cup {"none"}
    /\ pieces \in {"unknown", "hashes", "unchecked"}
    /\ lookups \in [Sources -> Nat]
    /\ failed \subseteq Sites
    /\ started \in BOOLEAN /\ raised \in BOOLEAN /\ late \in BOOLEAN
    /\ outstanding \in Int /\ outstanding <= MAX_OUTSTANDING
    /\ sitelist \subseteq AllSites
    /\ addedMirror \in BOOLEAN
    /\ errors \in [AllSites -> 0 .. MAX_ERRORS]
    /\ complete \in [Pieces -> {"free", "done"} \cup AllSites]
    /\ nextFinish \in 0 .. N
    /\ asked \subseteq Pieces \X AllSites
    /\ streaming \subseteq Pieces \X AllSites
    /\ data \in [Pieces -> {"empty", "partial", "good", "bad"}]
    /\ reader \in {"waiting", "streaming", "refused"}
    /\ ended \in BOOLEAN
    /\ fileClosed \in BOOLEAN

Init ==
    /\ lookup = "none"
    /\ pieces = "unknown"
    /\ lookups = [s \in Sources |-> 0]
    /\ failed = {}
    /\ started = FALSE /\ raised = FALSE /\ late = FALSE
    /\ outstanding = 0
    /\ sitelist = {}
    /\ addedMirror = FALSE
    /\ errors = [s \in AllSites |-> 0]
    /\ complete = [p \in Pieces |-> "free"]
    /\ nextFinish = 0
    /\ asked = {}
    /\ streaming = {}
    /\ data = [p \in Pieces |-> "empty"]
    /\ reader = "waiting"
    /\ ended = FALSE
    /\ fileClosed = FALSE

-----------------------------------------------------------------------------
(* Asking for pieces. *)

\* FileDownload.addMirror: the peers to ask next, when `out` requests are
\* outstanding.
FewPeers(list, out) == Cardinality(list) + out < MIN_DOWNLOAD_PEERS

WithMirror(list, out) ==
    IF ~addedMirror /\ FewPeers(list, out) THEN list \cup {Mirror} ELSE list

\* The first n of a set of pieces.
FirstPieces(n, free) == {p \in free : Cardinality({q \in free : q < p}) < n}

\* FileDownload.getPieces, called at the end of every handler with what the handler
\* makes of its variables.  An aborted download asks for nothing.  Otherwise it asks
\* for the free pieces from nextFinish on, one peer each, as long as there are peers
\* and fewer than MAX_OUTSTANDING requests, and then checks whether the download is
\* complete or out of peers.  Without a stream allAvailable is an AttributeError.
GetPieces(list, out, comp, reqs, finish, rd) ==
    IF fileClosed
    THEN /\ sitelist' = list
         /\ outstanding' = out
         /\ complete' = comp
         /\ asked' = reqs
         /\ reader' = rd
         /\ ended' = TRUE
    ELSE LET free == {p \in Pieces : p > finish /\ comp[p] = "free"}
             n == Min({MAX_OUTSTANDING - out, Cardinality(list), Cardinality(free)})
             now == FirstPieces(n, free)
         IN  \E site \in Injection(now, list) :
                LET left == list \ Range(site)
                    none == out + Cardinality(now) <= 0
                    finished == none /\ finish = N
                    outOfPeers == none /\ left = {} /\ free \ now # {}
                IN  /\ sitelist' = left
                    /\ outstanding' = out + Cardinality(now)
                    /\ complete' = [p \in Pieces |-> IF p \in now THEN site[p] ELSE comp[p]]
                    /\ asked' = reqs \cup {<<p, site[p]>> : p \in now}
                    /\ reader' = IF outOfPeers /\ rd = "waiting" THEN "refused" ELSE rd
                    /\ ended' = (ended \/ (rd = "streaming" /\ (finished \/ outOfPeers)))

\* FileDownload.startDownload: all peers, and the mirror if they are few.
StartDownload ==
    /\ started' = TRUE
    /\ addedMirror' = FewPeers(Sites, 0)
    /\ nextFinish' = 0
    /\ GetPieces(WithMirror(Sites, 0), 0, [p \in Pieces |-> "free"], asked, 0, reader)
    /\ UNCHANGED <<errors, streaming, data, fileClosed>>

-----------------------------------------------------------------------------
(* The lookup of the piece hashes. *)

\* The loop of getPeerPieces with `out` requests outstanding: it asks the peers that
\* have not failed until there are MAX_OUTSTANDING requests, but one in any case.
AskForHashes(bad, out) ==
    LET good == Sites \ bad
        n == Min({Cardinality(good), Max({1, MAX_OUTSTANDING - out})})
    IN  kSubset(n, good)

\* FileDownload.run, with the three places where piece hashes are found: the values
\* that named the peers (or the file is one piece), the DHT, and the peers.
Run ==
    /\ lookup = "none"
    /\ lookup' \in Lookups
    /\ \/ /\ lookup' = "direct"
          /\ pieces' = "hashes"
          /\ StartDownload
          /\ UNCHANGED <<lookups, failed, raised, late>>
       \/ /\ lookup' = "dht"
          /\ lookups' = [lookups EXCEPT ![DHT] = 1]
          /\ UNCHANGED <<pieces, failed, started, raised, late, pieceVars, fileVars>>
       \/ /\ lookup' = "peers"
          /\ \E chosen \in AskForHashes({}, 0) :
                /\ lookups' = [s \in Sources |-> IF s \in chosen THEN 1 ELSE 0]
                /\ outstanding' = Cardinality(chosen)
          /\ UNCHANGED <<pieces, failed, started, raised, late, sitelist, addedMirror, errors,
                         complete, nextFinish, asked, fileVars>>

\* FileDownload._getDHTPieces and _gotPeerPieces when the pieces match their key: the
\* first to arrive starts the download.
GotHashes(s) ==
    /\ lookups[s] > 0
    /\ lookups' = [lookups EXCEPT ![s] = @ - 1]
    /\ \/ /\ pieces = "unknown"
          /\ pieces' = "hashes"
          /\ StartDownload
       \/ /\ pieces # "unknown"
          /\ UNCHANGED <<pieces, started, pieceVars, fileVars>>
    /\ UNCHANGED <<lookup, failed, raised, late>>

\* FileDownload._getDHTPieces when no value that was found matches the key.
NoHashesInDHT ==
    /\ lookups[DHT] > 0
    /\ lookups' = [lookups EXCEPT ![DHT] = 0]
    /\ pieces' = "unchecked"
    /\ StartDownload
    /\ UNCHANGED <<lookup, failed, raised, late>>

\* The exceptions in _getDHTPieces, when the lookup failed (its log message names an
\* undefined variable) or found a value that is no dictionary of a string, and in
\* _gotPeerPieces, when a peer sent such a value: nobody handles them.  The download is
\* not started, the peer is not marked as failed and its request stays counted.
LookupRaises(s) ==
    /\ lookups[s] > 0
    /\ pieces = "unknown"
    /\ lookups' = [lookups EXCEPT ![s] = @ - 1]
    /\ raised' = TRUE
    /\ UNCHANGED <<lookup, pieces, failed, started, late, pieceVars, fileVars>>

\* FileDownload.getPeerPieces(key, failedSite), called by every way a peer's piece hash
\* request can fail but LookupRaises: it is counted out, others are asked, and if there
\* are none the download goes on without the hashes.  A failure that comes late, when
\* startDownload has reset `outstanding`, is subtracted from the requests for pieces.
GetPeerPieces(s) ==
    /\ lookups[s] > 0
    /\ failed' = failed \cup {s}
    /\ late' = (late \/ pieces # "unknown")
    /\ IF pieces # "unknown"
       THEN /\ lookups' = [lookups EXCEPT ![s] = @ - 1]
            /\ outstanding' = outstanding - 1
            /\ UNCHANGED <<pieces, started, sitelist, addedMirror, errors, complete,
                           nextFinish, asked, fileVars>>
       ELSE \E chosen \in AskForHashes(failed', outstanding - 1) :
            LET out == outstanding - 1 + Cardinality(chosen)
                More(x) == IF x \in chosen THEN 1 ELSE 0
                Less(x) == IF x = s THEN 1 ELSE 0
            IN  /\ lookups' = [x \in Sources |-> lookups[x] + More(x) - Less(x)]
                /\ \/ /\ out > 0
                      /\ outstanding' = out
                      /\ UNCHANGED <<pieces, started, sitelist, addedMirror, errors,
                                     complete, nextFinish, asked, fileVars>>
                   \/ /\ out <= 0
                      /\ pieces' = "unchecked"
                      /\ StartDownload
    /\ UNCHANGED <<lookup, raised>>

-----------------------------------------------------------------------------
(* The pieces. *)

OneMoreError(s) == [errors EXCEPT ![s] = Min({@ + 1, MAX_ERRORS})]

\* A peer is put back on the list or dropped, which may bring in the mirror.
Requeue(s, keep, out) == IF keep THEN sitelist \cup {s} ELSE WithMirror(sitelist, out)
AddsMirror(keep, out) == addedMirror \/ (~keep /\ FewPeers(sitelist, out))

Freed(p) == [complete EXCEPT ![p] = "free"]

\* Mutant of GetPiece: a dropped peer does not bring in the mirror.
MirrorlessGetPiece(p, s, code) ==
    LET ok == code = "ok"
    IN  /\ <<p, s>> \in asked
        /\ errors' = IF code = "wrong" THEN OneMoreError(s) ELSE errors
        /\ streaming' = IF ok THEN streaming \cup {<<p, s>>} ELSE streaming
        /\ data' = IF ok THEN [data EXCEPT ![p] = "partial"] ELSE data
        /\ GetPieces(IF ok THEN sitelist \cup {s} ELSE sitelist, outstanding - 1,
                     IF ok THEN complete ELSE Freed(p), asked \ {<<p, s>>}, nextFinish,
                     IF ok /\ reader = "waiting" THEN "streaming" ELSE reader)
        /\ UNCHANGED <<lookupVars, addedMirror, nextFinish, fileClosed>>

\* FileDownload._getPiece: the response's headers.  A peer that no longer has the file
\* ("gone", a 404) is dropped, one that answers with a wrong code too when it has made
\* too many errors; the first good response starts the answer to the HTTP client.
GetPiece(p, s, code) ==
    LET ok == code = "ok"
        errs == IF code = "wrong" THEN OneMoreError(s) ELSE errors
        keep == ok \/ (code = "wrong" /\ errs[s] < MAX_ERRORS)
        out == outstanding - 1
    IN  /\ <<p, s>> \in asked
        /\ errors' = errs
        /\ streaming' = IF ok THEN streaming \cup {<<p, s>>} ELSE streaming
        /\ data' = IF ok THEN [data EXCEPT ![p] = "partial"] ELSE data
        /\ addedMirror' = AddsMirror(keep, out)
        /\ GetPieces(Requeue(s, keep, out), out, IF ok THEN complete ELSE Freed(p),
                     asked \ {<<p, s>>}, nextFinish,
                     IF ok /\ reader = "waiting" THEN "streaming" ELSE reader)
        /\ UNCHANGED <<lookupVars, nextFinish, fileClosed>>

\* FileDownload._getError: the request failed.
GetError(p, s) ==
    LET errs == OneMoreError(s)
        keep == errs[s] < MAX_ERRORS
        out == outstanding - 1
    IN  /\ <<p, s>> \in asked
        /\ errors' = errs
        /\ addedMirror' = AddsMirror(keep, out)
        /\ GetPieces(Requeue(s, keep, out), out, Freed(p), asked \ {<<p, s>>}, nextFinish,
                     reader)
        /\ UNCHANGED <<lookupVars, nextFinish, streaming, data, fileClosed>>

\* The pieces before the first one that is not done.
Finished(comp) == Max({f \in 0 .. N : \A p \in 1 .. f : comp[p] = "done"})

\* Mutant of GotPiece: nextFinish counts the pieces that are done.
UnorderedGotPiece(p, s, content) ==
    LET comp == [complete EXCEPT ![p] = "done"]
        finish == Cardinality({q \in Pieces : comp[q] = "done"})
    IN  /\ <<p, s>> \in streaming
        /\ pieces = "hashes" => content = "good"
        /\ streaming' = streaming \ {<<p, s>>}
        /\ data' = [data EXCEPT ![p] = content]
        /\ errors' = [errors EXCEPT ![s] = 0]
        /\ nextFinish' = finish
        /\ GetPieces(sitelist, outstanding, comp, asked, finish, reader)
        /\ UNCHANGED <<lookupVars, addedMirror, fileClosed>>

\* Mutant of GotPiece: a damaged piece is not given back.
KeptGotPiece(p, s, content) ==
    /\ <<p, s>> \in streaming
    /\ streaming' = streaming \ {<<p, s>>}
    /\ data' = [data EXCEPT ![p] = content]
    /\ errors' = [errors EXCEPT ![s] = 0]
    /\ GetPieces(sitelist, outstanding, complete, asked, nextFinish, reader)
    /\ UNCHANGED <<lookupVars, addedMirror, nextFinish, fileClosed>>

\* FileDownload._gotPiece: the whole response was written.  A piece that does not match
\* its hash, if the hash is known, is asked for again; a good one makes the pieces from
\* nextFinish on available to the stream, which is an AttributeError if there is none.
GotPiece(p, s, content) ==
    LET comp == [complete EXCEPT ![p] = "done"]
        finish == Finished(comp)
    IN  /\ <<p, s>> \in streaming
        /\ streaming' = streaming \ {<<p, s>>}
        /\ data' = [data EXCEPT ![p] = content]
        /\ \/ /\ pieces = "hashes" /\ content = "bad"
              /\ errors' = OneMoreError(s)
              /\ nextFinish' = nextFinish
              /\ GetPieces(sitelist, outstanding, Freed(p), asked, nextFinish, reader)
           \/ /\ pieces = "hashes" => content = "good"
              /\ errors' = [errors EXCEPT ![s] = 0]
              /\ IF finish = nextFinish \/ reader = "streaming"
                 THEN /\ nextFinish' = finish
                      /\ GetPieces(sitelist, outstanding, comp, asked, finish, reader)
                 ELSE /\ nextFinish' = nextFinish + 1
                      /\ complete' = comp
                      /\ UNCHANGED <<sitelist, outstanding, asked, reader, ended>>
        /\ UNCHANGED <<lookupVars, addedMirror, fileClosed>>

\* FileDownload._gotError: the response broke off, or the file was closed.
GotError(p, s) ==
    /\ <<p, s>> \in streaming
    /\ streaming' = streaming \ {<<p, s>>}
    /\ errors' = OneMoreError(s)
    /\ GetPieces(sitelist, outstanding, Freed(p), asked, nextFinish, reader)
    /\ UNCHANGED <<lookupVars, addedMirror, nextFinish, data, fileClosed>>

\* GrowingFileStream._close: the HTTP client closes the stream, or has read all of it.
CloseFile ==
    /\ reader = "streaming"
    /\ ~fileClosed
    /\ fileClosed' = TRUE
    /\ UNCHANGED <<lookupVars, pieceVars, streaming, data, reader, ended>>

-----------------------------------------------------------------------------

LookupEnds(s) ==
    \/ GotHashes(s) \/ LookupRaises(s)
    \/ s = DHT /\ NoHashesInDHT
    \/ s \in Sites /\ GetPeerPieces(s)

Response(p, s) == GetError(p, s) \/ \E code \in {"ok", "wrong", "gone"} : GetPiece(p, s, code)

StreamEnds(p, s) == GotError(p, s) \/ \E content \in {"good", "bad"} : GotPiece(p, s, content)

Progress ==
    \/ Run
    \/ \E s \in Sources : LookupEnds(s)
    \/ \E p \in Pieces, s \in AllSites : Response(p, s) \/ StreamEnds(p, s)

Next == Progress \/ CloseFile

\* Requests go on being answered and answers go on coming to an end, or their
\* connections break, as long as there are any.  Nothing is assumed of what the answers
\* are, nor of the HTTP client.
Fairness == WF_vars(Progress)

Safety == Init /\ [][Next]_vars
Spec == Safety /\ Fairness

-----------------------------------------------------------------------------
(* Properties. *)

Aborted == ended /\ nextFinish < N /\ ~fileClosed
Concluded == reader = "refused" \/ ended \/ fileClosed

\* completePieces tells the truth: a piece is being fetched exactly from the peer it
\* names, at most once, and a peer's name is never left behind by a failed transfer, so
\* that no piece is fetched twice at a time and none is left out.
OneTransferPerPiece ==
    \A p \in Pieces :
        LET transfers == {t \in asked \cup streaming : t[1] = p}
        IN  /\ transfers = IF complete[p] \in AllSites THEN {<<p, complete[p]>>} ELSE {}
            /\ asked \cap streaming = {}

\* With the hashes known, the HTTP client is never offered a piece that does not match
\* its hash, whatever was written to the file before or is being written to it.
ServedIsVerified ==
    pieces = "hashes" => \A p \in 1 .. nextFinish : data[p] = "good"

\* The download gives up (a 500, or a response cut short) only when all peers are used
\* up, no request is on its way and the mirror has been tried, wherever the piece hashes
\* came from.  The one exception is a piece hash request to a peer that fails late, after
\* the hashes have come from another: startDownload has reset the number of outstanding
\* requests, the failure is subtracted from it all the same (getPeerPieces), and the
\* code may then give up with requests out.
GivesUpLast ==
    (reader = "refused" \/ Aborted) /\ ~late =>
        sitelist = {} /\ asked = {} /\ (addedMirror \/ MIN_DOWNLOAD_PEERS = 0)

Damage ==
    \E t \in streaming : t \notin streaming' /\ data'[t[1]] # "good"

\* Unless peers send damaged pieces for ever, the HTTP client gets the end of its answer,
\* or the lookup of the piece hashes has ended in an exception, after which the client
\* may wait for ever.
DownloadConcludes == <>[][~Damage]_vars => <>(Concluded \/ raised)
=============================================================================
