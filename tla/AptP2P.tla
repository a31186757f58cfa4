------------------------------- MODULE AptP2P -------------------------------
(***************************************************************************)
(* How a request of apt is answered: HTTPServer's FileDownloader, the main *)
(* workflow in apt_p2p.py from get_resp on, MirrorManager and PeerManager  *)
(* that it goes through, and the cache that requests share.                *)
(*                                                                         *)
(* The parts that have modules of their own are known by their promises:   *)
(* findHash, getValue and the downloads answer every call once             *)
(* (AptPackages, DHT, FileDownload, Peer), and FileDownload answers with a *)
(* response, if need be a 500, never with an error.  The hash of a         *)
(* package is known, unless its mirror's indexes cannot be read; it is     *)
(* the same on all mirrors.  Other files are known by their versions, and  *)
(* the mirror may replace them.  Requests for one URL are not kept apart:  *)
(* the later download replaces the file of the earlier one, which does not *)
(* notice.                                                                 *)
(***************************************************************************)
EXTENDS Naturals

CONSTANTS
    Requests,    \* requests of apt
    Packages,    \* URLs of one package, at several mirrors
    Indexes,     \* URLs of files that are in no index
    File,        \* the package, and its hash
    Bad,         \* anything else a peer may send for it
    Other,       \* what another download put in place of a file before it was recorded
    None,
    MaxVersion   \* bound on how often a mirror replaces a file

ASSUME AptP2PAssumption ==
    /\ Packages \cap Indexes = {}
    /\ None \notin Requests \cup {"cache", "peers", "mirror"}
    /\ MaxVersion \in Nat \ {0}
    /\ {File, Bad, Other, None} \cap (1 .. MaxVersion) = {}
    /\ File # Bad /\ File # Other /\ Bad # Other /\ None \notin {File, Bad, Other}

VARIABLES
    stage,    \* what a request waits for
    url,      \* the URL it is for
    hash,     \* hash.expected(), or None
    orig,     \* the file that orig_resp sends, or None
    answer,   \* what it was answered with, and by whom
    version,  \* what a mirror has at a URL
    cached,   \* what the database has of the file at a URL's path in the cache, if it has not
              \* changed since: the content whose hash and time it has, and what is there
    holder,   \* the request whose download's file is at the path, or None
    removing  \* the requests whose response, when it is closed, removes what is at the path

request == <<url, hash, orig>>
cache == <<cached, holder, removing>>
vars == <<stage, request, answer, version, cache>>

Urls == Packages \cup Indexes
Versions == 1 .. MaxVersion
Contents == {File, Bad, Other} \cup Versions
Row == [of : Contents, content : Contents]
NoAnswer == [by |-> None, content |-> None]

TypeOK ==
    /\ stage \in [Requests -> {"none", "hash", "fresh", "dht", "peers", "mirror", "saving", "done"}]
    /\ url \in [Requests -> Urls \cup {None}]
    /\ hash \in [Requests -> {File, None}]
    /\ orig \in [Requests -> Row \cup {None}]
    /\ answer \in [Requests -> [by : {"cache", "peers", "mirror", None}, content : Contents \cup {None}]]
    /\ version \in [Urls -> {File} \cup Versions]
    /\ cached \in [Urls -> Row \cup {None}]
    /\ holder \in [Urls -> Requests \cup {None}]
    /\ removing \subseteq Requests

Init ==
    /\ stage = [r \in Requests |-> "none"]
    /\ url = [r \in Requests |-> None]
    /\ hash = [r \in Requests |-> None]
    /\ orig = [r \in Requests |-> None]
    /\ answer = [r \in Requests |-> NoAnswer]
    /\ version = [u \in Urls |-> IF u \in Packages THEN File ELSE 1]
    /\ cached = [u \in Urls |-> None]
    /\ holder = [u \in Urls |-> None]
    /\ removing = {}

-----------------------------------------------------------------------------

\* The request's Deferred is called back, and it waits for something else or is done.
Answered(r, by, content, next) ==
    /\ answer' = [answer EXCEPT ![r] = [by |-> by, content |-> content]]
    /\ stage' = [stage EXCEPT ![r] = next]

Waits(r, next) ==
    /\ stage' = [stage EXCEPT ![r] = next]
    /\ UNCHANGED answer

\* FileDownloader.renderHTTP and get_resp: a file that is not in the database as it is,
\* perhaps because it is being downloaded, is removed; MirrorManager is asked for the hash.
GetResp(r, u) ==
    /\ stage[r] = "none"
    /\ Waits(r, "hash")
    /\ url' = [url EXCEPT ![r] = u]
    /\ orig' = [orig EXCEPT ![r] = cached[u]]
    /\ holder' = IF cached[u] = None THEN [holder EXCEPT ![u] = None] ELSE holder
    /\ UNCHANGED <<hash, cached, removing, version>>

\* MirrorManager.findHash: the hash, if the indexes of the URL's mirror have it.
FindHash(u) == IF u \in Packages THEN {File, None} ELSE {None}

\* startDownload without peers, PeerManager.get from the mirror.
FromMirror(r) == Waits(r, "mirror")

\* findHash_done and getCachedFile: a file with the hash is sent from the cache, from
\* whatever URL it was, unless it cannot be read; without a hash an original response
\* is checked.
FindHashDone(r, h) ==
    /\ stage[r] = "hash"
    /\ hash' = [hash EXCEPT ![r] = h]
    /\ \/ /\ h = None /\ orig[r] # None
          /\ Waits(r, "fresh")
       \/ /\ h = None /\ orig[r] = None
          /\ FromMirror(r)
       \/ /\ h # None
          /\ \E u \in Urls : /\ cached[u] # None /\ cached[u].of = h
                             /\ Answered(r, "cache", cached[u].content, "done")
       \/ /\ h # None
          /\ Waits(r, "dht")
    /\ UNCHANGED <<url, orig, version, cache>>

\* check_freshness_done: the mirror compares modification times, which a bad file has
\* from the peer's response.
CheckFreshnessDone(r) ==
    /\ stage[r] = "fresh"
    /\ \/ /\ orig[r].of \in {version[url[r]], Bad}
          /\ Answered(r, "cache", orig[r].content, "done")
       \/ /\ orig[r].of # version[url[r]]
          /\ FromMirror(r)
    /\ UNCHANGED <<request, version, cache>>

\* Mutant of CheckFreshnessError: nobody goes on.
IdleCheckFreshnessError(r) ==
    /\ stage[r] = "fresh"
    /\ Waits(r, "done")
    /\ UNCHANGED <<request, version, cache>>

\* check_freshness_error: the mirror is asked for the file all the same.
CheckFreshnessError(r) ==
    /\ stage[r] = "fresh"
    /\ FromMirror(r)
    /\ UNCHANGED <<request, version, cache>>

\* lookupHash has ended: startDownload from the peers that the DHT knows, if there are
\* any and it did not fail.
LookupDone(r) ==
    /\ stage[r] = "dht"
    /\ Waits(r, "peers") \/ FromMirror(r)
    /\ UNCHANGED <<request, version, cache>>

\* CacheManager.save_file: what is at the path, even if another request is being answered
\* from it, is replaced by a file that the response is written to while it is sent.
SaveFile(r, by, content) ==
    /\ Answered(r, by, content, "saving")
    /\ cached' = [cached EXCEPT ![url[r]] = None]
    /\ holder' = [holder EXCEPT ![url[r]] = r]
    /\ UNCHANGED removing

\* Mutant of PeersDone: a response that is not a file is passed on.
TrustingPeersDone(r) ==
    /\ stage[r] = "peers"
    /\ \/ \E content \in {File, Bad} : SaveFile(r, "peers", content)
       \/ /\ Answered(r, "peers", None, "done")
          /\ UNCHANGED cache
    /\ UNCHANGED <<request, version>>

\* The response of PeerManager.get from peers, and check_response: a response that is
\* not a file leads to the mirror.
PeersDone(r) ==
    /\ stage[r] = "peers"
    /\ \/ \E content \in {File, Bad} : SaveFile(r, "peers", content)
       \/ /\ FromMirror(r)
          /\ UNCHANGED cache
    /\ UNCHANGED <<request, version>>

\* The mirror sends the file, or a response that is passed on as it is, or fails
\* (save_error).
MirrorDone(r) ==
    /\ stage[r] = "mirror"
    /\ \/ SaveFile(r, "mirror", version[url[r]])
       \/ /\ Answered(r, "mirror", None, "done")
          /\ UNCHANGED cache
    /\ UNCHANGED <<request, version>>

\* _gotData: what the database may have recorded of the file has changed.
GotData(r) ==
    LET u == url[r]
    IN  /\ stage[r] = "saving" /\ holder[u] = r /\ cached[u] # None
        /\ cached' = [cached EXCEPT ![u] = None]
        /\ UNCHANGED <<stage, request, answer, version, holder, removing>>

\* What storeFile records for a request: the hash of its file, its time (os.utime), and
\* what is at the path.
Recorded(r) ==
    [of |-> answer[r].content, content |-> IF holder[url[r]] = r THEN answer[r].content ELSE Other]

\* Mutant of SaveComplete: the hash is not looked at.
TrustingSaveComplete(r) ==
    LET u == url[r]
    IN  /\ stage[r] = "saving"
        /\ holder[u] # None
        /\ Waits(r, "done")
        /\ cached' = [cached EXCEPT ![u] = Recorded(r)]
        /\ UNCHANGED <<request, version, holder, removing>>

\* CacheManager._save_complete: the file is recorded if the hash is right or none was
\* known.  Whatever is at the path now is taken for it.
SaveComplete(r) ==
    LET u == url[r]
    IN  /\ stage[r] = "saving"
        /\ hash[r] \in {None, answer[r].content}
        /\ holder[u] # None
        /\ Waits(r, "done")
        /\ cached' = [cached EXCEPT ![u] = Recorded(r)]
        /\ UNCHANGED <<request, version, holder, removing>>

\* CacheManager._save_error; or _save_complete if the hash is wrong, or if nothing is at the
\* path, so that storeFile fails.  The response is to remove its file.
SaveError(r) ==
    /\ stage[r] = "saving"
    /\ Waits(r, "done")
    /\ removing' = removing \cup {r}
    /\ UNCHANGED <<request, version, cached, holder>>

\* GrowingFileStream._close removes whatever is at the path, at once, later, or not at all,
\* since apt may have closed the response before.
Close(r) ==
    /\ r \in removing
    /\ removing' = removing \ {r}
    /\ cached' = [cached EXCEPT ![url[r]] = None]
    /\ holder' = [holder EXCEPT ![url[r]] = None]
    /\ UNCHANGED <<stage, request, answer, version>>

\* The mirror gets a new version of a file.
MirrorChanges(u) ==
    /\ version[u] < MaxVersion
    /\ version' = [version EXCEPT ![u] = @ + 1]
    /\ UNCHANGED <<stage, request, answer, cache>>

-----------------------------------------------------------------------------

Progress(r) ==
    \/ stage[r] = "hash" /\ \E h \in FindHash(url[r]) : FindHashDone(r, h)
    \/ CheckFreshnessDone(r) \/ CheckFreshnessError(r)
    \/ LookupDone(r)
    \/ PeersDone(r) \/ MirrorDone(r)
    \/ SaveComplete(r) \/ SaveError(r)

Next ==
    \/ \E r \in Requests, u \in Urls : GetResp(r, u)
    \/ \E r \in Requests : Progress(r) \/ GotData(r) \/ Close(r)
    \/ \E u \in Indexes : MirrorChanges(u)

Safety == Init /\ [][Next]_vars

\* The parts asked answer every call (EveryoneIsAnswered of AptPackages, CallsEnd of DHT as
\* long as it is not left, DownloadConcludes of FileDownload if no lookup of pieces raises an
\* exception, OnceSpec of Peer), and streams come to an end.
Fairness == \A r \in Requests : WF_vars(Progress(r))

Spec == Safety /\ Fairness

-----------------------------------------------------------------------------
(* Properties. *)

\* What is sent from the cache is right: it has the hash that the index gives for the URL,
\* or else is what the mirror has at that moment (check_freshness), although requests
\* for the same file replace and remove it meanwhile, mirrors get new versions
\* and peers send what they like.  Only when a download was recorded after another one of
\* its URL had put its own file there is that file sent in its place.
CacheIsRight ==
    [][\A r \in Requests :
         answer'[r] # answer[r] /\ answer'[r].by = "cache" =>
             answer'[r].content \in {IF hash'[r] # None THEN hash'[r] ELSE version[url[r]], Other}]_vars

\* Only the mirror has the last word: apt is never told that there is no file because of
\* peers or the DHT (check_response), and peers are never asked for a file whose hash
\* is not known, which nobody could check.
MirrorIsLast ==
    \A r \in Requests :
        /\ answer[r].by # None /\ answer[r].content = None => answer[r].by = "mirror"
        /\ answer[r].by = "peers" => hash[r] # None

\* Every request gets one answer, through whichever parts it goes: the promise of
\* RequestOnce, made to apt.
Told == [r \in Requests |-> IF stage[r] = "none" THEN "none"
                            ELSE IF answer[r].by = None THEN "pending"
                            ELSE IF answer[r].content = None THEN "error"
                            ELSE "answered"]
Once == INSTANCE RequestOnce WITH Reqs <- Requests, status <- Told
OnceSpec == Once!Spec
=============================================================================
