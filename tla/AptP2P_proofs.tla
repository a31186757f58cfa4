--------------------------- MODULE AptP2P_proofs ----------------------------
(***************************************************************************)
(* Theorems about AptP2P for every number of requests, URLs and versions,  *)
(* with their proofs: what is sent from the cache is right, the mirror has *)
(* the last word, and every request is answered once.  At the end, the     *)
(* theorems about the packages cache that findHash asks.                   *)
(***************************************************************************)
EXTENDS AptP2P, AptPackages, SequenceTheorems, TLAPS

Known == {File} \cup Versions

Stages == {"none", "hash", "fresh", "dht", "peers", "mirror", "saving", "done"}

\* A request that is under way has no answer; its hash is known where only files with a
\* hash go, and unknown where the mirror is asked about a cached file.
StageInv ==
    /\ stage \in [Requests -> Stages]
    /\ hash \in [Requests -> {File, None}]
    /\ \A r \in Requests :
         /\ stage[r] \notin {"saving", "done"} => answer[r] = NoAnswer
         /\ stage[r] \in {"saving", "done"} => answer[r].by # None
         /\ stage[r] \in {"dht", "peers"} => hash[r] = File
         /\ stage[r] = "fresh" => hash[r] = None

Answer == [by : {"cache", "peers", "mirror", None}, content : Contents \cup {None}]

\* Only peers send a wrong file, and only under a hash; only a file is saved.
AnswerInv ==
    /\ answer \in [Requests -> Answer]
    /\ \A r \in Requests :
         /\ answer[r].content = Bad => hash[r] = File
         /\ stage[r] = "saving" => answer[r].content \in Known \cup {Bad}
    /\ MirrorIsLast

\* What is in the cache is what it was recorded as, or what another download left there.
Kept == {k \in Row : k.of \in Known /\ k.content \in {k.of, Other}}

\* Nothing wrong is kept.
CacheInv ==
    /\ version \in [Urls -> Known]
    /\ \A u \in Indexes : version[u] \in Versions
    /\ cached \in [Urls -> Kept \cup {None}]
    /\ orig \in [Requests -> Kept \cup {None}]
    /\ \A r \in Requests : stage[r] = "fresh" => orig[r] # None
    /\ url \in [Requests -> Urls \cup {None}]
    /\ holder \in [Urls -> Requests \cup {None}]
    /\ removing \subseteq Requests
    /\ \A r \in Requests : stage[r] # "none" => url[r] \in Urls

IInv == StageInv /\ AnswerInv /\ CacheInv

-----------------------------------------------------------------------------

LEMMA Distinct ==
    /\ File # Bad /\ File # None /\ Bad # None
    /\ Other # Bad /\ Other # None /\ Other \notin Known /\ Other \in Contents
    /\ Bad \notin Known /\ None \notin Known /\ Known \subseteq Contents
    /\ None \notin Requests
    /\ None # "cache" /\ None # "peers" /\ None # "mirror"
  BY AptP2PAssumption DEF Known, Versions, Contents

LEMMA KeptContent ==
    ASSUME NEW k \in Kept
    PROVE  /\ k.of \in Known /\ k.content \in {k.of, Other} /\ k.content \in Contents
           /\ k.content # Bad /\ k.content # None
  BY Distinct DEF Kept, Row

LEMMA InitIInv == Init => IInv
<1> SUFFICES ASSUME Init PROVE IInv
  OBVIOUS
<1>1. StageInv
  BY DEF Init, StageInv, Stages
<1>2. AnswerInv
  <2>1. \A r \in Requests : answer[r] = NoAnswer
    BY DEF Init
  <2>2. NoAnswer \in Answer /\ NoAnswer.by = None /\ NoAnswer.content = None
    BY DEF NoAnswer, Answer
  <2>3. QED
    BY <2>1, <2>2, Distinct DEF Init, AnswerInv, MirrorIsLast
<1>3. CacheInv
  BY AptP2PAssumption DEF Init, CacheInv, Known, Versions, Urls
<1>4. QED
  BY <1>1, <1>2, <1>3 DEF IInv

-----------------------------------------------------------------------------
(* What becomes of a request. *)

\* What a request is answered with, and under which hash.
Proper(by, content, h) ==
    /\ by \in {"cache", "peers", "mirror"} /\ content \in Contents \cup {None}
    /\ content = Bad => h = File
    /\ by = "peers" => h = File
    /\ content = None => by = "mirror"

LEMMA AnsweredStep ==
    ASSUME IInv, NEW r \in Requests, NEW by, NEW content, NEW next \in {"saving", "done"},
           Answered(r, by, content, next), Proper(by, content, hash'[r]),
           next = "saving" => content \in Known \cup {Bad},
           hash' \in [Requests -> {File, None}],
           \A s \in Requests : s # r => hash'[s] = hash[s]
    PROVE  StageInv' /\ AnswerInv'
<1> DEFINE given == [by |-> by, content |-> content]
<1>1. answer' = [answer EXCEPT ![r] = given] /\ stage' = [stage EXCEPT ![r] = next]
  BY DEF Answered
<1>2. given \in Answer /\ given.by = by /\ given.content = content
  BY DEF Proper, Answer
<1> HIDE DEF given
<1>3. answer' \in [Requests -> Answer] /\ stage' \in [Requests -> Stages]
  BY <1>1, <1>2 DEF IInv, AnswerInv, StageInv, Stages
<1>4. answer'[r].by = by /\ answer'[r].content = content /\ stage'[r] = next
  BY <1>1, <1>2 DEF IInv, AnswerInv, StageInv
<1>5. \A s \in Requests : s # r => answer'[s] = answer[s] /\ stage'[s] = stage[s]
  BY <1>1 DEF IInv, AnswerInv, StageInv
<1>6. StageInv'
  BY <1>3, <1>4, <1>5, Distinct DEF IInv, StageInv, Proper
<1>7. AnswerInv'
  BY <1>3, <1>4, <1>5, Distinct DEF IInv, AnswerInv, MirrorIsLast, Proper, Stages
<1>8. QED
  BY <1>6, <1>7

LEMMA WaitsStep ==
    ASSUME IInv, NEW r \in Requests, NEW next \in Stages \ {"none", "saving", "done"},
           stage[r] \notin {"saving", "done"}, Waits(r, next),
           hash' \in [Requests -> {File, None}],
           \A s \in Requests : s # r => hash'[s] = hash[s],
           next \in {"dht", "peers"} => hash'[r] = File,
           next = "fresh" => hash'[r] = None
    PROVE  StageInv' /\ AnswerInv'
<1>1. answer' = answer /\ stage' = [stage EXCEPT ![r] = next]
  BY DEF Waits
<1>2. answer[r].by = None /\ answer[r].content = None /\ answer[r] = NoAnswer
  BY DEF IInv, StageInv, NoAnswer
<1>3. stage' \in [Requests -> Stages] /\ stage'[r] = next
      /\ \A s \in Requests : s # r => stage'[s] = stage[s]
  BY <1>1 DEF IInv, StageInv
<1>4. StageInv'
  BY <1>1, <1>2, <1>3 DEF IInv, StageInv, Stages
<1>5. AnswerInv'
  BY <1>1, <1>2, <1>3, Distinct DEF IInv, AnswerInv, MirrorIsLast
<1>6. QED
  BY <1>4, <1>5

LEMMA SavedStep ==
    ASSUME IInv, NEW r \in Requests, stage[r] = "saving", Waits(r, "done"), UNCHANGED hash
    PROVE  StageInv' /\ AnswerInv'
<1>1. answer' = answer /\ stage' = [stage EXCEPT ![r] = "done"]
  BY DEF Waits
<1>2. stage' \in [Requests -> Stages] /\ stage'[r] = "done"
      /\ \A s \in Requests : s # r => stage'[s] = stage[s]
  BY <1>1 DEF IInv, StageInv, Stages
<1>3. StageInv'
  BY <1>1, <1>2 DEF IInv, StageInv
<1>4. AnswerInv'
  BY <1>1, <1>2 DEF IInv, AnswerInv, MirrorIsLast
<1>5. QED
  BY <1>3, <1>4

\* A request that goes on keeps its URL.
LEMMA CacheLeftAlone ==
    ASSUME IInv, NEW r \in Requests, NEW next, stage[r] # "none",
           stage' = [stage EXCEPT ![r] = next],
           next = "fresh" => orig[r] # None,
           UNCHANGED <<url, orig, version, cached, holder, removing>>
    PROVE  CacheInv'
<1>1. \A s \in Requests : /\ stage'[s] # "none" => stage[s] # "none"
                          /\ stage'[s] = "fresh" => orig[s] # None
  BY DEF IInv, StageInv, CacheInv
<1>2. QED
  BY <1>1 DEF IInv, CacheInv

-----------------------------------------------------------------------------
(* The steps. *)

LEMMA GetRespStep == ASSUME IInv, NEW r \in Requests, NEW u \in Urls, GetResp(r, u) PROVE IInv'
<1>1. /\ stage[r] = "none" /\ Waits(r, "hash")
      /\ url' = [url EXCEPT ![r] = u]
      /\ orig' = [orig EXCEPT ![r] = cached[u]]
      /\ holder' = IF cached[u] = None THEN [holder EXCEPT ![u] = None] ELSE holder
      /\ UNCHANGED <<hash, cached, removing, version>>
  BY DEF GetResp
<1>2. StageInv' /\ AnswerInv'
  BY <1>1, WaitsStep DEF IInv, StageInv, Stages
<1>3. /\ \A s \in Requests : s # r => stage'[s] = stage[s] /\ url'[s] = url[s] /\ orig'[s] = orig[s]
      /\ stage'[r] = "hash" /\ url'[r] = u
  BY <1>1 DEF IInv, StageInv, CacheInv, Waits
<1>4. /\ orig' \in [Requests -> Kept \cup {None}] /\ url' \in [Requests -> Urls \cup {None}]
      /\ holder' \in [Urls -> Requests \cup {None}]
  BY <1>1 DEF IInv, CacheInv
<1>6. CacheInv'
  BY <1>1, <1>3, <1>4 DEF IInv, CacheInv
<1>5. QED
  BY <1>2, <1>6 DEF IInv

LEMMA FindHashDoneStep ==
    ASSUME IInv, NEW r \in Requests, NEW h \in {File, None}, FindHashDone(r, h)
    PROVE  IInv'
<1>1. /\ stage[r] = "hash" /\ hash' = [hash EXCEPT ![r] = h]
      /\ UNCHANGED <<url, orig, version, cache>>
  BY DEF FindHashDone
<1>2. hash' \in [Requests -> {File, None}] /\ hash'[r] = h
      /\ \A s \in Requests : s # r => hash'[s] = hash[s]
  BY <1>1 DEF IInv, StageInv
<1>3. CASE h = None /\ orig[r] # None /\ Waits(r, "fresh")
  BY <1>1, <1>2, <1>3, WaitsStep, CacheLeftAlone DEF Waits, Stages, IInv, cache
<1>4. CASE Waits(r, "mirror")
  BY <1>1, <1>2, <1>4, WaitsStep, CacheLeftAlone DEF Waits, Stages, IInv, cache
<1>5. ASSUME NEW u \in Urls, cached[u] # None, Answered(r, "cache", cached[u].content, "done")
      PROVE  IInv'
  <2>1. cached[u] \in Kept
    BY <1>5 DEF IInv, CacheInv
  <2>2. Proper("cache", cached[u].content, hash'[r])
    BY <2>1, KeptContent DEF Proper
  <2>3. QED
    BY <1>1, <1>2, <1>5, <2>2, AnsweredStep, CacheLeftAlone DEF Answered, IInv, cache
<1>6. CASE h # None /\ Waits(r, "dht")
  BY <1>1, <1>2, <1>6, WaitsStep, CacheLeftAlone DEF Waits, Stages, IInv, cache
<1>7. QED
  BY <1>3, <1>4, <1>5, <1>6 DEF FindHashDone, FromMirror

LEMMA CheckFreshnessStep ==
    ASSUME IInv, NEW r \in Requests, CheckFreshnessDone(r) \/ CheckFreshnessError(r)
    PROVE  IInv'
<1>1. stage[r] = "fresh" /\ UNCHANGED <<request, version, cache>>
  BY DEF CheckFreshnessDone, CheckFreshnessError
<1>2. hash' \in [Requests -> {File, None}] /\ hash' = hash
  BY <1>1 DEF IInv, StageInv, request
<1>3. CASE Waits(r, "mirror")
  BY <1>1, <1>2, <1>3, WaitsStep, CacheLeftAlone DEF Waits, Stages, IInv, cache, request
<1>4. CASE Answered(r, "cache", orig[r].content, "done")
  <2>1. orig[r] \in Kept
    BY <1>1 DEF IInv, CacheInv
  <2>2. Proper("cache", orig[r].content, hash'[r])
    BY <2>1, KeptContent DEF Proper
  <2>3. QED
    BY <1>1, <1>2, <1>4, <2>2, AnsweredStep, CacheLeftAlone DEF Answered, IInv, cache, request
<1>5. QED
  BY <1>3, <1>4 DEF CheckFreshnessDone, CheckFreshnessError, FromMirror

LEMMA LookupDoneStep == ASSUME IInv, NEW r \in Requests, LookupDone(r) PROVE IInv'
<1>1. stage[r] = "dht" /\ UNCHANGED <<request, version, cache>>
  BY DEF LookupDone
<1>2. hash' \in [Requests -> {File, None}] /\ hash' = hash /\ hash[r] = File
  BY <1>1 DEF IInv, StageInv, request
<1>3. CASE Waits(r, "peers")
  BY <1>1, <1>2, <1>3, WaitsStep, CacheLeftAlone DEF Waits, Stages, IInv, cache, request
<1>4. CASE Waits(r, "mirror")
  BY <1>1, <1>2, <1>4, WaitsStep, CacheLeftAlone DEF Waits, Stages, IInv, cache, request
<1>5. QED
  BY <1>3, <1>4 DEF LookupDone, FromMirror

\* A file that is sent is written to the cache as well.
LEMMA SaveFileStep ==
    ASSUME IInv, NEW r \in Requests, NEW by, NEW content, stage[r] # "none",
           SaveFile(r, by, content), Proper(by, content, hash[r]), content \in Known \cup {Bad},
           UNCHANGED <<request, version>>
    PROVE  IInv'
<1>1. /\ Answered(r, by, content, "saving")
      /\ cached' = [cached EXCEPT ![url[r]] = None]
      /\ holder' = [holder EXCEPT ![url[r]] = r]
      /\ UNCHANGED <<url, hash, orig, version, removing>>
  BY DEF SaveFile, request
<1>2. StageInv' /\ AnswerInv'
  BY <1>1, AnsweredStep DEF IInv, StageInv
<1>3. \A s \in Requests : /\ stage'[s] # "none" => stage[s] # "none"
                          /\ stage'[s] = "fresh" => stage[s] = "fresh"
  BY <1>1 DEF Answered, IInv, StageInv
<1>4. CacheInv'
  BY <1>1, <1>3 DEF IInv, CacheInv
<1>5. QED
  BY <1>2, <1>4 DEF IInv

LEMMA PeersDoneStep == ASSUME IInv, NEW r \in Requests, PeersDone(r) PROVE IInv'
<1>1. stage[r] = "peers" /\ UNCHANGED <<request, version>>
  BY DEF PeersDone
<1>2. hash' \in [Requests -> {File, None}] /\ hash' = hash /\ hash[r] = File
  BY <1>1 DEF IInv, StageInv, request
<1>3. ASSUME NEW content \in {File, Bad}, SaveFile(r, "peers", content) PROVE IInv'
  BY <1>1, <1>2, <1>3, SaveFileStep, Distinct DEF Proper, Contents, Known
<1>4. ASSUME Waits(r, "mirror"), UNCHANGED cache PROVE IInv'
  BY <1>1, <1>2, <1>4, WaitsStep, CacheLeftAlone DEF Waits, Stages, IInv, cache, request
<1>5. QED
  BY <1>3, <1>4 DEF PeersDone, FromMirror

LEMMA MirrorDoneStep == ASSUME IInv, NEW r \in Requests, MirrorDone(r) PROVE IInv'
<1>1. stage[r] = "mirror" /\ UNCHANGED <<request, version>>
  BY DEF MirrorDone
<1>2. hash' \in [Requests -> {File, None}] /\ hash' = hash /\ version[url[r]] \in Known
  BY <1>1 DEF IInv, StageInv, CacheInv, request
<1>3. CASE SaveFile(r, "mirror", version[url[r]])
  BY <1>1, <1>2, <1>3, SaveFileStep, Distinct DEF Proper
<1>4. CASE Answered(r, "mirror", None, "done") /\ UNCHANGED cache
  <2>1. Proper("mirror", None, hash'[r])
    BY Distinct DEF Proper
  <2>2. QED
    BY <1>1, <1>2, <1>4, <2>1, AnsweredStep, CacheLeftAlone DEF Answered, IInv, cache, request
<1>5. QED
  BY <1>3, <1>4 DEF MirrorDone

LEMMA SaveCompleteStep == ASSUME IInv, NEW r \in Requests, SaveComplete(r) PROVE IInv'
<1>1. /\ stage[r] = "saving" /\ hash[r] \in {None, answer[r].content} /\ Waits(r, "done")
      /\ cached' = [cached EXCEPT ![url[r]] = Recorded(r)]
      /\ UNCHANGED <<url, hash, orig, version, holder, removing>>
  BY DEF SaveComplete, request
<1>2. StageInv' /\ AnswerInv'
  BY <1>1, SavedStep
<1>3. Recorded(r) \in Kept
  <2>1. answer[r].content \in Known
    BY <1>1, Distinct DEF IInv, AnswerInv
  <2>2. QED
    BY <2>1, Distinct DEF Recorded, Kept, Row
<1>4. \A s \in Requests : /\ stage'[s] # "none" => stage[s] # "none"
                          /\ stage'[s] = "fresh" => stage[s] = "fresh"
  BY <1>1 DEF Waits, IInv, StageInv
<1>5. CacheInv'
  BY <1>1, <1>3, <1>4 DEF IInv, CacheInv
<1>6. QED
  BY <1>2, <1>5 DEF IInv

LEMMA SaveErrorStep == ASSUME IInv, NEW r \in Requests, SaveError(r) PROVE IInv'
<1>1. /\ stage[r] = "saving" /\ Waits(r, "done") /\ removing' = removing \cup {r}
      /\ UNCHANGED <<url, hash, orig, version, cached, holder>>
  BY DEF SaveError, request
<1>2. StageInv' /\ AnswerInv'
  BY <1>1, SavedStep
<1>3. \A s \in Requests : /\ stage'[s] # "none" => stage[s] # "none"
                          /\ stage'[s] = "fresh" => stage[s] = "fresh"
  BY <1>1 DEF Waits, IInv, StageInv
<1>4. CacheInv'
  BY <1>1, <1>3 DEF IInv, CacheInv
<1>5. QED
  BY <1>2, <1>4 DEF IInv

\* A file that is written to or removed is not what the database has.
LEMMA FileStep == ASSUME IInv, NEW r \in Requests, GotData(r) \/ Close(r) PROVE IInv'
<1>1. /\ UNCHANGED <<stage, url, hash, orig, answer, version>>
      /\ cached' = [cached EXCEPT ![url[r]] = None]
      /\ holder' \in {holder, [holder EXCEPT ![url[r]] = None]}
      /\ removing' \in {removing, removing \ {r}}
  BY DEF GotData, Close, request
<1>2. StageInv' /\ AnswerInv'
  BY <1>1 DEF IInv, StageInv, AnswerInv, MirrorIsLast
<1>3. CacheInv'
  BY <1>1 DEF IInv, CacheInv
<1>4. QED
  BY <1>2, <1>3 DEF IInv

LEMMA MirrorChangesStep == ASSUME IInv, NEW u \in Indexes, MirrorChanges(u) PROVE IInv'
<1>1. /\ version[u] < MaxVersion /\ version' = [version EXCEPT ![u] = @ + 1]
      /\ UNCHANGED <<stage, request, answer, cache>>
  BY DEF MirrorChanges
<1>2. u \in Urls /\ version[u] + 1 \in Versions
  BY <1>1, AptP2PAssumption DEF IInv, CacheInv, Versions, Urls
<1>3. version' \in [Urls -> Known] /\ \A v \in Indexes : version'[v] \in Versions
  BY <1>1, <1>2 DEF IInv, CacheInv, Known, Urls
<1>4. StageInv' /\ AnswerInv'
  BY <1>1 DEF IInv, StageInv, AnswerInv, MirrorIsLast, request
<1>5. CacheInv'
  BY <1>1, <1>3 DEF IInv, CacheInv, request, cache
<1>6. QED
  BY <1>4, <1>5 DEF IInv

LEMMA ProgressStep == ASSUME IInv, NEW r \in Requests, Progress(r) PROVE IInv'
<1>1. CASE \E h \in FindHash(url[r]) : FindHashDone(r, h)
  BY <1>1, FindHashDoneStep DEF FindHash
<1>2. CASE CheckFreshnessDone(r) \/ CheckFreshnessError(r)
  BY <1>2, CheckFreshnessStep
<1>3. QED
  BY <1>1, <1>2, LookupDoneStep, PeersDoneStep, MirrorDoneStep, SaveCompleteStep, SaveErrorStep
  DEF Progress

LEMMA NextIInv == IInv /\ [Next]_vars => IInv'
<1> SUFFICES ASSUME IInv, [Next]_vars PROVE IInv'
  OBVIOUS
<1>1. CASE UNCHANGED vars
  BY <1>1 DEF vars, request, cache, IInv, StageInv, AnswerInv, MirrorIsLast, CacheInv
<1>2. QED
  BY <1>1, GetRespStep, ProgressStep, FileStep, MirrorChangesStep DEF Next

-----------------------------------------------------------------------------
(* The theorems. *)

\* The inductive invariant holds in every reachable state of the requests and the cache.
THEOREM Inductive == Safety => []IInv
  BY InitIInv, NextIInv, PTL DEF Safety

\* The state of the requests and the cache is always well formed.
THEOREM TypeCorrect == Spec => []TypeOK
<1>1. IInv => TypeOK
  BY DEF IInv, StageInv, AnswerInv, CacheInv, TypeOK, Stages, Answer, Known, Contents, Kept, Row
<1>2. QED
  BY <1>1, Inductive, PTL DEF Spec

\* Only the mirror has the last word, and peers are asked only for what can be checked,
\* however many requests, URLs and peers there are.
THEOREM MirrorHasTheLastWord == Spec => []MirrorIsLast
<1>1. IInv => MirrorIsLast
  BY DEF IInv, AnswerInv
<1>2. QED
  BY <1>1, Inductive, PTL DEF Spec

\* Only a request that finds the hash or a fresh file is answered from the cache.
LEMMA CacheAnswers ==
    ASSUME IInv, Next, NEW r \in Requests, answer'[r] # answer[r], answer'[r].by = "cache"
    PROVE  answer'[r].content \in {IF hash'[r] # None THEN hash'[r] ELSE version[url[r]], Other}
<1>1. ASSUME NEW s \in Requests, NEW by, NEW content, NEW next, Answered(s, by, content, next)
      PROVE  s = r /\ by = "cache" /\ answer'[r].content = content
  BY <1>1 DEF Answered, IInv, AnswerInv
<1>2. ASSUME NEW s \in Requests, NEW u \in Urls, GetResp(s, u) PROVE FALSE
  BY <1>2 DEF GetResp, Waits
<1>3. ASSUME NEW u \in Indexes, MirrorChanges(u) PROVE FALSE
  BY <1>3 DEF MirrorChanges
<1>4. ASSUME NEW s \in Requests, Progress(s)
      PROVE  answer'[r].content \in {IF hash'[r] # None THEN hash'[r] ELSE version[url[r]], Other}
  <2>1. ASSUME NEW h \in {File, None}, FindHashDone(s, h)
        PROVE  answer'[r].content \in {hash'[r], Other} /\ hash'[r] # None
    <3>1. PICK u \in Urls : /\ h # None /\ cached[u] # None /\ cached[u].of = h
                            /\ Answered(s, "cache", cached[u].content, "done")
                            /\ hash' = [hash EXCEPT ![s] = h]
      BY <2>1 DEF FindHashDone, FromMirror, Waits
    <3>2. hash'[s] = h /\ cached[u] \in Kept
      BY <3>1 DEF IInv, StageInv, CacheInv
    <3>3. s = r /\ answer'[r].content = cached[u].content
      BY <1>1, <3>1
    <3>4. QED
      BY <3>1, <3>2, <3>3, KeptContent
  <2>2. ASSUME CheckFreshnessDone(s)
        PROVE  answer'[r].content \in {version[url[r]], Other} /\ hash'[r] = None
    <3>1. orig[s].of \in {version[url[s]], Bad} /\ Answered(s, "cache", orig[s].content, "done")
      BY <2>2 DEF CheckFreshnessDone, FromMirror, Waits
    <3>2. s = r /\ answer'[r].content = orig[r].content
      BY <1>1, <3>1
    <3>3. orig[r] \in Kept
      BY <2>2, <3>2 DEF CheckFreshnessDone, IInv, CacheInv
    <3>4. hash'[r] = None
      BY <2>2, <3>2 DEF CheckFreshnessDone, IInv, StageInv, request
    <3>5. QED
      BY <3>1, <3>2, <3>3, <3>4, KeptContent, Distinct
  <2>3. ASSUME PeersDone(s) \/ MirrorDone(s) PROVE FALSE
    <3>1. \A by, content, next : Answered(s, by, content, next) => by = "cache"
      BY <1>1
    <3>2. QED
      BY <2>3, <3>1 DEF PeersDone, MirrorDone, SaveFile, FromMirror, Waits
  <2>4. ASSUME CheckFreshnessError(s) \/ LookupDone(s) \/ SaveComplete(s) \/ SaveError(s)
        PROVE  FALSE
    BY <2>4 DEF CheckFreshnessError, LookupDone, SaveComplete, SaveError, FromMirror, Waits
  <2>5. QED
    BY <1>4, <2>1, <2>2, <2>3, <2>4 DEF Progress, FindHash
<1>5. ASSUME NEW s \in Requests, GotData(s) \/ Close(s) PROVE FALSE
  BY <1>5 DEF GotData, Close
<1>6. QED
  BY <1>2, <1>3, <1>4, <1>5 DEF Next

\* What is sent from the cache has the hash that the index gives, or is what the mirror has at
\* that moment, whatever requests, mirrors and peers do, unless another download of its URL
\* had put its own file there before it was recorded: the code keeps that one as if it
\* were right (_save_complete).
THEOREM RightFromCache == Spec => CacheIsRight
<1> DEFINE Right == \A r \in Requests :
                      answer'[r] # answer[r] /\ answer'[r].by = "cache" =>
                        answer'[r].content
                          \in {IF hash'[r] # None THEN hash'[r] ELSE version[url[r]], Other}
<1>1. IInv /\ [Next]_vars => [Right]_vars
  BY CacheAnswers
<1>2. Safety => [][Right]_vars
  <2> HIDE DEF Right
  <2>1. QED
    BY <1>1, Inductive, PTL DEF Safety
<1>3. QED
  BY <1>2 DEF Spec, CacheIsRight

-----------------------------------------------------------------------------
(* The refinement of RequestOnce. *)

LEMMA NextIsOnce == IInv /\ [Next]_vars => [Once!Next]_Told
<1> SUFFICES ASSUME IInv, [Next]_vars PROVE [Once!Next]_Told
  OBVIOUS
<1>a. answer \in [Requests -> Answer] /\ stage \in [Requests -> Stages]
  BY DEF IInv, AnswerInv, StageInv
<1>b. ASSUME NEW r \in Requests, NEW by, NEW content, NEW next \in {"saving", "done"},
             Answered(r, by, content, next), stage[r] \notin {"none", "saving", "done"},
             by # None
      PROVE  Once!Next
  <2>1. Told[r] = "pending"
    BY <1>b DEF Told, IInv, StageInv, NoAnswer
  <2>2. \A s \in Requests : s # r => answer'[s] = answer[s] /\ stage'[s] = stage[s]
    BY <1>a, <1>b DEF Answered
  <2>3. answer'[r].by # None /\ stage'[r] # "none"
    BY <1>a, <1>b DEF Answered
  <2>4. PICK o \in {"error", "answered"} : Told' = [s \in Requests |-> IF s = r THEN o ELSE Told[s]]
    <3> DEFINE o == IF answer'[r].content = None THEN "error" ELSE "answered"
    <3>1. Told' = [s \in Requests |-> IF s = r THEN o ELSE Told[s]]
      BY <2>2, <2>3 DEF Told
    <3>2. QED
      BY <3>1
  <2>5. Told' = [s \in Requests |-> IF s = r THEN o ELSE IF s \in {r} THEN o ELSE Told[s]]
    BY <2>4
  <2>6. Once!Conclude({r})
    BY <2>1, <2>5 DEF Once!Conclude, Once!Outcomes
  <2>7. Once!Concluded = {r}
    BY <2>1, <2>4 DEF Once!Concluded
  <2>8. QED
    BY <2>6, <2>7 DEF Once!Next
<1>c. ASSUME NEW r \in Requests, NEW next \in Stages \ {"none"}, Waits(r, next), stage[r] # "none"
      PROVE  Told' = Told
  BY <1>a, <1>c DEF Waits, Told
<1>d. ASSUME stage' = stage, answer' = answer PROVE Told' = Told
  BY <1>d DEF Told
<1>1. ASSUME NEW r \in Requests, NEW u \in Urls, GetResp(r, u) PROVE Once!Next
  <2>1. stage[r] = "none" /\ answer' = answer /\ stage' = [stage EXCEPT ![r] = "hash"]
    BY <1>1 DEF GetResp, Waits
  <2>2. answer[r].by = None
    BY <2>1 DEF IInv, StageInv, NoAnswer
  <2>3. Told[r] = "none" /\ Told' = [Told EXCEPT ![r] = "pending"]
    BY <1>a, <2>1, <2>2 DEF Told
  <2>4. Once!Issue(r)
    BY <2>3 DEF Once!Issue
  <2>5. QED
    BY <2>4 DEF Once!Next
<1>2. ASSUME NEW r \in Requests, Progress(r) PROVE [Once!Next]_Told
  <2>1. stage[r] # "none"
    BY <1>2 DEF Progress, FindHashDone, CheckFreshnessDone, CheckFreshnessError, LookupDone,
                PeersDone, MirrorDone, SaveComplete, SaveError
  <2>2. CASE \E next \in Stages \ {"none"} : Waits(r, next)
    BY <1>c, <2>1, <2>2
  <2>3. ASSUME NEW h, FindHashDone(r, h)
        PROVE  (\E next \in Stages \ {"none"} : Waits(r, next)) \/ Once!Next
    BY <1>b, <2>3, Distinct DEF FindHashDone, FromMirror, Stages
  <2>4. ASSUME CheckFreshnessDone(r) \/ CheckFreshnessError(r)
        PROVE  (\E next \in Stages \ {"none"} : Waits(r, next)) \/ Once!Next
    BY <1>b, <2>4, Distinct DEF CheckFreshnessDone, CheckFreshnessError, FromMirror, Stages
  <2>5. ASSUME PeersDone(r) \/ MirrorDone(r) \/ LookupDone(r)
        PROVE  (\E next \in Stages \ {"none"} : Waits(r, next)) \/ Once!Next
    BY <1>b, <2>5, Distinct DEF PeersDone, MirrorDone, LookupDone, SaveFile, FromMirror, Stages
  <2>6. ASSUME SaveComplete(r) \/ SaveError(r)
        PROVE  \E next \in Stages \ {"none"} : Waits(r, next)
    BY <2>6 DEF SaveComplete, SaveError, Stages
  <2>7. QED
    BY <1>2, <2>2, <2>3, <2>4, <2>5, <2>6 DEF Progress
<1>3. ASSUME NEW u \in Indexes, MirrorChanges(u) PROVE Told' = Told
  BY <1>d, <1>3 DEF MirrorChanges
<1>4. CASE UNCHANGED vars
  BY <1>d, <1>4 DEF vars
<1>5. ASSUME NEW r \in Requests, GotData(r) \/ Close(r) PROVE Told' = Told
  BY <1>d, <1>5 DEF GotData, Close
<1>6. QED
  BY <1>1, <1>2, <1>3, <1>4, <1>5 DEF Next

\* Every request is answered once, whatever parts it goes through.
THEOREM RefinesRequestOnce == Spec => Once!Safety
<1>1. Init => Once!Init
  BY DEF Init, Once!Init, Told
<1>2. QED
  BY <1>1, Inductive, NextIsOnce, PTL DEF Spec, Safety, Once!Safety

-----------------------------------------------------------------------------
(***************************************************************************)
(* The packages cache that a findHash of CacheManager asks (AptPackages):  *)
(* theorems for every set of findHash calls and every number of changes of *)
(* index files.  One inductive invariant, LoadInv, says what `loading`,    *)
(* loading_unload, the cache and the load in the thread pool tell of one   *)
(* another.                                                                *)
(***************************************************************************)

\* There is at most one load, and `loading` is its Deferred.
LoadingIsTheJob ==
    /\ Len(jobs) <= 1
    /\ loading \in {"first", "again"} <=> jobs # <<>>

\* The cache is loaded once the load has ended well, and not before.
JobAndCache ==
    \A i \in DOMAIN jobs :
        IF jobs[i].at = "loaded" THEN loaded /\ held = jobs[i].read ELSE ~loaded

\* A change of an index file after a load has read them is remembered.
JobAndVersion ==
    \A i \in DOMAIN jobs :
        jobs[i].at \in {"reading", "loaded"} /\ jobs[i].read # listed => loading_unload

\* Nothing is loaded after a failed load, which stays in `loading`.
FailedIsUnloaded == loading \in {"failed", "spent"} => ~loaded

\* A cache that is in use is up to date.
IdleIsFresh == loaded /\ jobs = <<>> => held = listed

LoadInv ==
    /\ PackagesTypeOK
    /\ LoadingIsTheJob
    /\ JobAndCache
    /\ JobAndVersion
    /\ FailedIsUnloaded
    /\ IdleIsFresh

-----------------------------------------------------------------------------
(* The sequence of loads. *)

\* No loads.
LEMMA NoJobs == <<>> \in Seq(Job) /\ Len(<<>>) = 0 /\ DOMAIN <<>> = {}
<1>1. <<>> \in Seq(Job) /\ Len(<<>>) = 0
  BY EmptySeq
<1>2. DOMAIN <<>> = 1 .. Len(<<>>)
  BY <1>1, LenProperties
<1> QED  BY <1>1, <1>2

\* A load that is going on is the only one: what is left without it is empty.
LEMMA OnlyJob ==
    ASSUME LoadInv, NEW i \in DOMAIN jobs
    PROVE  /\ i = 1
           /\ Len(jobs) = 1
           /\ jobs # <<>>
           /\ jobs[i] \in Job
           /\ RemoveAt(jobs, i) = <<>>
<1>1. jobs \in Seq(Job) /\ Len(jobs) <= 1
  BY DEF LoadInv, PackagesTypeOK, LoadingIsTheJob
<1>2. Len(jobs) \in Nat /\ DOMAIN jobs = 1 .. Len(jobs)
  BY <1>1, LenProperties
<1>3. i = 1 /\ Len(jobs) = 1 /\ jobs # <<>>
  BY <1>1, <1>2, EmptySeq
<1>4. jobs[i] \in Job
  BY <1>1, <1>2, ElementOfSeq
<1>5. SubSeq(jobs, 1, i - 1) = <<>> /\ SubSeq(jobs, i + 1, Len(jobs)) = <<>>
  BY <1>3, SubSeqEmpty
<1>6. RemoveAt(jobs, i) = <<>>
  BY <1>5, ConcatEmptySeq, EmptySeq DEF RemoveAt
<1> QED  BY <1>3, <1>4, <1>6

\* The sequence that holds only a new load.
LEMMA NewJobAlone ==
    /\ Append(<<>>, NewJob) \in Seq(Job)
    /\ Len(Append(<<>>, NewJob)) = 1
    /\ Append(<<>>, NewJob) # <<>>
    /\ DOMAIN Append(<<>>, NewJob) = {1}
    /\ Append(<<>>, NewJob)[1] = NewJob
<1>1. NewJob \in Job /\ <<>> \in Seq(Job) /\ Len(<<>>) = 0
  BY EmptySeq DEF NewJob, Job
<1> QED  BY <1>1, AppendProperties, LenProperties

\* Every step keeps the answers among those that findHash gives.
LEMMA AnsweredType ==
    ASSUME PackagesTypeOK, NEW what \in {"found", "empty", "error"}, NEW n
    PROVE  AnswersToAll(what, n) \in [Reqs -> {"unasked", "pending", "found", "empty", "error"}]
  BY DEF PackagesTypeOK, AnswersToAll

-----------------------------------------------------------------------------
(* The invariant. *)

\* It holds of the packages cache as __init__ leaves it.
LEMMA LoadInit == PackagesInit => LoadInv
<1> SUFFICES ASSUME PackagesInit PROVE LoadInv
  OBVIOUS
<1>1. PackagesTypeOK
  <2>1. <<>> \in Seq(Job) /\ <<>> \in Seq(Reqs)
    BY EmptySeq
  <2>2. listed \in PackagesVersions /\ held \in PackagesVersions
    BY AptPackagesAssumption DEF PackagesInit, PackagesVersions
  <2>3. heard \in [Reqs -> {"unasked", "pending", "found", "empty", "error"}]
    BY DEF PackagesInit
  <2> QED  BY <2>1, <2>2, <2>3 DEF PackagesInit, PackagesTypeOK
<1>2. jobs = <<>> /\ Len(jobs) = 0 /\ DOMAIN jobs = {} /\ ~loaded /\ loading = "none"
  BY NoJobs DEF PackagesInit
<1> QED  BY <1>1, <1>2 
     DEF LoadInv, LoadingIsTheJob, JobAndCache, JobAndVersion, FailedIsUnloaded, IdleIsFresh

\* unload(), whoever calls it and whether or not an index file has just changed.
LEMMA UnloadStep ==
    ASSUME LoadInv, Unload, listed' \in PackagesVersions, closed' \in BOOLEAN,
           UNCHANGED <<held, loading, jobs, waiting, late, heard>>
    PROVE  LoadInv'
<1> USE DEF LoadInv, Unload
<1>1. PackagesTypeOK'
  BY DEF PackagesTypeOK
<1>2. LoadingIsTheJob'
  BY DEF LoadingIsTheJob
<1>3. loading \in {"none", "failed", "spent"} => DOMAIN jobs = {}
  BY DEF LoadingIsTheJob, PackagesTypeOK
<1>4. JobAndCache'
  BY <1>3 DEF JobAndCache
<1>5. JobAndVersion'
  BY <1>3 DEF JobAndVersion
<1>6. FailedIsUnloaded'
  BY DEF FailedIsUnloaded
<1>7. IdleIsFresh'
  BY DEF IdleIsFresh, LoadingIsTheJob, FailedIsUnloaded, PackagesTypeOK
<1> QED  BY <1>1, <1>2, <1>4, <1>5, <1>6, <1>7

\* A call of findHash.
LEMMA FindHashStep ==
    ASSUME LoadInv, NEW r \in Reqs, PackagesFindHash(r)
    PROVE  LoadInv'
<1> USE DEF LoadInv, PackagesFindHash
<1>1. PackagesTypeOK'
  <2>1. jobs' = jobs \/ jobs' = Append(jobs, NewJob)
    OBVIOUS
  <2>2. NewJob \in Job
    BY DEF NewJob, Job
  <2>3. jobs' \in Seq(Job)
    BY <2>1, <2>2, AppendProperties DEF PackagesTypeOK
  <2>4. <<r>> \in Seq(Reqs) /\ Append(waiting, r) \in Seq(Reqs) /\ Append(late, r) \in Seq(Reqs)
    BY AppendProperties DEF PackagesTypeOK
  <2>5. waiting' \in Seq(Reqs) /\ late' \in Seq(Reqs)
    BY <2>4 DEF PackagesTypeOK
  <2> QED  BY <2>3, <2>5 DEF PackagesTypeOK, LookUp
<1>2. CASE loading = "none" /\ ~loaded
  <2>1. jobs = <<>>
    BY <1>2 DEF LoadingIsTheJob
  <2>2. jobs' = Append(<<>>, NewJob) /\ loading' = "first" /\ ~loaded'
    BY <1>2, <2>1
  <2>3. LoadingIsTheJob'
    BY <2>2, NewJobAlone DEF LoadingIsTheJob
  <2>4. JobAndCache' /\ JobAndVersion'
    BY <2>2, NewJobAlone DEF JobAndCache, JobAndVersion, NewJob
  <2>5. FailedIsUnloaded' /\ IdleIsFresh'
    BY <2>2 DEF FailedIsUnloaded, IdleIsFresh
  <2> QED  BY <1>1, <2>3, <2>4, <2>5
<1>3. CASE ~(loading = "none" /\ ~loaded)
  <2>1. UNCHANGED <<listed, loaded, held, loading, loading_unload, jobs>>
    BY <1>3
  <2> QED
    BY <1>1, <2>1 DEF LoadingIsTheJob, JobAndCache, JobAndVersion, FailedIsUnloaded, IdleIsFresh
<1> QED  BY <1>2, <1>3

\* _load in its thread: it reads the index files, or ends.
LEMMA ThreadStep ==
    ASSUME LoadInv, NEW i \in DOMAIN jobs, LoadReads(i) \/ LoadEnds(i)
    PROVE  LoadInv'
<1>1. /\ i = 1 /\ Len(jobs) = 1 /\ jobs # <<>> /\ jobs[1] \in Job
      /\ jobs \in Seq(Job) /\ DOMAIN jobs = {1}
  BY OnlyJob, LenProperties DEF LoadInv, PackagesTypeOK
<1>2. ~loaded /\ jobs[1].at \in {"queued", "reading"}
  BY <1>1 DEF LoadReads, LoadEnds, At, LoadInv, JobAndCache
<1> DEFINE job == jobs'[1]
<1>3. /\ jobs' = [jobs EXCEPT ![1] = job]
      /\ job \in Job
      /\ IF job.at = "loaded" THEN loaded' /\ held' = job.read ELSE ~loaded'
      /\ job.at \in {"reading", "loaded"} /\ job.read # listed => loading_unload
      /\ held' \in PackagesVersions /\ loaded' \in BOOLEAN
  <2>1. CASE LoadReads(i)
    BY <1>1, <1>2, <2>1 DEF LoadReads, LoadInv, PackagesTypeOK, Job
  <2>2. CASE LoadEnds(i)
    <3>1. jobs[1].at = "reading" /\ jobs[1].read \in PackagesVersions
      BY <1>1, <2>2 DEF LoadEnds, At, Job
    <3>2. jobs[1].read # listed => loading_unload
      BY <1>1, <3>1 DEF LoadInv, JobAndVersion
    <3>3. PICK how \in {"nothing", "loaded", "raised"} :
             /\ Reach(1, how)
             /\ how = "nothing" => jobs[1].read = 0
             /\ IF how = "loaded" THEN jobs[1].read > 0 /\ loaded' = TRUE /\ held' = jobs[1].read
                ELSE UNCHANGED <<loaded, held>>
      BY <1>1, <2>2 DEF LoadEnds
    <3>4. job = [at |-> how, read |-> jobs[1].read] /\ jobs' = [jobs EXCEPT ![1] = job]
      BY <1>1, <3>3, LenProperties DEF Reach
    <3>5. job.at = how /\ job.read = jobs[1].read
      BY <3>4
    <3>6. job \in Job
      BY <3>1, <3>3, <3>4, AptPackagesAssumption DEF Job, PackagesVersions
    <3> QED  BY <1>2, <3>1, <3>2, <3>3, <3>4, <3>5, <3>6 DEF LoadInv, PackagesTypeOK
  <2> QED  BY <2>1, <2>2
<1>4. UNCHANGED <<listed, closed, loading, loading_unload, unload_later, waiting, late, heard>>
  BY DEF LoadReads, LoadEnds
<1>5. jobs' \in Seq(Job) /\ Len(jobs') = 1 /\ DOMAIN jobs' = {1} /\ jobs' # <<>>
  <2>1. jobs' \in Seq(Job) /\ Len(jobs') = 1
    BY <1>1, <1>3, ExceptSeq
  <2>2. DOMAIN jobs' = 1 .. Len(jobs')
    BY <2>1, LenProperties
  <2> QED  BY <2>1, <2>2, NoJobs
<1>6. loading \in {"first", "again"}
  BY <1>1 DEF LoadInv, LoadingIsTheJob
<1>7. PackagesTypeOK'
  BY <1>3, <1>4, <1>5 DEF LoadInv, PackagesTypeOK
<1>8. LoadingIsTheJob' /\ JobAndCache' /\ JobAndVersion' /\ FailedIsUnloaded' /\ IdleIsFresh'
  BY <1>3, <1>4, <1>5, <1>6
     DEF LoadingIsTheJob, JobAndCache, JobAndVersion, FailedIsUnloaded, IdleIsFresh
<1> QED  BY <1>7, <1>8 DEF LoadInv

\* doneLoading loads again.
LEMMA LoadAgainStep ==
    ASSUME LoadInv, NEW i \in DOMAIN jobs, LoadAgain(i)
    PROVE  LoadInv'
<1>1. jobs' = Append(<<>>, NewJob)
  <2>1. RemoveAt(jobs, i) = <<>>
    BY OnlyJob
  <2> QED  BY <2>1 DEF LoadAgain
<1>2. PackagesTypeOK'
  BY <1>1, NewJobAlone DEF LoadAgain, LoadInv, PackagesTypeOK
<1>3. LoadingIsTheJob' /\ JobAndCache' /\ JobAndVersion'
  <2>1. Len(jobs') = 1 /\ jobs' # <<>> /\ DOMAIN jobs' = {1} /\ jobs'[1].at = "queued"
    BY <1>1, NewJobAlone DEF NewJob
  <2>2. loading' = "again" /\ ~loaded'
    BY DEF LoadAgain
  <2> QED  BY <2>1, <2>2 DEF LoadingIsTheJob, JobAndCache, JobAndVersion
<1>4. FailedIsUnloaded' /\ IdleIsFresh'
  BY DEF LoadAgain, FailedIsUnloaded, IdleIsFresh
<1> QED  BY <1>2, <1>3, <1>4 DEF LoadInv

\* The load is over, with a result or with a failure.
LEMMA OverStep ==
    ASSUME LoadInv, NEW i \in DOMAIN jobs, DoneLoading(i) \/ LoadFailed(i)
    PROVE  LoadInv'
<1>1. jobs' = <<>> /\ jobs' \in Seq(Job) /\ Len(jobs') = 0 /\ DOMAIN jobs' = {}
  <2>1. RemoveAt(jobs, i) = <<>>
    BY OnlyJob
  <2> QED  BY <2>1, NoJobs DEF DoneLoading, LoadFailed
<1>2. UNCHANGED <<listed, closed, loaded, held, loading_unload, unload_later>>
  BY DEF DoneLoading, LoadFailed
<1>3. PackagesTypeOK'
  <2>1. heard' \in [Reqs -> {"unasked", "pending", "found", "empty", "error"}]
    BY AnsweredType DEF DoneLoading, LoadFailed, LoadInv
  <2>2. waiting' \in Seq(Reqs) /\ late' \in Seq(Reqs)
    BY EmptySeq DEF DoneLoading, LoadFailed
  <2>3. loading' \in {"none", "failed", "spent"}
    BY DEF DoneLoading, LoadFailed
  <2> QED  BY <1>1, <1>2, <2>1, <2>2, <2>3 DEF LoadInv, PackagesTypeOK
<1>4. LoadingIsTheJob'
  BY <1>1 DEF DoneLoading, LoadFailed, LoadingIsTheJob
<1>5. JobAndCache' /\ JobAndVersion'
  BY <1>1 DEF JobAndCache, JobAndVersion
<1>6. FailedIsUnloaded' /\ IdleIsFresh'
  <2>1. CASE DoneLoading(i)
    BY <1>2, <2>1
       DEF DoneLoading, At, LoadInv, JobAndCache, JobAndVersion, FailedIsUnloaded, IdleIsFresh
  <2>2. CASE LoadFailed(i)
    BY <1>2, <2>2 DEF LoadFailed, At, LoadInv, JobAndCache, FailedIsUnloaded, IdleIsFresh
  <2> QED  BY <2>1, <2>2
<1> QED  BY <1>3, <1>4, <1>5, <1>6 DEF LoadInv

\* Every step preserves the invariant.
LEMMA LoadNext == LoadInv /\ [PackagesNext]_packagesVars => LoadInv'
<1> SUFFICES ASSUME LoadInv, [PackagesNext]_packagesVars PROVE LoadInv'
  OBVIOUS
<1>1. CASE UnloadLater
  BY <1>1, UnloadStep DEF UnloadLater, LoadInv, PackagesTypeOK
<1>2. CASE FileUpdated
  BY <1>2, UnloadStep, AptPackagesAssumption DEF FileUpdated, LoadInv, PackagesTypeOK, PackagesVersions
<1>3. CASE Cleanup
  BY <1>3, UnloadStep DEF Cleanup, LoadInv, PackagesTypeOK
<1>4. CASE \E r \in Reqs : PackagesFindHash(r)
  BY <1>4, FindHashStep
<1>5. CASE Loading
  BY <1>5, ThreadStep, LoadAgainStep, OverStep DEF Loading
<1>6. CASE UNCHANGED packagesVars
  BY <1>6 DEF packagesVars, LoadInv, PackagesTypeOK, LoadingIsTheJob, JobAndCache, JobAndVersion,
              FailedIsUnloaded, IdleIsFresh
<1> QED  BY <1>1, <1>2, <1>3, <1>4, <1>5, <1>6 DEF PackagesNext

\* LoadInv holds in every reachable state.
THEOREM LoadInvariance == PackagesSafety => []LoadInv
  BY LoadInit, LoadNext, PTL DEF PackagesSafety

-----------------------------------------------------------------------------

\* Every variable of AptPackages keeps its type.
THEOREM LoadTypeCorrect == PackagesSpec => []PackagesTypeOK
<1>1. LoadInv => PackagesTypeOK
  BY DEF LoadInv
<1> QED  BY <1>1, LoadInvariance, PTL DEF PackagesSpec

\* However findHash, unload and the threads interleave, there is one load at a time, and
\* none that is still at work while the cache is in use.
THEOREM NoOverlap == PackagesSpec => []OneLoadAtATime
<1>1. LoadInv => OneLoadAtATime
  BY DEF LoadInv, LoadingIsTheJob, JobAndCache, OneLoadAtATime
<1> QED  BY <1>1, LoadInvariance, PTL DEF PackagesSpec

\* A cache that an index file has changed under is loaded only while its own load is being
\* reported back, with the unload remembered.
THEOREM StaleUnloaded == PackagesSpec => []StaleIsUnloaded
<1>1. LoadInv => StaleIsUnloaded
  <2> SUFFICES ASSUME LoadInv, loaded, held # listed
               PROVE  loading_unload /\ \E i \in DOMAIN jobs : At(i, "loaded")
    BY DEF StaleIsUnloaded
  <2>1. jobs # <<>> /\ jobs \in Seq(Job)
    BY DEF LoadInv, IdleIsFresh, PackagesTypeOK
  <2>2. 1 \in DOMAIN jobs
    BY <2>1, EmptySeq, LenProperties
  <2>3. jobs[1].at = "loaded" /\ held = jobs[1].read
    BY <2>2 DEF LoadInv, JobAndCache
  <2> QED  BY <2>2, <2>3 DEF LoadInv, JobAndVersion, At
<1> QED  BY <1>1, LoadInvariance, PTL DEF PackagesSpec

\* Whoever waited for a load and is told of a hash is told from the index files as they
\* are at that time.
THEOREM FreshAnswers == PackagesSpec => WaitersGetFresh
<1> DEFINE Found == \E r \in Reqs : heard[r] = "pending" /\ heard'[r] = "found"
<1>1. LoadInv /\ [PackagesNext]_packagesVars => [Found => held = listed]_packagesVars
  <2> SUFFICES ASSUME LoadInv, PackagesNext, NEW r \in Reqs, heard[r] = "pending", heard'[r] = "found"
               PROVE  held = listed
    OBVIOUS
  <2>1. heard \in [Reqs -> {"unasked", "pending", "found", "empty", "error"}]
    BY DEF LoadInv, PackagesTypeOK
  <2>2. ASSUME NEW q \in Reqs, PackagesFindHash(q) PROVE FALSE
    BY <2>1, <2>2 DEF PackagesFindHash
  <2>3. ASSUME NEW i \in DOMAIN jobs, LoadFailed(i) PROVE FALSE
    BY <2>3 DEF LoadFailed, AnswersToAll
  <2>4. ASSUME NEW i \in DOMAIN jobs, DoneLoading(i) PROVE held = listed
    <3>1. jobs[i].at = "loaded" /\ ~loading_unload
      BY <2>4 DEF DoneLoading, At, AnswersToAll
    <3> QED  BY <3>1 DEF LoadInv, JobAndCache, JobAndVersion
  <2>5. CASE heard' = heard
    BY <2>5
  <2> QED
    BY <2>2, <2>3, <2>4, <2>5
       DEF PackagesNext, Loading, UnloadLater, FileUpdated, Cleanup, LoadReads,
           LoadEnds, LoadAgain
<1> QED  BY <1>1, LoadInvariance, PTL DEF PackagesSpec, PackagesSafety, WaitersGetFresh
=============================================================================
