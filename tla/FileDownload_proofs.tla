------------------------- MODULE FileDownload_proofs -------------------------
(***************************************************************************)
(* Theorems about FileDownload for every set of peers, number of pieces,   *)
(* and setting of MAX_OUTSTANDING, MIN_DOWNLOAD_PEERS and MAX_ERRORS, with *)
(* their proofs.  The inductive invariant, IInv, relates completePieces to *)
(* the transfers that are going on, and nextFinish to what was verified.   *)
(***************************************************************************)
EXTENDS FileDownload, Peer, SetLemmas, SequenceTheorems

Marks == {"free", "done"} \cup AllSites

\* completePieces names the peer of each transfer: `comp` is completePieces, `reqs` the
\* requests whose response has not come yet, `strm` the responses being written.
Transfers(comp, reqs, strm) ==
    /\ \A p \in Pieces, s \in AllSites : <<p, s>> \in reqs \cup strm <=> comp[p] = s
    /\ reqs \cap strm = {}

\* The lookup of the piece hashes ends with the start of the download, before which
\* there is no transfer.
LookupEndsOnce ==
    /\ started <=> pieces # "unknown"
    /\ lookup = "none" => ~started /\ \A s \in Sources : lookups[s] = 0
    /\ lookups[DHT] <= 1
    /\ lookups[DHT] > 0 => ~started /\ \A s \in Sites : lookups[s] = 0
    /\ ~started => asked = {} /\ streaming = {}

\* The pieces before nextFinish are done, and what is done was compared with its hash.
DoneIsVerified(comp, finish, file) ==
    /\ \A p \in Pieces : p <= finish => comp[p] = "done"
    /\ pieces = "hashes" => \A p \in Pieces : comp[p] = "done" => file[p] = "good"

IInv ==
    /\ TypeOK
    /\ Transfers(complete, asked, streaming)
    /\ LookupEndsOnce
    /\ started => DoneIsVerified(complete, nextFinish, data)
    /\ ~started => nextFinish = 0

-----------------------------------------------------------------------------
(* The helpers. *)

LEMMA Constants ==
    /\ IsFiniteSet(Sites) /\ IsFiniteSet(AllSites) /\ IsFiniteSet(Pieces)
    /\ "free" \notin AllSites /\ "done" \notin AllSites
    /\ N \in Nat /\ MAX_OUTSTANDING \in Nat /\ MAX_OUTSTANDING > 0
    /\ MAX_ERRORS \in Nat /\ MAX_ERRORS > 0
    /\ Pieces \subseteq Int /\ Pieces = 1 .. N
    /\ DHT \notin Sites
<1>1. IsFiniteSet(Sites) /\ N \in Nat /\ MAX_OUTSTANDING \in Nat /\ MAX_OUTSTANDING > 0
      /\ MAX_ERRORS \in Nat /\ MAX_ERRORS > 0 /\ DHT \notin Sites
  BY FileDownloadAssumption
<1>2. IsFiniteSet(AllSites)
  BY <1>1, FS_AddElement DEF AllSites
<1>3. IsFiniteSet(Pieces) /\ Pieces \subseteq Int /\ Pieces = 1 .. N
  BY <1>1, FS_Interval DEF Pieces
<1>4. "free" \notin AllSites /\ "done" \notin AllSites
  BY FileDownloadAssumption DEF AllSites
<1> QED  BY <1>1, <1>2, <1>3, <1>4

\* The first n of a set of pieces are at most n of them.
LEMMA FirstPiecesBound ==
    ASSUME NEW free, free \subseteq Pieces, NEW n \in Nat
    PROVE  /\ FirstPieces(n, free) \subseteq free
           /\ Cardinality(FirstPieces(n, free)) \in Nat
           /\ Cardinality(FirstPieces(n, free)) <= n
<1>1. IsFiniteSet(free) /\ free \subseteq Int
  BY Constants, FS_Subset
<1>2. FirstPieces(n, free) \subseteq free
  BY DEF FirstPieces
<1>3. IsFiniteSet(FirstPieces(n, free))
  BY <1>1, <1>2, FS_Subset
<1>4. Cardinality(FirstPieces(n, free)) <= n
  BY <1>1, FirstFew DEF FirstPieces
<1> QED  BY <1>2, <1>3, <1>4, FS_CardinalityType

\* The least of three integers.
LEMMA MinOfThree ==
    ASSUME NEW a \in Int, NEW b \in Int, NEW c \in Int
    PROVE  Min({a, b, c}) \in {a, b, c} /\ Min({a, b, c}) <= a
<1>1. IsFiniteSet({a, b, c})
  <2>1. {a, b, c} = ({a} \cup {b}) \cup {c}
    OBVIOUS
  <2>2. IsFiniteSet({a}) /\ IsFiniteSet({b}) /\ IsFiniteSet({c})
    BY FS_Singleton
  <2> QED  BY <2>1, <2>2, FS_Union
<1> QED  BY <1>1, MinOfSet

\* getPieces keeps completePieces and the transfers in step, whatever the handler that
\* calls it has made of them, and changes nothing that is done.
LEMMA GetPiecesStep ==
    ASSUME NEW list, list \subseteq AllSites,
           NEW out \in Int, out <= MAX_OUTSTANDING,
           NEW comp \in [Pieces -> Marks],
           NEW reqs, reqs \subseteq Pieces \X AllSites,
           NEW strm, strm \subseteq Pieces \X AllSites,
           NEW finish \in 0 .. N,
           NEW rd \in {"waiting", "streaming", "refused"},
           ended \in BOOLEAN,
           Transfers(comp, reqs, strm),
           GetPieces(list, out, comp, reqs, finish, rd)
    PROVE  /\ sitelist' \subseteq AllSites
           /\ outstanding' \in Int /\ outstanding' <= MAX_OUTSTANDING
           /\ complete' \in [Pieces -> Marks]
           /\ asked' \subseteq Pieces \X AllSites
           /\ reader' \in {"waiting", "streaming", "refused"}
           /\ ended' \in BOOLEAN
           /\ Transfers(complete', asked', strm)
           /\ \A p \in Pieces : complete'[p] = "done" <=> comp[p] = "done"
<1>1. CASE fileClosed
  BY <1>1 DEF GetPieces
<1>2. CASE ~fileClosed
  <2> DEFINE free == {p \in Pieces : p > finish /\ comp[p] = "free"}
             n == Min({MAX_OUTSTANDING - out, Cardinality(list), Cardinality(free)})
             now == FirstPieces(n, free)
  <2>1. PICK site \in Injection(now, list) :
           /\ sitelist' = list \ Range(site)
           /\ outstanding' = out + Cardinality(now)
           /\ complete' = [p \in Pieces |-> IF p \in now THEN site[p] ELSE comp[p]]
           /\ asked' = reqs \cup {<<p, site[p]>> : p \in now}
           /\ reader' = rd \/ reader' = "refused"
           /\ ended' \in BOOLEAN
    BY <1>2 DEF GetPieces
  <2>2. n \in Nat /\ n <= MAX_OUTSTANDING - out
    <3>1. free \subseteq Pieces
      OBVIOUS
    <3> HIDE DEF free
    <3>2. Cardinality(list) \in Nat /\ Cardinality(free) \in Nat
      BY <3>1, Constants, FS_Subset, FS_CardinalityType
    <3>3. MAX_OUTSTANDING - out \in Nat
      BY Constants
    <3> QED  BY <3>2, <3>3, MinOfThree
  <2> HIDE DEF n
  <2>3. now \subseteq free /\ Cardinality(now) \in Nat /\ Cardinality(now) <= n
    <3>1. free \subseteq Pieces
      OBVIOUS
    <3> HIDE DEF free
    <3> QED  BY <2>2, <3>1, FirstPiecesBound
  <2>4. now \subseteq Pieces /\ \A p \in now : comp[p] = "free"
    BY <2>3
  <2> HIDE DEF now, free
  <2>5. \A p \in now : site[p] \in AllSites
    BY <2>1 DEF Injection
  <2>6. sitelist' \subseteq AllSites /\ reader' \in {"waiting", "streaming", "refused"}
    BY <2>1
  <2>7. outstanding' \in Int /\ outstanding' <= MAX_OUTSTANDING
    BY <2>1, <2>2, <2>3, Constants
  <2>8. complete' \in [Pieces -> Marks]
    BY <2>1, <2>5 DEF Marks
  <2>9. asked' \subseteq Pieces \X AllSites
    BY <2>1, <2>4, <2>5
  <2>10. \A p \in Pieces : complete'[p] = "done" <=> comp[p] = "done"
    BY <2>1, <2>4, <2>5, Constants
  <2>11. Transfers(complete', asked', strm)
    <3>1. ASSUME NEW p \in Pieces, NEW s \in AllSites
          PROVE  <<p, s>> \in asked' \cup strm <=> complete'[p] = s
      <4>1. <<p, s>> \in reqs \cup strm <=> comp[p] = s
        BY DEF Transfers
      <4>2. <<p, s>> \in {<<q, site[q]>> : q \in now} <=> p \in now /\ site[p] = s
        OBVIOUS
      <4>3. p \in now => comp[p] # s
        BY <2>4, Constants
      <4> QED  BY <2>1, <4>1, <4>2, <4>3
    <3>2. asked' \cap strm = {}
      <4>1. ASSUME NEW p \in now, <<p, site[p]>> \in strm PROVE FALSE
        <5>1. comp[p] = site[p]
          BY <2>4, <2>5, <4>1 DEF Transfers
        <5> QED  BY <2>4, <2>5, <5>1, Constants
      <4> QED  BY <2>1, <4>1 DEF Transfers
    <3> QED  BY <3>1, <3>2 DEF Transfers
  <2> QED  BY <2>1, <2>6, <2>7, <2>8, <2>9, <2>10, <2>11
<1> QED  BY <1>1, <1>2

-----------------------------------------------------------------------------
(* The lookup of the piece hashes. *)

LEMMA InitIInv == Init => IInv
<1> SUFFICES ASSUME Init PROVE IInv
  OBVIOUS
<1>1. TypeOK
  <2>1. lookups \in [Sources -> Nat] /\ errors \in [AllSites -> 0 .. MAX_ERRORS]
    BY Constants DEF Init
  <2>2. /\ complete \in [Pieces -> {"free", "done"} \cup AllSites]
        /\ data \in [Pieces -> {"empty", "partial", "good", "bad"}]
    BY DEF Init
  <2>3. outstanding \in Int /\ outstanding <= MAX_OUTSTANDING /\ nextFinish \in 0 .. N
    BY Constants DEF Init
  <2> QED  BY <2>1, <2>2, <2>3 DEF Init, TypeOK
<1>2. Transfers(complete, asked, streaming)
  BY Constants DEF Init, Transfers
<1>3. LookupEndsOnce /\ (~started => nextFinish = 0) /\ ~started
  BY DEF Init, LookupEndsOnce, Sources
<1> QED  BY <1>1, <1>2, <1>3 DEF IInv

\* startDownload, from wherever it is called.
LEMMA StartStep ==
    ASSUME IInv, ~started, StartDownload,
           pieces' \in {"hashes", "unchecked"}, raised' \in BOOLEAN, late' \in BOOLEAN,
           lookup' \in Lookups, lookup' # "none",
           lookups' \in [Sources -> Nat], lookups'[DHT] = 0,
           failed' \subseteq Sites
    PROVE  IInv'
<1> DEFINE none == [p \in Pieces |-> "free"]
           list == WithMirror(Sites, 0)
<1>1. /\ started' = TRUE /\ nextFinish' = 0 /\ addedMirror' \in BOOLEAN
      /\ GetPieces(list, 0, none, asked, 0, reader)
      /\ UNCHANGED <<errors, streaming, data, fileClosed>>
  BY DEF StartDownload, FewPeers
<1>2. asked = {} /\ streaming = {} /\ TypeOK
  BY DEF IInv, LookupEndsOnce
<1>3. list \subseteq AllSites
  BY DEF WithMirror, AllSites
<1>4. none \in [Pieces -> Marks] /\ Transfers(none, asked, streaming)
  BY <1>2, Constants DEF Marks, Transfers
<1>5. /\ 0 \in Int /\ 0 <= MAX_OUTSTANDING /\ 0 \in 0 .. N
      /\ asked \subseteq Pieces \X AllSites /\ streaming \subseteq Pieces \X AllSites
      /\ reader \in {"waiting", "streaming", "refused"} /\ ended \in BOOLEAN
  BY <1>2, Constants DEF TypeOK
<1> HIDE DEF none, list
<1>6. /\ sitelist' \subseteq AllSites
      /\ outstanding' \in Int /\ outstanding' <= MAX_OUTSTANDING
      /\ complete' \in [Pieces -> Marks]
      /\ asked' \subseteq Pieces \X AllSites
      /\ reader' \in {"waiting", "streaming", "refused"}
      /\ ended' \in BOOLEAN
      /\ Transfers(complete', asked', streaming)
      /\ \A p \in Pieces : complete'[p] = "done" <=> none[p] = "done"
  BY <1>1, <1>3, <1>4, <1>5, GetPiecesStep
<1>7. \A p \in Pieces : complete'[p] # "done"
  BY <1>6 DEF none
<1>8. TypeOK'
  BY <1>1, <1>2, <1>5, <1>6 DEF TypeOK, Marks
<1>9. Transfers(complete, asked, streaming)'
  BY <1>1, <1>6 DEF Transfers
<1>10. LookupEndsOnce'
  BY <1>1 DEF LookupEndsOnce
<1>11. DoneIsVerified(complete, nextFinish, data)'
  BY <1>1, <1>7, Constants DEF DoneIsVerified
<1> QED  BY <1>1, <1>8, <1>9, <1>10, <1>11 DEF IInv

\* A step of the lookup that does not start the download.
LEMMA LookupStep ==
    ASSUME IInv, UNCHANGED <<pieces, started, sitelist, addedMirror, errors, complete, nextFinish,
                             asked, fileVars>>,
           lookup' \in Lookups, lookup' # "none", lookups'[DHT] <= 1,
           lookups' \in [Sources -> Nat], failed' \subseteq Sites,
           lookups'[DHT] > 0 => ~started /\ \A s \in Sites : lookups'[s] = 0,
           outstanding' \in Int, outstanding' <= MAX_OUTSTANDING,
           raised' \in BOOLEAN, late' \in BOOLEAN
    PROVE  IInv'
<1>1. TypeOK'
  BY DEF IInv, TypeOK, fileVars
<1>2. Transfers(complete, asked, streaming)' /\ LookupEndsOnce'
  BY DEF IInv, Transfers, LookupEndsOnce, fileVars
<1>3. /\ started' => DoneIsVerified(complete, nextFinish, data)'
      /\ ~started' => nextFinish' = 0
  BY DEF IInv, DoneIsVerified, fileVars
<1> QED  BY <1>1, <1>2, <1>3 DEF IInv

\* The loop of getPeerPieces does not make more than MAX_OUTSTANDING requests, since one
\* has just been counted out.
LEMMA AskForHashesBound ==
    ASSUME NEW bad, NEW out \in Int, out < MAX_OUTSTANDING, NEW chosen \in AskForHashes(bad, out)
    PROVE  /\ chosen \subseteq Sites
           /\ Cardinality(chosen) \in Nat
           /\ out + Cardinality(chosen) <= MAX_OUTSTANDING
<1> DEFINE good == Sites \ bad
           most == Max({1, MAX_OUTSTANDING - out})
<1>1. chosen \subseteq good /\ Cardinality(chosen) = Min({Cardinality(good), most})
  BY DEF AskForHashes, kSubset
<1>2. chosen \subseteq Sites
  BY <1>1
<1>3. IsFiniteSet(good) /\ IsFiniteSet(chosen)
  BY <1>2, Constants, FS_Subset
<1>4. most = MAX_OUTSTANDING - out /\ most \in Int
  BY Constants, MaxOfTwo
<1> HIDE DEF most, good
<1>5. Cardinality(good) \in Nat /\ Cardinality(chosen) \in Nat
  BY <1>3, FS_CardinalityType
<1>6. Cardinality(chosen) <= most
  BY <1>1, <1>4, <1>5, MinOfTwo
<1> QED  BY <1>2, <1>4, <1>5, <1>6, Constants

LEMMA RunStep == IInv /\ Run => IInv'
<1> SUFFICES ASSUME IInv, Run PROVE IInv'
  OBVIOUS
<1>1. /\ TypeOK /\ ~started /\ lookups[DHT] = 0 /\ lookup' \in Lookups
      /\ DHT \in Sources /\ DHT \notin Sites /\ Sites \subseteq Sources
  BY Constants DEF Run, IInv, LookupEndsOnce, Sources
<1>2. CASE lookup' = "direct" /\ pieces' = "hashes" /\ StartDownload
           /\ UNCHANGED <<lookups, failed, raised, late>>
  BY <1>1, <1>2, StartStep DEF TypeOK
<1>3. CASE /\ lookup' = "dht"
           /\ lookups' = [lookups EXCEPT ![DHT] = 1]
           /\ UNCHANGED <<pieces, failed, started, raised, late, pieceVars, fileVars>>
  <2>1. \A s \in Sites : lookups[s] = 0
    BY <1>1 DEF Run, IInv, LookupEndsOnce
  <2> QED  BY <1>1, <1>3, <2>1, LookupStep DEF TypeOK, pieceVars
<1>4. CASE /\ lookup' = "peers"
           /\ \E chosen \in AskForHashes({}, 0) :
                /\ lookups' = [s \in Sources |-> IF s \in chosen THEN 1 ELSE 0]
                /\ outstanding' = Cardinality(chosen)
           /\ UNCHANGED <<pieces, failed, started, raised, late, sitelist, addedMirror, errors,
                          complete, nextFinish, asked, fileVars>>
  <2>1. PICK chosen \in AskForHashes({}, 0) :
           /\ lookups' = [s \in Sources |-> IF s \in chosen THEN 1 ELSE 0]
           /\ outstanding' = Cardinality(chosen)
    BY <1>4
  <2>2. chosen \subseteq Sites /\ Cardinality(chosen) \in Nat /\ Cardinality(chosen) <= MAX_OUTSTANDING
    BY Constants, AskForHashesBound
  <2>3. /\ outstanding' \in Int /\ outstanding' <= MAX_OUTSTANDING
        /\ lookups' \in [Sources -> Nat] /\ lookups'[DHT] = 0
    BY <1>1, <2>1, <2>2
  <2> QED  BY <1>1, <1>4, <2>3, LookupStep DEF TypeOK
<1> QED  BY <1>2, <1>3, <1>4 DEF Run

\* What holds while a source is asked for piece hashes.
LEMMA AskedSource ==
    ASSUME IInv, NEW s \in Sources, lookups[s] > 0
    PROVE  /\ TypeOK /\ lookup \in Lookups /\ lookup # "none"
           /\ DHT \in Sources /\ DHT \notin Sites /\ Sites \subseteq Sources
           /\ lookups[s] - 1 \in Nat
           /\ s # DHT => lookups[DHT] = 0
           /\ lookups[DHT] <= 1
<1>1. TypeOK /\ lookup # "none" /\ lookup \in Lookups /\ lookups[DHT] <= 1
  BY DEF IInv, LookupEndsOnce, TypeOK
<1>2. DHT \in Sources /\ DHT \notin Sites /\ Sites \subseteq Sources
  BY Constants DEF Sources
<1>3. lookups[s] \in Nat /\ lookups[DHT] \in Nat
  BY <1>1, <1>2 DEF TypeOK
<1>4. s # DHT => lookups[DHT] = 0
  <2>1. s # DHT => s \in Sites
    BY DEF Sources
  <2> QED  BY <1>3, <2>1 DEF IInv, LookupEndsOnce
<1> QED  BY <1>1, <1>2, <1>3, <1>4

LEMMA GotHashesStep ==
    ASSUME IInv, NEW s \in Sources, GotHashes(s)
    PROVE  IInv'
<1>1. lookups[s] > 0 /\ lookups' = [lookups EXCEPT ![s] = @ - 1]
      /\ UNCHANGED <<lookup, failed, raised, late>>
  BY DEF GotHashes
<1>2. lookups' \in [Sources -> Nat] /\ lookups'[DHT] = 0
  BY <1>1, AskedSource DEF TypeOK
<1>3. CASE pieces = "unknown" /\ pieces' = "hashes" /\ StartDownload
  <2>1. ~started
    BY <1>3 DEF IInv, LookupEndsOnce
  <2> QED  BY <1>1, <1>2, <1>3, <2>1, AskedSource, StartStep DEF TypeOK
<1>4. CASE UNCHANGED <<pieces, started, pieceVars, fileVars>>
  BY <1>1, <1>2, <1>4, AskedSource, LookupStep DEF TypeOK, pieceVars
<1> QED  BY <1>3, <1>4 DEF GotHashes

\* An exception ends a lookup and nothing else.
LEMMA LookupRaisesStep ==
    ASSUME IInv, NEW s \in Sources, LookupRaises(s)
    PROVE  IInv'
<1>1. /\ lookups[s] > 0 /\ lookups' = [lookups EXCEPT ![s] = @ - 1] /\ raised' = TRUE
      /\ UNCHANGED <<lookup, pieces, failed, started, late, pieceVars, fileVars>>
  BY DEF LookupRaises
<1>2. lookups' \in [Sources -> Nat] /\ lookups'[DHT] = 0
  BY <1>1, AskedSource DEF TypeOK
<1> QED  BY <1>1, <1>2, AskedSource, LookupStep DEF TypeOK, pieceVars

LEMMA NoHashesInDHTStep == IInv /\ NoHashesInDHT => IInv'
<1> SUFFICES ASSUME IInv, NoHashesInDHT PROVE IInv'
  OBVIOUS
<1>1. /\ lookups[DHT] > 0 /\ lookups' = [lookups EXCEPT ![DHT] = 0]
      /\ UNCHANGED <<lookup, failed, raised, late>>
      /\ pieces' = "unchecked" /\ StartDownload /\ DHT \in Sources
  BY DEF NoHashesInDHT, Sources
<1>2. ~started
  BY <1>1 DEF IInv, LookupEndsOnce
<1>3. lookups' \in [Sources -> Nat] /\ lookups'[DHT] = 0
  BY <1>1, AskedSource DEF TypeOK
<1> QED  BY <1>1, <1>2, <1>3, AskedSource, StartStep DEF TypeOK

LEMMA GetPeerPiecesStep ==
    ASSUME IInv, NEW s \in Sites, GetPeerPieces(s)
    PROVE  IInv'
<1>1. /\ s \in Sources /\ s # DHT /\ lookups[s] > 0 /\ failed' = failed \cup {s}
      /\ failed' \subseteq Sites /\ lookup' = lookup /\ raised' = raised
  BY Constants DEF GetPeerPieces, Sources, IInv, TypeOK
<1>2. outstanding - 1 \in Int /\ outstanding - 1 < MAX_OUTSTANDING
  BY Constants DEF IInv, TypeOK
<1>a. raised' \in BOOLEAN /\ late' \in BOOLEAN
  <2>1. raised \in BOOLEAN /\ late \in BOOLEAN
    BY DEF IInv, TypeOK
  <2>2. late' = (late \/ pieces # "unknown")
    BY DEF GetPeerPieces
  <2> QED  BY <1>1, <2>1, <2>2
<1>3. CASE pieces # "unknown"
  <2>1. /\ lookups' = [lookups EXCEPT ![s] = @ - 1] /\ outstanding' = outstanding - 1
        /\ UNCHANGED <<pieces, started, sitelist, addedMirror, errors, complete, nextFinish, asked,
                       fileVars>>
    BY <1>3 DEF GetPeerPieces
  <2>2. lookups' \in [Sources -> Nat] /\ lookups'[DHT] = 0
    BY <1>1, <2>1, AskedSource DEF TypeOK
  <2>3. outstanding' \in Int /\ outstanding' <= MAX_OUTSTANDING
    BY <1>2, <2>1, Constants
  <2> QED  BY <1>1, <1>a, <2>1, <2>2, <2>3, AskedSource, LookupStep
<1>4. CASE pieces = "unknown"
  <2> DEFINE More(chosen, x) == IF x \in chosen THEN 1 ELSE 0
             Less(x) == IF x = s THEN 1 ELSE 0
  <2>1. PICK chosen \in AskForHashes(failed', outstanding - 1) :
           /\ lookups' = [x \in Sources |-> lookups[x] + More(chosen, x) - Less(x)]
           /\ \/ /\ outstanding' = outstanding - 1 + Cardinality(chosen)
                 /\ UNCHANGED <<pieces, started, sitelist, addedMirror, errors, complete,
                                nextFinish, asked, fileVars>>
              \/ /\ pieces' = "unchecked"
                 /\ StartDownload
    BY <1>4 DEF GetPeerPieces
  <2>2. /\ chosen \subseteq Sites /\ Cardinality(chosen) \in Nat
        /\ outstanding - 1 + Cardinality(chosen) <= MAX_OUTSTANDING
    BY <1>2, AskForHashesBound
  <2>3. lookups' \in [Sources -> Nat] /\ lookups'[DHT] = 0
    BY <1>1, <2>1, <2>2, AskedSource DEF TypeOK
  <2>4. ~started
    BY <1>4 DEF IInv, LookupEndsOnce
  <2>5. CASE /\ outstanding' = outstanding - 1 + Cardinality(chosen)
             /\ UNCHANGED <<pieces, started, sitelist, addedMirror, errors, complete,
                            nextFinish, asked, fileVars>>
    BY <1>1, <1>2, <1>a, <2>2, <2>3, <2>5, AskedSource, LookupStep
  <2>6. CASE pieces' = "unchecked" /\ StartDownload
    BY <1>1, <1>a, <2>3, <2>4, <2>6, AskedSource, StartStep
  <2> QED  BY <2>1, <2>5, <2>6
<1> QED  BY <1>3, <1>4

-----------------------------------------------------------------------------
(* The pieces. *)

\* Where a transfer is going on the download has started.
LEMMA TransferStarted ==
    ASSUME IInv, NEW p, NEW s, <<p, s>> \in asked \cup streaming
    PROVE  /\ started /\ TypeOK /\ p \in Pieces /\ s \in AllSites
           /\ complete[p] = s /\ complete[p] # "done" /\ complete[p] # "free"
           /\ Transfers(complete, asked, streaming)
           /\ DoneIsVerified(complete, nextFinish, data)
<1>1. started /\ TypeOK /\ Transfers(complete, asked, streaming)
      /\ DoneIsVerified(complete, nextFinish, data)
  BY DEF IInv, LookupEndsOnce
<1>2. p \in Pieces /\ s \in AllSites
  BY <1>1 DEF TypeOK
<1>3. complete[p] = s
  BY <1>1, <1>2 DEF Transfers
<1> QED  BY <1>1, <1>2, <1>3, Constants

\* The ways in which a handler ends, with getPieces or without it, keep the invariant if
\* what the handler has made of its variables agrees with the invariant.
LEMMA PieceStep ==
    ASSUME IInv, started, UNCHANGED <<lookupVars, fileClosed>>,
           sitelist' \subseteq AllSites,
           outstanding' \in Int, outstanding' <= MAX_OUTSTANDING,
           addedMirror' \in BOOLEAN,
           errors' \in [AllSites -> 0 .. MAX_ERRORS],
           complete' \in [Pieces -> Marks],
           nextFinish' \in 0 .. N,
           asked' \subseteq Pieces \X AllSites,
           streaming' \subseteq Pieces \X AllSites,
           data' \in [Pieces -> {"empty", "partial", "good", "bad"}],
           reader' \in {"waiting", "streaming", "refused"},
           ended' \in BOOLEAN,
           Transfers(complete', asked', streaming'),
           DoneIsVerified(complete', nextFinish', data')
    PROVE  IInv'
<1>1. TypeOK'
  BY DEF IInv, TypeOK, Marks, lookupVars
<1>2. Transfers(complete, asked, streaming)'
  BY DEF Transfers
<1>3. LookupEndsOnce'
  BY DEF IInv, LookupEndsOnce, lookupVars
<1>4. DoneIsVerified(complete, nextFinish, data)' /\ started'
  BY DEF DoneIsVerified, lookupVars
<1> QED  BY <1>1, <1>2, <1>3, <1>4 DEF IInv

LEMMA HandlerStep ==
    ASSUME IInv, started, UNCHANGED <<lookupVars, fileClosed>>,
           NEW list, list \subseteq AllSites,
           NEW out \in Int, out <= MAX_OUTSTANDING,
           NEW comp \in [Pieces -> Marks],
           NEW reqs, reqs \subseteq Pieces \X AllSites,
           NEW rd \in {"waiting", "streaming", "refused"},
           addedMirror' \in BOOLEAN,
           errors' \in [AllSites -> 0 .. MAX_ERRORS],
           nextFinish' \in 0 .. N,
           streaming' \subseteq Pieces \X AllSites,
           data' \in [Pieces -> {"empty", "partial", "good", "bad"}],
           Transfers(comp, reqs, streaming'),
           DoneIsVerified(comp, nextFinish', data'),
           GetPieces(list, out, comp, reqs, nextFinish', rd)
    PROVE  IInv'
<1>1. ended \in BOOLEAN
  BY DEF IInv, TypeOK
<1>2. /\ sitelist' \subseteq AllSites
      /\ outstanding' \in Int /\ outstanding' <= MAX_OUTSTANDING
      /\ complete' \in [Pieces -> Marks]
      /\ asked' \subseteq Pieces \X AllSites
      /\ reader' \in {"waiting", "streaming", "refused"}
      /\ ended' \in BOOLEAN
      /\ Transfers(complete', asked', streaming')
      /\ \A p \in Pieces : complete'[p] = "done" <=> comp[p] = "done"
  BY <1>1, GetPiecesStep
<1>3. DoneIsVerified(complete', nextFinish', data')
  BY <1>2 DEF DoneIsVerified
<1> QED  BY <1>2, <1>3, PieceStep

LEMMA OneMoreErrorTyped ==
    ASSUME errors \in [AllSites -> 0 .. MAX_ERRORS], NEW s \in AllSites
    PROVE  OneMoreError(s) \in [AllSites -> 0 .. MAX_ERRORS]
<1>1. errors[s] + 1 \in Int /\ MAX_ERRORS \in Nat
  BY Constants
<1>2. Min({errors[s] + 1, MAX_ERRORS}) \in 0 .. MAX_ERRORS
  BY <1>1, MinOfTwo
<1> QED  BY <1>2 DEF OneMoreError

LEMMA Requeued ==
    ASSUME sitelist \subseteq AllSites, NEW s \in AllSites, NEW keep, NEW out
    PROVE  Requeue(s, keep, out) \subseteq AllSites
  BY DEF Requeue, WithMirror, AllSites

\* A piece whose transfer has come to nothing is given back, whether the request or the
\* response is what ends.
LEMMA GivenBack ==
    ASSUME IInv, NEW p, NEW s, <<p, s>> \in asked \cup streaming
    PROVE  /\ Freed(p) \in [Pieces -> Marks]
           /\ Transfers(Freed(p), asked \ {<<p, s>>}, streaming \ {<<p, s>>})
           /\ DoneIsVerified(Freed(p), nextFinish, data)
<1>1. /\ p \in Pieces /\ s \in AllSites /\ complete[p] = s /\ complete[p] # "done"
      /\ Transfers(complete, asked, streaming) /\ DoneIsVerified(complete, nextFinish, data)
      /\ complete \in [Pieces -> Marks]
  BY TransferStarted DEF TypeOK, Marks
<1>2. Freed(p) \in [Pieces -> Marks] /\ Freed(p)[p] = "free"
      /\ \A q \in Pieces : q # p => Freed(p)[q] = complete[q]
  BY <1>1 DEF Freed, Marks
<1>3. \A q \in Pieces, t \in AllSites :
         <<q, t>> \in (asked \ {<<p, s>>}) \cup (streaming \ {<<p, s>>}) <=> Freed(p)[q] = t
  <2> SUFFICES ASSUME NEW q \in Pieces, NEW t \in AllSites
               PROVE  <<q, t>> \in (asked \ {<<p, s>>}) \cup (streaming \ {<<p, s>>})
                        <=> Freed(p)[q] = t
    OBVIOUS
  <2>1. <<q, t>> \in asked \cup streaming <=> complete[q] = t
    BY <1>1 DEF Transfers
  <2>2. <<q, t>> = <<p, s>> <=> q = p /\ t = s
    OBVIOUS
  <2> QED  BY <1>1, <1>2, <2>1, <2>2, Constants
<1>4. DoneIsVerified(Freed(p), nextFinish, data)
  BY <1>1, <1>2 DEF DoneIsVerified
<1> QED  BY <1>1, <1>2, <1>3, <1>4 DEF Transfers

LEMMA GetErrorStep ==
    ASSUME IInv, NEW p, NEW s, GetError(p, s)
    PROVE  IInv'
<1> DEFINE keep == OneMoreError(s)[s] < MAX_ERRORS
           out == outstanding - 1
<1>1. /\ <<p, s>> \in asked /\ errors' = OneMoreError(s)
      /\ addedMirror' = AddsMirror(keep, out)
      /\ GetPieces(Requeue(s, keep, out), out, Freed(p), asked \ {<<p, s>>}, nextFinish, reader)
      /\ UNCHANGED <<lookupVars, nextFinish, streaming, data, fileClosed>>
  BY DEF GetError
<1>2. started /\ TypeOK /\ s \in AllSites
  BY <1>1, TransferStarted
<1>3. /\ addedMirror' \in BOOLEAN /\ errors' \in [AllSites -> 0 .. MAX_ERRORS]
      /\ Requeue(s, keep, out) \subseteq AllSites
  <2>1. addedMirror \in BOOLEAN
    BY <1>2 DEF TypeOK
  <2>2. addedMirror' \in BOOLEAN
    BY <1>1, <2>1 DEF AddsMirror
  <2> QED  BY <1>1, <1>2, <2>2, OneMoreErrorTyped, Requeued DEF TypeOK
<1>4. out \in Int /\ out <= MAX_OUTSTANDING
  BY <1>2, Constants DEF TypeOK
<1>5. streaming \ {<<p, s>>} = streaming
  BY <1>1 DEF IInv, Transfers
<1>6. /\ Freed(p) \in [Pieces -> Marks]
      /\ Transfers(Freed(p), asked \ {<<p, s>>}, streaming')
      /\ DoneIsVerified(Freed(p), nextFinish', data')
  BY <1>1, <1>5, GivenBack
<1>7. /\ asked \ {<<p, s>>} \subseteq Pieces \X AllSites
      /\ streaming' \subseteq Pieces \X AllSites
      /\ data' \in [Pieces -> {"empty", "partial", "good", "bad"}]
      /\ nextFinish' \in 0 .. N
      /\ reader \in {"waiting", "streaming", "refused"}
  BY <1>1, <1>2 DEF TypeOK
<1> HIDE DEF keep, out
<1>8. GetPieces(Requeue(s, keep, out), out, Freed(p), asked \ {<<p, s>>}, nextFinish', reader)
  BY <1>1
<1>9. UNCHANGED <<lookupVars, fileClosed>>
  BY <1>1
<1> QED  BY <1>2, <1>3, <1>4, <1>6, <1>7, <1>8, <1>9, HandlerStep

LEMMA GetPieceStep ==
    ASSUME IInv, NEW p, NEW s, NEW code \in {"ok", "wrong", "gone"}, GetPiece(p, s, code)
    PROVE  IInv'
<1> DEFINE errs == IF code = "wrong" THEN OneMoreError(s) ELSE errors
           keep == code = "ok" \/ (code = "wrong" /\ errs[s] < MAX_ERRORS)
           out == outstanding - 1
           rd == IF code = "ok" /\ reader = "waiting" THEN "streaming" ELSE reader
           comp == IF code = "ok" THEN complete ELSE Freed(p)
           list == Requeue(s, keep, out)
           reqs == asked \ {<<p, s>>}
<1>1. /\ <<p, s>> \in asked /\ errors' = errs
      /\ streaming' = IF code = "ok" THEN streaming \cup {<<p, s>>} ELSE streaming
      /\ data' = IF code = "ok" THEN [data EXCEPT ![p] = "partial"] ELSE data
      /\ addedMirror' = AddsMirror(keep, out)
      /\ GetPieces(list, out, comp, reqs, nextFinish, rd)
      /\ UNCHANGED <<lookupVars, nextFinish, fileClosed>>
  BY DEF GetPiece
<1>2. /\ started /\ TypeOK /\ p \in Pieces /\ s \in AllSites
      /\ complete[p] = s /\ complete[p] # "done" /\ Transfers(complete, asked, streaming)
      /\ DoneIsVerified(complete, nextFinish, data)
  BY <1>1, TransferStarted
<1>3. addedMirror' \in BOOLEAN /\ errors' \in [AllSites -> 0 .. MAX_ERRORS] /\ list \subseteq AllSites
  <2>1. addedMirror \in BOOLEAN /\ sitelist \subseteq AllSites
    BY <1>2 DEF TypeOK
  <2>2. addedMirror' \in BOOLEAN
    BY <1>1, <2>1 DEF AddsMirror
  <2> QED  BY <1>1, <1>2, <2>1, <2>2, OneMoreErrorTyped, Requeued DEF TypeOK
<1>4. out \in Int /\ out <= MAX_OUTSTANDING
  BY <1>2, Constants DEF TypeOK
<1>5. /\ comp \in [Pieces -> Marks]
      /\ Transfers(comp, reqs, streaming')
      /\ DoneIsVerified(comp, nextFinish', data')
  <2>1. CASE code = "ok"
    <3>1. Transfers(complete, reqs, streaming \cup {<<p, s>>})
      <4>1. reqs \cup (streaming \cup {<<p, s>>}) = asked \cup streaming
        BY <1>1
      <4>2. reqs \cap (streaming \cup {<<p, s>>}) = {}
        BY <1>2 DEF Transfers
      <4> QED  BY <1>2, <4>1, <4>2 DEF Transfers
    <3>2. DoneIsVerified(complete, nextFinish', data')
      BY <1>1, <1>2, <2>1 DEF DoneIsVerified, TypeOK
    <3> QED  BY <1>1, <1>2, <2>1, <3>1, <3>2 DEF TypeOK, Marks
  <2>2. CASE code # "ok"
    <3>1. streaming \ {<<p, s>>} = streaming
      BY <1>1, <1>2 DEF Transfers
    <3>2. <<p, s>> \in asked \cup streaming /\ data' = data /\ streaming' = streaming
          /\ nextFinish' = nextFinish
      BY <1>1, <2>2
    <3> QED  BY <2>2, <3>1, <3>2, GivenBack
  <2> QED  BY <2>1, <2>2
<1>6. /\ reqs \subseteq Pieces \X AllSites
      /\ streaming' \subseteq Pieces \X AllSites
      /\ data' \in [Pieces -> {"empty", "partial", "good", "bad"}]
      /\ nextFinish' \in 0 .. N
      /\ rd \in {"waiting", "streaming", "refused"}
  BY <1>1, <1>2 DEF TypeOK
<1> HIDE DEF keep, out, errs, rd, comp, list, reqs
<1>7. GetPieces(list, out, comp, reqs, nextFinish', rd) /\ UNCHANGED <<lookupVars, fileClosed>>
  BY <1>1
<1> QED  BY <1>2, <1>3, <1>4, <1>5, <1>6, <1>7, HandlerStep

LEMMA GotErrorStep ==
    ASSUME IInv, NEW p, NEW s, GotError(p, s)
    PROVE  IInv'
<1>1. /\ <<p, s>> \in streaming /\ streaming' = streaming \ {<<p, s>>}
      /\ errors' = OneMoreError(s)
      /\ GetPieces(sitelist, outstanding, Freed(p), asked, nextFinish', reader)
      /\ UNCHANGED <<lookupVars, addedMirror, nextFinish, data, fileClosed>>
  BY DEF GotError
<1>2. started /\ TypeOK /\ s \in AllSites
  BY <1>1, TransferStarted
<1>3. asked \ {<<p, s>>} = asked
  BY <1>1 DEF IInv, Transfers
<1>4. /\ Freed(p) \in [Pieces -> Marks]
      /\ Transfers(Freed(p), asked, streaming')
      /\ DoneIsVerified(Freed(p), nextFinish', data')
  BY <1>1, <1>3, GivenBack
<1>5. errors' \in [AllSites -> 0 .. MAX_ERRORS]
  BY <1>1, <1>2, OneMoreErrorTyped DEF TypeOK
<1>6. /\ asked \subseteq Pieces \X AllSites
      /\ streaming' \subseteq Pieces \X AllSites
      /\ data' \in [Pieces -> {"empty", "partial", "good", "bad"}]
      /\ nextFinish' \in 0 .. N
      /\ reader \in {"waiting", "streaming", "refused"}
      /\ sitelist \subseteq AllSites /\ outstanding \in Int /\ outstanding <= MAX_OUTSTANDING
      /\ addedMirror' \in BOOLEAN
  BY <1>1, <1>2 DEF TypeOK
<1>7. UNCHANGED <<lookupVars, fileClosed>>
  BY <1>1
<1> QED  BY <1>1, <1>2, <1>4, <1>5, <1>6, <1>7, HandlerStep

\* nextFinish goes on to the first piece that is not done and never back.
LEMMA FinishedIsDone ==
    ASSUME NEW comp
    PROVE  /\ Finished(comp) \in 0 .. N
           /\ \A p \in Pieces : p <= Finished(comp) => comp[p] = "done"
           /\ \A f \in 0 .. N : (\A p \in 1 .. f : comp[p] = "done") => f <= Finished(comp)
<1> DEFINE prefixes == {f \in 0 .. N : \A p \in 1 .. f : comp[p] = "done"}
<1>1. IsFiniteSet(prefixes) /\ prefixes \subseteq Int /\ prefixes # {}
  <2>1. prefixes \in SUBSET (0 .. N) /\ IsFiniteSet(0 .. N)
    BY Constants, FS_Interval
  <2>2. 0 \in prefixes
    BY Constants
  <2> HIDE DEF prefixes
  <2>3. IsFiniteSet(prefixes)
    BY <2>1, FS_Subset
  <2>4. 0 .. N \subseteq Int
    BY Constants
  <2> QED  BY <2>1, <2>2, <2>3, <2>4
<1>2. Finished(comp) = Max(prefixes)
  BY DEF Finished
<1> HIDE DEF prefixes
<1>3. Finished(comp) \in prefixes /\ \A f \in prefixes : f <= Finished(comp)
  BY <1>1, <1>2, MaxOfSet
<1> USE DEF prefixes
<1>4. Finished(comp) \in 0 .. N /\ \A p \in 1 .. Finished(comp) : comp[p] = "done"
  BY <1>3
<1> HIDE DEF prefixes
<1>5. \A p \in Pieces : p <= Finished(comp) => p \in 1 .. Finished(comp)
  BY <1>4, Constants
<1> USE DEF prefixes
<1> QED  BY <1>3, <1>4, <1>5

LEMMA GotPieceStep ==
    ASSUME IInv, NEW p, NEW s, NEW content \in {"good", "bad"}, GotPiece(p, s, content)
    PROVE  IInv'
<1> DEFINE comp == [complete EXCEPT ![p] = "done"]
           finish == Finished(comp)
<1>1. /\ <<p, s>> \in streaming /\ streaming' = streaming \ {<<p, s>>}
      /\ data' = [data EXCEPT ![p] = content]
      /\ UNCHANGED <<lookupVars, addedMirror, fileClosed>>
  BY DEF GotPiece
<1>2. /\ started /\ TypeOK /\ p \in Pieces /\ s \in AllSites
      /\ complete[p] = s /\ complete[p] # "done" /\ Transfers(complete, asked, streaming)
      /\ DoneIsVerified(complete, nextFinish, data)
      /\ complete \in [Pieces -> Marks]
  BY <1>1, TransferStarted DEF TypeOK, Marks
<1>3. asked \ {<<p, s>>} = asked
  BY <1>1, <1>2 DEF Transfers
<1>4. /\ asked \subseteq Pieces \X AllSites
      /\ streaming' \subseteq Pieces \X AllSites
      /\ data' \in [Pieces -> {"empty", "partial", "good", "bad"}]
      /\ reader \in {"waiting", "streaming", "refused"} /\ ended \in BOOLEAN
      /\ sitelist \subseteq AllSites /\ outstanding \in Int /\ outstanding <= MAX_OUTSTANDING
      /\ addedMirror' \in BOOLEAN /\ nextFinish \in 0 .. N
      /\ UNCHANGED <<lookupVars, fileClosed>>
  BY <1>1, <1>2 DEF TypeOK
<1>5. CASE /\ pieces = "hashes" /\ content = "bad"
           /\ errors' = OneMoreError(s)
           /\ nextFinish' = nextFinish
           /\ GetPieces(sitelist, outstanding, Freed(p), asked, nextFinish, reader)
  <2>1. /\ Freed(p) \in [Pieces -> Marks]
        /\ Transfers(Freed(p), asked, streaming')
        /\ DoneIsVerified(Freed(p), nextFinish', data)
    BY <1>1, <1>3, <1>5, GivenBack
  <2>2. DoneIsVerified(Freed(p), nextFinish', data')
    <3>1. Freed(p)[p] # "done" /\ \A q \in Pieces : q # p => data'[q] = data[q]
      BY <1>1, <1>2, Constants DEF Freed, TypeOK
    <3> QED  BY <2>1, <3>1 DEF DoneIsVerified
  <2>3. errors' \in [AllSites -> 0 .. MAX_ERRORS]
    BY <1>2, <1>5, OneMoreErrorTyped DEF TypeOK
  <2>4. /\ nextFinish' \in 0 .. N
        /\ GetPieces(sitelist, outstanding, Freed(p), asked, nextFinish', reader)
    BY <1>4, <1>5
  <2> QED  BY <1>2, <1>4, <2>1, <2>2, <2>3, <2>4, HandlerStep
<1>6. CASE /\ pieces = "hashes" => content = "good"
           /\ errors' = [errors EXCEPT ![s] = 0]
           /\ IF finish = nextFinish \/ reader = "streaming"
              THEN /\ nextFinish' = finish
                   /\ GetPieces(sitelist, outstanding, comp, asked, finish, reader)
              ELSE /\ nextFinish' = nextFinish + 1
                   /\ complete' = comp
                   /\ UNCHANGED <<sitelist, outstanding, asked, reader, ended>>
  <2>1. /\ comp \in [Pieces -> Marks] /\ comp[p] = "done"
        /\ \A q \in Pieces : q # p => comp[q] = complete[q]
    BY <1>2 DEF Marks
  <2>2. Transfers(comp, asked, streaming')
    <3> SUFFICES ASSUME NEW q \in Pieces, NEW t \in AllSites
                 PROVE  <<q, t>> \in asked \cup (streaming \ {<<p, s>>}) <=> comp[q] = t
      <4> HIDE DEF comp
      <4>1. asked \cap streaming' = {}
        BY <1>1, <1>2 DEF Transfers
      <4> QED  BY <1>1, <4>1 DEF Transfers
    <3>1. <<q, t>> \in asked \cup streaming <=> complete[q] = t
      BY <1>2 DEF Transfers
    <3>2. <<q, t>> = <<p, s>> <=> q = p /\ t = s
      OBVIOUS
    <3> HIDE DEF comp
    <3> QED  BY <1>1, <1>2, <1>3, <2>1, <3>1, <3>2, Constants
  <2> HIDE DEF comp
  <2>3. /\ finish \in 0 .. N /\ nextFinish <= finish
        /\ \A q \in Pieces : q <= finish => comp[q] = "done"
    <3>1. \A q \in 1 .. nextFinish : q \in Pieces /\ q <= nextFinish
      BY <1>4, Constants
    <3>2. \A q \in 1 .. nextFinish : comp[q] = "done"
      BY <1>2, <2>1, <3>1 DEF DoneIsVerified
    <3> QED  BY <1>4, <3>2, FinishedIsDone
  <2>4. pieces = "hashes" => \A q \in Pieces : comp[q] = "done" => data'[q] = "good"
    <3>1. data'[p] = content /\ \A q \in Pieces : q # p => data'[q] = data[q]
      BY <1>1, <1>2 DEF TypeOK
    <3> QED  BY <1>2, <1>6, <2>1, <3>1 DEF DoneIsVerified
  <2>5. errors' \in [AllSites -> 0 .. MAX_ERRORS]
    BY <1>2, <1>6, Constants DEF TypeOK
  <2> HIDE DEF finish
  <2>6. CASE /\ nextFinish' = finish
             /\ GetPieces(sitelist, outstanding, comp, asked, finish, reader)
    <3>1. /\ nextFinish' \in 0 .. N /\ DoneIsVerified(comp, nextFinish', data')
          /\ GetPieces(sitelist, outstanding, comp, asked, nextFinish', reader)
      BY <2>3, <2>4, <2>6 DEF DoneIsVerified
    <3> QED  BY <1>2, <1>4, <2>1, <2>2, <2>5, <3>1, HandlerStep
  <2>7. CASE /\ finish # nextFinish
             /\ nextFinish' = nextFinish + 1
             /\ complete' = comp
             /\ UNCHANGED <<sitelist, outstanding, asked, reader, ended>>
    <3>1. nextFinish' \in 0 .. N /\ nextFinish' <= finish
      BY <1>4, <2>3, <2>7, Constants
    <3>2. \A q \in Pieces : q <= nextFinish' => q <= finish
      BY <2>3, <3>1, Constants
    <3>3. DoneIsVerified(complete', nextFinish', data')
      BY <2>3, <2>4, <2>7, <3>2 DEF DoneIsVerified
    <3>4. /\ sitelist' \subseteq AllSites /\ outstanding' \in Int
          /\ outstanding' <= MAX_OUTSTANDING /\ complete' \in [Pieces -> Marks]
          /\ asked' \subseteq Pieces \X AllSites
          /\ reader' \in {"waiting", "streaming", "refused"} /\ ended' \in BOOLEAN
          /\ Transfers(complete', asked', streaming')
      BY <1>4, <2>1, <2>2, <2>7
    <3> QED  BY <1>2, <1>4, <2>5, <3>1, <3>3, <3>4, PieceStep
  <2> QED  BY <1>6, <2>6, <2>7
<1> QED  BY <1>5, <1>6 DEF GotPiece

LEMMA CloseFileStep == IInv /\ CloseFile => IInv'
<1> SUFFICES ASSUME IInv, CloseFile PROVE IInv'
  OBVIOUS
<1>1. fileClosed' = TRUE /\ UNCHANGED <<lookupVars, pieceVars, streaming, data, reader, ended>>
  BY DEF CloseFile
<1>2. TypeOK'
  BY <1>1 DEF IInv, TypeOK, lookupVars, pieceVars
<1>3. /\ Transfers(complete, asked, streaming)' /\ LookupEndsOnce'
      /\ (started => DoneIsVerified(complete, nextFinish, data))'
  BY <1>1 DEF IInv, Transfers, LookupEndsOnce, DoneIsVerified, lookupVars, pieceVars
<1> QED  BY <1>1, <1>2, <1>3 DEF IInv, lookupVars, pieceVars

-----------------------------------------------------------------------------
(* The theorems. *)

LEMMA NextIInv == IInv /\ [Next]_vars => IInv'
<1> SUFFICES ASSUME IInv, [Next]_vars PROVE IInv'
  OBVIOUS
<1>1. CASE Run
  BY <1>1, RunStep
<1>2. ASSUME NEW s \in Sources, LookupEnds(s) PROVE IInv'
  BY <1>2, GotHashesStep, LookupRaisesStep, NoHashesInDHTStep, GetPeerPiecesStep DEF LookupEnds
<1>3. ASSUME NEW p \in Pieces, NEW s \in AllSites, Response(p, s) PROVE IInv'
  BY <1>3, GetErrorStep, GetPieceStep DEF Response
<1>4. ASSUME NEW p \in Pieces, NEW s \in AllSites, StreamEnds(p, s) PROVE IInv'
  BY <1>4, GotErrorStep, GotPieceStep DEF StreamEnds
<1>5. CASE CloseFile
  BY <1>5, CloseFileStep
<1>6. CASE UNCHANGED vars
  <2>1. TypeOK'
    BY <1>6 DEF IInv, TypeOK, vars, lookupVars, pieceVars, fileVars
  <2> QED  BY <1>6, <2>1 DEF IInv, Transfers, LookupEndsOnce, DoneIsVerified,
                              vars, lookupVars, pieceVars, fileVars
<1> QED  BY <1>1, <1>2, <1>3, <1>4, <1>5, <1>6 DEF Next, Progress

\* The invariant holds throughout.
THEOREM Inductive == Spec => []IInv
  BY InitIInv, NextIInv, PTL DEF Spec, Safety

\* Every variable keeps to its type: in particular no more than MAX_OUTSTANDING requests
\* are ever counted, and nextFinish stays within the file.
THEOREM TypeCorrect == Spec => []TypeOK
<1>1. IInv => TypeOK
  BY DEF IInv
<1> QED  BY <1>1, Inductive, PTL

\* completePieces names exactly the transfers that are going on, one per piece
\* (getPieces, _getPiece, _gotPiece and their errbacks).
THEOREM OneTransfer == Spec => []OneTransferPerPiece
<1>1. IInv => OneTransferPerPiece
  <2> SUFFICES ASSUME IInv, NEW p \in Pieces
               PROVE  /\ {t \in asked \cup streaming : t[1] = p}
                           = IF complete[p] \in AllSites THEN {<<p, complete[p]>>} ELSE {}
                      /\ asked \cap streaming = {}
    BY DEF OneTransferPerPiece
  <2>1. asked \cup streaming \subseteq Pieces \X AllSites /\ Transfers(complete, asked, streaming)
    BY DEF IInv, TypeOK
  <2>2. \A t \in asked \cup streaming : t = <<t[1], t[2]>> /\ t[2] \in AllSites
    BY <2>1
  <2>3. \A t \in asked \cup streaming : t[1] = p => t = <<p, complete[p]>> /\ complete[p] \in AllSites
    BY <2>1, <2>2 DEF Transfers
  <2>4. complete[p] \in AllSites => <<p, complete[p]>> \in asked \cup streaming
    BY <2>1 DEF Transfers
  <2>5. <<p, complete[p]>>[1] = p
    OBVIOUS
  <2> QED  BY <2>1, <2>3, <2>4, <2>5 DEF Transfers
<1> QED  BY <1>1, Inductive, PTL

\* What is offered to the HTTP client was compared with its hash, in whatever order the
\* pieces come, fail and are asked for again (_gotPiece).
THEOREM VerifiedOnly == Spec => []ServedIsVerified
<1>1. IInv => ServedIsVerified
  <2> SUFFICES ASSUME IInv, pieces = "hashes", NEW p \in 1 .. nextFinish
               PROVE  data[p] = "good"
    BY DEF ServedIsVerified
  <2>1. started /\ nextFinish \in 0 .. N
    BY DEF IInv, LookupEndsOnce, TypeOK
  <2>2. p \in Pieces /\ p <= nextFinish
    BY <2>1, Constants
  <2> QED  BY <2>1, <2>2 DEF IInv, DoneIsVerified
<1> QED  BY <1>1, Inductive, PTL

-----------------------------------------------------------------------------
(* Giving up: outstanding is exact, once the download has started, as long as no request  *)
(* for piece hashes has failed late.                                                      *)

\* What a started download counts: `list` is the list of peers to ask next, `out` what
\* is outstanding, `reqs` the requests and `mirror` whether the mirror was brought in.
\* No peer is asked twice at a time, or while it is on the list; until the mirror is
\* brought in there are enough peers without it.
Counted(list, out, reqs, mirror) ==
    /\ \A t, u \in reqs : t[2] = u[2] => t = u
    /\ \A t \in reqs : t[2] \notin list
    /\ out = Cardinality(reqs)
    /\ ~mirror => /\ Mirror \notin list
                  /\ \A t \in reqs : t[2] # Mirror
                  /\ Cardinality(list) + out >= MIN_DOWNLOAD_PEERS

\* Nobody is left to ask, and nobody is asked.
UsedUp == sitelist = {} /\ asked = {}

\* What outstanding counts is exact once the download has started.
CountInv ==
    /\ started => Counted(sitelist, outstanding, asked, addedMirror)
    /\ ~started => reader = "waiting" /\ ~ended /\ ~addedMirror

\* A download that has given up has nobody left to ask.
GaveUpInv ==
    /\ streaming # {} => reader = "streaming"
    /\ reader = "refused" \/ Aborted => UsedUp

GiveUpInv == ~late => CountInv /\ GaveUpInv

\* The injective image of a finite set has as many elements.
LEMMA RangeOfInjection ==
    ASSUME NEW S, IsFiniteSet(S), NEW T, NEW f \in Injection(S, T)
    PROVE  /\ Range(f) \subseteq T
           /\ IsFiniteSet(Range(f))
           /\ Cardinality(Range(f)) = Cardinality(S)
<1>1. f \in [S -> T] /\ \A a, b \in S : f[a] = f[b] => a = b
  BY DEF Injection, IsInjective
<1>2. Range(f) = {f[x] : x \in S} /\ Range(f) \subseteq T
  BY <1>1 DEF Range
<1>3. f \in Injection(S, Range(f)) /\ f \in Surjection(S, Range(f))
  BY <1>1, <1>2 DEF Injection, IsInjective, Surjection
<1> HIDE DEF Range
<1> QED  BY <1>2, <1>3, FS_Surjection

\* getPieces makes one request for each of the pieces in `now`, from different peers.
LEMMA NewRequests ==
    ASSUME NEW now, IsFiniteSet(now), NEW list, NEW site \in Injection(now, list)
    PROVE  LET new == {<<p, site[p]>> : p \in now}
           IN  /\ \A t \in new : t[2] \in list /\ t[2] \in Range(site)
               /\ \A t, u \in new : t[2] = u[2] => t = u
               /\ IsFiniteSet(new) /\ Cardinality(new) = Cardinality(now)
<1> DEFINE new == {<<p, site[p]>> : p \in now}
           pair == [p \in now |-> <<p, site[p]>>]
<1>1. site \in [now -> list] /\ \A a, b \in now : site[a] = site[b] => a = b
  BY DEF Injection, IsInjective
<1>2. \A t \in new : \E p \in now : t = <<p, site[p]>> /\ t[2] = site[p]
  OBVIOUS
<1>3. pair \in Injection(now, new)
  BY DEF Injection, IsInjective
<1>4. Range(pair) = new
  BY DEF Range
<1>5. \A t \in new : t[2] \in list /\ t[2] \in Range(site)
  BY <1>1, <1>2 DEF Range
<1>6. \A t, u \in new : t[2] = u[2] => t = u
  BY <1>1, <1>2
<1> HIDE DEF pair
<1>7. IsFiniteSet(new) /\ Cardinality(new) = Cardinality(now)
  <2> HIDE DEF new
  <2> QED  BY <1>3, <1>4, RangeOfInjection
<1> QED  BY <1>5, <1>6, <1>7

\* getPieces keeps the count, and gives up only when nobody is left.
LEMMA GetPiecesCounts ==
    ASSUME NEW list, list \subseteq AllSites,
           NEW out, NEW comp,
           NEW reqs, reqs \subseteq Pieces \X AllSites,
           NEW finish, NEW rd, NEW mirror,
           Counted(list, out, reqs, mirror),
           GetPieces(list, out, comp, reqs, finish, rd)
    PROVE  /\ Counted(sitelist', outstanding', asked', mirror)
           /\ list = {} /\ reqs = {} => UsedUp'
           /\ reader' = rd \/ (rd = "waiting" /\ reader' = "refused" /\ UsedUp')
           /\ ended' => fileClosed \/ ended \/ finish = N \/ UsedUp'
<1>1. CASE fileClosed
  BY <1>1 DEF GetPieces, UsedUp
<1>2. CASE ~fileClosed
  <2> DEFINE free == {p \in Pieces : p > finish /\ comp[p] = "free"}
             n == Min({MAX_OUTSTANDING - out, Cardinality(list), Cardinality(free)})
             now == FirstPieces(n, free)
  <2>1. PICK site \in Injection(now, list) :
           LET left == list \ Range(site)
               none == out + Cardinality(now) <= 0
               finished == none /\ finish = N
               outOfPeers == none /\ left = {} /\ free \ now # {}
           IN  /\ sitelist' = left
               /\ outstanding' = out + Cardinality(now)
               /\ asked' = reqs \cup {<<p, site[p]>> : p \in now}
               /\ reader' = IF outOfPeers /\ rd = "waiting" THEN "refused" ELSE rd
               /\ ended' = (ended \/ (rd = "streaming" /\ (finished \/ outOfPeers)))
    BY <1>2 DEF GetPieces
  <2>2. IsFiniteSet(now)
    <3>1. now \subseteq Pieces
      BY DEF FirstPieces
    <3> HIDE DEF now
    <3> QED  BY <3>1, Constants, FS_Subset
  <2> HIDE DEF now, free
  <2> DEFINE new == {<<p, site[p]>> : p \in now}
  <2>3. /\ \A t \in new : t[2] \in list /\ t[2] \in Range(site)
        /\ \A t, u \in new : t[2] = u[2] => t = u
        /\ IsFiniteSet(new) /\ Cardinality(new) = Cardinality(now)
    BY <2>2, NewRequests
  <2>4. Range(site) \subseteq list /\ IsFiniteSet(Range(site)) /\ Cardinality(Range(site)) = Cardinality(now)
    BY <2>2, RangeOfInjection
  <2>5. /\ sitelist' = list \ Range(site)
        /\ outstanding' = out + Cardinality(now)
        /\ asked' = reqs \cup new
    BY <2>1
  <2> HIDE DEF new
  <2>6. IsFiniteSet(list) /\ IsFiniteSet(reqs)
    BY Constants, FS_Subset, FS_Product
  <2>7. /\ Cardinality(list) \in Nat /\ Cardinality(reqs) \in Nat /\ Cardinality(now) \in Nat
        /\ out = Cardinality(reqs)
    BY <2>2, <2>6, FS_CardinalityType DEF Counted
  <2>8. \A t \in reqs : t[2] \notin list
    BY DEF Counted
  <2>9. reqs \cap new = {}
    BY <2>3, <2>8
  <2>10. outstanding' = Cardinality(asked')
    BY <2>3, <2>5, <2>6, <2>7, <2>9, DisjointUnion
  <2>11. Cardinality(sitelist') = Cardinality(list) - Cardinality(now)
    <3>1. list = sitelist' \cup Range(site) /\ sitelist' \cap Range(site) = {} /\ IsFiniteSet(sitelist')
      BY <2>4, <2>5, <2>6, FS_Difference
    <3>2. Cardinality(list) = Cardinality(sitelist') + Cardinality(Range(site))
      BY <2>4, <3>1, DisjointUnion
    <3>3. Cardinality(sitelist') \in Nat
      BY <3>1, FS_CardinalityType
    <3> QED  BY <2>4, <2>7, <3>2, <3>3
  <2>12. Counted(sitelist', outstanding', asked', mirror)
    <3>1. \A t, u \in asked' : t[2] = u[2] => t = u
      BY <2>3, <2>5, <2>8 DEF Counted
    <3>2. \A t \in asked' : t[2] \notin sitelist'
      BY <2>3, <2>5, <2>8
    <3>3. ~mirror => /\ Mirror \notin sitelist'
                     /\ \A t \in asked' : t[2] # Mirror
                     /\ Cardinality(sitelist') + outstanding' >= MIN_DOWNLOAD_PEERS
      <4>1. ~mirror => Mirror \notin list /\ (\A t \in reqs : t[2] # Mirror)
                       /\ Cardinality(list) + out >= MIN_DOWNLOAD_PEERS
        BY DEF Counted
      <4>2. Cardinality(sitelist') + outstanding' = Cardinality(list) + out
        BY <2>5, <2>7, <2>11
      <4> QED  BY <2>3, <2>5, <4>1, <4>2
    <3> QED  BY <2>10, <3>1, <3>2, <3>3 DEF Counted
  <2>13. list = {} /\ reqs = {} => UsedUp'
    BY <2>3, <2>5 DEF UsedUp
  <2>14. out + Cardinality(now) <= 0 /\ list \ Range(site) = {} => UsedUp'
    <3> SUFFICES ASSUME out + Cardinality(now) <= 0, list \ Range(site) = {} PROVE UsedUp'
      OBVIOUS
    <3>1. Cardinality(reqs) = 0 /\ Cardinality(new) = 0
      BY <2>3, <2>7
    <3>2. reqs = {} /\ new = {}
      BY <2>3, <2>6, <3>1, FS_EmptySet
    <3> QED  BY <2>5, <3>2 DEF UsedUp
  <2>15. reader' = rd \/ (rd = "waiting" /\ reader' = "refused" /\ UsedUp')
    BY <2>1, <2>14
  <2>16. ended' => ended \/ finish = N \/ UsedUp'
    BY <2>1, <2>14
  <2> QED  BY <2>12, <2>13, <2>15, <2>16
<1> QED  BY <1>1, <1>2

\* startDownload begins to count, with the mirror if the peers are few.
LEMMA StartCounts ==
    ASSUME IInv, CountInv, ~started, StartDownload
    PROVE  GiveUpInv'
<1> DEFINE list == WithMirror(Sites, 0)
           none == [p \in Pieces |-> "free"]
<1>1. /\ started' /\ nextFinish' = 0 /\ addedMirror' = FewPeers(Sites, 0)
      /\ GetPieces(list, 0, none, asked, 0, reader)
      /\ UNCHANGED <<streaming, fileClosed>>
  BY DEF StartDownload
<1>2. asked = {} /\ streaming = {} /\ reader = "waiting" /\ ~ended /\ ~addedMirror
  BY DEF IInv, LookupEndsOnce, CountInv
<1>3. list \subseteq AllSites /\ asked \subseteq Pieces \X AllSites
  BY <1>2 DEF WithMirror, AllSites
<1>4. Counted(list, 0, asked, addedMirror')
  <2>1. Cardinality(asked) = 0 /\ Mirror \notin Sites /\ Cardinality(Sites) \in Nat
        /\ MIN_DOWNLOAD_PEERS \in Nat
    BY <1>2, FileDownloadAssumption, FS_EmptySet, FS_CardinalityType
  <2>2. ~addedMirror' => list = Sites /\ Cardinality(Sites) + 0 >= MIN_DOWNLOAD_PEERS
    <3>1. ~addedMirror' => ~FewPeers(Sites, 0)
      BY <1>1
    <3>2. ~FewPeers(Sites, 0) => list = Sites
      BY DEF WithMirror
    <3>3. ~FewPeers(Sites, 0) => Cardinality(Sites) + 0 >= MIN_DOWNLOAD_PEERS
      BY <2>1 DEF FewPeers
    <3> QED  BY <3>1, <3>2, <3>3
  <2> QED  BY <1>2, <2>1, <2>2 DEF Counted
<1> HIDE DEF list, none
<1>5. /\ Counted(sitelist', outstanding', asked', addedMirror')
      /\ reader' = reader \/ (reader = "waiting" /\ reader' = "refused" /\ UsedUp')
      /\ ended' => fileClosed \/ ended \/ 0 = N \/ UsedUp'
  BY <1>1, <1>3, <1>4, GetPiecesCounts
<1>6. CountInv'
  BY <1>1, <1>5 DEF CountInv
<1>7. GaveUpInv'
  BY <1>1, <1>2, <1>5, FileDownloadAssumption DEF GaveUpInv, Aborted
<1> QED  BY <1>6, <1>7 DEF GiveUpInv

\* The handlers that end with getPieces keep the invariant if what they have made of
\* their variables agrees with it.
LEMMA HandlerCounts ==
    ASSUME IInv, GiveUpInv, started, ~late, UNCHANGED <<lookupVars, fileClosed>>,
           NEW list, list \subseteq AllSites,
           NEW out, NEW comp,
           NEW reqs, reqs \subseteq Pieces \X AllSites,
           NEW rd,
           Counted(list, out, reqs, addedMirror'),
           GetPieces(list, out, comp, reqs, nextFinish', rd),
           streaming' # {} => rd = "streaming",
           rd = "refused" \/ Aborted => list = {} /\ reqs = {},
           nextFinish' \in 0 .. N, nextFinish <= nextFinish'
    PROVE  GiveUpInv'
<1>1. /\ Counted(sitelist', outstanding', asked', addedMirror')
      /\ list = {} /\ reqs = {} => UsedUp'
      /\ reader' = rd \/ (rd = "waiting" /\ reader' = "refused" /\ UsedUp')
      /\ ended' => fileClosed \/ ended \/ nextFinish' = N \/ UsedUp'
  BY GetPiecesCounts
<1>2. CountInv'
  BY <1>1 DEF GiveUpInv, CountInv, lookupVars
<1>3. ended /\ ~fileClosed /\ nextFinish' < N => Aborted
  BY Constants DEF Aborted, IInv, TypeOK
<1>4. Aborted' => UsedUp'
  BY <1>1, <1>3, Constants DEF Aborted
<1>5. GaveUpInv'
  BY <1>1, <1>4 DEF GaveUpInv
<1> QED  BY <1>2, <1>5 DEF GiveUpInv

\* A response, or an error in its place, counts its request out, and brings in the mirror
\* if its peer is dropped and few are left.
LEMMA ResponseCounts ==
    ASSUME IInv, GiveUpInv, ~late, NEW p, NEW s, <<p, s>> \in asked,
           NEW keep \in BOOLEAN, addedMirror' = AddsMirror(keep, outstanding - 1)
    PROVE  /\ Counted(Requeue(s, keep, outstanding - 1), outstanding - 1, asked \ {<<p, s>>},
                      addedMirror')
           /\ reader # "refused" /\ ~Aborted
<1> DEFINE out == outstanding - 1
           reqs == asked \ {<<p, s>>}
           list == Requeue(s, keep, out)
<1>1. /\ started /\ TypeOK /\ s \in AllSites
  BY TransferStarted
<1>2. Counted(sitelist, outstanding, asked, addedMirror) /\ GaveUpInv
  BY <1>1 DEF GiveUpInv, CountInv
<1>3. reader # "refused" /\ ~Aborted
  BY <1>2 DEF GaveUpInv, UsedUp
<1>4. IsFiniteSet(asked) /\ IsFiniteSet(sitelist) /\ sitelist \subseteq AllSites
  BY <1>1, Constants, FS_Product, FS_Subset DEF TypeOK
<1>5. Cardinality(sitelist) \in Nat /\ Cardinality(asked) \in Nat /\ MIN_DOWNLOAD_PEERS \in Nat
  BY <1>4, FS_CardinalityType, FileDownloadAssumption
<1>6. out = Cardinality(reqs) /\ out \in Int
  <2>1. outstanding = Cardinality(asked)
    BY <1>2 DEF Counted
  <2>2. Cardinality(reqs) = Cardinality(asked) - 1
    BY <1>4, FS_RemoveElement
  <2> HIDE DEF reqs
  <2> QED  BY <1>5, <2>1, <2>2
<1>7. \A t, u \in reqs : t[2] = u[2] => t = u
  BY <1>2 DEF Counted
<1>8. s \notin sitelist /\ \A t \in reqs : t[2] # s /\ t[2] \notin sitelist
  <2>1. <<p, s>>[2] = s
    OBVIOUS
  <2> QED  BY <1>2, <2>1 DEF Counted
<1>9. CASE keep
  <2>1. list = sitelist \cup {s} /\ (~addedMirror' => ~addedMirror)
    BY <1>9 DEF Requeue, AddsMirror
  <2>2. Cardinality(list) + out = Cardinality(sitelist) + outstanding
    <3>1. Cardinality(sitelist \cup {s}) = Cardinality(sitelist) + 1
      BY <1>4, <1>8, FS_AddElement
    <3>2. out = outstanding - 1 /\ outstanding = Cardinality(asked)
      BY <1>2 DEF Counted
    <3> HIDE DEF list, out
    <3> QED  BY <1>5, <2>1, <3>1, <3>2
  <2>3. ~addedMirror => s # Mirror
    <3>1. <<p, s>>[2] = s
      OBVIOUS
    <3> QED  BY <1>2, <3>1 DEF Counted
  <2> HIDE DEF list, out
  <2> QED  BY <1>2, <1>3, <1>6, <1>7, <1>8, <2>1, <2>2, <2>3 DEF Counted, list, out
<1>10. CASE ~keep
  <2>1. list = WithMirror(sitelist, out) /\ addedMirror' = (addedMirror \/ FewPeers(sitelist, out))
    BY <1>10 DEF Requeue, AddsMirror
  <2>2. list = sitelist \/ (list = sitelist \cup {Mirror} /\ ~addedMirror)
    BY <2>1 DEF WithMirror
  <2>3. \A t \in reqs : t[2] \notin list
    BY <1>2, <1>8, <2>2 DEF Counted
  <2>4. ~addedMirror' => ~addedMirror /\ list = sitelist /\ Cardinality(list) + out >= MIN_DOWNLOAD_PEERS
    <3>1. ~addedMirror' => ~addedMirror /\ ~FewPeers(sitelist, out)
      BY <2>1
    <3>2. ~FewPeers(sitelist, out) => list = sitelist
      BY <2>1 DEF WithMirror
    <3> HIDE DEF list, out
    <3>3. ~FewPeers(sitelist, out) => Cardinality(sitelist) + out >= MIN_DOWNLOAD_PEERS
      BY <1>5, <1>6 DEF FewPeers
    <3> QED  BY <3>1, <3>2, <3>3
  <2> HIDE DEF list
  <2> QED  BY <1>2, <1>3, <1>6, <1>7, <2>3, <2>4 DEF Counted, list
<1> QED  BY <1>9, <1>10

\* While a response is being written it is nobody's turn to give up, unless for good.
LEMMA StreamCounts ==
    ASSUME IInv, GiveUpInv, ~late, NEW p, NEW s, <<p, s>> \in streaming
    PROVE  /\ started /\ TypeOK /\ reader = "streaming"
           /\ Counted(sitelist, outstanding, asked, addedMirror)
           /\ Aborted => sitelist = {} /\ asked = {}
<1>1. started /\ TypeOK
  BY TransferStarted
<1> QED  BY <1>1 DEF GiveUpInv, CountInv, GaveUpInv, UsedUp

LEMMA GetErrorCounts ==
    ASSUME IInv, GiveUpInv, ~late, NEW p, NEW s, GetError(p, s)
    PROVE  GiveUpInv'
<1> DEFINE keep == OneMoreError(s)[s] < MAX_ERRORS
           out == outstanding - 1
           reqs == asked \ {<<p, s>>}
<1>1. /\ <<p, s>> \in asked /\ addedMirror' = AddsMirror(keep, out)
      /\ GetPieces(Requeue(s, keep, out), out, Freed(p), reqs, nextFinish, reader)
      /\ UNCHANGED <<lookupVars, nextFinish, streaming, fileClosed>>
  BY DEF GetError
<1>2. /\ started /\ TypeOK /\ s \in AllSites
  BY <1>1, TransferStarted
<1>3. keep \in BOOLEAN
  OBVIOUS
<1> HIDE DEF keep
<1>4. Counted(Requeue(s, keep, out), out, reqs, addedMirror') /\ reader # "refused" /\ ~Aborted
  BY <1>1, <1>3, ResponseCounts
<1>5. Requeue(s, keep, out) \subseteq AllSites /\ reqs \subseteq Pieces \X AllSites
  BY <1>2, Requeued DEF TypeOK
<1>6. /\ streaming' # {} => reader = "streaming"
      /\ nextFinish' \in 0 .. N /\ nextFinish <= nextFinish' /\ nextFinish' = nextFinish
  BY <1>1, <1>2, Constants DEF GiveUpInv, GaveUpInv, TypeOK
<1> DEFINE list == Requeue(s, keep, out)
           comp == Freed(p)
<1>7. UNCHANGED <<lookupVars, fileClosed>>
  BY <1>1
<1> HIDE DEF out, reqs, list, comp
<1>8. GetPieces(list, out, comp, reqs, nextFinish', reader)
  BY <1>1, <1>6 DEF list, comp
<1> QED  BY <1>2, <1>4, <1>5, <1>6, <1>7, <1>8, HandlerCounts DEF list

LEMMA GetPieceCounts ==
    ASSUME IInv, GiveUpInv, ~late, NEW p, NEW s, NEW code \in {"ok", "wrong", "gone"},
           GetPiece(p, s, code)
    PROVE  GiveUpInv'
<1> DEFINE errs == IF code = "wrong" THEN OneMoreError(s) ELSE errors
           keep == code = "ok" \/ (code = "wrong" /\ errs[s] < MAX_ERRORS)
           out == outstanding - 1
           rd == IF code = "ok" /\ reader = "waiting" THEN "streaming" ELSE reader
           comp == IF code = "ok" THEN complete ELSE Freed(p)
           list == Requeue(s, keep, out)
           reqs == asked \ {<<p, s>>}
<1>1. /\ <<p, s>> \in asked /\ addedMirror' = AddsMirror(keep, out)
      /\ streaming' = IF code = "ok" THEN streaming \cup {<<p, s>>} ELSE streaming
      /\ GetPieces(list, out, comp, reqs, nextFinish, rd)
      /\ UNCHANGED <<lookupVars, nextFinish, fileClosed>>
  BY DEF GetPiece
<1>2. /\ started /\ TypeOK /\ s \in AllSites
  BY <1>1, TransferStarted
<1>3. keep \in BOOLEAN
  OBVIOUS
<1> HIDE DEF keep
<1>4. Counted(list, out, reqs, addedMirror') /\ reader # "refused" /\ ~Aborted
  BY <1>1, <1>3, ResponseCounts
<1>5. list \subseteq AllSites /\ reqs \subseteq Pieces \X AllSites
  BY <1>2, Requeued DEF TypeOK
<1>6. /\ nextFinish' \in 0 .. N /\ nextFinish <= nextFinish' /\ nextFinish' = nextFinish
  BY <1>1, <1>2, Constants DEF TypeOK
<1>7. rd # "refused" /\ (streaming' # {} => rd = "streaming")
  <2>1. reader \in {"waiting", "streaming"} /\ (streaming # {} => reader = "streaming")
    BY <1>2, <1>4 DEF TypeOK, GiveUpInv, GaveUpInv
  <2> QED  BY <1>1, <2>1
<1>8. UNCHANGED <<lookupVars, fileClosed>>
  BY <1>1
<1> HIDE DEF out, reqs, list, comp, rd, errs
<1>9. GetPieces(list, out, comp, reqs, nextFinish', rd)
  BY <1>1, <1>6
<1> QED  BY <1>2, <1>4, <1>5, <1>6, <1>7, <1>8, <1>9, HandlerCounts

LEMMA GotErrorCounts ==
    ASSUME IInv, GiveUpInv, ~late, NEW p, NEW s, GotError(p, s)
    PROVE  GiveUpInv'
<1>1. /\ <<p, s>> \in streaming /\ streaming' = streaming \ {<<p, s>>}
      /\ GetPieces(sitelist, outstanding, Freed(p), asked, nextFinish, reader)
      /\ UNCHANGED <<lookupVars, addedMirror, nextFinish, fileClosed>>
  BY DEF GotError
<1>2. /\ started /\ TypeOK /\ reader = "streaming"
      /\ Counted(sitelist, outstanding, asked, addedMirror)
      /\ Aborted => sitelist = {} /\ asked = {}
  BY <1>1, StreamCounts
<1>3. /\ sitelist \subseteq AllSites /\ asked \subseteq Pieces \X AllSites
      /\ nextFinish' \in 0 .. N /\ nextFinish <= nextFinish' /\ nextFinish' = nextFinish
  BY <1>1, <1>2, Constants DEF TypeOK
<1>4. /\ UNCHANGED <<lookupVars, fileClosed>> /\ addedMirror' = addedMirror
      /\ GetPieces(sitelist, outstanding, Freed(p), asked, nextFinish', reader)
  BY <1>1, <1>3
<1>5. Counted(sitelist, outstanding, asked, addedMirror')
  BY <1>2, <1>4
<1> QED  BY <1>2, <1>3, <1>4, <1>5, HandlerCounts

LEMMA GotPieceCounts ==
    ASSUME IInv, GiveUpInv, ~late, NEW p, NEW s, NEW content \in {"good", "bad"},
           GotPiece(p, s, content)
    PROVE  GiveUpInv'
<1> DEFINE done == [complete EXCEPT ![p] = "done"]
<1>1. /\ <<p, s>> \in streaming
      /\ UNCHANGED <<lookupVars, addedMirror, fileClosed>>
  BY DEF GotPiece
<1>2. /\ started /\ TypeOK /\ reader = "streaming"
      /\ Counted(sitelist, outstanding, asked, addedMirror)
      /\ Aborted => sitelist = {} /\ asked = {}
  BY <1>1, StreamCounts
<1>3. \E comp : GetPieces(sitelist, outstanding, comp, asked, nextFinish', reader)
  BY <1>2 DEF GotPiece
<1>4. /\ sitelist \subseteq AllSites /\ asked \subseteq Pieces \X AllSites
      /\ nextFinish \in 0 .. N /\ nextFinish \in Int
  BY <1>2, Constants DEF TypeOK
<1>5. nextFinish' = nextFinish \/ nextFinish' = Finished(done)
  BY <1>2 DEF GotPiece
<1>6. Finished(done) \in 0 .. N /\ nextFinish <= Finished(done)
  <2>1. \A q \in 1 .. nextFinish : done[q] = "done"
    <3>1. \A q \in 1 .. nextFinish : q \in Pieces /\ q <= nextFinish
      BY <1>4, Constants
    <3> QED  BY <1>2, <3>1 DEF IInv, DoneIsVerified, TypeOK
  <2> HIDE DEF done
  <2> QED  BY <1>4, <2>1, FinishedIsDone
<1> HIDE DEF done
<1>7. nextFinish' \in 0 .. N /\ nextFinish <= nextFinish'
  BY <1>4, <1>5, <1>6, Constants
<1>8. /\ UNCHANGED <<lookupVars, fileClosed>>
      /\ Counted(sitelist, outstanding, asked, addedMirror')
  BY <1>1, <1>2
<1> QED  BY <1>2, <1>3, <1>4, <1>7, <1>8, HandlerCounts

\* A lookup starts the download or leaves its requests alone, unless it fails late.
LEMMA LookupCounts ==
    ASSUME IInv, GiveUpInv, ~late', Run \/ \E s \in Sources : LookupEnds(s)
    PROVE  GiveUpInv'
<1>1. CountInv /\ GaveUpInv
  <2>1. ~late
    BY DEF Run, LookupEnds, GotHashes, LookupRaises, NoHashesInDHT, GetPeerPieces
  <2> QED  BY <2>1 DEF GiveUpInv
<1>2. CASE StartDownload /\ ~started
  BY <1>1, <1>2, StartCounts
<1>3. CASE UNCHANGED <<started, pieceVars, fileVars>>
  BY <1>1, <1>3 DEF GiveUpInv, CountInv, GaveUpInv, UsedUp, Aborted, pieceVars, fileVars
<1>4. CASE ~started /\ UNCHANGED <<started, sitelist, addedMirror, errors, complete, nextFinish, asked, fileVars>>
  BY <1>1, <1>4 DEF GiveUpInv, CountInv, GaveUpInv, UsedUp, Aborted, fileVars
<1>5. pieces = "unknown" <=> ~started
  BY DEF IInv, LookupEndsOnce, TypeOK
<1>6. CASE Run
  <2>1. ~started
    BY <1>6 DEF Run, IInv, LookupEndsOnce
  <2> QED  BY <1>2, <1>3, <1>4, <1>6, <2>1 DEF Run
<1>7. ASSUME NEW s \in Sources, GotHashes(s) PROVE GiveUpInv'
  BY <1>2, <1>3, <1>5, <1>7 DEF GotHashes
<1>8. ASSUME NEW s \in Sources, LookupRaises(s) PROVE GiveUpInv'
  BY <1>3, <1>8 DEF LookupRaises
<1>9. CASE NoHashesInDHT
  <2>1. lookups[DHT] > 0 /\ StartDownload
    BY <1>9 DEF NoHashesInDHT
  <2> QED  BY <1>2, <2>1 DEF IInv, LookupEndsOnce
<1>10. ASSUME NEW s \in Sites, GetPeerPieces(s) PROVE GiveUpInv'
  <2>1. late' = (late \/ pieces # "unknown")
    BY <1>10 DEF GetPeerPieces
  <2>2. pieces = "unknown"
    BY <2>1
  <2> QED  BY <1>2, <1>4, <1>5, <1>10, <2>2 DEF GetPeerPieces
<1> QED  BY <1>6, <1>7, <1>8, <1>9, <1>10 DEF LookupEnds

LEMMA NextCounts == IInv /\ GiveUpInv /\ [Next]_vars => GiveUpInv'
<1> SUFFICES ASSUME IInv, GiveUpInv, [Next]_vars, ~late' PROVE GiveUpInv'
  BY DEF GiveUpInv
<1>1. CASE Run \/ \E s \in Sources : LookupEnds(s)
  BY <1>1, LookupCounts
<1>2. ASSUME NEW p \in Pieces, NEW s \in AllSites, Response(p, s) PROVE GiveUpInv'
  <2>1. late' = late
    BY <1>2 DEF Response, GetError, GetPiece, lookupVars
  <2> QED  BY <1>2, <2>1, GetErrorCounts, GetPieceCounts DEF Response
<1>3. ASSUME NEW p \in Pieces, NEW s \in AllSites, StreamEnds(p, s) PROVE GiveUpInv'
  <2>1. late' = late
    BY <1>3 DEF StreamEnds, GotError, GotPiece, lookupVars
  <2> QED  BY <1>3, <2>1, GotErrorCounts, GotPieceCounts DEF StreamEnds
<1>4. CASE CloseFile
  BY <1>4 DEF CloseFile, GiveUpInv, CountInv, GaveUpInv, UsedUp, Aborted, lookupVars, pieceVars
<1>5. CASE UNCHANGED vars
  BY <1>5 DEF GiveUpInv, CountInv, GaveUpInv, UsedUp, Aborted, vars, lookupVars, pieceVars, fileVars
<1> QED  BY <1>1, <1>2, <1>3, <1>4, <1>5 DEF Next, Progress

\* The count is kept throughout.
THEOREM Counting == Spec => []GiveUpInv
<1>1. Init => GiveUpInv
  <2> SUFFICES ASSUME Init PROVE GiveUpInv
    OBVIOUS
  <2> QED  BY FileDownloadAssumption
              DEF Init, GiveUpInv, CountInv, GaveUpInv, Aborted
<1> QED  BY <1>1, Inductive, NextCounts, PTL DEF Spec, Safety

\* The download gives up only when no peer is left, no request is on its way, and the
\* mirror has been tried, whatever the handlers have counted before and wherever the
\* piece hashes came from, unless a request for them failed late (getPieces, addMirror).
THEOREM GivesUpWhenUsedUp == Spec => []GivesUpLast
<1>1. IInv /\ GiveUpInv => GivesUpLast
  <2> SUFFICES ASSUME IInv, GiveUpInv, reader = "refused" \/ Aborted, ~late
               PROVE  sitelist = {} /\ asked = {} /\ (addedMirror \/ MIN_DOWNLOAD_PEERS = 0)
    BY DEF GivesUpLast
  <2>1. sitelist = {} /\ asked = {}
    BY DEF GiveUpInv, GaveUpInv, UsedUp
  <2>2. started
    BY DEF GiveUpInv, CountInv, Aborted
  <2>3. outstanding = Cardinality(asked)
        /\ (~addedMirror => Cardinality(sitelist) + outstanding >= MIN_DOWNLOAD_PEERS)
    BY <2>2 DEF GiveUpInv, CountInv, Counted
  <2>4. ~addedMirror => MIN_DOWNLOAD_PEERS = 0
    BY <2>1, <2>3, FS_EmptySet, FileDownloadAssumption
  <2> QED  BY <2>1, <2>4
<1> QED  BY <1>1, Inductive, Counting, PTL

-----------------------------------------------------------------------------
(***************************************************************************)
(* The connection to one of the peers that the pieces are asked from       *)
(* (Peer): theorems for every set of requests and every bound on the calls *)
(* of processQueue.  The inductive invariant, PeerInv, says where each     *)
(* pending request is.                                                     *)
(***************************************************************************)

\* A sequence that holds nothing twice.
Distinct(s) == \A i, j \in 1..Len(s) : s[i] = s[j] => i = j

\* The queue and the protocol hold the pending requests between them, none twice.
Books(queue, unanswered, st) ==
    /\ Members(queue) \cup Members(unanswered) = {r \in Reqs : st[r] = "pending"}
    /\ Members(queue) \cap Members(unanswered) = {}
    /\ Distinct(queue) /\ Distinct(unanswered)

\* The protocol has nothing to answer on a closed connection, and always something to
\* read on one that will not be kept; an idle connection is not busy.
Connection ==
    /\ connecting => closed
    /\ closed => inRequests = <<>> /\ ~reading /\ ~busy
    /\ reading => inRequests # <<>>
    /\ ~closed /\ ~disconnecting /\ inRequests = <<>> => ~busy /\ readPersistent # "no"
    /\ ~closed /\ ~disconnecting /\ readPersistent = "no" => reading /\ Len(inRequests) = 1

PeerInv ==
    /\ PeerTypeOK
    /\ Books(request_queue, Unanswered, status)
    /\ Connection
    /\ peer_outstanding = Len(Unanswered)
    /\ NeverForgotten

-----------------------------------------------------------------------------
(* Sequences of requests that hold none twice. *)

\* Taking the first element off a sequence that holds nothing twice.
LEMMA MembersTail ==
    ASSUME NEW s \in Seq(Reqs), s # <<>>, Distinct(s)
    PROVE  /\ Head(s) \in Reqs
           /\ Tail(s) \in Seq(Reqs)
           /\ Len(Tail(s)) = Len(s) - 1
           /\ Distinct(Tail(s))
           /\ Members(s) = {Head(s)} \cup Members(Tail(s))
           /\ Head(s) \notin Members(Tail(s))
<1>1. /\ Len(s) \in Nat /\ Len(s) > 0
      /\ Head(s) = s[1] /\ Head(s) \in Reqs
      /\ Tail(s) \in Seq(Reqs) /\ Len(Tail(s)) = Len(s) - 1
      /\ \A i \in 1..Len(Tail(s)) : Tail(s)[i] = s[i + 1]
  BY HeadTailProperties, EmptySeq, LenProperties
<1>2. Distinct(Tail(s))
  BY <1>1 DEF Distinct
<1>3. Members(s) = {Head(s)} \cup Members(Tail(s))
  <2>1. ASSUME NEW i \in 1..Len(s) PROVE s[i] \in {Head(s)} \cup Members(Tail(s))
    <3>1. CASE i = 1
      BY <1>1, <3>1
    <3>2. CASE i # 1
      <4>1. i - 1 \in 1..Len(Tail(s)) /\ s[i] = Tail(s)[i - 1]
        BY <1>1, <3>2
      <4> QED  BY <4>1 DEF Members
    <3> QED  BY <3>1, <3>2
  <2>2. ASSUME NEW i \in 1..Len(Tail(s)) PROVE Tail(s)[i] \in Members(s)
    BY <1>1 DEF Members
  <2>3. Head(s) \in Members(s)
    BY <1>1 DEF Members
  <2>4. Members(s) \subseteq {Head(s)} \cup Members(Tail(s))
    BY <2>1 DEF Members
  <2>5. Members(Tail(s)) \subseteq Members(s)
    BY <2>2 DEF Members
  <2> QED  BY <2>3, <2>4, <2>5
<1>4. Head(s) \notin Members(Tail(s))
  <2>1. ASSUME NEW i \in 1..Len(Tail(s)), Tail(s)[i] = Head(s) PROVE FALSE
    BY <1>1, <2>1 DEF Distinct
  <2> QED  BY <2>1 DEF Members
<1> QED  BY <1>1, <1>2, <1>3, <1>4

\* Adding an element that the sequence does not hold.
LEMMA MembersAppend ==
    ASSUME NEW s \in Seq(Reqs), NEW r \in Reqs, r \notin Members(s), Distinct(s)
    PROVE  /\ Append(s, r) \in Seq(Reqs)
           /\ Append(s, r) # <<>>
           /\ Len(Append(s, r)) = Len(s) + 1
           /\ Distinct(Append(s, r))
           /\ Members(Append(s, r)) = Members(s) \cup {r}
<1> DEFINE t == Append(s, r)
<1>1. /\ t \in Seq(Reqs) /\ t # <<>> /\ Len(t) = Len(s) + 1 /\ Len(s) \in Nat
      /\ \A i \in 1..Len(s) : t[i] = s[i]
      /\ t[Len(s) + 1] = r
  BY AppendProperties, LenProperties
<1>2. \A i \in 1..Len(t) : i \in 1..Len(s) \/ i = Len(s) + 1
  BY <1>1
<1>3. \A i \in 1..Len(s) : s[i] # r
  BY DEF Members
<1> HIDE DEF t
<1>4. Distinct(t)
  BY <1>1, <1>2, <1>3 DEF Distinct
<1>5. Members(t) = Members(s) \cup {r}
  <2>1. Members(t) \subseteq Members(s) \cup {r}
    BY <1>1, <1>2 DEF Members
  <2>2. Members(s) \subseteq Members(t) /\ r \in Members(t)
    BY <1>1 DEF Members
  <2> QED  BY <2>1, <2>2
<1> QED  BY <1>1, <1>4, <1>5 DEF t

\* The empty sequence, and the sequence of one request.
LEMMA MembersEmpty == Members(<<>>) = {} /\ Distinct(<<>>) /\ Len(<<>>) = 0 /\ <<>> \in Seq(Reqs)
  BY EmptySeq DEF Members, Distinct

LEMMA MembersOne ==
    ASSUME NEW r \in Reqs
    PROVE Members(<<r>>) = {r} /\ Distinct(<<r>>) /\ Len(<<r>>) = 1 /\ <<r>> \in Seq(Reqs) /\ Tail(<<r>>) = <<>>
  BY DEF Members, Distinct

\* The property follows from the books.
LEMMA BooksHold ==
    ASSUME NEW q \in Seq(Reqs), NEW u \in Seq(Reqs), Distinct(q), Distinct(u),
           Members(q) \cap Members(u) = {}
    PROVE  Members(q \o u) = Members(q) \cup Members(u) /\ Distinct(q \o u)
<1> DEFINE t == q \o u
<1>1. /\ Len(t) = Len(q) + Len(u) /\ Len(q) \in Nat /\ Len(u) \in Nat
      /\ \A i \in 1..Len(t) : t[i] = IF i <= Len(q) THEN q[i] ELSE u[i - Len(q)]
  BY ConcatProperties, LenProperties
<1> HIDE DEF t
<1>2. \A i \in 1..Len(t) : \/ i \in 1..Len(q) /\ t[i] = q[i]
                           \/ i - Len(q) \in 1..Len(u) /\ t[i] = u[i - Len(q)]
  BY <1>1
<1>3. \A i \in 1..Len(q) : i \in 1..Len(t) /\ t[i] = q[i]
  BY <1>1
<1>4. \A i \in 1..Len(u) : i + Len(q) \in 1..Len(t) /\ t[i + Len(q)] = u[i]
  BY <1>1
<1>5. Members(t) = Members(q) \cup Members(u)
  <2>1. Members(t) \subseteq Members(q) \cup Members(u)
    BY <1>2 DEF Members
  <2>2. Members(q) \subseteq Members(t)
    BY <1>3 DEF Members
  <2>3. Members(u) \subseteq Members(t)
    BY <1>4 DEF Members
  <2> QED  BY <2>1, <2>2, <2>3
<1>6. \A i \in 1..Len(q), j \in 1..Len(u) : q[i] # u[j]
  BY DEF Members
<1>7. Distinct(t)
  <2> SUFFICES ASSUME NEW i \in 1..Len(t), NEW j \in 1..Len(t), t[i] = t[j] PROVE i = j
    BY DEF Distinct
  <2>1. CASE i \in 1..Len(q) /\ j \in 1..Len(q)
    BY <1>1, <2>1 DEF Distinct
  <2>2. CASE i - Len(q) \in 1..Len(u) /\ j - Len(q) \in 1..Len(u)
    <3>1. t[i] = u[i - Len(q)] /\ t[j] = u[j - Len(q)]
      BY <1>1, <2>2
    <3>2. i - Len(q) = j - Len(q)
      BY <2>2, <3>1 DEF Distinct
    <3> QED  BY <1>1, <3>2
  <2>3. ~(i \in 1..Len(q) /\ j - Len(q) \in 1..Len(u))
    BY <1>1, <1>6
  <2>4. ~(j \in 1..Len(q) /\ i - Len(q) \in 1..Len(u))
    BY <1>1, <1>6
  <2> QED  BY <1>2, <2>1, <2>2, <2>3, <2>4
<1> QED  BY <1>5, <1>7 DEF t
-----------------------------------------------------------------------------
(* The steps. *)

\* The requests in the protocol that are unanswered are a sequence of requests.
LEMMA UnansweredType == PeerInv => Unanswered \in Seq(Reqs) /\ Len(Unanswered) \in Nat
<1> SUFFICES ASSUME PeerInv PROVE Unanswered \in Seq(Reqs)
  BY LenProperties
<1>1. inRequests \in Seq(Reqs) /\ (reading => inRequests # <<>>)
  BY DEF PeerInv, PeerTypeOK, Connection
<1> QED  BY <1>1, HeadTailProperties DEF Unanswered

\* What a step does to the Deferreds of requests that are pending.
LEMMA FiredPending ==
    ASSUME NEW R, \A r \in R : r \in Reqs /\ status[r] = "pending", NEW o,
           status \in [Reqs -> {"none", "pending", "answered", "error"}]
    PROVE  Fired(R, o) = [r \in Reqs |-> IF r \in R THEN o ELSE status[r]]
  BY DEF Fired

\* Pending requests fire.
LEMMA PendingFire ==
    ASSUME PeerInv, NEW R, R \subseteq Members(request_queue) \cup Members(Unanswered),
           NEW o \in {"answered", "error"}
    PROVE  /\ Fired(R, o) = [x \in Reqs |-> IF x \in R THEN o ELSE status[x]]
           /\ Fired(R, o) \in [Reqs -> {"none", "pending", "answered", "error"}]
           /\ {x \in Reqs : Fired(R, o)[x] = "pending"}
                = {x \in Reqs : status[x] = "pending"} \ R
<1>1. \A x \in R : x \in Reqs /\ status[x] = "pending"
  BY DEF PeerInv, Books
<1>2. status \in [Reqs -> {"none", "pending", "answered", "error"}]
  BY DEF PeerInv, PeerTypeOK
<1>3. Fired(R, o) = [x \in Reqs |-> IF x \in R THEN o ELSE status[x]]
  BY <1>1, <1>2, FiredPending
<1> QED  BY <1>2, <1>3

\* submitRequest() queues a request that is made.
LEMMA SubmitRequestStep ==
    ASSUME PeerInv, NEW r \in Reqs, SubmitRequest(r)
    PROVE  PeerInv'
<1> USE DEF PeerInv
<1>1. /\ request_queue' = Append(request_queue, r) /\ status[r] = "none"
      /\ status' = [status EXCEPT ![r] = "pending"]
      /\ scheduled' = scheduled + 1 /\ scheduled < MaxScheduled
      /\ UNCHANGED <<connecting, closed, busy, pipeline, peer_outstanding, inRequests, reading,
                     readPersistent, disconnecting>>
  BY DEF SubmitRequest, CallProcessQueue, proto
<1>2. r \notin Members(request_queue) /\ r \notin Members(Unanswered)
  BY <1>1 DEF Books
<1>3. Unanswered' = Unanswered
  BY <1>1 DEF Unanswered
<1>4. /\ request_queue' \in Seq(Reqs) /\ Distinct(request_queue')
      /\ Members(request_queue') = Members(request_queue) \cup {r}
  BY <1>1, <1>2, MembersAppend DEF PeerTypeOK, Books
<1>5. PeerTypeOK'
  BY <1>1, <1>4, MaxScheduledAssumption DEF PeerTypeOK
<1>6. {x \in Reqs : status'[x] = "pending"} = {x \in Reqs : status[x] = "pending"} \cup {r}
  BY <1>1 DEF PeerTypeOK
<1>7. Books(request_queue', Unanswered', status')
  BY <1>2, <1>3, <1>4, <1>6 DEF Books
<1> QED  BY <1>1, <1>3, <1>5, <1>7 DEF Connection, NeverForgotten, PeerTypeOK

\* processQueue() opens a connection.
LEMMA ConnectStep ==
    ASSUME PeerInv, ProcessQueue, request_queue' = request_queue
    PROVE  PeerInv'
<1> USE DEF PeerInv
<1>1. /\ scheduled > 0 /\ scheduled' = scheduled - 1
      /\ UNCHANGED <<request_queue, closed, busy, pipeline, peer_outstanding, inRequests, reading,
                     readPersistent, disconnecting, status>>
      /\ \/ ~connecting /\ closed /\ connecting' = TRUE
         \/ /\ connecting' = connecting
            /\ request_queue = <<>> \/ connecting \/ (~closed /\ ~CanSend)
  <2>1. request_queue # <<>> => ~Send
    <3>1. ASSUME request_queue # <<>> PROVE Tail(request_queue) # request_queue
      <4>1. Len(Tail(request_queue)) = Len(request_queue) - 1 /\ Len(request_queue) \in Nat
        BY <3>1, HeadTailProperties, LenProperties DEF PeerTypeOK
      <4> QED  BY <4>1
    <3> QED  BY <3>1 DEF Send
  <2> QED  BY <2>1 DEF ProcessQueue, Connect, proto
<1>2. Unanswered' = Unanswered
  BY <1>1 DEF Unanswered
<1>3. PeerTypeOK'
  <2>1. scheduled' \in 0..MaxScheduled
    BY <1>1, MaxScheduledAssumption DEF PeerTypeOK
  <2>2. connecting' \in BOOLEAN
    BY <1>1 DEF PeerTypeOK
  <2> QED  BY <1>1, <2>1, <2>2 DEF PeerTypeOK
<1>4. Connection'
  BY <1>1 DEF Connection
<1>5. NeverForgotten'
  <2>1. CASE ~closed /\ ~connecting /\ ~CanSend /\ inRequests = <<>> /\ ~disconnecting
    <3>1. peer_outstanding = 0 /\ ~busy /\ readPersistent # "no"
      BY <2>1, LenProperties, EmptySeq DEF Connection, Unanswered
    <3> QED  BY <2>1, <3>1 DEF CanSend, PeerTypeOK, Persistence
  <2> QED  BY <1>1, <2>1 DEF NeverForgotten
<1> QED  BY <1>1, <1>2, <1>3, <1>4, <1>5

\* processQueue() sends the first request of the queue.
LEMMA SendStep ==
    ASSUME PeerInv, ProcessQueue, request_queue' # request_queue
    PROVE  PeerInv'
<1> USE DEF PeerInv
<1> DEFINE r == Head(request_queue)
<1>1. /\ request_queue # <<>> /\ ~connecting /\ ~closed /\ CanSend
      /\ request_queue' = Tail(request_queue) /\ inRequests' = Append(inRequests, r)
      /\ peer_outstanding' = peer_outstanding + 1 /\ busy' = TRUE /\ pipeline' \in BOOLEAN
      /\ scheduled > 0 /\ scheduled' \in {scheduled, scheduled - 1}
      /\ UNCHANGED <<connecting, closed, reading, readPersistent, disconnecting, status>>
  BY DEF ProcessQueue, Connect, Send, proto
<1>2. /\ r \in Reqs /\ request_queue' \in Seq(Reqs) /\ Distinct(request_queue')
      /\ Members(request_queue) = {r} \cup Members(request_queue')
      /\ r \notin Members(request_queue')
  BY <1>1, MembersTail DEF PeerTypeOK, Books
<1>3. r \notin Members(Unanswered)
  BY <1>2 DEF Books
<1>4. Unanswered \in Seq(Reqs)
  BY UnansweredType
<1>5. Unanswered' = Append(Unanswered, r) /\ inRequests' \in Seq(Reqs) /\ inRequests' # <<>>
  <2>1. inRequests \in Seq(Reqs)
    BY DEF PeerTypeOK
  <2>2. inRequests' \in Seq(Reqs) /\ inRequests' # <<>>
    BY <1>1, <1>2, <2>1, AppendProperties
  <2>3. ASSUME reading PROVE Tail(Append(inRequests, r)) = Append(Tail(inRequests), r)
    <3>1. inRequests # <<>>
      BY <2>3 DEF Connection
    <3> QED  BY <2>1, <3>1, <1>2
  <2> QED  BY <1>1, <2>2, <2>3 DEF Unanswered
<1>6. /\ Distinct(Unanswered') /\ Len(Unanswered') = Len(Unanswered) + 1
      /\ Members(Unanswered') = Members(Unanswered) \cup {r}
  BY <1>2, <1>3, <1>4, <1>5, MembersAppend DEF Books
<1>7. Books(request_queue', Unanswered', status')
  <2>1. Members(request_queue') \cap Members(Unanswered') = {}
    BY <1>2, <1>6 DEF Books
  <2>2. Members(request_queue') \cup Members(Unanswered')
          = Members(request_queue) \cup Members(Unanswered)
    BY <1>2, <1>6
  <2> QED  BY <1>1, <1>2, <1>6, <2>1, <2>2 DEF Books
<1>8. PeerTypeOK'
  BY <1>1, <1>2, <1>5, MaxScheduledAssumption DEF PeerTypeOK
<1>9. Connection'
  <2>1. CASE readPersistent = "no" /\ ~disconnecting
    BY <1>1, <2>1 DEF CanSend
  <2> QED  BY <1>1, <1>5, <2>1 DEF Connection
<1>10. NeverForgotten'
  BY <1>1, <1>5 DEF NeverForgotten
<1>11. peer_outstanding' = Len(Unanswered')
  BY <1>1, <1>6
<1> QED  BY <1>7, <1>8, <1>9, <1>10, <1>11

\* The connection is made.
LEMMA ConnectedStep ==
    ASSUME PeerInv, Connected
    PROVE  PeerInv'
<1> USE DEF PeerInv
<1>1. /\ connecting /\ connecting' = FALSE /\ closed' = FALSE
      /\ scheduled' = scheduled + 1 /\ scheduled < MaxScheduled
      /\ inRequests' = <<>> /\ reading' = FALSE /\ readPersistent' = "no_pipeline"
      /\ disconnecting' = FALSE
      /\ UNCHANGED <<request_queue, busy, pipeline, peer_outstanding, status>>
  BY DEF Connected, CallProcessQueue
<1>2. Unanswered = <<>> /\ Unanswered' = <<>> /\ ~busy
  BY <1>1 DEF Connection, Unanswered
<1>3. PeerTypeOK'
  <2>1. scheduled' \in 0..MaxScheduled /\ scheduled' > 0
    BY <1>1, MaxScheduledAssumption DEF PeerTypeOK
  <2> QED  BY <1>1, <2>1, MembersEmpty DEF PeerTypeOK, Persistence
<1>4. Connection'
  BY <1>1, <1>2 DEF Connection
<1>5. NeverForgotten'
  <2>1. scheduled' > 0
    BY <1>1, MaxScheduledAssumption DEF PeerTypeOK
  <2> QED  BY <2>1 DEF NeverForgotten
<1> QED  BY <1>1, <1>2, <1>3, <1>4, <1>5

\* clientGone leaves the queue with another look at it to come, unless it is empty.
LEMMA ClientGoneStep ==
    ASSUME scheduled \in 0..MaxScheduled, NEW queue, ClientGone(queue)
    PROVE  /\ busy' = FALSE /\ pipeline' = FALSE /\ closed' = TRUE /\ connecting' = FALSE
           /\ scheduled' \in 0..MaxScheduled
           /\ queue # <<>> => scheduled' > 0
  BY MaxScheduledAssumption DEF ClientGone, CallProcessQueue

\* It is not, and the first request of the queue fails.
LEMMA ConnectionErrorStep ==
    ASSUME PeerInv, ConnectionError
    PROVE  PeerInv'
<1> USE DEF PeerInv
<1> DEFINE r == Head(request_queue)
<1>1. /\ connecting /\ request_queue # <<>> /\ request_queue' = Tail(request_queue)
      /\ status' = Fired({r}, "error") /\ ClientGone(Tail(request_queue))
      /\ UNCHANGED <<peer_outstanding, inRequests, reading, readPersistent, disconnecting>>
  BY DEF ConnectionError, proto
<1>2. /\ r \in Reqs /\ request_queue' \in Seq(Reqs) /\ Distinct(request_queue')
      /\ Members(request_queue) = {r} \cup Members(request_queue')
      /\ r \notin Members(request_queue')
  BY <1>1, MembersTail DEF PeerTypeOK, Books
<1>3. Unanswered' = Unanswered
  BY <1>1 DEF Unanswered
<1>4. status[r] = "pending" /\ r \notin Members(Unanswered)
  BY <1>2 DEF Books
<1>5. /\ status' \in [Reqs -> {"none", "pending", "answered", "error"}]
      /\ {x \in Reqs : status'[x] = "pending"} = {x \in Reqs : status[x] = "pending"} \ {r}
  <2>1. {r} \subseteq Members(request_queue) /\ PeerInv
    BY <1>2
  <2> HIDE DEF PeerInv
  <2> QED  BY <1>1, <2>1, PendingFire
<1>7. Books(request_queue', Unanswered', status')
  BY <1>2, <1>3, <1>4, <1>5 DEF Books
<1>8. /\ busy' = FALSE /\ pipeline' = FALSE /\ closed' = TRUE /\ connecting' = FALSE
      /\ scheduled' \in 0..MaxScheduled /\ (request_queue' # <<>> => scheduled' > 0)
  BY <1>1, ClientGoneStep DEF PeerTypeOK
<1>9. PeerTypeOK'
  BY <1>1, <1>2, <1>5, <1>8 DEF PeerTypeOK
<1>10. Connection' /\ NeverForgotten'
  BY <1>1, <1>8 DEF Connection, NeverForgotten
<1> QED  BY <1>1, <1>3, <1>7, <1>9, <1>10

\* A connection that is lost takes its unanswered requests with it.
LEMMA ConnectionLostStep ==
    ASSUME PeerInv, ConnectionLost
    PROVE  PeerInv'
<1> USE DEF PeerInv
<1> DEFINE U == Members(Unanswered)
<1>1. /\ ~closed /\ ClientGone(request_queue)
      /\ status' = Fired(U, "error") /\ peer_outstanding' = peer_outstanding - Len(Unanswered)
      /\ inRequests' = <<>> /\ reading' = FALSE /\ readPersistent' = "no"
      /\ disconnecting' = FALSE /\ request_queue' = request_queue
  BY DEF ConnectionLost
<1>2. Unanswered' = <<>>
  BY <1>1 DEF Unanswered
<1>3. /\ status' \in [Reqs -> {"none", "pending", "answered", "error"}]
      /\ {x \in Reqs : status'[x] = "pending"} = {x \in Reqs : status[x] = "pending"} \ U
  <2> HIDE DEF PeerInv
  <2> QED  BY <1>1, PendingFire
<1>4. Books(request_queue', Unanswered', status')
  BY <1>1, <1>2, <1>3, MembersEmpty DEF Books
<1>5. /\ busy' = FALSE /\ pipeline' = FALSE /\ closed' = TRUE /\ connecting' = FALSE
      /\ scheduled' \in 0..MaxScheduled /\ (request_queue' # <<>> => scheduled' > 0)
  BY <1>1, ClientGoneStep DEF PeerTypeOK
<1>6. peer_outstanding' = 0 /\ peer_outstanding' = Len(Unanswered')
  BY <1>1, <1>2, UnansweredType, MembersEmpty
<1>7. PeerTypeOK'
  <2>1. {connecting', closed', busy', pipeline', reading', disconnecting'} \subseteq BOOLEAN
    BY <1>1, <1>5
  <2>2. /\ request_queue' \in Seq(Reqs) /\ inRequests' \in Seq(Reqs) /\ peer_outstanding' \in Nat
        /\ readPersistent' \in Persistence
    BY <1>1, <1>6, MembersEmpty DEF PeerTypeOK, Persistence
  <2> QED  BY <1>3, <1>5, <2>1, <2>2 DEF PeerTypeOK
<1>8. Connection' /\ NeverForgotten'
  BY <1>1, <1>5 DEF Connection, NeverForgotten
<1> QED  BY <1>4, <1>6, <1>7, <1>8

\* A response that the protocol cannot read.
LEMMA MalformedStep ==
    ASSUME PeerInv, ResponseMalformed
    PROVE  PeerInv'
<1> USE DEF PeerInv
<1> DEFINE U == Members(Unanswered)
<1>1. /\ ~closed /\ inRequests # <<>> /\ ~reading
      /\ status' = Fired(Members(inRequests), "error") /\ peer_outstanding' = peer_outstanding - Len(inRequests)
      /\ inRequests' = <<>> /\ readPersistent' = "no" /\ disconnecting' = TRUE
      /\ UNCHANGED <<request_queue, connecting, closed, busy, pipeline, scheduled, reading>>
  BY DEF ResponseMalformed, Readable
<1>2. Unanswered = inRequests /\ Unanswered' = <<>>
  BY <1>1 DEF Unanswered
<1>3. /\ status' \in [Reqs -> {"none", "pending", "answered", "error"}]
      /\ {x \in Reqs : status'[x] = "pending"} = {x \in Reqs : status[x] = "pending"} \ U
  <2> HIDE DEF PeerInv
  <2> QED  BY <1>1, <1>2, PendingFire
<1>4. Books(request_queue', Unanswered', status')
  BY <1>1, <1>2, <1>3, MembersEmpty DEF Books
<1>5. peer_outstanding' = 0 /\ peer_outstanding' = Len(Unanswered')
  BY <1>1, <1>2, UnansweredType, MembersEmpty
<1>6. PeerTypeOK'
  BY <1>1, <1>3, <1>5, MembersEmpty DEF PeerTypeOK, Persistence
<1>7. Connection' /\ NeverForgotten'
  BY <1>1 DEF Connection, NeverForgotten
<1> QED  BY <1>4, <1>5, <1>6, <1>7

\* The end of the body of a response.
LEMMA ResponseEndsStep ==
    ASSUME PeerInv, ResponseEnds
    PROVE  PeerInv'
<1> USE DEF PeerInv
<1>1. /\ ~closed /\ ~disconnecting /\ inRequests # <<>> /\ reading
      /\ reading' = FALSE /\ inRequests' = Tail(inRequests)
      /\ UNCHANGED <<request_queue, connecting, closed, pipeline, peer_outstanding, readPersistent, status>>
      /\ \/ /\ Tail(inRequests) # <<>>
            /\ UNCHANGED <<busy, scheduled, disconnecting>>
         \/ /\ Tail(inRequests) = <<>> /\ readPersistent # "no"
            /\ busy' = FALSE /\ disconnecting' = disconnecting
            /\ scheduled' = scheduled + 1 /\ scheduled < MaxScheduled
         \/ /\ Tail(inRequests) = <<>> /\ readPersistent = "no"
            /\ disconnecting' = TRUE /\ UNCHANGED <<busy, scheduled>>
  BY DEF ResponseEnds, Readable, CallProcessQueue
<1>2. Unanswered' = Unanswered
  BY <1>1 DEF Unanswered
<1>3. inRequests' \in Seq(Reqs) /\ Len(inRequests') = Len(inRequests) - 1
  BY <1>1, HeadTailProperties DEF PeerTypeOK
<1>4. PeerTypeOK'
  <2>1. scheduled' \in 0..MaxScheduled
    BY <1>1, MaxScheduledAssumption DEF PeerTypeOK
  <2>2. busy' \in BOOLEAN /\ reading' \in BOOLEAN /\ disconnecting' \in BOOLEAN
    BY <1>1 DEF PeerTypeOK
  <2> QED  BY <1>1, <1>3, <2>1, <2>2 DEF PeerTypeOK
<1>5. Connection'
  <2>1. readPersistent = "no" => Len(inRequests') = 0
    BY <1>1, <1>3 DEF Connection
  <2>2. readPersistent = "no" => inRequests' = <<>>
    BY <1>3, <2>1, EmptySeq
  <2> QED  BY <1>1, <2>2 DEF Connection
<1>6. NeverForgotten'
  BY <1>1, MaxScheduledAssumption DEF NeverForgotten, PeerTypeOK
<1> QED  BY <1>1, <1>2, <1>4, <1>5, <1>6

\* The first request in the protocol, and those behind it.
LEMMA FirstUnanswered ==
    ASSUME PeerInv, ~reading, inRequests # <<>>
    PROVE  /\ Unanswered = inRequests /\ inRequests \in Seq(Reqs)
           /\ Head(inRequests) \in Reqs /\ status[Head(inRequests)] = "pending"
           /\ Tail(inRequests) \in Seq(Reqs) /\ Distinct(Tail(inRequests))
           /\ Len(inRequests) \in Nat /\ Len(Tail(inRequests)) = Len(inRequests) - 1
           /\ Members(inRequests) = {Head(inRequests)} \cup Members(Tail(inRequests))
           /\ Head(inRequests) \notin Members(Tail(inRequests))
<1>1. Unanswered = inRequests /\ inRequests \in Seq(Reqs) /\ Distinct(inRequests)
  BY DEF Unanswered, PeerInv, PeerTypeOK, Books
<1>2. Len(inRequests) \in Nat
  BY <1>1, LenProperties
<1>3. Head(inRequests) \in Members(Unanswered)
  BY <1>1, MembersTail
<1>4. status[Head(inRequests)] = "pending"
  BY <1>3 DEF PeerInv, Books
<1> QED  BY <1>1, <1>2, <1>4, MembersTail

\* All but the first fail, and the first is answered.
LEMMA AbortedStep ==
    ASSUME PeerInv, ResponseBegins("no")
    PROVE  PeerInv'
<1> DEFINE r == Head(inRequests)
           U == Members(inRequests)
<1>1. /\ ~closed /\ ~disconnecting /\ inRequests # <<>> /\ ~reading
      /\ reading' = TRUE /\ readPersistent' = "no" /\ inRequests' = <<r>>
      /\ status' = [Fired(Members(Tail(inRequests)), "error")
                       EXCEPT ![r] = Fired({r}, "answered")[r]]
      /\ peer_outstanding' = peer_outstanding - Len(inRequests)
      /\ UNCHANGED <<pipeline, scheduled, request_queue, connecting, closed, busy, disconnecting>>
  BY DEF ResponseBegins, Readable
<1>2. Unanswered' = <<>> /\ Len(inRequests') = 1 /\ inRequests' # <<>> /\ inRequests' \in Seq(Reqs)
  BY <1>1, FirstUnanswered, MembersOne DEF Unanswered
<1>3. /\ Fired({r}, "answered")[r] = "answered"
      /\ \A x \in Reqs : Fired(Members(Tail(inRequests)), "error")[x]
                          = IF x \in Members(Tail(inRequests)) THEN "error" ELSE status[x]
      /\ Fired(Members(Tail(inRequests)), "error") \in [Reqs -> {"none", "pending", "answered", "error"}]
  <2>1. Members(Tail(inRequests)) \subseteq Members(Unanswered) /\ {r} \subseteq Members(Unanswered)
        /\ r \in Reqs
    BY <1>1, FirstUnanswered
  <2> QED  BY <2>1, PendingFire
<1>4. \A x \in Reqs : status'[x] = IF x = r THEN "answered"
                                   ELSE IF x \in U THEN "error" ELSE status[x]
  BY <1>1, <1>3, FirstUnanswered
<1>5. status' \in [Reqs -> {"none", "pending", "answered", "error"}]
  BY <1>1, <1>3
<1>6. {x \in Reqs : status'[x] = "pending"} = {x \in Reqs : status[x] = "pending"} \ U
  <2>1. r \in U
    BY <1>1, FirstUnanswered
  <2>2. \A x \in Reqs : status'[x] = "pending" <=> (status[x] = "pending" /\ x \notin U)
    <3> HIDE DEF r, U
    <3> QED  BY <1>4, <2>1
  <2> HIDE DEF U
  <2> QED  BY <2>2
<1>7. Books(request_queue', Unanswered', status')
  BY <1>1, <1>2, <1>6, MembersEmpty, FirstUnanswered DEF Books, PeerInv
<1>8. peer_outstanding' = 0 /\ peer_outstanding' = Len(Unanswered')
  BY <1>1, <1>2, FirstUnanswered, MembersEmpty DEF PeerInv
<1>9. PeerTypeOK'
  BY <1>1, <1>2, <1>5, <1>8 DEF PeerTypeOK, PeerInv, Persistence
<1>10. Connection' /\ NeverForgotten'
  BY <1>1, <1>2 DEF Connection, NeverForgotten, PeerInv
<1> QED  BY <1>7, <1>8, <1>9, <1>10 DEF PeerInv

\* A response after which the connection is kept: its request is answered.
LEMMA KeptStep ==
    ASSUME PeerInv, NEW persist \in {"no_pipeline", "pipeline"}, ResponseBegins(persist)
    PROVE  PeerInv'
<1> DEFINE r == Head(inRequests)
<1>1. /\ ~closed /\ ~disconnecting /\ inRequests # <<>> /\ ~reading
      /\ reading' = TRUE /\ readPersistent' = persist /\ inRequests' = inRequests
      /\ status' = Fired({r}, "answered") /\ peer_outstanding' = peer_outstanding - 1
      /\ \/ pipeline' = TRUE /\ scheduled' = scheduled + 1 /\ scheduled < MaxScheduled
         \/ UNCHANGED <<pipeline, scheduled>>
      /\ UNCHANGED <<request_queue, connecting, closed, busy, disconnecting>>
  BY DEF ResponseBegins, Readable, CallProcessQueue
<1>2. Unanswered' = Tail(inRequests)
  BY <1>1 DEF Unanswered
<1>3. /\ status' \in [Reqs -> {"none", "pending", "answered", "error"}]
      /\ {x \in Reqs : status'[x] = "pending"} = {x \in Reqs : status[x] = "pending"} \ {r}
  <2>1. {r} \subseteq Members(Unanswered)
    BY <1>1, FirstUnanswered
  <2> QED  BY <1>1, <2>1, PendingFire
<1>4. Books(request_queue', Unanswered', status')
  <2>1. Books(request_queue, inRequests, status)
    BY <1>1, FirstUnanswered DEF PeerInv
  <2>2. /\ Members(inRequests) = {r} \cup Members(Tail(inRequests))
        /\ r \notin Members(Tail(inRequests)) /\ Distinct(Tail(inRequests))
    BY <1>1, FirstUnanswered
  <2> DEFINE Q == Members(request_queue)
             T == Members(Tail(inRequests))
  <2>3. /\ Q \cup ({r} \cup T) = {x \in Reqs : status[x] = "pending"}
        /\ Q \cap ({r} \cup T) = {} /\ Distinct(request_queue)
    BY <2>1, <2>2 DEF Books
  <2>4. Q \cap T = {} /\ Q \cup T = {x \in Reqs : status[x] = "pending"} \ {r}
    <3> HIDE DEF r, Q, T
    <3> QED  BY <2>2, <2>3 DEF T
  <2>5. Q \cup T = {x \in Reqs : status'[x] = "pending"}
    BY <1>3, <2>4
  <2> QED  BY <1>1, <1>2, <2>2, <2>3, <2>4, <2>5 DEF Books
<1>5. peer_outstanding' = Len(Unanswered') /\ peer_outstanding' \in Nat
  BY <1>1, <1>2, FirstUnanswered, LenProperties DEF PeerInv
<1>6. PeerTypeOK'
  <2>1. scheduled' \in 0..MaxScheduled
    BY <1>1, MaxScheduledAssumption DEF PeerTypeOK, PeerInv
  <2>2. pipeline' \in BOOLEAN /\ reading' \in BOOLEAN
    BY <1>1 DEF PeerTypeOK, PeerInv
  <2> QED  BY <1>1, <1>3, <1>5, <2>1, <2>2 DEF PeerTypeOK, PeerInv, Persistence
<1>7. Connection' /\ NeverForgotten'
  BY <1>1 DEF Connection, NeverForgotten, PeerInv
<1> QED  BY <1>4, <1>5, <1>6, <1>7 DEF PeerInv

\* close() when the peer is dropped.
LEMMA CloseStep == ASSUME PeerInv, Close PROVE PeerInv'
<1>1. /\ ~closed /\ disconnecting' = TRUE
      /\ UNCHANGED <<request_queue, connecting, closed, busy, pipeline, peer_outstanding, scheduled,
                     inRequests, reading, readPersistent, status>>
  BY DEF Close
<1>2. Unanswered' = Unanswered
  BY <1>1 DEF Unanswered
<1>3. PeerTypeOK' /\ Connection' /\ NeverForgotten'
  BY <1>1 DEF PeerInv, PeerTypeOK, Connection, NeverForgotten
<1> QED  BY <1>1, <1>2, <1>3 DEF PeerInv

\* Every step preserves the invariant.
LEMMA PeerInductive == PeerInv /\ [PeerNext]_peerVars => PeerInv'
<1> SUFFICES ASSUME PeerInv, [PeerNext]_peerVars PROVE PeerInv'
  OBVIOUS
<1>1. CASE \E r \in Reqs : SubmitRequest(r)
  BY <1>1, SubmitRequestStep
<1>2. CASE ProcessQueue
  BY <1>2, ConnectStep, SendStep
<1>3. CASE ConnectEnds
  BY <1>3, ConnectedStep, ConnectionErrorStep DEF ConnectEnds
<1>4. CASE \E persist \in Persistence : ResponseBegins(persist)
  BY <1>4, AbortedStep, KeptStep DEF Persistence
<1>5. CASE ResponseMalformed \/ ResponseEnds
  BY <1>5, MalformedStep, ResponseEndsStep
<1>6. CASE Close \/ ConnectionLost
  BY <1>6, CloseStep, ConnectionLostStep
<1>7. CASE UNCHANGED peerVars
  BY <1>7 DEF peerVars, proto, PeerInv, PeerTypeOK, Connection, NeverForgotten, Unanswered
<1> QED  BY <1>1, <1>2, <1>3, <1>4, <1>5, <1>6, <1>7 DEF PeerNext, PeerResponse

\* PeerInv holds in every reachable state of a connection.
THEOREM PeerInvariance == PeerSpec => []PeerInv
<1>1. PeerInit => PeerInv
  <2> SUFFICES ASSUME PeerInit PROVE PeerInv
    OBVIOUS
  <2>1. Unanswered = <<>> /\ request_queue = <<>> /\ peer_outstanding = 0
    BY DEF PeerInit, Unanswered
  <2>2. PeerTypeOK
    <3>1. 0 \in 0..MaxScheduled /\ 0 \in Nat
      BY MaxScheduledAssumption
    <3> QED  BY <3>1, MembersEmpty DEF PeerInit, PeerTypeOK, Persistence
  <2>3. Books(request_queue, Unanswered, status)
    BY <2>1, MembersEmpty DEF PeerInit, Books
  <2>4. Connection /\ NeverForgotten
    BY DEF PeerInit, Connection, NeverForgotten
  <2> QED  BY <2>1, <2>2, <2>3, <2>4, MembersEmpty DEF PeerInv
<1>2. PeerInv /\ [PeerNext]_peerVars => PeerInv'
  BY PeerInductive
<1> QED  BY <1>1, <1>2, PTL DEF PeerSpec, PeerSafety

\* A request that has not been answered is in the queue or in the protocol, and in one of
\* them only, once: nothing is lost or answered twice when a connection is lost, closed
\* after a response or turned back from pipelining.
THEOREM PeerPendingIsHeld == PeerSpec => []PendingIsHeld
<1>1. PeerInv => PendingIsHeld
  <2> SUFFICES ASSUME PeerInv PROVE PendingIsHeld
    OBVIOUS
  <2>1. request_queue \in Seq(Reqs) /\ Unanswered \in Seq(Reqs)
    BY UnansweredType DEF PeerInv, PeerTypeOK
  <2>2. /\ Members(request_queue \o Unanswered) = {r \in Reqs : status[r] = "pending"}
        /\ Distinct(request_queue \o Unanswered)
    BY <2>1, BooksHold DEF PeerInv, Books
  <2> QED  BY <2>2 DEF PeerInv, Connection, Distinct, PendingIsHeld
<1> QED  BY <1>1, PeerInvariance, PTL

\* A queue with requests is looked at again: a call of processQueue is scheduled whenever
\* nothing else would lead to one.
THEOREM PeerNeverForgotten == PeerSpec => []NeverForgotten
<1>1. PeerInv => NeverForgotten
  BY DEF PeerInv
<1> QED  BY <1>1, PeerInvariance, PTL

-----------------------------------------------------------------------------
(* The refinement of RequestOnce. *)

\* Deferreds that fire together, the first with an outcome of its own.
LEMMA FiringIsConclude ==
    ASSUME NEW R \in SUBSET Reqs, NEW first \in R,
           NEW outcome \in {"answered", "error"}, NEW others \in {"answered", "error"},
           \A r \in R : status[r] = "pending",
           status' = [r \in Reqs |-> IF r = first THEN outcome
                                     ELSE IF r \in R THEN others ELSE status[r]]
    PROVE  Once!Next
<1>1. Once!Concluded = R
  BY DEF Once!Concluded
<1>2. Once!Conclude(R)
  BY DEF Once!Conclude, Once!Outcomes
<1> QED  BY <1>1, <1>2 DEF Once!Next

\* Those that fail together, if there are any.
LEMMA FailureIsConclude ==
    ASSUME PeerInv, NEW R, R \subseteq Members(request_queue) \cup Members(Unanswered),
           NEW o \in {"answered", "error"}, status' = Fired(R, o)
    PROVE  Once!Next \/ status' = status
<1>1. R \in SUBSET Reqs /\ \A r \in R : status[r] = "pending"
  BY DEF PeerInv, Books
<1>2. status' = [r \in Reqs |-> IF r \in R THEN o ELSE status[r]]
  BY PendingFire
<1>3. CASE R = {}
  <2>1. status = [r \in Reqs |-> status[r]]
    BY DEF PeerInv, PeerTypeOK
  <2> QED  BY <1>2, <1>3, <2>1
<1>4. ASSUME NEW first \in R PROVE Once!Next
  <2>1. status' = [r \in Reqs |-> IF r = first THEN o ELSE IF r \in R THEN o ELSE status[r]]
    BY <1>2, <1>4
  <2> QED  BY <1>1, <1>4, <2>1, FiringIsConclude
<1> QED  BY <1>3, <1>4

\* Every step makes a request, concludes pending ones, or changes no Deferred.
LEMMA NextIsPeerOnce == PeerInv /\ [PeerNext]_peerVars => [Once!Next]_status
<1> SUFFICES ASSUME PeerInv, [PeerNext]_peerVars PROVE Once!Next \/ status' = status
  OBVIOUS
<1>1. ASSUME NEW r \in Reqs, SubmitRequest(r) PROVE Once!Next
  <2>1. Once!Issue(r)
    BY <1>1 DEF SubmitRequest, Once!Issue
  <2> QED  BY <2>1 DEF Once!Next
<1>2. CASE ProcessQueue
  BY <1>2 DEF ProcessQueue, Connect, Send
<1>3. CASE Connected \/ ResponseEnds \/ Close
  BY <1>3 DEF Connected, ResponseEnds, Close
<1>4. CASE ConnectionError
  <2>1. request_queue # <<>> /\ status' = Fired({Head(request_queue)}, "error")
    BY <1>4 DEF ConnectionError
  <2>2. {Head(request_queue)} \subseteq Members(request_queue)
    BY <2>1, MembersTail DEF PeerInv, PeerTypeOK, Books
  <2> QED  BY <2>1, <2>2, FailureIsConclude
<1>5. CASE ResponseMalformed
  <2>1. inRequests # <<>> /\ ~reading /\ status' = Fired(Members(inRequests), "error")
    BY <1>5 DEF ResponseMalformed, Readable
  <2> QED  BY <2>1, FirstUnanswered, FailureIsConclude
<1>6. CASE ConnectionLost
  <2>1. status' = Fired(Members(Unanswered), "error")
    BY <1>6 DEF ConnectionLost
  <2> QED  BY <2>1, FailureIsConclude
<1>7. ASSUME NEW persist \in {"no_pipeline", "pipeline"}, ResponseBegins(persist)
      PROVE  Once!Next \/ status' = status
  <2>1. inRequests # <<>> /\ ~reading /\ status' = Fired({Head(inRequests)}, "answered")
    BY <1>7 DEF ResponseBegins, Readable
  <2>2. {Head(inRequests)} \subseteq Members(Unanswered)
    BY <2>1, FirstUnanswered
  <2> QED  BY <2>1, <2>2, FailureIsConclude
<1>8. CASE ResponseBegins("no")
  <2> DEFINE r == Head(inRequests)
             U == Members(inRequests)
             T == Members(Tail(inRequests))
  <2>1. /\ inRequests # <<>> /\ ~reading
        /\ status' = [Fired(T, "error") EXCEPT ![r] = Fired({r}, "answered")[r]]
    BY <1>8 DEF ResponseBegins, Readable
  <2>2. /\ U = {r} \cup T /\ r \in Reqs /\ r \notin T /\ U = Members(Unanswered)
    BY <2>1, FirstUnanswered
  <2>3. U \in SUBSET Reqs /\ \A x \in U : status[x] = "pending"
    BY <2>2 DEF PeerInv, Books
  <2>4. /\ Fired({r}, "answered")[r] = "answered"
        /\ Fired(T, "error") = [x \in Reqs |-> IF x \in T THEN "error" ELSE status[x]]
    <3>1. {r} \subseteq Members(Unanswered) /\ T \subseteq Members(Unanswered)
      BY <2>2
    <3> HIDE DEF r, T
    <3> QED  BY <2>2, <3>1, PendingFire
  <2>5. status' = [x \in Reqs |-> IF x = r THEN "answered" ELSE IF x \in U THEN "error" ELSE status[x]]
    <3> HIDE DEF r, T, U
    <3> QED  BY <2>1, <2>2, <2>4
  <2> HIDE DEF r, T, U
  <2> QED  BY <2>2, <2>3, <2>5, FiringIsConclude
<1>9. CASE UNCHANGED peerVars
  BY <1>9 DEF peerVars
<1> QED
  BY <1>1, <1>2, <1>3, <1>4, <1>5, <1>6, <1>7, <1>8, <1>9
  DEF PeerNext, ConnectEnds, PeerResponse, Persistence

\* The Deferred of every request to a peer fires once at most, and only when it was made.
THEOREM PeerRefinesRequestOnce == PeerSpec => Once!Safety
<1>1. PeerInit => Once!Init
  BY DEF PeerInit, Once!Init
<1> QED  BY <1>1, PeerInvariance, NextIsPeerOnce, PTL DEF PeerSpec, PeerSafety, Once!Safety
=============================================================================
